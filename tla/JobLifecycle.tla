---------------------------- MODULE JobLifecycle ----------------------------
(***************************************************************************)
(* What the job store promises its callers, with the queue, the pool, the  *)
(* waiter table and the shutdown sequence hidden: a request becomes at     *)
(* most one job, a job is settled at most once and for good, and an answer *)
(* that names an outcome names the one the job settled with.               *)
(***************************************************************************)
CONSTANT Requests   \* the requests that may each become one job

VARIABLES status,   \* status[r]: the life of r's job
          answer    \* answer[r]: what r's client has been told

vars == <<status, answer>>

Outcomes == {"done", "failed"}
Statuses == {"absent", "pending"} \cup Outcomes
Answers  == {"none", "rejected", "aborted", "refused", "accepted", "timeout"} \cup Outcomes

TypeOK == /\ status \in [Requests -> Statuses]
          /\ answer \in [Requests -> Answers]

Init == /\ status = [r \in Requests |-> "absent"]
        /\ answer = [r \in Requests |-> "none"]

(* The request is recorded as a job that has not run yet. *)
Admit(r) == /\ status[r] = "absent"
            /\ answer[r] = "none"
            /\ status' = [status EXCEPT ![r] = "pending"]
            /\ UNCHANGED answer

(* The job ends, once. *)
Settle(r) == /\ status[r] = "pending"
             /\ \E o \in Outcomes : status' = [status EXCEPT ![r] = o]
             /\ UNCHANGED answer

(* What a client may be told, given where its job stands. *)
Truthful(a, s) ==
  \/ a = "rejected" /\ s = "absent"
  \/ a = "refused"  /\ s = "failed"
  \/ a = "aborted"  /\ s = "pending"
  \/ a \in {"accepted", "timeout"} /\ s # "absent"
  \/ a \in Outcomes /\ a = s

Tell(r) == /\ answer[r] = "none"
           /\ \E a \in Answers \ {"none"} :
                 /\ Truthful(a, status[r])
                 /\ answer' = [answer EXCEPT ![r] = a]
           /\ UNCHANGED status

Next == \E r \in Requests : Admit(r) \/ Settle(r) \/ Tell(r)

Spec == Init /\ [][Next]_vars
=============================================================================
