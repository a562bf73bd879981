------------------------------ MODULE JobStore ------------------------------
(***************************************************************************)
(* The in-memory job store and worker pool (src/internal/jobs/jobs.go),    *)
(* the two handlers that feed it (submitJob in src/internal/api/api.go)    *)
(* and the graceful stop that takes it down (src/cmd/dolico/main.go).      *)
(*                                                                         *)
(* Three kinds of goroutine share the store: one HTTP handler per request, *)
(* the pool's workers, and main once it has a signal.  A step is what runs *)
(* between two points where another goroutine can get in: a critical       *)
(* section of Store.mu, a channel operation, or the end of the work.       *)
(* A request becomes at most one job, so the request also names the job.   *)
(***************************************************************************)
EXTENDS Integers, Sequences, FiniteSets

CONSTANTS Requests,        \* the HTTP requests that may submit a job
          NoJob,           \* what a worker holds between two jobs
          WorkerSetting,   \* NewStore's workers argument
          DepthSetting,    \* NewStore's queueDepth argument
          ProgressStates   \* the states the work reports with SetState

ASSUME JobStoreAssumption ==
  /\ NoJob \notin Requests
  /\ WorkerSetting \in Int
  /\ DepthSetting \in Int
  /\ ProgressStates \subseteq {"extracting", "storing"}

(* NewStore never builds a pool of nobody nor a queue shorter than the pool. *)
PoolSize == IF WorkerSetting < 1 THEN 1 ELSE WorkerSetting
Capacity == IF DepthSetting < PoolSize THEN PoolSize * 8 ELSE DepthSetting
Pool     == 1..PoolSize

Terminal(s) == s \in {"done", "failed"}

States == {"none", "queued", "inspecting", "extracting", "storing", "done", "failed"}

(* "none": ErrorKind is empty; "work": any kind the work returns with its error. *)
ErrorKinds == {"none", "queue_full", "work", "internal"}

VARIABLES
  state,      \* state[r]: Job.State; "none" until Submit records the job
  kind,       \* kind[r]: Job.ErrorKind
  queue,      \* the ids buffered in Store.queue
  closed,     \* close(Store.queue) has happened
  waiting,    \* Store.waiters: the requests with a channel in the table
  woken,      \* the requests whose channel notify has closed
  handler,    \* handler[r]: where the handler of r is
  reply,      \* reply[r]: the state Wait returned to r
  workerAt,   \* workerAt[w]: where worker w is
  workerJob,  \* workerJob[w]: the job it holds
  phase,      \* where main is
  deadline,   \* the 30 s context of the graceful stop has expired
  cancelled,  \* Store.cancel has been called
  drained     \* Shutdown returned nil

jobVars     == <<state, kind, waiting, woken>>
handlerVars == <<handler, reply>>
workerVars  == <<workerAt, workerJob>>
mainVars    == <<phase, deadline, cancelled, drained>>
vars == <<jobVars, queue, closed, handlerVars, workerVars, mainVars>>

(* Handlers that have answered, or died; the others hold up the HTTP drain. *)
Ended == {"rejected", "refused", "accepted", "answered", "timedout", "panicked"}

(* Handlers whose Submit has returned nil. *)
Sent == {"sent", "blocked", "accepted", "answered", "timedout"}

HandlerPoints == Ended \cup Sent \cup {"idle", "open", "registered", "overflowed"}
WorkerPoints  == {"select", "taken", "working", "exited"}
Phases        == {"serving", "draining", "stopping", "cancelled", "exited"}

Init ==
  /\ state = [r \in Requests |-> "none"]
  /\ kind = [r \in Requests |-> "none"]
  /\ queue = <<>>
  /\ closed = FALSE
  /\ waiting = {} /\ woken = {}
  /\ handler = [r \in Requests |-> "idle"]
  /\ reply = [r \in Requests |-> "none"]
  /\ workerAt = [w \in Pool |-> "select"]
  /\ workerJob = [w \in Pool |-> NoJob]
  /\ phase = "serving"
  /\ deadline = FALSE /\ cancelled = FALSE /\ drained = FALSE

(* The process is there to take steps. *)
Alive == phase # "exited"

-----------------------------------------------------------------------------
(* The critical sections that end a job. *)

(* MUTANT of notify: nobody is woken. *)
NotifyForgets(r) == UNCHANGED <<waiting, woken>>

(* notify closes the channels of r and drops them from the table. *)
notify(r) == /\ woken' = woken \cup (waiting \cap {r})
             /\ waiting' = waiting \ {r}

complete(r) == /\ state' = [state EXCEPT ![r] = "done"]
               /\ UNCHANGED kind
               /\ notify(r)

fail(r, k) == /\ state' = [state EXCEPT ![r] = "failed"]
              /\ kind' = [kind EXCEPT ![r] = k]
              /\ notify(r)

-----------------------------------------------------------------------------
(* The handler of request r. *)

At(r, point) == Alive /\ handler[r] = point
Goto(r, point) == handler' = [handler EXCEPT ![r] = point]

(* The server hands r to a goroutine, which reads the upload or checks the  *)
(* stored document before it gets to Submit.                                *)
Arrive(r) == /\ At(r, "idle") /\ phase = "serving"
             /\ Goto(r, "open")
             /\ UNCHANGED <<jobVars, queue, closed, reply, workerVars, mainVars>>

(* The upload is refused or fails, or the document to extract is not here. *)
Reject(r) == /\ At(r, "open")
             /\ Goto(r, "rejected")
             /\ UNCHANGED <<jobVars, queue, closed, reply, workerVars, mainVars>>

(* Submit records the job ... *)
SubmitRecord(r) == /\ At(r, "open")
                   /\ state' = [state EXCEPT ![r] = "queued"]
                   /\ Goto(r, "registered")
                   /\ UNCHANGED <<kind, waiting, woken, queue, closed, reply,
                                  workerVars, mainVars>>

(* MUTANT of SubmitSend: the queue has no limit. *)
SubmitSendUnbounded(r) == /\ At(r, "registered") /\ ~closed
                          /\ queue' = Append(queue, r)
                          /\ Goto(r, "sent")
                          /\ UNCHANGED <<jobVars, closed, reply, workerVars, mainVars>>

(* ... and offers its id to the queue without blocking. *)
SubmitSend(r) == /\ At(r, "registered") /\ ~closed
                 /\ Len(queue) < Capacity
                 /\ queue' = Append(queue, r)
                 /\ Goto(r, "sent")
                 /\ UNCHANGED <<jobVars, closed, reply, workerVars, mainVars>>

(* MUTANT of SubmitFull: the refused job is left as it was recorded. *)
SubmitFullForgets(r) == /\ At(r, "registered") /\ ~closed
                        /\ Len(queue) = Capacity
                        /\ Goto(r, "overflowed")
                        /\ UNCHANGED <<jobVars, queue, closed, reply, workerVars, mainVars>>

SubmitFull(r) == /\ At(r, "registered") /\ ~closed
                 /\ Len(queue) = Capacity
                 /\ fail(r, "queue_full")
                 /\ Goto(r, "overflowed")
                 /\ UNCHANGED <<queue, closed, reply, workerVars, mainVars>>

(* A send on a closed channel panics, in a select with a default as well. *)
(* net/http recovers the panic and drops the connection.                  *)
SubmitPanics(r) == /\ At(r, "registered") /\ closed
                   /\ Goto(r, "panicked")
                   /\ UNCHANGED <<jobVars, queue, closed, reply, workerVars, mainVars>>

AnswerFull(r) == /\ At(r, "overflowed")
                 /\ Goto(r, "refused")
                 /\ UNCHANGED <<jobVars, queue, closed, reply, workerVars, mainVars>>

AnswerAccepted(r) == /\ At(r, "sent")
                     /\ Goto(r, "accepted")
                     /\ UNCHANGED <<jobVars, queue, closed, reply, workerVars, mainVars>>

(* Wait under the lock: the job is over, and its copy is the answer ... *)
WaitOver(r) == /\ At(r, "sent") /\ Terminal(state[r])
               /\ reply' = [reply EXCEPT ![r] = state[r]]
               /\ Goto(r, "answered")
               /\ UNCHANGED <<jobVars, queue, closed, workerVars, mainVars>>

(* MUTANT of WaitRegister: the state is not read in the critical section *)
(* that registers the channel.                                           *)
WaitRegisterBlind(r) == /\ At(r, "sent")
                        /\ waiting' = waiting \cup {r}
                        /\ Goto(r, "blocked")
                        /\ UNCHANGED <<state, kind, woken, queue, closed, reply,
                                       workerVars, mainVars>>

(* ... or it is not, and a channel goes into the table. *)
WaitRegister(r) == /\ At(r, "sent") /\ ~Terminal(state[r])
                   /\ waiting' = waiting \cup {r}
                   /\ Goto(r, "blocked")
                   /\ UNCHANGED <<state, kind, woken, queue, closed, reply,
                                  workerVars, mainVars>>

(* MUTANT of WaitWake: the answer is the copy made before the channel went *)
(* into the table.                                                         *)
WaitWakeStale(r) == /\ At(r, "blocked") /\ r \in woken
                    /\ reply' = [reply EXCEPT ![r] = "queued"]
                    /\ Goto(r, "answered")
                    /\ UNCHANGED <<jobVars, queue, closed, workerVars, mainVars>>

(* The channel is closed: Wait reads the job again. *)
WaitWake(r) == /\ At(r, "blocked") /\ r \in woken
               /\ reply' = [reply EXCEPT ![r] = state[r]]
               /\ Goto(r, "answered")
               /\ UNCHANGED <<jobVars, queue, closed, workerVars, mainVars>>

(* The WaitTimeout passes or the client goes away.  The channel stays in *)
(* the table, for notify to close.                                       *)
WaitTimeout(r) == /\ At(r, "blocked")
                  /\ Goto(r, "timedout")
                  /\ UNCHANGED <<jobVars, queue, closed, reply, workerVars, mainVars>>

-----------------------------------------------------------------------------
(* The pool. *)

WorkerGoto(w, point, j) == /\ workerAt' = [workerAt EXCEPT ![w] = point]
                           /\ workerJob' = [workerJob EXCEPT ![w] = j]

(* MUTANT of Take: the id stays in the queue. *)
TakeKeeps(w) == /\ Alive /\ workerAt[w] = "select"
                /\ queue # <<>>
                /\ WorkerGoto(w, "taken", Head(queue))
                /\ UNCHANGED <<jobVars, queue, closed, handlerVars, mainVars>>

(* A worker receives an id; select may pick this over a cancelled context. *)
Take(w) == /\ Alive /\ workerAt[w] = "select"
           /\ queue # <<>>
           /\ queue' = Tail(queue)
           /\ WorkerGoto(w, "taken", Head(queue))
           /\ UNCHANGED <<jobVars, closed, handlerVars, mainVars>>

(* run marks the job as started and leaves the lock for the work. *)
Start(w) == /\ Alive /\ workerAt[w] = "taken"
            /\ state' = [state EXCEPT ![workerJob[w]] = "inspecting"]
            /\ WorkerGoto(w, "working", workerJob[w])
            /\ UNCHANGED <<kind, waiting, woken, queue, closed, handlerVars, mainVars>>

Finish(w) == /\ Alive /\ workerAt[w] = "working"
             /\ complete(workerJob[w])
             /\ WorkerGoto(w, "select", NoJob)
             /\ UNCHANGED <<queue, closed, handlerVars, mainVars>>

(* MUTANT of Break: a panic takes the worker with it. *)
BreakUnrecovered(w, k) == /\ Alive /\ workerAt[w] = "working"
                          /\ IF k = "internal"
                             THEN /\ WorkerGoto(w, "exited", NoJob)
                                  /\ UNCHANGED jobVars
                             ELSE /\ fail(workerJob[w], k)
                                  /\ WorkerGoto(w, "select", NoJob)
                          /\ UNCHANGED <<queue, closed, handlerVars, mainVars>>

(* The work returned an error, or panicked and run recovered it. *)
Break(w, k) == /\ Alive /\ workerAt[w] = "working"
               /\ fail(workerJob[w], k)
               /\ WorkerGoto(w, "select", NoJob)
               /\ UNCHANGED <<queue, closed, handlerVars, mainVars>>

(* MUTANT of WorkerExit: the worker leaves what is still in the queue. *)
WorkerExitEarly(w) == /\ Alive /\ workerAt[w] = "select"
                      /\ cancelled \/ closed
                      /\ WorkerGoto(w, "exited", NoJob)
                      /\ UNCHANGED <<jobVars, queue, closed, handlerVars, mainVars>>

(* The context is cancelled, or the queue is closed and empty. *)
WorkerExit(w) == /\ Alive /\ workerAt[w] = "select"
                 /\ cancelled \/ (closed /\ queue = <<>>)
                 /\ WorkerGoto(w, "exited", NoJob)
                 /\ UNCHANGED <<jobVars, queue, closed, handlerVars, mainVars>>

(* A progress report about a job whose work has started.  It comes from     *)
(* outside the lock, so the job may be over by the time it gets in.         *)
SetState(r, s) == /\ Alive /\ state[r] \notin {"none", "queued"}
                  /\ ~Terminal(state[r])
                  /\ state' = [state EXCEPT ![r] = s]
                  /\ UNCHANGED <<kind, waiting, woken, queue, closed, handlerVars,
                                 workerVars, mainVars>>

-----------------------------------------------------------------------------
(* The graceful stop. *)

Unchanged == UNCHANGED <<jobVars, queue, handlerVars, workerVars>>

(* SIGTERM: server.Shutdown closes the listener. *)
Signal == /\ phase = "serving"
          /\ phase' = "draining"
          /\ UNCHANGED <<closed, deadline, cancelled, drained>> /\ Unchanged

(* ListenAndServe returns an error, a bind that fails or an Accept that  *)
(* breaks later: main returns at once, with nothing drained.             *)
ListenFails == /\ phase = "serving"
               /\ phase' = "exited"
               /\ UNCHANGED <<closed, deadline, cancelled, drained>> /\ Unchanged

(* One 30 s context covers the HTTP drain and the worker drain. *)
Deadline == /\ phase \in {"draining", "stopping"} /\ ~deadline
            /\ deadline' = TRUE
            /\ UNCHANGED <<closed, phase, cancelled, drained>> /\ Unchanged

HandlersDone == \A r \in Requests : handler[r] \in Ended \cup {"idle"}

(* MUTANTS of CloseQueue: the worker pool is stopped before the HTTP server; *)
(* the HTTP drain has no deadline.                                           *)
CloseQueueFirst == /\ phase = "draining"
                   /\ closed' = TRUE
                   /\ phase' = "stopping"
                   /\ UNCHANGED <<deadline, cancelled, drained>> /\ Unchanged

CloseQueuePatient == /\ phase = "draining"
                     /\ HandlersDone
                     /\ closed' = TRUE
                     /\ phase' = "stopping"
                     /\ UNCHANGED <<deadline, cancelled, drained>> /\ Unchanged

(* server.Shutdown returns, and jobStore.Shutdown closes the queue. *)
CloseQueue == /\ phase = "draining"
              /\ HandlersDone \/ deadline
              /\ closed' = TRUE
              /\ phase' = "stopping"
              /\ UNCHANGED <<deadline, cancelled, drained>> /\ Unchanged

(* Every worker has left: Shutdown returns nil, and main returns. *)
ShutdownDrained == /\ phase = "stopping"
                   /\ \A w \in Pool : workerAt[w] = "exited"
                   /\ drained' = TRUE
                   /\ phase' = "exited"
                   /\ UNCHANGED <<closed, deadline, cancelled>> /\ Unchanged

ShutdownExpired == /\ phase = "stopping" /\ deadline
                   /\ cancelled' = TRUE
                   /\ phase' = "cancelled"
                   /\ UNCHANGED <<closed, deadline, drained>> /\ Unchanged

(* main returns, and what is still running dies with the process. *)
MainReturns == /\ phase = "cancelled"
               /\ phase' = "exited"
               /\ UNCHANGED <<closed, deadline, cancelled, drained>> /\ Unchanged

(* The process is gone: the only legitimate end of a behaviour. *)
Gone == phase = "exited" /\ UNCHANGED vars

-----------------------------------------------------------------------------
HandlerStep(r) ==
  \/ Arrive(r) \/ Reject(r)
  \/ SubmitRecord(r) \/ SubmitSend(r) \/ SubmitFull(r) \/ SubmitPanics(r)
  \/ AnswerFull(r) \/ AnswerAccepted(r)
  \/ WaitOver(r) \/ WaitRegister(r) \/ WaitWake(r) \/ WaitTimeout(r)

WorkEnds(w) == Finish(w) \/ \E k \in {"work", "internal"} : Break(w, k)

WorkerStep(w) == Take(w) \/ Start(w) \/ WorkEnds(w) \/ WorkerExit(w)

MainStep ==
  \/ Signal \/ ListenFails
  \/ Deadline \/ CloseQueue \/ ShutdownDrained \/ ShutdownExpired \/ MainReturns

Next == \/ \E r \in Requests : HandlerStep(r)
        \/ \E w \in Pool : WorkerStep(w)
        \/ \E r \in Requests, s \in ProgressStates : SetState(r, s)
        \/ MainStep
        \/ Gone

Spec == Init /\ [][Next]_vars

(***************************************************************************)
(* Scheduling.  Workers run, and the work of a job ends: every engine call *)
(* it makes has a timeout.  A handler that has got as far as Submit goes   *)
(* on to its answer, but nothing bounds how long a client takes to send    *)
(* its upload, and no timeout is counted on to release a waiter.  The      *)
(* 30 s timer fires, and main goes on; nobody need send the signal, and    *)
(* the listener need not fail.                                             *)
(***************************************************************************)
Answering(r) ==
  \/ SubmitSend(r) \/ SubmitFull(r) \/ SubmitPanics(r)
  \/ AnswerFull(r) \/ AnswerAccepted(r)
  \/ WaitOver(r) \/ WaitRegister(r) \/ WaitWake(r)

Fairness == /\ \A w \in Pool : /\ WF_vars(Take(w))
                               /\ WF_vars(Start(w))
                               /\ WF_vars(WorkEnds(w))
                               /\ WF_vars(WorkerExit(w))
            /\ \A r \in Requests : WF_vars(Answering(r))
            /\ WF_vars(Deadline)
            /\ WF_vars(CloseQueue)
            /\ WF_vars(ShutdownDrained)
            /\ WF_vars(ShutdownExpired)
            /\ WF_vars(MainReturns)

FairSpec == Spec /\ Fairness

-----------------------------------------------------------------------------
(* Properties. *)

TypeOK ==
  /\ state \in [Requests -> States]
  /\ kind \in [Requests -> ErrorKinds]
  /\ queue \in Seq(Requests) /\ Len(queue) <= Capacity
  /\ closed \in BOOLEAN
  /\ waiting \subseteq Requests /\ woken \subseteq Requests
  /\ handler \in [Requests -> HandlerPoints]
  /\ reply \in [Requests -> States]
  /\ workerAt \in [Pool -> WorkerPoints]
  /\ workerJob \in [Pool -> Requests \cup {NoJob}]
  /\ phase \in Phases
  /\ deadline \in BOOLEAN /\ cancelled \in BOOLEAN /\ drained \in BOOLEAN

InQueue(r)  == \E i \in 1..Len(queue) : queue[i] = r
Held(r, at) == \E w \in Pool : workerAt[w] = at /\ workerJob[w] = r

(* Every recorded job is where its state says: a queued job is with the     *)
(* handler that submits it, in the channel or with a worker about to start  *)
(* it, and a started one with the worker that runs it (Submit 112-131,      *)
(* worker 182-195, run 197-238).  None is forgotten on the way.             *)
Custody ==
  \A r \in Requests :
    /\ state[r] = "none" <=> handler[r] \in {"idle", "open", "rejected"}
    /\ state[r] = "queued" <=>
         handler[r] \in {"registered", "panicked"} \/ InQueue(r) \/ Held(r, "taken")
    /\ state[r] \in {"inspecting", "extracting", "storing"} <=> Held(r, "working")

(* A job is handed over once: it is not twice in the channel, not with two  *)
(* workers, and not with a worker and in the channel.  With Custody this is *)
(* why complete and fail (249-277) need no check that the job is still      *)
(* running.                                                                 *)
RunOnce ==
  /\ \A i, j \in 1..Len(queue) : queue[i] = queue[j] => i = j
  /\ \A v, w \in Pool : workerJob[v] = workerJob[w] /\ workerJob[v] # NoJob => v = w
  /\ \A w \in Pool : ~InQueue(workerJob[w])

(* A caller blocked in Wait (158-180) has an open channel in the table      *)
(* while its job can still end, and a closed one as soon as it has ended.   *)
(* notify (280-285) never meets a closed channel, which would panic.        *)
NoLostWakeup ==
  /\ waiting \cap woken = {}
  /\ \A r \in Requests :
       handler[r] = "blocked" => IF Terminal(state[r]) THEN r \in woken ELSE r \in waiting

(* A handler finds the queue closed only when the HTTP drain ran into the   *)
(* deadline: server.Shutdown comes before jobStore.Shutdown (main.go        *)
(* 243-248) so that nobody submits to a closed queue.                       *)
PanicNeedsDeadline ==
  \A r \in Requests : handler[r] = "panicked" => deadline

(* deploy/README.md: in-flight work is finished, not dropped.  When         *)
(* Shutdown (289-305) returns nil, every job whose Submit succeeded has     *)
(* settled, those that no worker had started when the queue was closed      *)
(* included.                                                                *)
DrainLosesNothing ==
  drained => \A r \in Requests : handler[r] \in Sent => Terminal(state[r])

(* No request makes Submit panic. *)
SubmitReturns == \A r \in Requests : handler[r] # "panicked"

(* The store keeps the promises of JobLifecycle: a job settles once, keeps  *)
(* its outcome, and nobody is told another one.                             *)
StatusOf(r) ==
  CASE state[r] = "none"    -> "absent"
    [] Terminal(state[r])   -> state[r]
    [] OTHER                -> "pending"

AnswerOf(r) ==
  CASE handler[r] \in {"rejected", "refused", "accepted"} -> handler[r]
    [] handler[r] = "answered" -> reply[r]
    [] handler[r] = "timedout" -> "timeout"
    [] handler[r] = "panicked" -> "aborted"
    [] OTHER                   -> "none"

Lifecycle == INSTANCE JobLifecycle
               WITH status <- [r \in Requests |-> StatusOf(r)],
                    answer <- [r \in Requests |-> AnswerOf(r)]

ImplementsLifecycle == Lifecycle!Spec

(* What may cut work off: the deadline of the stop, or a listener that has  *)
(* failed and taken the process with it.                                    *)
Cut == deadline \/ (phase = "exited" /\ ~drained)

(* Every job whose Submit succeeded settles, unless the stop runs into its  *)
(* deadline or the listener fails.  A panic in the work is no exception     *)
(* (run 213-229).                                                           *)
AcceptedSettles ==
  \A r \in Requests : handler[r] \in Sent ~> Terminal(state[r]) \/ Cut

(* Whoever blocks in Wait is released by the end of the job, without help   *)
(* from its timeout.                                                        *)
WaiterReleased ==
  \A r \in Requests : handler[r] = "blocked" ~> handler[r] # "blocked" \/ Cut

(* Once signalled the process goes, however long its clients take to send   *)
(* what they are uploading (main.go 241-249).                               *)
StopCompletes == phase = "draining" ~> phase = "exited"
=============================================================================
