-------------------------- MODULE JobStore_proofs --------------------------
(***************************************************************************)
(* Theorems of JobStore, for every set of requests, every pool and queue   *)
(* size and every set of progress states.                                  *)
(***************************************************************************)
EXTENDS JobStore, TLAPS

(* NewStore builds a pool of at least one worker and a queue that holds at  *)
(* least one id for each of them, whatever it is given (NewStore 83-88).    *)
LEMMA PoolAndQueue == PoolSize \in Nat \ {0} /\ Capacity \in Nat \ {0} /\ Capacity >= PoolSize
  BY JobStoreAssumption DEF PoolSize, Capacity

LEMMA TypeInit == Init => TypeOK
  <1> SUFFICES ASSUME Init PROVE TypeOK
    OBVIOUS
  <1>1. queue \in Seq(Requests) /\ Len(queue) <= Capacity
    BY PoolAndQueue DEF Init
  <1> QED
    BY <1>1 DEF Init, TypeOK, States, ErrorKinds, HandlerPoints, Ended, Sent, WorkerPoints,
       Phases

LEMMA TypeStep == TypeOK /\ [Next]_vars => TypeOK'
  <1> SUFFICES ASSUME TypeOK, [Next]_vars PROVE TypeOK'
    OBVIOUS
  <1> USE DEF TypeOK, jobVars, handlerVars, workerVars, mainVars
  <1>1. ASSUME NEW r \in Requests, HandlerStep(r) PROVE TypeOK'
    <2> USE DEF At, Goto, Alive, HandlerPoints, Ended, Sent, States, ErrorKinds
    <2>1. CASE Arrive(r) \/ Reject(r)
      BY <2>1 DEF Arrive, Reject
    <2>2. CASE SubmitRecord(r)
      BY <2>2 DEF SubmitRecord
    <2>3. CASE SubmitSend(r)
      <3>1. Len(queue') = Len(queue) + 1 /\ queue' \in Seq(Requests)
        BY <2>3 DEF SubmitSend
      <3> QED BY <2>3, <3>1, PoolAndQueue DEF SubmitSend
    <2>4. CASE SubmitFull(r)
      BY <2>4 DEF SubmitFull, fail, notify
    <2>5. CASE SubmitPanics(r) \/ AnswerFull(r) \/ AnswerAccepted(r) \/ WaitTimeout(r)
      BY <2>5 DEF SubmitPanics, AnswerFull, AnswerAccepted, WaitTimeout
    <2>6. CASE WaitOver(r)
      BY <2>6 DEF WaitOver, Terminal
    <2>7. CASE WaitRegister(r)
      BY <2>7 DEF WaitRegister
    <2>8. CASE WaitWake(r)
      BY <2>8 DEF WaitWake
    <2> QED BY <1>1, <2>1, <2>2, <2>3, <2>4, <2>5, <2>6, <2>7, <2>8 DEF HandlerStep
  <1>2. ASSUME NEW w \in Pool, WorkerStep(w) PROVE TypeOK'
    <2> USE DEF WorkerGoto, Alive, WorkerPoints, States, ErrorKinds
    <2>1. CASE Take(w)
      <3>1. /\ queue # <<>> => Head(queue) \in Requests
            /\ Tail(queue) \in Seq(Requests)
            /\ Len(Tail(queue)) <= Capacity
        BY <2>1, PoolAndQueue DEF Take
      <3> QED BY <2>1, <3>1 DEF Take
    <2>2. CASE Start(w)
      BY <2>2 DEF Start
    <2>3. CASE Finish(w)
      BY <2>3 DEF Finish, complete, notify
    <2>4. ASSUME NEW k \in {"work", "internal"}, Break(w, k) PROVE TypeOK'
      BY <2>4 DEF Break, fail, notify
    <2>5. CASE WorkerExit(w)
      BY <2>5 DEF WorkerExit
    <2> QED BY <1>2, <2>1, <2>2, <2>3, <2>4, <2>5 DEF WorkerStep, WorkEnds
  <1>3. ASSUME NEW r \in Requests, NEW s \in ProgressStates, SetState(r, s) PROVE TypeOK'
    BY <1>3, JobStoreAssumption DEF SetState, States
  <1>4. CASE MainStep
    BY <1>4 DEF MainStep, Signal, ListenFails, Deadline, CloseQueue, ShutdownDrained, ShutdownExpired,
       MainReturns, Unchanged, Phases
  <1>5. CASE UNCHANGED vars
    BY <1>5 DEF vars
  <1> QED
    BY <1>1, <1>2, <1>3, <1>4, <1>5 DEF Next, Gone

(* The state of the store always has its type. *)
THEOREM TypeCorrect == Spec => []TypeOK
  BY TypeInit, TypeStep, PTL DEF Spec

-----------------------------------------------------------------------------
(***************************************************************************)
(* The inductive invariant.  Custody and RunOnce need to know that a job   *)
(* in the queue or with a worker comes from a handler that is past Submit, *)
(* and that a worker holds a job exactly while it is not at its select.    *)
(* NoLostWakeup needs the converse of its second conjunct: an entry in the *)
(* table stands for a job that can still end, and a closed channel for one *)
(* that has.  The two statements about the stop need the order of main's   *)
(* steps.                                                                  *)
(***************************************************************************)
Holding == \A w \in Pool : workerJob[w] = NoJob <=> workerAt[w] \in {"select", "exited"}

Submitted ==
  /\ \A i \in 1..Len(queue) : handler[queue[i]] \in Sent
  /\ \A w \in Pool : workerJob[w] # NoJob => handler[workerJob[w]] \in Sent

Refused ==
  \A r \in Requests : handler[r] \in {"overflowed", "refused"} => state[r] = "failed"

(* RunOnce without InQueue's existential. *)
Unshared ==
  /\ \A i, j \in 1..Len(queue) : queue[i] = queue[j] => i = j
  /\ \A v, w \in Pool : workerJob[v] = workerJob[w] /\ workerJob[v] # NoJob => v = w
  /\ \A i \in 1..Len(queue), w \in Pool : queue[i] # workerJob[w]

Channels ==
  /\ \A r \in waiting : handler[r] \in {"blocked", "timedout"} /\ ~Terminal(state[r])
  /\ \A r \in woken : handler[r] \in {"blocked", "timedout", "answered"} /\ Terminal(state[r])
  /\ \A r \in Requests : handler[r] = "blocked" => r \in waiting \cup woken

StopOrder ==
  /\ closed => phase \in {"stopping", "cancelled", "exited"}
  /\ phase \in {"stopping", "cancelled"} => closed
  /\ cancelled => phase \in {"cancelled", "exited"}
  /\ \A w \in Pool : workerAt[w] = "exited" => cancelled \/ (closed /\ queue = <<>>)
  /\ closed /\ ~deadline => HandlersDone
  /\ drained => /\ phase = "exited" /\ ~cancelled
                /\ \A w \in Pool : workerAt[w] = "exited"

IInv == /\ TypeOK
        /\ Custody
        /\ Unshared
        /\ Holding
        /\ Submitted
        /\ Refused
        /\ Channels
        /\ StopOrder
        /\ PanicNeedsDeadline

LEMMA InvInit == Init => IInv
  <1> SUFFICES ASSUME Init PROVE IInv
    OBVIOUS
  <1>1. TypeOK
    BY TypeInit
  <1>2. Custody /\ Unshared /\ Holding /\ Submitted /\ Refused
    BY DEF Init, Custody, InQueue, Held, Unshared, Holding, Submitted, Refused
  <1>3. Channels /\ StopOrder /\ PanicNeedsDeadline
    BY DEF Init, Channels, StopOrder, PanicNeedsDeadline
  <1> QED
    BY <1>1, <1>2, <1>3 DEF IInv

(* A handler's steps. *)
LEMMA InvHandler ==
  ASSUME IInv, TypeOK', NEW r \in Requests, HandlerStep(r)
  PROVE  IInv'
  <1> USE DEF IInv, TypeOK, jobVars, handlerVars, workerVars, mainVars, At, Goto, Alive
  <1>1. Custody'
    <2> USE DEF Custody, InQueue, Held
    <2>1. CASE \/ Arrive(r) \/ Reject(r) \/ SubmitPanics(r) \/ AnswerFull(r)
               \/ AnswerAccepted(r) \/ WaitTimeout(r)
      BY <2>1 DEF Arrive, Reject, SubmitPanics, AnswerFull, AnswerAccepted, WaitTimeout
    <2>2. CASE SubmitRecord(r)
      BY <2>2, JobStoreAssumption DEF SubmitRecord, Submitted, Sent
    <2>3. CASE SubmitSend(r)
      BY <2>3 DEF SubmitSend
    <2>4. CASE SubmitFull(r)
      BY <2>4, JobStoreAssumption, SMTT(30) DEF SubmitFull, fail, Submitted, Sent
    <2>5. CASE WaitOver(r) \/ WaitRegister(r) \/ WaitWake(r)
      BY <2>5 DEF WaitOver, WaitRegister, WaitWake
    <2> QED BY <2>1, <2>2, <2>3, <2>4, <2>5 DEF HandlerStep
  <1>2. Unshared'
    <2>1. CASE SubmitSend(r)
      <3>1. /\ \A i \in 1..Len(queue) : queue[i] # r
            /\ \A w \in Pool : workerJob[w] # r
        BY <2>1, JobStoreAssumption DEF SubmitSend, Submitted, Sent
      <3>2. /\ Len(queue') = Len(queue) + 1
            /\ queue'[Len(queue) + 1] = r
            /\ \A i \in 1..Len(queue) : queue'[i] = queue[i]
            /\ UNCHANGED workerJob
        BY <2>1 DEF SubmitSend
      <3>3. \A i, k \in 1..Len(queue') : queue'[i] = queue'[k] => i = k
        <4> SUFFICES ASSUME NEW i \in 1..Len(queue'), NEW k \in 1..Len(queue'),
                            queue'[i] = queue'[k]
                     PROVE  i = k
          OBVIOUS
        <4>1. i \in 1..Len(queue) \/ i = Len(queue) + 1
          BY <3>2
        <4>2. k \in 1..Len(queue) \/ k = Len(queue) + 1
          BY <3>2
        <4> QED BY <4>1, <4>2, <3>1, <3>2 DEF Unshared
      <3>4. \A i \in 1..Len(queue'), w \in Pool : queue'[i] # workerJob'[w]
        <4> SUFFICES ASSUME NEW i \in 1..Len(queue'), NEW w \in Pool
                     PROVE  queue'[i] # workerJob'[w]
          OBVIOUS
        <4>1. i \in 1..Len(queue) \/ i = Len(queue) + 1
          BY <3>2
        <4> QED BY <4>1, <3>1, <3>2, SMTT(30) DEF Unshared
      <3> QED BY <3>2, <3>3, <3>4 DEF Unshared
    <2>2. CASE UNCHANGED <<queue, workerJob>>
      BY <2>2 DEF Unshared
    <2> QED BY <2>1, <2>2 DEF HandlerStep, Arrive, Reject, SubmitRecord, SubmitFull,
       SubmitPanics, AnswerFull, AnswerAccepted, WaitOver, WaitRegister, WaitWake, WaitTimeout
  <1>3. Holding'
    BY DEF Holding, HandlerStep, Arrive, Reject, SubmitRecord, SubmitSend, SubmitFull,
       SubmitPanics, AnswerFull, AnswerAccepted, WaitOver, WaitRegister, WaitWake, WaitTimeout
  <1>4. Submitted'
    <2> USE DEF Submitted, Sent
    <2>1. CASE SubmitSend(r)
      BY <2>1 DEF SubmitSend
    <2>2. CASE \/ Arrive(r) \/ Reject(r) \/ SubmitRecord(r) \/ SubmitFull(r)
               \/ SubmitPanics(r) \/ AnswerFull(r) \/ AnswerAccepted(r)
               \/ WaitOver(r) \/ WaitRegister(r) \/ WaitWake(r) \/ WaitTimeout(r)
      BY <2>2, SMTT(30) DEF Arrive, Reject, SubmitRecord, SubmitFull, SubmitPanics, AnswerFull,
         AnswerAccepted, WaitOver, WaitRegister, WaitWake, WaitTimeout
    <2> QED BY <2>1, <2>2 DEF HandlerStep
  <1>5. Channels'
    <2> USE DEF Channels, Terminal
    <2>1. CASE \/ Arrive(r) \/ Reject(r) \/ SubmitRecord(r) \/ SubmitSend(r)
               \/ SubmitPanics(r) \/ AnswerFull(r) \/ AnswerAccepted(r) \/ WaitTimeout(r)
      BY <2>1 DEF Arrive, Reject, SubmitRecord, SubmitSend, SubmitPanics, AnswerFull,
         AnswerAccepted, WaitTimeout
    <2>2. CASE SubmitFull(r)
      BY <2>2 DEF SubmitFull, fail, notify
    <2>3. CASE WaitOver(r) \/ WaitRegister(r) \/ WaitWake(r)
      BY <2>3 DEF WaitOver, WaitRegister, WaitWake
    <2> QED BY <2>1, <2>2, <2>3 DEF HandlerStep
  <1>6. StopOrder' /\ PanicNeedsDeadline'
    <2>1. /\ UNCHANGED <<closed, workerAt, phase, deadline, cancelled, drained>>
          /\ closed => UNCHANGED queue
          /\ HandlersDone /\ phase # "serving" => FALSE
      BY DEF HandlersDone, Ended, HandlerStep, Arrive, Reject, SubmitRecord, SubmitSend,
         SubmitFull, SubmitPanics, AnswerFull, AnswerAccepted, WaitOver, WaitRegister,
         WaitWake, WaitTimeout
    <2>2. StopOrder'
      BY <2>1 DEF StopOrder
    <2>3. handler'[r] = "panicked" => closed /\ phase # "serving"
      BY DEF StopOrder, HandlerStep, Arrive, Reject, SubmitRecord, SubmitSend, SubmitFull,
         SubmitPanics, AnswerFull, AnswerAccepted, WaitOver, WaitRegister, WaitWake, WaitTimeout
    <2>4. PanicNeedsDeadline'
      BY <2>1, <2>3 DEF StopOrder, PanicNeedsDeadline, HandlerStep, Arrive, Reject,
         SubmitRecord, SubmitSend, SubmitFull, SubmitPanics, AnswerFull, AnswerAccepted,
         WaitOver, WaitRegister, WaitWake, WaitTimeout
    <2> QED BY <2>2, <2>4
  <1>7. Refused'
    BY DEF Refused, HandlerStep, Arrive, Reject, SubmitRecord, SubmitSend, SubmitFull, fail,
       SubmitPanics, AnswerFull, AnswerAccepted, WaitOver, WaitRegister, WaitWake, WaitTimeout
  <1> QED
    BY <1>1, <1>2, <1>3, <1>4, <1>5, <1>6, <1>7

(* A worker's steps. *)
LEMMA InvWorker ==
  ASSUME IInv, TypeOK', NEW w \in Pool, WorkerStep(w)
  PROVE  IInv'
  <1> USE DEF IInv, TypeOK, jobVars, handlerVars, workerVars, mainVars, Alive, WorkerGoto
  <1>1. CASE Take(w)
    <2> DEFINE q == queue'  j == Head(queue)
    <2>1. /\ Len(queue) > 0 /\ Len(q) = Len(queue) - 1
          /\ j = queue[1] /\ j \in Requests /\ j # NoJob
          /\ \A i \in 1..Len(q) : q[i] = queue[i + 1] /\ i + 1 \in 1..Len(queue)
      BY <1>1, JobStoreAssumption DEF Take
    <2>2. ASSUME NEW r \in Requests
          PROVE  /\ InQueue(r) <=> r = j \/ InQueue(r)'
                 /\ r = j => ~InQueue(r)'
      <3>1. InQueue(r) => r = j \/ InQueue(r)'
        <4> SUFFICES ASSUME NEW i \in 1..Len(queue), queue[i] = r, r # j
                     PROVE  \E k \in 1..Len(q) : q[k] = r
          BY DEF InQueue
        <4>1. i - 1 \in 1..Len(q) /\ q[i - 1] = queue[(i - 1) + 1] /\ (i - 1) + 1 = i
          BY <2>1
        <4> QED BY <4>1
      <3>2. InQueue(r)' => InQueue(r)
        <4> SUFFICES ASSUME NEW i \in 1..Len(q), q[i] = r
                     PROVE  \E k \in 1..Len(queue) : queue[k] = r
          BY DEF InQueue
        <4> QED BY <2>1
      <3>3. r = j => InQueue(r)
        <4>1. 1 \in 1..Len(queue) /\ queue[1] = j
          BY <2>1
        <4> QED BY <4>1 DEF InQueue
      <3>4. r = j => ~InQueue(r)'
        <4> SUFFICES ASSUME NEW i \in 1..Len(q), q[i] = r, r = j
                     PROVE  FALSE
          BY DEF InQueue
        <4>1. queue[i + 1] = queue[1] /\ 1 \in 1..Len(queue) /\ i + 1 # 1
          BY <2>1
        <4> QED BY <4>1, <2>1 DEF Unshared
      <3> QED BY <3>1, <3>2, <3>3, <3>4
    <2>3. Custody'
      BY <1>1, <2>1, <2>2 DEF Take, Custody, Held, Holding
    <2>4. Unshared'
      BY <1>1, <2>1 DEF Take, Unshared
    <2>5. Holding' /\ Submitted'
      BY <1>1, <2>1 DEF Take, Holding, Submitted
    <2>6. Channels' /\ PanicNeedsDeadline'
      BY <1>1 DEF Take, Channels, PanicNeedsDeadline
    <2>7. StopOrder' /\ Refused'
      BY <1>1, <2>1 DEF Take, StopOrder, HandlersDone, Refused
    <2> QED BY <2>3, <2>4, <2>5, <2>6, <2>7
  <1>2. CASE Start(w)
    <2>1. workerJob[w] \in Requests
      BY <1>2, JobStoreAssumption DEF Start, Holding
    <2>2. Custody'
      BY <1>2, <2>1, JobStoreAssumption DEF Start, Custody, InQueue, Held, Unshared, Submitted, Sent
    <2>3. Unshared' /\ Holding' /\ Submitted'
      BY <1>2 DEF Start, Unshared, Holding, Submitted
    <2>4. Channels'
      BY <1>2, <2>1 DEF Start, Channels, Terminal, Custody, Held
    <2>5. StopOrder' /\ PanicNeedsDeadline'
      BY <1>2 DEF Start, StopOrder, HandlersDone, PanicNeedsDeadline
    <2>6. Refused'
      BY <1>2, <2>1, JobStoreAssumption DEF Start, Refused, Submitted, Sent
    <2> QED BY <2>2, <2>3, <2>4, <2>5, <2>6
  <1>3. ASSUME WorkEnds(w) PROVE IInv'
    <2> DEFINE j == workerJob[w]
    <2>1. /\ workerAt[w] = "working" /\ j \in Requests
          /\ WorkerGoto(w, "select", NoJob) /\ notify(j)
          /\ \E s \in {"done", "failed"} : state' = [state EXCEPT ![j] = s]
          /\ UNCHANGED <<queue, closed, handlerVars, mainVars>>
      BY <1>3, JobStoreAssumption DEF WorkEnds, Finish, Break, complete, fail, Holding
    <2> HIDE DEF j
    <2>2. Custody'
      BY <2>1, JobStoreAssumption DEF j, Custody, InQueue, Held, Unshared, Submitted, Sent
    <2>3. Unshared' /\ Holding' /\ Submitted'
      <3>1. /\ workerJob' = [workerJob EXCEPT ![w] = NoJob]
            /\ workerAt' = [workerAt EXCEPT ![w] = "select"]
            /\ UNCHANGED <<queue, handler>>
            /\ NoJob \notin Requests
        BY <2>1, JobStoreAssumption
      <3>2. Unshared'
        <4>1. \A i \in 1..Len(queue) : queue[i] \in Requests /\ queue[i] # NoJob
          BY <3>1
        <4>2. \A v \in Pool : workerJob'[v] = IF v = w THEN NoJob ELSE workerJob[v]
          BY <3>1
        <4> QED BY <3>1, <4>1, <4>2 DEF Unshared
      <3>3. Holding'
        BY <3>1 DEF Holding
      <3>4. Submitted'
        BY <3>1 DEF Submitted
      <3> QED BY <3>2, <3>3, <3>4
    <2>4. Channels'
      BY <2>1 DEF j, notify, Channels, Terminal, Custody, Held
    <2>5. StopOrder' /\ PanicNeedsDeadline'
      BY <2>1 DEF StopOrder, HandlersDone, PanicNeedsDeadline
    <2>6. Refused'
      <3>1. handler[j] \notin {"overflowed", "refused"}
        BY <2>1, JobStoreAssumption DEF j, Submitted, Sent
      <3>2. \A r \in Requests \ {j} : state'[r] = state[r]
        BY <2>1
      <3> QED BY <2>1, <3>1, <3>2 DEF Refused
    <2> QED BY <2>2, <2>3, <2>4, <2>5, <2>6, <1>3
  <1>4. CASE WorkerExit(w)
    <2>1. Custody' /\ Unshared' /\ Holding' /\ Submitted'
      BY <1>4, JobStoreAssumption DEF WorkerExit, Custody, InQueue, Held, Unshared, Holding, Submitted
    <2>2. Refused' /\ Channels' /\ StopOrder' /\ PanicNeedsDeadline'
      BY <1>4 DEF WorkerExit, Refused, Channels, StopOrder, HandlersDone, PanicNeedsDeadline
    <2> QED BY <2>1, <2>2
  <1> QED
    BY <1>1, <1>2, <1>3, <1>4 DEF WorkerStep

LEMMA InvStep == IInv /\ [Next]_vars => IInv'
  <1> SUFFICES ASSUME IInv, [Next]_vars PROVE IInv'
    OBVIOUS
  <1>0. TypeOK'
    BY TypeStep DEF IInv
  <1> USE DEF IInv, TypeOK, jobVars, handlerVars, workerVars, mainVars
  <1>1. ASSUME NEW r \in Requests, HandlerStep(r) PROVE IInv'
    BY <1>0, <1>1, InvHandler
  <1>2. ASSUME NEW w \in Pool, WorkerStep(w) PROVE IInv'
    BY <1>0, <1>2, InvWorker
  <1>3. ASSUME NEW r \in Requests, NEW s \in ProgressStates, SetState(r, s) PROVE IInv'
    <2>1. s \in {"extracting", "storing"}
      BY JobStoreAssumption
    <2>2. /\ state' = [state EXCEPT ![r] = s]
          /\ UNCHANGED <<kind, waiting, woken, queue, closed, handlerVars, workerVars, mainVars>>
          /\ state[r] \in {"inspecting", "extracting", "storing"}
      BY <1>3 DEF SetState, Terminal, States
    <2>3. Custody'
      BY <2>1, <2>2 DEF Custody, InQueue, Held
    <2>4. Unshared' /\ Holding' /\ Submitted'
      BY <2>2 DEF Unshared, Holding, Submitted
    <2>5. Channels'
      BY <2>1, <2>2 DEF Channels, Terminal
    <2>6. Refused' /\ StopOrder' /\ PanicNeedsDeadline'
      BY <2>2 DEF Refused, StopOrder, HandlersDone, PanicNeedsDeadline
    <2> QED BY <1>0, <2>3, <2>4, <2>5, <2>6
  <1>4. CASE MainStep
    <2>1. UNCHANGED <<jobVars, queue, handlerVars, workerVars>>
      BY <1>4 DEF MainStep, Signal, ListenFails, Deadline, CloseQueue, ShutdownDrained, ShutdownExpired,
         MainReturns, Unchanged
    <2>2. Custody' /\ Unshared' /\ Holding' /\ Submitted' /\ Refused' /\ Channels'
      BY <2>1 DEF Custody, InQueue, Held, Unshared, Holding, Submitted, Refused, Channels
    <2>3. StopOrder'
      BY <1>4 DEF StopOrder, HandlersDone, MainStep, Signal, ListenFails, Deadline, CloseQueue,
         ShutdownDrained, ShutdownExpired, MainReturns, Unchanged
    <2>4. PanicNeedsDeadline'
      BY <1>4 DEF PanicNeedsDeadline, MainStep, Signal, ListenFails, Deadline, CloseQueue,
         ShutdownDrained, ShutdownExpired, MainReturns, Unchanged
    <2> QED BY <1>0, <2>2, <2>3, <2>4
  <1>5. CASE UNCHANGED vars
    BY <1>5 DEF vars, Custody, InQueue, Held, Unshared, Holding, Submitted, Refused, Channels,
       StopOrder, HandlersDone, PanicNeedsDeadline
  <1> QED
    BY <1>1, <1>2, <1>3, <1>4, <1>5 DEF Next, Gone

THEOREM Invariance == Spec => []IInv
  BY InvInit, InvStep, PTL DEF Spec

-----------------------------------------------------------------------------
(* Every recorded job is where its state says it is: none is forgotten      *)
(* between Submit, the channel and the workers.                             *)
THEOREM CustodyHolds == Spec => []Custody
  <1>1. IInv => Custody
    BY DEF IInv
  <1> QED BY Invariance, <1>1, PTL

(* No job is run twice or by two workers. *)
THEOREM RunOnceHolds == Spec => []RunOnce
  <1>1. IInv => RunOnce
    BY DEF IInv, Unshared, RunOnce, InQueue
  <1> QED BY Invariance, <1>1, PTL

(* No caller of Wait sleeps through the end of its job, and no channel is   *)
(* closed twice.                                                            *)
THEOREM NoLostWakeupHolds == Spec => []NoLostWakeup
  <1>1. IInv => NoLostWakeup
    BY DEF IInv, TypeOK, Channels, NoLostWakeup
  <1> QED BY Invariance, <1>1, PTL

(* Submit meets a closed queue only after the graceful stop has run into    *)
(* its deadline.                                                            *)
THEOREM PanicNeedsDeadlineHolds == Spec => []PanicNeedsDeadline
  <1>1. IInv => PanicNeedsDeadline
    BY DEF IInv
  <1> QED BY Invariance, <1>1, PTL

(* A graceful stop that ends with no error has settled every job that was   *)
(* accepted.                                                                *)
THEOREM DrainLosesNothingHolds == Spec => []DrainLosesNothing
  <1>1. IInv => DrainLosesNothing
    <2> SUFFICES ASSUME IInv, drained, NEW r \in Requests, handler[r] \in Sent
                 PROVE  Terminal(state[r])
      BY DEF DrainLosesNothing
    <2>1. 1 \in Pool /\ \A w \in Pool : workerAt[w] = "exited"
      BY PoolAndQueue DEF Pool, IInv, StopOrder
    <2>2. queue = <<>>
      BY <2>1 DEF IInv, StopOrder
    <2>3. state[r] \notin {"none", "queued", "inspecting", "extracting", "storing"}
      BY <2>1, <2>2 DEF IInv, Custody, InQueue, Held, Sent
    <2> QED BY <2>3 DEF IInv, TypeOK, States, Terminal
  <1> QED BY Invariance, <1>1, PTL

-----------------------------------------------------------------------------
(* Refinement of JobLifecycle. *)

Status == [r \in Requests |-> StatusOf(r)]
Answer == [r \in Requests |-> AnswerOf(r)]

(* A step that changes neither mapped value of any request is a stutter. *)
LEMMA Stutter ==
  ASSUME \A r \in Requests : StatusOf(r)' = StatusOf(r) /\ AnswerOf(r)' = AnswerOf(r)
  PROVE  UNCHANGED Lifecycle!vars
  BY DEF Lifecycle!vars

(* A step that only moves the status of r. *)
LEMMA StatusMoves ==
  ASSUME NEW r \in Requests, NEW s,
         \A q \in Requests \ {r} : StatusOf(q)' = StatusOf(q),
         \A q \in Requests : AnswerOf(q)' = AnswerOf(q),
         StatusOf(r)' = s
  PROVE  Status' = [Status EXCEPT ![r] = s] /\ Answer' = Answer
  BY DEF Status, Answer

(* A step that only gives r its answer. *)
LEMMA AnswerMoves ==
  ASSUME NEW r \in Requests, NEW a,
         \A q \in Requests \ {r} : AnswerOf(q)' = AnswerOf(q),
         \A q \in Requests : StatusOf(q)' = StatusOf(q),
         AnswerOf(r)' = a
  PROVE  Answer' = [Answer EXCEPT ![r] = a] /\ Status' = Status
  BY DEF Status, Answer

LEMMA LifecycleInit == Init => Lifecycle!Init
  <1> SUFFICES ASSUME Init PROVE Lifecycle!Init
    OBVIOUS
  <1>1. \A r \in Requests : StatusOf(r) = "absent" /\ AnswerOf(r) = "none"
    BY DEF Init, StatusOf, AnswerOf, Terminal
  <1> QED BY <1>1 DEF Lifecycle!Init

LEMMA LifecycleStep ==
  IInv /\ IInv' /\ [Next]_vars => [Lifecycle!Next]_Lifecycle!vars
  <1> SUFFICES ASSUME IInv, IInv', [Next]_vars
               PROVE  [Lifecycle!Next]_Lifecycle!vars
    OBVIOUS
  <1> USE DEF jobVars, handlerVars, workerVars, mainVars, At, Goto
  <1>0. TypeOK
    BY DEF IInv
  <1>1. ASSUME NEW r \in Requests, HandlerStep(r)
        PROVE  [Lifecycle!Next]_Lifecycle!vars
    <2>1. CASE SubmitRecord(r)
      <3>1. /\ StatusOf(r) = "absent" /\ AnswerOf(r) = "none"
            /\ StatusOf(r)' = "pending"
            /\ \A q \in Requests \ {r} : StatusOf(q)' = StatusOf(q)
            /\ \A q \in Requests : AnswerOf(q)' = AnswerOf(q)
        BY <2>1, <1>0 DEF SubmitRecord, StatusOf, AnswerOf, TypeOK, IInv, Custody, Terminal
      <3>2. Lifecycle!Admit(r)
        BY <3>1, StatusMoves DEF Lifecycle!Admit, Status, Answer
      <3> QED BY <3>2 DEF Lifecycle!Next
    <2>2. CASE SubmitFull(r)
      <3>1. state[r] = "queued"
        BY <2>2 DEF SubmitFull, IInv, Custody
      <3>2. /\ StatusOf(r) = "pending" /\ StatusOf(r)' = "failed"
            /\ \A q \in Requests \ {r} : StatusOf(q)' = StatusOf(q)
            /\ \A q \in Requests : AnswerOf(q)' = AnswerOf(q)
        BY <2>2, <3>1, <1>0 DEF SubmitFull, fail, StatusOf, AnswerOf, TypeOK, Terminal
      <3>3. Lifecycle!Settle(r)
        BY <3>2, StatusMoves DEF Lifecycle!Settle, Lifecycle!Outcomes, Status, Answer
      <3> QED BY <3>3 DEF Lifecycle!Next
    <2>3. CASE Arrive(r) \/ SubmitSend(r) \/ WaitRegister(r)
      <3>1. \A q \in Requests : StatusOf(q)' = StatusOf(q) /\ AnswerOf(q)' = AnswerOf(q)
        BY <2>3, <1>0 DEF Arrive, SubmitSend, WaitRegister, StatusOf, AnswerOf, TypeOK
      <3> QED BY <3>1, Stutter
    <2>4. CASE \/ Reject(r) \/ SubmitPanics(r) \/ AnswerFull(r) \/ AnswerAccepted(r)
               \/ WaitOver(r) \/ WaitWake(r) \/ WaitTimeout(r)
      <3>1. /\ AnswerOf(r) = "none"
            /\ \A q \in Requests \ {r} : AnswerOf(q)' = AnswerOf(q)
            /\ \A q \in Requests : StatusOf(q)' = StatusOf(q)
            /\ AnswerOf(r)' \in Lifecycle!Answers \ {"none"}
            /\ Lifecycle!Truthful(AnswerOf(r)', StatusOf(r))
        <4> USE <1>0 DEF StatusOf, AnswerOf, TypeOK, IInv, Terminal, Lifecycle!Answers,
                Lifecycle!Outcomes, Lifecycle!Truthful
        <4>1. CASE Reject(r) \/ SubmitPanics(r)
          BY <4>1 DEF Reject, SubmitPanics, Custody
        <4>2. CASE AnswerFull(r)
          BY <4>2 DEF AnswerFull, Refused
        <4>3. CASE AnswerAccepted(r) \/ WaitTimeout(r)
          BY <4>3 DEF AnswerAccepted, WaitTimeout, Custody
        <4>4. CASE WaitOver(r)
          BY <4>4 DEF WaitOver
        <4>5. CASE WaitWake(r)
          BY <4>5 DEF WaitWake, Channels
        <4> QED BY <2>4, <4>1, <4>2, <4>3, <4>4, <4>5
      <3>2. Lifecycle!Tell(r)
        BY <3>1, AnswerMoves DEF Lifecycle!Tell, Status, Answer
      <3> QED BY <3>2 DEF Lifecycle!Next
    <2> QED BY <1>1, <2>1, <2>2, <2>3, <2>4 DEF HandlerStep
  <1>2. ASSUME NEW w \in Pool, WorkerStep(w)
        PROVE  [Lifecycle!Next]_Lifecycle!vars
    <2>1. CASE WorkEnds(w)
      <3>0. PICK j \in Requests :
               /\ workerAt[w] = "working" /\ workerJob[w] = j
               /\ \E o \in {"done", "failed"} : state' = [state EXCEPT ![j] = o]
               /\ UNCHANGED handlerVars
        BY <2>1, <1>0, JobStoreAssumption
           DEF WorkEnds, Finish, Break, complete, fail, IInv, TypeOK, Holding
      <3>1. /\ StatusOf(j) = "pending"
            /\ StatusOf(j)' \in Lifecycle!Outcomes
            /\ \A q \in Requests \ {j} : StatusOf(q)' = StatusOf(q)
            /\ \A q \in Requests : AnswerOf(q)' = AnswerOf(q)
        BY <3>0, <1>0 DEF StatusOf, AnswerOf, TypeOK, Terminal, IInv, Custody, Held,
           Lifecycle!Outcomes
      <3>2. Lifecycle!Settle(j)
        BY <3>1, StatusMoves DEF Lifecycle!Settle, Status, Answer
      <3> QED BY <3>1, <3>2 DEF Lifecycle!Next
    <2>2. CASE Take(w) \/ WorkerExit(w)
      BY <2>2, Stutter DEF Take, WorkerExit, StatusOf, AnswerOf
    <2>3. CASE Start(w)
      <3>1. \A q \in Requests : StatusOf(q)' = StatusOf(q) /\ AnswerOf(q)' = AnswerOf(q)
        BY <2>3, <1>0 DEF Start, StatusOf, AnswerOf, TypeOK, IInv, Custody, Held, Terminal
      <3> QED BY <3>1, Stutter
    <2> QED BY <1>2, <2>1, <2>2, <2>3 DEF WorkerStep
  <1>3. ASSUME NEW r \in Requests, NEW s \in ProgressStates, SetState(r, s)
        PROVE  [Lifecycle!Next]_Lifecycle!vars
    <2>1. s \in {"extracting", "storing"}
      BY JobStoreAssumption
    <2>2. \A q \in Requests : StatusOf(q)' = StatusOf(q) /\ AnswerOf(q)' = AnswerOf(q)
      BY <1>3, <2>1, <1>0 DEF SetState, StatusOf, AnswerOf, TypeOK, Terminal
    <2> QED BY <2>2, Stutter
  <1>4. CASE MainStep
    BY <1>4, Stutter DEF MainStep, Signal, ListenFails, Deadline, CloseQueue, ShutdownDrained,
       ShutdownExpired, MainReturns, Unchanged, StatusOf, AnswerOf
  <1>5. CASE UNCHANGED vars
    BY <1>5, Stutter DEF vars, StatusOf, AnswerOf
  <1> QED
    BY <1>1, <1>2, <1>3, <1>4, <1>5 DEF Next, Gone

(* The store implements JobLifecycle. *)
THEOREM Refinement == Spec => ImplementsLifecycle
  BY LifecycleInit, LifecycleStep, Invariance, PTL
     DEF Spec, ImplementsLifecycle, Lifecycle!Spec
=============================================================================
