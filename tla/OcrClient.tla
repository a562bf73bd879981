----------------------------- MODULE OcrClient -----------------------------
(***************************************************************************)
(* The client of the OCR service (src/internal/engine/paddleocr) and the   *)
(* part of Router.extract that files its answers in the page cache.        *)
(*                                                                         *)
(* A call is one Extract for one document.  A call of the OCR tier is cut  *)
(* into chunks, one request each; a call of the vision tier is one         *)
(* request.  All share one semaphore.  A page is filed under the name and  *)
(* version of its engine, and both may change while the service is         *)
(* upgraded or reconfigured under the client.  Pages are abstracted to the *)
(* chunk they are in.                                                      *)
(***************************************************************************)
EXTENDS Integers, FiniteSets

CONSTANTS OCRCalls, VisionCalls,  \* the calls of the two tiers
          Concurrency,            \* requests that may be in flight, by design
          OCREngines,             \* who may serve the OCR tier: [engine, version]
          VisionEngines,          \* who may serve the vision tier
          Unknown,                \* the version before the first answer
          MaxChanges              \* how often the service is changed

ASSUME OcrClientAssumption ==
  /\ OCRCalls \cap VisionCalls = {}
  /\ IsFiniteSet(OCRCalls) /\ IsFiniteSet(VisionCalls)
  /\ Concurrency \in Nat \ {0}
  /\ MaxChanges \in Nat
  /\ \A s \in OCREngines \cup VisionEngines : s = [engine |-> s.engine, version |-> s.version]

Calls == OCRCalls \cup VisionCalls

VARIABLES
  service,   \* who serves the two tiers now
  changes,   \* how often that changed
  name,      \* the names the client knows the tiers by: Engine.name, VisionEngine.name
  version,   \* their versions
  call,      \* call[c]: "idle", "running", "filing", "done" or "failed"
  width,     \* width[c]: the number of its chunks
  at,        \* at[c][i]: where chunk i is
  who,       \* who[c][i]: who answered it
  sem,       \* tokens taken from the semaphore
  refresh,   \* refresh[c]: the background look at the service after c failed
  news,      \* news[c]: what it saw
  stopped,   \* the context of the calls is cancelled
  keyName,   \* keyName[c]: the name that was read for the key of a page of c
  filed,     \* history: the chunks in the cache, each with key and maker
  built,     \* history: the name of the OCR tier when the client was built
  renamed    \* history: a background look has changed that name

known    == <<name, version>>
requests == <<call, width, at, who, sem, keyName>>
looks    == <<refresh, news>>
history  == <<filed, built, renamed>>
vars == <<service, changes, known, requests, looks, stopped, history>>

Tiers  == {"ocr", "vision"}
Tier(c) == IF c \in OCRCalls THEN "ocr" ELSE "vision"
Servers == {s \in [Tiers -> OCREngines \cup VisionEngines] :
              s["ocr"] \in OCREngines /\ s["vision"] \in VisionEngines}

Chunks(c) == 1..width[c]
Parts == {p \in Calls \X (1..Concurrency) : p[2] \in Chunks(p[1])}

(* New learns names and version from the service; of the vision tier only   *)
(* the name can be known before it has read a page.                         *)
Init == /\ service \in Servers /\ changes = 0
        /\ name = [t \in Tiers |-> service[t].engine]
        /\ version = [t \in Tiers |-> IF t = "ocr" THEN service[t].version ELSE Unknown]
        /\ call = [c \in Calls |-> "idle"]
        /\ width \in {w \in [Calls -> 1..Concurrency] : \A c \in VisionCalls : w[c] = 1}
        /\ at = [c \in Calls |-> [i \in 1..Concurrency |-> "off"]]
        /\ who = [c \in Calls |-> [i \in 1..Concurrency |-> service[Tier(c)]]]
        /\ sem = 0
        /\ keyName = [c \in Calls |-> name[Tier(c)]]
        /\ refresh = [c \in VisionCalls |-> "no"]
        /\ news = [c \in VisionCalls |-> service]
        /\ stopped = FALSE
        /\ filed = {} /\ built = name["ocr"] /\ renamed = FALSE

-----------------------------------------------------------------------------
(* The service: an upgrade, a reconfiguration, a change of tier.            *)

Change == /\ changes < MaxChanges
          /\ changes' = changes + 1
          /\ service' \in Servers \ {service}
          /\ UNCHANGED <<known, requests, looks, stopped, history>>

(* The shutdown cancels the work. *)
Stop == /\ ~stopped /\ stopped' = TRUE
        /\ UNCHANGED <<service, changes, known, requests, looks, history>>

-----------------------------------------------------------------------------
(* Requests. *)

(* An OCR call of one chunk goes straight to extractOne. *)
Direct(c) == c \in OCRCalls /\ width[c] = 1

Move(c, i, place) == at' = [at EXCEPT ![c][i] = place]

Start(c) ==
  /\ call[c] = "idle"
  /\ call' = [call EXCEPT ![c] = "running"]
  /\ at' = [at EXCEPT ![c] = [i \in 1..Concurrency |->
              IF i \notin Chunks(c) THEN "off" ELSE IF Direct(c) THEN "sent" ELSE "queued"]]
  /\ UNCHANGED <<service, changes, known, width, keyName, who, sem, looks, stopped,
                 history>>

(* MUTANT of Acquire: the channel has no limit. *)
AcquireAny(c, i) == /\ at[c][i] = "queued"
                    /\ sem' = sem + 1
                    /\ Move(c, i, "sent")
                    /\ UNCHANGED <<service, changes, known, call, width, keyName, who,
                                   looks, stopped, history>>

Acquire(c, i) == /\ at[c][i] = "queued" /\ sem < Concurrency
                 /\ sem' = sem + 1
                 /\ Move(c, i, "sent")
                 /\ UNCHANGED <<service, changes, known, call, width, keyName, who,
                                looks, stopped, history>>

(* Waiting for a token ends with the context. *)
GiveUp(c, i) == /\ at[c][i] = "queued" /\ stopped
                /\ Move(c, i, "failed")
                /\ UNCHANGED <<service, changes, known, call, width, keyName, who, sem,
                               looks, stopped, history>>

(* MUTANT of Release: the vision tier keeps its token. *)
ReleaseOCR(c) == sem' = IF Direct(c) \/ c \in VisionCalls THEN sem ELSE sem - 1

(* The deferred release, of those who took a token. *)
Release(c) == sem' = IF Direct(c) THEN sem ELSE sem - 1

(* The service answers, as whoever it is now. *)
Reply(c, i) == /\ at[c][i] = "sent"
               /\ who' = [who EXCEPT ![c][i] = service[Tier(c)]]
               /\ Move(c, i, "answered")
               /\ UNCHANGED <<service, changes, known, call, width, keyName, sem, looks,
                              stopped, history>>

(* MUTANT of Fail: the error path returns before the release. *)
FailLeaks(c, i) == /\ at[c][i] = "sent"
                   /\ Move(c, i, "failed")
                   /\ refresh' = IF c \in VisionCalls THEN [refresh EXCEPT ![c] = "asking"]
                                                      ELSE refresh
                   /\ UNCHANGED <<service, changes, known, call, width, keyName, who,
                                  sem, news, stopped, history>>

(* It refuses, breaks or times out, or the answer cannot be read.  A failed *)
(* vision call looks at the service in the background.                      *)
Fail(c, i) == /\ at[c][i] = "sent"
              /\ Move(c, i, "failed")
              /\ Release(c)
              /\ refresh' = IF c \in VisionCalls THEN [refresh EXCEPT ![c] = "asking"]
                                                 ELSE refresh
              /\ UNCHANGED <<service, changes, known, call, width, keyName, who, news,
                             stopped, history>>

(* extractTier: an OCR answer brings the version, ... *)
Learn(c, i) == /\ c \in OCRCalls /\ at[c][i] = "answered"
               /\ version' = [version EXCEPT !["ocr"] = who[c][i].version]
               /\ Move(c, i, "learned")
               /\ UNCHANGED <<service, changes, name, call, width, keyName, who, sem,
                              looks, stopped, history>>

(* MUTANT of Check: any engine will do. *)
CheckNothing(c, i) ==
  /\ c \in OCRCalls /\ at[c][i] = "learned"
  /\ Move(c, i, "ok")
  /\ Release(c)
  /\ UNCHANGED <<service, changes, known, call, width, keyName, who, looks, stopped,
                 history>>

(* ... and then has to come from the engine the client knows. *)
Check(c, i) ==
  /\ c \in OCRCalls /\ at[c][i] = "learned"
  /\ Move(c, i, IF who[c][i].engine = name["ocr"] THEN "ok" ELSE "failed")
  /\ Release(c)
  /\ UNCHANGED <<service, changes, known, call, width, keyName, who, looks, stopped,
                 history>>

(* MUTANT of Adopt: only the name is taken from the answer. *)
AdoptName(c) == /\ c \in VisionCalls /\ at[c][1] = "answered"
                /\ name' = [name EXCEPT !["vision"] = who[c][1].engine]
                /\ Move(c, 1, "ok")
                /\ Release(c)
                /\ UNCHANGED <<service, changes, version, call, width, keyName, who,
                               looks, stopped, history>>

(* A vision answer brings both. *)
Adopt(c) == /\ c \in VisionCalls /\ at[c][1] = "answered"
            /\ name' = [name EXCEPT !["vision"] = who[c][1].engine]
            /\ version' = [version EXCEPT !["vision"] = who[c][1].version]
            /\ Move(c, 1, "ok")
            /\ Release(c)
            /\ UNCHANGED <<service, changes, call, width, keyName, who, looks, stopped,
                           history>>

-----------------------------------------------------------------------------
(* refreshName: a look at the service, and what it changes.                 *)

Look(c) == /\ c \in VisionCalls /\ refresh[c] = "asking"
           /\ \/ refresh' = [refresh EXCEPT ![c] = "seen"]
                 /\ news' = [news EXCEPT ![c] = service]
              \/ refresh' = [refresh EXCEPT ![c] = "no"] /\ UNCHANGED news
           /\ UNCHANGED <<service, changes, known, requests, stopped, history>>

(* refreshVersion sets the name and version of the OCR tier as well; its    *)
(* critical section and that of refreshName are one step.                   *)
Update(c) == /\ c \in VisionCalls /\ refresh[c] = "seen"
             /\ refresh' = [refresh EXCEPT ![c] = "no"]
             /\ name' = [t \in Tiers |-> news[c][t].engine]
             /\ version' = [version EXCEPT !["ocr"] = news[c]["ocr"].version]
             /\ renamed' = (renamed \/ name'["ocr"] # name["ocr"])
             /\ UNCHANGED <<service, changes, requests, news, stopped, filed, built>>

-----------------------------------------------------------------------------
(* The end of a call, and the page cache. *)

(* Extract fails when every chunk has failed. *)
Merge(c) ==
  /\ call[c] = "running"
  /\ \A i \in Chunks(c) : at[c][i] \in {"ok", "failed"}
  /\ call' = [call EXCEPT ![c] = IF \A i \in Chunks(c) : at[c][i] = "failed"
                                 THEN "failed" ELSE "filing"]
  /\ UNCHANGED <<service, changes, known, width, keyName, at, who, sem, looks, stopped,
                 history>>

(* Name and Version are read again for the key of every page, each under a *)
(* lock of its own, and the pages are put one after the other.              *)
ReadName(c, i) ==
  /\ call[c] = "filing" /\ at[c][i] = "ok"
  /\ \A k \in Chunks(c) : at[c][k] # "named"
  /\ keyName' = [keyName EXCEPT ![c] = name[Tier(c)]]
  /\ Move(c, i, "named")
  /\ UNCHANGED <<service, changes, known, call, width, who, sem, looks, stopped,
                 history>>

File(c, i) ==
  /\ at[c][i] = "named"
  /\ filed' = filed \cup {[call |-> c, chunk |-> i, maker |-> who[c][i],
                key |-> [engine |-> keyName[c], version |-> version[Tier(c)]]]}
  /\ Move(c, i, "filed")
  /\ UNCHANGED <<service, changes, known, call, width, keyName, who, sem, looks,
                 stopped, built, renamed>>

Finish(c) ==
  /\ call[c] = "filing"
  /\ \A i \in Chunks(c) : at[c][i] \notin {"ok", "named"}
  /\ call' = [call EXCEPT ![c] = "done"]
  /\ UNCHANGED <<service, changes, known, width, keyName, at, who, sem, looks, stopped,
                 history>>

PartStep(c, i) == \/ Acquire(c, i) \/ GiveUp(c, i) \/ Reply(c, i) \/ Fail(c, i)
                  \/ Learn(c, i) \/ Check(c, i)
                  \/ ReadName(c, i) \/ File(c, i)

CallStep(c) == Start(c) \/ Adopt(c) \/ Look(c) \/ Update(c) \/ Merge(c) \/ Finish(c)

Next == \/ Change \/ Stop
        \/ \E c \in Calls : CallStep(c)
        \/ \E p \in Parts : PartStep(p[1], p[2])

Spec == Init /\ [][Next]_vars

(***************************************************************************)
(* A request ends, if only at the timeout of its HTTP client; goroutines   *)
(* go on; and the channel serves those who wait for a token in turn.       *)
(***************************************************************************)
Fairness ==
  /\ \A c \in Calls : WF_vars(Adopt(c)) /\ WF_vars(Merge(c)) /\ WF_vars(Finish(c))
  /\ \A c \in Calls, i \in 1..Concurrency :
       /\ SF_vars(Acquire(c, i))
       /\ WF_vars(Reply(c, i) \/ Fail(c, i))
       /\ WF_vars(Learn(c, i)) /\ WF_vars(Check(c, i))
       /\ WF_vars(ReadName(c, i)) /\ WF_vars(File(c, i))

FairSpec == Spec /\ Fairness

-----------------------------------------------------------------------------
(* Properties. *)

Places == {"off", "queued", "sent", "answered", "learned", "ok", "failed", "named", "filed"}

(* The places of a chunk whose answer has been accepted. *)
Accepted == {"ok", "named", "filed"}

TypeOK ==
  /\ service \in Servers /\ changes \in 0..MaxChanges
  /\ DOMAIN name = Tiers /\ DOMAIN version = Tiers
  /\ call \in [Calls -> {"idle", "running", "filing", "done", "failed"}]
  /\ width \in [Calls -> 1..Concurrency]
  /\ at \in [Calls -> [1..Concurrency -> Places]]
  /\ who \in [Calls -> [1..Concurrency -> OCREngines \cup VisionEngines]]
  /\ sem \in 0..Concurrency /\ DOMAIN keyName = Calls
  /\ refresh \in [VisionCalls -> {"no", "asking", "seen"}]
  /\ news \in [VisionCalls -> Servers]
  /\ stopped \in BOOLEAN /\ renamed \in BOOLEAN

InFlight == {p \in Calls \X (1..Concurrency) :
               at[p[1]][p[2]] \in {"sent", "answered", "learned"}}
Holders  == {p \in InFlight : ~Direct(p[1])}

(* The tokens that are out are those of the requests in flight, each path   *)
(* out of a request gives its token back, and besides the OCR calls of one  *)
(* chunk no more than Concurrency requests are in flight (Extract 300-323,  *)
(* VisionEngine.Extract 103-108).                                           *)
TokensAreHeld == sem = Cardinality(Holders) /\ Cardinality(Holders) <= Concurrency

(* As long as the service stays what it is, a page is filed under the       *)
(* engine that made it, the vision tier's first page included, whose        *)
(* version nobody knew before (adopt 145-161, Router.extract 585-599).      *)
SteadyKeys == changes = 0 => \A f \in filed : f.key = f.maker

(* Unless a background look has renamed the OCR tier, a page comes from the *)
(* tier the client was built for or not at all (extractTier 465-471).       *)
SwitchIsRefused ==
  \A p \in Calls \X (1..Concurrency) :
    p[1] \in OCRCalls /\ at[p[1]][p[2]] \in Accepted /\ ~renamed =>
      who[p[1]][p[2]].engine = built

(* A call comes to an end: no request waits for a token for ever, however   *)
(* calls, failures and cancellation fall together (Extract 292-355).        *)
CallEnds == \A c \in Calls : call[c] = "running" ~> call[c] \in {"done", "failed"}
=============================================================================
