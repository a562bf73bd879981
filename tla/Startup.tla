------------------------------ MODULE Startup ------------------------------
(***************************************************************************)
(* How dolico comes up beside the OCR service: config.Load, the check of   *)
(* the shim, ocrEngine with its retries and visionEngine                   *)
(* (src/cmd/dolico/main.go, src/internal/config), against the service's    *)
(* own start (lifespan in python/ocr-service/dolico_ocr/app.py).  The      *)
(* service is several uvicorn workers behind one port, each of which picks *)
(* a tier, may fall back to another, and may die at any time.              *)
(*                                                                         *)
(* Time is counted from the first attempt of the process (clock), in       *)
(* seconds; the service has no clock, it changes between any two steps.    *)
(* "up" is a worker dolico can reach: a network policy that is not in      *)
(* place yet is a service all of whose workers are "down".                 *)
(***************************************************************************)
EXTENDS Integers

CONSTANTS Environments, \* the environments the process may be started in
          Garbled,      \* the value of a variable that does not parse
          NaN,          \* the float that is not a number, which does parse
          Fine,         \* thresholds are in steps of 1/(100 * Fine)
          SleepTime,    \* the pause between two attempts
          CallTime,     \* the longest an attempt takes
          OCRWorkers,   \* the uvicorn workers the OCR service can have
          Deployments   \* how the OCR service may be deployed

(* A set variable, by the name of its field in Config; durations are in     *)
(* seconds.  What is not set has its default.                               *)
Switches   == {"OCRURL", "VisionEnabled"}
Durations  == {"OCRWait", "BlobTTL", "BlobSweepEvery"}
Thresholds == {"OCRThreshold", "VisionThreshold", "VisionDisagreement"}
One == 100 * Fine
Default == [OCRURL |-> FALSE, VisionEnabled |-> FALSE, Workers |-> 8,
            OCRThreshold |-> 60 * Fine, VisionThreshold |-> 35 * Fine,
            VisionMaxPages |-> 5, VisionDisagreement |-> 5 * Fine, OCRConcurrency |-> 0,
            OCRWait |-> 90, BlobTTL |-> 0, BlobSweepEvery |-> 3600]

(* A switch never fails to parse: an unknown word is read as false.         *)
ASSUME StartupAssumption ==
  /\ \A e \in Environments :
       /\ DOMAIN e \subseteq DOMAIN Default
       /\ \A k \in DOMAIN e :
            e[k] \in IF k \in Switches THEN BOOLEAN
                    ELSE Int \cup {Garbled} \cup IF k \in Thresholds THEN {NaN} ELSE {}
  /\ Fine \in Nat \ {0} /\ {Garbled, NaN} \cap Int = {}
  /\ SleepTime \in Nat \ {0} /\ CallTime \in Nat
  /\ Deployments \subseteq [setting : {"auto", "text", "layout", "vision"},
                            installed : SUBSET {"text", "layout", "vision"},
                            lazy : BOOLEAN, workers : SUBSET OCRWorkers]

Engines == {"text", "layout", "vision"}

VARIABLES
  env,       \* the environment of the process
  phase,     \* where run() is
  why,       \* what it gave up for
  clock,     \* time since the first attempt
  heard,     \* the outcome of the attempt in flight
  report,    \* the answer to /v1/version the client holds, or none
  ocr,       \* the OCR tier in use: "none" yet, the "stub" or the "client"
  vision,    \* the vision tier is wired
  deployed,  \* the service's DOLICO_OCR_TIER, the engines in its image, its
             \* LAZY_LOAD and its workers
  service,   \* service[w]: the worker is "down", "loading" its models, or "up"
  tier,      \* tier[w]: its TIER, the setting until a fallback overwrites it
  loaded,    \* loaded[w]: the engines whose models it has
  upSince,   \* history: the clock since when some worker is up and none that
             \* was has been lost, -1 while none is up
  met        \* history: the worker the report is from, while it has not died

goVars  == <<env, phase, why, clock, heard, report, ocr, vision>>
svcVars == <<service, deployed, tier, loaded, upSince>>
startVars == <<goVars, svcVars, met>>

NoReport == [tier |-> "none", vision |-> FALSE]
Reports  == [tier : Engines, vision : BOOLEAN]
Outcomes == Reports \cup {NoReport}
Nothing  == [ok |-> "none", report |-> NoReport]
NoAnswer == [ok |-> "unreachable", report |-> NoReport]

StartupInit ==
  /\ env \in Environments
  /\ phase = "load" /\ why = "none" /\ clock = 0
  /\ heard = Nothing /\ report = NoReport
  /\ ocr = "none" /\ vision = FALSE
  /\ deployed \in Deployments
  /\ service = [w \in OCRWorkers |-> "down"]
  /\ tier = [w \in OCRWorkers |-> deployed.setting]
  /\ loaded = [w \in OCRWorkers |-> {}]
  /\ upSince = -1 /\ met = {}

-----------------------------------------------------------------------------
(* config.Load *)

Value(k) == IF k \in DOMAIN env THEN env[k] ELSE Default[k]

(* What one variable may be: it parses, and envDuration takes no zero. *)
Valid == \A k \in DOMAIN env : /\ env[k] # Garbled
                               /\ k \in Durations => env[k] > 0

(* a > b and a >= b of floats: false when one of them is not a number. *)
Above(a, b)   == NaN \notin {a, b} /\ a > b
AtLeast(a, b) == NaN \notin {a, b} /\ a >= b

InRange == /\ Value("Workers") >= 1 /\ Value("OCRConcurrency") >= 0
           /\ Value("VisionMaxPages") >= 1
           /\ \A k \in Thresholds : ~Above(0, Value(k)) /\ ~Above(Value(k), One)
           /\ ~AtLeast(0, Value("VisionDisagreement"))

Ordered == ~AtLeast(Value("VisionThreshold"), Value("OCRThreshold"))

Refuse(reason) == phase' = "refused" /\ why' = reason

Load == /\ phase = "load"
        /\ IF Valid /\ InRange /\ Ordered
           THEN phase' = "shim" /\ why' = why
           ELSE Refuse("config")
        /\ UNCHANGED <<env, clock, heard, report, ocr, vision, svcVars, met>>

(* The data directory is made, and rustshim.New asks the binary for its      *)
(* version and schema.                                                      *)
CheckShim(works) ==
  /\ phase = "shim"
  /\ IF ~works THEN Refuse("shim") /\ UNCHANGED ocr
     ELSE /\ why' = why
          /\ IF Value("OCRURL") THEN phase' = "probe" /\ ocr' = ocr
             ELSE phase' = "serving" /\ ocr' = "stub"
  /\ UNCHANGED <<env, clock, heard, report, vision, svcVars, met>>

-----------------------------------------------------------------------------
(* A worker of the service: which tier it serves with TIER t, and what it   *)
(* says of itself.                                                          *)

Installed(e) == e \in deployed.installed

ServesVision(t) == \/ t = "vision"
                   \/ t = "auto" /\ ~Installed("text") /\ Installed("vision")

(* "layout" is installed when the extra of paddlex is there. *)
UsesStructure(t) == t # "text" /\ (t = "layout" \/ Installed("layout"))

Active(t) == IF ServesVision(t) THEN "vision"
             ELSE IF UsesStructure(t) THEN "layout" ELSE "text"

(* MUTANT of VisionAvailable: the engine is installed. *)
VisionInstalled(t) == Installed("vision")

VisionAvailable(t) == Installed("vision") /\ ~ServesVision(t)

Version(t) == [tier |-> Active(t), vision |-> VisionAvailable(t)]

Ups == {w \in OCRWorkers : service[w] = "up"}

svcSame == UNCHANGED <<env, phase, why, clock, report, ocr, vision, deployed>>
Up(w) == /\ service' = [service EXCEPT ![w] = "up"]
         /\ upSince' = IF Ups = {} THEN clock ELSE upSince

(* uvicorn accepts no connection before lifespan has loaded the models. *)
ServiceStarts(w) ==
  /\ w \in deployed.workers /\ service[w] = "down"
  /\ tier' = [tier EXCEPT ![w] = deployed.setting] /\ loaded' = [loaded EXCEPT ![w] = {}]
  /\ IF deployed.lazy THEN Up(w)
     ELSE service' = [service EXCEPT ![w] = "loading"] /\ UNCHANGED upSince
  /\ svcSame /\ UNCHANGED <<heard, met>>

ModelsLoad(w) == /\ service[w] = "loading" /\ Installed(Active(tier[w]))
                 /\ loaded' = [loaded EXCEPT ![w] = {Active(tier[w])}] /\ Up(w)
                 /\ svcSame /\ UNCHANGED <<heard, met, tier>>

(* PP-StructureV3 does not load: this worker, and no other, serves text     *)
(* lines in its place.                                                      *)
FallsBack(w) == /\ service[w] = "loading" /\ Active(tier[w]) = "layout" /\ Installed("text")
                /\ tier' = [tier EXCEPT ![w] = "text"]
                /\ loaded' = [loaded EXCEPT ![w] = {"text"}] /\ Up(w)
                /\ svcSame /\ UNCHANGED <<heard, met>>

(* Nothing loads, or the worker is killed or cut off, in the middle of an    *)
(* answer, too.                                                             *)
ServiceDies(w) ==
  /\ service[w] # "down"
  /\ service' = [service EXCEPT ![w] = "down"]
  /\ upSince' = IF w \notin Ups THEN upSince ELSE IF Ups = {w} THEN -1 ELSE clock
  /\ met' = met \ {w}
  /\ heard' \in {heard} \cup IF phase = "asking" /\ w \in met THEN {NoAnswer} ELSE {}
  /\ svcSame /\ UNCHANGED <<tier, loaded>>

-----------------------------------------------------------------------------
(* ocrEngine: paddleocr.New, until it works or the deadline has passed. *)

(* What GET /v1/version can come to.  One of the workers answers, whichever  *)
(* accepts.  A connection that fails and the statuses 502 and 503 are       *)
(* "unreachable"; any other answer that is not a version of this schema is  *)
(* "wrong", a proxy's or a foreign service's.                               *)
Ask == /\ phase = "probe" /\ phase' = "asking"
       /\ \/ \E w \in Ups : /\ heard' = [ok |-> "yes", report |-> Version(tier[w])]
                            /\ met' = {w}
          \/ /\ Ups = {} /\ met' = {}
             /\ heard' \in {NoAnswer, [NoAnswer EXCEPT !.ok = "wrong"]}
       /\ UNCHANGED <<env, why, clock, report, ocr, vision, svcVars>>

(* visionEngine: asked for, reached through the client, and reported. *)
WireVision(r) == vision' = (Value("VisionEnabled") /\ r.vision)

(* The deadline is looked at after the attempt, whatever the attempt took. *)
Answered(d) == phase = "asking" /\ d \in 0..CallTime /\ heard' = Nothing

(* From here on nobody counts the time. *)
StopClock == /\ clock' = 0
             /\ upSince' = IF upSince = -1 THEN -1 ELSE 0

Connected(d) == /\ Answered(d) /\ heard.ok = "yes"
                /\ report' = heard.report /\ ocr' = "client" /\ WireVision(heard.report)
                /\ phase' = "serving" /\ StopClock
                /\ UNCHANGED <<env, why, service, deployed, tier, loaded, met>>

(* MUTANT of Unconnected: at the deadline the stub will do. *)
UnconnectedStub(d) ==
  /\ Answered(d) /\ heard.ok # "yes" /\ clock' = clock + d
  /\ IF heard.ok = "wrong" THEN Refuse("wrong") /\ ocr' = ocr
     ELSE why' = why /\ IF clock' > Value("OCRWait")
                        THEN phase' = "serving" /\ ocr' = "stub"
                        ELSE phase' = "sleep" /\ ocr' = ocr
  /\ UNCHANGED <<env, report, vision, svcVars, met>>

Unconnected(d) ==
  /\ Answered(d) /\ heard.ok # "yes" /\ clock' = clock + d
  /\ IF heard.ok = "wrong" THEN Refuse("wrong")
     ELSE IF clock' > Value("OCRWait") THEN Refuse("unreachable")
     ELSE phase' = "sleep" /\ why' = why
  /\ UNCHANGED <<env, report, ocr, vision, svcVars, met>>

(* MUTANT of Sleep: the deadline has passed, no last attempt is made. *)
SleepThenGiveUp ==
  /\ phase = "sleep"
  /\ clock' = clock + SleepTime
  /\ IF clock' > Value("OCRWait") THEN Refuse("unreachable")
     ELSE phase' = "probe" /\ why' = why
  /\ UNCHANGED <<env, heard, report, ocr, vision, svcVars, met>>

(* MUTANT of Sleep: the deadline is taken anew for every attempt. *)
SleepAnew ==
  /\ phase = "sleep"
  /\ clock' = 0 /\ phase' = "probe"
  /\ UNCHANGED <<env, why, heard, report, ocr, vision, svcVars, met>>

Sleep == /\ phase = "sleep"
         /\ clock' = clock + SleepTime
         /\ phase' = "probe"
         /\ UNCHANGED <<env, why, heard, report, ocr, vision, svcVars, met>>

(* The supervisor starts a process that has gone again, with the same       *)
(* environment ("restart: unless-stopped").                                 *)
Restart == /\ phase \in {"refused", "serving"}
           /\ phase' = "load" /\ why' = "none" /\ StopClock
           /\ report' = NoReport /\ ocr' = "none" /\ vision' = FALSE /\ met' = {}
           /\ UNCHANGED <<env, heard, service, deployed, tier, loaded>>

Process == \/ Load \/ Ask \/ Sleep
           \/ \E works \in BOOLEAN : CheckShim(works)
           \/ \E d \in 0..CallTime : Connected(d) \/ Unconnected(d)
OCRService == \E w \in OCRWorkers :
  ServiceStarts(w) \/ ModelsLoad(w) \/ FallsBack(w) \/ ServiceDies(w)

-----------------------------------------------------------------------------
StartupTypeOK ==
  /\ env \in Environments
  /\ phase \in {"load", "shim", "probe", "asking", "sleep", "serving", "refused"}
  /\ why \in {"none", "config", "shim", "wrong", "unreachable"}
  /\ clock \in Nat
  /\ heard.ok \in {"none", "yes", "unreachable", "wrong"}
  /\ heard.report \in Outcomes /\ report \in Outcomes
  /\ ocr \in {"none", "stub", "client"} /\ vision \in BOOLEAN
  /\ deployed \in Deployments
  /\ service \in [OCRWorkers -> {"down", "loading", "up"}]
  /\ tier \in [OCRWorkers -> Engines \cup {"auto"}]
  /\ loaded \in [OCRWorkers -> SUBSET Engines]
  /\ upSince \in Nat \cup {-1} /\ met \subseteq OCRWorkers

(* A start is given up for an unreachable service after the whole wait and   *)
(* at most one pause and one attempt more, and never when workers have been  *)
(* up, and none of them was lost, for longer than an attempt takes: the last *)
(* attempt would have found one.  (The loop of ocrEngine, deadline against   *)
(* attempt against pause.)                                                   *)
GivesUpInTime ==
  why = "unreachable" =>
    /\ clock > Value("OCRWait") /\ clock <= Value("OCRWait") + SleepTime + CallTime
    /\ Ups # {} => clock - upSince <= CallTime

(* A process configured for OCR never serves with the stub, one that is not  *)
(* never waits for the service, and the vision tier is wired only where it   *)
(* was asked for.  (ocrEngine: "silently serving stub text under a           *)
(* configuration that says otherwise".)                                      *)
ConfiguredIsUsed ==
  phase = "serving" =>
    /\ Value("OCRURL") <=> ocr = "client"
    /\ vision => Value("OCRURL") /\ Value("VisionEnabled")

(* As long as the worker that was asked has not died, the tier in the report *)
(* is the one that worker serves and has the models of (unless it loads them *)
(* lazily), through its fallback; and the vision tier that is wired is       *)
(* another engine than any worker reads pages with, whichever of them were   *)
(* started again or fell back since.                                         *)
ReportIsTrue ==
  ocr = "client" =>
    /\ \A w \in met : /\ report.tier = Active(tier[w])
                      /\ deployed.lazy \/ Active(tier[w]) \in loaded[w]
    /\ vision => \A w \in OCRWorkers : Active(tier[w]) # "vision"

(* Every start comes to an end: the process serves or gives up, whatever the *)
(* service does meanwhile.  (The deadline of ocrEngine.)                     *)
StartSettles == phase = "load" ~> phase \in {"serving", "refused"}
=============================================================================
