--------------------------- MODULE Service_proofs ---------------------------
(***************************************************************************)
(* Proofs about Service, for any environments and deployments, any pause   *)
(* and length of a call, and any number of requests under any filenames.   *)
(***************************************************************************)
EXTENDS Service, TLAPS

-----------------------------------------------------------------------------
(* The start.                                                               *)

(* The wait that config.Load has accepted is a positive number.             *)
LEMMA WaitIs ==
  ASSUME env \in Environments, Valid
  PROVE  Value("OCRWait") \in Int /\ Value("OCRWait") > 0
  <1>1. CASE "OCRWait" \in DOMAIN env
    <2>1. env["OCRWait"] \in Int
      BY <1>1, StartupAssumption DEF Valid, Switches, Thresholds
    <2>2. env["OCRWait"] > 0
      BY <1>1 DEF Valid, Durations
    <2> QED BY <1>1, <2>1, <2>2 DEF Value
  <1>2. CASE "OCRWait" \notin DOMAIN env
    BY <1>2 DEF Value, Default
  <1> QED BY <1>1, <1>2

Underway == {"shim", "probe", "asking", "sleep", "serving"}

(* Beyond Load the configuration is good, nothing is given up yet, and the  *)
(* tiers are wired when the process serves and not before.                  *)
Wiring ==
  /\ phase \in Underway => Valid /\ InRange /\ Ordered
  /\ why # "none" <=> phase = "refused"
  /\ phase \in {"probe", "asking", "sleep"} => Value("OCRURL")
  /\ phase # "serving" => ocr = "none" /\ ~vision
  /\ phase = "serving" => /\ Value("OCRURL") <=> ocr = "client"
                          /\ ocr # "none"
                          /\ vision => Value("OCRURL") /\ Value("VisionEnabled")

(* How late it can be at each point, and since when some worker is up.      *)
Times ==
  /\ Ups # {} <=> upSince # -1
  /\ upSince <= clock
  /\ phase \in {"load", "shim"} => clock = 0
  /\ phase \in {"probe", "asking"} => clock <= Value("OCRWait") + SleepTime
  /\ phase = "sleep" => clock <= Value("OCRWait")
  /\ phase = "asking" /\ heard.ok # "yes" /\ Ups # {} => upSince = clock
  /\ GivesUpInTime

(* Every worker has the TIER of the deployment, or has fallen back from     *)
(* reading layout.                                                          *)
Tiers == \A w \in OCRWorkers :
  \/ tier[w] = deployed.setting
  \/ tier[w] = "text" /\ ~ServesVision(deployed.setting)

(* A report says there is a vision tier only where no worker serves it.     *)
Honest(rep) == rep.vision => ~ServesVision(deployed.setting)

(* What a worker said, as long as it is the one that runs.                  *)
Truth ==
  /\ Tiers
  /\ \A w \in met : service[w] = "up"
  /\ \A v, w \in met : v = w
  /\ \A w \in OCRWorkers : service[w] = "loading" => ~deployed.lazy
  /\ \A w \in Ups : deployed.lazy \/ Active(tier[w]) \in loaded[w]
  /\ phase = "asking" => heard.ok \in {"yes", "unreachable", "wrong"}
  /\ phase = "asking" => \A w \in met : heard.ok = "yes" /\ heard.report = Version(tier[w])
  /\ phase = "asking" /\ heard.ok = "yes" => Honest(heard.report)
  /\ ocr = "client" => \A w \in met : report.tier = Active(tier[w])
  /\ vision => Honest(report) /\ report.vision

StartInv == StartupTypeOK /\ Wiring /\ Times /\ Truth

LEMMA StartInit == StartupInit => StartInv
  <1> SUFFICES ASSUME StartupInit PROVE StartInv
    OBVIOUS
  <1>1. deployed.setting \in Engines \cup {"auto"} /\ Ups = {}
    BY StartupAssumption DEF StartupInit, Engines, Ups
  <1>2. StartupTypeOK
    BY <1>1 DEF StartupInit, StartupTypeOK, Nothing, Outcomes, NoReport
  <1>3. Wiring
    BY DEF StartupInit, Wiring, Underway
  <1>4. Times
    BY <1>1 DEF StartupInit, Times, GivesUpInTime
  <1>5. Truth
    BY <1>1 DEF StartupInit, Truth, Tiers
  <1> QED BY <1>2, <1>3, <1>4, <1>5 DEF StartInv

(* What the configuration says does not change while the process runs.      *)
LEMMA SameEnv ==
  ASSUME env' = env
  PROVE  /\ Valid' <=> Valid
         /\ InRange' <=> InRange
         /\ Ordered' <=> Ordered
         /\ \A k : Value(k)' = Value(k)
  BY DEF Valid, InRange, Ordered, Value

LEMMA VersionIs ==
  ASSUME NEW t
  PROVE  /\ Version(t) \in Reports /\ Version(t).tier = Active(t)
         /\ Version(t).vision => ~ServesVision(t)
  <1>1. Active(t) \in Engines /\ VisionAvailable(t) \in BOOLEAN
    BY DEF Active, Engines, VisionAvailable, Installed
  <1>2. VisionAvailable(t) => ~ServesVision(t)
    BY DEF VisionAvailable
  <1> QED BY <1>1, <1>2 DEF Version, Reports

(* The process goes on and hears nothing of the service.                    *)
LEMMA TruthKept ==
  ASSUME Truth, UNCHANGED <<service, deployed, tier, loaded>>,
         met' \subseteq met, phase' # "asking",
         ocr' = "client" => ocr = "client" /\ report' = report,
         vision' => vision /\ report' = report
  PROVE  Truth'
  BY DEF Truth, Tiers, Honest, Ups, Active, ServesVision, UsesStructure, Installed

LEMMA LoadInv == ASSUME StartInv, Load PROVE StartInv'
  <1> USE SameEnv DEF Load, Refuse, svcVars
  <1>1. StartupTypeOK'
    BY DEF StartInv, StartupTypeOK
  <1>2. Wiring'
    BY DEF StartInv, Wiring, Underway
  <1>3. Times'
    BY DEF StartInv, Times, GivesUpInTime, Wiring, Ups
  <1>4. Truth'
    BY TruthKept DEF StartInv
  <1> QED BY <1>1, <1>2, <1>3, <1>4 DEF StartInv

LEMMA ShimInv == ASSUME StartInv, NEW works \in BOOLEAN, CheckShim(works) PROVE StartInv'
  <1> USE SameEnv DEF CheckShim, Refuse, svcVars
  <1>1. StartupTypeOK'
    BY DEF StartInv, StartupTypeOK
  <1>2. Wiring'
    BY DEF StartInv, Wiring, Underway
  <1>3. Times'
    <2>1. phase' = "probe" => Value("OCRWait") \in Int /\ Value("OCRWait") > 0
      BY WaitIs DEF StartInv, StartupTypeOK, Wiring, Underway
    <2> QED BY <2>1, StartupAssumption DEF StartInv, Times, GivesUpInTime, Wiring, Ups
  <1>4. Truth'
    BY TruthKept DEF StartInv, Wiring
  <1> QED BY <1>1, <1>2, <1>3, <1>4 DEF StartInv

LEMMA AskInv == ASSUME StartInv, Ask PROVE StartInv'
  <1> USE SameEnv DEF Ask, svcVars
  <1>1. \/ \E w \in Ups : heard' = [ok |-> "yes", report |-> Version(tier[w])] /\ met' = {w}
        \/ /\ Ups = {} /\ met' = {} /\ heard'.ok \in {"unreachable", "wrong"}
           /\ heard'.report = NoReport
    BY DEF NoAnswer
  <1>2. heard'.ok \in {"yes", "unreachable", "wrong"} /\ heard'.report \in Outcomes
    BY <1>1, VersionIs DEF Outcomes
  <1>3. Ups # {} => heard'.ok = "yes"
    BY <1>1
  <1>4. StartupTypeOK'
    BY <1>1, <1>2 DEF StartInv, StartupTypeOK, Ups
  <1>5. Wiring'
    BY DEF StartInv, Wiring, Underway
  <1>6. Times'
    BY <1>3 DEF StartInv, Times, GivesUpInTime, Wiring, Ups
  <1>7. Truth'
    <2>1. /\ deployed' = deployed /\ service' = service /\ tier' = tier /\ loaded' = loaded
          /\ Ups' = Ups /\ ocr' = "none" /\ ~vision' /\ Truth
      BY DEF StartInv, Wiring, Ups
    <2>2. CASE \E w \in Ups : heard' = [ok |-> "yes", report |-> Version(tier[w])] /\ met' = {w}
      <3>1. PICK w \in Ups : heard' = [ok |-> "yes", report |-> Version(tier[w])] /\ met' = {w}
        BY <2>2
      <3>2. Version(tier[w]).vision => ~ServesVision(deployed.setting)
        BY <2>1, VersionIs DEF Truth, Tiers, Ups
      <3>3. heard'.report.vision => ~ServesVision(deployed.setting)
        BY <3>1, <3>2
      <3> QED
        BY <2>1, <3>1, <3>3 DEF Truth, Tiers, Honest, Ups, Version, VisionAvailable, Active,
             ServesVision, UsesStructure, Installed
    <2>3. CASE met' = {} /\ heard'.ok \in {"unreachable", "wrong"}
      BY <2>1, <2>3 DEF Truth, Tiers, Honest, Active, ServesVision, UsesStructure, Installed
    <2> QED BY <1>1, <2>2, <2>3
  <1> QED BY <1>4, <1>5, <1>6, <1>7 DEF StartInv

LEMMA SleepInv == ASSUME StartInv, Sleep PROVE StartInv'
  <1> USE SameEnv DEF Sleep, svcVars
  <1>1. Value("OCRWait") \in Int /\ clock \in Nat /\ SleepTime \in Nat
    BY WaitIs, StartupAssumption DEF StartInv, StartupTypeOK, Wiring, Underway
  <1>2. StartupTypeOK'
    BY <1>1 DEF StartInv, StartupTypeOK
  <1>3. Wiring'
    BY DEF StartInv, Wiring, Underway
  <1>4. Times'
    BY <1>1 DEF StartInv, Times, GivesUpInTime, Wiring, StartupTypeOK, Ups
  <1>5. Truth'
    BY TruthKept DEF StartInv
  <1> QED BY <1>2, <1>3, <1>4, <1>5 DEF StartInv

LEMMA UnconnectedInv == ASSUME StartInv, NEW d \in 0..CallTime, Unconnected(d) PROVE StartInv'
  <1> USE SameEnv DEF Unconnected, Answered, Refuse, Nothing, svcVars
  <1>1. /\ Value("OCRWait") \in Int /\ clock \in Nat /\ SleepTime \in Nat /\ CallTime \in Nat
        /\ d \in Nat /\ d <= CallTime
    BY WaitIs, StartupAssumption DEF StartInv, StartupTypeOK, Wiring, Underway
  <1>2. StartupTypeOK'
    BY <1>1 DEF StartInv, StartupTypeOK, Outcomes
  <1>3. Wiring'
    BY DEF StartInv, Wiring, Underway
  <1>4. upSince \in Int /\ Ups' = Ups
    BY DEF StartInv, StartupTypeOK, Ups
  <1>5. Times'
    <2>1. Ups # {} => upSince = clock
      BY DEF StartInv, Times
    <2>2. clock <= Value("OCRWait") + SleepTime /\ clock' = clock + d
      BY DEF StartInv, Times
    <2>3. (Ups # {} <=> upSince # -1) /\ upSince <= clock
      BY DEF StartInv, Times
    <2>4. phase' \in {"refused", "sleep"} /\ (phase' = "sleep" => ~(clock' > Value("OCRWait")))
      OBVIOUS
    <2>5. phase' = "sleep" => why' = "none"
      BY DEF StartInv, Wiring
    <2>6. why' = "unreachable" => clock' > Value("OCRWait")
      BY <2>5
    <2> QED BY <1>1, <1>4, <2>1, <2>2, <2>3, <2>4, <2>5, <2>6 DEF Times, GivesUpInTime
  <1>6. Truth'
    BY TruthKept DEF StartInv
  <1> QED BY <1>2, <1>3, <1>5, <1>6 DEF StartInv

LEMMA ConnectedInv == ASSUME StartInv, NEW d \in 0..CallTime, Connected(d) PROVE StartInv'
  <1> USE SameEnv DEF Connected, Answered, StopClock, Nothing
  <1>1. vision' \in BOOLEAN /\ (vision' => Value("VisionEnabled") /\ heard.report.vision)
    BY Zenon DEF WireVision
  <1>2. StartupTypeOK'
    BY <1>1 DEF StartInv, StartupTypeOK, Outcomes
  <1>3. Wiring'
    BY <1>1 DEF StartInv, Wiring, Underway
  <1>4. Times'
    BY DEF StartInv, Times, GivesUpInTime, Wiring, StartupTypeOK, Ups
  <1>5. Truth'
    <2>1. /\ Truth /\ phase = "asking" /\ heard.ok = "yes" /\ report' = heard.report
          /\ phase' = "serving"
      BY DEF StartInv
    <2>2. \A w \in met : report'.tier = Active(tier[w])
      BY <2>1, VersionIs DEF Truth
    <2>3. vision' => report'.vision /\ ~ServesVision(deployed.setting)
      BY <1>1, <2>1 DEF Truth, Honest
    <2> QED
      BY <2>1, <2>2, <2>3 DEF Truth, Tiers, Honest, Ups, Active, ServesVision, UsesStructure, Installed
  <1> QED BY <1>2, <1>3, <1>4, <1>5 DEF StartInv

LEMMA RestartInv == ASSUME StartInv, Restart PROVE StartInv'
  <1> USE SameEnv DEF Restart, StopClock
  <1>1. StartupTypeOK'
    BY DEF StartInv, StartupTypeOK, Outcomes
  <1>2. Wiring'
    BY DEF StartInv, Wiring, Underway
  <1>3. Times'
    BY DEF StartInv, Times, GivesUpInTime, StartupTypeOK, Ups
  <1>4. Truth'
    BY TruthKept DEF StartInv
  <1> QED BY <1>1, <1>2, <1>3, <1>4 DEF StartInv

(* The workers of the OCR service come and go under a clock that stands.    *)
LEMMA TimesKept ==
  ASSUME StartInv, UNCHANGED <<env, phase, why, clock>>,
         \/ Ups' = {} /\ upSince' = -1
         \/ Ups' # {} /\ upSince' = clock
         \/ (Ups' = {} <=> Ups = {}) /\ upSince' = upSince,
         heard' = heard \/ Ups' = {} \/ upSince' = clock
  PROVE  Times'
  <1>1. clock \in Nat /\ CallTime \in Nat /\ upSince \in Nat \cup {-1}
    BY StartupAssumption DEF StartInv, StartupTypeOK
  <1> QED BY <1>1, SameEnv DEF StartInv, Times, GivesUpInTime

LEMMA WorkerUp ==
  ASSUME StartInv, NEW w \in OCRWorkers, Up(w)
  PROVE  /\ Ups' # {}
         /\ upSince' = clock \/ (Ups # {} /\ upSince' = upSince)
  BY DEF Up, Ups, StartInv, StartupTypeOK

(* The steps of a worker.                                                   *)
LEMMA ServiceInv == ASSUME StartInv, NEW w \in OCRWorkers,
                           ServiceStarts(w) \/ ModelsLoad(w) \/ FallsBack(w) \/ ServiceDies(w)
                    PROVE  StartInv'
  <1> USE SameEnv DEF svcSame
  <1>1. /\ deployed.setting \in Engines \cup {"auto"} /\ Active(tier[w]) \in Engines
        /\ clock \in Nat /\ StartupTypeOK /\ Truth
    BY StartupAssumption DEF StartInv, StartupTypeOK, Engines, Active
  <1>2. Wiring'
    BY DEF StartInv, Wiring, Underway, ServiceStarts, ModelsLoad, FallsBack, ServiceDies
  <1>3. CASE ServiceStarts(w)
    <2> USE <1>3 DEF ServiceStarts, Up
    <2>1. StartupTypeOK'
      BY <1>1 DEF StartupTypeOK
    <2>2. Times'
      <3>1. CASE deployed.lazy
        BY <3>1, WorkerUp, TimesKept
      <3>2. CASE ~deployed.lazy
        <4>1. Ups' = Ups
          BY <1>1, <3>2 DEF Ups, StartupTypeOK
        <4> QED BY <3>2, <4>1, TimesKept
      <3> QED BY <3>1, <3>2
    <2>3. Truth'
      BY <1>1 DEF StartupTypeOK, Truth, Tiers, Honest, Ups, Version, VisionAvailable, Active,
           ServesVision, UsesStructure, Installed
    <2> QED BY <1>2, <2>1, <2>2, <2>3 DEF StartInv
  <1>4. CASE ModelsLoad(w)
    <2> USE <1>4 DEF ModelsLoad
    <2>1. StartupTypeOK'
      BY <1>1 DEF StartupTypeOK, Up
    <2>2. Times'
      BY WorkerUp, TimesKept
    <2>3. Truth'
      BY <1>1 DEF StartupTypeOK, Truth, Tiers, Honest, Ups, Up, Version, VisionAvailable, Active,
           ServesVision, UsesStructure, Installed
    <2> QED BY <1>2, <2>1, <2>2, <2>3 DEF StartInv
  <1>5. CASE FallsBack(w)
    <2> USE <1>5 DEF FallsBack
    <2>1. StartupTypeOK'
      BY <1>1 DEF StartupTypeOK, Up, Engines
    <2>2. Times'
      BY WorkerUp, TimesKept
    <2>3. Truth'
      <3>1. ~ServesVision(deployed.setting) /\ w \notin met
        BY <1>1 DEF Truth, Tiers, Active
      <3> QED
        BY <1>1, <3>1 DEF StartupTypeOK, Truth, Tiers, Honest, Ups, Up, Version, VisionAvailable,
             Active, ServesVision, UsesStructure, Installed
    <2> QED BY <1>2, <2>1, <2>2, <2>3 DEF StartInv
  <1>6. CASE ServiceDies(w)
    <2> USE <1>6 DEF ServiceDies
    <2>1. StartupTypeOK'
      BY <1>1 DEF StartupTypeOK, NoAnswer, Outcomes
    <2>2. Times'
      <3>1. Ups' = Ups \ {w}
        BY <1>1 DEF Ups, StartupTypeOK
      <3>2. heard' # heard => w \in Ups
        BY <1>1 DEF Truth, Ups
      <3> QED BY <3>1, <3>2, TimesKept
    <2>3. Truth'
      <3>1. /\ \A v \in OCRWorkers : v # w => service'[v] = service[v]
            /\ service'[w] = "down"
        BY <1>1 DEF StartupTypeOK
      <3>2. phase = "asking" => heard'.ok \in {"yes", "unreachable", "wrong"}
        BY <1>1 DEF Truth, NoAnswer
      <3>3. phase = "asking" /\ heard'.ok = "yes" => heard' = heard
        BY DEF NoAnswer
      <3>4. ASSUME phase = "asking", NEW v \in met' PROVE heard' = heard
        <4>1. heard' # heard => w \in met /\ heard' = NoAnswer
          OBVIOUS
        <4>2. v \in met /\ v # w
          BY <3>4
        <4> QED BY <4>1, <4>2, <1>1 DEF Truth
      <3> QED
        BY <1>1, <3>1, <3>2, <3>3, <3>4 DEF StartupTypeOK, Truth, Tiers, Honest, Ups, Version,
           VisionAvailable, Active, ServesVision, UsesStructure, Installed
    <2> QED BY <1>2, <2>1, <2>2, <2>3 DEF StartInv
  <1> QED BY <1>3, <1>4, <1>5, <1>6

LEMMA ProcessInv == StartInv /\ Process => StartInv'
  BY LoadInv, ShimInv, AskInv, SleepInv, UnconnectedInv, ConnectedInv DEF Process

-----------------------------------------------------------------------------
(* The requests.                                                            *)

(* An image is one scanned page, and what the shim remembers is what it     *)
(* would say of the content.                                                *)
MemoOK ==
  /\ bytes = "image" => scans = "all"
  /\ memo # "none" => flaw = "none" /\ bytes # "none"
  /\ memo = "pdf" => bytes = "pdf"
  /\ memo = "native" => bytes # "pdf"

(* A reader that accepted can read the content, under some filename.        *)
BestOK(r) ==
  /\ step[r] # "idle" => bytes # "none"
  /\ step[r] \in {"idle", "native"} => best[r] = "none" /\ errs[r] = {}
  /\ best[r] = "pdf" => bytes = "pdf"
  /\ best[r] = "native" => bytes # "pdf"
  /\ best[r] = "image" => bytes = "image" /\ scans = "all"
  /\ step[r] = "extract" => best[r] \in {"native", "pdf"} /\ ~only[r] /\ ~OCRAlone(r)
  /\ step[r] # "over" => verdict[r] = "none"

(* The errors are the shim's own, or say what is wrong with the document;   *)
(* and the engine whose document it is has accepted it or failed.           *)
ErrsOK(r) ==
  /\ \A e \in errs[r] :
       e = "internal" \/ (e = flaw /\ flaw # "none" /\ Detect(r) # "unsupported")
  /\ step[r] \in {"pdf", "image", "choose", "over"} /\ Detect(r) = "native" =>
       best[r] # "none" \/ errs[r] # {}
  /\ step[r] \in {"image", "choose", "over"} /\ Detect(r) = "pdf" =>
       best[r] # "none" \/ errs[r] # {}
  /\ step[r] \in {"choose", "over"} /\ bytes = "image" =>
       best[r] # "none" \/ errs[r] # {}

(* The one word for a document under a filename.                            *)
Word(r) == IF Detect(r) = "unsupported" THEN "unsupported" ELSE flaw

VerdictOK(r) ==
  step[r] = "over" =>
    /\ verdict[r] \in Errors => best[r] = "none" \/ (~only[r] /\ ~OCRAlone(r))
    /\ verdict[r] \in {"read", "both"} => best[r] = Detect(r)
    /\ verdict[r] \in {"ocr", "both"} => scans # "none"
    /\ verdict[r] \in Errors \ {"internal"} => verdict[r] = Word(r)

RequestOK(r) == BestOK(r) /\ ErrsOK(r) /\ VerdictOK(r)

InspectInv == InspectTypeOK /\ MemoOK /\ \A r \in Requests : RequestOK(r)

LEMMA InspectStarts == InspectInit => InspectInv
  <1> SUFFICES ASSUME InspectInit PROVE InspectInv
    OBVIOUS
  <1>1. InspectTypeOK
    BY InspectionAssumption DEF InspectInit, InspectTypeOK, Contents, Flaws, Steps, Readers, Verdicts
  <1>2. MemoOK
    BY DEF InspectInit, MemoOK
  <1>3. ASSUME NEW r \in Requests PROVE RequestOK(r)
    BY DEF InspectInit, RequestOK, BestOK, ErrsOK, VerdictOK
  <1> QED BY <1>1, <1>2, <1>3 DEF InspectInv

LEMMA ForgottenInv == Forgotten => InspectInv'
  <1> SUFFICES ASSUME Forgotten PROVE InspectInv'
    OBVIOUS
  <1>1. InspectTypeOK'
    BY InspectionAssumption DEF Forgotten, InspectTypeOK, Contents, Flaws, Steps, Readers, Verdicts
  <1>2. MemoOK'
    BY DEF Forgotten, MemoOK
  <1>3. ASSUME NEW r \in Requests PROVE RequestOK(r)'
    BY DEF Forgotten, RequestOK, BestOK, ErrsOK, VerdictOK
  <1> QED BY <1>1, <1>2, <1>3 DEF InspectInv

LEMMA DetectIs ==
  ASSUME NEW r
  PROVE  /\ Detect(r) \in {"pdf", "native", "unsupported"}
         /\ Detect(r) = "pdf" <=> bytes = "pdf"
         /\ Detect(r) = "native" => bytes # "pdf"
  BY DEF Detect

(* A step of one request, over the same document, leaves the others.        *)
LEMMA OthersKeep ==
  ASSUME NEW q \in Requests, RequestOK(q), UNCHANGED <<bytes, flaw, scans>>,
         step'[q] = step[q], best'[q] = best[q], errs'[q] = errs[q],
         verdict'[q] = verdict[q], name'[q] = name[q], only'[q] = only[q]
  PROVE  RequestOK(q)'
  <1>1. Detect(q)' = Detect(q) /\ OCRAlone(q)' = OCRAlone(q)
    BY DEF Detect, OCRAlone
  <1> QED BY <1>1 DEF RequestOK, BestOK, ErrsOK, VerdictOK, Word

LEMMA BeginInv == ASSUME InspectInv, NEW r \in Requests, Begin(r) PROVE InspectInv'
  <1> USE DEF Begin
  <1>1. /\ bytes' \in Contents /\ flaw' \in Flaws /\ scans' \in {"none", "some", "all"}
        /\ bytes # "none" => bytes' = bytes /\ flaw' = flaw /\ scans' = scans
        /\ bytes = "none" /\ bytes' = "image" => scans' = "all"
    BY DEF Arrives, InspectInv, InspectTypeOK, Contents, Flaws
  <1>2. InspectTypeOK'
    BY <1>1 DEF InspectInv, InspectTypeOK, Steps
  <1>3. MemoOK'
    BY <1>1 DEF InspectInv, MemoOK, Contents
  <1>4. ASSUME NEW q \in Requests PROVE RequestOK(q)'
    <2>1. RequestOK(q)
      BY DEF InspectInv
    <2>2. CASE step[q] = "idle"
      <3>1. best'[q] = "none" /\ errs'[q] = {} /\ step'[q] \in {"idle", "native"} /\ verdict'[q] = "none"
        BY <2>1, <2>2 DEF RequestOK, BestOK, InspectInv, InspectTypeOK
      <3> QED BY <3>1, <1>1 DEF RequestOK, BestOK, ErrsOK, VerdictOK, Contents
    <2>3. CASE step[q] # "idle"
      <3>1. q # r
        BY <2>3
      <3>2. step'[q] = step[q] /\ name'[q] = name[q] /\ only'[q] = only[q]
        BY <3>1 DEF InspectInv, InspectTypeOK
      <3>3. bytes' = bytes /\ flaw' = flaw /\ scans' = scans
        BY <1>1, <2>1, <2>3 DEF RequestOK, BestOK
      <3> QED BY <2>1, <3>2, <3>3, OthersKeep
    <2> QED BY <2>2, <2>3
  <1> QED BY <1>2, <1>3, <1>4 DEF InspectInv

(* What an engine that was asked has changed.                               *)
LEMMA LearnedIs ==
  ASSUME InspectInv, NEW r \in Requests, NEW answer \in Errors \cup Readers,
         step[r] \in Readers, Learned(r, answer), Onward(r)
  PROVE  /\ step' \in [Requests -> Steps] /\ best' \in [Requests -> Readers \cup {"none"}]
         /\ errs' \in [Requests -> SUBSET Errors]
         /\ step'[r] = Following(step[r])
         /\ best'[r] = IF answer = step[r] /\ best[r] = "none" THEN answer ELSE best[r]
         /\ errs'[r] = IF answer \in Errors \ {"unsupported"} THEN errs[r] \cup {answer} ELSE errs[r]
         /\ \A q \in Requests : q # r => step'[q] = step[q] /\ best'[q] = best[q] /\ errs'[q] = errs[q]
  <1>1. Following(step[r]) \in Steps
    BY DEF Following, Readers, Steps
  <1>2. answer = step[r] => answer \in Readers
    OBVIOUS
  <1> QED BY <1>1, <1>2 DEF Learned, Onward, InspectInv, InspectTypeOK

(* What the shim can answer.                                                *)
LEMMA ShimSays ==
  ASSUME InspectInv, NEW r \in Requests, step[r] # "idle", NEW answer, ShimInspect(r, answer)
  PROVE  /\ answer \in Errors \cup {"native", "pdf"}
         /\ memo' \in {"none", "native", "pdf"}
         /\ MemoOK' \/ bytes' # bytes \/ flaw' # flaw \/ scans' # scans
         /\ answer \in Errors \ {"unsupported"} =>
              answer = "internal" \/ (answer = flaw /\ flaw # "none" /\ Detect(r) # "unsupported")
         /\ answer = "pdf" => bytes = "pdf"
         /\ answer = "native" => bytes # "pdf"
         /\ answer = "unsupported" => Detect(r) = "unsupported"
         /\ answer = "native" /\ Detect(r) = "pdf" => FALSE
         /\ answer = "pdf" /\ Detect(r) = "native" => FALSE
  <1> USE DEF InspectInv, MemoOK
  <1>1. bytes # "none" /\ flaw \in {"none", "malformed", "encrypted"}
    BY DEF RequestOK, BestOK, InspectTypeOK, Flaws
  <1>2. CASE memo # "none"
    BY <1>1, <1>2, DetectIs DEF ShimInspect, InspectTypeOK, Errors
  <1>3. CASE memo = "none"
    <2>1. answer = "internal" \/ (Detect(r) # "unsupported" /\ flaw # "none" /\ answer = flaw)
          \/ ((Detect(r) = "unsupported" \/ flaw = "none") /\ answer = Detect(r))
      BY <1>3 DEF ShimInspect, ShimCall
    <2>2. memo' = IF answer \in Errors THEN memo ELSE answer
      BY <1>3 DEF ShimInspect
    <2> QED BY <1>1, <1>3, <2>1, <2>2, DetectIs DEF Errors
  <1> QED BY <1>2, <1>3

LEMMA AskShimInv == ASSUME InspectInv, NEW r \in Requests, AskShim(r) PROVE InspectInv'
  <1>1. PICK answer \in Errors \cup {"native", "pdf"} : ShimInspect(r, answer) /\ Learned(r, answer)
    BY DEF AskShim
  <1>2. step[r] \in {"native", "pdf"} /\ Onward(r) /\ UNCHANGED <<bytes, flaw, scans, name, only, verdict>>
    BY DEF AskShim, Onward
  <1>3. /\ step' \in [Requests -> Steps] /\ best' \in [Requests -> Readers \cup {"none"}]
        /\ errs' \in [Requests -> SUBSET Errors]
        /\ step'[r] = Following(step[r])
        /\ best'[r] = IF answer = step[r] /\ best[r] = "none" THEN answer ELSE best[r]
        /\ errs'[r] = IF answer \in Errors \ {"unsupported"} THEN errs[r] \cup {answer} ELSE errs[r]
        /\ \A q \in Requests : q # r => step'[q] = step[q] /\ best'[q] = best[q] /\ errs'[q] = errs[q]
    BY <1>1, <1>2, LearnedIs DEF Readers
  <1>4. /\ memo' \in {"none", "native", "pdf"} /\ MemoOK'
        /\ answer \in Errors \ {"unsupported"} =>
             answer = "internal" \/ (answer = flaw /\ flaw # "none" /\ Detect(r) # "unsupported")
        /\ answer = "pdf" => bytes = "pdf"
        /\ answer = "native" => bytes # "pdf"
        /\ answer = "unsupported" => Detect(r) = "unsupported"
        /\ answer = "native" => Detect(r) # "pdf"
        /\ answer = "pdf" => Detect(r) # "native"
    BY <1>1, <1>2, ShimSays
  <1>5. InspectTypeOK'
    BY <1>2, <1>3, <1>4 DEF InspectInv, InspectTypeOK
  <1>6. RequestOK(r)'
    <2>1. Detect(r)' = Detect(r)
      BY <1>2 DEF Detect
    <2>2. RequestOK(r) /\ errs[r] \subseteq Errors
      BY DEF InspectInv, InspectTypeOK
    <2>3. step'[r] = IF step[r] = "native" THEN "pdf" ELSE "image"
      BY <1>2, <1>3 DEF Following
    <2>4. BestOK(r)'
      BY <1>2, <1>3, <1>4, <2>2, <2>3 DEF RequestOK, BestOK
    <2>5. ErrsOK(r)'
      <3>1. \A e \in errs'[r] : e = "internal" \/ (e = flaw /\ flaw # "none" /\ Detect(r) # "unsupported")
        BY <1>3, <1>4, <2>2 DEF RequestOK, ErrsOK
      <3>2. Detect(r) = "native" => best'[r] # "none" \/ errs'[r] # {}
        <4>1. CASE step[r] = "native"
          BY <1>3, <1>4, <4>1
        <4>2. CASE step[r] = "pdf"
          BY <1>3, <2>2, <4>2 DEF RequestOK, ErrsOK
        <4> QED BY <1>2, <4>1, <4>2
      <3>3. Detect(r) = "pdf" /\ step[r] = "pdf" => best'[r] # "none" \/ errs'[r] # {}
        BY <1>1, <1>3, <1>4
      <3> QED BY <1>2, <2>1, <2>3, <3>1, <3>2, <3>3 DEF ErrsOK
    <2>6. VerdictOK(r)'
      BY <2>3 DEF VerdictOK
    <2> QED BY <2>4, <2>5, <2>6 DEF RequestOK
  <1>7. ASSUME NEW q \in Requests, q # r PROVE RequestOK(q)'
    <2>1. RequestOK(q)
      BY DEF InspectInv
    <2> QED BY <1>2, <1>3, <1>7, <2>1, OthersKeep
  <1> QED BY <1>4, <1>5, <1>6, <1>7 DEF InspectInv

LEMMA SniffInv == ASSUME InspectInv, NEW r \in Requests, Sniff(r) PROVE InspectInv'
  <1>1. PICK answer \in {"internal"} \cup
                 {IF bytes = "image" THEN "image" ELSE "unsupported"} : Learned(r, answer)
    BY DEF Sniff
  <1>2. /\ step[r] = "image" /\ Onward(r) /\ UNCHANGED <<bytes, flaw, scans, memo, name, only, verdict>>
    BY DEF Sniff, Onward
  <1>3. answer \in Errors \cup Readers
    BY DEF Errors, Readers
  <1>4. /\ step' \in [Requests -> Steps] /\ best' \in [Requests -> Readers \cup {"none"}]
        /\ errs' \in [Requests -> SUBSET Errors]
        /\ step'[r] = Following(step[r])
        /\ best'[r] = IF answer = step[r] /\ best[r] = "none" THEN answer ELSE best[r]
        /\ errs'[r] = IF answer \in Errors \ {"unsupported"} THEN errs[r] \cup {answer} ELSE errs[r]
        /\ \A q \in Requests : q # r => step'[q] = step[q] /\ best'[q] = best[q] /\ errs'[q] = errs[q]
    BY <1>1, <1>2, <1>3, LearnedIs DEF Readers
  <1>5. InspectTypeOK'
    BY <1>2, <1>4 DEF InspectInv, InspectTypeOK
  <1>6. MemoOK'
    BY <1>2 DEF InspectInv, MemoOK
  <1>7. RequestOK(r)'
    <2>1. Detect(r)' = Detect(r)
      BY <1>2 DEF Detect
    <2>2. RequestOK(r)
      BY DEF InspectInv
    <2>3. step'[r] = "choose"
      BY <1>2, <1>4 DEF Following
    <2>4. BestOK(r)'
      BY <1>1, <1>2, <1>4, <2>2, <2>3 DEF RequestOK, BestOK, InspectInv, MemoOK
    <2>5. ErrsOK(r)'
      BY <1>1, <1>2, <1>4, <2>1, <2>2, <2>3 DEF RequestOK, ErrsOK, Errors
    <2>6. VerdictOK(r)'
      BY <2>3 DEF VerdictOK
    <2> QED BY <2>4, <2>5, <2>6 DEF RequestOK
  <1>8. ASSUME NEW q \in Requests, q # r PROVE RequestOK(q)'
    <2>1. RequestOK(q)
      BY DEF InspectInv
    <2> QED BY <1>2, <1>4, <1>8, <2>1, OthersKeep
  <1> QED BY <1>5, <1>6, <1>7, <1>8 DEF InspectInv

(* The end of a request.                                                    *)
LEMMA AnswerInv ==
  ASSUME InspectInv, NEW r \in Requests, step[r] \in {"choose", "extract"},
         NEW v \in Verdicts, Answer(r, v),
         v \in Errors => best[r] = "none" \/ (~only[r] /\ ~OCRAlone(r)),
         v \in {"read", "both"} => best[r] = Detect(r),
         v \in {"ocr", "both"} => scans # "none",
         v \in Errors \ {"internal"} => v = Word(r)
  PROVE  InspectInv'
  <1> USE DEF Answer
  <1>1. /\ step'[r] = "over" /\ verdict'[r] = v
        /\ \A q \in Requests : q # r => step'[q] = step[q] /\ verdict'[q] = verdict[q]
    BY DEF InspectInv, InspectTypeOK
  <1>2. InspectTypeOK'
    BY DEF InspectInv, InspectTypeOK, Steps
  <1>3. MemoOK'
    BY DEF InspectInv, MemoOK
  <1>4. RequestOK(r)'
    <2>1. /\ RequestOK(r) /\ Detect(r)' = Detect(r) /\ Word(r)' = Word(r)
          /\ OCRAlone(r)' = OCRAlone(r)
      BY DEF InspectInv, Detect, Word, OCRAlone
    <2>2. BestOK(r)'
      BY <1>1, <2>1 DEF RequestOK, BestOK
    <2>3. ErrsOK(r)'
      BY <1>1, <2>1 DEF RequestOK, BestOK, ErrsOK
    <2>4. VerdictOK(r)'
      BY <1>1, <2>1 DEF VerdictOK
    <2> QED BY <2>2, <2>3, <2>4 DEF RequestOK
  <1>5. ASSUME NEW q \in Requests, q # r PROVE RequestOK(q)'
    <2>1. RequestOK(q)
      BY DEF InspectInv
    <2> QED BY <1>1, <1>5, <2>1, OthersKeep
  <1> QED BY <1>2, <1>3, <1>4, <1>5 DEF InspectInv

LEMMA RejectInv == ASSUME InspectInv, NEW r \in Requests, Reject(r) PROVE InspectInv'
  <1>1. step[r] = "choose" /\ best[r] = "none" /\ Answer(r, Kind(errs[r]))
    BY DEF Reject, Chosen
  <1>2. RequestOK(r) /\ errs[r] \subseteq Errors /\ flaw \in Flaws
    BY DEF InspectInv, InspectTypeOK
  <1>3. Kind(errs[r]) \in Errors /\ Kind(errs[r]) \in Verdicts
    BY DEF Kind, Errors, Verdicts
  <1>4. Kind(errs[r]) # "internal" => Kind(errs[r]) = Word(r)
    <2>1. CASE errs[r] = {}
      BY <1>1, <1>2, <2>1, DetectIs DEF Kind, Word, RequestOK, ErrsOK
    <2>2. CASE errs[r] # {}
      <3>1. \A e \in errs[r] : e = "internal" \/ (e = flaw /\ flaw # "none" /\ Detect(r) # "unsupported")
        BY <1>2 DEF RequestOK, ErrsOK
      <3> QED BY <1>2, <2>2, <3>1 DEF Kind, Word, Flaws
    <2> QED BY <2>1, <2>2
  <1>5. Kind(errs[r]) \notin {"read", "ocr", "both"}
    BY <1>3 DEF Errors
  <1> QED BY <1>1, <1>3, <1>4, <1>5, AnswerInv

LEMMA ReportInv == ASSUME InspectInv, NEW r \in Requests, Report(r) PROVE InspectInv'
  BY AnswerInv DEF Report, Verdicts, Errors

LEMMA RouteInv == ASSUME InspectInv, NEW r \in Requests, Route(r) PROVE InspectInv'
  <1>1. CASE OCRAlone(r)
    BY <1>1, AnswerInv DEF Route, Verdicts, Errors, OCRAlone
  <1>2. CASE ~OCRAlone(r)
    <2> USE <1>2 DEF Route, Chosen
    <2>1. RequestOK(r) /\ best[r] \in Readers
      BY DEF InspectInv, InspectTypeOK
    <2>2. /\ step[r] = "choose" /\ best[r] \in {"native", "pdf"} /\ step'[r] = "extract"
          /\ \A q \in Requests : q # r => step'[q] = step[q]
      BY <2>1 DEF InspectInv, InspectTypeOK, Readers, RequestOK, BestOK, OCRAlone
    <2>3. InspectTypeOK'
      BY DEF InspectInv, InspectTypeOK, Steps
    <2>4. MemoOK'
      BY DEF InspectInv, MemoOK
    <2>5. RequestOK(r)'
      <3>1. Detect(r)' = Detect(r) /\ OCRAlone(r)' = OCRAlone(r)
        BY DEF Detect, OCRAlone
      <3> QED BY <2>1, <2>2, <3>1 DEF RequestOK, BestOK, ErrsOK, VerdictOK
    <2>6. ASSUME NEW q \in Requests, q # r PROVE RequestOK(q)'
      <3>1. RequestOK(q)
        BY DEF InspectInv
      <3> QED BY <2>2, <2>6, <3>1, OthersKeep
    <2> QED BY <2>3, <2>4, <2>5, <2>6 DEF InspectInv
  <1> QED BY <1>1, <1>2

LEMMA ExtractInv == ASSUME InspectInv, NEW r \in Requests, Extract(r) PROVE InspectInv'
  <1>1. PICK answer \in ShimCall(r) :
          Answer(r, IF answer \in Errors THEN answer
                    ELSE IF best[r] = "pdf" /\ answer # "pdf" THEN "unsupported"
                    ELSE IF best[r] = "pdf" /\ scans = "some" THEN "both" ELSE "read")
    BY DEF Extract
  <1>2. step[r] = "extract" /\ RequestOK(r) /\ flaw \in Flaws
    BY DEF Extract, InspectInv, InspectTypeOK
  <1>3. /\ best[r] \in {"native", "pdf"} /\ ~only[r] /\ ~OCRAlone(r)
        /\ best[r] = "pdf" => bytes = "pdf"
        /\ best[r] = "native" => bytes # "pdf"
    BY <1>2 DEF RequestOK, BestOK
  <1>4. \/ answer = "internal"
        \/ Detect(r) # "unsupported" /\ flaw # "none" /\ answer = flaw
        \/ answer = Detect(r) /\ (Detect(r) = "unsupported" \/ flaw = "none")
    BY <1>1 DEF ShimCall
  <1>5. CASE answer \in Errors
    <2>1. answer # "internal" => answer = Word(r)
      BY <1>4, <1>5, DetectIs DEF Word, Errors
    <2>2. answer \in Verdicts /\ answer \notin {"read", "ocr", "both"}
      BY <1>5 DEF Errors, Verdicts
    <2> QED BY <1>1, <1>2, <1>3, <1>5, <2>1, <2>2, AnswerInv
  <1>6. CASE answer \notin Errors
    <2>1. answer = Detect(r) /\ answer \in {"native", "pdf"}
      BY <1>2, <1>4, <1>6, DetectIs DEF Errors, Flaws
    <2>2. best[r] = Detect(r)
      BY <1>3, <2>1, DetectIs
    <2>3. CASE best[r] = "pdf" /\ scans = "some"
      <3>1. Answer(r, "both")
        BY <1>1, <1>6, <2>1, <2>2, <2>3
      <3> QED BY <1>2, <2>2, <2>3, <3>1, AnswerInv DEF Verdicts, Errors
    <2>4. CASE ~(best[r] = "pdf" /\ scans = "some")
      <3>1. Answer(r, "read")
        BY <1>1, <1>6, <2>1, <2>2, <2>4
      <3> QED BY <1>2, <2>2, <3>1, AnswerInv DEF Verdicts, Errors
    <2> QED BY <2>3, <2>4
  <1> QED BY <1>5, <1>6

LEMMA InspectNextInv == InspectInv /\ InspectNext => InspectInv'
  BY BeginInv, AskShimInv, SniffInv, RejectInv, ReportInv, RouteInv, ExtractInv DEF InspectNext

-----------------------------------------------------------------------------
(* The whole.                                                               *)

IInv == StartInv /\ InspectInv

LEMMA StartStutters == StartInv /\ UNCHANGED startVars => StartInv'
  <1> SUFFICES ASSUME StartInv, UNCHANGED startVars PROVE StartInv'
    OBVIOUS
  <1> USE SameEnv DEF startVars, goVars, svcVars
  <1>1. StartupTypeOK'
    BY DEF StartInv, StartupTypeOK
  <1>2. Wiring'
    BY DEF StartInv, Wiring
  <1>3. Times'
    BY DEF StartInv, Times, GivesUpInTime, Ups
  <1>4. Truth'
    BY DEF StartInv, Truth, Tiers, Honest, Ups, Version, VisionAvailable, Active, ServesVision,
         UsesStructure, Installed
  <1> QED BY <1>1, <1>2, <1>3, <1>4 DEF StartInv

LEMMA InspectStutters == InspectInv /\ UNCHANGED inspectVars => InspectInv'
  <1> SUFFICES ASSUME InspectInv, UNCHANGED inspectVars PROVE InspectInv'
    OBVIOUS
  <1> USE DEF inspectVars, reqVars
  <1>1. InspectTypeOK' /\ MemoOK'
    BY DEF InspectInv, InspectTypeOK, MemoOK
  <1>2. ASSUME NEW q \in Requests PROVE RequestOK(q)'
    BY OthersKeep DEF InspectInv
  <1> QED BY <1>1, <1>2 DEF InspectInv

LEMMA InitInv == Init => IInv
  BY StartInit, InspectStarts DEF Init, IInv

LEMMA NextInv == IInv /\ [Next]_vars => IInv'
  <1> SUFFICES ASSUME IInv, [Next]_vars PROVE IInv'
    OBVIOUS
  <1>1. CASE Serve
    BY <1>1, InspectNextInv, StartStutters DEF Serve, IInv
  <1>2. CASE Starts
    BY <1>2, ProcessInv, ServiceInv, InspectStutters DEF Starts, OCRService, IInv
  <1>3. CASE Goes
    BY <1>3, RestartInv, ForgottenInv DEF Goes, IInv
  <1>4. CASE UNCHANGED vars
    BY <1>4, StartStutters, InspectStutters DEF vars, IInv
  <1> QED BY <1>1, <1>2, <1>3, <1>4 DEF Next

(* Every reachable state satisfies the invariant.                           *)
THEOREM Invariance == Spec => []IInv
  <1> QED BY InitInv, NextInv, PTL DEF Spec

(* The types of the start and of the requests (run, Registry.Inspect).      *)
THEOREM TypeCorrect == Spec => []ServiceTypeOK
  <1>1. IInv => ServiceTypeOK
    BY DEF IInv, StartInv, InspectInv, ServiceTypeOK
  <1> QED BY <1>1, Invariance, PTL

(* Whatever the pause, the length of a call and the wait that is            *)
(* configured, a start is not given up early, late, or on a service that    *)
(* has been up for longer than a call takes (ocrEngine 275-310).            *)
THEOREM GivesUpInTimeHolds == Spec => []GivesUpInTime
  <1>1. IInv => GivesUpInTime
    BY DEF IInv, StartInv, Times
  <1> QED BY <1>1, Invariance, PTL

(* The tiers a process serves with are those of its configuration           *)
(* (ocrEngine, visionEngine 275-345).                                       *)
THEOREM ConfiguredIsUsedHolds == Spec => []ConfiguredIsUsed
  <1>1. IInv => ConfiguredIsUsed
    BY DEF IInv, StartInv, Wiring, ConfiguredIsUsed
  <1> QED BY <1>1, Invariance, PTL

(* What a worker said at the start is so until that worker dies, and the     *)
(* vision tier that is wired is never the one a worker reads pages with      *)
(* (lifespan 138-169, visionEngine 325-345).                                 *)
THEOREM ReportIsTrueHolds == Spec => []ReportIsTrue
  <1>1. IInv => ReportIsTrue
    <2> SUFFICES ASSUME IInv, ocr = "client" PROVE ReportIsTrue
      BY DEF ReportIsTrue
    <2>1. Truth /\ met \subseteq OCRWorkers
      BY DEF IInv, StartInv, StartupTypeOK
    <2>2. ASSUME NEW w \in met
          PROVE  report.tier = Active(tier[w]) /\ (deployed.lazy \/ Active(tier[w]) \in loaded[w])
      BY <2>1 DEF Truth, Ups
    <2>3. ASSUME vision, NEW w \in OCRWorkers PROVE Active(tier[w]) # "vision"
      BY <2>1, <2>3 DEF Truth, Tiers, Honest, Active, ServesVision, UsesStructure
    <2> QED BY <2>2, <2>3 DEF ReportIsTrue
  <1> QED BY <1>1, Invariance, PTL

(* However many requests there are and whatever the engines answered: a     *)
(* document an engine accepted is rejected by its own extraction alone, what *)
(* is read is read by the engine it belongs to, and a sound document no      *)
(* engine accepted is one whose own engine failed (Registry.Inspect,         *)
(* Router.Process 120-160).                                                 *)
THEOREM BrokenMasksNothingHolds == Spec => []BrokenMasksNothing
  <1>1. IInv => BrokenMasksNothing
    <2> SUFFICES ASSUME IInv, NEW r \in Requests, step[r] = "over"
                 PROVE  /\ verdict[r] \in Errors => best[r] = "none" \/ (~only[r] /\ ~OCRAlone(r))
                        /\ verdict[r] \in {"read", "both"} => best[r] = Detect(r)
                        /\ verdict[r] \in {"ocr", "both"} => scans # "none"
                        /\ best[r] = "none" /\ flaw = "none" /\
                             (Detect(r) # "unsupported" \/ bytes = "image") => "internal" \in errs[r]
      BY DEF BrokenMasksNothing
    <2>1. RequestOK(r)
      BY DEF IInv, InspectInv
    <2>2. best[r] = "none" /\ (Detect(r) # "unsupported" \/ bytes = "image") => errs[r] # {}
      BY <2>1, DetectIs DEF RequestOK, ErrsOK
    <2>3. flaw = "none" => \A e \in errs[r] : e = "internal"
      BY <2>1 DEF RequestOK, ErrsOK
    <2> QED BY <2>1, <2>2, <2>3 DEF RequestOK, VerdictOK
  <1> QED BY <1>1, Invariance, PTL

(* All requests that reject a document under one name use the same word     *)
(* (engine.Kind).                                                           *)
THEOREM SameWordHolds == Spec => []SameWord
  <1>1. IInv => SameWord
    <2> SUFFICES ASSUME IInv, NEW r \in Requests, NEW q \in Requests, name[r] = name[q],
                        {verdict[r], verdict[q]} \subseteq Errors \ {"internal"}
                 PROVE  verdict[r] = verdict[q]
      BY DEF SameWord
    <2>1. Detect(r) = Detect(q)
      BY DEF Detect
    <2>2. RequestOK(r) /\ RequestOK(q)
      BY DEF IInv, InspectInv
    <2>3. step[r] = "over" /\ step[q] = "over"
      BY <2>2 DEF RequestOK, BestOK, Errors
    <2> QED BY <2>1, <2>2, <2>3 DEF RequestOK, VerdictOK, Word
  <1> QED BY <1>1, Invariance, PTL
=============================================================================
