------------------------------- MODULE Router -------------------------------
(***************************************************************************)
(* One document on its way through the tiers: Router.Process and what it   *)
(* calls in src/internal/engine/router/router.go, with the page cache and  *)
(* the three engines as its surroundings.                                  *)
(*                                                                         *)
(* An engine reads a page into text whose quality is a number; Blank is a  *)
(* page without blocks.  Text, assets and provenance are left out, and so  *)
(* are the versions in the keys of the cache, which OcrClient has.  The    *)
(* same bytes are processed again and again over one cache, which other    *)
(* documents may empty at any moment.                                      *)
(***************************************************************************)
EXTENDS Integers, FiniteSets

CONSTANTS Pages,            \* the page numbers of the document
          Reads,            \* what an engine may make of a page
          Tiers,            \* what the router may have: optional tiers, the probe
          OCRThreshold,     \* a native page below it is escalated
          VisionThreshold,  \* an OCR page below it is escalated
          VisionMaxPages,   \* the pages of a document the vision tier may replace
          MaxRuns,          \* how often the bytes are processed
          MaxClears         \* how often the cache is emptied

Blank   == -1   \* a page without blocks
Nothing == -2   \* no page, or no score

ASSUME RouterAssumption ==
  /\ Pages \subseteq Nat \ {0} /\ IsFiniteSet(Pages) /\ Pages # {}
  /\ Reads \subseteq Nat \cup {Blank}
  /\ Tiers \subseteq {{}, {"ocr"}, {"ocr", "vision"}, {"ocr", "vision", "probe"}}
  /\ OCRThreshold \in Nat /\ VisionThreshold \in Nat
  /\ VisionMaxPages \in Nat \ {0}
  /\ MaxRuns \in Nat \ {0} /\ MaxClears \in Nat

VARIABLES
  shape,    \* "paged": inspected page by page; else whole, pages "counted" or not
  scanned,  \* the pages classified for OCR
  tiers,    \* the tiers beside the native engine; "probe": VisionProbe is set
  cached,   \* cached[e][p]: what engine e made of page p, in the page cache
  pc,       \* where Process is: the tier it consults, or a step of its own
  waiting,  \* the engine has been asked
  wanted,   \* the pages extract was called for; none of them: the whole document
  held,     \* the pages among them the cache had
  by,       \* by[p]: who made page p of the result: an engine, "nobody", "none" yet
  read,     \* read[p]: what is on it
  quality,  \* quality[p]: the score attached to it
  marks,    \* marks[p]: the reasons the router added to it
  todo,     \* the pages OCR is for
  ranked,   \* ranked[p]: the score page p was ranked with
  probed,   \* the page the tiers were compared on
  proof,    \* what the vision tier made of it, if they disagreed
  chosen,   \* the pages the vision tier is for
  runs, clears,
  faulty,   \* history: in this run a tier below vision failed or left out a page
  forgot,   \* history: in this run the cache was emptied
  paid      \* history: paid[p]: how often the vision tier has read p in this run

document == <<shape, scanned, tiers>>
request  == <<waiting, wanted, held>>
result   == <<by, read, quality, marks>>
choice   == <<ranked, probed, proof, chosen>>
counts   == <<runs, clears>>
history  == <<faulty, forgot, paid>>
vars == <<document, cached, pc, request, result, todo, choice, counts, history>>

Engines  == {"native", "ocr", "vision"}
Consults == {"native", "ocr", "probe", "vision"}
NoPages  == [p \in Pages |-> Nothing]

(* Reasons that mean a page is missing: canonical.Document.Incomplete. *)
Missing == {"ocr_failed", "no_ocr_engine", "not_extracted"}

(* quality.Score: a page without text scores zero. *)
Score(r) == IF r = Blank THEN 0 ELSE r

Init == /\ shape \in {"paged", "counted", "uncounted"}
        /\ scanned \in SUBSET Pages
        /\ shape # "paged" => scanned = {}
        /\ tiers \in Tiers
        /\ cached = [e \in Engines |-> NoPages]
        /\ runs = 1 /\ clears = 0
        /\ pc = "inspect" /\ waiting = FALSE /\ wanted = {} /\ held = NoPages
        /\ by = [p \in Pages |-> "none"] /\ read = NoPages /\ quality = NoPages
        /\ marks = [p \in Pages |-> {}] /\ todo = {}
        /\ ranked = NoPages /\ probed = Nothing /\ proof = Nothing /\ chosen = {}
        /\ faulty = FALSE /\ forgot = FALSE /\ paid = [p \in Pages |-> 0]

(* partition: an inspection without pages has none to route. *)
NativePages == IF shape = "paged" THEN Pages \ scanned ELSE {}

Consult(tier, ps) == pc' = tier /\ wanted' = ps

-----------------------------------------------------------------------------
(* Choosing pages for the vision tier.                                      *)

(* Worst first, and the lower number of two alike. *)
Before(rank, p, q) == rank[p] < rank[q] \/ (rank[p] = rank[q] /\ p < q)

Ranked(rank) == {p \in Pages : rank[p] # Nothing}

(* MUTANT of Below: a page at the threshold is below it. *)
BelowOrAt(rank) == {p \in Ranked(rank) : rank[p] <= VisionThreshold}

Below(rank)  == {p \in Ranked(rank) : rank[p] < VisionThreshold}
Worst(rank)  == CHOOSE p \in Ranked(rank) : \A q \in Ranked(rank) \ {p} : Before(rank, p, q)

(* MUTANT of Kept: one page more than the cap. *)
KeptOneMore(rank, targets) ==
  {p \in targets : Cardinality({q \in targets : Before(rank, q, p)}) <= VisionMaxPages}

(* capWorstFirst: the pages with fewer than VisionMaxPages before them. *)
Kept(rank, targets) ==
  {p \in targets : Cardinality({q \in targets : Before(rank, q, p)}) < VisionMaxPages}

(* MUTANT of Readable: a blank answer counts. *)
ReadableBlank(answer) == answer # Nothing

Readable(answer) == answer \notin {Nothing, Blank}

(* The vision answers replace the chosen pages they can improve; the others *)
(* stay as they are and say so.                                             *)
Replace(answers, which, probe) ==
  LET good == {p \in which : Readable(answers[p])}
  IN  /\ by' = [p \in Pages |-> IF p \in good THEN "vision" ELSE by[p]]
      /\ read' = [p \in Pages |-> IF p \in good THEN answers[p] ELSE read[p]]
      /\ quality' = [p \in Pages |-> IF p \in good THEN Score(answers[p]) ELSE quality[p]]
      /\ marks' = [p \in Pages |->
           IF p \in good THEN {"vision_escalated"} \cup {m \in {"vision_probe"} : p = probe}
           ELSE IF p \in which
           THEN marks[p] \cup {"vision_failed"} \cup {m \in {"vision_empty"} : answers[p] = Blank}
           ELSE marks[p]]
      /\ pc' = "assemble" /\ wanted' = {}

(* MUTANT of Remaining: the page of the probe is asked for again. *)
RemainingAll(which, probe, seen) == which

(* The probe has already read its page. *)
Remaining(which, probe, seen) == IF seen = Nothing THEN which ELSE which \ {probe}

(* What the probe read, as an answer. *)
Proof(probe, seen) == [p \in Pages |-> IF p = probe THEN seen ELSE Nothing]

(* escalateToVision once the targets are known. *)
Escalate(rank, targets, probe, seen) ==
  LET which == Kept(rank, targets)
      rest  == Remaining(which, probe, seen)
  IN  /\ probed' = probe /\ proof' = seen
      /\ chosen' = which
      /\ \/ targets = {} /\ pc' = "assemble" /\ wanted' = {} /\ UNCHANGED result
         \/ targets # {} /\ rest # {} /\ Consult("vision", rest) /\ UNCHANGED result
         \/ targets # {} /\ rest = {} /\ Replace(Proof(probe, seen), which, probe)

-----------------------------------------------------------------------------
(* Inspection: the registry finds the primary engine, or the run fails.     *)

Inspect == /\ pc = "inspect"
           /\ IF shape = "paged" /\ NativePages = {}
              THEN Consult("ocr", scanned) /\ todo' = scanned
              ELSE Consult("native", NativePages) /\ UNCHANGED todo
           /\ UNCHANGED <<document, cached, waiting, held, result, choice, counts, history>>

InspectFails == /\ pc = "inspect" /\ pc' = "failed"
                /\ UNCHANGED <<document, cached, request, result, todo, choice, counts,
                               history>>

-----------------------------------------------------------------------------
(* What Process does with the pages an engine returned.                     *)

(* The native pages are scored, and the bad ones join the scanned ones.  A  *)
(* document without per-page inspection is taken whole.                     *)
TakeNative(res) ==
  LET got == {p \in Pages : res[p] # Nothing}
      bad == {p \in got \cap NativePages : Score(res[p]) < OCRThreshold}
  IN  /\ by' = [p \in Pages |-> IF p \in got THEN "native" ELSE by[p]]
      /\ read' = [p \in Pages |-> IF p \in got THEN res[p] ELSE read[p]]
      /\ quality' = [p \in Pages |->
                       IF p \in got \cap NativePages THEN Score(res[p]) ELSE quality[p]]
      /\ todo' = scanned \cup bad
      /\ IF scanned \cup bad = {} THEN Consult("assemble", {})
                                  ELSE Consult("ocr", scanned \cup bad)
      /\ UNCHANGED <<marks, choice>>

(* MUTANT of TakeOCR: an escalated page keeps its old score. *)
TakeOCRStale(res) ==
  LET got == {p \in Pages : res[p] # Nothing}
  IN  /\ by' = [p \in Pages |-> IF p \in got THEN "ocr" ELSE by[p]]
      /\ read' = [p \in Pages |-> IF p \in got THEN res[p] ELSE read[p]]
      /\ quality' = [p \in Pages |-> IF p \in got /\ quality[p] = Nothing
                                     THEN Score(res[p]) ELSE quality[p]]
      /\ Consult("rank", {})
      /\ UNCHANGED <<marks, todo, choice>>

(* Whatever OCR returned replaces what was there, and is scored anew. *)
TakeOCR(res) ==
  LET got == {p \in Pages : res[p] # Nothing}
  IN  /\ by' = [p \in Pages |-> IF p \in got THEN "ocr" ELSE by[p]]
      /\ read' = [p \in Pages |-> IF p \in got THEN res[p] ELSE read[p]]
      /\ quality' = [p \in Pages |-> IF p \in got THEN Score(res[p]) ELSE quality[p]]
      /\ Consult("rank", {})
      /\ UNCHANGED <<marks, todo, choice>>

(* MUTANT of Hold: what was read natively is overwritten as well. *)
HoldEverything(reason) ==
  /\ by' = [p \in Pages |-> IF p \in todo THEN "nobody" ELSE by[p]]
  /\ read' = [p \in Pages |-> IF p \in todo THEN Blank ELSE read[p]]
  /\ marks' = [p \in Pages |-> IF p \in todo THEN {reason} ELSE marks[p]]
  /\ Consult("rank", {})
  /\ UNCHANGED <<quality, todo, choice>>

(* Pages that are not there become placeholders with the reason; escalated  *)
(* ones keep their native text.                                             *)
Hold(reason) ==
  LET holes == {p \in todo : by[p] = "none"}
  IN  /\ by' = [p \in Pages |-> IF p \in holes THEN "nobody" ELSE by[p]]
      /\ read' = [p \in Pages |-> IF p \in holes THEN Blank ELSE read[p]]
      /\ marks' = [p \in Pages |-> IF p \in holes THEN {reason} ELSE marks[p]]
      /\ Consult("rank", {})
      /\ UNCHANGED <<quality, todo, choice>>

(* The probe: nothing readable is no evidence, and neither is agreement; a  *)
(* disagreement makes every OCR page a target.  Two texts of which exactly  *)
(* one is empty disagree.                                                   *)
TakeProbe(res) ==
  LET page == Worst(ranked)
      blind == (Score(read[page]) = 0) # (Score(res[page]) = 0)
  IN  /\ \/ ~Readable(res[page]) /\ Escalate(ranked, Below(ranked), Nothing, Nothing)
         \/ /\ Readable(res[page]) /\ ~blind
            /\ Escalate(ranked, Below(ranked), page, Nothing)
         \/ Readable(res[page]) /\ Escalate(ranked, Ranked(ranked), page, res[page])
      /\ UNCHANGED <<todo, ranked>>

TakeVision(res) ==
  /\ Replace([p \in Pages |-> IF p = probed /\ proof # Nothing THEN proof ELSE res[p]],
             chosen, probed)
  /\ UNCHANGED <<todo, choice>>

Take(res) == \/ pc = "native" /\ TakeNative(res)
             \/ pc = "ocr"    /\ TakeOCR(res)
             \/ pc = "probe"  /\ TakeProbe(res)
             \/ pc = "vision" /\ TakeVision(res)

-----------------------------------------------------------------------------
(* Router.extract, which every tier is consulted through.                   *)

Consulting == pc \in Consults /\ (pc = "ocr" => "ocr" \in tiers)

Engine == IF pc = "probe" THEN "vision" ELSE pc
Hits   == {p \in wanted : cached[Engine][p] # Nothing}
Cached == [p \in Pages |-> IF p \in wanted THEN cached[Engine][p] ELSE Nothing]

(* Every page is in the cache: the engine is not asked. *)
FromCache == /\ Consulting
             /\ ~waiting /\ wanted # {} /\ Hits = wanted
             /\ Take(Cached)
             /\ UNCHANGED <<document, cached, waiting, held, counts, history>>

(* The engine is asked for the others. *)
Ask == /\ Consulting
       /\ ~waiting /\ (wanted = {} \/ Hits # wanted)
       /\ waiting' = TRUE /\ held' = Cached
       /\ UNCHANGED <<document, cached, pc, wanted, result, todo, choice, counts, history>>

Asked == IF wanted = {} THEN Pages ELSE {p \in wanted : held[p] = Nothing}

Remember(answer) ==
  cached' = [cached EXCEPT ![Engine] =
               [p \in Pages |-> IF answer[p] # Nothing THEN answer[p] ELSE cached[Engine][p]]]

(* MUTANT of Together: what the cache had is lost when the engine was asked. *)
TogetherNot(answer) == answer

(* The pages of the cache and those of the engine. *)
Together(answer) == [p \in Pages |-> IF p \in Asked THEN answer[p] ELSE held[p]]

(* It returns some of the pages it was asked for, and they are cached. *)
Answer == /\ waiting
          /\ \E answer \in [Pages -> Reads \cup {Nothing}] :
               /\ \A p \in Pages \ Asked : answer[p] = Nothing
               /\ Remember(answer)
               /\ Take(Together(answer))
               /\ faulty' = (\/ faulty
                             \/ /\ pc \in {"native", "ocr"}
                                /\ \E p \in Asked : answer[p] = Nothing)
               /\ paid' = [p \in Pages |-> IF Engine = "vision" /\ answer[p] # Nothing
                                           THEN paid[p] + 1 ELSE paid[p]]
          /\ waiting' = FALSE /\ held' = NoPages
          /\ UNCHANGED <<document, counts, forgot>>

(* It fails: the service is down, the shim breaks, the call times out.  A   *)
(* native failure fails the run; what the cache had is given up.            *)
Fails == /\ waiting
         /\ \/ /\ pc = "native" /\ pc' = "failed" /\ wanted' = {}
               /\ UNCHANGED <<result, todo, choice>>
            \/ pc = "ocr" /\ Hold("ocr_failed")
            \/ pc = "probe" /\ TakeProbe(NoPages)
            \/ pc = "vision" /\ TakeVision(NoPages)
         /\ faulty' = (faulty \/ pc \in {"native", "ocr"})
         /\ waiting' = FALSE /\ held' = NoPages
         /\ UNCHANGED <<document, cached, counts, forgot, paid>>

-----------------------------------------------------------------------------
(* The steps between and after the tiers.                                   *)

NoOCREngine == /\ pc = "ocr" /\ "ocr" \notin tiers
               /\ Hold("no_ocr_engine")
               /\ UNCHANGED <<document, cached, waiting, held, counts, history>>

VisionProbe == "probe" \in tiers

VisionOn == "vision" \in tiers /\ (VisionThreshold > 0 \/ VisionProbe)

(* rankOCRPages scores the pages nobody has scored, placeholders included. *)
Rank ==
  LET pages == {p \in todo : by[p] # "none"}
      score == [p \in Pages |-> IF p \in pages /\ quality[p] = Nothing
                                THEN Score(read[p]) ELSE quality[p]]
      rank  == [p \in Pages |-> IF p \in pages THEN score[p] ELSE Nothing]
  IN  /\ pc = "rank" /\ VisionOn /\ pages # {}
      /\ quality' = score /\ ranked' = rank
      /\ UNCHANGED <<by, read, marks, todo>>
      /\ IF VisionProbe
         THEN Consult("probe", {Worst(rank)}) /\ UNCHANGED <<probed, proof, chosen>>
         ELSE /\ probed' = Nothing /\ proof' = Nothing
              /\ chosen' = Kept(rank, Below(rank))
              /\ IF Below(rank) = {} THEN Consult("assemble", {})
                                     ELSE Consult("vision", Kept(rank, Below(rank)))
      /\ UNCHANGED <<document, cached, waiting, held, counts, history>>

NoVision == /\ pc = "rank"
            /\ ~VisionOn \/ {p \in todo : by[p] # "none"} = {}
            /\ Consult("assemble", {})
            /\ UNCHANGED <<document, cached, waiting, held, result, todo, choice, counts,
                           history>>

(* MUTANT of Assemble: a gap is filled without a reason. *)
AssembleSilent ==
  LET gaps == {p \in Pages : by[p] = "none"}
  IN  /\ pc = "assemble" /\ pc' = "done"
      /\ IF shape = "uncounted" THEN UNCHANGED result
         ELSE /\ by' = [p \in Pages |-> IF p \in gaps THEN "nobody" ELSE by[p]]
              /\ read' = [p \in Pages |-> IF p \in gaps THEN Blank ELSE read[p]]
              /\ quality' = [p \in Pages |-> IF quality[p] # Nothing THEN quality[p]
                                             ELSE IF p \in gaps THEN 0 ELSE Score(read[p])]
              /\ UNCHANGED marks
      /\ UNCHANGED <<document, cached, request, todo, choice, counts, history>>

(* Assembly fills the gaps of a document whose pages are counted. *)
Assemble ==
  LET gaps == {p \in Pages : by[p] = "none"}
  IN  /\ pc = "assemble" /\ pc' = "done"
      /\ IF shape = "uncounted" THEN UNCHANGED result
         ELSE /\ by' = [p \in Pages |-> IF p \in gaps THEN "nobody" ELSE by[p]]
              /\ read' = [p \in Pages |-> IF p \in gaps THEN Blank ELSE read[p]]
              /\ quality' = [p \in Pages |-> IF quality[p] # Nothing THEN quality[p]
                                             ELSE IF p \in gaps THEN 0 ELSE Score(read[p])]
              /\ marks' = [p \in Pages |-> IF p \in gaps THEN {"not_extracted"} ELSE marks[p]]
      /\ UNCHANGED <<document, cached, request, todo, choice, counts, history>>

(* Other documents fill the cache, which is then emptied as a whole. *)
CacheCleared == /\ clears < MaxClears /\ pc \notin {"done", "failed"}
                /\ cached # [e \in Engines |-> NoPages]
                /\ cached' = [e \in Engines |-> NoPages]
                /\ clears' = clears + 1 /\ forgot' = TRUE
                /\ UNCHANGED <<document, pc, request, result, todo, choice, runs, faulty,
                               paid>>

(* The same bytes come again. *)
Again == /\ pc \in {"done", "failed"} /\ runs < MaxRuns
         /\ runs' = runs + 1
         /\ pc' = "inspect" /\ waiting' = FALSE /\ wanted' = {} /\ held' = NoPages
         /\ by' = [p \in Pages |-> "none"] /\ read' = NoPages /\ quality' = NoPages
         /\ marks' = [p \in Pages |-> {}] /\ todo' = {}
         /\ ranked' = NoPages /\ probed' = Nothing /\ proof' = Nothing /\ chosen' = {}
         /\ faulty' = FALSE /\ forgot' = FALSE /\ paid' = [p \in Pages |-> 0]
         /\ UNCHANGED <<document, cached, clears>>

Next == \/ Inspect \/ InspectFails
        \/ FromCache \/ Ask \/ Answer \/ Fails
        \/ NoOCREngine \/ Rank \/ NoVision \/ Assemble
        \/ CacheCleared \/ Again

Spec == Init /\ [][Next]_vars

-----------------------------------------------------------------------------
(* Properties. *)

Numbers == Reads \cup {Nothing, Blank}

TypeOK ==
  /\ shape \in {"paged", "counted", "uncounted"}
  /\ scanned \subseteq Pages /\ tiers \in Tiers
  /\ cached \in [Engines -> [Pages -> Reads \cup {Nothing}]]
  /\ pc \in Consults \cup {"inspect", "rank", "assemble", "done", "failed"}
  /\ waiting \in BOOLEAN /\ wanted \subseteq Pages
  /\ held \in [Pages -> Reads \cup {Nothing}]
  /\ by \in [Pages -> Engines \cup {"none", "nobody"}]
  /\ read \in [Pages -> Numbers]
  /\ quality \in [Pages -> Nat \cup {Nothing}]
  /\ marks \in [Pages -> SUBSET (Missing \cup {"vision_escalated", "vision_probe",
                                               "vision_failed", "vision_empty"})]
  /\ todo \subseteq Pages /\ chosen \subseteq Pages
  /\ ranked \in [Pages -> Nat \cup {Nothing}]
  /\ probed \in Pages \cup {Nothing} /\ proof \in Reads \cup {Nothing}
  /\ runs \in 1..MaxRuns /\ clears \in 0..MaxClears
  /\ faulty \in BOOLEAN /\ forgot \in BOOLEAN
  /\ paid \in [Pages -> Nat]
  /\ waiting => pc \in Consults

InDocument == IF shape = "uncounted" THEN {p \in Pages : by[p] # "none"} ELSE Pages

(* A finished document has all its pages, and a page carries one of the     *)
(* reasons Incomplete looks for exactly when no engine made it: a page      *)
(* without a reason would be served for ever with a hole, and a reason that *)
(* outlives its hole would have the document redone for ever (Process,      *)
(* escalateToVision; canonical.Incomplete 139-149).                         *)
HolesAreMarked ==
  pc = "done" => \A p \in InDocument :
    by[p] # "none" /\ (by[p] = "nobody" <=> marks[p] \cap Missing # {})

(* What earlier runs left in the cache does no harm: a run in which nothing *)
(* failed finishes the document (extract 531-558, 585-604).                 *)
HealthyRunIsWhole ==
  pc = "done" /\ ~faulty /\ "ocr" \in tiers /\ shape # "uncounted" =>
    \A p \in Pages : by[p] # "nobody"

(* The score on a page of a finished document is that of the text on it,    *)
(* whichever tier was last (Process 166-176, 211-222, 244-247,             *)
(* escalateToVision 375-379).                                               *)
ScoreIsOfText ==
  pc = "done" /\ shape # "uncounted" => \A p \in Pages : quality[p] = Score(read[p])

(* "Tier 3 must never make a page worse": no page loses its content to it   *)
(* (escalateToVision 262-265, 369-373).                                     *)
VisionNeverBlanks ==
  [][\A p \in Pages :
       pc \in {"probe", "vision"} /\ read[p] \notin {Blank, Nothing} =>
         read'[p] \notin {Blank, Nothing}]_vars

(* At most VisionMaxPages pages are replaced, and the pages the vision tier *)
(* was asked for are those that scored worst, the lower number of two alike *)
(* (capWorstFirst 435-455).                                                 *)
VisionBudget ==
  pc = "done" =>
    /\ Cardinality({p \in Pages : by[p] = "vision"}) <= VisionMaxPages
    /\ \A p \in chosen, q \in Ranked(ranked) \ chosen : ~Before(ranked, q, p)

(* A probe that agrees widens nothing: every page at or above the threshold *)
(* keeps what OCR made of it, and only those below are replaced             *)
(* (probeVision 457-468, 499-504).                                          *)
AgreementKeepsOCR ==
  pc = "done" /\ proof = Nothing =>
    \A p \in Pages : by[p] = "vision" => ranked[p] < VisionThreshold

(* "Asking for it again would pay for the same inference twice" (332-339):  *)
(* the vision tier answers for a page at most once in a run; a call that    *)
(* failed is not counted.  When the probe changed nothing it is the cache   *)
(* that saves its page from a second reading, and then a page is read twice *)
(* if the cache was emptied in between.                                     *)
PaidOnce == \A p \in Pages : paid[p] > 1 => forgot /\ proof = Nothing

(* "A document stored during an outage is redone, not remembered": a page   *)
(* the OCR tier "never managed to read is not" finished (deploy/README.md   *)
(* 408, 420-422).  Such a page was to be read by OCR, and neither tier has. *)
UnreadIsRedone ==
  pc = "done" /\ (\E p \in todo : by[p] \notin {"ocr", "vision"}) =>
    \E p \in Pages : marks[p] \cap Missing # {}

(* The tier whose turn it is, as Escalation has it. *)
Tier == IF pc \in {"inspect", "native"} THEN "native"
        ELSE IF pc \in {"rank", "probe", "vision"} THEN "vision"
        ELSE IF pc = "assemble" THEN "assembly"
        ELSE IF pc = "ocr" THEN "ocr" ELSE "over"

Escalated == INSTANCE Escalation WITH tier <- Tier, due <- todo

(* Whatever the engines answer, the cache holds and the probe finds, the     *)
(* router does no more to a page than Escalation says: OCR and vision leave  *)
(* alone what was not escalated, a tier that fails leaves what is there, and *)
(* vision replaces few pages, and by text only.                              *)
ImplementsEscalation == Escalated!Spec
=============================================================================
