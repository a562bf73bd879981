---------------------------- MODULE Router_proofs ----------------------------
(***************************************************************************)
(* Proofs about Router, for any finite set of pages, any texts, thresholds *)
(* and cap, any combination of tiers, and any number of runs over a cache  *)
(* that is emptied any number of times; and that the router implements     *)
(* Escalation.                                                             *)
(***************************************************************************)
EXTENDS Router, FiniteSetTheorems, WellFoundedInduction, TLAPS

-----------------------------------------------------------------------------
(* The order of the pages.                                                  *)

(* Ranks as the router makes them: a score or Nothing.                      *)
Ranks == [Pages -> Nat \cup {Nothing}]

LEMMA Least == ASSUME NEW S \in SUBSET Nat, S # {}
               PROVE  \E m \in S : \A n \in S : m <= n
  <1> DEFINE Less == {ss \in Nat \X Nat : ss[1] < ss[2]}
  <1>1. IsWellFoundedOn(Less, Nat)
    BY NatLessThanWellFounded DEF OpToRel
  <1>2. \A m, n \in Nat : <<n, m>> \notin Less => m <= n
    OBVIOUS
  <1> HIDE DEF Less
  <1>3. \E m \in S : \A n \in S : <<n, m>> \notin Less
    BY <1>1, WFMin
  <1> QED BY <1>2, <1>3

LEMMA BeforeOrders ==
  ASSUME NEW rank \in Ranks, NEW S, S \subseteq Ranked(rank)
  PROVE  /\ \A p \in S : p \in Pages /\ p \in Nat /\ rank[p] \in Nat
         /\ \A p \in S : ~Before(rank, p, p)
         /\ \A p, q \in S : p # q => Before(rank, p, q) \/ Before(rank, q, p)
         /\ \A p, q, r \in S : Before(rank, p, q) /\ Before(rank, q, r) => Before(rank, p, r)
  <1>1. \A p \in S : p \in Pages /\ p \in Nat /\ rank[p] \in Nat
    BY RouterAssumption DEF Ranks, Ranked
  <1> QED BY <1>1 DEF Before

(* The worst page of any set of pages that are ranked.                      *)
LEMMA FirstIs ==
  ASSUME NEW rank \in Ranks, NEW S, S \subseteq Ranked(rank), S # {}
  PROVE  \E p \in S : \A q \in S \ {p} : Before(rank, p, q)
  <1>1. \A p \in S : p \in Nat /\ rank[p] \in Nat
    BY BeforeOrders
  <1>2. {rank[p] : p \in S} \in SUBSET Nat /\ {rank[p] : p \in S} # {}
    BY <1>1
  <1>3. PICK m \in {rank[p] : p \in S} : \A n \in {rank[p] : p \in S} : m <= n
    BY <1>2, Least
  <1> DEFINE T == {p \in S : rank[p] = m}
  <1>4. T \in SUBSET Nat /\ T # {}
    BY <1>1, <1>3
  <1>5. PICK p \in T : \A q \in T : p <= q
    BY <1>4, Least
  <1>6. \A q \in S \ {p} : Before(rank, p, q)
    BY <1>1, <1>3, <1>5 DEF Before
  <1> QED BY <1>5, <1>6

LEMMA WorstIs ==
  ASSUME NEW rank \in Ranks, Ranked(rank) # {}
  PROVE  Worst(rank) \in Ranked(rank) /\ Worst(rank) \in Pages
  <1>1. \E p \in Ranked(rank) : \A q \in Ranked(rank) \ {p} : Before(rank, p, q)
    BY FirstIs
  <1> QED BY <1>1 DEF Worst, Ranked

(* The pages of a set that come before one of them.                         *)
Ahead(rank, S, p) == {q \in S : Before(rank, q, p)}

LEMMA AheadFinite ==
  ASSUME NEW rank, NEW S, S \subseteq Pages, NEW p
  PROVE  IsFiniteSet(S) /\ IsFiniteSet(Ahead(rank, S, p)) /\ Cardinality(Ahead(rank, S, p)) \in Nat
  <1>1. IsFiniteSet(S)
    BY FS_Subset, RouterAssumption
  <1>2. Ahead(rank, S, p) \in SUBSET S
    BY DEF Ahead
  <1>3. IsFiniteSet(Ahead(rank, S, p))
    BY <1>1, <1>2, FS_Subset
  <1> QED BY <1>1, <1>3, FS_CardinalityType

LEMMA KeptIs ==
  ASSUME NEW rank \in Ranks, NEW targets, targets \subseteq Ranked(rank)
  PROVE  /\ Kept(rank, targets) \subseteq targets
         /\ \A p \in targets : p \in Kept(rank, targets) <=>
                               Cardinality(Ahead(rank, targets, p)) < VisionMaxPages
  BY DEF Kept, Ahead

(* Some page is kept wherever there is one to keep.                         *)
LEMMA KeptSome ==
  ASSUME NEW rank \in Ranks, NEW targets, targets \subseteq Ranked(rank), targets # {}
  PROVE  Kept(rank, targets) # {}
  <1>1. PICK p \in targets : \A q \in targets \ {p} : Before(rank, p, q)
    BY FirstIs
  <1>2. Ahead(rank, targets, p) = {}
    <2>1. \A q \in targets : ~Before(rank, q, p)
      BY <1>1, BeforeOrders
    <2> QED BY <2>1 DEF Ahead
  <1>3. Cardinality(Ahead(rank, targets, p)) = 0
    BY <1>2, FS_EmptySet
  <1>4. 0 < VisionMaxPages
    BY RouterAssumption
  <1> QED BY <1>3, <1>4, KeptIs

(* The pages that are kept are the worst of the targets.                    *)
LEMMA KeptWorst ==
  ASSUME NEW rank \in Ranks, NEW targets, targets \subseteq Ranked(rank),
         NEW p \in Kept(rank, targets), NEW q \in targets \ Kept(rank, targets)
  PROVE  ~Before(rank, q, p)
  <1> SUFFICES ASSUME Before(rank, q, p) PROVE FALSE
    OBVIOUS
  <1>1. p \in targets /\ q \in targets
    BY KeptIs
  <1>2. Ahead(rank, targets, q) \in SUBSET Ahead(rank, targets, p)
    BY <1>1, BeforeOrders DEF Ahead
  <1>3. targets \subseteq Pages
    BY BeforeOrders
  <1>4. /\ Cardinality(Ahead(rank, targets, q)) <= Cardinality(Ahead(rank, targets, p))
        /\ Cardinality(Ahead(rank, targets, q)) \in Nat
        /\ Cardinality(Ahead(rank, targets, p)) \in Nat
    BY <1>2, <1>3, AheadFinite, FS_Subset
  <1>5. Cardinality(Ahead(rank, targets, p)) < VisionMaxPages
    BY <1>1, KeptIs
  <1>6. ~(Cardinality(Ahead(rank, targets, q)) < VisionMaxPages)
    BY <1>1, KeptIs
  <1> QED BY <1>4, <1>5, <1>6, RouterAssumption

(* The best page of a set: the one with the fewest pages of it behind.      *)
LEMMA LastIs ==
  ASSUME NEW rank \in Ranks, NEW S, S \subseteq Ranked(rank), S # {}
  PROVE  \E p \in S : \A q \in S \ {p} : Before(rank, q, p)
  <1> DEFINE Behind(p) == {q \in S : Before(rank, p, q)}
             Count(p) == Cardinality(Behind(p))
  <1>1. \A p \in S : IsFiniteSet(Behind(p)) /\ Count(p) \in Nat
    <2>1. IsFiniteSet(S)
      BY BeforeOrders, FS_Subset, RouterAssumption
    <2> SUFFICES ASSUME NEW p \in S PROVE IsFiniteSet(Behind(p)) /\ Count(p) \in Nat
      OBVIOUS
    <2>2. Behind(p) \in SUBSET S
      OBVIOUS
    <2>3. IsFiniteSet(Behind(p))
      BY <2>1, <2>2, FS_Subset
    <2> QED BY <2>3, FS_CardinalityType
  <1>2. \A p, q \in S : Before(rank, p, q) => Count(q) < Count(p)
    <2> SUFFICES ASSUME NEW p \in S, NEW q \in S, Before(rank, p, q) PROVE Count(q) < Count(p)
      OBVIOUS
    <2>1. Behind(q) \in SUBSET Behind(p)
      BY BeforeOrders
    <2>2. q \in Behind(p) /\ q \notin Behind(q)
      BY BeforeOrders
    <2>3. Count(q) <= Count(p) /\ Count(q) # Count(p)
      BY <1>1, <2>1, <2>2, FS_Subset
    <2>4. Count(p) \in Nat /\ Count(q) \in Nat
      BY <1>1
    <2> HIDE DEF Count, Behind
    <2> QED BY <2>3, <2>4
  <1> HIDE DEF Count, Behind
  <1>3. {Count(p) : p \in S} \in SUBSET Nat /\ {Count(p) : p \in S} # {}
    BY <1>1
  <1>4. PICK m \in {Count(p) : p \in S} : \A n \in {Count(p) : p \in S} : m <= n
    BY <1>3, Least
  <1>5. PICK p \in S : m = Count(p)
    BY <1>4
  <1>6. \A q \in S : Count(p) <= Count(q)
    BY <1>4, <1>5
  <1>7. \A q \in S \ {p} : Before(rank, q, p)
    <2> SUFFICES ASSUME NEW q \in S \ {p}, ~Before(rank, q, p) PROVE FALSE
      OBVIOUS
    <2>1. Before(rank, p, q)
      BY BeforeOrders
    <2>2. Count(q) < Count(p)
      BY <1>2, <2>1
    <2> QED BY <1>1, <1>6, <2>2
  <1> QED BY <1>7

(* The cap holds.                                                           *)
LEMMA KeptFew ==
  ASSUME NEW rank \in Ranks, NEW targets, targets \subseteq Ranked(rank)
  PROVE  IsFiniteSet(Kept(rank, targets)) /\ Cardinality(Kept(rank, targets)) <= VisionMaxPages
  <1> DEFINE K == Kept(rank, targets)
  <1>1. K \subseteq Ranked(rank) /\ K \subseteq targets /\ targets \subseteq Pages
    BY KeptIs, BeforeOrders
  <1>2. IsFiniteSet(K)
    BY <1>1, FS_Subset, RouterAssumption
  <1>3. CASE K = {}
    BY <1>2, <1>3, FS_EmptySet, RouterAssumption
  <1>4. CASE K # {}
    <2>1. PICK p \in K : \A q \in K \ {p} : Before(rank, q, p)
      BY <1>1, <1>4, LastIs
    <2>2. (K \ {p}) \in SUBSET Ahead(rank, targets, p)
      BY <1>1, <2>1 DEF Ahead
    <2>3. Cardinality(K \ {p}) <= Cardinality(Ahead(rank, targets, p))
      BY <1>1, <2>2, AheadFinite, FS_Subset
    <2>4. Cardinality(K \ {p}) = Cardinality(K) - 1 /\ Cardinality(K) \in Nat
      BY <1>2, <2>1, FS_RemoveElement, FS_CardinalityType
    <2>5. Cardinality(Ahead(rank, targets, p)) < VisionMaxPages
      BY <1>1, <2>1, KeptIs
    <2>6. Cardinality(Ahead(rank, targets, p)) \in Nat
      BY <1>1, AheadFinite
    <2> HIDE DEF K
    <2>7. Cardinality(K) <= VisionMaxPages
      BY <2>3, <2>4, <2>5, <2>6, RouterAssumption
    <2> QED BY <1>2, <2>7 DEF K
  <1> QED BY <1>3, <1>4
-----------------------------------------------------------------------------
(* The invariant.                                                           *)

Results == [Pages -> Reads \cup {Nothing}]

(* What is on a page, who made it, its score and its reasons belong         *)
(* together at any time.                                                    *)
Result == \A p \in Pages :
  /\ by[p] = "none" <=> read[p] = Nothing
  /\ by[p] = "none" => quality[p] = Nothing
  /\ quality[p] # Nothing => quality[p] = Score(read[p])
  /\ by[p] = "nobody" <=> marks[p] \cap Missing # {}
  /\ by[p] = "vision" => p \in chosen

(* What there is of the result before the tiers have been consulted.        *)
Early ==
  /\ pc \in {"inspect", "native", "failed"} => todo = {} /\ \A p \in Pages : by[p] = "none"
  /\ pc = "ocr" => \A p \in Pages : by[p] \in {"none", "native"}
  /\ pc \in {"inspect", "native", "ocr", "rank", "probe", "failed"} =>
       chosen = {} /\ proof = Nothing /\ \A p \in Pages : paid[p] = 0

(* What each tier is asked for.                                             *)
Request ==
  /\ pc = "native" => wanted = NativePages
  /\ pc = "ocr" => wanted = todo /\ (waiting => "ocr" \in tiers)
  /\ pc = "probe" => Ranked(ranked) # {} /\ wanted = {Worst(ranked)}
  /\ pc = "vision" => wanted # {} /\ wanted = Remaining(chosen, probed, proof)

(* How the pages for the vision tier were chosen.                           *)
Choice ==
  pc \in {"vision", "assemble", "done"} =>
    \/ chosen = {}
    \/ chosen = Kept(ranked, Below(ranked))
    \/ proof # Nothing /\ chosen = Kept(ranked, Ranked(ranked))

(* A run in which nothing failed has all its pages.                         *)
Healthy == ~faulty =>
  /\ "ocr" \in tiers => \A p \in Pages : by[p] # "nobody"
  /\ pc = "ocr" => \A p \in Pages \ todo : by[p] # "none"
  /\ pc \in {"rank", "probe", "vision", "assemble"} /\ "ocr" \in tiers =>
       \A p \in Pages : by[p] # "none"

(* A page the vision tier was paid for is in the cache, unless it was       *)
(* emptied, or is the page of a probe that is not asked for again.          *)
Paid ==
  /\ pc = "vision" => \A p \in Pages :
       /\ paid[p] <= 1
       /\ paid[p] = 1 /\ proof = Nothing => cached["vision"][p] # Nothing \/ forgot
       /\ paid[p] = 1 /\ proof # Nothing => p = probed
  /\ pc = "vision" /\ waiting => \A p \in wanted :
       held[p] = Nothing /\ paid[p] = 1 => forgot
  /\ PaidOnce

(* A document that is finished, and whose pages are counted, is filled.     *)
Final == pc = "done" /\ shape # "uncounted" =>
           \A p \in Pages : by[p] # "none" /\ quality[p] # Nothing

IInv == TypeOK /\ Result /\ Early /\ Request /\ Choice /\ Healthy /\ Paid /\ Final

LEMMA ScoreIs == \A r \in Reads \cup {Blank} : Score(r) \in Nat
  BY RouterAssumption DEF Score, Blank

LEMMA NumbersAre == Nothing \notin Nat /\ Nothing # Blank /\ Nothing \notin Reads
  BY RouterAssumption DEF Nothing, Blank

LEMMA NoPagesIs == NoPages \in Results /\ NoPages \in Ranks /\ NoPages \in [Pages -> Numbers]
  BY DEF NoPages, Results, Ranks, Numbers

LEMMA InitInv == Init => IInv
  <1> SUFFICES ASSUME Init PROVE IInv
    OBVIOUS
  <1>1. \A p \in Pages : by[p] = "none" /\ read[p] = Nothing /\ quality[p] = Nothing
                         /\ marks[p] = {} /\ paid[p] = 0
    BY DEF Init, NoPages
  <1>2. TypeOK
    <2>1. runs \in 1..MaxRuns /\ clears \in 0..MaxClears
      BY RouterAssumption DEF Init
    <2>2. cached \in [Engines -> Results]
      BY NoPagesIs DEF Init
    <2>3. waiting \in BOOLEAN /\ faulty \in BOOLEAN /\ forgot \in BOOLEAN /\ ~waiting
      BY DEF Init
    <2> QED BY <2>1, <2>2, <2>3, NoPagesIs DEF Init, TypeOK, Results, Ranks, Engines
  <1>3. Result
    BY <1>1 DEF Result, Missing
  <1>4. Early /\ Request /\ Choice /\ Healthy /\ Final
    BY <1>1 DEF Init, Early, Request, Choice, Healthy, Final
  <1>5. Paid
    BY <1>1 DEF Init, Paid, PaidOnce
  <1> QED BY <1>2, <1>3, <1>4, <1>5 DEF IInv

-----------------------------------------------------------------------------
(* Steps at which a tier has answered.                                      *)

(* What all of them leave alone or reset.                                   *)
Taken == /\ UNCHANGED <<document, counts, forgot>>
         /\ ~waiting' /\ waiting' \in BOOLEAN
         /\ held' \in Results /\ cached' \in [Engines -> Results]
         /\ faulty' \in BOOLEAN /\ (~faulty' => ~faulty)

LEMMA NativeInv ==
  ASSUME IInv, pc = "native", NEW res \in Results, TakeNative(res), Taken, paid' = paid,
         ~faulty' => \A p \in Pages : wanted = {} \/ p \in wanted => res[p] # Nothing
  PROVE  IInv'
  <1> DEFINE got == {p \in Pages : res[p] # Nothing}
             bad == {p \in got \cap NativePages : Score(res[p]) < OCRThreshold}
  <1>1. /\ by' = [p \in Pages |-> IF p \in got THEN "native" ELSE by[p]]
        /\ read' = [p \in Pages |-> IF p \in got THEN res[p] ELSE read[p]]
        /\ quality' = [p \in Pages |-> IF p \in got \cap NativePages THEN Score(res[p]) ELSE quality[p]]
        /\ todo' = scanned \cup bad
        /\ marks' = marks /\ UNCHANGED choice
    BY DEF TakeNative
  <1>2. /\ pc' \in {"assemble", "ocr"} /\ (pc' = "ocr" => wanted' = todo') /\ wanted' \subseteq Pages
        /\ todo' \subseteq Pages
        /\ pc' = "assemble" => scanned = {}
    BY DEF TakeNative, Consult, IInv, TypeOK
  <1>3. \A p \in Pages : /\ res[p] # Nothing => res[p] \in Reads /\ Score(res[p]) \in Nat
                         /\ by[p] = "none" /\ read[p] = Nothing /\ quality[p] = Nothing
                         /\ marks[p] \cap Missing = {} /\ paid[p] = 0
    BY ScoreIs DEF Results, IInv, Early, Result
  <1>4. TypeOK'
    <2>1. by' \in [Pages -> Engines \cup {"none", "nobody"}]
      BY <1>1 DEF IInv, TypeOK, Engines
    <2>2. read' \in [Pages -> Numbers]
      BY <1>1, <1>3 DEF IInv, TypeOK, Numbers
    <2>3. quality' \in [Pages -> Nat \cup {Nothing}]
      BY <1>1, <1>3 DEF IInv, TypeOK
    <2> QED BY <1>1, <1>2, <2>1, <2>2, <2>3
            DEF IInv, TypeOK, Taken, Results, document, counts, choice, Consults
  <1>5. Result'
    <2>1. \A p \in Pages : marks'[p] \cap Missing = {} /\ by'[p] \in {"none", "native"}
      BY <1>1, <1>3
    <2>2. \A p \in Pages : /\ by'[p] = "none" <=> read'[p] = Nothing
                           /\ by'[p] = "none" => quality'[p] = Nothing
                           /\ quality'[p] # Nothing => quality'[p] = Score(read'[p])
      BY <1>1, <1>3, NumbersAre
    <2> QED BY <2>1, <2>2 DEF Result
  <1>6. Early'
    BY <1>1, <1>2, <1>3 DEF Early, IInv, choice
  <1>7. Request' /\ Final'
    BY <1>2 DEF Request, Final, Taken
  <1>8. Choice'
    BY <1>1, <1>2 DEF Choice, IInv, Early, choice
  <1>9. Healthy'
    <2> SUFFICES ASSUME ~faulty' PROVE Healthy'
      BY DEF Healthy
    <2>1. \A p \in Pages \ scanned : res[p] # Nothing
      BY DEF IInv, Request, NativePages
    <2>2. \A p \in Pages \ scanned : by'[p] # "none"
      BY <1>1, <2>1
    <2>3. \A p \in Pages : by'[p] # "nobody"
      BY <1>1, <1>3
    <2> QED BY <1>1, <1>2, <2>2, <2>3 DEF Healthy
  <1>10. Paid'
    BY <1>2, <1>3 DEF Paid, PaidOnce
  <1> QED BY <1>4, <1>5, <1>6, <1>7, <1>8, <1>9, <1>10 DEF IInv

LEMMA OCRInv ==
  ASSUME IInv, pc = "ocr", NEW res \in Results, TakeOCR(res), Taken, paid' = paid,
         ~faulty' => \A p \in Pages : wanted = {} \/ p \in wanted => res[p] # Nothing
  PROVE  IInv'
  <1> DEFINE got == {p \in Pages : res[p] # Nothing}
  <1>1. /\ by' = [p \in Pages |-> IF p \in got THEN "ocr" ELSE by[p]]
        /\ read' = [p \in Pages |-> IF p \in got THEN res[p] ELSE read[p]]
        /\ quality' = [p \in Pages |-> IF p \in got THEN Score(res[p]) ELSE quality[p]]
        /\ pc' = "rank" /\ wanted' = {} /\ marks' = marks /\ todo' = todo /\ UNCHANGED choice
    BY DEF TakeOCR, Consult
  <1>2. \A p \in Pages : /\ res[p] # Nothing => res[p] \in Reads /\ Score(res[p]) \in Nat
                         /\ by[p] \in {"none", "native"} /\ paid[p] = 0
                         /\ marks[p] \cap Missing = {}
    BY ScoreIs DEF Results, IInv, Early, Result
  <1>3. TypeOK'
    <2>1. by' \in [Pages -> Engines \cup {"none", "nobody"}]
      BY <1>1 DEF IInv, TypeOK, Engines
    <2>2. read' \in [Pages -> Numbers]
      BY <1>1, <1>2 DEF IInv, TypeOK, Numbers
    <2>3. quality' \in [Pages -> Nat \cup {Nothing}]
      BY <1>1, <1>2 DEF IInv, TypeOK
    <2> QED BY <1>1, <2>1, <2>2, <2>3 DEF IInv, TypeOK, Taken, Results, document, counts, choice
  <1>4. Result'
    <2>1. \A p \in Pages : marks'[p] \cap Missing = {} /\ by'[p] \in {"none", "native", "ocr"}
      BY <1>1, <1>2
    <2>2. \A p \in Pages : /\ by'[p] = "none" <=> read'[p] = Nothing
                           /\ by'[p] = "none" => quality'[p] = Nothing
                           /\ quality'[p] # Nothing => quality'[p] = Score(read'[p])
      BY <1>1, <1>2, NumbersAre DEF IInv, Result
    <2> QED BY <2>1, <2>2 DEF Result
  <1>5. Early' /\ Request' /\ Choice' /\ Final'
    BY <1>1, <1>2 DEF Early, Request, Choice, Final, IInv, choice
  <1>6. Healthy'
    <2> SUFFICES ASSUME ~faulty' PROVE Healthy'
      BY DEF Healthy
    <2>1. ~faulty
      BY DEF Taken
    <2>2. \A p \in todo : by'[p] # "none"
      BY <1>1 DEF IInv, Request, TypeOK
    <2>3. \A p \in Pages \ todo : by'[p] # "none"
      BY <1>1, <2>1 DEF IInv, Healthy
    <2>4. \A p \in Pages : by'[p] # "nobody"
      BY <1>1, <1>2
    <2> QED BY <1>1, <2>2, <2>3, <2>4 DEF Healthy
  <1>7. Paid'
    BY <1>1, <1>2 DEF Paid, PaidOnce
  <1> QED BY <1>3, <1>4, <1>5, <1>6, <1>7 DEF IInv

(* The OCR tier has failed, or is not there.                                *)
LEMMA HoldInv ==
  ASSUME IInv, pc = "ocr", NEW reason \in Missing, Hold(reason), Taken, paid' = paid,
         faulty' \/ "ocr" \notin tiers
  PROVE  IInv'
  <1> DEFINE holes == {p \in todo : by[p] = "none"}
  <1>1. /\ by' = [p \in Pages |-> IF p \in holes THEN "nobody" ELSE by[p]]
        /\ read' = [p \in Pages |-> IF p \in holes THEN Blank ELSE read[p]]
        /\ marks' = [p \in Pages |-> IF p \in holes THEN {reason} ELSE marks[p]]
        /\ pc' = "rank" /\ wanted' = {} /\ quality' = quality /\ todo' = todo /\ UNCHANGED choice
    BY DEF Hold, Consult
  <1>2. \A p \in Pages : /\ by[p] \in {"none", "native"} /\ paid[p] = 0
                         /\ marks[p] \cap Missing = {}
    BY DEF IInv, Early, Result
  <1>3. TypeOK'
    <2>1. by' \in [Pages -> Engines \cup {"none", "nobody"}]
      BY <1>1 DEF IInv, TypeOK
    <2>2. read' \in [Pages -> Numbers]
      BY <1>1 DEF IInv, TypeOK, Numbers
    <2>3. marks' \in [Pages -> SUBSET (Missing \cup {"vision_escalated", "vision_probe",
                                                     "vision_failed", "vision_empty"})]
      BY <1>1 DEF IInv, TypeOK
    <2> QED BY <1>1, <2>1, <2>2, <2>3 DEF IInv, TypeOK, Taken, Results, document, counts, choice
  <1>4. Result'
    <2>1. \A p \in Pages : /\ by'[p] = "none" <=> read'[p] = Nothing
                           /\ by'[p] = "none" => quality'[p] = Nothing
                           /\ quality'[p] # Nothing => quality'[p] = Score(read'[p])
      BY <1>1, <1>2, NumbersAre DEF IInv, Result
    <2>2. \A p \in Pages : by'[p] = "nobody" <=> marks'[p] \cap Missing # {}
      BY <1>1, <1>2
    <2> QED BY <1>1, <1>2, <2>1, <2>2 DEF Result
  <1>5. Early' /\ Request' /\ Choice' /\ Final'
    BY <1>1, <1>2 DEF Early, Request, Choice, Final, IInv, choice
  <1>6. Healthy'
    BY <1>1 DEF Healthy, Taken, document
  <1>7. Paid'
    BY <1>1, <1>2 DEF Paid, PaidOnce
  <1> QED BY <1>3, <1>4, <1>5, <1>6, <1>7 DEF IInv
(* The vision answers are put in place.                                     *)
Reasons == Missing \cup {"vision_escalated", "vision_probe", "vision_failed", "vision_empty"}

LEMMA ReplaceKeeps ==
  ASSUME TypeOK, Result, NEW answers \in Results, NEW which, which \subseteq Pages, NEW probe,
         Replace(answers, which, probe), chosen' = which, chosen \subseteq which
  PROVE  /\ by' \in [Pages -> Engines \cup {"none", "nobody"}]
         /\ read' \in [Pages -> Numbers]
         /\ quality' \in [Pages -> Nat \cup {Nothing}]
         /\ marks' \in [Pages -> SUBSET Reasons]
         /\ pc' = "assemble" /\ wanted' = {}
         /\ Result'
         /\ \A p \in Pages : by'[p] \in {by[p], "vision"}
  <1> DEFINE good == {p \in which : Readable(answers[p])}
             Mark(p) == IF p \in good THEN {"vision_escalated"} \cup {m \in {"vision_probe"} : p = probe}
                        ELSE IF p \in which
                        THEN marks[p] \cup {"vision_failed"} \cup {m \in {"vision_empty"} : answers[p] = Blank}
                        ELSE marks[p]
  <1>1. /\ by' = [p \in Pages |-> IF p \in good THEN "vision" ELSE by[p]]
        /\ read' = [p \in Pages |-> IF p \in good THEN answers[p] ELSE read[p]]
        /\ quality' = [p \in Pages |-> IF p \in good THEN Score(answers[p]) ELSE quality[p]]
        /\ marks' = [p \in Pages |-> Mark(p)]
        /\ pc' = "assemble" /\ wanted' = {}
    BY DEF Replace
  <1>2. \A p \in good : answers[p] \in Reads /\ Score(answers[p]) \in Nat /\ answers[p] # Nothing
    BY ScoreIs DEF Results, Readable
  <1>3. \A p \in Pages : Mark(p) \in SUBSET Reasons
    BY DEF TypeOK, Reasons
  <1>4. /\ \A p \in good : Mark(p) \cap Missing = {}
        /\ \A p \in Pages \ good : Mark(p) \cap Missing = marks[p] \cap Missing
    BY DEF Missing
  <1> HIDE DEF good, Mark
  <1>5. by' \in [Pages -> Engines \cup {"none", "nobody"}] /\ \A p \in Pages : by'[p] \in {by[p], "vision"}
    BY <1>1 DEF TypeOK, Engines
  <1>6. read' \in [Pages -> Numbers]
    BY <1>1, <1>2 DEF TypeOK, Numbers
  <1>7. quality' \in [Pages -> Nat \cup {Nothing}]
    BY <1>1, <1>2 DEF TypeOK
  <1>8. marks' \in [Pages -> SUBSET Reasons]
    BY <1>1, <1>3
  <1>9. Result'
    <2>1. \A p \in Pages : /\ by'[p] = "none" <=> read'[p] = Nothing
                           /\ by'[p] = "none" => quality'[p] = Nothing
                           /\ quality'[p] # Nothing => quality'[p] = Score(read'[p])
      BY <1>1, <1>2 DEF Result
    <2>2. \A p \in Pages : by'[p] = "nobody" <=> marks'[p] \cap Missing # {}
      BY <1>1, <1>4 DEF Result
    <2>3. \A p \in Pages : by'[p] = "vision" => p \in chosen'
      BY <1>1 DEF Result, good
    <2> QED BY <2>1, <2>2, <2>3 DEF Result
  <1> QED BY <1>1, <1>5, <1>6, <1>7, <1>8, <1>9

LEMMA VisionInv ==
  ASSUME IInv, pc = "vision", NEW res \in Results, TakeVision(res), Taken,
         paid' \in [Pages -> Nat], PaidOnce'
  PROVE  IInv'
  <1> DEFINE answers == [p \in Pages |-> IF p = probed /\ proof # Nothing THEN proof ELSE res[p]]
  <1>1. answers \in Results
    BY DEF Results, IInv, TypeOK
  <1>2. Replace(answers, chosen, probed) /\ todo' = todo /\ UNCHANGED choice
    BY DEF TakeVision
  <1> HIDE DEF answers
  <1>3. chosen' = chosen /\ chosen \subseteq Pages /\ TypeOK /\ Result
    BY <1>2 DEF choice, IInv, TypeOK
  <1>4. /\ by' \in [Pages -> Engines \cup {"none", "nobody"}]
        /\ read' \in [Pages -> Numbers]
        /\ quality' \in [Pages -> Nat \cup {Nothing}]
        /\ marks' \in [Pages -> SUBSET Reasons]
        /\ pc' = "assemble" /\ wanted' = {}
        /\ Result'
        /\ \A p \in Pages : by'[p] \in {by[p], "vision"}
    BY <1>1, <1>2, <1>3, ReplaceKeeps
  <1>5. TypeOK'
    BY <1>2, <1>4 DEF IInv, TypeOK, Taken, Results, document, counts, choice, Reasons
  <1>6. Early' /\ Request' /\ Final'
    BY <1>4 DEF Early, Request, Final
  <1>7. Choice'
    BY <1>2 DEF IInv, Choice, choice
  <1>8. Healthy'
    BY <1>4 DEF IInv, Healthy, Taken, document
  <1>9. Paid'
    BY <1>4 DEF Paid
  <1> QED BY <1>4, <1>5, <1>6, <1>7, <1>8, <1>9 DEF IInv

(* The targets of the vision tier are known, after a probe.                 *)
LEMMA EscalateInv ==
  ASSUME IInv, pc = "probe", NEW targets, targets \subseteq Ranked(ranked),
         NEW probe \in Pages \cup {Nothing}, NEW seen \in Reads \cup {Nothing},
         \/ seen = Nothing /\ targets = Below(ranked)
         \/ seen \in Reads /\ targets = Ranked(ranked) /\ probe = Worst(ranked),
         Escalate(ranked, targets, probe, seen), UNCHANGED <<todo, ranked>>, Taken,
         paid' \in [Pages -> Nat],
         \A p \in Pages : /\ paid'[p] <= 1
                          /\ paid'[p] = 1 => p = Worst(ranked) /\ cached'["vision"][p] # Nothing
  PROVE  IInv'
  <1> DEFINE which == Kept(ranked, targets)
             rest  == Remaining(which, probe, seen)
  <1>1. ranked \in Ranks /\ TypeOK /\ Result /\ chosen = {}
    BY DEF IInv, TypeOK, Ranks, Early
  <1>2. which \subseteq targets /\ which \subseteq Pages /\ rest \subseteq which
    BY <1>1, KeptIs, BeforeOrders DEF Remaining
  <1>3. /\ probed' = probe /\ proof' = seen /\ chosen' = which
        /\ \/ targets = {} /\ pc' = "assemble" /\ wanted' = {} /\ UNCHANGED result
           \/ targets # {} /\ rest # {} /\ Consult("vision", rest) /\ UNCHANGED result
           \/ targets # {} /\ rest = {} /\ Replace(Proof(probe, seen), which, probe)
    BY DEF Escalate
  <1> HIDE DEF which, rest
  <1>4. /\ by' \in [Pages -> Engines \cup {"none", "nobody"}]
        /\ read' \in [Pages -> Numbers]
        /\ quality' \in [Pages -> Nat \cup {Nothing}]
        /\ marks' \in [Pages -> SUBSET Reasons]
        /\ pc' \in {"assemble", "vision"}
        /\ pc' = "assemble" => wanted' = {}
        /\ pc' = "vision" => wanted' = rest /\ rest # {}
        /\ Result'
        /\ \A p \in Pages : by'[p] \in {by[p], "vision"}
    <2>1. CASE UNCHANGED result
      <3>1. Result'
        BY <1>1, <1>3, <2>1 DEF Result, result
      <3>2. /\ pc' \in {"assemble", "vision"}
            /\ pc' = "assemble" => wanted' = {}
            /\ pc' = "vision" => wanted' = rest /\ rest # {}
        <4>1. CASE targets # {} /\ rest = {} /\ Replace(Proof(probe, seen), which, probe)
          BY <4>1 DEF Replace
        <4> QED BY <1>3, <4>1 DEF Consult
      <3> QED BY <1>1, <2>1, <3>1, <3>2 DEF TypeOK, result, Reasons
    <2>2. CASE Replace(Proof(probe, seen), which, probe)
      <3>1. Proof(probe, seen) \in Results
        BY DEF Proof, Results
      <3> QED BY <1>1, <1>2, <1>3, <2>2, <3>1, ReplaceKeeps
    <2> QED BY <1>3, <2>1, <2>2
  <1>5. TypeOK'
    BY <1>2, <1>3, <1>4 DEF IInv, TypeOK, Taken, Results, document, counts, Reasons, Consults
  <1>6. Early' /\ Final'
    BY <1>4 DEF Early, Final
  <1>7. Request'
    BY <1>3, <1>4 DEF Request, rest
  <1>8. Choice'
    BY <1>3, NumbersAre DEF Choice, which, Kept, Below, Ranked, Before
  <1>9. Healthy'
    BY <1>4 DEF IInv, Healthy, Taken, document
  <1>10. Paid'
    <2>1. \A p \in Pages : paid'[p] > 1 => FALSE
      BY RouterAssumption
    <2>2. seen # Nothing => probe = Worst(ranked)
      OBVIOUS
    <2> QED BY <1>3, <2>1, <2>2 DEF Paid, PaidOnce, Taken
  <1> QED BY <1>4, <1>5, <1>6, <1>7, <1>8, <1>9, <1>10 DEF IInv

LEMMA ProbeInv ==
  ASSUME IInv, pc = "probe", NEW res \in Results, TakeProbe(res), Taken,
         paid' \in [Pages -> Nat],
         \A p \in Pages : /\ paid'[p] <= 1
                          /\ paid'[p] = 1 => p = Worst(ranked) /\ cached'["vision"][p] # Nothing
  PROVE  IInv'
  <1>1. Worst(ranked) \in Pages /\ Below(ranked) \subseteq Ranked(ranked)
    BY WorstIs DEF IInv, TypeOK, Ranks, Request, Below
  <1>2. \/ Escalate(ranked, Below(ranked), Nothing, Nothing)
        \/ Escalate(ranked, Below(ranked), Worst(ranked), Nothing)
        \/ /\ Readable(res[Worst(ranked)])
           /\ Escalate(ranked, Ranked(ranked), Worst(ranked), res[Worst(ranked)])
    BY DEF TakeProbe
  <1>3. UNCHANGED <<todo, ranked>>
    BY DEF TakeProbe
  <1>4. Readable(res[Worst(ranked)]) => res[Worst(ranked)] \in Reads
    BY <1>1 DEF Results, Readable
  <1>5. CASE Escalate(ranked, Below(ranked), Nothing, Nothing)
    BY <1>1, <1>3, <1>5, EscalateInv
  <1>6. CASE Escalate(ranked, Below(ranked), Worst(ranked), Nothing)
    BY <1>1, <1>3, <1>6, EscalateInv
  <1>7. CASE /\ Readable(res[Worst(ranked)])
             /\ Escalate(ranked, Ranked(ranked), Worst(ranked), res[Worst(ranked)])
    BY <1>1, <1>3, <1>4, <1>7, EscalateInv
  <1> QED BY <1>2, <1>5, <1>6, <1>7
-----------------------------------------------------------------------------
(* The steps between the tiers.                                             *)

LEMMA InspectInv == ASSUME IInv, Inspect PROVE IInv'
  <1> USE DEF Inspect
  <1>1. /\ pc' \in {"ocr", "native"} /\ wanted' \subseteq Pages /\ todo' \subseteq Pages
        /\ pc' = "ocr" => shape = "paged" /\ NativePages = {} /\ wanted' = scanned /\ todo' = scanned
        /\ pc' = "native" => wanted' = NativePages /\ todo' = todo
    BY DEF Consult, IInv, TypeOK, NativePages
  <1>2. pc' = "ocr" => \A p \in Pages : p \in scanned
    BY <1>1 DEF NativePages
  <1>3. NativePages' = NativePages
    BY DEF NativePages, document
  <1>4. TypeOK'
    BY <1>1 DEF IInv, TypeOK, document, result, choice, counts, history, Consults
  <1>5. Result'
    BY DEF IInv, Result, result, choice
  <1>6. Early' /\ Request' /\ Choice' /\ Final'
    BY <1>1, <1>3 DEF TypeOK, Consults, IInv, Early, Request, Choice, Final, result, choice, history
  <1>7. Healthy'
    BY <1>1, <1>2 DEF IInv, Healthy, result, document, history
  <1>8. Paid'
    BY <1>1 DEF IInv, Early, Paid, PaidOnce, choice, history
  <1> QED BY <1>4, <1>5, <1>6, <1>7, <1>8 DEF IInv

LEMMA InspectFailsInv == ASSUME IInv, InspectFails PROVE IInv'
  <1> USE DEF InspectFails
  <1>1. TypeOK'
    BY DEF IInv, TypeOK, document, request, result, choice, counts, history, Consults
  <1>2. Result'
    BY DEF IInv, Result, result, choice
  <1>3. Early' /\ Request' /\ Choice' /\ Final' /\ Healthy'
    BY DEF IInv, Early, Request, Choice, Final, Healthy, result, choice, document, history
  <1>4. Paid'
    BY DEF IInv, Paid, PaidOnce, choice, history
  <1> QED BY <1>1, <1>2, <1>3, <1>4 DEF IInv

LEMMA RankInv == ASSUME IInv, Rank PROVE IInv'
  <1> DEFINE pages == {p \in todo : by[p] # "none"}
             score == [p \in Pages |-> IF p \in pages /\ quality[p] = Nothing
                                       THEN Score(read[p]) ELSE quality[p]]
             rank  == [p \in Pages |-> IF p \in pages THEN score[p] ELSE Nothing]
  <1>1. /\ pc = "rank" /\ pages # {} /\ quality' = score /\ ranked' = rank
        /\ UNCHANGED <<by, read, marks, todo, document, cached, waiting, held, counts, history>>
        /\ \/ Consult("probe", {Worst(rank)}) /\ UNCHANGED <<probed, proof, chosen>>
           \/ /\ probed' = Nothing /\ proof' = Nothing
              /\ chosen' = Kept(rank, Below(rank))
              /\ IF Below(rank) = {} THEN Consult("assemble", {})
                                     ELSE Consult("vision", Kept(rank, Below(rank)))
    BY DEF Rank
  <1>2. \A p \in Pages : by[p] # "none" /\ quality[p] = Nothing => Score(read[p]) \in Nat
    BY ScoreIs DEF IInv, Result, TypeOK, Numbers
  <1>3. pages \subseteq Pages /\ \A p \in pages : by[p] # "none"
    BY DEF IInv, TypeOK
  <1>4. score \in [Pages -> Nat \cup {Nothing}] /\ \A p \in pages : score[p] \in Nat
    BY <1>2, <1>3 DEF IInv, TypeOK
  <1>5. /\ \A p \in Pages : by[p] = "none" => score[p] = Nothing
        /\ \A p \in Pages : score[p] # Nothing => score[p] = Score(read[p])
    BY <1>3 DEF IInv, Result
  <1> HIDE DEF score
  <1>6. rank \in Ranks /\ Ranked(rank) # {}
    <2>1. \A p \in pages : rank[p] # Nothing /\ p \in Pages
      BY <1>3, <1>4, NumbersAre
    <2> QED BY <1>1, <1>4, <2>1 DEF Ranks, Ranked
  <1> HIDE DEF rank, pages
  <1>7. Below(rank) \subseteq Ranked(rank) /\ Kept(rank, Below(rank)) \subseteq Pages
        /\ (Below(rank) # {} => Kept(rank, Below(rank)) # {}) /\ Worst(rank) \in Pages
    BY <1>6, KeptIs, KeptSome, WorstIs, BeforeOrders DEF Below
  <1>8. chosen = {} /\ proof = Nothing /\ ~waiting /\ \A p \in Pages : paid[p] = 0
    BY <1>1 DEF IInv, Early, TypeOK, Consults
  <1>9. TypeOK'
    BY <1>1, <1>4, <1>6, <1>7 DEF IInv, TypeOK, Ranks, document, counts, history, Consult, Consults
  <1>10. Result'
    BY <1>1, <1>5, <1>8 DEF IInv, Result
  <1>11. Early' /\ Final'
    BY <1>1, <1>8 DEF Early, Final, Consult, history
  <1>12. Request' /\ Choice'
    BY <1>1, <1>6, <1>7, <1>8 DEF Request, Choice, Consult, Remaining
  <1>13. Healthy'
    BY <1>1 DEF IInv, Healthy, Consult, document, history
  <1>14. Paid'
    BY <1>1, <1>8 DEF Paid, PaidOnce, history
  <1> QED BY <1>9, <1>10, <1>11, <1>12, <1>13, <1>14 DEF IInv

LEMMA NoVisionInv == ASSUME IInv, NoVision PROVE IInv'
  <1> USE DEF NoVision, Consult
  <1>1. TypeOK'
    BY DEF IInv, TypeOK, document, result, choice, counts, history, Consults
  <1>2. Result'
    BY DEF IInv, Result, result, choice
  <1>3. Early' /\ Request' /\ Choice' /\ Final' /\ Healthy'
    BY DEF IInv, Early, Request, Choice, Final, Healthy, result, choice, document, history
  <1>4. Paid'
    BY DEF IInv, Paid, PaidOnce, choice, history
  <1> QED BY <1>1, <1>2, <1>3, <1>4 DEF IInv

LEMMA AssembleInv == ASSUME IInv, Assemble PROVE IInv'
  <1> DEFINE gaps == {p \in Pages : by[p] = "none"}
             Fill(p) == IF quality[p] # Nothing THEN quality[p]
                        ELSE IF p \in gaps THEN 0 ELSE Score(read[p])
  <1>1. /\ pc = "assemble" /\ pc' = "done"
        /\ UNCHANGED <<document, cached, request, todo, choice, counts, history>>
    BY DEF Assemble
  <1>2. CASE shape = "uncounted"
    <2>1. UNCHANGED result
      BY <1>2 DEF Assemble
    <2>2. TypeOK'
      BY <1>1, <2>1 DEF IInv, TypeOK, document, request, result, choice, counts, history, Consults
    <2>3. Result'
      BY <1>1, <2>1 DEF IInv, Result, result, choice
    <2>4. Early' /\ Request' /\ Choice' /\ Final' /\ Healthy'
      BY <1>1, <1>2, <2>1
         DEF IInv, Early, Request, Choice, Final, Healthy, result, choice, document, history
    <2>5. Paid'
      BY <1>1 DEF IInv, Paid, PaidOnce, choice, history
    <2> QED BY <2>2, <2>3, <2>4, <2>5 DEF IInv
  <1>3. CASE shape # "uncounted"
    <2>1. /\ by' = [p \in Pages |-> IF p \in gaps THEN "nobody" ELSE by[p]]
          /\ read' = [p \in Pages |-> IF p \in gaps THEN Blank ELSE read[p]]
          /\ quality' = [p \in Pages |-> Fill(p)]
          /\ marks' = [p \in Pages |-> IF p \in gaps THEN {"not_extracted"} ELSE marks[p]]
      BY <1>3 DEF Assemble
    <2>2. \A p \in Pages : Fill(p) \in Nat
      BY ScoreIs DEF IInv, TypeOK, Result, Numbers
    <2>3. \A p \in Pages : /\ p \in gaps => Fill(p) = Score(Blank)
                           /\ p \notin gaps => Fill(p) = Score(read[p])
      BY DEF IInv, Result, Score
    <2> HIDE DEF Fill
    <2>4. by' \in [Pages -> Engines \cup {"none", "nobody"}]
      BY <2>1 DEF IInv, TypeOK
    <2>5. read' \in [Pages -> Numbers]
      BY <2>1 DEF IInv, TypeOK, Numbers
    <2>6. quality' \in [Pages -> Nat \cup {Nothing}]
      BY <2>1, <2>2
    <2>7. marks' \in [Pages -> SUBSET Reasons]
      BY <2>1 DEF IInv, TypeOK, Reasons, Missing
    <2>8. TypeOK'
      BY <1>1, <2>4, <2>5, <2>6, <2>7
         DEF IInv, TypeOK, document, request, choice, counts, history, Reasons, Consults
    <2>9. Result'
      <3>1. \A p \in Pages : by'[p] # "none" /\ read'[p] # Nothing /\ quality'[p] = Score(read'[p])
        BY <2>1, <2>3, NumbersAre DEF IInv, Result
      <3>2. \A p \in Pages : by'[p] = "nobody" <=> marks'[p] \cap Missing # {}
        BY <2>1 DEF IInv, Result, Missing
      <3>3. \A p \in Pages : by'[p] = "vision" => p \in chosen'
        BY <1>1, <2>1 DEF IInv, Result, choice
      <3> QED BY <3>1, <3>2, <3>3 DEF Result
    <2>10. Final'
      BY <2>1, <2>2, NumbersAre DEF Final
    <2>11. Early' /\ Request' /\ Choice'
      BY <1>1 DEF IInv, Early, Request, Choice, choice
    <2>12. Healthy'
      BY <1>1, <2>1 DEF IInv, Healthy, document, history
    <2>13. Paid'
      BY <1>1 DEF IInv, Paid, PaidOnce, choice, history
    <2> QED BY <2>8, <2>9, <2>10, <2>11, <2>12, <2>13 DEF IInv
  <1> QED BY <1>2, <1>3

LEMMA CacheClearedInv == ASSUME IInv, CacheCleared PROVE IInv'
  <1> USE DEF CacheCleared
  <1>1. clears' \in 0..MaxClears /\ cached' \in [Engines -> Results]
    BY NoPagesIs, RouterAssumption DEF IInv, TypeOK
  <1>2. TypeOK'
    BY <1>1 DEF IInv, TypeOK, document, request, result, choice, Results
  <1>3. Result'
    BY DEF IInv, Result, result, choice
  <1>4. NativePages' = NativePages
    BY DEF NativePages, document
  <1>5. Early' /\ Request' /\ Choice' /\ Final' /\ Healthy'
    BY <1>4 DEF IInv, Early, Request, Choice, Final, Healthy, request, result, choice, document
  <1>6. Paid'
    BY DEF IInv, Paid, PaidOnce, choice, request
  <1> QED BY <1>2, <1>3, <1>5, <1>6 DEF IInv

LEMMA AgainInv == ASSUME IInv, Again PROVE IInv'
  <1> USE DEF Again
  <1>1. \A p \in Pages : by'[p] = "none" /\ read'[p] = Nothing /\ quality'[p] = Nothing
                         /\ marks'[p] = {} /\ paid'[p] = 0
    BY DEF NoPages
  <1>2. runs' \in 1..MaxRuns
    BY RouterAssumption DEF IInv, TypeOK
  <1>3. TypeOK'
    BY <1>2, NoPagesIs DEF IInv, TypeOK, document, Results, Ranks, Consults
  <1>4. Result'
    BY <1>1 DEF Result, Missing
  <1>5. Early' /\ Request' /\ Choice' /\ Final' /\ Healthy'
    BY <1>1 DEF Early, Request, Choice, Final, Healthy
  <1>6. Paid'
    BY <1>1 DEF Paid, PaidOnce
  <1> QED BY <1>3, <1>4, <1>5, <1>6 DEF IInv

-----------------------------------------------------------------------------
(* Asking, and the three kinds of answer.                                   *)

LEMMA EngineIs == pc \in Consults => /\ Engine \in Engines
                                     /\ Engine = "vision" <=> pc \in {"probe", "vision"}
  BY DEF Engine, Engines, Consults

LEMMA CachedIs ==
  ASSUME IInv, pc \in Consults
  PROVE  /\ Cached \in Results
         /\ \A p \in wanted : Cached[p] = cached[Engine][p]
  BY EngineIs DEF IInv, TypeOK, Cached, Results

LEMMA AskInv == ASSUME IInv, Ask PROVE IInv'
  <1> USE DEF Ask
  <1>1. pc \in Consults
    BY DEF Consulting
  <1>2. Cached \in Results
    BY <1>1, CachedIs
  <1>3. TypeOK'
    BY <1>1, <1>2 DEF IInv, TypeOK, document, result, choice, counts, history, Results
  <1>4. Result'
    BY DEF IInv, Result, result, choice
  <1>5. NativePages' = NativePages
    BY DEF NativePages, document
  <1>6. Early' /\ Request' /\ Choice' /\ Final' /\ Healthy'
    BY <1>5 DEF Consulting, IInv, Early, Request, Choice, Final, Healthy, result, choice, document, history
  <1>7. Paid'
    <2>1. CASE pc = "vision"
      <3>1. \A p \in wanted : p \in Pages /\ held'[p] = cached["vision"][p]
        BY <1>1, <2>1, CachedIs, EngineIs DEF IInv, TypeOK, Engine
      <3>2. \A p \in wanted : proof # Nothing => p # probed
        BY <2>1 DEF IInv, Request, Remaining
      <3>3. \A p \in wanted : held'[p] = Nothing /\ paid[p] = 1 => forgot
        BY <2>1, <3>1, <3>2 DEF IInv, Paid
      <3> QED BY <2>1, <3>3 DEF IInv, Paid, PaidOnce, choice, history
    <2>2. CASE pc # "vision"
      BY <2>2 DEF IInv, Paid, PaidOnce, choice, history
    <2> QED BY <2>1, <2>2
  <1> QED BY <1>3, <1>4, <1>6, <1>7 DEF IInv

LEMMA FromCacheInv == ASSUME IInv, FromCache PROVE IInv'
  <1> USE DEF FromCache
  <1>1. pc \in Consults /\ Take(Cached)
    BY DEF Consulting
  <1>2. Cached \in Results /\ wanted # {} /\ \A p \in wanted : Cached[p] # Nothing
    BY <1>1, CachedIs DEF Hits
  <1>3. Taken /\ paid' = paid
    BY DEF IInv, TypeOK, Taken, Results, history
  <1>4. CASE pc = "native"
    BY <1>1, <1>2, <1>3, <1>4, NativeInv DEF Take
  <1>5. CASE pc = "ocr"
    BY <1>1, <1>2, <1>3, <1>5, OCRInv DEF Take
  <1>6. CASE pc = "probe"
    <2>1. \A p \in Pages : paid'[p] = 0
      BY <1>3, <1>6 DEF IInv, Early
    <2>2. paid' \in [Pages -> Nat]
      BY <1>3 DEF IInv, TypeOK
    <2> QED BY <1>1, <1>2, <1>3, <1>6, <2>1, <2>2, ProbeInv DEF Take
  <1>7. CASE pc = "vision"
    <2>1. TakeVision(Cached)
      BY <1>1, <1>7 DEF Take
    <2>2. PaidOnce' /\ paid' \in [Pages -> Nat]
      BY <1>3, <2>1 DEF IInv, Paid, PaidOnce, TypeOK, TakeVision, choice, history
    <2> QED BY <1>2, <1>3, <1>7, <2>1, <2>2, VisionInv
  <1> QED BY <1>1, <1>4, <1>5, <1>6, <1>7 DEF Consults

LEMMA FailsInv == ASSUME IInv, Fails PROVE IInv'
  <1>1. pc \in Consults /\ waiting
    BY DEF Fails, IInv, TypeOK
  <1>2. /\ waiting' = FALSE /\ held' = NoPages
        /\ UNCHANGED <<document, cached, counts, forgot, paid>>
        /\ faulty' = (faulty \/ pc \in {"native", "ocr"})
    BY DEF Fails
  <1>3. faulty' \in BOOLEAN /\ (~faulty' => ~faulty) /\ (pc \in {"native", "ocr"} => faulty')
    BY <1>2, Zenon
  <1>4. Taken
    BY <1>2, <1>3, NoPagesIs DEF IInv, TypeOK, Taken, Results
  <1>5. CASE pc = "native"
    <2>1. pc' = "failed" /\ wanted' = {} /\ UNCHANGED <<result, todo, choice>>
      BY <1>5 DEF Fails
    <2>2. TypeOK'
      BY <1>2, <1>3, <2>1, NoPagesIs
         DEF IInv, TypeOK, document, result, choice, counts, Results, Consults
    <2>3. Result'
      BY <2>1 DEF IInv, Result, result, choice
    <2>4. Early' /\ Request' /\ Choice' /\ Final' /\ Healthy'
      BY <1>2, <1>3, <1>5, <2>1
         DEF IInv, Early, Request, Choice, Final, Healthy, result, choice
    <2>5. Paid'
      BY <1>2, <2>1 DEF IInv, Paid, PaidOnce, choice
    <2> QED BY <2>2, <2>3, <2>4, <2>5 DEF IInv
  <1>6. CASE pc = "ocr"
    BY <1>2, <1>3, <1>4, <1>6, HoldInv DEF Fails, Missing
  <1>7. CASE pc = "probe"
    <2>1. TakeProbe(NoPages)
      BY <1>7 DEF Fails
    <2>2. \A p \in Pages : paid'[p] = 0
      BY <1>2, <1>7 DEF IInv, Early
    <2>3. paid' \in [Pages -> Nat]
      BY <1>2 DEF IInv, TypeOK
    <2> QED BY <1>4, <1>7, <2>1, <2>2, <2>3, NoPagesIs, ProbeInv
  <1>8. CASE pc = "vision"
    <2>1. TakeVision(NoPages)
      BY <1>8 DEF Fails
    <2>2. PaidOnce' /\ paid' \in [Pages -> Nat]
      BY <1>2, <2>1 DEF IInv, Paid, PaidOnce, TypeOK, TakeVision, choice
    <2> QED BY <1>4, <1>8, <2>1, <2>2, NoPagesIs, VisionInv
  <1> QED BY <1>1, <1>5, <1>6, <1>7, <1>8 DEF Consults

LEMMA AnswerInv == ASSUME IInv, Answer PROVE IInv'
  <1>1. PICK answer \in Results :
          /\ \A p \in Pages \ Asked : answer[p] = Nothing
          /\ Remember(answer)
          /\ Take(Together(answer))
          /\ faulty' = (\/ faulty
                        \/ /\ pc \in {"native", "ocr"}
                           /\ \E p \in Asked : answer[p] = Nothing)
          /\ paid' = [p \in Pages |-> IF Engine = "vision" /\ answer[p] # Nothing
                                      THEN paid[p] + 1 ELSE paid[p]]
    BY DEF Answer, Results
  <1>2. /\ waiting /\ pc \in Consults
        /\ waiting' = FALSE /\ held' = NoPages /\ UNCHANGED <<document, counts, forgot>>
    BY DEF Answer, IInv, TypeOK
  <1> DEFINE res == Together(answer)
  <1>3. /\ res \in Results
        /\ \A p \in Asked : res[p] = answer[p]
        /\ \A p \in wanted \ Asked : res[p] # Nothing
        /\ Asked \subseteq Pages /\ (wanted = {} => Asked = Pages)
    BY DEF Together, Asked, Results, IInv, TypeOK
  <1>4. /\ cached' \in [Engines -> Results]
        /\ \A p \in Pages : Engine = "vision" /\ answer[p] # Nothing => cached'["vision"][p] = answer[p]
    BY <1>1, <1>2, EngineIs DEF Remember, IInv, TypeOK, Results, Engines
  <1>5. /\ faulty' \in BOOLEAN /\ (~faulty' => ~faulty)
        /\ pc \in {"native", "ocr"} /\ ~faulty' => \A p \in Asked : answer[p] # Nothing
    BY <1>1, Zenon
  <1>6. Taken
    BY <1>2, <1>4, <1>5, NoPagesIs DEF Taken
  <1>7. paid' \in [Pages -> Nat]
    BY <1>1 DEF IInv, TypeOK
  <1> HIDE DEF res
  <1>8. pc \in {"native", "ocr"} =>
          /\ paid' = paid
          /\ ~faulty' => \A p \in Pages : wanted = {} \/ p \in wanted => res[p] # Nothing
    <2> SUFFICES ASSUME pc \in {"native", "ocr"}
                 PROVE  /\ paid' = paid
                        /\ ~faulty' => \A p \in Pages : wanted = {} \/ p \in wanted => res[p] # Nothing
      OBVIOUS
    <2>1. Engine # "vision"
      BY EngineIs, <1>2
    <2>2. paid' = paid
      BY <1>1, <2>1 DEF IInv, TypeOK
    <2> QED BY <1>3, <1>5, <2>2
  <1>9. Take(res)
    BY <1>1 DEF res
  <1>10. CASE pc = "native"
    BY <1>3, <1>6, <1>8, <1>9, <1>10, NativeInv DEF Take
  <1>11. CASE pc = "ocr"
    BY <1>3, <1>6, <1>8, <1>9, <1>11, OCRInv DEF Take
  <1>12. CASE pc = "probe"
    <2>1. TakeProbe(res)
      BY <1>9, <1>12 DEF Take
    <2>2. wanted = {Worst(ranked)} /\ Engine = "vision" /\ \A p \in Pages : paid[p] = 0
      BY <1>12 DEF IInv, Request, Early, Engine
    <2>3. \A p \in Pages : /\ paid'[p] <= 1
                           /\ paid'[p] = 1 => p = Worst(ranked) /\ cached'["vision"][p] # Nothing
      <3> SUFFICES ASSUME NEW p \in Pages
                   PROVE  /\ paid'[p] <= 1
                          /\ paid'[p] = 1 => p = Worst(ranked) /\ cached'["vision"][p] # Nothing
        OBVIOUS
      <3>1. paid'[p] = IF answer[p] # Nothing THEN 1 ELSE 0
        BY <1>1, <2>2
      <3>2. answer[p] # Nothing => p \in Asked
        BY <1>1
      <3>3. p \in Asked => p = Worst(ranked)
        BY <2>2 DEF Asked
      <3> QED BY <1>4, <2>2, <3>1, <3>2, <3>3
    <2> QED BY <1>3, <1>6, <1>7, <1>12, <2>1, <2>3, ProbeInv
  <1>13. CASE pc = "vision"
    <2>1. TakeVision(res)
      BY <1>9, <1>13 DEF Take
    <2>2. proof' = proof
      BY <2>1 DEF TakeVision, choice
    <2>3. PaidOnce'
      <3> SUFFICES ASSUME NEW p \in Pages, paid'[p] > 1 PROVE forgot /\ proof = Nothing
        BY <1>2, <2>2 DEF PaidOnce
      <3>1. paid[p] \in Nat /\ paid[p] <= 1
        BY <1>13 DEF IInv, TypeOK, Paid
      <3>2. answer[p] # Nothing /\ paid[p] = 1
        BY <1>1, <3>1
      <3>3. p \in wanted /\ held[p] = Nothing
        BY <1>1, <1>13, <3>2 DEF Asked, IInv, Request
      <3>4. forgot
        BY <1>2, <1>13, <3>2, <3>3 DEF IInv, Paid
      <3>5. proof = Nothing
        <4> SUFFICES ASSUME proof # Nothing PROVE FALSE
          OBVIOUS
        <4>1. p = probed
          BY <1>13, <3>2 DEF IInv, Paid
        <4>2. p # probed
          BY <1>13, <3>3 DEF IInv, Request, Remaining
        <4> QED BY <4>1, <4>2
      <3> QED BY <3>4, <3>5
    <2> QED BY <1>3, <1>6, <1>7, <1>13, <2>1, <2>3, VisionInv
  <1> QED BY <1>2, <1>10, <1>11, <1>12, <1>13 DEF Consults

LEMMA NoOCREngineInv == ASSUME IInv, NoOCREngine PROVE IInv'
  <1> USE DEF NoOCREngine
  <1>1. Taken /\ paid' = paid
    BY DEF IInv, TypeOK, Request, Taken, Results, history
  <1> QED BY <1>1, HoldInv DEF Missing

LEMMA StutterInv == ASSUME IInv, UNCHANGED vars PROVE IInv'
  <1> USE DEF vars, document, request, result, choice, counts, history
  <1>1. TypeOK'
    BY DEF IInv, TypeOK
  <1>2. Result'
    BY DEF IInv, Result
  <1>3. NativePages' = NativePages
    BY DEF NativePages
  <1>4. Early' /\ Request' /\ Choice' /\ Final' /\ Healthy' /\ Paid'
    BY <1>3 DEF IInv, Early, Request, Choice, Final, Healthy, Paid, PaidOnce
  <1> QED BY <1>1, <1>2, <1>4 DEF IInv

LEMMA NextInv == IInv /\ [Next]_vars => IInv'
  BY InspectInv, InspectFailsInv, FromCacheInv, AskInv, AnswerInv, FailsInv, NoOCREngineInv,
     RankInv, NoVisionInv, AssembleInv, CacheClearedInv, AgainInv, StutterInv DEF Next
-----------------------------------------------------------------------------
(* The theorems.                                                            *)

(* Every reachable state satisfies the invariant.                           *)
THEOREM Invariance == Spec => []IInv
  <1> QED BY InitInv, NextInv, PTL DEF Spec

(* The types of Process and of what it is between the tiers.                *)
THEOREM TypeCorrect == Spec => []TypeOK
  <1>1. IInv => TypeOK
    BY DEF IInv
  <1> QED BY <1>1, Invariance, PTL

(* A finished document has every page, and says of a page that no engine    *)
(* made it exactly when none did (Process, canonical.Incomplete 139-149).   *)
THEOREM HolesAreMarkedHolds == Spec => []HolesAreMarked
  <1>1. IInv => HolesAreMarked
    BY DEF IInv, Result, Final, HolesAreMarked, InDocument
  <1> QED BY <1>1, Invariance, PTL

(* Earlier runs over the same cache do no harm to a run in which nothing    *)
(* fails (extract 531-558, 585-604).                                        *)
THEOREM HealthyRunIsWholeHolds == Spec => []HealthyRunIsWhole
  <1>1. IInv => HealthyRunIsWhole
    BY DEF IInv, Healthy, HealthyRunIsWhole
  <1> QED BY <1>1, Invariance, PTL

(* The score of a page of a finished document is that of its text, whoever  *)
(* was the last to replace it (Process 166-176, 211-222, 244-247).          *)
THEOREM ScoreIsOfTextHolds == Spec => []ScoreIsOfText
  <1>1. IInv => ScoreIsOfText
    BY DEF IInv, Result, Final, ScoreIsOfText
  <1> QED BY <1>1, Invariance, PTL

(* For any number of pages and any cap: the cap holds, and the pages under  *)
(* it are the worst of all (capWorstFirst 435-455).                         *)
THEOREM VisionBudgetHolds == Spec => []VisionBudget
  <1>1. IInv => VisionBudget
    <2> SUFFICES ASSUME IInv, pc = "done" PROVE VisionBudget
      BY DEF VisionBudget
    <2> DEFINE seen == {p \in Pages : by[p] = "vision"}
    <2>1. ranked \in Ranks /\ Below(ranked) \subseteq Ranked(ranked) /\ chosen \subseteq Pages
      BY DEF IInv, TypeOK, Ranks, Below
    <2>2. seen \in SUBSET chosen
      BY DEF IInv, Result
    <2>3. CASE chosen = {}
      <3>1. seen = {}
        BY <2>2, <2>3
      <3>2. Cardinality(seen) = 0
        BY <3>1, FS_EmptySet
      <3> HIDE DEF seen
      <3>3. Cardinality(seen) <= VisionMaxPages
        BY <3>2, RouterAssumption
      <3> QED BY <2>3, <3>3 DEF VisionBudget, seen
    <2>4. ASSUME NEW targets, targets \subseteq Ranked(ranked), chosen = Kept(ranked, targets),
                 \A p \in targets, q \in Ranked(ranked) \ targets : ~Before(ranked, q, p)
          PROVE  VisionBudget
      <3>1. IsFiniteSet(chosen) /\ Cardinality(chosen) <= VisionMaxPages
        BY <2>1, <2>4, KeptFew
      <3>2. Cardinality(seen) <= Cardinality(chosen)
        BY <2>2, <3>1, FS_Subset
      <3>3. IsFiniteSet(seen)
        BY <2>2, <3>1, FS_Subset
      <3>4. Cardinality(seen) \in Nat /\ Cardinality(chosen) \in Nat
        BY <3>1, <3>3, FS_CardinalityType
      <3> HIDE DEF seen
      <3>5. Cardinality(seen) <= VisionMaxPages
        BY <3>1, <3>2, <3>4, RouterAssumption
      <3>6. \A p \in chosen, q \in targets \ chosen : ~Before(ranked, q, p)
        BY <2>1, <2>4, KeptWorst
      <3>7. chosen \subseteq targets
        BY <2>1, <2>4, KeptIs
      <3>8. \A p \in chosen, q \in Ranked(ranked) \ chosen : ~Before(ranked, q, p)
        BY <2>4, <3>6, <3>7
      <3> QED BY <3>5, <3>8 DEF VisionBudget, seen
    <2>5. CASE chosen = Kept(ranked, Below(ranked))
      <3>1. \A p \in Below(ranked), q \in Ranked(ranked) \ Below(ranked) : ~Before(ranked, q, p)
        <4> SUFFICES ASSUME NEW p \in Below(ranked), NEW q \in Ranked(ranked) \ Below(ranked)
                     PROVE  ~Before(ranked, q, p)
          OBVIOUS
        <4>1. ranked[p] \in Nat /\ ranked[q] \in Nat
          BY <2>1, BeforeOrders
        <4>2. ranked[p] < VisionThreshold /\ ~(ranked[q] < VisionThreshold)
          BY DEF Below
        <4> QED BY <4>1, <4>2, RouterAssumption DEF Before
      <3> QED BY <2>1, <2>4, <2>5, <3>1
    <2>6. CASE chosen = Kept(ranked, Ranked(ranked))
      BY <2>4, <2>6
    <2> QED BY <2>3, <2>5, <2>6 DEF IInv, Choice
  <1> QED BY <1>1, Invariance, PTL

(* After a probe that agrees, the vision tier replaces pages below the      *)
(* threshold only (probeVision 457-468, 499-504).                           *)
THEOREM AgreementKeepsOCRHolds == Spec => []AgreementKeepsOCR
  <1>1. IInv => AgreementKeepsOCR
    <2> SUFFICES ASSUME IInv, pc = "done", proof = Nothing, NEW p \in Pages, by[p] = "vision"
                 PROVE  ranked[p] < VisionThreshold
      BY DEF AgreementKeepsOCR
    <2>1. p \in chosen /\ chosen \subseteq Below(ranked)
      BY DEF IInv, Result, Choice, Kept
    <2> QED BY <2>1 DEF Below
  <1> QED BY <1>1, Invariance, PTL

(* The vision tier answers for a page at most once in a run, unless the     *)
(* cache was emptied after a probe that changed nothing (escalateToVision   *)
(* 332-339).                                                                *)
THEOREM PaidOnceHolds == Spec => []PaidOnce
  <1>1. IInv => PaidOnce
    BY DEF IInv, Paid
  <1> QED BY <1>1, Invariance, PTL

(* Tier 3 never takes the content of a page away (escalateToVision 262-265, *)
(* 369-373).                                                                *)
THEOREM VisionNeverBlanksHolds == Spec => VisionNeverBlanks
  <1> DEFINE Keeps == \A p \in Pages :
               pc \in {"probe", "vision"} /\ read[p] \notin {Blank, Nothing} =>
                 read'[p] \notin {Blank, Nothing}
  <1>1. ASSUME NEW answers, NEW which, NEW probe, Replace(answers, which, probe) PROVE Keeps
    BY <1>1 DEF Replace, Readable
  <1>2. UNCHANGED result => Keeps
    BY DEF result
  <1>3. ASSUME NEW rank, NEW targets, NEW probe, NEW seen, Escalate(rank, targets, probe, seen)
        PROVE  Keeps
    BY <1>1, <1>2, <1>3 DEF Escalate
  <1>4. ASSUME NEW res, TakeProbe(res) \/ TakeVision(res) PROVE Keeps
    BY <1>1, <1>3, <1>4 DEF TakeProbe, TakeVision
  <1>5. ASSUME NEW res, Take(res) PROVE Keeps
    <2>1. CASE pc \in {"probe", "vision"}
      BY <1>4, <1>5, <2>1 DEF Take
    <2>2. CASE pc \notin {"probe", "vision"}
      BY <2>2
    <2> QED BY <2>1, <2>2
  <1>6. [Next]_vars => Keeps
    <2> SUFFICES ASSUME [Next]_vars, pc \in {"probe", "vision"} PROVE Keeps
      OBVIOUS
    <2>1. CASE FromCache
      BY <1>5, <2>1 DEF FromCache
    <2>2. CASE Ask
      BY <1>2, <2>2 DEF Ask
    <2>3. CASE Answer
      BY <1>5, <2>3 DEF Answer
    <2>4. CASE Fails
      BY <1>4, <2>4 DEF Fails
    <2>5. CASE CacheCleared
      BY <1>2, <2>5 DEF CacheCleared
    <2>6. CASE UNCHANGED vars
      BY <1>2, <2>6 DEF vars
    <2>7. CASE Inspect \/ InspectFails \/ NoOCREngine \/ Rank \/ NoVision \/ Assemble \/ Again
      BY <2>7 DEF Inspect, InspectFails, NoOCREngine, Rank, NoVision, Assemble, Again
    <2> QED BY <2>1, <2>2, <2>3, <2>4, <2>5, <2>6, <2>7 DEF Next
  <1> QED BY <1>6, PTL DEF Spec, VisionNeverBlanks

-----------------------------------------------------------------------------
(* The router implements Escalation.  What it needs beside IInv: only pages *)
(* that are due are asked of OCR and returned by it, and only those of them *)
(* that are there are ranked.                                               *)
Routed ==
  /\ pc = "ocr" => todo # {}
  /\ pc = "ocr" /\ waiting => \A p \in Pages \ wanted : held[p] = Nothing
  /\ pc \in {"probe", "vision"} => \A p \in Ranked(ranked) : p \in todo /\ by[p] # "none"

LEMMA RoutedInit == Init => Routed
  BY DEF Init, Routed

(* A step after which the tier is another one, or the same one undisturbed. *)
LEMMA RoutedKept ==
  ASSUME Routed, \/ pc' \notin {"ocr", "probe", "vision"}
                 \/ UNCHANGED <<pc, waiting, wanted, held, todo, ranked, by>>
  PROVE  Routed'
  BY DEF Routed, Ranked

LEMMA RoutedEscalate ==
  ASSUME IInv, Routed, pc = "probe", NEW targets, NEW probe, NEW seen,
         Escalate(ranked, targets, probe, seen), UNCHANGED <<todo, ranked>>
  PROVE  Routed'
  <1>1. /\ pc' = "assemble" \/ (pc' = "vision" /\ by' = by)
    BY DEF Escalate, Replace, Consult, result
  <1> QED BY <1>1 DEF Routed, Ranked

LEMMA RoutedTake ==
  ASSUME IInv, Routed, NEW res, Take(res), ~waiting'
  PROVE  Routed'
  <1>1. CASE pc = "native"
    <2>1. pc' \in {"assemble", "ocr"} /\ (pc' = "ocr" => todo' # {})
      BY <1>1 DEF Take, TakeNative, Consult
    <2> QED BY <2>1 DEF Routed
  <1>2. CASE pc = "ocr" \/ pc = "vision"
    <2>1. pc' \in {"rank", "assemble"}
      BY <1>2 DEF Take, TakeOCR, TakeVision, Replace, Consult
    <2> QED BY <2>1, RoutedKept
  <1>3. CASE pc = "probe"
    BY <1>3, RoutedEscalate DEF Take, TakeProbe
  <1> QED BY <1>1, <1>2, <1>3 DEF Take

LEMMA RoutedStep == IInv /\ Routed /\ [Next]_vars => Routed'
  <1> SUFFICES ASSUME IInv, Routed, [Next]_vars PROVE Routed'
    OBVIOUS
  <1>1. ASSUME Inspect PROVE Routed'
    <2>1. scanned # {} \/ NativePages # {} \/ shape # "paged"
      BY RouterAssumption DEF NativePages
    <2>2. ~waiting /\ waiting' = waiting
      BY <1>1 DEF Inspect, IInv, TypeOK, Consults
    <2>3. pc' = "native" \/ (pc' = "ocr" /\ todo' # {})
      BY <1>1, <2>1 DEF Inspect, Consult
    <2> QED BY <2>2, <2>3 DEF Routed
  <1>2. ASSUME FromCache PROVE Routed'
    BY <1>2, RoutedTake DEF FromCache
  <1>3. ASSUME Ask PROVE Routed'
    <2>1. pc' = pc /\ wanted' = wanted /\ todo' = todo /\ by' = by /\ ranked' = ranked
          /\ held' = Cached
      BY <1>3 DEF Ask, result, choice
    <2>2. \A p \in Pages \ wanted : Cached[p] = Nothing
      BY DEF Cached
    <2> QED BY <2>1, <2>2 DEF Routed, Ranked
  <1>4. ASSUME Answer PROVE Routed'
    BY <1>4, RoutedTake DEF Answer
  <1>5. ASSUME Fails PROVE Routed'
    <2>1. CASE pc = "native" \/ pc = "ocr" \/ pc = "vision"
      <3>1. pc' \in {"failed", "rank", "assemble"}
        BY <1>5, <2>1 DEF Fails, Hold, TakeVision, Replace, Consult
      <3> QED BY <3>1, RoutedKept
    <2>2. CASE pc = "probe"
      BY <1>5, <2>2, RoutedEscalate DEF Fails, TakeProbe
    <2> QED BY <1>5, <2>1, <2>2 DEF Fails
  <1>6. ASSUME Rank PROVE Routed'
    <2> DEFINE pages == {p \in todo : by[p] # "none"}
    <2>1. pc' # "ocr" /\ by' = by /\ todo' = todo
          /\ \A p \in Pages : p \notin pages => ranked'[p] = Nothing
      BY <1>6 DEF Rank, Consult
    <2> QED BY <2>1 DEF Routed, Ranked
  <1>7. ASSUME CacheCleared \/ UNCHANGED vars PROVE Routed'
    <2>1. UNCHANGED <<pc, waiting, wanted, held, todo, ranked, by>>
      BY <1>7 DEF CacheCleared, vars, request, result, choice
    <2> QED BY <2>1, RoutedKept
  <1>8. ASSUME InspectFails \/ NoOCREngine \/ NoVision \/ Assemble \/ Again PROVE Routed'
    <2>1. pc' \in {"failed", "rank", "assemble", "done", "inspect"}
      BY <1>8 DEF InspectFails, NoOCREngine, Hold, NoVision, Assemble, Again, Consult
    <2> QED BY <2>1, RoutedKept
  <1> QED BY <1>1, <1>2, <1>3, <1>4, <1>5, <1>6, <1>7, <1>8 DEF Next

LEMMA RoutedHolds == Spec => [](IInv /\ Routed)
  <1>1. Init => Routed
    BY RoutedInit
  <1> QED BY <1>1, RoutedStep, Invariance, PTL DEF Spec

(* Steps of Escalation.                                                     *)
LEMMA Makes ==
  ASSUME NEW ps \in SUBSET Pages, NEW who, NEW texts, NEW answers,
         by'   = [p \in Pages |-> IF p \in ps THEN who ELSE by[p]],
         read' = [p \in Pages |-> IF p \in ps THEN answers[p] ELSE read[p]],
         \A p \in ps : answers[p] \in texts
  PROVE  Escalated!Make(ps, who, texts)
  <1> DEFINE new == [p \in ps |-> answers[p]]
  <1>1. new \in [ps -> texts]
    OBVIOUS
  <1>2. read' = [p \in Pages |-> IF p \in ps THEN new[p] ELSE read[p]]
    OBVIOUS
  <1> QED BY <1>1, <1>2 DEF Escalated!Make

LEMMA MakesNothing ==
  ASSUME IInv, by' = by, read' = read, NEW who, NEW texts
  PROVE  Escalated!Make({}, who, texts)
  <1>1. /\ by'   = [p \in Pages |-> IF p \in {} THEN who ELSE by[p]]
        /\ read' = [p \in Pages |-> IF p \in {} THEN read[p] ELSE read[p]]
    BY DEF IInv, TypeOK
  <1> QED BY <1>1, Makes

LEMMA StutterStep ==
  ASSUME UNCHANGED <<Tier, todo, by, read>>
  PROVE  UNCHANGED Escalated!vars
  BY DEF Escalated!vars

LEMMA NativeStep ==
  ASSUME IInv, pc = "native", NEW res \in Results, TakeNative(res)
  PROVE  Escalated!Native
  <1> DEFINE got == {p \in Pages : res[p] # Nothing}
  <1>1. /\ by' = [p \in Pages |-> IF p \in got THEN "native" ELSE by[p]]
        /\ read' = [p \in Pages |-> IF p \in got THEN res[p] ELSE read[p]]
    BY DEF TakeNative
  <1>2. \A p \in got : res[p] \in Reads
    BY DEF Results
  <1>3. Escalated!Make(got, "native", Reads)
    BY <1>1, <1>2, Makes
  <1>4. todo' \in SUBSET Pages /\ Tier' = IF todo' = {} THEN "assembly" ELSE "ocr"
    BY DEF TakeNative, Consult, Tier, IInv, TypeOK
  <1>5. Tier = "native"
    BY DEF Tier
  <1> HIDE DEF got
  <1>6. got \in SUBSET Pages
    BY DEF got
  <1> QED BY <1>3, <1>4, <1>5, <1>6 DEF Escalated!Native

LEMMA OCRStep ==
  ASSUME IInv, pc = "ocr", NEW res \in Results, TakeOCR(res),
         \A p \in Pages \ todo : res[p] = Nothing
  PROVE  Escalated!OCR
  <1> DEFINE got == {p \in Pages : res[p] # Nothing}
  <1>1. /\ by' = [p \in Pages |-> IF p \in got THEN "ocr" ELSE by[p]]
        /\ read' = [p \in Pages |-> IF p \in got THEN res[p] ELSE read[p]]
    BY DEF TakeOCR
  <1>2. \A p \in got : res[p] \in Reads
    BY DEF Results
  <1>3. Escalated!Make(got, "ocr", Reads)
    BY <1>1, <1>2, Makes
  <1>4. todo' = todo /\ Tier' = "vision" /\ Tier = "ocr" /\ got \in SUBSET todo
    BY DEF TakeOCR, Consult, Tier
  <1> QED BY <1>3, <1>4 DEF Escalated!OCR

LEMMA HoldStep ==
  ASSUME IInv, pc = "ocr", NEW reason, Hold(reason)
  PROVE  Escalated!OCR
  <1> DEFINE holes == {p \in todo : by[p] = "none"}
             blanks == [p \in Pages |-> Blank]
  <1>1. holes = todo \cap Escalated!MadeBy({"none"}) /\ holes \in SUBSET Pages
    BY DEF Escalated!MadeBy, IInv, TypeOK
  <1>2. /\ by' = [p \in Pages |-> IF p \in holes THEN "nobody" ELSE by[p]]
        /\ read' = [p \in Pages |-> IF p \in holes THEN blanks[p] ELSE read[p]]
    BY DEF Hold
  <1>3. \A p \in holes : blanks[p] \in {Blank}
    BY <1>1
  <1>4. todo' = todo /\ Tier' = "vision" /\ Tier = "ocr"
    BY DEF Hold, Consult, Tier
  <1> HIDE DEF holes, blanks
  <1>5. Escalated!Make(holes, "nobody", {Blank})
    BY <1>1, <1>2, <1>3, Makes
  <1> QED BY <1>1, <1>4, <1>5 DEF Escalated!OCR

LEMMA SameCardinality == \A S : Escalated!Cardinality(S) = Cardinality(S)
  BY DEF Cardinality, Escalated!Cardinality

LEMMA VisionNothing ==
  ASSUME IInv, Tier = "vision", Tier' = "assembly", UNCHANGED <<todo, by, read>>
  PROVE  Escalated!Vision
  <1>1. Cardinality({}) <= VisionMaxPages
    BY FS_EmptySet, RouterAssumption
  <1>2. Escalated!Make({}, "vision", Reads \ {Blank})
    BY MakesNothing
  <1>3. {} \in SUBSET (todo \ Escalated!MadeBy({"none"}))
    OBVIOUS
  <1>4. Escalated!Cardinality({}) <= VisionMaxPages
    BY <1>1, SameCardinality
  <1> QED BY <1>2, <1>3, <1>4 DEF Escalated!Vision

LEMMA ReplaceStep ==
  ASSUME IInv, Routed, pc \in {"probe", "vision"}, todo' = todo,
         NEW answers \in Results, NEW which, NEW probe, Replace(answers, which, probe),
         NEW targets \in SUBSET Ranked(ranked), which = {} \/ which = Kept(ranked, targets)
  PROVE  Escalated!Vision
  <1> DEFINE good == {p \in which : Readable(answers[p])}
  <1>1. ranked \in Ranks
    BY DEF IInv, TypeOK, Ranks
  <1>2. which \subseteq targets
    BY <1>1, KeptIs
  <1>3. good \in SUBSET Pages /\ good \in SUBSET (todo \ Escalated!MadeBy({"none"}))
    BY <1>2 DEF Routed, Escalated!MadeBy, Ranked
  <1>4. Cardinality(good) <= VisionMaxPages
    <2>1. IsFiniteSet(which) /\ Cardinality(which) <= VisionMaxPages
      <3>1. CASE which = {}
        BY <3>1, FS_EmptySet, RouterAssumption
      <3>2. CASE which = Kept(ranked, targets)
        BY <1>1, <3>2, KeptFew
      <3> QED BY <3>1, <3>2
    <2>2. good \in SUBSET which
      OBVIOUS
    <2> HIDE DEF good
    <2>3. IsFiniteSet(good) /\ Cardinality(good) <= Cardinality(which)
      BY <2>1, <2>2, FS_Subset
    <2>4. Cardinality(good) \in Nat /\ Cardinality(which) \in Nat
      BY <2>1, <2>3, FS_CardinalityType
    <2> QED BY <2>1, <2>3, <2>4, RouterAssumption
  <1>5. /\ by' = [p \in Pages |-> IF p \in good THEN "vision" ELSE by[p]]
        /\ read' = [p \in Pages |-> IF p \in good THEN answers[p] ELSE read[p]]
        /\ pc' = "assemble"
    BY DEF Replace
  <1>6. \A p \in good : answers[p] \in Reads \ {Blank}
    BY <1>3 DEF Results, Readable
  <1> HIDE DEF good
  <1>7. Escalated!Make(good, "vision", Reads \ {Blank})
    BY <1>3, <1>5, <1>6, Makes
  <1>8. Tier = "vision" /\ Tier' = "assembly"
    BY <1>5 DEF Tier
  <1>9. Escalated!Cardinality(good) <= VisionMaxPages
    BY <1>4, SameCardinality
  <1> QED BY <1>3, <1>7, <1>8, <1>9 DEF Escalated!Vision

LEMMA EscalateStep ==
  ASSUME IInv, Routed, pc = "probe", NEW targets \in SUBSET Ranked(ranked),
         NEW probe, NEW seen \in Reads \cup {Nothing},
         Escalate(ranked, targets, probe, seen), UNCHANGED <<todo, ranked>>
  PROVE  Escalated!Vision \/ UNCHANGED Escalated!vars
  <1>1. CASE UNCHANGED result /\ pc' = "assemble"
    <2>1. Tier = "vision" /\ Tier' = "assembly"
      BY <1>1 DEF Tier
    <2> QED BY <1>1, <2>1, VisionNothing DEF result
  <1>2. CASE UNCHANGED result /\ pc' = "vision"
    <2>1. Tier' = Tier
      BY <1>2 DEF Tier
    <2> QED BY <1>2, <2>1, StutterStep DEF result
  <1>3. CASE Replace(Proof(probe, seen), Kept(ranked, targets), probe)
    <2>1. Proof(probe, seen) \in Results
      BY DEF Proof, Results
    <2> QED BY <1>3, <2>1, ReplaceStep
  <1> QED BY <1>1, <1>2, <1>3 DEF Escalate, Consult

LEMMA ProbeStep ==
  ASSUME IInv, Routed, pc = "probe", NEW res \in Results, TakeProbe(res)
  PROVE  Escalated!Vision \/ UNCHANGED Escalated!vars
  <1>1. Worst(ranked) \in Pages /\ Below(ranked) \in SUBSET Ranked(ranked)
    BY WorstIs DEF IInv, TypeOK, Ranks, Request, Below
  <1>2. /\ \/ Escalate(ranked, Below(ranked), Nothing, Nothing)
           \/ Escalate(ranked, Below(ranked), Worst(ranked), Nothing)
           \/ Escalate(ranked, Ranked(ranked), Worst(ranked), res[Worst(ranked)])
        /\ UNCHANGED <<todo, ranked>>
    BY DEF TakeProbe
  <1>3. res[Worst(ranked)] \in Reads \cup {Nothing}
    BY <1>1 DEF Results
  <1> QED BY <1>1, <1>2, <1>3, EscalateStep

LEMMA VisionStep ==
  ASSUME IInv, Routed, pc = "vision", NEW res \in Results, TakeVision(res)
  PROVE  Escalated!Vision
  <1> DEFINE answers == [p \in Pages |-> IF p = probed /\ proof # Nothing THEN proof ELSE res[p]]
  <1>1. answers \in Results
    BY DEF Results, IInv, TypeOK
  <1>2. Replace(answers, chosen, probed) /\ todo' = todo
    BY DEF TakeVision
  <1> HIDE DEF answers
  <1>3. PICK targets \in SUBSET Ranked(ranked) : chosen = {} \/ chosen = Kept(ranked, targets)
    BY DEF IInv, Choice, Below
  <1> QED BY <1>1, <1>2, <1>3, ReplaceStep

LEMMA TakeStep ==
  ASSUME IInv, Routed, NEW res \in Results, Take(res),
         pc = "ocr" => \A p \in Pages \ todo : res[p] = Nothing
  PROVE  [Escalated!Next]_Escalated!vars
  BY NativeStep, OCRStep, ProbeStep, VisionStep DEF Take, Escalated!Next

LEMMA EscalationInit == Init => Escalated!Init
  BY DEF Init, Escalated!Init, Tier, NoPages

LEMMA EscalationStep == IInv /\ Routed /\ [Next]_vars => [Escalated!Next]_Escalated!vars
  <1> SUFFICES ASSUME IInv, Routed, [Next]_vars PROVE [Escalated!Next]_Escalated!vars
    OBVIOUS
  <1> USE DEF Escalated!Next
  <1>1. ASSUME Inspect PROVE [Escalated!Next]_Escalated!vars
    <2>1. UNCHANGED <<by, read>> /\ todo' \in SUBSET Pages /\ Tier = "native"
      BY <1>1 DEF Inspect, result, Tier, IInv, TypeOK
    <2>2. CASE pc' = "native"
      <3>1. Tier' = Tier /\ todo' = todo
        BY <1>1, <2>2 DEF Inspect, Consult, Tier
      <3> QED BY <2>1, <3>1, StutterStep
    <2>3. CASE pc' = "ocr"
      <3>1. Tier' = "ocr" /\ todo' # {}
        BY <1>1, <2>3, RoutedStep DEF Tier, Routed, Next
      <3>2. Escalated!Make({}, "native", Reads)
        BY <2>1, MakesNothing
      <3> QED BY <2>1, <3>1, <3>2 DEF Escalated!Native
    <2> QED BY <1>1, <2>2, <2>3 DEF Inspect, Consult
  <1>2. ASSUME InspectFails PROVE [Escalated!Next]_Escalated!vars
    BY <1>2 DEF InspectFails, Tier, result, Escalated!Abort
  <1>3. ASSUME FromCache PROVE [Escalated!Next]_Escalated!vars
    <2>1. pc \in Consults /\ Take(Cached)
      BY <1>3 DEF FromCache, Consulting
    <2>2. Cached \in Results
      BY <2>1, CachedIs
    <2>3. pc = "ocr" => \A p \in Pages \ todo : Cached[p] = Nothing
      BY DEF Cached, IInv, Request
    <2> QED BY <2>1, <2>2, <2>3, TakeStep
  <1>4. ASSUME Ask PROVE [Escalated!Next]_Escalated!vars
    <2>1. UNCHANGED <<Tier, todo, by, read>>
      BY <1>4 DEF Ask, Tier, result
    <2> QED BY <2>1, StutterStep
  <1>5. ASSUME Answer PROVE [Escalated!Next]_Escalated!vars
    <2>1. PICK answer \in Results : /\ \A p \in Pages \ Asked : answer[p] = Nothing
                                    /\ Take(Together(answer))
      BY <1>5 DEF Answer, Results
    <2>2. Together(answer) \in Results
      BY DEF Together, Results, IInv, TypeOK
    <2>3. pc = "ocr" => \A p \in Pages \ todo : Together(answer)[p] = Nothing
      <3> SUFFICES ASSUME pc = "ocr", NEW p \in Pages \ todo PROVE Together(answer)[p] = Nothing
        OBVIOUS
      <3>1. wanted = todo /\ wanted # {} /\ held[p] = Nothing /\ p \notin wanted
        BY <1>5 DEF IInv, Request, Routed, Answer
      <3>2. p \notin Asked
        BY <3>1 DEF Asked
      <3> QED BY <3>1, <3>2 DEF Together
    <2> QED BY <2>1, <2>2, <2>3, TakeStep
  <1>6. ASSUME Fails PROVE [Escalated!Next]_Escalated!vars
    <2>1. CASE pc = "native"
      BY <1>6, <2>1 DEF Fails, Tier, result, Escalated!Abort
    <2>2. CASE pc = "ocr"
      BY <1>6, <2>2, HoldStep DEF Fails
    <2>3. CASE pc = "probe"
      BY <1>6, <2>3, ProbeStep, NoPagesIs DEF Fails
    <2>4. CASE pc = "vision"
      BY <1>6, <2>4, VisionStep, NoPagesIs DEF Fails
    <2> QED BY <1>6, <2>1, <2>2, <2>3, <2>4 DEF Fails
  <1>7. ASSUME NoOCREngine PROVE [Escalated!Next]_Escalated!vars
    BY <1>7, HoldStep DEF NoOCREngine
  <1>8. ASSUME Rank PROVE [Escalated!Next]_Escalated!vars
    <2>1. UNCHANGED <<todo, by, read>> /\ Tier = "vision" /\ pc' \in {"probe", "vision", "assemble"}
      BY <1>8 DEF Rank, Tier, Consult
    <2>2. CASE pc' = "assemble"
      <3>1. Tier' = "assembly"
        BY <2>2 DEF Tier
      <3> QED BY <2>1, <3>1, VisionNothing
    <2>3. CASE pc' # "assemble"
      <3>1. Tier' = "vision"
        BY <2>1, <2>3 DEF Tier
      <3> QED BY <2>1, <3>1, StutterStep
    <2> QED BY <2>2, <2>3
  <1>9. ASSUME NoVision PROVE [Escalated!Next]_Escalated!vars
    <2>1. UNCHANGED <<todo, by, read>> /\ Tier = "vision" /\ Tier' = "assembly"
      BY <1>9 DEF NoVision, Tier, Consult, result
    <2> QED BY <2>1, VisionNothing
  <1>10. ASSUME Assemble PROVE [Escalated!Next]_Escalated!vars
    <2> DEFINE gaps == {p \in Pages : by[p] = "none"}
               blanks == [p \in Pages |-> Blank]
    <2>1. todo' = todo /\ Tier = "assembly" /\ Tier' = "over"
      BY <1>10 DEF Assemble, Tier
    <2>2. gaps = Escalated!MadeBy({"none"}) /\ gaps \in SUBSET Pages
      BY DEF Escalated!MadeBy
    <2>3. CASE UNCHANGED result
      <3>1. Escalated!Make({}, "nobody", {Blank})
        BY <2>3, MakesNothing DEF result
      <3> QED BY <2>1, <3>1 DEF Escalated!Assembly
    <2>4. CASE ~UNCHANGED result
      <3>1. /\ by' = [p \in Pages |-> IF p \in gaps THEN "nobody" ELSE by[p]]
            /\ read' = [p \in Pages |-> IF p \in gaps THEN blanks[p] ELSE read[p]]
        BY <1>10, <2>4 DEF Assemble
      <3>2. \A p \in gaps : blanks[p] \in {Blank}
        OBVIOUS
      <3> HIDE DEF gaps, blanks
      <3>3. Escalated!Make(gaps, "nobody", {Blank})
        BY <2>2, <3>1, <3>2, Makes
      <3> QED BY <2>1, <2>2, <3>3 DEF Escalated!Assembly
    <2> QED BY <2>3, <2>4
  <1>11. ASSUME CacheCleared \/ UNCHANGED vars PROVE [Escalated!Next]_Escalated!vars
    <2>1. UNCHANGED <<Tier, todo, by, read>>
      BY <1>11 DEF CacheCleared, vars, result, Tier
    <2> QED BY <2>1, StutterStep
  <1>12. ASSUME Again PROVE [Escalated!Next]_Escalated!vars
    BY <1>12 DEF Again, Tier, NoPages, Escalated!Again
  <1> QED BY <1>1, <1>2, <1>3, <1>4, <1>5, <1>6, <1>7, <1>8, <1>9, <1>10, <1>11, <1>12 DEF Next

(* The router implements Escalation, for any pages, engines and cache.      *)
THEOREM Refinement == Spec => ImplementsEscalation
  BY EscalationInit, EscalationStep, RoutedHolds, PTL
     DEF Spec, ImplementsEscalation, Escalated!Spec
=============================================================================
