----------------------------- MODULE Escalation -----------------------------
(***************************************************************************)
(* What the router promises of every page, with the engines, the cache,    *)
(* the scores, the probe and the choice of pages hidden: the tiers come    *)
(* one after another, each once, and a page goes to a later one, never     *)
(* back.                                                                   *)
(***************************************************************************)
EXTENDS Integers, FiniteSets

CONSTANTS Pages,
          Reads,          \* what an engine may make of a page
          Blank,          \* a page without blocks
          Nothing,        \* no page
          VisionMaxPages

VARIABLES tier,  \* the tier whose turn it is, "assembly", or "over"
          due,   \* the pages for the tiers after the native one
          by,    \* by[p]: who made page p; "none" yet, or "nobody"
          read   \* read[p]: what is on it

vars == <<tier, due, by, read>>

TypeOK == /\ tier \in {"native", "ocr", "vision", "assembly", "over"}
          /\ due \subseteq Pages
          /\ by \in [Pages -> {"none", "nobody", "native", "ocr", "vision"}]
          /\ read \in [Pages -> Reads \cup {Blank, Nothing}]

Init == /\ tier = "native" /\ due = {}
        /\ by = [p \in Pages |-> "none"]
        /\ read = [p \in Pages |-> Nothing]

MadeBy(makers) == {p \in Pages : by[p] \in makers}

(* The pages ps are made anew, by one of the tiers or as placeholders. *)
Make(ps, who, texts) ==
  \E new \in [ps -> texts] :
    /\ by'   = [p \in Pages |-> IF p \in ps THEN who ELSE by[p]]
    /\ read' = [p \in Pages |-> IF p \in ps THEN new[p] ELSE read[p]]

(* Any page may be read, and any may turn out to need more. *)
Native == /\ tier = "native"
          /\ \E ps \in SUBSET Pages : Make(ps, "native", Reads)
          /\ due' \in SUBSET Pages
          /\ tier' = IF due' = {} THEN "assembly" ELSE "ocr"

(* Pages that are due are read again; or those that are not there become    *)
(* placeholders, and what is there stays.                                   *)
OCR == /\ tier = "ocr"
       /\ \/ \E ps \in SUBSET due : Make(ps, "ocr", Reads)
          \/ Make(due \cap MadeBy({"none"}), "nobody", {Blank})
       /\ tier' = "vision" /\ UNCHANGED due

(* A few of the pages that are there are replaced by what can be read. *)
Vision == /\ tier = "vision"
          /\ \E ps \in SUBSET (due \ MadeBy({"none"})) :
               /\ Cardinality(ps) <= VisionMaxPages
               /\ Make(ps, "vision", Reads \ {Blank})
          /\ tier' = "assembly" /\ UNCHANGED due

(* Gaps are filled in a document whose pages are counted. *)
Assembly == /\ tier = "assembly"
            /\ \E ps \in {{}, MadeBy({"none"})} : Make(ps, "nobody", {Blank})
            /\ tier' = "over" /\ UNCHANGED due

(* A run fails before a page was made, or not at all. *)
Abort == /\ tier = "native"
         /\ tier' = "over" /\ UNCHANGED <<due, by, read>>

(* The same bytes come again, and nothing of the result is left. *)
Again == /\ tier = "over"
         /\ tier' = "native" /\ due' = {}
         /\ by' = [p \in Pages |-> "none"] /\ read' = [p \in Pages |-> Nothing]

Next == Native \/ OCR \/ Vision \/ Assembly \/ Abort \/ Again

Spec == Init /\ [][Next]_vars
=============================================================================
