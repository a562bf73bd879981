---------------------------- MODULE TextDistance ----------------------------
(***************************************************************************)
(* How far two readings of a page are apart: Disagreement, collapse and    *)
(* levenshtein in src/internal/engine/quality/disagreement.go.  The vision *)
(* probe trusts or distrusts the OCR of a whole document by it.            *)
(*                                                                         *)
(* The edit distance is computed in two rows that change places.  The      *)
(* ratio it is returned as is kept as a fraction.                          *)
(***************************************************************************)
EXTENDS Integers, Sequences, FiniteSets

CONSTANTS Readings,   \* what the two tiers may have read
          Space,      \* the character between words
          MaxCompared \* the characters of a text that are compared

ASSUME TextDistanceAssumption ==
  /\ \A t \in Readings : t \in Seq(UNION {{s[i] : i \in DOMAIN s} : s \in Readings})
  /\ MaxCompared \in Nat

VARIABLES text,   \* text[1], text[2]: the arguments
          a, b,   \* the longer and the shorter of what is compared
          prev,   \* the row that is complete: prev[j] is for j characters of b
          cur,    \* the row that is being computed
          i, j,   \* the cell that is next
          at,     \* "normalize", "cells" or "done"
          result  \* the disagreement, a numerator and a denominator

distanceVars == <<text, a, b, prev, cur, i, j, at, result>>

DistanceInit == /\ text \in [{1, 2} -> Readings]
                /\ a = <<>> /\ b = <<>> /\ prev = <<>> /\ cur = <<>>
                /\ i = 0 /\ j = 0
                /\ at = "normalize" /\ result = <<0, 1>>

-----------------------------------------------------------------------------
(* A space stays where it separates two words, one of each run.             *)
Stays(t) == {k \in DOMAIN t :
               \/ t[k] # Space
               \/ /\ k < Len(t) /\ t[k + 1] # Space
                  /\ \E l \in 1..k : t[l] # Space}

(* The k-th position of those that stay. *)
Position(t, k) ==
  CHOOSE p \in Stays(t) : Cardinality({q \in Stays(t) : q <= p}) = k

(* collapse *)
Collapse(t) == [k \in 1..Cardinality(Stays(t)) |-> t[Position(t, k)]]

Least(x, y) == IF x <= y THEN x ELSE y

(* What is compared of a text. *)
Compared(t) == [k \in 1..Least(Cardinality(Stays(t)), MaxCompared) |-> Collapse(t)[k]]

First  == Compared(text[1])
Second == Compared(text[2])

(* Disagreement up to its call of levenshtein, and the first row there. *)
Normalize ==
  /\ at = "normalize"
  /\ IF First = <<>> \/ Second = <<>>
     THEN /\ result' = <<IF First = Second THEN 0 ELSE 1, 1>>
          /\ at' = "done"
          /\ UNCHANGED <<a, b, prev, cur, i, j>>
     ELSE LET swap == Len(First) < Len(Second) IN
          /\ a' = IF swap THEN Second ELSE First
          /\ b' = IF swap THEN First ELSE Second
          /\ prev' = [k \in 0..Len(b') |-> k]
          /\ cur' = [k \in 0..Len(b') |-> IF k = 0 THEN 1 ELSE 0]
          /\ i' = 1 /\ j' = 1
          /\ at' = "cells"
          /\ UNCHANGED result
  /\ UNCHANGED text

(* MUTANT of Cost: the characters a cell is about are taken for those of the *)
(* next one.                                                                 *)
CostAhead == IF i < Len(a) /\ j < Len(b) /\ a[i + 1] = b[j + 1] THEN 0 ELSE 1

Cost == IF a[i] = b[j] THEN 0 ELSE 1

Cell == /\ at = "cells" /\ j <= Len(b)
        /\ cur' = [cur EXCEPT ![j] =
                     Least(prev[j] + 1, Least(cur[j - 1] + 1, prev[j - 1] + Cost))]
        /\ j' = j + 1
        /\ UNCHANGED <<text, a, b, prev, i, at, result>>

(* MUTANT of NextRow: the new row starts as the one before the last did. *)
NextRowStale == /\ at = "cells" /\ j > Len(b) /\ i < Len(a)
                /\ prev' = cur /\ cur' = prev
                /\ i' = i + 1 /\ j' = 1
                /\ UNCHANGED <<text, a, b, at, result>>

(* The rows change places, and the new one starts with its number. *)
NextRow == /\ at = "cells" /\ j > Len(b) /\ i < Len(a)
           /\ prev' = cur /\ cur' = [prev EXCEPT ![0] = i + 1]
           /\ i' = i + 1 /\ j' = 1
           /\ UNCHANGED <<text, a, b, at, result>>

(* a is the longer one; the last row has changed places as well. *)
Finish == /\ at = "cells" /\ j > Len(b) /\ i = Len(a)
          /\ prev' = cur /\ cur' = prev
          /\ result' = <<cur[Len(b)], Len(a)>>
          /\ at' = "done"
          /\ UNCHANGED <<text, a, b, i, j>>

DistanceNext == Normalize \/ Cell \/ NextRow \/ Finish

DistanceSpec == DistanceInit /\ [][DistanceNext]_distanceVars

-----------------------------------------------------------------------------
(* Every way to match characters of s with characters of t in their order.  *)
Alignments(s, t) ==
  {m \in SUBSET ((DOMAIN s) \X (DOMAIN t)) :
     \A p, q \in m : p # q => \/ p[1] < q[1] /\ p[2] < q[2]
                              \/ p[1] > q[1] /\ p[2] > q[2]}

(* The edits that a match leaves: one for each character that is matched    *)
(* with another one, and one for each that is not matched.                  *)
Effort(s, t, m) == Len(s) + Len(t) - 2 * Cardinality(m)
                   + Cardinality({p \in m : s[p[1]] # t[p[2]]})

(* The fewest edits that make s of t. *)
Edits(s, t) == CHOOSE n \in 0..(Len(s) + Len(t)) :
                 /\ \E m \in Alignments(s, t) : Effort(s, t, m) = n
                 /\ \A m \in Alignments(s, t) : Effort(s, t, m) >= n

(* The two rows, the swap and the early returns come to the fewest edits    *)
(* between the two texts over the length of the longer one, whichever of    *)
(* the two is named first (Disagreement, levenshtein 39-65, 82-102).        *)
DistanceIsEdits ==
  at = "done" =>
    result[1] * Len(IF Len(First) < Len(Second) THEN Second ELSE First)
      = Edits(First, Second) * result[2]

(* Of what is compared, the texts as collapsed and cut off at the cap, the  *)
(* measure says 0 when they are the same and only then: runs of spaces make *)
(* no difference, and a word that lost its space does.  It never exceeds 1, *)
(* so that nothing is left for clamp01 to cut off.  Texts that differ       *)
(* beyond the cap measure 0 as well (31-34, 48-54, 64;                      *)
(* disagreement_test.go 111-119, and "a merged word should register").      *)
AgreementIsExact ==
  at = "done" => /\ result[1] = 0 <=> First = Second
                 /\ result[1] \in 0..result[2]
=============================================================================
