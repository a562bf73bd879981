------------------------- MODULE TextDistance_proofs -------------------------
(***************************************************************************)
(* Proofs about TextDistance, for texts of any length and any cap.  The    *)
(* invariant says what every cell knows about the two beginnings it stands *)
(* for: first whether they are the same, and how many edits are enough     *)
(* (Inv); then that it is the fewest edits between them (EditsInv), by     *)
(* what the last two characters of a match can be.                         *)
(***************************************************************************)
EXTENDS TextDistance, FiniteSetTheorems, FunctionTheorems, TLAPS

(* What is compared of a text is a sequence. *)
LEMMA ComparedIsSequence ==
  ASSUME NEW t \in Readings
  PROVE  /\ Len(Compared(t)) \in Nat
         /\ DOMAIN Compared(t) = 1..Len(Compared(t))
         /\ Compared(t) = <<>> <=> Len(Compared(t)) = 0
         /\ Compared(t) = [k \in 1..Len(Compared(t)) |-> Compared(t)[k]]
  <1> DEFINE N == Least(Cardinality(Stays(t)), MaxCompared)
             C == {Compared(t)[k] : k \in 1..N}
  <1>1. PICK S : t \in Seq(S)
    BY TextDistanceAssumption
  <1>2. Len(t) \in Nat /\ DOMAIN t = 1..Len(t)
    BY <1>1
  <1>3. IsFiniteSet(1..Len(t))
    BY <1>2, FS_Interval
  <1>4. Stays(t) \subseteq 1..Len(t)
    BY <1>2 DEF Stays
  <1>5. IsFiniteSet(Stays(t))
    BY <1>3, <1>4, FS_Subset
  <1>6. Cardinality(Stays(t)) \in Nat
    BY <1>5, FS_CardinalityType
  <1>7. N \in Nat
    BY <1>6, TextDistanceAssumption DEF Least
  <1>8. Compared(t) = [k \in 1..N |-> Collapse(t)[k]]
    BY DEF Compared
  <1> HIDE DEF N
  <1>9. Compared(t) \in [1..N -> C]
    BY <1>8
  <1> HIDE DEF C
  <1>10. Compared(t) \in Seq(C)
    BY <1>7, <1>9
  <1>11. Len(Compared(t)) = N
    BY <1>7, <1>9, <1>10
  <1> QED BY <1>7, <1>9, <1>10, <1>11

-----------------------------------------------------------------------------
(* The cell for x characters of a and y of b: its value is 0 exactly when   *)
(* they are the same, and never more than the longer of the two.            *)
Knows(x, y, v) ==
  /\ v <= x \/ v <= y
  /\ v = 0 <=> x = y /\ \A l \in 1..x : a[l] = b[l]

(* The texts that are compared, in the order the rows need. *)
Sides ==
  /\ \/ a = First /\ b = Second
     \/ a = Second /\ b = First
  /\ Len(a) \in Nat /\ Len(b) \in Nat
  /\ 1 <= Len(b) /\ Len(b) <= Len(a)
  /\ a = [l \in 1..Len(a) |-> a[l]]
  /\ b = [l \in 1..Len(b) |-> b[l]]

Rows ==
  /\ i \in 1..Len(a) /\ j \in 1..(Len(b) + 1)
  /\ prev \in [0..Len(b) -> Nat] /\ cur \in [0..Len(b) -> Nat]
  /\ \A y \in 0..Len(b) : Knows(i - 1, y, prev[y])
  /\ \A y \in 0..(j - 1) : Knows(i, y, cur[y])

Inv == /\ text \in [{1, 2} -> Readings]
       /\ at \in {"normalize", "cells", "done"}
       /\ at = "cells" => Sides /\ Rows
       /\ AgreementIsExact

(* While the arguments stay, so does what is compared of them. *)
LEMMA SameText ==
  ASSUME UNCHANGED text
  PROVE  First' = First /\ Second' = Second
  BY DEF First, Second, Compared, Collapse, Stays, Position

LEMMA InitInv == DistanceInit => Inv
  BY DEF DistanceInit, Inv, AgreementIsExact

(* Either the texts are taken up, the longer one first, or one is empty. *)
LEMMA NormalizeInv == Inv /\ Normalize => Inv'
  <1> SUFFICES ASSUME Inv, Normalize PROVE Inv'
    OBVIOUS
  <1>1. text[1] \in Readings /\ text[2] \in Readings /\ text' = text
    BY DEF Inv, Normalize
  <1>2. /\ Len(First) \in Nat /\ Len(Second) \in Nat
        /\ First = <<>> <=> Len(First) = 0
        /\ Second = <<>> <=> Len(Second) = 0
        /\ First = [l \in 1..Len(First) |-> First[l]]
        /\ Second = [l \in 1..Len(Second) |-> Second[l]]
    BY <1>1, ComparedIsSequence DEF First, Second
  <1>3. First' = First /\ Second' = Second
    BY <1>1, SameText
  <1>4. CASE First = <<>> \/ Second = <<>>
    <2>1. /\ at' = "done" /\ result' = <<IF First = Second THEN 0 ELSE 1, 1>>
      BY <1>4 DEF Normalize
    <2>2. AgreementIsExact'
      BY <2>1, <1>3 DEF AgreementIsExact
    <2> QED BY <2>1, <2>2, <1>1 DEF Inv
  <1>5. CASE ~(First = <<>> \/ Second = <<>>)
    <2>1. /\ a' = IF Len(First) < Len(Second) THEN Second ELSE First
          /\ b' = IF Len(First) < Len(Second) THEN First ELSE Second
          /\ prev' = [l \in 0..Len(b') |-> l]
          /\ cur' = [l \in 0..Len(b') |-> IF l = 0 THEN 1 ELSE 0]
          /\ i' = 1 /\ j' = 1 /\ at' = "cells"
      BY <1>5 DEF Normalize
    <2>2. Sides'
      <3>1. CASE Len(First) < Len(Second)
        BY <3>1, <2>1, <1>2, <1>3, <1>5 DEF Sides
      <3>2. CASE ~(Len(First) < Len(Second))
        BY <3>2, <2>1, <1>2, <1>3, <1>5 DEF Sides
      <3> QED BY <3>1, <3>2
    <2>3. Rows'
      <3>1. Len(b') \in Nat /\ Len(a') \in Nat /\ 1 <= Len(b') /\ Len(b') <= Len(a')
        BY <2>2 DEF Sides
      <3>2. \A y \in 0..Len(b') : prev'[y] = y
        BY <2>1
      <3>3. \A y \in 0..Len(b') : Knows(0, y, prev[y])'
        BY <3>1, <3>2 DEF Knows
      <3>4. cur'[0] = 1
        BY <2>1, <3>1
      <3>5. Knows(1, 0, cur[0])'
        BY <3>4 DEF Knows
      <3>6. i' \in 1..Len(a') /\ j' \in 1..(Len(b') + 1) /\ i' - 1 = 0 /\ j' - 1 = 0
        BY <2>1, <3>1
      <3>7. prev' \in [0..Len(b') -> Nat] /\ cur' \in [0..Len(b') -> Nat]
        BY <2>1, <3>1
      <3>8. \A y \in 0..(j' - 1) : Knows(i, y, cur[y])'
        <4>1. 0..(j' - 1) = {0}
          BY <3>6
        <4> QED BY <4>1, <3>5, <2>1
      <3>9. \A y \in 0..Len(b') : Knows(i - 1, y, prev[y])'
        BY <3>3, <3>6 DEF Knows
      <3> QED BY <3>6, <3>7, <3>8, <3>9 DEF Rows
    <2>4. AgreementIsExact'
      BY <2>1 DEF AgreementIsExact
    <2> QED BY <2>1, <2>2, <2>3, <2>4, <1>1 DEF Inv
  <1> QED BY <1>4, <1>5

(* A cell knows what the three around it and its own two characters say. *)
LEMMA CellInv == Inv /\ Cell => Inv'
  <1> SUFFICES ASSUME Inv, Cell PROVE Inv'
    OBVIOUS
  <1> DEFINE v == Least(prev[j] + 1, Least(cur[j - 1] + 1, prev[j - 1] + Cost))
  <1>1. Sides /\ Rows /\ at = "cells" /\ j <= Len(b)
    BY DEF Inv, Cell
  <1>2. /\ cur' = [cur EXCEPT ![j] = v] /\ j' = j + 1
        /\ UNCHANGED <<text, a, b, prev, i, at, result>>
    BY DEF Cell
  <1>3. /\ i \in Nat /\ j \in Nat /\ 1 <= i /\ i <= Len(a) /\ 1 <= j /\ j <= Len(b)
        /\ Len(a) \in Nat /\ Len(b) \in Nat
    BY <1>1 DEF Sides, Rows
  <1>4. /\ prev[j] \in Nat /\ cur[j - 1] \in Nat /\ prev[j - 1] \in Nat
        /\ Knows(i - 1, j, prev[j]) /\ Knows(i, j - 1, cur[j - 1])
        /\ Knows(i - 1, j - 1, prev[j - 1])
    BY <1>1, <1>3 DEF Rows
  <1>5. Cost \in {0, 1} /\ (Cost = 0 <=> a[i] = b[j])
    BY DEF Cost
  <1>6. v \in Nat /\ v <= prev[j - 1] + 1 /\ (v = 0 <=> prev[j - 1] = 0 /\ a[i] = b[j])
    BY <1>4, <1>5 DEF Least
  <1> HIDE DEF v
  <1>7. Knows(i, j, v)
    <2>1. v <= i \/ v <= j
      BY <1>3, <1>4, <1>6 DEF Knows
    <2>2. prev[j - 1] = 0 <=> i = j /\ \A l \in 1..(i - 1) : a[l] = b[l]
      BY <1>3, <1>4 DEF Knows
    <2>3. ASSUME i = j
          PROVE  (\A l \in 1..i : a[l] = b[l])
                   <=> (\A l \in 1..(i - 1) : a[l] = b[l]) /\ a[i] = b[j]
      BY <2>3, <1>3
    <2>4. v = 0 <=> i = j /\ \A l \in 1..i : a[l] = b[l]
      BY <2>2, <2>3, <1>6
    <2> QED BY <2>1, <2>4 DEF Knows
  <1>8. cur' \in [0..Len(b) -> Nat] /\ cur'[j] = v
        /\ \A y \in 0..(j - 1) : cur'[y] = cur[y]
    BY <1>1, <1>2, <1>3, <1>6 DEF Rows
  <1>9. \A y \in 0..j : Knows(i, y, cur'[y])
    <2> SUFFICES ASSUME NEW y \in 0..j PROVE Knows(i, y, cur'[y])
      OBVIOUS
    <2>1. CASE y = j
      BY <2>1, <1>7, <1>8
    <2>2. CASE y # j
      <3>1. y \in 0..(j - 1)
        BY <2>2, <1>3
      <3>2. cur'[y] = cur[y] /\ Knows(i, y, cur[y])
        BY <3>1, <1>8, <1>1 DEF Rows
      <3> QED BY <3>2
    <2> QED BY <2>1, <2>2
  <1>10. j' \in 1..(Len(b) + 1) /\ j' - 1 = j
    BY <1>2, <1>3
  <1>11. Rows'
    BY <1>1, <1>2, <1>8, <1>9, <1>10 DEF Rows, Knows
  <1>12. Sides'
    BY <1>1, <1>2, SameText DEF Sides
  <1>13. AgreementIsExact'
    BY <1>1, <1>2 DEF AgreementIsExact
  <1> QED BY <1>2, <1>11, <1>12, <1>13 DEF Inv

(* The row is complete: it becomes the one before. *)
LEMMA NextRowInv == Inv /\ NextRow => Inv'
  <1> SUFFICES ASSUME Inv, NextRow PROVE Inv'
    OBVIOUS
  <1>1. Sides /\ Rows /\ at = "cells" /\ j > Len(b) /\ i < Len(a)
    BY DEF Inv, NextRow
  <1>2. /\ prev' = cur /\ cur' = [prev EXCEPT ![0] = i + 1]
        /\ i' = i + 1 /\ j' = 1 /\ UNCHANGED <<text, a, b, at, result>>
    BY DEF NextRow
  <1>3. i \in Nat /\ 1 <= i /\ Len(a) \in Nat /\ Len(b) \in Nat /\ 1 <= Len(b)
        /\ j - 1 = Len(b)
    BY <1>1 DEF Sides, Rows
  <1>4. \A y \in 0..Len(b) : Knows(i, y, cur[y])
    BY <1>1, <1>3 DEF Rows
  <1>5. cur' \in [0..Len(b) -> Nat] /\ cur'[0] = i + 1
    BY <1>1, <1>2, <1>3 DEF Rows
  <1>6. Knows(i + 1, 0, cur'[0])
    BY <1>3, <1>5 DEF Knows
  <1>7. i' \in 1..Len(a) /\ i' - 1 = i /\ j' \in 1..(Len(b) + 1) /\ 0..(j' - 1) = {0}
    BY <1>1, <1>2, <1>3
  <1>8. prev' \in [0..Len(b) -> Nat]
    BY <1>1, <1>2 DEF Rows
  <1>9. Rows'
    BY <1>2, <1>4, <1>5, <1>6, <1>7, <1>8 DEF Rows, Knows
  <1>10. Sides'
    BY <1>1, <1>2, SameText DEF Sides
  <1>11. AgreementIsExact'
    BY <1>1, <1>2 DEF AgreementIsExact
  <1> QED BY <1>2, <1>9, <1>10, <1>11 DEF Inv

(* The last cell is about the whole of both texts. *)
LEMMA ReturnInv == Inv /\ Finish => Inv'
  <1> SUFFICES ASSUME Inv, Finish PROVE Inv'
    OBVIOUS
  <1>1. Sides /\ Rows /\ at = "cells" /\ j > Len(b) /\ i = Len(a)
    BY DEF Inv, Finish
  <1>2. result' = <<cur[Len(b)], Len(a)>> /\ at' = "done" /\ UNCHANGED <<text, a, b>>
    BY DEF Finish
  <1>3. Len(a) \in Nat /\ Len(b) \in Nat /\ Len(b) <= Len(a) /\ j - 1 = Len(b)
    BY <1>1 DEF Sides, Rows
  <1>4. cur[Len(b)] \in Nat /\ Knows(Len(a), Len(b), cur[Len(b)])
    BY <1>1, <1>3 DEF Rows
  <1>5. cur[Len(b)] <= Len(a)
    BY <1>3, <1>4 DEF Knows
  <1>6. cur[Len(b)] = 0 <=> a = b
    <2>1. ASSUME Len(a) = Len(b), \A l \in 1..Len(a) : a[l] = b[l]
          PROVE  a = b
      BY <2>1, <1>1 DEF Sides
    <2>2. a = b => Len(a) = Len(b) /\ \A l \in 1..Len(a) : a[l] = b[l]
      OBVIOUS
    <2> QED BY <2>1, <2>2, <1>4 DEF Knows
  <1>7. First' = First /\ Second' = Second
    BY <1>2, SameText
  <1>8. a = b <=> First = Second
    BY <1>1 DEF Sides
  <1>9. AgreementIsExact'
    BY <1>2, <1>3, <1>4, <1>5, <1>6, <1>7, <1>8 DEF AgreementIsExact
  <1> QED BY <1>2, <1>9 DEF Inv

LEMMA NextInv == Inv /\ [DistanceNext]_distanceVars => Inv'
  <1> SUFFICES ASSUME Inv, [DistanceNext]_distanceVars PROVE Inv'
    OBVIOUS
  <1>1. CASE UNCHANGED distanceVars
    <2>1. First' = First /\ Second' = Second
      BY <1>1, SameText DEF distanceVars
    <2> QED BY <1>1, <2>1 DEF Inv, distanceVars, Sides, Rows, Knows, AgreementIsExact
  <1>2. CASE DistanceNext
    BY <1>2, NormalizeInv, CellInv, NextRowInv, ReturnInv DEF DistanceNext
  <1> QED BY <1>1, <1>2

(* Whatever the readings and the cap, what the probe compares with its      *)
(* threshold is 0 exactly when the beginnings that are compared, collapsed  *)
(* and cut off at the cap, are the same, and is at most 1 without the help  *)
(* of clamp01 (Disagreement 39-65).                                         *)
THEOREM DisagreementIsExact == DistanceSpec => []AgreementIsExact
  <1>1. DistanceInit => Inv
    BY InitInv
  <1>2. Inv /\ [DistanceNext]_distanceVars => Inv'
    BY NextInv
  <1>3. Inv => AgreementIsExact
    BY DEF Inv
  <1> QED BY <1>1, <1>2, <1>3, PTL DEF DistanceSpec

-----------------------------------------------------------------------------
(* The reference, for the beginnings of x and y characters of two texts.    *)
InOrder(m) == \A p, q \in m : p # q => \/ p[1] < q[1] /\ p[2] < q[2]
                                       \/ p[1] > q[1] /\ p[2] > q[2]
Matches(x, y) == {m \in SUBSET ((1..x) \X (1..y)) : InOrder(m)}
Unlike(s, t, m) == {p \in m : s[p[1]] # t[p[2]]}
Price(s, t, x, y, m) == x + y - 2 * Cardinality(m) + Cardinality(Unlike(s, t, m))

Fewest(s, t, x, y, v) ==
  /\ \E m \in Matches(x, y) : Price(s, t, x, y, m) = v
  /\ \A m \in Matches(x, y) : Price(s, t, x, y, m) >= v

LEMMA MatchesFinite ==
  ASSUME NEW x \in Nat, NEW y \in Nat, NEW m \in Matches(x, y), NEW s, NEW t
  PROVE  /\ IsFiniteSet(m) /\ Cardinality(m) \in Nat
         /\ IsFiniteSet(Unlike(s, t, m)) /\ Cardinality(Unlike(s, t, m)) \in Nat
         /\ Price(s, t, x, y, m) \in Int
  <1>1. IsFiniteSet(1..x) /\ IsFiniteSet(1..y)
    BY FS_Interval
  <1>2. IsFiniteSet((1..x) \X (1..y))
    BY <1>1, FS_Product
  <1>3. m \in SUBSET ((1..x) \X (1..y))
    BY DEF Matches
  <1>4. IsFiniteSet(m)
    BY <1>2, <1>3, FS_Subset
  <1>5. Unlike(s, t, m) \in SUBSET m
    BY DEF Unlike
  <1>6. IsFiniteSet(Unlike(s, t, m))
    BY <1>4, <1>5, FS_Subset
  <1>7. Cardinality(m) \in Nat /\ Cardinality(Unlike(s, t, m)) \in Nat
    BY <1>4, <1>6, FS_CardinalityType
  <1> DEFINE c == Cardinality(m)
             u == Cardinality(Unlike(s, t, m))
  <1>8. c \in Nat /\ u \in Nat
    BY <1>7
  <1>9. Price(s, t, x, y, m) = x + y - 2 * c + u
    BY DEF Price
  <1> HIDE DEF c, u
  <1>10. Price(s, t, x, y, m) \in Int
    BY <1>8, <1>9
  <1> QED BY <1>4, <1>6, <1>7, <1>10

(* Nothing can be matched with no character. *)
LEMMA NothingToMatch ==
  ASSUME NEW x \in Nat, NEW y \in Nat, x = 0 \/ y = 0, NEW s, NEW t
  PROVE  Fewest(s, t, x, y, x + y)
  <1>1. (1..x) \X (1..y) = {}
    <2>1. 1..x = {} \/ 1..y = {}
      OBVIOUS
    <2> QED BY <2>1
  <1>2. Matches(x, y) = {{}}
    BY <1>1 DEF Matches, InOrder
  <1>3. Unlike(s, t, {}) = {}
    BY DEF Unlike
  <1>4. Price(s, t, x, y, {}) = x + y
    BY <1>3, FS_EmptySet DEF Price
  <1> QED BY <1>2, <1>4 DEF Fewest

(* A match of all but one last character leaves that one as well. *)
LEMMA MatchFewer ==
  ASSUME NEW x \in Nat, NEW y \in Nat, NEW m \in Matches(x, y), NEW s, NEW t
  PROVE  /\ m \in Matches(x + 1, y) /\ Price(s, t, x + 1, y, m) = Price(s, t, x, y, m) + 1
         /\ m \in Matches(x, y + 1) /\ Price(s, t, x, y + 1, m) = Price(s, t, x, y, m) + 1
  <1>1. m \in Matches(x + 1, y) /\ m \in Matches(x, y + 1)
    BY DEF Matches
  <1> DEFINE c == Cardinality(m)
             u == Cardinality(Unlike(s, t, m))
  <1>2. c \in Nat /\ u \in Nat
    BY MatchesFinite
  <1>3. /\ Price(s, t, x, y, m) = x + y - 2 * c + u
        /\ Price(s, t, x + 1, y, m) = (x + 1) + y - 2 * c + u
        /\ Price(s, t, x, y + 1, m) = x + (y + 1) - 2 * c + u
    BY DEF Price
  <1> HIDE DEF c, u
  <1> QED BY <1>1, <1>2, <1>3

(* A match without the two last characters, and those two. *)
LEMMA MatchLast ==
  ASSUME NEW x \in Nat, NEW y \in Nat, NEW m \in Matches(x, y), NEW s, NEW t
  PROVE  /\ m \cup {<<x + 1, y + 1>>} \in Matches(x + 1, y + 1)
         /\ Price(s, t, x + 1, y + 1, m \cup {<<x + 1, y + 1>>})
              = Price(s, t, x, y, m) + IF s[x + 1] = t[y + 1] THEN 0 ELSE 1
  <1> DEFINE p == <<x + 1, y + 1>>
             n == m \cup {p}
             c == Cardinality(m)
             u == Cardinality(Unlike(s, t, m))
  <1>1. m \in SUBSET ((1..x) \X (1..y)) /\ InOrder(m)
    BY DEF Matches
  <1>2. \A q \in m : q[1] \in 1..x /\ q[2] \in 1..y
    BY <1>1
  <1>3. p \notin m /\ p[1] = x + 1 /\ p[2] = y + 1
    BY <1>2
  <1>4. n \in SUBSET ((1..(x + 1)) \X (1..(y + 1)))
    BY <1>1
  <1>5. InOrder(n)
    BY <1>1, <1>2, <1>3 DEF InOrder
  <1>6. n \in Matches(x + 1, y + 1)
    BY <1>4, <1>5 DEF Matches
  <1>7. /\ IsFiniteSet(m) /\ c \in Nat
        /\ IsFiniteSet(Unlike(s, t, m)) /\ u \in Nat
    BY MatchesFinite
  <1>8. Cardinality(n) = c + 1
    BY <1>3, <1>7, FS_AddElement
  <1>9. CASE s[x + 1] = t[y + 1]
    <2>1. Unlike(s, t, n) = Unlike(s, t, m)
      BY <1>9, <1>3 DEF Unlike
    <2>2. /\ Price(s, t, x + 1, y + 1, n) = (x + 1) + (y + 1) - 2 * (c + 1) + u
          /\ Price(s, t, x, y, m) = x + y - 2 * c + u
      BY <2>1, <1>8 DEF Price
    <2> HIDE DEF c, u, n, p
    <2>3. Price(s, t, x + 1, y + 1, n) = Price(s, t, x, y, m) + 0
      BY <2>2, <1>7
    <2> QED BY <2>3, <1>6, <1>9 DEF n, p
  <1>10. CASE s[x + 1] # t[y + 1]
    <2>1. Unlike(s, t, n) = Unlike(s, t, m) \cup {p} /\ p \notin Unlike(s, t, m)
      BY <1>10, <1>3 DEF Unlike
    <2>2. Cardinality(Unlike(s, t, n)) = u + 1
      BY <2>1, <1>7, FS_AddElement
    <2>3. /\ Price(s, t, x + 1, y + 1, n) = (x + 1) + (y + 1) - 2 * (c + 1) + (u + 1)
          /\ Price(s, t, x, y, m) = x + y - 2 * c + u
      BY <2>2, <1>8 DEF Price
    <2> HIDE DEF c, u, n, p
    <2>4. Price(s, t, x + 1, y + 1, n) = Price(s, t, x, y, m) + 1
      BY <2>3, <1>7
    <2> QED BY <2>4, <1>6, <1>10 DEF n, p
  <1> QED BY <1>9, <1>10

(* The two last characters are matched with each other, or one is left.     *)
LEMMA MatchSplits ==
  ASSUME NEW x \in Nat, NEW y \in Nat, NEW m \in Matches(x + 1, y + 1)
  PROVE  \/ m \in Matches(x, y + 1)
         \/ m \in Matches(x + 1, y)
         \/ \E n \in Matches(x, y) : m = n \cup {<<x + 1, y + 1>>}
  <1> DEFINE p == <<x + 1, y + 1>>
  <1>1. m \in SUBSET ((1..(x + 1)) \X (1..(y + 1))) /\ InOrder(m)
    BY DEF Matches
  <1>2. \A q \in m : /\ q[1] \in 1..(x + 1) /\ q[2] \in 1..(y + 1)
                     /\ q = <<q[1], q[2]>>
    BY <1>1
  <1>3. CASE \A q \in m : q[1] # x + 1
    <2>1. \A q \in m : q[1] \in 1..x
      BY <1>2, <1>3
    <2>2. \A q \in m : q \in (1..x) \X (1..(y + 1))
      BY <2>1, <1>2
    <2> QED BY <2>2, <1>1 DEF Matches
  <1>4. CASE \A q \in m : q[2] # y + 1
    <2>1. \A q \in m : q[2] \in 1..y
      BY <1>2, <1>4
    <2>2. \A q \in m : q \in (1..(x + 1)) \X (1..y)
      BY <2>1, <1>2
    <2> QED BY <2>2, <1>1 DEF Matches
  <1>5. ASSUME NEW q \in m, q[1] = x + 1, NEW r \in m, r[2] = y + 1
        PROVE  \E n \in Matches(x, y) : m = n \cup {p}
    <2>1. q = r
      <3>1. q[1] \in 1..(x + 1) /\ r[1] \in 1..(x + 1) /\ q[2] \in 1..(y + 1)
        BY <1>2
      <3> QED BY <3>1, <1>1, <1>5 DEF InOrder
    <2>2. p \in m
      BY <2>1, <1>2, <1>5
    <2>3. \A o \in m \ {p} : o[1] \in 1..x /\ o[2] \in 1..y
      <3> SUFFICES ASSUME NEW o \in m \ {p} PROVE o[1] \in 1..x /\ o[2] \in 1..y
        OBVIOUS
      <3>1. \/ o[1] < x + 1 /\ o[2] < y + 1
            \/ o[1] > x + 1 /\ o[2] > y + 1
        <4>1. \/ o[1] < p[1] /\ o[2] < p[2]
              \/ o[1] > p[1] /\ o[2] > p[2]
          BY <2>2, <1>1 DEF InOrder
        <4> QED BY <4>1
      <3> QED BY <3>1, <1>2
    <2>4. \A o \in m \ {p} : o \in (1..x) \X (1..y)
      BY <2>3, <1>2
    <2>5. m \ {p} \in Matches(x, y)
      BY <2>4, <1>1 DEF Matches, InOrder
    <2>6. m = (m \ {p}) \cup {p}
      BY <2>2
    <2> QED BY <2>5, <2>6
  <1> QED BY <1>3, <1>4, <1>5

(* What levenshtein computes of three cells is the fewest edits of the next. *)
LEMMA CellIsFewest ==
  ASSUME NEW x \in Nat, NEW y \in Nat, NEW s, NEW t,
         NEW up \in Int, NEW left \in Int, NEW both \in Int,
         Fewest(s, t, x, y + 1, up), Fewest(s, t, x + 1, y, left), Fewest(s, t, x, y, both),
         NEW c \in {0, 1}, c = IF s[x + 1] = t[y + 1] THEN 0 ELSE 1
  PROVE  Fewest(s, t, x + 1, y + 1, Least(up + 1, Least(left + 1, both + c)))
  <1> DEFINE v == Least(up + 1, Least(left + 1, both + c))
             p == <<x + 1, y + 1>>
  <1>1. /\ v \in Int /\ v \in {up + 1, left + 1, both + c}
        /\ v <= up + 1 /\ v <= left + 1 /\ v <= both + c
    BY DEF Least
  <1> HIDE DEF v
  <1>2. \E m \in Matches(x + 1, y + 1) : Price(s, t, x + 1, y + 1, m) = v
    <2>1. CASE v = up + 1
      <3>1. PICK m \in Matches(x, y + 1) : Price(s, t, x, y + 1, m) = up
        BY DEF Fewest
      <3> QED BY <3>1, <2>1, MatchFewer
    <2>2. CASE v = left + 1
      <3>1. PICK m \in Matches(x + 1, y) : Price(s, t, x + 1, y, m) = left
        BY DEF Fewest
      <3> QED BY <3>1, <2>2, MatchFewer
    <2>3. CASE v = both + c
      <3>1. PICK m \in Matches(x, y) : Price(s, t, x, y, m) = both
        BY DEF Fewest
      <3>2. /\ m \cup {p} \in Matches(x + 1, y + 1)
            /\ Price(s, t, x + 1, y + 1, m \cup {p}) = Price(s, t, x, y, m) + c
        BY MatchLast
      <3> HIDE DEF p
      <3> QED BY <3>1, <3>2, <2>3
    <2> QED BY <2>1, <2>2, <2>3, <1>1
  <1>3. \A m \in Matches(x + 1, y + 1) : Price(s, t, x + 1, y + 1, m) >= v
    <2> SUFFICES ASSUME NEW m \in Matches(x + 1, y + 1)
                 PROVE  Price(s, t, x + 1, y + 1, m) >= v
      OBVIOUS
    <2>1. CASE m \in Matches(x, y + 1)
      <3>1. Price(s, t, x, y + 1, m) >= up /\ Price(s, t, x, y + 1, m) \in Int
        BY <2>1, MatchesFinite DEF Fewest
      <3>2. Price(s, t, x + 1, y + 1, m) = Price(s, t, x, y + 1, m) + 1
        BY <2>1, MatchFewer
      <3> QED BY <3>1, <3>2, <1>1
    <2>2. CASE m \in Matches(x + 1, y)
      <3>1. Price(s, t, x + 1, y, m) >= left /\ Price(s, t, x + 1, y, m) \in Int
        BY <2>2, MatchesFinite DEF Fewest
      <3>2. Price(s, t, x + 1, y + 1, m) = Price(s, t, x + 1, y, m) + 1
        BY <2>2, MatchFewer
      <3> QED BY <3>1, <3>2, <1>1
    <2>3. ASSUME NEW n \in Matches(x, y), m = n \cup {p}
          PROVE  Price(s, t, x + 1, y + 1, m) >= v
      <3>1. Price(s, t, x, y, n) >= both /\ Price(s, t, x, y, n) \in Int
        BY MatchesFinite DEF Fewest
      <3>2. Price(s, t, x + 1, y + 1, m) = Price(s, t, x, y, n) + c
        BY <2>3, MatchLast
      <3> QED BY <3>1, <3>2, <1>1
    <2> QED BY <2>1, <2>2, <2>3, MatchSplits
  <1> QED BY <1>2, <1>3 DEF Fewest, v

(* The two texts may change places.                                         *)
Turn(m) == {<<p[2], p[1]>> : p \in m}

LEMMA TurnKeepsSize ==
  ASSUME NEW x \in Nat, NEW y \in Nat, NEW m, m \subseteq (1..x) \X (1..y)
  PROVE  Cardinality(Turn(m)) = Cardinality(m)
  <1> DEFINE f == [p \in m |-> <<p[2], p[1]>>]
  <1>1. \A p \in m : p = <<p[1], p[2]>>
    OBVIOUS
  <1>2. f \in [m -> Turn(m)]
    BY DEF Turn
  <1>3. \A p, q \in m : f[p] = f[q] => p = q
    BY <1>1
  <1>4. \A r \in Turn(m) : \E p \in m : f[p] = r
    BY DEF Turn
  <1> HIDE DEF f
  <1>5. f \in Bijection(m, Turn(m))
    BY <1>2, <1>3, <1>4 DEF Bijection, Injection, Surjection, IsInjective
  <1>6. ExistsBijection(m, Turn(m))
    BY <1>5 DEF ExistsBijection
  <1>7. IsFiniteSet(1..x) /\ IsFiniteSet(1..y)
    BY FS_Interval
  <1>8. IsFiniteSet((1..x) \X (1..y))
    BY <1>7, FS_Product
  <1>9. IsFiniteSet(m)
    BY <1>8, FS_Subset
  <1> QED BY <1>6, <1>9, FS_Bijection

LEMMA TurnMatches ==
  ASSUME NEW x \in Nat, NEW y \in Nat, NEW m \in Matches(x, y), NEW s, NEW t
  PROVE  /\ Turn(m) \in Matches(y, x)
         /\ Price(t, s, y, x, Turn(m)) = Price(s, t, x, y, m)
         /\ Turn(Turn(m)) = m
  <1>1. m \subseteq (1..x) \X (1..y) /\ InOrder(m)
    BY DEF Matches
  <1>2. \A p \in m : p = <<p[1], p[2]>> /\ p[1] \in 1..x /\ p[2] \in 1..y
    BY <1>1
  <1>3. Turn(m) \in SUBSET ((1..y) \X (1..x))
    BY <1>2 DEF Turn
  <1>4. InOrder(Turn(m))
    <2> SUFFICES ASSUME NEW p \in m, NEW q \in m, <<p[2], p[1]>> # <<q[2], q[1]>>
                 PROVE  \/ p[2] < q[2] /\ p[1] < q[1]
                        \/ p[2] > q[2] /\ p[1] > q[1]
      BY DEF InOrder, Turn
    <2>1. p # q
      OBVIOUS
    <2> QED BY <2>1, <1>1 DEF InOrder
  <1>5. Unlike(t, s, Turn(m)) = Turn(Unlike(s, t, m))
    <2>1. \A p \in m : t[<<p[2], p[1]>>[1]] = t[p[2]] /\ s[<<p[2], p[1]>>[2]] = s[p[1]]
      OBVIOUS
    <2> QED BY <2>1 DEF Unlike, Turn
  <1>6. Unlike(s, t, m) \subseteq (1..x) \X (1..y)
    BY <1>1 DEF Unlike
  <1>7. /\ Cardinality(Turn(m)) = Cardinality(m)
        /\ Cardinality(Turn(Unlike(s, t, m))) = Cardinality(Unlike(s, t, m))
    BY <1>1, <1>6, TurnKeepsSize
  <1>8. Price(t, s, y, x, Turn(m)) = Price(s, t, x, y, m)
    <2> DEFINE c == Cardinality(m)
               u == Cardinality(Unlike(s, t, m))
    <2>1. c \in Nat /\ u \in Nat
      BY MatchesFinite
    <2>2. /\ Price(t, s, y, x, Turn(m)) = y + x - 2 * c + u
          /\ Price(s, t, x, y, m) = x + y - 2 * c + u
      BY <1>5, <1>7 DEF Price
    <2> HIDE DEF c, u
    <2> QED BY <2>1, <2>2
  <1>9. Turn(Turn(m)) = m
    <2> DEFINE n == Turn(m)
    <2>1. /\ \A p \in m : <<p[2], p[1]>> \in n
          /\ \A q \in n : \E p \in m : q = <<p[2], p[1]>>
      BY DEF Turn
    <2> HIDE DEF n
    <2>2. /\ \A q \in n : <<q[2], q[1]>> \in Turn(n)
          /\ \A r \in Turn(n) : \E q \in n : r = <<q[2], q[1]>>
      BY DEF Turn
    <2>3. \A p \in m : p \in Turn(n)
      <3> SUFFICES ASSUME NEW p \in m PROVE p \in Turn(n)
        OBVIOUS
      <3>1. <<p[2], p[1]>> \in n
        BY <2>1
      <3>2. <<p[1], p[2]>> \in Turn(n)
        BY <3>1, <2>2
      <3> QED BY <3>2, <1>2
    <2>4. \A r \in Turn(n) : r \in m
      <3> SUFFICES ASSUME NEW r \in Turn(n) PROVE r \in m
        OBVIOUS
      <3>1. PICK q \in n : r = <<q[2], q[1]>>
        BY <2>2
      <3>2. PICK p \in m : q = <<p[2], p[1]>>
        BY <2>1
      <3>3. r = <<p[1], p[2]>>
        BY <3>1, <3>2
      <3> QED BY <3>3, <1>2
    <2> QED BY <2>3, <2>4 DEF n
  <1> QED BY <1>3, <1>4, <1>8, <1>9 DEF Matches

LEMMA FewestTurns ==
  ASSUME NEW x \in Nat, NEW y \in Nat, NEW s, NEW t, NEW v, Fewest(s, t, x, y, v)
  PROVE  Fewest(t, s, y, x, v)
  <1>1. \E m \in Matches(y, x) : Price(t, s, y, x, m) = v
    <2>1. PICK m \in Matches(x, y) : Price(s, t, x, y, m) = v
      BY DEF Fewest
    <2> QED BY <2>1, TurnMatches
  <1>2. \A m \in Matches(y, x) : Price(t, s, y, x, m) >= v
    <2> SUFFICES ASSUME NEW m \in Matches(y, x) PROVE Price(t, s, y, x, m) >= v
      OBVIOUS
    <2>1. Turn(m) \in Matches(x, y) /\ Price(s, t, x, y, Turn(m)) = Price(t, s, y, x, m)
      BY TurnMatches
    <2> QED BY <2>1 DEF Fewest
  <1> QED BY <1>1, <1>2 DEF Fewest

(* The fewest edits between the whole texts are what Edits is.              *)
LEMMA FewestIsEdits ==
  ASSUME NEW s, NEW t, Len(s) \in Nat, Len(t) \in Nat,
         DOMAIN s = 1..Len(s), DOMAIN t = 1..Len(t),
         NEW v \in Nat, Fewest(s, t, Len(s), Len(t), v)
  PROVE  Edits(s, t) = v
  <1> DEFINE Is(n) == /\ \E m \in Alignments(s, t) : Effort(s, t, m) = n
                      /\ \A m \in Alignments(s, t) : Effort(s, t, m) >= n
  <1>1. Alignments(s, t) = Matches(Len(s), Len(t))
    BY DEF Alignments, Matches, InOrder
  <1>2. \A m : Effort(s, t, m) = Price(s, t, Len(s), Len(t), m)
    BY DEF Effort, Price, Unlike
  <1>3. Is(v)
    BY <1>1, <1>2 DEF Fewest
  <1>4. v \in 0..(Len(s) + Len(t))
    <2>1. {} \in Matches(Len(s), Len(t))
      BY DEF Matches, InOrder
    <2>2. Unlike(s, t, {}) = {}
      BY DEF Unlike
    <2>3. Price(s, t, Len(s), Len(t), {}) = Len(s) + Len(t)
      <3>1. Price(s, t, Len(s), Len(t), {}) = Len(s) + Len(t) - 2 * 0 + 0
        BY <2>2, FS_EmptySet DEF Price
      <3> QED BY <3>1
    <2>4. Len(s) + Len(t) >= v
      BY <2>1, <2>3 DEF Fewest
    <2> QED BY <2>4
  <1>5. \A n \in 0..(Len(s) + Len(t)) : Is(n) => n = v
    <2> SUFFICES ASSUME NEW n \in 0..(Len(s) + Len(t)), Is(n) PROVE n = v
      OBVIOUS
    <2>1. PICK m \in Alignments(s, t) : Effort(s, t, m) = n
      OBVIOUS
    <2>2. PICK o \in Alignments(s, t) : Effort(s, t, o) = v
      BY <1>3
    <2>3. n >= v /\ v >= n
      BY <1>3, <2>1, <2>2
    <2> QED BY <2>3
  <1>6. Edits(s, t) = CHOOSE n \in 0..(Len(s) + Len(t)) : Is(n)
    BY DEF Edits
  <1> HIDE DEF Is
  <1> QED BY <1>3, <1>4, <1>5, <1>6

-----------------------------------------------------------------------------
(* The rows hold the fewest edits of the beginnings they stand for.         *)
Exact == /\ \A y \in 0..Len(b) : Fewest(a, b, i - 1, y, prev[y])
         /\ \A y \in 0..(j - 1) : Fewest(a, b, i, y, cur[y])

EditsInv == /\ Inv
            /\ at = "cells" => Exact
            /\ DistanceIsEdits

(* What does not touch the arguments leaves the reference alone. *)
LEMMA SameReference ==
  ASSUME UNCHANGED text, UNCHANGED at, UNCHANGED result
  PROVE  DistanceIsEdits' <=> DistanceIsEdits
  BY SameText DEF DistanceIsEdits

LEMMA NormalizeExact == EditsInv /\ Normalize => EditsInv'
  <1> SUFFICES ASSUME EditsInv, Normalize PROVE EditsInv'
    OBVIOUS
  <1>1. Inv'
    BY NormalizeInv DEF EditsInv
  <1>2. text[1] \in Readings /\ text[2] \in Readings /\ text' = text
    BY DEF EditsInv, Inv, Normalize
  <1>3. First' = First /\ Second' = Second
    BY <1>2, SameText
  <1>4. /\ Len(First) \in Nat /\ Len(Second) \in Nat
        /\ First = <<>> <=> Len(First) = 0
        /\ Second = <<>> <=> Len(Second) = 0
        /\ DOMAIN First = 1..Len(First) /\ DOMAIN Second = 1..Len(Second)
    BY <1>2, ComparedIsSequence DEF First, Second
  <1>5. CASE First = <<>> \/ Second = <<>>
    <2>1. /\ at' = "done" /\ result' = <<IF First = Second THEN 0 ELSE 1, 1>>
      BY <1>5 DEF Normalize
    <2>2. Edits(First, Second) = Len(First) + Len(Second)
      <3>1. Fewest(First, Second, Len(First), Len(Second), Len(First) + Len(Second))
        BY <1>4, <1>5, NothingToMatch
      <3> QED BY <3>1, <1>4, FewestIsEdits
    <2>3. CASE First = Second
      <3>1. Len(First) = 0 /\ Len(Second) = 0 /\ result'[1] = 0 /\ result'[2] = 1
        BY <2>1, <2>3, <1>4, <1>5
      <3>2. Edits(First, Second) = 0
        BY <2>2, <3>1
      <3> QED BY <2>1, <3>1, <3>2, <1>1, <1>3 DEF EditsInv, DistanceIsEdits
    <2>4. CASE First # Second
      <3>1. result'[1] = 1 /\ result'[2] = 1
        BY <2>1, <2>4
      <3>2. CASE First = <<>>
        <4>1. Len(First) = 0 /\ Len(Second) > 0
          BY <3>2, <2>4, <1>4
        <4>2. Edits(First, Second) = Len(Second)
          BY <4>1, <2>2, <1>4
        <4> QED BY <2>1, <3>1, <4>1, <4>2, <1>1, <1>3, <1>4 DEF EditsInv, DistanceIsEdits
      <3>3. CASE First # <<>>
        <4>1. Len(Second) = 0 /\ Len(First) > 0
          BY <3>3, <1>4, <1>5
        <4>2. Edits(First, Second) = Len(First)
          BY <4>1, <2>2, <1>4
        <4>3. ~(Len(First) < Len(Second)) /\ 1 * Len(First) = Len(First) * 1
          BY <4>1, <1>4
        <4>4. DistanceIsEdits'
          BY <3>1, <4>2, <4>3, <1>3 DEF DistanceIsEdits
        <4> QED BY <2>1, <4>4, <1>1 DEF EditsInv
      <3> QED BY <3>2, <3>3
    <2> QED BY <2>3, <2>4
  <1>6. CASE ~(First = <<>> \/ Second = <<>>)
    <2>1. /\ prev' = [l \in 0..Len(b') |-> l]
          /\ cur' = [l \in 0..Len(b') |-> IF l = 0 THEN 1 ELSE 0]
          /\ i' = 1 /\ j' = 1 /\ at' = "cells"
      BY <1>6 DEF Normalize
    <2>2. Len(b') \in Nat /\ Len(b') >= 1
      BY <1>1, <2>1 DEF Inv, Sides
    <2>3. \A y \in 0..Len(b') : Fewest(a', b', 0, y, prev'[y])
      <3> SUFFICES ASSUME NEW y \in 0..Len(b') PROVE Fewest(a', b', 0, y, prev'[y])
        OBVIOUS
      <3>1. y \in Nat /\ prev'[y] = 0 + y
        BY <2>1, <2>2
      <3>2. Fewest(a', b', 0, y, 0 + y)
        BY <3>1, NothingToMatch
      <3> QED BY <3>1, <3>2
    <2>4. Fewest(a', b', 1, 0, cur'[0])
      <3>1. cur'[0] = 1 + 0
        BY <2>1, <2>2
      <3>2. Fewest(a', b', 1, 0, 1 + 0)
        BY NothingToMatch
      <3> QED BY <3>1, <3>2
    <2>5. i' - 1 = 0 /\ 0..(j' - 1) = {0}
      BY <2>1
    <2>6. Exact'
      BY <2>1, <2>3, <2>4, <2>5 DEF Exact
    <2>7. DistanceIsEdits'
      BY <2>1 DEF DistanceIsEdits
    <2> QED BY <1>1, <2>6, <2>7 DEF EditsInv
  <1> QED BY <1>5, <1>6

LEMMA CellExact == EditsInv /\ Cell => EditsInv'
  <1> SUFFICES ASSUME EditsInv, Cell PROVE EditsInv'
    OBVIOUS
  <1> DEFINE v == Least(prev[j] + 1, Least(cur[j - 1] + 1, prev[j - 1] + Cost))
  <1>1. Inv' /\ Sides /\ Rows /\ Exact /\ at = "cells" /\ j <= Len(b)
    BY CellInv DEF EditsInv, Inv, Cell
  <1>2. /\ cur' = [cur EXCEPT ![j] = v] /\ j' = j + 1
        /\ UNCHANGED <<text, a, b, prev, i, at, result>>
    BY DEF Cell
  <1>3. /\ i \in Nat /\ j \in Nat /\ 1 <= i /\ 1 <= j /\ j <= Len(b)
        /\ Len(a) \in Nat /\ Len(b) \in Nat
    BY <1>1 DEF Sides, Rows
  <1>4. /\ prev[j] \in Nat /\ cur[j - 1] \in Nat /\ prev[j - 1] \in Nat
        /\ Fewest(a, b, i - 1, j, prev[j]) /\ Fewest(a, b, i, j - 1, cur[j - 1])
        /\ Fewest(a, b, i - 1, j - 1, prev[j - 1])
    BY <1>1, <1>3 DEF Rows, Exact
  <1>5. Cost \in {0, 1} /\ Cost = IF a[i] = b[j] THEN 0 ELSE 1
    BY DEF Cost
  <1>6. Fewest(a, b, i, j, v)
    <2> DEFINE x == i - 1
               y == j - 1
               up == prev[j]
               left == cur[j - 1]
               both == prev[j - 1]
               c == Cost
    <2>1. x \in Nat /\ y \in Nat /\ x + 1 = i /\ y + 1 = j
      BY <1>3
    <2>2. /\ up \in Int /\ left \in Int /\ both \in Int
          /\ c \in {0, 1} /\ c = IF a[x + 1] = b[y + 1] THEN 0 ELSE 1
      BY <2>1, <1>4, <1>5
    <2>3. Fewest(a, b, x, y + 1, up) /\ Fewest(a, b, x + 1, y, left) /\ Fewest(a, b, x, y, both)
      BY <2>1, <1>4
    <2>4. v = Least(up + 1, Least(left + 1, both + c))
      OBVIOUS
    <2> HIDE DEF x, y, up, left, both, c, v
    <2>5. Fewest(a, b, x + 1, y + 1, Least(up + 1, Least(left + 1, both + c)))
      BY <2>1, <2>2, <2>3, CellIsFewest
    <2> QED BY <2>1, <2>4, <2>5
  <1> HIDE DEF v
  <1>7. cur'[j] = v /\ \A y \in 0..(j - 1) : cur'[y] = cur[y]
    BY <1>1, <1>2, <1>3 DEF Rows
  <1>8. \A y \in 0..j : Fewest(a, b, i, y, cur'[y])
    <2> SUFFICES ASSUME NEW y \in 0..j PROVE Fewest(a, b, i, y, cur'[y])
      OBVIOUS
    <2>1. CASE y = j
      BY <2>1, <1>6, <1>7
    <2>2. CASE y # j
      <3>1. y \in 0..(j - 1)
        BY <2>2, <1>3
      <3> QED BY <3>1, <1>1, <1>7 DEF Exact
    <2> QED BY <2>1, <2>2
  <1>9. j' - 1 = j
    BY <1>2, <1>3
  <1>10. Exact'
    BY <1>1, <1>2, <1>8, <1>9 DEF Exact
  <1>11. DistanceIsEdits'
    BY <1>1, <1>2 DEF DistanceIsEdits
  <1> QED BY <1>1, <1>10, <1>11 DEF EditsInv

LEMMA NextRowExact == EditsInv /\ NextRow => EditsInv'
  <1> SUFFICES ASSUME EditsInv, NextRow PROVE EditsInv'
    OBVIOUS
  <1>1. Inv' /\ Sides /\ Rows /\ Exact /\ at = "cells" /\ j > Len(b)
    BY NextRowInv DEF EditsInv, Inv, NextRow
  <1>2. /\ prev' = cur /\ cur' = [prev EXCEPT ![0] = i + 1]
        /\ i' = i + 1 /\ j' = 1 /\ UNCHANGED <<text, a, b, at, result>>
    BY DEF NextRow
  <1>3. i \in Nat /\ 1 <= i /\ Len(a) \in Nat /\ Len(b) \in Nat /\ 1 <= Len(b)
        /\ j - 1 = Len(b)
    BY <1>1 DEF Sides, Rows
  <1>4. \A y \in 0..Len(b) : Fewest(a, b, i, y, prev'[y])
    BY <1>1, <1>2, <1>3 DEF Exact
  <1>8. i' - 1 = i /\ 0..(j' - 1) = {0}
    BY <1>2, <1>3
  <1>5. Fewest(a, b, i + 1, 0, cur'[0])
    <2>1. cur'[0] = (i + 1) + 0
      BY <1>1, <1>2, <1>3 DEF Rows
    <2>2. Fewest(a, b, i + 1, 0, (i + 1) + 0)
      BY <1>3, NothingToMatch
    <2> QED BY <2>1, <2>2
  <1>6. Exact'
    BY <1>2, <1>4, <1>5, <1>8 DEF Exact
  <1>7. DistanceIsEdits'
    BY <1>1, <1>2 DEF DistanceIsEdits
  <1> QED BY <1>1, <1>6, <1>7 DEF EditsInv

LEMMA ReturnExact == EditsInv /\ Finish => EditsInv'
  <1> SUFFICES ASSUME EditsInv, Finish PROVE EditsInv'
    OBVIOUS
  <1>1. /\ Inv' /\ Sides /\ Rows /\ Exact /\ at = "cells" /\ j > Len(b) /\ i = Len(a)
        /\ text[1] \in Readings /\ text[2] \in Readings
    BY ReturnInv DEF EditsInv, Inv, Finish
  <1>2. /\ result' = <<cur[Len(b)], Len(a)>> /\ at' = "done" /\ UNCHANGED <<text, a, b>>
    BY DEF Finish
  <1>3. /\ Len(a) \in Nat /\ Len(b) \in Nat /\ Len(b) <= Len(a) /\ 1 <= Len(b)
        /\ j - 1 = Len(b) /\ cur[Len(b)] \in Nat
    BY <1>1 DEF Sides, Rows
  <1>4. /\ DOMAIN First = 1..Len(First) /\ DOMAIN Second = 1..Len(Second)
    BY <1>1, ComparedIsSequence DEF First, Second
  <1>5. Fewest(a, b, Len(a), Len(b), cur[Len(b)])
    BY <1>1, <1>3 DEF Exact
  <1>6. Fewest(b, a, Len(b), Len(a), cur[Len(b)])
    BY <1>3, <1>5, FewestTurns
  <1>7. /\ Edits(First, Second) = cur[Len(b)]
        /\ Len(a) = Len(IF Len(First) < Len(Second) THEN Second ELSE First)
    <2>1. CASE a = First /\ b = Second
      <3>1. Edits(a, b) = cur[Len(b)]
        BY <2>1, <1>3, <1>4, <1>5, FewestIsEdits
      <3> QED BY <3>1, <2>1, <1>3
    <2>2. CASE a = Second /\ b = First
      <3>1. Edits(b, a) = cur[Len(b)]
        BY <2>2, <1>3, <1>4, <1>6, FewestIsEdits
      <3> QED BY <3>1, <2>2, <1>3
    <2> QED BY <2>1, <2>2, <1>1 DEF Sides
  <1>8. First' = First /\ Second' = Second
    BY <1>2, SameText
  <1>9. DistanceIsEdits'
    <2>1. result'[1] = cur[Len(b)] /\ result'[2] = Len(a)
      BY <1>2
    <2>2. cur[Len(b)] * Len(a) = cur[Len(b)] * Len(a)
      OBVIOUS
    <2> QED BY <1>7, <1>8, <2>1 DEF DistanceIsEdits
  <1> QED BY <1>1, <1>2, <1>9 DEF EditsInv

(* levenshtein returns the fewest edits, whatever the texts and the cap: no  *)
(* match of characters in their order leaves fewer than the two rows find,   *)
(* and one leaves as many (Disagreement, levenshtein 39-65, 82-102).         *)
THEOREM RowsFindFewestEdits == DistanceSpec => []DistanceIsEdits
  <1>1. DistanceInit => EditsInv
    BY InitInv DEF DistanceInit, EditsInv, DistanceIsEdits
  <1>2. EditsInv /\ [DistanceNext]_distanceVars => EditsInv'
    <2> SUFFICES ASSUME EditsInv, [DistanceNext]_distanceVars PROVE EditsInv'
      OBVIOUS
    <2>1. CASE UNCHANGED distanceVars
      <3>1. Inv'
        BY <2>1, NextInv DEF EditsInv
      <3>2. DistanceIsEdits'
        BY <2>1, SameReference DEF EditsInv, distanceVars
      <3> QED BY <2>1, <3>1, <3>2 DEF EditsInv, Exact, distanceVars
    <2>2. CASE DistanceNext
      BY <2>2, NormalizeExact, CellExact, NextRowExact, ReturnExact DEF DistanceNext
    <2> QED BY <2>1, <2>2
  <1>3. EditsInv => DistanceIsEdits
    BY DEF EditsInv
  <1> QED BY <1>1, <1>2, <1>3, PTL DEF DistanceSpec
=============================================================================
