---------------------------- MODULE Shards_proofs ----------------------------
(***************************************************************************)
(* Proofs about Shards, for any number of pages and any setting.  The loop *)
(* keeps no record of what is left; that its last chunk ends with the last *)
(* page comes from where it is after k chunks.                             *)
(***************************************************************************)
EXTENDS Shards, TLAPS

Base  == pages \div n
Extra == pages % n

(* k chunks of Base pages, the first Extra of them with one more. *)
At(m) == m * Base + IF m < Extra THEN m ELSE Extra

Cutting ==
  /\ n \in Nat /\ 1 < n /\ n <= pages /\ n <= concurrency
  /\ k \in 0..n /\ start = At(k)
  /\ Len(chunks) = k
  /\ \A c \in 1..k : /\ chunks[c].from = At(c - 1) /\ chunks[c].to = At(c)
                     /\ Length(c) \in {Base, Base + 1}

Inv == /\ pages \in Nat \ {0} /\ concurrency \in Int
       /\ stage \in {"clamp", "cut", "done"}
       /\ chunks \in Seq([from : Int, to : Int])
       /\ stage = "clamp" => n = concurrency /\ k = 0 /\ start = 0 /\ chunks = <<>>
       /\ stage = "cut" => Cutting
       /\ ShardsAreFair

(* How a number is made of a quotient and a remainder. *)
LEMMA Division ==
  ASSUME n \in Nat, 1 <= n, n <= pages, pages \in Nat
  PROVE  /\ Base \in Nat /\ 1 <= Base /\ Extra \in 0..(n - 1)
         /\ pages = n * Base + Extra
  BY DEF Base, Extra

LEMMA AtNext ==
  ASSUME NEW m \in Nat, Base \in Nat, Extra \in Nat
  PROVE  /\ At(m) \in Nat
         /\ At(m + 1) = At(m) + Base + IF m < Extra THEN 1 ELSE 0
  <1>1. m * Base \in Nat /\ (m + 1) * Base = m * Base + Base
    OBVIOUS
  <1> DEFINE P == m * Base
             Q == (m + 1) * Base
  <1>2. P \in Nat /\ Q = P + Base
    BY <1>1
  <1>3. /\ At(m) = P + IF m < Extra THEN m ELSE Extra
        /\ At(m + 1) = Q + IF m + 1 < Extra THEN m + 1 ELSE Extra
    BY DEF At
  <1> HIDE DEF P, Q
  <1> QED BY <1>2, <1>3

LEMMA InitInv == ShardInit => Inv
  BY ShardsAssumption DEF ShardInit, Inv, ShardsAreFair

(* One chunk, or the loop begins. *)
LEMMA ClampInv == Inv /\ Clamp => Inv'
  <1> SUFFICES ASSUME Inv, Clamp PROVE Inv'
    OBVIOUS
  <1>1. /\ pages \in Nat \ {0} /\ concurrency \in Int /\ n = concurrency
        /\ k = 0 /\ start = 0 /\ chunks = <<>>
    BY DEF Inv, Clamp
  <1>2. /\ n' = Within(n) /\ UNCHANGED <<pages, concurrency, k, start>>
    BY DEF Clamp
  <1>3. CASE n' <= 1 /\ chunks' = <<Slice(0, pages)>> /\ stage' = "done"
    <2>1. Len(chunks') = 1 /\ chunks'[1] = [from |-> 0, to |-> pages]
          /\ chunks' \in Seq([from : Int, to : Int])
      BY <1>1, <1>3 DEF Slice
    <2>2. ShardsAreFair'
      BY <1>1, <1>2, <1>3, <2>1 DEF ShardsAreFair, Length
    <2> QED BY <1>1, <1>2, <1>3, <2>1, <2>2 DEF Inv
  <1>4. CASE n' > 1 /\ stage' = "cut" /\ UNCHANGED chunks
    <2>1. n' \in Nat /\ n' <= pages /\ n' <= concurrency
      BY <1>1, <1>2, <1>4 DEF Within
    <2>2. Base' \in Nat /\ Extra' \in Nat
      BY <2>1, <1>1, <1>2, <1>4 DEF Base, Extra
    <2>3. At(0)' = 0
      <3>1. \A x, y \in Nat : 0 * x + (IF 0 < y THEN 0 ELSE y) = 0
        OBVIOUS
      <3>2. At(0)' = 0 * Base' + (IF 0 < Extra' THEN 0 ELSE Extra')
        BY Zenon DEF At
      <3> QED BY <2>2, <3>1, <3>2, Zenon
    <2>4. Cutting'
      BY <1>1, <1>2, <1>4, <2>1, <2>3 DEF Cutting
    <2> QED BY <1>1, <1>2, <1>4, <2>4 DEF Inv, ShardsAreFair
  <1> QED BY <1>3, <1>4 DEF Clamp

(* A chunk begins where the one before it ended. *)
LEMMA CutInv == Inv /\ Cut => Inv'
  <1> SUFFICES ASSUME Inv, Cut PROVE Inv'
    OBVIOUS
  <1>1. Cutting /\ pages \in Nat \ {0} /\ chunks \in Seq([from : Int, to : Int])
        /\ concurrency \in Int /\ k < n /\ stage = "cut"
    BY DEF Inv, Cut
  <1>2. /\ chunks' = Append(chunks, Slice(start, start + Size))
        /\ start' = start + Size /\ k' = k + 1
        /\ UNCHANGED <<pages, concurrency, n, stage>>
    BY DEF Cut
  <1>3. Base \in Nat /\ Extra \in Nat
    BY <1>1, Division DEF Cutting
  <1>4. Size = Base + (IF k < Extra THEN 1 ELSE 0)
    BY DEF Size, Base, Extra
  <1>5. k \in Nat /\ At(k) \in Nat /\ start = At(k) /\ At(k + 1) = start + Size
        /\ Size \in {Base, Base + 1}
    <2>1. k \in Nat /\ start = At(k)
      BY <1>1 DEF Cutting
    <2>2. At(k) \in Nat /\ At(k + 1) = At(k) + Base + (IF k < Extra THEN 1 ELSE 0)
      BY <2>1, <1>3, AtNext
    <2>3. CASE k < Extra
      BY <2>1, <2>2, <2>3, <1>3, <1>4
    <2>4. CASE ~(k < Extra)
      BY <2>1, <2>2, <2>4, <1>3, <1>4
    <2> QED BY <2>3, <2>4
  <1>6. /\ chunks' \in Seq([from : Int, to : Int]) /\ Len(chunks') = k + 1
        /\ chunks'[k + 1] = [from |-> start, to |-> start + Size]
        /\ \A c \in 1..k : chunks'[c] = chunks[c]
    BY <1>1, <1>2, <1>3, <1>5 DEF Cutting, Slice
  <1>7. Base' = Base /\ Extra' = Extra
    BY <1>2 DEF Base, Extra
  <1>8. \A m \in Nat : At(m)' = At(m)
    BY <1>7 DEF At
  <1>9. \A c \in 1..(k + 1) : /\ chunks'[c].from = At(c - 1) /\ chunks'[c].to = At(c)
                              /\ Length(c)' \in {Base, Base + 1}
    <2> SUFFICES ASSUME NEW c \in 1..(k + 1)
                 PROVE  /\ chunks'[c].from = At(c - 1) /\ chunks'[c].to = At(c)
                        /\ Length(c)' \in {Base, Base + 1}
      OBVIOUS
    <2>1. CASE c = k + 1
      <3>1. c - 1 = k
        BY <2>1, <1>5
      <3> QED BY <2>1, <3>1, <1>5, <1>6, <1>3 DEF Length
    <2>2. CASE c # k + 1
      <3>1. c \in 1..k
        BY <2>2, <1>5
      <3> QED BY <3>1, <1>1, <1>6 DEF Cutting, Length
    <2> QED BY <2>1, <2>2
  <1>10. Cutting'
    <2>1. \A c \in 1..k' : /\ chunks'[c].from = At(c - 1)' /\ chunks'[c].to = At(c)'
                           /\ Length(c)' \in {Base', Base' + 1}
      <3> SUFFICES ASSUME NEW c \in 1..k'
                   PROVE  /\ chunks'[c].from = At(c - 1)' /\ chunks'[c].to = At(c)'
                          /\ Length(c)' \in {Base', Base' + 1}
        OBVIOUS
      <3>1. c \in Nat /\ c - 1 \in Nat /\ c \in 1..(k + 1)
        BY <1>2, <1>5
      <3>2. At(c)' = At(c) /\ At(c - 1)' = At(c - 1)
        BY <3>1, <1>7 DEF At
      <3> QED BY <3>1, <3>2, <1>7, <1>9
    <2>2. start' = At(k)'
      BY <1>2, <1>5, <1>7 DEF At
    <2> QED BY <1>1, <1>2, <1>6, <2>1, <2>2 DEF Cutting
  <1> QED BY <1>1, <1>2, <1>6, <1>10 DEF Inv, ShardsAreFair

(* After n chunks the loop is at the end of the pages. *)
LEMMA ReturnInv == Inv /\ AllCut => Inv'
  <1> SUFFICES ASSUME Inv, AllCut PROVE Inv'
    OBVIOUS
  <1>1. Cutting /\ pages \in Nat \ {0} /\ concurrency \in Int /\ k = n
    BY DEF Inv, AllCut
  <1>2. stage' = "done" /\ UNCHANGED <<pages, concurrency, n, k, start, chunks>>
    BY DEF AllCut
  <1>3. Base \in Nat /\ 1 <= Base /\ Extra \in 0..(n - 1) /\ pages = n * Base + Extra
        /\ n \in Nat /\ 1 < n
    BY <1>1, Division DEF Cutting
  <1>4. At(n) = pages /\ At(0) = 0
    BY <1>3 DEF At
  <1>5. chunks[1].from = 0 /\ chunks[n].to = pages /\ Len(chunks) = n
    BY <1>1, <1>3, <1>4 DEF Cutting
  <1>6. \A c \in 2..n : chunks[c].from = chunks[c - 1].to
    BY <1>1, <1>3 DEF Cutting
  <1>7. \A c, d \in 1..n : Length(c) >= 1 /\ Length(c) - Length(d) <= 1
    <2>1. \A c \in 1..n : Length(c) \in {Base, Base + 1}
      BY <1>1 DEF Cutting
    <2> QED BY <2>1, <1>3
  <1>8. n \in 1..(IF concurrency < 1 THEN 1 ELSE concurrency)
    BY <1>1, <1>3 DEF Cutting
  <1>9. ShardsAreFair
    BY <1>5, <1>6, <1>7, <1>8 DEF ShardsAreFair
  <1>10. ShardsAreFair'
    BY <1>2, <1>5, <1>6, <1>7, <1>8 DEF ShardsAreFair, Length
  <1> QED BY <1>2, <1>10 DEF Inv

LEMMA NextInv == Inv /\ [ShardNext]_shardVars => Inv'
  <1> SUFFICES ASSUME Inv, [ShardNext]_shardVars PROVE Inv'
    OBVIOUS
  <1>1. CASE UNCHANGED shardVars
    BY <1>1 DEF Inv, shardVars, Cutting, At, Base, Extra, ShardsAreFair, Length
  <1>2. CASE ShardNext
    BY <1>2, ClampInv, CutInv, ReturnInv DEF ShardNext
  <1> QED BY <1>1, <1>2

(* However many pages are wanted and however many requests are allowed, the *)
(* requests share the pages out: none is left out or read twice, and none   *)
(* has to wait for one that is much longer (shard 358-380).                 *)
THEOREM PagesAreSharedOut == ShardSpec => []ShardsAreFair
  <1>1. ShardInit => Inv
    BY InitInv
  <1>2. Inv /\ [ShardNext]_shardVars => Inv'
    BY NextInv
  <1>3. Inv => ShardsAreFair
    BY DEF Inv
  <1> QED BY <1>1, <1>2, <1>3, PTL DEF ShardSpec
=============================================================================
