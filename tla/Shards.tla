------------------------------- MODULE Shards -------------------------------
(***************************************************************************)
(* How the pages of an OCR call are split into requests: shard in          *)
(* src/internal/engine/paddleocr/paddleocr.go, as Extract calls it, with   *)
(* at least one page.  A chunk is a slice, the part of the pages from one  *)
(* index up to, and not including, another.                                *)
(***************************************************************************)
EXTENDS Integers, Sequences, FiniteSets

CONSTANTS PageCounts,   \* how many pages a call may be for
          Concurrencies \* how many requests it may be spread over

ASSUME ShardsAssumption == /\ PageCounts \subseteq Nat \ {0}
                           /\ Concurrencies \subseteq Int

VARIABLES pages,       \* how many there are
          concurrency, \* the argument n
          n,           \* what is left of it
          k,           \* how many chunks were cut
          start,       \* the index that is next
          chunks, stage

shardVars == <<pages, concurrency, n, k, start, chunks, stage>>

ShardInit == /\ pages \in PageCounts
             /\ concurrency \in Concurrencies /\ n = concurrency
             /\ k = 0 /\ start = 0 /\ chunks = <<>>
             /\ stage = "clamp"

Slice(from, to) == [from |-> from, to |-> to]

(* MUTANT of Within: a setting beyond the pages is kept. *)
WithinOnly(m) == IF m < 1 THEN 1 ELSE m

(* At least one chunk, and no more than there are pages. *)
Within(m) == IF m < 1 THEN 1 ELSE IF m > pages THEN pages ELSE m

Clamp == /\ stage = "clamp"
         /\ n' = Within(n)
         /\ \/ n' <= 1 /\ chunks' = <<Slice(0, pages)>> /\ stage' = "done"
            \/ n' > 1 /\ stage' = "cut" /\ UNCHANGED chunks
         /\ UNCHANGED <<pages, concurrency, k, start>>

Size == pages \div n + IF k < pages % n THEN 1 ELSE 0

Cut == /\ stage = "cut" /\ k < n
       /\ chunks' = Append(chunks, Slice(start, start + Size))
       /\ start' = start + Size
       /\ k' = k + 1
       /\ UNCHANGED <<pages, concurrency, n, stage>>

AllCut == /\ stage = "cut" /\ k = n
          /\ stage' = "done"
          /\ UNCHANGED <<pages, concurrency, n, k, start, chunks>>

ShardNext == Clamp \/ Cut \/ AllCut

ShardSpec == ShardInit /\ [][ShardNext]_shardVars

-----------------------------------------------------------------------------
Length(c) == chunks[c].to - chunks[c].from

(* Every page is in one request and in no other, the requests go through    *)
(* the pages in order, none is empty or a page longer than another by more  *)
(* than one, and there are no more of them than were allowed: "at most n    *)
(* contiguous, near-equal chunks" (shard 358-380, Extract 284-303).         *)
ShardsAreFair ==
  stage = "done" =>
    /\ Len(chunks) \in 1..(IF concurrency < 1 THEN 1 ELSE concurrency)
    /\ chunks[1].from = 0 /\ chunks[Len(chunks)].to = pages
    /\ \A c \in 2..Len(chunks) : chunks[c].from = chunks[c - 1].to
    /\ \A c, d \in 1..Len(chunks) : Length(c) >= 1 /\ Length(c) - Length(d) <= 1
=============================================================================
