---------------------------- MODULE MCAlgorithms ----------------------------
(* The algorithms of the pipeline that keep nothing from one call to the     *)
(* next, for TLC: the table of a page, the distance of two readings, and the *)
(* requests a call is split into.  A behaviour is a run of one of them.      *)
EXTENDS TableGrid, TextDistance, Shards

VARIABLE task
vars == <<task, tableVars, distanceVars, shardVars>>

(* A cell, a header over two columns, and a cell that spans two rows. *)
Tags == {<<FALSE, 1, 1>>, <<TRUE, 1, 2>>, <<FALSE, 2, 1>>}

(* Every text of up to four characters, a space in any place. *)
ShortTexts == UNION {[1..l -> {"x", "y", " "}] : l \in 0..4}

(* Settings below, at and beyond the number of pages. *)
Settings == -1..6

Init == /\ task \in {"table", "distance", "shards"}
        /\ task # "distance" => text = <<<<>>, <<>>>>
        /\ task # "shards" => pages = 1 /\ concurrency = 1
        /\ TableInit /\ DistanceInit /\ ShardInit

Next == \/ task = "table" /\ TableNext /\ UNCHANGED <<task, distanceVars, shardVars>>
        \/ task = "distance" /\ DistanceNext /\ UNCHANGED <<task, tableVars, shardVars>>
        \/ task = "shards" /\ ShardNext /\ UNCHANGED <<task, tableVars, distanceVars>>

Spec == Init /\ [][Next]_vars
=============================================================================
