---------------------------- MODULE MCOcrClient ----------------------------
(* Instances of OcrClient for TLC: two OCR tiers, one of them in two         *)
(* versions, and one engine of the vision tier.                              *)
EXTENDS OcrClient

CONSTANTS a, v

Id(e, n) == [engine |-> e, version |-> n]
Serving  == {Id("layout", 1), Id("layout", 2), Id("text", 1)}
Vision   == {Id("mineru", 1)}
=============================================================================
