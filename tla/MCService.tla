----------------------------- MODULE MCService -----------------------------
(* Instances of Service for TLC: environments on each side of every kind of  *)
(* check in config.Load, with a wait of two pauses where there is one, and   *)
(* deployments that load, load late, fall back or do not load.               *)
EXTENDS Service, TLC

CONSTANTS garbled, nan

OCR(wait) == [OCRURL |-> TRUE, OCRWait |-> wait]
Vision    == [VisionEnabled |-> TRUE]
Envs == {OCR(3) @@ Vision, OCR(3) @@ [OCRThreshold |-> nan],
         OCR(garbled), OCR(0), [OCRThreshold |-> 300],
         Vision @@ [OCRThreshold |-> 900, VisionThreshold |-> 700, VisionDisagreement |-> 5]}

Image(s, es, l, ws) == [setting |-> s, installed |-> es, lazy |-> l, workers |-> ws]
Images == {Image("auto", Engines, FALSE, {1, 2}), Image("auto", Engines, TRUE, {1, 2}),
           Image("auto", {"vision"}, FALSE, {1}),
           Image("layout", {"text", "vision"}, FALSE, {1, 2}),
           Image("text", {}, FALSE, {})}

(* Nothing the requests do depends on the OCR service, so they are explored  *)
(* where not all of its workers are deployed, and the start everywhere.      *)
MCNext == (deployed.workers # OCRWorkers /\ Serve) \/ Starts \/ Goes
MCSpec == Init /\ [][MCNext]_vars /\ WF_vars(Process /\ UNCHANGED inspectVars)
=============================================================================
