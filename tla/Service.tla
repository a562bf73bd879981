------------------------------ MODULE Service ------------------------------
(***************************************************************************)
(* The process from its start to its answers: Startup composed with        *)
(* Inspection.  Requests are taken only while the process serves, and the  *)
(* end of the process is the end of the shim's memo and of what was in     *)
(* flight.                                                                 *)
(***************************************************************************)
EXTENDS Startup, Inspection

vars == <<startVars, inspectVars>>

Init == StartupInit /\ InspectInit

(* server.ListenAndServe comes after every check of run(). *)
Serve  == phase = "serving" /\ InspectNext /\ UNCHANGED startVars
Starts == (Process \/ OCRService) /\ UNCHANGED inspectVars
Goes   == Restart /\ Forgotten

Next == Serve \/ Starts \/ Goes
Spec == Init /\ [][Next]_vars

(* run() goes on by itself: every call and pause in it ends. *)
FairSpec == Spec /\ WF_vars(Process /\ UNCHANGED inspectVars)

ServiceTypeOK == StartupTypeOK /\ InspectTypeOK
=============================================================================
