----------------------------- MODULE Inspection -----------------------------
(***************************************************************************)
(* What a document is, and who reads it: Registry.Inspect                  *)
(* (src/internal/engine/engine.go) over the engines native, pdf, image and *)
(* ocr in that order, the two first of which ask the Rust shim through one *)
(* memo (src/internal/engine/rustshim), and the primary extraction after   *)
(* it.  Requests are inspections (POST /v1/inspect) and jobs, several at a *)
(* time, for the bytes of one document under different filenames.          *)
(***************************************************************************)
EXTENDS Integers, FiniteSets

CONSTANTS Requests, \* inspections and jobs for this document
          Names     \* the kinds of filename: see Detect

(* "text" is a name by whose extension bytes without a signature are read   *)
(* (notes.md, scan.txt, table.csv); "other" is every other name, the "."    *)
(* of a stored document that is extracted without a filename included.      *)
ASSUME InspectionAssumption == "other" \in Names /\ Names \subseteq {"text", "other"}

(* By content: a PDF, a container anydoc knows, an image, or none of them.  *)
Contents == {"pdf", "office", "image", "plain"}

(* Why the parser of the shim gives the bytes up. *)
Flaws == {"none", "malformed", "encrypted"}

VARIABLES
  bytes,   \* what the document is, by content, once it is there
  flaw,    \* what is wrong with it
  scans,   \* which of its pages the inspection calls scanned: "none", "some"
           \* or "all"
  memo,    \* the engine the shim named for its digest, or "none"
  name,    \* name[r]: the filename of the request
  only,    \* only[r]: an inspection, not a job
  step,    \* step[r]: the engine asked next, or where the request is
  best,    \* best[r]: the engine that accepted the document
  errs,    \* errs[r]: the kinds of the errors collected
  verdict  \* verdict[r]: what the request was answered

reqVars     == <<name, only, step, best, errs, verdict>>
inspectVars == <<bytes, flaw, scans, memo, reqVars>>

Steps    == {"idle", "native", "pdf", "image", "choose", "extract", "over"}
Readers  == {"native", "pdf", "image"}
Errors   == {"unsupported", "malformed", "encrypted", "internal"}

(* A rejection, an inspection, or the tiers the pages of a job went to.     *)
Verdicts == {"none", "inspected", "read", "ocr", "both"} \cup Errors

InspectInit ==
  /\ bytes = "none" /\ flaw = "none" /\ scans = "none" /\ memo = "none"
  /\ name = [r \in Requests |-> "other"] /\ only = [r \in Requests |-> TRUE]
  /\ step = [r \in Requests |-> "idle"]
  /\ best = [r \in Requests |-> "none"]
  /\ errs = [r \in Requests |-> {}]
  /\ verdict = [r \in Requests |-> "none"]

-----------------------------------------------------------------------------
(* The Rust shim: native.rs and main.rs, one process per call. *)

(* The content signature first, the extension of the filename second. *)
Detect(r) == IF bytes = "pdf" THEN "pdf"
             ELSE IF bytes = "office" \/ name[r] = "text" THEN "native"
             ELSE "unsupported"

(* The exit code of a call, as classify reads it.  Any call may time out,   *)
(* be killed or find no disk.                                               *)
ShimCall(r) == {"internal"} \cup
  {IF Detect(r) # "unsupported" /\ flaw # "none" THEN flaw ELSE Detect(r)}

(* MUTANT of ShimInspect: a failure is remembered, too. *)
ShimInspectAll(r, answer) ==
  IF memo # "none" THEN answer = memo /\ memo' = memo
  ELSE answer \in ShimCall(r) /\ memo' = answer

(* Shim.inspect: what is remembered is not asked again, and only an         *)
(* inspection that succeeded is remembered, by the digest alone.            *)
ShimInspect(r, answer) ==
  IF memo # "none" THEN answer = memo /\ memo' = memo
  ELSE /\ answer \in ShimCall(r)
       /\ memo' = IF answer \in Errors THEN memo ELSE answer

-----------------------------------------------------------------------------
(* Registry.Inspect, one engine at a time. *)

(* The OCR tier, real or stub, comes last and always declines. *)
Following(e) == CASE e = "native" -> "pdf" [] e = "pdf" -> "image"
                  [] e = "image" -> "choose"

(* The first request brings the document. *)
Arrives == IF bytes # "none" THEN UNCHANGED <<bytes, flaw, scans>>
           ELSE /\ bytes' \in Contents
                /\ flaw' \in IF bytes' \in {"pdf", "office"} THEN Flaws ELSE {"none"}
                /\ scans' \in IF bytes' = "pdf" THEN {"none", "some", "all"}
                             ELSE IF bytes' = "image" THEN {"all"} ELSE {"none"}

Begin(r) == /\ step[r] = "idle" /\ Arrives
            /\ \E n \in Names, o \in BOOLEAN :
                 name' = [name EXCEPT ![r] = n] /\ only' = [only EXCEPT ![r] = o]
            /\ step' = [step EXCEPT ![r] = "native"]
            /\ UNCHANGED <<memo, best, errs, verdict>>

(* MUTANT of Learned: a routing miss is collected like any other error. *)
LearnedAll(r, answer) ==
  /\ best' = IF answer = step[r] /\ best[r] = "none"
             THEN [best EXCEPT ![r] = answer] ELSE best
  /\ errs' = IF answer # step[r] /\ answer \in Errors
             THEN [errs EXCEPT ![r] = @ \cup {answer}] ELSE errs

(* An engine that accepts replaces an earlier one only with a higher score, *)
(* and all three readers score alike; a routing miss is passed over, every  *)
(* other error is kept.                                                     *)
Learned(r, answer) ==
  /\ best' = IF answer = step[r] /\ best[r] = "none"
             THEN [best EXCEPT ![r] = answer] ELSE best
  /\ errs' = IF answer \in Errors \ {"unsupported"}
             THEN [errs EXCEPT ![r] = @ \cup {answer}] ELSE errs

Onward(r) == /\ step' = [step EXCEPT ![r] = Following(step[r])]
             /\ UNCHANGED <<bytes, flaw, scans, name, only, verdict>>

(* NativeEngine.Inspect and PDFEngine.Inspect: another engine's document is *)
(* a routing miss.                                                          *)
AskShim(r) == /\ step[r] \in {"native", "pdf"}
              /\ \E answer \in Errors \cup {"native", "pdf"} :
                   ShimInspect(r, answer) /\ Learned(r, answer)
              /\ Onward(r)

(* The image engine reads the first bytes of the file. *)
Sniff(r) == /\ step[r] = "image"
            /\ \E answer \in {"internal"} \cup
                 {IF bytes = "image" THEN "image" ELSE "unsupported"} : Learned(r, answer)
            /\ Onward(r) /\ UNCHANGED memo

(* engine.Kind of the joined errors. *)
Kind(es) == IF es = {} \/ "unsupported" \in es THEN "unsupported"
            ELSE IF "encrypted" \in es THEN "encrypted"
            ELSE IF "malformed" \in es THEN "malformed" ELSE "internal"

Answer(r, v) == /\ step' = [step EXCEPT ![r] = "over"]
                /\ verdict' = [verdict EXCEPT ![r] = v]
                /\ UNCHANGED <<bytes, flaw, scans, memo, name, only, best, errs>>

(* MUTANT of Chosen: an engine that failed fails the inspection. *)
ChosenUnlessErrors(r) == best[r] # "none" /\ errs[r] = {}

Chosen(r) == best[r] # "none"

Reject(r) == step[r] = "choose" /\ ~Chosen(r) /\ Answer(r, Kind(errs[r]))

Report(r) == step[r] = "choose" /\ Chosen(r) /\ only[r] /\ Answer(r, "inspected")

(* All the pages that the reader which accepted reports are scanned ones;    *)
(* the one page of a native document never is.                              *)
OCRAlone(r) == best[r] \in {"pdf", "image"} /\ scans = "all"

(* Router.Process: the primary extraction is left out when OCR is to have    *)
(* every page.  What the OCR tier makes of them fails no job (Router).      *)
Route(r) == /\ step[r] = "choose" /\ Chosen(r) /\ ~only[r]
            /\ IF OCRAlone(r) THEN Answer(r, "ocr")
               ELSE /\ step' = [step EXCEPT ![r] = "extract"]
                    /\ UNCHANGED <<bytes, flaw, scans, memo, name, only, best, errs, verdict>>

(* The shim detects the format anew, by the filename of this request, and   *)
(* takes a list of pages for a PDF alone, which only PDFEngine sends.       *)
Extract(r) == /\ step[r] = "extract"
              /\ \E answer \in ShimCall(r) :
                   Answer(r, IF answer \in Errors THEN answer
                             ELSE IF best[r] = "pdf" /\ answer # "pdf" THEN "unsupported"
                             ELSE IF best[r] = "pdf" /\ scans = "some" THEN "both"
                             ELSE "read")

(* The process goes: the memo and the requests with it. *)
Forgotten == /\ bytes' = "none" /\ flaw' = "none" /\ scans' = "none" /\ memo' = "none"
             /\ name' = [r \in Requests |-> "other"] /\ only' = [r \in Requests |-> TRUE]
             /\ step' = [r \in Requests |-> "idle"]
             /\ best' = [r \in Requests |-> "none"]
             /\ errs' = [r \in Requests |-> {}]
             /\ verdict' = [r \in Requests |-> "none"]

InspectNext == \E r \in Requests :
  \/ Begin(r) \/ AskShim(r) \/ Sniff(r)
  \/ Reject(r) \/ Report(r) \/ Route(r) \/ Extract(r)

-----------------------------------------------------------------------------
InspectTypeOK ==
  /\ bytes \in Contents \cup {"none"} /\ flaw \in Flaws
  /\ scans \in {"none", "some", "all"}
  /\ memo \in {"none", "native", "pdf"}
  /\ name \in [Requests -> Names] /\ only \in [Requests -> BOOLEAN]
  /\ step \in [Requests -> Steps]
  /\ best \in [Requests -> Readers \cup {"none"}]
  /\ errs \in [Requests -> SUBSET Errors]
  /\ verdict \in [Requests -> Verdicts]

(* One broken engine does not mask a working one.  Once an engine has        *)
(* accepted the document, no inspection of it is rejected, nor a job that    *)
(* leaves all pages to OCR, whatever the other engines answered: only the    *)
(* primary extraction itself can reject it.  What that extraction reads is   *)
(* read by the engine whose document it is under this filename, and OCR gets *)
(* pages only of a document that has scanned ones.  And where no engine      *)
(* accepted a sound document that one of them reads, the one it belongs to   *)
(* has itself failed.  (Registry.Inspect, "so one broken engine cannot mask  *)
(* a working one".)                                                          *)
BrokenMasksNothing == \A r \in Requests : step[r] = "over" =>
  /\ verdict[r] \in Errors => best[r] = "none" \/ (~only[r] /\ ~OCRAlone(r))
  /\ verdict[r] \in {"read", "both"} => best[r] = Detect(r)
  /\ verdict[r] \in {"ocr", "both"} => scans # "none"
  /\ best[r] = "none" /\ flaw = "none" /\ (Detect(r) # "unsupported" \/ bytes = "image") =>
       "internal" \in errs[r]

(* The same document under the same name, rejected twice: inspection and     *)
(* extraction use the same word for it, however the errors of the engines    *)
(* and the memo fell, unless a call of the shim itself went wrong.           *)
(* (engine.Kind: "a caller the same word for the same problem".)             *)
SameWord == \A r, q \in Requests :
  name[r] = name[q] /\ {verdict[r], verdict[q]} \subseteq Errors \ {"internal"} =>
    verdict[r] = verdict[q]
=============================================================================
