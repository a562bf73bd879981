------------------------------ MODULE DocStore ------------------------------
(***************************************************************************)
(* What a document leaves behind, and what takes it away again: the blob   *)
(* store (src/internal/blob/blob.go), the work of a job (processDocument   *)
(* in src/cmd/dolico/main.go), the page cache (src/internal/cache), the    *)
(* DELETE handler (src/internal/api/api.go) and the retention sweep.       *)
(*                                                                         *)
(* The module follows one document, named by the digest of its upload, and *)
(* the one asset its extraction yields, a blob under its own digest.  What *)
(* other documents do to it are two actions: they fill the page cache      *)
(* (CacheCleared), and the bytes of the asset can be an upload of their    *)
(* own (TwinStored, TwinDeleted).                                          *)
(* Nothing in the code takes a lock around a document, so a step is one    *)
(* file-system call or one critical section of the cache.                  *)
(***************************************************************************)
EXTENDS Integers, FiniteSets

CONSTANTS Jobs,        \* the jobs that may run for this document
          NoJob,       \* the writer of a file that is not there
          Formats,     \* the formats the document may have
          Retention,   \* DOLICO_BLOB_TTL is set: blobs age and are swept
          Shared,      \* the bytes of the asset are uploaded and deleted, too
          DiskFails,   \* an asset may fail to be stored with its file there
          MaxCrashes   \* how often the process may be killed and restarted

(***************************************************************************)
(* "text": a PDF with usable text, read by the Rust shim.  "scanned": a    *)
(* PDF read by the OCR tier, whose failure leaves placeholder pages, not a *)
(* failed job.  "native": every other format; the shim reports it as one   *)
(* page, and it is the one with an asset.  The pages of all three are      *)
(* cached.                                                                 *)
(***************************************************************************)
ASSUME DocStoreAssumption ==
  /\ NoJob \notin Jobs
  /\ Formats \subseteq {"text", "scanned", "native"}
  /\ Retention \in BOOLEAN /\ Shared \in BOOLEAN /\ DiskFails \in BOOLEAN
  /\ MaxCrashes \in Nat

Digests == {"upload", "asset"}

VARIABLES
  format,     \* what the document is
  blob,       \* blob[d]: "absent", or the age of its modification time
  json, md,   \* the job that wrote canonical.json, document.md
  cached,     \* the pages of the document the page cache holds
  cachedRef,  \* whose scratch directory the asset entry of the cache points to
  inspected,  \* Shim.inspections holds the digest
  point,      \* point[j]: where job j is
  result,     \* result[j]: what job j extracted
  scratch,    \* scratch[j]: whose scratch directory the asset of j lies in still
  deleting,   \* where the DELETE handler is
  delBroken,  \* one of its removals has failed
  sweeping,   \* where the sweeper is
  sweepOf,    \* the digest it is at
  sweepLeft,  \* the digests it has still to look at
  swept,      \* the digests it has removed in this pass
  sweepBroken, \* a removal of that digest has failed
  crashes,    \* how often the process was killed
  alone,      \* history: the jobs nobody has disturbed since they were queued
  purge       \* history: what the latest DELETE may count on

files     == <<blob, json, md>>
pageCache == <<cached, cachedRef>>
memory    == <<pageCache, inspected>>
found     == <<result, scratch>>
jobVars   == <<point, found>>
delVars   == <<deleting, delBroken>>
sweepVars == <<sweeping, sweepOf, sweepLeft, swept, sweepBroken>>
history   == <<alone, purge>>
vars == <<format, files, memory, jobVars, delVars, sweepVars, crashes, history>>

(* Points of a job between Submit and its end, in the order of the code. *)
Working  == {"reuse", "process", "lookup", "reading", "caching", "assets",
             "json", "md"}
InFlight == Working \cup {"queued"}
Over     == {"skipped", "done", "failed", "lost"}
Points   == InFlight \cup Over \cup {"idle"}

Init ==
  /\ format \in Formats
  /\ blob = [d \in Digests |-> "absent"]
  /\ json = NoJob /\ md = NoJob
  /\ cached = "none" /\ cachedRef = NoJob /\ inspected = FALSE
  /\ point = [j \in Jobs |-> "idle"]
  /\ result = [j \in Jobs |-> "none"] /\ scratch = [j \in Jobs |-> NoJob]
  /\ deleting = "idle" /\ delBroken = FALSE
  /\ sweeping = "idle" /\ sweepOf = "upload"
  /\ sweepLeft = {} /\ swept = {} /\ sweepBroken = FALSE
  /\ crashes = 0
  /\ alone = Jobs
  /\ purge = "no"

Present(d) == blob[d] # "absent"
Goto(j, p) == point' = [point EXCEPT ![j] = p]

(* A job has the document to itself until somebody else writes or removes. *)
DisturbedBut(js) == alone' = alone \cap ({k \in Jobs : point[k] = "idle"} \cup js)

-----------------------------------------------------------------------------
(* Clients.  An upload, an inspection and an extraction of stored bytes.    *)

(* Put renames the new copy over the old one: the blob is as young as the   *)
(* latest upload.  It ends what an earlier DELETE may count on.             *)
Put == /\ blob' = [blob EXCEPT !["upload"] = "fresh"]
       /\ purge' = "no"

(* POST /v1/documents with the bytes. *)
Upload(j) == /\ point[j] = "idle"
             /\ Put
             /\ Goto(j, "queued")
             /\ UNCHANGED <<format, json, md, memory, found, delVars, sweepVars,
                            crashes, alone>>

(* POST /v1/inspect, or an upload whose job the full queue refuses: the     *)
(* bytes stay, and an inspection is remembered.                             *)
Keep == /\ Put
        /\ inspected' \in {inspected, TRUE}
        /\ UNCHANGED <<format, json, md, pageCache, jobVars, delVars, sweepVars,
                       crashes, alone>>

(* POST /v1/documents with the digest of bytes that are here. *)
ExtractStored(j) == /\ point[j] = "idle"
                    /\ Present("upload")
                    /\ Goto(j, "queued")
                    /\ purge' = IF purge = "quiet" THEN "no" ELSE purge
                    /\ UNCHANGED <<format, files, memory, found, delVars, sweepVars,
                                   crashes, alone>>

-----------------------------------------------------------------------------
(* The work of job j: storedPageCount first. *)

JobFrame == UNCHANGED <<format, delVars, sweepVars, crashes, purge>>

(* An extraction without a hole is finished, with or without its asset. *)
Finished == {"whole", "torn"}

(* canonical.json is not reusable when it is missing or records an outage. *)
ReadJSON(j) == /\ point[j] = "queued"
               /\ IF json # NoJob /\ result[json] \in Finished
                  THEN Goto(j, "reuse") ELSE Goto(j, "process")
               /\ UNCHANGED <<files, memory, found, alone>> /\ JobFrame

(* MUTANT of ReadMarkdown: a whole canonical.json is enough. *)
ReadMarkdownNever(j) == /\ point[j] = "reuse"
                        /\ Goto(j, "skipped")
                        /\ UNCHANGED <<files, memory, found, alone>> /\ JobFrame

ReadMarkdown(j) == /\ point[j] = "reuse"
                   /\ IF md # NoJob THEN Goto(j, "skipped") ELSE Goto(j, "process")
                   /\ UNCHANGED <<files, memory, found, alone>> /\ JobFrame

(* Process inspects: the shim opens the blob unless it remembers the digest. *)
Inspect(j) == /\ point[j] = "process"
              /\ Present("upload") \/ inspected
              /\ inspected' = TRUE
              /\ Goto(j, "lookup")
              /\ UNCHANGED <<files, pageCache, found, alone>> /\ JobFrame

HasAsset == format = "native"

(* What an extraction that returned has: its pages, and its asset as a path *)
(* in the scratch directory of the job that ran the engine.                 *)
Extracted(j, outcome, from) == /\ result' = [result EXCEPT ![j] = outcome]
                               /\ scratch' = [scratch EXCEPT ![j] = from]

(* MUTANT of FromCache: the pages of the cache are not put into the result. *)
FromCacheEmpty(j) == /\ point[j] = "lookup" /\ cached = "all"
                     /\ Goto(j, "json")
                     /\ UNCHANGED <<files, memory, found, alone>> /\ JobFrame

(* Every page is in the cache: no engine runs and no byte is read.  The     *)
(* assets come from an entry of their own, when there is one.               *)
FromCache(j) ==
  /\ point[j] = "lookup" /\ cached = "all"
  /\ \/ ~HasAsset /\ Extracted(j, "whole", NoJob) /\ Goto(j, "json")
     \/ HasAsset /\ cachedRef = NoJob /\ Extracted(j, "torn", NoJob) /\ Goto(j, "json")
     \/ HasAsset /\ cachedRef # NoJob /\ Extracted(j, "whole", cachedRef) /\ Goto(j, "assets")
  /\ UNCHANGED <<files, memory, alone>> /\ JobFrame

Misses == cached # "all"

(* The engine opens the blob by its path ... *)
OpenBlob(j) == /\ point[j] = "lookup" /\ Misses
               /\ Present("upload")
               /\ Goto(j, "reading")
               /\ UNCHANGED <<files, memory, found, alone>> /\ JobFrame

(* ... and returns every page, which the router puts in the cache ... *)
Extract(j) == /\ point[j] = "reading"
              /\ Extracted(j, "whole", IF HasAsset THEN j ELSE NoJob)
              /\ cached' = "all"
              /\ Goto(j, IF HasAsset THEN "caching" ELSE "json")
              /\ UNCHANGED <<files, cachedRef, inspected, alone>> /\ JobFrame

(* ... before it puts the assets there, with the paths the engine gave. *)
PutAssets(j) == /\ point[j] = "caching"
                /\ cachedRef' = j
                /\ Goto(j, "assets")
                /\ UNCHANGED <<files, cached, inspected, found, alone>> /\ JobFrame

(* The OCR service fails for all pages, or for some: the pages that came    *)
(* are cached, and the others are placeholders.                             *)
Outage(j) == /\ point[j] = "reading" /\ format = "scanned"
             /\ Extracted(j, "outage", NoJob)
             /\ Goto(j, "json")
             /\ cached' \in IF cached = "none" THEN {"none", "part"} ELSE {cached, "all"}
             /\ UNCHANGED <<files, cachedRef, inspected, alone>> /\ JobFrame

(* An OCR call that finds no blob to send is an outage like any other. *)
NothingToRead(j) == /\ point[j] = "lookup" /\ format = "scanned" /\ Misses
                    /\ ~Present("upload")
                    /\ Extracted(j, "outage", NoJob)
                    /\ Goto(j, "json")
                    /\ UNCHANGED <<files, memory, alone>> /\ JobFrame

(* A job removes its scratch directory when its work is over. *)
ScratchIsThere(j) == scratch[j] = j \/ point[scratch[j]] \in InFlight

(* The asset becomes a blob of its own, renamed over what is there. *)
StoreAsset(j) == /\ point[j] = "assets"
                 /\ ScratchIsThere(j)
                 /\ blob' = [blob EXCEPT !["asset"] = "fresh"]
                 /\ scratch' = [scratch EXCEPT ![j] = NoJob]
                 /\ Goto(j, "json")
                 /\ UNCHANGED <<json, md, memory, result, alone>> /\ JobFrame

(* MUTANT of LoseAsset: the digest goes into the document all the same. *)
LoseAssetUnseen(j) == /\ point[j] = "assets"
                      /\ Goto(j, "json")
                      /\ UNCHANGED <<files, memory, found, alone>> /\ JobFrame

(* A file that cannot be stored is logged and passed over: the document     *)
(* keeps a path in a scratch directory that is gone or will be.             *)
LoseAsset(j) == /\ point[j] = "assets"
                /\ DiskFails \/ ~ScratchIsThere(j)
                /\ Extracted(j, "torn", NoJob)
                /\ Goto(j, "json")
                /\ UNCHANGED <<files, memory, alone>> /\ JobFrame

WriteJSON(j) == /\ point[j] = "json"
                /\ json' = j
                /\ Goto(j, "md")
                /\ DisturbedBut({j})
                /\ UNCHANGED <<blob, md, memory, found>> /\ JobFrame

WriteMarkdown(j) == /\ point[j] = "md"
                    /\ md' = j
                    /\ Goto(j, "done")
                    /\ DisturbedBut({j})
                    /\ UNCHANGED <<blob, json, memory, found>> /\ JobFrame

(* The work returns an error or panics: a scratch directory or a file that  *)
(* cannot be written, a blob that is gone, an engine that fails.            *)
Fail(j) == /\ point[j] \in {"process", "lookup", "reading", "json", "md"}
           /\ Goto(j, "failed")
           /\ UNCHANGED <<files, memory, found, alone>> /\ JobFrame

(* Put empties the whole page cache when other documents have filled it. *)
CacheCleared == /\ cached # "none"
                /\ cached' = "none"
                /\ UNCHANGED <<format, files, cachedRef, inspected, jobVars, delVars,
                               sweepVars, crashes, history>>

(* PutAssets does the same with the asset entries, on a count of their own. *)
AssetsCleared == /\ cachedRef # NoJob
                 /\ cachedRef' = NoJob
                 /\ UNCHANGED <<format, files, cached, inspected, jobVars, delVars,
                                sweepVars, crashes, history>>

(* The bytes of the asset are uploaded as a document of their own, or       *)
(* another document that holds them is extracted.                           *)
TwinStored == /\ Shared
              /\ blob' = [blob EXCEPT !["asset"] = "fresh"]
              /\ UNCHANGED <<format, json, md, memory, jobVars, delVars, sweepVars,
                             crashes, history>>

(* DELETE names those bytes: Remove knows of no other document they are in. *)
TwinDeleted == /\ Shared
               /\ blob' = [blob EXCEPT !["asset"] = "absent"]
               /\ DisturbedBut({})
               /\ UNCHANGED <<format, json, md, memory, jobVars, delVars, sweepVars,
                              crashes, purge>>

-----------------------------------------------------------------------------
(* Store.Remove, as its two callers see it: the derived files, then the     *)
(* blob whatever became of the derived files.                               *)

RemoveDerived(d) ==
  IF d = "upload" THEN json' = NoJob /\ md' = NoJob /\ DisturbedBut({})
                  ELSE UNCHANGED <<json, md, alone>>

(* RemoveAll stops at an error, with what it has not removed left behind. *)
RemoveDerivedFails(d) ==
  IF d = "upload" THEN json' \in {json, NoJob} /\ md' \in {md, NoJob} /\ DisturbedBut({})
                  ELSE UNCHANGED <<json, md, alone>>

RemoveBlob(d) == blob' = [blob EXCEPT ![d] = "absent"]

DeleteFrame == UNCHANGED <<format, memory, jobVars, sweepVars, crashes>>

Quiet == \A j \in Jobs : point[j] \notin InFlight

(* DELETE /v1/documents/{id}. *)
DeleteStart == /\ deleting = "idle"
               /\ deleting' = "derived" /\ UNCHANGED delBroken
               /\ purge' = IF Quiet THEN "quiet" ELSE "no"
               /\ UNCHANGED <<files, alone>> /\ DeleteFrame

DeleteDerived == /\ deleting = "derived"
                 /\ deleting' = "blob"
                 /\ \/ RemoveDerived("upload") /\ UNCHANGED delBroken
                    \/ RemoveDerivedFails("upload") /\ delBroken' = TRUE
                 /\ UNCHANGED <<blob, purge>> /\ DeleteFrame

(* MUTANT of DeleteBlob: only the error of the last removal is returned. *)
DeleteBlobLastError ==
  /\ deleting = "blob"
  /\ \/ RemoveBlob("upload") /\ deleting' = "forget" /\ UNCHANGED purge
     \/ UNCHANGED blob /\ deleting' = "idle" /\ purge' = "no"
  /\ delBroken' = FALSE
  /\ UNCHANGED <<json, md, alone>> /\ DeleteFrame

(* A broken removal is answered with 500, and the cache is not told. *)
DeleteBlob ==
  /\ deleting = "blob"
  /\ \/ RemoveBlob("upload") /\ ~delBroken /\ deleting' = "forget" /\ UNCHANGED purge
     \/ RemoveBlob("upload") /\ delBroken /\ deleting' = "idle" /\ purge' = "no"
     \/ UNCHANGED blob /\ deleting' = "idle" /\ purge' = "no"
  /\ delBroken' = FALSE
  /\ UNCHANGED <<json, md, alone>> /\ DeleteFrame

(* Cache.Forget, and 204. *)
DeleteForget == /\ deleting = "forget"
                /\ deleting' = "idle"
                /\ cached' = "none" /\ cachedRef' = NoJob
                /\ purge' = IF purge = "quiet" THEN "gone" ELSE purge
                /\ UNCHANGED <<format, files, inspected, jobVars, delBroken, sweepVars,
                               crashes, alone>>

-----------------------------------------------------------------------------
(* The sweeper: Store.Sweep, then Cache.Forget for what it removed. *)

SweepFrame == UNCHANGED <<format, inspected, jobVars, delVars, crashes, purge>>

SweepStart == /\ Retention /\ sweeping = "idle"
              /\ sweeping' = "scan"
              /\ sweepLeft' = {d \in Digests : Present(d)}
              /\ swept' = {}
              /\ UNCHANGED <<files, pageCache, sweepOf, sweepBroken, alone>> /\ SweepFrame

(* The next entry is young, gone, or cannot be looked at ... *)
SweepPass(d) == /\ sweeping = "scan" /\ d \in sweepLeft
                /\ sweepLeft' = sweepLeft \ {d}
                /\ UNCHANGED <<files, pageCache, sweeping, sweepOf, swept, sweepBroken, alone>>
                /\ SweepFrame

(* MUTANT of SweepOld: the modification time is after the cutoff. *)
SweepOldAfter(d) == /\ sweeping = "scan" /\ d \in sweepLeft
                    /\ blob[d] = "fresh"
                    /\ sweepLeft' = sweepLeft \ {d}
                    /\ sweeping' = "derived" /\ sweepOf' = d
                    /\ UNCHANGED <<files, pageCache, swept, sweepBroken, alone>> /\ SweepFrame

(* ... or its modification time is before the cutoff. *)
SweepOld(d) == /\ sweeping = "scan" /\ d \in sweepLeft
               /\ blob[d] = "old"
               /\ sweepLeft' = sweepLeft \ {d}
               /\ sweeping' = "derived" /\ sweepOf' = d
               /\ UNCHANGED <<files, pageCache, swept, sweepBroken, alone>> /\ SweepFrame

SweepDerived == /\ sweeping = "derived"
                /\ sweeping' = "blob"
                /\ \/ RemoveDerived(sweepOf) /\ UNCHANGED sweepBroken
                   \/ RemoveDerivedFails(sweepOf) /\ sweepBroken' = TRUE
                /\ UNCHANGED <<blob, pageCache, sweepOf, sweepLeft, swept>> /\ SweepFrame

SweepBlob == /\ sweeping = "blob"
             /\ sweeping' = "scan"
             /\ RemoveBlob(sweepOf)
             /\ swept' = IF sweepBroken THEN swept ELSE swept \cup {sweepOf}
             /\ sweepOf' = "upload" /\ sweepBroken' = FALSE
             /\ IF sweepOf = "asset" THEN DisturbedBut({}) ELSE UNCHANGED alone
             /\ UNCHANGED <<json, md, pageCache, sweepLeft>>
             /\ SweepFrame

SweepBlobFails == /\ sweeping = "blob"
                  /\ sweeping' = "scan"
                  /\ sweepOf' = "upload" /\ sweepBroken' = FALSE
                  /\ UNCHANGED <<files, pageCache, sweepLeft, swept, alone>>
                  /\ SweepFrame

SweepEnd == /\ sweeping = "scan" /\ sweepLeft = {}
            /\ sweeping' = "idle" /\ swept' = {}
            /\ IF "upload" \in swept THEN cached' = "none" /\ cachedRef' = NoJob
                                     ELSE UNCHANGED pageCache
            /\ UNCHANGED <<files, sweepOf, sweepLeft, sweepBroken, alone>>
            /\ SweepFrame

(* The TTL passes. *)
Age(d) == /\ Retention /\ blob[d] = "fresh"
          /\ blob' = [blob EXCEPT ![d] = "old"]
          /\ UNCHANGED <<format, json, md, memory, jobVars, delVars, sweepVars, crashes,
                         history>>

-----------------------------------------------------------------------------
(* The process dies and starts again: the files stay, all else is lost. *)
Crash == /\ crashes < MaxCrashes
         /\ crashes' = crashes + 1
         /\ point' = [j \in Jobs |-> IF point[j] \in InFlight THEN "lost" ELSE point[j]]
         /\ cached' = "none" /\ cachedRef' = NoJob /\ inspected' = FALSE
         /\ deleting' = "idle" /\ delBroken' = FALSE
         /\ sweeping' = "idle" /\ sweepOf' = "upload"
         /\ sweepLeft' = {} /\ swept' = {} /\ sweepBroken' = FALSE
         /\ purge' = IF purge = "quiet" THEN "no" ELSE purge
         /\ UNCHANGED <<format, files, found, alone>>

Submitted(j) == Upload(j) \/ ExtractStored(j)

JobStep(j) ==
  \/ ReadJSON(j) \/ ReadMarkdown(j) \/ Inspect(j) \/ FromCache(j) \/ OpenBlob(j)
  \/ Extract(j) \/ PutAssets(j) \/ Outage(j) \/ NothingToRead(j)
  \/ StoreAsset(j) \/ LoseAsset(j)
  \/ WriteJSON(j) \/ WriteMarkdown(j) \/ Fail(j)

DeleteStep == DeleteStart \/ DeleteDerived \/ DeleteBlob \/ DeleteForget

SweepStep == \/ SweepStart
             \/ \E d \in Digests : SweepPass(d) \/ SweepOld(d)
             \/ SweepDerived \/ SweepBlob \/ SweepBlobFails \/ SweepEnd

Next == \/ \E j \in Jobs : Submitted(j) \/ JobStep(j)
        \/ Keep \/ CacheCleared \/ AssetsCleared \/ TwinStored \/ TwinDeleted
        \/ DeleteStep \/ SweepStep
        \/ \E d \in Digests : Age(d)
        \/ Crash

Spec == Init /\ [][Next]_vars

-----------------------------------------------------------------------------
(* What a GET finds: 200, or 404 for what is not there.                     *)

DocumentServed == json # NoJob
MarkdownServed == md # NoJob

(* getAsset reads canonical.json for the digest first.  A torn document has *)
(* an entry without one.                                                    *)
AssetServed == DocumentServed /\ result[json] = "whole" /\ Present("asset")

(***************************************************************************)
(* Scheduling of the sweeper.  The ticker starts a pass again and again,   *)
(* and a pass goes on.  A removal that can fail does not fail for ever,    *)
(* and an old blob is not unreadable for ever.                             *)
(***************************************************************************)
Fairness == /\ WF_vars(SweepStart)
            /\ \A d \in Digests : WF_vars(SweepPass(d)) /\ SF_vars(SweepOld(d))
            /\ WF_vars(SweepDerived)
            /\ \A d \in Digests : SF_vars(SweepBlob /\ sweepOf = d)
            /\ WF_vars(SweepBlobFails)
            /\ WF_vars(SweepEnd)

FairSpec == Spec /\ Fairness

-----------------------------------------------------------------------------
(* Properties. *)

TypeOK ==
  /\ format \in Formats
  /\ blob \in [Digests -> {"absent", "fresh", "old"}]
  /\ json \in Jobs \cup {NoJob} /\ md \in Jobs \cup {NoJob}
  /\ cached \in {"none", "part", "all"} /\ cachedRef \in Jobs \cup {NoJob}
  /\ inspected \in BOOLEAN
  /\ point \in [Jobs -> Points]
  /\ result \in [Jobs -> {"none", "whole", "torn", "outage"}]
  /\ scratch \in [Jobs -> Jobs \cup {NoJob}]
  /\ deleting \in {"idle", "derived", "blob", "forget"} /\ delBroken \in BOOLEAN
  /\ sweeping \in {"idle", "scan", "derived", "blob"} /\ sweepOf \in Digests
  /\ sweepLeft \subseteq Digests /\ swept \subseteq Digests /\ sweepBroken \in BOOLEAN
  /\ crashes \in 0..MaxCrashes
  /\ alone \subseteq Jobs
  /\ purge \in {"no", "quiet", "gone"}
  /\ \A j \in Jobs :
       /\ point[j] \in {"caching", "assets", "json", "md", "done"} => result[j] # "none"
       /\ point[j] \in {"caching", "assets"} => scratch[j] \in Jobs

(* A job that nobody disturbed and that ends well leaves the document to be *)
(* read: both files are there, and canonical.json has every page unless the *)
(* job itself met an outage.  An earlier run that crashed or failed between *)
(* the two writes, or that stored an outage, does not change that           *)
(* (processDocument 374-442, storedPageCount 450-479).                      *)
DoneMeansServed ==
  \A j \in alone :
    point[j] \in {"skipped", "done"} =>
      /\ DocumentServed /\ MarkdownServed
      /\ result[json] \in Finished \/ json = j

(* A job that stored the asset of its document and that nobody disturbed    *)
(* since, by taking the asset in a sweep or as another upload, ends with a  *)
(* document whose asset can be served; one whose asset was lost on the way  *)
(* does not pretend to have it (the asset loop of processDocument 413-428,  *)
(* getAsset in api.go).                                                     *)
DoneKeepsAsset ==
  \A j \in alone :
    format = "native" /\ point[j] = "done" /\ result[j] = "whole" => AssetServed

(* Without the asset entries "a run that hits the page cache would return   *)
(* no assets and overwrite a perfectly good stored document with an         *)
(* asset-less one" (cache.go 74-76).  With them it should not.              *)
CacheHitKeepsAssets ==
  [][\A j \in Jobs :
       WriteJSON(j) /\ json # NoJob /\ result[json] = "whole" => result[j] = "whole"]_vars

(* After a DELETE that began with no job of the document in flight and was  *)
(* answered with 204, the uploaded bytes, the extraction and what the page   *)
(* cache holds of it are gone until the bytes are uploaded again            *)
(* (deleteDocument 380-395, Remove 168-177, Forget 165-186).  The blob of   *)
(* its asset is not removed, though README.md 163 says so.                  *)
QuietDeleteIsComplete ==
  purge = "gone" => /\ json = NoJob /\ md = NoJob /\ ~Present("upload")
                      /\ cached = "none" /\ cachedRef = NoJob

(* Markdown is a view of canonical.json (README.md 250), and a run that was *)
(* interrupted between the two writes is redone (main.go 474-475): once a   *)
(* job has ended well, undisturbed and last, the two files tell the same.   *)
MarkdownIsView ==
  \A j \in alone :
    point[j] \in {"skipped", "done"} /\ Quiet => result[md] = result[json]

(* Bytes that nobody uploads again do not stay past a TTL, and neither does *)
(* the asset of a document that a DELETE has taken (Store.Sweep, the ticker *)
(* of run).                                                                 *)
AbandonedIsSwept == \A d \in Digests : blob[d] = "old" ~> blob[d] # "old"
=============================================================================
