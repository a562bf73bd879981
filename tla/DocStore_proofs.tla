--------------------------- MODULE DocStore_proofs ---------------------------
(***************************************************************************)
(* Proofs about DocStore, for any set of jobs, any formats, with or        *)
(* without retention, and for any number of crashes.                       *)
(***************************************************************************)
EXTENDS DocStore, TLAPS

-----------------------------------------------------------------------------
(* The types.                                                               *)

LEMMA PointsAre ==
  Points = {"idle", "queued", "reuse", "process", "lookup", "reading", "caching", "assets",
            "json", "md", "skipped", "done", "failed", "lost"}
  BY DEF Points, InFlight, Working, Over

LEMMA TypeInit == Init => TypeOK
  <1> SUFFICES ASSUME Init PROVE TypeOK
    OBVIOUS
  <1>1. crashes \in 0..MaxCrashes
    BY DocStoreAssumption DEF Init
  <1> QED BY <1>1, PointsAre DEF Init, TypeOK, Digests

LEMMA TypeStep == TypeOK /\ [Next]_vars => TypeOK'
  <1> USE DEF TypeOK, Digests, Goto, files, pageCache, memory, found, jobVars, delVars,
             sweepVars, history
  <1>1. ASSUME TypeOK, NEW j \in Jobs, Upload(j) PROVE TypeOK'
    BY <1>1, PointsAre DEF Upload, Put, JobFrame
  <1>2. ASSUME TypeOK, NEW j \in Jobs, ExtractStored(j) PROVE TypeOK'
    BY <1>2, PointsAre DEF ExtractStored, JobFrame
  <1>3. ASSUME TypeOK, NEW j \in Jobs, ReadJSON(j) PROVE TypeOK'
    BY <1>3, PointsAre DEF ReadJSON, JobFrame
  <1>4. ASSUME TypeOK, NEW j \in Jobs, ReadMarkdown(j) PROVE TypeOK'
    BY <1>4, PointsAre DEF ReadMarkdown, JobFrame
  <1>5. ASSUME TypeOK, NEW j \in Jobs, Inspect(j) PROVE TypeOK'
    BY <1>5, PointsAre DEF Inspect, JobFrame
  <1>6. ASSUME TypeOK, NEW j \in Jobs, FromCache(j) PROVE TypeOK'
    BY <1>6, PointsAre DEF FromCache, Extracted, JobFrame
  <1>7. ASSUME TypeOK, NEW j \in Jobs, OpenBlob(j) PROVE TypeOK'
    BY <1>7, PointsAre DEF OpenBlob, JobFrame
  <1>8. ASSUME TypeOK, NEW j \in Jobs, Extract(j) PROVE TypeOK'
    BY <1>8, PointsAre DEF Extract, Extracted, JobFrame
  <1>33. ASSUME TypeOK, NEW j \in Jobs, PutAssets(j) PROVE TypeOK'
    BY <1>33, PointsAre DEF PutAssets, JobFrame
  <1>9. ASSUME TypeOK, NEW j \in Jobs, Outage(j) PROVE TypeOK'
    BY <1>9, PointsAre DEF Outage, Extracted, JobFrame
  <1>10. ASSUME TypeOK, NEW j \in Jobs, NothingToRead(j) PROVE TypeOK'
    BY <1>10, PointsAre DEF NothingToRead, Extracted, JobFrame
  <1>11. ASSUME TypeOK, NEW j \in Jobs, StoreAsset(j) PROVE TypeOK'
    BY <1>11, PointsAre DEF StoreAsset, JobFrame
  <1>32. ASSUME TypeOK, NEW j \in Jobs, LoseAsset(j) PROVE TypeOK'
    BY <1>32, PointsAre DEF LoseAsset, Extracted, JobFrame
  <1>12. ASSUME TypeOK, NEW j \in Jobs, WriteJSON(j) PROVE TypeOK'
    BY <1>12, PointsAre DEF WriteJSON, DisturbedBut, JobFrame
  <1>13. ASSUME TypeOK, NEW j \in Jobs, WriteMarkdown(j) PROVE TypeOK'
    BY <1>13, PointsAre DEF WriteMarkdown, DisturbedBut, JobFrame
  <1>14. ASSUME TypeOK, NEW j \in Jobs, Fail(j) PROVE TypeOK'
    BY <1>14, PointsAre DEF Fail, JobFrame
  <1>15. ASSUME TypeOK, Keep PROVE TypeOK'
    <2>1. inspected' \in BOOLEAN
      BY <1>15, Zenon DEF Keep
    <2> QED BY <1>15, <2>1 DEF Keep, Put
  <1>16. ASSUME TypeOK, CacheCleared PROVE TypeOK'
    <2>1. /\ cached' = "none"
          /\ UNCHANGED <<format, blob, json, md, cachedRef, inspected, point, result, scratch>>
      BY <1>16 DEF CacheCleared
    <2>2. UNCHANGED <<deleting, delBroken, sweeping, sweepOf, sweepLeft, swept,
                      sweepBroken, crashes, alone, purge>>
      BY <1>16 DEF CacheCleared
    <2> QED BY <1>16, <2>1, <2>2
  <1>34. ASSUME TypeOK, AssetsCleared PROVE TypeOK'
    <2>1. /\ cachedRef' = NoJob
          /\ UNCHANGED <<format, blob, json, md, cached, inspected, point, result, scratch>>
      BY <1>34 DEF AssetsCleared
    <2>2. UNCHANGED <<deleting, delBroken, sweeping, sweepOf, sweepLeft, swept,
                      sweepBroken, crashes, alone, purge>>
      BY <1>34 DEF AssetsCleared
    <2> QED BY <1>34, <2>1, <2>2
  <1>17. ASSUME TypeOK, DeleteStart PROVE TypeOK'
    BY <1>17 DEF DeleteStart, DeleteFrame
  <1>18. ASSUME TypeOK, DeleteDerived PROVE TypeOK'
    <2>1. delBroken' \in BOOLEAN
      BY <1>18, Zenon DEF DeleteDerived
    <2>2. json' \in {json, NoJob} /\ md' \in {md, NoJob} /\ alone' \subseteq alone
      BY <1>18 DEF DeleteDerived, RemoveDerived, RemoveDerivedFails, DisturbedBut
    <2>3. deleting' = "blob" /\ UNCHANGED <<blob, purge>> /\ DeleteFrame
      BY <1>18 DEF DeleteDerived
    <2> QED BY <1>18, <2>1, <2>2, <2>3 DEF DeleteFrame
  <1>19. ASSUME TypeOK, DeleteBlob PROVE TypeOK'
    <2>1. delBroken' \in BOOLEAN
      BY <1>19, Zenon DEF DeleteBlob
    <2>2. /\ blob' \in [Digests -> {"absent", "fresh", "old"}]
          /\ deleting' \in {"idle", "forget"} /\ purge' \in {purge, "no"}
      BY <1>19 DEF DeleteBlob, RemoveBlob
    <2>3. UNCHANGED <<json, md, alone>> /\ DeleteFrame
      BY <1>19 DEF DeleteBlob
    <2> QED BY <1>19, <2>1, <2>2, <2>3 DEF DeleteFrame
  <1>20. ASSUME TypeOK, DeleteForget PROVE TypeOK'
    BY <1>20 DEF DeleteForget
  <1>21. ASSUME TypeOK, SweepStart PROVE TypeOK'
    BY <1>21 DEF SweepStart, SweepFrame
  <1>22. ASSUME TypeOK, SweepDerived PROVE TypeOK'
    <2>1. sweepBroken' \in BOOLEAN
      BY <1>22, Zenon DEF SweepDerived
    <2>2. json' \in {json, NoJob} /\ md' \in {md, NoJob} /\ alone' \subseteq alone
      BY <1>22 DEF SweepDerived, RemoveDerived, RemoveDerivedFails, DisturbedBut
    <2>3. /\ sweeping' = "blob"
          /\ UNCHANGED <<blob, pageCache, sweepOf, sweepLeft, swept>> /\ SweepFrame
      BY <1>22 DEF SweepDerived
    <2> QED BY <1>22, <2>1, <2>2, <2>3 DEF SweepFrame
  <1>23. ASSUME TypeOK, SweepBlob PROVE TypeOK'
    <2>1. sweepBroken' \in BOOLEAN
      BY <1>23, Zenon DEF SweepBlob
    <2>2. /\ blob' \in [Digests -> {"absent", "fresh", "old"}] /\ swept' \subseteq Digests
          /\ sweeping' = "scan" /\ sweepOf' = "upload"
      BY <1>23 DEF SweepBlob, RemoveBlob
    <2>3. /\ alone' \subseteq alone
          /\ UNCHANGED <<json, md, pageCache, sweepLeft>> /\ SweepFrame
      BY <1>23 DEF SweepBlob, DisturbedBut
    <2> QED BY <1>23, <2>1, <2>2, <2>3 DEF SweepFrame
  <1>24. ASSUME TypeOK, SweepBlobFails PROVE TypeOK'
    <2>1. sweepBroken' \in BOOLEAN
      BY <1>24, Zenon DEF SweepBlobFails
    <2>2. /\ sweeping' = "scan" /\ sweepOf' = "upload"
          /\ UNCHANGED <<files, pageCache, sweepLeft, swept, alone>> /\ SweepFrame
      BY <1>24 DEF SweepBlobFails
    <2> QED BY <1>24, <2>1, <2>2 DEF SweepFrame
  <1>25. ASSUME TypeOK, SweepEnd PROVE TypeOK'
    BY <1>25 DEF SweepEnd, SweepFrame
  <1>26. ASSUME TypeOK, NEW d \in Digests, SweepPass(d) PROVE TypeOK'
    BY <1>26 DEF SweepPass, SweepFrame
  <1>27. ASSUME TypeOK, NEW d \in Digests, SweepOld(d) PROVE TypeOK'
    BY <1>27 DEF SweepOld, SweepFrame
  <1>28. ASSUME TypeOK, NEW d \in Digests, Age(d) PROVE TypeOK'
    BY <1>28 DEF Age
  <1>29. ASSUME TypeOK, Crash PROVE TypeOK'
    <2>1. crashes' \in 0..MaxCrashes
      BY <1>29, DocStoreAssumption DEF Crash
    <2> QED BY <1>29, <2>1, PointsAre DEF Crash
  <1>30. ASSUME TypeOK, TwinStored \/ TwinDeleted PROVE TypeOK'
    <2>1. /\ blob' \in [Digests -> {"absent", "fresh", "old"}] /\ alone' \subseteq alone
          /\ UNCHANGED <<format, json, md, point, result, scratch, deleting, crashes, purge>>
      BY <1>30 DEF TwinStored, TwinDeleted, DisturbedBut
    <2>2. UNCHANGED <<cached, cachedRef, inspected, delBroken, sweeping, sweepOf, sweepLeft, swept,
                      sweepBroken>>
      BY <1>30 DEF TwinStored, TwinDeleted
    <2> QED BY <1>30, <2>1, <2>2
  <1>31. ASSUME TypeOK, UNCHANGED vars PROVE TypeOK'
    BY <1>31 DEF vars
  <1> QED BY <1>1, <1>2, <1>3, <1>4, <1>5, <1>6, <1>7, <1>8, <1>9, <1>10, <1>11,
         <1>12, <1>13, <1>14, <1>15, <1>16, <1>17, <1>18, <1>19, <1>20, <1>21,
         <1>22, <1>23, <1>24, <1>25, <1>26, <1>27, <1>28, <1>29, <1>30, <1>31,
         <1>32, <1>33, <1>34
           DEF Next, Submitted, JobStep, DeleteStep, SweepStep

(* Every variable of the document store keeps its type, and a job that      *)
(* writes has something to write.                                           *)
THEOREM TypeCorrect == Spec => []TypeOK
  <1>1. Init => TypeOK
    BY TypeInit
  <1>2. TypeOK /\ [Next]_vars => TypeOK'
    BY TypeStep
  <1> QED BY <1>1, <1>2, PTL DEF Spec
-----------------------------------------------------------------------------
(* The inductive invariant.                                                 *)

(* The file that is there was put there by the job it names. *)
Writers ==
  /\ json # NoJob => point[json] \in {"md", "done", "failed", "lost"}
  /\ md # NoJob => point[md] = "done"

(* What a job that nobody disturbed has seen or written is still so. *)
Undisturbed ==
  \A j \in alone :
    /\ point[j] = "reuse" => json # NoJob /\ result[json] \in Finished
    /\ point[j] = "skipped" => json # NoJob /\ result[json] \in Finished /\ md # NoJob
    /\ point[j] = "md" => json = j
    /\ point[j] = "done" => json = j /\ md = j

(* The asset a job has stored is there until it is taken from the job. *)
AssetStored ==
  \A j \in alone :
    format = "native" /\ point[j] \in {"json", "md", "done"} /\ result[j] = "whole"
      => Present("asset")

NoFiles == json = NoJob /\ md = NoJob

(* How far a DELETE that no job disturbs has come. *)
Purging ==
  purge = "quiet" =>
    /\ Quiet /\ deleting # "idle"
    /\ deleting = "blob" /\ ~delBroken => NoFiles
    /\ deleting = "forget" => NoFiles /\ ~Present("upload")

Purged ==
  purge = "gone" =>
    /\ Quiet /\ deleting = "idle"
    /\ NoFiles /\ ~Present("upload") /\ cached = "none" /\ cachedRef = NoJob

IInv == TypeOK /\ Writers /\ Undisturbed /\ AssetStored /\ Purging /\ Purged

LEMMA InvInit == Init => IInv
  <1> SUFFICES ASSUME Init PROVE IInv
    OBVIOUS
  <1>1. TypeOK
    BY TypeInit
  <1>2. Writers /\ Undisturbed /\ AssetStored
    BY DEF Init, Writers, Undisturbed, AssetStored
  <1>3. Purging /\ Purged
    BY DEF Init, Purging, Purged
  <1> QED BY <1>1, <1>2, <1>3 DEF IInv

(* What a client, the cache, a removal and a restart do to the jobs: at     *)
(* most they queue or lose some, and take files away.                       *)
LEMMA OthersStep ==
  ASSUME IInv,
         \/ \E j \in Jobs : Submitted(j)
         \/ Keep \/ CacheCleared \/ AssetsCleared \/ TwinStored \/ TwinDeleted
         \/ DeleteStep \/ SweepStep
         \/ \E d \in Digests : Age(d)
         \/ Crash
  PROVE  (Writers /\ Undisturbed)'
  <1> USE DEF IInv, TypeOK
  <1>1. ASSUME NEW j \in Jobs, Submitted(j) PROVE (Writers /\ Undisturbed)'
    <2>1. /\ point[j] = "idle" /\ point' = [point EXCEPT ![j] = "queued"]
          /\ UNCHANGED <<json, md, result, alone>>
      BY <1>1 DEF Submitted, Upload, ExtractStored, Put, Goto, files, found
    <2> QED BY <2>1, DocStoreAssumption DEF Writers, Undisturbed
  <1>2. CASE UNCHANGED <<json, md, point, result, alone>>
    BY <1>2 DEF Writers, Undisturbed
  <1>3. CASE /\ json' \in {json, NoJob} /\ md' \in {md, NoJob}
             /\ DisturbedBut({}) /\ UNCHANGED <<point, result>>
    BY <1>3 DEF Writers, Undisturbed, DisturbedBut
  <1>4. CASE Crash
    BY <1>4, DocStoreAssumption DEF Crash, Writers, Undisturbed, files, found, InFlight, Working
  <1>5. CASE Keep \/ CacheCleared \/ AssetsCleared \/ TwinStored \/ \E d \in Digests : Age(d)
    BY <1>5, <1>2 DEF Keep, CacheCleared, AssetsCleared, TwinStored, Age, Put, jobVars, found, history, files
  <1>8. CASE TwinDeleted
    BY <1>8, <1>3 DEF TwinDeleted, jobVars, found
  <1>6. CASE DeleteStep
    <2>1. CASE DeleteDerived
      BY <2>1, <1>3 DEF DeleteDerived, RemoveDerived, RemoveDerivedFails, DeleteFrame, jobVars, found
    <2>2. CASE DeleteStart \/ DeleteBlob \/ DeleteForget
      BY <2>2, <1>2 DEF DeleteStart, DeleteBlob, DeleteForget, DeleteFrame, files, found, jobVars
    <2> QED BY <1>6, <2>1, <2>2 DEF DeleteStep
  <1>7. CASE SweepStep
    <2>1. CASE SweepDerived
      BY <2>1, <1>2, <1>3 DEF SweepDerived, RemoveDerived, RemoveDerivedFails, SweepFrame, jobVars, found
    <2>2. CASE SweepStart \/ SweepBlobFails \/ SweepEnd
      BY <2>2, <1>2 DEF SweepStart, SweepBlobFails, SweepEnd, SweepFrame, files, found, jobVars
    <2>4. CASE SweepBlob
      BY <2>4, <1>2, <1>3 DEF SweepBlob, SweepFrame, jobVars, found
    <2>3. ASSUME NEW d \in Digests, SweepPass(d) \/ SweepOld(d)
          PROVE (Writers /\ Undisturbed)'
      BY <2>3, <1>2 DEF SweepPass, SweepOld, SweepFrame, files, found, jobVars
    <2> QED BY <1>7, <2>1, <2>2, <2>3, <2>4 DEF SweepStep
  <1> QED BY <1>1, <1>4, <1>5, <1>6, <1>7, <1>8

(* A step of a job: what it reads and writes is its own.                    *)
LEMMA JobsStep ==
  ASSUME IInv, NEW j \in Jobs, JobStep(j) PROVE (Writers /\ Undisturbed)'
  <1> USE DEF IInv, TypeOK, Goto
  <1>1. CASE WriteJSON(j)
    BY <1>1, DocStoreAssumption DEF WriteJSON, DisturbedBut, Writers, Undisturbed
  <1>2. CASE WriteMarkdown(j)
    BY <1>2, DocStoreAssumption DEF WriteMarkdown, DisturbedBut, Writers, Undisturbed
  <1>3. CASE ReadJSON(j)
    BY <1>3, DocStoreAssumption DEF ReadJSON, Writers, Undisturbed, files, found, Finished
  <1>4. CASE ReadMarkdown(j)
    BY <1>4, DocStoreAssumption DEF ReadMarkdown, Writers, Undisturbed, files, found
  <1>5. CASE Inspect(j) \/ OpenBlob(j) \/ PutAssets(j) \/ StoreAsset(j)
    BY <1>5, DocStoreAssumption DEF Inspect, OpenBlob, PutAssets, StoreAsset, Writers, Undisturbed, files, found
  <1>6. CASE FromCache(j) \/ Extract(j) \/ Outage(j) \/ NothingToRead(j)
    <2>1. /\ point[j] \in {"lookup", "reading"}
          /\ \E o \in {"whole", "torn", "outage"}, k \in Jobs \cup {NoJob} : Extracted(j, o, k)
          /\ \E p \in {"caching", "assets", "json"} : Goto(j, p)
          /\ UNCHANGED <<json, md, alone>>
      BY <1>6 DEF FromCache, Extract, Outage, NothingToRead, files
    <2> QED BY <2>1, DocStoreAssumption DEF Extracted, Writers, Undisturbed
  <1>7. CASE Fail(j)
    BY <1>7, DocStoreAssumption DEF Fail, Writers, Undisturbed, files, found
  <1>8. CASE LoseAsset(j)
    BY <1>8, DocStoreAssumption DEF LoseAsset, Extracted, Writers, Undisturbed, files, Finished
  <1> QED BY <1>1, <1>2, <1>3, <1>4, <1>5, <1>6, <1>7, <1>8 DEF JobStep

(* Whatever takes the asset away takes the claim of the jobs with it, and a *)
(* job comes past the asset loop with the asset stored or known to be lost. *)
LEMMA AssetStep == ASSUME IInv, [Next]_vars PROVE AssetStored'
  <1> USE DEF IInv, TypeOK, AssetStored, Present, Digests
  <1>1. ASSUME NEW j \in Jobs, JobStep(j) PROVE AssetStored'
    <2> USE DEF Goto, JobFrame
    <2>1. CASE WriteJSON(j)
      BY <2>1 DEF WriteJSON, DisturbedBut, found
    <2>2. CASE WriteMarkdown(j)
      BY <2>2 DEF WriteMarkdown, DisturbedBut, found
    <2>3. CASE StoreAsset(j)
      BY <2>3 DEF StoreAsset
    <2>4. CASE LoseAsset(j)
      BY <2>4 DEF LoseAsset, Extracted, files
    <2>5. CASE \/ ReadJSON(j) \/ ReadMarkdown(j) \/ Inspect(j) \/ OpenBlob(j)
               \/ PutAssets(j) \/ Fail(j)
      BY <2>5 DEF ReadJSON, ReadMarkdown, Inspect, OpenBlob, PutAssets, Fail, files, found
    <2>6. CASE FromCache(j) \/ Extract(j) \/ Outage(j) \/ NothingToRead(j)
      <3>1. /\ UNCHANGED <<format, blob, alone>>
            /\ \E o \in {"whole", "torn", "outage"}, k \in Jobs \cup {NoJob} : Extracted(j, o, k)
            /\ \/ \E p \in {"caching", "assets"} : Goto(j, p)
               \/ Goto(j, "json") /\ (format = "native" => result'[j] = "torn")
        BY <2>6 DEF FromCache, Extract, Outage, NothingToRead, Extracted, HasAsset, files
      <3> QED BY <3>1 DEF Extracted
    <2> QED BY <1>1, <2>1, <2>2, <2>3, <2>4, <2>5, <2>6 DEF JobStep
  <1>2. ASSUME NEW j \in Jobs, Submitted(j) PROVE AssetStored'
    <2>1. /\ point' = [point EXCEPT ![j] = "queued"]
          /\ blob' \in {blob, [blob EXCEPT !["upload"] = "fresh"]}
          /\ UNCHANGED <<format, result, alone>>
      BY <1>2 DEF Submitted, Upload, ExtractStored, Put, Goto, files, found
    <2> QED BY <2>1
  <1>3. CASE /\ UNCHANGED <<format, point, result>>
             /\ alone' \subseteq alone
             /\ Present("asset") => blob'["asset"] # "absent"
    BY <1>3
  <1>4. CASE Keep \/ CacheCleared \/ AssetsCleared \/ TwinStored \/ \E d \in Digests : Age(d)
    BY <1>4, <1>3 DEF Keep, CacheCleared, AssetsCleared, TwinStored, Age, Put, jobVars, found, history, files
  <1>5. CASE /\ UNCHANGED <<format, point, result>> /\ DisturbedBut({})
    BY <1>5 DEF DisturbedBut
  <1>6. CASE TwinDeleted
    BY <1>6, <1>5 DEF TwinDeleted, jobVars, found
  <1>7. CASE DeleteStep
    <2>1. /\ alone' \subseteq alone /\ UNCHANGED <<format, point, result>>
          /\ blob' \in {blob, [blob EXCEPT !["upload"] = "absent"]}
      BY <1>7 DEF DeleteStep, DeleteStart, DeleteDerived, DeleteBlob, DeleteForget,
         RemoveDerived, RemoveDerivedFails, RemoveBlob, DisturbedBut, DeleteFrame, files, found, jobVars
    <2> QED BY <2>1, <1>3
  <1>8. CASE SweepStep
    <2>1. CASE SweepBlob
      <3>1. CASE sweepOf = "asset"
        BY <2>1, <3>1, <1>5 DEF SweepBlob, SweepFrame, jobVars, found
      <3>2. CASE sweepOf = "upload"
        <4>1. /\ blob' = [blob EXCEPT !["upload"] = "absent"]
              /\ UNCHANGED <<format, point, result, alone>>
          BY <2>1, <3>2 DEF SweepBlob, RemoveBlob, SweepFrame, jobVars, found
        <4> QED BY <4>1, <1>3
      <3> QED BY <3>1, <3>2
    <2>2. CASE ~SweepBlob
      <3>1. /\ alone' \subseteq alone /\ UNCHANGED <<format, point, result, blob>>
        BY <1>8, <2>2 DEF SweepStep, SweepStart, SweepPass, SweepOld, SweepDerived,
           SweepBlobFails, SweepEnd, RemoveDerived, RemoveDerivedFails, DisturbedBut,
           SweepFrame, files, found, jobVars
      <3> QED BY <3>1, <1>3
    <2> QED BY <2>1, <2>2
  <1>9. CASE Crash
    BY <1>9 DEF Crash, files, found, InFlight, Working
  <1>10. CASE UNCHANGED vars
    BY <1>10, <1>3 DEF vars, files, found, jobVars, history
  <1> QED BY <1>1, <1>2, <1>4, <1>6, <1>7, <1>8, <1>9, <1>10 DEF Next

(* A DELETE gets through undisturbed or loses its claim.                    *)
LEMMA PurgeStep == ASSUME IInv, [Next]_vars PROVE (Purging /\ Purged)'
  <1> USE DEF IInv, TypeOK, Purging, Purged, NoFiles
  <1>1. ASSUME NEW j \in Jobs, JobStep(j) PROVE (Purging /\ Purged)'
    <2>1. point[j] \in InFlight /\ UNCHANGED purge
      BY <1>1 DEF JobStep, ReadJSON, ReadMarkdown, Inspect, FromCache, OpenBlob, Extract,
         PutAssets, Outage, NothingToRead, StoreAsset, LoseAsset, WriteJSON, WriteMarkdown, Fail,
         JobFrame,
         InFlight, Working
    <2>2. purge \notin {"quiet", "gone"}
      BY <2>1 DEF Quiet
    <2> QED BY <2>1, <2>2
  <1>2. ASSUME NEW j \in Jobs, Upload(j) PROVE (Purging /\ Purged)'
    BY <1>2 DEF Upload, Put
  <1>3. ASSUME NEW j \in Jobs, ExtractStored(j) PROVE (Purging /\ Purged)'
    BY <1>3 DEF ExtractStored
  <1>4. CASE Keep
    BY <1>4 DEF Keep, Put
  <1>5. CASE CacheCleared \/ AssetsCleared
    BY <1>5 DEF CacheCleared, AssetsCleared, Quiet, Present, files, found, jobVars, delVars, history
  <1>6. CASE DeleteStart
    BY <1>6 DEF DeleteStart, DeleteFrame, Quiet, jobVars
  <1>7. CASE DeleteDerived
    <2>1. UNCHANGED <<point, purge, blob>> /\ deleting = "derived" /\ deleting' = "blob"
      BY <1>7 DEF DeleteDerived, DeleteFrame, jobVars, found
    <2>2. ~delBroken' => (json' = NoJob /\ md' = NoJob)
      BY <1>7 DEF DeleteDerived, RemoveDerived
    <2> QED BY <2>1, <2>2 DEF Quiet
  <1>8. CASE DeleteBlob
    <2>1. UNCHANGED <<point, json, md>> /\ deleting = "blob"
      BY <1>8 DEF DeleteBlob, DeleteFrame, jobVars, found
    <2>2. CASE RemoveBlob("upload") /\ ~delBroken /\ deleting' = "forget" /\ UNCHANGED purge
      BY <2>1, <2>2 DEF Quiet, RemoveBlob, Present, Digests
    <2>3. CASE purge' = "no"
      BY <2>3
    <2> QED BY <1>8, <2>2, <2>3 DEF DeleteBlob
  <1>9. CASE DeleteForget
    BY <1>9 DEF DeleteForget, Quiet, Present, files, found, jobVars
  <1>10. CASE SweepStep
    <2>1. /\ json' \in {json, NoJob} /\ md' \in {md, NoJob}
          /\ cached' \in {cached, "none"} /\ cachedRef' \in {cachedRef, NoJob}
          /\ UNCHANGED <<point, purge, deleting, delBroken>>
      BY <1>10 DEF SweepStep, SweepStart, SweepPass, SweepOld, SweepDerived, SweepBlob,
         SweepBlobFails, SweepEnd, SweepFrame, RemoveDerived, RemoveDerivedFails,
         files, pageCache, found, jobVars, delVars
    <2>2. ~Present("upload") => ~Present("upload")'
      BY <1>10 DEF SweepStep, SweepStart, SweepPass, SweepOld, SweepDerived, SweepBlob,
         SweepBlobFails, SweepEnd, RemoveBlob, Present, Digests, files
    <2> QED BY <2>1, <2>2 DEF Quiet
  <1>11. ASSUME NEW d \in Digests, Age(d) PROVE (Purging /\ Purged)'
    <2>1. ~Present("upload") => ~Present("upload")'
      BY <1>11 DEF Age, Present, Digests
    <2> QED BY <1>11, <2>1 DEF Age, Quiet, memory, pageCache, jobVars, delVars, history
  <1>12. CASE Crash
    <2>1. Quiet => Quiet'
      BY <1>12 DEF Crash, Quiet, InFlight, Working
    <2> QED BY <1>12, <2>1 DEF Crash, Present, files
  <1>14. CASE TwinStored \/ TwinDeleted
    <2>1. /\ ~Present("upload") => ~Present("upload")'
          /\ UNCHANGED <<json, md, pageCache, point, deleting, delBroken, purge>>
      BY <1>14 DEF TwinStored, TwinDeleted, Present, Digests, memory, pageCache, jobVars, delVars, history
    <2> QED BY <2>1 DEF Quiet, pageCache
  <1>13. CASE UNCHANGED vars
    BY <1>13 DEF vars, Quiet, Present, files, memory, pageCache, jobVars, delVars, history
  <1> QED BY <1>1, <1>2, <1>3, <1>4, <1>5, <1>6, <1>7, <1>8, <1>9, <1>10, <1>11, <1>12, <1>13,
          <1>14
          DEF Next, Submitted, DeleteStep

LEMMA InvStep == IInv /\ [Next]_vars => IInv'
  <1> SUFFICES ASSUME IInv, [Next]_vars PROVE IInv'
    OBVIOUS
  <1>1. TypeOK'
    BY TypeStep DEF IInv
  <1>2. (Writers /\ Undisturbed)'
    <2>1. CASE UNCHANGED vars
      BY <2>1 DEF IInv, vars, Writers, Undisturbed, files, found, found, jobVars, found, history
    <2> QED BY <2>1, OthersStep, JobsStep DEF Next
  <1>3. (Purging /\ Purged)'
    BY PurgeStep
  <1>4. AssetStored'
    BY AssetStep
  <1> QED BY <1>1, <1>2, <1>3, <1>4 DEF IInv

(* The inductive invariant holds in every state of every behaviour.         *)
THEOREM Invariance == Spec => []IInv
  <1>1. Init => IInv
    BY InvInit
  <1>2. IInv /\ [Next]_vars => IInv'
    BY InvStep
  <1> QED BY <1>1, <1>2, PTL DEF Spec

(* A job that ends well and undisturbed leaves its document to be read      *)
(* (processDocument, storedPageCount).                                      *)
THEOREM DoneMeansServedHolds == Spec => []DoneMeansServed
  <1>1. IInv => DoneMeansServed
    BY DocStoreAssumption DEF IInv, TypeOK, Undisturbed, DoneMeansServed,
                              DocumentServed, MarkdownServed
  <1> QED BY <1>1, Invariance, PTL

(* A job that stored its asset, and from which nobody has taken it, ends    *)
(* with a document whose asset can be served (processDocument, getAsset).   *)
THEOREM DoneKeepsAssetHolds == Spec => []DoneKeepsAsset
  <1>1. IInv => DoneKeepsAsset
    BY DocStoreAssumption DEF IInv, TypeOK, AssetStored, Undisturbed, DoneKeepsAsset,
                              AssetServed, DocumentServed
  <1> QED BY <1>1, Invariance, PTL

(* A DELETE that began with no job of the document in flight has removed    *)
(* the uploaded bytes, both derived files and the entries of the page       *)
(* cache, until they come again; the asset's blob is not among them         *)
(* (deleteDocument, Remove, Forget).                                        *)
THEOREM QuietDeleteHolds == Spec => []QuietDeleteIsComplete
  <1>1. IInv => QuietDeleteIsComplete
    BY DEF IInv, Purged, NoFiles, QuietDeleteIsComplete
  <1> QED BY <1>1, Invariance, PTL
=============================================================================
