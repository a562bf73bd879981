-------------------------- MODULE OcrClient_proofs --------------------------
(***************************************************************************)
(* Proofs about OcrClient, for any calls of both tiers, any number of      *)
(* tokens and of changes, and any engines behind the service.              *)
(***************************************************************************)
EXTENDS OcrClient, FiniteSetTheorems, TLAPS

Numbers == 1..Concurrency
Slots   == Calls \X Numbers

-----------------------------------------------------------------------------
(* One chunk at a time.                                                     *)

LEMMA Moved ==
  ASSUME TypeOK, NEW c \in Calls, NEW i \in Numbers, NEW p \in Places, Move(c, i, p)
  PROVE  /\ at' \in [Calls -> [Numbers -> Places]]
         /\ at'[c][i] = p
         /\ \A d \in Calls, k \in Numbers : d # c \/ k # i => at'[d][k] = at[d][k]
  BY DEF TypeOK, Move, Numbers

LEMMA HoldersFinite == IsFiniteSet(Holders) /\ Cardinality(Holders) \in Nat
  <1>1. IsFiniteSet(Calls)
    BY FS_Union, OcrClientAssumption DEF Calls
  <1>2. IsFiniteSet(Numbers)
    BY FS_Interval, OcrClientAssumption DEF Numbers
  <1>3. IsFiniteSet(Slots)
    BY <1>1, <1>2, FS_Product DEF Slots
  <1>4. Holders \in SUBSET Slots
    BY DEF Holders, InFlight, Slots, Numbers
  <1>5. IsFiniteSet(Holders)
    BY <1>3, <1>4, FS_Subset
  <1> QED BY <1>5, FS_CardinalityType

LEMMA TierIs == \A c \in Calls : Tier(c) \in Tiers
  BY DEF Tier, Tiers

LEMMA ServerIs == ASSUME NEW s \in Servers, NEW t \in Tiers
                  PROVE  /\ s[t] \in OCREngines \cup VisionEngines
                         /\ s[t] = [engine |-> s[t].engine, version |-> s[t].version]
  BY OcrClientAssumption DEF Servers, Tiers

-----------------------------------------------------------------------------
(* The invariant.                                                           *)

(* Everything of TypeOK but the bound of the semaphore, which follows from  *)
(* the tokens.                                                              *)
ShapeOK ==
  /\ service \in Servers /\ changes \in 0..MaxChanges
  /\ DOMAIN name = Tiers /\ DOMAIN version = Tiers /\ DOMAIN keyName = Calls
  /\ call \in [Calls -> {"idle", "running", "filing", "done", "failed"}]
  /\ width \in [Calls -> Numbers]
  /\ at \in [Calls -> [Numbers -> Places]]
  /\ who \in [Calls -> [Numbers -> OCREngines \cup VisionEngines]]
  /\ refresh \in [VisionCalls -> {"no", "asking", "seen"}]
  /\ news \in [VisionCalls -> Servers]
  /\ stopped \in BOOLEAN /\ renamed \in BOOLEAN

(* A call that has not begun has no chunk anywhere, and a call of one chunk *)
(* waits for no token.                                                      *)
Placed == \A c \in Calls, i \in Numbers :
  /\ call[c] = "idle" => at[c][i] = "off"
  /\ at[c][i] = "queued" => ~Direct(c)

Tokens == sem = Cardinality(Holders) /\ sem <= Concurrency

(* Until it is renamed, the OCR tier is the one the client was built for.   *)
NameIsBuilt == ~renamed => name["ocr"] = built

(* As long as the service stays what it is, it is known for what it is, and *)
(* so is the vision tier once a page of it has come.                        *)
Steady ==
  changes = 0 =>
    /\ \A t \in Tiers : name[t] = service[t].engine
    /\ version["ocr"] = service["ocr"].version
    /\ \A c \in Calls, i \in Numbers : who[c][i] = service[Tier(c)]
    /\ \A c \in VisionCalls : news[c] = service
    /\ \A c \in Calls : keyName[c] = service[Tier(c)].engine
    /\ \A c \in VisionCalls, i \in Numbers :
         at[c][i] \in Accepted => version["vision"] = service["vision"].version

(* SwitchIsRefused, call by call.                                           *)
Refused ==
  ~renamed => \A c \in OCRCalls, i \in Numbers :
                at[c][i] \in Accepted => who[c][i].engine = built

IInv == ShapeOK /\ Placed /\ Tokens /\ NameIsBuilt /\ Steady /\ Refused /\ SteadyKeys

LEMMA ShapeIsType == ShapeOK /\ Tokens => TypeOK
  BY HoldersFinite, OcrClientAssumption DEF ShapeOK, TypeOK, Tokens, Numbers

(* How a move of one chunk changes the set of those who hold a token.       *)
Busy == {"sent", "answered", "learned"}

LEMMA HolderIs ==
  \A q : q \in Holders <=>
    /\ q \in Slots
    /\ at[q[1]][q[2]] \in Busy
    /\ ~Direct(q[1])
  BY DEF Holders, InFlight, Slots, Numbers, Busy

LEMMA HolderIsNext ==
  ASSUME width' = width
  PROVE  \A q : q \in Holders' <=>
           /\ q \in Slots
           /\ at'[q[1]][q[2]] \in Busy
           /\ ~Direct(q[1])
  BY DEF Holders, InFlight, Slots, Numbers, Busy, Direct

LEMMA HoldersJoin ==
  ASSUME TypeOK, NEW c \in Calls, NEW i \in Numbers, width' = width,
         at[c][i] = "queued", ~Direct(c), Move(c, i, "sent")
  PROVE  Holders' = Holders \cup {<<c, i>>} /\ <<c, i>> \notin Holders
  <1>1. \A d \in Calls, k \in Numbers : at'[d][k] = IF d = c /\ k = i THEN "sent" ELSE at[d][k]
    BY Moved DEF Places
  <1>2. \A q : q \in Holders' <=> q \in Holders \/ q = <<c, i>>
    BY <1>1, HolderIs, HolderIsNext DEF Slots, Busy
  <1>3. <<c, i>> \notin Holders
    BY HolderIs DEF Busy
  <1> QED BY <1>2, <1>3

LEMMA HoldersLeave ==
  ASSUME TypeOK, NEW c \in Calls, NEW i \in Numbers, NEW p \in Places \ Busy, width' = width,
         at[c][i] \in Busy, Move(c, i, p)
  PROVE  /\ Direct(c) => Holders' = Holders
         /\ ~Direct(c) => Holders' = Holders \ {<<c, i>>} /\ <<c, i>> \in Holders
  <1>1. \A d \in Calls, k \in Numbers : at'[d][k] = IF d = c /\ k = i THEN p ELSE at[d][k]
    BY Moved
  <1>2. CASE Direct(c)
    <2>1. \A q : q \in Holders' <=> q \in Holders
      BY <1>1, <1>2, HolderIs, HolderIsNext DEF Slots
    <2> QED BY <1>2, <2>1
  <1>3. CASE ~Direct(c)
    <2>1. \A q : q \in Holders' <=> q \in Holders /\ q # <<c, i>>
      BY <1>1, HolderIs, HolderIsNext DEF Slots
    <2>2. <<c, i>> \in Holders
      BY <1>3, HolderIs DEF Slots
    <2> QED BY <1>3, <2>1, <2>2
  <1> QED BY <1>2, <1>3

LEMMA HoldersStay ==
  ASSUME TypeOK, NEW c \in Calls, NEW i \in Numbers, NEW p \in Places, width' = width,
         at[c][i] \in Busy <=> p \in Busy, Move(c, i, p)
  PROVE  Holders' = Holders
  <1>1. \A d \in Calls, k \in Numbers : at'[d][k] = IF d = c /\ k = i THEN p ELSE at[d][k]
    BY Moved
  <1>2. \A q : q \in Holders' <=> q \in Holders
    BY <1>1, HolderIs, HolderIsNext DEF Slots
  <1> QED BY <1>2

(* A step that joins, leaves or stays keeps the count.                      *)
LEMMA CountJoins ==
  ASSUME TypeOK, Tokens, NEW x, x \notin Holders, Holders' = Holders \cup {x},
         sem < Concurrency, sem' = sem + 1
  PROVE  Tokens'
  <1>1. Cardinality(Holders') = Cardinality(Holders) + 1
    BY HoldersFinite, FS_AddElement
  <1> QED BY <1>1, HoldersFinite, OcrClientAssumption DEF Tokens

LEMMA CountLeaves ==
  ASSUME TypeOK, Tokens, NEW x, x \in Holders, Holders' = Holders \ {x}, sem' = sem - 1
  PROVE  Tokens'
  <1>1. Cardinality(Holders') = Cardinality(Holders) - 1
    BY HoldersFinite, FS_RemoveElement
  <1> QED BY <1>1, HoldersFinite, OcrClientAssumption DEF Tokens

LEMMA CountStays == ASSUME Tokens, Holders' = Holders, sem' = sem PROVE Tokens'
  BY DEF Tokens

LEMMA ReleaseCounts ==
  ASSUME TypeOK, Tokens, NEW c \in Calls, NEW i \in Numbers, NEW p \in Places \ Busy,
         width' = width, at[c][i] \in Busy, Move(c, i, p), Release(c)
  PROVE  Tokens'
  <1>1. CASE Direct(c)
    BY <1>1, HoldersLeave, CountStays DEF Release
  <1>2. CASE ~Direct(c)
    BY <1>2, HoldersLeave, CountLeaves DEF Release
  <1> QED BY <1>1, <1>2
-----------------------------------------------------------------------------
(* The steps.                                                               *)

LEMMA ParamsAre ==
  /\ Concurrency \in Nat \ {0} /\ 1 \in Numbers /\ IsFiniteSet(Numbers)
  /\ OCRCalls \subseteq Calls /\ VisionCalls \subseteq Calls
  /\ \A c \in Calls : c \in VisionCalls <=> c \notin OCRCalls
  BY OcrClientAssumption, FS_Interval DEF Numbers, Calls

LEMMA InitInv == Init => IInv
  <1> SUFFICES ASSUME Init PROVE IInv
    OBVIOUS
  <1>1. ShapeOK
    <2>1. \A c \in Calls : service[Tier(c)] \in OCREngines \cup VisionEngines
      BY TierIs, ServerIs DEF Init
    <2>2. who \in [Calls -> [Numbers -> OCREngines \cup VisionEngines]]
      BY <2>1 DEF Init, Numbers
    <2>3. changes \in 0..MaxChanges
      BY OcrClientAssumption DEF Init
    <2> QED BY <2>2, <2>3 DEF Init, ShapeOK, Numbers, Places
  <1>2. \A c \in Calls, i \in Numbers : at[c][i] = "off"
    BY DEF Init, Numbers
  <1>3. Placed
    BY <1>2 DEF Placed
  <1>4. Tokens
    <2>1. Holders = {}
      BY <1>2, HolderIs DEF Slots, Busy
    <2> QED BY <2>1, FS_EmptySet, ParamsAre DEF Tokens, Init
  <1>5. NameIsBuilt
    BY DEF Init, NameIsBuilt
  <1>6. Steady
    <2>1. \A c \in Calls : keyName[c] = service[Tier(c)].engine
      BY TierIs DEF Init
    <2> QED BY <1>2, <2>1, ParamsAre DEF Init, Steady, Numbers, Tiers, Accepted
  <1>7. Refused
    BY <1>2 DEF Refused, Calls, Accepted
  <1>8. SteadyKeys
    BY DEF Init, SteadyKeys
  <1> QED BY <1>1, <1>3, <1>4, <1>5, <1>6, <1>7, <1>8 DEF IInv

(* Steps that move no chunk keep the holders.                               *)
LEMMA SameHolders == ASSUME at' = at, width' = width PROVE Holders' = Holders
  BY DEF Holders, InFlight, Direct

(* A step that leaves the requests as they are.                             *)
LEMMA RestInv ==
  ASSUME IInv, UNCHANGED <<requests, name, version, news, refresh, filed, built, renamed>>,
         \/ /\ changes < MaxChanges /\ changes' = changes + 1
            /\ service' \in Servers /\ stopped' = stopped
         \/ UNCHANGED <<service, changes>> /\ stopped' \in BOOLEAN
  PROVE  IInv'
  <1>1. ShapeOK'
    <2>1. changes' \in 0..MaxChanges /\ service' \in Servers /\ stopped' \in BOOLEAN
      BY OcrClientAssumption DEF IInv, ShapeOK
    <2> QED BY <2>1 DEF IInv, ShapeOK, requests
  <1>2. Placed'
    BY DEF IInv, Placed, requests, Direct
  <1>3. Tokens'
    BY SameHolders, CountStays DEF IInv, requests
  <1>4. NameIsBuilt'
    BY DEF IInv, NameIsBuilt
  <1>5. changes' = 0 => changes = 0 /\ service' = service
    BY OcrClientAssumption DEF IInv, ShapeOK
  <1>6. Steady'
    BY <1>5 DEF IInv, Steady, requests
  <1>7. Refused'
    BY DEF IInv, Refused, requests
  <1>8. SteadyKeys'
    BY <1>5 DEF IInv, SteadyKeys
  <1> QED BY <1>1, <1>2, <1>3, <1>4, <1>6, <1>7, <1>8 DEF IInv

(* A call that begins, whose chunks were nowhere.                           *)
LEMMA StartInv == ASSUME IInv, NEW c \in Calls, Start(c) PROVE IInv'
  <1> DEFINE Place(i) == IF i \notin Chunks(c) THEN "off" ELSE IF Direct(c) THEN "sent" ELSE "queued"
  <1>1. at' = [at EXCEPT ![c] = [i \in Numbers |-> Place(i)]]
    BY DEF Start, Numbers
  <1>2. /\ at' \in [Calls -> [Numbers -> Places]]
        /\ \A d \in Calls, i \in Numbers : at'[d][i] = IF d = c THEN Place(i) ELSE at[d][i]
    <2>1. \A i \in Numbers : Place(i) \in Places
      BY DEF Places
    <2>2. at \in [Calls -> [Numbers -> Places]]
      BY DEF IInv, ShapeOK
    <2> HIDE DEF Place
    <2> QED BY <1>1, <2>1, <2>2
  <1>3. \A i \in Numbers : at[c][i] = "off"
    BY DEF IInv, Placed, Start
  <1>4. call' = [call EXCEPT ![c] = "running"] /\ call[c] = "idle"
    BY DEF Start
  <1>5. ShapeOK'
    BY <1>2, <1>4 DEF Start, IInv, ShapeOK, known, looks, history
  <1>6. Placed'
    <2>1. \A d \in Calls : call'[d] = IF d = c THEN "running" ELSE call[d]
      BY <1>4 DEF IInv, ShapeOK
    <2>2. \A d : Direct(d)' <=> Direct(d)
      BY DEF Start, Direct
    <2>3. \A d \in Calls, i \in Numbers : call'[d] = "idle" => at'[d][i] = "off"
      BY <1>2, <2>1 DEF IInv, Placed
    <2>4. \A d \in Calls, i \in Numbers : at'[d][i] = "queued" => ~Direct(d)
      BY <1>2 DEF IInv, Placed
    <2> QED BY <2>2, <2>3, <2>4 DEF Placed
  <1>7. Tokens'
    <2>1. \A q : q \in Holders' <=> q \in Holders
      BY <1>2, <1>3, HolderIs, HolderIsNext DEF Slots, Busy, Start
    <2> QED BY <2>1, CountStays DEF IInv, Start
  <1>8. NameIsBuilt'
    BY DEF Start, IInv, NameIsBuilt, known, history
  <1>9. Steady'
    BY <1>2, <1>3, ParamsAre DEF Start, IInv, Steady, known, looks, history, Accepted
  <1>10. Refused'
    BY <1>2, <1>3, ParamsAre DEF Start, IInv, Refused, known, history, Numbers, Accepted
  <1>11. SteadyKeys'
    BY DEF Start, IInv, SteadyKeys, known, history
  <1> QED BY <1>5, <1>6, <1>7, <1>8, <1>9, <1>10, <1>11 DEF IInv

(* A step that moves one chunk on, to a place where no answer is accepted,  *)
(* and leaves what is known and filed alone.                                *)
LEMMA MoveInv ==
  ASSUME IInv, NEW c \in Calls, NEW i \in Numbers, NEW p \in Places \ ({"off", "queued"} \cup Accepted),
         at[c][i] # "off", Move(c, i, p),
         \/ who' = who
         \/ who' = [who EXCEPT ![c][i] = service[Tier(c)]],
         UNCHANGED <<service, changes, name, call, width, keyName, news, stopped, history>>,
         changes = 0 => version'["ocr"] = service["ocr"].version /\ version'["vision"] = version["vision"],
         DOMAIN version' = Tiers, refresh' \in [VisionCalls -> {"no", "asking", "seen"}],
         Tokens'
  PROVE  IInv'
  <1> USE ShapeIsType DEF IInv
  <1>1. /\ at' \in [Calls -> [Numbers -> Places]]
        /\ \A d \in Calls, k \in Numbers : at'[d][k] = IF d = c /\ k = i THEN p ELSE at[d][k]
    BY Moved
  <1>2. /\ who' \in [Calls -> [Numbers -> OCREngines \cup VisionEngines]]
        /\ \A d \in Calls, k \in Numbers :
             \/ who'[d][k] = who[d][k]
             \/ d = c /\ k = i /\ who'[d][k] = service[Tier(d)]
    <2>1. service[Tier(c)] \in OCREngines \cup VisionEngines
      BY TierIs, ServerIs DEF ShapeOK
    <2>2. who \in [Calls -> [Numbers -> OCREngines \cup VisionEngines]]
      BY DEF ShapeOK
    <2>3. CASE who' = who
      BY <2>2, <2>3
    <2>4. CASE who' = [who EXCEPT ![c][i] = service[Tier(c)]]
      <3> DEFINE v == service[Tier(c)]
      <3>1. v \in OCREngines \cup VisionEngines
        BY <2>1
      <3> HIDE DEF v
      <3>2. who' = [who EXCEPT ![c][i] = v]
        BY <2>4 DEF v
      <3>3. /\ who' \in [Calls -> [Numbers -> OCREngines \cup VisionEngines]]
            /\ \A d \in Calls, k \in Numbers :
                 who'[d][k] = IF d = c /\ k = i THEN v ELSE who[d][k]
        BY <2>2, <3>1, <3>2
      <3> QED BY <3>3 DEF v
    <2> QED BY <2>3, <2>4
  <1>3. ShapeOK'
    BY <1>1, <1>2 DEF ShapeOK, history
  <1>4. Placed'
    BY <1>1 DEF Placed, Direct
  <1>5. NameIsBuilt'
    BY DEF NameIsBuilt, history
  <1>6. Steady'
    <2>1. \A d \in Calls, k \in Numbers : at'[d][k] \in Accepted => at[d][k] \in Accepted
      BY <1>1
    <2>2. changes = 0 => \A d \in Calls, k \in Numbers : who'[d][k] = service[Tier(d)]
      BY <1>2 DEF Steady
    <2> QED BY <2>1, <2>2, ParamsAre DEF Steady
  <1>7. Refused'
    <2>1. \A d \in Calls, k \in Numbers : at'[d][k] \in Accepted =>
            at[d][k] = at'[d][k] /\ (d # c \/ k # i)
      BY <1>1
    <2>2. \A d \in Calls, k \in Numbers : at'[d][k] \in Accepted => who'[d][k] = who[d][k]
      BY <1>2, <2>1
    <2> QED BY <2>1, <2>2, ParamsAre DEF Refused, history
  <1>8. SteadyKeys'
    BY DEF SteadyKeys, history
  <1> QED BY <1>3, <1>4, <1>5, <1>6, <1>7, <1>8

LEMMA AcquireInv == ASSUME IInv, NEW c \in Calls, NEW i \in Numbers, Acquire(c, i) PROVE IInv'
  <1>1. TypeOK /\ at[c][i] = "queued" /\ ~Direct(c)
    BY ShapeIsType DEF IInv, Placed, Acquire
  <1>2. Tokens'
    BY <1>1, HoldersJoin, CountJoins DEF Acquire, IInv
  <1>3. changes = 0 => version["ocr"] = service["ocr"].version
    BY DEF IInv, Steady
  <1> QED BY <1>1, <1>2, <1>3, MoveInv DEF Acquire, known, looks, Places, IInv, ShapeOK, Accepted

LEMMA GiveUpInv == ASSUME IInv, NEW c \in Calls, NEW i \in Numbers, GiveUp(c, i) PROVE IInv'
  <1>1. TypeOK /\ at[c][i] = "queued"
    BY ShapeIsType DEF IInv, GiveUp
  <1>2. Tokens'
    BY <1>1, HoldersStay, CountStays DEF GiveUp, IInv, Busy, Places
  <1>3. changes = 0 => version["ocr"] = service["ocr"].version
    BY DEF IInv, Steady
  <1> QED BY <1>1, <1>2, <1>3, MoveInv DEF GiveUp, known, looks, Places, IInv, ShapeOK, Accepted

LEMMA ReplyInv == ASSUME IInv, NEW c \in Calls, NEW i \in Numbers, Reply(c, i) PROVE IInv'
  <1>1. TypeOK /\ at[c][i] = "sent"
    BY ShapeIsType DEF IInv, Reply
  <1>2. Tokens'
    BY <1>1, HoldersStay, CountStays DEF Reply, IInv, Busy, Places
  <1>3. changes = 0 => version["ocr"] = service["ocr"].version
    BY DEF IInv, Steady
  <1> QED BY <1>1, <1>2, <1>3, MoveInv DEF Reply, known, looks, Places, IInv, ShapeOK, Accepted

LEMMA FailInv == ASSUME IInv, NEW c \in Calls, NEW i \in Numbers, Fail(c, i) PROVE IInv'
  <1>1. TypeOK /\ at[c][i] = "sent"
    BY ShapeIsType DEF IInv, Fail
  <1>2. Tokens'
    BY <1>1, ReleaseCounts DEF Fail, IInv, Busy, Places
  <1>3. changes = 0 => version["ocr"] = service["ocr"].version
    BY DEF IInv, Steady
  <1>4. refresh' \in [VisionCalls -> {"no", "asking", "seen"}]
    BY DEF Fail, IInv, ShapeOK
  <1> QED BY <1>1, <1>2, <1>3, <1>4, MoveInv DEF Fail, known, Places, IInv, ShapeOK, Accepted

LEMMA LearnInv == ASSUME IInv, NEW c \in Calls, NEW i \in Numbers, Learn(c, i) PROVE IInv'
  <1>1. TypeOK /\ at[c][i] = "answered" /\ c \in OCRCalls
    BY ShapeIsType DEF IInv, Learn
  <1>2. Tokens'
    BY <1>1, HoldersStay, CountStays DEF Learn, IInv, Busy, Places
  <1>3. changes = 0 => who[c][i] = service["ocr"]
    BY <1>1 DEF IInv, Steady, Tier
  <1>4. /\ DOMAIN version' = Tiers
        /\ changes = 0 => version'["ocr"] = service["ocr"].version /\ version'["vision"] = version["vision"]
    BY <1>3 DEF Learn, IInv, ShapeOK, Tiers
  <1> QED BY <1>1, <1>2, <1>4, MoveInv DEF Learn, looks, Places, IInv, ShapeOK, Accepted

(* A chunk whose answer is accepted or filed.                               *)
LEMMA AcceptInv ==
  ASSUME IInv, NEW c \in Calls, NEW i \in Numbers, NEW p \in Accepted,
         at[c][i] # "off", Move(c, i, p),
         UNCHANGED <<service, changes, call, width, who, looks, stopped, built, renamed>>,
         \/ name' = name
         \/ c \in VisionCalls /\ name' = [name EXCEPT !["vision"] = who[c][i].engine],
         \/ version' = version
         \/ c \in VisionCalls /\ version' = [version EXCEPT !["vision"] = who[c][i].version],
         (changes = 0 /\ c \in VisionCalls) => version'["vision"] = service["vision"].version,
         keyName' = keyName \/ keyName' = [keyName EXCEPT ![c] = name[Tier(c)]],
         c \in OCRCalls /\ ~renamed => who[c][i].engine = built,
         Tokens', SteadyKeys'
  PROVE  IInv'
  <1>1. /\ at' \in [Calls -> [Numbers -> Places]]
        /\ \A d \in Calls, k \in Numbers : at'[d][k] = IF d = c /\ k = i THEN p ELSE at[d][k]
    BY Moved, ShapeIsType DEF IInv, Places, Accepted
  <1>2. /\ DOMAIN name' = Tiers /\ DOMAIN version' = Tiers
        /\ name'["ocr"] = name["ocr"] /\ version'["ocr"] = version["ocr"]
        /\ \/ name'["vision"] = name["vision"]
           \/ c \in VisionCalls /\ name'["vision"] = who[c][i].engine
    BY DEF IInv, ShapeOK, Tiers
  <1>3. ShapeOK'
    <2>1. DOMAIN keyName' = Calls
      BY DEF IInv, ShapeOK
    <2> QED BY <1>1, <1>2, <2>1 DEF IInv, ShapeOK, looks
  <1>4. Placed'
    BY <1>1 DEF IInv, Placed, Direct, Accepted
  <1>5. NameIsBuilt'
    BY <1>2 DEF IInv, NameIsBuilt
  <1>6. Steady'
    <2> SUFFICES ASSUME changes' = 0 PROVE Steady'
      BY DEF Steady
    <2>1. changes = 0
      OBVIOUS
    <2>2. \A d \in Calls, k \in Numbers : who'[d][k] = service'[Tier(d)]
      BY <2>1 DEF IInv, Steady
    <2>3. \A t \in Tiers : name'[t] = service'[t].engine
      BY <1>2, <2>1, ParamsAre DEF IInv, Steady, Tiers, Tier
    <2>4. \A d \in VisionCalls, k \in Numbers :
            at'[d][k] \in Accepted => version'["vision"] = service'["vision"].version
      <3>1. CASE c \in VisionCalls
        BY <2>1, <3>1
      <3>2. CASE c \notin VisionCalls
        BY <1>1, <2>1, <3>2, ParamsAre DEF IInv, Steady
      <3> QED BY <3>1, <3>2
    <2>5. \A d \in Calls : keyName'[d] = service'[Tier(d)].engine
      <3>1. name[Tier(c)] = service[Tier(c)].engine
        BY <2>1, TierIs DEF IInv, Steady
      <3> DEFINE n == name[Tier(c)]
      <3>2. keyName' = keyName \/ keyName' = [keyName EXCEPT ![c] = n]
        OBVIOUS
      <3>3. n = service[Tier(c)].engine
        BY <3>1
      <3> HIDE DEF n
      <3> QED BY <2>1, <3>2, <3>3 DEF IInv, Steady, ShapeOK
    <2> QED BY <1>2, <2>1, <2>2, <2>3, <2>4, <2>5 DEF IInv, Steady, looks
  <1>7. Refused'
    BY <1>1, ParamsAre DEF IInv, Refused
  <1> QED BY <1>3, <1>4, <1>5, <1>6, <1>7 DEF IInv

LEMMA CheckInv == ASSUME IInv, NEW c \in Calls, NEW i \in Numbers, Check(c, i) PROVE IInv'
  <1>1. TypeOK /\ at[c][i] = "learned" /\ c \in OCRCalls /\ c \notin VisionCalls
    BY ShapeIsType, ParamsAre DEF IInv, Check
  <1>2. CASE who[c][i].engine = name["ocr"]
    <2>1. Move(c, i, "ok")
      BY <1>2 DEF Check
    <2>2. Tokens'
      BY <1>1, <2>1, ReleaseCounts DEF Check, IInv, Busy, Places
    <2>3. ~renamed => who[c][i].engine = built
      BY <1>2 DEF IInv, NameIsBuilt
    <2>4. SteadyKeys'
      BY DEF Check, IInv, SteadyKeys, history
    <2> QED BY <1>1, <2>1, <2>2, <2>3, <2>4, AcceptInv DEF Check, known, history, Accepted
  <1>3. CASE who[c][i].engine # name["ocr"]
    <2>1. Move(c, i, "failed")
      BY <1>3 DEF Check
    <2>2. Tokens'
      BY <1>1, <2>1, ReleaseCounts DEF Check, IInv, Busy, Places
    <2>3. changes = 0 => version["ocr"] = service["ocr"].version
      BY DEF IInv, Steady
    <2> QED BY <1>1, <2>1, <2>2, <2>3, MoveInv DEF Check, known, looks, Places, IInv, ShapeOK, Accepted
  <1> QED BY <1>2, <1>3

LEMMA AdoptInv == ASSUME IInv, NEW c \in Calls, Adopt(c) PROVE IInv'
  <1>1. TypeOK /\ at[c][1] = "answered" /\ c \in VisionCalls /\ c \notin OCRCalls /\ 1 \in Numbers
    BY ShapeIsType, ParamsAre DEF IInv, Adopt
  <1>2. Tokens'
    BY <1>1, ReleaseCounts DEF Adopt, IInv, Busy, Places
  <1>3. changes = 0 => who[c][1] = service["vision"]
    BY <1>1 DEF IInv, Steady, Tier
  <1>4. version' = [version EXCEPT !["vision"] = who[c][1].version]
    BY DEF Adopt
  <1>5. changes = 0 => version'["vision"] = service["vision"].version
    BY <1>3, <1>4 DEF IInv, ShapeOK, Tiers
  <1>6. SteadyKeys'
    BY DEF Adopt, IInv, SteadyKeys, history
  <1> QED BY <1>1, <1>2, <1>4, <1>5, <1>6, AcceptInv DEF Adopt, history, Accepted

(* The name is read for the key, and the version after it.  Both are what   *)
(* is known, which is who made the page.                                    *)
LEMMA ReadNameInv == ASSUME IInv, NEW c \in Calls, NEW i \in Numbers, ReadName(c, i) PROVE IInv'
  <1>1. TypeOK /\ at[c][i] = "ok"
    BY ShapeIsType DEF IInv, ReadName
  <1>2. Tokens'
    BY <1>1, HoldersStay, CountStays DEF ReadName, IInv, Busy, Places
  <1>3. SteadyKeys'
    BY DEF ReadName, IInv, SteadyKeys, history
  <1>4. c \in OCRCalls /\ ~renamed => who[c][i].engine = built
    BY <1>1 DEF IInv, Refused, Accepted
  <1>5. changes = 0 /\ c \in VisionCalls => version["vision"] = service["vision"].version
    BY <1>1 DEF IInv, Steady, Accepted
  <1>6. "named" \in Accepted /\ Move(c, i, "named") /\ at[c][i] # "off"
    BY <1>1 DEF Accepted, ReadName
  <1> QED BY <1>2, <1>3, <1>4, <1>5, <1>6, AcceptInv DEF ReadName, known, history

LEMMA FileInv == ASSUME IInv, NEW c \in Calls, NEW i \in Numbers, File(c, i) PROVE IInv'
  <1> DEFINE key == [engine |-> keyName[c], version |-> version[Tier(c)]]
             f == [call |-> c, chunk |-> i, maker |-> who[c][i], key |-> key]
  <1>1. TypeOK /\ at[c][i] = "named" /\ filed' = filed \cup {f}
    BY ShapeIsType DEF IInv, File
  <1>2. Tokens'
    BY <1>1, HoldersStay, CountStays DEF File, IInv, Busy, Places
  <1>3. changes = 0 => key = who[c][i]
    <2> SUFFICES ASSUME changes = 0 PROVE key = who[c][i]
      OBVIOUS
    <2>1. who[c][i] = service[Tier(c)] /\ Tier(c) \in Tiers /\ service \in Servers
      BY TierIs DEF IInv, Steady, ShapeOK
    <2>2. keyName[c] = service[Tier(c)].engine
      BY <2>1 DEF IInv, Steady
    <2>3. version[Tier(c)] = service[Tier(c)].version
      BY <1>1, ParamsAre DEF IInv, Steady, Tier, Accepted
    <2> QED BY <2>1, <2>2, <2>3, ServerIs
  <1>4. SteadyKeys'
    <2> SUFFICES ASSUME changes' = 0, NEW g \in filed' PROVE g.key = g.maker
      BY DEF SteadyKeys
    <2>1. changes = 0
      BY DEF File
    <2>2. CASE g \in filed
      BY <2>1, <2>2 DEF IInv, SteadyKeys
    <2>3. CASE g = f
      BY <1>3, <2>1, <2>3
    <2> QED BY <1>1, <2>2, <2>3
  <1>5. c \in OCRCalls /\ ~renamed => who[c][i].engine = built
    BY <1>1 DEF IInv, Refused, Accepted
  <1>6. changes = 0 /\ c \in VisionCalls => version["vision"] = service["vision"].version
    BY <1>1 DEF IInv, Steady, Accepted
  <1>7. "filed" \in Accepted /\ Move(c, i, "filed")
    BY DEF Accepted, File
  <1> HIDE DEF key, f
  <1> QED BY <1>1, <1>2, <1>4, <1>5, <1>6, <1>7, AcceptInv DEF File, known

(* The looks of the background.                                             *)
LEMMA LookInv == ASSUME IInv, NEW c \in Calls, Look(c) PROVE IInv'
  <1>1. Tokens'
    BY SameHolders, CountStays DEF Look, IInv, requests
  <1>2. /\ c \in VisionCalls
        /\ refresh' \in [VisionCalls -> {"no", "asking", "seen"}]
        /\ news' = news \/ news' = [news EXCEPT ![c] = service]
    BY DEF Look, IInv, ShapeOK
  <1>3. /\ news' \in [VisionCalls -> Servers]
        /\ \A d \in VisionCalls : news'[d] = news[d] \/ news'[d] = service
    BY <1>2 DEF IInv, ShapeOK
  <1>4. ShapeOK'
    BY <1>2, <1>3 DEF Look, IInv, ShapeOK, known, requests, history
  <1>5. Placed'
    BY DEF Look, IInv, Placed, Direct, requests
  <1>6. NameIsBuilt'
    BY DEF Look, IInv, NameIsBuilt, known, history
  <1>7. Steady'
    BY <1>3 DEF Look, IInv, Steady, known, requests
  <1>8. Refused'
    BY DEF Look, IInv, Refused, requests, history
  <1>9. SteadyKeys'
    BY DEF Look, IInv, SteadyKeys, history
  <1> QED BY <1>1, <1>4, <1>5, <1>6, <1>7, <1>8, <1>9 DEF IInv

LEMMA UpdateInv == ASSUME IInv, NEW c \in Calls, Update(c) PROVE IInv'
  <1>1. Tokens'
    BY SameHolders, CountStays DEF Update, IInv, requests
  <1>2. /\ c \in VisionCalls
        /\ DOMAIN name' = Tiers /\ DOMAIN version' = Tiers
        /\ \A t \in Tiers : name'[t] = news[c][t].engine
        /\ version'["ocr"] = news[c]["ocr"].version
        /\ version'["vision"] = version["vision"]
    BY DEF Update, IInv, ShapeOK, Tiers
  <1>3. renamed' \in BOOLEAN
    <2>1. renamed' = (renamed \/ name'["ocr"] # name["ocr"])
      BY DEF Update
    <2> QED BY <2>1, Zenon
  <1>4. renamed' \/ (~renamed /\ name'["ocr"] = name["ocr"])
    <2>1. renamed' = (renamed \/ name'["ocr"] # name["ocr"])
      BY DEF Update
    <2> QED BY <2>1, Zenon
  <1>5. ShapeOK'
    BY <1>2, <1>3 DEF Update, IInv, ShapeOK, requests
  <1>6. Placed'
    BY DEF Update, IInv, Placed, Direct, requests
  <1>7. NameIsBuilt'
    BY <1>4 DEF Update, IInv, NameIsBuilt
  <1>8. Steady'
    BY <1>2 DEF Update, IInv, Steady, requests
  <1>9. Refused'
    BY <1>4 DEF Update, IInv, Refused, requests
  <1>10. SteadyKeys'
    BY DEF Update, IInv, SteadyKeys
  <1> QED BY <1>1, <1>5, <1>6, <1>7, <1>8, <1>9, <1>10 DEF IInv

(* A call that has begun goes on.                                           *)
LEMMA CallInv ==
  ASSUME IInv, NEW c \in Calls, NEW v \in {"filing", "done", "failed"},
         call' = [call EXCEPT ![c] = v], call[c] # "idle",
         UNCHANGED <<service, changes, known, width, keyName, at, who, sem, looks, stopped,
                     history>>
  PROVE  IInv'
  <1>1. Tokens'
    BY SameHolders, CountStays DEF IInv
  <1>2. /\ call' \in [Calls -> {"idle", "running", "filing", "done", "failed"}]
        /\ \A d \in Calls : call'[d] = "idle" => call[d] = "idle"
    BY DEF IInv, ShapeOK
  <1>3. ShapeOK'
    BY <1>2 DEF IInv, ShapeOK, known, looks, history
  <1>4. Placed'
    BY <1>2 DEF IInv, Placed, Direct
  <1>5. NameIsBuilt'
    BY DEF IInv, NameIsBuilt, known, history
  <1>6. Steady'
    BY DEF IInv, Steady, known, looks
  <1>7. Refused'
    BY DEF IInv, Refused, history
  <1>8. SteadyKeys'
    BY DEF IInv, SteadyKeys, history
  <1> QED BY <1>1, <1>3, <1>4, <1>5, <1>6, <1>7, <1>8 DEF IInv

LEMMA NextInv == IInv /\ [Next]_vars => IInv'
  <1> SUFFICES ASSUME IInv, [Next]_vars PROVE IInv'
    OBVIOUS
  <1>1. CASE Change
    BY <1>1, RestInv DEF Change, known, looks, history
  <1>2. CASE Stop
    BY <1>2, RestInv DEF Stop, known, looks, history
  <1>3. ASSUME NEW c \in Calls, CallStep(c) PROVE IInv'
    <2>1. CASE Start(c)
      BY <2>1, StartInv
    <2>2. CASE Adopt(c)
      BY <2>2, AdoptInv
    <2>3. CASE Look(c)
      BY <2>3, LookInv
    <2>4. CASE Update(c)
      BY <2>4, UpdateInv
    <2>5. CASE Merge(c)
      <3>1. CASE \A i \in Chunks(c) : at[c][i] = "failed"
        <4>1. call' = [call EXCEPT ![c] = "failed"]
          BY <2>5, <3>1 DEF Merge
        <4> QED BY <2>5, <4>1, CallInv DEF Merge
      <3>2. CASE ~\A i \in Chunks(c) : at[c][i] = "failed"
        <4>1. call' = [call EXCEPT ![c] = "filing"]
          BY <2>5, <3>2 DEF Merge
        <4> QED BY <2>5, <4>1, CallInv DEF Merge
      <3> QED BY <3>1, <3>2
    <2>6. CASE Finish(c)
      BY <2>6, CallInv DEF Finish
    <2> QED BY <1>3, <2>1, <2>2, <2>3, <2>4, <2>5, <2>6 DEF CallStep
  <1>4. ASSUME NEW q \in Parts, PartStep(q[1], q[2]) PROVE IInv'
    <2> DEFINE c == q[1]
               i == q[2]
    <2>1. c \in Calls /\ i \in Numbers
      BY DEF Parts, Numbers
    <2>2. PartStep(c, i)
      BY <1>4
    <2> HIDE DEF c, i
    <2>3. CASE Acquire(c, i)
      BY <2>1, <2>3, AcquireInv
    <2>4. CASE GiveUp(c, i)
      BY <2>1, <2>4, GiveUpInv
    <2>5. CASE Reply(c, i)
      BY <2>1, <2>5, ReplyInv
    <2>6. CASE Fail(c, i)
      BY <2>1, <2>6, FailInv
    <2>7. CASE Learn(c, i)
      BY <2>1, <2>7, LearnInv
    <2>8. CASE Check(c, i)
      BY <2>1, <2>8, CheckInv
    <2>9. CASE ReadName(c, i)
      BY <2>1, <2>9, ReadNameInv
    <2>10. CASE File(c, i)
      BY <2>1, <2>10, FileInv
    <2> QED BY <2>2, <2>3, <2>4, <2>5, <2>6, <2>7, <2>8, <2>9, <2>10 DEF PartStep
  <1>5. CASE UNCHANGED vars
    BY <1>5, RestInv DEF vars, known, looks, history, IInv, ShapeOK
  <1> QED BY <1>1, <1>2, <1>3, <1>4, <1>5 DEF Next

-----------------------------------------------------------------------------
(* The theorems.                                                            *)

(* Every reachable state satisfies the invariant.                           *)
THEOREM Invariance == Spec => []IInv
  <1> QED BY InitInv, NextInv, PTL DEF Spec

(* The types, and a semaphore (Engine.sem) that never holds more tokens     *)
(* than its channel has room for.                                           *)
THEOREM TypeCorrect == Spec => []TypeOK
  <1>1. IInv => TypeOK
    BY ShapeIsType DEF IInv
  <1> QED BY <1>1, Invariance, PTL

(* However many calls there are, the tokens that are out are those of the   *)
(* requests in flight, and no more than Concurrency of them (Extract        *)
(* 300-323, VisionEngine.Extract 103-108).                                  *)
THEOREM TokensAreHeldHolds == Spec => []TokensAreHeld
  <1>1. IInv => TokensAreHeld
    BY DEF IInv, Tokens, TokensAreHeld
  <1> QED BY <1>1, Invariance, PTL

(* With a service that stays what it is, every page is filed under the      *)
(* engine that made it (adopt 145-161, Router.extract 585-599).             *)
THEOREM SteadyKeysHolds == Spec => []SteadyKeys
  <1>1. IInv => SteadyKeys
    BY DEF IInv
  <1> QED BY <1>1, Invariance, PTL

(* An OCR page comes from the tier the client was built for, unless a       *)
(* background look has renamed the tier (extractTier 465-471).              *)
THEOREM SwitchIsRefusedHolds == Spec => []SwitchIsRefused
  <1>1. IInv => SwitchIsRefused
    BY ParamsAre DEF IInv, Refused, SwitchIsRefused, Numbers
  <1> QED BY <1>1, Invariance, PTL
=============================================================================
