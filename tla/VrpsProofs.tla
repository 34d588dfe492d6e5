------------------------------- MODULE VrpsProofs -------------------------------
(***************************************************************************)
(* Theorems about Vrps, for any records, readers and bounds: the types, the *)
(* order of the list of deltas, what each group and each serial stand for, *)
(* and the stability of the base under its readers.                        *)
(***************************************************************************)
EXTENDS Vrps, FiniteSetTheorems, SequenceTheorems, TLAPS

--------------------------------------------------------------------------------
(***************************************************************************)
(* The operators the module is built from.                                 *)
(***************************************************************************)

\* A non-empty set of naturals has a smallest element: the first group that
\* matches, for the searches of vrps_purge() and vrps_get_deltas_from().
LEMMA MinExists ==
  ASSUME NEW S \in SUBSET Nat, S # {}
  PROVE  \E x \in S : \A y \in S : x <= y
<1>. DEFINE R == {ss \in Nat \X Nat : ss[1] < ss[2]}
<1>1. R = OpToRel(<, Nat)
  BY DEF OpToRel
<1>2. IsWellFoundedOn(R, Nat)
  BY <1>1, NatLessThanWellFounded, Zenon
<1>3. ASSUME NEW Q, IsWellFoundedOn(Q, Nat)
      PROVE  \E x \in S : \A y \in S : ~(<<y, x>> \in Q)
  <2>1. S \subseteq Nat
    OBVIOUS
  <2>. QED  BY <1>3, <2>1, WFMin, Zenon
<1>4. PICK x \in S : \A y \in S : ~(<<y, x>> \in R)
  BY <1>2, <1>3
<1>5. \A y \in S : ~(y < x)
  BY <1>4, Zenon
<1>. QED  BY <1>5, SMTT(30)

\* Counting the groups that hold an object gives a natural.
LEMMA OccurrencesType ==
  ASSUME NEW groups \in Seq(Group), NEW o
  PROVE  Occurrences(groups, o) \in Nat
<1>. DEFINE I == {i \in DOMAIN groups : groups[i].obj = o}
<1>1. Len(groups) \in Nat /\ DOMAIN groups = 1..Len(groups)
  BY LenProperties
<1>2. IsFiniteSet(1..Len(groups))
  BY <1>1, FS_Interval
<1>3. IsFiniteSet(I)
  BY <1>1, <1>2, FS_Subset
<1>. QED  BY <1>3, FS_CardinalityType DEF Occurrences

\* Taking and dropping the references of a list keeps the counters integers.
LEMMA RefsType ==
  ASSUME NEW rf \in [Objs -> Int], NEW groups \in Seq(Group)
  PROVE  /\ RefPutAll(rf, groups) \in [Objs -> Int]
         /\ RefGetAll(rf, groups) \in [Objs -> Int]
BY OccurrencesType DEF RefPutAll, RefGetAll

\* So does dropping one reference.
LEMMA RefPutType ==
  ASSUME NEW rf \in [Objs -> Int], NEW o
  PROVE  deltas_refput(rf, o) \in [Objs -> Int]
<1>1. deltas_refput(rf, o) = [x \in Objs |-> IF x = o THEN rf[x] - 1 ELSE rf[x]]
  BY Zenon DEF deltas_refput
<1>. QED  BY <1>1

\* deltas_create() returns an object that was free.
LEMMA NewObjFree ==
  ASSUME NEW rf \in [Objs -> Int], FreeObjs(rf) # {}
  PROVE  NewObj(rf) \in Objs /\ rf[NewObj(rf)] = 0
BY DEF NewObj, FreeObjs

\* The placeholder of create_empty_delta() is a list of one group.
LEMMA EmptyDelta ==
  ASSUME NEW rf \in [Objs -> Int], create_empty_delta(rf), next_serial \in Serials
  PROVE  /\ deltas' \in Seq(Group)
         /\ Len(deltas') = 1
         /\ DOMAIN deltas' = {1}
         /\ deltas'[1].serial = next_serial
         /\ deltas'[1].deltas = NoDeltas
         /\ refs' \in [Objs -> Int]
<1>1. NewObj(rf) \in Objs
  BY NewObjFree DEF create_empty_delta
<1>2. NoDeltas \in Delta
  BY DEF NoDeltas, Delta
<1>. QED  BY <1>1, <1>2 DEF create_empty_delta, Group

\* vrps_purge() starts to keep groups at a position of the list, the first one
\* when the list is empty.
LEMMA PurgeFromPosition ==
  ASSUME deltas \in Seq(Group), NEW min
  PROVE  /\ PurgeFrom(min) \in Nat \ {0}
         /\ PurgeFrom(min) = 1 \/ PurgeFrom(min) <= Len(deltas)
<1>. DEFINE kept == {i \in DOMAIN deltas : deltas[i].serial >= min}
<1>1. DOMAIN deltas = 1..Len(deltas) /\ Len(deltas) \in Nat
  BY LenProperties
<1>2. CASE kept = {}
  BY <1>2 DEF PurgeFrom
<1>3. CASE kept # {}
  <2>. HIDE DEF kept
  <2>1. kept \in SUBSET Nat
    BY <1>1 DEF kept
  <2>2. \E i \in kept : \A j \in kept : i <= j
    BY <1>3, <2>1, MinExists
  <2>3. PurgeFrom(min) \in kept
    BY <1>3, <2>2 DEF PurgeFrom, kept
  <2>. QED  BY <1>1, <2>3 DEF kept
<1>. QED  BY <1>2, <1>3

\* A part of the list is a list of groups, at shifted positions.
LEMMA PartOfDeltas ==
  ASSUME deltas \in Seq(Group),
         NEW a \in Nat \ {0}, NEW b \in Nat, b <= Len(deltas), a <= b + 1
  PROVE  /\ SubSeq(deltas, a, b) \in Seq(Group)
         /\ Len(SubSeq(deltas, a, b)) = b - a + 1
         /\ DOMAIN SubSeq(deltas, a, b) = 1..(b - a + 1)
         /\ \A i \in 1..(b - a + 1) : /\ SubSeq(deltas, a, b)[i] = deltas[a + i - 1]
                                      /\ a + i - 1 \in DOMAIN deltas
<1>1. DOMAIN deltas = 1..Len(deltas) /\ Len(deltas) \in Nat
  BY LenProperties
<1>2. \A i \in a..b : deltas[i] \in Group
  BY <1>1, ElementOfSeq
<1>3. /\ SubSeq(deltas, a, b) \in Seq(Group)
      /\ Len(SubSeq(deltas, a, b)) = IF a <= b THEN b - a + 1 ELSE 0
      /\ \A i \in 1..(b - a + 1) : SubSeq(deltas, a, b)[i] = deltas[a + i - 1]
  BY <1>2, SubSeqProperties
<1>4. Len(SubSeq(deltas, a, b)) = b - a + 1
  BY <1>3
<1>. QED  BY <1>1, <1>3, <1>4, LenProperties, SMTT(30)

--------------------------------------------------------------------------------
(***************************************************************************)
(* The inductive invariant.                                                *)
(***************************************************************************)

\* vrps_init() establishes the invariant.
LEMMA VrpsInitInv == VrpsInit => VrpsInv
<1>. SUFFICES ASSUME VrpsInit PROVE VrpsInv
  OBVIOUS
<1>. USE MaxSerialAssumption, MaxRestartsAssumption DEF VrpsInit, UpdIdle
<1>1. VrpsTypeOK
  BY DEF VrpsTypeOK, UpdType, Delta, NoDeltas, NoObj
<1>2. UpdateSane /\ AscendingSerials /\ SerialMeansChange /\ GroupIsDiff
  BY DEF UpdateSane, AscendingSerials, SerialMeansChange, GroupIsDiff
<1>. QED  BY <1>1, <1>2 DEF VrpsInv

\* A restart is like a start.
LEMMA RestartInv == VrpsInv /\ VrpsRestart => VrpsInv'
<1>. SUFFICES ASSUME VrpsInv, VrpsRestart PROVE VrpsInv'
  OBVIOUS
<1>. USE MaxSerialAssumption, MaxRestartsAssumption DEF VrpsRestart, UpdIdle
<1>1. VrpsTypeOK'
  BY DEF VrpsInv, VrpsTypeOK, UpdType, Delta, NoDeltas, NoObj
<1>2. UpdateSane' /\ AscendingSerials' /\ SerialMeansChange' /\ GroupIsDiff'
  BY DEF UpdateSane, AscendingSerials, SerialMeansChange, GroupIsDiff
<1>. QED  BY <1>1, <1>2 DEF VrpsInv

\* The validation changes nothing but the updater.
LEMMA ValidationInv ==
  ASSUME VrpsInv, NEW new \in SUBSET Records, perform_standalone_validation(new)
  PROVE  VrpsInv'
<1>. USE MaxSerialAssumption DEF VrpsInv, perform_standalone_validation
<1>1. VrpsTypeOK' /\ UpdateSane'
  BY Zenon DEF VrpsTypeOK, UpdateSane, UpdType
<1>2. AscendingSerials' /\ SerialMeansChange' /\ GroupIsDiff'
  BY DEF VrpsTypeOK, UpdType, AscendingSerials, SerialMeansChange, GroupIsDiff, Snapshot
<1>. QED  BY <1>1, <1>2

\* An update that is given up leaves the base, the serial and the history alone.
LEMMA RevertInv ==
  ASSUME VrpsInv, Revert, UNCHANGED <<deltas, refs, boot, result, streaming>>,
         upd.pc # "purge"
  PROVE  VrpsInv'
<1>. USE MaxSerialAssumption DEF VrpsInv, Revert, UpdIdle
<1>1. VrpsTypeOK' /\ UpdateSane'
  BY DEF VrpsTypeOK, UpdateSane, UpdType, Delta, NoDeltas, NoObj
<1>2. AscendingSerials' /\ SerialMeansChange' /\ GroupIsDiff'
  BY SMTT(30) DEF VrpsTypeOK, AscendingSerials, SerialMeansChange, GroupIsDiff, Snapshot
<1>. QED  BY <1>1, <1>2

\* What Publish does to the history, for the updates that succeed.
LEMMA PublishHistory ==
  ASSUME VrpsInv, Publish, upd.pc # "idle", upd.new # base, upd.new # None
  PROVE  /\ history' \in Seq(SUBSET Records)
         /\ SerialMeansChange'
         /\ \A i \in 1..next_serial : history'[i] = history[i]
         /\ history'[next_serial + 1] = upd.new
         /\ next_serial' \in 1..(MaxSerial + 1)
<1>. USE MaxSerialAssumption
<1>1. /\ history \in Seq(SUBSET Records) /\ Len(history) = next_serial
      /\ next_serial \in 0..MaxSerial
      /\ upd.new \in SUBSET Records
  BY DEF VrpsInv, VrpsTypeOK, UpdateSane, SerialMeansChange, UpdType
<1>2. /\ history' \in Seq(SUBSET Records)
      /\ Len(history') = next_serial + 1
      /\ \A i \in 1..next_serial : history'[i] = history[i]
      /\ history'[next_serial + 1] = upd.new
  BY <1>1, AppendProperties DEF Publish
<1>3. next_serial' = next_serial + 1 /\ base' = upd.new
  BY DEF Publish
<1>4. \A s \in 1..next_serial : history'[s + 1] # history'[s]
  <2>. SUFFICES ASSUME NEW s \in 1..next_serial
                PROVE  history'[s + 1] # history'[s]
    OBVIOUS
  <2>1. CASE s < next_serial
    <3>1. s \in 1..(next_serial - 1) /\ s + 1 \in 1..next_serial /\ s - 1 + 1 = s
      BY <1>1, <2>1
    <3>2. history[s + 1] # history[s - 1 + 1]
      BY <3>1 DEF VrpsInv, SerialMeansChange, Snapshot
    <3>. QED  BY <1>2, <3>1, <3>2
  <2>2. CASE s = next_serial
    <3>1. base = history[next_serial - 1 + 1] /\ next_serial - 1 + 1 = next_serial
      BY <1>1, <2>2 DEF VrpsInv, SerialMeansChange, Snapshot
    <3>. QED  BY <1>1, <1>2, <2>2, <3>1
  <2>. QED  BY <1>1, <2>1, <2>2
<1>5. SerialMeansChange'
  <2>1. \A s \in 1..(next_serial' - 1) : history'[s + 1] # history'[s - 1 + 1]
    BY <1>1, <1>3, <1>4
  <2>2. base' = history'[next_serial' - 1 + 1]
    BY <1>1, <1>2, <1>3
  <2>. QED  BY <1>2, <1>3, <2>1, <2>2 DEF SerialMeansChange, Snapshot
<1>. QED  BY <1>1, <1>2, <1>3, <1>5

\* The first database becomes serial 0, with a placeholder.
LEMMA FirstUpdateInv == VrpsInv /\ FirstUpdate => VrpsInv'
<1>. SUFFICES ASSUME VrpsInv, FirstUpdate PROVE VrpsInv'
  OBVIOUS
<1>. USE MaxSerialAssumption
<1>1. CASE upd.new # {} /\ create_empty_delta(refs) /\ Publish
  <2>1. /\ next_serial = 0 /\ upd.pc = "validated"
        /\ upd.new \in SUBSET Records /\ refs \in [Objs -> Int]
        /\ UNCHANGED <<boot, result, streaming>>
    BY DEF VrpsInv, VrpsTypeOK, UpdateSane, UpdType, FirstUpdate
  <2>2. upd.new # base /\ upd.new # None
    BY <2>1, NoneAssumption DEF FirstUpdate
  <2>3. /\ history' \in Seq(SUBSET Records)
        /\ SerialMeansChange'
        /\ next_serial' \in 1..(MaxSerial + 1)
    BY <1>1, <2>1, <2>2, PublishHistory
  <2>4. /\ deltas' \in Seq(Group)
        /\ DOMAIN deltas' = {1}
        /\ deltas'[1].serial = 0
        /\ deltas'[1].deltas = NoDeltas
        /\ refs' \in [Objs -> Int]
    BY <1>1, <2>1, EmptyDelta DEF Serials
  <2>5. VrpsTypeOK'
    BY <1>1, <2>1, <2>3, <2>4, SMTT(30)
    DEF VrpsInv, VrpsTypeOK, Publish, UpdIdle, UpdType, Delta, NoDeltas, NoObj
  <2>6. UpdateSane'
    BY <1>1, <2>1, <2>2, <2>3, NoneAssumption DEF UpdateSane, Publish, UpdIdle
  <2>7. AscendingSerials' /\ GroupIsDiff'
    BY <2>3, <2>4 DEF AscendingSerials, GroupIsDiff
  <2>. QED  BY <2>3, <2>5, <2>6, <2>7 DEF VrpsInv
<1>2. CASE Revert /\ UNCHANGED <<deltas, refs>>
  BY <1>2, RevertInv DEF FirstUpdate
<1>. QED  BY <1>1, <1>2 DEF FirstUpdate

\* The delta of an update that may be published is appended, or not.
LEMMA ComputeDeltasInv ==
  ASSUME VrpsInv, NEW min, ComputeDeltas(min)
  PROVE  VrpsInv'
<1>. DEFINE d == compute_deltas(base, upd.new)
            g == [serial |-> next_serial, deltas |-> d, obj |-> NewObj(refs)]
<1>. USE MaxSerialAssumption
<1>1. CASE Revert /\ UNCHANGED <<deltas, refs>>
  BY <1>1, RevertInv DEF ComputeDeltas
<1>2. CASE ~(Revert /\ UNCHANGED <<deltas, refs>>)
  <2>1. /\ upd.pc = "validated" /\ streaming = {} /\ base # None
        /\ ~deltas_is_empty(d) /\ FreeObjs(refs) # {}
        /\ refs' = [refs EXCEPT ![NewObj(refs)] = 1]
        /\ deltas' = IF min # None THEN Append(deltas, g) ELSE deltas
        /\ upd' = [upd EXCEPT !.pc = "purge", !.deltas = d, !.obj = NewObj(refs)]
        /\ UNCHANGED <<base, next_serial, history, boot, result, streaming>>
    BY <1>2 DEF ComputeDeltas, WriteLockFree
  <2>2. /\ base \in SUBSET Records /\ upd \in UpdType /\ upd.new \in SUBSET Records
        /\ next_serial \in 1..MaxSerial
        /\ deltas \in Seq(Group) /\ refs \in [Objs -> Int]
    BY <2>1 DEF VrpsInv, VrpsTypeOK, UpdateSane, UpdType
  <2>3. /\ d \in Delta
        /\ IsDiff(d, base, upd.new)
        /\ upd.new # base
    BY <2>1, <2>2 DEF Delta, compute_deltas, deltas_is_empty, IsDiff, Applied
  <2>4. NewObj(refs) \in Objs
    BY <2>1, <2>2, NewObjFree
  <2>5. g \in Group
    BY <2>2, <2>3, <2>4 DEF Group, Serials
  <2>. HIDE DEF g, d
  <2>6. /\ upd' \in UpdType /\ upd'.pc = "purge" /\ upd'.new = upd.new
    BY <2>1, <2>2, <2>3, <2>4, Zenon DEF UpdType
  <2>7. deltas' \in Seq(Group)
    BY <2>1, <2>2, <2>5
  <2>8. VrpsTypeOK'
    BY <2>1, <2>2, <2>4, <2>6, <2>7 DEF VrpsInv, VrpsTypeOK
  <2>9. UpdateSane'
    BY <2>1, <2>2, <2>3, <2>6 DEF VrpsInv, UpdateSane
  <2>10. SerialMeansChange'
    BY <2>1 DEF VrpsInv, SerialMeansChange, Snapshot
  <2>11. \A i \in DOMAIN deltas' :
           \/ i \in DOMAIN deltas /\ deltas'[i] = deltas[i]
           \/ i = Len(deltas) + 1 /\ deltas'[i] = g
    BY <2>1, <2>2, <2>5, AppendProperties, LenProperties
  <2>12. DOMAIN deltas = 1..Len(deltas) /\ Len(deltas) \in Nat
    BY <2>2, LenProperties
  <2>13. g.serial = next_serial /\ g.deltas = d
    BY DEF g
  <2>14. \A i \in DOMAIN deltas : deltas[i].serial \in Int /\ deltas[i].serial < next_serial
    <3>1. \A i \in DOMAIN deltas : deltas[i] \in Group
      BY <2>2, <2>12, ElementOfSeq
    <3>2. \A i \in DOMAIN deltas : deltas[i].serial < next_serial
      BY <2>1 DEF VrpsInv, AscendingSerials
    <3>. QED  BY <3>1, <3>2 DEF Group, Serials
  <2>15. AscendingSerials'
    <3>1. \A i, j \in DOMAIN deltas' :
            i < j => deltas'[i].serial < deltas'[j].serial
      BY <2>2, <2>11, <2>12, <2>13, <2>14 DEF VrpsInv, AscendingSerials
    <3>2. \A i \in DOMAIN deltas' : deltas'[i].serial <= next_serial
      BY <2>2, <2>11, <2>13, <2>14
    <3>. QED  BY <2>1, <2>2, <2>6, <2>11, <2>13, <2>14, <3>1, <3>2, SMTT(30) DEF AscendingSerials
  <2>16. GroupIsDiff'
    BY <2>1, <2>3, <2>6, <2>11, <2>13, SMTT(30) DEF VrpsInv, GroupIsDiff, Snapshot
  <2>. QED  BY <2>8, <2>9, <2>10, <2>15, <2>16 DEF VrpsInv
<1>. QED  BY <1>1, <1>2

\* What holds while the updater is between its two questions.
LEMMA PurgeFacts ==
  ASSUME VrpsInv, upd.pc = "purge"
  PROVE  /\ base \in SUBSET Records /\ upd.new \in SUBSET Records
         /\ upd.new # base /\ upd.new # None /\ base # None
         /\ next_serial \in 1..MaxSerial
         /\ deltas \in Seq(Group) /\ refs \in [Objs -> Int]
         /\ DOMAIN deltas = 1..Len(deltas) /\ Len(deltas) \in Nat
         /\ \A i \in DOMAIN deltas : deltas[i].serial \in 0..next_serial
         /\ history[next_serial] = base
<1>. USE MaxSerialAssumption
<1>1. /\ base \in SUBSET Records /\ upd.new \in SUBSET Records
      /\ upd.new # base /\ base # None
      /\ next_serial \in 1..MaxSerial
      /\ deltas \in Seq(Group) /\ refs \in [Objs -> Int]
  BY DEF VrpsInv, VrpsTypeOK, UpdateSane, UpdType
<1>2. upd.new # None
  BY <1>1, NoneAssumption
<1>3. DOMAIN deltas = 1..Len(deltas) /\ Len(deltas) \in Nat
  BY <1>1, LenProperties
<1>4. \A i \in DOMAIN deltas : deltas[i] \in Group
  BY <1>1, <1>3, ElementOfSeq
<1>5. \A i \in DOMAIN deltas : deltas[i].serial \in Nat
  BY <1>4 DEF Group, Serials
<1>6. \A i \in DOMAIN deltas : deltas[i].serial <= next_serial
  BY <1>1, <1>5 DEF VrpsInv, AscendingSerials
<1>7. history[next_serial] = base
  <2>1. base = history[next_serial - 1 + 1] /\ next_serial - 1 + 1 = next_serial
    BY <1>1 DEF VrpsInv, SerialMeansChange, Snapshot
  <2>. QED  BY <2>1
<1>. QED  BY <1>1, <1>2, <1>3, <1>5, <1>6, <1>7

\* Publishing makes what the stored groups say true of the published databases.
LEMMA PublishedGroup ==
  ASSUME VrpsInv, Publish, upd.pc = "purge",
         NEW i \in DOMAIN deltas, i # 1 \/ deltas[i].deltas # NoDeltas
  PROVE  /\ deltas[i].serial \in 1..(next_serial' - 1)
         /\ IsDiff(deltas[i].deltas, history'[deltas[i].serial - 1 + 1],
                                     history'[deltas[i].serial + 1])
<1>. DEFINE s == deltas[i].serial
<1>. USE MaxSerialAssumption
<1>1. /\ next_serial \in 1..MaxSerial /\ s \in 0..next_serial
      /\ history[next_serial] = base /\ upd.new # base /\ upd.new # None
  BY PurgeFacts
<1>2. /\ next_serial' = next_serial + 1
      /\ \A k \in 1..next_serial : history'[k] = history[k]
      /\ history'[next_serial + 1] = upd.new
  BY <1>1, PublishHistory, Zenon DEF Publish
<1>3. CASE s \in 1..(next_serial - 1) /\ IsDiff(deltas[i].deltas, Snapshot(s - 1), Snapshot(s))
  <2>1. s - 1 + 1 \in 1..next_serial /\ s + 1 \in 1..next_serial
    BY <1>1, <1>3
  <2>2. history'[s - 1 + 1] = history[s - 1 + 1] /\ history'[s + 1] = history[s + 1]
    BY <1>2, <2>1
  <2>. QED  BY <1>1, <1>2, <1>3, <2>2 DEF Snapshot
<1>4. CASE s = next_serial /\ IsDiff(deltas[i].deltas, base, upd.new)
  <2>1. s - 1 + 1 = next_serial /\ s + 1 = next_serial + 1
    BY <1>1, <1>4
  <2>. QED  BY <1>1, <1>2, <1>4, <2>1
<1>. QED  BY <1>3, <1>4, SMTT(30) DEF VrpsInv, GroupIsDiff

\* With nobody to serve, the list is left with a placeholder, or empty when the
\* allocation of that one fails.
LEMMA PurgeAllInv ==
  ASSUME VrpsInv, upd.pc = "purge", PurgeAll, UNCHANGED <<boot, result, streaming>>
  PROVE  VrpsInv'
<1>. DEFINE rf == RefPutAll(deltas_refput(refs, upd.obj), deltas)
<1>. USE MaxSerialAssumption
<1>1. /\ next_serial \in 1..MaxSerial
      /\ deltas \in Seq(Group) /\ refs \in [Objs -> Int]
      /\ base \in SUBSET Records /\ upd.new \in SUBSET Records
      /\ upd.new # base /\ upd.new # None /\ base # None
  BY PurgeFacts
<1>2. rf \in [Objs -> Int]
  <2>1. deltas_refput(refs, upd.obj) \in [Objs -> Int]
    BY <1>1, RefPutType
  <2>. QED  BY <1>1, <2>1, RefsType
<1>. HIDE DEF rf
<1>3. CASE create_empty_delta(rf) /\ Publish
  <2>1. /\ history' \in Seq(SUBSET Records)
        /\ SerialMeansChange'
        /\ next_serial' \in 1..(MaxSerial + 1) /\ next_serial' = next_serial + 1
    BY <1>1, <1>3, PublishHistory DEF Publish
  <2>2. /\ deltas' \in Seq(Group)
        /\ DOMAIN deltas' = {1}
        /\ deltas'[1].serial = next_serial
        /\ deltas'[1].deltas = NoDeltas
        /\ refs' \in [Objs -> Int]
    BY <1>1, <1>2, <1>3, EmptyDelta DEF Serials
  <2>3. VrpsTypeOK'
    BY <1>1, <1>3, <2>1, <2>2, SMTT(30)
    DEF VrpsInv, VrpsTypeOK, Publish, UpdIdle, UpdType, Delta, NoDeltas, NoObj
  <2>4. UpdateSane'
    BY <1>1, <1>3, <2>1, NoneAssumption, SMTT(30) DEF UpdateSane, Publish, UpdIdle
  <2>5. AscendingSerials' /\ GroupIsDiff'
    BY <1>1, <2>1, <2>2 DEF AscendingSerials, GroupIsDiff
  <2>. QED  BY <2>1, <2>3, <2>4, <2>5 DEF VrpsInv
<1>4. CASE deltas' = <<>> /\ refs' = rf /\ Revert
  <2>1. VrpsTypeOK' /\ UpdateSane'
    BY <1>1, <1>2, <1>4, SMTT(30)
    DEF VrpsInv, VrpsTypeOK, UpdateSane, Revert, UpdIdle, UpdType, Delta, NoDeltas, NoObj
  <2>2. AscendingSerials' /\ GroupIsDiff'
    BY <1>4 DEF AscendingSerials, GroupIsDiff
  <2>3. SerialMeansChange'
    BY <1>4 DEF VrpsInv, SerialMeansChange, Revert, Snapshot
  <2>. QED  BY <2>1, <2>2, <2>3 DEF VrpsInv
<1>. QED  BY <1>3, <1>4 DEF PurgeAll, rf

\* The groups below the smallest serial go; a failure loses the newest instead.
LEMMA PurgeBelowInv ==
  ASSUME VrpsInv, upd.pc = "purge", NEW min, PurgeBelow(min),
         UNCHANGED <<boot, result, streaming>>
  PROVE  VrpsInv'
<1>. DEFINE k == PurgeFrom(min)
<1>. USE MaxSerialAssumption
<1>1. /\ next_serial \in 1..MaxSerial
      /\ deltas \in Seq(Group) /\ refs \in [Objs -> Int]
      /\ DOMAIN deltas = 1..Len(deltas) /\ Len(deltas) \in Nat
      /\ \A i \in DOMAIN deltas : deltas[i].serial \in 0..next_serial
      /\ base \in SUBSET Records /\ upd.new \in SUBSET Records
      /\ upd.new # base /\ upd.new # None /\ base # None
  BY PurgeFacts
<1>2. k \in Nat \ {0} /\ (k = 1 \/ k <= Len(deltas))
  BY <1>1, PurgeFromPosition
<1>. HIDE DEF k
<1>3. CASE /\ deltas' = SubSeq(deltas, k, Len(deltas))
           /\ refs' = RefPutAll(refs, SubSeq(deltas, 1, k - 1))
           /\ Publish
  <2>1. /\ deltas' \in Seq(Group)
        /\ DOMAIN deltas' = 1..(Len(deltas) - k + 1)
        /\ \A i \in DOMAIN deltas' : /\ deltas'[i] = deltas[k + i - 1]
                                     /\ k + i - 1 \in DOMAIN deltas
    <3>1. k <= Len(deltas) + 1
      BY <1>1, <1>2
    <3>. QED  BY <1>1, <1>2, <1>3, <3>1, PartOfDeltas, SMTT(30)
  <2>2. refs' \in [Objs -> Int]
    <3>1. k - 1 \in Nat /\ k - 1 <= Len(deltas) /\ 1 <= k - 1 + 1
      BY <1>1, <1>2
    <3>2. SubSeq(deltas, 1, k - 1) \in Seq(Group)
      BY <1>1, <3>1, PartOfDeltas
    <3>. QED  BY <1>1, <1>3, <3>2, RefsType, Zenon
  <2>3. /\ history' \in Seq(SUBSET Records)
        /\ SerialMeansChange'
        /\ next_serial' \in 1..(MaxSerial + 1) /\ next_serial' = next_serial + 1
    BY <1>1, <1>3, PublishHistory, SMTT(30) DEF Publish
  <2>4. VrpsTypeOK'
    BY <1>1, <1>3, <2>1, <2>2, <2>3, SMTT(30)
    DEF VrpsInv, VrpsTypeOK, Publish, UpdIdle, UpdType, Delta, NoDeltas, NoObj
  <2>5. UpdateSane'
    BY <1>1, <1>3, <2>3, NoneAssumption, SMTT(30) DEF UpdateSane, Publish, UpdIdle
  <2>6. AscendingSerials'
    <3>1. \A i, j \in DOMAIN deltas' :
            i < j => deltas'[i].serial < deltas'[j].serial
      <4>. SUFFICES ASSUME NEW i \in DOMAIN deltas', NEW j \in DOMAIN deltas', i < j
                    PROVE  deltas'[i].serial < deltas'[j].serial
        OBVIOUS
      <4>1. /\ k + i - 1 \in DOMAIN deltas /\ deltas'[i] = deltas[k + i - 1]
            /\ k + j - 1 \in DOMAIN deltas /\ deltas'[j] = deltas[k + j - 1]
        BY <2>1
      <4>2. k + i - 1 < k + j - 1
        BY <1>1, <1>2, <2>1, SMTT(30)
      <4>. QED  BY <4>1, <4>2 DEF VrpsInv, AscendingSerials
    <3>2. \A i \in DOMAIN deltas' : deltas'[i].serial < next_serial'
      BY <1>1, <2>1, <2>3, SMTT(30)
    <3>. QED  BY <3>1, <3>2 DEF AscendingSerials
  <2>7. GroupIsDiff'
    <3>. SUFFICES ASSUME NEW i \in DOMAIN deltas', i # 1 \/ deltas'[i].deltas # NoDeltas
                  PROVE  /\ deltas'[i].serial \in 1..(next_serial' - 1)
                         /\ IsDiff(deltas'[i].deltas, history'[deltas'[i].serial - 1 + 1],
                                   history'[deltas'[i].serial + 1])
      BY SMTT(30) DEF GroupIsDiff, Snapshot
    <3>1. k + i - 1 \in DOMAIN deltas /\ deltas'[i] = deltas[k + i - 1]
      BY <2>1
    <3>2. k + i - 1 # 1 \/ deltas[k + i - 1].deltas # NoDeltas
      BY <1>1, <1>2, <2>1, <3>1, SMTT(30)
    <3>. QED  BY <1>3, <3>1, <3>2, PublishedGroup, SMTT(30)
  <2>. QED  BY <2>3, <2>4, <2>5, <2>6, <2>7 DEF VrpsInv
<1>4. CASE /\ k > 1
           /\ deltas' = SubSeq(deltas, 1, Len(deltas) - (k - 1))
           /\ UNCHANGED refs
           /\ Revert
  <2>1. /\ deltas' \in Seq(Group)
        /\ DOMAIN deltas' = 1..(Len(deltas) - (k - 1))
        /\ \A i \in DOMAIN deltas' : /\ deltas'[i] = deltas[i]
                                     /\ i \in DOMAIN deltas
                                     /\ i < Len(deltas)
    <3>1. /\ Len(deltas) - (k - 1) \in Nat /\ Len(deltas) - (k - 1) <= Len(deltas)
          /\ 1 <= Len(deltas) - (k - 1) + 1 /\ 1 \in Nat \ {0}
          /\ Len(deltas) - (k - 1) < Len(deltas)
      BY <1>1, <1>2, <1>4
    <3>2. /\ deltas' \in Seq(Group)
          /\ DOMAIN deltas' = 1..(Len(deltas) - (k - 1) - 1 + 1)
          /\ \A i \in 1..(Len(deltas) - (k - 1) - 1 + 1) :
               deltas'[i] = deltas[1 + i - 1] /\ 1 + i - 1 \in DOMAIN deltas
      BY <1>1, <1>4, <3>1, PartOfDeltas, SMTT(30)
    <3>. QED  BY <1>1, <1>2, <3>1, <3>2, SMTT(30)
  <2>2. VrpsTypeOK' /\ UpdateSane'
    BY <1>1, <1>4, <2>1, SMTT(30)
    DEF VrpsInv, VrpsTypeOK, UpdateSane, Revert, UpdIdle, UpdType, Delta, NoDeltas, NoObj
  <2>3. \A i \in DOMAIN deltas' : deltas[i].serial < next_serial
    <3>. SUFFICES ASSUME NEW i \in DOMAIN deltas' PROVE deltas[i].serial < next_serial
      BY SMTT(30)
    <3>1. i < Len(deltas) /\ i \in DOMAIN deltas /\ Len(deltas) \in DOMAIN deltas
      BY <1>1, <2>1
    <3>2. deltas[i].serial < deltas[Len(deltas)].serial
      BY <3>1 DEF VrpsInv, AscendingSerials
    <3>3. deltas[Len(deltas)].serial \in 0..next_serial /\ deltas[i].serial \in 0..next_serial
      BY <1>1, <3>1
    <3>. QED  BY <1>1, <3>2, <3>3, SMTT(30)
  <2>4. AscendingSerials'
    BY <1>1, <1>4, <2>1, <2>3, SMTT(30) DEF VrpsInv, AscendingSerials, Revert
  <2>5. GroupIsDiff'
    BY <1>1, <1>4, <2>1, <2>3, SMTT(30) DEF VrpsInv, GroupIsDiff, Revert, Snapshot
  <2>6. SerialMeansChange'
    BY <1>4 DEF VrpsInv, SerialMeansChange, Revert, Snapshot
  <2>. QED  BY <2>2, <2>4, <2>5, <2>6 DEF VrpsInv
<1>. QED  BY <1>3, <1>4 DEF PurgeBelow, k

\* A reader that takes a copy of some groups gets a list of groups.
LEMMA DeltasFromType ==
  ASSUME VrpsInv, NEW from \in Serials, FromFound(from) # {}
  PROVE  DeltasFrom(from) \in ResultType
<1>. DEFINE k == CHOOSE i \in FromFound(from) : \A j \in FromFound(from) : i <= j
<1>1. deltas \in Seq(Group) /\ DOMAIN deltas = 1..Len(deltas) /\ Len(deltas) \in Nat
  BY LenProperties DEF VrpsInv, VrpsTypeOK
<1>2. k \in FromFound(from)
  <2>1. FromFound(from) \in SUBSET Nat
    BY <1>1 DEF FromFound
  <2>2. \E i \in FromFound(from) : \A j \in FromFound(from) : i <= j
    BY <2>1, MinExists
  <2>. QED  BY <2>2
<1>3. k \in 1..Len(deltas)
  BY <1>1, <1>2 DEF FromFound
<1>. HIDE DEF k
<1>4. SubSeq(deltas, k + 1, Len(deltas)) \in Seq(Group)
  <2>1. k + 1 \in Nat \ {0} /\ k + 1 <= Len(deltas) + 1
    BY <1>1, <1>3
  <2>. QED  BY <1>1, <2>1, PartOfDeltas
<1>5. deltas[Len(deltas)].serial \in Serials
  <2>1. deltas[Len(deltas)] \in Group
    BY <1>1, <1>3, ElementOfSeq
  <2>. QED  BY <2>1 DEF Group
<1>. QED  BY <1>4, <1>5 DEF DeltasFrom, ResultType, k

\* The readers change neither the list nor what the serials stand for.
LEMMA ReaderInv ==
  ASSUME VrpsInv,
         \/ \E rd \in Readers, from \in Serials : vrps_get_deltas_from(rd, from)
         \/ \E rd \in Readers : PutDeltas(rd)
         \/ \E rd \in Readers : vrps_foreach_base(rd)
         \/ \E rd \in Readers : ForeachBaseEnd(rd)
  PROVE  VrpsInv'
<1>1. UNCHANGED <<base, deltas, next_serial, boot, upd, history>>
  BY DEF vrps_get_deltas_from, PutDeltas, vrps_foreach_base, ForeachBaseEnd
<1>2. /\ refs' \in [Objs -> Int]
      /\ result' \in [Readers -> ResultType \cup {None}]
      /\ streaming' \in SUBSET Readers
  <2>1. CASE \E rd \in Readers, from \in Serials : vrps_get_deltas_from(rd, from)
    <3>1. PICK rd \in Readers, from \in Serials : vrps_get_deltas_from(rd, from)
      BY <2>1
    <3>2. DeltasFrom(from) \in ResultType
      BY <3>1, DeltasFromType DEF vrps_get_deltas_from, deltas_from_status
    <3>3. DeltasFrom(from).groups \in Seq(Group)
      BY <3>2 DEF ResultType
    <3>4. refs' \in [Objs -> Int]
      BY <3>1, <3>3, RefsType, SMTT(30) DEF VrpsInv, VrpsTypeOK, vrps_get_deltas_from
    <3>5. result' \in [Readers -> ResultType \cup {None}]
      BY <3>1, <3>2 DEF VrpsInv, VrpsTypeOK, vrps_get_deltas_from
    <3>. QED  BY <3>1, <3>4, <3>5, SMTT(30) DEF VrpsInv, VrpsTypeOK, vrps_get_deltas_from
  <2>2. CASE \E rd \in Readers : PutDeltas(rd)
    <3>1. PICK rd \in Readers : PutDeltas(rd)
      BY <2>2
    <3>2. result[rd] \in ResultType
      BY <3>1 DEF VrpsInv, VrpsTypeOK, PutDeltas
    <3>3. result[rd].groups \in Seq(Group)
      BY <3>2 DEF ResultType
    <3>4. refs' \in [Objs -> Int]
      BY <3>1, <3>3, RefsType DEF VrpsInv, VrpsTypeOK, PutDeltas
    <3>. QED  BY <3>1, <3>4, SMTT(30) DEF VrpsInv, VrpsTypeOK, PutDeltas
  <2>3. CASE \E rd \in Readers : vrps_foreach_base(rd)
    BY <2>3 DEF VrpsInv, VrpsTypeOK, vrps_foreach_base
  <2>4. CASE \E rd \in Readers : ForeachBaseEnd(rd)
    BY <2>4 DEF VrpsInv, VrpsTypeOK, ForeachBaseEnd
  <2>. QED  BY <2>1, <2>2, <2>3, <2>4
<1>3. VrpsTypeOK' /\ UpdateSane'
  BY <1>1, <1>2, SMTT(30) DEF VrpsInv, VrpsTypeOK, UpdateSane
<1>4. AscendingSerials' /\ SerialMeansChange' /\ GroupIsDiff'
  BY <1>1, SMTT(30) DEF VrpsInv, AscendingSerials, SerialMeansChange, GroupIsDiff, Snapshot
<1>. QED  BY <1>3, <1>4 DEF VrpsInv

\* Every step of the database preserves the invariant.
LEMMA VrpsNextInv == VrpsInv /\ [VrpsNext]_vrpsVars => VrpsInv'
<1>. SUFFICES ASSUME VrpsInv, [VrpsNext]_vrpsVars PROVE VrpsInv'
  OBVIOUS
<1>1. CASE VrpsRestart
  BY <1>1, RestartInv
<1>2. CASE \E new \in SUBSET Records : perform_standalone_validation(new)
  BY <1>2, ValidationInv
<1>3. CASE FirstUpdate
  BY <1>3, FirstUpdateInv
<1>4. CASE \E min \in MinSerials : ComputeDeltas(min)
  BY <1>4, ComputeDeltasInv
<1>5. CASE \E min \in MinSerials : PurgeAndPublish(min)
  BY <1>5, PurgeAllInv, PurgeBelowInv DEF PurgeAndPublish
<1>6. CASE \/ \E rd \in Readers, from \in Serials : vrps_get_deltas_from(rd, from)
           \/ \E rd \in Readers : PutDeltas(rd)
           \/ \E rd \in Readers : vrps_foreach_base(rd)
           \/ \E rd \in Readers : ForeachBaseEnd(rd)
  BY <1>6, ReaderInv
<1>7. CASE UNCHANGED vrpsVars
  BY <1>7, SMTT(30) DEF vrpsVars, VrpsInv, VrpsTypeOK, UpdateSane, AscendingSerials,
              SerialMeansChange, GroupIsDiff, Snapshot
<1>. QED  BY <1>1, <1>2, <1>3, <1>4, <1>5, <1>6, <1>7 DEF VrpsNext

--------------------------------------------------------------------------------
(***************************************************************************)
(* The results.                                                            *)
(***************************************************************************)

\* Whatever is purged, fails or restarts, and for any records, readers and bounds,
\* __vrps_update() keeps each serial the name of one database and each stored
\* group the step between two of them, in order.
THEOREM VrpsInvariance == VrpsSpec => []VrpsInv
<1>. QED  BY VrpsInitInv, VrpsNextInv, PTL DEF VrpsSpec

\* The types of the database hold for any instance.
THEOREM VrpsTypesHold == VrpsSpec => []VrpsTypeOK
BY VrpsInvariance, PTL DEF VrpsInv

\* state.deltas is always in ascending order of serial, for any sequence of
\* updates, purges and failures: the assumption of vrps_purge() is right.
THEOREM SerialsAscend == VrpsSpec => []AscendingSerials
BY VrpsInvariance, PTL DEF VrpsInv

\* Each serial stands for a database that differs from the one before.
THEOREM SerialsNameDatabases == VrpsSpec => []SerialMeansChange
BY VrpsInvariance, PTL DEF VrpsInv

\* Each stored group is the difference between the databases of its serial and of
\* the one before.
THEOREM GroupsAreDifferences == VrpsSpec => []GroupIsDiff
BY VrpsInvariance, PTL DEF VrpsInv

\* The write lock: an update between its two questions has no reader inside
\* vrps_foreach_base().
LockHeld == upd.pc = "purge" => streaming = {}

LEMMA LockIsHeld == VrpsSpec => []LockHeld
<1>1. VrpsInit => LockHeld
  BY DEF VrpsInit, UpdIdle, LockHeld
<1>2. VrpsInv /\ LockHeld /\ [VrpsNext]_vrpsVars => LockHeld'
  <2>. SUFFICES ASSUME VrpsInv, LockHeld, [VrpsNext]_vrpsVars PROVE LockHeld'
    OBVIOUS
  <2>1. CASE VrpsRestart
    BY <2>1 DEF VrpsRestart, UpdIdle, LockHeld
  <2>2. CASE FirstUpdate \/ \E min \in MinSerials : ComputeDeltas(min)
    BY <2>2 DEF FirstUpdate, ComputeDeltas, WriteLockFree, LockHeld
  <2>3. CASE \E min \in MinSerials : PurgeAndPublish(min)
    BY <2>3 DEF PurgeAndPublish, LockHeld
  <2>4. CASE \E new \in SUBSET Records : perform_standalone_validation(new)
    BY <2>4 DEF perform_standalone_validation, VrpsInv, VrpsTypeOK, UpdType, LockHeld
  <2>5. CASE \/ \E rd \in Readers, from \in Serials : vrps_get_deltas_from(rd, from)
             \/ \E rd \in Readers : PutDeltas(rd)
             \/ \E rd \in Readers : vrps_foreach_base(rd)
             \/ \E rd \in Readers : ForeachBaseEnd(rd)
             \/ UNCHANGED vrpsVars
    BY <2>5, SMTT(30) DEF vrps_get_deltas_from, PutDeltas, vrps_foreach_base, ForeachBaseEnd,
                          ReadLockFree, vrpsVars, LockHeld
  <2>. QED  BY <2>1, <2>2, <2>3, <2>4, <2>5 DEF VrpsNext
<1>. QED  BY <1>1, <1>2, VrpsInvariance, PTL DEF VrpsSpec

\* No update happens under a reader of vrps_foreach_base().
THEOREM BaseIsStable == VrpsSpec => BaseStableWhileStreaming
<1>1. ASSUME VrpsInv, LockHeld, [VrpsNext]_vrpsVars
      PROVE  [(streaming # {} /\ boot' = boot)
                => UNCHANGED <<base, next_serial, deltas>>]_vrpsVars
  <2>. SUFFICES ASSUME streaming # {}, boot' = boot, VrpsNext
                PROVE  UNCHANGED <<base, next_serial, deltas>>
    BY <1>1
  <2>1. CASE VrpsRestart
    BY <1>1, <2>1 DEF VrpsRestart, VrpsInv, VrpsTypeOK
  <2>2. CASE FirstUpdate \/ \E min \in MinSerials : ComputeDeltas(min)
    BY <2>2 DEF FirstUpdate, ComputeDeltas, WriteLockFree
  <2>3. CASE \E min \in MinSerials : PurgeAndPublish(min)
    BY <1>1, <2>3 DEF PurgeAndPublish, LockHeld
  <2>4. CASE \/ \E new \in SUBSET Records : perform_standalone_validation(new)
             \/ \E rd \in Readers, from \in Serials : vrps_get_deltas_from(rd, from)
             \/ \E rd \in Readers : PutDeltas(rd)
             \/ \E rd \in Readers : vrps_foreach_base(rd)
             \/ \E rd \in Readers : ForeachBaseEnd(rd)
    BY <2>4, Zenon DEF perform_standalone_validation, vrps_get_deltas_from, PutDeltas,
                vrps_foreach_base, ForeachBaseEnd
  <2>. QED  BY <2>1, <2>2, <2>3, <2>4 DEF VrpsNext
<1>. QED  BY <1>1, VrpsInvariance, LockIsHeld, PTL DEF VrpsSpec, BaseStableWhileStreaming
================================================================================
