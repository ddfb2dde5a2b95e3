------------------------------ MODULE TableProofs ------------------------------
(***************************************************************************)
(* Proofs about what the shim keeps: the slot table, for any size and      *)
(* generation modulus above 1, and the packing arena with its window, for  *)
(* any leaf, ladder floor, K-cap, mega and 2-adic setting; both for any    *)
(* addresses, handles and sizes.                                           *)
(*                                                                         *)
(* SlotInv, the conjunction of three invariants, is inductive: the count   *)
(* is exact because a slot's generation is never 0 while it is in use, and *)
(* a commit cannot replace an address because the pending slot never has   *)
(* one.                                                                    *)
(*                                                                         *)
(* PackInv is inductive for the arena: the fill level stays in the leaf,   *)
(* an open window keeps the arena on its last leaf, and the committed      *)
(* total never falls below its peak.  The last part is about charged, the  *)
(* history of PackWindow: within one driver window no address is ever      *)
(* charged to two slices, because every range charged so far ends at or    *)
(* below the fill level, a new range starts at or above it, and the next   *)
(* mega leaf starts where the last one ends.                               *)
(***************************************************************************)
EXTENDS SlotTable, PackWindow, SizeProofs, FiniteSetTheorems

SlotInv == SlotTypeOK /\ CountExact /\ PendingVirgin

-----------------------------------------------------------------------------
(* Lookups.                                                                *)

(* Max picks the greatest member of a set of naturals that has a bound.    *)
LEMMA MaxMember ==
  ASSUME NEW bound \in Nat, NEW S \in SUBSET (0 .. bound), S # {}
  PROVE  Max(S) \in S /\ \A m \in S : m <= Max(S)
<1> DEFINE R == {bound - i : i \in S}
<1>1. R \in SUBSET Nat /\ R # {}
  <2>1. \A i \in S : bound - i \in Nat
    OBVIOUS
  <2> QED
    BY <2>1, Zenon
<1>2. PICK n \in R : \A m \in R : n <= m
  <2> HIDE DEF R
  <2> QED
    BY <1>1, LeastNatural, Zenon
<1>3. PICK k \in S : n = bound - k
  BY <1>2, Zenon
<1>4. \A i \in S : bound - k <= bound - i
  BY <1>2, <1>3, Zenon
<1>5. \A i \in S : k >= i
  BY <1>4
<1>6. Max(S) \in S /\ \A m \in S : Max(S) >= m
  BY <1>5, Zenon DEF Max
<1> QED
  BY <1>6

(* The first index of a set of indices, where there is one, is in the set. *)
LEMMA FirstOfMember ==
  ASSUME NEW S \in SUBSET Nat
  PROVE  IF S = {} THEN FirstOf(S) = -1 ELSE FirstOf(S) \in S
<1>1. CASE S = {}
  BY <1>1 DEF FirstOf
<1>2. CASE S # {}
  BY <1>2, MinMember DEF FirstOf
<1> QED
  BY <1>1, <1>2

(* The last index of a set of table indices is in the set.                 *)
LEMMA LastOfMember ==
  ASSUME NEW S \in SUBSET Index
  PROVE  IF S = {} THEN LastOf(S) = -1 ELSE LastOf(S) \in S
<1>1. CASE S = {}
  BY <1>1 DEF LastOf
<1>2. CASE S # {}
  <2>1. SlotCap - 1 \in Nat /\ S \in SUBSET (0 .. SlotCap - 1)
    BY SlotAssumption DEF Index
  <2> QED
    BY <1>2, <2>1, MaxMember DEF LastOf
<1> QED
  BY <1>1, <1>2

LEMMA IndexIsNat == Index \subseteq Nat
  BY SlotAssumption DEF Index

LEMMA UsedIsIndex == Used \subseteq Index
  BY DEF Used

LEMMA UsedFinite == IsFiniteSet(Used)
<1>1. IsFiniteSet(Index)
  BY FS_Interval, SlotAssumption DEF Index
<1> QED
  BY <1>1, UsedIsIndex, FS_Subset

LEMMA FreeSlotIsFree == FindFree >= 0 => FindFree \in Index \ Used
  BY FirstOfMember, IndexIsNat DEF FindFree

LEMMA EmptyIsRecord == EmptySlot \in SlotRecord
  BY SlotAssumption, DriverAssumption DEF EmptySlot, SlotRecord

-----------------------------------------------------------------------------
(* The three ways a helper changes the table.                              *)

(* Filling a free slot.                                                    *)
LEMMA AllocKeeps ==
  ASSUME SlotTypeOK, CountExact, NEW idx \in Index \ Used,
         NEW rec \in SlotRecord, AllocSlot(idx, rec)
  PROVE  /\ slots' \in [Index -> SlotRecord] /\ slotGen' \in 1 .. GenMod - 1
         /\ activeCount' \in Nat
         /\ Used' = Used \union {idx}
         /\ CountExact'
         /\ \A i \in Index \ {idx} : slots'[i] = slots[i]
         /\ slots'[idx].va = rec.va /\ slots'[idx].hasHandle = rec.hasHandle
<1> USE SlotAssumption
<1> DEFINE new == [rec EXCEPT !.gen = slotGen]
<1>1. /\ new \in SlotRecord /\ new.gen = slotGen /\ new.gen # 0 /\ new.va = rec.va
      /\ new.hasHandle = rec.hasHandle
  BY DEF SlotTypeOK, SlotRecord
<1>2. slots' = [slots EXCEPT ![idx] = new]
  BY DEF AllocSlot
<1>3. slots' \in [Index -> SlotRecord]
  BY <1>1, <1>2 DEF SlotTypeOK
<1>4. slotGen' \in 1 .. GenMod - 1
  <2>1. slotGen + 1 \in Nat /\ (slotGen + 1) % GenMod \in 0 .. GenMod - 1
    BY DEF SlotTypeOK
  <2> QED
    BY <2>1 DEF AllocSlot, NextGen
<1>5. /\ \A i \in Index \ {idx} : slots'[i] = slots[i]
      /\ slots'[idx] = new
  BY <1>2 DEF SlotTypeOK
<1>6. Used' = Used \union {idx}
  BY <1>1, <1>5 DEF Used
<1>7. Cardinality(Used \union {idx}) = Cardinality(Used) + 1
  BY UsedFinite, FS_AddElement
<1>8. activeCount' = activeCount + 1 /\ activeCount \in Nat
  BY DEF AllocSlot, SlotTypeOK
<1> QED
  BY <1>1, <1>3, <1>4, <1>5, <1>6, <1>7, <1>8 DEF CountExact

(* Emptying a slot, if it is in use.                                       *)
LEMMA FreeKeeps ==
  ASSUME SlotTypeOK, CountExact, NEW idx, FreeSlot(idx)
  PROVE  /\ slots' \in [Index -> SlotRecord]
         /\ activeCount' \in Nat
         /\ Used' = Used \ {idx}
         /\ CountExact'
         /\ \A i \in Index \ {idx} : slots'[i] = slots[i]
         /\ idx \in Used => slots'[idx] = EmptySlot
<1>1. CASE idx \in Used
  <2>1. slots' = [slots EXCEPT ![idx] = EmptySlot] /\ idx \in Index
    BY <1>1, UsedIsIndex DEF FreeSlot
  <2>2. /\ slots' \in [Index -> SlotRecord]
        /\ \A i \in Index \ {idx} : slots'[i] = slots[i]
        /\ slots'[idx] = EmptySlot
    BY <2>1, EmptyIsRecord DEF SlotTypeOK
  <2>3. Used' = Used \ {idx}
    BY <2>1, <2>2 DEF Used, EmptySlot
  <2>4. /\ Cardinality(Used \ {idx}) = Cardinality(Used) - 1
        /\ Cardinality(Used \ {idx}) \in Nat
    BY <1>1, UsedFinite, FS_RemoveElement, FS_CardinalityType
  <2>5. activeCount > 0 /\ activeCount' = activeCount - 1
    BY <1>1, <2>4 DEF FreeSlot, CountExact, SlotTypeOK
  <2> QED
    BY <2>2, <2>3, <2>4, <2>5 DEF CountExact, SlotTypeOK
<1>2. CASE idx \notin Used
  <2>1. slots' = slots /\ activeCount' = activeCount
    BY <1>2 DEF FreeSlot
  <2>2. Used' = Used
    BY <2>1 DEF Used
  <2> QED
    BY <1>2, <2>1, <2>2 DEF CountExact, SlotTypeOK
<1> QED
  BY <1>1, <1>2

(* Changing a slot that stays in use and keeps its address.                *)
LEMMA WriteKeeps ==
  ASSUME SlotInv, NEW idx, NEW rec, WriteSlot(idx, rec), legacyVa' \in Nat,
         idx \in Used => /\ rec \in SlotRecord
                         /\ rec.gen = slots[idx].gen /\ rec.va = slots[idx].va
  PROVE  SlotInv' /\ \A i \in Index : slots'[i].va = slots[i].va
<1>1. UNCHANGED <<slotGen, pending, activeCount>>
  BY DEF WriteSlot
<1>2. /\ slots' \in [Index -> SlotRecord]
      /\ \A i \in Index : slots'[i].va = slots[i].va /\ slots'[i].gen = slots[i].gen
  <2>1. CASE idx \in Used
    <3>1. slots' = [slots EXCEPT ![idx] = rec] /\ idx \in Index
      BY <2>1, UsedIsIndex DEF WriteSlot
    <3> QED
      BY <2>1, <3>1 DEF SlotInv, SlotTypeOK
  <2>2. CASE idx \notin Used
    BY <2>2 DEF WriteSlot, SlotInv, SlotTypeOK
  <2> QED
    BY <2>1, <2>2
<1>3. Used' = Used
  BY <1>2 DEF Used
<1>4. SlotTypeOK'
  BY <1>1, <1>2 DEF SlotInv, SlotTypeOK
<1>5. CountExact'
  BY <1>1, <1>3 DEF SlotInv, CountExact
<1>6. PendingVirgin'
  BY <1>1, <1>2, <1>3, UsedIsIndex DEF SlotInv, PendingVirgin
<1> QED
  BY <1>2, <1>4, <1>5, <1>6 DEF SlotInv

(* The same when the legacy view follows the slot.                         *)
LEMMA SyncedWriteKeeps ==
  ASSUME SlotInv, NEW idx, NEW rec, WriteSlot(idx, rec), SyncLegacy(idx),
         idx \in Used => /\ rec \in SlotRecord
                         /\ rec.gen = slots[idx].gen /\ rec.va = slots[idx].va
  PROVE  SlotInv' /\ \A i \in Index : slots'[i].va = slots[i].va
<1>1. CASE idx \in Used
  <2>1. slots'[idx] = rec /\ rec.va \in Nat
    BY <1>1, UsedIsIndex DEF WriteSlot, SlotInv, SlotTypeOK, SlotRecord
  <2>2. legacyVa' \in Nat
    BY <1>1, <2>1 DEF SyncLegacy
  <2> QED
    BY <2>2, WriteKeeps
<1>2. CASE idx \notin Used
  <2>1. legacyVa' \in Nat
    BY <1>2 DEF SyncLegacy, SlotInv, SlotTypeOK
  <2> QED
    BY <2>1, WriteKeeps
<1> QED
  BY <1>1, <1>2

-----------------------------------------------------------------------------
(* One lemma per kind of helper.                                           *)

(* What AddressStable says of one step.                                    *)
AddressKept ==
  \A i \in Index : i \in Used /\ slots[i].va # NoVa =>
    slots'[i].va = slots[i].va \/ slots'[i] = EmptySlot

LEMMA InitEstablishes == SlotInit => SlotInv
<1> SUFFICES ASSUME SlotInit PROVE SlotInv
  OBVIOUS
<1>1. SlotTypeOK
  BY EmptyIsRecord, SlotAssumption, DriverAssumption DEF SlotInit, SlotTypeOK
<1>2. Used = {}
  BY DEF SlotInit, Used, EmptySlot
<1>3. CountExact
  BY <1>2, FS_EmptySet DEF SlotInit, CountExact
<1>4. PendingVirgin
  BY DEF SlotInit, PendingVirgin
<1> QED
  BY <1>1, <1>3, <1>4 DEF SlotInv

LEMMA ClearStep ==
  ASSUME SlotInv, ReservationClear
  PROVE  SlotInv' /\ AddressKept
<1>1. SlotTypeOK'
  BY EmptyIsRecord, SlotAssumption, DriverAssumption
  DEF SlotInv, ReservationClear, SlotTypeOK
<1>2. Used' = {}
  BY DEF ReservationClear, Used, EmptySlot
<1>3. CountExact'
  BY <1>2, FS_EmptySet DEF ReservationClear, CountExact
<1>4. PendingVirgin'
  BY DEF ReservationClear, PendingVirgin
<1>5. AddressKept
  BY DEF ReservationClear, AddressKept
<1> QED
  BY <1>1, <1>3, <1>4, <1>5 DEF SlotInv

LEMMA BeginStep ==
  ASSUME SlotInv, ReserveBeginSlot
  PROVE  SlotInv' /\ AddressKept
<1>1. FindFree \in Index \ Used
  BY FreeSlotIsFree DEF ReserveBeginSlot
<1>2. AllocSlot(FindFree, EmptySlot) /\ pending' = FindFree /\ legacyVa' = legacyVa
  BY DEF ReserveBeginSlot
<1> DEFINE idx == FindFree
<1>3. /\ slots' \in [Index -> SlotRecord] /\ slotGen' \in 1 .. GenMod - 1
      /\ activeCount' \in Nat
      /\ Used' = Used \union {idx}
      /\ CountExact'
      /\ \A i \in Index \ {idx} : slots'[i] = slots[i]
      /\ slots'[idx].va = EmptySlot.va
  BY <1>1, <1>2, EmptyIsRecord, AllocKeeps DEF SlotInv
<1>4. SlotTypeOK'
  BY <1>1, <1>2, <1>3 DEF SlotInv, SlotTypeOK, Index
<1>5. PendingVirgin'
  BY <1>2, <1>3 DEF PendingVirgin, EmptySlot
<1>6. AddressKept
  BY <1>1, <1>3 DEF AddressKept
<1> QED
  BY <1>3, <1>4, <1>5, <1>6 DEF SlotInv

LEMMA CommitPendingStep ==
  ASSUME SlotInv, NEW va \in Nat, NEW size \in Nat, CommitPending(va, size)
  PROVE  SlotInv' /\ AddressKept
<1>1. pending \in Used /\ pending \in Index /\ pending >= 0 /\ slots[pending].va = NoVa
  BY UsedIsIndex, IndexIsNat DEF CommitPending, SlotInv, PendingVirgin
<1>2. /\ slots' \in [Index -> SlotRecord]
      /\ \A i \in Index : slots'[i].gen = slots[i].gen
      /\ \A i \in Index \ {pending} : slots'[i] = slots[i]
  <2> DEFINE rec == [slots[pending] EXCEPT !.va = va, !.size = size]
  <2>1. slots' = [slots EXCEPT ![pending] = rec]
    BY DEF CommitPending, WriteSlot
  <2>2. slots \in [Index -> SlotRecord]
    BY DEF SlotInv, SlotTypeOK
  <2>3. rec \in SlotRecord /\ rec.gen = slots[pending].gen
    BY <1>1, <2>2 DEF SlotRecord
  <2> HIDE DEF rec
  <2> QED
    BY <1>1, <2>1, <2>2, <2>3
<1>3. Used' = Used
  BY <1>2 DEF Used
<1>4. SlotTypeOK'
  BY <1>2, SlotAssumption DEF CommitPending, SlotInv, SlotTypeOK
<1>5. CountExact'
  BY <1>3 DEF CommitPending, SlotInv, CountExact
<1>6. PendingVirgin'
  BY DEF CommitPending, PendingVirgin
<1>7. AddressKept
  BY <1>1, <1>2 DEF AddressKept
<1> QED
  BY <1>4, <1>5, <1>6, <1>7 DEF SlotInv

LEMMA CommitFreshStep ==
  ASSUME SlotInv, NEW va \in Nat, NEW size \in Nat, CommitFresh(va, size)
  PROVE  SlotInv' /\ AddressKept
<1> DEFINE rec == [EmptySlot EXCEPT !.va = va, !.size = size]
<1> DEFINE idx == FindFree
<1>1. idx \in Index \ Used /\ rec \in SlotRecord
  BY FreeSlotIsFree, EmptyIsRecord DEF CommitFresh, SlotRecord
<1>2. AllocSlot(idx, rec) /\ pending' = pending /\ legacyVa' = va
  BY DEF CommitFresh
<1> HIDE DEF rec
<1>3. /\ slots' \in [Index -> SlotRecord] /\ slotGen' \in 1 .. GenMod - 1
      /\ activeCount' \in Nat
      /\ CountExact'
      /\ \A i \in Index \ {idx} : slots'[i] = slots[i]
  BY <1>1, <1>2, AllocKeeps DEF SlotInv
<1>4. SlotTypeOK'
  BY <1>2, <1>3 DEF SlotInv, SlotTypeOK
<1>5. PendingVirgin'
  BY <1>2 DEF CommitFresh, SlotInv, PendingVirgin
<1>6. AddressKept
  BY <1>1, <1>3 DEF AddressKept
<1> QED
  BY <1>3, <1>4, <1>5, <1>6 DEF SlotInv

LEMMA AbortStep ==
  ASSUME SlotInv, AbortPending
  PROVE  SlotInv' /\ AddressKept
<1>1. FreeSlot(pending) /\ pending' = -1 /\ slotGen' = slotGen /\ legacyVa' = legacyVa
  BY DEF AbortPending
<1>2. /\ slots' \in [Index -> SlotRecord]
      /\ activeCount' \in Nat
      /\ CountExact'
      /\ \A i \in Index \ {pending} : slots'[i] = slots[i]
      /\ pending \in Used => slots'[pending] = EmptySlot
  BY <1>1, FreeKeeps DEF SlotInv
<1>3. SlotTypeOK'
  BY <1>1, <1>2, SlotAssumption DEF SlotInv, SlotTypeOK
<1>4. PendingVirgin'
  BY <1>1 DEF PendingVirgin
<1>5. AddressKept
  BY <1>2 DEF AddressKept
<1> QED
  BY <1>2, <1>3, <1>4, <1>5 DEF SlotInv

LEMMA FreeByVaStep ==
  ASSUME SlotInv, NEW va \in Nat, SlotFreeByVa(va)
  PROVE  SlotInv' /\ AddressKept
<1> DEFINE idx == FindByVa(va)
<1>1. /\ FreeSlot(idx) /\ slotGen' = slotGen /\ legacyVa' = legacyVa
      /\ pending' = IF pending \in Used /\ slots'[pending].gen # 0 THEN pending ELSE -1
  BY DEF SlotFreeByVa
<1> HIDE DEF idx
<1>2. /\ slots' \in [Index -> SlotRecord]
      /\ activeCount' \in Nat
      /\ Used' = Used \ {idx}
      /\ CountExact'
      /\ \A i \in Index \ {idx} : slots'[i] = slots[i]
      /\ idx \in Used => slots'[idx] = EmptySlot
  BY <1>1, FreeKeeps DEF SlotInv
<1>3. SlotTypeOK'
  BY <1>1, <1>2, SlotAssumption DEF SlotInv, SlotTypeOK
<1>4. PendingVirgin'
  <2>1. CASE pending' = -1
    BY <2>1 DEF PendingVirgin
  <2>2. CASE pending' # -1
    <3>1. pending' = pending /\ pending \in Used /\ slots'[pending].gen # 0
      BY <1>1, <2>2
    <3>2. pending # idx
      BY <1>2, <3>1 DEF EmptySlot
    <3>3. pending \in Used' /\ slots'[pending] = slots[pending]
      BY <1>2, <3>1, <3>2, UsedIsIndex
    <3> QED
      BY <3>1, <3>3 DEF SlotInv, PendingVirgin
  <2> QED
    BY <2>1, <2>2
<1>5. AddressKept
  BY <1>2 DEF AddressKept
<1> QED
  BY <1>2, <1>3, <1>4, <1>5 DEF SlotInv

(* The helpers that change fields of a slot other than its address.        *)
LEMMA FieldSteps ==
  ASSUME SlotInv,
         \/ \E h \in Handle : BindCreate(h) \/ ClearHandle(h)
         \/ \E va \in Nat : MarkMapped(va) \/ ClearMapped(va)
         \/ \E req \in Nat : SetReqBytes(req)
         \/ \E on \in BOOLEAN : MarkPackedArena(on)
         \/ \E va \in Nat, on \in BOOLEAN : MarkPackedByVa(va, on)
         \/ \E va \in Nat, offset \in Nat : SetMapOffset(va, offset)
  PROVE  SlotInv' /\ AddressKept
<1>1. \A idx \in Used : slots[idx] \in SlotRecord
  BY UsedIsIndex DEF SlotInv, SlotTypeOK
<1>2. legacyVa \in Nat
  BY DEF SlotInv, SlotTypeOK
<1>3. ASSUME NEW h \in Handle, BindCreate(h)
      PROVE  SlotInv' /\ AddressKept
  <2> DEFINE idx == CreateTarget
  <2> DEFINE rec == [slots[idx] EXCEPT !.hasHandle = TRUE, !.handle = h]
  <2>1. WriteSlot(idx, rec) /\ SyncLegacy(idx)
    BY <1>3 DEF BindCreate
  <2>2. idx \in Used => /\ rec \in SlotRecord
                        /\ rec.gen = slots[idx].gen /\ rec.va = slots[idx].va
    BY <1>1 DEF SlotRecord
  <2> HIDE DEF idx, rec
  <2> QED
    BY <2>1, <2>2, SyncedWriteKeeps DEF AddressKept
<1>4. ASSUME NEW h \in Handle, ClearHandle(h)
      PROVE  SlotInv' /\ AddressKept
  <2> DEFINE idx == FindByHandle(h)
  <2> DEFINE rec == [slots[idx] EXCEPT !.hasHandle = FALSE, !.handle = NoHandle,
                                       !.mapped = FALSE]
  <2>1. WriteSlot(idx, rec) /\ SyncLegacy(idx)
    BY <1>4 DEF ClearHandle
  <2>2. idx \in Used => /\ rec \in SlotRecord
                        /\ rec.gen = slots[idx].gen /\ rec.va = slots[idx].va
    BY <1>1, DriverAssumption DEF SlotRecord
  <2> HIDE DEF idx, rec
  <2> QED
    BY <2>1, <2>2, SyncedWriteKeeps DEF AddressKept
<1>5. ASSUME NEW va \in Nat, MarkMapped(va) \/ ClearMapped(va)
      PROVE  SlotInv' /\ AddressKept
  <2> DEFINE idx == FindByVa(va)
  <2> DEFINE rec(on) == [slots[idx] EXCEPT !.mapped = on]
  <2>1. PICK on \in BOOLEAN : WriteSlot(idx, rec(on)) /\ SyncLegacy(idx)
    BY <1>5 DEF MarkMapped, ClearMapped
  <2>2. idx \in Used => /\ rec(on) \in SlotRecord
                        /\ rec(on).gen = slots[idx].gen /\ rec(on).va = slots[idx].va
    BY <1>1 DEF SlotRecord
  <2> HIDE DEF idx, rec
  <2> QED
    BY <2>1, <2>2, SyncedWriteKeeps DEF AddressKept
<1>6. ASSUME NEW req \in Nat, SetReqBytes(req)
      PROVE  SlotInv' /\ AddressKept
  <2> DEFINE idx == ReserveTarget
  <2> DEFINE rec == [slots[idx] EXCEPT !.req = req]
  <2>1. WriteSlot(idx, rec) /\ legacyVa' = legacyVa
    BY <1>6 DEF SetReqBytes
  <2>2. idx \in Used => /\ rec \in SlotRecord
                        /\ rec.gen = slots[idx].gen /\ rec.va = slots[idx].va
    BY <1>1 DEF SlotRecord
  <2> HIDE DEF idx, rec
  <2> QED
    BY <1>2, <2>1, <2>2, WriteKeeps DEF AddressKept
<1>7. ASSUME NEW on \in BOOLEAN, MarkPackedArena(on)
      PROVE  SlotInv' /\ AddressKept
  <2> DEFINE idx == ReserveTarget
  <2> DEFINE rec == [slots[idx] EXCEPT !.packed = on]
  <2>1. WriteSlot(idx, rec) /\ legacyVa' = legacyVa
    BY <1>7 DEF MarkPackedArena
  <2>2. idx \in Used => /\ rec \in SlotRecord
                        /\ rec.gen = slots[idx].gen /\ rec.va = slots[idx].va
    BY <1>1 DEF SlotRecord
  <2> HIDE DEF idx, rec
  <2> QED
    BY <1>2, <2>1, <2>2, WriteKeeps DEF AddressKept
<1>8. ASSUME NEW va \in Nat, NEW on \in BOOLEAN, MarkPackedByVa(va, on)
      PROVE  SlotInv' /\ AddressKept
  <2> DEFINE idx == FindByVa(va)
  <2> DEFINE rec == [slots[idx] EXCEPT !.packed = on]
  <2>1. WriteSlot(idx, rec) /\ legacyVa' = legacyVa
    BY <1>8 DEF MarkPackedByVa
  <2>2. idx \in Used => /\ rec \in SlotRecord
                        /\ rec.gen = slots[idx].gen /\ rec.va = slots[idx].va
    BY <1>1 DEF SlotRecord
  <2> HIDE DEF idx, rec
  <2> QED
    BY <1>2, <2>1, <2>2, WriteKeeps DEF AddressKept
<1>9. ASSUME NEW va \in Nat, NEW offset \in Nat, SetMapOffset(va, offset)
      PROVE  SlotInv' /\ AddressKept
  <2> DEFINE idx == FindByVa(va)
  <2> DEFINE rec == [slots[idx] EXCEPT !.offset = offset]
  <2>1. WriteSlot(idx, rec) /\ legacyVa' = legacyVa
    BY <1>9 DEF SetMapOffset
  <2>2. idx \in Used => /\ rec \in SlotRecord
                        /\ rec.gen = slots[idx].gen /\ rec.va = slots[idx].va
    BY <1>1 DEF SlotRecord
  <2> HIDE DEF idx, rec
  <2> QED
    BY <1>2, <2>1, <2>2, WriteKeeps DEF AddressKept
<1> QED
  BY <1>3, <1>4, <1>5, <1>6, <1>7, <1>8, <1>9

(* Every step of every helper keeps SlotInv and every recorded address.    *)
LEMMA SlotStep ==
  ASSUME SlotInv, SlotNext
  PROVE  SlotInv' /\ AddressKept
<1>1. CASE ReserveBeginFull
  BY <1>1 DEF ReserveBeginFull, slotVars, SlotInv, SlotTypeOK, CountExact,
              PendingVirgin, Used, AddressKept
<1>2. ASSUME NEW va \in Nat, NEW size \in Nat, ReservationSet(va, size)
      PROVE  SlotInv' /\ AddressKept
  <2>1. CASE CommitLost
    BY <2>1 DEF CommitLost, slotVars, SlotInv, SlotTypeOK, CountExact,
                PendingVirgin, Used, AddressKept
  <2> QED
    BY <1>2, <2>1, CommitPendingStep, CommitFreshStep DEF ReservationSet
<1> QED
  BY <1>1, <1>2, ClearStep, BeginStep, AbortStep, FreeByVaStep, FieldSteps, DriverAssumption
  DEF SlotNext

-----------------------------------------------------------------------------
(* The theorems.                                                           *)

LEMMA SlotInvariant == SlotSpec => []SlotInv
<1>1. SlotInv /\ UNCHANGED slotVars => SlotInv'
  BY DEF slotVars, SlotInv, SlotTypeOK, CountExact, PendingVirgin, Used
<1>2. SlotInv /\ [SlotNext]_slotVars => SlotInv'
  BY <1>1, SlotStep
<1> QED
  BY <1>2, InitEstablishes, PTL DEF SlotSpec

(* The slot table of shim_reservation_v1.c keeps its types, and its        *)
(* generation counter is never 0, whatever helpers run in whatever order.  *)
THEOREM SlotTypeCorrect == SlotSpec => []SlotTypeOK
<1>1. SlotInv => SlotTypeOK
  BY DEF SlotInv
<1> QED
  BY <1>1, SlotInvariant, PTL

(* g_active_slot_count, which the epoch test of every cuMem call reads, is *)
(* the number of slots in use, whatever helpers run in whatever order.     *)
THEOREM CountAlwaysExact == SlotSpec => []CountExact
<1>1. SlotInv => CountExact
  BY DEF SlotInv
<1> QED
  BY <1>1, SlotInvariant, PTL

(* The pending reservation is a slot in use that has no address yet, so    *)
(* shim_reservation_set never commits over an address handed out.          *)
THEOREM PendingAlwaysVirgin == SlotSpec => []PendingVirgin
<1>1. SlotInv => PendingVirgin
  BY DEF SlotInv
<1> QED
  BY <1>1, SlotInvariant, PTL

(* No helper replaces the address of a slot in use; only freeing the slot  *)
(* forgets it.                                                             *)
THEOREM AddressesStable == SlotSpec => AddressStable
<1>1. SlotInv /\ [SlotNext]_slotVars => [AddressKept]_slotVars
  BY SlotStep
<1> QED
  BY <1>1, SlotInvariant, PTL DEF SlotSpec, AddressStable, AddressKept

-----------------------------------------------------------------------------
(* The packing arena.                                                      *)

PackInv == PackTypeOK /\ ArenaBounded /\ WindowCoherent

-----------------------------------------------------------------------------
(* The next slice.                                                         *)

(* Where a granted slice goes.                                             *)
LEMMA GrantFits ==
  ASSUME PackTypeOK, NEW req \in Nat, TryFits(req)
  PROVE  /\ PlacementRound(req) \in Nat \ {0} /\ TryOffset(req) \in Nat
         /\ arena.active
         /\ arena.next <= TryOffset(req)
         /\ TryOffset(req) + PlacementRound(req) <= arena.len
<1> DEFINE need == PlacementRound(req)
<1> DEFINE off == OffsetInLeaf(bandSeq, need, arena.len)
<1>1. need \in Nat \ {0}
  BY PlacementPositive, DriverAssumption
<1>2. arena.len \in Nat /\ arena.next \in Nat /\ bandSeq \in Nat
  BY PackAssumption DEF PackTypeOK, ArenaRecord
<1>3. off \in Nat
  BY <1>1, <1>2, OffsetNat
<1>4. arena.active /\ arena.next + need <= arena.len
  BY DEF TryFits
<1>5. TryOffset(req) = IF TwoAdic /\ arena.next = 0
                       THEN IF off + need > arena.len THEN 0 ELSE off
                       ELSE arena.next
  BY DEF TryOffset
<1> HIDE DEF need, off
<1>6. TryOffset(req) \in Nat /\ arena.next <= TryOffset(req) /\ TryOffset(req) + need <= arena.len
  BY <1>1, <1>2, <1>3, <1>4, <1>5
<1> QED
  BY <1>1, <1>4, <1>6 DEF need

-----------------------------------------------------------------------------
(* One lemma per kind of helper.                                           *)

LEMMA BlankRecords == NoArena \in ArenaRecord /\ NoMega \in MegaRecord
  BY DriverAssumption DEF NoArena, ArenaRecord, NoMega, MegaRecord, NoVa

LEMMA PackInitEstablishes == PackInit => PackInv
  BY BlankRecords, PackAssumption
  DEF PackInit, PackInv, PackTypeOK, ArenaBounded, WindowCoherent,
      NoArena, NoMega

LEMMA ForgetStep ==
  ASSUME PackInv, PackReset \/ PackFlush
  PROVE  PackInv'
<1>1. /\ arena' = NoArena /\ mega' = NoMega
      /\ committed' \in Nat /\ peak' \in Nat
      /\ handleRefs' \in Nat /\ bandSeq' \in 0 .. BandMod - 1
  BY PackAssumption DEF PackReset, PackFlush, PackInv, PackTypeOK
<1> QED
  BY <1>1, BlankRecords
  DEF PackInv, PackTypeOK, ArenaBounded, WindowCoherent, NoArena, NoMega

(* Steps that leave the counters as they are.                              *)
LEMMA SameCounters ==
  ASSUME PackInv, UNCHANGED <<committed, peak, handleRefs>>,
         bandSeq' \in 0 .. BandMod - 1,
         arena' \in ArenaRecord, mega' \in MegaRecord,
         ArenaBounded', WindowCoherent'
  PROVE  PackInv'
  BY DEF PackInv, PackTypeOK

LEMMA MegaOpenStep ==
  ASSUME PackInv, NEW base \in Nat, NEW len \in Nat, Leaf <= len, MegaOpen(base, len)
  PROVE  PackInv'
<1>1. base \in Nat /\ len \in Nat /\ Leaf <= len /\ Leaf \in Nat
  BY LeafAssumption
<1> DEFINE w == WindowLeaves(MegaLeaves, len)
<1>2. w \in Nat /\ 1 <= w /\ w * Leaf <= len
  BY <1>1, WindowHoldsItsLeaves, PackAssumption
<1>3. /\ mega' = [active |-> TRUE, base |-> base, len |-> len, leaves |-> w, used |-> 1]
      /\ arena' = FreshArena(base, Leaf)
      /\ UNCHANGED <<committed, peak, handleRefs, bandSeq>>
  BY DEF MegaOpen
<1> HIDE DEF w
<1>4. mega' \in MegaRecord /\ arena' \in ArenaRecord
  BY <1>1, <1>2, <1>3, DriverAssumption DEF MegaRecord, ArenaRecord, FreshArena
<1>5. ArenaBounded'
  BY <1>1, <1>3 DEF ArenaBounded, FreshArena
<1>6. WindowCoherent'
  <2>1. base + (1 - 1) * Leaf = base
    BY <1>1
  <2> QED
    BY <1>1, <1>2, <1>3, <2>1 DEF WindowCoherent, FreshArena
<1> QED
  BY <1>3, <1>4, <1>5, <1>6, SameCounters DEF PackInv, PackTypeOK

LEMMA NextLeaf ==
  ASSUME PackInv, MegaHasLeaf
  PROVE  /\ NextLeafBase \in Nat
         /\ NextLeafBase = arena.base + Leaf
         /\ arena.active /\ arena.len = Leaf
         /\ NextLeafBase = mega.base + ((mega.used + 1) - 1) * Leaf
<1>1. /\ mega.base \in Nat /\ mega.used \in Nat /\ Leaf \in Nat
      /\ arena.base \in Nat
  BY LeafAssumption DEF PackInv, PackTypeOK, MegaRecord, ArenaRecord
<1>2. /\ arena.active /\ arena.len = Leaf /\ 1 <= mega.used
      /\ arena.base = mega.base + (mega.used - 1) * Leaf
  BY DEF PackInv, WindowCoherent, MegaHasLeaf
<1>3. (mega.used - 1) * Leaf + Leaf = mega.used * Leaf /\ mega.used * Leaf \in Nat
  BY <1>1
<1>4. (mega.used - 1) * Leaf \in Nat
  BY <1>1, <1>2, ProductNat
<1>5. (mega.used + 1) - 1 = mega.used
  BY <1>1
<1> QED
  BY <1>1, <1>2, <1>3, <1>4, <1>5 DEF NextLeafBase

LEMMA TakeMegaLeafStep ==
  ASSUME PackInv, TakeMegaLeaf
  PROVE  PackInv'
<1>1. /\ mega' = [mega EXCEPT !.used = mega.used + 1]
      /\ arena' = FreshArena(NextLeafBase, Leaf)
      /\ UNCHANGED <<committed, peak, handleRefs, bandSeq>>
      /\ MegaHasLeaf
  BY DEF TakeMegaLeaf
<1>2. /\ mega \in MegaRecord /\ mega.used \in Nat /\ mega.leaves \in Nat
      /\ Leaf \in Nat
  BY LeafAssumption DEF PackInv, PackTypeOK, MegaRecord
<1>3. mega' \in MegaRecord /\ mega'.used = mega.used + 1 /\ mega'.base = mega.base
      /\ mega'.leaves = mega.leaves /\ mega'.len = mega.len
  BY <1>1, <1>2 DEF MegaRecord
<1>4. NextLeafBase \in Nat /\ NextLeafBase = mega.base + ((mega.used + 1) - 1) * Leaf
  BY <1>1, NextLeaf
<1>5. arena' \in ArenaRecord
  BY <1>1, <1>2, <1>4, DriverAssumption DEF ArenaRecord, FreshArena
<1>6. ArenaBounded'
  BY <1>1, <1>2 DEF ArenaBounded, FreshArena
<1>7. /\ mega.used < mega.leaves /\ 1 <= mega.used
      /\ mega.leaves * Leaf <= mega.len
  BY <1>1 DEF MegaHasLeaf, PackInv, WindowCoherent
<1>8. /\ arena'.active /\ arena'.len = Leaf
      /\ arena'.base = mega'.base + (mega'.used - 1) * Leaf
  BY <1>1, <1>3, <1>4 DEF FreshArena
<1>9. /\ 1 <= mega'.used /\ mega'.used <= mega'.leaves
      /\ mega'.leaves * Leaf <= mega'.len
  BY <1>2, <1>3, <1>7
<1>10. WindowCoherent'
  BY <1>8, <1>9 DEF WindowCoherent
<1> QED
  BY <1>1, <1>3, <1>5, <1>6, <1>10, SameCounters DEF PackInv, PackTypeOK

(* Steps that do no more to the arena than fill it further.                *)
LEMMA FillStep ==
  ASSUME PackInv, UNCHANGED <<mega, committed, peak, handleRefs>>,
         bandSeq' \in 0 .. BandMod - 1, arena.active, NEW fill \in Nat,
         fill <= arena.len, arena' = [arena EXCEPT !.next = fill]
  PROVE  PackInv'
<1>1. arena \in ArenaRecord /\ mega \in MegaRecord
  BY DEF PackInv, PackTypeOK
<1>2. /\ arena' \in ArenaRecord /\ arena'.active = arena.active
      /\ arena'.base = arena.base /\ arena'.len = arena.len /\ arena'.next = fill
  BY <1>1 DEF ArenaRecord
<1>3. ArenaBounded'
  BY <1>2 DEF ArenaBounded
<1>4. WindowCoherent'
  BY <1>2 DEF PackInv, WindowCoherent
<1> QED
  BY <1>1, <1>2, <1>3, <1>4, SameCounters

LEMMA TryReserveStep ==
  ASSUME PackInv, NEW req \in Nat, TryReserve(req)
  PROVE  PackInv'
<1> DEFINE fill == TryOffset(req) + PlacementRound(req)
<1>1. arena.active /\ fill \in Nat /\ fill <= arena.len
  BY GrantFits DEF PackInv, TryReserve
<1>2. bandSeq' \in 0 .. BandMod - 1
  <2>1. bandSeq \in Nat /\ BandMod \in Nat \ {0}
    BY PackAssumption DEF PackInv, PackTypeOK
  <2>2. (bandSeq + 1) % BandMod \in 0 .. BandMod - 1
    BY <2>1
  <2> QED
    BY <2>2 DEF TryReserve, PackInv, PackTypeOK
<1>3. arena' = [arena EXCEPT !.next = fill] /\ UNCHANGED <<mega, committed, peak, handleRefs>>
  BY DEF TryReserve
<1> HIDE DEF fill
<1> QED
  BY <1>1, <1>2, <1>3, FillStep

LEMMA BumpStep ==
  ASSUME PackInv, NEW req \in Nat, BumpUsage(req)
  PROVE  PackInv'
<1>1. UNCHANGED <<mega, committed, peak, handleRefs, bandSeq>>
  BY DEF BumpUsage
<1>2. bandSeq' \in 0 .. BandMod - 1
  BY <1>1 DEF PackInv, PackTypeOK
<1>3. CASE BumpFits(req)
  <2> DEFINE fill == arena.next + PlacementRound(req)
  <2>1. arena.active /\ fill <= arena.len /\ arena' = [arena EXCEPT !.next = fill]
    BY <1>3 DEF BumpFits, BumpUsage
  <2>2. fill \in Nat
    BY PlacementPositive, DriverAssumption DEF PackInv, PackTypeOK, ArenaRecord
  <2> HIDE DEF fill
  <2> QED
    BY <1>1, <1>2, <2>1, <2>2, FillStep
<1>4. CASE ~BumpFits(req)
  <2>1. arena' = arena
    BY <1>4 DEF BumpUsage
  <2>2. arena' \in ArenaRecord /\ mega' \in MegaRecord /\ ArenaBounded' /\ WindowCoherent'
    BY <1>1, <2>1 DEF PackInv, PackTypeOK, ArenaBounded, WindowCoherent
  <2> QED
    BY <1>1, <1>2, <2>2, SameCounters
<1> QED
  BY <1>3, <1>4

LEMMA OpenArenaStep ==
  ASSUME PackInv, NEW va \in Nat, NEW len \in Nat, NEW h \in Handle,
         OpenArena(va, len, h)
  PROVE  PackInv'
<1>1. va \in Nat /\ len \in Nat
  OBVIOUS
<1>2. /\ arena \in ArenaRecord /\ mega \in MegaRecord
      /\ committed \in Nat /\ peak \in Nat
  BY DEF PackInv, PackTypeOK
<1>3. /\ committed' \in Nat /\ peak' \in Nat /\ handleRefs' \in Nat
  <2>1. NoteCommitted(len) /\ handleRefs' = 1
    BY DEF OpenArena, OpenArenaAtBase, OpenArenaFresh
  <2> QED
    BY <1>1, <1>2, <2>1 DEF NoteCommitted
<1>4. CASE OpenArenaAtBase(va, len, h)
  <2>1. arena' = [arena EXCEPT !.handle = h] /\ UNCHANGED <<mega, bandSeq>> /\ arena.active
    BY <1>4 DEF OpenArenaAtBase
  <2>2. /\ arena' \in ArenaRecord /\ arena'.active = arena.active
        /\ arena'.base = arena.base /\ arena'.len = arena.len
        /\ arena'.next = arena.next
    BY <1>2, <2>1 DEF ArenaRecord
  <2>3. ArenaBounded'
    BY <2>1, <2>2 DEF PackInv, ArenaBounded
  <2>4. WindowCoherent'
    BY <2>1, <2>2 DEF PackInv, WindowCoherent
  <2> QED
    BY <1>2, <1>3, <2>1, <2>2, <2>3, <2>4 DEF PackInv, PackTypeOK
<1>5. CASE OpenArenaFresh(va, len, h)
  <2>1. /\ arena' = [FreshArena(va, len) EXCEPT !.handle = h]
        /\ mega' = NoMega /\ bandSeq' = 0
    BY <1>5 DEF OpenArenaFresh
  <2>2. arena' \in ArenaRecord
    BY <1>1, <2>1 DEF ArenaRecord, FreshArena
  <2>3. ArenaBounded'
    BY <1>1, <2>1 DEF ArenaBounded, FreshArena
  <2>4. WindowCoherent'
    BY <2>1 DEF WindowCoherent, NoMega
  <2>5. bandSeq' \in 0 .. BandMod - 1
    BY <2>1, PackAssumption
  <2> QED
    BY <1>3, <2>1, <2>2, <2>3, <2>4, <2>5, BlankRecords
    DEF PackInv, PackTypeOK
<1> QED
  BY <1>4, <1>5 DEF OpenArena

LEMMA RefStep ==
  ASSUME PackInv, RetainHandle \/ (\E h \in Handle : ReleaseRef(h))
  PROVE  PackInv'
<1>1. UNCHANGED <<arena, mega, committed, peak, bandSeq>>
  BY DEF RetainHandle, ReleaseRef
<1>2. handleRefs' \in Nat
  BY DEF PackInv, PackTypeOK, RetainHandle, ReleaseRef, RefHeld
<1> QED
  BY <1>1, <1>2 DEF PackInv, PackTypeOK, ArenaBounded, WindowCoherent

LEMMA PackStep ==
  ASSUME PackInv, [PackNext]_packVars
  PROVE  PackInv'
<1>1. CASE UNCHANGED packVars
  BY <1>1 DEF packVars, PackInv, PackTypeOK, ArenaBounded, WindowCoherent
<1>2. CASE PackNext
  BY <1>2, ForgetStep, MegaOpenStep, TakeMegaLeafStep, TryReserveStep, OpenArenaStep,
     RefStep, BumpStep, DriverAssumption DEF PackNext, WindowSizes, CommitSizes
<1> QED
  BY <1>1, <1>2

-----------------------------------------------------------------------------
(* The theorems.                                                           *)

LEMMA PackInvariant == PackSpec => []PackInv
  BY PackInitEstablishes, PackStep, PTL DEF PackSpec

(* The packing state of shim_pack_v1.c keeps its types: the reference      *)
(* count, for one, is never taken below 0.                                 *)
THEOREM PackTypeCorrect == PackSpec => []PackTypeOK
<1>1. PackInv => PackTypeOK
  BY DEF PackInv
<1> QED
  BY <1>1, PackInvariant, PTL

(* The fill level of an active arena never passes its length, whichever of *)
(* shim_pack_try_reserve and shim_pack_bump_usage raised it.               *)
THEOREM ArenaAlwaysBounded == PackSpec => []ArenaBounded
<1>1. PackInv => ArenaBounded
  BY DEF PackInv
<1> QED
  BY <1>1, PackInvariant, PTL

(* While a mega window is open the arena is its last leaf taken, and all   *)
(* its leaves lie inside the reservation.                                  *)
THEOREM WindowAlwaysCoherent == PackSpec => []WindowCoherent
<1>1. PackInv => WindowCoherent
  BY DEF PackInv
<1> QED
  BY <1>1, PackInvariant, PTL

-----------------------------------------------------------------------------
(* What is charged within one window.                                      *)

ChargesTyped == \A c \in charged : c.lo \in Nat /\ c.hi \in Nat

(* The parts of ChargesContained that a step keeps by themselves.          *)
ChargesBelowFill ==
  \A c \in charged : c.lo < c.hi /\ arena.active /\ c.hi <= arena.base + arena.next

InOneLeaf(c) == \E leaf \in LeavesTaken : leaf <= c.lo /\ c.hi <= leaf + arena.len

ChargesInLeaves == \A c \in charged : InOneLeaf(c)

WindowInv ==
  /\ PackInv /\ ChargesTyped /\ ChargesBelowFill /\ ChargesInLeaves /\ ChargesDisjoint

-----------------------------------------------------------------------------

(* Every step of PackWindow is a step of PackArena: charged only watches.  *)
LEMMA WatchesOnly == WindowNext => PackNext
<1>1. NewWindow => PackNext
  BY DEF NewWindow, PackNext, OpenArena
<1>2. SameWindow => PackNext
  BY DEF SameWindow, PackNext, OpenArena
<1>3. ASSUME NEW req \in Size \ {0}, ChargeGrant(req) \/ ChargeBump(req)
      PROVE  PackNext
  BY <1>3 DEF ChargeGrant, ChargeBump, PackNext
<1> QED
  BY <1>1, <1>2, <1>3 DEF WindowNext

LEMMA WindowInitEstablishes == WindowInit => WindowInv
  BY PackInitEstablishes
  DEF WindowInit, WindowInv, ChargesTyped, ChargesBelowFill, ChargesInLeaves, ChargesDisjoint

(* A new range at or above the fill level, below the new fill level.       *)
LEMMA ChargeAbove ==
  ASSUME WindowInv, NEW lo \in Nat, NEW len \in Nat \ {0},
         arena.active, arena.base + arena.next <= lo,
         charged' = charged \union {Span(lo, len)},
         arena'.active, arena'.base + arena'.next = lo + len
  PROVE  ChargesTyped' /\ ChargesBelowFill' /\ ChargesDisjoint'
<1> DEFINE new == Span(lo, len)
<1>1. new.lo = lo /\ new.hi = lo + len
  BY DEF Span
<1>2. charged' = charged \union {new}
  OBVIOUS
<1> HIDE DEF new
<1>3. arena.base \in Nat /\ arena.next \in Nat
  BY DEF WindowInv, PackInv, PackTypeOK, ArenaRecord
<1>4. \A c \in charged : /\ c.lo \in Nat /\ c.hi \in Nat /\ c.lo < c.hi
                         /\ c.hi <= arena.base + arena.next
  BY DEF WindowInv, ChargesTyped, ChargesBelowFill
<1>5. \A c \in charged : c.hi <= lo
  BY <1>3, <1>4
<1>6. ChargesTyped'
  BY <1>1, <1>2, <1>4 DEF ChargesTyped
<1>7. ChargesBelowFill'
  BY <1>1, <1>2, <1>4, <1>5 DEF ChargesBelowFill
<1>8. \A c \in charged : ~Overlap(c, new) /\ ~Overlap(new, c)
  BY <1>1, <1>4, <1>5 DEF Overlap
<1>9. \A a, b \in charged : a # b => ~Overlap(a, b)
  BY DEF WindowInv, ChargesDisjoint
<1>10. ChargesDisjoint'
  BY <1>2, <1>8, <1>9, Zenon DEF ChargesDisjoint, Overlap
<1> QED
  BY <1>6, <1>7, <1>10

(* Nothing charged, and the fill level no lower than it was.               *)
LEMMA ChargeNothing ==
  ASSUME WindowInv, charged' = charged,
         arena.active => arena'.active /\ arena.base + arena.next <= arena'.base + arena'.next,
         arena'.base \in Nat, arena'.next \in Nat
  PROVE  ChargesTyped' /\ ChargesBelowFill' /\ ChargesDisjoint'
<1>1. ChargesTyped' /\ ChargesDisjoint'
  BY DEF WindowInv, ChargesTyped, ChargesDisjoint, Overlap
<1>2. arena.base \in Nat /\ arena.next \in Nat
  BY DEF WindowInv, PackInv, PackTypeOK, ArenaRecord
<1>3. ChargesBelowFill'
  BY <1>2 DEF WindowInv, ChargesTyped, ChargesBelowFill
<1> QED
  BY <1>1, <1>3

LEMMA SameWindowStep ==
  ASSUME WindowInv, SameWindow
  PROVE  ChargesTyped' /\ ChargesBelowFill' /\ ChargesDisjoint'
<1>1. PackInv /\ arena \in ArenaRecord /\ charged' = charged
  BY DEF WindowInv, PackInv, PackTypeOK, SameWindow
<1>2. arena.base \in Nat /\ arena.next \in Nat /\ arena.len \in Nat /\ Leaf \in Nat
  BY <1>1, LeafAssumption DEF ArenaRecord
<1>3. CASE TakeMegaLeaf
  <2>1. MegaHasLeaf /\ arena' = FreshArena(NextLeafBase, Leaf)
    BY <1>3 DEF TakeMegaLeaf
  <2>2. /\ NextLeafBase \in Nat /\ NextLeafBase = arena.base + Leaf
        /\ arena.active /\ arena.len = Leaf
    BY <1>1, <2>1, NextLeaf
  <2>3. arena.next <= Leaf
    BY <1>1, <2>2 DEF PackInv, ArenaBounded
  <2>4. arena'.active /\ arena'.base = NextLeafBase /\ arena'.next = 0
    BY <2>1 DEF FreshArena
  <2> QED
    BY <1>1, <1>2, <2>2, <2>3, <2>4, ChargeNothing
<1>4. ASSUME NEW va, NEW len, NEW h, OpenArenaAtBase(va, len, h)
      PROVE  ChargesTyped' /\ ChargesBelowFill' /\ ChargesDisjoint'
  <2>1. arena' = [arena EXCEPT !.handle = h]
    BY <1>4 DEF OpenArenaAtBase
  <2>2. /\ arena'.active = arena.active /\ arena'.base = arena.base
        /\ arena'.next = arena.next
    BY <1>1, <2>1 DEF ArenaRecord
  <2> QED
    BY <1>1, <1>2, <2>2, ChargeNothing
<1>5. CASE RetainHandle \/ (\E h \in Handle \ {NoHandle} : ReleaseRef(h))
  <2>1. arena' = arena
    BY <1>5 DEF RetainHandle, ReleaseRef
  <2> QED
    BY <1>1, <1>2, <2>1, ChargeNothing
<1> QED
  BY <1>3, <1>4, <1>5 DEF SameWindow

LEMMA ChargeGrantStep ==
  ASSUME WindowInv, NEW req \in Nat, ChargeGrant(req)
  PROVE  ChargesTyped' /\ ChargesBelowFill' /\ ChargesDisjoint'
<1> DEFINE need == PlacementRound(req)
<1> DEFINE off == TryOffset(req)
<1>1. PackTypeOK /\ arena \in ArenaRecord
  BY DEF WindowInv, PackInv, PackTypeOK
<1>2. /\ TryFits(req) /\ arena' = [arena EXCEPT !.next = off + need]
      /\ charged' = charged \union {Span(arena.base + off, need)}
  BY DEF ChargeGrant, TryReserve, GrantedRange
<1>3. need \in Nat \ {0} /\ off \in Nat /\ arena.active /\ arena.next <= off
  BY <1>1, <1>2, GrantFits
<1>4. /\ arena'.active = arena.active /\ arena'.base = arena.base
      /\ arena'.next = off + need /\ arena.base \in Nat /\ arena.next \in Nat
  BY <1>1, <1>2 DEF ArenaRecord
<1> HIDE DEF need, off
<1>5. /\ arena.base + off \in Nat /\ arena.base + arena.next <= arena.base + off
      /\ arena'.base + arena'.next = (arena.base + off) + need
  BY <1>3, <1>4
<1> QED
  BY <1>2, <1>3, <1>4, <1>5, ChargeAbove

LEMMA ChargeBumpStep ==
  ASSUME WindowInv, NEW req \in Nat, ChargeBump(req)
  PROVE  ChargesTyped' /\ ChargesBelowFill' /\ ChargesDisjoint'
<1> DEFINE need == PlacementRound(req)
<1>1. arena \in ArenaRecord /\ arena.base \in Nat /\ arena.next \in Nat
  BY DEF WindowInv, PackInv, PackTypeOK, ArenaRecord
<1>2. CASE BumpFits(req)
  <2>1. /\ arena.active /\ arena' = [arena EXCEPT !.next = arena.next + need]
        /\ charged' = charged \union {Span(arena.base + arena.next, need)}
    BY <1>2 DEF ChargeBump, BumpUsage, BumpedRange, BumpFits
  <2>2. need \in Nat \ {0}
    BY PlacementPositive, DriverAssumption
  <2>3. /\ arena'.active = arena.active /\ arena'.base = arena.base
        /\ arena'.next = arena.next + need
    BY <1>1, <2>1 DEF ArenaRecord
  <2> HIDE DEF need
  <2>4. /\ arena.base + arena.next \in Nat
        /\ arena'.base + arena'.next = (arena.base + arena.next) + need
    BY <1>1, <2>2, <2>3
  <2> QED
    BY <1>1, <2>1, <2>2, <2>3, <2>4, ChargeAbove
<1>3. CASE ~BumpFits(req)
  <2>1. arena' = arena /\ charged' = charged
    BY <1>3 DEF ChargeBump, BumpUsage
  <2> QED
    BY <1>1, <2>1, ChargeNothing
<1> QED
  BY <1>2, <1>3

(* The arena is one of the leaves taken.                                   *)
LEMMA ArenaIsLeaf ==
  ASSUME PackInv
  PROVE  arena.base \in LeavesTaken
<1>1. CASE ~mega.active
  BY <1>1 DEF LeavesTaken
<1>2. CASE mega.active
  <2>1. /\ arena.base = mega.base + (mega.used - 1) * Leaf
        /\ mega.used \in Nat /\ 1 <= mega.used
    BY <1>2 DEF PackInv, PackTypeOK, WindowCoherent, MegaRecord
  <2>2. mega.used - 1 \in 0 .. mega.used - 1
    BY <2>1
  <2> QED
    BY <1>2, <2>1, <2>2 DEF LeavesTaken
<1> QED
  BY <1>1, <1>2

(* The leaves taken stay taken, and what is new lies in the open one.      *)
LEMMA TakenLeavesStay ==
  ASSUME ChargesInLeaves, LeavesTaken \subseteq LeavesTaken', arena'.len = arena.len,
         \A c \in charged' \ charged : InOneLeaf(c)'
  PROVE  ChargesInLeaves'
  BY DEF ChargesInLeaves, InOneLeaf

(* A range charged from the fill level on lies in the open leaf.           *)
LEMMA ChargeInLeaf ==
  ASSUME WindowInv, PackInv', NEW lo \in Nat, NEW len \in Nat,
         UNCHANGED mega, arena'.base = arena.base, arena'.len = arena.len,
         arena.base <= lo, charged' = charged \union {Span(lo, len)},
         arena'.active, arena'.base + arena'.next = lo + len
  PROVE  ChargesInLeaves'
<1>1. LeavesTaken' = LeavesTaken
  BY DEF LeavesTaken
<1>2. arena.base \in LeavesTaken
  BY ArenaIsLeaf DEF WindowInv
<1>3. /\ arena'.base \in Nat /\ arena'.next \in Nat /\ arena'.len \in Nat
      /\ arena'.next <= arena'.len
  BY DEF PackInv, PackTypeOK, ArenaRecord, ArenaBounded
<1>4. Span(lo, len).lo = lo /\ Span(lo, len).hi = lo + len
  BY DEF Span
<1>5. arena'.base <= Span(lo, len).lo /\ Span(lo, len).hi <= arena'.base + arena'.len
  BY <1>3, <1>4
<1>6. \A c \in charged' \ charged : c = Span(lo, len)
  OBVIOUS
<1>7. \A c \in charged' \ charged : arena'.base <= c.lo /\ c.hi <= arena'.base + arena'.len
  BY <1>5, <1>6
<1>8. arena'.base \in LeavesTaken'
  BY <1>1, <1>2
<1>9. \A c \in charged' \ charged : InOneLeaf(c)'
  BY <1>7, <1>8 DEF InOneLeaf
<1> QED
  BY <1>1, <1>9, TakenLeavesStay DEF WindowInv

(* Every step within a window keeps each range in its leaf.                *)
LEMMA ChargesStayInLeaves ==
  ASSUME WindowInv, PackInv', WindowNext
  PROVE  ChargesInLeaves'
<1>1. PackInv /\ arena \in ArenaRecord /\ mega \in MegaRecord /\ ChargesInLeaves
  BY DEF WindowInv, PackInv, PackTypeOK
<1>2. arena.base \in Nat /\ arena.next \in Nat /\ arena.len \in Nat
  BY <1>1 DEF ArenaRecord
<1>3. CASE NewWindow
  BY <1>3 DEF NewWindow, ChargesInLeaves
<1>4. CASE TakeMegaLeaf /\ UNCHANGED charged
  <2>1. /\ MegaHasLeaf /\ arena' = FreshArena(NextLeafBase, Leaf)
        /\ mega' = [mega EXCEPT !.used = mega.used + 1]
    BY <1>4 DEF TakeMegaLeaf
  <2>2. /\ mega.active /\ mega'.active /\ mega'.base = mega.base
        /\ mega'.used = mega.used + 1 /\ mega.used \in Nat
    BY <1>1, <2>1 DEF MegaHasLeaf, MegaRecord
  <2>3. 0 .. mega.used - 1 \subseteq 0 .. mega'.used - 1
    BY <2>2
  <2>4. LeavesTaken \subseteq LeavesTaken'
    BY <2>2, <2>3 DEF LeavesTaken
  <2>5. arena'.len = arena.len
    BY <1>1, <2>1, <2>2 DEF PackInv, WindowCoherent, FreshArena
  <2> QED
    BY <1>1, <1>4, <2>4, <2>5, TakenLeavesStay
<1>5. CASE SameWindow /\ ~TakeMegaLeaf
  <2>1. UNCHANGED <<charged, mega>> /\ arena'.base = arena.base /\ arena'.len = arena.len
    BY <1>1, <1>5 DEF SameWindow, OpenArenaAtBase, RetainHandle, ReleaseRef, ArenaRecord
  <2>2. LeavesTaken' = LeavesTaken
    BY <2>1 DEF LeavesTaken
  <2> QED
    BY <1>1, <2>1, <2>2, TakenLeavesStay
<1>6. ASSUME NEW req \in Size \ {0}, ChargeGrant(req) \/ ChargeBump(req)
      PROVE  ChargesInLeaves'
  <2> DEFINE need == PlacementRound(req)
  <2>1. req \in Nat /\ need \in Nat
    BY PlacementPositive, DriverAssumption
  <2>2. CASE ChargeGrant(req)
    <3> DEFINE off == TryOffset(req)
    <3>1. /\ TryFits(req) /\ arena' = [arena EXCEPT !.next = off + need] /\ UNCHANGED mega
          /\ charged' = charged \union {Span(arena.base + off, need)}
      BY <2>2 DEF ChargeGrant, TryReserve, GrantedRange
    <3>2. off \in Nat /\ arena.active
      BY <1>1, <2>1, <3>1, GrantFits DEF PackInv
    <3>3. /\ arena'.base = arena.base /\ arena'.len = arena.len /\ arena'.active
          /\ arena'.next = off + need
      BY <1>1, <3>1, <3>2 DEF ArenaRecord
    <3> HIDE DEF need, off
    <3>4. /\ arena.base + off \in Nat /\ arena.base <= arena.base + off
          /\ arena'.base + arena'.next = (arena.base + off) + need
      BY <1>2, <2>1, <3>2, <3>3
    <3> QED
      BY <2>1, <3>1, <3>3, <3>4, ChargeInLeaf
  <2>3. CASE ChargeBump(req) /\ BumpFits(req)
    <3>1. /\ arena.active /\ arena' = [arena EXCEPT !.next = arena.next + need] /\ UNCHANGED mega
          /\ charged' = charged \union {Span(arena.base + arena.next, need)}
      BY <2>3 DEF ChargeBump, BumpUsage, BumpedRange, BumpFits
    <3>2. /\ arena'.base = arena.base /\ arena'.len = arena.len /\ arena'.active
          /\ arena'.next = arena.next + need
      BY <1>1, <3>1 DEF ArenaRecord
    <3> HIDE DEF need
    <3>3. /\ arena.base + arena.next \in Nat /\ arena.base <= arena.base + arena.next
          /\ arena'.base + arena'.next = (arena.base + arena.next) + need
      BY <1>2, <2>1, <3>2
    <3> QED
      BY <2>1, <3>1, <3>2, <3>3, ChargeInLeaf
  <2>4. CASE ChargeBump(req) /\ ~BumpFits(req)
    <3>1. arena' = arena /\ mega' = mega /\ charged' = charged
      BY <2>4 DEF ChargeBump, BumpUsage
    <3>2. LeavesTaken' = LeavesTaken
      BY <3>1 DEF LeavesTaken
    <3> QED
      BY <1>1, <3>1, <3>2, TakenLeavesStay
  <2> QED
    BY <1>6, <2>2, <2>3, <2>4
<1>7. SameWindow => UNCHANGED charged
  BY DEF SameWindow
<1> QED
  BY <1>3, <1>4, <1>5, <1>6, <1>7 DEF WindowNext

LEMMA WindowStep ==
  ASSUME WindowInv, [WindowNext]_windowVars
  PROVE  WindowInv'
<1>1. CASE UNCHANGED windowVars
  BY <1>1 DEF windowVars, packVars, WindowInv, PackInv, PackTypeOK, ArenaBounded,
     WindowCoherent, ChargesTyped, ChargesBelowFill, ChargesInLeaves, InOneLeaf, LeavesTaken,
     ChargesDisjoint
<1>2. CASE WindowNext
  <2>1. PackInv'
    BY <1>2, WatchesOnly, PackStep DEF WindowInv
  <2>2. NewWindow => ChargesTyped' /\ ChargesBelowFill' /\ ChargesDisjoint'
    BY DEF NewWindow, ChargesTyped, ChargesBelowFill, ChargesDisjoint
  <2>3. ChargesInLeaves'
    BY <1>2, <2>1, ChargesStayInLeaves
  <2> QED
    BY <1>2, <2>1, <2>2, <2>3, SameWindowStep, ChargeGrantStep, ChargeBumpStep, DriverAssumption
    DEF WindowNext, WindowInv
<1> QED
  BY <1>1, <1>2

-----------------------------------------------------------------------------
(* The theorems.                                                           *)

LEMMA WindowInvariant == WindowSpec => []WindowInv
  BY WindowInitEstablishes, WindowStep, PTL DEF WindowSpec

(* PackWindow has the behaviours of PackArena and no others.               *)
THEOREM WindowImplementsPack == WindowSpec => PackSpec
<1>1. WindowInit => PackInit
  BY DEF WindowInit
<1>2. [WindowNext]_windowVars => [PackNext]_packVars
  BY WatchesOnly DEF windowVars
<1> QED
  BY <1>1, <1>2, PTL DEF WindowSpec, PackSpec

(* Within one window the shim never charges an address to two slices.      *)
THEOREM ChargesAlwaysDisjoint == WindowSpec => []ChargesDisjoint
<1>1. WindowInv => ChargesDisjoint
  BY DEF WindowInv
<1> QED
  BY <1>1, WindowInvariant, PTL

(* The open leaf is the last of the window, and the window is large enough *)
(* for it.                                                                 *)
LEMMA ArenaInWindow ==
  ASSUME PackInv, arena.active
  PROVE  arena.base + arena.next <= WindowEnd
<1>1. /\ arena.base \in Nat /\ arena.next \in Nat /\ arena.len \in Nat
      /\ arena.next <= arena.len
  BY DEF PackInv, PackTypeOK, ArenaRecord, ArenaBounded
<1>2. CASE ~mega.active
  BY <1>1, <1>2 DEF WindowEnd, ArenaEnd
<1>3. CASE mega.active
  <2>1. /\ arena.len = Leaf /\ arena.base = mega.base + (mega.used - 1) * Leaf
        /\ 1 <= mega.used /\ mega.used <= mega.leaves
        /\ mega.leaves * Leaf <= mega.len
    BY <1>3 DEF PackInv, WindowCoherent
  <2>2. /\ mega.base \in Nat /\ mega.len \in Nat /\ mega.used \in Nat
        /\ mega.leaves \in Nat /\ Leaf \in Nat
    BY LeafAssumption DEF PackInv, PackTypeOK, MegaRecord
  <2> DEFINE u == mega.used
  <2> DEFINE n == mega.leaves
  <2>3. (u - 1) * Leaf + Leaf = u * Leaf /\ (u - 1) * Leaf \in Nat
    BY <2>1, <2>2
  <2>4. u * Leaf <= n * Leaf /\ u * Leaf \in Nat /\ n * Leaf \in Nat
    BY <2>1, <2>2, ProductOrder
  <2> HIDE DEF u, n
  <2>5. arena.base + arena.next <= mega.base + mega.len
    BY <1>1, <2>1, <2>2, <2>3, <2>4 DEF u, n
  <2> QED
    BY <1>3, <2>5 DEF WindowEnd
<1> QED
  BY <1>2, <1>3

(* Every range charged lies within one leaf cut from the window, below the *)
(* fill level of the open leaf and inside the driver's reservation.        *)
THEOREM ChargesAlwaysContained == WindowSpec => []ChargesContained
<1>1. WindowInv => ChargesContained
  <2> SUFFICES ASSUME WindowInv, NEW c \in charged
               PROVE  /\ c.lo < c.hi /\ arena.active
                      /\ \E leaf \in LeavesTaken : leaf <= c.lo /\ c.hi <= leaf + arena.len
                      /\ c.hi <= arena.base + arena.next
                      /\ c.hi <= WindowEnd
    BY DEF ChargesContained
  <2>1. c.lo < c.hi /\ arena.active /\ c.hi <= arena.base + arena.next /\ InOneLeaf(c)
    BY DEF WindowInv, ChargesBelowFill, ChargesInLeaves
  <2>2. arena.base + arena.next <= WindowEnd
    BY <2>1, ArenaInWindow DEF WindowInv
  <2>3. c.hi \in Nat /\ arena.base + arena.next \in Nat /\ WindowEnd \in Nat
    BY DEF WindowInv, ChargesTyped, PackInv, PackTypeOK, ArenaRecord, MegaRecord, WindowEnd,
           ArenaEnd
  <2>4. c.hi <= WindowEnd
    BY <2>1, <2>2, <2>3
  <2> QED
    BY <2>1, <2>4 DEF InOneLeaf
<1> QED
  BY <1>1, WindowInvariant, PTL
=============================================================================
