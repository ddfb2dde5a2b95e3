------------------------------- MODULE SlotTable -------------------------------
(***************************************************************************)
(* The VA slot table of shim_reservation_v1.c.  Every exported helper      *)
(* takes g_map_epoch_mu for its whole body, so each is one action.  The    *)
(* helpers are exported by shim_internal.h and called by any thread in     *)
(* any order: SlotNext leaves the caller free.                             *)
(*                                                                         *)
(* Left out: alignment, flags and rounded size (stored, never read back    *)
(* by the shim) and the alloc half of the legacy view (never read).        *)
(***************************************************************************)
EXTENDS DriverTypes, Integers, FiniteSets, FiniteSetsExt

CONSTANTS
  SlotCap,   \* SHIM_VA_SLOT_CAP
  GenMod     \* the generation counter's modulus, 2^32 in the code

ASSUME SlotAssumption ==
  /\ SlotCap \in Nat \ {0}
  /\ GenMod \in Nat /\ GenMod > 1

VARIABLES
  slots,        \* g_va_slots
  slotGen,      \* g_va_slot_gen
  pending,      \* g_pending_reserve_idx
  activeCount,  \* g_active_slot_count
  legacyVa      \* g_reservation_slot.va (NoVa also when it is not active)

slotVars == <<slots, slotGen, pending, activeCount, legacyVa>>

Index == 0 .. SlotCap - 1

SlotRecord == [gen : 0 .. GenMod - 1, va : Nat, size : Nat, req : Nat,
               offset : Nat, hasHandle : BOOLEAN, handle : Handle,
               mapped : BOOLEAN, packed : BOOLEAN]

EmptySlot == [gen |-> 0, va |-> NoVa, size |-> 0, req |-> 0, offset |-> 0,
              hasHandle |-> FALSE, handle |-> NoHandle,
              mapped |-> FALSE, packed |-> FALSE]

-----------------------------------------------------------------------------
(* Lookups.                                                                *)

Used == {i \in Index : slots[i].gen # 0}

FirstOf(S) == IF S = {} THEN -1 ELSE Min(S)
LastOf(S) == IF S = {} THEN -1 ELSE Max(S)

FindFree == FirstOf(Index \ Used)
FindByVa(va) == FirstOf({i \in Used : slots[i].va = va})
FindByHandle(h) == FirstOf({i \in Used : slots[i].hasHandle /\ slots[i].handle = h})

(* shim_slot_find_pending_create_locked keeps the last match.              *)
FindPendingCreate == LastOf({i \in Used : slots[i].va # NoVa /\ ~slots[i].hasHandle})

(* The slot a cuMemCreate binds to, also asked by shim_slot_use_packed.    *)
CreateTarget == IF FindPendingCreate >= 0 THEN FindPendingCreate ELSE pending

(* The slot shim_slot_set_req_bytes writes.                                *)
ReserveTarget == IF pending >= 0 THEN pending ELSE FindPendingCreate

EpochHeld == activeCount > 0

-----------------------------------------------------------------------------
(* Steps shared by the helpers.                                            *)

(* Faulty variant: the counter wraps to 0, the mark of a free slot.        *)
NextGenUnchecked(g) == (g + 1) % GenMod

NextGen(g) == IF (g + 1) % GenMod = 0 THEN 1 ELSE (g + 1) % GenMod

(* shim_slot_alloc_locked, the new slot already filled with rec's fields.  *)
AllocSlot(idx, rec) ==
  /\ slots' = [slots EXCEPT ![idx] = [rec EXCEPT !.gen = slotGen]]
  /\ slotGen' = NextGen(slotGen)
  /\ activeCount' = activeCount + 1

(* A change of one used slot, if there is one; the legacy view follows.    *)
WriteSlot(idx, rec) ==
  /\ slots' = IF idx \in Used THEN [slots EXCEPT ![idx] = rec] ELSE slots
  /\ UNCHANGED <<slotGen, pending, activeCount>>

SyncLegacy(idx) == legacyVa' = IF idx \in Used THEN slots'[idx].va ELSE legacyVa

(* shim_slot_free_locked                                                   *)
FreeSlot(idx) ==
  /\ slots' = IF idx \in Used THEN [slots EXCEPT ![idx] = EmptySlot] ELSE slots
  /\ activeCount' = IF idx \in Used /\ activeCount > 0 THEN activeCount - 1
                                                       ELSE activeCount

-----------------------------------------------------------------------------
(* The helpers.                                                            *)

SlotInit ==
  /\ slots = [i \in Index |-> EmptySlot]
  /\ slotGen = 1
  /\ pending = -1
  /\ activeCount = 0
  /\ legacyVa = NoVa

ReservationClear ==
  /\ slots' = [i \in Index |-> EmptySlot]
  /\ pending' = -1
  /\ activeCount' = 0
  /\ legacyVa' = NoVa
  /\ UNCHANGED slotGen

ReserveBeginSlot ==
  /\ FindFree >= 0
  /\ AllocSlot(FindFree, EmptySlot)
  /\ pending' = FindFree
  /\ UNCHANGED legacyVa

(* shim_reserve_begin_slot with no slot left: the call is rejected.        *)
ReserveBeginFull == FindFree < 0 /\ UNCHANGED slotVars

(* shim_reservation_set with a pending slot.                               *)
CommitPending(va, size) ==
  /\ pending \in Used
  /\ slots' = [slots EXCEPT ![pending].va = va, ![pending].size = size]
  /\ pending' = -1
  /\ legacyVa' = va
  /\ UNCHANGED <<slotGen, activeCount>>

(* shim_reservation_set when the pending slot is gone: a fresh slot.       *)
CommitFresh(va, size) ==
  /\ pending \notin Used
  /\ FindFree >= 0
  /\ AllocSlot(FindFree, [EmptySlot EXCEPT !.va = va, !.size = size])
  /\ legacyVa' = va
  /\ UNCHANGED pending

CommitLost == pending \notin Used /\ FindFree < 0 /\ UNCHANGED slotVars

(* Faulty variant: the pending index outlives the commit.                  *)
ReservationSetKeepsPending(va, size) ==
  \/ /\ pending \in Used
     /\ slots' = [slots EXCEPT ![pending].va = va, ![pending].size = size]
     /\ legacyVa' = va
     /\ UNCHANGED <<slotGen, activeCount, pending>>
  \/ CommitFresh(va, size)
  \/ CommitLost

ReservationSet(va, size) ==
  CommitPending(va, size) \/ CommitFresh(va, size) \/ CommitLost

(* Faulty variant: the slot is wiped but not uncounted.                    *)
AbortPendingUncounted ==
  /\ slots' = IF pending \in Used THEN [slots EXCEPT ![pending] = EmptySlot] ELSE slots
  /\ pending' = -1
  /\ UNCHANGED <<slotGen, activeCount, legacyVa>>

(* Faulty variant: the rollback clears the table, as shim_alloc_clear does. *)
AbortPendingClears == ReservationClear

(* shim_reserve_abort_pending                                              *)
AbortPending ==
  /\ FreeSlot(pending)
  /\ pending' = -1
  /\ UNCHANGED <<slotGen, legacyVa>>

(* Faulty variant: a pending index of the freed slot is kept.              *)
SlotFreeByVaKeepsPending(va) ==
  /\ FreeSlot(FindByVa(va))
  /\ UNCHANGED <<slotGen, pending, legacyVa>>

SlotFreeByVa(va) ==
  /\ FreeSlot(FindByVa(va))
  /\ pending' = IF pending \in Used /\ slots'[pending].gen # 0 THEN pending ELSE -1
  /\ UNCHANGED <<slotGen, legacyVa>>

BindCreate(h) ==
  /\ WriteSlot(CreateTarget,
       [slots[CreateTarget] EXCEPT !.hasHandle = TRUE, !.handle = h])
  /\ SyncLegacy(CreateTarget)

MarkMapped(va) ==
  /\ WriteSlot(FindByVa(va), [slots[FindByVa(va)] EXCEPT !.mapped = TRUE])
  /\ SyncLegacy(FindByVa(va))

ClearMapped(va) ==
  /\ WriteSlot(FindByVa(va), [slots[FindByVa(va)] EXCEPT !.mapped = FALSE])
  /\ SyncLegacy(FindByVa(va))

(* The first slot bound to h loses it, whichever slot the caller meant.    *)
ClearHandle(h) ==
  /\ WriteSlot(FindByHandle(h),
       [slots[FindByHandle(h)] EXCEPT !.hasHandle = FALSE, !.handle = NoHandle,
                                      !.mapped = FALSE])
  /\ SyncLegacy(FindByHandle(h))

SetReqBytes(req) ==
  /\ WriteSlot(ReserveTarget, [slots[ReserveTarget] EXCEPT !.req = req])
  /\ UNCHANGED legacyVa

MarkPackedArena(on) ==
  /\ WriteSlot(ReserveTarget, [slots[ReserveTarget] EXCEPT !.packed = on])
  /\ UNCHANGED legacyVa

MarkPackedByVa(va, on) ==
  /\ WriteSlot(FindByVa(va), [slots[FindByVa(va)] EXCEPT !.packed = on])
  /\ UNCHANGED legacyVa

SetMapOffset(va, offset) ==
  /\ WriteSlot(FindByVa(va), [slots[FindByVa(va)] EXCEPT !.offset = offset])
  /\ UNCHANGED legacyVa

SlotNext ==
  \/ ReservationClear
  \/ ReserveBeginSlot
  \/ ReserveBeginFull
  \/ AbortPending
  \/ \E va \in Va, size \in Size : ReservationSet(va, size)
  \/ \E va \in Va : SlotFreeByVa(va)
  \/ \E h \in Handle \ {NoHandle} : BindCreate(h)
  \/ \E va \in Va : MarkMapped(va)
  \/ \E va \in Va : ClearMapped(va)
  \/ \E h \in Handle \ {NoHandle} : ClearHandle(h)
  \/ \E req \in Size : SetReqBytes(req)
  \/ \E on \in BOOLEAN : MarkPackedArena(on)
  \/ \E va \in Va, on \in BOOLEAN : MarkPackedByVa(va, on)
  \/ \E va \in Va, offset \in Size : SetMapOffset(va, offset)

SlotSpec == SlotInit /\ [][SlotNext]_slotVars

-----------------------------------------------------------------------------
(* Properties.                                                             *)

(* Types; the generation counter itself is never 0.                        *)
SlotTypeOK ==
  /\ slots \in [Index -> SlotRecord]
  /\ slotGen \in 1 .. GenMod - 1
  /\ pending \in -1 .. SlotCap - 1
  /\ activeCount \in Nat
  /\ legacyVa \in Nat

(* The epoch test of every cuMem call reads g_active_slot_count: the count *)
(* is the number of slots in use, whatever order begins, commits, aborts,  *)
(* frees and counter wraps come in.                                        *)
CountExact == activeCount = Cardinality(Used)

(* The pending index always names a slot in use that has no address yet,   *)
(* so a commit can never write over an address already handed out.         *)
PendingVirgin == pending >= 0 => pending \in Used /\ slots[pending].va = NoVa

(* An address recorded for a slot is never replaced: only freeing the slot *)
(* forgets it (shim_reservation_set writes a pending or a fresh slot).     *)
AddressStable ==
  [][\A i \in Index : i \in Used /\ slots[i].va # NoVa =>
       slots'[i].va = slots[i].va \/ slots'[i] = EmptySlot]_slotVars
=============================================================================
