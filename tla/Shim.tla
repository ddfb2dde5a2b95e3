---------------------------------- MODULE Shim ----------------------------------
(***************************************************************************)
(* The interposed cuMem calls of lib2adic_shim.c (with shim_reserve_v1.c   *)
(* and shim_alloc_v1.c), run by any number of threads over the slot table, *)
(* the packing arena, the alias buckets and the driver.                    *)
(*                                                                         *)
(* A call takes g_map_epoch_mu once per helper and drops it in between:    *)
(* every step below is one such critical section or one driver call, and   *)
(* other threads may run between any two.  The lookups with which a create, *)
(* a map or a release is validated (each its own critical section, none    *)
(* writes) are one step: what the call does later is looked up again.      *)
(* Arguments the shim rejects before it touches any state (size 0, an      *)
(* alignment that is no power of two) are not made calls at all, and       *)
(* cuMemSetAccess and cuMemGetAllocationGranularity keep no shim state.    *)
(***************************************************************************)
EXTENDS SlotTable, PackArena, Gqa, Driver

CONSTANTS
  Thread,
  PackOn,      \* shim_pack_enabled_v1()
  MoonReserve  \* shim_pack_mega_reserve_override(), 0 = not set

ASSUME ShimAssumption ==
  /\ PackOn \in BOOLEAN /\ MoonReserve \in Nat
  /\ MoonReserve > 0 <=> MegaLeaves = 0
  /\ Granule = Leaf

VARIABLE call  \* the call each thread is in: its next step, arguments, results

shimVars == <<slotVars, packVars, buckets>>
vars == <<shimVars, driverVars, call>>

IdleCall == [pc |-> "idle", op |-> "none", va |-> NoVa, size |-> 0, sz |-> 0,
             off |-> 0, h |-> NoHandle, route |-> "none", ok |-> FALSE]

Idle(t) == call[t].pc = "idle"
Done(t) == call[t].pc = "done"
At(t, pc) == call[t].pc = pc
Goto(t, pc) == call' = [call EXCEPT ![t].pc = pc]
Return(t, ok) == call' = [call EXCEPT ![t].pc = "done", ![t].ok = ok]

NewWindowSize == NewReserveSize(MoonReserve, MegaOn, MegaLeaves)

(* shim_slot_is_packed_subva: asked of the arena as it is now.             *)
PackedSlot(va) == FindByVa(va) >= 0 /\ PackedSubVa(va)

OnlySlots == UNCHANGED <<packVars, buckets, driverVars>>
OnlyPack == UNCHANGED <<slotVars, buckets, driverVars>>
OnlyBuckets == UNCHANGED <<slotVars, packVars, driverVars>>
OnlyDriver == UNCHANGED shimVars
OnlyCall == UNCHANGED <<shimVars, driverVars>>

ShimInit ==
  /\ SlotInit /\ PackInit /\ GqaInit /\ DriverInit
  /\ call = [t \in Thread |-> IdleCall]

(* A client thread enters a call.                                          *)
Enter(t, op, pc, va, size, h) ==
  call' = [call EXCEPT ![t] = [IdleCall EXCEPT !.op = op, !.pc = pc, !.va = va,
                                               !.size = size, !.h = h]]

-----------------------------------------------------------------------------
(* cuMemAddressReserve                                                     *)

RsvBegin(t) ==
  /\ At(t, "rsv_begin")
  /\ \/ ReserveBeginSlot /\ Goto(t, "rsv_req")
     \/ ReserveBeginFull /\ Return(t, FALSE)
  /\ OnlySlots

RsvReq(t) ==
  /\ At(t, "rsv_req")
  /\ SetReqBytes(call[t].size)
  /\ Goto(t, "rsv_gqa")
  /\ OnlySlots

(* An address granted without the driver is committed next.                *)
Grant(t, route, va, sz) ==
  call' = [call EXCEPT ![t].pc = "rsv_commit", ![t].route = route,
                       ![t].va = va, ![t].sz = sz]

RsvAlias(t) ==
  /\ At(t, "rsv_gqa")
  /\ TryAlias(call[t].size)
  /\ Grant(t, "alias", AliasVa(call[t].size), PlacementRound(call[t].size))
  /\ OnlyBuckets

RsvNoAlias(t) ==
  /\ At(t, "rsv_gqa")
  /\ ~AliasFits(call[t].size)
  /\ Goto(t, CASE call[t].size > Leaf             -> "rsv_flush"
               [] call[t].size <= Leaf /\ PackOn  -> "rsv_try"
               [] call[t].size <= Leaf /\ ~PackOn -> "rsv_driver")
  /\ OnlyCall

RsvFlush(t) ==
  /\ At(t, "rsv_flush")
  /\ PackFlush
  /\ Goto(t, "rsv_driver")
  /\ OnlyPack

RsvTry(t) ==
  /\ At(t, "rsv_try")
  /\ \/ /\ TryReserve(call[t].size)
        /\ Grant(t, "sub", arena.base + TryOffset(call[t].size), PlacementRound(call[t].size))
     \/ /\ ~TryFits(call[t].size)
        /\ Goto(t, "rsv_mega")
        /\ UNCHANGED packVars
  /\ OnlyPack

RsvMega(t) ==
  /\ At(t, "rsv_mega")
  /\ \/ TakeMegaLeaf /\ Grant(t, "leaf", NextLeafBase, Leaf)
     \/ ~MegaHasLeaf /\ Goto(t, "rsv_driver") /\ UNCHANGED packVars
  /\ OnlyPack

RsvCommit(t) ==
  /\ At(t, "rsv_commit")
  /\ ReservationSet(call[t].va, call[t].sz)
  /\ Goto(t, "rsv_mark")
  /\ OnlySlots

RsvMark(t) ==
  /\ At(t, "rsv_mark")
  /\ MarkPackedByVa(call[t].va, TRUE)
  /\ Goto(t, "rsv_off")
  /\ OnlySlots

(* The offset is read in one critical section and stored in the next.      *)
RsvOff(t) ==
  /\ At(t, "rsv_off")
  /\ call' = [call EXCEPT ![t].pc = "rsv_setoff", ![t].off = MapOffsetOf(call[t].va)]
  /\ OnlyCall

RsvSetOff(t) ==
  /\ At(t, "rsv_setoff")
  /\ SetMapOffset(call[t].va, call[t].off)
  /\ CASE ~GqaOn \/ call[t].route = "alias"  -> Return(t, TRUE)
       [] GqaOn /\ call[t].route = "sub"     -> Goto(t, "rsv_leafoff")
       [] GqaOn /\ call[t].route = "leaf"    ->
            call' = [call EXCEPT ![t].pc = "rsv_register", ![t].off = 0]
  /\ OnlySlots

RsvLeafOff(t) ==
  /\ At(t, "rsv_leafoff")
  /\ call' = [call EXCEPT ![t].pc = "rsv_register", ![t].off = MapOffsetOf(call[t].va)]
  /\ OnlyCall

RsvRegister(t) ==
  /\ At(t, "rsv_register")
  /\ RegisterLeaf(call[t].va - call[t].off, call[t].size)
  /\ Return(t, TRUE)
  /\ OnlyBuckets

(* Small requests reserve a whole window, large ones their own size.       *)
DriverSize(t) == IF PackOn /\ call[t].size <= Leaf THEN NewWindowSize ELSE call[t].size

RsvDriver(t) ==
  /\ At(t, "rsv_driver")
  /\ \/ /\ DriverReserve(DriverSize(t))
        /\ call' = [call EXCEPT ![t].pc = "rsv_dcommit", ![t].sz = DriverSize(t),
                                ![t].va = NextRoom(DriverSize(t))]
     \/ /\ Rooms(DriverSize(t)) = {} \/ DriverFails
        /\ Goto(t, "rsv_rollback")
        /\ UNCHANGED driverVars
  /\ OnlyDriver

(* Faulty variant: the error path forgets the slot it began.               *)
RsvRollbackKeeps(t) == At(t, "rsv_rollback") /\ Return(t, FALSE) /\ OnlyCall

RsvRollback(t) ==
  /\ At(t, "rsv_rollback")
  /\ AbortPending
  /\ Return(t, FALSE)
  /\ OnlySlots

OpensWindow(t) == PackOn /\ MegaOn /\ call[t].sz >= NewWindowSize

AfterDriverCommit(t) == IF OpensWindow(t) THEN Goto(t, "rsv_window") ELSE Return(t, TRUE)

RsvDriverCommit(t) ==
  /\ At(t, "rsv_dcommit")
  /\ ReservationSet(call[t].va, call[t].sz)
  /\ IF GqaOn /\ call[t].size <= Leaf THEN Goto(t, "rsv_dregister") ELSE AfterDriverCommit(t)
  /\ OnlySlots

RsvDriverRegister(t) ==
  /\ At(t, "rsv_dregister")
  /\ RegisterLeaf(call[t].va, call[t].size)
  /\ AfterDriverCommit(t)
  /\ OnlyBuckets

RsvWindow(t) ==
  /\ At(t, "rsv_window")
  /\ MegaOpen(call[t].va, call[t].sz)
  /\ Return(t, TRUE)
  /\ OnlyPack

ReserveStep(t) ==
  \/ RsvBegin(t) \/ RsvReq(t) \/ RsvAlias(t) \/ RsvNoAlias(t) \/ RsvFlush(t)
  \/ RsvTry(t) \/ RsvMega(t) \/ RsvCommit(t) \/ RsvMark(t) \/ RsvOff(t)
  \/ RsvSetOff(t) \/ RsvLeafOff(t) \/ RsvRegister(t) \/ RsvDriver(t)
  \/ RsvRollback(t) \/ RsvDriverCommit(t) \/ RsvDriverRegister(t) \/ RsvWindow(t)

-----------------------------------------------------------------------------
(* cuMemCreate                                                             *)

(* shim_slot_use_packed_handle: the slot a create would bind to lies in    *)
(* the arena, and the arena has a handle.                                  *)
SharesHandle ==
  /\ PackOn /\ CreateTarget \in Used
  /\ PackedSubVa(slots[CreateTarget].va)
  /\ arena.handle # NoHandle

CrtPacked(t) ==
  /\ At(t, "crt_packed")
  /\ IF SharesHandle
     THEN call' = [call EXCEPT ![t].pc = "crt_retain", ![t].h = arena.handle]
     ELSE Goto(t, "crt_validate")
  /\ OnlyCall

(* Faulty variant: a shared create is counted as memory made.              *)
CrtRetainCounts(t) ==
  /\ At(t, "crt_retain")
  /\ NoteCommitted(Leaf)
  /\ Goto(t, "crt_share")
  /\ UNCHANGED <<arena, mega, handleRefs, bandSeq>> /\ OnlyPack

CrtRetain(t) ==
  /\ At(t, "crt_retain")
  /\ RetainHandle
  /\ Goto(t, "crt_share")
  /\ OnlyPack

CrtShare(t) ==
  /\ At(t, "crt_share")
  /\ BindCreate(call[t].h)
  /\ Return(t, TRUE)
  /\ OnlySlots

CrtValidate(t) ==
  /\ At(t, "crt_validate")
  /\ IF EpochHeld /\ FindPendingCreate >= 0 THEN Goto(t, "crt_driver") ELSE Return(t, FALSE)
  /\ OnlyCall

(* Faulty variant: a failed cuMemCreate is tried again.                    *)
CrtDriverRetries(t) ==
  /\ At(t, "crt_driver")
  /\ \/ \E h \in FreshHandles :
          /\ DriverCreate(h, CreateRoundSize(call[t].size))
          /\ call' = [call EXCEPT ![t].pc = "crt_bind", ![t].h = h]
     \/ (FreshHandles = {} \/ DriverFails) /\ UNCHANGED <<call, driverVars>>
  /\ OnlyDriver

CrtDriver(t) ==
  /\ At(t, "crt_driver")
  /\ \/ \E h \in FreshHandles :
          /\ DriverCreate(h, CreateRoundSize(call[t].size))
          /\ call' = [call EXCEPT ![t].pc = "crt_bind", ![t].h = h]
     \/ /\ FreshHandles = {} \/ DriverFails
        /\ Return(t, FALSE)
        /\ UNCHANGED driverVars
  /\ OnlyDriver

CrtBind(t) ==
  /\ At(t, "crt_bind")
  /\ BindCreate(call[t].h)
  /\ IF PackOn THEN Goto(t, "crt_snapshot") ELSE Return(t, TRUE)
  /\ OnlySlots

(* The legacy view is read without the mutex.                              *)
CrtSnapshot(t) ==
  /\ At(t, "crt_snapshot")
  /\ IF legacyVa # NoVa
     THEN call' = [call EXCEPT ![t].pc = "crt_open", ![t].va = legacyVa]
     ELSE Return(t, TRUE)
  /\ OnlyCall

(* rs->va is named twice, in the test and as the argument: the build may   *)
(* load it once or again.                                                  *)
CrtOpen(t) ==
  /\ At(t, "crt_open")
  /\ \E va \in {call[t].va, legacyVa} : OpenArena(va, CreateRoundSize(call[t].size), call[t].h)
  /\ Return(t, TRUE)
  /\ OnlyPack

CreateStep(t) ==
  \/ CrtPacked(t) \/ CrtRetain(t) \/ CrtShare(t) \/ CrtValidate(t)
  \/ CrtDriver(t) \/ CrtBind(t) \/ CrtSnapshot(t) \/ CrtOpen(t)

-----------------------------------------------------------------------------
(* cuMemMap; clients map at offset 0.                                      *)

MapValid(va, size) ==
  /\ EpochHeld /\ FindByVa(va) >= 0
  /\ slots[FindByVa(va)].hasHandle
  /\ PackedSlot(va) \/ (size > 0 /\ size <= slots[FindByVa(va)].size)

MapValidate(t) ==
  /\ At(t, "map_validate")
  /\ IF MapValid(call[t].va, call[t].size) THEN Goto(t, "map_route") ELSE Return(t, FALSE)
  /\ OnlyCall

MapRoute(t) ==
  /\ At(t, "map_route")
  /\ Goto(t, IF PackedSlot(call[t].va) THEN "map_packed" ELSE "map_off")
  /\ OnlyCall

(* Faulty variant: a slice that is backed already is not marked mapped.    *)
MapPackedUnmarked(t) == At(t, "map_packed") /\ Return(t, TRUE) /\ OnlyCall

(* A slice inside the arena is already backed by the leaf's own mapping.   *)
MapPacked(t) ==
  /\ At(t, "map_packed")
  /\ MarkMapped(call[t].va)
  /\ Return(t, TRUE)
  /\ OnlySlots

MapOff(t) ==
  /\ At(t, "map_off")
  /\ call' = [call EXCEPT ![t].pc = "map_driver",
       ![t].off = IF FindByVa(call[t].va) >= 0 THEN slots[FindByVa(call[t].va)].offset ELSE 0]
  /\ OnlyCall

MapDriver(t) ==
  /\ At(t, "map_driver")
  /\ \/ /\ DriverMap(call[t].va, call[t].size, call[t].off, call[t].h)
        /\ Goto(t, "map_mark")
     \/ /\ ~CanMap(call[t].va, call[t].size, call[t].off, call[t].h) \/ DriverFails
        /\ Return(t, FALSE)
        /\ UNCHANGED driverVars
  /\ OnlyDriver

MapMark(t) ==
  /\ At(t, "map_mark")
  /\ MarkMapped(call[t].va)
  /\ Goto(t, "map_usage")
  /\ OnlySlots

(* Is the slice at a leaf's base, is an arena open, and what was asked     *)
(* for: three looks at the tables, each by itself.                         *)
MapUsage(t) ==
  /\ At(t, "map_usage")
  /\ IF PackedSlot(call[t].va) THEN Return(t, TRUE) ELSE Goto(t, "map_active")
  /\ OnlyCall

MapActive(t) ==
  /\ At(t, "map_active")
  /\ IF arena.active THEN Goto(t, "map_req") ELSE Return(t, TRUE)
  /\ OnlyCall

MapReq(t) ==
  /\ At(t, "map_req")
  /\ LET idx == FindByVa(call[t].va)
         req == IF idx >= 0 THEN slots[idx].req ELSE 0
     IN  IF req > 0
         THEN call' = [call EXCEPT ![t].pc = "map_bump", ![t].sz = req]
         ELSE Return(t, TRUE)
  /\ OnlyCall

MapBump(t) ==
  /\ At(t, "map_bump")
  /\ BumpUsage(call[t].sz)
  /\ Return(t, TRUE)
  /\ OnlyPack

MapStep(t) ==
  \/ MapValidate(t) \/ MapRoute(t) \/ MapPacked(t) \/ MapOff(t)
  \/ MapDriver(t) \/ MapMark(t) \/ MapUsage(t) \/ MapActive(t) \/ MapReq(t) \/ MapBump(t)

-----------------------------------------------------------------------------
(* cuMemUnmap: a slot not marked mapped is accepted and goes on to the     *)
(* driver all the same.                                                    *)

MarkedMapped(va) == FindByVa(va) >= 0 /\ slots[FindByVa(va)].mapped

UnmValidate(t) ==
  /\ At(t, "unm_validate")
  /\ CASE ~EpochHeld                              -> Return(t, FALSE)
       [] EpochHeld /\ MarkedMapped(call[t].va)   -> Goto(t, "unm_known")
       [] EpochHeld /\ ~MarkedMapped(call[t].va)  -> Goto(t, "unm_route")
  /\ OnlyCall

(* The slot seen mapped may be another thread's to free by now.            *)
UnmKnown(t) ==
  /\ At(t, "unm_known")
  /\ IF FindByVa(call[t].va) >= 0 THEN Goto(t, "unm_route") ELSE Return(t, FALSE)
  /\ OnlyCall

UnmRoute(t) ==
  /\ At(t, "unm_route")
  /\ Goto(t, IF PackedSlot(call[t].va) THEN "unm_clear" ELSE "unm_driver")
  /\ OnlyCall

UnmDriver(t) ==
  /\ At(t, "unm_driver")
  /\ \/ DriverUnmap(call[t].va, call[t].size) /\ Goto(t, "unm_clear")
     \/ /\ ~CanUnmap(call[t].va, call[t].size) \/ GiveBackFails
        /\ Return(t, FALSE)
        /\ UNCHANGED driverVars
  /\ OnlyDriver

UnmClear(t) ==
  /\ At(t, "unm_clear")
  /\ ClearMapped(call[t].va)
  /\ Return(t, TRUE)
  /\ OnlySlots

UnmapStep(t) ==
  UnmValidate(t) \/ UnmKnown(t) \/ UnmRoute(t) \/ UnmDriver(t) \/ UnmClear(t)

-----------------------------------------------------------------------------
(* cuMemRelease                                                            *)

RelValidate(t) ==
  /\ At(t, "rel_validate")
  /\ IF EpochHeld /\ FindByHandle(call[t].h) >= 0
     THEN Goto(t, "rel_ref") ELSE Return(t, FALSE)
  /\ OnlyCall

(* Faulty variant: a deferred release leaves the slot bound.               *)
RelRefDeferred(t) ==
  /\ At(t, "rel_ref")
  /\ ReleaseRef(call[t].h)
  /\ IF DefersRelease(call[t].h) THEN Return(t, TRUE) ELSE Goto(t, "rel_driver")
  /\ OnlyPack

RelRef(t) ==
  /\ At(t, "rel_ref")
  /\ ReleaseRef(call[t].h)
  /\ Goto(t, IF DefersRelease(call[t].h) THEN "rel_clear" ELSE "rel_driver")
  /\ OnlyPack

RelDriver(t) ==
  /\ At(t, "rel_driver")
  /\ \/ DriverRelease(call[t].h) /\ Goto(t, "rel_clear")
     \/ /\ ~CanRelease(call[t].h) \/ GiveBackFails
        /\ Return(t, FALSE)
        /\ UNCHANGED driverVars
  /\ OnlyDriver

RelClear(t) ==
  /\ At(t, "rel_clear")
  /\ ClearHandle(call[t].h)
  /\ Return(t, TRUE)
  /\ OnlySlots

ReleaseStep(t) == RelValidate(t) \/ RelRef(t) \/ RelDriver(t) \/ RelClear(t)

-----------------------------------------------------------------------------
(* cuMemAddressFree                                                        *)

FreLookup(t) ==
  /\ At(t, "fre_lookup")
  /\ IF FindByVa(call[t].va) >= 0 THEN Goto(t, "fre_route") ELSE Return(t, FALSE)
  /\ OnlyCall

(* Faulty variant: a packed slice is freed without giving up its slot.     *)
FreRoutePacked(t) ==
  /\ At(t, "fre_route")
  /\ IF PackedSlot(call[t].va) THEN Return(t, TRUE) ELSE Goto(t, "fre_driver")
  /\ OnlyCall

FreRoute(t) ==
  /\ At(t, "fre_route")
  /\ Goto(t, IF PackedSlot(call[t].va) THEN "fre_slot" ELSE "fre_driver")
  /\ OnlyCall

FreDriver(t) ==
  /\ At(t, "fre_driver")
  /\ \/ DriverAddressFree(call[t].va, call[t].size) /\ Goto(t, "fre_slot")
     \/ /\ ~CanAddressFree(call[t].va, call[t].size) \/ GiveBackFails
        /\ Return(t, FALSE)
        /\ UNCHANGED driverVars
  /\ OnlyDriver

FreSlot(t) ==
  /\ At(t, "fre_slot")
  /\ SlotFreeByVa(call[t].va)
  /\ Return(t, TRUE)
  /\ OnlySlots

FreeStep(t) == FreLookup(t) \/ FreRoute(t) \/ FreDriver(t) \/ FreSlot(t)

-----------------------------------------------------------------------------
(* shim_driver_reset_v1, four helpers in a row.                            *)

RstFlush(t) == At(t, "rst_flush") /\ PackFlush /\ Goto(t, "rst_pack") /\ OnlyPack
(* Faulty variant: the flush is taken for the reset.                       *)
RstPackFlushes(t) == At(t, "rst_pack") /\ PackFlush /\ Goto(t, "rst_gqa") /\ OnlyPack

RstPack(t) == At(t, "rst_pack") /\ PackReset /\ Goto(t, "rst_gqa") /\ OnlyPack
RstGqa(t) == At(t, "rst_gqa") /\ GqaReset /\ Goto(t, "rst_slots") /\ OnlyBuckets
RstSlots(t) == At(t, "rst_slots") /\ ReservationClear /\ Return(t, TRUE) /\ OnlySlots

ResetStep(t) == RstFlush(t) \/ RstPack(t) \/ RstGqa(t) \/ RstSlots(t)

-----------------------------------------------------------------------------

ShimStep(t) ==
  \/ ReserveStep(t) \/ CreateStep(t) \/ MapStep(t) \/ UnmapStep(t)
  \/ ReleaseStep(t) \/ FreeStep(t) \/ ResetStep(t)

SlotsAt(va) == {i \in Used : slots[i].va = va}
SlotsBoundTo(h) == {i \in Used : slots[i].hasHandle /\ slots[i].handle = h}

(* No thread is inside a call.                                             *)
Quiet == \A t \in Thread : Idle(t)
=============================================================================
