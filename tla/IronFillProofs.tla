----------------------------- MODULE IronFillProofs -----------------------------
(***************************************************************************)
(* Proofs about the resident loop of the benches that keep every slot they *)
(* map (frag, iso and resident), over the shim and on the driver alone:    *)
(* no two slots share an address, and each is one mapping of the memory it *)
(* was given; and where all slots are one size, the leaves the bench works *)
(* out from its count are those the driver made, within the budget.        *)
(*                                                                         *)
(* The invariant follows one slot through its four calls, in three layers. *)
(* The first is about the slot table alone: the slot at hand has a slot of *)
(* the table, and all others are live slots' and bound, so every lookup    *)
(* finds the one the call means.  The second is about addresses and        *)
(* memory: the slot at hand is either a slice of the arena, charged before *)
(* anything else can be, or it gets memory and a mapping of its own, and   *)
(* the arena becomes its.  The third is about the number of leaves: all    *)
(* but the last are full, and the last is filled from its base up.         *)
(***************************************************************************)
EXTENDS IronHarnessProofs

(* The resident loop of a bench that keeps every slot it maps.             *)
Keeps == stage = "resident" /\ ~Retries /\ ~Cycling
Filling == Keeps /\ work.kind # "undo"

(* What the slot at hand is reserved with.                                 *)
NeedReq == ReserveBytes(Slot.req)

(* The plans of a slot that is mapped.                                     *)
CreatePlan == <<"create", "map", "access">>
MapPlanLeft == <<"map", "access">>
HeldPlans == {<<"access">>, << >>}

-----------------------------------------------------------------------------
(* The slot table.                                                         *)

(* A slot of the table that is a live slot's: its address, and a handle.   *)
Settled(s) == slots[s].hasHandle /\ \E i \in Live : pool[i].va = slots[s].va
AllSettled == \A s \in Used : Settled(s)

(* The reserve under way has a slot of the table, without a handle yet.    *)
SlotBegun ==
  /\ pending \in Used /\ ~slots[pending].hasHandle
  /\ \A s \in Used \ {pending} : Settled(s)

(* The slot at hand has the slot c of the table, at va.                    *)
SeatedAt(c, va, bound) ==
  /\ c \in Used /\ slots[c].va = va /\ slots[c].req = NeedReq
  /\ slots[c].hasHandle = bound
  /\ \A s \in Used \ {c} : Settled(s)
Seated(va, bound) == va # NoVa /\ \E c \in Index : SeatedAt(c, va, bound)

ReserveTable ==
  /\ Now.pc \in {"idle", "rsv_begin"} => AllSettled
  /\ Pending(Now) => SlotBegun /\ (Now.pc # "rsv_req" => slots[pending].req = NeedReq)
  /\ Granted(Now) => Seated(Now.va, FALSE)

CreateTable ==
  /\ Now.pc \in {"idle", "crt_bind"} \union AskedPc => Seated(Slot.va, FALSE)
  /\ Bound(Now) \/ Succeeded(Now, "create") => Seated(Slot.va, TRUE)
  /\ Bound(Now) => legacyVa = Slot.va
  /\ Now.pc = "crt_open" => Now.va = Slot.va

TableByPlan ==
  /\ work.kind = "none" => AllSettled
  /\ work.kind = "map" /\ work.plan = MapPlan => ReserveTable
  /\ work.kind = "map" /\ work.plan = CreatePlan => CreateTable
  /\ work.kind = "map" /\ work.plan \in {MapPlanLeft} \union HeldPlans => Seated(Slot.va, TRUE)

(* Slots are mapped in the order of the pool.                              *)
NextInPool ==
  /\ Cycling => appended = 0
  /\ Filling /\ work.kind = "map" => work.slot = appended

TableFill ==
  /\ NextInPool
  /\ Filling /\ Shimmed => BasesOK /\ AddressOK(Now) /\ TableByPlan

-----------------------------------------------------------------------------
(* What changes of the table the slots are still settled after.            *)

TableKept ==
  /\ pending' = pending
  /\ \A i \in Index : /\ slots'[i].gen = slots[i].gen /\ slots'[i].va = slots[i].va
                      /\ slots'[i].hasHandle = slots[i].hasHandle
                      /\ slots'[i].req = slots[i].req

(* The live slots, their addresses and the request at hand stay the same.  *)
PoolKept ==
  /\ Live' = Live /\ \A i \in Live : pool'[i].va = pool[i].va
  /\ NeedReq' = NeedReq

LEMMA BenchKeepsPool ==
  ASSUME UNCHANGED benchVars
  PROVE  PoolKept /\ Slot' = Slot /\ Filling' = Filling /\ Shimmed' = Shimmed
         /\ Keeps' = Keeps /\ NextInPool' = NextInPool
  BY DEF benchVars, PoolKept, Live, NeedReq, ReserveBytes, Logical, Slot, Filling, Keeps,
         Shimmed, bench, Retries, Cycling, NextInPool

LEMMA SettledSame ==
  ASSUME PoolKept, TableKept
  PROVE  /\ Used' = Used /\ AllSettled' = AllSettled /\ SlotBegun' = SlotBegun
         /\ \A va, bound : Seated(va, bound)' = Seated(va, bound)
<1>1. Used' = Used
  BY DEF Used, TableKept
<1>2. \A s \in Used : Settled(s)' = Settled(s)
  BY UsedIsIndex DEF Settled, TableKept, PoolKept
<1>3. AllSettled' = AllSettled
  BY <1>1, <1>2 DEF AllSettled
<1>4. SlotBegun' = SlotBegun
  BY <1>1, <1>2, UsedIsIndex DEF SlotBegun, TableKept
<1>5. \A c \in Index : \A va, bound : SeatedAt(c, va, bound)' = SeatedAt(c, va, bound)
  BY <1>1, <1>2, UsedIsIndex DEF SeatedAt, TableKept, PoolKept
<1>6. \A va, bound : Seated(va, bound)' = Seated(va, bound)
  BY <1>5 DEF Seated
<1> QED
  BY <1>1, <1>3, <1>4, <1>6

LEMMA WriteKeepsTable ==
  ASSUME SlotInv, NEW idx, NEW rec, WriteSlot(idx, rec),
         idx \in Used => /\ rec.gen = slots[idx].gen /\ rec.va = slots[idx].va
                         /\ rec.hasHandle = slots[idx].hasHandle
                         /\ rec.req = slots[idx].req
  PROVE  TableKept
<1>1. CASE idx \in Used
  <2>1. slots' = [slots EXCEPT ![idx] = rec] /\ idx \in Index
    BY <1>1, UsedIsIndex DEF WriteSlot
  <2> QED
    BY <1>1, <2>1 DEF TableKept, WriteSlot, SlotInv, SlotTypeOK
<1>2. CASE idx \notin Used
  BY <1>2 DEF TableKept, WriteSlot
<1> QED
  BY <1>1, <1>2

LEMMA MarksKeepTable ==
  ASSUME SlotInv,
         \/ UNCHANGED slotVars
         \/ \E va \in Nat : MarkMapped(va)
         \/ \E va \in Nat, on \in BOOLEAN : MarkPackedByVa(va, on)
         \/ \E va \in Nat, offset \in Nat : SetMapOffset(va, offset)
  PROVE  TableKept
<1>1. \A idx \in Used : slots[idx] \in SlotRecord
  BY UsedIsIndex DEF SlotInv, SlotTypeOK
<1>2. ASSUME NEW va \in Nat, MarkMapped(va)
      PROVE  TableKept
  <2> DEFINE idx == FindByVa(va)
  <2> DEFINE rec == [slots[idx] EXCEPT !.mapped = TRUE]
  <2>1. idx \in Used => /\ rec.gen = slots[idx].gen /\ rec.va = slots[idx].va
                        /\ rec.hasHandle = slots[idx].hasHandle
                        /\ rec.req = slots[idx].req
    BY <1>1 DEF SlotRecord
  <2>2. WriteSlot(idx, rec)
    BY <1>2 DEF MarkMapped
  <2> HIDE DEF idx, rec
  <2> QED
    BY <2>1, <2>2, WriteKeepsTable
<1>3. ASSUME NEW va \in Nat, NEW on \in BOOLEAN, MarkPackedByVa(va, on)
      PROVE  TableKept
  <2> DEFINE idx == FindByVa(va)
  <2> DEFINE rec == [slots[idx] EXCEPT !.packed = on]
  <2>1. idx \in Used => /\ rec.gen = slots[idx].gen /\ rec.va = slots[idx].va
                        /\ rec.hasHandle = slots[idx].hasHandle
                        /\ rec.req = slots[idx].req
    BY <1>1 DEF SlotRecord
  <2>2. WriteSlot(idx, rec)
    BY <1>3 DEF MarkPackedByVa
  <2> HIDE DEF idx, rec
  <2> QED
    BY <2>1, <2>2, WriteKeepsTable
<1>4. ASSUME NEW va \in Nat, NEW offset \in Nat, SetMapOffset(va, offset)
      PROVE  TableKept
  <2> DEFINE idx == FindByVa(va)
  <2> DEFINE rec == [slots[idx] EXCEPT !.offset = offset]
  <2>1. idx \in Used => /\ rec.gen = slots[idx].gen /\ rec.va = slots[idx].va
                        /\ rec.hasHandle = slots[idx].hasHandle
                        /\ rec.req = slots[idx].req
    BY <1>1 DEF SlotRecord
  <2>2. WriteSlot(idx, rec)
    BY <1>4 DEF SetMapOffset
  <2> HIDE DEF idx, rec
  <2> QED
    BY <2>1, <2>2, WriteKeepsTable
<1>5. CASE UNCHANGED slotVars
  BY <1>5 DEF slotVars, TableKept
<1> QED
  BY <1>2, <1>3, <1>4, <1>5

(* The slot at hand is the one a create binds to.                          *)
LEMMA SeatIsTarget ==
  ASSUME SlotInv, NEW va \in Nat, va # NoVa, NEW c \in Index, SeatedAt(c, va, FALSE)
  PROVE  CreateTarget = c /\ FindPendingCreate = c /\ FindPendingCreate >= 0
<1> DEFINE S == {i \in Used : slots[i].va # NoVa /\ ~slots[i].hasHandle}
<1>1. S = {c}
  BY DEF SeatedAt, Settled
<1>2. S \in SUBSET Index /\ FindPendingCreate = LastOf(S)
  BY UsedIsIndex DEF FindPendingCreate
<1> HIDE DEF S
<1>3. LastOf(S) \in S
  BY <1>1, <1>2, LastOfMember
<1>4. c \in Used /\ c \in Nat
  BY UsedIsIndex, IndexIsNat DEF SeatedAt
<1> QED
  BY <1>1, <1>2, <1>3, <1>4 DEF CreateTarget

(* A slot of the table is taken, and the others are settled.               *)
LEMMA BeginTable ==
  ASSUME SlotInv, AllSettled, ReserveBeginSlot, PoolKept
  PROVE  SlotBegun'
<1> DEFINE k == FindFree
<1>1. k \in Index \ Used /\ pending' = k
  BY FreeSlotIsFree DEF ReserveBeginSlot
<1>2. /\ slots' = [slots EXCEPT ![k] = [EmptySlot EXCEPT !.gen = slotGen]]
      /\ slots \in [Index -> SlotRecord] /\ slotGen # 0
  BY DEF ReserveBeginSlot, AllocSlot, SlotInv, SlotTypeOK
<1> HIDE DEF k
<1>3. /\ slots'[k].gen # 0 /\ slots'[k].hasHandle = FALSE
      /\ \A i \in Index \ {k} : slots'[i] = slots[i]
  BY <1>1, <1>2 DEF EmptySlot
<1>4. Used' = Used \union {k}
  BY <1>1, <1>3 DEF Used
<1>5. \A s \in Used : Settled(s)'
  BY <1>1, <1>3, UsedIsIndex DEF AllSettled, Settled, PoolKept
<1> QED
  BY <1>1, <1>3, <1>4, <1>5 DEF SlotBegun

LEMMA RequestNoted ==
  ASSUME SlotInv, SlotBegun, NEW req \in Nat, SetReqBytes(req), PoolKept
  PROVE  SlotBegun' /\ slots'[pending'].req = req
<1>1. pending \in Index /\ pending >= 0 /\ ReserveTarget = pending
  BY UsedIsIndex, IndexIsNat DEF SlotBegun, ReserveTarget
<1>2. /\ slots' = [slots EXCEPT ![pending] = [slots[pending] EXCEPT !.req = req]]
      /\ pending' = pending /\ slots \in [Index -> SlotRecord]
  BY <1>1 DEF SetReqBytes, WriteSlot, SlotBegun, SlotInv, SlotTypeOK
<1>3. /\ slots'[pending].gen = slots[pending].gen
      /\ slots'[pending].hasHandle = slots[pending].hasHandle
      /\ slots'[pending].req = req
      /\ \A i \in Index \ {pending} : slots'[i] = slots[i]
  BY <1>1, <1>2 DEF SlotRecord
<1>4. Used' = Used
  BY <1>1, <1>3 DEF Used
<1>5. \A s \in Used \ {pending} : Settled(s)'
  BY <1>3, UsedIsIndex DEF SlotBegun, Settled, PoolKept
<1> QED
  BY <1>2, <1>3, <1>4, <1>5 DEF SlotBegun

LEMMA CommitTable ==
  ASSUME SlotInv, SlotBegun, slots[pending].req = NeedReq,
         NEW va \in Nat, va # NoVa, NEW size \in Nat, ReservationSet(va, size), PoolKept
  PROVE  Seated(va, FALSE)'
<1>1. pending \in Index /\ pending \in Used
  BY UsedIsIndex DEF SlotBegun
<1>2. CommitPending(va, size)
  BY <1>1 DEF ReservationSet, CommitFresh, CommitLost
<1>0. PICK k \in Index : k = pending
  BY <1>1
<1>3. /\ slots' = [slots EXCEPT ![k].va = va, ![k].size = size]
      /\ slots \in [Index -> SlotRecord]
  BY <1>0, <1>2 DEF CommitPending, SlotInv, SlotTypeOK
<1>4. k \in Index /\ k \in Used /\ slots[k].req = NeedReq /\ ~slots[k].hasHandle
  BY <1>0 DEF SlotBegun
<1>5. \A s \in Used \ {k} : Settled(s)
  BY <1>0 DEF SlotBegun
<1>6. /\ slots'[k].gen = slots[k].gen /\ slots'[k].va = va
      /\ slots'[k].hasHandle = FALSE /\ slots'[k].req = slots[k].req
      /\ \A i \in Index \ {k} : slots'[i] = slots[i]
  <2>1. slots[k] \in SlotRecord
    BY <1>3, <1>4
  <2>2. slots[k].hasHandle = FALSE
    BY <1>4, <2>1 DEF SlotRecord
  <2> QED
    BY <1>3, <1>4, <2>1, <2>2 DEF SlotRecord
<1>7. Used' = Used
  BY <1>4, <1>6 DEF Used
<1>8. \A s \in Used \ {k} : Settled(s)'
  BY <1>5, <1>6, UsedIsIndex DEF Settled, PoolKept
<1>9. SeatedAt(k, va, FALSE)'
  BY <1>4, <1>6, <1>7, <1>8 DEF SeatedAt, PoolKept
<1> QED
  BY <1>4, <1>9 DEF Seated

LEMMA BindTable ==
  ASSUME SlotInv, NEW va \in Nat, Seated(va, FALSE), NEW h \in Handle, BindCreate(h), PoolKept
  PROVE  Seated(va, TRUE)' /\ legacyVa' = va
<1>1. PICK c \in Index : SeatedAt(c, va, FALSE)
  BY DEF Seated
<1>0. va # NoVa
  BY DEF Seated
<1>2. CreateTarget = c /\ c \in Used
  BY <1>0, <1>1, SeatIsTarget DEF SeatedAt
<1>3. /\ slots' = [slots EXCEPT ![c] = [slots[c] EXCEPT !.hasHandle = TRUE, !.handle = h]]
      /\ slots \in [Index -> SlotRecord] /\ legacyVa' = slots'[c].va
  BY <1>2 DEF BindCreate, WriteSlot, SyncLegacy, SlotInv, SlotTypeOK
<1>4. /\ slots'[c].gen = slots[c].gen /\ slots'[c].va = slots[c].va
      /\ slots'[c].hasHandle = TRUE /\ slots'[c].req = slots[c].req
      /\ \A i \in Index \ {c} : slots'[i] = slots[i]
  BY <1>1, <1>3 DEF SlotRecord
<1>5. Used' = Used
  BY <1>1, <1>4 DEF Used
<1>6. \A s \in Used \ {c} : Settled(s)'
  BY <1>1, <1>4, UsedIsIndex DEF SeatedAt, Settled, PoolKept
<1>7. SeatedAt(c, va, TRUE)'
  BY <1>1, <1>4, <1>5, <1>6 DEF SeatedAt, PoolKept
<1> QED
  BY <1>0, <1>1, <1>3, <1>4, <1>7 DEF Seated, SeatedAt

-----------------------------------------------------------------------------
(* The table while a call for the slot at hand is under way.               *)

LEMMA FillCall ==
  ASSUME ControlInv, Keeps, InCall
  PROVE  /\ ShimInv /\ CallsOK /\ SlotInv /\ PackInv /\ ShimInv'
         /\ Now \in CallRecord /\ StageOK(Now) /\ Now' \in CallRecord /\ StageOK(Now')
         /\ Now.pc # "idle" /\ Now.pc # "done" /\ Now.op = Head(work.plan)
         /\ Now'.op = Now.op /\ Now'.size = Now.size
         /\ CallFits /\ work.plan # << >> /\ Shimmed
         /\ PoolKept /\ Slot' = Slot /\ work' = work /\ Filling' = Filling
         /\ Keeps' = Keeps /\ Shimmed' = Shimmed /\ NextInPool' = NextInPool
         /\ ShimStep(Main) /\ UNCHANGED benchVars
<1> USE OneThread
<1>1. /\ ShimInv /\ CallsOK /\ SlotInv /\ PackInv /\ CallPlanned /\ stage # "reset"
      /\ ShimStep(Main) /\ UNCHANGED benchVars /\ work.plan # << >>
  BY DEF ControlInv, ShimInv, StateOK, Keeps, InCall, Busy
<1>2. /\ ShimInv' /\ CallMoves(Main) /\ Now.pc # "idle" /\ Now.pc # "done"
  BY <1>1, ShimStepKeeps DEF Now
<1>3. /\ Now \in CallRecord /\ StageOK(Now) /\ Now' \in CallRecord /\ StageOK(Now')
      /\ Now'.op = Now.op /\ Now'.size = Now.size
  BY <1>1, <1>2 DEF CallsOK, CallMoves, Now
<1>4. Now.op = Head(work.plan) /\ CallFits /\ Shimmed
  BY <1>1, <1>2 DEF CallPlanned
<1>5. work' = work
  BY <1>1 DEF benchVars
<1> QED
  BY <1>1, <1>2, <1>3, <1>4, <1>5, BenchKeepsPool

(* The plans of a slot that is mapped, and the call each begins with.      *)
LEMMA FillPlans ==
  /\ MapPlans = {MapPlan, CreatePlan, MapPlanLeft} \union HeldPlans
  /\ MapPlan \notin {CreatePlan, MapPlanLeft} \union HeldPlans
  /\ CreatePlan \notin {MapPlanLeft} \union HeldPlans /\ MapPlanLeft \notin HeldPlans
  /\ MapPlan # << >> /\ CreatePlan # << >> /\ MapPlanLeft # << >>
  /\ Head(MapPlan) = "reserve" /\ Head(CreatePlan) = "create" /\ Head(MapPlanLeft) = "map"
  /\ Tail(MapPlan) = CreatePlan /\ Tail(CreatePlan) = MapPlanLeft
  /\ Tail(MapPlanLeft) = <<"access">> /\ Head(<<"access">>) = "access"
  /\ Tail(<<"access">>) = << >> /\ <<"access">> \in HeldPlans /\ << >> \in HeldPlans
<1>1. /\ Head(MapPlan) = "reserve" /\ Head(CreatePlan) = "create" /\ Head(MapPlanLeft) = "map"
      /\ Head(<<"access">>) = "access"
  BY DEF MapPlan, CreatePlan, MapPlanLeft
<1>2. /\ Tail(MapPlan) = CreatePlan /\ Tail(CreatePlan) = MapPlanLeft
      /\ Tail(MapPlanLeft) = <<"access">> /\ Tail(<<"access">>) = << >>
  BY DEF MapPlan, CreatePlan, MapPlanLeft
<1>3. MapPlans = {MapPlan, CreatePlan, MapPlanLeft} \union HeldPlans
  BY DEF MapPlans, HeldPlans, MapPlan, CreatePlan, MapPlanLeft
<1>4. /\ MapPlan # CreatePlan /\ MapPlan # MapPlanLeft /\ MapPlan # <<"access">>
      /\ CreatePlan # MapPlanLeft /\ CreatePlan # <<"access">>
      /\ MapPlanLeft # <<"access">>
  BY <1>1, Zenon
<1>5. MapPlan # << >> /\ CreatePlan # << >> /\ MapPlanLeft # << >>
  BY DEF MapPlan, CreatePlan, MapPlanLeft
<1>6. /\ MapPlan \notin {CreatePlan, MapPlanLeft} \union HeldPlans
      /\ CreatePlan \notin {MapPlanLeft} \union HeldPlans /\ MapPlanLeft \notin HeldPlans
      /\ <<"access">> \in HeldPlans /\ << >> \in HeldPlans
  BY <1>4, <1>5 DEF HeldPlans
<1> QED
  BY <1>1, <1>2, <1>3, <1>5, <1>6

(* The pending slot is written, committed or given up; other steps of a    *)
(* reserve leave the table alone.                                          *)
LEMMA ReserveKeepsTable ==
  ASSUME ShimInv, ReserveStep(Main), Now.pc # "rsv_begin", Now.pc # "rsv_req",
         Now.pc # "rsv_commit", Now.pc # "rsv_dcommit", Now.pc # "rsv_rollback"
  PROVE  TableKept /\ QuietCall(Main)
<1> USE OneThread
<1>1. SlotInv /\ CallsOK /\ Now.va \in Nat /\ Now.off \in Nat
  BY AtStep DEF ShimInv, StateOK, Now
<1>2. /\ ~RsvBegin(Main) /\ ~RsvReq(Main) /\ ~RsvCommit(Main) /\ ~RsvDriverCommit(Main)
      /\ ~RsvRollback(Main)
  BY DEF RsvBegin, RsvReq, RsvCommit, RsvDriverCommit, RsvRollback, At, Now
<1>3. QuietCall(Main)
  BY <1>2, ReserveSlotSteps, ReserveCallSteps, ReservePackSteps, ReserveBucketSteps
  DEF ReserveStep, Bookkeeping
<1>4. ASSUME RsvMark(Main) \/ RsvSetOff(Main)
      PROVE  TableKept
  <2>1. \/ MarkPackedByVa(Now.va, TRUE)
        \/ SetMapOffset(Now.va, Now.off)
    BY <1>4 DEF RsvMark, RsvSetOff, Now
  <2> QED
    BY <1>1, <2>1, MarksKeepTable
<1>5. ASSUME ~RsvMark(Main), ~RsvSetOff(Main)
      PROVE  TableKept
  <2>1. UNCHANGED slotVars
    BY <1>2, <1>5
    DEF ReserveStep, RsvAlias, RsvNoAlias, RsvFlush, RsvTry, RsvMega, RsvOff, RsvLeafOff,
        RsvRegister, RsvDriver, RsvDriverRegister, RsvWindow, OnlyBuckets, OnlyCall,
        OnlyPack, OnlyDriver, shimVars
  <2> QED
    BY <1>1, <2>1, MarksKeepTable
<1> QED
  BY <1>3, <1>4, <1>5

LEMMA ReserveFillsTable ==
  ASSUME ControlInv, Keeps, InCall, work.plan = MapPlan, ReserveTable, AddressOK(Now)
  PROVE  ReserveTable'
<1> USE OneThread
<1>1. /\ ShimInv /\ CallsOK /\ SlotInv /\ Now \in CallRecord /\ StageOK(Now)
      /\ Now' \in CallRecord /\ StageOK(Now') /\ Now.op = "reserve" /\ Now'.op = "reserve"
      /\ Now.size = NeedReq /\ PoolKept /\ ReserveStep(Main)
      /\ Now.va \in Nat /\ Now.size \in Nat /\ Now.sz \in Nat
  <2>1. /\ ShimInv /\ CallsOK /\ SlotInv /\ Now \in CallRecord /\ StageOK(Now)
        /\ Now' \in CallRecord /\ StageOK(Now') /\ Now.op = "reserve" /\ Now'.op = "reserve"
        /\ PoolKept /\ CallFits /\ ShimStep(Main)
    BY FillCall, FillPlans
  <2>2. ReserveStep(Main)
    BY <2>1, StepOfOp DEF Now
  <2> QED
    BY <2>1, <2>2 DEF CallFits, NeedReq, CallRecord
<1>2. Now'.pc # "idle"
  BY <1>1, PcsApart DEF StageOK, ReservePc, PendingPc, GrantedPc
<1>3. \A q : Goto(Main, q) => Now'.pc = q /\ Now'.va = Now.va
  BY <1>1 DEF Goto, Now, CallsOK, CallRecord
<1>4. \A ok : Return(Main, ok) => Now'.pc = "done" /\ Now'.va = Now.va /\ Now'.ok = ok
  BY <1>1 DEF Return, Now, CallsOK, CallRecord
<1>5. CASE Now.pc = "rsv_begin"
  <2>1. RsvBegin(Main)
    BY <1>1, <1>5 DEF ReserveStep, RsvReq, RsvAlias, RsvNoAlias, RsvFlush, RsvTry,
       RsvMega, RsvCommit, RsvMark, RsvOff, RsvSetOff, RsvLeafOff, RsvRegister, RsvDriver,
       RsvRollback, RsvDriverCommit, RsvDriverRegister, RsvWindow, At, Now
  <2>2. CASE ReserveBeginSlot /\ Goto(Main, "rsv_req")
    <3>1. SlotBegun'
      BY <1>1, <1>5, <2>2, BeginTable DEF ReserveTable
    <3>2. Now'.pc = "rsv_req"
      BY <1>3, <2>2
    <3> QED
      BY <3>1, <3>2, PcsApart DEF ReserveTable, Granted, Succeeded, GrantedPc
  <2>3. CASE Return(Main, FALSE)
    <3>1. Now'.pc = "done" /\ ~Now'.ok
      BY <1>4, <2>3
    <3> QED
      BY <3>1 DEF ReserveTable, Pending, PendingPc, Granted, GrantedPc, Succeeded
  <2> QED
    BY <2>1, <2>2, <2>3 DEF RsvBegin
<1>6. CASE Now.pc = "rsv_req"
  <2>1. RsvReq(Main)
    BY <1>1, <1>6 DEF ReserveStep, RsvBegin, RsvAlias, RsvNoAlias, RsvFlush, RsvTry,
       RsvMega, RsvCommit, RsvMark, RsvOff, RsvSetOff, RsvLeafOff, RsvRegister, RsvDriver,
       RsvRollback, RsvDriverCommit, RsvDriverRegister, RsvWindow, At, Now
  <2>2. SetReqBytes(Now.size) /\ Now'.pc = "rsv_gqa"
    BY <1>3, <2>1 DEF RsvReq, Now
  <2>3. SlotBegun
    BY <1>6 DEF ReserveTable, Pending, PendingPc
  <2>4. SlotBegun' /\ slots'[pending'].req = Now.size
    BY <1>1, <2>2, <2>3, RequestNoted
  <2>5. slots'[pending'].req = NeedReq'
    BY <1>1, <2>4 DEF PoolKept
  <2> QED
    BY <2>2, <2>4, <2>5 DEF ReserveTable, Pending, PendingPc, Granted, GrantedPc, Succeeded
<1>7. CASE Now.pc \in {"rsv_commit", "rsv_dcommit"}
  <2>1. RsvCommit(Main) \/ RsvDriverCommit(Main)
    BY <1>1, <1>7 DEF ReserveStep, RsvBegin, RsvReq, RsvAlias, RsvNoAlias, RsvFlush, RsvTry,
       RsvMega, RsvMark, RsvOff, RsvSetOff, RsvLeafOff, RsvRegister, RsvDriver,
       RsvRollback, RsvDriverRegister, RsvWindow, At, Now
  <2>2. ReservationSet(Now.va, Now.sz)
    BY <2>1 DEF RsvCommit, RsvDriverCommit, Now
  <2>3. SlotBegun /\ slots[pending].req = NeedReq /\ Now.va # NoVa
    BY <1>7 DEF ReserveTable, Pending, PendingPc, AddressOK
  <2>4. Seated(Now.va, FALSE)'
    <3>1. PICK va \in Nat : va = Now.va
      BY <1>1
    <3>2. Seated(va, FALSE)'
      BY <1>1, <2>2, <2>3, <3>1, CommitTable
    <3>3. Now'.va = Now.va
      BY <1>3, <1>4, <2>1 DEF RsvCommit, RsvDriverCommit, AfterDriverCommit
    <3> QED
      BY <3>1, <3>2, <3>3
  <2>5. ~Pending(Now)' /\ Now'.pc # "rsv_begin"
    <3>1. Now'.pc \in {"rsv_mark", "rsv_dregister", "rsv_window", "done"}
      BY <1>3, <1>4, <2>1 DEF RsvCommit, RsvDriverCommit, AfterDriverCommit
    <3> QED
      BY <3>1 DEF Pending, PendingPc
  <2> QED
    BY <1>2, <2>4, <2>5 DEF ReserveTable
<1>8. CASE Now.pc = "rsv_rollback"
  <2>1. RsvRollback(Main)
    BY <1>1, <1>8 DEF ReserveStep, RsvBegin, RsvReq, RsvAlias, RsvNoAlias, RsvFlush, RsvTry,
       RsvMega, RsvCommit, RsvMark, RsvOff, RsvSetOff, RsvLeafOff, RsvRegister, RsvDriver,
       RsvDriverCommit, RsvDriverRegister, RsvWindow, At, Now
  <2>2. Now'.pc = "done" /\ ~Now'.ok
    BY <1>4, <2>1 DEF RsvRollback
  <2> QED
    BY <2>2 DEF ReserveTable, Pending, PendingPc, Granted, GrantedPc, Succeeded
<1>9. CASE Now.pc \notin {"rsv_begin", "rsv_req", "rsv_commit", "rsv_dcommit", "rsv_rollback"}
  <2>1. TableKept /\ QuietCall(Main)
    BY <1>1, <1>9, ReserveKeepsTable
  <2>2. SamePhase(Now, Now')
    BY <2>1 DEF QuietCall, Now
  <2>7. Now'.pc # "rsv_begin"
    <3>1. Pending(Now) \/ Now.pc \in GrantedPc
      BY <1>1, <1>9, FillCall DEF StageOK, ReservePc, Pending
    <3>2. Pending(Now)' \/ Granted(Now)'
      BY <2>2, <3>1 DEF SamePhase, Pending, Granted
    <3> QED
      BY <3>2, PcsApart DEF Pending, Granted, Succeeded
  <2>3. SlotBegun' = SlotBegun /\ \A va, bound : Seated(va, bound)' = Seated(va, bound)
    BY <1>1, <2>1, SettledSame
  <2>4. pending' = pending /\ (pending \in Index => slots'[pending].req = slots[pending].req)
    BY <2>1 DEF TableKept
  <2>5. Pending(Now)' => SlotBegun' /\ slots'[pending'].req = NeedReq'
    <3>1. Pending(Now)' => Pending(Now)
      BY <2>2 DEF SamePhase, Pending
    <3> QED
      BY <1>1, <1>9, <2>3, <2>4, <3>1, UsedIsIndex DEF ReserveTable, SlotBegun, PoolKept
  <2>6. Granted(Now)' => Seated(Now.va, FALSE)'
    <3>1. Granted(Now)' => Granted(Now) /\ Now'.va = Now.va
      BY <2>2 DEF SamePhase, Granted, Succeeded
    <3>2. PICK va \in Nat : va = Now.va
      BY <1>1
    <3>3. Granted(Now)' => Seated(va, FALSE)'
      BY <2>3, <3>1, <3>2 DEF ReserveTable
    <3> QED
      BY <3>1, <3>2, <3>3
  <2> QED
    BY <1>2, <2>5, <2>6, <2>7 DEF ReserveTable
<1> QED
  BY <1>5, <1>6, <1>7, <1>8, <1>9

LEMMA CreateFillsTable ==
  ASSUME ControlInv, Keeps, InCall, work.plan = CreatePlan, CreateTable
  PROVE  CreateTable'
<1> USE OneThread
<1>1. /\ ShimInv /\ CallsOK /\ SlotInv /\ Now \in CallRecord /\ StageOK(Now)
      /\ Now.op = "create" /\ Now'.op = "create" /\ PoolKept /\ CreateStep(Main)
      /\ Slot' = Slot /\ Slot.va \in Nat /\ Now.h \in Handle
  <2>1. /\ ShimInv /\ CallsOK /\ SlotInv /\ Now \in CallRecord /\ StageOK(Now)
        /\ Now.op = "create" /\ Now'.op = "create"
        /\ PoolKept /\ Slot' = Slot /\ ShimStep(Main)
    BY FillCall, FillPlans
  <2>2. CreateStep(Main)
    BY <2>1, StepOfOp DEF Now
  <2>3. Slot.va \in Nat
    BY DEF ControlInv, PoolOK, WorkRecord, PoolSlot, Slot
  <2> QED
    BY <2>1, <2>2, <2>3 DEF CallRecord
<1>2. \A q : Goto(Main, q) => Now'.pc = q /\ Now'.va = Now.va
  BY <1>1 DEF Goto, Now, CallsOK, CallRecord
<1>3. \A ok : Return(Main, ok) => Now'.pc = "done" /\ Now'.va = Now.va /\ Now'.ok = ok
  BY <1>1 DEF Return, Now, CallsOK, CallRecord
<1>0. PICK va \in Nat : va = Slot.va /\ va = Slot'.va
  BY <1>1
<1>4. ASSUME UNCHANGED slotVars
      PROVE  Seated(va, TRUE)' = Seated(va, TRUE) /\ Seated(va, FALSE)' = Seated(va, FALSE)
  <2>1. TableKept
    BY <1>1, <1>4, MarksKeepTable
  <2> QED
    BY <1>1, <2>1, SettledSame
<1>5. CASE CrtShare(Main) \/ CrtBind(Main)
  <2>1. Now.pc \in {"crt_share", "crt_bind"} /\ BindCreate(Now.h)
    BY <1>5 DEF CrtShare, CrtBind, At, Now
  <2>2. Seated(va, FALSE)
    BY <1>0, <2>1 DEF CreateTable, AskedPc
  <2>3. Seated(va, TRUE)' /\ legacyVa' = va
    BY <1>1, <2>1, <2>2, BindTable
  <2>4. Now'.pc \in {"done", "crt_snapshot"}
    BY <1>2, <1>3, <1>5 DEF CrtShare, CrtBind
  <2> QED
    BY <1>0, <2>3, <2>4 DEF CreateTable, AskedPc
<1>6. CASE CrtPacked(Main) \/ CrtRetain(Main) \/ CrtValidate(Main) \/ CrtDriver(Main)
  <2>1. Now.pc \in AskedPc /\ UNCHANGED slotVars
    BY <1>6 DEF CrtPacked, CrtRetain, CrtValidate, CrtDriver, At, Now, AskedPc,
       OnlyCall, OnlyPack, OnlyDriver, shimVars
  <2>2. Seated(va, FALSE)'
    BY <1>0, <1>4, <2>1 DEF CreateTable
  <2>3. Now'.pc \in AskedPc \union {"crt_bind"} \/ (Now'.pc = "done" /\ ~Now'.ok)
    <3>1. CASE CrtPacked(Main)
      <4>1. CASE SharesHandle
        BY <1>1, <3>1, <4>1 DEF CrtPacked, Now, CallsOK, CallRecord, AskedPc
      <4>2. CASE ~SharesHandle
        BY <1>2, <3>1, <4>2 DEF CrtPacked, AskedPc
      <4> QED
        BY <4>1, <4>2
    <3>3. CASE CrtDriver(Main)
      <4>1. CASE Return(Main, FALSE)
        BY <1>3, <4>1
      <4>2. CASE \E h \in FreshHandles : call' = [call EXCEPT ![Main].pc = "crt_bind",
                                                            ![Main].h = h]
        BY <1>1, <4>2 DEF Now, CallsOK
      <4> QED
        BY <3>3, <4>1, <4>2 DEF CrtDriver
    <3>2. CASE CrtRetain(Main) \/ CrtValidate(Main)
      BY <1>2, <1>3, <3>2 DEF CrtRetain, CrtValidate, AskedPc
    <3> QED
      BY <1>6, <3>1, <3>2, <3>3
  <2>4. ~Bound(Now)' /\ ~Succeeded(Now, "create")' /\ Now'.pc # "crt_open"
    BY <2>3 DEF Bound, BoundPc, Succeeded, AskedPc
  <2> QED
    BY <1>0, <2>2, <2>4 DEF CreateTable
<1>7. CASE CrtSnapshot(Main)
  <2>1. Now.pc = "crt_snapshot" /\ UNCHANGED slotVars
    BY <1>7 DEF CrtSnapshot, At, Now, OnlyCall, shimVars
  <2>2. Seated(va, TRUE)' /\ legacyVa = va /\ legacyVa' = va /\ va # NoVa
    BY <1>0, <1>4, <2>1 DEF CreateTable, Bound, BoundPc, Seated, slotVars
  <2>3. Now'.pc = "crt_open" /\ Now'.va = va
    BY <1>1, <1>7, <2>2 DEF CrtSnapshot, Now, CallsOK, CallRecord
  <2> QED
    BY <1>0, <2>2, <2>3 DEF CreateTable, AskedPc
<1>8. CASE CrtOpen(Main)
  <2>1. Now.pc = "crt_open" /\ UNCHANGED slotVars /\ Return(Main, TRUE)
    BY <1>8 DEF CrtOpen, At, Now, OnlyPack
  <2>2. Seated(va, TRUE)' /\ Now'.pc = "done"
    BY <1>0, <1>3, <1>4, <2>1 DEF CreateTable, Bound, BoundPc
  <2> QED
    BY <1>0, <2>2 DEF CreateTable, AskedPc, Bound, BoundPc
<1> QED
  BY <1>1, <1>5, <1>6, <1>7, <1>8 DEF CreateStep

LEMMA MapKeepsTable ==
  ASSUME ShimInv, MapStep(Main)
  PROVE  TableKept
<1> USE OneThread
<1>1. SlotInv /\ CallsOK /\ Now.va \in Nat
  BY AtStep DEF ShimInv, StateOK, Now
<1>2. ASSUME MapPacked(Main) \/ MapMark(Main)
      PROVE  TableKept
  <2>1. MarkMapped(Now.va)
    BY <1>2 DEF MapPacked, MapMark, Now
  <2> QED
    BY <1>1, <2>1, MarksKeepTable
<1>3. ASSUME ~MapPacked(Main), ~MapMark(Main)
      PROVE  TableKept
  <2>1. UNCHANGED slotVars
    BY <1>3
    DEF MapStep, MapValidate, MapRoute, MapOff, MapDriver, MapUsage, MapActive, MapReq, MapBump,
        OnlyCall, OnlyPack, OnlyDriver, shimVars
  <2> QED
    BY <1>1, <2>1, MarksKeepTable
<1> QED
  BY <1>2, <1>3

(* Every create asks for memory where the slot at hand is, and the arena   *)
(* is opened there.                                                        *)
LEMMA SeatIsTargetOK ==
  ASSUME SlotInv, StageOK(Now), Slot.va \in Nat,
         Now.op = "create" => CreateTable
  PROVE  TargetOK(Now)
<1>1. CASE Now.op = "create"
  <2>0. PICK va \in Nat : va = Slot.va
    OBVIOUS
  <2>1. ASSUME Now.pc \in {"crt_driver", "crt_bind"}
        PROVE  FindPendingCreate >= 0
    <3>1. Seated(va, FALSE)
      BY <1>1, <2>0, <2>1 DEF CreateTable, AskedPc
    <3>2. va # NoVa /\ \E c \in Index : SeatedAt(c, va, FALSE)
      BY <3>1 DEF Seated
    <3> QED
      BY <3>2, SeatIsTarget
  <2>2. ASSUME Now.pc \in BoundPc
        PROVE  legacyVa # NoVa /\ legacyVa = Slot.va
    BY <1>1, <2>2 DEF CreateTable, Bound, Seated
  <2> QED
    BY <1>1, <2>1, <2>2 DEF TargetOK, BoundPc, CreateTable
<1>2. CASE Now.op # "create"
  BY <1>2, OpOfPc DEF TargetOK, CreatePc, AskedPc, BoundPc
<1> QED
  BY <1>1, <1>2

(* The slot at hand of a resident loop is being mapped.                    *)
LEMMA FillsAPlan ==
  ASSUME PoolOK, KindOK, Filling, work.kind # "none"
  PROVE  work.kind = "map" /\ work.plan \in {MapPlan, CreatePlan, MapPlanLeft} \union HeldPlans
         /\ Slot \in PoolSlot /\ work.slot \in PoolIndex
<1>1. work.kind = "map" /\ work.plan \in MapPlans
  BY DEF PoolOK, KindOK, WorkRecord, Filling, Keeps
<1> QED
  BY <1>1, FillPlans DEF PoolOK, WorkRecord, Slot

LEMMA TableInCall ==
  ASSUME ControlInv, TableFill, InCall
  PROVE  TableFill'
<1> USE OneThread
<1>1. CASE ~(Filling /\ Shimmed)
  BY <1>1, BenchKeepsPool DEF TableFill, InCall
<1>2. CASE Filling /\ Shimmed
  <2>1. Keeps /\ BasesOK /\ AddressOK(Now) /\ TableByPlan /\ NextInPool /\ PoolOK /\ KindOK
    BY <1>2 DEF Filling, TableFill, ControlInv
  <2>2. /\ ShimInv /\ CallsOK /\ SlotInv /\ StageOK(Now) /\ StageOK(Now)'
        /\ Now.pc # "idle" /\ Now.pc # "done" /\ Now.op = Head(work.plan)
        /\ Now'.op = Now.op /\ work.plan # << >> /\ PoolKept /\ Slot' = Slot
        /\ work' = work /\ NextInPool' = NextInPool /\ ShimStep(Main)
    BY <2>1, FillCall
  <2>3. work.kind = "map" /\ Slot \in PoolSlot /\ Slot.va \in Nat
        /\ work.plan \in {MapPlan, CreatePlan, MapPlanLeft} \union HeldPlans
    <3>1. work.kind # "none"
      BY <2>1, <2>2 DEF KindOK
    <3> QED
      BY <1>2, <2>1, <3>1, FillsAPlan DEF PoolSlot
  <2>4. work.plan \in {MapPlan, CreatePlan, MapPlanLeft}
    <3>1. Head(work.plan) # "access"
      BY <1>2, <2>1, <2>2 DEF ControlInv, CallPlanned, Keeps
    <3> QED
      BY <2>2, <2>3, <3>1, FillPlans DEF HeldPlans
  <2>5. Now.op = "create" => CreateTable
    BY <2>1, <2>2, <2>3, <2>4, FillPlans DEF TableByPlan
  <2>6. BasesOK'
    <3>1. TargetOK(Now)
      BY <2>2, <2>3, <2>5, SeatIsTargetOK
    <3>2. Now.op # "reset"
      BY <2>2, <2>4, FillPlans
    <3> QED
      BY <2>1, <2>2, <3>1, <3>2, BasesInCall DEF Now
  <2>7. AddressOK(Now)'
    <3>1. CASE Now.op = "reserve"
      BY <2>1, <2>2, <3>1, StepOfOp, AddressesInReserve DEF Now
    <3>2. CASE Now.op # "reserve"
      BY <2>2, <3>2, GrantedOnlyInReserves
    <3> QED
      BY <3>1, <3>2
  <2>8. TableByPlan'
    <3>1. CASE work.plan = MapPlan
      <4>1. ReserveTable'
        BY <2>1, <2>3, <3>1, ReserveFillsTable DEF TableByPlan
      <4> QED
        BY <2>2, <2>3, <3>1, <4>1, FillPlans DEF TableByPlan
    <3>2. CASE work.plan = CreatePlan
      <4>1. CreateTable'
        BY <2>1, <2>3, <3>2, CreateFillsTable DEF TableByPlan
      <4> QED
        BY <2>2, <2>3, <3>2, <4>1, FillPlans DEF TableByPlan
    <3>3. CASE work.plan = MapPlanLeft
      <4>1. MapStep(Main)
        BY <2>2, <3>3, StepOfOp, FillPlans DEF Now
      <4>2. TableKept
        BY <2>2, <4>1, MapKeepsTable
      <4>3. PICK va \in Nat : va = Slot.va /\ va = Slot'.va
        BY <2>2, <2>3
      <4>4. Seated(va, TRUE)' = Seated(va, TRUE)
        BY <2>2, <4>2, SettledSame
      <4>5. Seated(Slot.va, TRUE)'
        BY <2>1, <2>3, <3>3, <4>3, <4>4 DEF TableByPlan
      <4> QED
        BY <2>2, <2>3, <3>3, <4>5, FillPlans DEF TableByPlan
    <3> QED
      BY <2>4, <3>1, <3>2, <3>3
  <2> QED
    BY <2>1, <2>2, <2>6, <2>7, <2>8 DEF TableFill
<1> QED
  BY <1>1, <1>2

-----------------------------------------------------------------------------
(* The table between the calls.                                            *)

LEMMA TableLeft ==
  ASSUME ~Filling', (Cycling => appended = 0)'
  PROVE  TableFill'
  BY DEF TableFill, NextInPool

LEMMA TableSame ==
  ASSUME UNCHANGED shimVars, PoolKept
  PROVE  /\ AllSettled' = AllSettled /\ BasesOK' = BasesOK
         /\ \A va, bound : Seated(va, bound)' = Seated(va, bound)
<1>1. TableKept
  BY DEF shimVars, slotVars, TableKept
<1>2. BasesOK' = BasesOK
  BY DEF shimVars, packVars, BasesOK
<1> QED
  BY <1>1, <1>2, SettledSame

LEMMA TableStarts == BenchInit => TableFill
<1> SUFFICES ASSUME BenchInit
             PROVE  TableFill
  OBVIOUS
<1>1. /\ Pristine /\ work.kind = "none" /\ appended = 0 /\ Now = IdleCall
  BY PristineStart, OneThread DEF BenchInit, NoWork, ShimInit, Now
<1>2. NextInPool
  BY <1>1 DEF NextInPool
<1>3. BasesOK
  BY <1>1 DEF Pristine, PackBlank, BasesOK, NoArena
<1>4. AddressOK(Now)
  BY <1>1 DEF AddressOK, IdleCall, Granted, GrantedPc, Succeeded
<1>5. TableByPlan
  BY <1>1 DEF TableByPlan, AllSettled, Pristine, TableBlank
<1> QED
  BY <1>2, <1>3, <1>4, <1>5 DEF TableFill

LEMMA TableAtStart ==
  ASSUME ControlInv, TableFill, StartCall
  PROVE  TableFill'
<1>1. /\ UNCHANGED shimVars /\ UNCHANGED benchVars /\ Now.pc = "idle" /\ Busy
      /\ Now'.op = Head(work.plan) /\ PoolOK /\ KindOK /\ ControlInv'
      /\ Now'.pc = CASE Now'.op = "reserve" -> "rsv_begin"
                        [] Now'.op = "create"  -> "crt_packed"
                        [] Now'.op = "map"     -> "map_validate"
                        [] Now'.op = "unmap"   -> "unm_validate"
                        [] Now'.op = "release" -> "rel_validate"
                        [] Now'.op = "free"    -> "fre_lookup"
  BY StartKeeps DEF ControlInv, StartCall, Idle, Now
<1>2. /\ PoolKept /\ Slot' = Slot /\ Filling' = Filling /\ Shimmed' = Shimmed
      /\ NextInPool' = NextInPool /\ work' = work
  BY <1>1, BenchKeepsPool DEF benchVars
<1>3. CASE ~(Filling /\ Shimmed)
  BY <1>2, <1>3 DEF TableFill
<1>4. CASE Filling /\ Shimmed
  <2>1. BasesOK /\ TableByPlan /\ NextInPool
    BY <1>4 DEF TableFill
  <2>2. work.kind = "map" /\ work.plan \in {MapPlan, CreatePlan, MapPlanLeft} \union HeldPlans
    <3>1. work.kind # "none"
      BY <1>1 DEF KindOK, Busy
    <3> QED
      BY <1>1, <1>4, <3>1, FillsAPlan
  <2>3. AllSettled' = AllSettled /\ BasesOK' = BasesOK
    BY <1>1, <1>2, TableSame
  <2>4. PICK va \in Nat : va = Slot.va /\ va = Slot'.va
    BY <1>1, <1>2 DEF PoolOK, WorkRecord, PoolSlot, Slot
  <2>5. Seated(va, TRUE)' = Seated(va, TRUE) /\ Seated(va, FALSE)' = Seated(va, FALSE)
    BY <1>1, <1>2, TableSame
  <2>6. AddressOK(Now)'
    <3>1. StageOK(Now')
      BY <1>1, OneThread DEF ControlInv, ShimInv, CallsOK, Now
    <3>2. CASE Now'.op = "reserve"
      BY <1>1, <3>2 DEF AddressOK, Granted, GrantedPc, Succeeded
    <3>3. CASE Now'.op # "reserve"
      BY <3>1, <3>3, GrantedOnlyInReserves
    <3> QED
      BY <3>2, <3>3
  <2>7. CASE work.plan = MapPlan
    <3>1. Now'.pc = "rsv_begin"
      BY <1>1, <2>7, FillPlans
    <3>2. AllSettled
      BY <1>1, <2>1, <2>2, <2>7 DEF TableByPlan, ReserveTable
    <3>3. ReserveTable'
      BY <2>3, <3>1, <3>2, PcsApart DEF ReserveTable, Pending, Granted, Succeeded
    <3> QED
      BY <1>2, <2>1, <2>2, <2>3, <2>6, <2>7, <3>3, FillPlans DEF TableFill, TableByPlan
  <2>8. CASE work.plan = CreatePlan
    <3>1. Now'.pc = "crt_packed"
      BY <1>1, <2>8, FillPlans
    <3>2. Seated(va, FALSE)
      BY <1>1, <2>1, <2>2, <2>4, <2>8, FillPlans DEF TableByPlan, CreateTable
    <3>3. CreateTable'
      BY <2>4, <2>5, <3>1, <3>2, PcsApart DEF CreateTable, Bound, BoundPc, Succeeded
    <3> QED
      BY <1>2, <2>1, <2>2, <2>3, <2>6, <2>8, <3>3, FillPlans DEF TableFill, TableByPlan
  <2>9. CASE work.plan \in {MapPlanLeft} \union HeldPlans
    <3>1. Seated(va, TRUE)
      BY <2>1, <2>2, <2>4, <2>9 DEF TableByPlan
    <3>2. Seated(Slot.va, TRUE)'
      BY <2>4, <2>5, <3>1
    <3> QED
      BY <1>2, <2>1, <2>2, <2>3, <2>6, <2>9, <3>2, FillPlans DEF TableFill, TableByPlan
  <2> QED
    BY <2>2, <2>7, <2>8, <2>9
<1> QED
  BY <1>3, <1>4

(* What the bench notes of a call that succeeded.                          *)
LEMMA FinishNotes ==
  ASSUME ControlInv, NextInPool, FinishCall, Filling
  PROVE  /\ PoolKept /\ Slot'.req = Slot.req /\ work'.slot = work.slot
         /\ Slot'.va = (IF Now.ok /\ Now.op = "reserve" THEN Now.va ELSE Slot.va)
         /\ Slot'.h = (IF Now.ok /\ Now.op = "create" THEN Now.h ELSE Slot.h)
         /\ Shimmed' = Shimmed /\ Keeps' = Keeps
         /\ work.kind = "map" /\ work.slot = appended /\ work.slot \in PoolIndex
         /\ pool' \in [PoolIndex -> PoolSlot] /\ \A i \in Live : pool'[i] = pool[i]
         /\ IF Now.ok THEN work'.kind = "map" /\ work'.plan = Tail(work.plan)
                      ELSE work'.kind = "undo"
<1> USE OneThread
<1>1. /\ PoolOK /\ KindOK /\ Busy /\ Advance(Now.ok) /\ Now \in CallRecord
      /\ UNCHANGED <<setup, appended, stage>>
      /\ pool' = IF ~Now.ok THEN pool
                 ELSE CASE Now.op = "reserve" -> [pool EXCEPT ![work.slot].va = Now.va]
                        [] Now.op = "create" -> [pool EXCEPT ![work.slot].h = Now.h]
                        [] OTHER -> pool
      /\ pool' \in [PoolIndex -> PoolSlot]
  BY FinishKeeps DEF ControlInv, PoolOK, ShimInv, CallsOK, FinishCall, Now
<1>2. work.kind = "map" /\ work.slot = appended /\ work.slot \in PoolIndex
  <2>1. work.kind # "none"
    BY <1>1 DEF KindOK, Busy
  <2> QED
    BY <1>1, <2>1, FillsAPlan DEF NextInPool
<1>3. /\ IF Now.ok THEN work'.kind = "map" /\ work'.plan = Tail(work.plan)
                      ELSE work'.kind = "undo"
      /\ work'.slot = work.slot
  BY <1>1, <1>2 DEF Advance, PoolOK, WorkRecord, CallRecord
<1>4. /\ Slot'.req = Slot.req /\ Slot'.live = Slot.live
      /\ Slot'.va = (IF Now.ok /\ Now.op = "reserve" THEN Now.va ELSE Slot.va)
      /\ Slot'.h = (IF Now.ok /\ Now.op = "create" THEN Now.h ELSE Slot.h)
      /\ \A i \in PoolIndex \ {work.slot} : pool'[i] = pool[i]
  <2>1. CASE ~Now.ok \/ Now.op \notin {"reserve", "create"}
    BY <1>1, <1>2, <1>3, <2>1 DEF PoolOK, Slot
  <2>2. CASE Now.ok /\ Now.op = "reserve"
    <3>1. pool' = [pool EXCEPT ![work.slot].va = Now.va] /\ Now.va \in Nat
      BY <1>1, <2>2 DEF CallRecord
    <3>2. PICK k \in PoolIndex : k = work.slot
      BY <1>2
    <3>3. /\ pool \in [PoolIndex -> PoolSlot] /\ pool[k] \in PoolSlot
          /\ pool' = [pool EXCEPT ![k] = [pool[k] EXCEPT !.va = Now.va]]
      BY <1>1, <3>1, <3>2 DEF PoolOK
    <3>4. /\ pool'[k].req = pool[k].req /\ pool'[k].live = pool[k].live
          /\ pool'[k].va = Now.va /\ pool'[k].h = pool[k].h
          /\ \A i \in PoolIndex \ {k} : pool'[i] = pool[i]
      BY <3>3 DEF PoolSlot
    <3> QED
      BY <1>3, <2>2, <3>2, <3>4 DEF Slot
  <2>3. CASE Now.ok /\ Now.op = "create"
    <3>1. pool' = [pool EXCEPT ![work.slot].h = Now.h] /\ Now.h \in Handle
      BY <1>1, <2>3 DEF CallRecord
    <3>2. PICK k \in PoolIndex : k = work.slot
      BY <1>2
    <3>3. /\ pool \in [PoolIndex -> PoolSlot] /\ pool[k] \in PoolSlot
          /\ pool' = [pool EXCEPT ![k] = [pool[k] EXCEPT !.h = Now.h]]
      BY <1>1, <3>1, <3>2 DEF PoolOK
    <3>4. /\ pool'[k].req = pool[k].req /\ pool'[k].live = pool[k].live
          /\ pool'[k].h = Now.h /\ pool'[k].va = pool[k].va
          /\ \A i \in PoolIndex \ {k} : pool'[i] = pool[i]
      BY <3>3 DEF PoolSlot
    <3> QED
      BY <1>3, <2>3, <3>2, <3>4 DEF Slot
  <2> QED
    BY <2>1, <2>2, <2>3
<1>5. Live \subseteq PoolIndex \ {work.slot} /\ \A i \in Live : i < appended
  <2>1. appended \in Nat /\ \A i \in Live : i < appended /\ i \in PoolIndex
    BY <1>1 DEF PoolOK, Live
  <2> QED
    BY <1>2, <2>1
<1>6. Live' = Live
  BY <1>1, <1>3, <1>4 DEF Live, Slot
<1>7. Shimmed' = Shimmed /\ Keeps' = Keeps /\ NeedReq' = NeedReq
  BY <1>1, <1>4 DEF Shimmed, Keeps, Retries, Cycling, bench, NeedReq, ReserveBytes, Logical
<1> QED
  BY <1>1, <1>2, <1>3, <1>4, <1>5, <1>6, <1>7 DEF PoolKept

LEMMA TableAtFinish ==
  ASSUME ControlInv, TableFill, FinishCall
  PROVE  TableFill'
<1> USE OneThread
<1>1. /\ UNCHANGED shimVars /\ Now.pc = "done" /\ Now'.pc = "idle" /\ Now.op = Head(work.plan)
      /\ PoolOK /\ KindOK /\ Now'.op = "none" /\ ControlInv' /\ UNCHANGED <<setup, appended, stage>>
      /\ work.plan # << >> /\ Now' = IdleCall
  <2>1. CallsOK /\ call' = [call EXCEPT ![Main] = IdleCall]
    BY DEF FinishCall, ControlInv, ShimInv
  <2>2. Now' = IdleCall
    BY <2>1, IdleKeeps
  <2> QED
    BY <2>2, FinishKeeps DEF FinishCall, Done, Now, OnlyCall, ControlInv, Busy, IdleCall
<1>2. CASE ~Filling
  <2>1. ~Filling' /\ (Cycling => appended = 0)'
    <3>1. Keeps' = Keeps /\ Cycling' = Cycling
      BY <1>1 DEF Keeps, Retries, Cycling, bench
    <3>2. work.kind = "undo" => work'.kind = "undo"
      BY <1>1 DEF FinishCall, Advance, PoolOK, WorkRecord
    <3> QED
      BY <1>1, <1>2, <3>1, <3>2 DEF Filling, TableFill, NextInPool
  <2> QED
    BY <2>1, TableLeft
<1>3. CASE Filling
  <2>1. NextInPool /\ (Cycling => appended = 0)
    BY DEF TableFill, NextInPool
  <2>2. /\ PoolKept /\ Slot'.req = Slot.req /\ work'.slot = work.slot
        /\ Slot'.va = (IF Now.ok /\ Now.op = "reserve" THEN Now.va ELSE Slot.va)
        /\ Shimmed' = Shimmed /\ Keeps' = Keeps
        /\ work.kind = "map" /\ work.slot = appended
        /\ IF Now.ok THEN work'.kind = "map" /\ work'.plan = Tail(work.plan)
                     ELSE work'.kind = "undo"
    BY <1>3, <2>1, FinishNotes
  <2>3. NextInPool'
    BY <1>1, <2>1, <2>2 DEF NextInPool, Cycling, bench
  <2>4. CASE ~Now.ok
    <3>1. ~Filling'
      BY <2>2, <2>4 DEF Filling
    <3> QED
      BY <2>3, <3>1 DEF TableFill
  <2>5. CASE ~Shimmed
    BY <2>2, <2>3, <2>5 DEF TableFill
  <2>6. CASE Now.ok /\ Shimmed
    <3>1. BasesOK /\ TableByPlan
      BY <1>3, <2>6 DEF TableFill
    <3>2. AddressOK(Now)'
      BY <1>1 DEF AddressOK, IdleCall, Granted, GrantedPc, Succeeded
    <3>3. BasesOK' = BasesOK /\ \A va, bound : Seated(va, bound)' = Seated(va, bound)
      BY <1>1, <2>2, TableSame
    <3>4. work.plan \in {MapPlan, CreatePlan, MapPlanLeft, <<"access">>}
      BY <1>1, <1>3, <2>2, FillsAPlan DEF HeldPlans
    <3>5. PICK va \in Nat : va = Slot'.va
      <4>1. Slot' \in PoolSlot
        BY <1>1, <2>2 DEF ControlInv, PoolOK, WorkRecord, Slot
      <4> QED
        BY <4>1 DEF PoolSlot
    <3>6. CASE work.plan = MapPlan
      <4>1. Now.op = "reserve" /\ va = Now.va /\ Granted(Now)
        BY <1>1, <2>2, <2>6, <3>5, <3>6, FillPlans DEF Granted, Succeeded
      <4>2. Seated(va, FALSE)
        BY <2>2, <3>1, <3>6, <4>1 DEF TableByPlan, ReserveTable
      <4>3. Seated(Slot.va, FALSE)'
        BY <3>3, <3>5, <4>2
      <4>4. work'.plan = CreatePlan
        BY <2>2, <2>6, <3>6, FillPlans
      <4>5. CreateTable'
        BY <1>1, <4>3 DEF CreateTable, Bound, BoundPc, Succeeded
      <4> QED
        BY <2>2, <2>3, <2>6, <3>1, <3>2, <3>3, <4>4, <4>5, FillPlans DEF TableFill, TableByPlan
    <3>7. CASE work.plan = CreatePlan
      <4>1. Now.op = "create" /\ va = Slot.va /\ Succeeded(Now, "create")
        BY <1>1, <2>2, <2>6, <3>5, <3>7, FillPlans DEF Succeeded
      <4>2. Seated(va, TRUE)
        BY <2>2, <3>1, <3>7, <4>1, FillPlans DEF TableByPlan, CreateTable
      <4>3. Seated(Slot.va, TRUE)'
        BY <3>3, <3>5, <4>2
      <4>4. work'.plan = MapPlanLeft
        BY <2>2, <2>6, <3>7, FillPlans
      <4> QED
        BY <2>2, <2>3, <2>6, <3>1, <3>2, <3>3, <4>3, <4>4, FillPlans DEF TableFill, TableByPlan
    <3>8. CASE work.plan \in {MapPlanLeft, <<"access">>}
      <4>1. va = Slot.va
        BY <1>1, <2>2, <3>5, <3>8, FillPlans
      <4>2. Seated(va, TRUE)
        BY <2>2, <3>1, <3>8, <4>1 DEF TableByPlan, HeldPlans
      <4>3. Seated(Slot.va, TRUE)'
        BY <3>3, <3>5, <4>2
      <4>4. work'.plan \in HeldPlans
        BY <2>2, <2>6, <3>8, FillPlans
      <4> QED
        BY <2>2, <2>3, <2>6, <3>1, <3>2, <3>3, <4>3, <4>4, FillPlans DEF TableFill, TableByPlan
    <3> QED
      BY <3>4, <3>6, <3>7, <3>8
  <2> QED
    BY <2>4, <2>5, <2>6
<1> QED
  BY <1>2, <1>3

(* What a call of the driver alone, or the shim's answer to an access, does *)
(* to the slot at hand.                                                    *)
LEMMA StockNotes ==
  ASSUME ControlInv, NextInPool, StockCall \/ SetAccess, Filling
  PROVE  /\ PoolKept /\ Slot'.req = Slot.req /\ work'.slot = work.slot
         /\ Shimmed' = Shimmed /\ Keeps' = Keeps
         /\ work.kind = "map" /\ work.slot = appended /\ work.slot \in PoolIndex
         /\ pool' \in [PoolIndex -> PoolSlot] /\ \A i \in Live : pool'[i] = pool[i]
         /\ \/ work'.kind = "map" /\ work'.plan = Tail(work.plan)
            \/ work'.kind = "undo"
<1>1. /\ PoolOK /\ KindOK /\ Busy /\ UNCHANGED <<setup, appended, stage>> /\ PoolOK'
      /\ \E ok \in BOOLEAN : Advance(ok)
  BY StockKeeps, AccessKeeps DEF ControlInv, StockCall, SetAccess
<1>2. work.kind = "map" /\ work.slot = appended /\ work.slot \in PoolIndex
  <2>1. work.kind # "none"
    BY <1>1 DEF KindOK, Busy
  <2> QED
    BY <1>1, <2>1, FillsAPlan DEF NextInPool
<1>3. /\ \/ work'.kind = "map" /\ work'.plan = Tail(work.plan)
         \/ work'.kind = "undo"
      /\ work'.slot = work.slot
  BY <1>1, <1>2 DEF Advance, PoolOK, WorkRecord
<1>4. /\ Slot'.req = Slot.req /\ Slot'.live = Slot.live
      /\ \A i \in PoolIndex \ {work.slot} : pool'[i] = pool[i]
  <2>1. CASE pool' = pool
    BY <1>3, <2>1 DEF Slot
  <2>2. CASE pool' # pool
    <3>1. \/ \E va : pool' = [pool EXCEPT ![work.slot].va = va]
          \/ \E h : pool' = [pool EXCEPT ![work.slot].h = h]
      <4>1. StockCall /\ DriverTakes(Head(work.plan))
        BY <2>2 DEF StockCall, SetAccess
      <4>2. Head(work.plan) \in {"reserve", "create"} \/ UNCHANGED pool
        <5>1. Head(work.plan) \in {"reserve", "create", "map"}
          BY <1>1, <1>2, <4>1, FillsAPlan, FillPlans DEF StockCall, HeldPlans, Busy
        <5> QED
          BY <4>1, <5>1 DEF DriverTakes
      <4> QED
        BY <2>2, <4>1, <4>2 DEF DriverTakes
    <3>2. PICK k \in PoolIndex : k = work.slot
      BY <1>2
    <3>3. CASE \E va : pool' = [pool EXCEPT ![work.slot].va = va]
      <4>1. PICK va : pool' = [pool EXCEPT ![k].va = va]
        BY <3>2, <3>3
      <4>2. /\ pool'[k].req = pool[k].req /\ pool'[k].live = pool[k].live
            /\ \A i \in PoolIndex \ {k} : pool'[i] = pool[i]
        BY <1>1, <4>1 DEF PoolOK, PoolSlot
      <4> QED
        BY <1>3, <3>2, <4>2 DEF Slot
    <3>4. CASE \E h : pool' = [pool EXCEPT ![work.slot].h = h]
      <4>1. PICK h : pool' = [pool EXCEPT ![k].h = h]
        BY <3>2, <3>4
      <4>2. /\ pool'[k].req = pool[k].req /\ pool'[k].live = pool[k].live
            /\ \A i \in PoolIndex \ {k} : pool'[i] = pool[i]
        BY <1>1, <4>1 DEF PoolOK, PoolSlot
      <4> QED
        BY <1>3, <3>2, <4>2 DEF Slot
    <3> QED
      BY <3>1, <3>3, <3>4
  <2> QED
    BY <2>1, <2>2
<1>5. Live \subseteq PoolIndex \ {work.slot} /\ \A i \in Live : i < appended
  <2>1. appended \in Nat /\ \A i \in Live : i < appended /\ i \in PoolIndex
    BY <1>1 DEF PoolOK, Live
  <2> QED
    BY <1>2, <2>1
<1>6. Live' = Live
  BY <1>1, <1>3, <1>4 DEF Live, Slot
<1>7. Shimmed' = Shimmed /\ Keeps' = Keeps /\ NeedReq' = NeedReq
  BY <1>1, <1>4 DEF Shimmed, Keeps, Retries, Cycling, bench, NeedReq, ReserveBytes, Logical
<1> QED
  BY <1>1, <1>2, <1>3, <1>4, <1>5, <1>6, <1>7 DEF PoolKept, PoolOK

LEMMA TableAtStock ==
  ASSUME ControlInv, TableFill, StockCall \/ SetAccess
  PROVE  TableFill'
<1>1. /\ UNCHANGED <<shimVars, call>> /\ Now.pc = "idle" /\ PoolOK /\ KindOK /\ Busy
      /\ UNCHANGED <<setup, appended, stage>> /\ (StockCall => ~Shimmed)
  BY StockKeeps, AccessKeeps DEF ControlInv, StockCall, SetAccess, vars
<1>2. CASE ~Filling
  <2>1. Keeps' = Keeps /\ Cycling' = Cycling
    BY <1>1 DEF Keeps, Retries, Cycling, bench
  <2>2. work.kind = "undo" => work'.kind = "undo"
    BY DEF StockCall, SetAccess, Advance, ControlInv, PoolOK, WorkRecord
  <2>3. ~Filling' /\ (Cycling => appended = 0)'
    BY <1>1, <1>2, <2>1, <2>2 DEF Filling, TableFill, NextInPool
  <2> QED
    BY <2>3, TableLeft
<1>3. CASE Filling
  <2>1. NextInPool /\ (Cycling => appended = 0)
    BY DEF TableFill, NextInPool
  <2>2. /\ PoolKept /\ Slot'.req = Slot.req /\ work'.slot = work.slot
        /\ Shimmed' = Shimmed /\ Keeps' = Keeps
        /\ work.kind = "map" /\ work.slot = appended
        /\ \/ work'.kind = "map" /\ work'.plan = Tail(work.plan)
           \/ work'.kind = "undo"
    BY <1>3, <2>1, StockNotes
  <2>3. NextInPool'
    BY <1>1, <2>1, <2>2 DEF NextInPool, Cycling, bench
  <2>4. CASE work'.kind = "undo" \/ ~Shimmed
    BY <2>2, <2>3, <2>4 DEF TableFill, Filling
  <2>5. CASE work'.kind # "undo" /\ Shimmed
    <3>1. BasesOK /\ TableByPlan
      BY <1>3, <2>5 DEF TableFill
    <3>2. AddressOK(Now)'
      BY <1>1 DEF AddressOK, Granted, GrantedPc, Succeeded, Now
    <3>3. BasesOK' = BasesOK /\ \A va, bound : Seated(va, bound)' = Seated(va, bound)
      BY <1>1, <2>2, TableSame
    <3>4. work.plan = <<"access">> /\ UNCHANGED pool
      BY <1>1, <1>3, <2>2, <2>5, FillsAPlan, FillPlans DEF HeldPlans, SetAccess, Busy
    <3>5. PICK va \in Nat : va = Slot.va /\ va = Slot'.va
      <4>1. Slot \in PoolSlot /\ Slot' = Slot
        BY <1>1, <2>2, <3>4 DEF PoolOK, WorkRecord, Slot
      <4> QED
        BY <4>1 DEF PoolSlot
    <3>6. Seated(Slot.va, TRUE)'
      BY <2>2, <3>1, <3>3, <3>4, <3>5, FillPlans DEF TableByPlan
    <3>7. work'.plan \in HeldPlans /\ work'.kind = "map"
      BY <2>2, <2>5, <3>4, FillPlans
    <3> QED
      BY <2>2, <2>3, <2>5, <3>1, <3>2, <3>3, <3>6, <3>7, FillPlans DEF TableFill, TableByPlan
  <2> QED
    BY <2>4, <2>5
<1> QED
  BY <1>2, <1>3

(* Where the resident loop goes on, a slot was mapped.                     *)
LEMMA DoneKeepsSlot ==
  ASSUME ControlInv, NextInPool, WorkDone, Keeps'
  PROVE  /\ Filling /\ Keeps /\ work.kind = "map" /\ work.plan = << >> /\ work'.kind = "none"
         /\ work.slot = appended /\ work.slot \in PoolIndex /\ appended' = appended + 1
         /\ pool' = [pool EXCEPT ![work.slot].live = TRUE]
         /\ \A i \in PoolIndex : /\ pool'[i].va = pool[i].va /\ pool'[i].h = pool[i].h
                                 /\ pool'[i].req = pool[i].req
         /\ Live' = Live \union {work.slot} /\ work.slot \notin Live
<1>1. /\ PoolOK /\ KindOK /\ StageKept /\ work.kind # "none" /\ work' = NoWork
      /\ UNCHANGED setup /\ work.plan = << >>
  BY DEF ControlInv, WorkDone, Busy
<1>2. stage' = "resident" /\ ~Retries /\ ~Cycling
  BY <1>1 DEF Keeps, Retries, Cycling, bench
<1>3. work.kind # "undo"
  <2>1. ASSUME work.kind = "undo"
        PROVE  FALSE
    <3>1. stage' = AfterFailure /\ stage \in {"resident", "churn", "probe"}
      BY <1>1, <2>1 DEF WorkDone, KindOK
    <3>2. CASE stage = "resident"
      BY <1>2, <3>1, <3>2 DEF AfterFailure, Cycling
    <3>3. CASE stage = "churn"
      BY <1>2, <3>1, <3>3 DEF AfterFailure
    <3>4. CASE stage = "probe"
      BY <1>1, <1>2, <3>4 DEF StageKept, Cycling
    <3> QED
      BY <3>1, <3>2, <3>3, <3>4
  <2> QED
    BY <2>1
<1>4. stage' = stage /\ work.kind # "cycle"
  BY <1>1, <1>2, <1>3 DEF WorkDone, KindOK
<1>5. work.kind = "map"
  BY <1>1, <1>2, <1>3, <1>4 DEF KindOK, PoolOK, WorkRecord
<1>6. Filling /\ Keeps
  BY <1>2, <1>3, <1>4 DEF Filling, Keeps
<1>7. work.slot = appended /\ work.slot \in PoolIndex /\ appended \in Nat
  BY <1>1, <1>5, <1>6 DEF NextInPool, PoolOK, WorkRecord
<1>8. appended' = appended + 1 /\ pool' = [pool EXCEPT ![work.slot].live = TRUE]
  BY <1>2, <1>4, <1>5 DEF WorkDone
<1>9. PICK k \in PoolIndex : k = work.slot /\ k = appended
  BY <1>7
<1>10. /\ pool' = [pool EXCEPT ![k] = [pool[k] EXCEPT !.live = TRUE]]
       /\ pool \in [PoolIndex -> PoolSlot] /\ pool[k] \in PoolSlot
  BY <1>1, <1>8, <1>9 DEF PoolOK
<1>11. /\ pool'[k].va = pool[k].va /\ pool'[k].h = pool[k].h /\ pool'[k].req = pool[k].req
       /\ pool'[k].live /\ \A i \in PoolIndex \ {k} : pool'[i] = pool[i]
  BY <1>10 DEF PoolSlot
<1>12. PoolIndex \subseteq Nat
  BY HarnessAssumption DEF PoolIndex
<1>13. Live' = Live \union {k} /\ k \notin Live
  <2>1. \A i \in PoolIndex : i < appended + 1 <=> (i < appended \/ i = k)
    BY <1>7, <1>9, <1>12
  <2>2. k \in PoolIndex /\ ~(k < appended)
    BY <1>7, <1>9
  <2> QED
    BY <1>8, <1>11, <2>1, <2>2 DEF Live
<1> QED
  BY <1>1, <1>5, <1>6, <1>7, <1>8, <1>9, <1>11, <1>13 DEF NoWork

LEMMA TableAtDone ==
  ASSUME ControlInv, TableFill, WorkDone
  PROVE  TableFill'
<1>1. /\ UNCHANGED vars /\ Now.pc = "idle" /\ PoolOK /\ KindOK /\ UNCHANGED setup
      /\ work'.kind = "none" /\ appended \in Nat
  BY DoneKeeps DEF WorkDone, ControlInv, NoWork, PoolOK
<1>2. NextInPool'
  <2>1. Cycling' = Cycling /\ (Cycling => appended = 0) /\ (work.kind = "map" => ~Cycling)
    BY <1>1 DEF Cycling, bench, TableFill, NextInPool, KindOK
  <2> QED
    BY <1>1, <2>1 DEF NextInPool, WorkDone
<1>3. CASE ~(Keeps' /\ Shimmed)
  BY <1>1, <1>2, <1>3 DEF TableFill, Filling, Shimmed
<1>4. CASE Keeps' /\ Shimmed
  <2>1. /\ Filling /\ work.kind = "map" /\ work.plan = << >>
        /\ Live' = Live \union {work.slot} /\ work.slot \in PoolIndex
        /\ \A i \in PoolIndex : pool'[i].va = pool[i].va
    BY <1>4, DoneKeepsSlot DEF TableFill
  <2>2. Seated(Slot.va, TRUE) /\ BasesOK
    BY <1>4, <2>1, FillPlans DEF TableFill, TableByPlan
  <2>3. PICK c \in Index : SeatedAt(c, Slot.va, TRUE)
    BY <2>2 DEF Seated
  <2>4. Used' = Used /\ slots' = slots
    BY <1>1 DEF vars, shimVars, slotVars, Used
  <2>5. Live \subseteq PoolIndex
    BY DEF Live
  <2>6. \A s \in Used \ {c} : Settled(s)'
    BY <2>1, <2>3, <2>4, <2>5 DEF SeatedAt, Settled
  <2>7. Settled(c)'
    BY <2>1, <2>3, <2>4 DEF SeatedAt, Settled, Slot
  <2>8. AllSettled'
    BY <2>4, <2>6, <2>7 DEF AllSettled
  <2>9. BasesOK' /\ AddressOK(Now)'
    BY <1>1, <2>2
    DEF vars, shimVars, packVars, BasesOK, AddressOK, Granted, GrantedPc, Succeeded, Now
  <2> QED
    BY <1>1, <1>2, <2>8, <2>9 DEF TableFill, TableByPlan
<1> QED
  BY <1>3, <1>4

(* The slot the resident loop goes on with is the next of the pool.        *)
LEMMA AppendKeepsSlots ==
  ASSUME ControlInv, AppendSlot
  PROVE  /\ Keeps /\ Free /\ Keeps' /\ Live' = Live /\ UNCHANGED vars
         /\ work'.kind = "map" /\ work'.plan = MapPlan /\ work'.slot = appended
         /\ appended' = appended /\ appended \in PoolIndex /\ UNCHANGED setup
         /\ \A i \in PoolIndex : pool'[i].va = pool[i].va /\ (i # appended => pool'[i] = pool[i])
         /\ Slot'.h = NoHandle /\ Slot'.req = Sizes[bench][seq + 1]
         /\ pool' \in [PoolIndex -> PoolSlot] /\ appended \notin Live
<1>1. /\ PoolOK /\ appended \in PoolIndex /\ appended \in Nat /\ BeginMap(appended)
      /\ UNCHANGED <<setup, counted, cycles, appended, stage, vars>>
  <2>1. PoolOK /\ appended \in Nat /\ appended < PoolSize
    BY DEF ControlInv, PoolOK, AppendSlot
  <2>2. appended \in PoolIndex
    BY <2>1, HarnessAssumption DEF PoolIndex
  <2> QED
    BY <2>1, <2>2 DEF AppendSlot
<1>2. /\ work'.kind = "map" /\ work'.slot = appended /\ work'.plan = MapPlan
      /\ pool' \in [PoolIndex -> PoolSlot]
      /\ \A j \in PoolIndex \ {appended} : pool'[j] = pool[j]
      /\ pool'[appended].va = pool[appended].va /\ pool'[appended].h = NoHandle
      /\ pool'[appended].live = pool[appended].live
      /\ pool'[appended].req = Sizes[bench][seq + 1]
  <2>1. appended' \in Nat /\ cycles' \in Nat
    BY <1>1 DEF PoolOK
  <2> QED
    BY <1>1, <2>1, BeginMapKeeps
<1>3. Live' = Live
  BY <1>1, <1>2 DEF Live
<1>4. Keeps /\ Free /\ Keeps'
  BY <1>1 DEF Keeps, AppendSlot, Retries, Cycling, bench
<1>5. appended \notin Live
  BY <1>1 DEF Live
<1> QED
  BY <1>1, <1>2, <1>3, <1>4, <1>5 DEF Slot

LEMMA TableAtAppend ==
  ASSUME ControlInv, TableFill, AppendSlot
  PROVE  TableFill'
<1>1. /\ Keeps /\ Free /\ Live' = Live /\ UNCHANGED vars /\ work'.kind = "map"
      /\ work'.plan = MapPlan /\ work'.slot = appended /\ appended' = appended
      /\ UNCHANGED setup /\ \A i \in PoolIndex : pool'[i].va = pool[i].va
  BY AppendKeepsSlots
<1>2. Now.pc = "idle"
  BY <1>1, FreeRests DEF Keeps
<1>3. NextInPool'
  BY <1>1 DEF NextInPool, TableFill, Cycling, bench
<1>4. CASE ~Shimmed
  BY <1>1, <1>3, <1>4 DEF TableFill, Shimmed
<1>5. CASE Shimmed
  <2>1. AllSettled /\ BasesOK
    BY <1>1, <1>5 DEF TableFill, TableByPlan, Filling, Free
  <2>2. Used' = Used /\ slots' = slots
    BY <1>1 DEF vars, shimVars, slotVars, Used
  <2>3. Live \subseteq PoolIndex
    BY DEF Live
  <2>4. AllSettled'
    BY <1>1, <2>1, <2>2, <2>3 DEF AllSettled, Settled
  <2>5. BasesOK' /\ AddressOK(Now)' /\ Now'.pc = "idle"
    BY <1>1, <1>2, <2>1
    DEF vars, shimVars, packVars, BasesOK, AddressOK, Granted, GrantedPc, Succeeded, Now
  <2>6. ReserveTable'
    BY <2>4, <2>5 DEF ReserveTable, Pending, PendingPc, Granted, GrantedPc, Succeeded
  <2> QED
    BY <1>1, <1>3, <2>5, <2>6, FillPlans DEF TableFill, TableByPlan
<1> QED
  BY <1>4, <1>5

LEMMA TableAtContext ==
  ASSUME ForgetInv, NewContext
  PROVE  TableFill'
<1>1. /\ ControlInv /\ UNCHANGED shimVars /\ Now.pc = "done" /\ stage = "reset"
      /\ appended' = 0 /\ UNCHANGED <<setup, work>> /\ Forgetting
      /\ Now' = IdleCall
  <2>1. call' = [call EXCEPT ![Main] = IdleCall] /\ CallsOK
    BY DEF ForgetInv, NewContext, ControlInv, ShimInv
  <2> QED
    BY <2>1, NewContextKeeps, IdleKeeps DEF ForgetInv
<1>2. work.kind = "none"
  BY <1>1 DEF ControlInv, KindOK, PoolOK, WorkRecord
<1>3. PackBlank /\ buckets = << >> /\ TableBlank
  BY <1>1 DEF Forgetting
<1>4. NextInPool'
  BY <1>1, <1>2 DEF NextInPool
<1>5. BasesOK' /\ AddressOK(Now)'
  BY <1>1, <1>3 DEF PackBlank, shimVars, packVars, BasesOK, NoArena, AddressOK, IdleCall,
     Granted, GrantedPc, Succeeded
<1>6. AllSettled'
  BY <1>1, <1>3 DEF TableBlank, shimVars, slotVars, AllSettled, Used
<1> QED
  BY <1>1, <1>2, <1>4, <1>5, <1>6 DEF TableFill, TableByPlan

(* Another head of an iso slot changes the count alone.                    *)
LEMMA TableAtHead ==
  ASSUME ControlInv, TableFill, CountHead
  PROVE  TableFill'
<1>1. UNCHANGED <<setup, vars, pool, appended, stage, work>> /\ Free
  BY DEF CountHead
<1>2. /\ PoolKept /\ Filling' = Filling /\ Shimmed' = Shimmed /\ NextInPool' = NextInPool
      /\ UNCHANGED shimVars /\ Now' = Now
  BY <1>1 DEF PoolKept, Live, NeedReq, ReserveBytes, Logical, Slot, Filling, Keeps,
         Shimmed, bench, Retries, Cycling, NextInPool, vars, Now
<1>3. AllSettled' = AllSettled /\ BasesOK' = BasesOK
  BY <1>2, TableSame
<1> QED
  BY <1>1, <1>2, <1>3 DEF TableFill, TableByPlan, Free

(* Every other action is none of the resident loop's.                      *)
LEMMA TableElsewhere ==
  ASSUME ControlInv, TableFill,
         \/ ChurnMap \/ ChurnFree \/ ChurnEnd \/ SweepOrReset \/ InReset
         \/ RetrySlot \/ FillEnd \/ TeardownNext \/ Fini \/ BeginCycle \/ CyclesEnd
  PROVE  TableFill' /\ ~Keeps'
<1>1. UNCHANGED setup
  BY DEF ChurnMap, ChurnFree, ChurnEnd, SweepOrReset, InReset, RetrySlot, FillEnd,
         TeardownNext, Fini, BeginCycle, CyclesEnd, benchVars, BeginMap, BeginTeardown
<1>2. Cycling' = Cycling /\ Retries' = Retries
  BY <1>1 DEF Cycling, Retries, bench
<1>3. ~Keeps'
  <2>1. CASE ChurnMap \/ ChurnFree \/ ChurnEnd \/ SweepOrReset \/ InReset
    BY <2>1
    DEF ChurnMap, ChurnFree, ChurnEnd, SweepOrReset, InReset, Churning, Keeps, benchVars
  <2>2. CASE FillEnd \/ TeardownNext \/ Fini
    BY <2>2 DEF FillEnd, TeardownNext, Fini, Keeps
  <2>3. CASE RetrySlot \/ BeginCycle \/ CyclesEnd
    BY <1>2, <2>3 DEF RetrySlot, BeginCycle, CyclesEnd, Keeps, Cycling
  <2> QED
    BY <2>1, <2>2, <2>3
<1>4. (Cycling => appended = 0)'
  <2>1. CASE RetrySlot
    BY <1>2, <2>1 DEF RetrySlot, Retries, Cycling
  <2>2. CASE ~RetrySlot
    <3>1. UNCHANGED appended
      BY <2>2 DEF ChurnMap, ChurnFree, ChurnEnd, SweepOrReset, InReset, RetrySlot, FillEnd,
         TeardownNext, Fini, BeginCycle, CyclesEnd, benchVars
    <3> QED
      BY <1>2, <3>1 DEF TableFill, NextInPool
  <2> QED
    BY <2>1, <2>2
<1> QED
  BY <1>3, <1>4, TableLeft DEF Filling

LEMMA TableStays ==
  ASSUME TableFill, UNCHANGED harnessVars
  PROVE  TableFill'
<1>1. UNCHANGED benchVars /\ UNCHANGED shimVars /\ Now' = Now /\ work' = work /\ Slot' = Slot
  BY DEF harnessVars, vars, benchVars, Now, Slot
<1>2. PoolKept /\ Filling' = Filling /\ Shimmed' = Shimmed /\ NextInPool' = NextInPool
  BY <1>1, BenchKeepsPool
<1>3. TableKept /\ legacyVa' = legacyVa /\ BasesOK' = BasesOK
  BY <1>1 DEF TableKept, shimVars, slotVars, packVars, BasesOK
<1>4. /\ AllSettled' = AllSettled /\ SlotBegun' = SlotBegun /\ NeedReq' = NeedReq
      /\ \A va, bound : Seated(va, bound)' = Seated(va, bound)
  BY <1>2, <1>3, SettledSame DEF PoolKept
<1>5. slots' = slots /\ pending' = pending
  BY <1>1 DEF shimVars, slotVars
<1>6. Seated(Now.va, FALSE)' = Seated(Now.va, FALSE) /\ \A b : Seated(Slot.va, b)' = Seated(Slot.va, b)
  BY <1>1, <1>4
<1>7. ReserveTable' = ReserveTable /\ CreateTable' = CreateTable
  BY <1>1, <1>3, <1>4, <1>5, <1>6 DEF ReserveTable, CreateTable
<1> QED
  BY <1>1, <1>2, <1>3, <1>4, <1>6, <1>7 DEF TableFill, TableByPlan

LEMMA TableStep ==
  ForgetInv /\ TableFill /\ [HarnessNext]_harnessVars => TableFill'
<1> SUFFICES ASSUME ForgetInv, TableFill, [HarnessNext]_harnessVars
             PROVE  TableFill'
  OBVIOUS
<1>1. ControlInv
  BY DEF ForgetInv
<1> QED
  BY <1>1, TableAtStart, TableInCall, TableAtFinish, TableAtStock, TableAtDone, TableAtAppend,
     TableAtContext, TableAtHead, TableElsewhere, TableStays DEF HarnessNext, Finished

LEMMA TableInvariant == HarnessSpec => [](ForgetInv /\ TableFill)
<1>1. BenchInit => ForgetInv /\ TableFill
  BY ForgetStarts, TableStarts
<1>2. ForgetInv /\ TableFill /\ [HarnessNext]_harnessVars => (ForgetInv /\ TableFill)'
  BY ForgetKept, TableStep
<1> QED
  BY <1>1, <1>2, PTL DEF HarnessSpec

-----------------------------------------------------------------------------
(* The sizes a slot is asked for, charged and given.                       *)

Charge == PlacementRound(NeedReq)
Bytes == AllocBytes(Slot.req)

LEMMA LeafMultiple ==
  ASSUME NEW req \in Nat
  PROVE  LET r == RoundLeafSize(req)
         IN  /\ r \in Nat \ {0} /\ Leaf <= r /\ RoundLeafSize(r) = r
             /\ PlacementRound(r) = r /\ CreateRoundSize(r) = r
             /\ CreateRoundSize(req) = r
<1> DEFINE r == RoundLeafSize(req)
<1>1. PICK k \in Nat \ {0} : r = k * Leaf
  BY LeafAssumption, RoundUpHolds DEF RoundLeafSize
<1>2. r \in Nat \ {0} /\ Leaf <= r
  BY LeafAssumption, RoundUpHolds, RoundUpAtLeast DEF RoundLeafSize
<1>3. RoundLeafSize(r) = r
  BY <1>1, LeafAssumption, RoundUpStable DEF RoundLeafSize
<1> HIDE DEF r
<1>4. PlacementRound(r) = r
  <2>1. r <= PlacementRound(r) /\ PlacementRound(r) \in Nat
    BY <1>2, PlacementHolds
  <2>2. PlacementRound(r) <= r
    BY <1>2, <1>3, PlacementLeast
  <2> QED
    BY <1>2, <2>1, <2>2
<1>5. CreateRoundSize(r) = r
  BY <1>2, <1>3, LeafAssumption DEF CreateRoundSize
<1>6. CreateRoundSize(req) = r
  BY <1>2, LeafAssumption DEF CreateRoundSize, r
<1> QED
  BY <1>2, <1>3, <1>4, <1>5, <1>6 DEF r

LEMMA SlotSizes ==
  ASSUME Slot.req \in Nat \ {0}
  PROVE  /\ NeedReq \in Nat \ {0} /\ Charge \in Nat \ {0} /\ Bytes \in Nat \ {0}
         /\ PlacementRound(Slot.req) \in Nat \ {0} /\ PlacementRound(Slot.req) <= Charge
         /\ Charge <= Bytes /\ Leaf <= Bytes
         /\ NeedReq <= Leaf => Charge <= Leaf
         /\ CreateRoundSize(CreateBytes(Slot.req)) = Bytes
         /\ ~Shimmed => CreateBytes(Slot.req) = Bytes
<1>0. PICK req \in Nat \ {0} : req = Slot.req
  OBVIOUS
<1> DEFINE r == RoundLeafSize(req)
<1>1. /\ AllocBytes(req) = r /\ IronPlacementRound(req) = PlacementRound(req)
      /\ r \in Nat \ {0} /\ Leaf <= r /\ PlacementRound(r) = r
      /\ CreateRoundSize(r) = r /\ CreateRoundSize(req) = r
  BY LeafMultiple, HarnessPlacesAlike DEF AllocBytes
<1>2. /\ PlacementRound(req) \in Nat \ {0} /\ req <= PlacementRound(req)
      /\ PlacementRound(PlacementRound(req)) = PlacementRound(req)
  BY PlacementHolds
<1>3. PlacementRound(req) <= r
  BY PlacementLeast
<1> HIDE DEF r
<1>4. NeedReq \in {PlacementRound(req), r}
  BY <1>0, <1>1 DEF NeedReq, ReserveBytes
<1>5. Charge \in {PlacementRound(req), r} /\ Bytes = r /\ NeedReq \in Nat \ {0}
  BY <1>0, <1>1, <1>2, <1>4 DEF Charge, Bytes
<1>6. NeedReq <= Leaf => Charge <= Leaf
  BY <1>5, PlacementHolds DEF Charge
<1>7. CreateBytes(req) \in {req, r} /\ (~Shimmed => CreateBytes(req) = r)
  BY <1>1 DEF CreateBytes, Logical
<1> QED
  BY <1>0, <1>1, <1>2, <1>3, <1>5, <1>6, <1>7

-----------------------------------------------------------------------------
(* Addresses and memory.                                                   *)

(* No live slot reaches into [lo, hi).                                     *)
Clear(lo, hi) == \A i \in Live : SpanOf(i).hi <= lo \/ hi <= SpanOf(i).lo

BackedBy(i, m) ==
  m.handle = pool[i].h /\ m.va <= SpanOf(i).lo /\ SpanOf(i).hi <= m.va + m.len
LiveBacked == \A i \in Live : physLen[pool[i].h] > 0 /\ \E m \in mappings : BackedBy(i, m)
LiveApart ==
  \A i, j \in Live : i # j => SpanOf(i).hi <= SpanOf(j).lo \/ SpanOf(j).hi <= SpanOf(i).lo
LiveOK == LiveBacked /\ LiveApart

(* The arena is one leaf of memory the shim holds, mapped from its base.   *)
ArenaHeld ==
  /\ arena.handle # NoHandle /\ handleRefs > 0 /\ physLen[arena.handle] > 0
  /\ \E m \in mappings : m.va = arena.base /\ m.handle = arena.handle /\ arena.len <= m.len

(* Where the next slice will be placed no live slot is.                    *)
ArenaReady ==
  arena.active =>
    /\ PackOn /\ ArenaHeld
    /\ IF arena.next = 0 THEN bandSeq = 0 ELSE Clear(arena.base + arena.next, ArenaEnd)

(* va is a slice of the arena, charged, and clear up to the arena's end.   *)
Inner(va) ==
  /\ PackOn /\ PackedSubVa(va) /\ ArenaHeld /\ arena.next > 0
  /\ va + Charge <= arena.base + arena.next
  /\ Clear(va, ArenaEnd)

(* va gets memory of its own, and the arena will be its.                   *)
Outer(va) ==
  /\ ~PackedSubVa(va) /\ (arena.active => PackOn)
  /\ Charge <= Leaf \/ bandSeq = 0
  /\ arena.active /\ arena.base = va /\ arena.handle = NoHandle =>
       arena.next = 0 /\ arena.len = Leaf

Placed(va) == Inner(va) \/ Outer(va)

NotLive(h) == \A i \in Live : pool[i].h # h
NewMemory(h) == h # NoHandle /\ physLen[h] > 0 /\ NotLive(h)

(* The arena, if there is one, is the slot's at hand, and nothing is       *)
(* charged yet.                                                            *)
OwnArena(va, h) ==
  arena.active =>
    /\ PackOn /\ arena.base = va /\ arena.handle = h /\ arena.next = 0 /\ handleRefs > 0
    /\ arena.len <= Bytes
    /\ Charge <= arena.len \/ bandSeq = 0

SharedLeaf(va, h) == Inner(va) /\ h = arena.handle /\ handleRefs > 1
OwnLeaf(va, h) == NewMemory(h) /\ OwnArena(va, h)
BoundTo(va, h) == SharedLeaf(va, h) \/ OwnLeaf(va, h)

OwnMapping(va, h) ==
  /\ [va |-> va, len |-> Bytes, handle |-> h] \in mappings
  /\ \A m \in mappings : m.va = va => m.handle = h
  /\ Clear(va, va + Bytes)

(* The slot at hand has its memory.                                        *)
OwnHeld(va, h) ==
  /\ NewMemory(h) /\ OwnMapping(va, h) /\ ArenaReady
  /\ arena.active => arena.base = va /\ (arena.next > 0 => Charge <= arena.next)
Held(va, h) == SharedLeaf(va, h) \/ OwnHeld(va, h)

SeekPc == {"rsv_req", "rsv_gqa", "rsv_flush", "rsv_try", "rsv_mega", "rsv_driver"}
CommitPc == {"rsv_commit", "rsv_dcommit"}

ReserveFill(c) ==
  /\ c.pc \in {"idle", "rsv_begin"} \union SeekPc => ArenaReady
  /\ c.pc \in {"rsv_try", "rsv_mega"} => PackOn /\ NeedReq <= Leaf
  /\ c.pc = "rsv_driver" => Charge <= Leaf \/ bandSeq = 0
  /\ c.pc \in CommitPc \/ Granted(c) => Placed(c.va)
  /\ c.pc \in {"rsv_dcommit", "rsv_dregister", "rsv_window"} => Outer(c.va)
  /\ c.pc = "rsv_window" => PackOn

CreateFill(c) ==
  /\ c.pc \in {"idle", "crt_packed"} => Placed(Slot.va)
  /\ c.pc \in {"crt_retain", "crt_share"} => Inner(Slot.va) /\ c.h = arena.handle
  /\ c.pc = "crt_share" => handleRefs > 1
  /\ c.pc \in {"crt_validate", "crt_driver", "crt_bind"} \/ Bound(c) => Outer(Slot.va)
  /\ c.pc = "crt_bind" \/ Bound(c) => NewMemory(c.h)
  /\ Bound(c) => PackOn
  /\ Succeeded(c, "create") => BoundTo(Slot.va, c.h)

MapFill(c) ==
  /\ c.pc \in {"idle", "map_validate", "map_route"} => BoundTo(Slot.va, Slot.h)
  /\ c.pc = "done" /\ ~c.ok => BoundTo(Slot.va, Slot.h)
  /\ c.pc = "map_packed" => SharedLeaf(Slot.va, Slot.h)
  /\ c.pc \in {"map_off", "map_driver", "map_mark", "map_usage", "map_active", "map_req",
               "map_bump"} =>
       OwnLeaf(Slot.va, Slot.h)
  /\ c.pc \in {"map_mark", "map_usage", "map_active", "map_req", "map_bump"} =>
       OwnMapping(Slot.va, Slot.h) /\ (arena.active => ArenaHeld)
  /\ c.pc \in {"map_req", "map_bump"} => arena.active
  /\ c.pc = "map_bump" => c.sz = NeedReq
  /\ Succeeded(c, "map") => Held(Slot.va, Slot.h)

ArenaByPlan ==
  /\ work.kind = "none" => ArenaReady
  /\ work.kind = "map" /\ work.plan = MapPlan => ReserveFill(Now)
  /\ work.kind = "map" /\ work.plan = CreatePlan => CreateFill(Now)
  /\ work.kind = "map" /\ work.plan = MapPlanLeft => MapFill(Now)
  /\ work.kind = "map" /\ work.plan \in HeldPlans => Held(Slot.va, Slot.h)

(* What unwinds a slot takes nothing from the live ones.                   *)
UndoPlans == {<<"unmap", "release", "free">>, <<"release", "free">>, <<"free">>, << >>}
UnmapsOwn == NotLive(Slot.h) /\ \A m \in mappings : m.va = Slot.va => NotLive(m.handle)
ReleasesOwn ==
  /\ \/ NotLive(Slot.h) \/ (Shimmed /\ DefersRelease(Slot.h))
     \/ Now.pc \in {"rel_clear", "done"}
  /\ Now.pc = "rel_driver" => NotLive(Slot.h)

UndoByPlan ==
  /\ work.plan \in UndoPlans
  /\ work.plan = <<"unmap", "release", "free">> => UnmapsOwn
  /\ work.plan = <<"release", "free">> => ReleasesOwn

MemoryFill ==
  Keeps => /\ LiveOK
           /\ work.kind # "undo" => ArenaByPlan
           /\ work.kind = "undo" => UndoByPlan

FillInv == ForgetInv /\ TableFill /\ MemoryFill

-----------------------------------------------------------------------------
(* What a step that is not about memory leaves alone.                      *)

PoolHeld ==
  /\ Live' = Live /\ \A i \in Live : pool'[i] = pool[i]
  /\ NeedReq' = NeedReq /\ Bytes' = Bytes

LeavesKept == UNCHANGED <<arena, handleRefs, bandSeq>>
MemoryKept == UNCHANGED <<physLen, mappings>>

LEMMA SpansSame ==
  ASSUME PoolHeld
  PROVE  /\ Live' = Live /\ Charge' = Charge
         /\ \A i \in Live : SpanOf(i)' = SpanOf(i)
         /\ \A lo, hi : Clear(lo, hi)' = Clear(lo, hi)
         /\ LiveApart' = LiveApart /\ \A h : NotLive(h)' = NotLive(h)
<1>1. Live' = Live /\ Charge' = Charge /\ \A i \in Live : pool'[i] = pool[i]
  BY DEF PoolHeld, Charge
<1>2. \A i \in Live : SpanOf(i)' = SpanOf(i)
  BY <1>1 DEF SpanOf
<1>3. \A lo, hi : Clear(lo, hi)' = Clear(lo, hi)
  BY <1>1, <1>2 DEF Clear
<1>4. LiveApart' = LiveApart
  BY <1>1, <1>2 DEF LiveApart
<1>5. \A h : NotLive(h)' = NotLive(h)
  BY <1>1 DEF NotLive
<1> QED
  BY <1>1, <1>2, <1>3, <1>4, <1>5

LEMMA LeavesSame ==
  ASSUME PoolHeld, LeavesKept, MemoryKept
  PROVE  /\ ArenaHeld' = ArenaHeld /\ ArenaReady' = ArenaReady /\ LiveOK' = LiveOK
         /\ \A va : /\ PackedSubVa(va)' = PackedSubVa(va)
                    /\ Inner(va)' = Inner(va) /\ Outer(va)' = Outer(va)
                    /\ Placed(va)' = Placed(va)
         /\ \A h : NewMemory(h)' = NewMemory(h) /\ DefersRelease(h)' = DefersRelease(h)
<1>1. /\ Live' = Live /\ Charge' = Charge /\ \A i \in Live : pool'[i] = pool[i]
      /\ \A i \in Live : SpanOf(i)' = SpanOf(i)
      /\ \A lo, hi : Clear(lo, hi)' = Clear(lo, hi)
      /\ LiveApart' = LiveApart /\ \A h : NotLive(h)' = NotLive(h)
  BY SpansSame DEF PoolHeld
<1>2. arena' = arena /\ handleRefs' = handleRefs /\ bandSeq' = bandSeq
      /\ physLen' = physLen /\ mappings' = mappings
  BY DEF LeavesKept, MemoryKept
<1>3. ArenaHeld' = ArenaHeld
  BY <1>2 DEF ArenaHeld
<1>4. Clear(arena.base + arena.next, ArenaEnd)' = Clear(arena.base + arena.next, ArenaEnd)
  BY <1>1, <1>2 DEF Clear, ArenaEnd
<1>5. ArenaReady' = ArenaReady
  BY <1>2, <1>3, <1>4 DEF ArenaReady
<1>6. \A va : PackedSubVa(va)' = PackedSubVa(va)
  BY <1>2 DEF PackedSubVa, ArenaEnd
<1>7. \A va : Clear(va, ArenaEnd)' = Clear(va, ArenaEnd)
  BY <1>1, <1>2 DEF Clear, ArenaEnd
<1>8. \A va : Inner(va)' = Inner(va)
  BY <1>1, <1>2, <1>3, <1>6, <1>7 DEF Inner
<1>9. \A va : Outer(va)' = Outer(va)
  BY <1>1, <1>2, <1>6 DEF Outer
<1>10. \A va : Placed(va)' = Placed(va)
  BY <1>8, <1>9 DEF Placed
<1>11. LiveOK' = LiveOK
  BY <1>1, <1>2 DEF LiveOK, LiveBacked, BackedBy
<1>12. \A h : NewMemory(h)' = NewMemory(h) /\ DefersRelease(h)' = DefersRelease(h)
  BY <1>1, <1>2 DEF NewMemory, DefersRelease, RefHeld
<1> QED
  BY <1>3, <1>5, <1>6, <1>8, <1>9, <1>10, <1>11, <1>12

LEMMA MemorySame ==
  ASSUME PoolHeld, LeavesKept, MemoryKept
  PROVE  \A va, h :
           /\ OwnArena(va, h)' = OwnArena(va, h) /\ OwnLeaf(va, h)' = OwnLeaf(va, h)
           /\ SharedLeaf(va, h)' = SharedLeaf(va, h) /\ BoundTo(va, h)' = BoundTo(va, h)
           /\ OwnMapping(va, h)' = OwnMapping(va, h) /\ OwnHeld(va, h)' = OwnHeld(va, h)
           /\ Held(va, h)' = Held(va, h)
<1>1. /\ Charge' = Charge /\ Bytes' = Bytes
      /\ \A lo, hi : Clear(lo, hi)' = Clear(lo, hi)
      /\ arena' = arena /\ handleRefs' = handleRefs /\ bandSeq' = bandSeq
      /\ physLen' = physLen /\ mappings' = mappings
  BY SpansSame DEF PoolHeld, LeavesKept, MemoryKept
<1>2. /\ ArenaReady' = ArenaReady /\ \A va : Inner(va)' = Inner(va)
      /\ \A h : NewMemory(h)' = NewMemory(h)
  BY LeavesSame
<1>3. \A va, h : OwnArena(va, h)' = OwnArena(va, h)
  BY <1>1 DEF OwnArena
<1>4. \A va, h : SharedLeaf(va, h)' = SharedLeaf(va, h)
  BY <1>1, <1>2 DEF SharedLeaf
<1>5. \A va, h : OwnMapping(va, h)' = OwnMapping(va, h)
  BY <1>1 DEF OwnMapping, Clear
<1>6. \A va, h : OwnHeld(va, h)' = OwnHeld(va, h)
  BY <1>1, <1>2, <1>5 DEF OwnHeld
<1> QED
  BY <1>2, <1>3, <1>4, <1>5, <1>6 DEF OwnLeaf, BoundTo, Held

LEMMA LiveSame ==
  ASSUME PoolHeld, MemoryKept
  PROVE  LiveOK' = LiveOK
<1>1. /\ Live' = Live /\ \A i \in Live : pool'[i] = pool[i]
      /\ \A i \in Live : SpanOf(i)' = SpanOf(i)
      /\ LiveApart' = LiveApart
  BY SpansSame DEF PoolHeld
<1> QED
  BY <1>1 DEF LiveOK, LiveBacked, BackedBy, MemoryKept

LEMMA BenchHoldsPool ==
  ASSUME UNCHANGED benchVars
  PROVE  PoolHeld /\ Slot' = Slot /\ Charge' = Charge
<1>1. pool' = pool /\ appended' = appended /\ setup' = setup /\ work' = work
  BY DEF benchVars
<1>2. Slot' = Slot /\ Live' = Live
  BY <1>1 DEF Slot, Live
<1>3. NeedReq' = NeedReq /\ Bytes' = Bytes
  BY <1>1, <1>2 DEF NeedReq, Bytes, ReserveBytes, Logical, Shimmed, bench
<1> QED
  BY <1>1, <1>2, <1>3 DEF PoolHeld, Charge

(* Where a call goes next.                                                 *)
LEMMA NowMoves ==
  ASSUME CallsOK
  PROVE  /\ \A q : Goto(Main, q) =>
              /\ Now'.pc = q /\ Now'.va = Now.va /\ Now'.h = Now.h /\ Now'.ok = Now.ok
              /\ Now'.sz = Now.sz /\ Now'.off = Now.off
         /\ \A ok : Return(Main, ok) =>
              Now'.pc = "done" /\ Now'.ok = ok /\ Now'.va = Now.va /\ Now'.h = Now.h
         /\ \A route, va, sz : Grant(Main, route, va, sz) =>
              Now'.pc = "rsv_commit" /\ Now'.va = va
<1>1. call[Main] \in CallRecord /\ call \in [Thread -> CallRecord] /\ Main \in Thread
  BY OneThread DEF CallsOK
<1>2. ASSUME NEW q, Goto(Main, q)
      PROVE  /\ Now'.pc = q /\ Now'.va = Now.va /\ Now'.h = Now.h /\ Now'.ok = Now.ok
             /\ Now'.sz = Now.sz /\ Now'.off = Now.off
  <2>1. call'[Main] = [call[Main] EXCEPT !.pc = q]
    BY <1>1, <1>2 DEF Goto
  <2> QED
    BY <1>1, <2>1 DEF Now, CallRecord
<1>3. ASSUME NEW ok, Return(Main, ok)
      PROVE  Now'.pc = "done" /\ Now'.ok = ok /\ Now'.va = Now.va /\ Now'.h = Now.h
  <2>1. call'[Main] = [call[Main] EXCEPT !.pc = "done", !.ok = ok]
    BY <1>1, <1>3 DEF Return
  <2> QED
    BY <1>1, <2>1 DEF Now, CallRecord
<1>4. ASSUME NEW route, NEW va, NEW sz, Grant(Main, route, va, sz)
      PROVE  Now'.pc = "rsv_commit" /\ Now'.va = va
  <2>1. call'[Main] = [call[Main] EXCEPT !.pc = "rsv_commit", !.route = route,
                                         !.va = va, !.sz = sz]
    BY <1>1, <1>4 DEF Grant
  <2> QED
    BY <1>1, <2>1 DEF Now, CallRecord
<1> QED
  BY <1>2, <1>3, <1>4

-----------------------------------------------------------------------------
(* Reserving.                                                              *)

(* An empty arena is filled from its base when the band is at its start.   *)
LEMMA EmptyStart ==
  ASSUME PackInv, NEW req \in Nat, TryFits(req), arena.next = 0 => bandSeq = 0
  PROVE  TryOffset(req) = arena.next
<1> DEFINE need == PlacementRound(req)
<1>1. need \in Nat \ {0} /\ arena.len \in Nat
  BY PlacementHolds DEF PackInv, PackTypeOK, ArenaRecord
<1> HIDE DEF need
<1>2. CASE TwoAdic /\ arena.next = 0
  <2>1. SlotsPerLeaf(need, arena.len) \in Nat
    BY <1>1, DivMod DEF SlotsPerLeaf
  <2>2. OffsetInLeaf(bandSeq, need, arena.len) = 0
    BY <1>1, <1>2, <2>1 DEF OffsetInLeaf
  <2> QED
    BY <1>2, <2>2 DEF TryOffset, need
<1>3. CASE ~(TwoAdic /\ arena.next = 0)
  BY <1>3 DEF TryOffset
<1> QED
  BY <1>2, <1>3

(* A slice granted by the arena.                                           *)
LEMMA SlicePlaced ==
  ASSUME PackInv, ArenaReady, PackOn, NeedReq \in Nat, Charge \in Nat \ {0}, Charge <= Leaf,
         TryReserve(NeedReq), PoolHeld, MemoryKept, LiveOK
  PROVE  \A va : va = arena.base + TryOffset(NeedReq) => Placed(va)'
<1> SUFFICES ASSUME NEW va, va = arena.base + TryOffset(NeedReq)
             PROVE  Placed(va)'
  OBVIOUS
<1>1. /\ arena.active /\ arena \in ArenaRecord
      /\ TryOffset(NeedReq) = arena.next /\ arena.next + Charge <= arena.len
  BY GrantFits, EmptyStart DEF TryReserve, PackInv, PackTypeOK, ArenaReady, Charge
<1>2. /\ arena' = [arena EXCEPT !.next = arena.next + Charge]
      /\ handleRefs' = handleRefs /\ physLen' = physLen /\ mappings' = mappings
  BY <1>1 DEF TryReserve, Charge, MemoryKept
<1>3. /\ arena'.active /\ arena'.base = arena.base /\ arena'.len = arena.len
      /\ arena'.handle = arena.handle /\ arena'.next = arena.next + Charge
      /\ arena.base \in Nat /\ arena.len \in Nat /\ arena.next \in Nat /\ Leaf \in Nat
  BY <1>1, <1>2, LeafAssumption DEF ArenaRecord
<1>4. /\ Charge' = Charge /\ \A lo, hi : Clear(lo, hi)' = Clear(lo, hi)
  BY SpansSame
<1>5. ArenaHeld /\ ArenaHeld' /\ arena.handle # NoHandle
  BY <1>1, <1>2, <1>3 DEF ArenaReady, ArenaHeld
<1>6. va = arena.base + arena.next
  BY <1>1
<1>7. CASE arena.next = 0
  <2>1. Outer(va)'
    BY <1>3, <1>4, <1>5, <1>6, <1>7 DEF Outer, PackedSubVa
  <2> QED
    BY <2>1 DEF Placed
<1>8. CASE arena.next # 0
  <2>1. PackedSubVa(va)'
    BY <1>1, <1>3, <1>6, <1>8 DEF PackedSubVa, ArenaEnd
  <2>2. Clear(va, ArenaEnd)'
    BY <1>1, <1>3, <1>4, <1>6, <1>8 DEF ArenaReady, ArenaEnd
  <2>3. Inner(va)'
    BY <1>3, <1>4, <1>5, <1>6, <2>1, <2>2 DEF Inner
  <2> QED
    BY <2>3 DEF Placed
<1> QED
  BY <1>7, <1>8

(* A leaf cut from the mega window, or the first of a new one.             *)
LEMMA LeafPlaced ==
  ASSUME PoolHeld, Charge <= Leaf \/ bandSeq = 0, PackOn, UNCHANGED bandSeq,
         NEW va \in Nat, arena' = FreshArena(va, Leaf)
  PROVE  Outer(va)' /\ Placed(va)'
<1>1. Charge' = Charge
  BY SpansSame
<1>2. /\ arena'.active /\ arena'.base = va /\ arena'.len = Leaf /\ arena'.next = 0
      /\ bandSeq' = bandSeq
  BY DEF FreshArena
<1>3. Outer(va)'
  BY <1>1, <1>2 DEF Outer, PackedSubVa
<1> QED
  BY <1>3 DEF Placed

(* An address range the driver gives out is nobody's.                      *)
LEMMA RoomPlaced ==
  ASSUME PackInv, DriverOK, ArenaReady, Charge <= Leaf \/ bandSeq = 0,
         NEW len \in Nat \ {0}, Rooms(len) # {},
         NEW va, va = NextRoom(len)
  PROVE  Outer(va)
<1>1. Rooms(len) \subseteq Nat
  BY DriverAssumption DEF Rooms
<1>2. va \in Rooms(len) /\ va \in Nat
  BY <1>1, MinMember DEF NextRoom
<1>3. \A r \in reserved : ~Meet(va, len, r.base, r.len)
  BY <1>2 DEF Rooms, RoomAt
<1>4. ASSUME arena.active
      PROVE  PackOn /\ arena.handle # NoHandle /\ ~PackedSubVa(va)
  <2>1. PackOn /\ ArenaHeld
    BY <1>4 DEF ArenaReady
  <2>2. PICK m \in mappings : m.va = arena.base /\ arena.len <= m.len
    BY <2>1 DEF ArenaHeld
  <2>3. PICK r \in reserved : r.base <= m.va /\ m.va + m.len <= r.base + r.len
    BY DEF DriverOK
  <2>4. r.base \in Nat /\ r.len \in Nat /\ m.va \in Nat /\ m.len \in Nat
    BY DEF DriverOK
  <2>5. arena.base \in Nat /\ arena.len \in Nat
    BY DEF PackInv, PackTypeOK, ArenaRecord
  <2>6. ~Meet(va, len, r.base, r.len)
    BY <1>3
  <2>7. ~PackedSubVa(va)
    BY <1>2, <2>2, <2>3, <2>4, <2>5, <2>6 DEF PackedSubVa, ArenaEnd, Meet
  <2> QED
    BY <2>1, <2>7 DEF ArenaHeld
<1>5. CASE arena.active
  BY <1>4, <1>5 DEF Outer
<1>6. CASE ~arena.active
  BY <1>6 DEF Outer, PackedSubVa
<1> QED
  BY <1>5, <1>6

LEMMA SizeToReserve ==
  ASSUME Now.size \in Nat \ {0}
  PROVE  DriverSize(Main) \in Nat \ {0}
BY WindowSizeNat, LeafAssumption DEF DriverSize, Now

LEMMA ReserveFillSame ==
  ASSUME PoolHeld, LeavesKept, MemoryKept
  PROVE  \A c : ReserveFill(c)' = ReserveFill(c)
<1>1. /\ NeedReq' = NeedReq /\ Charge' = Charge /\ ArenaReady' = ArenaReady
      /\ bandSeq' = bandSeq
      /\ \A va : Placed(va)' = Placed(va) /\ Outer(va)' = Outer(va)
  BY SpansSame, LeavesSame DEF PoolHeld, LeavesKept
<1> QED
  BY <1>1 DEF ReserveFill

(* Steps that take nothing and place nothing.                              *)
QuietReserve ==
  \/ RsvBegin(Main) \/ RsvReq(Main) \/ RsvNoAlias(Main) \/ RsvCommit(Main)
  \/ RsvMark(Main) \/ RsvOff(Main) \/ RsvSetOff(Main) \/ RsvLeafOff(Main)
  \/ RsvRegister(Main) \/ RsvRollback(Main) \/ RsvDriverCommit(Main)
  \/ RsvDriverRegister(Main)

LEMMA ReserveFillsQuietly ==
  ASSUME ~GqaOn, CallsOK, Now.size = NeedReq, Charge \in Nat, NeedReq \in Nat,
         NeedReq <= Leaf => Charge <= Leaf, ReserveFill(Now), QuietReserve
  PROVE  ReserveFill(Now')
<1>1. /\ \A q : Goto(Main, q) => Now'.pc = q /\ Now'.va = Now.va
      /\ \A ok : Return(Main, ok) => Now'.pc = "done" /\ Now'.ok = ok /\ Now'.va = Now.va
  BY NowMoves
<1>2. \A va : Outer(va) => Placed(va)
  BY DEF Placed
<1>3. CASE RsvBegin(Main) \/ RsvReq(Main) \/ RsvRollback(Main)
  <2>1. /\ Now.pc \in {"rsv_begin", "rsv_req", "rsv_rollback"}
        /\ \/ Now.pc # "rsv_rollback" /\ Now'.pc \in {"rsv_req", "rsv_gqa"}
           \/ Now'.pc = "done" /\ ~Now'.ok
    BY <1>1, <1>3 DEF RsvBegin, RsvReq, RsvRollback, At, Now
  <2> QED
    BY <2>1 DEF ReserveFill, SeekPc, CommitPc, Granted, GrantedPc, Succeeded
<1>4. CASE RsvNoAlias(Main)
  <2>1. /\ Now.pc = "rsv_gqa" /\ Leaf \in Nat
        /\ \/ NeedReq > Leaf /\ Now'.pc = "rsv_flush"
           \/ NeedReq <= Leaf /\ PackOn /\ Now'.pc = "rsv_try"
           \/ NeedReq <= Leaf /\ ~PackOn /\ Now'.pc = "rsv_driver"
    <3>1. Now.pc = "rsv_gqa" /\ Leaf \in Nat
      BY <1>4, LeafAssumption DEF RsvNoAlias, At, Now
    <3>2. CASE NeedReq > Leaf
      BY <1>1, <1>4, <3>1, <3>2 DEF RsvNoAlias, Now
    <3>3. CASE NeedReq <= Leaf /\ PackOn
      BY <1>1, <1>4, <3>1, <3>3 DEF RsvNoAlias, Now
    <3>4. CASE NeedReq <= Leaf /\ ~PackOn
      BY <1>1, <1>4, <3>1, <3>4 DEF RsvNoAlias, Now
    <3> QED
      BY <3>1, <3>2, <3>3, <3>4, ShimAssumption
  <2> QED
    BY <2>1 DEF ReserveFill, SeekPc, CommitPc, Granted, GrantedPc, Succeeded
<1>5. CASE \/ RsvCommit(Main) \/ RsvMark(Main) \/ RsvOff(Main) \/ RsvSetOff(Main)
           \/ RsvLeafOff(Main) \/ RsvRegister(Main)
  <2>1. /\ Now.pc = "rsv_commit" \/ Granted(Now)
        /\ Now'.va = Now.va
        /\ Now'.pc \in {"rsv_mark", "rsv_off", "rsv_setoff", "rsv_register", "done"}
    <3>1. CASE RsvCommit(Main) \/ RsvMark(Main) \/ RsvRegister(Main)
      BY <1>1, <3>1 DEF RsvCommit, RsvMark, RsvRegister, At, Now, Granted, GrantedPc
    <3>2. CASE RsvOff(Main) \/ RsvLeafOff(Main)
      BY <3>2, AtStep, OneThread
      DEF RsvOff, RsvLeafOff, At, Now, Granted, GrantedPc, CallsOK, CallRecord
    <3>3. CASE RsvSetOff(Main)
      BY <1>1, <3>3 DEF RsvSetOff, At, Now, Granted, GrantedPc
    <3> QED
      BY <1>5, <3>1, <3>2, <3>3
  <2> QED
    BY <2>1 DEF ReserveFill, SeekPc, CommitPc, GrantedPc
<1>6. CASE RsvDriverCommit(Main) \/ RsvDriverRegister(Main)
  <2>1. /\ Now.pc \in {"rsv_dcommit", "rsv_dregister"} /\ Now'.va = Now.va
        /\ Now'.pc = "done" \/ (Now'.pc = "rsv_window" /\ PackOn)
    BY <1>1, <1>6 DEF RsvDriverCommit, RsvDriverRegister, AfterDriverCommit, OpensWindow,
       At, Now
  <2> QED
    BY <1>2, <2>1 DEF ReserveFill, SeekPc, CommitPc, GrantedPc
<1> QED
  BY <1>3, <1>4, <1>5, <1>6 DEF QuietReserve

(* Reserving keeps the live slots as they are, and gives the slot at hand  *)
(* an address of its own.                                                  *)
LEMMA ReserveFills ==
  ASSUME ~GqaOn, ControlInv, Keeps, InCall, work.plan = MapPlan, LiveOK, ReserveFill(Now)
  PROVE  LiveOK' /\ ReserveFill(Now)'
<1>1. /\ CallsOK /\ PackInv /\ ReserveStep(Main) /\ DriverOK
      /\ Now.size = NeedReq /\ PoolHeld /\ Slot.req \in Nat \ {0} /\ Charge' = Charge
  <2>1. /\ ShimInv /\ CallsOK /\ PackInv /\ Now.op = "reserve" /\ CallFits
        /\ ShimStep(Main) /\ PoolHeld /\ Charge' = Charge
    BY FillCall, FillPlans, BenchHoldsPool DEF ShimInv, StateOK
  <2>2. ReserveStep(Main)
    BY <2>1, StepOfOp, OneThread DEF Now
  <2>3. work.kind = "map" /\ Slot.req \in Nat \ {0}
    BY FillPlans DEF ControlInv, KindOK, PoolOK, WorkRecord, PoolSlot, Slot, InCall, Busy,
       BackPlans, CyclePlans, MapPlan, Keeps
  <2> QED
    BY <2>1, <2>2, <2>3 DEF CallFits, NeedReq, ControlInv
<1>2. /\ NeedReq \in Nat \ {0} /\ Charge \in Nat \ {0}
      /\ NeedReq <= Leaf => Charge <= Leaf
  BY <1>1, SlotSizes
<1>3. PICK c : c = Now'
  OBVIOUS
<1>4. ASSUME QuietReserve
      PROVE  LiveOK' /\ ReserveFill(Now)'
  <2>1. LeavesKept /\ MemoryKept
    BY <1>4 DEF QuietReserve, RsvBegin, RsvReq, RsvNoAlias, RsvCommit, RsvMark, RsvOff,
       RsvSetOff, RsvLeafOff, RsvRegister, RsvRollback, RsvDriverCommit, RsvDriverRegister,
       OnlySlots, OnlyCall, OnlyBuckets, LeavesKept, MemoryKept, packVars, driverVars, shimVars
  <2>2. ReserveFill(c)
    BY <1>1, <1>2, <1>3, <1>4, ReserveFillsQuietly
  <2>3. ReserveFill(c)'
    BY <1>1, <2>1, <2>2, ReserveFillSame
  <2> QED
    BY <1>1, <1>3, <2>1, <2>3, LiveSame
<1>5. /\ \A q : Goto(Main, q) => Now'.pc = q /\ Now'.va = Now.va
      /\ \A ok : Return(Main, ok) => Now'.pc = "done" /\ Now'.ok = ok /\ Now'.va = Now.va
      /\ \A route, va, sz : Grant(Main, route, va, sz) =>
           Now'.pc = "rsv_commit" /\ Now'.va = va
  BY <1>1, NowMoves
<1>6. ASSUME RsvFlush(Main) \/ RsvTry(Main) \/ RsvMega(Main) \/ RsvWindow(Main)
      PROVE  LiveOK' /\ MemoryKept
  <2>1. MemoryKept
    BY <1>6 DEF RsvFlush, RsvTry, RsvMega, RsvWindow, OnlyPack, MemoryKept, driverVars
  <2> QED
    BY <1>1, <2>1, LiveSame
<1>7. CASE RsvFlush(Main)
  <2>1. Now'.pc = "rsv_driver" /\ arena' = NoArena /\ bandSeq' = 0
    BY <1>5, <1>7 DEF RsvFlush, PackFlush
  <2>2. ArenaReady' /\ bandSeq' = 0
    BY <2>1 DEF ArenaReady, NoArena
  <2> QED
    BY <1>6, <1>7, <2>1, <2>2 DEF ReserveFill, SeekPc, CommitPc, Granted, GrantedPc, Succeeded
<1>8. CASE RsvTry(Main)
  <2>1. ArenaReady /\ PackOn /\ NeedReq <= Leaf
    BY <1>8 DEF RsvTry, At, Now, ReserveFill, SeekPc
  <2>2. CASE TryReserve(NeedReq) /\ Grant(Main, "sub", arena.base + TryOffset(NeedReq),
                                          PlacementRound(NeedReq))
    <3>1. c.va = arena.base + TryOffset(NeedReq) /\ c.pc = "rsv_commit"
      BY <1>3, <1>5, <2>2
    <3>2. Placed(c.va)'
      BY <1>1, <1>2, <1>6, <1>8, <2>1, <2>2, <3>1, SlicePlaced
    <3>3. ReserveFill(c)'
      BY <3>1, <3>2 DEF ReserveFill, SeekPc, CommitPc
    <3> QED
      BY <1>3, <1>6, <1>8, <3>3
  <2>3. CASE Goto(Main, "rsv_mega") /\ UNCHANGED packVars
    <3>1. c.pc = "rsv_mega"
      BY <1>3, <1>5, <2>3
    <3>2. LeavesKept
      BY <2>3 DEF LeavesKept, packVars
    <3>3. ReserveFill(c)
      BY <2>1, <3>1 DEF ReserveFill, SeekPc, CommitPc, Granted, GrantedPc, Succeeded
    <3>4. ReserveFill(c)'
      BY <1>1, <1>6, <1>8, <3>2, <3>3, ReserveFillSame
    <3> QED
      BY <1>3, <1>6, <1>8, <3>4
  <2> QED
    BY <1>1, <1>8, <2>2, <2>3 DEF RsvTry, Now
<1>9. CASE RsvMega(Main)
  <2>1. ArenaReady /\ PackOn /\ Charge <= Leaf
    BY <1>2, <1>9 DEF RsvMega, At, Now, ReserveFill, SeekPc
  <2>2. CASE TakeMegaLeaf /\ Grant(Main, "leaf", NextLeafBase, Leaf)
    <3>1. c.va = NextLeafBase /\ c.pc = "rsv_commit" /\ c.va \in Nat
      BY <1>1, <1>3, <1>5, <2>2, NextLeaf DEF TakeMegaLeaf
    <3>2. arena' = FreshArena(c.va, Leaf) /\ UNCHANGED bandSeq
      BY <2>2, <3>1 DEF TakeMegaLeaf
    <3>3. Placed(c.va)'
      BY <1>1, <2>1, <3>1, <3>2, LeafPlaced
    <3>4. ReserveFill(c)'
      BY <3>1, <3>3 DEF ReserveFill, SeekPc, CommitPc
    <3> QED
      BY <1>3, <1>6, <1>9, <3>4
  <2>3. CASE Goto(Main, "rsv_driver") /\ UNCHANGED packVars
    <3>1. c.pc = "rsv_driver"
      BY <1>3, <1>5, <2>3
    <3>2. LeavesKept
      BY <2>3 DEF LeavesKept, packVars
    <3>3. ReserveFill(c)
      BY <2>1, <3>1 DEF ReserveFill, SeekPc, CommitPc, Granted, GrantedPc, Succeeded
    <3>4. ReserveFill(c)'
      BY <1>1, <1>6, <1>9, <3>2, <3>3, ReserveFillSame
    <3> QED
      BY <1>3, <1>6, <1>9, <3>4
  <2> QED
    BY <1>9, <2>2, <2>3 DEF RsvMega
<1>10. CASE RsvDriver(Main)
  <2>1. ArenaReady /\ (Charge <= Leaf \/ bandSeq = 0) /\ LeavesKept /\ MemoryKept
    BY <1>10 DEF RsvDriver, At, Now, ReserveFill, SeekPc, OnlyDriver, shimVars, packVars,
       DriverReserve, LeavesKept, MemoryKept, driverVars
  <2>2. ReserveFill(c)
    <3>1. CASE Now'.pc = "rsv_dcommit"
      <4>1. c.va = NextRoom(DriverSize(Main)) /\ Rooms(DriverSize(Main)) # {}
        <5>1. /\ DriverReserve(DriverSize(Main))
              /\ call' = [call EXCEPT ![Main].pc = "rsv_dcommit", ![Main].sz = DriverSize(Main),
                                ![Main].va = NextRoom(DriverSize(Main))]
          BY <1>5, <1>10, <3>1 DEF RsvDriver
        <5>2. call'[Main].va = NextRoom(DriverSize(Main))
          BY <1>1, <5>1, OneThread DEF CallsOK, CallRecord
        <5> QED
          BY <1>3, <5>1, <5>2 DEF DriverReserve, Now
      <4>2. DriverSize(Main) \in Nat \ {0}
        BY <1>1, <1>2, SizeToReserve
      <4>3. Outer(c.va)
        BY <1>1, <2>1, <4>1, <4>2, RoomPlaced
      <4> QED
        BY <1>3, <3>1, <4>3 DEF ReserveFill, SeekPc, CommitPc, Placed
    <3>2. CASE Now'.pc # "rsv_dcommit"
      <4>1. c.pc = "rsv_rollback"
        <5>1. Goto(Main, "rsv_rollback") \/ Now'.pc = "rsv_dcommit"
          BY <1>1, <1>10, OneThread DEF RsvDriver, Now, CallsOK, CallRecord
        <5> QED
          BY <1>3, <1>5, <3>2, <5>1
      <4> QED
        BY <4>1 DEF ReserveFill, SeekPc, CommitPc, Granted, GrantedPc, Succeeded
    <3> QED
      BY <3>1, <3>2
  <2> QED
    BY <1>1, <1>3, <2>1, <2>2, ReserveFillSame, LiveSame
<1>11. CASE RsvWindow(Main)
  <2>1. Outer(Now.va) /\ PackOn /\ Now.va \in Nat
    BY <1>1, <1>11, AtStep, OneThread DEF RsvWindow, At, Now, ReserveFill
  <2>2. MegaOpen(Now.va, Now.sz) /\ c.pc = "done" /\ c.va = Now.va
    BY <1>3, <1>5, <1>11 DEF RsvWindow, Now
  <2>3. arena' = FreshArena(c.va, Leaf) /\ UNCHANGED bandSeq
    BY <2>2 DEF MegaOpen
  <2>4. Placed(c.va)'
    BY <1>1, <2>1, <2>2, <2>3, LeafPlaced DEF Outer
  <2>5. ReserveFill(c)'
    BY <2>2, <2>4 DEF ReserveFill, SeekPc, CommitPc
  <2> QED
    BY <1>3, <1>6, <1>11, <2>5
<1>12. ~RsvAlias(Main)
  BY DEF RsvAlias, TryAlias, AliasFits
<1> QED
  BY <1>1, <1>4, <1>7, <1>8, <1>9, <1>10, <1>11, <1>12 DEF ReserveStep, QuietReserve

-----------------------------------------------------------------------------
(* Making memory.                                                          *)

LEMMA CreateFillSame ==
  ASSUME PoolHeld, LeavesKept, MemoryKept, Slot' = Slot
  PROVE  \A c : CreateFill(c)' = CreateFill(c)
<1>0. PICK va : va = Slot.va /\ va = Slot'.va
  OBVIOUS
<1>1. /\ arena' = arena /\ handleRefs' = handleRefs
      /\ \A h : NewMemory(h)' = NewMemory(h)
      /\ Placed(va)' = Placed(va) /\ Outer(va)' = Outer(va) /\ Inner(va)' = Inner(va)
  BY LeavesSame DEF LeavesKept
<1>2. \A h : BoundTo(va, h)' = BoundTo(va, h)
  BY MemorySame
<1>3. /\ Placed(Slot.va)' = Placed(va) /\ Outer(Slot.va)' = Outer(va)
      /\ Inner(Slot.va)' = Inner(va)
      /\ \A h : BoundTo(Slot.va, h)' = BoundTo(va, h)
  BY <1>0, <1>1, <1>2
<1> QED
  BY <1>0, <1>1, <1>3 DEF CreateFill

LEMMA OuterSame ==
  ASSUME PoolHeld, LeavesKept
  PROVE  \A va : Outer(va)' = Outer(va) /\ PackedSubVa(va)' = PackedSubVa(va)
<1>1. Charge' = Charge
  BY SpansSame
<1> QED
  BY <1>1 DEF Outer, PackedSubVa, ArenaEnd, LeavesKept

(* A create is answered with the arena's handle when its slot is a slice   *)
(* of the arena, and only then.                                            *)
LEMMA SharesWhenInner ==
  ASSUME SlotInv, Slot.va \in Nat, Seated(Slot.va, FALSE), Placed(Slot.va)
  PROVE  IF SharesHandle THEN Inner(Slot.va) ELSE Outer(Slot.va)
<1>1. PICK c \in Index : SeatedAt(c, Slot.va, FALSE) /\ Slot.va # NoVa
  BY DEF Seated
<1>2. CreateTarget = c /\ c \in Used /\ slots[c].va = Slot.va
  BY <1>1, SeatIsTarget DEF SeatedAt
<1>3. SharesHandle <=> PackOn /\ PackedSubVa(Slot.va) /\ arena.handle # NoHandle
  BY <1>2 DEF SharesHandle
<1> QED
  BY <1>3 DEF Placed, Inner, Outer, ArenaHeld

(* One more reference on the leaf.                                         *)
LEMMA LeafRetained ==
  ASSUME PackInv, PoolHeld, MemoryKept, RetainHandle, NEW va, Inner(va)
  PROVE  Inner(va)' /\ handleRefs' > 1 /\ arena' = arena
<1>1. /\ arena.active /\ handleRefs > 0 /\ handleRefs \in Nat /\ ArenaHeld
  BY DEF Inner, PackedSubVa, ArenaHeld, PackInv, PackTypeOK
<1>2. handleRefs' = handleRefs + 1 /\ arena' = arena
  BY <1>1 DEF RetainHandle
<1>3. ArenaHeld'
  BY <1>1, <1>2 DEF ArenaHeld, MemoryKept
<1>4. Charge' = Charge /\ \A lo, hi : Clear(lo, hi)' = Clear(lo, hi)
  BY SpansSame
<1>5. Clear(va, ArenaEnd)' = Clear(va, ArenaEnd)
  BY <1>2, <1>4 DEF Clear, ArenaEnd
<1>6. Inner(va)'
  BY <1>2, <1>3, <1>4, <1>5 DEF Inner, PackedSubVa, ArenaEnd
<1> QED
  BY <1>1, <1>2, <1>6

(* New memory is no live slot's, and takes nothing from them.              *)
LEMMA MemoryMade ==
  ASSUME DriverOK, PoolHeld, LiveOK, NEW len \in Nat \ {0}, NEW h \in FreshHandles,
         DriverCreate(h, len)
  PROVE  LiveOK' /\ NewMemory(h)'
<1>1. /\ physLen' = [physLen EXCEPT ![h] = len] /\ mappings' = mappings
      /\ h \in Handle \ {NoHandle} /\ physLen[h] = 0 /\ physLen \in [Handle -> Nat]
  BY DEF DriverCreate, FreshHandles, DriverOK
<1>2. /\ Live' = Live /\ \A i \in Live : pool'[i] = pool[i]
      /\ \A i \in Live : SpanOf(i)' = SpanOf(i)
      /\ LiveApart' = LiveApart
  BY SpansSame DEF PoolHeld
<1>3. \A i \in Live : physLen[pool[i].h] > 0
  BY DEF LiveOK, LiveBacked
<1>4. NotLive(h)'
  BY <1>1, <1>2, <1>3 DEF NotLive
<1>5. \A g : physLen'[g] = physLen[g] \/ g = h
  BY <1>1
<1>6. \A i \in Live : pool[i].h # h
  BY <1>1, <1>3
<1>7. LiveOK'
  BY <1>1, <1>2, <1>5, <1>6 DEF LiveOK, LiveBacked, BackedBy
<1> QED
  BY <1>1, <1>4, <1>7 DEF NewMemory

(* The arena is opened on the slot's own memory.                           *)
LEMMA LeafOpened ==
  ASSUME PackInv, PoolHeld, MemoryKept, PackOn, NEW va \in Nat, NEW h \in Handle,
         Outer(va), NewMemory(h), Charge \in Nat, Bytes \in Nat, Charge <= Bytes,
         Leaf <= Bytes, OpenArena(va, Bytes, h)
  PROVE  OwnLeaf(va, h)'
<1>1. Charge' = Charge /\ Bytes' = Bytes /\ NotLive(h)' = NotLive(h)
  BY SpansSame DEF PoolHeld
<1>2. NewMemory(h)'
  BY <1>1 DEF NewMemory, MemoryKept
<1>3. /\ arena'.base = va /\ arena'.handle = h /\ arena'.next = 0 /\ handleRefs' = 1
      /\ \/ arena'.len = Leaf /\ bandSeq' = bandSeq
         \/ arena'.len = Bytes
  <2>1. CASE OpenArenaAtBase(va, Bytes, h)
    BY <2>1 DEF OpenArenaAtBase, Outer, PackInv, PackTypeOK, ArenaRecord
  <2>2. CASE OpenArenaFresh(va, Bytes, h)
    BY <2>2 DEF OpenArenaFresh, FreshArena
  <2> QED
    BY <2>1, <2>2 DEF OpenArena
<1>4. OwnArena(va, h)'
  BY <1>1, <1>3 DEF OwnArena, Outer
<1> QED
  BY <1>2, <1>4 DEF OwnLeaf

(* Making memory keeps the live slots as they are, and leaves the slot at  *)
(* hand bound to the arena's memory, as one of its slices, or to new       *)
(* memory that is the arena's too.                                         *)
LEMMA CreateFills ==
  ASSUME ControlInv, Keeps, InCall, work.plan = CreatePlan, CreateTable, LiveOK,
         CreateFill(Now)
  PROVE  LiveOK' /\ CreateFill(Now)'
<1>1. /\ ShimInv /\ CallsOK /\ SlotInv /\ PackInv /\ CreateStep(Main) /\ DriverOK
      /\ Now.size = CreateBytes(Slot.req) /\ PoolHeld /\ Slot' = Slot
      /\ Slot.req \in Nat \ {0} /\ Slot.va \in Nat /\ Now.h \in Handle
  <2>1. /\ ShimInv /\ CallsOK /\ SlotInv /\ PackInv /\ Now.op = "create" /\ CallFits
        /\ ShimStep(Main) /\ PoolHeld /\ Slot' = Slot
    BY FillCall, FillPlans, BenchHoldsPool
  <2>2. CreateStep(Main) /\ Now.h \in Handle
    BY <2>1, StepOfOp, AtStep, OneThread DEF Now
  <2>3. work.kind = "map" /\ Slot.req \in Nat \ {0} /\ Slot.va \in Nat
    BY FillPlans DEF ControlInv, KindOK, PoolOK, WorkRecord, PoolSlot, Slot, InCall, Busy,
       BackPlans, CyclePlans, CreatePlan, Keeps
  <2> QED
    BY <2>1, <2>2, <2>3 DEF CallFits, ControlInv
<1>2. /\ Charge \in Nat /\ Bytes \in Nat \ {0} /\ Charge <= Bytes /\ Leaf <= Bytes
      /\ CreateRoundSize(Now.size) = Bytes
  BY <1>1, SlotSizes
<1>3. PICK c : c = Now'
  OBVIOUS
<1>4. PICK va \in Nat : va = Slot.va /\ va = Slot'.va
  BY <1>1
<1>5. /\ \A q : Goto(Main, q) => Now'.pc = q /\ Now'.va = Now.va /\ Now'.h = Now.h
      /\ \A ok : Return(Main, ok) => Now'.pc = "done" /\ Now'.ok = ok /\ Now'.h = Now.h
  BY <1>1, NowMoves
<1>6. Now'.op = "create"
  BY FillCall, FillPlans
<1>7. ASSUME LeavesKept, MemoryKept, CreateFill(c)
      PROVE  LiveOK' /\ CreateFill(Now)'
  <2>1. CreateFill(c)'
    BY <1>1, <1>7, CreateFillSame
  <2> QED
    BY <1>1, <1>3, <1>7, <2>1, LiveSame
<1>8. CASE CrtPacked(Main)
  <2>1. LeavesKept /\ MemoryKept /\ Seated(va, FALSE) /\ Placed(va)
    BY <1>4, <1>8 DEF CrtPacked, At, Now, OnlyCall, shimVars, packVars, driverVars,
       LeavesKept, MemoryKept, CreateTable, AskedPc, CreateFill
  <2>2. IF SharesHandle THEN Inner(va) ELSE Outer(va)
    BY <1>1, <1>4, <2>1, SharesWhenInner
  <2>3. \/ SharesHandle /\ Now'.pc = "crt_retain" /\ Now'.h = arena.handle
        \/ ~SharesHandle /\ Now'.pc = "crt_validate"
    <3>1. CASE SharesHandle
      BY <1>1, <1>8, <3>1, OneThread DEF CrtPacked, Now, CallsOK, CallRecord
    <3>2. CASE ~SharesHandle
      BY <1>5, <1>8, <3>2 DEF CrtPacked
    <3> QED
      BY <3>1, <3>2
  <2>4. CreateFill(c)
    BY <1>3, <1>4, <2>2, <2>3 DEF CreateFill, Bound, BoundPc, Succeeded
  <2> QED
    BY <1>7, <2>1, <2>4
<1>9. CASE CrtRetain(Main)
  <2>1. /\ RetainHandle /\ MemoryKept /\ Inner(va) /\ Now.h = arena.handle
        /\ Now'.pc = "crt_share" /\ Now'.h = Now.h
    BY <1>4, <1>5, <1>9 DEF CrtRetain, At, Now, OnlyPack, driverVars, MemoryKept, CreateFill
  <2>2. Inner(va)' /\ handleRefs' > 1 /\ arena' = arena
    BY <1>1, <2>1, LeafRetained
  <2> QED
    BY <1>1, <1>4, <2>1, <2>2, LiveSame DEF CreateFill, Bound, BoundPc, Succeeded
<1>10. CASE CrtShare(Main)
  <2>1. /\ LeavesKept /\ MemoryKept /\ Inner(va) /\ Now.h = arena.handle /\ handleRefs > 1
        /\ Now'.pc = "done" /\ Now'.h = Now.h
    BY <1>4, <1>5, <1>10 DEF CrtShare, At, Now, OnlySlots, packVars, driverVars,
       LeavesKept, MemoryKept, CreateFill
  <2>2. CreateFill(c)
    BY <1>3, <1>4, <2>1 DEF CreateFill, Bound, BoundPc, Succeeded, BoundTo, SharedLeaf
  <2> QED
    BY <1>7, <2>1, <2>2
<1>11. CASE CrtValidate(Main)
  <2>1. /\ LeavesKept /\ MemoryKept /\ Outer(va)
        /\ Now'.pc = "crt_driver" \/ (Now'.pc = "done" /\ ~Now'.ok)
    BY <1>4, <1>5, <1>11 DEF CrtValidate, At, Now, OnlyCall, shimVars, packVars, driverVars,
       LeavesKept, MemoryKept, CreateFill
  <2>2. CreateFill(c)
    BY <1>3, <1>4, <2>1 DEF CreateFill, Bound, BoundPc, Succeeded
  <2> QED
    BY <1>7, <2>1, <2>2
<1>12. CASE CrtDriver(Main)
  <2>1. Outer(va) /\ LeavesKept
    BY <1>4, <1>12 DEF CrtDriver, At, Now, OnlyDriver, shimVars, packVars, LeavesKept, CreateFill
  <2>2. ASSUME NEW h \in FreshHandles, DriverCreate(h, Bytes),
               call' = [call EXCEPT ![Main].pc = "crt_bind", ![Main].h = h]
        PROVE  LiveOK' /\ CreateFill(Now)'
    <3>1. LiveOK' /\ NewMemory(h)'
      BY <1>1, <1>2, <2>2, MemoryMade
    <3>2. Now'.pc = "crt_bind" /\ Now'.h = h
      BY <1>1, <2>2, OneThread DEF Now, CallsOK, CallRecord
    <3>3. Outer(va)'
      BY <1>1, <2>1, OuterSame
    <3> QED
      BY <1>4, <3>1, <3>2, <3>3 DEF CreateFill, Bound, BoundPc, Succeeded
  <2>3. CASE Return(Main, FALSE) /\ UNCHANGED driverVars
    <3>1. Now'.pc = "done" /\ ~Now'.ok /\ MemoryKept
      BY <1>5, <2>3 DEF driverVars, MemoryKept
    <3>2. CreateFill(c)
      BY <1>3, <3>1 DEF CreateFill, Bound, BoundPc, Succeeded
    <3> QED
      BY <1>7, <2>1, <3>1, <3>2
  <2> QED
    BY <1>2, <1>12, <2>2, <2>3 DEF CrtDriver, Now
<1>13. CASE CrtBind(Main)
  <2>1. /\ LeavesKept /\ MemoryKept /\ Outer(va) /\ NewMemory(Now.h) /\ Now'.h = Now.h
        /\ \/ PackOn /\ Now'.pc = "crt_snapshot"
           \/ ~PackOn /\ Now'.pc = "done"
    BY <1>4, <1>5, <1>13 DEF CrtBind, At, Now, OnlySlots, packVars, driverVars,
       LeavesKept, MemoryKept, CreateFill
  <2>2. ~PackOn => OwnArena(va, Now.h)
    BY <2>1 DEF Outer, OwnArena
  <2>3. CreateFill(c)
    BY <1>3, <1>4, <2>1, <2>2 DEF CreateFill, Bound, BoundPc, Succeeded, BoundTo, OwnLeaf
  <2> QED
    BY <1>7, <2>1, <2>3
<1>14. CASE CrtSnapshot(Main)
  <2>1. /\ LeavesKept /\ MemoryKept /\ Outer(va) /\ NewMemory(Now.h) /\ PackOn
        /\ legacyVa = Slot.va /\ Slot.va # NoVa
    BY <1>4, <1>14 DEF CrtSnapshot, At, Now, OnlyCall, shimVars, packVars, driverVars,
       LeavesKept, MemoryKept, CreateFill, CreateTable, Bound, BoundPc, Seated
  <2>2. Now'.pc = "crt_open" /\ Now'.h = Now.h
    BY <1>1, <1>14, <2>1, OneThread DEF CrtSnapshot, Now, CallsOK, CallRecord
  <2>3. CreateFill(c)
    BY <1>3, <1>4, <2>1, <2>2 DEF CreateFill, Bound, BoundPc, Succeeded
  <2> QED
    BY <1>7, <2>1, <2>3
<1>15. CASE CrtOpen(Main)
  <2>1. /\ MemoryKept /\ Outer(va) /\ NewMemory(Now.h) /\ PackOn
        /\ Now'.pc = "done" /\ Now'.h = Now.h
        /\ OpenArena(va, Bytes, Now.h)
    <3>1. Now.va = va /\ legacyVa = va
      BY <1>4, <1>15 DEF CrtOpen, At, Now, CreateTable, Bound, BoundPc
    <3>2. OpenArena(va, Bytes, Now.h)
      BY <1>2, <1>15, <3>1 DEF CrtOpen, Now
    <3> QED
      BY <1>4, <1>5, <1>15, <3>2 DEF CrtOpen, At, Now, OnlyPack, driverVars, MemoryKept,
         CreateFill, Bound, BoundPc
  <2>2. PICK h \in Handle : h = Now.h /\ h = Now'.h
    BY <1>1, <2>1
  <2>3. OwnLeaf(va, h)'
    BY <1>1, <1>2, <2>1, <2>2, LeafOpened
  <2>4. BoundTo(va, h)'
    BY <2>3 DEF BoundTo
  <2> QED
    BY <1>1, <1>4, <2>1, <2>2, <2>4, LiveSame DEF CreateFill, Bound, BoundPc, Succeeded
<1> QED
  BY <1>1, <1>8, <1>9, <1>10, <1>11, <1>12, <1>13, <1>14, <1>15 DEF CreateStep

-----------------------------------------------------------------------------
(* Mapping memory.                                                         *)

LEMMA SpanTyped ==
  ASSUME PoolOK
  PROVE  \A i \in Live : /\ SpanOf(i).lo = pool[i].va
                         /\ SpanOf(i).lo \in Nat /\ SpanOf(i).hi \in Nat
                         /\ SpanOf(i).lo < SpanOf(i).hi
<1>1. ASSUME NEW i \in Live
      PROVE  pool[i].va \in Nat /\ PlacementRound(pool[i].req) \in Nat \ {0}
  <2>1. pool[i] \in PoolSlot
    BY LiveInPool DEF PoolOK
  <2> QED
    BY <2>1, PlacementPositive DEF PoolSlot
<1> QED
  BY <1>1 DEF SpanOf

(* Lookups by the address of the slot at hand find its slot of the table.  *)
LEMMA SeatFound ==
  ASSUME SlotInv, NEW va, NEW bound, Seated(va, bound)
  PROVE  FindByVa(va) >= 0 /\ (PackedSlot(va) <=> PackedSubVa(va))
<1>1. PICK c \in Index : c \in Used /\ slots[c].va = va
  BY DEF Seated, SeatedAt
<1>2. FindByVa(va) \in {i \in Used : slots[i].va = va}
  BY <1>1, FoundByVa
<1>3. FindByVa(va) \in Nat
  BY <1>2, UsedIsIndex, IndexIsNat
<1> QED
  BY <1>3 DEF PackedSlot

LEMMA SeatAlone ==
  ASSUME SlotInv, PoolOK, NEW va \in Nat, NEW len \in Nat \ {0}, NEW bound,
         Seated(va, bound), Clear(va, va + len)
  PROVE  slots[FindByVa(va)].req = NeedReq
<1>1. PICK c \in Index : SeatedAt(c, va, bound)
  BY DEF Seated
<1>2. FindByVa(va) \in {i \in Used : slots[i].va = va}
  BY <1>1, FoundByVa DEF SeatedAt
<1>3. ASSUME NEW s \in Used \ {c}, slots[s].va = va
      PROVE  FALSE
  <2>1. PICK i \in Live : pool[i].va = va
    BY <1>1, <1>3 DEF SeatedAt, Settled
  <2> QED
    BY <2>1, SpanTyped DEF Clear
<1> QED
  BY <1>1, <1>2, <1>3 DEF SeatedAt

LEMMA MapFillSame ==
  ASSUME PoolHeld, LeavesKept, MemoryKept, Slot' = Slot
  PROVE  \A c : MapFill(c)' = MapFill(c)
<1>0. PICK va, h : va = Slot.va /\ va = Slot'.va /\ h = Slot.h /\ h = Slot'.h
  OBVIOUS
<1>1. /\ arena' = arena /\ NeedReq' = NeedReq /\ ArenaHeld' = ArenaHeld
      /\ BoundTo(va, h)' = BoundTo(va, h) /\ SharedLeaf(va, h)' = SharedLeaf(va, h)
      /\ OwnLeaf(va, h)' = OwnLeaf(va, h) /\ OwnMapping(va, h)' = OwnMapping(va, h)
      /\ Held(va, h)' = Held(va, h)
  BY LeavesSame, MemorySame DEF LeavesKept, PoolHeld
<1>2. /\ BoundTo(Slot.va, Slot.h)' = BoundTo(va, h)
      /\ SharedLeaf(Slot.va, Slot.h)' = SharedLeaf(va, h)
      /\ OwnLeaf(Slot.va, Slot.h)' = OwnLeaf(va, h)
      /\ OwnMapping(Slot.va, Slot.h)' = OwnMapping(va, h)
      /\ Held(Slot.va, Slot.h)' = Held(va, h)
  BY <1>0, <1>1
<1> QED
  BY <1>0, <1>1, <1>2 DEF MapFill

(* Memory that is the slot's own is mapped where no mapping is.            *)
LEMMA MappingMade ==
  ASSUME DriverOK, PoolOK, PoolHeld, LiveOK, UNCHANGED <<arena, handleRefs, bandSeq>>,
         NEW va \in Nat, NEW h \in Handle, NEW off, Bytes \in Nat \ {0}, OwnLeaf(va, h),
         DriverMap(va, Bytes, off, h)
  PROVE  /\ LiveOK' /\ OwnLeaf(va, h)' /\ OwnMapping(va, h)'
         /\ (arena.active => ArenaHeld)'
<1>1. /\ physLen' = physLen /\ arena' = arena /\ handleRefs' = handleRefs /\ bandSeq' = bandSeq
      /\ mappings' = mappings \union {[va |-> va, len |-> Bytes, handle |-> h]}
      /\ \A m \in mappings : ~Meet(va, Bytes, m.va, m.len)
  BY DEF DriverMap, CanMap
<1>2. /\ Live' = Live /\ \A i \in Live : pool'[i] = pool[i]
      /\ \A i \in Live : SpanOf(i)' = SpanOf(i)
      /\ LiveApart' = LiveApart /\ Charge' = Charge /\ Bytes' = Bytes
      /\ Clear(va, va + Bytes)' = Clear(va, va + Bytes)
      /\ NotLive(h)' = NotLive(h)
  BY SpansSame DEF PoolHeld, Clear
<1>3. LiveOK'
  BY <1>1, <1>2 DEF LiveOK, LiveBacked, BackedBy
<1>4. OwnLeaf(va, h)'
  BY <1>1, <1>2 DEF OwnLeaf, NewMemory, OwnArena
<1>5. \A m \in mappings : m.va # va
  BY <1>1 DEF Meet, DriverOK
<1>6. Clear(va, va + Bytes)
  <2> SUFFICES ASSUME NEW i \in Live
               PROVE  SpanOf(i).hi <= va \/ va + Bytes <= SpanOf(i).lo
    BY DEF Clear
  <2>1. PICK m \in mappings : BackedBy(i, m)
    BY DEF LiveOK, LiveBacked
  <2>2. m.va \in Nat /\ m.len \in Nat
    BY DEF DriverOK
  <2> QED
    BY <1>1, <2>1, <2>2, SpanTyped DEF Meet, BackedBy
<1>7. OwnMapping(va, h)'
  BY <1>1, <1>2, <1>5, <1>6 DEF OwnMapping
<1>8. (arena.active => ArenaHeld)'
  <2>1. arena.active => /\ arena.base = va /\ arena.handle = h /\ handleRefs > 0
                        /\ arena.len <= Bytes
    BY DEF OwnLeaf, OwnArena
  <2>2. h # NoHandle /\ physLen[h] > 0
    BY DEF OwnLeaf, NewMemory
  <2>3. PICK m : m = [va |-> va, len |-> Bytes, handle |-> h]
    OBVIOUS
  <2>5. m \in mappings'
    BY <1>1, <2>3
  <2>6. m.va = va /\ m.handle = h /\ m.len = Bytes
    BY <2>3
  <2>4. ASSUME arena.active
        PROVE  ArenaHeld'
    <3>1. m.va = arena'.base /\ m.handle = arena'.handle /\ arena'.len <= m.len
      BY <1>1, <2>1, <2>4, <2>6
    <3> QED
      BY <1>1, <2>1, <2>2, <2>4, <2>5, <3>1 DEF ArenaHeld
  <2> QED
    BY <1>1, <2>4
<1> QED
  BY <1>3, <1>4, <1>7, <1>8

(* The slice that opened the arena is charged to it.                       *)
LEMMA OwnLeafCharged ==
  ASSUME PackInv, PoolOK, PoolHeld, MemoryKept, NEW va \in Nat, NEW h \in Handle,
         Charge \in Nat \ {0}, Bytes \in Nat, NEW req, Charge = PlacementRound(req),
         OwnLeaf(va, h), OwnMapping(va, h), arena.active, ArenaHeld, BumpUsage(req)
  PROVE  Held(va, h)'
<1>1. /\ Live' = Live /\ Charge' = Charge /\ Bytes' = Bytes /\ NotLive(h)' = NotLive(h)
      /\ \A lo, hi : Clear(lo, hi)' = Clear(lo, hi)
      /\ physLen' = physLen /\ mappings' = mappings /\ handleRefs' = handleRefs
      /\ bandSeq' = bandSeq
  BY SpansSame DEF PoolHeld, MemoryKept, BumpUsage
<1>2. NewMemory(h)'
  BY <1>1 DEF NewMemory, OwnLeaf
<1>3. OwnMapping(va, h)'
  BY <1>1 DEF OwnMapping, Clear
<1>4. /\ PackOn /\ arena.base = va /\ arena.next = 0 /\ arena.len <= Bytes
      /\ arena \in ArenaRecord /\ arena.len \in Nat
      /\ Charge <= arena.len \/ bandSeq = 0
  BY DEF OwnLeaf, OwnArena, PackInv, PackTypeOK, ArenaRecord
<1>5. CASE Charge <= arena.len
  <2>1. arena' = [arena EXCEPT !.next = Charge]
    BY <1>4, <1>5 DEF BumpUsage, BumpFits
  <2>2. /\ arena'.active /\ arena'.base = va /\ arena'.len = arena.len
        /\ arena'.handle = arena.handle /\ arena'.next = Charge
    BY <1>4, <2>1 DEF ArenaRecord
  <2>3. ArenaHeld'
    BY <1>1, <1>4, <2>2 DEF ArenaHeld
  <2>4. Clear(va + Charge, va + arena.len)
    BY <1>4, SpanTyped DEF OwnMapping, Clear
  <2>5. Clear(arena.base + arena.next, ArenaEnd)'
    BY <1>1, <2>2, <2>4 DEF ArenaEnd
  <2>6. ArenaReady'
    BY <1>4, <2>2, <2>3, <2>5 DEF ArenaReady
  <2> QED
    BY <1>1, <1>2, <1>3, <2>2, <2>6 DEF Held, OwnHeld
<1>6. CASE ~(Charge <= arena.len)
  <2>1. arena' = arena /\ bandSeq' = 0
    BY <1>1, <1>4, <1>6 DEF BumpUsage, BumpFits
  <2>2. ArenaHeld'
    BY <1>1, <2>1 DEF ArenaHeld
  <2>3. ArenaReady'
    BY <1>4, <2>1, <2>2 DEF ArenaReady
  <2> QED
    BY <1>1, <1>2, <1>3, <1>4, <2>1, <2>3 DEF Held, OwnHeld
<1> QED
  BY <1>5, <1>6

(* Mapping keeps the live slots as they are, and leaves the slot at hand   *)
(* backed by one mapping of its memory, charged to the arena.              *)
LEMMA MapFills ==
  ASSUME ControlInv, Keeps, InCall, work.plan = MapPlanLeft, Seated(Slot.va, TRUE), LiveOK,
         MapFill(Now)
  PROVE  LiveOK' /\ MapFill(Now)'
<1>1. /\ ShimInv /\ CallsOK /\ SlotInv /\ PackInv /\ MapStep(Main) /\ DriverOK /\ PoolOK
      /\ Now.size = Bytes /\ Now.va = Slot.va /\ Now.h = Slot.h
      /\ PoolHeld /\ Slot' = Slot /\ Now'.op = "map" /\ Now'.pc # "idle"
      /\ Slot.req \in Nat \ {0} /\ Slot.va \in Nat /\ Slot.h \in Handle
  <2>1. /\ ShimInv /\ CallsOK /\ SlotInv /\ PackInv /\ Now.op = "map" /\ CallFits
        /\ ShimStep(Main) /\ PoolHeld /\ Slot' = Slot /\ Now'.op = "map" /\ StageOK(Now')
    BY FillCall, FillPlans, BenchHoldsPool
  <2>2. MapStep(Main)
    BY <2>1, StepOfOp, OneThread DEF Now
  <2>3. work.kind = "map" /\ Slot.req \in Nat \ {0} /\ Slot.va \in Nat /\ Slot.h \in Handle
    BY FillPlans DEF ControlInv, KindOK, PoolOK, WorkRecord, PoolSlot, Slot, InCall, Busy,
       BackPlans, CyclePlans, MapPlanLeft, Keeps
  <2>4. Now'.pc # "idle"
    BY <2>1, PcsApart DEF StageOK, MapPc
  <2> QED
    BY <2>1, <2>2, <2>3, <2>4 DEF CallFits, ControlInv, Bytes
<1>2. /\ Charge \in Nat \ {0} /\ Bytes \in Nat \ {0} /\ NeedReq \in Nat \ {0}
  BY <1>1, SlotSizes
<1>3. PICK c : c = Now'
  OBVIOUS
<1>4. PICK va \in Nat, h \in Handle :
        va = Slot.va /\ va = Slot'.va /\ h = Slot.h /\ h = Slot'.h
  BY <1>1
<1>5. /\ \A q : Goto(Main, q) => Now'.pc = q /\ Now'.sz = Now.sz
      /\ \A ok : Return(Main, ok) => Now'.pc = "done" /\ Now'.ok = ok
  BY <1>1, NowMoves
<1>6. ASSUME LeavesKept, MemoryKept, MapFill(c)
      PROVE  LiveOK' /\ MapFill(Now)'
  <2>1. MapFill(c)'
    BY <1>1, <1>6, MapFillSame
  <2> QED
    BY <1>1, <1>3, <1>6, <2>1, LiveSame
<1>7. /\ FindByVa(va) >= 0 /\ (PackedSlot(va) <=> PackedSubVa(va))
      /\ OwnLeaf(va, h) => ~PackedSubVa(va)
      /\ SharedLeaf(va, h) => PackedSubVa(va)
  <2>1. Seated(va, TRUE)
    BY <1>4
  <2>2. FindByVa(va) >= 0 /\ (PackedSlot(va) <=> PackedSubVa(va))
    BY <1>1, <2>1, SeatFound
  <2>3. OwnLeaf(va, h) => ~PackedSubVa(va)
    BY <1>4 DEF OwnLeaf, OwnArena, PackedSubVa
  <2>4. SharedLeaf(va, h) => PackedSubVa(va)
    BY DEF SharedLeaf, Inner
  <2> QED
    BY <2>2, <2>3, <2>4
<1>8. CASE MapValidate(Main)
  <2>1. /\ LeavesKept /\ MemoryKept /\ BoundTo(va, h)
        /\ Now'.pc = "map_route" \/ (Now'.pc = "done" /\ ~Now'.ok)
    BY <1>4, <1>5, <1>8 DEF MapValidate, At, Now, OnlyCall, shimVars, packVars, driverVars,
       LeavesKept, MemoryKept, MapFill
  <2>2. MapFill(c)
    BY <1>3, <1>4, <2>1 DEF MapFill, Succeeded
  <2> QED
    BY <1>6, <2>1, <2>2
<1>9. CASE MapRoute(Main)
  <2>1. /\ LeavesKept /\ MemoryKept /\ BoundTo(va, h)
        /\ Now'.pc = IF PackedSlot(va) THEN "map_packed" ELSE "map_off"
    BY <1>1, <1>4, <1>5, <1>9 DEF MapRoute, At, Now, OnlyCall, shimVars, packVars, driverVars,
       LeavesKept, MemoryKept, MapFill
  <2>2. IF PackedSlot(va) THEN SharedLeaf(va, h) ELSE OwnLeaf(va, h)
    BY <1>7, <2>1 DEF BoundTo
  <2>3. MapFill(c)
    BY <1>3, <1>4, <2>1, <2>2 DEF MapFill, Succeeded
  <2> QED
    BY <1>6, <2>1, <2>3
<1>10. CASE MapPacked(Main)
  <2>1. /\ LeavesKept /\ MemoryKept /\ SharedLeaf(va, h) /\ Now'.pc = "done" /\ Now'.ok
    BY <1>4, <1>5, <1>10 DEF MapPacked, At, Now, OnlySlots, packVars, driverVars,
       LeavesKept, MemoryKept, MapFill
  <2>2. MapFill(c)
    BY <1>3, <1>4, <2>1 DEF MapFill, Succeeded, Held
  <2> QED
    BY <1>6, <2>1, <2>2
<1>11. CASE MapOff(Main)
  <2>1. /\ LeavesKept /\ MemoryKept /\ OwnLeaf(va, h) /\ Now'.pc = "map_driver"
    <3>1. Now'.pc = "map_driver"
      BY <1>1, <1>11, OneThread DEF MapOff, Now, CallsOK, CallRecord
    <3> QED
      BY <1>4, <1>11, <3>1 DEF MapOff, At, Now, OnlyCall, shimVars, packVars, driverVars,
         LeavesKept, MemoryKept, MapFill
  <2>2. MapFill(c)
    BY <1>3, <1>4, <2>1 DEF MapFill, Succeeded
  <2> QED
    BY <1>6, <2>1, <2>2
<1>12. CASE MapDriver(Main)
  <2>1. LeavesKept /\ OwnLeaf(va, h)
    BY <1>4, <1>12 DEF MapDriver, At, Now, OnlyDriver, shimVars, packVars, LeavesKept, MapFill
  <2>2. CASE DriverMap(va, Bytes, Now.off, h) /\ Goto(Main, "map_mark")
    <3>1. /\ LiveOK' /\ OwnLeaf(va, h)' /\ OwnMapping(va, h)' /\ (arena.active => ArenaHeld)'
      BY <1>1, <1>2, <2>1, <2>2, MappingMade DEF LeavesKept
    <3>2. Now'.pc = "map_mark"
      BY <1>5, <2>2
    <3> QED
      BY <1>4, <3>1, <3>2 DEF MapFill, Succeeded
  <2>3. CASE Return(Main, FALSE) /\ UNCHANGED driverVars
    <3>1. Now'.pc = "done" /\ ~Now'.ok /\ MemoryKept
      BY <1>5, <2>3 DEF driverVars, MemoryKept
    <3>2. MapFill(c)
      BY <1>3, <1>4, <2>1, <3>1 DEF MapFill, Succeeded, BoundTo
    <3> QED
      BY <1>6, <2>1, <3>1, <3>2
  <2> QED
    BY <1>1, <1>4, <1>12, <2>2, <2>3 DEF MapDriver, Now
<1>13. CASE MapMark(Main)
  <2>1. /\ LeavesKept /\ MemoryKept /\ OwnLeaf(va, h) /\ OwnMapping(va, h)
        /\ (arena.active => ArenaHeld) /\ Now'.pc = "map_usage"
    BY <1>4, <1>5, <1>13 DEF MapMark, At, Now, OnlySlots, packVars, driverVars,
       LeavesKept, MemoryKept, MapFill
  <2>2. MapFill(c)
    BY <1>3, <1>4, <2>1 DEF MapFill, Succeeded
  <2> QED
    BY <1>6, <2>1, <2>2
<1>14. CASE MapUsage(Main)
  <2>1. /\ LeavesKept /\ MemoryKept /\ OwnLeaf(va, h) /\ OwnMapping(va, h)
        /\ (arena.active => ArenaHeld)
    BY <1>4, <1>14 DEF MapUsage, At, Now, OnlyCall, shimVars, packVars, driverVars,
       LeavesKept, MemoryKept, MapFill
  <2>2. Now'.pc = "map_active"
    BY <1>1, <1>4, <1>5, <1>7, <1>14, <2>1 DEF MapUsage, Now
  <2>3. MapFill(c)
    BY <1>3, <1>4, <2>1, <2>2 DEF MapFill, Succeeded
  <2> QED
    BY <1>6, <2>1, <2>3
<1>16. CASE MapActive(Main)
  <2>1. /\ LeavesKept /\ MemoryKept /\ OwnLeaf(va, h) /\ OwnMapping(va, h)
        /\ (arena.active => ArenaHeld)
        /\ \/ arena.active /\ Now'.pc = "map_req"
           \/ ~arena.active /\ Now'.pc = "done" /\ Now'.ok
    BY <1>4, <1>5, <1>16 DEF MapActive, At, Now, OnlyCall, shimVars, packVars, driverVars,
       LeavesKept, MemoryKept, MapFill
  <2>2. ~arena.active => Held(va, h)
    BY <2>1 DEF Held, OwnHeld, OwnLeaf, ArenaReady
  <2>3. MapFill(c)
    BY <1>3, <1>4, <2>1, <2>2 DEF MapFill, Succeeded
  <2> QED
    BY <1>6, <2>1, <2>3
<1>17. CASE MapReq(Main)
  <2>1. /\ LeavesKept /\ MemoryKept /\ OwnLeaf(va, h) /\ OwnMapping(va, h)
        /\ arena.active /\ ArenaHeld
    BY <1>4, <1>17 DEF MapReq, At, Now, OnlyCall, shimVars, packVars, driverVars,
       LeavesKept, MemoryKept, MapFill
  <2>2. slots[FindByVa(va)].req = NeedReq
    BY <1>1, <1>2, <1>4, <2>1, SeatAlone DEF OwnMapping
  <2>3. Now'.pc = "map_bump" /\ Now'.sz = NeedReq
    <3> DEFINE req == IF FindByVa(va) >= 0 THEN slots[FindByVa(va)].req ELSE 0
    <3>1. req = NeedReq /\ NeedReq > 0 /\ call[Main].va = va
      BY <1>1, <1>2, <1>4, <1>7, <2>2 DEF Now
    <3>2. IF req > 0
          THEN call' = [call EXCEPT ![Main].pc = "map_bump", ![Main].sz = req]
          ELSE Return(Main, TRUE)
      BY <1>17, <3>1 DEF MapReq
    <3> HIDE DEF req
    <3>3. call' = [call EXCEPT ![Main].pc = "map_bump", ![Main].sz = NeedReq]
      BY <3>1, <3>2
    <3> QED
      BY <1>1, <3>3, OneThread DEF CallsOK, CallRecord, Now
  <2>4. MapFill(c)
    BY <1>3, <1>4, <2>1, <2>3 DEF MapFill, Succeeded
  <2> QED
    BY <1>6, <2>1, <2>4
<1>15. CASE MapBump(Main)
  <2>1. /\ MemoryKept /\ OwnLeaf(va, h) /\ OwnMapping(va, h) /\ ArenaHeld /\ arena.active
        /\ BumpUsage(NeedReq) /\ Now'.pc = "done" /\ Now'.ok
    BY <1>4, <1>5, <1>15 DEF MapBump, At, Now, OnlyPack, driverVars, MemoryKept, MapFill
  <2>2. Held(va, h)'
    BY <1>1, <1>2, <2>1, OwnLeafCharged DEF Charge
  <2> QED
    BY <1>1, <1>4, <2>1, <2>2, LiveSame DEF MapFill, Succeeded
<1> QED
  BY <1>1, <1>8, <1>9, <1>10, <1>11, <1>12, <1>13, <1>14, <1>15, <1>16, <1>17 DEF MapStep

-----------------------------------------------------------------------------
(* Giving the slot at hand back.                                           *)

LEMMA UndoPlansApart ==
  /\ <<"unmap", "release", "free">> # <<"release", "free">>
  /\ <<"unmap", "release", "free">> # <<"free">>
  /\ <<"unmap", "release", "free">> # << >>
  /\ <<"release", "free">> # <<"free">> /\ <<"release", "free">> # << >>
  /\ <<"free">> # << >>
  /\ Head(<<"unmap", "release", "free">>) = "unmap"
  /\ Head(<<"release", "free">>) = "release" /\ Head(<<"free">>) = "free"
  /\ Tail(<<"unmap", "release", "free">>) = <<"release", "free">>
  /\ Tail(<<"release", "free">>) = <<"free">> /\ Tail(<<"free">>) = << >>
<1>1. /\ Head(<<"unmap", "release", "free">>) = "unmap"
      /\ Head(<<"release", "free">>) = "release" /\ Head(<<"free">>) = "free"
  OBVIOUS
<1>2. /\ Tail(<<"unmap", "release", "free">>) = <<"release", "free">>
      /\ Tail(<<"release", "free">>) = <<"free">> /\ Tail(<<"free">>) = << >>
  OBVIOUS
<1>3. /\ <<"unmap", "release", "free">> # <<"release", "free">>
      /\ <<"unmap", "release", "free">> # <<"free">>
      /\ <<"release", "free">> # <<"free">>
  BY <1>1, Zenon
<1>4. /\ <<"unmap", "release", "free">> # << >> /\ <<"release", "free">> # << >>
      /\ <<"free">> # << >>
  OBVIOUS
<1> QED
  BY <1>1, <1>2, <1>3, <1>4

(* A driver that unmaps what is not live, or releases what is not live,    *)
(* takes nothing from the live slots.                                      *)
LEMMA UnmapsNoneLive ==
  ASSUME LiveOK, PoolHeld, NEW va, \A m \in mappings : m.va = va => NotLive(m.handle),
         physLen' = physLen, mappings' = {m \in mappings : m.va # va}
  PROVE  LiveOK'
<1>1. /\ Live' = Live /\ \A i \in Live : pool'[i] = pool[i] /\ SpanOf(i)' = SpanOf(i)
      /\ LiveApart' = LiveApart
  BY SpansSame DEF PoolHeld
<1>2. ASSUME NEW i \in Live
      PROVE  \E m \in mappings' : BackedBy(i, m)'
  <2>1. PICK m \in mappings : BackedBy(i, m)
    BY DEF LiveOK, LiveBacked
  <2>2. m.va # va
    BY <2>1 DEF BackedBy, NotLive
  <2>3. BackedBy(i, m)'
    BY <1>1, <2>1 DEF BackedBy
  <2> QED
    BY <2>2, <2>3
<1> QED
  BY <1>1, <1>2 DEF LiveOK, LiveBacked

LEMMA ReleasesNoneLive ==
  ASSUME LiveOK, PoolHeld, DriverOK, PoolOK, NEW h \in Handle, NotLive(h), DriverRelease(h)
  PROVE  LiveOK'
<1>1. /\ Live' = Live /\ \A i \in Live : pool'[i] = pool[i] /\ SpanOf(i)' = SpanOf(i)
      /\ LiveApart' = LiveApart /\ mappings' = mappings
  BY SpansSame DEF PoolHeld, DriverRelease
<1>2. \A i \in Live : pool[i].h \in Handle /\ pool[i].h # h
  BY LiveInPool DEF PoolOK, PoolSlot, NotLive
<1>3. \A i \in Live : physLen'[pool[i].h] = physLen[pool[i].h]
  BY <1>2 DEF DriverRelease, DriverOK
<1> QED
  BY <1>1, <1>3 DEF LiveOK, LiveBacked, BackedBy

(* The calls that give the slot at hand back take nothing from the others. *)
LEMMA UndoInCall ==
  ASSUME ControlInv, Keeps, InCall, LiveOK, UndoByPlan
  PROVE  LiveOK' /\ UndoByPlan'
<1>1. /\ CallsOK /\ ShimStep(Main) /\ PoolHeld /\ Slot' = Slot /\ work' = work
      /\ Now.op = Head(work.plan) /\ work.plan # << >> /\ CallFits /\ DriverOK /\ PoolOK
      /\ Shimmed' = Shimmed /\ work.plan \in UndoPlans /\ Shimmed /\ Now \in CallRecord
  BY FillCall, BenchHoldsPool DEF ControlInv, UndoByPlan
<1>2. PICK h \in Handle : h = Slot.h /\ h = Slot'.h
  <2>1. Slot \in PoolSlot
    BY <1>1 DEF PoolOK, WorkRecord, Slot
  <2> QED
    BY <1>1, <2>1 DEF PoolSlot
<1>3. \A g : NotLive(g)' = NotLive(g)
  BY <1>1, SpansSame
<1>4. \A q : Goto(Main, q) => Now'.pc = q
  BY <1>1, NowMoves
<1>5. \A ok : Return(Main, ok) => Now'.pc = "done"
  BY <1>1, NowMoves
<1>6. CASE work.plan = <<"unmap", "release", "free">>
  <2>1. /\ UnmapStep(Main) /\ Now.va = Slot.va /\ UnmapsOwn
    BY <1>1, <1>6, StepOfOp, OneThread, UndoPlansApart DEF Now, CallFits, UndoByPlan
  <2>2. PICK va : va = Slot.va /\ va = Slot'.va
    BY <1>1
  <2>3. /\ physLen' = physLen
        /\ mappings' = mappings \/ mappings' = {m \in mappings : m.va # va}
    BY <2>1, <2>2 DEF UnmapStep, UnmValidate, UnmKnown, UnmRoute, UnmDriver, UnmClear, OnlyCall,
       OnlySlots, driverVars, DriverUnmap, Now
  <2>4. LiveOK'
    BY <1>1, <2>1, <2>2, <2>3, UnmapsNoneLive, LiveSame DEF MemoryKept, UnmapsOwn
  <2>5. UnmapsOwn'
    BY <1>2, <1>3, <2>1, <2>2, <2>3 DEF UnmapsOwn
  <2> QED
    BY <1>1, <1>6, <2>4, <2>5, UndoPlansApart DEF UndoByPlan, UndoPlans
<1>7. CASE work.plan = <<"release", "free">>
  <2>1. /\ ReleaseStep(Main) /\ Now.h = h /\ ReleasesOwn
    BY <1>1, <1>2, <1>7, StepOfOp, OneThread, UndoPlansApart DEF Now, CallFits, UndoByPlan
  <2>2. SUFFICES LiveOK' /\ ReleasesOwn'
    BY <1>1, <1>7, UndoPlansApart DEF UndoByPlan, UndoPlans
  <2>3. CASE RelValidate(Main)
    <3>1. /\ LeavesKept /\ MemoryKept /\ Now.pc = "rel_validate"
          /\ Now'.pc \in {"rel_ref", "done"}
      BY <1>4, <1>5, <2>3 DEF RelValidate, At, Now, OnlyCall, shimVars, packVars, driverVars,
         LeavesKept, MemoryKept
    <3>2. DefersRelease(h)' = DefersRelease(h) /\ LiveOK'
      BY <1>1, <3>1, LeavesSame
    <3> QED
      BY <1>1, <1>2, <1>3, <2>1, <3>1, <3>2 DEF ReleasesOwn
  <2>4. CASE RelRef(Main)
    <3>1. /\ MemoryKept /\ Now.pc = "rel_ref"
          /\ Now'.pc = IF DefersRelease(h) THEN "rel_clear" ELSE "rel_driver"
      BY <1>4, <2>1, <2>4 DEF RelRef, At, Now, OnlyPack, driverVars, MemoryKept
    <3> QED
      BY <1>1, <1>2, <1>3, <2>1, <3>1, LiveSame DEF ReleasesOwn
  <2>5. CASE RelDriver(Main)
    <3>1. /\ Now.pc = "rel_driver" /\ NotLive(h) /\ Now'.pc \in {"rel_clear", "done"}
          /\ DriverRelease(h) \/ MemoryKept
      BY <1>2, <1>4, <1>5, <2>1, <2>5 DEF RelDriver, At, Now, driverVars, MemoryKept,
         ReleasesOwn
    <3> QED
      BY <1>1, <1>2, <1>3, <3>1, LiveSame, ReleasesNoneLive DEF ReleasesOwn
  <2>6. CASE RelClear(Main)
    <3>1. MemoryKept /\ Now'.pc = "done"
      BY <1>5, <2>6 DEF RelClear, OnlySlots, driverVars, MemoryKept
    <3> QED
      BY <1>1, <3>1, LiveSame DEF ReleasesOwn
  <2> QED
    BY <2>1, <2>3, <2>4, <2>5, <2>6 DEF ReleaseStep
<1>8. CASE work.plan = <<"free">>
  <2>1. FreeStep(Main)
    BY <1>1, <1>8, StepOfOp, OneThread, UndoPlansApart DEF Now
  <2>2. MemoryKept
    BY <2>1 DEF FreeStep, FreLookup, FreRoute, FreDriver, FreSlot, OnlyCall, OnlySlots,
       driverVars, DriverAddressFree, MemoryKept
  <2> QED
    BY <1>1, <1>8, <2>2, LiveSame, UndoPlansApart DEF UndoByPlan, UndoPlans
<1> QED
  BY <1>1, <1>6, <1>7, <1>8 DEF UndoPlans

(* A step of a call keeps the memory of the live slots and of the slot at  *)
(* hand in order.                                                          *)
LEMMA MemoryInCall ==
  ASSUME ~GqaOn, ControlInv, TableFill, MemoryFill, InCall
  PROVE  MemoryFill'
<1>1. CASE ~Keeps
  <2>1. Keeps' = Keeps
    BY DEF InCall, benchVars, Keeps, Retries, Cycling, bench
  <2> QED
    BY <1>1, <2>1 DEF MemoryFill
<1>2. CASE Keeps
  <2>1. /\ Shimmed /\ Now.op = Head(work.plan) /\ work' = work /\ Slot' = Slot
        /\ work.plan # << >> /\ PoolOK /\ KindOK /\ LiveOK
    BY <1>2, FillCall, BenchHoldsPool DEF ControlInv, MemoryFill
  <2>2. CASE work.kind = "undo"
    <3>1. LiveOK' /\ UndoByPlan'
      BY <1>2, <2>2, UndoInCall DEF MemoryFill
    <3> QED
      BY <2>1, <2>2, <3>1 DEF MemoryFill
  <2>3. CASE work.kind # "undo"
    <3>1. Filling /\ TableByPlan /\ ArenaByPlan
      BY <1>2, <2>1, <2>3 DEF Filling, TableFill, MemoryFill
    <3>2. work.kind = "map" /\ work.plan \in {MapPlan, CreatePlan, MapPlanLeft}
      <4>1. work.kind # "none" /\ Head(work.plan) # "access"
        BY <1>2, <2>1, FillCall DEF KindOK, ControlInv, CallPlanned, Keeps
      <4> QED
        BY <2>1, <3>1, <4>1, FillsAPlan, FillPlans DEF HeldPlans
    <3>3. CASE work.plan = MapPlan
      <4>1. LiveOK' /\ ReserveFill(Now)'
        BY <1>2, <2>1, <3>1, <3>2, <3>3, ReserveFills DEF ArenaByPlan
      <4> QED
        BY <2>1, <3>2, <3>3, <4>1, FillPlans DEF MemoryFill, ArenaByPlan
    <3>4. CASE work.plan = CreatePlan
      <4>1. CreateTable /\ CreateFill(Now)
        BY <3>1, <3>2, <3>4, FillPlans DEF TableByPlan, ArenaByPlan
      <4>2. LiveOK' /\ CreateFill(Now)'
        BY <1>2, <2>1, <3>4, <4>1, CreateFills
      <4> QED
        BY <2>1, <3>2, <3>4, <4>2, FillPlans DEF MemoryFill, ArenaByPlan
    <3>5. CASE work.plan = MapPlanLeft
      <4>1. Seated(Slot.va, TRUE) /\ MapFill(Now)
        BY <3>1, <3>2, <3>5, FillPlans DEF TableByPlan, ArenaByPlan
      <4>2. LiveOK' /\ MapFill(Now)'
        BY <1>2, <2>1, <3>5, <4>1, MapFills
      <4> QED
        BY <2>1, <3>2, <3>5, <4>2, FillPlans DEF MemoryFill, ArenaByPlan
    <3> QED
      BY <3>2, <3>3, <3>4, <3>5
  <2> QED
    BY <2>2, <2>3
<1> QED
  BY <1>1, <1>2

-----------------------------------------------------------------------------
(* Memory between the calls.                                               *)

(* A call begins as the bench left things.                                 *)
LEMMA MemoryAtStart ==
  ASSUME ControlInv, MemoryFill, StartCall
  PROVE  MemoryFill'
<1>1. /\ UNCHANGED <<shimVars, driverVars, benchVars>> /\ Now.pc = "idle" /\ Busy
      /\ Now'.op = Head(work.plan) /\ PoolOK /\ KindOK /\ Head(work.plan) # "access"
      /\ Now'.pc = CASE Now'.op = "reserve" -> "rsv_begin"
                        [] Now'.op = "create"  -> "crt_packed"
                        [] Now'.op = "map"     -> "map_validate"
                        [] Now'.op = "unmap"   -> "unm_validate"
                        [] Now'.op = "release" -> "rel_validate"
                        [] Now'.op = "free"    -> "fre_lookup"
  BY StartKeeps DEF ControlInv, StartCall, Idle, Now
<1>2. /\ PoolHeld /\ Slot' = Slot /\ work' = work /\ Keeps' = Keeps /\ Shimmed' = Shimmed
      /\ LeavesKept /\ MemoryKept
  BY <1>1, BenchHoldsPool
  DEF benchVars, Keeps, Retries, Cycling, bench, Shimmed, shimVars, packVars, driverVars,
      LeavesKept, MemoryKept
<1>3. /\ LiveOK' = LiveOK /\ ArenaReady' = ArenaReady
      /\ \A va : Placed(va)' = Placed(va)
      /\ \A g : NotLive(g)' = NotLive(g) /\ DefersRelease(g)' = DefersRelease(g)
      /\ \A va, h : BoundTo(va, h)' = BoundTo(va, h)
  BY <1>2, LeavesSame, MemorySame, SpansSame
<1>4. PICK va, h : va = Slot.va /\ va = Slot'.va /\ h = Slot.h /\ h = Slot'.h
  BY <1>2
<1>5. CASE ~Keeps
  BY <1>2, <1>5 DEF MemoryFill
<1>6. CASE Keeps /\ work.kind = "undo"
  <2>1. UndoByPlan
    BY <1>6 DEF MemoryFill
  <2>2. work.plan = <<"unmap", "release", "free">> => UnmapsOwn'
    BY <1>2, <1>3, <1>4, <2>1 DEF UndoByPlan, UnmapsOwn, MemoryKept
  <2>3. work.plan = <<"release", "free">> => ReleasesOwn'
    BY <1>1, <1>2, <1>3, <1>4, <2>1, UndoPlansApart DEF UndoByPlan, ReleasesOwn
  <2>4. UndoByPlan'
    BY <1>2, <2>1, <2>2, <2>3 DEF UndoByPlan
  <2> QED
    BY <1>2, <1>3, <1>6, <2>4 DEF MemoryFill
<1>7. CASE Keeps /\ work.kind # "undo"
  <2>1. LiveOK' /\ ArenaByPlan
    BY <1>3, <1>7 DEF MemoryFill
  <2>2. work.kind = "map" /\ work.plan \in {MapPlan, CreatePlan, MapPlanLeft}
    <3>1. work.kind # "none" /\ Filling
      BY <1>1, <1>7 DEF KindOK, Busy, Filling
    <3> QED
      BY <1>1, <3>1, FillsAPlan, FillPlans DEF HeldPlans, Busy
  <2>3. CASE work.plan = MapPlan
    <3>1. Now'.pc = "rsv_begin" /\ ArenaReady'
      BY <1>1, <1>3, <2>1, <2>2, <2>3, FillPlans DEF ArenaByPlan, ReserveFill
    <3>2. ReserveFill(Now)'
      BY <3>1, PcsApart DEF ReserveFill, SeekPc, CommitPc, Granted, Succeeded
    <3> QED
      BY <1>2, <2>1, <2>2, <2>3, <3>2, FillPlans DEF MemoryFill, ArenaByPlan
  <2>4. CASE work.plan = CreatePlan
    <3>1. Now'.pc = "crt_packed" /\ Placed(va)
      BY <1>1, <1>4, <2>1, <2>2, <2>4, FillPlans DEF ArenaByPlan, CreateFill
    <3>2. Placed(Slot.va)'
      BY <1>3, <1>4, <3>1
    <3>3. CreateFill(Now)'
      BY <3>1, <3>2 DEF CreateFill, Bound, BoundPc, Succeeded
    <3> QED
      BY <1>2, <2>1, <2>2, <2>4, <3>3, FillPlans DEF MemoryFill, ArenaByPlan
  <2>5. CASE work.plan = MapPlanLeft
    <3>1. Now'.pc = "map_validate" /\ BoundTo(va, h)
      BY <1>1, <1>4, <2>1, <2>2, <2>5, FillPlans DEF ArenaByPlan, MapFill
    <3>2. BoundTo(Slot.va, Slot.h)'
      BY <1>3, <1>4, <3>1
    <3>3. MapFill(Now)'
      BY <3>1, <3>2 DEF MapFill, Succeeded
    <3> QED
      BY <1>2, <2>1, <2>2, <2>5, <3>3, FillPlans DEF MemoryFill, ArenaByPlan
  <2> QED
    BY <2>2, <2>3, <2>4, <2>5
<1> QED
  BY <1>5, <1>6, <1>7

(* What unwinds a slot begins with what was made for it.                   *)
LEMMA UnwindPlans ==
  ASSUME ~Cycling
  PROVE  /\ Unwind("reserve") = << >> /\ Unwind("create") = <<"free">>
         /\ Unwind("map") = <<"release", "free">>
         /\ Unwind("access") = <<"unmap", "release", "free">>
<1>1. bench # "chain"
  BY DEF Cycling
<1> QED
  BY <1>1 DEF Unwind

(* Memory given to the slot at hand is not a live slot's, or shared.       *)
LEMMA BoundReleases ==
  ASSUME Shimmed \/ ~arena.active, NEW va, NEW h, BoundTo(va, h)
  PROVE  NotLive(h) \/ (Shimmed /\ DefersRelease(h))
<1>1. CASE SharedLeaf(va, h)
  BY <1>1 DEF SharedLeaf, Inner, PackedSubVa, DefersRelease, RefHeld, ArenaHeld
<1>2. CASE OwnLeaf(va, h)
  BY <1>2 DEF OwnLeaf, NewMemory
<1> QED
  BY <1>1, <1>2 DEF BoundTo

LEMMA MemoryAtFinish ==
  ASSUME ControlInv, TableFill, MemoryFill, FinishCall
  PROVE  MemoryFill'
<1> USE OneThread
<1>1. /\ UNCHANGED shimVars /\ UNCHANGED driverVars /\ Now.pc = "done" /\ Now' = IdleCall
      /\ Now.op = Head(work.plan) /\ PoolOK /\ KindOK /\ UNCHANGED <<setup, appended, stage>>
      /\ work.plan # << >> /\ Shimmed /\ Head(work.plan) # "access"
  <2>1. CallsOK /\ call' = [call EXCEPT ![Main] = IdleCall]
    BY DEF FinishCall, ControlInv, ShimInv
  <2>2. Now' = IdleCall
    BY <2>1, IdleKeeps
  <2> QED
    BY <2>2, FinishKeeps
    DEF FinishCall, Done, Now, OnlyCall, ControlInv, Busy, CallPlanned
<1>2. /\ Keeps' = Keeps /\ Shimmed' = Shimmed /\ LeavesKept /\ MemoryKept
  BY <1>1 DEF Keeps, Retries, Cycling, bench, Shimmed, shimVars, packVars, driverVars,
     LeavesKept, MemoryKept
<1>3. CASE ~Keeps
  BY <1>2, <1>3 DEF MemoryFill
<1>4. CASE Keeps /\ work.kind = "undo"
  <2>1. UndoByPlan /\ LiveOK
    BY <1>4 DEF MemoryFill
  <2>2. Now.op \in {"unmap", "release", "free"}
    BY <1>1, <2>1, UndoPlansApart DEF UndoByPlan, UndoPlans
  <2>3. pool' = pool /\ work'.kind = "undo" /\ work'.plan = Tail(work.plan)
        /\ work'.slot = work.slot
    <3>1. pool' = pool
      BY <2>2 DEF FinishCall, Now
    <3>2. work' = [work EXCEPT !.plan = Tail(@)]
      BY <1>4 DEF FinishCall, Advance
    <3> QED
      BY <1>1, <1>4, <3>1, <3>2 DEF PoolOK, WorkRecord
  <2>4. Slot' = Slot /\ PoolHeld
    BY <1>1, <2>3 DEF Slot, PoolHeld, Live, NeedReq, Bytes, ReserveBytes, Logical, Shimmed,
       bench
  <2>5. LiveOK' /\ \A g : NotLive(g)' = NotLive(g)
    BY <1>2, <2>1, <2>4, LiveSame, SpansSame
  <2>6. PICK h : h = Slot.h /\ h = Slot'.h
    BY <2>4
  <2>7. work'.plan = <<"release", "free">> => ReleasesOwn'
    <3>1. SUFFICES ASSUME work'.plan = <<"release", "free">>
                   PROVE  ReleasesOwn'
      OBVIOUS
    <3>2. work.plan = <<"unmap", "release", "free">>
      BY <2>1, <2>3, <3>1, <1>1, UndoPlansApart DEF UndoByPlan, UndoPlans
    <3>3. NotLive(h)'
      BY <2>1, <2>5, <2>6, <3>2 DEF UndoByPlan, UnmapsOwn
    <3> QED
      BY <1>1, <2>6, <3>3 DEF ReleasesOwn, IdleCall
  <2>8. /\ work'.plan \in UndoPlans
        /\ work'.plan # <<"unmap", "release", "free">>
    BY <1>1, <2>1, <2>3, UndoPlansApart DEF UndoByPlan, UndoPlans
  <2> QED
    BY <2>3, <2>5, <2>7, <2>8 DEF MemoryFill, UndoByPlan
<1>5. CASE Keeps /\ work.kind # "undo"
  <2>1. Filling /\ ArenaByPlan /\ LiveOK /\ NextInPool
    BY <1>5 DEF Filling, MemoryFill, TableFill
  <2>2. /\ Slot'.req = Slot.req /\ work'.slot = work.slot
        /\ Slot'.va = (IF Now.ok /\ Now.op = "reserve" THEN Now.va ELSE Slot.va)
        /\ Slot'.h = (IF Now.ok /\ Now.op = "create" THEN Now.h ELSE Slot.h)
        /\ work.kind = "map"
        /\ PoolKept /\ \A i \in Live : pool'[i] = pool[i]
        /\ IF Now.ok THEN work'.kind = "map" /\ work'.plan = Tail(work.plan)
                     ELSE work'.kind = "undo"
    BY <2>1, FinishNotes
  <2>3. PoolHeld
    BY <2>2 DEF PoolHeld, PoolKept, Bytes
  <2>4. /\ LiveOK' /\ \A g : NotLive(g)' = NotLive(g)
        /\ \A va : Placed(va)' = Placed(va)
        /\ \A g : DefersRelease(g)' = DefersRelease(g)
        /\ \A va, h : BoundTo(va, h)' = BoundTo(va, h) /\ Held(va, h)' = Held(va, h)
    BY <1>2, <2>1, <2>3, LeavesSame, MemorySame, SpansSame
  <2>5. work.plan \in {MapPlan, CreatePlan, MapPlanLeft}
    BY <1>1, <2>1, <2>2, FillsAPlan, FillPlans DEF HeldPlans
  <2>6. PICK va, h : va = Slot'.va /\ h = Slot'.h
    OBVIOUS
  <2>7. CASE Now.ok
    <3>1. work'.kind = "map" /\ work'.plan = Tail(work.plan) /\ Succeeded(Now, Now.op)
      BY <1>1, <2>2, <2>7 DEF Succeeded
    <3>2. CASE work.plan = MapPlan
      <4>1. Now.op = "reserve" /\ va = Now.va /\ Granted(Now)
        BY <1>1, <2>2, <2>6, <2>7, <3>1, <3>2, FillPlans DEF Granted
      <4>2. Placed(va)
        BY <2>1, <2>2, <3>2, <4>1 DEF ArenaByPlan, ReserveFill
      <4>3. Placed(Slot.va)'
        BY <2>4, <2>6, <4>2
      <4>4. CreateFill(Now)'
        BY <1>1, <4>3 DEF CreateFill, IdleCall, Bound, BoundPc, Succeeded
      <4>5. work'.plan = CreatePlan
        BY <3>1, <3>2, FillPlans
      <4> QED
        BY <2>4, <3>1, <4>4, <4>5, FillPlans DEF MemoryFill, ArenaByPlan
    <3>3. CASE work.plan = CreatePlan
      <4>1. Now.op = "create" /\ h = Now.h /\ va = Slot.va
        BY <1>1, <2>2, <2>6, <2>7, <3>3, FillPlans
      <4>2. BoundTo(va, h)
        BY <2>1, <2>2, <3>1, <3>3, <4>1, FillPlans DEF ArenaByPlan, CreateFill
      <4>3. BoundTo(Slot.va, Slot.h)'
        BY <2>4, <2>6, <4>2
      <4>4. MapFill(Now)'
        BY <1>1, <4>3 DEF MapFill, IdleCall, Succeeded
      <4>5. work'.plan = MapPlanLeft
        BY <3>1, <3>3, FillPlans
      <4> QED
        BY <2>4, <3>1, <4>4, <4>5, FillPlans DEF MemoryFill, ArenaByPlan
    <3>4. CASE work.plan = MapPlanLeft
      <4>1. Now.op = "map" /\ h = Slot.h /\ va = Slot.va
        BY <1>1, <2>2, <2>6, <3>4, FillPlans
      <4>2. Held(va, h)
        BY <2>1, <2>2, <3>1, <3>4, <4>1, FillPlans DEF ArenaByPlan, MapFill
      <4>3. Held(Slot.va, Slot.h)'
        BY <2>4, <2>6, <4>2
      <4>4. work'.plan \in HeldPlans
        BY <3>1, <3>4, FillPlans
      <4> QED
        BY <2>4, <3>1, <4>3, <4>4, FillPlans DEF MemoryFill, ArenaByPlan
    <3> QED
      BY <2>5, <3>2, <3>3, <3>4
  <2>8. CASE ~Now.ok
    <3>1. work'.kind = "undo" /\ va = Slot.va /\ h = Slot.h
      BY <2>2, <2>6, <2>8
    <3>2. work'.plan = Unwind(Head(work.plan))
      <4>1. work' = [work EXCEPT !.kind = "undo", !.plan = Unwind(Head(@))]
        BY <2>2, <2>8 DEF FinishCall, Advance, Now
      <4> QED
        BY <1>1, <4>1 DEF PoolOK, WorkRecord
    <3>3. ~Cycling
      BY <1>5 DEF Keeps
    <3>4. work'.plan \in {<< >>, <<"free">>, <<"release", "free">>}
      BY <2>5, <3>2, <3>3, FillPlans, UnwindPlans
    <3>5. ASSUME work'.plan = <<"release", "free">>
          PROVE  ReleasesOwn'
      <4>1. work.plan = MapPlanLeft
        BY <2>5, <3>2, <3>3, <3>5, FillPlans, UnwindPlans, UndoPlansApart
      <4>2. BoundTo(va, h)
        BY <1>1, <2>1, <2>2, <2>8, <3>1, <4>1, FillPlans DEF ArenaByPlan, MapFill
      <4>3. NotLive(h) \/ DefersRelease(h)
        BY <1>1, <4>2, BoundReleases
      <4>4. NotLive(h)' \/ (Shimmed' /\ DefersRelease(h)')
        BY <1>1, <1>2, <2>4, <4>3
      <4> QED
        BY <1>1, <2>6, <4>4 DEF ReleasesOwn, IdleCall
    <3>6. UndoByPlan'
      BY <3>4, <3>5, UndoPlansApart DEF UndoByPlan, UndoPlans
    <3> QED
      BY <2>4, <3>1, <3>6 DEF MemoryFill
  <2> QED
    BY <1>1, <2>7, <2>8 DEF ControlInv, ShimInv, CallsOK, CallRecord, Now
<1> QED
  BY <1>3, <1>4, <1>5

(* On the driver alone there is no arena.                                  *)
LEMMA StockBlank ==
  ASSUME ForgetInv, ~Shimmed
  PROVE  ~arena.active /\ bandSeq = 0 /\ \A va : ~PackedSubVa(va) /\ Outer(va) /\ Placed(va)
<1>1. ~arena.active /\ bandSeq = 0
  BY DEF ForgetInv, Pristine, PackBlank, NoArena
<1> QED
  BY <1>1 DEF PackedSubVa, Outer, Placed

LEMMA StockUndoes ==
  ASSUME ForgetInv, MemoryFill, StockCall, Keeps, work.kind = "undo"
  PROVE  MemoryFill'
<1>1. /\ ControlInv /\ PoolOK /\ KindOK /\ DriverOK /\ ~Shimmed /\ Now.pc = "idle" /\ Busy
      /\ UNCHANGED <<setup, appended, stage>> /\ UndoByPlan /\ LiveOK
  BY StockKeeps DEF ForgetInv, ControlInv, StockCall, MemoryFill
<1>2. work'.kind = "undo" /\ work'.plan = Tail(work.plan) /\ work'.slot = work.slot
  <2>1. work' = [work EXCEPT !.plan = Tail(@)]
    BY DEF StockCall, Advance
  <2> QED
    BY <1>1, <2>1 DEF PoolOK, WorkRecord
<1>3. Head(work.plan) \in {"unmap", "release", "free"} /\ work.plan # << >>
  BY <1>1, UndoPlansApart DEF UndoByPlan, UndoPlans, Busy
<1>4. pool' = pool
  BY <1>3 DEF StockCall, DriverTakes
<1>5. Slot' = Slot /\ PoolHeld /\ Shimmed' = Shimmed
  BY <1>1, <1>2, <1>4 DEF Slot, PoolHeld, Live, NeedReq, Bytes, ReserveBytes, Logical,
     Shimmed, bench
<1>6. PICK va, h : va = Slot.va /\ h \in Handle /\ h = Slot.h /\ h = Slot'.h
  <2>1. Slot \in PoolSlot
    BY <1>1 DEF PoolOK, WorkRecord, Slot
  <2> QED
    BY <1>5, <2>1 DEF PoolSlot
<1>7. \A g : NotLive(g)' = NotLive(g)
  BY <1>5, SpansSame
<1>8. CASE work.plan = <<"unmap", "release", "free">>
  <2>1. UnmapsOwn
    BY <1>1, <1>8 DEF UndoByPlan
  <2>2. /\ physLen' = physLen
        /\ mappings' = mappings \/ mappings' = {m \in mappings : m.va # va}
    BY <1>6, <1>8, UndoPlansApart DEF StockCall, DriverTakes, DriverUnmap, driverVars
  <2>3. LiveOK'
    BY <1>1, <1>5, <1>6, <2>1, <2>2, UnmapsNoneLive, LiveSame DEF MemoryKept, UnmapsOwn
  <2>4. ReleasesOwn'
    <3>1. NotLive(h)'
      BY <1>6, <1>7, <2>1 DEF UnmapsOwn
    <3>2. Now'.pc = "idle"
      BY <1>1 DEF StockCall, Now
    <3> QED
      BY <1>6, <3>1, <3>2 DEF ReleasesOwn
  <2> QED
    BY <1>2, <1>8, <2>3, <2>4, UndoPlansApart DEF MemoryFill, UndoByPlan, UndoPlans
<1>9. CASE work.plan = <<"release", "free">>
  <2>1. NotLive(h)
    BY <1>1, <1>6, <1>9 DEF UndoByPlan, ReleasesOwn
  <2>2. DriverRelease(h) \/ MemoryKept
    BY <1>6, <1>9, UndoPlansApart DEF StockCall, DriverTakes, driverVars, MemoryKept
  <2>3. LiveOK'
    BY <1>1, <1>5, <1>6, <2>1, <2>2, ReleasesNoneLive, LiveSame
  <2> QED
    BY <1>2, <1>9, <2>3, UndoPlansApart DEF MemoryFill, UndoByPlan, UndoPlans
<1>10. CASE work.plan = <<"free">>
  <2>1. MemoryKept
    BY <1>10, UndoPlansApart DEF StockCall, DriverTakes, DriverAddressFree, driverVars,
       MemoryKept
  <2>2. LiveOK'
    BY <1>1, <1>5, <2>1, LiveSame
  <2> QED
    BY <1>2, <1>10, <2>2, UndoPlansApart DEF MemoryFill, UndoByPlan, UndoPlans
<1> QED
  BY <1>1, <1>3, <1>8, <1>9, <1>10 DEF UndoByPlan, UndoPlans

(* A call the driver refuses leads to the unwinding of what was made.      *)
LEMMA StockRefuses ==
  ASSUME ForgetInv, TableFill, MemoryFill, Filling, StockCall,
         DriverRefuses(Head(work.plan)), Advance(FALSE), UNCHANGED <<driverVars, pool>>
  PROVE  MemoryFill'
<1>1. /\ ControlInv /\ PoolOK /\ KindOK /\ ~Shimmed /\ Now.pc = "idle" /\ Busy
      /\ UNCHANGED <<setup, appended, stage, shimVars>> /\ ArenaByPlan /\ LiveOK
      /\ NextInPool /\ Head(work.plan) # "access"
  BY StockKeeps DEF ForgetInv, ControlInv, StockCall, MemoryFill, Filling, TableFill
<1>2. /\ work.kind = "map" /\ work.plan \in {MapPlan, CreatePlan, MapPlanLeft}
      /\ work'.slot = work.slot /\ PoolKept /\ \A i \in Live : pool'[i] = pool[i]
  BY <1>1, StockNotes, FillsAPlan, FillPlans DEF HeldPlans, Busy
<1>3. work'.kind = "undo" /\ work'.plan = Unwind(Head(work.plan))
  <2>1. work' = [work EXCEPT !.kind = "undo", !.plan = Unwind(Head(@))]
    BY <1>2 DEF Advance
  <2> QED
    BY <1>1, <2>1 DEF PoolOK, WorkRecord
<1>4. Slot' = Slot /\ PoolHeld /\ MemoryKept /\ ~Cycling
  BY <1>1, <1>2 DEF Slot, PoolHeld, PoolKept, Live, NeedReq, Bytes, ReserveBytes, Logical,
     Shimmed, bench, driverVars, MemoryKept, Filling, Keeps
<1>5. PICK va, h : va = Slot.va /\ h = Slot.h /\ h = Slot'.h
  BY <1>4
<1>6. LiveOK' /\ \A g : NotLive(g)' = NotLive(g)
  BY <1>1, <1>4, LiveSame, SpansSame
<1>7. work'.plan \in {<< >>, <<"free">>, <<"release", "free">>}
  BY <1>2, <1>3, <1>4, FillPlans, UnwindPlans
<1>8. ASSUME work'.plan = <<"release", "free">>
      PROVE  ReleasesOwn'
  <2>1. work.plan = MapPlanLeft
    BY <1>2, <1>3, <1>4, <1>8, FillPlans, UnwindPlans, UndoPlansApart
  <2>2. BoundTo(va, h)
    BY <1>1, <1>2, <1>5, <2>1, FillPlans DEF ArenaByPlan, MapFill
  <2>3. NotLive(h)'
    BY <1>1, <1>6, <2>2, BoundReleases, StockBlank
  <2>4. Now'.pc = "idle"
    BY <1>1 DEF StockCall, Now
  <2> QED
    BY <1>5, <2>3, <2>4 DEF ReleasesOwn
<1> QED
  BY <1>3, <1>6, <1>7, <1>8, UndoPlansApart DEF MemoryFill, UndoByPlan, UndoPlans

LEMMA StockTakes ==
  ASSUME ForgetInv, TableFill, MemoryFill, Filling, StockCall,
         DriverTakes(Head(work.plan)), Advance(TRUE)
  PROVE  MemoryFill'
<1>1. /\ ControlInv /\ PoolOK /\ KindOK /\ DriverOK /\ ~Shimmed /\ Now.pc = "idle" /\ Busy
      /\ UNCHANGED <<setup, appended, stage, shimVars, call>> /\ ArenaByPlan /\ LiveOK
      /\ NextInPool /\ Head(work.plan) # "access"
  BY StockKeeps DEF ForgetInv, ControlInv, StockCall, MemoryFill, Filling, TableFill
<1>2. /\ work.kind = "map" /\ work.plan \in {MapPlan, CreatePlan, MapPlanLeft}
      /\ work'.slot = work.slot /\ PoolKept /\ \A i \in Live : pool'[i] = pool[i]
      /\ Slot \in PoolSlot /\ Slot.req \in Nat \ {0} /\ Slot'.req = Slot.req
      /\ work.slot \in PoolIndex
  BY <1>1, StockNotes, FillsAPlan, FillPlans DEF HeldPlans, Busy, PoolOK, PoolSlot
<1>3. work'.kind = "map" /\ work'.plan = Tail(work.plan)
  <2>1. work' = [work EXCEPT !.plan = Tail(@)]
    BY DEF Advance
  <2> QED
    BY <1>1, <1>2, <2>1 DEF PoolOK, WorkRecord
<1>4. PoolHeld /\ LeavesKept
  BY <1>1, <1>2 DEF PoolHeld, PoolKept, Bytes, shimVars, packVars, LeavesKept
<1>5. Now'.pc = "idle"
  BY <1>1 DEF Now
<1>6. ~arena'.active /\ bandSeq' = 0 /\ ~arena.active
  BY <1>1, <1>4, StockBlank DEF LeavesKept
<1>7. CASE work.plan = MapPlan
  <2>1. MemoryKept
    BY <1>7, FillPlans DEF DriverTakes, DriverReserve, MemoryKept
  <2>2. LiveOK'
    BY <1>1, <1>4, <2>1, LiveSame
  <2>3. Placed(Slot.va)'
    BY <1>6 DEF Placed, Outer, PackedSubVa
  <2>4. CreateFill(Now)'
    BY <1>5, <2>3 DEF CreateFill, Bound, BoundPc, Succeeded
  <2>5. work'.plan = CreatePlan
    BY <1>3, <1>7, FillPlans
  <2> QED
    BY <1>3, <2>2, <2>4, <2>5, FillPlans DEF MemoryFill, ArenaByPlan
<1>8. CASE work.plan = CreatePlan
  <2>1. PICK h \in FreshHandles : /\ DriverCreate(h, CreateBytes(Slot.req))
                                  /\ pool' = [pool EXCEPT ![work.slot].h = h]
    BY <1>8, FillPlans DEF DriverTakes
  <2>2. CreateBytes(Slot.req) \in Nat \ {0}
    BY <1>1, <1>2, SlotSizes
  <2>3. LiveOK' /\ NewMemory(h)'
    BY <1>1, <1>4, <2>1, <2>2, MemoryMade
  <2>4. Slot'.h = h
    BY <1>1, <1>2, <2>1 DEF Slot, PoolOK, PoolSlot
  <2>5. \A va : OwnArena(va, h)'
    BY <1>6 DEF OwnArena
  <2>6. \A va : BoundTo(va, h)'
    BY <2>3, <2>5 DEF BoundTo, OwnLeaf
  <2>7. BoundTo(Slot.va, Slot.h)'
    BY <2>4, <2>6
  <2>8. MapFill(Now)'
    BY <1>5, <2>7 DEF MapFill, Succeeded
  <2>9. work'.plan = MapPlanLeft
    BY <1>3, <1>8, FillPlans
  <2> QED
    BY <1>3, <2>3, <2>8, <2>9, FillPlans DEF MemoryFill, ArenaByPlan
<1>9. CASE work.plan = MapPlanLeft
  <2>1. DriverMap(Slot.va, Bytes, 0, Slot.h) /\ pool' = pool
    BY <1>9, FillPlans DEF DriverTakes, Bytes
  <2>2. PICK va \in Nat, h \in Handle :
          va = Slot.va /\ va = Slot'.va /\ h = Slot.h /\ h = Slot'.h
    BY <1>2, <2>1 DEF Slot, PoolSlot
  <2>3. BoundTo(va, h)
    BY <1>1, <1>2, <1>9, <1>5, <2>2, FillPlans DEF ArenaByPlan, MapFill, Now
  <2>4. OwnLeaf(va, h)
    BY <1>6, <2>3 DEF BoundTo, SharedLeaf, Inner, PackedSubVa
  <2>5. Bytes \in Nat \ {0}
    BY <1>2, SlotSizes
  <2>6. LiveOK' /\ OwnLeaf(va, h)' /\ OwnMapping(va, h)'
    BY <1>1, <1>4, <2>1, <2>2, <2>4, <2>5, MappingMade DEF LeavesKept
  <2>7. Held(va, h)'
    BY <1>6, <2>6 DEF Held, OwnHeld, OwnLeaf, ArenaReady
  <2>8. Held(Slot.va, Slot.h)'
    BY <2>2, <2>7
  <2>9. work'.plan \in HeldPlans
    BY <1>3, <1>9, FillPlans
  <2> QED
    BY <1>3, <2>6, <2>8, <2>9, FillPlans DEF MemoryFill, ArenaByPlan
<1> QED
  BY <1>2, <1>7, <1>8, <1>9

LEMMA MemoryAtStock ==
  ASSUME ForgetInv, TableFill, MemoryFill, StockCall
  PROVE  MemoryFill'
<1>1. Keeps' = Keeps
  BY DEF StockCall, Keeps, Retries, Cycling, bench
<1>2. CASE ~Keeps
  BY <1>1, <1>2 DEF MemoryFill
<1>3. CASE Keeps /\ work.kind = "undo"
  BY <1>3, StockUndoes
<1>4. CASE Filling
  BY <1>4, StockTakes, StockRefuses DEF StockCall
<1> QED
  BY <1>2, <1>3, <1>4 DEF Filling

(* An access that fails is not a packed slice's: the slot has a mapping of *)
(* its own, and no live slot is in it.                                     *)
LEMMA MemoryAtAccess ==
  ASSUME ForgetInv, TableFill, MemoryFill, SetAccess
  PROVE  MemoryFill'
<1>1. /\ ControlInv /\ PoolOK /\ KindOK /\ Now.pc = "idle" /\ Busy
      /\ UNCHANGED <<setup, appended, stage, shimVars, driverVars, pool>>
      /\ UNCHANGED call
  BY AccessKeeps DEF ForgetInv, ControlInv, SetAccess, vars
<1>2. Keeps' = Keeps
  BY <1>1 DEF Keeps, Retries, Cycling, bench
<1>3. CASE ~Keeps
  BY <1>2, <1>3 DEF MemoryFill
<1>4. CASE Keeps /\ work.kind = "undo"
  <2>1. Head(work.plan) # "access"
    BY <1>1, <1>4, UndoPlansApart DEF MemoryFill, UndoByPlan, UndoPlans, Busy
  <2> QED
    BY <2>1 DEF SetAccess
<1>5. CASE Filling
  <2>1. /\ work.kind = "map" /\ work'.slot = work.slot /\ PoolKept /\ Keeps
        /\ ArenaByPlan /\ LiveOK /\ \A i \in Live : pool'[i] = pool[i]
    BY <1>1, <1>5, StockNotes DEF Filling, TableFill, MemoryFill
  <2>2. work.plan = <<"access">>
    BY <1>1, <1>5, <2>1, FillsAPlan, FillPlans DEF SetAccess, HeldPlans, Busy
  <2>3. PoolHeld /\ Slot' = Slot /\ LeavesKept /\ MemoryKept
    BY <1>1, <2>1 DEF Slot, PoolHeld, PoolKept, Bytes, shimVars, packVars, driverVars,
       LeavesKept, MemoryKept
  <2>4. PICK va, h : va = Slot.va /\ va = Slot'.va /\ h = Slot.h /\ h = Slot'.h
    BY <2>3
  <2>5. Held(va, h) /\ Held(va, h)' /\ LiveOK' /\ \A g : NotLive(g)' = NotLive(g)
    <3>1. Held(Slot.va, Slot.h)
      BY <2>1, <2>2, FillPlans DEF ArenaByPlan
    <3>2. Held(va, h)
      BY <2>4, <3>1
    <3>3. Held(va, h)' = Held(va, h)
      BY <2>3, MemorySame
    <3>4. LiveOK' /\ \A g : NotLive(g)' = NotLive(g)
      BY <2>1, <2>3, LiveSame, SpansSame
    <3> QED
      BY <3>2, <3>3, <3>4
  <2>6. CASE Advance(TRUE)
    <3>1. work'.kind = "map" /\ work'.plan = << >>
      BY <1>1, <2>1, <2>2, <2>6, FillPlans DEF Advance, PoolOK, WorkRecord
    <3>2. Held(Slot.va, Slot.h)'
      BY <2>4, <2>5
    <3> QED
      BY <2>5, <3>1, <3>2, FillPlans DEF MemoryFill, ArenaByPlan
  <2>7. CASE ~PackedSlot(Slot.va) /\ Advance(FALSE)
    <3>1. work'.kind = "undo" /\ work'.plan = <<"unmap", "release", "free">>
      <4>1. work' = [work EXCEPT !.kind = "undo", !.plan = Unwind(Head(@))]
        BY <2>1, <2>7 DEF Advance
      <4>2. Unwind(Head(work.plan)) = <<"unmap", "release", "free">>
        BY <2>1, <2>2, FillPlans, UnwindPlans DEF Keeps
      <4> QED
        BY <1>1, <4>1, <4>2 DEF PoolOK, WorkRecord
    <3>2. ~SharedLeaf(va, h)
      <4>1. CASE Shimmed
        <5>1. Seated(va, TRUE)
          BY <1>5, <2>1, <2>2, <2>4, <4>1, FillPlans DEF TableFill, TableByPlan
        <5>2. ~PackedSubVa(va)
          BY <1>1, <2>4, <2>7, <5>1, SeatFound DEF ControlInv, ShimInv, StateOK
        <5> QED
          BY <5>2 DEF SharedLeaf, Inner
      <4>2. CASE ~Shimmed
        BY <4>2, StockBlank DEF SharedLeaf, Inner
      <4> QED
        BY <4>1, <4>2
    <3>3. NotLive(h) /\ \A m \in mappings : m.va = va => m.handle = h
      BY <2>5, <3>2 DEF Held, OwnHeld, OwnMapping, NewMemory
    <3>4. UnmapsOwn'
      BY <2>3, <2>4, <2>5, <3>3 DEF UnmapsOwn, MemoryKept
    <3>5. UndoByPlan'
      BY <3>1, <3>4, UndoPlansApart DEF UndoByPlan, UndoPlans
    <3> QED
      BY <2>5, <3>1, <3>5 DEF MemoryFill
  <2> QED
    BY <2>6, <2>7 DEF SetAccess
<1> QED
  BY <1>3, <1>4, <1>5 DEF Filling

(* The slot at hand joins the live ones: it is backed from end to end,     *)
(* away from all of them, and what the arena gives next is away from it.   *)
LEMMA MemoryAtDone ==
  ASSUME ForgetInv, TableFill, MemoryFill, WorkDone
  PROVE  MemoryFill'
<1>1. CASE ~Keeps'
  BY <1>1 DEF MemoryFill
<1>2. CASE Keeps'
  <2>1. /\ ControlInv /\ PoolOK /\ PackInv /\ UNCHANGED vars
        /\ Filling /\ Keeps /\ work.kind = "map" /\ work.plan = << >> /\ work'.kind = "none"
        /\ work.slot \in PoolIndex /\ Live' = Live \union {work.slot} /\ work.slot \notin Live
        /\ \A i \in PoolIndex : /\ pool'[i].va = pool[i].va /\ pool'[i].h = pool[i].h
                                /\ pool'[i].req = pool[i].req
    BY <1>2, DoneKeepsSlot
    DEF ForgetInv, ControlInv, ShimInv, StateOK, TableFill, WorkDone
  <2>2. /\ LiveOK /\ Held(Slot.va, Slot.h) /\ Slot.va \in Nat /\ Slot.h \in Handle
        /\ Slot.req \in Nat \ {0}
    BY <2>1, FillPlans DEF MemoryFill, ArenaByPlan, PoolOK, PoolSlot, Slot
  <2>3. PICK k \in PoolIndex, va \in Nat, h \in Handle :
          k = work.slot /\ va = Slot.va /\ h = Slot.h /\ pool[k].va = va /\ pool[k].h = h
    BY <2>1, <2>2 DEF Slot
  <2> DEFINE P == PlacementRound(Slot.req)
  <2>4. /\ P \in Nat \ {0} /\ P <= Charge /\ Charge <= Bytes
        /\ Charge \in Nat /\ Bytes \in Nat
    BY <2>2, SlotSizes
  <2>5. /\ arena' = arena /\ handleRefs' = handleRefs /\ bandSeq' = bandSeq
        /\ physLen' = physLen /\ mappings' = mappings
    BY <2>1 DEF vars, shimVars, packVars, driverVars
  <2>6. /\ \A i \in Live : /\ SpanOf(i)' = SpanOf(i) /\ pool'[i].h = pool[i].h
                           /\ SpanOf(i).lo \in Nat /\ SpanOf(i).hi \in Nat
        /\ SpanOf(k)'.lo = va /\ SpanOf(k)'.hi = va + P /\ pool'[k].h = h
    <3>1. Live \subseteq PoolIndex
      BY DEF Live
    <3>2. \A i \in Live : /\ SpanOf(i)' = SpanOf(i) /\ pool'[i].h = pool[i].h
                          /\ SpanOf(i).lo \in Nat /\ SpanOf(i).hi \in Nat
      BY <2>1, <3>1, SpanTyped DEF SpanOf
    <3>3. SpanOf(k)'.lo = va /\ SpanOf(k)'.hi = va + P /\ pool'[k].h = h
      BY <2>1, <2>3 DEF SpanOf, Slot
    <3> QED
      BY <3>2, <3>3
  <2>7. /\ arena \in ArenaRecord /\ arena.base \in Nat /\ arena.len \in Nat
        /\ arena.next \in Nat /\ (arena.active => arena.next <= arena.len)
    BY <2>1 DEF PackInv, PackTypeOK, ArenaRecord, ArenaBounded
  <2>8. Held(va, h)
    BY <2>2, <2>3
  <2> HIDE DEF P
  <2>9. /\ physLen[h] > 0
        /\ \E m \in mappings : m.handle = h /\ m.va <= va /\ va + P <= m.va + m.len
        /\ Clear(va, va + P)
        /\ arena.active =>
             /\ PackOn /\ ArenaHeld
             /\ IF arena.next = 0 THEN bandSeq = 0
                ELSE va + P <= arena.base + arena.next /\ Clear(arena.base + arena.next, ArenaEnd)
    <3>1. CASE SharedLeaf(va, h)
      <4>1. /\ PackOn /\ arena.active /\ arena.base < va /\ va < ArenaEnd /\ ArenaHeld
            /\ arena.next > 0 /\ va + Charge <= arena.base + arena.next
            /\ Clear(va, ArenaEnd) /\ h = arena.handle
        BY <3>1 DEF SharedLeaf, Inner, PackedSubVa
      <4>2. PICK m \in mappings : m.va = arena.base /\ m.handle = h /\ arena.len <= m.len
        BY <4>1 DEF ArenaHeld
      <4>3. m.len \in Nat
        BY <2>1 DEF ControlInv, DriverOK
      <4>4. /\ va + P <= arena.base + arena.next /\ arena.base + arena.next <= ArenaEnd
            /\ va + P <= ArenaEnd /\ va <= arena.base + arena.next
        BY <2>4, <2>7, <4>1 DEF ArenaEnd
      <4>5. m.va <= va /\ va + P <= m.va + m.len
        BY <2>4, <2>7, <4>1, <4>2, <4>3, <4>4 DEF ArenaEnd
      <4>6. Clear(va, va + P) /\ Clear(arena.base + arena.next, ArenaEnd)
        BY <2>4, <2>6, <2>7, <4>1, <4>4 DEF Clear, ArenaEnd
      <4>7. physLen[h] > 0
        BY <4>1 DEF ArenaHeld
      <4> QED
        BY <2>7, <4>1, <4>2, <4>4, <4>5, <4>6, <4>7
    <3>2. CASE OwnHeld(va, h)
      <4>1. /\ physLen[h] > 0 /\ OwnMapping(va, h) /\ ArenaReady
            /\ arena.active => arena.base = va /\ (arena.next > 0 => Charge <= arena.next)
        BY <3>2 DEF OwnHeld, NewMemory
      <4>2. PICK m \in mappings : m = [va |-> va, len |-> Bytes, handle |-> h]
        BY <4>1 DEF OwnMapping
      <4>3. m.handle = h /\ m.va <= va /\ va + P <= m.va + m.len
        BY <2>4, <4>2
      <4>4. Clear(va, va + P)
        BY <2>4, <2>6, <4>1 DEF OwnMapping, Clear
      <4>5. ASSUME arena.active
            PROVE  /\ PackOn /\ ArenaHeld
                   /\ IF arena.next = 0 THEN bandSeq = 0
                      ELSE /\ va + P <= arena.base + arena.next
                           /\ Clear(arena.base + arena.next, ArenaEnd)
        BY <2>4, <2>7, <4>1, <4>5 DEF ArenaReady
      <4> QED
        BY <4>1, <4>3, <4>4, <4>5
    <3> QED
      BY <2>8, <3>1, <3>2 DEF Held
  <2>10. LiveBacked'
    <3>1. ASSUME NEW i \in Live
          PROVE  physLen'[pool'[i].h] > 0 /\ \E m \in mappings' : BackedBy(i, m)'
      BY <2>2, <2>5, <2>6 DEF LiveOK, LiveBacked, BackedBy
    <3>2. physLen'[pool'[k].h] > 0 /\ \E m \in mappings' : BackedBy(k, m)'
      BY <2>5, <2>6, <2>9 DEF BackedBy
    <3> QED
      BY <2>1, <2>3, <3>1, <3>2 DEF LiveBacked
  <2>11. LiveApart'
    <3>1. ASSUME NEW i \in Live
          PROVE  SpanOf(i)'.hi <= SpanOf(k)'.lo \/ SpanOf(k)'.hi <= SpanOf(i)'.lo
      BY <2>6, <2>9 DEF Clear
    <3>2. ASSUME NEW i \in Live, NEW j \in Live, i # j
          PROVE  SpanOf(i)'.hi <= SpanOf(j)'.lo \/ SpanOf(j)'.hi <= SpanOf(i)'.lo
      BY <2>2, <2>6, <3>2 DEF LiveOK, LiveApart
    <3> QED
      BY <2>1, <2>3, <3>1, <3>2 DEF LiveApart
  <2>12. ArenaReady'
    <3>1. SUFFICES ASSUME arena.active
                   PROVE  ArenaReady'
      BY <2>5 DEF ArenaReady
    <3>2. ArenaHeld' = ArenaHeld
      BY <2>5 DEF ArenaHeld
    <3>3. ASSUME arena.next # 0
          PROVE  Clear(arena.base + arena.next, ArenaEnd)'
      <4>1. \A i \in Live' : SpanOf(i)'.hi <= arena.base + arena.next
                             \/ ArenaEnd <= SpanOf(i)'.lo
        BY <2>1, <2>3, <2>6, <2>9, <3>1, <3>3 DEF Clear
      <4> QED
        BY <2>5, <4>1 DEF Clear, ArenaEnd
    <3> QED
      BY <2>5, <2>9, <3>1, <3>2, <3>3 DEF ArenaReady
  <2> QED
    BY <2>1, <2>10, <2>11, <2>12 DEF MemoryFill, ArenaByPlan, LiveOK
<1> QED
  BY <1>1, <1>2

LEMMA MemoryAtAppend ==
  ASSUME ControlInv, MemoryFill, AppendSlot
  PROVE  MemoryFill'
<1>1. /\ Keeps /\ work.kind = "none" /\ Live' = Live /\ UNCHANGED vars
      /\ work'.kind = "map" /\ work'.plan = MapPlan /\ Now.pc = "idle"
      /\ \A i \in Live : pool'[i] = pool[i]
  <2>1. Live \subseteq PoolIndex
    BY DEF Live
  <2> QED
    BY <2>1, AppendKeepsSlots, FreeRests DEF Free, Keeps
<1>2. LiveOK /\ ArenaReady
  BY <1>1 DEF MemoryFill, ArenaByPlan
<1>3. /\ arena' = arena /\ handleRefs' = handleRefs /\ bandSeq' = bandSeq
      /\ physLen' = physLen /\ mappings' = mappings /\ Now' = Now
  BY <1>1 DEF vars, shimVars, packVars, driverVars, Now
<1>4. \A i \in Live : SpanOf(i)' = SpanOf(i)
  BY <1>1 DEF SpanOf
<1>5. LiveOK'
  BY <1>1, <1>2, <1>3, <1>4 DEF LiveOK, LiveBacked, LiveApart, BackedBy
<1>6. ArenaReady'
  BY <1>1, <1>2, <1>3, <1>4 DEF ArenaReady, ArenaHeld, Clear, ArenaEnd
<1>7. ReserveFill(Now)'
  BY <1>1, <1>3, <1>6 DEF ReserveFill, SeekPc, CommitPc, Granted, GrantedPc, Succeeded
<1> QED
  BY <1>1, <1>5, <1>7, FillPlans DEF MemoryFill, ArenaByPlan

LEMMA MemoryAtHead ==
  ASSUME MemoryFill, CountHead
  PROVE  MemoryFill'
<1>1. UNCHANGED <<setup, vars, pool, appended, stage, work>> /\ work.kind = "none"
  BY DEF CountHead, Free
<1>2. PoolHeld /\ LeavesKept /\ MemoryKept /\ Keeps' = Keeps
  BY <1>1 DEF PoolHeld, Live, NeedReq, Bytes, ReserveBytes, Logical, Slot, Shimmed, bench,
     Keeps, Retries, Cycling, vars, shimVars, packVars, driverVars, LeavesKept, MemoryKept
<1>3. LiveOK' = LiveOK /\ ArenaReady' = ArenaReady
  BY <1>2, LeavesSame
<1> QED
  BY <1>1, <1>2, <1>3 DEF MemoryFill, ArenaByPlan

(* A new context has no slots, and no arena.                              *)
LEMMA MemoryAtContext ==
  ASSUME ForgetInv, NewContext
  PROVE  MemoryFill'
<1>1. /\ ControlInv /\ UNCHANGED shimVars /\ Now.pc = "done" /\ stage = "reset"
      /\ appended' = 0 /\ work' = work /\ Forgetting
  BY NewContextKeeps DEF ForgetInv
<1>2. work.kind = "none"
  BY <1>1 DEF ControlInv, KindOK, PoolOK, WorkRecord
<1>3. ~arena'.active
  BY <1>1 DEF Forgetting, PackBlank, NoArena, shimVars, packVars
<1>4. Live' = {}
  BY <1>1, HarnessAssumption DEF Live, PoolIndex
<1>5. LiveOK' /\ ArenaReady'
  BY <1>3, <1>4 DEF LiveOK, LiveBacked, LiveApart, ArenaReady
<1> QED
  BY <1>1, <1>2, <1>5 DEF MemoryFill, ArenaByPlan

LEMMA MemoryStarts == BenchInit => MemoryFill
<1> SUFFICES ASSUME BenchInit
             PROVE  MemoryFill
  OBVIOUS
<1>1. appended = 0 /\ ~arena.active /\ work.kind = "none"
  BY DEF BenchInit, NoWork, ShimInit, PackInit, NoArena
<1>2. Live = {}
  BY <1>1, HarnessAssumption DEF Live, PoolIndex
<1>3. LiveOK /\ ArenaReady
  BY <1>1, <1>2 DEF LiveOK, LiveBacked, LiveApart, ArenaReady
<1> QED
  BY <1>1, <1>3 DEF MemoryFill, ArenaByPlan

LEMMA MemoryStays ==
  ASSUME MemoryFill, UNCHANGED harnessVars
  PROVE  MemoryFill'
<1>1. /\ UNCHANGED benchVars /\ Now' = Now /\ LeavesKept /\ MemoryKept
      /\ work' = work /\ mappings' = mappings
  BY DEF harnessVars, vars, shimVars, packVars, driverVars, benchVars, LeavesKept,
     MemoryKept, Now
<1>2. /\ PoolHeld /\ Slot' = Slot /\ Keeps' = Keeps /\ Shimmed' = Shimmed
  BY <1>1, BenchHoldsPool DEF benchVars, Keeps, Retries, Cycling, bench, Shimmed
<1>3. PICK c, va, h : c = Now /\ c = Now' /\ va = Slot.va /\ va = Slot'.va
                      /\ h = Slot.h /\ h = Slot'.h
  BY <1>1, <1>2
<1>4. /\ LiveOK' = LiveOK /\ ArenaReady' = ArenaReady
      /\ NotLive(h)' = NotLive(h) /\ DefersRelease(h)' = DefersRelease(h)
      /\ Held(va, h)' = Held(va, h) /\ \A g : NotLive(g)' = NotLive(g)
  BY <1>1, <1>2, LeavesSame, MemorySame, SpansSame
<1>5. /\ ReserveFill(c)' = ReserveFill(c) /\ CreateFill(c)' = CreateFill(c)
      /\ MapFill(c)' = MapFill(c)
  BY <1>1, <1>2, ReserveFillSame, CreateFillSame, MapFillSame
<1>6. /\ ReserveFill(Now)' = ReserveFill(Now) /\ CreateFill(Now)' = CreateFill(Now)
      /\ MapFill(Now)' = MapFill(Now) /\ Held(Slot.va, Slot.h)' = Held(Slot.va, Slot.h)
  BY <1>3, <1>4, <1>5
<1>7. ArenaByPlan' = ArenaByPlan
  BY <1>1, <1>4, <1>6 DEF ArenaByPlan
<1>8. UnmapsOwn' = UnmapsOwn
  BY <1>1, <1>3, <1>4 DEF UnmapsOwn
<1>9. ReleasesOwn' = ReleasesOwn
  BY <1>1, <1>2, <1>3, <1>4 DEF ReleasesOwn
<1>10. UndoByPlan' = UndoByPlan
  BY <1>1, <1>8, <1>9 DEF UndoByPlan
<1> QED
  BY <1>1, <1>2, <1>4, <1>7, <1>10 DEF MemoryFill

LEMMA MemoryStep ==
  ASSUME ~GqaOn
  PROVE  FillInv /\ [HarnessNext]_harnessVars => MemoryFill'
<1> SUFFICES ASSUME FillInv, [HarnessNext]_harnessVars
             PROVE  MemoryFill'
  OBVIOUS
<1>1. ForgetInv /\ TableFill /\ MemoryFill /\ ControlInv
  BY DEF FillInv, ForgetInv
<1>2. ASSUME \/ ChurnMap \/ ChurnFree \/ ChurnEnd \/ SweepOrReset \/ InReset
             \/ RetrySlot \/ FillEnd \/ TeardownNext \/ Fini \/ BeginCycle \/ CyclesEnd
      PROVE  MemoryFill'
  <2>1. ~Keeps'
    BY <1>1, <1>2, TableElsewhere
  <2> QED
    BY <2>1 DEF MemoryFill
<1> QED
  BY <1>1, <1>2, MemoryInCall, MemoryAtStart, MemoryAtFinish, MemoryAtStock, MemoryAtAccess,
     MemoryAtDone, MemoryAtAppend, MemoryAtHead, MemoryAtContext, MemoryStays
  DEF HarnessNext, Finished

-----------------------------------------------------------------------------

LEMMA FillInvariant ==
  ASSUME ~GqaOn
  PROVE  HarnessSpec => []FillInv
<1>1. BenchInit => FillInv
  BY ForgetStarts, TableStarts, MemoryStarts DEF FillInv
<1>2. FillInv /\ [HarnessNext]_harnessVars => FillInv'
  BY ForgetKept, TableStep, MemoryStep DEF FillInv
<1> QED
  BY <1>1, <1>2, PTL DEF HarnessSpec

(* One slice or leaf after another, with calls that fail and are undone in *)
(* between: no two slots the bench keeps ever share an address.            *)
THEOREM SlotsStayApart ==
  ASSUME ~GqaOn
  PROVE  HarnessSpec => [](~Retries => SpansDisjoint)
<1>1. ASSUME FillInv, ~Retries
      PROVE  SpansDisjoint
  <2>1. SUFFICES ASSUME stage = "resident"
                 PROVE  LiveApart
    BY DEF SpansDisjoint, LiveApart
  <2>2. CASE Cycling
    <3>1. Live = {}
      BY <1>1, <2>2, HarnessAssumption DEF FillInv, TableFill, NextInPool, Live, PoolIndex
    <3> QED
      BY <3>1 DEF LiveApart
  <2>3. CASE ~Cycling
    BY <1>1, <2>1, <2>3 DEF FillInv, MemoryFill, Keeps, LiveOK
  <2> QED
    BY <2>2, <2>3
<1>2. FillInv => (~Retries => SpansDisjoint)
  BY <1>1
<1> QED
  BY <1>2, FillInvariant, PTL

(* Every slot a bench keeps is memory from end to end: one mapping of the  *)
(* very handle the slot was given, and that handle is alive, whatever was  *)
(* released and unmapped for the slots that failed.                        *)
THEOREM SlotsStayBacked ==
  ASSUME ~GqaOn
  PROVE  HarnessSpec => []LiveSlotsBacked
<1>1. ASSUME FillInv
      PROVE  LiveSlotsBacked
  <2>1. SUFFICES ASSUME stage = "resident", ~Retries
                 PROVE  LiveBacked
    BY DEF LiveSlotsBacked, LiveBacked, BackedBy
  <2>2. CASE Cycling
    <3>1. Live = {}
      BY <1>1, <2>2, HarnessAssumption DEF FillInv, TableFill, NextInPool, Live, PoolIndex
    <3> QED
      BY <3>1 DEF LiveBacked
  <2>3. CASE ~Cycling
    BY <1>1, <2>1, <2>3 DEF FillInv, MemoryFill, Keeps, LiveOK
  <2> QED
    BY <2>2, <2>3
<1>2. FillInv => LiveSlotsBacked
  BY <1>1
<1> QED
  BY <1>2, FillInvariant, PTL
-----------------------------------------------------------------------------
(* How many leaves the slots fill.  In the iso and resident benches all    *)
(* slots are one size, so the leaves are filled one after the other, each  *)
(* from its base to its last slice, before the next is made.               *)

Even == bench \in {"iso", "resident"}
Slice == Sizes[bench][1]
Step == PlacementRound(ReserveBytes(Slice))
Leaves == Cardinality(Memory)
PerMemory == IF Shimmed THEN PerLeaf ELSE 1  \* slots per piece of memory

(* What the two benches ask for: HWATOM_ISO_SLICE_BYTES up to a leaf, and  *)
(* the whole leaf the resident bench maps.                                 *)
EvenSlices ==
  \A s \in Setups : s.bench \in {"iso", "resident"} =>
    /\ Sizes[s.bench][1] <= Leaf
    /\ \A k \in 1 .. Len(Sizes[s.bench]) : Sizes[s.bench][k] = Sizes[s.bench][1]
    /\ s.bench = "resident" => Sizes[s.bench][1] = Leaf

(* n slots fill all leaves but the last, and that one from its base up.    *)
LeafReady == Shimmed => arena.active /\ arena.len = Leaf
Stacked(n) ==
  \/ n = 0 /\ Leaves = 0 /\ ~arena.active
  \/ \E j \in 1 .. PerMemory : /\ n + PerMemory = Leaves * PerMemory + j
                               /\ LeafReady /\ (Shimmed => arena.next = j * Step)

(* All leaves are full; all but one, which is empty.                       *)
Full(n) == n = Leaves * PerMemory
Opened(n) == n + PerMemory = Leaves * PerMemory

(* A slot at va is a slice of the last leaf, charged already, or the first *)
(* of a leaf that is still to make (Laid) or just made (RoomMade).         *)
Laid(va) == IF PackedSubVa(va) THEN Stacked(appended + 1) ELSE Full(appended)
RoomMade(va) ==
  IF PackedSubVa(va) THEN Stacked(appended + 1) ELSE Opened(appended) /\ LeafReady

SeekLeafPc == {"idle", "rsv_begin", "rsv_req", "rsv_gqa", "rsv_try"}
ReserveLeaves(c) ==
  /\ c.pc # "rsv_flush"
  /\ c.pc \in SeekLeafPc => Stacked(appended)
  /\ c.pc \in {"rsv_mega", "rsv_driver"} => Full(appended)
  /\ c.pc \in CommitPc \/ Granted(c) => Laid(c.va)

CreateLeaves(c) ==
  /\ c.pc \in {"idle", "crt_packed"} => Laid(Slot.va)
  /\ c.pc \in {"crt_retain", "crt_share"} => Stacked(appended + 1)
  /\ c.pc \in {"crt_validate", "crt_driver"} => Full(appended)
  /\ c.pc = "crt_bind" \/ Bound(c) => Opened(appended)
  /\ Succeeded(c, "create") => RoomMade(Slot.va)

OwnMapPc == {"map_off", "map_driver", "map_mark", "map_usage", "map_active", "map_req",
             "map_bump"}
MapLeaves(c) ==
  /\ c.pc \in {"idle", "map_validate", "map_route"} => RoomMade(Slot.va)
  /\ c.pc = "map_packed" => Stacked(appended + 1)
  /\ c.pc \in OwnMapPc => Opened(appended) /\ LeafReady
  /\ Succeeded(c, "map") => Stacked(appended + 1)

LeavesByPlan ==
  /\ work.kind = "none" => Stacked(appended)
  /\ work.kind = "map" /\ work.plan = MapPlan => ReserveLeaves(Now)
  /\ work.kind = "map" /\ work.plan = CreatePlan => CreateLeaves(Now)
  /\ work.kind = "map" /\ work.plan = MapPlanLeft => MapLeaves(Now)
  /\ work.kind = "map" /\ work.plan \in HeldPlans => Stacked(appended + 1)

(* The slot at hand is a slice, the iso bench has mapped one slot for each *)
(* group of heads it counted, and the slot at hand is in the budget.       *)
CountFill ==
  /\ Even /\ work.kind = "map" => Slot.req = Slice
  /\ bench = "iso" /\ stage = "resident" =>
       /\ appended = PhysicalOps(counted)
       /\ work.kind = "map" => MapsNext /\ InBudget(CommittedFor(appended + 1), setup.cap)

LeafFill ==
  Even => /\ OnlyLeaves /\ IsFiniteSet(Memory) /\ BudgetKept
          /\ Filling => LeavesByPlan

LeafInv == FillInv /\ CountFill /\ LeafFill

LEMMA HeadsGroup ==
  ASSUME NEW n \in Nat, NEW h \in Nat \ {0}
  PROVE  (n + 1 + h - 1) \div h =
           IF n % h = 0 THEN (n + h - 1) \div h + 1 ELSE (n + h - 1) \div h
<1>1. PICK q \in Nat, r \in Nat : n = q * h + r /\ r < h /\ r = n % h
  BY DivMod
<1>2. (q + 1) * h = q * h + h /\ q * h \in Nat /\ q + 1 \in Nat
  BY NextMultiple, ProductNat
<1>3. PICK p \in Nat : p = q * h /\ (q + 1) * h = p + h /\ n = p + r
  BY <1>1, <1>2
<1>4. (n + 1 + h - 1) \div h = q + 1
  <2>1. n + 1 + h - 1 \in Nat /\ (q + 1) * h <= n + 1 + h - 1
        /\ n + 1 + h - 1 < (q + 1) * h + h
    BY <1>1, <1>3
  <2> QED
    BY <1>2, <2>1, DivUnique
<1>5. CASE r = 0
  <2>1. n + h - 1 \in Nat /\ q * h <= n + h - 1 /\ n + h - 1 < q * h + h
    BY <1>3, <1>5
  <2>2. (n + h - 1) \div h = q
    BY <1>2, <2>1, DivUnique
  <2> QED
    BY <1>1, <1>4, <1>5, <2>2
<1>6. CASE r # 0
  <2>1. n + h - 1 \in Nat /\ (q + 1) * h <= n + h - 1 /\ n + h - 1 < (q + 1) * h + h
    BY <1>1, <1>3, <1>6
  <2>2. (n + h - 1) \div h = q + 1
    BY <1>2, <2>1, DivUnique
  <2> QED
    BY <1>1, <1>4, <1>6, <2>2
<1> QED
  BY <1>5, <1>6

(* The last leaf is counted as soon as it holds one slot.                  *)
LEMMA LeavesCounted ==
  ASSUME NEW k \in Nat \ {0}, NEW l \in Nat, NEW n \in Nat, NEW j \in 1 .. k,
         n + k = l * k + j
  PROVE  (n + k - 1) \div k = l
<1>1. PICK p \in Nat : p = l * k
  BY ProductNat
<1>2. n + k - 1 \in Nat /\ l * k <= n + k - 1 /\ n + k - 1 < l * k + k
  BY <1>1
<1> QED
  BY <1>2, DivUnique

LEMMA SliceSizes ==
  ASSUME PoolOK, Even, EvenSlices
  PROVE  /\ PerLeaf \in Nat \ {0} /\ PerMemory \in Nat \ {0}
         /\ Step \in Nat \ {0} /\ Step <= Leaf
         /\ Slice \in Nat \ {0} /\ AllocBytes(Slice) = Leaf
         /\ ReserveBytes(Slice) \in Nat \ {0} /\ ReserveBytes(Slice) <= Leaf
         /\ Shimmed => PerMemory * Step <= Leaf /\ Leaf < (PerMemory + 1) * Step
<1>1. /\ Slice \in Nat \ {0} /\ Slice <= Leaf /\ Leaf \in Nat \ {0}
      /\ bench = "resident" => Slice = Leaf
  <2>1. setup \in Setups /\ 1 \in 1 .. Len(Sizes[bench])
    BY SetupFields DEF PoolOK
  <2> QED
    BY <2>1, SetupFields, LeafAssumption DEF EvenSlices, Even, Slice, bench
<1>2. AllocBytes(Slice) = Leaf
  BY <1>1 DEF AllocBytes, FragAllocBytes
<1>3. /\ IronPlacementRound(Slice) = PlacementRound(Slice)
      /\ PerLeaf \in Nat \ {0}
      /\ PlacementRound(Slice) <= Leaf =>
           PerLeaf * PlacementRound(Slice) <= Leaf
           /\ Leaf < (PerLeaf + 1) * PlacementRound(Slice)
  BY <1>1, HarnessPlacesAlike DEF PerLeaf, Slice
<1>4. /\ PlacementRound(Slice) \in Nat \ {0} /\ PlacementRound(Slice) <= Leaf
      /\ PlacementRound(PlacementRound(Slice)) = PlacementRound(Slice)
      /\ PlacementRound(Leaf) \in Nat \ {0} /\ PlacementRound(Leaf) <= Leaf
  BY <1>1, PlacementHolds
<1>5. /\ ReserveBytes(Slice) \in {PlacementRound(Slice), Leaf}
      /\ Shimmed => PlacementRound(ReserveBytes(Slice)) = PlacementRound(Slice)
  <2>1. CASE Logical
    BY <1>1, <1>2, <1>3, <1>4, <2>1 DEF ReserveBytes
  <2>2. CASE ~Logical
    <3>1. ReserveBytes(Slice) = Leaf
      BY <1>2, <2>2 DEF ReserveBytes
    <3>2. Shimmed => bench = "resident"
      BY <2>2 DEF Logical, Even
    <3> QED
      BY <1>1, <3>1, <3>2
  <2> QED
    BY <2>1, <2>2
<1> QED
  BY <1>1, <1>2, <1>3, <1>4, <1>5 DEF PerMemory, Step

(* Only a slice that fits is taken, and one that does not leaves no room.  *)
LEMMA SliceFits ==
  ASSUME PoolOK, Even, EvenSlices, Shimmed, NEW j \in Nat
  PROVE  j * Step + Step <= Leaf <=> j < PerMemory
<1>1. /\ Step \in Nat \ {0} /\ PerMemory \in Nat \ {0} /\ Leaf \in Nat
      /\ PerMemory * Step <= Leaf /\ Leaf < (PerMemory + 1) * Step
  BY SliceSizes, LeafAssumption
<1>2. (j + 1) * Step = j * Step + Step /\ j + 1 \in Nat /\ j * Step \in Nat
      /\ (j + 1) * Step \in Nat /\ PerMemory * Step \in Nat /\ (PerMemory + 1) * Step \in Nat
  BY <1>1, NextMultiple, ProductNat
<1>3. j < PerMemory => (j + 1) * Step <= PerMemory * Step
  BY <1>1, <1>2, ProductOrder
<1>4. ~(j < PerMemory) => (PerMemory + 1) * Step <= (j + 1) * Step
  BY <1>1, <1>2, ProductOrder
<1> QED
  BY <1>1, <1>2, <1>3, <1>4

(* The bytes the bench works out from the number of slots.                 *)
LEMMA CommittedBytes ==
  ASSUME PoolOK, Even, EvenSlices, IsFiniteSet(Memory), NEW n \in Nat
  PROVE  /\ Leaves \in Nat
         /\ Stacked(n) => CommittedFor(n) = Leaves * Leaf
         /\ Full(n) => CommittedFor(n + 1) = (Leaves + 1) * Leaf
<1>1. PerMemory \in Nat \ {0} /\ Leaves \in Nat
  BY SliceSizes, FS_CardinalityType DEF Leaves
<1>2. \A m \in Nat : CommittedFor(m) = ((m + PerMemory - 1) \div PerMemory) * Leaf
  <2>1. CASE Shimmed
    BY <2>1 DEF CommittedFor, IsoCommitted, PerMemory
  <2>2. CASE ~Shimmed
    <3>1. \A m \in Nat : (m + 1 - 1) \div 1 = m
      OBVIOUS
    <3> QED
      BY <2>2, <3>1 DEF CommittedFor, IsoCommitted, PerMemory
  <2> QED
    BY <2>1, <2>2
<1>3. ASSUME Stacked(n)
      PROVE  CommittedFor(n) = Leaves * Leaf
  <2>1. CASE n = 0 /\ Leaves = 0
    <3>1. (n + PerMemory - 1) \div PerMemory = 0
      <4>1. 0 * PerMemory = 0 /\ PerMemory - 1 \in Nat /\ PerMemory - 1 < PerMemory
        BY <1>1
      <4>2. (PerMemory - 1) \div PerMemory = 0
        BY <1>1, <4>1, DivUnique
      <4> QED
        BY <1>1, <2>1, <4>2
    <3> QED
      BY <1>2, <2>1, <3>1
  <2>2. CASE \E j \in 1 .. PerMemory : n + PerMemory = Leaves * PerMemory + j
    BY <1>1, <1>2, <2>2, LeavesCounted
  <2> QED
    BY <1>3, <2>1, <2>2 DEF Stacked
<1>4. ASSUME Full(n)
      PROVE  CommittedFor(n + 1) = (Leaves + 1) * Leaf
  <2>1. (Leaves + 1) * PerMemory = Leaves * PerMemory + PerMemory /\ n + 1 \in Nat
        /\ Leaves * PerMemory \in Nat
    BY <1>1, NextMultiple, ProductNat
  <2>2. n + 1 + PerMemory = (Leaves + 1) * PerMemory + 1 /\ 1 \in 1 .. PerMemory
    BY <1>1, <1>4, <2>1 DEF Full
  <2>3. (n + 1 + PerMemory - 1) \div PerMemory = Leaves + 1
    BY <1>1, <2>1, <2>2, LeavesCounted
  <2> QED
    BY <1>2, <2>1, <2>3
<1> QED
  BY <1>1, <1>3, <1>4

-----------------------------------------------------------------------------
(* What leaves the leaves as they are.                                     *)

LEMMA LeavesStay ==
  ASSUME UNCHANGED <<physLen, setup>>
  PROVE  /\ Even' = Even /\ OnlyLeaves' = OnlyLeaves /\ Memory' = Memory
         /\ Leaves' = Leaves /\ BudgetKept' = BudgetKept /\ Slice' = Slice
         /\ Shimmed' = Shimmed /\ Step' = Step /\ PerMemory' = PerMemory
BY DEF Even, OnlyLeaves, Memory, Leaves, BudgetKept, Slice, Shimmed, Step, PerMemory,
   PerLeaf, bench, ReserveBytes, Logical

LEMMA StackStays ==
  ASSUME UNCHANGED <<physLen, setup, arena, appended>>
  PROVE  /\ LeafReady' = LeafReady
         /\ \A n : Stacked(n)' = Stacked(n) /\ Full(n)' = Full(n) /\ Opened(n)' = Opened(n)
         /\ \A va : Laid(va)' = Laid(va) /\ RoomMade(va)' = RoomMade(va)
<1>1. /\ Leaves' = Leaves /\ Shimmed' = Shimmed /\ Step' = Step /\ PerMemory' = PerMemory
  BY LeavesStay
<1>2. LeafReady' = LeafReady
  BY <1>1 DEF LeafReady
<1>3. \A n : Stacked(n)' = Stacked(n) /\ Full(n)' = Full(n) /\ Opened(n)' = Opened(n)
  BY <1>1, <1>2 DEF Stacked, Full, Opened
<1>4. PICK n, m : n = appended /\ n = appended' /\ m = appended + 1 /\ m = appended' + 1
  OBVIOUS
<1>5. \A va : Laid(va)' = Laid(va) /\ RoomMade(va)' = RoomMade(va)
  BY <1>2, <1>3, <1>4 DEF Laid, RoomMade, PackedSubVa, ArenaEnd
<1> QED
  BY <1>2, <1>3, <1>5

(* Giving memory back keeps to the budget.                                 *)
LEMMA MemoryShrinks ==
  ASSUME OnlyLeaves, IsFiniteSet(Memory), BudgetKept, UNCHANGED setup,
         PoolOK, \A h \in Handle : physLen'[h] = physLen[h] \/ physLen'[h] = 0
  PROVE  OnlyLeaves' /\ IsFiniteSet(Memory)' /\ BudgetKept'
<1>1. Memory' \in SUBSET Memory /\ OnlyLeaves'
  BY DEF Memory, OnlyLeaves
<1>2. /\ IsFiniteSet(Memory') /\ Cardinality(Memory') <= Cardinality(Memory)
      /\ Cardinality(Memory') \in Nat /\ Cardinality(Memory) \in Nat
  BY <1>1, FS_Subset, FS_CardinalityType
<1>3. /\ Cardinality(Memory') * Leaf <= Cardinality(Memory) * Leaf
      /\ Cardinality(Memory') * Leaf \in Nat /\ Cardinality(Memory) * Leaf \in Nat
  BY <1>2, ProductMonotone, ProductNat, LeafAssumption
<1>4. setup.cap \in Nat
  BY SetupFields DEF PoolOK
<1>5. bench = "iso" /\ setup.cap > 0 => Cardinality(Memory') * Leaf <= setup.cap
  BY <1>3, <1>4 DEF BudgetKept
<1> QED
  BY <1>1, <1>2, <1>5 DEF BudgetKept, bench

(* One leaf more.                                                          *)
LEMMA MemoryGrows ==
  ASSUME OnlyLeaves, IsFiniteSet(Memory), DriverOK, NEW h \in FreshHandles,
         DriverCreate(h, Leaf)
  PROVE  OnlyLeaves' /\ IsFiniteSet(Memory)' /\ Leaves' = Leaves + 1
<1>1. /\ physLen' = [physLen EXCEPT ![h] = Leaf] /\ h \in Handle /\ physLen[h] = 0
      /\ physLen \in [Handle -> Nat] /\ Leaf \in Nat \ {0}
  BY LeafAssumption DEF DriverCreate, FreshHandles, DriverOK
<1>2. Memory' = Memory \cup {h} /\ h \notin Memory /\ OnlyLeaves'
  BY <1>1 DEF Memory, OnlyLeaves
<1>3. IsFiniteSet(Memory \cup {h}) /\ Cardinality(Memory \cup {h}) = Cardinality(Memory) + 1
  BY <1>2, FS_AddElement
<1> QED
  BY <1>2, <1>3 DEF Leaves

-----------------------------------------------------------------------------
(* Counting slots and heads.                                               *)

LEMMA CountSame ==
  ASSUME CountFill, UNCHANGED <<setup, appended, counted>>,
         stage' = stage \/ stage' # "resident",
         Even /\ work'.kind = "map" => work.kind = "map" /\ Slot'.req = Slot.req
  PROVE  CountFill'
<1>1. PICK n : n = appended + 1 /\ n = appended' + 1
  OBVIOUS
<1>2. Even' = Even /\ Slice' = Slice /\ bench' = bench
  BY DEF Even, Slice, bench
<1>3. /\ PhysicalOps(counted)' = PhysicalOps(counted) /\ MapsNext' = MapsNext
      /\ InBudget(CommittedFor(n), setup.cap)' = InBudget(CommittedFor(n), setup.cap)
  BY DEF PhysicalOps, MapsNext, CommittedFor, PerLeaf, Shimmed, bench
<1>4. /\ InBudget(CommittedFor(appended + 1), setup.cap)'
           = InBudget(CommittedFor(n), setup.cap)'
      /\ InBudget(CommittedFor(appended + 1), setup.cap)
           = InBudget(CommittedFor(n), setup.cap)
  BY <1>1
<1>5. bench = "iso" => Even
  BY DEF Even
<1> QED
  BY <1>2, <1>3, <1>4, <1>5 DEF CountFill

LEMMA CountLeft ==
  ASSUME ~Even, UNCHANGED setup
  PROVE  CountFill'
BY DEF CountFill, Even, bench

LEMMA CountStarts == BenchInit => CountFill
<1> SUFFICES ASSUME BenchInit PROVE CountFill
  OBVIOUS
<1>1. setup \in Setups /\ appended = 0 /\ counted = 0 /\ work.kind = "none"
  BY DEF BenchInit, NoWork
<1>2. PICK h \in Nat \ {0} : h = setup.heads
  BY <1>1, SetupFields
<1>3. 0 * h = 0 /\ 0 + h - 1 \in Nat /\ 0 + h - 1 < h
  BY <1>2
<1>4. (0 + h - 1) \div h = 0
  BY <1>2, <1>3, DivUnique
<1> QED
  BY <1>1, <1>2, <1>4 DEF CountFill, PhysicalOps

LEMMA EvenFills ==
  ASSUME ControlInv, Even
  PROVE  /\ ~Retries /\ ~Cycling
         /\ work.kind = "map" => Filling /\ Keeps
         /\ stage \notin {"churn", "sweep", "reset", "probe"}
         /\ stage \in {"resident", "teardown", "end"}
BY DEF ControlInv, KindOK, StageKept, Stages, Even, Retries, Cycling, Filling, Keeps

LEMMA CountAtCall ==
  ASSUME ControlInv, NextInPool, CountFill, FinishCall \/ StockCall \/ SetAccess
  PROVE  CountFill'
<1>1. UNCHANGED <<setup, appended, counted, stage>>
  BY DEF FinishCall, StockCall, SetAccess
<1>2. ASSUME Even, work'.kind = "map"
      PROVE  work.kind = "map"
  <2>1. PICK ok \in BOOLEAN : Advance(ok)
    BY OneThread DEF FinishCall, StockCall, SetAccess, ControlInv, ShimInv, CallsOK, CallRecord
  <2>2. UNCHANGED <<setup, stage>> /\ Busy
    BY DEF FinishCall, StockCall, SetAccess
  <2> QED
    BY <1>2, <2>1, <2>2, AdvanceKeeps DEF ControlInv
<1>3. ASSUME Even, work'.kind = "map"
      PROVE  Slot'.req = Slot.req
  <2>1. Filling
    BY <1>2, <1>3, EvenFills
  <2> QED
    BY <2>1, FinishNotes, StockNotes
<1> QED
  BY <1>1, <1>2, <1>3, CountSame

LEMMA CountAtDone ==
  ASSUME ControlInv, CountFill, WorkDone
  PROVE  CountFill'
<1>1. CASE ~Even
  BY <1>1, CountLeft DEF WorkDone
<1>2. CASE Even
  <2>1. UNCHANGED setup /\ work'.kind = "none"
    BY DEF WorkDone, NoWork
  <2>2. Even' = Even /\ bench' = bench
    BY <2>1 DEF Even, bench
  <2>3. ASSUME bench = "iso", stage' = "resident"
        PROVE  appended' = PhysicalOps(counted')
    <3>1. work.kind \in {"map", "undo", "teardown", "cycle"} /\ work.kind # "cycle"
      BY <1>2, EvenFills DEF ControlInv, PoolOK, WorkRecord, KindOK, WorkDone
    <3>2. ASSUME work.kind = "undo" PROVE FALSE
      <4>1. stage = "resident" /\ ~Retries /\ ~Cycling /\ bench # "chain" /\ bench # "alloc"
        BY <1>2, <3>2, EvenFills DEF ControlInv, KindOK, Cycling
      <4>2. AfterFailure = "teardown"
        BY <4>1 DEF AfterFailure
      <4>3. stage' = AfterFailure
        BY <3>2 DEF WorkDone
      <4> QED
        BY <2>3, <4>2, <4>3
    <3>3. stage = "resident"
      BY <2>3, <3>1, <3>2 DEF WorkDone
    <3>4. work.kind = "map"
      BY <3>1, <3>2, <3>3 DEF ControlInv, KindOK
    <3>5. appended' = appended + 1 /\ counted' = counted + 1
      BY <1>2, <2>3, <3>3, <3>4, EvenFills DEF WorkDone
    <3>6. appended = PhysicalOps(counted) /\ counted % setup.heads = 0
      BY <1>2, <2>3, <3>3, <3>4 DEF CountFill, MapsNext
    <3>7. counted \in Nat /\ setup.heads \in Nat \ {0}
      BY SetupFields DEF ControlInv, PoolOK
    <3> QED
      BY <3>5, <3>6, <3>7, HeadsGroup DEF PhysicalOps
  <2>4. appended' = PhysicalOps(counted') => (appended = PhysicalOps(counted))'
    BY <2>1 DEF PhysicalOps
  <2> QED
    BY <2>1, <2>2, <2>3, <2>4 DEF CountFill
<1> QED
  BY <1>1, <1>2

LEMMA CountAtAppend ==
  ASSUME EvenSlices, ControlInv, CountFill, AppendSlot
  PROVE  CountFill'
<1>1. CASE ~Even
  BY <1>1, CountLeft DEF AppendSlot
<1>2. CASE Even
  <2>1. /\ UNCHANGED setup /\ appended' = appended /\ counted' = counted
        /\ Slot'.req = Sizes[bench][seq + 1]
    BY AppendKeepsSlots DEF AppendSlot
  <2>2. Sizes[bench][seq + 1] = Slice
    <3>1. seq + 1 \in 1 .. Len(Sizes[bench]) /\ setup \in Setups
      BY SetupFields DEF ControlInv, PoolOK
    <3> QED
      BY <1>2, <3>1 DEF EvenSlices, Even, Slice, bench
  <2>3. bench' = bench /\ Slice' = Slice
    BY <2>1 DEF bench, Slice
  <2>4. counted \in Nat /\ setup.heads \in Nat \ {0}
    BY SetupFields DEF ControlInv, PoolOK
  <2>5. ASSUME bench = "iso"
        PROVE  /\ appended = PhysicalOps(counted) /\ MapsNext
               /\ InBudget(CommittedFor(appended + 1), setup.cap)
    <3>1. MapsNext /\ IsoGoesOn /\ stage = "resident"
      BY <2>5 DEF AppendSlot
    <3>2. appended = PhysicalOps(counted)
      BY <2>5, <3>1 DEF CountFill
    <3>3. PhysicalOps(counted + 1) = appended + 1
      BY <2>4, <3>1, <3>2, HeadsGroup DEF PhysicalOps, MapsNext
    <3> QED
      BY <3>1, <3>2, <3>3 DEF IsoGoesOn
  <2>6. /\ (PhysicalOps(counted))' = PhysicalOps(counted) /\ MapsNext' = MapsNext
        /\ InBudget(CommittedFor(appended + 1), setup.cap)'
             = InBudget(CommittedFor(appended + 1), setup.cap)
    BY <2>1 DEF PhysicalOps, MapsNext, CommittedFor, PerLeaf, Shimmed, bench
  <2> QED
    BY <2>1, <2>2, <2>3, <2>5, <2>6 DEF CountFill
<1> QED
  BY <1>1, <1>2

LEMMA CountAtHead ==
  ASSUME ControlInv, CountFill, CountHead
  PROVE  CountFill'
<1>1. /\ bench = "iso" /\ stage = "resident" /\ work' = work /\ work.kind = "none"
      /\ counted' = counted + 1 /\ appended' = appended /\ ~MapsNext /\ UNCHANGED setup
  BY DEF CountHead, Free
<1>2. counted \in Nat /\ setup.heads \in Nat \ {0}
  BY SetupFields DEF ControlInv, PoolOK
<1>3. appended = PhysicalOps(counted)
  BY <1>1 DEF CountFill
<1>4. PhysicalOps(counted + 1) = appended
  BY <1>1, <1>2, <1>3, HeadsGroup DEF PhysicalOps, MapsNext
<1>5. (PhysicalOps(counted))' = PhysicalOps(counted + 1)
  BY <1>1 DEF PhysicalOps
<1> QED
  BY <1>1, <1>4, <1>5 DEF CountFill

(* No other step of the bench counts anything in an even bench.            *)
LEMMA CountElsewhere ==
  ASSUME ControlInv, CountFill,
         \/ ChurnMap \/ ChurnFree \/ ChurnEnd \/ SweepOrReset \/ InReset \/ NewContext
         \/ RetrySlot \/ FillEnd \/ TeardownNext \/ Fini \/ BeginCycle \/ CyclesEnd
  PROVE  CountFill'
<1>1. UNCHANGED setup
  BY DEF ChurnMap, ChurnFree, ChurnEnd, SweepOrReset, InReset, benchVars, NewContext,
     RetrySlot, FillEnd, TeardownNext, Fini, BeginCycle, CyclesEnd
<1>2. CASE ~Even
  BY <1>1, <1>2, CountLeft
<1>3. CASE Even
  <2>1. FillEnd \/ TeardownNext \/ Fini
    BY <1>3, EvenFills DEF ChurnMap, Churning, ChurnFree, ChurnEnd, SweepOrReset, InReset,
       NewContext, RetrySlot, BeginCycle, CyclesEnd, Cycling
  <2>2. /\ UNCHANGED <<setup, appended, counted>> /\ work'.kind # "map"
        /\ stage' # "resident"
    BY <2>1 DEF FillEnd, TeardownNext, Fini, BeginTeardown, Free
  <2> QED
    BY <2>2, CountSame
<1> QED
  BY <1>2, <1>3

LEMMA CountStep ==
  ASSUME EvenSlices, ControlInv, NextInPool, CountFill, [HarnessNext]_harnessVars
  PROVE  CountFill'
<1>1. CASE UNCHANGED benchVars
  BY <1>1, CountSame DEF benchVars, Slot
<1>2. CASE StartCall \/ InCall \/ Finished \/ UNCHANGED harnessVars
  BY <1>1, <1>2 DEF StartCall, InCall, Finished, harnessVars
<1> QED
  BY <1>2, CountAtCall, CountAtDone, CountAtAppend, CountAtHead, CountElsewhere
  DEF HarnessNext

-----------------------------------------------------------------------------
(* Reserving: a slice of the last leaf, or the first of a new one.         *)

LEMMA FullStays ==
  ASSUME UNCHANGED <<physLen, setup, appended>>
  PROVE  Full(appended)' = Full(appended) /\ Opened(appended)' = Opened(appended)
<1>1. Leaves' = Leaves /\ PerMemory' = PerMemory
  BY LeavesStay
<1> QED
  BY <1>1 DEF Full, Opened

LEMMA SliceTaken ==
  ASSUME PackInv, PoolOK, Even, EvenSlices, Shimmed, IsFiniteSet(Memory), Charge = Step,
         Stacked(appended), TryReserve(NeedReq), UNCHANGED <<physLen, setup, appended>>
  PROVE  \A va : va = arena.base + TryOffset(NeedReq) => Laid(va)'
<1>1. /\ arena.active /\ arena.next + Step <= arena.len
      /\ arena' = [arena EXCEPT !.next = TryOffset(NeedReq) + Step]
      /\ arena \in ArenaRecord
  BY DEF TryReserve, TryFits, PackInv, PackTypeOK, Charge
<1>2. /\ Step \in Nat \ {0} /\ PerMemory \in Nat \ {0} /\ Leaves \in Nat
  BY SliceSizes, FS_CardinalityType DEF Leaves
<1>3. PICK j \in 1 .. PerMemory : /\ appended + PerMemory = Leaves * PerMemory + j
                                  /\ arena.len = Leaf /\ arena.next = j * Step
  BY <1>1 DEF Stacked, LeafReady
<1>4. j \in Nat /\ j >= 1 /\ j * Step >= 1 /\ j * Step \in Nat
      /\ (j + 1) * Step = j * Step + Step
  BY <1>2, <1>3, ProductPositive, NextMultiple
<1>5. j < PerMemory
  BY <1>1, <1>3, <1>4, SliceFits
<1>6. TryOffset(NeedReq) = arena.next
  BY <1>3, <1>4 DEF TryOffset
<1>7. /\ arena'.active /\ arena'.base = arena.base /\ arena'.len = Leaf
      /\ arena'.next = (j + 1) * Step
  BY <1>1, <1>3, <1>4, <1>6 DEF ArenaRecord
<1>8. /\ Leaves' = Leaves /\ PerMemory' = PerMemory /\ Step' = Step /\ Shimmed' = Shimmed
  BY LeavesStay
<1>9. PICK l \in Nat : l = Leaves * PerMemory
  BY <1>2, ProductNat
<1>10. appended \in Nat
  BY DEF PoolOK
<1>11. Stacked(appended + 1)'
  <2>1. /\ j + 1 \in 1 .. PerMemory
        /\ appended + 1 + PerMemory = Leaves * PerMemory + (j + 1)
    BY <1>2, <1>3, <1>5, <1>9, <1>10
  <2>2. (appended + 1)' = appended + 1
    OBVIOUS
  <2> QED
    BY <1>7, <1>8, <2>1, <2>2 DEF Stacked, LeafReady
<1>12. ASSUME NEW va, va = arena.base + TryOffset(NeedReq)
       PROVE  PackedSubVa(va)'
  <2>1. arena.base \in Nat /\ Leaf \in Nat
    BY <1>1, LeafAssumption DEF ArenaRecord
  <2> QED
    BY <1>1, <1>2, <1>3, <1>4, <1>6, <1>7, <1>12, <2>1 DEF PackedSubVa, ArenaEnd
<1> QED
  BY <1>11, <1>12 DEF Laid

LEMMA LeafIsFull ==
  ASSUME PackInv, PoolOK, Even, EvenSlices, Shimmed, IsFiniteSet(Memory), KCap = 0,
         Charge = Step, NeedReq \in Nat \ {0}, Stacked(appended), ~TryFits(NeedReq)
  PROVE  Full(appended)
<1>1. /\ Step \in Nat \ {0} /\ Step <= Leaf /\ PerMemory \in Nat \ {0} /\ Leaves \in Nat
      /\ appended \in Nat
  BY SliceSizes, FS_CardinalityType DEF Leaves, PoolOK
<1>2. ~(arena.active /\ arena.next + Step <= arena.len)
  BY <1>1 DEF TryFits, KCapBlocks, Charge
<1>3. CASE appended = 0 /\ Leaves = 0
  BY <1>1, <1>3 DEF Full
<1>4. CASE \E j \in 1 .. PerMemory : /\ appended + PerMemory = Leaves * PerMemory + j
                                     /\ LeafReady /\ arena.next = j * Step
  <2>1. PICK j \in 1 .. PerMemory : /\ appended + PerMemory = Leaves * PerMemory + j
                                    /\ LeafReady /\ arena.next = j * Step
    BY <1>4
  <2>2. j = PerMemory
    BY <1>1, <1>2, <2>1, SliceFits DEF LeafReady
  <2>3. PICK l \in Nat : l = Leaves * PerMemory
    BY <1>1, ProductNat
  <2> QED
    BY <1>1, <2>1, <2>2, <2>3 DEF Full
<1> QED
  BY <1>3, <1>4 DEF Stacked

LEMMA ReserveLeavesSame ==
  ASSUME UNCHANGED <<physLen, setup, arena, appended>>
  PROVE  \A c : ReserveLeaves(c)' = ReserveLeaves(c)
<1>1. PICK n : n = appended /\ n = appended'
  OBVIOUS
<1>2. /\ Stacked(n)' = Stacked(n) /\ Full(n)' = Full(n)
      /\ \A va : Laid(va)' = Laid(va)
  BY StackStays
<1>3. /\ Stacked(appended)' = Stacked(n)' /\ Full(appended)' = Full(n)'
      /\ Stacked(appended) = Stacked(n) /\ Full(appended) = Full(n)
  BY <1>1
<1> QED
  BY <1>2, <1>3 DEF ReserveLeaves

LEMMA FillsASlice ==
  ASSUME EvenSlices, ControlInv, CountFill, Even, work.kind = "map"
  PROVE  /\ Slot.req = Slice /\ Charge = Step /\ NeedReq \in Nat \ {0} /\ NeedReq <= Leaf
         /\ Bytes = Leaf /\ PoolOK
<1>1. Slot.req = Slice /\ PoolOK
  BY DEF CountFill, ControlInv
<1> QED
  BY <1>1, SliceSizes DEF Charge, Step, NeedReq, Bytes

LEMMA ReserveFillsLeaves ==
  ASSUME ~GqaOn, PackOn, KCap = 0, EvenSlices, ControlInv, CountFill, Even, Keeps, InCall,
         work.kind = "map", work.plan = MapPlan, IsFiniteSet(Memory),
         ReserveFill(Now), ReserveLeaves(Now)
  PROVE  ReserveLeaves(Now)' /\ UNCHANGED physLen
<1>1. /\ CallsOK /\ PackInv /\ ReserveStep(Main) /\ DriverOK /\ Shimmed
      /\ Now.size = NeedReq /\ UNCHANGED <<setup, appended>> /\ PoolOK
      /\ Charge = Step /\ NeedReq \in Nat \ {0} /\ NeedReq <= Leaf
  <2>1. /\ ShimInv /\ CallsOK /\ PackInv /\ Now.op = "reserve" /\ CallFits
        /\ ShimStep(Main) /\ Shimmed /\ UNCHANGED benchVars
    BY FillCall, FillPlans
  <2>2. ReserveStep(Main)
    BY <2>1, StepOfOp, OneThread DEF Now
  <2> QED
    BY <2>1, <2>2, FillsASlice DEF CallFits, NeedReq, ControlInv, benchVars
<1>2. PICK c : c = Now'
  OBVIOUS
<1>3. /\ \A q : Goto(Main, q) => Now'.pc = q /\ Now'.va = Now.va
      /\ \A ok : Return(Main, ok) => Now'.pc = "done" /\ Now'.ok = ok /\ Now'.va = Now.va
      /\ \A route, va, sz : Grant(Main, route, va, sz) =>
           Now'.pc = "rsv_commit" /\ Now'.va = va
  BY <1>1, NowMoves
<1>4. ASSUME UNCHANGED <<physLen, arena>>, ReserveLeaves(c)
      PROVE  ReserveLeaves(Now)' /\ UNCHANGED physLen
  <2>1. ReserveLeaves(c)'
    BY <1>1, <1>4, ReserveLeavesSame
  <2> QED
    BY <1>2, <1>4, <2>1
<1>5. ASSUME UNCHANGED physLen, c.pc \in {"rsv_commit", "done"}, Laid(c.va)'
      PROVE  ReserveLeaves(Now)' /\ UNCHANGED physLen
  <2>1. ReserveLeaves(c)'
    BY <1>5 DEF ReserveLeaves, SeekLeafPc
  <2> QED
    BY <1>2, <1>5, <2>1
<1>6. ASSUME NEW va \in Nat, Full(appended), UNCHANGED physLen, arena' = FreshArena(va, Leaf)
      PROVE  Laid(va)'
  <2>1. Full(appended)'
    BY <1>1, <1>6, FullStays
  <2>2. ~PackedSubVa(va)'
    BY <1>6 DEF PackedSubVa, FreshArena
  <2> QED
    BY <2>1, <2>2 DEF Laid
<1>7. CASE RsvBegin(Main) \/ RsvReq(Main) \/ RsvRollback(Main)
  <2>1. /\ Now.pc \in {"rsv_begin", "rsv_req", "rsv_rollback"}
        /\ \/ Now.pc # "rsv_rollback" /\ Now'.pc \in {"rsv_req", "rsv_gqa"}
           \/ Now'.pc = "done" /\ ~Now'.ok
    BY <1>3, <1>7 DEF RsvBegin, RsvReq, RsvRollback, At, Now
  <2>2. ReserveLeaves(c)
    BY <1>2, <2>1 DEF ReserveLeaves, SeekLeafPc, CommitPc, Granted, GrantedPc, Succeeded
  <2> QED
    BY <1>4, <1>7, <2>2 DEF RsvBegin, RsvReq, RsvRollback, OnlySlots, packVars, driverVars
<1>8. CASE RsvNoAlias(Main)
  <2>1. Now.pc = "rsv_gqa" /\ Now'.pc = "rsv_try" /\ UNCHANGED <<physLen, arena>>
    <3>1. Goto(Main, "rsv_try")
      BY <1>1, <1>8, LeafAssumption DEF RsvNoAlias, Now
    <3> QED
      BY <1>3, <1>8, <3>1 DEF RsvNoAlias, At, Now, OnlyCall, shimVars, packVars, driverVars
  <2>2. ReserveLeaves(c)
    BY <1>2, <2>1 DEF ReserveLeaves, SeekLeafPc, CommitPc, Granted, GrantedPc, Succeeded
  <2> QED
    BY <1>4, <2>1, <2>2
<1>9. CASE \/ RsvCommit(Main) \/ RsvMark(Main) \/ RsvOff(Main) \/ RsvSetOff(Main)
           \/ RsvLeafOff(Main) \/ RsvRegister(Main)
           \/ RsvDriverCommit(Main) \/ RsvDriverRegister(Main)
  <2>1. /\ Now.pc \in CommitPc \/ Granted(Now)
        /\ Now'.va = Now.va
        /\ Now'.pc \in GrantedPc \union {"done"}
    <3>1. CASE RsvCommit(Main) \/ RsvMark(Main) \/ RsvRegister(Main)
      BY <1>3, <3>1 DEF RsvCommit, RsvMark, RsvRegister, At, Now, Granted, GrantedPc, CommitPc
    <3>2. CASE RsvOff(Main) \/ RsvLeafOff(Main)
      BY <1>1, <3>2, AtStep, OneThread
      DEF RsvOff, RsvLeafOff, At, Now, Granted, GrantedPc, CallsOK, CallRecord
    <3>3. CASE RsvSetOff(Main)
      BY <1>3, <3>3 DEF RsvSetOff, At, Now, Granted, GrantedPc
    <3>4. CASE RsvDriverCommit(Main) \/ RsvDriverRegister(Main)
      BY <1>3, <3>4 DEF RsvDriverCommit, RsvDriverRegister, AfterDriverCommit, At, Now,
         Granted, GrantedPc, CommitPc
    <3> QED
      BY <1>9, <3>1, <3>2, <3>3, <3>4
  <2>2. Laid(c.va)
    BY <1>2, <2>1 DEF ReserveLeaves
  <2>3. UNCHANGED <<physLen, arena>>
    BY <1>9 DEF RsvCommit, RsvMark, RsvOff, RsvSetOff, RsvLeafOff, RsvRegister,
       RsvDriverCommit, RsvDriverRegister, OnlySlots, OnlyCall, OnlyBuckets, packVars,
       driverVars, shimVars
  <2>4. ReserveLeaves(c)
    BY <1>2, <2>1, <2>2 DEF ReserveLeaves, SeekLeafPc, GrantedPc
  <2> QED
    BY <1>4, <2>3, <2>4
<1>10. CASE RsvTry(Main)
  <2>1. Stacked(appended) /\ UNCHANGED physLen
    BY <1>10 DEF RsvTry, At, Now, ReserveLeaves, SeekLeafPc, OnlyPack, driverVars
  <2>2. CASE TryReserve(NeedReq) /\ Grant(Main, "sub", arena.base + TryOffset(NeedReq),
                                          PlacementRound(NeedReq))
    <3>1. c.va = arena.base + TryOffset(NeedReq) /\ c.pc = "rsv_commit"
      BY <1>2, <1>3, <2>2
    <3>2. Laid(c.va)'
      BY <1>1, <2>1, <2>2, <3>1, SliceTaken
    <3> QED
      BY <1>5, <2>1, <3>1, <3>2
  <2>3. CASE ~TryFits(NeedReq) /\ Goto(Main, "rsv_mega") /\ UNCHANGED packVars
    <3>1. Full(appended)
      BY <1>1, <2>1, <2>3, LeafIsFull
    <3>2. c.pc = "rsv_mega" /\ UNCHANGED arena
      BY <1>2, <1>3, <2>3 DEF packVars
    <3>3. ReserveLeaves(c)
      BY <3>1, <3>2 DEF ReserveLeaves, SeekLeafPc, CommitPc, Granted, GrantedPc, Succeeded
    <3> QED
      BY <1>4, <2>1, <3>2, <3>3
  <2> QED
    BY <1>1, <1>10, <2>2, <2>3 DEF RsvTry, Now
<1>11. CASE RsvMega(Main)
  <2>1. Full(appended) /\ UNCHANGED physLen
    BY <1>11 DEF RsvMega, At, Now, ReserveLeaves, OnlyPack, driverVars
  <2>2. CASE TakeMegaLeaf /\ Grant(Main, "leaf", NextLeafBase, Leaf)
    <3>1. /\ c.va = NextLeafBase /\ c.pc = "rsv_commit" /\ arena' = FreshArena(c.va, Leaf)
          /\ c.va \in Nat
      BY <1>1, <1>2, <1>3, <2>2, NextLeaf DEF TakeMegaLeaf
    <3> QED
      BY <1>5, <1>6, <2>1, <3>1
  <2>3. CASE Goto(Main, "rsv_driver") /\ UNCHANGED packVars
    <3>1. c.pc = "rsv_driver" /\ UNCHANGED arena
      BY <1>2, <1>3, <2>3 DEF packVars
    <3>2. ReserveLeaves(c)
      BY <2>1, <3>1 DEF ReserveLeaves, SeekLeafPc, CommitPc, Granted, GrantedPc, Succeeded
    <3> QED
      BY <1>4, <2>1, <3>1, <3>2
  <2> QED
    BY <1>11, <2>2, <2>3 DEF RsvMega
<1>12. CASE RsvDriver(Main)
  <2>1. /\ Full(appended) /\ UNCHANGED <<physLen, arena>>
        /\ ArenaReady /\ (Charge <= Leaf \/ bandSeq = 0)
    BY <1>12 DEF RsvDriver, At, Now, ReserveLeaves, OnlyDriver, shimVars, packVars,
       DriverReserve, driverVars, ReserveFill, SeekPc
  <2>2. ReserveLeaves(c)
    <3>1. CASE Now'.pc = "rsv_dcommit"
      <4>1. c.va = NextRoom(DriverSize(Main)) /\ Rooms(DriverSize(Main)) # {}
        <5>1. /\ DriverReserve(DriverSize(Main))
              /\ call' = [call EXCEPT ![Main].pc = "rsv_dcommit", ![Main].sz = DriverSize(Main),
                                ![Main].va = NextRoom(DriverSize(Main))]
          BY <1>3, <1>12, <3>1 DEF RsvDriver
        <5>2. call'[Main].va = NextRoom(DriverSize(Main))
          BY <1>1, <5>1, OneThread DEF CallsOK, CallRecord
        <5> QED
          BY <1>2, <5>1, <5>2 DEF DriverReserve, Now
      <4>2. DriverSize(Main) \in Nat \ {0}
        BY <1>1, SizeToReserve
      <4>3. Laid(c.va)
        BY <1>1, <2>1, <4>1, <4>2, RoomPlaced DEF Outer, Laid
      <4> QED
        BY <1>2, <3>1, <4>3 DEF ReserveLeaves, SeekLeafPc, CommitPc
    <3>2. CASE Now'.pc # "rsv_dcommit"
      <4>1. c.pc = "rsv_rollback"
        <5>1. Goto(Main, "rsv_rollback") \/ Now'.pc = "rsv_dcommit"
          BY <1>1, <1>12, OneThread DEF RsvDriver, Now, CallsOK, CallRecord
        <5> QED
          BY <1>2, <1>3, <3>2, <5>1
      <4> QED
        BY <4>1 DEF ReserveLeaves, SeekLeafPc, CommitPc, Granted, GrantedPc, Succeeded
    <3> QED
      BY <3>1, <3>2
  <2> QED
    BY <1>4, <2>1, <2>2
<1>13. CASE RsvWindow(Main)
  <2>1. /\ Laid(Now.va) /\ Outer(Now.va) /\ UNCHANGED physLen
        /\ c.pc = "done" /\ c.va = Now.va /\ arena' = FreshArena(c.va, Leaf)
        /\ c.va \in Nat
    BY <1>1, AtStep, OneThread, <1>2, <1>3, <1>13 DEF RsvWindow, At, Now, MegaOpen, OnlyPack, driverVars,
       ReserveFill, ReserveLeaves, Granted, GrantedPc
  <2>2. Full(appended)
    BY <2>1 DEF Laid, Outer
  <2> QED
    BY <1>5, <1>6, <2>1, <2>2
<1>14. ~RsvAlias(Main) /\ ~RsvFlush(Main)
  BY DEF RsvAlias, TryAlias, AliasFits, RsvFlush, At, Now, ReserveLeaves
<1> QED
  BY <1>1, <1>7, <1>8, <1>9, <1>10, <1>11, <1>12, <1>13, <1>14 DEF ReserveStep

-----------------------------------------------------------------------------
(* Making memory: one leaf, when all others are full.                      *)

LEMMA LeafMade ==
  ASSUME EvenSlices, ControlInv, CountFill, Even, stage = "resident", work.kind = "map",
         OnlyLeaves, IsFiniteSet(Memory), Full(appended), UNCHANGED <<setup, appended>>,
         NEW h \in FreshHandles, DriverCreate(h, Leaf)
  PROVE  OnlyLeaves' /\ IsFiniteSet(Memory)' /\ BudgetKept' /\ Opened(appended)'
<1>1. OnlyLeaves' /\ IsFiniteSet(Memory)' /\ Leaves' = Leaves + 1
  BY MemoryGrows DEF ControlInv
<1>2. PoolOK /\ appended \in Nat
  BY DEF ControlInv, PoolOK
<1>3. PerMemory \in Nat \ {0} /\ Leaves \in Nat /\ CommittedFor(appended + 1) = (Leaves + 1) * Leaf
  BY <1>2, CommittedBytes, SliceSizes
<1>4. BudgetKept'
  <2>1. bench = "iso" /\ setup.cap > 0 => CommittedFor(appended + 1) <= setup.cap
    BY DEF CountFill, InBudget
  <2>2. bench = "iso" /\ setup.cap > 0 => Leaves' * Leaf <= setup.cap
    BY <1>1, <1>3, <2>1
  <2> QED
    BY <1>1, <2>2 DEF BudgetKept, bench, Leaves
<1>5. PerMemory' = PerMemory
  BY DEF PerMemory, PerLeaf, Shimmed, bench
<1>6. Opened(appended)'
  <2>1. (Leaves + 1) * PerMemory = Leaves * PerMemory + PerMemory
    BY <1>3, NextMultiple
  <2> QED
    BY <1>1, <1>5, <2>1 DEF Full, Opened
<1> QED
  BY <1>1, <1>4, <1>6

LEMMA CreateLeavesSame ==
  ASSUME UNCHANGED <<physLen, setup, arena, appended>>, Slot' = Slot
  PROVE  \A c : CreateLeaves(c)' = CreateLeaves(c)
<1>1. PICK n, m, va : /\ n = appended /\ n = appended' /\ m = appended + 1 /\ m = appended' + 1
                      /\ va = Slot.va /\ va = Slot'.va
  OBVIOUS
<1>2. /\ Stacked(m)' = Stacked(m) /\ Full(n)' = Full(n) /\ Opened(n)' = Opened(n)
      /\ Laid(va)' = Laid(va) /\ RoomMade(va)' = RoomMade(va)
  BY StackStays
<1>3. /\ Stacked(appended + 1)' = Stacked(m)' /\ Full(appended)' = Full(n)'
      /\ Opened(appended)' = Opened(n)' /\ Laid(Slot.va)' = Laid(va)'
      /\ RoomMade(Slot.va)' = RoomMade(va)'
  BY <1>1
<1> QED
  BY <1>1, <1>2, <1>3 DEF CreateLeaves

LEMMA LeafOpens ==
  ASSUME PackInv, Shimmed, Outer(Slot.va), Slot.va \in Nat, Slot' = Slot, Opened(appended),
         NEW h, OpenArena(Slot.va, Leaf, h), UNCHANGED <<physLen, setup, appended>>
  PROVE  RoomMade(Slot.va)'
<1>1. PICK va \in Nat : va = Slot.va /\ va = Slot'.va
  OBVIOUS
<1>2. arena'.active /\ arena'.base = va /\ arena'.len = Leaf
  <2>1. CASE OpenArenaAtBase(va, Leaf, h)
    BY <1>1, <2>1 DEF OpenArenaAtBase, Outer, PackInv, PackTypeOK, ArenaRecord
  <2>2. CASE OpenArenaFresh(va, Leaf, h)
    BY <2>2 DEF OpenArenaFresh, FreshArena
  <2> QED
    BY <1>1, <2>1, <2>2 DEF OpenArena
<1>3. Opened(appended)' /\ LeafReady'
  BY <1>2, FullStays DEF LeafReady
<1>4. ~PackedSubVa(va)'
  BY <1>2 DEF PackedSubVa
<1> QED
  BY <1>1, <1>3, <1>4 DEF RoomMade

LEMMA CreateFillsLeaves ==
  ASSUME PackOn, EvenSlices, ControlInv, CountFill, Even, Keeps, InCall,
         work.kind = "map", work.plan = CreatePlan,
         OnlyLeaves, IsFiniteSet(Memory), BudgetKept,
         CreateTable, CreateFill(Now), CreateLeaves(Now)
  PROVE  OnlyLeaves' /\ IsFiniteSet(Memory)' /\ BudgetKept' /\ CreateLeaves(Now)'
<1>1. /\ CallsOK /\ SlotInv /\ PackInv /\ CreateStep(Main) /\ Shimmed
      /\ Now.size = CreateBytes(Slot.req) /\ Slot' = Slot /\ Slot.va \in Nat
      /\ UNCHANGED <<setup, appended>> /\ CreateRoundSize(Now.size) = Leaf
      /\ stage = "resident"
  <2>1. /\ ShimInv /\ CallsOK /\ SlotInv /\ PackInv /\ Now.op = "create" /\ CallFits
        /\ ShimStep(Main) /\ Slot' = Slot /\ Shimmed /\ UNCHANGED benchVars
    BY FillCall, FillPlans
  <2>2. CreateStep(Main)
    BY <2>1, StepOfOp, OneThread DEF Now
  <2>3. Slot.req \in Nat \ {0} /\ Slot.va \in Nat
    BY DEF ControlInv, PoolOK, WorkRecord, PoolSlot, Slot
  <2>4. CreateRoundSize(CreateBytes(Slot.req)) = Leaf
    BY <2>3, SlotSizes, FillsASlice
  <2> QED
    BY <2>1, <2>2, <2>3, <2>4 DEF CallFits, benchVars, Keeps
<1>2. PICK c : c = Now'
  OBVIOUS
<1>3. PICK va \in Nat : va = Slot.va /\ va = Slot'.va
  BY <1>1
<1>4. /\ \A q : Goto(Main, q) => Now'.pc = q /\ Now'.va = Now.va /\ Now'.h = Now.h
      /\ \A ok : Return(Main, ok) => Now'.pc = "done" /\ Now'.ok = ok /\ Now'.h = Now.h
  BY <1>1, NowMoves
<1>5. ASSUME UNCHANGED physLen
      PROVE  OnlyLeaves' /\ IsFiniteSet(Memory)' /\ BudgetKept'
  BY <1>1, <1>5, LeavesStay
<1>6. ASSUME UNCHANGED <<physLen, arena>>, CreateLeaves(c)
      PROVE  OnlyLeaves' /\ IsFiniteSet(Memory)' /\ BudgetKept' /\ CreateLeaves(Now)'
  <2>1. CreateLeaves(c)'
    BY <1>1, <1>6, CreateLeavesSame
  <2> QED
    BY <1>2, <1>5, <1>6, <2>1
<1>7. CASE CrtPacked(Main)
  <2>1. UNCHANGED <<physLen, arena>> /\ Seated(va, FALSE) /\ Placed(va) /\ Laid(va)
    BY <1>3, <1>7 DEF CrtPacked, At, Now, OnlyCall, shimVars, packVars, driverVars,
       CreateTable, AskedPc, CreateFill, CreateLeaves
  <2>2. IF SharesHandle THEN Inner(va) ELSE Outer(va)
    BY <1>1, <1>3, <2>1, SharesWhenInner
  <2>3. \/ SharesHandle /\ Now'.pc = "crt_retain"
        \/ ~SharesHandle /\ Now'.pc = "crt_validate"
    <3>1. CASE SharesHandle
      BY <1>1, <1>7, <3>1, OneThread DEF CrtPacked, Now, CallsOK, CallRecord
    <3>2. CASE ~SharesHandle
      BY <1>4, <1>7, <3>2 DEF CrtPacked
    <3> QED
      BY <3>1, <3>2
  <2>4. CreateLeaves(c)
    BY <1>2, <1>3, <2>1, <2>2, <2>3
    DEF CreateLeaves, Laid, Inner, Outer, Bound, BoundPc, Succeeded
  <2> QED
    BY <1>6, <2>1, <2>4
<1>8. CASE CrtRetain(Main)
  <2>1. /\ UNCHANGED <<physLen, arena>> /\ Stacked(appended + 1) /\ Now'.pc = "crt_share"
    BY <1>4, <1>8 DEF CrtRetain, RetainHandle, At, Now, OnlyPack, driverVars, CreateLeaves
  <2>2. CreateLeaves(c)
    BY <1>2, <2>1 DEF CreateLeaves, Bound, BoundPc, Succeeded
  <2> QED
    BY <1>6, <2>1, <2>2
<1>9. CASE CrtShare(Main)
  <2>1. /\ UNCHANGED <<physLen, arena>> /\ Inner(va) /\ Stacked(appended + 1)
        /\ Now'.pc = "done"
    BY <1>3, <1>4, <1>9 DEF CrtShare, At, Now, OnlySlots, packVars, driverVars,
       CreateFill, CreateLeaves
  <2>2. CreateLeaves(c)
    BY <1>2, <1>3, <2>1 DEF CreateLeaves, RoomMade, Inner, Bound, BoundPc, Succeeded
  <2> QED
    BY <1>6, <2>1, <2>2
<1>10. CASE CrtValidate(Main)
  <2>1. /\ UNCHANGED <<physLen, arena>> /\ Full(appended)
        /\ Now'.pc = "crt_driver" \/ (Now'.pc = "done" /\ ~Now'.ok)
    BY <1>4, <1>10 DEF CrtValidate, At, Now, OnlyCall, shimVars, packVars, driverVars,
       CreateLeaves
  <2>2. CreateLeaves(c)
    BY <1>2, <2>1 DEF CreateLeaves, Bound, BoundPc, Succeeded
  <2> QED
    BY <1>6, <2>1, <2>2
<1>11. CASE CrtDriver(Main)
  <2>1. Full(appended) /\ UNCHANGED arena
    BY <1>11 DEF CrtDriver, At, Now, OnlyDriver, shimVars, packVars, CreateLeaves
  <2>2. ASSUME NEW h \in FreshHandles, DriverCreate(h, Leaf),
               call' = [call EXCEPT ![Main].pc = "crt_bind", ![Main].h = h]
        PROVE  OnlyLeaves' /\ IsFiniteSet(Memory)' /\ BudgetKept' /\ CreateLeaves(Now)'
    <3>1. OnlyLeaves' /\ IsFiniteSet(Memory)' /\ BudgetKept' /\ Opened(appended)'
      BY <1>1, <2>1, <2>2, LeafMade
    <3>2. Now'.pc = "crt_bind"
      BY <1>1, <2>2, OneThread DEF Now, CallsOK, CallRecord
    <3> QED
      BY <3>1, <3>2 DEF CreateLeaves, Bound, BoundPc, Succeeded
  <2>3. CASE Return(Main, FALSE) /\ UNCHANGED driverVars
    <3>1. Now'.pc = "done" /\ ~Now'.ok /\ UNCHANGED physLen
      BY <1>4, <2>3 DEF driverVars
    <3>2. CreateLeaves(c)
      BY <1>2, <3>1 DEF CreateLeaves, Bound, BoundPc, Succeeded
    <3> QED
      BY <1>6, <2>1, <3>1, <3>2
  <2> QED
    BY <1>1, <1>11, <2>2, <2>3 DEF CrtDriver, Now
<1>12. CASE CrtBind(Main)
  <2>1. /\ UNCHANGED <<physLen, arena>> /\ Opened(appended) /\ Now'.pc = "crt_snapshot"
    BY <1>4, <1>12 DEF CrtBind, At, Now, OnlySlots, packVars, driverVars, CreateLeaves
  <2>2. CreateLeaves(c)
    BY <1>2, <2>1 DEF CreateLeaves, Bound, BoundPc, Succeeded
  <2> QED
    BY <1>6, <2>1, <2>2
<1>13. CASE CrtSnapshot(Main)
  <2>1. /\ UNCHANGED <<physLen, arena>> /\ Opened(appended)
        /\ legacyVa = Slot.va /\ Slot.va # NoVa
    BY <1>13 DEF CrtSnapshot, At, Now, OnlyCall, shimVars, packVars, driverVars,
       CreateLeaves, CreateTable, Bound, BoundPc, Seated
  <2>2. Now'.pc = "crt_open"
    BY <1>1, <1>13, <2>1, OneThread DEF CrtSnapshot, Now, CallsOK, CallRecord
  <2>3. CreateLeaves(c)
    BY <1>2, <2>1, <2>2 DEF CreateLeaves, Bound, BoundPc, Succeeded
  <2> QED
    BY <1>6, <2>1, <2>3
<1>14. CASE CrtOpen(Main)
  <2>1. /\ UNCHANGED physLen /\ Outer(Slot.va) /\ Opened(appended) /\ Now'.pc = "done"
    BY <1>4, <1>14 DEF CrtOpen, At, Now, OnlyPack, driverVars, CreateFill, CreateLeaves,
       Bound, BoundPc
  <2>2. OpenArena(Slot.va, Leaf, Now.h)
    <3>1. Now.va = Slot.va /\ legacyVa = Slot.va
      BY <1>14 DEF CrtOpen, At, Now, CreateTable, Bound, BoundPc
    <3> QED
      BY <1>1, <1>14, <3>1 DEF CrtOpen, Now
  <2>3. RoomMade(Slot.va)'
    BY <1>1, <2>1, <2>2, LeafOpens
  <2> QED
    BY <1>5, <2>1, <2>3 DEF CreateLeaves, Bound, BoundPc, Succeeded
<1> QED
  BY <1>1, <1>7, <1>8, <1>9, <1>10, <1>11, <1>12, <1>13, <1>14 DEF CreateStep

-----------------------------------------------------------------------------
(* Mapping: the first slice of a leaf is charged when it is mapped.        *)

LEMMA MapLeavesSame ==
  ASSUME UNCHANGED <<physLen, setup, arena, appended>>, Slot' = Slot
  PROVE  \A c : MapLeaves(c)' = MapLeaves(c)
<1>1. PICK n, m, va : /\ n = appended /\ n = appended' /\ m = appended + 1 /\ m = appended' + 1
                      /\ va = Slot.va /\ va = Slot'.va
  OBVIOUS
<1>2. /\ Stacked(m)' = Stacked(m) /\ Opened(n)' = Opened(n) /\ RoomMade(va)' = RoomMade(va)
      /\ LeafReady' = LeafReady
  BY StackStays
<1>3. /\ Stacked(appended + 1)' = Stacked(m)' /\ Opened(appended)' = Opened(n)'
      /\ RoomMade(Slot.va)' = RoomMade(va)'
  BY <1>1
<1> QED
  BY <1>1, <1>2, <1>3 DEF MapLeaves

LEMMA FirstSliceCharged ==
  ASSUME PackInv, PoolOK, Even, EvenSlices, Shimmed, IsFiniteSet(Memory), Charge = Step,
         arena.active, arena.len = Leaf, arena.next = 0, Opened(appended),
         BumpUsage(NeedReq), UNCHANGED <<physLen, setup, appended>>
  PROVE  Stacked(appended + 1)'
<1>1. /\ Step \in Nat \ {0} /\ Step <= Leaf /\ PerMemory \in Nat \ {0} /\ Leaves \in Nat
      /\ appended \in Nat /\ arena \in ArenaRecord
  BY SliceSizes, FS_CardinalityType DEF Leaves, PoolOK, PackInv, PackTypeOK
<1>2. BumpFits(NeedReq)
  BY <1>1, LeafAssumption DEF BumpFits, Charge
<1>3. arena' = [arena EXCEPT !.next = arena.next + Step]
  BY <1>2 DEF BumpUsage, Charge
<1>4. arena'.active /\ arena'.len = Leaf /\ arena'.next = 1 * Step
  BY <1>1, <1>3 DEF ArenaRecord
<1>5. /\ Leaves' = Leaves /\ PerMemory' = PerMemory /\ Step' = Step /\ Shimmed' = Shimmed
  BY LeavesStay
<1>6. PICK l \in Nat : l = Leaves * PerMemory
  BY <1>1, ProductNat
<1>7. 1 \in 1 .. PerMemory /\ appended + 1 + PerMemory = Leaves * PerMemory + 1
  BY <1>1, <1>6 DEF Opened
<1>8. (appended + 1)' = appended + 1
  OBVIOUS
<1> QED
  BY <1>4, <1>5, <1>7, <1>8 DEF Stacked, LeafReady

LEMMA MapFillsLeaves ==
  ASSUME EvenSlices, ControlInv, CountFill, Even, Keeps, InCall,
         work.kind = "map", work.plan = MapPlanLeft, IsFiniteSet(Memory),
         Seated(Slot.va, TRUE), MapFill(Now), MapLeaves(Now)
  PROVE  MapLeaves(Now)' /\ UNCHANGED physLen
<1>1. /\ CallsOK /\ SlotInv /\ PackInv /\ MapStep(Main) /\ PoolOK /\ Shimmed
      /\ Now.va = Slot.va /\ Slot' = Slot /\ Slot.va \in Nat /\ Slot.h \in Handle
      /\ UNCHANGED <<setup, appended>> /\ Charge = Step
      /\ NeedReq \in Nat \ {0} /\ Bytes \in Nat \ {0} /\ Now'.pc # "idle"
  <2>1. /\ ShimInv /\ CallsOK /\ SlotInv /\ PackInv /\ Now.op = "map" /\ CallFits
        /\ ShimStep(Main) /\ Slot' = Slot /\ Shimmed /\ UNCHANGED benchVars
        /\ Now'.op = "map" /\ StageOK(Now')
    BY FillCall, FillPlans
  <2>2. MapStep(Main) /\ Now'.pc # "idle"
    BY <2>1, StepOfOp, OneThread, PcsApart DEF Now, StageOK, MapPc
  <2>3. Slot.req \in Nat \ {0} /\ Slot.va \in Nat /\ Slot.h \in Handle
    BY DEF ControlInv, PoolOK, WorkRecord, PoolSlot, Slot
  <2> QED
    BY <2>1, <2>2, <2>3, SlotSizes, FillsASlice DEF CallFits, benchVars
<1>2. PICK c : c = Now'
  OBVIOUS
<1>3. PICK va \in Nat, h \in Handle : va = Slot.va /\ h = Slot.h
  BY <1>1
<1>4. /\ \A q : Goto(Main, q) => Now'.pc = q
      /\ \A ok : Return(Main, ok) => Now'.pc = "done" /\ Now'.ok = ok
  BY <1>1, NowMoves
<1>5. FindByVa(va) >= 0 /\ (PackedSlot(va) <=> PackedSubVa(va))
  <2>1. Seated(va, TRUE)
    BY <1>3
  <2> QED
    BY <1>1, <2>1, SeatFound
<1>6. ASSUME UNCHANGED <<physLen, arena>>, MapLeaves(c)
      PROVE  MapLeaves(Now)' /\ UNCHANGED physLen
  <2>1. MapLeaves(c)'
    BY <1>1, <1>6, MapLeavesSame
  <2> QED
    BY <1>2, <1>6, <2>1
<1>7. CASE MapValidate(Main)
  <2>1. /\ UNCHANGED <<physLen, arena>> /\ RoomMade(va)
        /\ Now'.pc = "map_route" \/ (Now'.pc = "done" /\ ~Now'.ok)
    BY <1>3, <1>4, <1>7 DEF MapValidate, At, Now, OnlyCall, shimVars, packVars, driverVars,
       MapLeaves
  <2>2. MapLeaves(c)
    BY <1>1, <1>2, <1>3, <2>1 DEF MapLeaves, OwnMapPc, Succeeded
  <2> QED
    BY <1>6, <2>1, <2>2
<1>8. CASE MapRoute(Main)
  <2>1. /\ UNCHANGED <<physLen, arena>> /\ RoomMade(va)
        /\ Now'.pc = IF PackedSlot(va) THEN "map_packed" ELSE "map_off"
    BY <1>1, <1>3, <1>4, <1>8 DEF MapRoute, At, Now, OnlyCall, shimVars, packVars, driverVars,
       MapLeaves
  <2>2. MapLeaves(c)
    BY <1>2, <1>5, <2>1 DEF MapLeaves, OwnMapPc, RoomMade, Succeeded
  <2> QED
    BY <1>6, <2>1, <2>2
<1>9. CASE MapPacked(Main)
  <2>1. UNCHANGED <<physLen, arena>> /\ Stacked(appended + 1) /\ Now'.pc = "done"
    BY <1>4, <1>9 DEF MapPacked, At, Now, OnlySlots, packVars, driverVars, MapLeaves
  <2>2. MapLeaves(c)
    BY <1>2, <2>1 DEF MapLeaves, OwnMapPc, Succeeded
  <2> QED
    BY <1>6, <2>1, <2>2
<1>10. CASE MapOff(Main) \/ MapDriver(Main) \/ MapMark(Main)
  <2>1. Opened(appended) /\ LeafReady /\ UNCHANGED <<physLen, arena>>
    BY <1>10 DEF MapOff, MapDriver, MapMark, At, Now, OnlyCall, OnlyDriver, OnlySlots,
       shimVars, packVars, driverVars, DriverMap, MapLeaves, OwnMapPc
  <2>2. \/ Now'.pc \in {"map_driver", "map_mark", "map_usage"}
        \/ Now'.pc = "done" /\ ~Now'.ok
    <3>1. CASE MapOff(Main)
      BY <1>1, <3>1, OneThread DEF MapOff, Now, CallsOK, CallRecord
    <3>2. CASE MapDriver(Main) \/ MapMark(Main)
      BY <1>4, <3>2 DEF MapDriver, MapMark
    <3> QED
      BY <1>10, <3>1, <3>2
  <2>3. MapLeaves(c)
    BY <1>2, <2>1, <2>2 DEF MapLeaves, OwnMapPc, Succeeded
  <2> QED
    BY <1>6, <2>1, <2>3
<1>11. CASE MapUsage(Main) \/ MapActive(Main)
  <2>1. /\ Opened(appended) /\ LeafReady /\ UNCHANGED <<physLen, arena>> /\ OwnLeaf(va, h)
    BY <1>3, <1>11 DEF MapUsage, MapActive, At, Now, OnlyCall, shimVars, packVars, driverVars,
       MapLeaves, OwnMapPc, MapFill
  <2>2. arena.active /\ ~PackedSlot(va)
    BY <1>1, <1>3, <1>5, <2>1 DEF LeafReady, OwnLeaf, OwnArena, PackedSubVa
  <2>3. Now'.pc \in {"map_active", "map_req"}
    BY <1>1, <1>3, <1>4, <1>11, <2>2 DEF MapUsage, MapActive, Now
  <2>4. MapLeaves(c)
    BY <1>2, <2>1, <2>3 DEF MapLeaves, OwnMapPc, Succeeded
  <2> QED
    BY <1>6, <2>1, <2>4
<1>13. CASE MapReq(Main)
  <2>1. /\ Opened(appended) /\ LeafReady /\ UNCHANGED <<physLen, arena>>
        /\ OwnMapping(va, h) /\ Seated(va, TRUE)
    BY <1>3, <1>13 DEF MapReq, At, Now, OnlyCall, shimVars, packVars, driverVars,
       MapLeaves, OwnMapPc, MapFill
  <2>2. slots[FindByVa(va)].req = NeedReq
    BY <1>1, <2>1, SeatAlone DEF OwnMapping
  <2>3. Now'.pc = "map_bump"
    <3>1. NeedReq > 0
      BY <1>1
    <3>2. call' = [call EXCEPT ![Main].pc = "map_bump", ![Main].sz = NeedReq]
      BY <1>1, <1>3, <1>5, <1>13, <2>2, <3>1 DEF MapReq, Now
    <3> QED
      BY <1>1, <3>2, OneThread DEF Now, CallsOK, CallRecord
  <2>4. MapLeaves(c)
    BY <1>2, <2>1, <2>3 DEF MapLeaves, OwnMapPc, Succeeded
  <2> QED
    BY <1>6, <2>1, <2>4
<1>12. CASE MapBump(Main)
  <2>1. /\ Opened(appended) /\ LeafReady /\ UNCHANGED physLen /\ Now'.pc = "done"
        /\ OwnLeaf(va, h) /\ arena.active /\ BumpUsage(NeedReq)
    BY <1>3, <1>4, <1>12 DEF MapBump, At, Now, OnlyPack, driverVars, MapLeaves, OwnMapPc,
       MapFill
  <2>2. arena.next = 0 /\ arena.len = Leaf
    BY <1>1, <2>1 DEF OwnLeaf, OwnArena, LeafReady
  <2>3. Stacked(appended + 1)'
    BY <1>1, <2>1, <2>2, FirstSliceCharged
  <2> QED
    BY <2>1, <2>3 DEF MapLeaves, OwnMapPc, Succeeded
<1> QED
  BY <1>1, <1>7, <1>8, <1>9, <1>10, <1>11, <1>12, <1>13 DEF MapStep
-----------------------------------------------------------------------------
(* The leaves between the calls.                                           *)

LEMMA LeavesUnmeasured ==
  ASSUME ~Even, UNCHANGED setup
  PROVE  LeafFill'
BY DEF LeafFill, Even, bench

(* A step that makes no memory, and leaves the slots stacked.              *)
LEMMA LeavesKeep ==
  ASSUME PoolOK, LeafFill, UNCHANGED setup,
         \A h \in Handle : physLen'[h] = physLen[h] \/ physLen'[h] = 0,
         Even /\ Filling' => LeavesByPlan'
  PROVE  LeafFill'
<1>1. Even' = Even
  BY DEF Even, bench
<1>2. ASSUME Even
      PROVE  OnlyLeaves' /\ IsFiniteSet(Memory)' /\ BudgetKept'
  BY <1>2, MemoryShrinks DEF LeafFill
<1> QED
  BY <1>1, <1>2 DEF LeafFill

(* What an undoing or a teardown calls makes no memory.                    *)
LEMMA BackMakesNone ==
  ASSUME ControlInv, InCall, Even, ~Filling
  PROVE  \A h \in Handle : physLen'[h] = physLen[h] \/ physLen'[h] = 0
<1>1. /\ CallsOK /\ ShimStep(Main) /\ DriverOK /\ KindOK /\ CallPlanned /\ stage # "reset"
      /\ ~Cycling /\ work.kind # "map" /\ work.plan # << >> /\ work.kind # "none"
  BY EvenFills DEF ControlInv, ShimInv, InCall, Busy, KindOK
<1>2. work.plan \in BackPlans /\ Head(work.plan) # "create"
  BY <1>1, PlansTail DEF KindOK, ControlInv, PoolOK, WorkRecord
<1>3. ASSUME CrtDriver(Main)
      PROVE  FALSE
  <2>1. Now.pc = "crt_driver"
    BY <1>3 DEF CrtDriver, At, Now
  <2>2. Now.op = "create"
    BY <1>1, <2>1, OneThread DEF CallsOK, StageOK, Now, ReservePc, PendingPc, GrantedPc,
       MapPc, UnmapPc, ReleasePc, FreePc, ResetPc
  <2> QED
    BY <1>1, <1>2, <2>1, <2>2 DEF CallPlanned
<1>4. physLen' = physLen \/ \E h : physLen' = [physLen EXCEPT ![h] = 0]
  BY <1>1, <1>3, DriverSteps
  DEF driverVars, DriverReserve, DriverAddressFree, DriverRelease, DriverMap, DriverUnmap
<1> QED
  BY <1>1, <1>4 DEF DriverOK

LEMMA LeafInCall ==
  ASSUME ~GqaOn, PackOn, KCap = 0, EvenSlices, ControlInv, TableFill, MemoryFill,
         CountFill, LeafFill, InCall
  PROVE  LeafFill'
<1>1. CASE ~Even
  BY <1>1, LeavesUnmeasured DEF InCall, benchVars
<1>2. CASE Even /\ ~Filling
  <2>1. UNCHANGED setup /\ ~Filling' /\ PoolOK
    BY <1>2 DEF InCall, benchVars, Filling, Keeps, Retries, Cycling, bench, ControlInv
  <2> QED
    BY <1>2, <2>1, BackMakesNone, LeavesKeep
<1>3. CASE Even /\ Filling
  <2>1. /\ Keeps /\ Shimmed /\ work' = work /\ Slot' = Slot /\ PoolOK /\ KindOK
        /\ UNCHANGED setup /\ work.plan # << >> /\ Now.op = Head(work.plan)
        /\ TableByPlan /\ ArenaByPlan /\ LeavesByPlan
        /\ OnlyLeaves /\ IsFiniteSet(Memory) /\ BudgetKept /\ Even' = Even
    BY <1>3, FillCall
    DEF Filling, ControlInv, TableFill, MemoryFill, LeafFill, benchVars, Even, bench
  <2>2. work.kind = "map" /\ work.plan \in {MapPlan, CreatePlan, MapPlanLeft}
    <3>1. work.kind # "none" /\ Head(work.plan) # "access"
      BY <2>1, FillCall DEF KindOK, ControlInv, CallPlanned, Keeps
    <3> QED
      BY <1>3, <2>1, <3>1, FillsAPlan, FillPlans DEF HeldPlans
  <2>3. CASE work.plan = MapPlan
    <3>1. ReserveLeaves(Now)' /\ UNCHANGED physLen
      BY <1>3, <2>1, <2>2, <2>3, ReserveFillsLeaves DEF ArenaByPlan, LeavesByPlan
    <3>2. LeavesByPlan'
      BY <2>1, <2>2, <2>3, <3>1, FillPlans DEF LeavesByPlan
    <3> QED
      BY <2>1, <3>1, <3>2, LeavesKeep
  <2>4. CASE work.plan = CreatePlan
    <3>1. CreateTable /\ CreateFill(Now) /\ CreateLeaves(Now)
      BY <2>1, <2>2, <2>4, FillPlans DEF TableByPlan, ArenaByPlan, LeavesByPlan
    <3>2. OnlyLeaves' /\ IsFiniteSet(Memory)' /\ BudgetKept' /\ CreateLeaves(Now)'
      BY <1>3, <2>1, <2>2, <2>4, <3>1, CreateFillsLeaves
    <3>3. LeavesByPlan'
      BY <2>1, <2>2, <2>4, <3>2, FillPlans DEF LeavesByPlan
    <3> QED
      BY <3>2, <3>3 DEF LeafFill
  <2>5. CASE work.plan = MapPlanLeft
    <3>1. Seated(Slot.va, TRUE) /\ MapFill(Now) /\ MapLeaves(Now)
      BY <2>1, <2>2, <2>5, FillPlans DEF TableByPlan, ArenaByPlan, LeavesByPlan
    <3>2. MapLeaves(Now)' /\ UNCHANGED physLen
      BY <1>3, <2>1, <2>2, <2>5, <3>1, MapFillsLeaves
    <3>3. LeavesByPlan'
      BY <2>1, <2>2, <2>5, <3>2, FillPlans DEF LeavesByPlan
    <3> QED
      BY <2>1, <3>2, <3>3, LeavesKeep
  <2> QED
    BY <2>2, <2>3, <2>4, <2>5
<1> QED
  BY <1>1, <1>2, <1>3

LEMMA LeafAtStart ==
  ASSUME ControlInv, LeafFill, StartCall
  PROVE  LeafFill'
<1>1. /\ UNCHANGED <<shimVars, driverVars, benchVars>> /\ Now.pc = "idle" /\ Busy
      /\ Now'.op = Head(work.plan) /\ PoolOK /\ KindOK /\ Head(work.plan) # "access"
      /\ Now'.pc = CASE Now'.op = "reserve" -> "rsv_begin"
                        [] Now'.op = "create"  -> "crt_packed"
                        [] Now'.op = "map"     -> "map_validate"
                        [] Now'.op = "unmap"   -> "unm_validate"
                        [] Now'.op = "release" -> "rel_validate"
                        [] Now'.op = "free"    -> "fre_lookup"
  BY StartKeeps DEF ControlInv, StartCall, Idle, Now
<1>2. /\ UNCHANGED <<physLen, setup, arena, appended>> /\ Slot' = Slot /\ work' = work
      /\ Filling' = Filling
  BY <1>1 DEF benchVars, shimVars, packVars, driverVars, Slot, Filling, Keeps, Retries,
     Cycling, bench
<1>3. ASSUME Even, Filling
      PROVE  LeavesByPlan'
  <2>1. LeavesByPlan
    BY <1>3 DEF LeafFill
  <2>2. work.kind = "map" /\ work.plan \in {MapPlan, CreatePlan, MapPlanLeft}
    <3>1. work.kind # "none"
      BY <1>1 DEF KindOK, Busy
    <3> QED
      BY <1>1, <1>3, <3>1, FillsAPlan, FillPlans DEF HeldPlans, Busy
  <2>3. PICK c : c = Now'
    OBVIOUS
  <2>4. CASE work.plan = MapPlan
    <3>1. c.pc = "rsv_begin" /\ Stacked(appended)
      BY <1>1, <2>1, <2>2, <2>3, <2>4, FillPlans DEF LeavesByPlan, ReserveLeaves, SeekLeafPc
    <3>2. ReserveLeaves(c)
      BY <3>1 DEF ReserveLeaves, SeekLeafPc, CommitPc, Granted, GrantedPc, Succeeded
    <3>3. ReserveLeaves(Now)'
      BY <1>2, <2>3, <3>2, ReserveLeavesSame
    <3> QED
      BY <1>2, <2>2, <2>4, <3>3, FillPlans DEF LeavesByPlan
  <2>5. CASE work.plan = CreatePlan
    <3>1. c.pc = "crt_packed" /\ Laid(Slot.va)
      BY <1>1, <2>1, <2>2, <2>3, <2>5, FillPlans DEF LeavesByPlan, CreateLeaves
    <3>2. CreateLeaves(c)
      BY <3>1 DEF CreateLeaves, Bound, BoundPc, Succeeded
    <3>3. CreateLeaves(Now)'
      BY <1>2, <2>3, <3>2, CreateLeavesSame
    <3> QED
      BY <1>2, <2>2, <2>5, <3>3, FillPlans DEF LeavesByPlan
  <2>6. CASE work.plan = MapPlanLeft
    <3>1. c.pc = "map_validate" /\ RoomMade(Slot.va)
      BY <1>1, <2>1, <2>2, <2>3, <2>6, FillPlans DEF LeavesByPlan, MapLeaves
    <3>2. MapLeaves(c)
      BY <3>1 DEF MapLeaves, OwnMapPc, Succeeded
    <3>3. MapLeaves(Now)'
      BY <1>2, <2>3, <3>2, MapLeavesSame
    <3> QED
      BY <1>2, <2>2, <2>6, <3>3, FillPlans DEF LeavesByPlan
  <2> QED
    BY <2>2, <2>4, <2>5, <2>6
<1> QED
  BY <1>1, <1>2, <1>3, LeavesKeep

LEMMA LeafAtFinish ==
  ASSUME ControlInv, NextInPool, LeafFill, FinishCall
  PROVE  LeafFill'
<1>1. /\ UNCHANGED shimVars /\ UNCHANGED driverVars /\ Now.pc = "done" /\ Now' = IdleCall
      /\ Now.op = Head(work.plan) /\ PoolOK /\ KindOK /\ UNCHANGED <<setup, appended, stage>>
      /\ work.plan # << >> /\ Head(work.plan) # "access"
  <2>1. CallsOK /\ call' = [call EXCEPT ![Main] = IdleCall]
    BY DEF FinishCall, ControlInv, ShimInv
  <2>2. Now' = IdleCall
    BY <2>1, IdleKeeps
  <2> QED
    BY <2>2, FinishKeeps, OneThread
    DEF FinishCall, Done, Now, OnlyCall, ControlInv, Busy, CallPlanned
<1>2. /\ UNCHANGED <<physLen, setup, arena, appended>> /\ Keeps' = Keeps
  BY <1>1 DEF shimVars, packVars, driverVars, Keeps, Retries, Cycling, bench
<1>3. ASSUME Filling', ~Filling
      PROVE  FALSE
  <2>1. Keeps /\ work.kind = "undo" /\ work'.kind # "undo"
    BY <1>2, <1>3 DEF Filling
  <2>2. work' = [work EXCEPT !.plan = Tail(@)]
    BY <2>1 DEF FinishCall, Advance
  <2> QED
    BY <1>1, <2>1, <2>2 DEF PoolOK, WorkRecord
<1>4. ASSUME Even, Filling, Filling'
      PROVE  LeavesByPlan'
  <2>1. /\ LeavesByPlan /\ Now.ok /\ work.kind = "map"
        /\ Slot'.va = (IF Now.op = "reserve" THEN Now.va ELSE Slot.va)
        /\ work'.kind = "map" /\ work'.plan = Tail(work.plan)
    BY <1>4, FinishNotes DEF LeafFill, Filling
  <2>2. work.plan \in {MapPlan, CreatePlan, MapPlanLeft} /\ Succeeded(Now, Now.op)
    BY <1>1, <1>4, <2>1, FillsAPlan, FillPlans DEF HeldPlans, Succeeded
  <2>3. PICK va : va = Slot'.va
    OBVIOUS
  <2>4. PICK n : n = appended + 1 /\ n = appended' + 1
    BY <1>2
  <2>5. /\ Laid(va)' = Laid(va) /\ RoomMade(va)' = RoomMade(va) /\ Stacked(n)' = Stacked(n)
    BY <1>2, StackStays
  <2>6. CASE work.plan = MapPlan
    <3>1. Granted(Now) /\ va = Now.va
      BY <1>1, <2>1, <2>2, <2>3, <2>6, FillPlans DEF Granted
    <3>2. Laid(va)
      BY <2>1, <2>6, <3>1 DEF LeavesByPlan, ReserveLeaves
    <3>3. Laid(Slot.va)'
      BY <2>3, <2>5, <3>2
    <3>4. CreateLeaves(Now)'
      BY <1>1, <3>3 DEF CreateLeaves, IdleCall, Bound, BoundPc, Succeeded
    <3> QED
      BY <2>1, <2>6, <3>4, FillPlans DEF LeavesByPlan
  <2>7. CASE work.plan = CreatePlan
    <3>1. RoomMade(Slot.va) /\ va = Slot.va
      BY <1>1, <2>1, <2>2, <2>3, <2>7, FillPlans DEF LeavesByPlan, CreateLeaves
    <3>2. RoomMade(Slot.va)'
      BY <2>3, <2>5, <3>1
    <3>3. MapLeaves(Now)'
      BY <1>1, <3>2 DEF MapLeaves, IdleCall, OwnMapPc, Succeeded
    <3> QED
      BY <2>1, <2>7, <3>3, FillPlans DEF LeavesByPlan
  <2>8. CASE work.plan = MapPlanLeft
    <3>1. Stacked(n)
      BY <1>1, <2>1, <2>2, <2>4, <2>8, FillPlans DEF LeavesByPlan, MapLeaves
    <3>2. Stacked(appended + 1)'
      BY <2>4, <2>5, <3>1
    <3> QED
      BY <2>1, <2>8, <3>2, FillPlans DEF LeavesByPlan
  <2> QED
    BY <2>2, <2>6, <2>7, <2>8
<1> QED
  BY <1>1, <1>2, <1>3, <1>4, LeavesKeep
(* On the driver alone each slot is a piece of memory of its own.          *)
LEMMA StockStacks ==
  ASSUME ForgetInv, ~Shimmed, IsFiniteSet(Memory), NEW n \in Nat
  PROVE  /\ Stacked(n) <=> Full(n)
         /\ Opened(n) => Full(n + 1)
<1>1. ~arena.active /\ PerMemory = 1 /\ Leaves \in Nat
  BY StockBlank, FS_CardinalityType DEF PerMemory, Leaves
<1> QED
  BY <1>1 DEF Stacked, Full, Opened, LeafReady

LEMMA LeafAtStock ==
  ASSUME EvenSlices, ForgetInv, TableFill, CountFill, LeafFill, StockCall
  PROVE  LeafFill'
<1>1. /\ ControlInv /\ PoolOK /\ KindOK /\ DriverOK /\ ~Shimmed /\ Now.pc = "idle" /\ Busy
      /\ UNCHANGED <<setup, appended, stage, shimVars, call>> /\ ForgetInv'
      /\ Head(work.plan) # "access" /\ NextInPool /\ appended \in Nat
  BY StockKeeps, ForgetKept DEF ForgetInv, ControlInv, StockCall, TableFill, PoolOK, HarnessNext
<1>2. Keeps' = Keeps /\ Even' = Even /\ Shimmed' = Shimmed
  BY <1>1 DEF Keeps, Retries, Cycling, bench, Even, Shimmed
<1>3. ASSUME Filling', ~Filling
      PROVE  FALSE
  <2>1. Keeps /\ work.kind = "undo" /\ work'.kind # "undo"
    BY <1>2, <1>3 DEF Filling
  <2>2. work' = [work EXCEPT !.plan = Tail(@)]
    BY <2>1 DEF StockCall, Advance
  <2> QED
    BY <1>1, <2>1, <2>2 DEF PoolOK, WorkRecord
<1>4. CASE ~Even
  BY <1>1, <1>4, LeavesUnmeasured
<1>5. CASE Even /\ ~Filling
  <2>1. Head(work.plan) \in {"unmap", "release", "free"}
    <3>1. ~Cycling /\ work.kind # "map" /\ work.kind # "none" /\ work.plan # << >>
      BY <1>1, <1>5, EvenFills DEF KindOK, Busy
    <3> QED
      BY <1>1, <3>1, PlansTail DEF KindOK, PoolOK, WorkRecord
  <2>2. physLen' = physLen \/ \E h : physLen' = [physLen EXCEPT ![h] = 0]
    BY <2>1 DEF StockCall, DriverTakes, driverVars, DriverUnmap, DriverRelease,
       DriverAddressFree
  <2>3. \A h \in Handle : physLen'[h] = physLen[h] \/ physLen'[h] = 0
    BY <1>1, <2>2 DEF DriverOK
  <2> QED
    BY <1>1, <1>3, <1>5, <2>3, LeavesKeep
<1>6. CASE Even /\ Filling /\ ~Filling'
  <2>1. ~Advance(TRUE)
    <3>1. ASSUME Advance(TRUE)
          PROVE  FALSE
      <4>1. work' = [work EXCEPT !.plan = Tail(@)]
        BY <3>1 DEF Advance
      <4> QED
        BY <1>1, <1>2, <1>6, <4>1 DEF PoolOK, WorkRecord, Filling
    <3> QED
      BY <3>1
  <2>2. UNCHANGED physLen
    BY <2>1 DEF StockCall, driverVars
  <2> QED
    BY <1>1, <1>6, <2>2, LeavesKeep
<1>7. CASE Even /\ Filling /\ Filling'
  <2>1. /\ LeavesByPlan /\ OnlyLeaves /\ IsFiniteSet(Memory) /\ BudgetKept
        /\ work.kind = "map" /\ stage = "resident"
        /\ work.plan \in {MapPlan, CreatePlan, MapPlanLeft}
        /\ work'.kind = "map" /\ work'.plan = Tail(work.plan)
    <3>1. work.kind = "map" /\ work.plan \in {MapPlan, CreatePlan, MapPlanLeft}
      BY <1>1, <1>7, FillsAPlan, FillPlans DEF HeldPlans, Busy, KindOK
    <3>2. work'.kind = "map" /\ work'.plan = Tail(work.plan)
      BY <1>1, <1>7, StockNotes DEF Filling
    <3> QED
      BY <1>7, <3>1, <3>2 DEF LeafFill, Filling, Keeps
  <2>2. DriverTakes(Head(work.plan))
    <3>1. ASSUME Advance(FALSE)
          PROVE  FALSE
      <4>1. work' = [work EXCEPT !.kind = "undo", !.plan = Unwind(Head(@))]
        BY <2>1, <3>1 DEF Advance
      <4> QED
        BY <1>1, <2>1, <4>1 DEF PoolOK, WorkRecord
    <3> QED
      BY <3>1 DEF StockCall
  <2>3. /\ UNCHANGED arena /\ Now'.pc = "idle"
        /\ \A va : ~PackedSubVa(va) /\ ~PackedSubVa(va)'
        /\ LeafReady /\ LeafReady' /\ (Stacked(appended) => Full(appended))
    <3>1. UNCHANGED arena /\ Now'.pc = "idle"
      BY <1>1 DEF shimVars, packVars, Now
    <3>2. \A va : ~PackedSubVa(va) /\ ~PackedSubVa(va)'
      BY <1>1, <3>1, StockBlank DEF PackedSubVa
    <3> QED
      BY <1>1, <1>2, <2>1, <3>1, <3>2, StockStacks DEF LeafReady
  <2>4. CASE work.plan = MapPlan
    <3>1. UNCHANGED physLen /\ Stacked(appended)
      BY <1>1, <2>1, <2>2, <2>4, FillPlans
      DEF DriverTakes, DriverReserve, LeavesByPlan, ReserveLeaves, SeekLeafPc, Now
    <3>2. Full(appended)'
      BY <1>1, <2>3, <3>1, FullStays
    <3>3. Laid(Slot.va)'
      BY <2>3, <3>2 DEF Laid
    <3>4. CreateLeaves(Now)'
      BY <2>3, <3>3 DEF CreateLeaves, Bound, BoundPc, Succeeded
    <3>5. LeavesByPlan'
      BY <2>1, <2>4, <3>4, FillPlans DEF LeavesByPlan
    <3> QED
      BY <1>1, <3>1, <3>5, LeavesKeep
  <2>5. CASE work.plan = CreatePlan
    <3>1. PICK h \in FreshHandles : DriverCreate(h, CreateBytes(Slot.req))
      BY <2>2, <2>5, FillPlans DEF DriverTakes
    <3>2. CreateBytes(Slot.req) = Leaf
      <4>1. Slot.req \in Nat \ {0} /\ Bytes = Leaf
        BY <1>1, <1>7, <2>1, FillsASlice, FillsAPlan DEF PoolOK, PoolSlot
      <4> QED
        BY <1>1, <4>1, SlotSizes
    <3>3. Full(appended)
      BY <1>1, <2>1, <2>3, <2>5, FillPlans DEF LeavesByPlan, CreateLeaves, Laid, Now
    <3>4. OnlyLeaves' /\ IsFiniteSet(Memory)' /\ BudgetKept' /\ Opened(appended)'
      BY <1>1, <1>7, <2>1, <3>1, <3>2, <3>3, LeafMade
    <3>5. RoomMade(Slot.va)'
      BY <2>3, <3>4 DEF RoomMade
    <3>6. MapLeaves(Now)'
      BY <2>3, <3>5 DEF MapLeaves, OwnMapPc, Succeeded
    <3>7. LeavesByPlan'
      BY <2>1, <2>5, <3>6, FillPlans DEF LeavesByPlan
    <3> QED
      BY <3>4, <3>7 DEF LeafFill
  <2>6. CASE work.plan = MapPlanLeft
    <3>1. UNCHANGED physLen /\ Opened(appended)
      BY <1>1, <2>1, <2>2, <2>3, <2>6, FillPlans
      DEF DriverTakes, DriverMap, LeavesByPlan, MapLeaves, RoomMade, Now
    <3>2. PICK n \in Nat : n = appended + 1 /\ n = appended' + 1
      BY <1>1
    <3>3. Stacked(n)
      BY <1>1, <2>1, <3>1, <3>2, StockStacks DEF Full
    <3>4. Stacked(n)'
      BY <1>1, <2>3, <3>1, <3>3, StackStays
    <3>5. Stacked(appended + 1)'
      BY <3>2, <3>4
    <3>6. LeavesByPlan'
      BY <2>1, <2>6, <3>5, FillPlans DEF LeavesByPlan
    <3> QED
      BY <1>1, <3>1, <3>6, LeavesKeep
  <2> QED
    BY <2>1, <2>4, <2>5, <2>6
<1> QED
  BY <1>4, <1>5, <1>6, <1>7

LEMMA LeafAtAccess ==
  ASSUME ControlInv, NextInPool, LeafFill, SetAccess
  PROVE  LeafFill'
<1>1. /\ PoolOK /\ KindOK /\ Busy /\ UNCHANGED <<setup, appended, stage, vars>>
      /\ UNCHANGED <<physLen, arena>>
  BY DEF ControlInv, SetAccess, vars, shimVars, packVars, driverVars
<1>2. ASSUME Even, Filling'
      PROVE  LeavesByPlan'
  <2>1. Filling
    <3>1. ASSUME ~Filling
          PROVE  FALSE
      <4>1. work.kind = "undo" /\ work'.kind # "undo"
        BY <1>1, <1>2, <3>1 DEF Filling, Keeps, Retries, Cycling, bench
      <4>2. work' = [work EXCEPT !.plan = Tail(@)]
        BY <4>1 DEF SetAccess, Advance
      <4> QED
        BY <1>1, <4>1, <4>2 DEF PoolOK, WorkRecord
    <3> QED
      BY <3>1
  <2>2. /\ LeavesByPlan /\ work.kind = "map" /\ work'.kind = "map"
        /\ work.plan = <<"access">> /\ work'.plan = << >>
    <3>1. work.kind = "map" /\ work'.kind = "map" /\ work'.plan = Tail(work.plan)
      BY <1>2, <2>1, StockNotes DEF Filling
    <3>2. work.plan = <<"access">>
      BY <1>1, <2>1, <3>1, FillsAPlan, FillPlans DEF SetAccess, HeldPlans, Busy
    <3> QED
      BY <1>2, <2>1, <3>1, <3>2, FillPlans DEF LeafFill
  <2>3. PICK n : n = appended + 1 /\ n = appended' + 1
    BY <1>1
  <2>4. Stacked(n)'
    BY <1>1, <2>2, <2>3, StackStays, FillPlans DEF LeavesByPlan
  <2>5. Stacked(appended + 1)'
    BY <2>3, <2>4
  <2> QED
    BY <2>2, <2>5, FillPlans DEF LeavesByPlan
<1> QED
  BY <1>1, <1>2, LeavesKeep

(* The slot at hand joins the live ones, and the leaves hold one more.     *)
LEMMA LeafAtDone ==
  ASSUME ControlInv, NextInPool, LeafFill, WorkDone
  PROVE  LeafFill'
<1>1. PoolOK /\ UNCHANGED <<setup, physLen, arena>>
  BY DEF ControlInv, WorkDone, vars, shimVars, packVars, driverVars
<1>2. ASSUME Even, Filling'
      PROVE  LeavesByPlan'
  <2>1. /\ Filling /\ work.kind = "map" /\ work.plan = << >> /\ work'.kind = "none"
        /\ appended' = appended + 1
    BY <1>2, DoneKeepsSlot DEF Filling
  <2>2. PICK n : n = appended + 1 /\ n = appended'
    BY <2>1
  <2>3. Stacked(n)
    BY <1>2, <2>1, <2>2, FillPlans DEF LeafFill, LeavesByPlan
  <2>4. Stacked(n)'
    BY <1>1, <2>3, LeavesStay DEF Stacked, LeafReady
  <2>5. Stacked(appended)'
    BY <2>2, <2>4
  <2> QED
    BY <2>1, <2>5 DEF LeavesByPlan
<1> QED
  BY <1>1, <1>2, LeavesKeep

LEMMA LeafAtAppend ==
  ASSUME ControlInv, LeafFill, AppendSlot
  PROVE  LeafFill'
<1>1. /\ PoolOK /\ UNCHANGED <<setup, physLen, arena, appended>> /\ Filling
      /\ work.kind = "none" /\ work'.kind = "map" /\ work'.plan = MapPlan
      /\ Now'.pc = "idle"
  <2>1. /\ UNCHANGED vars /\ UNCHANGED <<setup, appended>> /\ Keeps /\ Free
        /\ work'.kind = "map" /\ work'.plan = MapPlan /\ Now.pc = "idle"
    BY AppendKeepsSlots, FreeRests DEF Keeps
  <2> QED
    BY <2>1 DEF ControlInv, vars, shimVars, packVars, driverVars, Filling, Free, Now
<1>2. ASSUME Even
      PROVE  LeavesByPlan'
  <2>1. Stacked(appended)
    BY <1>1, <1>2 DEF LeafFill, LeavesByPlan
  <2>2. PICK c : c = Now'
    OBVIOUS
  <2>3. ReserveLeaves(c)
    BY <1>1, <2>1, <2>2 DEF ReserveLeaves, SeekLeafPc, CommitPc, Granted, GrantedPc, Succeeded
  <2>4. ReserveLeaves(Now)'
    BY <1>1, <2>2, <2>3, ReserveLeavesSame
  <2> QED
    BY <1>1, <2>4, FillPlans DEF LeavesByPlan
<1> QED
  BY <1>1, <1>2, LeavesKeep

LEMMA LeafAtHead ==
  ASSUME ControlInv, LeafFill, CountHead
  PROVE  LeafFill'
<1>1. /\ PoolOK /\ UNCHANGED <<setup, physLen, arena, appended, stage, work>>
      /\ work.kind = "none"
  BY DEF ControlInv, CountHead, Free, vars, shimVars, packVars, driverVars
<1>2. ASSUME Even, Filling'
      PROVE  LeavesByPlan'
  <2>1. Filling /\ Stacked(appended)
    BY <1>1, <1>2 DEF Filling, Keeps, Retries, Cycling, bench, LeafFill, LeavesByPlan
  <2>2. PICK n : n = appended /\ n = appended'
    BY <1>1
  <2>3. Stacked(n)'
    BY <1>1, <2>1, <2>2, StackStays
  <2>4. Stacked(appended)'
    BY <2>2, <2>3
  <2> QED
    BY <1>1, <2>4 DEF LeavesByPlan
<1> QED
  BY <1>1, <1>2, LeavesKeep

(* No other step of an even bench fills the pool.                          *)
LEMMA LeafElsewhere ==
  ASSUME ControlInv, TableFill, LeafFill,
         \/ ChurnMap \/ ChurnFree \/ ChurnEnd \/ SweepOrReset \/ InReset \/ NewContext
         \/ RetrySlot \/ FillEnd \/ TeardownNext \/ Fini \/ BeginCycle \/ CyclesEnd
  PROVE  LeafFill'
<1>1. UNCHANGED setup /\ PoolOK
  BY DEF ChurnMap, ChurnFree, ChurnEnd, SweepOrReset, InReset, benchVars, NewContext,
     RetrySlot, FillEnd, TeardownNext, Fini, BeginCycle, CyclesEnd, ControlInv
<1>2. CASE ~Even
  BY <1>1, <1>2, LeavesUnmeasured
<1>3. CASE Even
  <2>1. FillEnd \/ TeardownNext \/ Fini
    BY <1>3, EvenFills DEF ChurnMap, Churning, ChurnFree, ChurnEnd, SweepOrReset, InReset,
       NewContext, RetrySlot, BeginCycle, CyclesEnd, Cycling
  <2>2. /\ ~Filling'
        /\ \A h \in Handle : physLen'[h] = physLen[h] \/ physLen'[h] = 0
    <3>1. ~Filling'
      BY <2>1, TableElsewhere DEF Filling
    <3> QED
      BY <2>1, <3>1 DEF FillEnd, TeardownNext, Fini, vars, driverVars, DriverContextDestroy
  <2> QED
    BY <1>1, <2>2, LeavesKeep
<1> QED
  BY <1>2, <1>3

LEMMA LeafStays ==
  ASSUME ControlInv, LeafFill, UNCHANGED harnessVars
  PROVE  LeafFill'
<1>1. /\ PoolOK /\ UNCHANGED <<setup, physLen, arena, appended, stage, work>>
      /\ Slot' = Slot /\ Filling' = Filling
  BY DEF ControlInv, harnessVars, benchVars, vars, shimVars, packVars, driverVars, Slot,
     Filling, Keeps, Retries, Cycling, bench
<1>2. ASSUME Even, Filling
      PROVE  LeavesByPlan'
  <2>1. LeavesByPlan
    BY <1>2 DEF LeafFill
  <2>2. PICK c, n, m : /\ c = Now /\ c = Now' /\ n = appended /\ n = appended'
                       /\ m = appended + 1 /\ m = appended' + 1
    BY <1>1 DEF harnessVars, vars, Now
  <2>3. /\ ReserveLeaves(c)' = ReserveLeaves(c) /\ CreateLeaves(c)' = CreateLeaves(c)
        /\ MapLeaves(c)' = MapLeaves(c)
        /\ Stacked(n)' = Stacked(n) /\ Stacked(m)' = Stacked(m)
    BY <1>1, ReserveLeavesSame, CreateLeavesSame, MapLeavesSame, StackStays
  <2>4. /\ ReserveLeaves(Now)' = ReserveLeaves(Now) /\ CreateLeaves(Now)' = CreateLeaves(Now)
        /\ MapLeaves(Now)' = MapLeaves(Now) /\ Stacked(appended)' = Stacked(appended)
        /\ Stacked(appended + 1)' = Stacked(appended + 1)
    BY <2>2, <2>3
  <2> QED
    BY <1>1, <2>1, <2>4 DEF LeavesByPlan
<1> QED
  BY <1>1, <1>2, LeavesKeep

LEMMA LeafStarts == BenchInit => LeafFill
<1> SUFFICES ASSUME BenchInit
             PROVE  LeafFill
  OBVIOUS
<1>1. /\ physLen = [h \in Handle |-> 0] /\ ~arena.active /\ appended = 0
      /\ work.kind = "none" /\ setup \in Setups
  BY DEF BenchInit, ShimInit, DriverInit, PackInit, NoArena, NoWork
<1>2. Memory = {} /\ OnlyLeaves
  BY <1>1 DEF Memory, OnlyLeaves
<1>3. IsFiniteSet(Memory) /\ Leaves = 0 /\ Cardinality(Memory) = 0
  BY <1>2, FS_EmptySet DEF Leaves
<1>4. 0 * Leaf = 0 /\ setup.cap \in Nat
  BY <1>1, LeafAssumption, SetupFields
<1>5. BudgetKept /\ Stacked(appended)
  BY <1>1, <1>2, <1>3, <1>4 DEF BudgetKept, Stacked
<1> QED
  BY <1>1, <1>2, <1>3, <1>5 DEF LeafFill, LeavesByPlan
LEMMA LeafStep ==
  ASSUME ~GqaOn, PackOn, KCap = 0, EvenSlices
  PROVE  LeafInv /\ [HarnessNext]_harnessVars => CountFill' /\ LeafFill'
<1> SUFFICES ASSUME LeafInv, [HarnessNext]_harnessVars
             PROVE  CountFill' /\ LeafFill'
  OBVIOUS
<1>1. /\ ForgetInv /\ ControlInv /\ TableFill /\ NextInPool /\ MemoryFill
      /\ CountFill /\ LeafFill
  BY DEF LeafInv, FillInv, ForgetInv, TableFill
<1>2. CountFill'
  BY <1>1, CountStep
<1>3. LeafFill'
  BY <1>1, LeafInCall, LeafAtStart, LeafAtFinish, LeafAtStock, LeafAtAccess, LeafAtDone,
     LeafAtAppend, LeafAtHead, LeafElsewhere, LeafStays
  DEF HarnessNext, Finished
<1> QED
  BY <1>2, <1>3

LEMMA LeafInvariant ==
  ASSUME ~GqaOn, PackOn, KCap = 0, EvenSlices
  PROVE  HarnessSpec => []LeafInv
<1>1. BenchInit => LeafInv
  BY ForgetStarts, TableStarts, MemoryStarts, CountStarts, LeafStarts DEF LeafInv, FillInv
<1>2. LeafInv /\ [HarnessNext]_harnessVars => LeafInv'
  <2>1. LeafInv => ForgetInv /\ TableFill /\ FillInv
    BY DEF LeafInv, FillInv
  <2> QED
    BY <2>1, ForgetKept, TableStep, MemoryStep, LeafStep DEF LeafInv, FillInv
<1> QED
  BY <1>1, <1>2, PTL DEF HarnessSpec

(* The iso bench tests its budget against slots divided by slots per leaf, *)
(* never against the shim's own count, yet the driver never makes a leaf   *)
(* the budget does not allow, whatever calls fail: where the arena is on,  *)
(* takes every fit, and a slice is no larger than a leaf.                  *)
THEOREM BudgetAlwaysKept ==
  ASSUME ~GqaOn, PackOn, KCap = 0, EvenSlices
  PROVE  HarnessSpec => []BudgetKept
<1>1. LeafInv => BudgetKept
  BY DEF LeafInv, LeafFill, Even, BudgetKept
<1> QED
  BY <1>1, LeafInvariant, PTL

(* committed_bytes of the iso and resident benches is what the driver      *)
(* made: slots divided by slots per leaf, rounded up, is the number of     *)
(* leaves, since the arena fills every leaf before it opens the next.      *)
THEOREM CountAlwaysCommitted ==
  ASSUME ~GqaOn, PackOn, KCap = 0, EvenSlices
  PROVE  HarnessSpec => []CountIsCommitted
<1>1. ASSUME LeafInv
      PROVE  CountIsCommitted
  <2>1. SUFFICES ASSUME stage = "resident", Free, Even
                 PROVE  OnlyLeaves /\ Leaves * Leaf = CommittedFor(appended)
    BY DEF CountIsCommitted, Even, Leaves
  <2>2. ControlInv /\ PoolOK /\ LeafFill
    BY <1>1 DEF LeafInv, FillInv, ForgetInv, ControlInv
  <2>3. Filling /\ work.kind = "none"
    BY <2>1, <2>2, EvenFills DEF Filling, Keeps, Free
  <2>4. OnlyLeaves /\ IsFiniteSet(Memory) /\ Stacked(appended)
    BY <2>1, <2>2, <2>3 DEF LeafFill, LeavesByPlan
  <2> QED
    BY <2>1, <2>2, <2>4, CommittedBytes DEF PoolOK
<1>2. LeafInv => CountIsCommitted
  BY <1>1
<1> QED
  BY <1>2, LeafInvariant, PTL
=============================================================================
