--------------------------- MODULE IronHarnessProofs ---------------------------
(***************************************************************************)
(* Proofs about the memory benches, for any pool, requests, leaf, packing, *)
(* mega and 2-adic setting.                                                *)
(***************************************************************************)
EXTENDS IronHarness, ShimProofs

Now == call[Main]  \* the call in progress

PoolSlot == [va : Nat, h : Handle, req : Nat, live : BOOLEAN]

-----------------------------------------------------------------------------
(* Control: which calls are made for a slot, and where.                    *)

MapPlans ==
  {<<"reserve", "create", "map", "access">>, <<"create", "map", "access">>,
   <<"map", "access">>, <<"access">>, << >>}
CyclePlans ==
  {<<"reserve", "create", "map", "unmap", "release", "free">>,
   <<"create", "map", "unmap", "release", "free">>, <<"map", "unmap", "release", "free">>,
   <<"unmap", "release", "free">>, <<"release", "free">>, <<"free">>, << >>}
BackPlans ==
  {<<"release", "unmap", "free">>, <<"unmap", "release", "free">>, <<"unmap", "free">>,
   <<"release", "free">>, <<"free">>, << >>}

Benches == {"frag", "iso", "resident", "kv_tail", "alloc", "chain"}
Stages == {"resident", "churn", "sweep", "reset", "teardown", "probe", "end"}
WorkRecord ==
  [kind : {"none", "map", "cycle", "undo", "teardown"}, slot : PoolIndex,
   plan : MapPlans \union CyclePlans \union BackPlans]

(* Each kind of work is done in some stages of some benches only.          *)
KindOK ==
  /\ work.kind = "none" => work.plan = << >>
  /\ work.kind = "map" =>
       work.plan \in MapPlans /\ ~Cycling /\ stage \in {"resident", "churn"}
  /\ work.kind = "cycle" =>
       work.plan \in CyclePlans /\ Cycling /\ stage \in {"resident", "probe"}
  /\ work.kind = "undo" =>
       work.plan \in BackPlans /\ stage \in {"resident", "churn", "probe"}
  /\ work.kind = "teardown" =>
       work.plan \in BackPlans /\ ~Cycling /\ stage \in {"churn", "sweep", "teardown"}

StageKept ==
  /\ stage \in Stages
  /\ stage \in {"churn", "sweep", "reset"} => bench = "frag"
  /\ stage = "probe" => bench = "alloc"
  /\ stage = "teardown" => ~Cycling

(* The call in progress is the next of the plan, for the slot at hand.     *)
CallFits ==
  /\ Now.op = "reserve" => Now.size = ReserveBytes(Slot.req)
  /\ Now.op = "create" => Now.size = CreateBytes(Slot.req)
  /\ Now.op \in {"map", "unmap", "free"} => Now.va = Slot.va
  /\ Now.op \in {"map", "unmap"} => Now.size = AllocBytes(Slot.req)
  /\ Now.op \in {"map", "release"} => Now.h = Slot.h
  /\ Now.op = "free" => Now.size = ReserveBytes(Slot.req)

CallPlanned ==
  /\ stage = "reset" => /\ Now.op = "reset" /\ Now.pc # "idle"
                        /\ ~Shimmed => Now.pc = "done"
  /\ stage # "reset" /\ Now.pc # "idle" =>
       /\ Shimmed /\ Busy /\ Head(work.plan) # "access" /\ Now.op = Head(work.plan)
       /\ CallFits

PoolOK ==
  /\ setup \in Setups
  /\ pool \in [PoolIndex -> PoolSlot]
  /\ \A i \in PoolIndex : pool[i].live => pool[i].req > 0
  /\ work \in WorkRecord
  /\ work.kind # "none" => Slot.req > 0
  /\ appended \in Nat /\ counted \in Nat /\ cycles \in Nat
  /\ seq \in 0 .. Len(Sizes[bench]) - 1

(* Every mapping lies in a range that is reserved.                         *)
DriverOK ==
  /\ reserved \subseteq [base : Nat \ {NoVa}, len : Nat]
  /\ physLen \in [Handle -> Nat]
  /\ mappings \subseteq [va : Nat, len : Nat \ {0}, handle : Handle]
  /\ \A m \in mappings :
       \E r \in reserved : r.base <= m.va /\ m.va + m.len <= r.base + r.len

ControlInv == ShimInv /\ PoolOK /\ KindOK /\ StageKept /\ CallPlanned /\ DriverOK

-----------------------------------------------------------------------------
(* Facts about the constants, the plans and the sizes.                     *)

LEMMA OneThread == Thread = {Main} /\ Main \in Thread
  BY HarnessAssumption

LEMMA SetupFields ==
  ASSUME setup \in Setups
  PROVE  /\ bench \in Benches /\ setup.path \in {"shim", "stock"}
         /\ setup.cap \in Nat /\ setup.target \in Nat /\ setup.heads \in Nat \ {0}
         /\ (setup.path = "stock" => setup.heads = 1)
         /\ Sizes[bench] \in Seq(Size \ {0}) /\ Sizes[bench] # << >>
         /\ Len(Sizes[bench]) \in Nat \ {0}
         /\ \A k \in 1 .. Len(Sizes[bench]) : Sizes[bench][k] \in Nat \ {0}
<1>1. /\ setup.bench \in Benches /\ setup.path \in {"shim", "stock"}
      /\ setup.cap \in Nat /\ setup.target \in Nat /\ setup.heads \in Nat \ {0}
      /\ (setup.path = "stock" => setup.heads = 1)
      /\ Sizes[setup.bench] \in Seq(Size \ {0}) /\ Sizes[setup.bench] # << >>
  BY HarnessAssumption DEF Benches
<1>2. ASSUME NEW T, NEW s \in Seq(T), s # << >>
      PROVE  Len(s) \in Nat \ {0} /\ \A k \in 1 .. Len(s) : s[k] \in T
  BY <1>2
<1>3. Size \ {0} \subseteq Nat \ {0}
  BY DriverAssumption
<1> QED
  BY <1>1, <1>2, <1>3 DEF bench

LEMMA PlansTail ==
  /\ \A p \in MapPlans \ {<< >>} :
       Tail(p) \in MapPlans /\ Head(p) \in {"reserve", "create", "map", "access"}
  /\ \A p \in CyclePlans \ {<< >>} :
       /\ Tail(p) \in CyclePlans
       /\ Head(p) \in {"reserve", "create", "map", "unmap", "release", "free"}
  /\ \A p \in BackPlans \ {<< >>} :
       Tail(p) \in BackPlans /\ Head(p) \in {"unmap", "release", "free"}
<1>1. /\ Tail(<<"reserve", "create", "map", "access">>) = <<"create", "map", "access">>
      /\ Tail(<<"create", "map", "access">>) = <<"map", "access">>
      /\ Tail(<<"map", "access">>) = <<"access">> /\ Tail(<<"access">>) = << >>
  OBVIOUS
<1>2. /\ Tail(<<"reserve", "create", "map", "unmap", "release", "free">>)
           = <<"create", "map", "unmap", "release", "free">>
      /\ Tail(<<"create", "map", "unmap", "release", "free">>)
           = <<"map", "unmap", "release", "free">>
      /\ Tail(<<"map", "unmap", "release", "free">>) = <<"unmap", "release", "free">>
      /\ Tail(<<"unmap", "release", "free">>) = <<"release", "free">>
      /\ Tail(<<"release", "unmap", "free">>) = <<"unmap", "free">>
      /\ Tail(<<"release", "free">>) = <<"free">> /\ Tail(<<"unmap", "free">>) = <<"free">>
      /\ Tail(<<"free">>) = << >>
  OBVIOUS
<1>3. /\ Head(<<"reserve", "create", "map", "access">>) = "reserve"
      /\ Head(<<"create", "map", "access">>) = "create"
      /\ Head(<<"map", "access">>) = "map" /\ Head(<<"access">>) = "access"
      /\ Head(<<"reserve", "create", "map", "unmap", "release", "free">>) = "reserve"
      /\ Head(<<"create", "map", "unmap", "release", "free">>) = "create"
      /\ Head(<<"map", "unmap", "release", "free">>) = "map"
      /\ Head(<<"unmap", "release", "free">>) = "unmap"
      /\ Head(<<"release", "unmap", "free">>) = "release"
      /\ Head(<<"release", "free">>) = "release" /\ Head(<<"unmap", "free">>) = "unmap"
      /\ Head(<<"free">>) = "free"
  OBVIOUS
<1> QED
  BY <1>1, <1>2, <1>3 DEF MapPlans, CyclePlans, BackPlans
LEMMA HarnessSizes ==
  ASSUME NEW req \in Nat
  PROVE  /\ AllocBytes(req) \in Nat /\ Leaf <= AllocBytes(req) /\ req <= AllocBytes(req)
         /\ AllocBytes(req) > 0
         /\ ReserveBytes(req) \in Nat /\ req <= ReserveBytes(req)
         /\ CreateBytes(req) \in Nat /\ req <= CreateBytes(req)
<1>1. /\ AllocBytes(req) = RoundLeafSize(req) /\ IronPlacementRound(req) = PlacementRound(req)
  BY HarnessPlacesAlike DEF AllocBytes
<1>2. PlacementRound(req) \in Nat /\ req <= PlacementRound(req)
  BY PlacementHolds
<1>3. /\ RoundLeafSize(req) \in Nat \ {0} /\ req <= RoundLeafSize(req)
  BY RoundUpHolds, LeafAssumption DEF RoundLeafSize
<1>4. Leaf <= AllocBytes(req)
  <2>1. CASE req <= Leaf
    BY <2>1, LeafAssumption DEF AllocBytes, FragAllocBytes
  <2>2. CASE ~(req <= Leaf)
    BY <1>1, <1>3, <2>2, LeafAssumption
  <2> QED
    BY <2>1, <2>2
<1> QED
  BY <1>1, <1>2, <1>3, <1>4, LeafAssumption DEF ReserveBytes, CreateBytes

-----------------------------------------------------------------------------
(* What a step of a call leaves alone.                                     *)

(* Addresses and handles a call is made with stay what they are.           *)
LEMMA ArgumentsKept ==
  ASSUME CallsOK, ShimStep(Main)
  PROVE  /\ Now.op \in {"map", "unmap", "free"} => Now'.va = Now.va
         /\ Now.op \in {"map", "release"} => Now'.h = Now.h
<1> USE OneThread
<1>1. call \in [Thread -> CallRecord] /\ StageOK(Now)
  BY DEF CallsOK, Now
<1>2. \A q : Goto(Main, q) => Now'.va = Now.va /\ Now'.h = Now.h
  BY <1>1 DEF Goto, Now, CallRecord
<1>3. \A ok : Return(Main, ok) => Now'.va = Now.va /\ Now'.h = Now.h
  BY <1>1 DEF Return, Now, CallRecord
<1>4. CASE ReserveStep(Main)
  <2>1. Now.pc \in ReservePc
    BY <1>4 DEF ReserveStep, RsvBegin, RsvReq, RsvAlias, RsvNoAlias, RsvFlush, RsvTry,
       RsvMega, RsvCommit, RsvMark, RsvOff, RsvSetOff, RsvLeafOff, RsvRegister, RsvDriver,
       RsvRollback, RsvDriverCommit, RsvDriverRegister, RsvWindow, At, ReservePc, PendingPc,
       GrantedPc, Now
  <2> QED
    BY <1>1, <2>1, OpOfPc
<1>5. CASE CreateStep(Main)
  <2>1. Now.pc \in CreatePc
    BY <1>5 DEF CreateStep, CrtPacked, CrtRetain, CrtShare, CrtValidate, CrtDriver, CrtBind,
       CrtSnapshot, CrtOpen, At, CreatePc, AskedPc, BoundPc, Now
  <2> QED
    BY <1>1, <2>1, OpOfPc
<1>6. CASE MapStep(Main)
  <2>1. CASE MapOff(Main)
    BY <1>1, <2>1 DEF MapOff, Now, CallRecord
  <2>2. CASE MapReq(Main)
    <3>1. \/ \E n : call' = [call EXCEPT ![Main].pc = "map_bump", ![Main].sz = n]
          \/ Return(Main, TRUE)
      BY <2>2 DEF MapReq
    <3> QED
      BY <1>1, <1>3, <3>1 DEF Now, CallRecord
  <2> QED
    BY <1>2, <1>3, <1>6, <2>1, <2>2
    DEF MapStep, MapValidate, MapRoute, MapPacked, MapDriver, MapMark, MapUsage, MapActive,
        MapBump
<1>7. CASE UnmapStep(Main) \/ FreeStep(Main) \/ ResetStep(Main)
  BY <1>2, <1>3, <1>7 DEF UnmapStep, UnmValidate, UnmKnown, UnmRoute, UnmDriver, UnmClear,
     FreeStep, FreLookup, FreRoute, FreDriver, FreSlot, ResetStep, RstFlush, RstPack, RstGqa, RstSlots
<1>8. CASE ReleaseStep(Main)
  BY <1>2, <1>3, <1>8 DEF ReleaseStep, RelValidate, RelRef, RelDriver, RelClear
<1> QED
  BY <1>4, <1>5, <1>6, <1>7, <1>8 DEF ShimStep

(* The driver is called in six steps only.                                 *)
LEMMA DriverSteps ==
  ASSUME CallsOK, ShimStep(Main)
  PROVE  \/ UNCHANGED driverVars
         \/ RsvDriver(Main) /\ DriverReserve(DriverSize(Main))
         \/ FreDriver(Main) /\ DriverAddressFree(Now.va, Now.size)
         \/ CrtDriver(Main) /\ \E h \in FreshHandles :
                                  /\ DriverCreate(h, CreateRoundSize(Now.size))
                                  /\ call' = [call EXCEPT ![Main].pc = "crt_bind",
                                                         ![Main].h = h]
         \/ RelDriver(Main) /\ DriverRelease(Now.h)
         \/ /\ MapDriver(Main) /\ DriverMap(Now.va, Now.size, Now.off, Now.h)
            /\ Goto(Main, "map_mark")
         \/ UnmDriver(Main) /\ DriverUnmap(Now.va, Now.size)
<1>1. CASE ReserveStep(Main)
  BY <1>1 DEF ReserveStep, RsvBegin, RsvReq, RsvAlias, RsvNoAlias, RsvFlush, RsvTry,
     RsvMega, RsvCommit, RsvMark, RsvOff, RsvSetOff, RsvLeafOff, RsvRegister, RsvDriver,
     RsvRollback, RsvDriverCommit, RsvDriverRegister, RsvWindow, OnlySlots, OnlyPack,
     OnlyBuckets, OnlyCall
<1>2. CASE CreateStep(Main)
  BY <1>2 DEF CreateStep, CrtPacked, CrtRetain, CrtShare, CrtValidate, CrtDriver, CrtBind,
     CrtSnapshot, CrtOpen, OnlySlots, OnlyPack, OnlyCall, Now
<1>3. CASE MapStep(Main)
  BY <1>3 DEF MapStep, MapValidate, MapRoute, MapPacked, MapOff, MapDriver, MapMark,
     MapUsage, MapActive, MapReq, MapBump, OnlySlots, OnlyPack, OnlyCall, Now
<1>4. CASE UnmapStep(Main) \/ ReleaseStep(Main)
  BY <1>4 DEF UnmapStep, UnmValidate, UnmKnown, UnmRoute, UnmDriver, UnmClear, ReleaseStep,
     RelValidate, RelRef, RelDriver, RelClear, OnlySlots, OnlyPack, OnlyCall, Now
<1>5. CASE FreeStep(Main) \/ ResetStep(Main)
  BY <1>5 DEF FreeStep, FreLookup, FreRoute, FreDriver, FreSlot, ResetStep, RstFlush,
     RstPack, RstGqa, RstSlots, OnlySlots, OnlyPack, OnlyBuckets, OnlyCall, Now
<1> QED
  BY <1>1, <1>2, <1>3, <1>4, <1>5 DEF ShimStep

(* Every driver call leaves each mapping inside a range that is reserved.  *)
LEMMA DriverKept ==
  ASSUME DriverOK,
         \/ UNCHANGED driverVars
         \/ \E len \in Nat : DriverReserve(len)
         \/ \E va \in Nat, len \in Nat : DriverAddressFree(va, len)
         \/ \E h \in Handle, len \in Nat : DriverCreate(h, len)
         \/ \E h \in Handle : DriverRelease(h)
         \/ \E va \in Nat, len \in Nat \ {0}, off \in Nat, h \in Handle :
              DriverMap(va, len, off, h)
         \/ \E va \in Nat, len \in Nat : DriverUnmap(va, len)
         \/ DriverContextDestroy
  PROVE  DriverOK'
<1>1. CASE UNCHANGED driverVars
  BY <1>1 DEF driverVars, DriverOK
<1>2. ASSUME NEW len \in Nat, DriverReserve(len) PROVE DriverOK'
  <2>1. NextRoom(len) \in Nat \ {NoVa}
    BY <1>2, RoomIsAddress DEF DriverReserve, NoVa
  <2>2. reserved' = reserved \union {[base |-> NextRoom(len), len |-> len]}
        /\ UNCHANGED <<physLen, mappings>>
    BY <1>2 DEF DriverReserve
  <2> QED
    BY <2>1, <2>2 DEF DriverOK
<1>3. ASSUME NEW va \in Nat, NEW len \in Nat, DriverAddressFree(va, len) PROVE DriverOK'
  <2>1. /\ reserved' = reserved \ {[base |-> va, len |-> len]}
        /\ UNCHANGED <<physLen, mappings>>
        /\ \A m \in mappings : ~(va < m.va + m.len /\ m.va < va + len)
    BY <1>3 DEF DriverAddressFree, CanAddressFree, Meet
  <2>2. ASSUME NEW m \in mappings
        PROVE  \E r \in reserved' : r.base <= m.va /\ m.va + m.len <= r.base + r.len
    <3>1. PICK r \in reserved : r.base <= m.va /\ m.va + m.len <= r.base + r.len
      BY DEF DriverOK
    <3>2. m.va \in Nat /\ m.len \in Nat \ {0} /\ r.base \in Nat /\ r.len \in Nat
      BY DEF DriverOK
    <3>3. ASSUME r = [base |-> va, len |-> len] PROVE FALSE
      <4>1. r.base = va /\ r.len = len
        BY <3>3
      <4>2. va < m.va + m.len /\ m.va < va + len
        BY <3>1, <3>2, <4>1
      <4> QED
        BY <2>1, <4>2
    <3> QED
      BY <2>1, <3>1, <3>3
  <2> QED
    BY <2>1, <2>2 DEF DriverOK
<1>4. ASSUME NEW h \in Handle, NEW len \in Nat, DriverCreate(h, len) \/ DriverRelease(h)
      PROVE  DriverOK'
  BY <1>4 DEF DriverCreate, DriverRelease, DriverOK
<1>5. ASSUME NEW va \in Nat, NEW len \in Nat \ {0}, NEW off \in Nat, NEW h \in Handle,
             DriverMap(va, len, off, h)
      PROVE  DriverOK'
  <2>1. /\ mappings' = mappings \union {[va |-> va, len |-> len, handle |-> h]}
        /\ UNCHANGED <<reserved, physLen>>
        /\ \E r \in reserved : r.base <= va /\ va + len <= r.base + r.len
    BY <1>5 DEF DriverMap, CanMap
  <2> QED
    BY <2>1 DEF DriverOK
<1>6. ASSUME NEW va \in Nat, NEW len \in Nat, DriverUnmap(va, len) PROVE DriverOK'
  BY <1>6 DEF DriverUnmap, DriverOK
<1>7. CASE DriverContextDestroy
  BY <1>7 DEF DriverContextDestroy, DriverOK
<1>8. ASSUME NEW h \in Handle, DriverRelease(h) PROVE DriverOK'
  BY <1>8, <1>4
<1> QED
  BY <1>1, <1>2, <1>3, <1>4, <1>5, <1>6, <1>7, <1>8

(* A step of a call keeps the driver's state well formed.                  *)
LEMMA CallKeepsDriver ==
  ASSUME CallsOK, DriverOK, ShimStep(Main),
         Now.op = "map" => Now.size > 0
  PROVE  DriverOK'
<1> USE OneThread
<1>1. /\ StageOK(Now) /\ Now.va \in Nat /\ Now.size \in Nat /\ Now.off \in Nat
      /\ Now.h \in Handle
  BY AtStep DEF Now
<1>2. CreateRoundSize(Now.size) \in Nat
  BY <1>1, LeafAssumption, RoundUpPositive DEF CreateRoundSize, RoundLeafSize
<1>3. DriverSize(Main) \in Nat
  BY <1>1, WindowSizeNat DEF DriverSize, Now
<1>4. MapDriver(Main) => Now.size \in Nat \ {0}
  BY <1>1, OpOfPc DEF MapDriver, At, Now, MapPc
<1>5. FreshHandles \subseteq Handle
  BY DEF FreshHandles
<1> QED
  BY <1>1, <1>2, <1>3, <1>4, <1>5, DriverSteps, DriverKept

-----------------------------------------------------------------------------
(* The control invariant.                                                  *)

LEMMA ControlStarts == BenchInit => ControlInv
<1> SUFFICES ASSUME BenchInit PROVE ControlInv
  OBVIOUS
<1> USE OneThread
<1>1. ShimInv
  BY CallsStart DEF BenchInit
<1>2. BlankSlot \in PoolSlot /\ ~BlankSlot.live
  BY DriverAssumption DEF BlankSlot, PoolSlot, NoVa
<1>3. NoWork \in WorkRecord /\ NoWork.kind = "none" /\ NoWork.plan = << >>
  BY HarnessAssumption DEF NoWork, WorkRecord, PoolIndex, MapPlans
<1>4. PoolOK
  BY <1>2, <1>3, SetupFields DEF BenchInit, PoolOK
<1>5. KindOK /\ StageKept
  BY <1>3 DEF BenchInit, KindOK, StageKept, Stages
<1>6. CallPlanned
  BY <1>1 DEF BenchInit, ShimInit, IdleCall, CallPlanned, Now
<1>7. DriverOK
  BY DEF BenchInit, ShimInit, DriverInit, DriverOK
<1> QED
  BY <1>1, <1>4, <1>5, <1>6, <1>7 DEF ControlInv

(* Nothing of the bench, of the shim or of the driver changes.             *)
LEMMA BenchSame ==
  ASSUME PoolOK, KindOK, StageKept, UNCHANGED benchVars
  PROVE  PoolOK' /\ KindOK' /\ StageKept'
  BY DEF benchVars, PoolOK, KindOK, StageKept, Slot, bench, Cycling

LEMMA ShimSame ==
  ASSUME ShimInv, UNCHANGED shimVars, CallsOK'
  PROVE  ShimInv'
  BY CallAlone DEF ShimInv

LEMMA CallSame ==
  ASSUME CallsOK, UNCHANGED call
  PROVE  CallsOK'
  BY DEF CallsOK

(* A bench on the driver alone makes no call, and one that is not idle is  *)
(* either a call for the slot at hand or the reset.                        *)
LEMMA CallRests ==
  ASSUME ControlInv, work.plan = << >> \/ ~Shimmed, stage # "reset"
  PROVE  Now.pc = "idle"
  BY DEF ControlInv, CallPlanned, Busy

LEMMA AdvanceKeeps ==
  ASSUME PoolOK, KindOK, Busy, NEW ok \in BOOLEAN, Advance(ok),
         UNCHANGED <<setup, stage>>
  PROVE  /\ work' \in WorkRecord /\ work'.slot = work.slot /\ KindOK'
         /\ work.kind # "none" /\ work'.kind # "none" /\ stage # "reset"
         /\ work'.kind = work.kind \/ (work'.kind = "undo" /\ ~ok)
<1>1. /\ work \in WorkRecord /\ work.plan # << >> /\ work.kind # "none" /\ stage # "reset"
  <2>1. /\ work \in WorkRecord /\ work.plan # << >>
    BY DEF PoolOK, Busy
  <2>2. work.kind \in {"none", "map", "cycle", "undo", "teardown"}
    BY <2>1 DEF WorkRecord
  <2> QED
    BY <2>1, <2>2 DEF KindOK
<1>3. /\ work.plan \in MapPlans => Tail(work.plan) \in MapPlans
      /\ work.plan \in CyclePlans => Tail(work.plan) \in CyclePlans
      /\ work.plan \in BackPlans => Tail(work.plan) \in BackPlans
  BY <1>1, PlansTail
<1>4. Unwind(Head(work.plan)) \in BackPlans
  <2>1. Head(work.plan) \in {"reserve", "create", "map", "access", "unmap", "release", "free"}
    BY <1>1, PlansTail DEF WorkRecord
  <2> QED
    BY <2>1 DEF Unwind, BackPlans
<1>5. /\ setup' = setup /\ stage' = stage /\ Cycling' = Cycling
  BY DEF Cycling, bench
<1>6. CASE ok \/ work.kind \notin {"map", "cycle"}
  <2>1. work' = [work EXCEPT !.plan = Tail(work.plan)]
    BY <1>6 DEF Advance
  <2>2. /\ work'.kind = work.kind /\ work'.slot = work.slot /\ work'.plan = Tail(work.plan)
        /\ work' \in WorkRecord
    BY <1>1, <1>3, <2>1 DEF WorkRecord
  <2> QED
    BY <1>1, <1>3, <1>5, <2>2 DEF KindOK
<1>7. CASE ~ok /\ work.kind \in {"map", "cycle"}
  <2>1. work' = [work EXCEPT !.kind = "undo", !.plan = Unwind(Head(work.plan))]
    BY <1>7 DEF Advance
  <2>2. /\ work'.kind = "undo" /\ work'.slot = work.slot
        /\ work'.plan = Unwind(Head(work.plan)) /\ work' \in WorkRecord
    BY <1>1, <1>4, <2>1 DEF WorkRecord
  <2> QED
    BY <1>1, <1>4, <1>5, <1>7, <2>2 DEF KindOK
<1> QED
  BY <1>6, <1>7

LEMMA StartKeeps ==
  ASSUME ControlInv, StartCall
  PROVE  /\ ControlInv' /\ UNCHANGED <<shimVars, driverVars, benchVars>>
         /\ Now'.op = Head(work.plan)
         /\ Now'.pc = CASE Now'.op = "reserve" -> "rsv_begin"
                        [] Now'.op = "create"  -> "crt_packed"
                        [] Now'.op = "map"     -> "map_validate"
                        [] Now'.op = "unmap"   -> "unm_validate"
                        [] Now'.op = "release" -> "rel_validate"
                        [] Now'.op = "free"    -> "fre_lookup"
<1> USE OneThread
<1>1. /\ Shimmed /\ work.plan # << >> /\ Now.pc = "idle" /\ Head(work.plan) # "access"
      /\ EnterOp(Head(work.plan)) /\ UNCHANGED <<shimVars, driverVars, benchVars>>
  BY DEF StartCall, Busy, Idle, Now, OnlyCall
<1>2. /\ PoolOK /\ KindOK /\ StageKept /\ DriverOK /\ CallsOK /\ ShimInv
  BY DEF ControlInv, ShimInv
<1>3. /\ Head(work.plan) \in {"reserve", "create", "map", "unmap", "release", "free"}
      /\ stage # "reset"
  BY <1>1, <1>2, PlansTail DEF PoolOK, WorkRecord, KindOK
<1> DEFINE op == Head(work.plan)
           pc == CASE op = "reserve" -> "rsv_begin"
                   [] op = "create"  -> "crt_packed"
                   [] op = "map"     -> "map_validate"
                   [] op = "unmap"   -> "unm_validate"
                   [] op = "release" -> "rel_validate"
                   [] op = "free"    -> "fre_lookup"
<1>4. /\ Slot.va \in Nat /\ Slot.h \in Handle /\ Slot.req \in Nat
  BY <1>2 DEF PoolOK, WorkRecord, Slot, PoolSlot
<1>5. NoHandle \in Handle /\ NoVa \in Nat
  BY DriverAssumption DEF NoVa
<1>6. op \in Op /\ pc \in Pc
  BY <1>3 DEF Op, Pc, ReservePc, CreatePc, AskedPc, MapPc, UnmapPc, ReleasePc, FreePc
<1> HIDE DEF op, pc
<1>7. \E va \in Nat, size \in Nat, h \in Handle :
        /\ Enter(Main, op, pc, va, size, h)
        /\ op = "reserve" => size = ReserveBytes(Slot.req)
        /\ op = "create" => size = CreateBytes(Slot.req)
        /\ op \in {"map", "unmap", "free"} => va = Slot.va
        /\ op \in {"map", "unmap"} => size = AllocBytes(Slot.req)
        /\ op \in {"map", "release"} => h = Slot.h
        /\ op = "free" => size = ReserveBytes(Slot.req)
  <2>1. /\ ReserveBytes(Slot.req) \in Nat /\ CreateBytes(Slot.req) \in Nat
        /\ AllocBytes(Slot.req) \in Nat
    BY <1>4, HarnessSizes
  <2>2. CASE op = "reserve"
    BY <1>1, <1>4, <1>5, <2>1, <2>2 DEF EnterOp, op, pc
  <2>3. CASE op = "create"
    BY <1>1, <1>4, <1>5, <2>1, <2>3 DEF EnterOp, op, pc
  <2>4. CASE op = "map"
    BY <1>1, <1>4, <1>5, <2>1, <2>4 DEF EnterOp, op, pc
  <2>5. CASE op = "unmap"
    BY <1>1, <1>4, <1>5, <2>1, <2>5 DEF EnterOp, op, pc
  <2>6. CASE op = "release"
    BY <1>1, <1>4, <1>5, <2>1, <2>6 DEF EnterOp, op, pc
  <2>7. CASE op = "free"
    BY <1>1, <1>4, <1>5, <2>1, <2>7 DEF EnterOp, op, pc
  <2> QED
    BY <1>3, <2>2, <2>3, <2>4, <2>5, <2>6, <2>7 DEF op
<1>8. PICK va \in Nat, size \in Nat, h \in Handle :
        /\ Enter(Main, op, pc, va, size, h)
        /\ op = "reserve" => size = ReserveBytes(Slot.req)
        /\ op = "create" => size = CreateBytes(Slot.req)
        /\ op \in {"map", "unmap", "free"} => va = Slot.va
        /\ op \in {"map", "unmap"} => size = AllocBytes(Slot.req)
        /\ op \in {"map", "release"} => h = Slot.h
        /\ op = "free" => size = ReserveBytes(Slot.req)
  BY <1>7
<1>9. /\ call' \in [Thread -> CallRecord] /\ Now'.op = op /\ Now'.pc = pc /\ Now'.va = va
      /\ Now'.h = h /\ Now'.size = size
  <2>1. CallsOK /\ Main \in Thread /\ Enter(Main, op, pc, va, size, h)
    BY <1>2, <1>8, OneThread
  <2>2. /\ call' \in [Thread -> CallRecord] /\ call'[Main].op = op /\ call'[Main].pc = pc
        /\ call'[Main].va = va /\ call'[Main].h = h /\ call'[Main].size = size
    BY <1>6, <2>1, EnterMove
  <2> QED
    BY <2>2 DEF Now
<1>10. CallsOK'
  <2>1. StageOK(Now')
    BY <1>3, <1>9 DEF StageOK, ReservePc, CreatePc, AskedPc, MapPc, UnmapPc, ReleasePc,
       FreePc, RoutedPc, op, pc
  <2> QED
    BY <1>9, <2>1 DEF CallsOK, Now
<1>11. ShimInv' /\ DriverOK' /\ PoolOK' /\ KindOK' /\ StageKept'
  BY <1>1, <1>2, <1>10, ShimSame, DriverKept, BenchSame
<1>12. CallPlanned'
  <2>1. /\ UNCHANGED <<setup, pool, work, stage>>
    BY <1>1 DEF benchVars
  <2>2. /\ Slot' = Slot /\ Shimmed' /\ Logical' = Logical
    BY <1>1, <2>1 DEF Slot, Shimmed, Logical, bench
  <2>3. \A n : ReserveBytes(n)' = ReserveBytes(n) /\ CreateBytes(n)' = CreateBytes(n)
    BY <2>2 DEF ReserveBytes, CreateBytes
  <2>4. CallFits'
    BY <1>8, <1>9, <2>2, <2>3 DEF CallFits
  <2> QED
    BY <1>1, <1>3, <1>9, <2>1, <2>2, <2>4 DEF CallPlanned, Busy, op
<1> QED
  BY <1>1, <1>9, <1>11, <1>12 DEF ControlInv, op, pc

LEMMA InCallKeeps ==
  ASSUME ControlInv, ShimStep(Main), UNCHANGED benchVars
  PROVE  ControlInv' /\ CallMoves(Main)
<1> USE OneThread
<1>1. /\ ShimInv /\ PoolOK /\ KindOK /\ StageKept /\ DriverOK /\ CallsOK /\ CallPlanned
  BY DEF ControlInv, ShimInv
<1>2. /\ ShimInv' /\ CallMoves(Main) /\ Now.op # "none" /\ Now.pc \notin {"idle", "done"}
      /\ Now'.op = Now.op /\ Now'.size = Now.size
  BY <1>1, ShimStepKeeps DEF Now, CallMoves
<1>3. Now'.pc # "idle"
  <2>1. StageOK(Now')
    BY <1>2 DEF ShimInv, CallsOK, Now
  <2> QED
    BY <1>2, <2>1 DEF StageOK, ReservePc, PendingPc, GrantedPc, CreatePc, AskedPc, BoundPc,
       MapPc, UnmapPc, ReleasePc, FreePc, ResetPc
<1>4. PoolOK' /\ KindOK' /\ StageKept'
  BY <1>1, BenchSame
<1>5. /\ UNCHANGED <<setup, pool, work, stage>>
      /\ Slot' = Slot /\ Shimmed' = Shimmed /\ Logical' = Logical
  BY DEF benchVars, Slot, Shimmed, Logical, bench
<1>6. \A n : ReserveBytes(n)' = ReserveBytes(n) /\ CreateBytes(n)' = CreateBytes(n)
  BY <1>5 DEF ReserveBytes, CreateBytes
<1>7. stage # "reset" => Shimmed /\ Busy /\ CallFits /\ Head(work.plan) # "access"
                         /\ Now.op = Head(work.plan)
  BY <1>1, <1>2 DEF CallPlanned
<1>8. stage = "reset" => Now.op = "reset" /\ Shimmed
  BY <1>1, <1>2 DEF CallPlanned
<1>9. Now.op = "map" => Now.size > 0
  <2>1. ASSUME Now.op = "map" PROVE Now.size > 0
    <3>1. stage # "reset" /\ Now.size = AllocBytes(Slot.req)
      BY <1>7, <1>8, <2>1 DEF CallFits
    <3>2. Slot.req \in Nat
      BY <1>1 DEF PoolOK, WorkRecord, Slot, PoolSlot
    <3> QED
      BY <3>1, <3>2, HarnessSizes
  <2> QED
    BY <2>1
<1>10. DriverOK'
  BY <1>1, <1>9, CallKeepsDriver
<1>11. stage # "reset" => CallFits'
  BY <1>1, <1>2, <1>5, <1>6, <1>7, ArgumentsKept DEF CallFits
<1>12. CallPlanned'
  BY <1>2, <1>3, <1>5, <1>7, <1>8, <1>11 DEF CallPlanned, Busy
<1> QED
  BY <1>2, <1>4, <1>10, <1>12 DEF ControlInv

(* A call, or the reset, is over, and the thread is idle again.            *)
LEMMA IdleKeeps ==
  ASSUME CallsOK, call' = [call EXCEPT ![Main] = IdleCall]
  PROVE  CallsOK' /\ Now' = IdleCall
<1>1. IdleCall \in CallRecord /\ StageOK(IdleCall)
  BY DriverAssumption
  DEF IdleCall, CallRecord, NoVa, Pc, Op, StageOK, RoutedPc
<1> QED
  BY <1>1, OneThread DEF CallsOK, Now

LEMMA FinishKeeps ==
  ASSUME ControlInv, FinishCall
  PROVE  ControlInv' /\ Now'.pc = "idle" /\ stage # "reset" /\ Now.op = Head(work.plan)
<1> USE OneThread
<1>1. /\ ShimInv /\ PoolOK /\ KindOK /\ StageKept /\ DriverOK /\ CallsOK /\ CallPlanned
      /\ Busy /\ Now.pc = "done" /\ Advance(Now.ok)
      /\ UNCHANGED <<shimVars, driverVars>>
      /\ UNCHANGED <<setup, appended, counted, liveN, seq, cycles, stage>>
      /\ call' = [call EXCEPT ![Main] = IdleCall]
  BY DEF ControlInv, ShimInv, FinishCall, Done, Now, OnlyCall
<1>2. Now \in CallRecord
  BY <1>1 DEF CallsOK, Now
<1>3. CallsOK' /\ Now' = IdleCall
  BY <1>1, IdleKeeps
<1>4. ShimInv' /\ DriverOK'
  BY <1>1, <1>3, ShimSame, DriverKept
<1>5. /\ work' \in WorkRecord /\ work'.slot = work.slot /\ KindOK'
      /\ work.kind # "none" /\ work'.kind # "none" /\ stage # "reset"
  BY <1>1, <1>2, AdvanceKeeps DEF CallRecord
<1>6. work.slot \in PoolIndex /\ pool \in [PoolIndex -> PoolSlot] /\ Slot.req > 0
  BY <1>1, <1>5 DEF PoolOK, WorkRecord
<1>7. /\ pool' \in [PoolIndex -> PoolSlot]
      /\ \A i \in PoolIndex : pool'[i].live = pool[i].live /\ pool'[i].req = pool[i].req
  <2>1. \/ pool' = pool
        \/ pool' = [pool EXCEPT ![work.slot].va = Now.va]
        \/ pool' = [pool EXCEPT ![work.slot].h = Now.h]
    BY DEF FinishCall, Now
  <2>2. Now.va \in Nat /\ Now.h \in Handle
    BY <1>2 DEF CallRecord
  <2> QED
    BY <1>6, <2>1, <2>2 DEF PoolSlot
<1>8. PoolOK'
  <2>1. bench' = bench
    BY <1>1 DEF bench
  <2>2. Slot'.req > 0
    BY <1>5, <1>6, <1>7 DEF Slot
  <2> QED
    BY <1>1, <1>5, <1>7, <2>1, <2>2 DEF PoolOK
<1>9. StageKept'
  BY <1>1 DEF StageKept, bench, Cycling
<1>10. CallPlanned'
  BY <1>1, <1>3, <1>5 DEF CallPlanned, IdleCall
<1>11. Now.op = Head(work.plan)
  BY <1>1, <1>5 DEF CallPlanned
<1> QED
  BY <1>3, <1>4, <1>5, <1>8, <1>9, <1>10, <1>11 DEF ControlInv, IdleCall

LEMMA StockKeeps ==
  ASSUME ControlInv, StockCall
  PROVE  /\ ControlInv' /\ Now.pc = "idle" /\ UNCHANGED <<shimVars, call>>
         /\ ~Shimmed /\ stage # "reset"
<1> USE OneThread
<1>1. /\ ShimInv /\ PoolOK /\ KindOK /\ StageKept /\ DriverOK /\ CallsOK /\ CallPlanned
      /\ Busy /\ ~Shimmed /\ Head(work.plan) # "access"
      /\ UNCHANGED shimVars /\ UNCHANGED call
      /\ UNCHANGED <<setup, appended, counted, liveN, seq, cycles, stage>>
  BY DEF ControlInv, ShimInv, StockCall
<1>2. PICK ok \in BOOLEAN : Advance(ok)
  BY DEF StockCall
<1>3. /\ work' \in WorkRecord /\ work'.slot = work.slot /\ KindOK'
      /\ work.kind # "none" /\ work'.kind # "none" /\ stage # "reset"
  BY <1>1, <1>2, AdvanceKeeps
<1>4. Now.pc = "idle"
  BY <1>1, <1>3, CallRests DEF ControlInv
<1>5. work.slot \in PoolIndex /\ pool \in [PoolIndex -> PoolSlot] /\ Slot.req > 0
      /\ Slot.va \in Nat /\ Slot.h \in Handle /\ Slot.req \in Nat
  BY <1>1, <1>3 DEF PoolOK, WorkRecord, Slot, PoolSlot
<1>6. Head(work.plan) \in {"reserve", "create", "map", "unmap", "release", "free"}
  BY <1>1, PlansTail DEF PoolOK, WorkRecord, Busy
<1>7. /\ ReserveBytes(Slot.req) \in Nat /\ CreateBytes(Slot.req) \in Nat
      /\ AllocBytes(Slot.req) \in Nat \ {0}
  BY <1>5, HarnessSizes
<1>8. /\ DriverOK'
      /\ pool' \in [PoolIndex -> PoolSlot]
      /\ \A i \in PoolIndex : pool'[i].live = pool[i].live /\ pool'[i].req = pool[i].req
  <2>1. CASE UNCHANGED <<driverVars, pool>>
    BY <1>1, <2>1, <1>5, DriverKept
  <2>2. CASE DriverTakes("reserve")
    <3>1. /\ DriverReserve(ReserveBytes(Slot.req))
          /\ pool' = [pool EXCEPT ![work.slot].va = NextRoom(ReserveBytes(Slot.req))]
      BY <2>2 DEF DriverTakes
    <3>2. NextRoom(ReserveBytes(Slot.req)) \in Nat
      BY <1>7, <3>1, RoomIsAddress DEF DriverReserve
    <3> QED
      BY <1>1, <1>5, <1>7, <3>1, <3>2, DriverKept DEF PoolSlot
  <2>3. CASE DriverTakes("create")
    <3>1. PICK h \in FreshHandles : /\ DriverCreate(h, CreateBytes(Slot.req))
                                    /\ pool' = [pool EXCEPT ![work.slot].h = h]
      BY <2>3 DEF DriverTakes
    <3>2. h \in Handle
      BY DEF FreshHandles
    <3> QED
      BY <1>1, <1>5, <1>7, <3>1, <3>2, DriverKept DEF PoolSlot
  <2>4. CASE DriverTakes("map")
    <3>1. DriverMap(Slot.va, AllocBytes(Slot.req), 0, Slot.h) /\ pool' = pool
      BY <2>4 DEF DriverTakes
    <3> QED
      BY <1>1, <1>5, <1>7, <3>1, DriverKept
  <2>5. CASE DriverTakes("unmap") \/ DriverTakes("release") \/ DriverTakes("free")
    <3>1. /\ \/ DriverUnmap(Slot.va, AllocBytes(Slot.req))
             \/ DriverRelease(Slot.h)
             \/ DriverAddressFree(Slot.va, ReserveBytes(Slot.req))
          /\ pool' = pool
      BY <2>5 DEF DriverTakes
    <3> QED
      BY <1>1, <1>5, <1>7, <3>1, DriverKept
  <2> QED
    BY <1>6, <2>1, <2>2, <2>3, <2>4, <2>5 DEF StockCall
<1>9. PoolOK'
  <2>1. bench' = bench
    BY <1>1 DEF bench
  <2>2. Slot'.req > 0
    BY <1>3, <1>5, <1>8 DEF Slot
  <2> QED
    BY <1>1, <1>3, <1>8, <2>1, <2>2 DEF PoolOK
<1>10. StageKept' /\ CallsOK' /\ ShimInv'
  BY <1>1, CallSame, ShimSame DEF StageKept, bench, Cycling
<1>11. CallPlanned'
  BY <1>1, <1>3, <1>4 DEF CallPlanned, Now
<1> QED
  BY <1>1, <1>3, <1>4, <1>8, <1>9, <1>10, <1>11 DEF ControlInv

(* A step of the bench alone, between two calls.                           *)
LEMMA RestKeeps ==
  ASSUME ControlInv, UNCHANGED vars, Now.pc = "idle", stage' # "reset",
         PoolOK', KindOK', StageKept'
  PROVE  ControlInv'
<1>1. UNCHANGED <<shimVars, driverVars, call>>
  BY DEF vars
<1>2. ShimInv' /\ DriverOK'
  BY <1>1, CallSame, ShimSame, DriverKept DEF ControlInv, ShimInv
<1>3. CallPlanned'
  BY <1>1 DEF CallPlanned, Now
<1> QED
  BY <1>2, <1>3 DEF ControlInv

LEMMA AccessKeeps ==
  ASSUME ControlInv, SetAccess
  PROVE  ControlInv' /\ Now.pc = "idle" /\ stage # "reset"
<1>1. /\ PoolOK /\ KindOK /\ StageKept /\ Busy /\ Now.pc = "idle"
      /\ UNCHANGED vars
      /\ UNCHANGED <<setup, pool, appended, counted, liveN, seq, cycles, stage>>
  BY DEF ControlInv, SetAccess, Now, Idle
<1>2. PICK ok \in BOOLEAN : Advance(ok)
  BY DEF SetAccess
<1>3. /\ work' \in WorkRecord /\ work'.slot = work.slot /\ KindOK'
      /\ work.kind # "none" /\ work'.kind # "none" /\ stage # "reset"
  BY <1>1, <1>2, AdvanceKeeps
<1>4. PoolOK' /\ StageKept'
  BY <1>1, <1>3 DEF PoolOK, Slot, bench, StageKept, Cycling
<1> QED
  BY <1>1, <1>3, <1>4, RestKeeps

(* The free and the live slots are slots of the pool.                      *)
LEMMA LiveInPool ==
  ASSUME PoolOK
  PROVE  /\ Live \subseteq PoolIndex /\ PoolIndex \subseteq Nat
         /\ Live # {} => Min(Live) \in Live /\ Max(Live) \in Live
         /\ FreeIndex \in Nat /\ (FreeIndex < PoolSize => FreeIndex \in PoolIndex)
         /\ \A i \in Live : i < appended /\ pool[i].live /\ pool[i].req > 0
<1>1. /\ Live \subseteq PoolIndex /\ PoolIndex \subseteq Nat /\ PoolSize \in Nat \ {0}
      /\ \A i \in Live : i < appended /\ pool[i].live /\ pool[i].req > 0
  BY HarnessAssumption DEF Live, PoolIndex, PoolOK
<1>2. Live # {} => Min(Live) \in Live
  BY <1>1, MinMember
<1>3. Live # {} => Max(Live) \in Live
  <2>1. PoolSize - 1 \in Nat /\ Live \in SUBSET (0 .. PoolSize - 1)
    BY <1>1 DEF PoolIndex
  <2> QED
    BY <2>1, MaxMember
<1>4. FreeIndex \in Nat
  <2> DEFINE gaps == {i \in PoolIndex : i < appended /\ ~pool[i].live}
  <2>1. gaps \subseteq Nat
    BY <1>1
  <2>2. gaps # {} => Min(gaps) \in gaps
    BY <2>1, MinMember
  <2>3. FreeIndex = IF gaps = {} THEN appended ELSE Min(gaps)
    BY DEF FreeIndex
  <2> HIDE DEF gaps
  <2> QED
    BY <2>1, <2>2, <2>3 DEF PoolOK
<1>5. FreeIndex < PoolSize => FreeIndex \in PoolIndex
  BY <1>1, <1>4 DEF PoolIndex
<1> QED
  BY <1>1, <1>2, <1>3, <1>4, <1>5

LEMMA BeginMapKeeps ==
  ASSUME PoolOK, NEW i \in PoolIndex, BeginMap(i), UNCHANGED <<setup, counted>>,
         appended' \in Nat, cycles' \in Nat
  PROVE  /\ PoolOK' /\ work'.kind = "map" /\ work'.slot = i /\ work'.plan = MapPlan
         /\ work'.plan \in MapPlans /\ pool' \in [PoolIndex -> PoolSlot]
         /\ \A j \in PoolIndex \ {i} : pool'[j] = pool[j]
         /\ pool'[i].va = pool[i].va /\ pool'[i].h = NoHandle
         /\ pool'[i].live = pool[i].live /\ pool'[i].req = Sizes[bench][seq + 1]
         /\ seq' \in 0 .. Len(Sizes[bench]) - 1
<1> DEFINE n == Len(Sizes[bench])
           r == Sizes[bench][seq + 1]
<1>1. n \in Nat \ {0} /\ r \in Nat \ {0} /\ seq \in 0 .. n - 1
  <2>1. seq + 1 \in 1 .. Len(Sizes[bench])
    BY SetupFields DEF PoolOK
  <2> QED
    BY <2>1, SetupFields DEF PoolOK
<1>2. /\ pool' = [pool EXCEPT ![i].req = r, ![i].h = NoHandle]
      /\ seq' = (seq + 1) % n
      /\ work' = [kind |-> "map", slot |-> i, plan |-> MapPlan]
  BY DEF BeginMap
<1> HIDE DEF n, r
<1>3. seq' \in 0 .. n - 1
  BY <1>1, <1>2
<1>4. /\ work'.kind = "map" /\ work'.slot = i /\ work'.plan = MapPlan
      /\ work'.plan \in MapPlans /\ work' \in WorkRecord
  BY <1>2 DEF WorkRecord, MapPlan, MapPlans
<1>5. /\ pool' \in [PoolIndex -> PoolSlot]
      /\ \A j \in PoolIndex \ {i} : pool'[j] = pool[j]
      /\ pool'[i].va = pool[i].va /\ pool'[i].h = NoHandle
      /\ pool'[i].live = pool[i].live /\ pool'[i].req = r
  BY <1>1, <1>2, DriverAssumption DEF PoolOK, PoolSlot
<1>6. \A j \in PoolIndex : pool'[j].live => pool'[j].req > 0
  BY <1>1, <1>5 DEF PoolOK
<1>7. PoolOK'
  <2>1. setup' = setup /\ bench' = bench /\ counted' = counted
    BY DEF bench
  <2> QED
    BY <1>1, <1>3, <1>4, <1>5, <1>6, <2>1 DEF PoolOK, Slot, n
<1> QED
  BY <1>3, <1>4, <1>5, <1>7 DEF n, r

LEMMA BeginTeardownKeeps ==
  ASSUME PoolOK, NEW i \in Live, BeginTeardown(i), UNCHANGED <<setup, counted, appended>>,
         cycles' \in Nat
  PROVE  /\ PoolOK' /\ work'.kind = "teardown" /\ work'.slot = i
         /\ work'.plan = TeardownPlan /\ work'.plan \in BackPlans
         /\ UNCHANGED <<pool, seq>>
<1>1. /\ work' = [kind |-> "teardown", slot |-> i, plan |-> TeardownPlan]
      /\ UNCHANGED <<pool, seq>>
  BY DEF BeginTeardown
<1>2. i \in PoolIndex /\ pool[i].req > 0
  BY LiveInPool
<1>3. TeardownPlan \in BackPlans
  BY DEF TeardownPlan, BackPlans
<1>4. /\ work'.kind = "teardown" /\ work'.slot = i
      /\ work'.plan = TeardownPlan /\ work' \in WorkRecord
  BY <1>1, <1>2, <1>3 DEF WorkRecord
<1>5. setup' = setup /\ bench' = bench /\ counted' = counted /\ appended' = appended
  BY DEF bench
<1>6. PoolOK'
  BY <1>1, <1>2, <1>4, <1>5 DEF PoolOK, Slot
<1> QED
  BY <1>1, <1>3, <1>4, <1>6

LEMMA DoneKeeps ==
  ASSUME ControlInv, WorkDone
  PROVE  ControlInv' /\ Now.pc = "idle" /\ UNCHANGED vars /\ stage # "reset"
<1>1. /\ PoolOK /\ KindOK /\ StageKept /\ Now.pc = "idle" /\ UNCHANGED vars
      /\ work.kind # "none" /\ work' = NoWork /\ UNCHANGED <<setup, seq, cycles>>
  BY DEF ControlInv, WorkDone, Now, Idle
<1>2. /\ work \in WorkRecord /\ work.slot \in PoolIndex /\ pool \in [PoolIndex -> PoolSlot]
      /\ work.kind \in {"map", "cycle", "undo", "teardown"} /\ Slot.req > 0
  BY <1>1 DEF PoolOK, WorkRecord
<1>3. BlankSlot \in PoolSlot /\ ~BlankSlot.live
  BY DriverAssumption DEF BlankSlot, PoolSlot, NoVa
<1>4. NoWork \in WorkRecord /\ NoWork.kind = "none" /\ NoWork.plan = << >>
  BY HarnessAssumption DEF NoWork, WorkRecord, PoolIndex, MapPlans
<1>5. /\ pool' \in [PoolIndex -> PoolSlot]
      /\ \A i \in PoolIndex : pool'[i].live => pool'[i].req > 0
  <2>1. \/ pool' = [pool EXCEPT ![work.slot].live = TRUE]
        \/ pool' = pool
        \/ pool' = [pool EXCEPT ![work.slot] = BlankSlot]
    BY <1>2 DEF WorkDone
  <2>2. \A i \in PoolIndex : pool[i].live => pool[i].req > 0
    BY <1>1 DEF PoolOK
  <2>3. CASE pool' = [pool EXCEPT ![work.slot].live = TRUE]
    BY <1>2, <2>2, <2>3 DEF PoolSlot, Slot
  <2>4. CASE pool' = pool
    BY <1>2, <2>2, <2>4
  <2>5. CASE pool' = [pool EXCEPT ![work.slot] = BlankSlot]
    BY <1>2, <1>3, <2>2, <2>5
  <2> QED
    BY <2>1, <2>3, <2>4, <2>5
<1>6. appended' \in Nat /\ counted' \in Nat /\ cycles' \in Nat
  BY <1>1 DEF WorkDone, PoolOK
<1>7. setup' = setup /\ bench' = bench /\ Cycling' = Cycling
  BY <1>1 DEF bench, Cycling
<1>8. PoolOK' /\ KindOK'
  BY <1>1, <1>4, <1>5, <1>6, <1>7 DEF PoolOK, KindOK
<1>9. StageKept' /\ stage' # "reset" /\ stage # "reset"
  <2>1. stage # "reset" /\ (work.kind = "cycle" => Cycling)
        /\ (work.kind = "undo" => stage \in {"resident", "churn", "probe"})
    BY <1>1, <1>2 DEF KindOK
  <2>2. CASE work.kind = "undo"
    <3>1. stage' = AfterFailure
      BY <2>2 DEF WorkDone
    <3>2. setup \in Setups /\ bench \in Benches
      BY <1>1, SetupFields DEF PoolOK
    <3>3. CASE Retries \/ stage = "churn"
      BY <1>1, <1>7, <2>1, <3>1, <3>3 DEF AfterFailure, StageKept, Retries
    <3>4. CASE ~Retries /\ stage = "probe"
      BY <1>1, <1>7, <3>1, <3>4 DEF AfterFailure, StageKept, Retries, Stages
    <3>5. CASE ~Retries /\ stage = "resident"
      BY <1>1, <1>7, <3>1, <3>5 DEF AfterFailure, StageKept, Retries, Stages, Cycling
    <3> QED
      BY <2>1, <2>2, <3>3, <3>4, <3>5
  <2>3. CASE work.kind # "undo"
    <3>1. stage' = stage \/ stage' = "end"
      BY <2>3 DEF WorkDone
    <3> QED
      BY <1>1, <1>7, <2>1, <3>1 DEF StageKept, Stages
  <2> QED
    BY <2>2, <2>3
<1> QED
  BY <1>1, <1>8, <1>9, RestKeeps

(* A bench that begins the calls for a slot.                               *)
MapsSlot(i) ==
  /\ BeginMap(i) /\ Free /\ UNCHANGED <<setup, vars, counted, liveN, stage>>
  /\ stage \in {"resident", "churn"} /\ ~Cycling

TearsDown(i) ==
  /\ BeginTeardown(i) /\ Free /\ UNCHANGED <<setup, vars, counted, appended, stage>>
  /\ stage \in {"churn", "sweep", "teardown"} /\ ~Cycling

LEMMA FreeRests ==
  ASSUME ControlInv, Free
  PROVE  /\ work.plan = << >> /\ (stage # "reset" => Now.pc = "idle")
         /\ PoolOK /\ KindOK /\ StageKept /\ DriverOK /\ ShimInv /\ CallsOK /\ CallPlanned
  BY CallRests DEF ControlInv, KindOK, Free, ShimInv

LEMMA BeginKeeps ==
  ASSUME ControlInv, appended' \in Nat, cycles' \in Nat,
         \/ \E i \in PoolIndex : MapsSlot(i)
         \/ \E i \in Live : TearsDown(i)
  PROVE  ControlInv'
<1>1. CASE \E i \in PoolIndex : MapsSlot(i)
  <2>1. PICK i \in PoolIndex : MapsSlot(i)
    BY <1>1
  <2>2. PoolOK' /\ work'.kind = "map" /\ work'.plan \in MapPlans /\ StageKept
        /\ Now.pc = "idle" /\ UNCHANGED vars /\ UNCHANGED <<setup, stage>>
        /\ stage \in {"resident", "churn"} /\ ~Cycling
    BY <2>1, BeginMapKeeps, FreeRests DEF MapsSlot
  <2>3. KindOK' /\ StageKept'
    BY <2>2 DEF KindOK, StageKept, bench, Cycling
  <2> QED
    BY <2>2, <2>3, RestKeeps
<1>2. CASE \E i \in Live : TearsDown(i)
  <2>1. PICK i \in Live : TearsDown(i)
    BY <1>2
  <2>2. PoolOK' /\ work'.kind = "teardown" /\ work'.plan \in BackPlans /\ StageKept
        /\ Now.pc = "idle" /\ UNCHANGED vars /\ UNCHANGED <<setup, stage>>
        /\ stage \in {"churn", "sweep", "teardown"} /\ ~Cycling
    BY <2>1, BeginTeardownKeeps, FreeRests DEF TearsDown
  <2>3. KindOK' /\ StageKept'
    BY <2>2 DEF KindOK, StageKept, bench, Cycling
  <2> QED
    BY <2>2, <2>3, RestKeeps
<1> QED
  BY <1>1, <1>2

LEMMA BenchMaps ==
  ASSUME ControlInv, ChurnMap \/ AppendSlot \/ RetrySlot
  PROVE  \E i \in PoolIndex : MapsSlot(i) /\ appended' \in Nat /\ cycles' \in Nat
<1>1. /\ Free /\ PoolOK /\ StageKept /\ appended \in Nat /\ cycles \in Nat
      /\ stage # "reset"
  BY FreeRests DEF ChurnMap, AppendSlot, RetrySlot, Churning, PoolOK
<1>2. CASE ChurnMap
  <2>1. FreeIndex \in PoolIndex
    BY <1>1, <1>2, LiveInPool DEF ChurnMap
  <2>2. MapsSlot(FreeIndex)
    BY <1>1, <1>2 DEF ChurnMap, Churning, MapsSlot, StageKept, Cycling
  <2> QED
    BY <1>1, <1>2, <2>1, <2>2 DEF ChurnMap
<1>3. CASE AppendSlot
  <2>1. appended \in PoolIndex
    BY <1>1, <1>3, HarnessAssumption DEF AppendSlot, PoolIndex
  <2>2. MapsSlot(appended)
    BY <1>1, <1>3 DEF AppendSlot, MapsSlot
  <2> QED
    BY <1>1, <1>3, <2>1, <2>2 DEF AppendSlot
<1>4. CASE RetrySlot
  <2>1. FreeIndex \in PoolIndex /\ FreeIndex \in Nat
    BY <1>1, <1>4, LiveInPool DEF RetrySlot
  <2>2. MapsSlot(FreeIndex)
    BY <1>1, <1>4 DEF RetrySlot, MapsSlot, Cycling, Retries
  <2>3. appended' \in Nat
    <3> DEFINE top == IF appended >= FreeIndex + 1 THEN appended ELSE FreeIndex + 1
    <3>1. top \in {appended, FreeIndex + 1} /\ \A y \in {appended, FreeIndex + 1} : top >= y
      BY <1>1, <2>1
    <3>2. Max({appended, FreeIndex + 1}) \in {appended, FreeIndex + 1}
      <4> HIDE DEF top
      <4> QED
        BY <3>1, Zenon DEF Max
    <3> QED
      BY <1>1, <1>4, <2>1, <3>2 DEF RetrySlot
  <2> QED
    BY <1>1, <1>4, <2>1, <2>2, <2>3 DEF RetrySlot
<1> QED
  BY <1>2, <1>3, <1>4

LEMMA BenchTearsDown ==
  ASSUME ControlInv, \/ ChurnFree /\ Middle # {}
                     \/ SweepOrReset /\ Live # {}
                     \/ TeardownNext
  PROVE  \E i \in Live : TearsDown(i) /\ appended' \in Nat /\ cycles' \in Nat
<1>1. /\ Free /\ PoolOK /\ StageKept /\ appended \in Nat /\ cycles \in Nat
      /\ Live # {} => Min(Live) \in Live /\ Max(Live) \in Live
  BY FreeRests, LiveInPool
  DEF ChurnFree, SweepOrReset, TeardownNext, Churning, PoolOK
<1>2. CASE ChurnFree /\ Middle # {}
  <2>1. PICK i \in Middle : BeginTeardown(i)
    BY <1>2 DEF ChurnFree
  <2>2. i \in Live
    BY DEF Middle
  <2>3. TearsDown(i)
    BY <1>1, <1>2, <2>1 DEF ChurnFree, Churning, TearsDown, StageKept, Cycling
  <2> QED
    BY <1>1, <1>2, <2>2, <2>3 DEF ChurnFree
<1>3. CASE SweepOrReset /\ Live # {}
  <2>1. TearsDown(Min(Live))
    BY <1>1, <1>3 DEF SweepOrReset, TearsDown, StageKept, Cycling
  <2> QED
    BY <1>1, <1>3, <2>1 DEF SweepOrReset
<1>4. CASE TeardownNext
  <2>1. \E i \in {Min(Live), Max(Live)} : TearsDown(i)
    BY <1>1, <1>4 DEF TeardownNext, TearsDown, StageKept, Cycling
  <2> QED
    BY <1>1, <1>4, <2>1 DEF TeardownNext
<1> QED
  BY <1>2, <1>3, <1>4

(* The bench goes on to another stage, or counts.                          *)
BenchMovesOn ==
  \/ ChurnFree /\ Middle = {}
  \/ ChurnEnd \/ CountHead \/ FillEnd \/ CyclesEnd

LEMMA MovesOnKeeps ==
  ASSUME ControlInv, BenchMovesOn
  PROVE  ControlInv' /\ Now.pc = "idle" /\ UNCHANGED <<setup, vars, pool, appended, work>>
<1>1. /\ Free /\ stage # "reset" /\ UNCHANGED <<setup, vars, pool, appended, seq, work>>
      /\ \/ UNCHANGED stage
         \/ stage = "churn" /\ stage' = "sweep"
         \/ ~Cycling /\ stage' = "teardown"
         \/ bench = "alloc" /\ stage' \in {"probe", "end"}
      /\ counted' \in {counted, counted + 1} /\ cycles' \in {cycles, cycles + 1}
  BY DEF BenchMovesOn, ChurnFree, Churning, ChurnEnd, CountHead, FillEnd, CyclesEnd
<1>2. /\ work.kind = "none" /\ work.plan = << >> /\ Now.pc = "idle"
      /\ PoolOK /\ KindOK /\ StageKept
  BY <1>1, FreeRests DEF Free
<1>3. PoolOK'
  BY <1>1, <1>2 DEF PoolOK, Slot, bench
<1>4. KindOK' /\ StageKept' /\ stage' # "reset"
  BY <1>1, <1>2 DEF KindOK, StageKept, Stages, bench, Cycling
<1> QED
  BY <1>1, <1>2, <1>3, <1>4, RestKeeps

LEMMA CycleKeeps ==
  ASSUME ControlInv, BeginCycle
  PROVE  ControlInv' /\ Now.pc = "idle" /\ UNCHANGED vars
<1>1. /\ Free /\ stage \in {"resident", "probe"} /\ Cycling
      /\ pool' = [pool EXCEPT ![0] = [BlankSlot EXCEPT !.req = Sizes[bench][1]]]
      /\ work' = [kind |-> "cycle", slot |-> 0, plan |-> CyclePlan]
      /\ UNCHANGED <<setup, vars, appended, counted, liveN, seq, stage>>
      /\ cycles' \in {cycles, cycles + 1}
  BY DEF BeginCycle
<1>2. Now.pc = "idle" /\ PoolOK /\ KindOK /\ StageKept
  BY <1>1, FreeRests
<1>3. 0 \in PoolIndex /\ Sizes[bench][1] \in Nat \ {0}
  BY <1>2, HarnessAssumption, SetupFields DEF PoolIndex, PoolOK
<1>4. [BlankSlot EXCEPT !.req = Sizes[bench][1]] \in PoolSlot
  BY <1>3, DriverAssumption DEF BlankSlot, PoolSlot, NoVa
<1>5. /\ pool' \in [PoolIndex -> PoolSlot] /\ pool'[0].req > 0
      /\ \A i \in PoolIndex : pool'[i].live => pool'[i].req > 0
  <2>1. pool' \in [PoolIndex -> PoolSlot] /\ \A i \in PoolIndex \ {0} : pool'[i] = pool[i]
    BY <1>1, <1>2, <1>3, <1>4 DEF PoolOK
  <2>2. pool'[0].req > 0
    BY <1>1, <1>2, <1>3 DEF PoolOK, BlankSlot
  <2> QED
    BY <1>2, <2>1, <2>2 DEF PoolOK
<1>6. /\ work' \in WorkRecord /\ work'.slot = 0 /\ work'.kind = "cycle"
      /\ work'.plan \in CyclePlans
  BY <1>1, <1>3 DEF WorkRecord, CyclePlan, CyclePlans
<1>7. PoolOK'
  <2>1. bench' = bench
    BY <1>1 DEF bench
  <2> QED
    BY <1>1, <1>2, <1>5, <1>6, <2>1 DEF PoolOK, Slot
<1>8. KindOK' /\ StageKept'
  BY <1>1, <1>2, <1>6 DEF KindOK, StageKept, bench, Cycling
<1> QED
  BY <1>1, <1>2, <1>7, <1>8, RestKeeps

LEMMA FiniKeeps ==
  ASSUME ControlInv, Fini
  PROVE  ControlInv' /\ Now.pc = "idle" /\ UNCHANGED <<shimVars, call>>
<1>1. /\ Free /\ stage = "teardown" /\ UNCHANGED shimVars /\ UNCHANGED call
      /\ UNCHANGED driverVars \/ DriverContextDestroy
      /\ UNCHANGED <<setup, pool, appended, counted, seq, cycles, work>> /\ stage' = "end"
  BY DEF Fini
<1>2. /\ Now.pc = "idle" /\ PoolOK /\ KindOK /\ StageKept /\ DriverOK /\ ShimInv /\ CallsOK
      /\ work.kind = "none" /\ work.plan = << >>
  BY <1>1, FreeRests DEF Free
<1>3. ShimInv' /\ DriverOK' /\ CallPlanned'
  BY <1>1, <1>2, CallSame, ShimSame, DriverKept DEF CallPlanned, Now
<1>4. PoolOK' /\ KindOK' /\ StageKept'
  BY <1>1, <1>2 DEF PoolOK, Slot, KindOK, StageKept, Stages, bench, Cycling
<1> QED
  BY <1>2, <1>1, <1>3, <1>4 DEF ControlInv

LEMMA BeginResetKeeps ==
  ASSUME ControlInv, SweepOrReset, Live = {}
  PROVE  /\ ControlInv' /\ UNCHANGED <<shimVars, driverVars>> /\ Now.pc = "idle"
         /\ stage = "sweep" /\ stage' = "reset"
         /\ Now'.pc = IF Shimmed THEN "rst_flush" ELSE "done"
         /\ UNCHANGED <<setup, pool, appended, work>>
<1> USE OneThread
<1>1. /\ Free /\ stage = "sweep" /\ stage' = "reset" /\ UNCHANGED <<shimVars, driverVars>>
      /\ Enter(Main, "reset", IF Shimmed THEN "rst_flush" ELSE "done", NoVa, 0, NoHandle)
      /\ UNCHANGED <<setup, pool, appended, counted, seq, cycles, work>>
  BY DEF SweepOrReset, OnlyCall
<1>2. /\ Now.pc = "idle" /\ PoolOK /\ KindOK /\ StageKept /\ DriverOK /\ ShimInv /\ CallsOK
      /\ work.kind = "none" /\ work.plan = << >>
  BY <1>1, FreeRests DEF Free
<1> DEFINE pc == IF Shimmed THEN "rst_flush" ELSE "done"
<1>3. pc \in {"rst_flush", "done"} /\ (~Shimmed => pc = "done")
  OBVIOUS
<1>4. Enter(Main, "reset", pc, NoVa, 0, NoHandle)
  BY <1>1
<1> HIDE DEF pc
<1>5. "reset" \in Op /\ pc \in Pc /\ pc \in {"done"} \union ResetPc /\ pc \notin RoutedPc
      /\ pc \notin {"idle", "rsv_register", "rsv_window"}
  BY <1>3 DEF Op, Pc, ResetPc, RoutedPc
<1>6. NoVa \in Nat /\ NoHandle \in Handle
  BY DriverAssumption DEF NoVa
<1>7. call' \in [Thread -> CallRecord] /\ Now'.op = "reset" /\ Now'.pc = pc
  <2>1. ASSUME NEW op \in Op, NEW p \in Pc, NEW n \in Nat, NEW va \in Nat, NEW h \in Handle,
               Enter(Main, op, p, va, n, h)
        PROVE  call' \in [Thread -> CallRecord] /\ Now'.op = op /\ Now'.pc = p
    <3>0. CallsOK
      BY <1>2
    <3>1. call' \in [Thread -> CallRecord] /\ call'[Main].op = op /\ call'[Main].pc = p
      BY <3>0, <2>1, EnterMove, ZenonT(40)
    <3> QED
      BY <3>1 DEF Now
  <2>2. 0 \in Nat
    OBVIOUS
  <2> QED
    BY <1>4, <1>5, <1>6, <2>1, <2>2, Zenon
<1>8. CallsOK'
  <2>1. StageOK(Now')
    BY <1>5, <1>7 DEF StageOK
  <2> QED
    BY <1>7, <2>1 DEF CallsOK, Now
<1>9. ShimInv' /\ DriverOK'
  BY <1>1, <1>2, <1>8, ShimSame, DriverKept
<1>10. PoolOK' /\ KindOK' /\ StageKept'
  BY <1>1, <1>2 DEF PoolOK, Slot, KindOK, StageKept, Stages, bench, Cycling
<1>11. CallPlanned'
  <2>1. Shimmed' = Shimmed
    BY <1>1 DEF Shimmed
  <2> QED
    BY <1>1, <1>3, <1>5, <1>7, <2>1 DEF CallPlanned
<1> QED
  BY <1>1, <1>2, <1>7, <1>9, <1>10, <1>11 DEF ControlInv, pc

LEMMA NewContextKeeps ==
  ASSUME ControlInv, NewContext
  PROVE  /\ ControlInv' /\ UNCHANGED shimVars /\ Now.pc = "done" /\ stage = "reset"
         /\ stage' \in {"resident", "end"} /\ appended' = 0 /\ Now'.pc = "idle"
         /\ UNCHANGED <<setup, work>> /\ bench = "frag"
<1> USE OneThread
<1>1. /\ stage = "reset" /\ Now.pc = "done" /\ DriverContextDestroy
      /\ call' = [call EXCEPT ![Main] = IdleCall]
      /\ pool' = [i \in PoolIndex |-> IF i < appended THEN BlankSlot ELSE pool[i]]
      /\ appended' = 0 /\ stage' \in {"resident", "end"}
      /\ UNCHANGED <<setup, shimVars, counted, seq, cycles, work>>
  BY DEF NewContext, Done, Now
<1>2. /\ PoolOK /\ KindOK /\ StageKept /\ DriverOK /\ ShimInv /\ CallsOK
  BY DEF ControlInv, ShimInv
<1>3. work \in WorkRecord /\ work.kind = "none" /\ work.plan = << >> /\ bench = "frag"
  <2>1. work \in WorkRecord /\ bench = "frag"
    BY <1>1, <1>2 DEF PoolOK, StageKept
  <2>2. work.kind \in {"none", "map", "cycle", "undo", "teardown"}
    BY <2>1 DEF WorkRecord
  <2> QED
    BY <1>1, <1>2, <2>1, <2>2 DEF KindOK
<1>4. CallsOK' /\ Now' = IdleCall
  BY <1>1, <1>2, IdleKeeps
<1>5. ShimInv' /\ DriverOK'
  BY <1>1, <1>2, <1>4, ShimSame, DriverKept
<1>6. BlankSlot \in PoolSlot /\ ~BlankSlot.live
  BY DriverAssumption DEF BlankSlot, PoolSlot, NoVa
<1>7. PoolOK'
  <2>1. /\ pool' \in [PoolIndex -> PoolSlot]
        /\ \A i \in PoolIndex : pool'[i].live => pool'[i].req > 0
    BY <1>1, <1>2, <1>6 DEF PoolOK
  <2>2. bench' = bench /\ counted' = counted
    BY <1>1 DEF bench
  <2> QED
    BY <1>1, <1>2, <1>3, <2>1, <2>2 DEF PoolOK
<1>8. KindOK' /\ StageKept' /\ CallPlanned'
  BY <1>1, <1>2, <1>3, <1>4
  DEF KindOK, StageKept, Stages, CallPlanned, IdleCall, bench, Cycling
<1> QED
  BY <1>1, <1>3, <1>4, <1>5, <1>7, <1>8 DEF ControlInv, IdleCall

(* The control invariant holds whatever the bench does.                    *)
LEMMA ControlStep == ControlInv /\ [HarnessNext]_harnessVars => ControlInv'
<1> SUFFICES ASSUME ControlInv, [HarnessNext]_harnessVars PROVE ControlInv'
  OBVIOUS
<1>1. CASE StartCall \/ InCall \/ FinishCall \/ StockCall \/ SetAccess \/ WorkDone \/ InReset
  BY <1>1, StartKeeps, InCallKeeps, FinishKeeps, StockKeeps, AccessKeeps, DoneKeeps
  DEF InCall, InReset
<1>2. CASE \/ ChurnMap \/ AppendSlot \/ RetrySlot
           \/ ChurnFree /\ Middle # {}
           \/ SweepOrReset /\ Live # {}
           \/ TeardownNext
  BY <1>2, BenchMaps, BenchTearsDown, BeginKeeps
<1>3. CASE BenchMovesOn \/ BeginCycle \/ Fini \/ NewContext \/ (SweepOrReset /\ Live = {})
  BY <1>3, MovesOnKeeps, CycleKeeps, FiniKeeps, NewContextKeeps, BeginResetKeeps
<1>4. CASE UNCHANGED harnessVars
  <2>1. UNCHANGED vars /\ UNCHANGED benchVars /\ UNCHANGED <<shimVars, driverVars, call>>
    BY <1>4 DEF harnessVars, vars
  <2>2. ShimInv' /\ DriverOK' /\ PoolOK' /\ KindOK' /\ StageKept'
    BY <2>1, CallSame, ShimSame, DriverKept, BenchSame DEF ControlInv, ShimInv
  <2>3. CallPlanned'
    BY <2>1 DEF ControlInv, benchVars, CallPlanned, CallFits, Slot, Shimmed, Now, Logical,
       ReserveBytes, CreateBytes, bench, Busy
  <2> QED
    BY <2>2, <2>3 DEF ControlInv
<1>5. HarnessNext \/ UNCHANGED harnessVars
  OBVIOUS
<1>6. CASE HarnessNext
  <2>1. CASE SweepOrReset
    BY <1>2, <1>3, <2>1
  <2>2. CASE ChurnFree \/ ChurnEnd \/ CountHead \/ FillEnd \/ CyclesEnd
    BY <1>2, <1>3, <2>2 DEF BenchMovesOn
  <2>3. CASE Finished
    BY <1>4, <2>3 DEF Finished
  <2> QED
    BY <1>1, <1>2, <1>3, <1>6, <2>1, <2>2, <2>3 DEF HarnessNext
<1> QED
  BY <1>4, <1>5, <1>6

LEMMA ControlInvariant == HarnessSpec => []ControlInv
  BY ControlStarts, ControlStep, PTL DEF HarnessSpec

-----------------------------------------------------------------------------
(* The reset between the churn and the resident loop.                      *)

PackBlank == arena = NoArena /\ mega = NoMega /\ bandSeq = 0
CountersBlank == committed = 0 /\ peak = 0 /\ handleRefs = 0
TableBlank == Used = {} /\ pending = -1 /\ activeCount = 0 /\ legacyVa = NoVa

(* The shim as it was loaded.                                              *)
Pristine == PackBlank /\ CountersBlank /\ buckets = << >> /\ TableBlank

(* What each of the four helpers of the reset has forgotten.               *)
Forgetting ==
  /\ Now.pc \in {"rst_pack", "rst_gqa", "rst_slots", "done"} => PackBlank
  /\ Now.pc \in {"rst_gqa", "rst_slots", "done"} => CountersBlank
  /\ Now.pc \in {"rst_slots", "done"} => buckets = << >>
  /\ Now.pc = "done" => TableBlank

ForgetInv ==
  /\ ControlInv
  /\ ~Shimmed => Pristine
  /\ stage = "reset" => Forgetting
  /\ stage = "resident" /\ ~Cycling /\ Free /\ appended = 0 => Pristine
  /\ stage = "resident" /\ Retries /\ ~Free => appended > 0

LEMMA PristineKept ==
  ASSUME UNCHANGED shimVars
  PROVE  /\ PackBlank' = PackBlank /\ CountersBlank' = CountersBlank
         /\ TableBlank' = TableBlank /\ Pristine' = Pristine /\ buckets' = buckets
<1>1. /\ UNCHANGED <<slots, pending, activeCount, legacyVa, arena, mega, bandSeq>>
      /\ UNCHANGED <<committed, peak, handleRefs, buckets>>
  BY DEF shimVars, slotVars, packVars
<1>2. Used' = Used
  BY <1>1 DEF Used
<1> QED
  BY <1>1, <1>2 DEF PackBlank, CountersBlank, TableBlank, Pristine

LEMMA PristineStart == BenchInit => Pristine
<1> SUFFICES ASSUME BenchInit PROVE Pristine
  OBVIOUS
<1>1. SlotInit /\ PackInit /\ GqaInit
  BY DEF BenchInit, ShimInit
<1>2. Used = {}
  BY <1>1 DEF SlotInit, Used, EmptySlot
<1> QED
  BY <1>1, <1>2 DEF SlotInit, PackInit, GqaInit, Pristine, PackBlank, CountersBlank, TableBlank

LEMMA ForgetStarts == BenchInit => ForgetInv
<1> SUFFICES ASSUME BenchInit PROVE ForgetInv
  OBVIOUS
<1>1. ControlInv /\ Pristine
  BY ControlStarts, PristineStart
<1>2. stage # "reset" /\ Free
  BY DEF BenchInit, Free, NoWork
<1> QED
  BY <1>1, <1>2 DEF ForgetInv

(* Each helper of the reset forgets its part.                              *)
LEMMA ResetForgetsParts ==
  ASSUME ControlInv, InReset, Forgetting
  PROVE  Forgetting'
<1> USE OneThread
<1>1. CallsOK /\ Now \in CallRecord /\ ShimStep(Main) /\ Now.op = "reset"
  BY DEF ControlInv, ShimInv, CallsOK, InReset, CallPlanned, Now
<1>2. ResetStep(Main)
  BY <1>1, StepOfOp DEF Now
<1>3. \A q : Goto(Main, q) => Now'.pc = q
  BY <1>1 DEF Goto, Now, CallRecord, CallsOK
<1>4. Return(Main, TRUE) => Now'.pc = "done"
  BY <1>1 DEF Return, Now, CallRecord, CallsOK
<1>5. CASE RstFlush(Main)
  <2>1. Now'.pc = "rst_pack" /\ PackBlank'
    BY <1>3, <1>5 DEF RstFlush, PackFlush, PackBlank
  <2> QED
    BY <2>1 DEF Forgetting
<1>6. CASE RstPack(Main)
  <2>1. Now'.pc = "rst_gqa" /\ CountersBlank' /\ Now.pc = "rst_pack"
    BY <1>3, <1>6 DEF RstPack, PackReset, CountersBlank, At, Now
  <2>2. PackBlank'
    BY <1>6, <2>1 DEF RstPack, PackReset, PackBlank, Forgetting
  <2> QED
    BY <2>1, <2>2 DEF Forgetting
<1>7. CASE RstGqa(Main)
  <2>1. Now'.pc = "rst_slots" /\ buckets' = << >> /\ Now.pc = "rst_gqa"
    BY <1>3, <1>7 DEF RstGqa, GqaReset, At, Now
  <2>2. PackBlank' /\ CountersBlank'
    BY <1>7, <2>1 DEF RstGqa, OnlyBuckets, packVars, PackBlank, CountersBlank, Forgetting
  <2> QED
    BY <2>1, <2>2 DEF Forgetting
<1>8. CASE RstSlots(Main)
  <2>1. Now'.pc = "done" /\ Now.pc = "rst_slots"
    BY <1>4, <1>8 DEF RstSlots, At, Now
  <2>2. TableBlank'
    <3>1. Used' = {}
      BY <1>8 DEF RstSlots, ReservationClear, Used, EmptySlot
    <3> QED
      BY <1>8, <3>1 DEF RstSlots, ReservationClear, TableBlank
  <2>3. PackBlank' /\ CountersBlank' /\ buckets' = << >>
    BY <1>8, <2>1 DEF RstSlots, OnlySlots, packVars, PackBlank, CountersBlank, Forgetting
  <2> QED
    BY <2>1, <2>2, <2>3 DEF Forgetting
<1> QED
  BY <1>2, <1>5, <1>6, <1>7, <1>8 DEF ResetStep

LEMMA ForgetKept == ForgetInv /\ [HarnessNext]_harnessVars => ForgetInv'
<1> SUFFICES ASSUME ForgetInv, [HarnessNext]_harnessVars PROVE ForgetInv'
  OBVIOUS
<1> USE OneThread
<1>1. ControlInv /\ ControlInv'
  BY ControlStep DEF ForgetInv
<1>2. PoolOK /\ KindOK /\ StageKept /\ CallPlanned /\ PoolOK' /\ KindOK'
  BY <1>1 DEF ControlInv
<1>3. /\ ~Shimmed => Pristine
      /\ stage = "reset" => Forgetting
      /\ stage = "resident" /\ ~Cycling /\ Free /\ appended = 0 => Pristine
      /\ stage = "resident" /\ Retries /\ ~Free => appended > 0
  BY DEF ForgetInv
<1>4. /\ work.kind \in {"none", "map", "cycle", "undo", "teardown"} /\ appended \in Nat
      /\ bench \in Benches /\ setup.path \in {"shim", "stock"}
  BY <1>2, SetupFields DEF PoolOK, WorkRecord
<1>5. setup' = setup => Shimmed' = Shimmed /\ Cycling' = Cycling /\ Retries' = Retries
                        /\ bench' = bench
  BY DEF Shimmed, Cycling, Retries, bench
<1>6. UNCHANGED <<setup, stage>> /\ UNCHANGED shimVars /\ (~Free /\ ~Free' /\ appended' = appended)
      /\ stage # "reset" => ForgetInv'
  BY <1>1, <1>3, <1>5, PristineKept DEF ForgetInv
<1>7. CASE StartCall \/ FinishCall \/ StockCall \/ SetAccess
  <2>1. UNCHANGED <<setup, stage, appended>> /\ UNCHANGED shimVars /\ stage # "reset" /\ Busy
    BY <1>1, <1>2, <1>7, StartKeeps, FinishKeeps, StockKeeps, AccessKeeps, CallRests
    DEF StartCall, FinishCall, StockCall, SetAccess, benchVars, OnlyCall, vars, CallPlanned, Idle, Now
  <2>2. ~Free /\ ~Free'
    <3>1. ~Free
      BY <1>2, <2>1 DEF Free, KindOK, Busy
    <3>2. CASE StartCall
      BY <3>1, <3>2 DEF StartCall, benchVars, Free
    <3>3. CASE FinishCall \/ StockCall \/ SetAccess
      <4>1. \E ok \in BOOLEAN : Advance(ok)
        <5>1. Now.ok \in BOOLEAN
          BY <1>1 DEF ControlInv, ShimInv, CallsOK, CallRecord, Now
        <5> QED
          BY <3>3, <5>1 DEF FinishCall, StockCall, SetAccess, Now
      <4>2. work'.kind # "none"
        BY <1>2, <2>1, <4>1, AdvanceKeeps
      <4> QED
        BY <3>1, <4>2 DEF Free
    <3> QED
      BY <1>7, <3>1, <3>2, <3>3
  <2> QED
    BY <1>6, <2>1, <2>2
<1>8. CASE InCall
  <2>1. /\ UNCHANGED <<setup, stage, appended, work>> /\ Busy /\ Shimmed /\ stage # "reset"
    <3>1. UNCHANGED <<setup, stage, appended, work>> /\ Busy /\ ShimStep(Main)
      BY <1>8 DEF InCall, benchVars
    <3>2. Now.pc \notin {"idle", "done"}
      BY <1>1, <3>1, ShimStepKeeps DEF ControlInv, Now
    <3>3. stage # "reset"
      BY <1>2, <1>4, <3>1 DEF KindOK, Busy
    <3> QED
      BY <1>2, <3>1, <3>2, <3>3 DEF CallPlanned
  <2>2. ~Free /\ ~Free'
    BY <1>2, <2>1 DEF Free, KindOK, Busy
  <2> QED
    BY <1>1, <1>3, <1>5, <2>1, <2>2 DEF ForgetInv
<1>9. CASE InReset
  <2>1. UNCHANGED <<setup, stage>> /\ stage = "reset" /\ ShimStep(Main)
    BY <1>9 DEF InReset, benchVars
  <2>2. Shimmed
    <3>1. Now.pc # "done"
      BY <1>1, <2>1, ShimStepKeeps DEF ControlInv, Now
    <3> QED
      BY <1>2, <2>1, <3>1 DEF CallPlanned
  <2> QED
    BY <1>1, <1>3, <1>5, <1>9, <2>1, <2>2, ResetForgetsParts DEF ForgetInv
<1>10. CASE NewContext
  <2>1. /\ UNCHANGED shimVars /\ Now.pc = "done" /\ stage = "reset" /\ UNCHANGED <<setup, work>>
        /\ stage' # "reset" /\ bench = "frag"
    BY <1>1, <1>10, NewContextKeeps
  <2>2. Pristine
    BY <1>3, <2>1 DEF Forgetting, Pristine
  <2> QED
    BY <1>1, <1>5, <2>1, <2>2, PristineKept DEF ForgetInv, Retries
<1>11. CASE WorkDone
  <2>1. /\ UNCHANGED vars /\ stage # "reset" /\ setup' = setup /\ work.kind # "none"
        /\ work' = NoWork /\ Free'
    BY <1>1, <1>11, DoneKeeps DEF WorkDone, Free, NoWork
  <2>2. UNCHANGED shimVars
    BY <2>1 DEF vars
  <2>3. stage' # "reset"
    <3>1. Now.pc = "idle" /\ call' = call
      BY <1>1, <1>11, DoneKeeps DEF vars
    <3> QED
      BY <1>1, <3>1 DEF ControlInv, CallPlanned, Now
  <2>4. ASSUME stage' = "resident", ~Cycling PROVE appended' > 0
    <3>1. stage = "resident"
      BY <1>2, <1>4, <1>11, <2>4 DEF WorkDone, AfterFailure, KindOK, Cycling, StageKept
    <3>2. CASE Retries
      BY <1>3, <1>11, <2>1, <3>1, <3>2 DEF WorkDone, Free
    <3>3. CASE ~Retries
      <4>1. work.kind = "map"
        BY <1>2, <1>4, <1>11, <2>1, <2>4, <3>1, <3>3
        DEF WorkDone, AfterFailure, KindOK, Cycling, Retries
      <4> QED
        BY <1>4, <1>11, <3>1, <3>3, <4>1 DEF WorkDone
    <3> QED
      BY <3>2, <3>3
  <2> QED
    BY <1>1, <1>3, <1>5, <2>1, <2>2, <2>3, <2>4, PristineKept DEF ForgetInv
<1>12. CASE ChurnMap \/ AppendSlot \/ RetrySlot
  <2>1. UNCHANGED <<setup, stage>> /\ UNCHANGED vars /\ Free /\ ~Free' /\ stage # "reset"
    <3>1. PICK i \in PoolIndex : MapsSlot(i)
      BY <1>1, <1>12, BenchMaps
    <3> QED
      BY <3>1 DEF MapsSlot, BeginMap, Free
  <2>2. UNCHANGED shimVars
    BY <2>1 DEF vars
  <2>3. ASSUME stage = "resident", Retries PROVE appended' > 0
    <3>1. RetrySlot
      BY <1>12, <2>3 DEF ChurnMap, Churning, AppendSlot
    <3>2. FreeIndex \in Nat
      BY <1>2, LiveInPool
    <3> DEFINE top == IF appended >= FreeIndex + 1 THEN appended ELSE FreeIndex + 1
    <3>3. /\ top \in {appended, FreeIndex + 1}
          /\ \A y \in {appended, FreeIndex + 1} : top >= y
      BY <1>4, <3>2
    <3>4. \A y \in {appended, FreeIndex + 1} : Max({appended, FreeIndex + 1}) >= y
      <4> HIDE DEF top
      <4> QED
        BY <3>3, Zenon DEF Max
    <3>5. appended' >= FreeIndex + 1
      BY <3>1, <3>4 DEF RetrySlot
    <3>6. appended' \in Nat
      BY <1>2 DEF PoolOK
    <3> QED
      BY <3>2, <3>5, <3>6
  <2> QED
    BY <1>1, <1>3, <1>5, <2>1, <2>2, <2>3, PristineKept DEF ForgetInv
<1>13. CASE BenchMovesOn
  <2>1. UNCHANGED <<setup, vars, pool, appended, work>> /\ Free /\ Free'
    BY <1>1, <1>13, MovesOnKeeps
    DEF BenchMovesOn, ChurnFree, Churning, ChurnEnd, CountHead, FillEnd, CyclesEnd, Free
  <2>2. UNCHANGED shimVars /\ (stage' = "resident" => stage = "resident") /\ stage' # "reset"
    BY <1>13, <2>1
    DEF BenchMovesOn, ChurnFree, Churning, ChurnEnd, CountHead, FillEnd, CyclesEnd, vars
  <2> QED
    BY <1>1, <1>3, <1>5, <2>1, <2>2, PristineKept DEF ForgetInv
<1>14. CASE BeginCycle \/ Fini
  <2>1. /\ setup' = setup /\ UNCHANGED shimVars /\ stage' # "reset"
        /\ stage' = "resident" => Cycling
    BY <1>1, <1>14, FiniKeeps, CycleKeeps DEF BeginCycle, Fini, vars
  <2>2. Retries => ~Cycling
    BY DEF Retries, Cycling
  <2> QED
    BY <1>1, <1>3, <1>5, <2>1, <2>2, PristineKept DEF ForgetInv
<1>15. CASE SweepOrReset
  <2>1. CASE Live # {}
    <3>1. UNCHANGED <<setup, stage>> /\ UNCHANGED vars /\ stage = "sweep"
      BY <1>15, <2>1 DEF SweepOrReset
    <3>2. UNCHANGED shimVars
      BY <3>1 DEF vars
    <3> QED
      BY <1>1, <1>3, <1>5, <3>1, <3>2, PristineKept DEF ForgetInv
  <2>2. CASE Live = {}
    <3>1. /\ UNCHANGED shimVars /\ setup' = setup /\ stage' = "reset"
          /\ Now'.pc = IF Shimmed THEN "rst_flush" ELSE "done"
      BY <1>1, <1>15, <2>2, BeginResetKeeps
    <3>2. Forgetting'
      BY <1>3, <3>1, PristineKept DEF Forgetting, Pristine
    <3> QED
      BY <1>1, <1>3, <1>5, <3>1, <3>2, PristineKept DEF ForgetInv
  <2> QED
    BY <2>1, <2>2
<1>16. CASE (ChurnFree /\ Middle # {}) \/ TeardownNext
  <2>1. /\ UNCHANGED <<setup, stage>> /\ UNCHANGED vars /\ stage \notin {"resident", "reset"}
    <3>1. CASE TeardownNext
      BY <3>1 DEF TeardownNext
    <3>2. CASE ChurnFree
      BY <3>2 DEF ChurnFree, Churning
    <3> QED
      BY <1>16, <3>1, <3>2
  <2>2. UNCHANGED shimVars
    BY <2>1 DEF vars
  <2> QED
    BY <1>1, <1>3, <1>5, <2>1, <2>2, PristineKept DEF ForgetInv
<1>17. CASE UNCHANGED harnessVars
  <2>1. UNCHANGED <<setup, stage, work, appended>> /\ UNCHANGED shimVars /\ UNCHANGED call
    BY <1>17 DEF harnessVars, vars, benchVars
  <2>2. Forgetting' = Forgetting /\ Free' = Free
    BY <2>1, PristineKept DEF Forgetting, Now, Free
  <2> QED
    BY <1>1, <1>3, <1>5, <2>1, <2>2, PristineKept DEF ForgetInv
<1>18. CASE HarnessNext
  <2>1. CASE ChurnFree \/ ChurnEnd \/ CountHead \/ FillEnd \/ CyclesEnd
    BY <1>13, <1>16, <2>1 DEF BenchMovesOn
  <2>2. CASE Finished
    BY <1>17, <2>2 DEF Finished
  <2> QED
    BY <1>7, <1>8, <1>9, <1>10, <1>11, <1>12, <1>14, <1>15, <1>16, <1>18, <2>1, <2>2
    DEF HarnessNext
<1> QED
  BY <1>17, <1>18

(* The churn leaves nothing behind in the shim: when the resident loop of  *)
(* a bench that fills a pool starts, every table, arena, window, counter   *)
(* and bucket is as at load, whatever was churned and whatever failed.     *)
THEOREM ResetAlwaysForgets == HarnessSpec => [](~Cycling => ResetForgetsAll)
<1>1. ForgetInv => (~Cycling => ResetForgetsAll)
  BY DEF ForgetInv, Pristine, PackBlank, CountersBlank, TableBlank, ResetForgetsAll, EpochHeld
<1> QED
  BY <1>1, ForgetStarts, ForgetKept, PTL DEF HarnessSpec
-----------------------------------------------------------------------------
(* On the driver alone: every piece of memory and every mapping belongs to *)
(* one slot, and the plan of the slot at hand tells which it has.  The     *)
(* chain undoes nothing, and the churn maps over slots that are live.      *)

Owned == ~Shimmed /\ bench # "chain" /\ stage \in {"resident", "probe", "teardown", "end"}

MadePlans ==
  {<<"map", "access">>, <<"access">>, <<"map", "unmap", "release", "free">>,
   <<"unmap", "release", "free">>, <<"release", "unmap", "free">>, <<"release", "free">>}
MappedPlans ==
  {<<"access">>, <<"unmap", "release", "free">>, <<"release", "unmap", "free">>,
   <<"unmap", "free">>}

HandMapOver == work.kind = "map" /\ work.plan = << >>
HandMade == work.plan \in MadePlans \/ HandMapOver
HandMapped == work.plan \in MappedPlans \/ HandMapOver

(* The slots that have memory, and those that have a mapping.              *)
Others == IF work.kind = "none" THEN Live ELSE Live \ {work.slot}
WithMemory == Others \union (IF HandMade THEN {work.slot} ELSE {})
WithMapping == Others \union (IF HandMapped THEN {work.slot} ELSE {})

MappingOf(i) == [va |-> pool[i].va, len |-> AllocBytes(pool[i].req), handle |-> pool[i].h]

MemoryOwned ==
  /\ Memory = {pool[i].h : i \in WithMemory}
  /\ \A i, j \in WithMemory : pool[i].h = pool[j].h => i = j
MappingsOwned ==
  /\ mappings = {MappingOf(i) : i \in WithMapping}
  /\ \A i, j \in WithMapping : pool[i].va = pool[j].va => i = j

(* The slot that is being filled is not a live one yet, and becomes one.   *)
HandApart ==
  /\ Cycling => appended = 0
  /\ Retries => \A i \in PoolIndex : i >= appended => ~pool[i].live
  /\ work.kind \in {"map", "undo", "cycle"} => work.slot \notin Live
  /\ work.kind = "map" => IF Retries THEN work.slot < appended ELSE work.slot = appended

StockInv == Owned => HandApart /\ MemoryOwned /\ MappingsOwned

(* What each call of a plan changes.                                       *)
LEMMA PlanTurns ==
  ASSUME NEW p \in (MapPlans \union CyclePlans \union BackPlans) \ {<< >>}
  PROVE  /\ Head(p) \in {"reserve", "free"} =>
              /\ p \notin MadePlans /\ Tail(p) \notin MadePlans
              /\ p \notin MappedPlans /\ Tail(p) \notin MappedPlans
         /\ Head(p) = "create" =>
              /\ p \notin MadePlans /\ Tail(p) \in MadePlans
              /\ p \notin MappedPlans /\ Tail(p) \notin MappedPlans
         /\ Head(p) = "map" =>
              /\ p \in MadePlans /\ Tail(p) \in MadePlans
              /\ p \notin MappedPlans /\ Tail(p) \in MappedPlans
         /\ Head(p) = "access" =>
              p \in MadePlans /\ p \in MappedPlans /\ Tail(p) = << >>
         /\ Head(p) = "unmap" =>
              /\ p \in MadePlans <=> Tail(p) \in MadePlans
              /\ p \in MappedPlans /\ Tail(p) \notin MappedPlans
         /\ Head(p) = "release" =>
              /\ p \in MadePlans /\ Tail(p) \notin MadePlans
              /\ p \in MappedPlans <=> Tail(p) \in MappedPlans
         /\ Head(p) # "access" /\ p \in MapPlans => Tail(p) # << >>
<1>1. /\ Tail(<<"reserve", "create", "map", "access">>) = <<"create", "map", "access">>
      /\ Tail(<<"create", "map", "access">>) = <<"map", "access">>
      /\ Tail(<<"map", "access">>) = <<"access">> /\ Tail(<<"access">>) = << >>
  OBVIOUS
<1>2. /\ Tail(<<"reserve", "create", "map", "unmap", "release", "free">>)
           = <<"create", "map", "unmap", "release", "free">>
      /\ Tail(<<"create", "map", "unmap", "release", "free">>)
           = <<"map", "unmap", "release", "free">>
      /\ Tail(<<"map", "unmap", "release", "free">>) = <<"unmap", "release", "free">>
      /\ Tail(<<"unmap", "release", "free">>) = <<"release", "free">>
      /\ Tail(<<"release", "unmap", "free">>) = <<"unmap", "free">>
      /\ Tail(<<"release", "free">>) = <<"free">> /\ Tail(<<"unmap", "free">>) = <<"free">>
      /\ Tail(<<"free">>) = << >>
  OBVIOUS
<1>3. /\ Head(<<"reserve", "create", "map", "access">>) = "reserve"
      /\ Head(<<"create", "map", "access">>) = "create"
      /\ Head(<<"map", "access">>) = "map" /\ Head(<<"access">>) = "access"
      /\ Head(<<"reserve", "create", "map", "unmap", "release", "free">>) = "reserve"
      /\ Head(<<"create", "map", "unmap", "release", "free">>) = "create"
      /\ Head(<<"map", "unmap", "release", "free">>) = "map"
      /\ Head(<<"unmap", "release", "free">>) = "unmap"
      /\ Head(<<"release", "unmap", "free">>) = "release"
      /\ Head(<<"release", "free">>) = "release" /\ Head(<<"unmap", "free">>) = "unmap"
      /\ Head(<<"free">>) = "free"
  OBVIOUS
<1>4. /\ {<<"map", "access">>, <<"access">>, <<"map", "unmap", "release", "free">>,
         <<"unmap", "release", "free">>, <<"release", "unmap", "free">>,
         <<"release", "free">>} \subseteq MadePlans
      /\ <<"reserve", "create", "map", "access">> \notin MadePlans
      /\ <<"create", "map", "access">> \notin MadePlans /\ << >> \notin MadePlans
      /\ <<"reserve", "create", "map", "unmap", "release", "free">> \notin MadePlans
      /\ <<"create", "map", "unmap", "release", "free">> \notin MadePlans
      /\ <<"unmap", "free">> \notin MadePlans /\ <<"free">> \notin MadePlans
  BY DEF MadePlans
<1>5. /\ {<<"access">>, <<"unmap", "release", "free">>, <<"release", "unmap", "free">>,
         <<"unmap", "free">>} \subseteq MappedPlans
      /\ <<"reserve", "create", "map", "access">> \notin MappedPlans
      /\ <<"create", "map", "access">> \notin MappedPlans
      /\ <<"map", "access">> \notin MappedPlans /\ << >> \notin MappedPlans
      /\ <<"reserve", "create", "map", "unmap", "release", "free">> \notin MappedPlans
      /\ <<"create", "map", "unmap", "release", "free">> \notin MappedPlans
      /\ <<"map", "unmap", "release", "free">> \notin MappedPlans
      /\ <<"release", "free">> \notin MappedPlans /\ <<"free">> \notin MappedPlans
  BY DEF MappedPlans
<1>6. ASSUME p \in MapPlans
      PROVE  Head(p) # "access" => Tail(p) # << >>
  <2>1. <<"create", "map", "access">> # << >> /\ <<"map", "access">> # << >>
        /\ <<"access">> # << >>
    OBVIOUS
  <2> QED
    BY <1>1, <1>3, <1>6, <2>1 DEF MapPlans
<1>7. CASE p \in MapPlans
  BY <1>1, <1>3, <1>4, <1>5, <1>6, <1>7 DEF MapPlans
<1>8. CASE p \in CyclePlans \ BackPlans
  BY <1>2, <1>3, <1>4, <1>5, <1>6, <1>8 DEF CyclePlans, BackPlans
<1>9. CASE p \in BackPlans
  BY <1>2, <1>3, <1>4, <1>5, <1>6, <1>9 DEF BackPlans
<1> QED
  BY <1>7, <1>8, <1>9

(* What unwinds a call that failed gives back what was had before it.      *)
LEMMA UnwindTurns ==
  ASSUME bench # "chain"
  PROVE  /\ \A op \in {"reserve", "create", "free"} :
              Unwind(op) \notin MadePlans /\ Unwind(op) \notin MappedPlans
         /\ Unwind("map") \in MadePlans /\ Unwind("map") \notin MappedPlans
         /\ Unwind("access") \in MadePlans /\ Unwind("access") \in MappedPlans
<1>1. /\ Unwind("reserve") = << >> /\ Unwind("free") = << >> /\ Unwind("create") = <<"free">>
      /\ Unwind("map") = <<"release", "free">>
      /\ Unwind("access") = <<"unmap", "release", "free">>
  BY DEF Unwind
<1> QED
  BY <1>1 DEF MadePlans, MappedPlans

-----------------------------------------------------------------------------

LEMMA MemoryOwnedStill ==
  ASSUME MemoryOwned, UNCHANGED physLen, WithMemory' = WithMemory,
         \A i \in WithMemory : pool'[i].h = pool[i].h
  PROVE  MemoryOwned'
<1>1. Memory' = Memory
  BY DEF Memory
<1> QED
  BY <1>1 DEF MemoryOwned

LEMMA MappingsOwnedStill ==
  ASSUME MappingsOwned, UNCHANGED mappings, WithMapping' = WithMapping,
         \A i \in WithMapping : /\ pool'[i].va = pool[i].va /\ pool'[i].h = pool[i].h
                                /\ pool'[i].req = pool[i].req
  PROVE  MappingsOwned'
<1>1. \A i \in WithMapping : MappingOf(i)' = MappingOf(i)
  BY DEF MappingOf
<1> QED
  BY <1>1 DEF MappingsOwned

LEMMA MemoryOwnedMore ==
  ASSUME MemoryOwned, DriverOK, NEW s, s \notin WithMemory, WithMemory' = WithMemory \union {s},
         \A i \in WithMemory : pool'[i].h = pool[i].h,
         NEW h \in FreshHandles, NEW len \in Nat \ {0}, DriverCreate(h, len), pool'[s].h = h
  PROVE  MemoryOwned'
<1>1. Memory' = Memory \union {h} /\ h \notin Memory
  BY DEF Memory, DriverCreate, FreshHandles, DriverOK
<1> QED
  BY <1>1 DEF MemoryOwned

LEMMA MemoryOwnedLess ==
  ASSUME MemoryOwned, DriverOK, NEW s \in WithMemory, WithMemory' = WithMemory \ {s},
         \A i \in WithMemory : pool'[i].h = pool[i].h, DriverRelease(pool[s].h)
  PROVE  MemoryOwned'
<1>1. pool[s].h \in Memory
  BY DEF MemoryOwned
<1>2. Memory' = Memory \ {pool[s].h}
  BY <1>1 DEF Memory, DriverRelease, DriverOK
<1> QED
  BY <1>2 DEF MemoryOwned

LEMMA MappingsOwnedMore ==
  ASSUME MappingsOwned, DriverOK, PoolOK, NEW s \in PoolIndex, s \notin WithMapping,
         WithMapping \subseteq PoolIndex,
         WithMapping' = WithMapping \union {s}, pool' = pool,
         DriverMap(pool[s].va, AllocBytes(pool[s].req), 0, pool[s].h)
  PROVE  MappingsOwned'
<1>1. mappings' = mappings \union {MappingOf(s)}
  BY DEF DriverMap, MappingOf
<1>2. \A i : MappingOf(i)' = MappingOf(i)
  BY DEF MappingOf
<1>3. ASSUME NEW i \in WithMapping
      PROVE  pool[i].va # pool[s].va
  <2>1. pool[s] \in PoolSlot /\ pool[i] \in PoolSlot
    BY DEF PoolOK
  <2>2. AllocBytes(pool[s].req) > 0 /\ AllocBytes(pool[s].req) \in Nat
    BY <2>1, HarnessSizes DEF PoolSlot
  <2>3. MappingOf(i) \in mappings
    BY DEF MappingsOwned
  <2>4. MappingOf(i).len \in Nat \ {0} /\ MappingOf(i).va = pool[i].va
    BY <2>3 DEF DriverOK, MappingOf
  <2>5. ~Meet(pool[s].va, AllocBytes(pool[s].req), MappingOf(i).va, MappingOf(i).len)
    BY <2>3 DEF DriverMap, CanMap
  <2> QED
    BY <2>1, <2>2, <2>4, <2>5 DEF Meet, PoolSlot
<1>4. \A i, j \in WithMapping' : pool'[i].va = pool'[j].va => i = j
  BY <1>3 DEF MappingsOwned
<1> QED
  BY <1>1, <1>2, <1>4 DEF MappingsOwned

LEMMA MappingsOwnedLess ==
  ASSUME MappingsOwned, NEW s \in WithMapping, WithMapping' = WithMapping \ {s}, pool' = pool,
         DriverUnmap(pool[s].va, AllocBytes(pool[s].req))
  PROVE  MappingsOwned'
<1>1. mappings' = {m \in mappings : m.va # pool[s].va}
  BY DEF DriverUnmap
<1>2. \A i : MappingOf(i)' = MappingOf(i) /\ MappingOf(i).va = pool[i].va
  BY DEF MappingOf
<1> QED
  BY <1>1, <1>2 DEF MappingsOwned

-----------------------------------------------------------------------------
(* The steps of the bench.                                                 *)

LEMMA HandInPool ==
  ASSUME PoolOK
  PROVE  /\ Live \subseteq PoolIndex /\ Others \subseteq PoolIndex /\ work.slot \in PoolIndex
         /\ WithMemory \subseteq PoolIndex /\ WithMapping \subseteq PoolIndex
         /\ work.plan \in MapPlans \union CyclePlans \union BackPlans
         /\ appended \in Nat /\ pool \in [PoolIndex -> PoolSlot] /\ PoolIndex \subseteq Nat
BY DEF PoolOK, WorkRecord, Live, Others, WithMemory, WithMapping, PoolIndex

(* A call of the slot at hand leaves the other slots as they are.          *)
LEMMA HandKept ==
  ASSUME PoolOK, HandApart, work.kind # "none", work'.kind # "none", work'.slot = work.slot,
         work'.kind = work.kind \/ (work'.kind = "undo" /\ work.kind \in {"map", "cycle"}),
         UNCHANGED <<setup, appended>>,
         \A i \in PoolIndex : pool'[i].live = pool[i].live
  PROVE  HandApart' /\ Others' = Others /\ work.slot \notin Others
<1>1. Live' = Live /\ Cycling' = Cycling /\ Retries' = Retries
  BY DEF Live, Cycling, Retries, bench
<1>2. Others' = Others /\ work.slot \notin Others
  BY <1>1 DEF Others
<1> QED
  BY <1>1, <1>2 DEF HandApart

LEMMA StockOwns ==
  ASSUME ~GiveBackFails, ControlInv, StockInv, Owned, StockCall
  PROVE  StockInv'
<1>1. /\ PoolOK /\ KindOK /\ DriverOK /\ ~Shimmed /\ Busy /\ HandApart
      /\ MemoryOwned /\ MappingsOwned /\ bench # "chain"
      /\ UNCHANGED <<setup, appended, stage>> /\ Head(work.plan) # "access"
  BY DEF ControlInv, StockInv, Owned, StockCall
<1> DEFINE s == work.slot
           op == Head(work.plan)
<1>2. /\ work \in WorkRecord /\ s \in PoolIndex /\ Slot \in PoolSlot /\ work.kind # "none"
      /\ work.plan \in (MapPlans \union CyclePlans \union BackPlans) \ {<< >>}
      /\ pool \in [PoolIndex -> PoolSlot]
      /\ work.kind = "map" => work.plan \in MapPlans
      /\ op \in {"reserve", "create", "map", "unmap", "release", "free"}
  BY <1>1, PlansTail DEF PoolOK, WorkRecord, KindOK, Busy, Slot
<1>3. ASSUME Advance(TRUE)
      PROVE  work'.kind = work.kind /\ work'.plan = Tail(work.plan) /\ work'.slot = s
  BY <1>2, <1>3 DEF Advance, WorkRecord
<1>4. ASSUME Advance(FALSE)
      PROVE  /\ work'.slot = s
             /\ \/ work'.kind = work.kind /\ work'.plan = Tail(work.plan)
                   /\ work.kind \notin {"map", "cycle"}
                \/ work'.kind = "undo" /\ work.kind \in {"map", "cycle"}
                   /\ work'.plan = Unwind(op)
  BY <1>2, <1>4 DEF Advance, WorkRecord
<1>5. /\ \A i \in PoolIndex : pool'[i].live = pool[i].live
      /\ \A i \in PoolIndex \ {s} : pool'[i] = pool[i]
      /\ op \notin {"reserve", "create"} => pool' = pool
      /\ pool'[s].req = pool[s].req
      /\ op = "create" => pool'[s].va = pool[s].va
      /\ op # "create" => pool'[s].h = pool[s].h
  <2>1. \/ pool' = pool
        \/ op = "reserve" /\ \E va : pool' = [pool EXCEPT ![s].va = va]
        \/ op = "create" /\ \E h : pool' = [pool EXCEPT ![s].h = h]
    BY <1>2 DEF StockCall, DriverTakes
  <2>2. CASE pool' = pool
    BY <2>2
  <2>3. CASE op = "reserve" /\ \E va : pool' = [pool EXCEPT ![s].va = va]
    BY <1>2, <2>3 DEF PoolSlot
  <2>4. CASE op = "create" /\ \E h : pool' = [pool EXCEPT ![s].h = h]
    BY <1>2, <2>4 DEF PoolSlot
  <2> QED
    BY <2>1, <2>2, <2>3, <2>4
<1>6. /\ HandApart' /\ Others' = Others /\ s \notin Others /\ work'.slot = s
      /\ work'.kind # "none"
  <2>1. /\ work'.slot = s
        /\ work'.kind = work.kind \/ (work'.kind = "undo" /\ work.kind \in {"map", "cycle"})
    BY <1>3, <1>4 DEF StockCall
  <2> QED
    BY <1>1, <1>2, <1>5, <2>1, HandKept
<1>7. Others \subseteq PoolIndex \ {s}
  BY <1>1, <1>6, HandInPool
<1>8. /\ WithMemory = Others \union (IF HandMade THEN {s} ELSE {})
      /\ WithMemory' = Others \union (IF HandMade' THEN {s} ELSE {})
      /\ WithMapping = Others \union (IF HandMapped THEN {s} ELSE {})
      /\ WithMapping' = Others \union (IF HandMapped' THEN {s} ELSE {})
  BY <1>6 DEF WithMemory, WithMapping
<1>9. /\ HandMade <=> work.plan \in MadePlans
      /\ HandMapped <=> work.plan \in MappedPlans
  BY <1>2 DEF HandMade, HandMapped, HandMapOver
<1>10. ASSUME Advance(TRUE) \/ work.kind \notin {"map", "cycle"}
       PROVE  /\ work'.plan = Tail(work.plan)
              /\ HandMade' <=> Tail(work.plan) \in MadePlans
              /\ HandMapped' <=> Tail(work.plan) \in MappedPlans
  <2>1. work'.plan = Tail(work.plan) /\ work'.kind = work.kind
    BY <1>3, <1>4, <1>10 DEF StockCall
  <2>2. work.kind = "map" => Tail(work.plan) # << >>
    BY <1>1, <1>2, PlanTurns
  <2> QED
    BY <2>1, <2>2 DEF HandMade, HandMapped, HandMapOver
<1>11. ASSUME ~Advance(TRUE), work.kind \in {"map", "cycle"}
       PROVE  /\ DriverRefuses(op) /\ UNCHANGED <<driverVars, pool>>
              /\ HandMade' <=> Unwind(op) \in MadePlans
              /\ HandMapped' <=> Unwind(op) \in MappedPlans
  <2>1. DriverRefuses(op) /\ UNCHANGED <<driverVars, pool>> /\ Advance(FALSE)
    BY <1>11 DEF StockCall
  <2>2. work'.kind = "undo" /\ work'.plan = Unwind(op)
    BY <1>4, <1>11, <2>1
  <2> QED
    BY <2>1, <2>2 DEF HandMade, HandMapped, HandMapOver
<1> HIDE DEF s, op
<1>12. SUFFICES MemoryOwned' /\ MappingsOwned'
  BY <1>6 DEF StockInv
<1>13. CASE op \in {"reserve", "free"}
  <2>1. ~HandMade /\ ~HandMade' /\ ~HandMapped /\ ~HandMapped'
    BY <1>1, <1>2, <1>9, <1>10, <1>11, <1>13, PlanTurns, UnwindTurns DEF op
  <2>2. UNCHANGED <<physLen, mappings>>
    BY <1>13 DEF op, StockCall, DriverTakes, DriverReserve, DriverAddressFree, driverVars
  <2> QED
    BY <1>1, <1>5, <1>7, <1>8, <2>1, <2>2, MemoryOwnedStill, MappingsOwnedStill
<1>14. CASE op = "create"
  <2>1. ~HandMade /\ ~HandMapped /\ work.kind \in {"map", "cycle"}
    <3>1. work.plan \notin BackPlans
      BY <1>2, <1>14, PlansTail DEF op
    <3>2. work.kind \in {"map", "cycle"}
      BY <1>1, <1>2, <3>1 DEF KindOK, WorkRecord
    <3> QED
      BY <1>2, <1>9, <1>14, <3>2, PlanTurns DEF op
  <2>2. CASE ~Advance(TRUE)
    <3>1. ~HandMade' /\ ~HandMapped' /\ UNCHANGED <<physLen, mappings>>
      BY <1>1, <1>11, <1>14, <2>1, <2>2, UnwindTurns DEF driverVars
    <3> QED
      BY <1>1, <1>5, <1>7, <1>8, <2>1, <2>2, <3>1, MemoryOwnedStill, MappingsOwnedStill
  <2>3. CASE Advance(TRUE)
    <3>1. HandMade' /\ ~HandMapped'
      BY <1>2, <1>10, <1>14, <2>3, PlanTurns DEF op
    <3>2. work'.plan = Tail(work.plan) /\ Tail(work.plan) # Unwind(op)
      BY <1>1, <1>2, <1>10, <1>14, <2>3, PlanTurns, UnwindTurns DEF op
    <3>3. DriverTakes(op)
      BY <1>4, <2>1, <2>3, <3>2 DEF StockCall, op
    <3>4. PICK h \in FreshHandles : /\ DriverCreate(h, CreateBytes(Slot.req))
                                    /\ pool' = [pool EXCEPT ![s].h = h]
      BY <1>14, <3>3 DEF DriverTakes, s
    <3>5. CreateBytes(Slot.req) \in Nat \ {0}
      <4>1. Slot.req \in Nat \ {0}
        BY <1>1, <1>2 DEF PoolOK, PoolSlot
      <4> QED
        BY <4>1, HarnessSizes
    <3>6. pool'[s].h = h /\ UNCHANGED mappings
      BY <1>2, <3>4 DEF PoolSlot, DriverCreate
    <3>7. MemoryOwned'
      BY <1>1, <1>5, <1>6, <1>7, <1>8, <2>1, <3>1, <3>4, <3>5, <3>6, MemoryOwnedMore
    <3>8. MappingsOwned'
      BY <1>1, <1>5, <1>7, <1>8, <2>1, <3>1, <3>6, MappingsOwnedStill
    <3> QED
      BY <3>7, <3>8
  <2> QED
    BY <2>2, <2>3
<1>15. CASE op = "map"
  <2>1. HandMade /\ ~HandMapped /\ work.kind \in {"map", "cycle"}
    <3>1. work.plan \notin BackPlans
      BY <1>2, <1>15, PlansTail DEF op
    <3>2. work.kind \in {"map", "cycle"}
      BY <1>1, <1>2, <3>1 DEF KindOK, WorkRecord
    <3> QED
      BY <1>2, <1>9, <1>15, <3>2, PlanTurns DEF op
  <2>2. pool' = pool
    BY <1>5, <1>15
  <2>3. CASE ~Advance(TRUE)
    <3>1. HandMade' /\ ~HandMapped' /\ UNCHANGED <<physLen, mappings>>
      BY <1>1, <1>11, <1>15, <2>1, <2>3, UnwindTurns DEF driverVars
    <3> QED
      BY <1>1, <1>8, <2>1, <2>2, <3>1, MemoryOwnedStill, MappingsOwnedStill
  <2>4. CASE Advance(TRUE)
    <3>1. HandMade' /\ HandMapped'
      BY <1>2, <1>10, <1>15, <2>4, PlanTurns DEF op
    <3>2. work'.plan = Tail(work.plan) /\ Tail(work.plan) # Unwind(op)
      BY <1>1, <1>2, <1>10, <1>15, <2>4, PlanTurns, UnwindTurns DEF op
    <3>3. DriverTakes(op)
      BY <1>4, <2>1, <2>4, <3>2 DEF StockCall, op
    <3>4. DriverMap(pool[s].va, AllocBytes(pool[s].req), 0, pool[s].h) /\ UNCHANGED physLen
      BY <1>15, <3>3 DEF DriverTakes, DriverMap, s, Slot
    <3>5. MemoryOwned'
      BY <1>1, <1>8, <2>1, <2>2, <3>1, <3>4, MemoryOwnedStill
    <3>6. MappingsOwned'
      <4>1. WithMapping \subseteq PoolIndex /\ s \notin WithMapping
        BY <1>1, <1>6, <1>8, <2>1, HandInPool
      <4> QED
        BY <1>1, <1>2, <1>8, <2>1, <2>2, <3>1, <3>4, <4>1, MappingsOwnedMore
    <3> QED
      BY <3>5, <3>6
  <2> QED
    BY <2>3, <2>4
<1>16. CASE op = "unmap"
  <2>1. HandMapped /\ pool' = pool /\ s \in WithMapping
    BY <1>2, <1>5, <1>8, <1>9, <1>16, PlanTurns DEF op
  <2>2. CanUnmap(pool[s].va, AllocBytes(pool[s].req))
    <3>1. MappingOf(s) \in mappings
      BY <1>1, <2>1 DEF MappingsOwned
    <3> QED
      BY <3>1 DEF CanUnmap, MappingOf
  <2>3. DriverTakes(op) /\ Advance(TRUE)
    BY <1>16, <2>2 DEF StockCall, DriverRefuses, op, s, Slot
  <2>4. DriverUnmap(pool[s].va, AllocBytes(pool[s].req)) /\ UNCHANGED physLen
    BY <1>16, <2>3 DEF DriverTakes, DriverUnmap, s, Slot
  <2>5. ~HandMapped' /\ (HandMade' <=> HandMade)
    BY <1>2, <1>9, <1>10, <1>16, <2>3, PlanTurns DEF op
  <2>6. MemoryOwned'
    BY <1>1, <1>8, <2>1, <2>4, <2>5, MemoryOwnedStill
  <2>7. MappingsOwned'
    BY <1>1, <1>6, <1>8, <2>1, <2>4, <2>5, MappingsOwnedLess
  <2> QED
    BY <2>6, <2>7
<1>17. CASE op = "release"
  <2>1. HandMade /\ pool' = pool /\ s \in WithMemory
    BY <1>2, <1>5, <1>8, <1>9, <1>17, PlanTurns DEF op
  <2>2. CanRelease(pool[s].h)
    <3>1. pool[s].h \in Memory
      BY <1>1, <2>1 DEF MemoryOwned
    <3> QED
      BY <3>1 DEF CanRelease, Memory
  <2>3. DriverTakes(op) /\ Advance(TRUE)
    BY <1>17, <2>2 DEF StockCall, DriverRefuses, op, s, Slot
  <2>4. DriverRelease(pool[s].h) /\ UNCHANGED mappings
    BY <1>17, <2>3 DEF DriverTakes, DriverRelease, s, Slot
  <2>5. ~HandMade' /\ (HandMapped' <=> HandMapped)
    BY <1>2, <1>9, <1>10, <1>17, <2>3, PlanTurns DEF op
  <2>6. MemoryOwned'
    BY <1>1, <1>6, <1>8, <2>1, <2>4, <2>5, MemoryOwnedLess
  <2>7. MappingsOwned'
    BY <1>1, <1>8, <2>1, <2>4, <2>5, MappingsOwnedStill
  <2> QED
    BY <2>6, <2>7
<1> QED
  BY <1>2, <1>13, <1>14, <1>15, <1>16, <1>17 DEF op
(* The driver and the bench at hand are as they were.                      *)
LEMMA StockRests ==
  ASSUME StockInv, Owned' => Owned, UNCHANGED <<setup, pool, appended, work>>,
         UNCHANGED driverVars
  PROVE  StockInv'
<1>1. /\ Live' = Live /\ Cycling' = Cycling /\ Retries' = Retries
      /\ HandMade' = HandMade /\ HandMapped' = HandMapped
      /\ physLen' = physLen /\ mappings' = mappings
  BY DEF Live, Cycling, Retries, bench, HandMade, HandMapped, HandMapOver, driverVars
<1>2. HandApart => HandApart'
  BY <1>1 DEF HandApart
<1>3. Others' = Others /\ WithMemory' = WithMemory /\ WithMapping' = WithMapping
  BY <1>1 DEF Others, WithMemory, WithMapping
<1> QED
  BY <1>1, <1>2, <1>3, MemoryOwnedStill, MappingsOwnedStill DEF StockInv

(* The slots that have memory and a mapping change their names only.       *)
LEMMA OwnersRenamed ==
  ASSUME MemoryOwned, MappingsOwned, UNCHANGED driverVars, HandApart',
         WithMemory' = WithMemory, WithMapping' = WithMapping,
         \A i \in WithMemory \union WithMapping :
           /\ pool'[i].va = pool[i].va /\ pool'[i].h = pool[i].h
           /\ pool'[i].req = pool[i].req
  PROVE  StockInv'
<1>1. UNCHANGED <<physLen, mappings>>
  BY DEF driverVars
<1> QED
  BY <1>1, MemoryOwnedStill, MappingsOwnedStill DEF StockInv

LEMMA NoOwner ==
  ASSUME Memory' = {}, mappings' = {}, WithMemory' = {}, WithMapping' = {}, HandApart'
  PROVE  StockInv'
BY DEF StockInv, MemoryOwned, MappingsOwned

LEMMA AccessOwns ==
  ASSUME ControlInv, StockInv, Owned, SetAccess
  PROVE  StockInv'
<1>1. /\ PoolOK /\ KindOK /\ Busy /\ HandApart /\ MemoryOwned /\ MappingsOwned /\ bench # "chain"
      /\ Head(work.plan) = "access" /\ UNCHANGED <<setup, vars, pool, appended>>
      /\ Advance(TRUE) \/ Advance(FALSE)
  BY DEF ControlInv, StockInv, Owned, SetAccess
<1>2. UNCHANGED driverVars
  BY <1>1 DEF vars
<1>3. /\ work \in WorkRecord /\ work.kind # "none"
      /\ work.plan \in (MapPlans \union CyclePlans \union BackPlans) \ {<< >>}
  BY <1>1 DEF PoolOK, WorkRecord, KindOK, Busy
<1>4. work.kind = "map" /\ HandMade /\ HandMapped /\ Tail(work.plan) = << >>
  <2>1. work.plan \in MapPlans /\ work.plan \notin CyclePlans /\ work.plan \notin BackPlans
    BY <1>1, <1>3, PlansTail
  <2>2. work.kind = "map"
    BY <1>1, <1>3, <2>1 DEF KindOK, WorkRecord
  <2>3. work.plan \in MadePlans /\ work.plan \in MappedPlans /\ Tail(work.plan) = << >>
    BY <1>1, <1>3, PlanTurns
  <2> QED
    BY <2>2, <2>3 DEF HandMade, HandMapped
<1>5. work'.slot = work.slot /\ work'.kind \in {"map", "undo"} /\ HandMade' /\ HandMapped'
  <2>1. CASE Advance(TRUE)
    <3>1. work'.kind = "map" /\ work'.plan = << >> /\ work'.slot = work.slot
      BY <1>3, <1>4, <2>1 DEF Advance, WorkRecord
    <3> QED
      BY <3>1 DEF HandMade, HandMapped, HandMapOver
  <2>2. CASE Advance(FALSE)
    <3>1. work'.kind = "undo" /\ work'.plan = Unwind("access") /\ work'.slot = work.slot
      BY <1>1, <1>3, <1>4, <2>2 DEF Advance, WorkRecord
    <3> QED
      BY <1>1, <3>1, UnwindTurns DEF HandMade, HandMapped
  <2> QED
    BY <1>1, <2>1, <2>2
<1>6. HandApart' /\ Others' = Others
  BY <1>1, <1>4, <1>5, HandKept
<1> QED
  BY <1>1, <1>2, <1>4, <1>5, <1>6, OwnersRenamed DEF WithMemory, WithMapping

LEMMA DoneOwns ==
  ASSUME ControlInv, StockInv, Owned, WorkDone
  PROVE  StockInv'
<1> DEFINE s == work.slot
<1>1. /\ PoolOK /\ KindOK /\ HandApart /\ MemoryOwned /\ MappingsOwned
      /\ work.kind # "none" /\ work.plan = << >> /\ work' = NoWork
      /\ setup' = setup /\ UNCHANGED vars
  BY DEF ControlInv, StockInv, WorkDone, Busy
<1>2. UNCHANGED driverVars /\ Cycling' = Cycling /\ Retries' = Retries
  BY <1>1 DEF vars, Cycling, Retries, bench
<1>3. /\ work.kind \in {"map", "undo", "teardown", "cycle"} /\ s \in PoolIndex
      /\ pool \in [PoolIndex -> PoolSlot] /\ appended \in Nat /\ PoolIndex \subseteq Nat
  BY <1>1 DEF PoolOK, WorkRecord, PoolIndex
<1>4. /\ << >> \notin MadePlans /\ << >> \notin MappedPlans
      /\ work'.kind = "none" /\ work'.plan = << >>
  BY <1>1 DEF NoWork, MadePlans, MappedPlans
<1>5. ~HandMade' /\ ~HandMapped' /\ Others' = Live'
  BY <1>4 DEF HandMade, HandMapped, HandMapOver, Others
<1>6. /\ HandMade <=> work.kind = "map"
      /\ HandMapped <=> work.kind = "map"
  BY <1>1, <1>4 DEF HandMade, HandMapped, HandMapOver
<1>7. WithMemory' = Live' /\ WithMapping' = Live'
  BY <1>5 DEF WithMemory, WithMapping
<1>8. CASE work.kind = "map"
  <2>1. stage = "resident" /\ ~Cycling
    BY <1>1, <1>8 DEF KindOK, Owned
  <2>2. /\ pool' = [pool EXCEPT ![s].live = TRUE]
        /\ appended' = IF Retries THEN appended ELSE appended + 1
    BY <1>8, <2>1 DEF WorkDone
  <2>3. IF Retries THEN s < appended ELSE s = appended
    BY <1>1, <1>8 DEF HandApart
  <2>4. /\ \A i \in PoolIndex \ {s} : pool'[i] = pool[i]
        /\ pool'[s] = [pool[s] EXCEPT !.live = TRUE]
        /\ pool'[s].live /\ pool'[s].va = pool[s].va /\ pool'[s].h = pool[s].h
        /\ pool'[s].req = pool[s].req
    BY <1>3, <2>2 DEF PoolSlot
  <2>5. Live' = Live \union {s}
    BY <1>3, <2>2, <2>3, <2>4 DEF Live
  <2>6. WithMemory = Live \union {s} /\ WithMapping = Live \union {s}
    BY <1>6, <1>8 DEF WithMemory, WithMapping, Others
  <2>7. HandApart'
    <3>1. Retries => \A i \in PoolIndex : i >= appended => ~pool'[i].live
      BY <1>1, <1>3, <2>3, <2>4 DEF HandApart
    <3> QED
      BY <1>2, <1>4, <2>1, <2>2, <3>1 DEF HandApart
  <2>8. Live \subseteq PoolIndex
    BY DEF Live
  <2> QED
    BY <1>1, <1>2, <1>7, <2>4, <2>5, <2>6, <2>7, <2>8, OwnersRenamed
<1>9. CASE work.kind # "map"
  <2>1. /\ appended' = appended
        /\ pool' = pool \/ pool' = [pool EXCEPT ![s] = BlankSlot]
        /\ work.kind = "undo" => pool' = pool
        /\ work.kind # "undo" => pool' = [pool EXCEPT ![s] = BlankSlot]
    BY <1>3, <1>9 DEF WorkDone
  <2>2. /\ \A i \in PoolIndex \ {s} : pool'[i] = pool[i]
        /\ work.kind = "undo" => pool'[s] = pool[s]
        /\ work.kind # "undo" => ~pool'[s].live
    BY <1>3, <2>1 DEF BlankSlot
  <2>3. Live' = Live \ {s}
    <3>1. work.kind = "undo" => s \notin Live
      BY <1>1 DEF HandApart
    <3> QED
      BY <1>3, <2>1, <2>2, <3>1 DEF Live
  <2>4. WithMemory = Live \ {s} /\ WithMapping = Live \ {s}
    BY <1>1, <1>6, <1>9 DEF WithMemory, WithMapping, Others
  <2>5. HandApart'
    <3>1. Retries => \A i \in PoolIndex : i >= appended => ~pool'[i].live
      BY <1>1, <1>3, <2>2 DEF HandApart
    <3> QED
      BY <1>1, <1>2, <1>4, <2>1, <3>1 DEF HandApart
  <2>6. Live \subseteq PoolIndex
    BY DEF Live
  <2> QED
    BY <1>1, <1>2, <1>7, <2>2, <2>3, <2>4, <2>5, <2>6, OwnersRenamed
<1> QED
  BY <1>8, <1>9

(* The slot the kv_tail bench tries next is a free one it has counted.     *)
LEMMA RetryFree ==
  ASSUME PoolOK, HandApart, RetrySlot
  PROVE  /\ FreeIndex \in PoolIndex /\ ~pool[FreeIndex].live
         /\ appended' \in Nat /\ appended' > FreeIndex /\ appended' >= appended
<1>1. FreeIndex \in PoolIndex /\ FreeIndex \in Nat /\ appended \in Nat /\ Retries
  BY LiveInPool DEF RetrySlot, PoolOK
<1>2. ~pool[FreeIndex].live
  <2> DEFINE gaps == {i \in PoolIndex : i < appended /\ ~pool[i].live}
  <2>1. gaps \subseteq Nat
    BY LiveInPool
  <2>2. gaps # {} => Min(gaps) \in gaps
    BY <2>1, MinMember
  <2>3. FreeIndex = IF gaps = {} THEN appended ELSE Min(gaps)
    BY DEF FreeIndex
  <2>4. CASE gaps = {}
    BY <1>1, <2>3, <2>4 DEF HandApart
  <2>5. CASE gaps # {}
    BY <2>2, <2>3, <2>5
  <2> QED
    BY <2>4, <2>5
<1> DEFINE ends == {appended, FreeIndex + 1}
           top == IF appended >= FreeIndex + 1 THEN appended ELSE FreeIndex + 1
<1>3. top \in ends /\ \A y \in ends : top >= y
  BY <1>1
<1>4. Max(ends) \in ends /\ \A y \in ends : Max(ends) >= y
  <2> HIDE DEF top, ends
  <2> QED
    BY <1>3, Zenon DEF Max
<1> QED
  BY <1>1, <1>2, <1>4 DEF RetrySlot

LEMMA MapOwns ==
  ASSUME ControlInv, StockInv, Owned, AppendSlot \/ RetrySlot
  PROVE  StockInv'
<1>1. /\ PoolOK /\ HandApart /\ MemoryOwned /\ MappingsOwned /\ stage = "resident"
      /\ work.kind = "none" /\ work.plan = << >> /\ ~Cycling
      /\ setup' = setup /\ UNCHANGED vars
  BY FreeRests DEF ControlInv, StockInv, AppendSlot, RetrySlot, Free, Cycling, Retries
<1>2. UNCHANGED driverVars /\ Cycling' = Cycling /\ Retries' = Retries
  BY <1>1 DEF vars, Cycling, Retries, bench
<1>3. pool \in [PoolIndex -> PoolSlot] /\ appended \in Nat /\ PoolIndex \subseteq Nat
  BY <1>1 DEF PoolOK, PoolIndex
<1>4. /\ << >> \notin MadePlans /\ << >> \notin MappedPlans
      /\ MapPlan \notin MadePlans /\ MapPlan \notin MappedPlans /\ MapPlan # << >>
  BY DEF MapPlan, MadePlans, MappedPlans
<1>5. PICK i \in PoolIndex :
        /\ BeginMap(i) /\ appended' \in Nat /\ appended' >= appended
        /\ Retries => ~pool[i].live /\ i < appended'
        /\ ~Retries => i = appended /\ appended' = appended
  <2>1. CASE AppendSlot
    <3>1. appended \in PoolIndex
      BY <1>3, <2>1, HarnessAssumption DEF AppendSlot, PoolIndex
    <3> QED
      BY <1>3, <2>1, <3>1 DEF AppendSlot
  <2>2. CASE RetrySlot
    <3>1. BeginMap(FreeIndex) /\ Retries
      BY <2>2 DEF RetrySlot
    <3> QED
      BY <1>1, <2>2, <3>1, RetryFree
  <2> QED
    BY <2>1, <2>2
<1>6. work'.kind = "map" /\ work'.slot = i /\ work'.plan = MapPlan
  BY <1>5 DEF BeginMap
<1>7. /\ \A j \in PoolIndex : pool'[j].live = pool[j].live
      /\ \A j \in PoolIndex \ {i} : pool'[j] = pool[j]
  BY <1>3, <1>5 DEF BeginMap, PoolSlot
<1>8. Live' = Live /\ i \notin Live /\ Live \subseteq PoolIndex
  <2>1. Retries => \A j \in PoolIndex : j >= appended => ~pool[j].live
    BY <1>1 DEF HandApart
  <2>2. ASSUME NEW j \in PoolIndex
        PROVE  j < appended' /\ pool'[j].live <=> j < appended /\ pool[j].live
    <3>1. j \in Nat /\ appended' \in Nat /\ appended' >= appended /\ (pool'[j].live <=> pool[j].live)
      BY <1>3, <1>5, <1>7
    <3>2. CASE Retries
      <4>1. j >= appended => ~pool[j].live
        BY <2>1, <3>2
      <4> QED
        BY <1>3, <3>1, <4>1
    <3>3. CASE ~Retries
      BY <1>5, <3>1, <3>3
    <3> QED
      BY <3>2, <3>3
  <2>3. Live' = Live
    BY <2>2 DEF Live
  <2>4. i \notin Live
    BY <1>3, <1>5 DEF Live
  <2> QED
    BY <2>3, <2>4 DEF Live
<1>9. /\ ~HandMade /\ ~HandMapped /\ ~HandMade' /\ ~HandMapped'
      /\ Others = Live /\ Others' = Live
  BY <1>1, <1>4, <1>6, <1>8 DEF HandMade, HandMapped, HandMapOver, Others
<1>10. HandApart'
  <2>1. ASSUME Retries, NEW j \in PoolIndex, j >= appended'
        PROVE  ~pool'[j].live
    <3>1. j >= appended
      BY <1>3, <1>5, <2>1
    <3>2. ~pool[j].live
      BY <1>1, <2>1, <3>1 DEF HandApart
    <3> QED
      BY <1>7, <3>2
  <2> QED
    BY <1>1, <1>2, <1>5, <1>6, <1>8, <2>1 DEF HandApart
<1>11. /\ WithMemory = Live /\ WithMapping = Live
       /\ WithMemory' = Live /\ WithMapping' = Live
  BY <1>9 DEF WithMemory, WithMapping
<1> QED
  BY <1>1, <1>2, <1>7, <1>8, <1>10, <1>11, OwnersRenamed

LEMMA TeardownOwns ==
  ASSUME ControlInv, StockInv, Owned, TeardownNext
  PROVE  StockInv'
<1>1. /\ PoolOK /\ StageKept /\ HandApart /\ MemoryOwned /\ MappingsOwned /\ stage = "teardown"
      /\ work.kind = "none" /\ work.plan = << >>
      /\ UNCHANGED <<setup, appended>> /\ UNCHANGED vars /\ Live # {}
  BY FreeRests DEF ControlInv, StockInv, TeardownNext, Free
<1>2. /\ UNCHANGED driverVars /\ Cycling' = Cycling /\ Retries' = Retries /\ ~Cycling
  BY <1>1 DEF vars, Cycling, Retries, bench, StageKept
<1>3. PICK i \in Live : BeginTeardown(i)
  BY <1>1, LiveInPool DEF TeardownNext
<1>4. /\ work'.kind = "teardown" /\ work'.slot = i /\ work'.plan = TeardownPlan
      /\ pool' = pool
  BY <1>3 DEF BeginTeardown
<1>5. /\ << >> \notin MadePlans /\ << >> \notin MappedPlans
      /\ TeardownPlan \in MadePlans /\ TeardownPlan \in MappedPlans
  BY DEF TeardownPlan, MadePlans, MappedPlans
<1>6. Live' = Live
  BY <1>1, <1>4 DEF Live
<1>7. /\ ~HandMade /\ ~HandMapped /\ HandMade' /\ HandMapped'
      /\ Others = Live /\ Others' = Live \ {i}
  BY <1>1, <1>4, <1>5, <1>6 DEF HandMade, HandMapped, HandMapOver, Others
<1>8. /\ WithMemory = Live /\ WithMapping = Live
      /\ WithMemory' = Live /\ WithMapping' = Live
  BY <1>3, <1>4, <1>7 DEF WithMemory, WithMapping
<1>9. HandApart'
  BY <1>1, <1>2, <1>4 DEF HandApart
<1> QED
  BY <1>1, <1>2, <1>4, <1>8, <1>9, OwnersRenamed

LEMMA CycleOwns ==
  ASSUME ControlInv, StockInv, Owned, BeginCycle
  PROVE  StockInv'
<1>1. /\ PoolOK /\ HandApart /\ MemoryOwned /\ MappingsOwned /\ Cycling
      /\ work.kind = "none" /\ work.plan = << >>
      /\ UNCHANGED <<setup, appended>> /\ UNCHANGED vars
      /\ work' = [kind |-> "cycle", slot |-> 0, plan |-> CyclePlan]
  BY FreeRests DEF ControlInv, StockInv, BeginCycle, Free
<1>2. /\ UNCHANGED driverVars /\ Cycling' = Cycling /\ Retries' = Retries /\ ~Retries
  BY <1>1 DEF vars, Cycling, Retries, bench
<1>3. appended = 0 /\ Live = {} /\ Live' = {}
  BY <1>1, <1>2, LiveInPool DEF HandApart, Live
<1>4. /\ << >> \notin MadePlans /\ << >> \notin MappedPlans
      /\ CyclePlan \notin MadePlans /\ CyclePlan \notin MappedPlans
  BY DEF CyclePlan, MadePlans, MappedPlans
<1>5. ~HandMade /\ ~HandMapped /\ ~HandMade' /\ ~HandMapped' /\ Others = {} /\ Others' = {}
  BY <1>1, <1>3, <1>4 DEF HandMade, HandMapped, HandMapOver, Others
<1>6. WithMemory = {} /\ WithMapping = {} /\ WithMemory' = {} /\ WithMapping' = {}
  BY <1>5 DEF WithMemory, WithMapping
<1>7. HandApart'
  BY <1>1, <1>2, <1>3 DEF HandApart
<1> QED
  BY <1>1, <1>2, <1>6, <1>7, OwnersRenamed

(* A new context, or the end of the process, takes what there was.         *)
LEMMA ContextOwns ==
  ASSUME ControlInv, NewContext \/ (StockInv /\ Owned /\ Fini)
  PROVE  StockInv'
<1>1. CASE NewContext
  <2>1. /\ DriverContextDestroy /\ appended' = 0 /\ bench = "frag" /\ PoolOK'
        /\ UNCHANGED <<setup, work>> /\ stage = "reset" /\ PoolOK /\ KindOK
    BY <1>1, NewContextKeeps DEF NewContext, ControlInv
  <2>2. work'.kind = "none" /\ work'.plan = << >>
    BY <2>1 DEF KindOK, PoolOK, WorkRecord
  <2>3. Live' = {} /\ ~Cycling' /\ ~Retries'
    BY <2>1, LiveInPool DEF Live, Cycling, Retries, bench, PoolIndex
  <2>4. HandApart'
    BY <2>1, <2>2, <2>3 DEF HandApart
  <2>5. WithMemory' = {} /\ WithMapping' = {}
    BY <2>2, <2>3
    DEF WithMemory, WithMapping, Others, HandMade, HandMapped, HandMapOver, MadePlans, MappedPlans
  <2>6. Memory' = {} /\ mappings' = {}
    BY <2>1 DEF Memory, DriverContextDestroy
  <2> QED
    BY <2>4, <2>5, <2>6, NoOwner
<1>2. CASE StockInv /\ Owned /\ Fini
  <2>1. /\ UNCHANGED <<setup, pool, appended, work>> /\ Live = {} /\ work.kind = "none"
        /\ work.plan = << >> /\ HandApart /\ MemoryOwned /\ MappingsOwned
        /\ UNCHANGED driverVars \/ DriverContextDestroy
    BY <1>2, FreeRests DEF Fini, Free, StockInv
  <2>2. Live' = {} /\ Cycling' = Cycling /\ Retries' = Retries
    BY <2>1 DEF Live, Cycling, Retries, bench
  <2>3. HandApart'
    BY <2>1, <2>2 DEF HandApart
  <2>4. /\ WithMemory = {} /\ WithMapping = {}
        /\ WithMemory' = {} /\ WithMapping' = {}
    BY <2>1, <2>2
    DEF WithMemory, WithMapping, Others, HandMade, HandMapped, HandMapOver, MadePlans, MappedPlans
  <2>5. CASE UNCHANGED driverVars
    BY <2>1, <2>3, <2>4, <2>5, OwnersRenamed
  <2>6. CASE DriverContextDestroy
    <3>1. Memory' = {} /\ mappings' = {}
      BY <2>6 DEF Memory, DriverContextDestroy
    <3> QED
      BY <2>3, <2>4, <3>1, NoOwner
  <2> QED
    BY <2>1, <2>5, <2>6
<1> QED
  BY <1>1, <1>2

LEMMA StockStarts == BenchInit => StockInv
<1> SUFFICES ASSUME BenchInit PROVE StockInv
  OBVIOUS
<1>1. /\ appended = 0 /\ work = NoWork /\ pool = [i \in PoolIndex |-> BlankSlot]
      /\ physLen = [h \in Handle |-> 0] /\ mappings = {}
  BY DEF BenchInit, ShimInit, DriverInit
<1>2. Live = {} /\ Memory = {}
  BY <1>1, HarnessAssumption DEF Live, PoolIndex, Memory
<1>3. HandApart
  BY <1>1, <1>2 DEF HandApart, NoWork, BlankSlot
<1>4. WithMemory = {} /\ WithMapping = {}
  BY <1>1, <1>2
  DEF WithMemory, WithMapping, Others, HandMade, HandMapped, HandMapOver, MadePlans, MappedPlans, NoWork
<1> QED
  BY <1>1, <1>2, <1>3, <1>4 DEF StockInv, MemoryOwned, MappingsOwned

(* Only a new context brings a bench to where its memory is accounted for. *)
LEMMA OwnedBefore ==
  ASSUME ControlInv, HarnessNext, ~NewContext, Owned'
  PROVE  Owned
<1>1. setup' = setup /\ Shimmed' = Shimmed /\ bench' = bench
  <2>1. setup' = setup
    BY DEF HarnessNext, StartCall, InCall, FinishCall, StockCall, SetAccess, WorkDone,
       ChurnMap, ChurnFree, ChurnEnd, SweepOrReset, InReset, AppendSlot, CountHead, RetrySlot,
       FillEnd, TeardownNext, Fini, BeginCycle, CyclesEnd, Finished, benchVars, harnessVars
  <2> QED
    BY <2>1 DEF Shimmed, bench
<1>2. \/ stage' = stage
      \/ stage \in {"resident", "probe", "teardown", "end"}
      \/ stage' \in {"sweep", "reset"}
  <2>1. CASE WorkDone
    <3>1. stage \in Stages /\ work.kind \in {"map", "cycle", "undo", "teardown"}
          /\ KindOK
      BY <2>1 DEF ControlInv, StageKept, PoolOK, WorkRecord, WorkDone
    <3>2. CASE stage \in {"churn", "sweep"}
      <4>1. CASE work.kind = "undo"
        <5>1. stage = "churn"
          BY <3>1, <3>2, <4>1 DEF KindOK
        <5>2. AfterFailure = stage /\ stage' = AfterFailure
          <6>1. bench = "frag"
            BY <5>1 DEF ControlInv, StageKept
          <6> QED
            BY <2>1, <4>1, <5>1, <6>1 DEF WorkDone, AfterFailure, Cycling
        <5> QED
          BY <5>2
      <4>2. CASE work.kind \in {"map", "teardown"}
        BY <2>1, <4>2 DEF WorkDone
      <4> QED
        BY <3>1, <3>2, <4>1, <4>2 DEF KindOK
    <3>3. stage # "reset"
      BY <3>1 DEF KindOK
    <3> QED
      BY <3>1, <3>2, <3>3 DEF Stages
  <2> QED
    BY <2>1 DEF HarnessNext, StartCall, InCall, FinishCall, StockCall, SetAccess,
       ChurnMap, ChurnFree, ChurnEnd, SweepOrReset, InReset, AppendSlot, CountHead, RetrySlot,
       FillEnd, TeardownNext, Fini, BeginCycle, CyclesEnd, Finished, benchVars, harnessVars
<1> QED
  BY <1>1, <1>2 DEF Owned

LEMMA StockKept ==
  ASSUME ~GiveBackFails, ControlInv, StockInv, [HarnessNext]_harnessVars
  PROVE  StockInv'
<1> USE OneThread
<1>1. CASE UNCHANGED harnessVars
  <2>1. UNCHANGED <<setup, stage, pool, appended, work>> /\ UNCHANGED driverVars
    BY <1>1 DEF harnessVars, vars, benchVars
  <2>2. Owned' = Owned
    BY <2>1 DEF Owned, Shimmed, bench
  <2> QED
    BY <2>1, <2>2, StockRests
<1>2. CASE NewContext
  BY <1>2, ContextOwns
<1>3. CASE HarnessNext /\ ~NewContext /\ ~Owned'
  BY <1>3 DEF StockInv
<1>4. CASE HarnessNext /\ ~NewContext /\ Owned
  <2>1. PoolOK /\ KindOK /\ CallPlanned /\ ~Shimmed /\ stage \in {"resident", "probe", "teardown", "end"}
    BY <1>4 DEF ControlInv, Owned
  <2>2. Now.pc = "idle"
    BY <2>1 DEF CallPlanned
  <2>3. ~StartCall /\ ~InCall /\ ~FinishCall
    <3>1. InCall => Now.pc \notin {"idle", "done"}
      BY ShimStepKeeps DEF ControlInv, Now, InCall
    <3> QED
      BY <2>1, <2>2, <3>1 DEF StartCall, FinishCall, Done, Now
  <2>4. ~(ChurnMap \/ ChurnFree \/ ChurnEnd \/ SweepOrReset \/ InReset)
    BY <2>1 DEF ChurnMap, ChurnFree, ChurnEnd, SweepOrReset, InReset, Churning
  <2>5. CASE CountHead \/ FillEnd \/ CyclesEnd
    <3>1. UNCHANGED <<setup, pool, appended, work>> /\ UNCHANGED vars
      BY <2>5 DEF CountHead, FillEnd, CyclesEnd
    <3>2. UNCHANGED driverVars
      BY <3>1 DEF vars
    <3> QED
      BY <1>4, <3>1, <3>2, StockRests
  <2>6. CASE Finished
    BY <1>1, <2>6 DEF Finished
  <2>7. \/ StockCall \/ SetAccess \/ WorkDone \/ AppendSlot \/ RetrySlot \/ TeardownNext
        \/ Fini \/ BeginCycle \/ CountHead \/ FillEnd \/ CyclesEnd \/ Finished
    BY <1>4, <2>3, <2>4 DEF HarnessNext
  <2> QED
    BY <1>4, <2>5, <2>6, <2>7, StockOwns, AccessOwns, DoneOwns, MapOwns, TeardownOwns, CycleOwns,
       ContextOwns
<1> QED
  BY <1>1, <1>2, <1>3, <1>4, OwnedBefore

(* On the driver alone a bench gives everything back: once its slots are   *)
(* torn down, or between two cycles, no memory and no mapping is left with *)
(* the driver, whatever reserve, create, map or access failed and whatever *)
(* was unwound; the driver takes back what it is legally given back.       *)
THEOREM StockGivesAllBack ==
  ASSUME ~GiveBackFails
  PROVE  HarnessSpec => [](~Shimmed => MemoryReturned)
<1>1. ASSUME ControlInv, StockInv, ~Shimmed
      PROVE  MemoryReturned
  <2> SUFFICES ASSUME Free, (stage = "teardown" /\ Live = {}) \/ bench = "alloc"
               PROVE  Memory = {} /\ mappings = {}
    BY DEF MemoryReturned
  <2>1. Owned /\ PoolOK /\ StageKept /\ work.kind = "none" /\ work.plan = << >>
    BY <1>1 DEF Owned, ControlInv, KindOK, StageKept, Stages, Free, Cycling
  <2>2. HandApart /\ MemoryOwned /\ MappingsOwned
    BY <1>1, <2>1 DEF StockInv
  <2>3. Live = {}
    <3>1. bench = "alloc" => appended = 0
      BY <2>2 DEF HandApart, Cycling
    <3> QED
      BY <2>1, <3>1, LiveInPool DEF Live
  <2>4. WithMemory = {} /\ WithMapping = {}
    BY <2>1, <2>3
    DEF WithMemory, WithMapping, Others, HandMade, HandMapped, HandMapOver, MadePlans, MappedPlans
  <2> QED
    BY <2>2, <2>4 DEF MemoryOwned, MappingsOwned
<1>2. ControlInv /\ StockInv /\ [HarnessNext]_harnessVars => StockInv'
  BY StockKept
<1> QED
  BY <1>1, <1>2, ControlInvariant, StockStarts, PTL DEF HarnessSpec
=============================================================================
