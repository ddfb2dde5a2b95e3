------------------------------ MODULE ShimProofs ------------------------------
(***************************************************************************)
(* Proofs about the interposed calls, for any number of threads and any    *)
(* setting of the packing, alias and driver options.                       *)
(*                                                                         *)
(* A call writes what the properties are about in a few of its steps only: *)
(* where it begins, commits, rolls back or frees a slot, where it makes,   *)
(* binds, charges or unbinds a handle.  Every other step is Bookkeeping:   *)
(* which slots are in use, their addresses and handles, the committed      *)
(* total and the phase of the call stay as they are.  That is proved once  *)
(* for all of them; each property is then a matter of the steps that are   *)
(* left.                                                                   *)
(***************************************************************************)
EXTENDS Shim, TableProofs

-----------------------------------------------------------------------------
(* The steps of a call by what has been done so far.                       *)

PendingPc == {"rsv_req", "rsv_gqa", "rsv_flush", "rsv_try", "rsv_mega", "rsv_driver",
              "rsv_rollback", "rsv_commit", "rsv_dcommit"}
GrantedPc == {"rsv_mark", "rsv_off", "rsv_setoff", "rsv_leafoff", "rsv_register",
              "rsv_dregister", "rsv_window"}
RoutedPc == {"rsv_commit", "rsv_mark", "rsv_off", "rsv_setoff"}
ReservePc == {"rsv_begin"} \union PendingPc \union GrantedPc
AskedPc == {"crt_packed", "crt_retain", "crt_share", "crt_validate", "crt_driver"}
BoundPc == {"crt_snapshot", "crt_open"}
CreatePc == AskedPc \union {"crt_bind"} \union BoundPc
MapPc == {"map_validate", "map_route", "map_packed", "map_off", "map_driver", "map_mark",
          "map_usage", "map_active", "map_req", "map_bump"}
UnmapPc == {"unm_validate", "unm_known", "unm_route", "unm_driver", "unm_clear"}
ReleasePc == {"rel_validate", "rel_ref", "rel_driver", "rel_clear"}
FreePc == {"fre_lookup", "fre_route", "fre_driver", "fre_slot"}
ResetPc == {"rst_flush", "rst_pack", "rst_gqa", "rst_slots"}

Pc == {"idle", "done"} \union ReservePc \union CreatePc \union MapPc \union UnmapPc
      \union ReleasePc \union FreePc \union ResetPc
Op == {"none", "reserve", "create", "map", "unmap", "release", "free", "reset"}

CallRecord ==
  [pc : Pc, op : Op, va : Nat, size : Nat, sz : Nat, off : Nat, h : Handle,
   route : {"none", "alias", "sub", "leaf"}, ok : BOOLEAN]

(* A call is at a step of its own, with what that step needs: the route an *)
(* address was granted by, a leaf's offset below its slice, a whole leaf.  *)
StageOK(c) ==
  /\ \/ c.op = "none" /\ c.pc = "idle"
     \/ c.op = "reserve" /\ c.pc \in {"done"} \union ReservePc
     \/ c.op = "create" /\ c.pc \in {"done"} \union CreatePc
     \/ c.op = "map" /\ c.pc \in {"done"} \union MapPc
     \/ c.op = "unmap" /\ c.pc \in {"done"} \union UnmapPc
     \/ c.op = "release" /\ c.pc \in {"done"} \union ReleasePc
     \/ c.op = "free" /\ c.pc \in {"done"} \union FreePc
     \/ c.op = "reset" /\ c.pc \in {"done"} \union ResetPc
  /\ c.pc \in RoutedPc => c.route # "none"
  /\ c.pc = "rsv_register" => c.off <= c.va
  /\ c.pc = "rsv_window" => Leaf <= c.sz

BucketRecord == [logical : Nat, base : Nat, heads : Nat]

CallsOK == call \in [Thread -> CallRecord] /\ \A t \in Thread : StageOK(call[t])
StateOK == SlotInv /\ PackInv /\ buckets \in Seq(BucketRecord)
ShimInv == StateOK /\ CallsOK

(* The phase of a call: a slot is pending, an address is granted, physical *)
(* memory is made, its handle is bound; or the call has succeeded.         *)
Pending(c) == c.pc \in PendingPc
Succeeded(c, op) == c.op = op /\ c.pc = "done" /\ c.ok
Granted(c) == c.pc \in GrantedPc \/ Succeeded(c, "reserve")
Made(c) == c.pc = "crt_bind"
Bound(c) == c.pc \in BoundPc

SamePhase(c, d) ==
  /\ Pending(d) <=> Pending(c)
  /\ Granted(d) <=> Granted(c)
  /\ Made(d) <=> Made(c)
  /\ Bound(d) <=> Bound(c)
  /\ \A op \in {"create", "release", "free"} : Succeeded(d, op) <=> Succeeded(c, op)
  /\ Granted(c) => d.va = c.va
  /\ Bound(c) => d.h = c.h

CallMoves(t) ==
  /\ CallsOK'
  /\ \A s \in Thread \ {t} : call'[s] = call[s]
  /\ call'[t].op = call[t].op /\ call'[t].size = call[t].size

SlotsKept ==
  /\ pending' = pending
  /\ \A i \in Index : /\ slots'[i].gen = slots[i].gen /\ slots'[i].va = slots[i].va
                      /\ slots'[i].hasHandle = slots[i].hasHandle
                      /\ slots'[i].handle = slots[i].handle

QuietCall(t) == CallMoves(t) /\ SamePhase(call[t], call'[t])
Bookkeeping(t) == QuietCall(t) /\ SlotsKept /\ committed' = committed

-----------------------------------------------------------------------------
(* How a call moves on.                                                    *)

LEMMA OpOfPc ==
  ASSUME NEW c, StageOK(c)
  PROVE  /\ c.pc \in ReservePc => c.op = "reserve"
         /\ c.pc \in CreatePc => c.op = "create"
         /\ c.pc \in MapPc => c.op = "map"
         /\ c.pc \in UnmapPc => c.op = "unmap"
         /\ c.pc \in ReleasePc => c.op = "release"
         /\ c.pc \in FreePc => c.op = "free"
         /\ c.pc \in ResetPc => c.op = "reset"
  BY DEF StageOK, ReservePc, PendingPc, GrantedPc, CreatePc, AskedPc, BoundPc, MapPc,
         UnmapPc, ReleasePc, FreePc, ResetPc

LEMMA PcsApart ==
  /\ "done" \notin RoutedPc
  /\ "done" \notin ReservePc \union CreatePc \union MapPc \union UnmapPc
                   \union ReleasePc \union FreePc \union ResetPc
  /\ PendingPc \intersect GrantedPc = {} /\ "rsv_begin" \notin PendingPc \union GrantedPc
  /\ AskedPc \intersect BoundPc = {} /\ "crt_bind" \notin AskedPc \union BoundPc
  /\ PendingPc \subseteq ReservePc /\ GrantedPc \subseteq ReservePc /\ "rsv_begin" \in ReservePc
  /\ AskedPc \subseteq CreatePc /\ BoundPc \subseteq CreatePc /\ "crt_bind" \in CreatePc
  /\ {"done"} \union ReservePc \union CreatePc \union MapPc \union UnmapPc
     \union ReleasePc \union FreePc \union ResetPc \subseteq Pc
  BY DEF Pc, RoutedPc, ReservePc, PendingPc, GrantedPc, CreatePc, AskedPc, BoundPc, MapPc,
         UnmapPc, ReleasePc, FreePc, ResetPc

LEMMA MoveTo ==
  ASSUME CallsOK, NEW t \in Thread, NEW d \in CallRecord, StageOK(d),
         d.op = call[t].op, d.size = call[t].size, call' = [call EXCEPT ![t] = d]
  PROVE  CallMoves(t) /\ call'[t] = d
<1>1. \A s \in Thread : call'[s] \in CallRecord /\ StageOK(call'[s])
  BY DEF CallsOK
<1> QED
  BY <1>1 DEF CallsOK, CallMoves

(* Steps from p to q, and returns from p, that leave the phase as it is.   *)
StaysIn(p, q) ==
  \/ p \in PendingPc /\ q \in PendingPc
  \/ p \in GrantedPc /\ q \in GrantedPc
  \/ p \in AskedPc /\ q \in AskedPc
  \/ p \in BoundPc /\ q \in BoundPc
  \/ p \in MapPc /\ q \in MapPc
  \/ p \in UnmapPc /\ q \in UnmapPc
  \/ p \in ReleasePc /\ q \in ReleasePc
  \/ p \in FreePc /\ q \in FreePc
  \/ p \in ResetPc /\ q \in ResetPc

LeavesBy(p, ok) ==
  \/ p \in GrantedPc /\ ok
  \/ p \in {"rsv_begin"} \union AskedPc \union ReleasePc \union FreePc /\ ~ok
  \/ p \in MapPc \union UnmapPc \union ResetPc

LEMMA QuietMove ==
  ASSUME CallsOK, NEW t \in Thread, NEW d \in CallRecord,
         d.op = call[t].op, d.size = call[t].size, call' = [call EXCEPT ![t] = d],
         StaysIn(call[t].pc, d.pc) \/ (d.pc = "done" /\ LeavesBy(call[t].pc, d.ok)),
         call[t].pc \in GrantedPc => d.va = call[t].va,
         call[t].pc \in BoundPc => d.h = call[t].h,
         d.pc \in RoutedPc => d.route # "none",
         d.pc = "rsv_register" => d.off <= d.va,
         d.pc = "rsv_window" => Leaf <= d.sz
  PROVE  QuietCall(t) /\ call'[t] = d
<1> DEFINE c == call[t]
<1>1. c \in CallRecord /\ StageOK(c)
  BY DEF CallsOK
<1> HIDE DEF c
<1>2. d.op = c.op /\ (StaysIn(c.pc, d.pc) \/ (d.pc = "done" /\ LeavesBy(c.pc, d.ok)))
  BY DEF c
<1>3. StageOK(d)
  BY <1>1, <1>2, OpOfPc, PcsApart DEF StageOK, StaysIn, LeavesBy, ReservePc
<1>4. SamePhase(c, d)
  <2>1. CASE StaysIn(c.pc, d.pc)
    BY <1>1, <1>2, <1>3, <2>1, OpOfPc, PcsApart
    DEF StaysIn, SamePhase, Pending, Granted, Made, Bound, Succeeded, c
  <2>2. CASE d.pc = "done" /\ LeavesBy(c.pc, d.ok)
    <3>1. /\ c.pc # "done" /\ d.pc = "done" /\ ~Pending(d) /\ ~Made(d) /\ ~Bound(d)
          /\ ~Pending(c) /\ ~Made(c) /\ ~Bound(c)
      BY <2>2, PcsApart, OpOfPc, <1>1 DEF LeavesBy, Pending, Made, Bound
    <3>2. Granted(c) <=> Granted(d)
      BY <1>1, <1>2, <2>2, <3>1, OpOfPc, PcsApart DEF LeavesBy, Granted, Succeeded
    <3>3. \A op \in {"create", "release", "free"} : ~Succeeded(c, op) /\ ~Succeeded(d, op)
      BY <1>1, <1>2, <2>2, <3>1, OpOfPc, PcsApart DEF LeavesBy, Succeeded
    <3>4. Granted(c) => d.va = c.va
      BY <3>1 DEF Granted, Succeeded, c
    <3> QED
      BY <3>1, <3>2, <3>3, <3>4 DEF SamePhase
  <2> QED
    BY <1>2, <2>1, <2>2
<1>5. CallMoves(t) /\ call'[t] = d
  BY <1>3, MoveTo
<1> QED
  BY <1>4, <1>5 DEF QuietCall, c

LEMMA QuietGoto ==
  ASSUME CallsOK, NEW t \in Thread, NEW q, Goto(t, q), StaysIn(call[t].pc, q),
         q \in RoutedPc => call[t].route # "none",
         q = "rsv_register" => call[t].off <= call[t].va,
         q = "rsv_window" => Leaf <= call[t].sz
  PROVE  QuietCall(t)
<1> DEFINE d == [call[t] EXCEPT !.pc = q]
<1>1. q \in Pc
  BY PcsApart DEF StaysIn
<1>2. /\ d \in CallRecord /\ d.op = call[t].op /\ d.size = call[t].size /\ d.pc = q
      /\ d.va = call[t].va /\ d.h = call[t].h /\ d.off = call[t].off /\ d.sz = call[t].sz
      /\ d.route = call[t].route
  BY <1>1 DEF CallsOK, CallRecord
<1>3. call' = [call EXCEPT ![t] = d]
  BY DEF Goto
<1> HIDE DEF d
<1> QED
  BY <1>2, <1>3, QuietMove

LEMMA QuietReturn ==
  ASSUME CallsOK, NEW t \in Thread, NEW ok \in BOOLEAN, Return(t, ok),
         LeavesBy(call[t].pc, ok)
  PROVE  QuietCall(t)
<1> DEFINE d == [call[t] EXCEPT !.pc = "done", !.ok = ok]
<1>1. /\ d \in CallRecord /\ d.op = call[t].op /\ d.size = call[t].size /\ d.pc = "done"
      /\ d.va = call[t].va /\ d.h = call[t].h /\ d.ok = ok
  BY PcsApart DEF CallsOK, CallRecord
<1>2. call' = [call EXCEPT ![t] = d]
  BY DEF Return
<1> HIDE DEF d
<1>3. d.pc \notin RoutedPc /\ d.pc # "rsv_register" /\ d.pc # "rsv_window"
  BY <1>1, PcsApart
<1>4. StaysIn(call[t].pc, d.pc) \/ (d.pc = "done" /\ LeavesBy(call[t].pc, d.ok))
  BY <1>1
<1> QED
  BY <1>1, <1>2, <1>3, <1>4, QuietMove

-----------------------------------------------------------------------------
(* How the state moves on: one component at a time.                        *)

LEMMA SlotsSame ==
  ASSUME SlotInv, UNCHANGED slotVars
  PROVE  SlotInv' /\ SlotsKept
  BY DEF slotVars, SlotInv, SlotTypeOK, CountExact, PendingVirgin, Used, SlotsKept

LEMMA PackSame ==
  ASSUME PackInv, UNCHANGED packVars
  PROVE  PackInv' /\ committed' = committed
  BY DEF packVars, PackInv, PackTypeOK, ArenaBounded, WindowCoherent

LEMMA CallAlone ==
  ASSUME StateOK, UNCHANGED shimVars
  PROVE  StateOK' /\ SlotsKept /\ committed' = committed
<1>1. UNCHANGED slotVars /\ UNCHANGED packVars /\ buckets' = buckets
  BY DEF shimVars
<1> QED
  BY <1>1, SlotsSame, PackSame DEF StateOK

LEMMA SlotsAlone ==
  ASSUME StateOK, SlotInv', OnlySlots
  PROVE  StateOK' /\ committed' = committed
<1>1. UNCHANGED packVars /\ buckets' = buckets
  BY DEF OnlySlots
<1> QED
  BY <1>1, PackSame DEF StateOK

LEMMA PackAlone ==
  ASSUME StateOK, PackInv', OnlyPack
  PROVE  StateOK' /\ SlotsKept
<1>1. UNCHANGED slotVars /\ buckets' = buckets
  BY DEF OnlyPack
<1> QED
  BY <1>1, SlotsSame DEF StateOK

LEMMA BucketsAlone ==
  ASSUME StateOK, buckets' \in Seq(BucketRecord), OnlyBuckets
  PROVE  StateOK' /\ SlotsKept /\ committed' = committed
<1>1. UNCHANGED slotVars /\ UNCHANGED packVars
  BY DEF OnlyBuckets
<1> QED
  BY <1>1, SlotsSame, PackSame DEF StateOK

(* What the lookups find.                                                  *)
LEMMA FoundByVa ==
  ASSUME NEW va
  PROVE  LET S == {i \in Used : slots[i].va = va}
         IN  /\ S # {} => FindByVa(va) \in S
             /\ S = {} => FindByVa(va) = -1
             /\ FindByVa(va) >= 0 => FindByVa(va) \in S
<1> DEFINE S == {i \in Used : slots[i].va = va}
<1>1. S \in SUBSET Nat
  BY IndexIsNat, UsedIsIndex
<1>2. FindByVa(va) = FirstOf(S)
  BY DEF FindByVa
<1> HIDE DEF S
<1>3. IF S = {} THEN FirstOf(S) = -1 ELSE FirstOf(S) \in S
  BY <1>1, FirstOfMember
<1>4. /\ S # {} => FindByVa(va) \in S
      /\ S = {} => FindByVa(va) = -1
      /\ FindByVa(va) >= 0 => FindByVa(va) \in S
  BY <1>2, <1>3
<1> QED
  BY <1>4 DEF S

LEMMA FoundByHandle ==
  ASSUME NEW h
  PROVE  /\ SlotsBoundTo(h) # {} => FindByHandle(h) \in SlotsBoundTo(h)
         /\ SlotsBoundTo(h) = {} => FindByHandle(h) = -1
<1> DEFINE S == {i \in Used : slots[i].hasHandle /\ slots[i].handle = h}
<1>1. S \in SUBSET Nat
  BY IndexIsNat, UsedIsIndex
<1>2. FindByHandle(h) = FirstOf(S) /\ SlotsBoundTo(h) = S
  BY DEF FindByHandle, SlotsBoundTo
<1> HIDE DEF S
<1> QED
  BY <1>1, <1>2, FirstOfMember

LEMMA FoundPendingCreate ==
  FindPendingCreate >= 0 =>
    /\ FindPendingCreate \in Used
    /\ slots[FindPendingCreate].va # NoVa /\ ~slots[FindPendingCreate].hasHandle
<1> DEFINE S == {i \in Used : slots[i].va # NoVa /\ ~slots[i].hasHandle}
<1>1. S \in SUBSET Index
  BY UsedIsIndex
<1>2. FindPendingCreate = LastOf(S)
  BY DEF FindPendingCreate
<1> HIDE DEF S
<1>3. FindPendingCreate >= 0 => FindPendingCreate \in S
  BY <1>1, <1>2, LastOfMember
<1> QED
  BY <1>3 DEF S

(* A write that touches neither address nor handle of a slot.              *)
LEMMA WriteSameBinding ==
  ASSUME SlotInv, NEW idx, NEW rec, WriteSlot(idx, rec),
         idx \in Used => /\ rec.gen = slots[idx].gen /\ rec.va = slots[idx].va
                         /\ rec.hasHandle = slots[idx].hasHandle
                         /\ rec.handle = slots[idx].handle
  PROVE  SlotsKept
<1>1. CASE idx \in Used
  <2>1. slots' = [slots EXCEPT ![idx] = rec] /\ idx \in Index
    BY <1>1, UsedIsIndex DEF WriteSlot
  <2> QED
    BY <1>1, <2>1 DEF SlotsKept, WriteSlot, SlotInv, SlotTypeOK
<1>2. CASE idx \notin Used
  BY <1>2 DEF SlotsKept, WriteSlot
<1> QED
  BY <1>1, <1>2

LEMMA FieldsKept ==
  ASSUME SlotInv,
         \/ \E va \in Nat : MarkMapped(va) \/ ClearMapped(va)
         \/ \E req \in Nat : SetReqBytes(req)
         \/ \E va \in Nat, on \in BOOLEAN : MarkPackedByVa(va, on)
         \/ \E va \in Nat, offset \in Nat : SetMapOffset(va, offset)
  PROVE  SlotInv' /\ SlotsKept
<1>1. \A idx \in Used : slots[idx] \in SlotRecord
  BY UsedIsIndex DEF SlotInv, SlotTypeOK
<1>2. ASSUME NEW va \in Nat, NEW on \in BOOLEAN,
             WriteSlot(FindByVa(va), [slots[FindByVa(va)] EXCEPT !.mapped = on])
      PROVE  SlotsKept
  <2> DEFINE idx == FindByVa(va)
  <2> DEFINE rec == [slots[idx] EXCEPT !.mapped = on]
  <2>1. idx \in Used => /\ rec.gen = slots[idx].gen /\ rec.va = slots[idx].va
                        /\ rec.hasHandle = slots[idx].hasHandle
                        /\ rec.handle = slots[idx].handle
    BY <1>1 DEF SlotRecord
  <2> HIDE DEF idx, rec
  <2> QED
    BY <1>2, <2>1, WriteSameBinding DEF idx, rec
<1>3. ASSUME NEW req \in Nat, SetReqBytes(req)
      PROVE  SlotsKept
  <2> DEFINE idx == ReserveTarget
  <2> DEFINE rec == [slots[idx] EXCEPT !.req = req]
  <2>1. idx \in Used => /\ rec.gen = slots[idx].gen /\ rec.va = slots[idx].va
                        /\ rec.hasHandle = slots[idx].hasHandle
                        /\ rec.handle = slots[idx].handle
    BY <1>1 DEF SlotRecord
  <2>2. WriteSlot(idx, rec)
    BY <1>3 DEF SetReqBytes
  <2> HIDE DEF idx, rec
  <2> QED
    BY <2>1, <2>2, WriteSameBinding
<1>4. ASSUME NEW va \in Nat, NEW on \in BOOLEAN, MarkPackedByVa(va, on)
      PROVE  SlotsKept
  <2> DEFINE idx == FindByVa(va)
  <2> DEFINE rec == [slots[idx] EXCEPT !.packed = on]
  <2>1. idx \in Used => /\ rec.gen = slots[idx].gen /\ rec.va = slots[idx].va
                        /\ rec.hasHandle = slots[idx].hasHandle
                        /\ rec.handle = slots[idx].handle
    BY <1>1 DEF SlotRecord
  <2>2. WriteSlot(idx, rec)
    BY <1>4 DEF MarkPackedByVa
  <2> HIDE DEF idx, rec
  <2> QED
    BY <2>1, <2>2, WriteSameBinding
<1>5. ASSUME NEW va \in Nat, NEW offset \in Nat, SetMapOffset(va, offset)
      PROVE  SlotsKept
  <2> DEFINE idx == FindByVa(va)
  <2> DEFINE rec == [slots[idx] EXCEPT !.offset = offset]
  <2>1. idx \in Used => /\ rec.gen = slots[idx].gen /\ rec.va = slots[idx].va
                        /\ rec.hasHandle = slots[idx].hasHandle
                        /\ rec.handle = slots[idx].handle
    BY <1>1 DEF SlotRecord
  <2>2. WriteSlot(idx, rec)
    BY <1>5 DEF SetMapOffset
  <2> HIDE DEF idx, rec
  <2> QED
    BY <2>1, <2>2, WriteSameBinding
<1>6. SlotInv'
  BY FieldSteps
<1> QED
  BY <1>2, <1>3, <1>4, <1>5, <1>6 DEF MarkMapped, ClearMapped

(* The addresses the shim hands out and the sizes it reserves.             *)
LEMMA RoundUpAtLeast ==
  ASSUME NEW size \in Nat, NEW unit \in Nat \ {0}
  PROVE  unit <= RoundUpTo(size, unit)
<1>1. CASE size = 0
  BY <1>1 DEF RoundUpTo
<1>2. CASE size # 0
  <2>1. size + unit - 1 \in Nat /\ unit <= size + unit - 1
    BY <1>2
  <2> DEFINE k == (size + unit - 1) \div unit
  <2>2. k \in Nat /\ 1 <= k
    BY <2>1, DivBelow, DivPositive
  <2> HIDE DEF k
  <2>3. 1 * unit <= k * unit
    BY <2>2, ProductMonotone
  <2>4. unit <= k * unit
    BY <2>3
  <2> QED
    BY <1>2, <2>4 DEF RoundUpTo, k
<1> QED
  BY <1>1, <1>2

LEMMA WindowSizeNat == NewWindowSize \in Nat /\ Leaf <= NewWindowSize
<1>1. CASE MoonReserve > 0
  <2>1. RoundLeafSize(MoonReserve) \in Nat \ {0} /\ Leaf <= RoundLeafSize(MoonReserve)
    BY ShimAssumption, LeafAssumption, RoundUpPositive, RoundUpAtLeast DEF RoundLeafSize
  <2>2. NewWindowSize = RoundLeafSize(MoonReserve)
    BY <1>1, <2>1, ShimAssumption DEF NewWindowSize, NewReserveSize
  <2> QED
    BY <2>1, <2>2
<1>2. CASE MoonReserve = 0
  <2> DEFINE n == MegaLeafCount(0, MegaLeaves)
  <2>1. n \in Nat /\ 1 <= n
    BY PackAssumption DEF MegaLeafCount
  <2>2. NewWindowSize = IF MegaOn THEN n * Leaf ELSE Leaf
    BY <1>2, PackAssumption DEF NewWindowSize, NewReserveSize
  <2> HIDE DEF n
  <2>3. n * Leaf \in Nat /\ 1 * Leaf <= n * Leaf
    BY <2>1, ProductMonotone, ProductNat, LeafAssumption
  <2>4. Leaf <= n * Leaf
    BY <2>3, LeafAssumption
  <2> QED
    BY <2>2, <2>3, <2>4, LeafAssumption
<1> QED
  BY <1>1, <1>2, ShimAssumption

LEMMA RoomIsAddress ==
  ASSUME NEW len, Rooms(len) # {}
  PROVE  NextRoom(len) \in Nat \ {0}
<1>1. Rooms(len) \in SUBSET Nat /\ 0 \notin Rooms(len)
  BY DriverAssumption DEF Rooms, NoVa
<1> QED
  BY <1>1, MinMember DEF NextRoom

LEMMA MapOffsetNat ==
  ASSUME PackInv, NEW va \in Nat
  PROVE  MapOffsetOf(va) \in Nat /\ MapOffsetOf(va) <= va
  BY DEF PackInv, PackTypeOK, ArenaRecord, MapOffsetOf

(* A request that fits an alias bucket is given the bucket's address.      *)
LEMMA AliasBucket ==
  ASSUME buckets \in Seq(BucketRecord), NEW req \in Nat, AliasFits(req)
  PROVE  /\ Min(AliasBuckets(req)) \in DOMAIN buckets
         /\ buckets[Min(AliasBuckets(req))] \in BucketRecord
         /\ AliasVa(req) \in Nat
<1> DEFINE k == Min(AliasBuckets(req))
<1>1. AliasBuckets(req) \in SUBSET Nat /\ AliasBuckets(req) # {}
  BY DEF AliasFits, AliasBuckets
<1>2. k \in DOMAIN buckets
  BY <1>1, MinMember DEF AliasBuckets
<1> HIDE DEF k
<1>3. buckets[k] \in BucketRecord
  BY <1>2
<1> QED
  BY <1>2, <1>3 DEF AliasVa, k, BucketRecord

LEMMA AliasKeepsType ==
  ASSUME buckets \in Seq(BucketRecord), NEW req \in Nat, TryAlias(req)
  PROVE  buckets' \in Seq(BucketRecord)
<1> DEFINE k == Min(AliasBuckets(req))
<1>1. k \in DOMAIN buckets /\ buckets[k] \in BucketRecord
  BY AliasBucket DEF TryAlias
<1>2. buckets' = [buckets EXCEPT ![k] = [buckets[k] EXCEPT !.heads = buckets[k].heads + 1]]
  BY DEF TryAlias
<1> HIDE DEF k
<1>3. \A b \in BucketRecord : [b EXCEPT !.heads = b.heads + 1] \in BucketRecord
  BY DEF BucketRecord
<1> QED
  BY <1>1, <1>2, <1>3

LEMMA RegisterKeepsType ==
  ASSUME buckets \in Seq(BucketRecord), NEW base \in Nat, NEW req \in Nat,
         RegisterLeaf(base, req)
  PROVE  buckets' \in Seq(BucketRecord)
<1> DEFINE new == [logical |-> PlacementRound(req), base |-> base, heads |-> 1]
<1>1. new \in BucketRecord
  BY PlacementPositive DEF BucketRecord
<1>2. buckets' = buckets \/ buckets' = Append(buckets, new)
  BY DEF RegisterLeaf
<1> HIDE DEF new
<1> QED
  BY <1>1, <1>2

-----------------------------------------------------------------------------
(* The steps that are bookkeeping, one lemma per call.                     *)

LEMMA AtStep ==
  ASSUME CallsOK, NEW t \in Thread
  PROVE  /\ call[t] \in CallRecord /\ StageOK(call[t])
         /\ call[t].va \in Nat /\ call[t].size \in Nat /\ call[t].sz \in Nat
         /\ call[t].off \in Nat /\ call[t].h \in Handle
  BY DEF CallsOK, CallRecord

(* An address granted without the driver.                                  *)
LEMMA GrantMove ==
  ASSUME CallsOK, NEW t \in Thread, call[t].pc \in PendingPc,
         NEW route \in {"alias", "sub", "leaf"}, NEW va \in Nat, NEW sz \in Nat,
         Grant(t, route, va, sz)
  PROVE  QuietCall(t)
<1> DEFINE d == [call[t] EXCEPT !.pc = "rsv_commit", !.route = route, !.va = va, !.sz = sz]
<1>1. "rsv_commit" \in PendingPc /\ "rsv_commit" \in Pc
  BY DEF PendingPc, Pc, ReservePc
<1>2. /\ d \in CallRecord /\ d.op = call[t].op /\ d.size = call[t].size
      /\ d.pc = "rsv_commit" /\ d.route # "none"
  BY <1>1 DEF CallsOK, CallRecord
<1>3. call' = [call EXCEPT ![t] = d]
  BY DEF Grant
<1> HIDE DEF d
<1>4. StaysIn(call[t].pc, d.pc)
  BY <1>1, <1>2 DEF StaysIn
<1>5. call[t].pc \notin GrantedPc /\ call[t].pc \notin BoundPc
  BY DEF PendingPc, GrantedPc, BoundPc
<1> QED
  BY <1>2, <1>3, <1>4, <1>5, QuietMove

(* The calls of cuMemAddressReserve that keep to the slot table.           *)
LEMMA ReserveSlotSteps ==
  ASSUME ShimInv, NEW t \in Thread,
         \/ (RsvBegin(t) /\ ~ReserveBeginSlot)
         \/ RsvReq(t) \/ RsvMark(t) \/ RsvSetOff(t)
  PROVE  ShimInv' /\ Bookkeeping(t)
<1> USE AtStep DEF ShimInv
<1>1. SlotInv
  BY DEF StateOK
<1>2. CASE RsvBegin(t) /\ ~ReserveBeginSlot
  <2>1. SlotInv' /\ SlotsKept
    BY <1>1, <1>2, SlotsSame DEF RsvBegin, ReserveBeginFull
  <2>2. StateOK' /\ committed' = committed
    BY <1>2, <2>1, SlotsAlone DEF RsvBegin
  <2>3. QuietCall(t)
    BY <1>2, QuietReturn DEF RsvBegin, At, LeavesBy
  <2> QED
    BY <2>1, <2>2, <2>3 DEF Bookkeeping, QuietCall, CallMoves
<1>3. CASE RsvReq(t)
  <2>1. SlotInv' /\ SlotsKept
    BY <1>1, <1>3, FieldsKept DEF RsvReq
  <2>2. StateOK' /\ committed' = committed
    BY <1>3, <2>1, SlotsAlone DEF RsvReq
  <2>3. QuietCall(t)
    BY <1>3, QuietGoto DEF RsvReq, At, StaysIn, PendingPc, RoutedPc
  <2> QED
    BY <2>1, <2>2, <2>3 DEF Bookkeeping, QuietCall, CallMoves
<1>4. CASE RsvMark(t)
  <2>1. SlotInv' /\ SlotsKept
    BY <1>1, <1>4, FieldsKept DEF RsvMark
  <2>2. StateOK' /\ committed' = committed
    BY <1>4, <2>1, SlotsAlone DEF RsvMark
  <2>3. QuietCall(t)
    BY <1>4, QuietGoto DEF RsvMark, At, StaysIn, GrantedPc, RoutedPc, StageOK
  <2> QED
    BY <2>1, <2>2, <2>3 DEF Bookkeeping, QuietCall, CallMoves
<1>5. CASE RsvSetOff(t)
  <2>1. SlotInv' /\ SlotsKept
    BY <1>1, <1>5, FieldsKept DEF RsvSetOff
  <2>2. StateOK' /\ committed' = committed
    BY <1>5, <2>1, SlotsAlone DEF RsvSetOff
  <2>3. QuietCall(t)
    <3>1. call[t].pc \in GrantedPc
      BY <1>5 DEF RsvSetOff, At, GrantedPc
    <3>2. CASE Return(t, TRUE)
      BY <3>1, <3>2, QuietReturn DEF LeavesBy
    <3>3. CASE Goto(t, "rsv_leafoff")
      BY <3>1, <3>3, QuietGoto DEF StaysIn, GrantedPc, RoutedPc
    <3>4. CASE call' = [call EXCEPT ![t].pc = "rsv_register", ![t].off = 0]
      <4> DEFINE d == [call[t] EXCEPT !.pc = "rsv_register", !.off = 0]
      <4>1. "rsv_register" \in GrantedPc /\ "rsv_register" \in Pc
        BY DEF GrantedPc, Pc, ReservePc
      <4>2. /\ d \in CallRecord /\ d.op = call[t].op /\ d.size = call[t].size
            /\ d.pc = "rsv_register" /\ d.off = 0 /\ d.va = call[t].va /\ d.h = call[t].h
        BY <4>1 DEF CallRecord
      <4>3. call' = [call EXCEPT ![t] = d]
        BY <3>4
      <4> HIDE DEF d
      <4>4. StaysIn(call[t].pc, d.pc) /\ d.off <= d.va /\ d.pc \notin RoutedPc
        BY <3>1, <4>1, <4>2 DEF StaysIn, RoutedPc
      <4> QED
        BY <4>2, <4>3, <4>4, QuietMove
    <3>5. call[t].route \in {"alias", "sub", "leaf"} /\ GqaOn \in BOOLEAN
      BY <1>5, GqaAssumption DEF RsvSetOff, At, CallRecord, StageOK, RoutedPc
    <3> QED
      BY <1>5, <3>2, <3>3, <3>4, <3>5 DEF RsvSetOff
  <2> QED
    BY <2>1, <2>2, <2>3 DEF Bookkeeping, QuietCall, CallMoves
<1> QED
  BY <1>2, <1>3, <1>4, <1>5

LEMMA ReserveCallSteps ==
  ASSUME ShimInv, NEW t \in Thread,
         RsvNoAlias(t) \/ RsvOff(t) \/ RsvLeafOff(t) \/ RsvDriver(t)
  PROVE  ShimInv' /\ Bookkeeping(t)
<1> USE AtStep DEF ShimInv
<1>1. PackInv
  BY DEF StateOK
<1>2. StateOK' /\ SlotsKept /\ committed' = committed
  <2>1. UNCHANGED shimVars
    BY DEF RsvNoAlias, RsvOff, RsvLeafOff, RsvDriver, OnlyCall, OnlyDriver
  <2> QED
    BY <2>1, CallAlone
<1>3. QuietCall(t)
  <2>1. CASE RsvNoAlias(t)
    <3>1. /\ call[t].pc \in PendingPc
          /\ {"rsv_flush", "rsv_try", "rsv_driver"} \subseteq PendingPc
          /\ {"rsv_flush", "rsv_try", "rsv_driver"} \intersect RoutedPc = {}
      BY <2>1 DEF RsvNoAlias, At, PendingPc, RoutedPc
    <3>2. PICK q \in {"rsv_flush", "rsv_try", "rsv_driver"} : Goto(t, q)
      BY <2>1, LeafAssumption, ShimAssumption DEF RsvNoAlias
    <3>3. q # "rsv_register" /\ q # "rsv_window" /\ q \notin RoutedPc /\ q \in PendingPc
      BY <3>1
    <3> QED
      BY <3>1, <3>2, <3>3, QuietGoto DEF StaysIn
  <2>2. CASE RsvOff(t)
    <3> DEFINE d == [call[t] EXCEPT !.pc = "rsv_setoff", !.off = MapOffsetOf(call[t].va)]
    <3>1. call[t].pc = "rsv_off" /\ call' = [call EXCEPT ![t] = d]
      BY <2>2 DEF RsvOff, At
    <3>2. "rsv_setoff" \in GrantedPc /\ "rsv_setoff" \in Pc /\ "rsv_off" \in GrantedPc
          /\ "rsv_off" \in RoutedPc
      BY DEF GrantedPc, Pc, ReservePc, RoutedPc
    <3>3. MapOffsetOf(call[t].va) \in Nat
      BY <1>1, MapOffsetNat
    <3>4. /\ d \in CallRecord /\ d.op = call[t].op /\ d.size = call[t].size
          /\ d.pc = "rsv_setoff" /\ d.va = call[t].va /\ d.h = call[t].h
          /\ d.route = call[t].route
      BY <3>2, <3>3 DEF CallRecord
    <3> HIDE DEF d
    <3>5. StaysIn(call[t].pc, d.pc) /\ d.route # "none"
      BY <3>1, <3>2, <3>4 DEF StaysIn, StageOK
    <3> QED
      BY <3>1, <3>4, <3>5, QuietMove
  <2>3. CASE RsvLeafOff(t)
    <3> DEFINE d == [call[t] EXCEPT !.pc = "rsv_register", !.off = MapOffsetOf(call[t].va)]
    <3>1. call[t].pc = "rsv_leafoff" /\ call' = [call EXCEPT ![t] = d]
      BY <2>3 DEF RsvLeafOff, At
    <3>2. "rsv_register" \in GrantedPc /\ "rsv_register" \in Pc /\ "rsv_leafoff" \in GrantedPc
          /\ "rsv_register" \notin RoutedPc
      BY DEF GrantedPc, Pc, ReservePc, RoutedPc
    <3>3. MapOffsetOf(call[t].va) \in Nat /\ MapOffsetOf(call[t].va) <= call[t].va
      BY <1>1, MapOffsetNat
    <3>4. /\ d \in CallRecord /\ d.op = call[t].op /\ d.size = call[t].size
          /\ d.pc = "rsv_register" /\ d.va = call[t].va /\ d.h = call[t].h
          /\ d.off <= d.va
      BY <3>2, <3>3 DEF CallRecord
    <3> HIDE DEF d
    <3>5. StaysIn(call[t].pc, d.pc)
      BY <3>1, <3>2, <3>4 DEF StaysIn
    <3> QED
      BY <3>1, <3>2, <3>4, <3>5, QuietMove
  <2>4. CASE RsvDriver(t)
    <3>1. call[t].pc = "rsv_driver"
      BY <2>4 DEF RsvDriver, At
    <3>2. /\ {"rsv_driver", "rsv_dcommit", "rsv_rollback"} \subseteq PendingPc \intersect Pc
          /\ {"rsv_dcommit", "rsv_rollback"} \intersect RoutedPc = {}
          /\ "rsv_driver" \notin GrantedPc \union BoundPc
      BY DEF PendingPc, Pc, ReservePc, RoutedPc, GrantedPc, BoundPc
    <3>3. CASE Goto(t, "rsv_rollback")
      BY <3>1, <3>2, <3>3, QuietGoto DEF StaysIn
    <3>4. CASE ~Goto(t, "rsv_rollback")
      <4> DEFINE n == DriverSize(t)
      <4> DEFINE d == [call[t] EXCEPT !.pc = "rsv_dcommit", !.sz = n, !.va = NextRoom(n)]
      <4>1. DriverReserve(n) /\ call' = [call EXCEPT ![t] = d]
        BY <2>4, <3>4 DEF RsvDriver
      <4>2. n \in Nat /\ NextRoom(n) \in Nat
        BY <4>1, WindowSizeNat, RoomIsAddress DEF DriverSize, DriverReserve
      <4> HIDE DEF n
      <4>3. /\ d \in CallRecord /\ d.op = call[t].op /\ d.size = call[t].size
            /\ d.pc = "rsv_dcommit"
        BY <3>2, <4>2 DEF CallRecord
      <4> HIDE DEF d
      <4>4. StaysIn(call[t].pc, d.pc)
        BY <3>1, <3>2, <4>3 DEF StaysIn
      <4> QED
        BY <3>1, <3>2, <4>1, <4>3, <4>4, QuietMove
    <3> QED
      BY <3>3, <3>4
  <2> QED
    BY <2>1, <2>2, <2>3, <2>4
<1> QED
  BY <1>2, <1>3 DEF Bookkeeping, QuietCall, CallMoves

LEMMA ReservePackSteps ==
  ASSUME ShimInv, NEW t \in Thread,
         RsvFlush(t) \/ RsvTry(t) \/ RsvMega(t) \/ RsvWindow(t)
  PROVE  ShimInv' /\ Bookkeeping(t)
<1> USE AtStep DEF ShimInv
<1>1. PackInv
  BY DEF StateOK
<1>2. OnlyPack
  BY DEF RsvFlush, RsvTry, RsvMega, RsvWindow
<1>3. PackInv' /\ committed' = committed /\ QuietCall(t)
  <2>1. CASE RsvFlush(t)
    <3>1. PackInv' /\ committed' = committed
      BY <1>1, <2>1, ForgetStep DEF RsvFlush, PackFlush
    <3>2. QuietCall(t)
      BY <2>1, QuietGoto DEF RsvFlush, At, StaysIn, PendingPc, RoutedPc
    <3> QED
      BY <3>1, <3>2
  <2>2. CASE RsvTry(t)
    <3>1. call[t].pc \in PendingPc /\ "rsv_mega" \in PendingPc /\ "rsv_mega" \notin RoutedPc
      BY <2>2 DEF RsvTry, At, PendingPc, RoutedPc
    <3>2. CASE TryReserve(call[t].size)
                 /\ Grant(t, "sub", arena.base + TryOffset(call[t].size),
                          PlacementRound(call[t].size))
      <4>1. PackInv' /\ committed' = committed
        BY <1>1, <3>2, TryReserveStep DEF TryReserve
      <4>2. PlacementRound(call[t].size) \in Nat /\ TryOffset(call[t].size) \in Nat
            /\ arena.base \in Nat
        BY <1>1, <3>2, GrantFits DEF TryReserve, PackInv, PackTypeOK, ArenaRecord
      <4>3. arena.base + TryOffset(call[t].size) \in Nat
        BY <4>2
      <4> QED
        BY <3>1, <3>2, <4>1, <4>2, <4>3, GrantMove
    <3>3. CASE Goto(t, "rsv_mega") /\ UNCHANGED packVars
      BY <1>1, <3>1, <3>3, PackSame, QuietGoto DEF StaysIn
    <3> QED
      BY <2>2, <3>2, <3>3 DEF RsvTry
  <2>3. CASE RsvMega(t)
    <3>1. call[t].pc \in PendingPc /\ "rsv_driver" \in PendingPc
          /\ "rsv_driver" \notin RoutedPc
      BY <2>3 DEF RsvMega, At, PendingPc, RoutedPc
    <3>2. CASE TakeMegaLeaf /\ Grant(t, "leaf", NextLeafBase, Leaf)
      <4>1. PackInv' /\ committed' = committed
        BY <1>1, <3>2, TakeMegaLeafStep DEF TakeMegaLeaf
      <4>2. NextLeafBase \in Nat /\ Leaf \in Nat
        BY <1>1, <3>2, NextLeaf, LeafAssumption DEF TakeMegaLeaf
      <4> QED
        BY <3>1, <3>2, <4>1, <4>2, GrantMove
    <3>3. CASE Goto(t, "rsv_driver") /\ UNCHANGED packVars
      BY <1>1, <3>1, <3>3, PackSame, QuietGoto DEF StaysIn
    <3> QED
      BY <2>3, <3>2, <3>3 DEF RsvMega
  <2>4. CASE RsvWindow(t)
    <3>1. call[t].pc = "rsv_window" /\ MegaOpen(call[t].va, call[t].sz) /\ Return(t, TRUE)
      BY <2>4 DEF RsvWindow, At
    <3>2. Leaf <= call[t].sz
      BY <3>1 DEF StageOK
    <3>3. PackInv' /\ committed' = committed
      BY <1>1, <3>1, <3>2, MegaOpenStep DEF MegaOpen
    <3>4. QuietCall(t)
      BY <3>1, QuietReturn DEF LeavesBy, GrantedPc
    <3> QED
      BY <3>3, <3>4
  <2> QED
    BY <2>1, <2>2, <2>3, <2>4
<1>4. StateOK' /\ SlotsKept
  BY <1>2, <1>3, PackAlone
<1> QED
  BY <1>3, <1>4 DEF Bookkeeping, QuietCall, CallMoves

LEMMA ReserveBucketSteps ==
  ASSUME ShimInv, NEW t \in Thread,
         RsvAlias(t) \/ RsvRegister(t) \/ RsvDriverRegister(t)
  PROVE  ShimInv' /\ Bookkeeping(t)
<1> USE AtStep DEF ShimInv
<1>1. buckets \in Seq(BucketRecord)
  BY DEF StateOK
<1>2. OnlyBuckets
  BY DEF RsvAlias, RsvRegister, RsvDriverRegister
<1>3. buckets' \in Seq(BucketRecord) /\ QuietCall(t)
  <2>1. CASE RsvAlias(t)
    <3>1. call[t].pc \in PendingPc
      BY <2>1 DEF RsvAlias, At, PendingPc
    <3>2. buckets' \in Seq(BucketRecord)
      BY <1>1, <2>1, AliasKeepsType DEF RsvAlias
    <3>3. AliasVa(call[t].size) \in Nat /\ PlacementRound(call[t].size) \in Nat
      BY <1>1, <2>1, AliasBucket, PlacementPositive DEF RsvAlias, TryAlias
    <3> QED
      BY <2>1, <3>1, <3>2, <3>3, GrantMove DEF RsvAlias
  <2>2. CASE RsvRegister(t)
    <3>1. call[t].pc = "rsv_register" /\ Return(t, TRUE)
          /\ RegisterLeaf(call[t].va - call[t].off, call[t].size)
      BY <2>2 DEF RsvRegister, At
    <3>2. call[t].va - call[t].off \in Nat
      BY <3>1 DEF StageOK
    <3>3. buckets' \in Seq(BucketRecord)
      BY <1>1, <3>1, <3>2, RegisterKeepsType
    <3>4. QuietCall(t)
      BY <3>1, QuietReturn DEF LeavesBy, GrantedPc
    <3> QED
      BY <3>3, <3>4
  <2>3. CASE RsvDriverRegister(t)
    <3>1. call[t].pc = "rsv_dregister" /\ AfterDriverCommit(t)
          /\ RegisterLeaf(call[t].va, call[t].size)
      BY <2>3 DEF RsvDriverRegister, At
    <3>2. buckets' \in Seq(BucketRecord)
      BY <1>1, <3>1, RegisterKeepsType
    <3>3. CASE Goto(t, "rsv_window") /\ OpensWindow(t)
      <4>1. Leaf <= call[t].sz
        BY <3>3, WindowSizeNat, LeafAssumption DEF OpensWindow
      <4> QED
        BY <3>1, <3>2, <3>3, <4>1, QuietGoto DEF StaysIn, GrantedPc, RoutedPc
    <3>4. CASE Return(t, TRUE)
      BY <3>1, <3>2, <3>4, QuietReturn DEF LeavesBy, GrantedPc
    <3> QED
      BY <3>1, <3>3, <3>4 DEF AfterDriverCommit
  <2> QED
    BY <2>1, <2>2, <2>3
<1>4. StateOK' /\ SlotsKept /\ committed' = committed
  BY <1>2, <1>3, BucketsAlone
<1> QED
  BY <1>3, <1>4 DEF Bookkeeping, QuietCall, CallMoves

LEMMA CreateQuietSteps ==
  ASSUME ShimInv, NEW t \in Thread,
         \/ CrtPacked(t) \/ CrtRetain(t) \/ CrtValidate(t)
         \/ (CrtDriver(t) /\ ~At(t, "crt_bind")')
         \/ (CrtSnapshot(t) /\ legacyVa # NoVa)
  PROVE  ShimInv' /\ Bookkeeping(t)
<1> USE AtStep DEF ShimInv
<1>1. SlotInv /\ PackInv /\ arena.handle \in Handle /\ legacyVa \in Nat
  BY DEF StateOK, SlotInv, SlotTypeOK, PackInv, PackTypeOK, ArenaRecord
<1>2. AskedPc \subseteq Pc /\ AskedPc \intersect (RoutedPc \union GrantedPc \union BoundPc) = {}
      /\ "rsv_register" \notin AskedPc /\ "rsv_window" \notin AskedPc
  BY DEF AskedPc, RoutedPc, GrantedPc, BoundPc, Pc, CreatePc
<1>3. CASE CrtPacked(t)
  <2>1. call[t].pc \in AskedPc /\ {"crt_retain", "crt_validate"} \subseteq AskedPc
    BY <1>3 DEF CrtPacked, At, AskedPc
  <2>2. ASSUME Goto(t, "crt_validate") PROVE QuietCall(t)
    BY <1>2, <2>1, <2>2, QuietGoto DEF StaysIn
  <2>3. ASSUME call' = [call EXCEPT ![t].pc = "crt_retain", ![t].h = arena.handle]
        PROVE  QuietCall(t)
    <3> DEFINE d == [call[t] EXCEPT !.pc = "crt_retain", !.h = arena.handle]
    <3>1. /\ d \in CallRecord /\ d.op = call[t].op /\ d.size = call[t].size
          /\ d.pc = "crt_retain"
      BY <1>1, <1>2, <2>1 DEF CallRecord
    <3>2. call' = [call EXCEPT ![t] = d]
      BY <2>3
    <3> HIDE DEF d
    <3>3. StaysIn(call[t].pc, d.pc)
      BY <2>1, <3>1 DEF StaysIn
    <3>4. /\ call[t].pc \notin GrantedPc /\ call[t].pc \notin BoundPc
          /\ d.pc \notin RoutedPc /\ d.pc # "rsv_register" /\ d.pc # "rsv_window"
      BY <1>2, <2>1, <3>1
    <3> QED
      BY <3>1, <3>2, <3>3, <3>4, QuietMove
  <2>4. \/ call' = [call EXCEPT ![t].pc = "crt_retain", ![t].h = arena.handle]
        \/ Goto(t, "crt_validate")
    BY <1>3, Zenon DEF CrtPacked
  <2>5. QuietCall(t)
    BY <2>2, <2>3, <2>4, Zenon
  <2>6. StateOK' /\ SlotsKept /\ committed' = committed
    BY <1>3, CallAlone DEF CrtPacked, OnlyCall
  <2> QED
    BY <2>5, <2>6 DEF Bookkeeping, QuietCall, CallMoves
<1>4. CASE CrtRetain(t)
  <2>1. PackInv' /\ committed' = committed
    BY <1>1, <1>4, RefStep DEF CrtRetain, RetainHandle
  <2>2. StateOK' /\ SlotsKept
    BY <1>4, <2>1, PackAlone DEF CrtRetain
  <2>3. QuietCall(t)
    BY <1>4, QuietGoto DEF CrtRetain, At, StaysIn, AskedPc, RoutedPc
  <2> QED
    BY <2>1, <2>2, <2>3 DEF Bookkeeping, QuietCall, CallMoves
<1>5. CASE CrtValidate(t)
  <2>1. Goto(t, "crt_driver") \/ Return(t, FALSE)
    BY <1>5 DEF CrtValidate
  <2>2. QuietCall(t)
    BY <1>5, <2>1, QuietGoto, QuietReturn
    DEF CrtValidate, At, StaysIn, LeavesBy, AskedPc, RoutedPc
  <2>3. StateOK' /\ SlotsKept /\ committed' = committed
    BY <1>5, CallAlone DEF CrtValidate, OnlyCall
  <2> QED
    BY <2>2, <2>3 DEF Bookkeeping, QuietCall, CallMoves
<1>6. CASE CrtDriver(t) /\ ~At(t, "crt_bind")'
  <2>1. Return(t, FALSE)
    <3>1. ASSUME NEW h, call' = [call EXCEPT ![t].pc = "crt_bind", ![t].h = h]
          PROVE  At(t, "crt_bind")'
      BY <3>1 DEF At, CallsOK, CallRecord
    <3> QED
      BY <1>6, <3>1 DEF CrtDriver
  <2>2. QuietCall(t)
    BY <1>6, <2>1, QuietReturn DEF CrtDriver, At, LeavesBy, AskedPc
  <2>3. StateOK' /\ SlotsKept /\ committed' = committed
    BY <1>6, CallAlone DEF CrtDriver, OnlyDriver
  <2> QED
    BY <2>2, <2>3 DEF Bookkeeping, QuietCall, CallMoves
<1>7. CASE CrtSnapshot(t) /\ legacyVa # NoVa
  <2> DEFINE d == [call[t] EXCEPT !.pc = "crt_open", !.va = legacyVa]
  <2>1. call[t].pc = "crt_snapshot" /\ call' = [call EXCEPT ![t] = d]
    BY <1>7 DEF CrtSnapshot, At
  <2>2. {"crt_snapshot", "crt_open"} \subseteq BoundPc \intersect Pc
        /\ BoundPc \intersect (RoutedPc \union GrantedPc) = {}
    BY DEF BoundPc, Pc, CreatePc, RoutedPc, GrantedPc
  <2>3. /\ d \in CallRecord /\ d.op = call[t].op /\ d.size = call[t].size
        /\ d.pc = "crt_open" /\ d.h = call[t].h
    BY <1>1, <2>2 DEF CallRecord
  <2> HIDE DEF d
  <2>4. StaysIn(call[t].pc, d.pc)
    BY <2>1, <2>2, <2>3 DEF StaysIn
  <2>5. QuietCall(t)
    BY <2>1, <2>2, <2>3, <2>4, QuietMove
  <2>6. StateOK' /\ SlotsKept /\ committed' = committed
    BY <1>7, CallAlone DEF CrtSnapshot, OnlyCall
  <2> QED
    BY <2>5, <2>6 DEF Bookkeeping, QuietCall, CallMoves
<1> QED
  BY <1>3, <1>4, <1>5, <1>6, <1>7

LEMMA MapSteps ==
  ASSUME ShimInv, NEW t \in Thread, MapStep(t)
  PROVE  ShimInv' /\ Bookkeeping(t)
<1> USE AtStep DEF ShimInv
<1>1. SlotInv /\ PackInv
  BY DEF StateOK
<1>2. /\ MapPc \subseteq Pc /\ MapPc \intersect (RoutedPc \union GrantedPc \union BoundPc) = {}
      /\ "rsv_register" \notin MapPc /\ "rsv_window" \notin MapPc
  BY DEF MapPc, RoutedPc, GrantedPc, BoundPc, Pc
<1>3. call[t].pc \in MapPc
  BY DEF MapStep, MapValidate, MapRoute, MapPacked, MapOff, MapDriver, MapMark,
         MapUsage, MapActive, MapReq,
         MapBump, At, MapPc
<1>4. QuietCall(t)
  <2>1. ASSUME NEW q \in MapPc, Goto(t, q) PROVE QuietCall(t)
    BY <1>2, <1>3, <2>1, QuietGoto DEF StaysIn
  <2>2. ASSUME NEW ok \in BOOLEAN, Return(t, ok) PROVE QuietCall(t)
    BY <1>3, <2>2, QuietReturn DEF LeavesBy
  <2>3. ASSUME NEW q \in MapPc, NEW off \in Nat, NEW sz \in Nat,
               call' = [call EXCEPT ![t] = [call[t] EXCEPT !.pc = q, !.off = off, !.sz = sz]]
        PROVE  QuietCall(t)
    <3> DEFINE d == [call[t] EXCEPT !.pc = q, !.off = off, !.sz = sz]
    <3>1. d \in CallRecord /\ d.op = call[t].op /\ d.size = call[t].size /\ d.pc = q
      BY <1>2 DEF CallRecord
    <3>2. call' = [call EXCEPT ![t] = d]
      BY <2>3
    <3> HIDE DEF d
    <3>3. StaysIn(call[t].pc, d.pc)
      BY <1>3, <3>1 DEF StaysIn
    <3> QED
      BY <1>2, <1>3, <3>1, <3>2, <3>3, QuietMove
  <2>4. CASE MapOff(t)
    <3> DEFINE off == IF FindByVa(call[t].va) >= 0 THEN slots[FindByVa(call[t].va)].offset ELSE 0
    <3>1. call' = [call EXCEPT ![t].pc = "map_driver", ![t].off = off]
      BY <2>4 DEF MapOff
    <3>2. off \in Nat
      <4>1. FindByVa(call[t].va) >= 0 => FindByVa(call[t].va) \in Index
        BY FoundByVa, UsedIsIndex
      <4> QED
        BY <1>1, <4>1 DEF SlotInv, SlotTypeOK, SlotRecord
    <3> HIDE DEF off
    <3>3. call' = [call EXCEPT ![t] = [call[t] EXCEPT !.pc = "map_driver", !.off = off,
                                                      !.sz = call[t].sz]]
      BY <3>1 DEF CallsOK, CallRecord
    <3> QED
      BY <2>3, <3>2, <3>3 DEF MapPc
  <2>5. CASE MapReq(t)
    <3> DEFINE idx == FindByVa(call[t].va)
    <3> DEFINE req == IF idx >= 0 THEN slots[idx].req ELSE 0
    <3>1. \/ call' = [call EXCEPT ![t].pc = "map_bump", ![t].sz = req]
          \/ Return(t, TRUE)
      BY <2>5 DEF MapReq
    <3>2. req \in Nat
      <4>1. idx >= 0 => idx \in Index
        BY FoundByVa, UsedIsIndex
      <4> QED
        BY <1>1, <4>1 DEF SlotInv, SlotTypeOK, SlotRecord
    <3> HIDE DEF req
    <3>3. CASE call' = [call EXCEPT ![t].pc = "map_bump", ![t].sz = req]
      <4>1. call' = [call EXCEPT ![t] = [call[t] EXCEPT !.pc = "map_bump", !.off = call[t].off,
                                                        !.sz = req]]
        BY <3>3 DEF CallsOK, CallRecord
      <4> QED
        BY <2>3, <3>2, <4>1 DEF MapPc
    <3> QED
      BY <2>2, <3>1, <3>3
  <2>6. CASE MapValidate(t) \/ MapRoute(t) \/ MapPacked(t) \/ MapDriver(t) \/ MapMark(t)
             \/ MapUsage(t) \/ MapActive(t) \/ MapBump(t)
    <3>1. (\E q \in MapPc : Goto(t, q)) \/ (\E ok \in BOOLEAN : Return(t, ok))
      BY <2>6 DEF MapValidate, MapRoute, MapPacked, MapDriver, MapMark, MapUsage, MapActive,
                     MapBump, MapPc
    <3> QED
      BY <2>1, <2>2, <3>1
  <2> QED
    BY <2>4, <2>5, <2>6 DEF MapStep
<1>5. StateOK' /\ SlotsKept /\ committed' = committed
  <2>1. CASE UNCHANGED shimVars
    BY <2>1, CallAlone
  <2>2. CASE MarkMapped(call[t].va) /\ OnlySlots
    BY <1>1, <2>2, FieldsKept, SlotsAlone
  <2>3. CASE BumpUsage(call[t].sz) /\ OnlyPack
    <3>1. PackInv' /\ committed' = committed
      BY <1>1, <2>3, BumpStep DEF BumpUsage
    <3> QED
      BY <2>3, <3>1, PackAlone
  <2> QED
    BY <2>1, <2>2, <2>3
    DEF MapStep, MapValidate, MapRoute, MapPacked, MapOff, MapDriver, MapMark,
         MapUsage, MapActive, MapReq,
        MapBump, OnlyCall, OnlyDriver
<1> QED
  BY <1>4, <1>5 DEF Bookkeeping, QuietCall, CallMoves

LEMMA UnmapSteps ==
  ASSUME ShimInv, NEW t \in Thread, UnmapStep(t)
  PROVE  ShimInv' /\ Bookkeeping(t)
<1> USE AtStep DEF ShimInv
<1>1. SlotInv /\ PackInv
  BY DEF StateOK
<1>2. call[t].pc \in UnmapPc
  BY DEF UnmapStep, UnmValidate, UnmKnown, UnmRoute, UnmDriver, UnmClear, At, UnmapPc
<1>3. (\E q \in UnmapPc : Goto(t, q)) \/ (\E ok \in BOOLEAN : Return(t, ok))
  BY DEF UnmapStep, UnmValidate, UnmKnown, UnmRoute, UnmDriver, UnmClear, UnmapPc
<1>4. QuietCall(t)
  <2>1. \A q \in UnmapPc : q # "rsv_register" /\ q # "rsv_window" /\ q \notin RoutedPc
    BY DEF UnmapPc, RoutedPc
  <2> QED
    BY <1>2, <1>3, <2>1, QuietGoto, QuietReturn DEF StaysIn, LeavesBy
<1>5. StateOK' /\ SlotsKept /\ committed' = committed
  <2>1. CASE UNCHANGED shimVars
    BY <2>1, CallAlone
  <2>2. CASE ClearMapped(call[t].va) /\ OnlySlots
    BY <1>1, <2>2, FieldsKept, SlotsAlone
  <2> QED
    BY <2>1, <2>2
    DEF UnmapStep, UnmValidate, UnmKnown, UnmRoute, UnmDriver, UnmClear, OnlyCall, OnlyDriver
<1> QED
  BY <1>4, <1>5 DEF Bookkeeping, QuietCall, CallMoves

LEMMA ReleaseQuietSteps ==
  ASSUME ShimInv, NEW t \in Thread, RelValidate(t) \/ RelRef(t) \/ RelDriver(t)
  PROVE  ShimInv' /\ Bookkeeping(t)
<1> USE AtStep DEF ShimInv
<1>1. SlotInv /\ PackInv
  BY DEF StateOK
<1>2. call[t].pc \in ReleasePc
  BY DEF RelValidate, RelRef, RelDriver, At, ReleasePc
<1>3. (\E q \in ReleasePc : Goto(t, q)) \/ Return(t, FALSE)
  BY DEF RelValidate, RelRef, RelDriver, ReleasePc
<1>4. QuietCall(t)
  <2>1. \A q \in ReleasePc : q # "rsv_register" /\ q # "rsv_window" /\ q \notin RoutedPc
    BY DEF ReleasePc, RoutedPc
  <2> QED
    BY <1>2, <1>3, <2>1, QuietGoto, QuietReturn DEF StaysIn, LeavesBy
<1>5. StateOK' /\ SlotsKept /\ committed' = committed
  <2>1. CASE UNCHANGED shimVars
    BY <2>1, CallAlone
  <2>2. CASE ReleaseRef(call[t].h) /\ OnlyPack
    <3>1. PackInv' /\ committed' = committed
      BY <1>1, <2>2, RefStep DEF ReleaseRef
    <3> QED
      BY <2>2, <3>1, PackAlone
  <2> QED
    BY <2>1, <2>2 DEF RelValidate, RelRef, RelDriver, OnlyCall, OnlyDriver
<1> QED
  BY <1>4, <1>5 DEF Bookkeeping, QuietCall, CallMoves

LEMMA FreeQuietSteps ==
  ASSUME ShimInv, NEW t \in Thread, FreLookup(t) \/ FreRoute(t) \/ FreDriver(t)
  PROVE  ShimInv' /\ Bookkeeping(t)
<1> USE AtStep DEF ShimInv
<1>1. call[t].pc \in FreePc
  BY DEF FreLookup, FreRoute, FreDriver, At, FreePc
<1>2. (\E q \in FreePc : Goto(t, q)) \/ Return(t, FALSE)
  BY DEF FreLookup, FreRoute, FreDriver, FreePc
<1>3. QuietCall(t)
  <2>1. \A q \in FreePc : q # "rsv_register" /\ q # "rsv_window" /\ q \notin RoutedPc
    BY DEF FreePc, RoutedPc
  <2> QED
    BY <1>1, <1>2, <2>1, QuietGoto, QuietReturn DEF StaysIn, LeavesBy
<1>4. UNCHANGED shimVars
  BY DEF FreLookup, FreRoute, FreDriver, OnlyCall, OnlyDriver
<1> QED
  BY <1>3, <1>4, CallAlone DEF Bookkeeping, QuietCall, CallMoves

-----------------------------------------------------------------------------
(* The steps that take effect, one lemma each.                             *)

LEMMA ReturnMove ==
  ASSUME CallsOK, NEW t \in Thread, NEW ok \in BOOLEAN, Return(t, ok),
         call[t].op # "none"
  PROVE  /\ CallMoves(t) /\ call'[t].pc = "done" /\ call'[t].ok = ok
         /\ call'[t].va = call[t].va /\ call'[t].h = call[t].h
<1> DEFINE d == [call[t] EXCEPT !.pc = "done", !.ok = ok]
<1>1. /\ d \in CallRecord /\ d.op = call[t].op /\ d.size = call[t].size /\ d.pc = "done"
      /\ d.ok = ok /\ d.va = call[t].va /\ d.h = call[t].h
  BY PcsApart DEF CallsOK, CallRecord
<1>2. call' = [call EXCEPT ![t] = d]
  BY DEF Return
<1> HIDE DEF d
<1>3. StageOK(call[t])
  BY DEF CallsOK
<1>4. StageOK(d)
  BY <1>1, <1>3, PcsApart DEF StageOK
<1> QED
  BY <1>1, <1>2, <1>4, MoveTo

LEMMA GotoMove ==
  ASSUME CallsOK, NEW t \in Thread, NEW q \in Pc, Goto(t, q),
         StageOK([call[t] EXCEPT !.pc = q])
  PROVE  /\ CallMoves(t) /\ call'[t].pc = q
         /\ call'[t].va = call[t].va /\ call'[t].h = call[t].h
<1> DEFINE d == [call[t] EXCEPT !.pc = q]
<1>1. /\ d \in CallRecord /\ d.op = call[t].op /\ d.size = call[t].size /\ d.pc = q
      /\ d.va = call[t].va /\ d.h = call[t].h
  BY DEF CallsOK, CallRecord
<1>2. call' = [call EXCEPT ![t] = d]
  BY DEF Goto
<1>3. StageOK(d)
  OBVIOUS
<1> HIDE DEF d
<1> QED
  BY <1>1, <1>2, <1>3, MoveTo

LEMMA EnterMove ==
  ASSUME CallsOK, NEW t \in Thread, NEW op \in Op, NEW pc \in Pc,
         NEW va \in Nat, NEW size \in Nat, NEW h \in Handle,
         Enter(t, op, pc, va, size, h)
  PROVE  /\ call' \in [Thread -> CallRecord]
         /\ \A s \in Thread \ {t} : call'[s] = call[s]
         /\ call'[t] \in CallRecord
         /\ call'[t].op = op /\ call'[t].pc = pc /\ call'[t].va = va /\ call'[t].h = h
         /\ call'[t].size = size
<1> DEFINE d == [IdleCall EXCEPT !.op = op, !.pc = pc, !.va = va, !.size = size, !.h = h]
<1>1. d \in CallRecord /\ d.op = op /\ d.pc = pc /\ d.va = va /\ d.h = h /\ d.size = size
  BY DEF IdleCall, CallRecord
<1>2. call' = [call EXCEPT ![t] = d]
  BY DEF Enter
<1> HIDE DEF d
<1> QED
  BY <1>1, <1>2 DEF CallsOK

(* shim_reserve_begin_slot takes a slot.                                   *)
LEMMA BeginEffect ==
  ASSUME ShimInv, NEW t \in Thread, RsvBegin(t), ReserveBeginSlot
  PROVE  /\ ShimInv' /\ CallMoves(t) /\ committed' = committed
         /\ call[t].pc = "rsv_begin" /\ call[t].op = "reserve"
         /\ call'[t].pc = "rsv_req"
<1> USE AtStep DEF ShimInv
<1>1. call[t].pc = "rsv_begin" /\ call[t].op = "reserve"
  BY OpOfPc, PcsApart DEF RsvBegin, At
<1>2. Goto(t, "rsv_req")
  <2>1. FindFree \in Nat
    BY FreeSlotIsFree, IndexIsNat DEF ReserveBeginSlot
  <2>2. ~(FindFree < 0)
    BY <2>1
  <2> QED
    BY <2>2 DEF RsvBegin, ReserveBeginFull
<1>3. "rsv_req" \in PendingPc /\ "rsv_req" \in Pc /\ "rsv_req" \notin RoutedPc
  BY DEF PendingPc, Pc, ReservePc, RoutedPc
<1> DEFINE d == [call[t] EXCEPT !.pc = "rsv_req"]
<1>4. d.pc = "rsv_req" /\ d.op = "reserve"
  BY <1>1 DEF CallRecord
<1>5. StageOK(d)
  BY <1>3, <1>4, PcsApart DEF StageOK
<1>6. CallMoves(t) /\ call'[t].pc = "rsv_req"
  BY <1>2, <1>3, <1>5, GotoMove
<1>7. SlotInv'
  BY BeginStep DEF StateOK
<1>8. StateOK' /\ committed' = committed
  BY <1>7, SlotsAlone DEF RsvBegin
<1> QED
  BY <1>1, <1>6, <1>8 DEF CallMoves

(* shim_reservation_set writes the address into a slot.                    *)
LEMMA CommitEffect ==
  ASSUME ShimInv, NEW t \in Thread, RsvCommit(t) \/ RsvDriverCommit(t)
  PROVE  /\ ShimInv' /\ CallMoves(t) /\ committed' = committed
         /\ call[t].pc \in {"rsv_commit", "rsv_dcommit"} /\ call[t].op = "reserve"
         /\ Pending(call[t]) /\ Granted(call'[t]) /\ call'[t].va = call[t].va
         /\ ReservationSet(call[t].va, call[t].sz)
<1> USE AtStep DEF ShimInv
<1>1. /\ call[t].pc \in {"rsv_commit", "rsv_dcommit"} /\ call[t].op = "reserve"
      /\ call[t].pc \in PendingPc
  <2>1. call[t].pc \in {"rsv_commit", "rsv_dcommit"} /\ call[t].pc \in PendingPc
    BY DEF RsvCommit, RsvDriverCommit, At, PendingPc
  <2> QED
    BY <2>1, OpOfPc, PcsApart
<1>2. ReservationSet(call[t].va, call[t].sz) /\ OnlySlots
  BY DEF RsvCommit, RsvDriverCommit
<1>3. SlotInv'
  <2>1. SlotInv
    BY DEF StateOK
  <2>2. CASE CommitLost
    BY <2>1, <2>2, SlotsSame DEF CommitLost
  <2> QED
    BY <1>2, <2>1, <2>2, CommitPendingStep, CommitFreshStep DEF ReservationSet
<1>4. StateOK' /\ committed' = committed
  BY <1>2, <1>3, SlotsAlone
<1>5. /\ {"rsv_mark", "rsv_dregister", "rsv_window"} \subseteq GrantedPc
      /\ {"rsv_dregister", "rsv_window"} \intersect RoutedPc = {}
      /\ {"rsv_commit", "rsv_mark"} \subseteq RoutedPc
  BY DEF GrantedPc, RoutedPc
<1>6. /\ CallMoves(t) /\ call'[t].va = call[t].va
      /\ call'[t].pc \in GrantedPc \/ (call'[t].pc = "done" /\ call'[t].ok)
  <2>1. CASE Return(t, TRUE)
    BY <1>1, <2>1, ReturnMove
  <2>2. ASSUME NEW q \in {"rsv_mark", "rsv_dregister", "rsv_window"}, Goto(t, q),
               q \in RoutedPc => call[t].route # "none",
               q = "rsv_window" => Leaf <= call[t].sz
        PROVE  CallMoves(t) /\ call'[t].va = call[t].va /\ call'[t].pc \in GrantedPc
    <3> DEFINE d == [call[t] EXCEPT !.pc = q]
    <3>1. q \in Pc /\ q \in ReservePc /\ q # "rsv_register"
      BY <1>5, PcsApart
    <3>2. d.pc = q /\ d.op = "reserve" /\ d.route = call[t].route /\ d.sz = call[t].sz
      BY <1>1, <3>1 DEF CallRecord
    <3>3. StageOK(d)
      BY <2>2, <3>1, <3>2 DEF StageOK
    <3> QED
      BY <1>5, <2>2, <3>1, <3>3, GotoMove
  <2>3. CASE RsvCommit(t)
    <3>1. call[t].route # "none" /\ Goto(t, "rsv_mark")
      BY <1>5, <2>3 DEF RsvCommit, At, StageOK
    <3> QED
      BY <2>2, <3>1
  <2>4. CASE RsvDriverCommit(t)
    <3>1. CASE Goto(t, "rsv_dregister")
      BY <1>5, <2>2, <3>1
    <3>2. CASE Goto(t, "rsv_window") /\ OpensWindow(t)
      <4>1. Leaf <= call[t].sz
        BY <3>2, WindowSizeNat, LeafAssumption DEF OpensWindow
      <4> QED
        BY <1>5, <2>2, <3>2, <4>1
    <3> QED
      BY <2>1, <2>4, <3>1, <3>2 DEF RsvDriverCommit, AfterDriverCommit
  <2> QED
    BY <2>3, <2>4
<1> QED
  BY <1>1, <1>2, <1>4, <1>6 DEF CallMoves, Pending, Granted, Succeeded

(* shim_reserve_abort_pending gives the pending slot up.                   *)
LEMMA RollbackEffect ==
  ASSUME ShimInv, NEW t \in Thread, RsvRollback(t)
  PROVE  /\ ShimInv' /\ CallMoves(t) /\ committed' = committed
         /\ Pending(call[t]) /\ call[t].op = "reserve"
         /\ call'[t].pc = "done" /\ ~call'[t].ok
         /\ AbortPending
<1> USE AtStep DEF ShimInv
<1>1. call[t].pc \in PendingPc /\ AbortPending /\ Return(t, FALSE) /\ OnlySlots
  BY DEF RsvRollback, At, PendingPc
<1>2. call[t].op = "reserve"
  BY <1>1, OpOfPc, PcsApart
<1>3. StateOK' /\ committed' = committed
  BY <1>1, AbortStep, SlotsAlone DEF StateOK
<1>4. CallMoves(t) /\ call'[t].pc = "done" /\ ~call'[t].ok
  BY <1>1, <1>2, ReturnMove
<1> QED
  BY <1>1, <1>2, <1>3, <1>4 DEF CallMoves, Pending

(* shim_slot_free_by_va.                                                   *)
LEMMA FreeEffect ==
  ASSUME ShimInv, NEW t \in Thread, FreSlot(t)
  PROVE  /\ ShimInv' /\ CallMoves(t) /\ committed' = committed
         /\ call[t].pc = "fre_slot" /\ call[t].op = "free"
         /\ Succeeded(call'[t], "free") /\ call'[t].va = call[t].va
         /\ SlotFreeByVa(call[t].va)
<1> USE AtStep DEF ShimInv
<1>1. call[t].pc = "fre_slot" /\ SlotFreeByVa(call[t].va) /\ Return(t, TRUE) /\ OnlySlots
  BY DEF FreSlot, At
<1>2. call[t].op = "free"
  BY <1>1, OpOfPc DEF FreePc
<1>3. StateOK' /\ committed' = committed
  BY <1>1, FreeByVaStep, SlotsAlone DEF StateOK
<1>4. CallMoves(t) /\ call'[t].pc = "done" /\ call'[t].ok /\ call'[t].va = call[t].va
  BY <1>1, <1>2, ReturnMove
<1> QED
  BY <1>1, <1>2, <1>3, <1>4 DEF CallMoves, Succeeded

(* cuMemCreate answered by the driver.                                     *)
LEMMA MadeEffect ==
  ASSUME ShimInv, NEW t \in Thread, CrtDriver(t), At(t, "crt_bind")'
  PROVE  /\ ShimInv' /\ CallMoves(t) /\ committed' = committed /\ SlotsKept
         /\ call[t].pc = "crt_driver" /\ call[t].op = "create"
         /\ Made(call'[t]) /\ call'[t].h \in Handle \ {NoHandle}
<1> USE AtStep DEF ShimInv
<1>1. call[t].pc = "crt_driver"
  BY DEF CrtDriver, At
<1>2. call[t].op = "create" /\ "crt_bind" \in CreatePc /\ "crt_bind" \in Pc
      /\ "crt_bind" \notin RoutedPc
  BY <1>1, OpOfPc DEF CreatePc, AskedPc, Pc, RoutedPc
<1>3. PICK h \in FreshHandles : call' = [call EXCEPT ![t].pc = "crt_bind", ![t].h = h]
  <2>1. ASSUME Return(t, FALSE) PROVE FALSE
    BY <1>2, <2>1, ReturnMove DEF At
  <2> QED
    BY <2>1 DEF CrtDriver
<1>4. h \in Handle \ {NoHandle}
  BY DEF FreshHandles
<1> DEFINE d == [call[t] EXCEPT !.pc = "crt_bind", !.h = h]
<1>5. /\ d \in CallRecord /\ d.op = call[t].op /\ d.size = call[t].size
      /\ d.pc = "crt_bind" /\ d.h = h
  BY <1>2, <1>4 DEF CallRecord
<1>6. call' = [call EXCEPT ![t] = d]
  BY <1>3
<1> HIDE DEF d
<1>7. StageOK(d)
  BY <1>2, <1>5 DEF StageOK
<1>8. CallMoves(t) /\ call'[t] = d
  BY <1>5, <1>6, <1>7, MoveTo
<1>9. StateOK' /\ SlotsKept /\ committed' = committed
  BY CallAlone DEF CrtDriver, OnlyDriver
<1> QED
  BY <1>1, <1>2, <1>4, <1>5, <1>8, <1>9 DEF CallMoves, Made

(* shim_bind_create, of the leaf's handle or of one just made.             *)
LEMMA BindEffect ==
  ASSUME ShimInv, NEW t \in Thread, CrtShare(t) \/ CrtBind(t)
  PROVE  /\ ShimInv' /\ CallMoves(t) /\ committed' = committed
         /\ call[t].pc \in {"crt_share", "crt_bind"} /\ call[t].op = "create"
         /\ Succeeded(call'[t], "create") \/ (CrtBind(t) /\ Bound(call'[t]))
         /\ CrtBind(t) /\ PackOn => call'[t].pc = "crt_snapshot"
         /\ call'[t].h = call[t].h
         /\ BindCreate(call[t].h)
<1> USE AtStep DEF ShimInv
<1>1. call[t].pc \in {"crt_share", "crt_bind"} /\ BindCreate(call[t].h) /\ OnlySlots
  BY DEF CrtShare, CrtBind, At
<1>2. /\ call[t].op = "create" /\ "crt_snapshot" \in CreatePc /\ "crt_snapshot" \in BoundPc
      /\ "crt_snapshot" \in Pc /\ "crt_snapshot" \notin RoutedPc
  BY <1>1, OpOfPc DEF CreatePc, AskedPc, BoundPc, Pc, RoutedPc
<1>3. SlotInv'
  BY <1>1, FieldSteps DEF StateOK
<1>4. StateOK' /\ committed' = committed
  BY <1>1, <1>3, SlotsAlone
<1>5. ASSUME Return(t, TRUE)
      PROVE  CallMoves(t) /\ Succeeded(call'[t], "create") /\ call'[t].h = call[t].h
  BY <1>2, <1>5, ReturnMove DEF Succeeded, CallMoves
<1>6. ASSUME Goto(t, "crt_snapshot")
      PROVE  CallMoves(t) /\ call'[t].pc = "crt_snapshot" /\ call'[t].h = call[t].h
  <2> DEFINE d == [call[t] EXCEPT !.pc = "crt_snapshot"]
  <2>1. d.pc = "crt_snapshot" /\ d.op = "create"
    BY <1>2 DEF CallRecord
  <2>2. StageOK(d)
    BY <1>2, <2>1 DEF StageOK
  <2> QED
    BY <1>2, <1>6, <2>2, GotoMove
<1>7. CASE CrtShare(t) /\ ~CrtBind(t)
  BY <1>1, <1>2, <1>4, <1>5, <1>7 DEF CrtShare, CallMoves
<1>8. CASE CrtBind(t)
  <2>1. CASE PackOn
    BY <1>1, <1>2, <1>4, <1>6, <1>8, <2>1 DEF CrtBind, CallMoves, Bound
  <2>2. CASE ~PackOn
    BY <1>1, <1>2, <1>4, <1>5, <1>8, <2>2 DEF CrtBind, CallMoves
  <2> QED
    BY <2>1, <2>2
<1> QED
  BY <1>7, <1>8

(* No leaf to charge the memory to.                                        *)
LEMMA SnapshotEffect ==
  ASSUME ShimInv, NEW t \in Thread, CrtSnapshot(t), legacyVa = NoVa
  PROVE  /\ ShimInv' /\ CallMoves(t) /\ committed' = committed /\ SlotsKept
         /\ call[t].pc = "crt_snapshot" /\ call[t].op = "create"
         /\ Succeeded(call'[t], "create") /\ call'[t].h = call[t].h
<1> USE AtStep DEF ShimInv
<1>1. call[t].pc = "crt_snapshot" /\ Return(t, TRUE)
  BY DEF CrtSnapshot, At
<1>2. call[t].op = "create"
  BY <1>1, OpOfPc DEF CreatePc, BoundPc
<1>3. StateOK' /\ SlotsKept /\ committed' = committed
  BY CallAlone DEF CrtSnapshot, OnlyCall
<1>4. CallMoves(t) /\ call'[t].pc = "done" /\ call'[t].ok /\ call'[t].h = call[t].h
  BY <1>1, <1>2, ReturnMove
<1> QED
  BY <1>1, <1>2, <1>3, <1>4 DEF CallMoves, Succeeded

(* shim_pack_open_arena charges the memory.                                *)
LEMMA OpenEffect ==
  ASSUME ShimInv, NEW t \in Thread, CrtOpen(t)
  PROVE  /\ ShimInv' /\ CallMoves(t) /\ SlotsKept
         /\ CreateRoundSize(call[t].size) \in Nat
         /\ committed' = committed + CreateRoundSize(call[t].size)
         /\ call[t].pc = "crt_open" /\ call[t].op = "create"
         /\ Succeeded(call'[t], "create") /\ call'[t].h = call[t].h
<1> USE AtStep DEF ShimInv
<1>1. call[t].pc = "crt_open" /\ Return(t, TRUE) /\ OnlyPack
  BY DEF CrtOpen, At
<1>2. call[t].op = "create"
  BY <1>1, OpOfPc DEF CreatePc, BoundPc
<1> DEFINE n == CreateRoundSize(call[t].size)
<1>3. n \in Nat
  BY RoundUpPositive, LeafAssumption DEF CreateRoundSize, RoundLeafSize
<1>4. PICK va \in {call[t].va, legacyVa} : OpenArena(va, n, call[t].h)
  BY DEF CrtOpen
<1> HIDE DEF n
<1>5. va \in Nat
  BY DEF StateOK, SlotInv, SlotTypeOK
<1>6. PackInv' /\ committed' = committed + n
  BY <1>3, <1>4, <1>5, OpenArenaStep
  DEF StateOK, OpenArena, OpenArenaAtBase, OpenArenaFresh, NoteCommitted
<1>7. StateOK' /\ SlotsKept
  BY <1>1, <1>6, PackAlone
<1>8. CallMoves(t) /\ call'[t].pc = "done" /\ call'[t].ok /\ call'[t].h = call[t].h
  BY <1>1, <1>2, ReturnMove
<1> QED
  BY <1>1, <1>2, <1>3, <1>6, <1>7, <1>8 DEF CallMoves, Succeeded, n

(* shim_slot_clear_handle.                                                 *)
LEMMA UnbindEffect ==
  ASSUME ShimInv, NEW t \in Thread, RelClear(t)
  PROVE  /\ ShimInv' /\ CallMoves(t) /\ committed' = committed
         /\ call[t].pc = "rel_clear" /\ call[t].op = "release"
         /\ Succeeded(call'[t], "release") /\ call'[t].h = call[t].h
         /\ ClearHandle(call[t].h)
<1> USE AtStep DEF ShimInv
<1>1. call[t].pc = "rel_clear" /\ ClearHandle(call[t].h) /\ Return(t, TRUE) /\ OnlySlots
  BY DEF RelClear, At
<1>2. call[t].op = "release"
  BY <1>1, OpOfPc DEF ReleasePc
<1>3. SlotInv'
  BY <1>1, FieldSteps DEF StateOK
<1>4. StateOK' /\ committed' = committed
  BY <1>1, <1>3, SlotsAlone
<1>5. CallMoves(t) /\ call'[t].pc = "done" /\ call'[t].ok /\ call'[t].h = call[t].h
  BY <1>1, <1>2, ReturnMove
<1> QED
  BY <1>1, <1>2, <1>4, <1>5 DEF CallMoves, Succeeded

(* The four helpers of shim_driver_reset_v1.                               *)
LEMMA ResetSteps ==
  ASSUME ShimInv, NEW t \in Thread, ResetStep(t)
  PROVE  ShimInv' /\ CallMoves(t) /\ call[t].op = "reset"
<1> USE AtStep DEF ShimInv
<1>1. call[t].pc \in ResetPc /\ call[t].op = "reset"
  <2>1. call[t].pc \in ResetPc
    BY DEF ResetStep, RstFlush, RstPack, RstGqa, RstSlots, At, ResetPc
  <2> QED
    BY <2>1, OpOfPc
<1>2. (\E q \in ResetPc : Goto(t, q)) \/ Return(t, TRUE)
  BY DEF ResetStep, RstFlush, RstPack, RstGqa, RstSlots, ResetPc
<1>3. CallMoves(t)
  <2>1. \A q \in ResetPc : q # "rsv_register" /\ q # "rsv_window" /\ q \notin RoutedPc
    BY DEF ResetPc, RoutedPc
  <2> QED
    BY <1>1, <1>2, <2>1, QuietGoto, QuietReturn DEF StaysIn, LeavesBy, QuietCall
<1>4. StateOK'
  <2>1. CASE RstFlush(t) \/ RstPack(t)
    BY <2>1, ForgetStep, PackAlone DEF RstFlush, RstPack, StateOK
  <2>2. CASE RstGqa(t)
    <3>1. buckets' = << >>
      BY <2>2 DEF RstGqa, GqaReset
    <3>2. buckets' \in Seq(BucketRecord)
      BY <3>1
    <3> QED
      BY <2>2, <3>2, BucketsAlone DEF RstGqa
  <2>3. CASE RstSlots(t)
    BY <2>3, ClearStep, SlotsAlone DEF RstSlots, StateOK
  <2> QED
    BY <2>1, <2>2, <2>3 DEF ResetStep
<1> QED
  BY <1>1, <1>3, <1>4 DEF CallMoves

LEMMA CallsStart == ShimInit => ShimInv
<1> SUFFICES ASSUME ShimInit PROVE ShimInv
  OBVIOUS
<1>1. SlotInv /\ PackInv
  BY InitEstablishes, PackInitEstablishes DEF ShimInit
<1>2. buckets \in Seq(BucketRecord)
  BY DEF ShimInit, GqaInit
<1>3. IdleCall \in CallRecord /\ StageOK(IdleCall)
  BY DriverAssumption
  DEF IdleCall, CallRecord, NoVa, Pc, Op, StageOK, RoutedPc
<1> QED
  BY <1>1, <1>2, <1>3 DEF ShimInv, StateOK, CallsOK, ShimInit

(* Every step of a call.                                                   *)
LEMMA ShimStepKeeps ==
  ASSUME ShimInv, NEW t \in Thread, ShimStep(t)
  PROVE  /\ ShimInv' /\ CallMoves(t)
         /\ call[t].op # "none" /\ call[t].pc # "idle" /\ call[t].pc # "done"
         /\ \/ Bookkeeping(t)
            \/ RsvBegin(t) /\ ReserveBeginSlot
            \/ RsvCommit(t) \/ RsvDriverCommit(t) \/ RsvRollback(t) \/ FreSlot(t)
            \/ CrtDriver(t) /\ At(t, "crt_bind")'
            \/ CrtShare(t) \/ CrtBind(t)
            \/ CrtSnapshot(t) /\ legacyVa = NoVa
            \/ CrtOpen(t) \/ RelClear(t)
            \/ call[t].op = "reset"
<1>1. ASSUME Bookkeeping(t) PROVE CallMoves(t)
  BY <1>1 DEF Bookkeeping, QuietCall
<1>2. call[t].op # "none" /\ call[t].pc # "idle" /\ call[t].pc # "done"
  <2>1. StageOK(call[t])
    BY DEF ShimInv, CallsOK
  <2>2. call[t].pc # "idle" /\ call[t].pc # "done"
    BY DEF ShimStep, ReserveStep, CreateStep, MapStep, UnmapStep, ReleaseStep, FreeStep,
       ResetStep, At,
       RsvBegin, RsvReq, RsvAlias, RsvNoAlias, RsvFlush, RsvTry, RsvMega, RsvCommit, RsvMark,
       RsvOff, RsvSetOff, RsvLeafOff, RsvRegister, RsvDriver, RsvRollback, RsvDriverCommit,
       RsvDriverRegister, RsvWindow, CrtPacked, CrtRetain, CrtShare, CrtValidate, CrtDriver,
       CrtBind, CrtSnapshot, CrtOpen, MapValidate, MapRoute, MapPacked, MapOff, MapDriver,
       MapMark, MapUsage, MapActive, MapReq, MapBump, UnmValidate, UnmKnown, UnmRoute,
       UnmDriver, UnmClear, RelValidate,
       RelRef, RelDriver, RelClear, FreLookup, FreRoute, FreDriver, FreSlot, RstFlush,
       RstPack, RstGqa, RstSlots
  <2> QED
    BY <2>1, <2>2 DEF StageOK, ReservePc, PendingPc, GrantedPc, CreatePc, AskedPc, BoundPc,
       MapPc, UnmapPc, ReleasePc, FreePc, ResetPc
<1>3. CASE ReserveStep(t)
  <2>1. CASE RsvReq(t) \/ RsvMark(t) \/ RsvSetOff(t) \/ (RsvBegin(t) /\ ~ReserveBeginSlot)
    BY <1>1, <1>2, <2>1, ReserveSlotSteps
  <2>2. CASE RsvNoAlias(t) \/ RsvOff(t) \/ RsvLeafOff(t) \/ RsvDriver(t)
    BY <1>1, <1>2, <2>2, ReserveCallSteps
  <2>3. CASE RsvFlush(t) \/ RsvTry(t) \/ RsvMega(t) \/ RsvWindow(t)
    BY <1>1, <1>2, <2>3, ReservePackSteps
  <2>4. CASE RsvAlias(t) \/ RsvRegister(t) \/ RsvDriverRegister(t)
    BY <1>1, <1>2, <2>4, ReserveBucketSteps
  <2>5. CASE RsvBegin(t) /\ ReserveBeginSlot
    BY <1>2, <2>5, BeginEffect
  <2>6. CASE RsvCommit(t) \/ RsvDriverCommit(t)
    BY <1>2, <2>6, CommitEffect
  <2>7. CASE RsvRollback(t)
    BY <1>2, <2>7, RollbackEffect
  <2> QED
    BY <1>3, <2>1, <2>2, <2>3, <2>4, <2>5, <2>6, <2>7 DEF ReserveStep
<1>4. CASE CreateStep(t)
  <2>1. CASE \/ CrtPacked(t) \/ CrtRetain(t) \/ CrtValidate(t)
             \/ (CrtDriver(t) /\ ~At(t, "crt_bind")')
             \/ (CrtSnapshot(t) /\ legacyVa # NoVa)
    BY <1>1, <1>2, <2>1, CreateQuietSteps
  <2>2. CASE CrtDriver(t) /\ At(t, "crt_bind")'
    BY <1>2, <2>2, MadeEffect
  <2>3. CASE CrtShare(t) \/ CrtBind(t)
    BY <1>2, <2>3, BindEffect
  <2>4. CASE CrtSnapshot(t) /\ legacyVa = NoVa
    BY <1>2, <2>4, SnapshotEffect
  <2>5. CASE CrtOpen(t)
    BY <1>2, <2>5, OpenEffect
  <2> QED
    BY <1>4, <2>1, <2>2, <2>3, <2>4, <2>5 DEF CreateStep
<1>5. CASE MapStep(t) \/ UnmapStep(t)
  BY <1>1, <1>2, <1>5, MapSteps, UnmapSteps
<1>6. CASE ReleaseStep(t)
  BY <1>1, <1>2, <1>6, ReleaseQuietSteps, UnbindEffect DEF ReleaseStep
<1>7. CASE FreeStep(t)
  BY <1>1, <1>2, <1>7, FreeQuietSteps, FreeEffect DEF FreeStep
<1>8. CASE ResetStep(t)
  BY <1>2, <1>8, ResetSteps
<1> QED
  BY <1>3, <1>4, <1>5, <1>6, <1>7, <1>8 DEF ShimStep

(* A step belongs to the call in progress.                                 *)
LEMMA StepOfOp ==
  ASSUME CallsOK, NEW t \in Thread, ShimStep(t)
  PROVE  /\ call[t].op = "reserve" => ReserveStep(t)
         /\ call[t].op = "create" => CreateStep(t)
         /\ call[t].op = "map" => MapStep(t)
         /\ call[t].op = "unmap" => UnmapStep(t)
         /\ call[t].op = "release" => ReleaseStep(t)
         /\ call[t].op = "free" => FreeStep(t)
         /\ call[t].op = "reset" => ResetStep(t)
<1>1. StageOK(call[t])
  BY DEF CallsOK
<1>2. ReserveStep(t) => call[t].pc \in ReservePc
  BY DEF ReserveStep, RsvBegin, RsvReq, RsvAlias, RsvNoAlias, RsvFlush, RsvTry,
     RsvMega, RsvCommit, RsvMark, RsvOff, RsvSetOff, RsvLeafOff, RsvRegister, RsvDriver,
     RsvRollback, RsvDriverCommit, RsvDriverRegister, RsvWindow, At, ReservePc, PendingPc,
     GrantedPc
<1>3. CreateStep(t) => call[t].pc \in CreatePc
  BY DEF CreateStep, CrtPacked, CrtRetain, CrtShare, CrtValidate, CrtDriver, CrtBind,
     CrtSnapshot, CrtOpen, At, CreatePc, AskedPc, BoundPc
<1>4. MapStep(t) => call[t].pc \in MapPc
  BY DEF MapStep, MapValidate, MapRoute, MapPacked, MapOff, MapDriver, MapMark,
         MapUsage, MapActive, MapReq,
     MapBump, At, MapPc
<1>5. UnmapStep(t) => call[t].pc \in UnmapPc
  BY DEF UnmapStep, UnmValidate, UnmKnown, UnmRoute, UnmDriver, UnmClear, At, UnmapPc
<1>6. ReleaseStep(t) => call[t].pc \in ReleasePc
  BY DEF ReleaseStep, RelValidate, RelRef, RelDriver, RelClear, At, ReleasePc
<1>7. FreeStep(t) => call[t].pc \in FreePc
  BY DEF FreeStep, FreLookup, FreRoute, FreDriver, FreSlot, At, FreePc
<1>8. ResetStep(t) => call[t].pc \in ResetPc
  BY DEF ResetStep, RstFlush, RstPack, RstGqa, RstSlots, At, ResetPc
<1> QED
  BY <1>1, <1>2, <1>3, <1>4, <1>5, <1>6, <1>7, <1>8, OpOfPc DEF ShimStep

-----------------------------------------------------------------------------
(* Addresses and bases, where calls come one at a time: an address handed  *)
(* out is never null, and a create has a slot to charge its leaf to.       *)

AddressOK(c) ==
  /\ c.pc \in {"rsv_commit", "rsv_dcommit"} \/ Granted(c) => c.va # NoVa
  /\ c.pc = "rsv_register" => c.off < c.va

BasesOK ==
  /\ arena.active => arena.base # NoVa
  /\ \A i \in DOMAIN buckets : buckets[i].base # NoVa

(* A create has a slot to bind to, and then a slot to charge it to.        *)
TargetOK(c) ==
  /\ c.pc \in {"crt_driver", "crt_bind"} => FindPendingCreate >= 0
  /\ c.pc \in {"crt_snapshot", "crt_open"} => legacyVa # NoVa
  /\ c.pc = "crt_open" => c.va = legacyVa

LEMMA GrantedOnlyInReserves ==
  ASSUME NEW c, StageOK(c), c.op # "reserve"
  PROVE  /\ ~Pending(c) /\ ~Granted(c) /\ AddressOK(c)
<1>1. c.pc \notin ReservePc
  BY OpOfPc
<1> QED
  BY <1>1, PcsApart
  DEF AddressOK, Pending, Granted, Succeeded, ReservePc, PendingPc, GrantedPc

(* Steps of a reserve that keep the address they have.                     *)
LEMMA AddressKeptByMove ==
  ASSUME NEW c, NEW d, AddressOK(c), d.va = c.va,
         \/ c.pc \in {"rsv_commit", "rsv_dcommit"} \/ Granted(c)
         \/ d.pc \notin {"rsv_commit", "rsv_dcommit"} /\ ~Granted(d),
         d.pc = "rsv_register" => d.off < d.va
  PROVE  AddressOK(d)
  BY DEF AddressOK

LEMMA GrantGivesAddress ==
  ASSUME CallsOK, NEW t \in Thread, NEW route, NEW va, NEW sz, va # NoVa,
         Grant(t, route, va, sz)
  PROVE  AddressOK(call'[t])
<1>1. call'[t].pc = "rsv_commit" /\ call'[t].va = va
  BY DEF Grant, CallsOK, CallRecord
<1> QED
  BY <1>1 DEF AddressOK

LEMMA AddressesInReserve ==
  ASSUME ShimInv, BasesOK, NEW t \in Thread, AddressOK(call[t]), ReserveStep(t)
  PROVE  AddressOK(call'[t])
<1> DEFINE c == call[t]
<1>1. /\ call \in [Thread -> CallRecord] /\ c \in CallRecord /\ StageOK(c)
      /\ c.va \in Nat /\ c.size \in Nat /\ c.off \in Nat
      /\ PackInv /\ buckets \in Seq(BucketRecord)
  BY AtStep DEF ShimInv, CallsOK, StateOK
<1>2. ASSUME NEW q, Goto(t, q), q # "rsv_register",
             c.pc \in {"rsv_commit", "rsv_dcommit"} \union GrantedPc
               \/ q \notin {"rsv_commit", "rsv_dcommit", "done"} \union GrantedPc
      PROVE  AddressOK(call'[t])
  <2>1. call'[t].pc = q /\ call'[t].va = c.va
    BY <1>1, <1>2 DEF Goto, CallRecord
  <2> QED
    BY <1>2, <2>1, AddressKeptByMove DEF Granted, Succeeded
<1>3. ASSUME NEW ok \in BOOLEAN, Return(t, ok),
             ok => c.pc \in {"rsv_commit", "rsv_dcommit"} \union GrantedPc
      PROVE  AddressOK(call'[t])
  <2>1. call'[t].pc = "done" /\ call'[t].va = c.va /\ call'[t].ok = ok
    BY <1>1, <1>3 DEF Return, CallRecord
  <2>2. "done" \notin GrantedPc
    BY PcsApart
  <2> QED
    BY <1>3, <2>1, <2>2, AddressKeptByMove DEF Granted, Succeeded
<1>4. ASSUME NEW off \in Nat, NEW q, c.pc \in GrantedPc, q \in {"rsv_setoff", "rsv_register"},
             call' = [call EXCEPT ![t].pc = q, ![t].off = off],
             q = "rsv_register" => off < c.va
      PROVE  AddressOK(call'[t])
  <2>1. call'[t].pc = q /\ call'[t].va = c.va /\ call'[t].off = off
    BY <1>1, <1>4 DEF CallRecord
  <2> QED
    BY <1>4, <2>1, AddressKeptByMove DEF Granted
<1>5. c.pc \in GrantedPc => c.va \in Nat \ {0}
  BY <1>1 DEF AddressOK, Granted, NoVa
<1>6. c.pc \in GrantedPc => MapOffsetOf(c.va) \in Nat /\ MapOffsetOf(c.va) < c.va
  <2> SUFFICES ASSUME c.pc \in GrantedPc
               PROVE  MapOffsetOf(c.va) \in Nat /\ MapOffsetOf(c.va) < c.va
    OBVIOUS
  <2>1. arena.active => arena.base \in Nat \ {0}
    BY <1>1 DEF BasesOK, PackInv, PackTypeOK, ArenaRecord, NoVa
  <2> QED
    BY <1>5, <2>1 DEF MapOffsetOf
<1> HIDE DEF c
<1>7. CASE \/ RsvBegin(t) \/ RsvReq(t) \/ RsvNoAlias(t) \/ RsvFlush(t) \/ RsvRollback(t)
  <2>1. \/ \E q \in PendingPc \ {"rsv_commit", "rsv_dcommit"} : Goto(t, q)
        \/ Return(t, FALSE)
    <3>1. CASE RsvNoAlias(t)
      <4>1. c.size > Leaf \/ (c.size <= Leaf /\ PackOn) \/ (c.size <= Leaf /\ ~PackOn)
        BY <1>1, LeafAssumption, ShimAssumption
      <4> QED
        BY <3>1, <4>1, LeafAssumption, <1>1 DEF RsvNoAlias, PendingPc, c
    <3> QED
      BY <1>7, <3>1 DEF RsvBegin, RsvReq, RsvFlush, RsvRollback, PendingPc
  <2>2. \A q \in PendingPc : q \notin GrantedPc /\ q # "done" /\ q # "rsv_register"
    BY PcsApart DEF PendingPc, GrantedPc
  <2> QED
    BY <1>2, <1>3, <2>1, <2>2
<1>8. CASE RsvAlias(t)
  <2>1. /\ AliasFits(c.size) /\ Grant(t, "alias", AliasVa(c.size), PlacementRound(c.size))
    BY <1>8 DEF RsvAlias, TryAlias, c
  <2>2. AliasVa(c.size) # NoVa
    BY <1>1, <2>1, AliasBucket DEF AliasVa, BasesOK
  <2> QED
    BY <2>1, <2>2, GrantGivesAddress DEF ShimInv
<1>9. CASE RsvTry(t)
  <2>1. CASE TryReserve(c.size) /\ Grant(t, "sub", arena.base + TryOffset(c.size), PlacementRound(c.size))
    <3>1. arena.active /\ arena.base \in Nat \ {0}
      BY <1>1, <2>1 DEF TryReserve, TryFits, BasesOK, PackInv, PackTypeOK, ArenaRecord, NoVa
    <3>2. TryOffset(c.size) \in Nat
      BY <1>1, <2>1, GrantFits DEF PackInv, TryReserve
    <3>3. arena.base + TryOffset(c.size) # NoVa
      BY <3>1, <3>2 DEF NoVa
    <3> QED
      BY <2>1, <3>3, GrantGivesAddress DEF ShimInv
  <2>2. CASE Goto(t, "rsv_mega")
    BY <1>2, <2>2 DEF GrantedPc
  <2> QED
    BY <1>9, <2>1, <2>2 DEF RsvTry, c
<1>10. CASE RsvMega(t)
  <2>1. CASE TakeMegaLeaf /\ Grant(t, "leaf", NextLeafBase, Leaf)
    <3>1. mega.base \in Nat /\ mega.used \in Nat /\ 1 <= mega.used
      BY <1>1, <2>1
      DEF TakeMegaLeaf, MegaHasLeaf, PackInv, PackTypeOK, MegaRecord, WindowCoherent
    <3>2. 1 * Leaf <= mega.used * Leaf /\ mega.used * Leaf \in Nat
      BY <3>1, ProductMonotone, ProductNat, LeafAssumption
    <3>3. NextLeafBase # NoVa
      BY <3>1, <3>2, LeafAssumption DEF NextLeafBase, NoVa
    <3> QED
      BY <2>1, <3>3, GrantGivesAddress DEF ShimInv
  <2>2. CASE Goto(t, "rsv_driver")
    BY <1>2, <2>2 DEF GrantedPc
  <2> QED
    BY <1>10, <2>1, <2>2 DEF RsvMega
<1>11. CASE RsvDriver(t)
  <2>1. CASE /\ Rooms(DriverSize(t)) # {}
             /\ call' = [call EXCEPT ![t].pc = "rsv_dcommit", ![t].sz = DriverSize(t),
                                     ![t].va = NextRoom(DriverSize(t))]
    <3>1. NextRoom(DriverSize(t)) # NoVa
      BY <2>1, RoomIsAddress DEF NoVa
    <3>2. call'[t].pc = "rsv_dcommit" /\ call'[t].va = NextRoom(DriverSize(t))
      BY <1>1, <2>1 DEF CallRecord
    <3> QED
      BY <3>1, <3>2 DEF AddressOK
  <2>2. CASE Goto(t, "rsv_rollback")
    BY <1>2, <2>2 DEF GrantedPc
  <2> QED
    BY <1>11, <2>1, <2>2 DEF RsvDriver, DriverReserve
<1>12. CASE RsvOff(t) \/ RsvLeafOff(t)
  <2>1. c.pc \in GrantedPc
    BY <1>12 DEF RsvOff, RsvLeafOff, At, GrantedPc, c
  <2> QED
    BY <1>4, <1>6, <1>12, <2>1 DEF RsvOff, RsvLeafOff, c
<1>13. CASE RsvSetOff(t)
  <2>1. c.pc \in GrantedPc
    BY <1>13 DEF RsvSetOff, At, GrantedPc, c
  <2>2. CASE Return(t, TRUE)
    BY <1>3, <2>1, <2>2
  <2>3. CASE Goto(t, "rsv_leafoff")
    BY <1>2, <2>1, <2>3
  <2>4. CASE call' = [call EXCEPT ![t].pc = "rsv_register", ![t].off = 0]
    <3>1. 0 \in Nat /\ 0 < c.va
      BY <1>5, <2>1
    <3>2. call'[t].pc = "rsv_register" /\ call'[t].va = c.va /\ call'[t].off = 0
      BY <1>1, <2>4 DEF CallRecord, c
    <3>3. AddressOK(c)
      BY DEF c
    <3> QED
      BY <2>1, <3>1, <3>2, <3>3, AddressKeptByMove DEF Granted
  <2>5. c.route \in {"alias", "sub", "leaf"} /\ GqaOn \in BOOLEAN
    BY <1>1, <1>13, GqaAssumption DEF RsvSetOff, At, CallRecord, StageOK, RoutedPc, c
  <2> QED
    BY <1>13, <2>2, <2>3, <2>4, <2>5 DEF RsvSetOff, c
<1>14. CASE \/ RsvCommit(t) \/ RsvMark(t) \/ RsvRegister(t) \/ RsvDriverCommit(t)
            \/ RsvDriverRegister(t) \/ RsvWindow(t)
  <2>1. c.pc \in {"rsv_commit", "rsv_dcommit"} \union GrantedPc
    BY <1>14
    DEF RsvCommit, RsvMark, RsvRegister, RsvDriverCommit, RsvDriverRegister, RsvWindow, At,
        GrantedPc, c
  <2>2. \/ Return(t, TRUE)
        \/ \E q \in {"rsv_mark", "rsv_off", "rsv_dregister", "rsv_window"} : Goto(t, q)
    BY <1>14
    DEF RsvCommit, RsvMark, RsvRegister, RsvDriverCommit, RsvDriverRegister, RsvWindow,
        AfterDriverCommit
  <2> QED
    BY <1>2, <1>3, <2>1, <2>2
<1> QED
  BY <1>7, <1>8, <1>9, <1>10, <1>11, <1>12, <1>13, <1>14 DEF ReserveStep

(* The arena and the alias buckets keep to addresses.                      *)
LEMMA BasesInCall ==
  ASSUME ShimInv, BasesOK, NEW t \in Thread, ShimStep(t), call[t].op # "reset",
         AddressOK(call[t]), TargetOK(call[t])
  PROVE  BasesOK'
<1> DEFINE c == call[t]
<1>1. /\ c \in CallRecord /\ StageOK(c) /\ c.va \in Nat /\ c.size \in Nat /\ c.off \in Nat
      /\ PackInv /\ buckets \in Seq(BucketRecord)
      /\ arena \in ArenaRecord /\ mega \in MegaRecord
  BY AtStep DEF ShimInv, StateOK, PackInv, PackTypeOK
<1>2. CASE arena' = arena /\ buckets' = buckets
  BY <1>2 DEF BasesOK
<1>3. ASSUME arena'.active => arena'.base # NoVa, buckets' = buckets
      PROVE  BasesOK'
  BY <1>3 DEF BasesOK
<1>4. ASSUME NEW base \in Nat, NEW req \in Nat, base # NoVa, RegisterLeaf(base, req), arena' = arena
      PROVE  BasesOK'
  <2> DEFINE new == [logical |-> PlacementRound(req), base |-> base, heads |-> 1]
  <2>1. buckets' = buckets \/ buckets' = Append(buckets, new)
    BY <1>4 DEF RegisterLeaf
  <2>2. new.base # NoVa /\ new \in BucketRecord
    BY <1>4, PlacementPositive DEF BucketRecord
  <2> HIDE DEF new
  <2>3. CASE buckets' = Append(buckets, new)
    <3>1. \A i \in DOMAIN buckets' : buckets'[i] = new \/ (i \in DOMAIN buckets /\ buckets'[i] = buckets[i])
      BY <1>1, <2>2, <2>3
    <3> QED
      BY <1>4, <2>2, <3>1 DEF BasesOK
  <2> QED
    BY <1>2, <1>4, <2>1, <2>3
<1> HIDE DEF c
<1>5. CASE ReserveStep(t)
  <2>1. CASE RsvAlias(t)
    <3> DEFINE k == Min(AliasBuckets(call[t].size))
    <3>1. k \in DOMAIN buckets /\ buckets[k] \in BucketRecord
      BY <1>1, <2>1, AliasBucket DEF RsvAlias, TryAlias, c
    <3>2. buckets' = [buckets EXCEPT ![k] = [buckets[k] EXCEPT !.heads = buckets[k].heads + 1]]
      BY <2>1 DEF RsvAlias, TryAlias
    <3> HIDE DEF k
    <3>3. \A i \in DOMAIN buckets' : i \in DOMAIN buckets /\ buckets'[i].base = buckets[i].base
      BY <1>1, <3>1, <3>2 DEF BucketRecord
    <3>4. arena' = arena
      BY <2>1 DEF RsvAlias, OnlyBuckets, packVars
    <3> QED
      BY <3>3, <3>4 DEF BasesOK
  <2>2. CASE RsvRegister(t)
    <3>1. c.pc = "rsv_register" /\ RegisterLeaf(c.va - c.off, c.size) /\ arena' = arena
      BY <2>2 DEF RsvRegister, At, OnlyBuckets, packVars, c
    <3>2. c.va - c.off \in Nat /\ c.va - c.off # NoVa
      BY <1>1, <3>1 DEF AddressOK, NoVa, c
    <3> QED
      BY <1>1, <1>4, <3>1, <3>2
  <2>3. CASE RsvDriverRegister(t)
    <3>1. c.pc = "rsv_dregister" /\ RegisterLeaf(c.va, c.size) /\ arena' = arena
      BY <2>3 DEF RsvDriverRegister, At, OnlyBuckets, packVars, c
    <3>2. c.va # NoVa
      BY <3>1 DEF AddressOK, Granted, GrantedPc, c
    <3> QED
      BY <1>1, <1>4, <3>1, <3>2
  <2>4. CASE RsvFlush(t)
    BY <1>3, <2>4 DEF RsvFlush, PackFlush, NoArena, OnlyPack
  <2>5. CASE RsvTry(t)
    <3>1. arena'.active = arena.active /\ arena'.base = arena.base /\ buckets' = buckets
      BY <1>1, <2>5 DEF RsvTry, TryReserve, OnlyPack, packVars, ArenaRecord
    <3> QED
      BY <1>3, <3>1 DEF BasesOK
  <2>6. CASE RsvMega(t)
    <3>1. CASE TakeMegaLeaf
      <4>1. mega.base \in Nat /\ mega.used \in Nat /\ 1 <= mega.used
        BY <1>1, <3>1
        DEF TakeMegaLeaf, MegaHasLeaf, PackInv, PackTypeOK, MegaRecord, WindowCoherent
      <4>2. 1 * Leaf <= mega.used * Leaf /\ mega.used * Leaf \in Nat
        BY <4>1, ProductMonotone, ProductNat, LeafAssumption
      <4>3. NextLeafBase # NoVa
        BY <4>1, <4>2, LeafAssumption DEF NextLeafBase, NoVa
      <4>4. arena'.base = NextLeafBase
        BY <3>1 DEF TakeMegaLeaf, FreshArena
      <4> QED
        BY <1>3, <2>6, <4>3, <4>4 DEF RsvMega, OnlyPack
    <3>2. CASE UNCHANGED packVars
      BY <1>2, <2>6, <3>2 DEF RsvMega, OnlyPack, packVars
    <3> QED
      BY <2>6, <3>1, <3>2 DEF RsvMega
  <2>7. CASE RsvWindow(t)
    <3>1. c.pc = "rsv_window" /\ arena'.base = c.va /\ buckets' = buckets
      BY <2>7 DEF RsvWindow, At, MegaOpen, FreshArena, OnlyPack, c
    <3>2. c.va # NoVa
      BY <3>1 DEF AddressOK, Granted, GrantedPc, c
    <3> QED
      BY <1>3, <3>1, <3>2
  <2>8. CASE \/ RsvBegin(t) \/ RsvReq(t) \/ RsvNoAlias(t) \/ RsvCommit(t) \/ RsvMark(t)
             \/ RsvOff(t) \/ RsvSetOff(t) \/ RsvLeafOff(t) \/ RsvDriver(t) \/ RsvRollback(t)
             \/ RsvDriverCommit(t)
    BY <1>2, <2>8
    DEF RsvBegin, RsvReq, RsvNoAlias, RsvCommit, RsvMark, RsvOff, RsvSetOff, RsvLeafOff,
        RsvDriver, RsvRollback, RsvDriverCommit, OnlySlots, OnlyCall, OnlyDriver, shimVars,
        packVars
  <2> QED
    BY <1>5, <2>1, <2>2, <2>3, <2>4, <2>5, <2>6, <2>7, <2>8 DEF ReserveStep
<1>6. CASE CreateStep(t)
  <2>1. CASE CrtOpen(t)
    <3>1. c.pc = "crt_open" /\ buckets' = buckets
      BY <2>1 DEF CrtOpen, At, OnlyPack, c
    <3>2. PICK va \in {c.va, legacyVa} : OpenArena(va, CreateRoundSize(c.size), c.h)
      BY <2>1 DEF CrtOpen, c
    <3>3. va # NoVa
      BY <3>1, <3>2 DEF TargetOK, c
    <3>4. arena'.base = va
      BY <1>1, <3>2 DEF OpenArena, OpenArenaAtBase, OpenArenaFresh, FreshArena, ArenaRecord
    <3> QED
      BY <1>3, <3>1, <3>3, <3>4
  <2>2. CASE ~CrtOpen(t)
    BY <1>2, <1>6, <2>2
    DEF CreateStep, CrtPacked, CrtRetain, CrtShare, CrtValidate, CrtDriver, CrtBind,
        CrtSnapshot, RetainHandle, OnlySlots, OnlyPack, OnlyCall, OnlyDriver, shimVars, packVars
  <2> QED
    BY <2>1, <2>2
<1>7. CASE MapStep(t)
  <2>1. CASE MapBump(t)
    <3>1. arena'.active = arena.active /\ arena'.base = arena.base /\ buckets' = buckets
      BY <1>1, <2>1 DEF MapBump, BumpUsage, OnlyPack, ArenaRecord
    <3> QED
      BY <1>3, <3>1 DEF BasesOK
  <2>2. CASE ~MapBump(t)
    BY <1>2, <1>7, <2>2
    DEF MapStep, MapValidate, MapRoute, MapPacked, MapOff, MapDriver, MapMark, MapUsage,
        MapActive, MapReq, OnlySlots, OnlyCall, OnlyDriver, shimVars, packVars
  <2> QED
    BY <2>1, <2>2
<1>8. CASE UnmapStep(t) \/ ReleaseStep(t) \/ FreeStep(t)
  BY <1>2, <1>8
  DEF UnmapStep, UnmValidate, UnmKnown, UnmRoute, UnmDriver, UnmClear, ReleaseStep,
      RelValidate, RelRef,
      RelDriver, RelClear, ReleaseRef, FreeStep, FreLookup, FreRoute, FreDriver, FreSlot,
      OnlySlots, OnlyPack, OnlyCall, OnlyDriver, shimVars, packVars
<1>9. CASE ResetStep(t)
  BY <1>9, ResetSteps
<1> QED
  BY <1>5, <1>6, <1>7, <1>8, <1>9 DEF ShimStep
=============================================================================
