------------------------------ MODULE IronHarness ------------------------------
(***************************************************************************)
(* The memory benches of tools/shim_iron: run_frag_bench,                  *)
(* run_iso_logical_bench, run_kv_tail_bench, the resident benches          *)
(* (run_oom_ladder, run_resident_bench), run_microbench ("alloc") and the  *)
(* chain mode of iron_probe_v1.c.  One thread fills a pool of slots call   *)
(* by call, unwinds the slot a call failed for, and tears the pool down    *)
(* again; the frag bench may churn first, and then resets the shim and the *)
(* CUDA context; the kv_tail bench goes on after a failed slot and tries   *)
(* it again; alloc and chain give every slot back before they go on.       *)
(*                                                                         *)
(* A bench runs with the shim in front of the driver, or on the driver     *)
(* alone (the stock path).  A wall-clock limit is a choice to stop at any  *)
(* moment.  Left out: the figures reported but for committed_bytes.        *)
(***************************************************************************)
EXTENDS Shim, IronMath, SequencesExt

CONSTANTS
  Main,        \* the only thread
  Setups,      \* the benches that may be run, each on a path with its limits
  Sizes,       \* per bench, the requests in order, over and over
  PoolSize,    \* FRAG_MAX_SLOTS, ISO_MAX_SLOTS or RESIDENT_MAX_SLOTS
  OomAttempts, \* OOM_MAX_ATTEMPTS
  ChurnLive,   \* slots that must be live before churn frees one, 4 in the code
  ChurnCycles  \* bound: cycles of the churn loop

ASSUME HarnessAssumption ==
  /\ Thread = {Main}
  /\ \A s \in Setups :
       /\ s.bench \in {"frag", "iso", "resident", "kv_tail", "alloc", "chain"}
       /\ s.path \in {"shim", "stock"} /\ s.cap \in Nat /\ s.target \in Nat
       /\ s.heads \in Nat \ {0} /\ (s.path = "stock" => s.heads = 1)
       /\ Sizes[s.bench] \in Seq(Size \ {0}) /\ Sizes[s.bench] # << >>
  /\ PoolSize \in Nat \ {0} /\ OomAttempts \in Nat
  /\ ChurnLive \in Nat /\ ChurnCycles \in Nat

VARIABLES
  setup,   \* the bench at hand: its path, and the limits of the iso bench
  pool,    \* the slots, as the bench knows them
  appended, \* n_append, or the number of slots mapped
  counted, \* n of the iso bench: the logical slots, mapped or not
  liveN,   \* live_n of the churn loop
  seq,     \* the requests made so far, modulo the number of sizes
  cycles,  \* cycles of the churn loop or of the OOM probe
  stage,   \* where the bench is
  work     \* the calls left to make for one slot, and what they are for

benchVars == <<setup, pool, appended, counted, liveN, seq, cycles, stage, work>>
harnessVars == <<vars, benchVars>>

PoolIndex == 0 .. PoolSize - 1

BlankSlot == [va |-> NoVa, h |-> NoHandle, req |-> 0, live |-> FALSE]
NoWork == [kind |-> "none", slot |-> 0, plan |-> << >>]

Busy == work.plan # << >>
Free == work.kind = "none"

(* The loops over the pool run from 0 to n_append.                         *)
Live == {i \in PoolIndex : i < appended /\ pool[i].live}

bench == setup.bench
Shimmed == setup.path = "shim"
Cycling == bench \in {"alloc", "chain"}

(* shim_create_logical of resident_map_size; resident_map_one passes 0.    *)
Logical == Shimmed /\ bench \notin {"resident", "alloc", "chain"}
AllocBytes(req) == FragAllocBytes(req)
ReserveBytes(req) ==
  IF Logical /\ AllocBytes(req) <= Leaf THEN IronPlacementRound(req) ELSE AllocBytes(req)
CreateBytes(req) == IF Logical THEN req ELSE AllocBytes(req)

MapPlan == <<"reserve", "create", "map", "access">>
CyclePlan == <<"reserve", "create", "map", "unmap", "release", "free">>

(* Faulty variant: memory that could not be mapped is not released.        *)
UnwindKeepsMemory(op) ==
  CASE bench = "chain" \/ op \in {"reserve", "free"} -> << >>
    [] bench # "chain" /\ op # "access"              -> <<"free">>
    [] bench # "chain" /\ op = "access"              -> <<"unmap", "release", "free">>

(* What is undone when a call of a plan fails; the probe undoes nothing.   *)
Unwind(op) ==
  CASE bench = "chain" \/ op \in {"reserve", "free"}     -> << >>
    [] bench # "chain" /\ op \in {"create", "release"}   -> <<"free">>
    [] bench # "chain" /\ op \in {"map", "unmap"}        -> <<"release", "free">>
    [] bench # "chain" /\ op = "access"                  -> <<"unmap", "release", "free">>

(* frag_slot_teardown releases before it unmaps, resident_teardown after.  *)
TeardownPlan ==
  IF bench \in {"frag", "kv_tail"} THEN <<"release", "unmap", "free">> ELSE <<"unmap", "release", "free">>

(* run_kv_tail_bench counts a slot before it maps it, and goes on when the *)
(* mapping fails.                                                          *)
Retries == bench = "kv_tail"

BenchInit ==
  /\ ShimInit
  /\ setup \in Setups
  /\ pool = [i \in PoolIndex |-> BlankSlot]
  /\ appended = 0 /\ counted = 0 /\ liveN = 0 /\ seq = 0 /\ cycles = 0
  /\ stage \in {"resident"} \union (IF bench = "frag" THEN {"churn"} ELSE {})
  /\ work = NoWork

-----------------------------------------------------------------------------
(* Calls on the slot at hand.                                              *)

Slot == pool[work.slot]

EnterOp(op) ==
  CASE op = "reserve" -> Enter(Main, op, "rsv_begin", NoVa, ReserveBytes(Slot.req), NoHandle)
    [] op = "create"  -> Enter(Main, op, "crt_packed", NoVa, CreateBytes(Slot.req), NoHandle)
    [] op = "map"     -> Enter(Main, op, "map_validate", Slot.va, AllocBytes(Slot.req), Slot.h)
    [] op = "unmap"   -> Enter(Main, op, "unm_validate", Slot.va, AllocBytes(Slot.req), NoHandle)
    [] op = "release" -> Enter(Main, op, "rel_validate", NoVa, 0, Slot.h)
    [] op = "free"    -> Enter(Main, op, "fre_lookup", Slot.va, ReserveBytes(Slot.req), NoHandle)

StartCall ==
  /\ Shimmed /\ Busy /\ Idle(Main) /\ Head(work.plan) # "access"
  /\ EnterOp(Head(work.plan))
  /\ OnlyCall /\ UNCHANGED benchVars

InCall == Busy /\ ShimStep(Main) /\ UNCHANGED benchVars

(* A failure turns a mapping into its unwinding; unwinding and teardown    *)
(* ignore what their calls return.                                         *)
Advance(ok) ==
  IF ok \/ work.kind \notin {"map", "cycle"}
  THEN work' = [work EXCEPT !.plan = Tail(@)]
  ELSE work' = [work EXCEPT !.kind = "undo", !.plan = Unwind(Head(@))]

FinishCall ==
  /\ Busy /\ Done(Main)
  /\ Advance(call[Main].ok)
  /\ pool' = IF ~call[Main].ok THEN pool
             ELSE CASE call[Main].op = "reserve" ->
                         [pool EXCEPT ![work.slot].va = call[Main].va]
                    [] call[Main].op = "create" ->
                         [pool EXCEPT ![work.slot].h = call[Main].h]
                    [] OTHER -> pool
  /\ call' = [call EXCEPT ![Main] = IdleCall]
  /\ OnlyCall /\ UNCHANGED <<setup, appended, counted, liveN, seq, cycles, stage>>

(* On the stock path a call is the driver's.                               *)
DriverTakes(op) ==
  CASE op = "reserve" ->
         /\ DriverReserve(ReserveBytes(Slot.req))
         /\ pool' = [pool EXCEPT ![work.slot].va = NextRoom(ReserveBytes(Slot.req))]
    [] op = "create"  ->
         \E h \in FreshHandles : /\ DriverCreate(h, CreateBytes(Slot.req))
                                 /\ pool' = [pool EXCEPT ![work.slot].h = h]
    [] op = "map"     -> DriverMap(Slot.va, AllocBytes(Slot.req), 0, Slot.h) /\ UNCHANGED pool
    [] op = "unmap"   -> DriverUnmap(Slot.va, AllocBytes(Slot.req)) /\ UNCHANGED pool
    [] op = "release" -> DriverRelease(Slot.h) /\ UNCHANGED pool
    [] op = "free"    -> DriverAddressFree(Slot.va, ReserveBytes(Slot.req)) /\ UNCHANGED pool

DriverRefuses(op) ==
  CASE op = "reserve" -> DriverFails \/ Rooms(ReserveBytes(Slot.req)) = {}
    [] op = "create"  -> DriverFails \/ FreshHandles = {}
    [] op = "map"     -> DriverFails \/ ~CanMap(Slot.va, AllocBytes(Slot.req), 0, Slot.h)
    [] op = "unmap"   -> GiveBackFails \/ ~CanUnmap(Slot.va, AllocBytes(Slot.req))
    [] op = "release" -> GiveBackFails \/ ~CanRelease(Slot.h)
    [] op = "free"    -> GiveBackFails \/ ~CanAddressFree(Slot.va, ReserveBytes(Slot.req))

StockCall ==
  /\ ~Shimmed /\ Busy /\ Head(work.plan) # "access"
  /\ \/ DriverTakes(Head(work.plan)) /\ Advance(TRUE)
     \/ DriverRefuses(Head(work.plan)) /\ Advance(FALSE) /\ UNCHANGED <<driverVars, pool>>
  /\ UNCHANGED <<setup, shimVars, call, appended, counted, liveN, seq, cycles, stage>>

(* cuMemSetAccess (and cuMemsetD8): the shim answers for a packed slice,   *)
(* the driver for the others.                                              *)
SetAccess ==
  /\ Busy /\ Idle(Main) /\ Head(work.plan) = "access"
  /\ \/ (PackedSlot(Slot.va) \/ Backed(Slot.va)) /\ Advance(TRUE)
     \/ ~PackedSlot(Slot.va) /\ (DriverFails \/ ~Backed(Slot.va)) /\ Advance(FALSE)
  /\ UNCHANGED <<setup, vars, pool, appended, counted, liveN, seq, cycles, stage>>

(* The handle is cleared first; the address stays until a reserve succeeds. *)
BeginMap(i) ==
  /\ pool' = [pool EXCEPT ![i].req = Sizes[bench][seq + 1], ![i].h = NoHandle]
  /\ seq' = (seq + 1) % Len(Sizes[bench])
  /\ work' = [kind |-> "map", slot |-> i, plan |-> MapPlan]

BeginTeardown(i) ==
  /\ work' = [kind |-> "teardown", slot |-> i, plan |-> TeardownPlan]
  /\ UNCHANGED <<pool, seq>>

(* Where a bench goes when a slot could not be had.                        *)
AfterFailure ==
  CASE stage = "churn" \/ Retries           -> stage
    [] bench = "chain" \/ stage = "probe"   -> "end"
    [] bench = "alloc" /\ stage # "probe"   -> "probe"
    [] stage = "resident" /\ ~Retries /\ ~Cycling -> "teardown"

(* The calls for one slot are over.                                        *)
WorkDone ==
  /\ work.kind # "none" /\ ~Busy /\ Idle(Main)
  /\ work' = NoWork
  /\ pool' = CASE work.kind = "map"      -> [pool EXCEPT ![work.slot].live = TRUE]
               [] work.kind = "undo"     -> pool
               [] work.kind \in {"teardown", "cycle"} -> [pool EXCEPT ![work.slot] = BlankSlot]
  /\ appended' = IF stage = "resident" /\ work.kind = "map" /\ ~Retries
                 THEN appended + 1 ELSE appended
  /\ counted' = IF bench = "iso" /\ work.kind = "map" THEN counted + 1 ELSE counted
  /\ liveN' = IF stage = "churn" /\ work.kind = "map" THEN liveN + 1 ELSE liveN
  /\ stage' = CASE work.kind = "undo"                     -> AfterFailure
                [] work.kind = "cycle" /\ bench = "chain" -> "end"
                [] OTHER                                  -> stage
  /\ UNCHANGED <<setup, vars, seq, cycles>>

-----------------------------------------------------------------------------
(* The churn loop of run_frag_bench.                                       *)

(* frag_find_free_index: the first slot below n_append that is not live,   *)
(* and n_append itself when they all are.                                  *)
FreeIndex ==
  LET gaps == {i \in PoolIndex : i < appended /\ ~pool[i].live}
  IN  IF gaps = {} THEN appended ELSE Min(gaps)

(* frag_pick_middle_live: a live slot between the first and the last, and  *)
(* the last one where the two are neighbours.                              *)
Middle == {i \in Live : \/ \E lo, hi \in Live : lo < i /\ i < hi
                        \/ Live = {i - 1, i}}

Churning == stage = "churn" /\ Free /\ cycles < ChurnCycles

(* n_append only grows where FreeIndex has no answer, and it has one for   *)
(* every n_append below the pool's size.                                   *)
ChurnMap ==
  /\ Churning /\ FreeIndex < PoolSize
  /\ BeginMap(FreeIndex)
  /\ cycles' = cycles + 1
  /\ UNCHANGED <<setup, vars, appended, counted, liveN, stage>>

ChurnFree ==
  /\ Churning /\ liveN >= ChurnLive
  /\ IF Middle = {} THEN UNCHANGED <<pool, liveN, seq, work>>
     ELSE (\E i \in Middle : BeginTeardown(i)) /\ liveN' = liveN - 1
  /\ cycles' = cycles + 1
  /\ UNCHANGED <<setup, vars, appended, counted, stage>>

ChurnEnd ==
  /\ stage = "churn" /\ Free
  /\ stage' = "sweep"
  /\ UNCHANGED <<setup, vars, pool, appended, counted, liveN, seq, cycles, work>>

(* The slots below n_append are torn down, then shim_driver_reset is       *)
(* called if the shim is loaded.                                           *)
SweepOrReset ==
  /\ stage = "sweep" /\ Free
  /\ IF Live # {}
     THEN BeginTeardown(Min(Live)) /\ UNCHANGED <<vars, stage>>
     ELSE /\ Enter(Main, "reset", IF Shimmed THEN "rst_flush" ELSE "done", NoVa, 0, NoHandle)
          /\ stage' = "reset"
          /\ OnlyCall /\ UNCHANGED <<pool, seq, work>>
  /\ UNCHANGED <<setup, appended, counted, liveN, cycles>>

InReset == stage = "reset" /\ ShimStep(Main) /\ UNCHANGED benchVars

(* Faulty variant: the context is not renewed.                             *)
OldContext ==
  /\ stage = "reset" /\ Done(Main)
  /\ call' = [call EXCEPT ![Main] = IdleCall]
  /\ pool' = [i \in PoolIndex |-> IF i < appended THEN BlankSlot ELSE pool[i]]
  /\ appended' = 0 /\ liveN' = 0
  /\ stage' = "resident"
  /\ UNCHANGED <<setup, driverVars, shimVars, counted, seq, cycles, work>>

(* cuda_fini and cuda_init; slots at n_append and above are not cleared.   *)
(* Without a new context the bench gives up.                               *)
NewContext ==
  /\ stage = "reset" /\ Done(Main)
  /\ DriverContextDestroy
  /\ call' = [call EXCEPT ![Main] = IdleCall]
  /\ pool' = [i \in PoolIndex |-> IF i < appended THEN BlankSlot ELSE pool[i]]
  /\ appended' = 0 /\ liveN' = 0
  /\ stage' \in {"resident"} \union (IF DriverFails THEN {"end"} ELSE {})
  /\ UNCHANGED <<setup, shimVars, counted, seq, cycles, work>>

-----------------------------------------------------------------------------
(* The loop that fills the pool, and the final teardown.                   *)

PerLeaf == IronSlotsPerLeaf(Sizes[bench][1])

(* The committed bytes the harness works out for phys slots mapped.        *)
CommittedFor(phys) == IsoCommitted(Shimmed, PerLeaf, phys)

(* With IRON_GQA_LOGICAL only every heads-th logical slot is mapped.       *)
PhysicalOps(n) == (n + setup.heads - 1) \div setup.heads
MapsNext == counted % setup.heads = 0

(* Faulty variant: the budget is tested against what is committed already. *)
IsoGoesOnLate ==
  /\ counted < PoolSize
  /\ setup.target > 0 => counted * Sizes[bench][1] < setup.target
  /\ InBudget(CommittedFor(PhysicalOps(counted)), setup.cap)

(* The budget is tested against what the next slot would commit; 0 is no   *)
(* budget and no logical target.                                           *)
IsoGoesOn ==
  /\ counted < PoolSize
  /\ setup.target > 0 => counted * Sizes[bench][1] < setup.target
  /\ InBudget(CommittedFor(PhysicalOps(counted + 1)), setup.cap)

AppendSlot ==
  /\ ~Retries /\ ~Cycling
  /\ stage = "resident" /\ Free /\ appended < PoolSize
  /\ bench = "iso" => IsoGoesOn /\ MapsNext
  /\ BeginMap(appended)
  /\ UNCHANGED <<setup, vars, appended, counted, liveN, cycles, stage>>

RetrySlot ==
  /\ Retries
  /\ stage = "resident" /\ Free /\ FreeIndex < PoolSize
  /\ BeginMap(FreeIndex)
  /\ appended' = Max({appended, FreeIndex + 1})
  /\ UNCHANGED <<setup, vars, counted, liveN, cycles, stage>>

(* Another head of the slot mapped last.                                   *)
CountHead ==
  /\ bench = "iso" /\ stage = "resident" /\ Free /\ IsoGoesOn /\ ~MapsNext
  /\ counted' = counted + 1
  /\ UNCHANGED <<setup, vars, pool, appended, liveN, seq, cycles, stage, work>>

(* The iso bench has no clock, the others may stop at any slot.            *)
FillEnd ==
  /\ ~Cycling /\ stage = "resident" /\ Free
  /\ bench = "iso" => ~IsoGoesOn
  /\ stage' = "teardown"
  /\ UNCHANGED <<setup, vars, pool, appended, counted, liveN, seq, cycles, work>>

(* run_kv_tail_bench tears down in ascending order, the others descending.  *)
TeardownNext ==
  /\ stage = "teardown" /\ Free /\ Live # {}
  /\ BeginTeardown(IF Retries THEN Min(Live) ELSE Max(Live))
  /\ UNCHANGED <<setup, vars, appended, counted, liveN, cycles, stage>>

Fini ==
  /\ stage = "teardown" /\ Free /\ Live = {}
  /\ IF bench = "resident" THEN UNCHANGED driverVars ELSE DriverContextDestroy
  /\ stage' = "end"
  /\ UNCHANGED <<setup, shimVars, call, pool, appended, counted, liveN, seq, cycles, work>>

-----------------------------------------------------------------------------
(* one_slice_cycle and run_chain: every slot is given back at once.        *)

BeginCycle ==
  /\ Cycling /\ stage \in {"resident", "probe"} /\ Free
  /\ stage = "probe" => cycles < OomAttempts
  /\ pool' = [pool EXCEPT ![0] = [BlankSlot EXCEPT !.req = Sizes[bench][1]]]
  /\ work' = [kind |-> "cycle", slot |-> 0, plan |-> CyclePlan]
  /\ cycles' = IF stage = "probe" THEN cycles + 1 ELSE cycles
  /\ UNCHANGED <<setup, vars, appended, counted, liveN, seq, stage>>

(* run_microbench: the clock runs out, and run_oom_probe follows.          *)
CyclesEnd ==
  /\ bench = "alloc" /\ Free
  /\ \/ stage = "resident" /\ stage' = "probe"
     \/ stage = "probe" /\ cycles = OomAttempts /\ stage' = "end"
  /\ UNCHANGED <<setup, vars, pool, appended, counted, liveN, seq, cycles, work>>

(* The process has ended: the only state the bench may stay in.            *)
Finished == stage = "end" /\ UNCHANGED harnessVars

HarnessNext ==
  \/ StartCall \/ InCall \/ FinishCall \/ StockCall \/ SetAccess \/ WorkDone
  \/ ChurnMap \/ ChurnFree \/ ChurnEnd
  \/ SweepOrReset \/ InReset \/ NewContext
  \/ AppendSlot \/ CountHead \/ RetrySlot \/ FillEnd \/ TeardownNext \/ Fini
  \/ BeginCycle \/ CyclesEnd \/ Finished

HarnessSpec == BenchInit /\ [][HarnessNext]_harnessVars

(* One thread that is never blocked: it always takes its next step.        *)
FairHarness == HarnessSpec /\ WF_harnessVars(HarnessNext)

-----------------------------------------------------------------------------

(* slot->size: what the slot was asked for, as placed.                     *)
SpanOf(i) == [lo |-> pool[i].va, hi |-> pool[i].va + PlacementRound(pool[i].req)]

(* While the pool fills, no two slots ever share an address: not two       *)
(* slices of a leaf, not a slice and a leaf opened later.                  *)
SpansDisjoint ==
  stage = "resident" =>
    \A i, j \in Live : i # j =>
      SpanOf(i).hi <= SpanOf(j).lo \/ SpanOf(j).hi <= SpanOf(i).lo

(* While the pool fills, every slot is real memory from end to end: one    *)
(* mapping of the very handle the shim gave it, and that handle is alive.  *)
(* The kv_tail bench is left out: the arena keeps the handle of a leaf that *)
(* was unwound, and the retry gets it back.                                *)
LiveSlotsBacked ==
  stage = "resident" /\ ~Retries =>
    \A i \in Live :
      /\ physLen[pool[i].h] > 0
      /\ \E m \in mappings : /\ m.handle = pool[i].h
                             /\ m.va <= SpanOf(i).lo /\ SpanOf(i).hi <= m.va + m.len

(* The memory the driver has made and not been given back; that every      *)
(* piece of it is one leaf; and its bytes, whatever the pieces are.        *)
Memory == {h \in Handle : physLen[h] > 0}
OnlyLeaves == \A h \in Memory : physLen[h] = Leaf
PhysicalTotal == MapThenSumSet(LAMBDA h : physLen[h], Handle)

(* The committed bytes the frag bench reports, summed over its slots.      *)
Reported == MapThenSumSet(LAMBDA i : AllocBytes(pool[i].req), Live)

(* docs/agent_workflow/IRON_LEAF_CEILING_SPEC_V1.md:67: the bytes a bench  *)
(* reports for the slots it holds are the bytes the driver made.  The iso  *)
(* and resident benches work them out from the number of slots, without    *)
(* asking the shim how many leaves it packed them into.                    *)
CountIsCommitted ==
  stage = "resident" /\ Free /\ bench \in {"iso", "resident"} =>
    OnlyLeaves /\ Cardinality(Memory) * Leaf = CommittedFor(appended)

(* The frag bench adds the slots up: nothing it churned through is left    *)
(* beside them, and no two of its sizes share a leaf.                      *)
SumIsCommitted ==
  stage = "resident" /\ Free /\ bench = "frag" => PhysicalTotal = Reported

(* docs/agent_workflow/IRON_LEAF_CEILING_SPEC_V1.md:83: the iso bench fills *)
(* the pool up to its budget, and the driver never makes more than that.   *)
BudgetKept ==
  bench = "iso" /\ setup.cap > 0 => OnlyLeaves /\ Cardinality(Memory) * Leaf <= setup.cap

(* Once every slot is given back, at the end of a teardown or between two  *)
(* cycles, no memory and no mapping is left with the driver.  The iso bench *)
(* is left out: it releases the slices of a leaf from the last to the      *)
(* first, cuMemRelease clears the first slot bound to the leaf's handle,   *)
(* and the last release is refused; its memory goes with the context.      *)
MemoryReturned ==
  Free /\ bench # "iso" /\ ((stage = "teardown" /\ Live = {}) \/ bench = "alloc") =>
    Memory = {} /\ mappings = {}

(* The churn leaves nothing behind in the shim: when the resident loop     *)
(* starts, every table, arena, window, counter and bucket is as at load.   *)
ResetForgetsAll ==
  stage = "resident" /\ Free /\ appended = 0 =>
    /\ Used = {} /\ pending = -1 /\ ~EpochHeld /\ legacyVa = NoVa
    /\ arena = NoArena /\ mega = NoMega /\ committed = 0 /\ peak = 0
    /\ handleRefs = 0 /\ bandSeq = 0 /\ buckets = << >>

(* iron_gate_v1.c:917: "Churn: reuse freed indices in [0, n_append)".  The  *)
(* churn never maps over a slot that is still live.                        *)
ChurnReusesFreed ==
  [][stage = "churn" /\ Free /\ work'.kind = "map" => ~pool[work'.slot].live]_harnessVars

(* Every bench comes to its end, whatever fails on the way.                *)
BenchEnds == <>(stage = "end")
=============================================================================
