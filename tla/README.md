# hwatom-kv-shim: TLA+ models and proofs

`lib2adic_shim.so` is preloaded in front of the CUDA driver. It answers the cuMem calls
(`cuMemAddressReserve`, `cuMemCreate`, `cuMemMap`, `cuMemUnmap`, `cuMemRelease`,
`cuMemAddressFree`) so that several small reservations share one 2 MiB leaf of physical memory.
The *iron harness* (`tools/shim_iron/iron_gate_v1.c`) drives it through benches and reports what
was packed; its *emitters* turn the files the benches leave into verdicts. This directory models
all three, checks the models with TLC and proves with TLAPS, for every value of the constants: the
central invariants of the two tables the shim keeps; what any number of threads can rely on while
their calls interleave; that calls made one at a time are atomic; the size arithmetic; what the
benches rely on while they fill, fail, unwind and reset; and the claims the reports make.

## 1. Inventory

| Component | State | Operations | Hard part | What makes it correct |
|---|---|---|---|---|
| **VA slot table** `shim_reservation_v1.c` | `g_va_slots`, generation counter, pending index, active count, legacy view | begin, commit, abort, free, bind/clear handle, mark/clear mapped, offsets, clear | one pending index for all threads; a counter beside the table; generation 0 means free | count = slots in use; pending slot never has an address; an address is never replaced |
| **Packing arena, mega window** `shim_pack_v1.c` | open leaf and fill level, window and leaves used, handle references, committed total and peak | try_reserve, take_mega_leaf, mega_open, open_arena, bump_usage, retain, release_ref, flush, reset | a slice is accounted at reserve or at map; 2-adic start above the base; K-cap | no address charged twice in a window; fill level within the leaf; window and arena agree |
| **Size arithmetic** `shim_leaf_v1.c`, `shim_2adic_v1.c`, parts of `shim_pack_v1.c` and `shim_alloc_v1.c` | none (band sequence belongs to the arena) | ladder, placement, offsets, K-cap, window size | leaves that are not powers of two, floors above the leaf | a placement holds its request and is stable; bands tile the leaf |
| **GQA buckets** `shim_gqa_v1.c` | table of 64 buckets | alias, register, reset | table full; several reservations at one address | one slot per reservation still |
| **Interposed calls** `lib2adic_shim.c`, `shim_reserve_v1.c`, `shim_alloc_v1.c` | none of their own: locals of each call | the six calls and `shim_driver_reset_v1` | `g_map_epoch_mu` is taken once per helper and dropped in between; the driver may refuse | tables agree with what the client holds and the driver made |
| **Map epoch** `shim_map_epoch.c` | the lock; the epoch *is* "some slot is in use" | `shim_epoch_held` | `try_enter` always answers 1, and it, `abort` and `exit` have no caller | epoch held while anything is reserved |
| **CUDA driver** (external) | reservations, handles, mappings | the six real calls, context destruction | exact ranges on free and unmap; failure | -- |
| **Iron harness, benches** `iron_gate_v1.c`, chain mode of `iron_probe_v1.c` | pool of slots, `n_append`, `live_n`, sizes, logical count | map a slot, unwind, tear down, churn, reset, cycle, probe, count a head; over the shim or on the stock driver | a call fails half way; a failed slot is tried again; own arithmetic for what the shim did; budget and target tested before the shim packs | slots disjoint and backed; reported = committed bytes, within the budget; memory comes back; the bench ends |
| **Report files, emitters, `main`** `iron_gate_v1.c`, `emit_leaf_ceiling_gate12_v1.py` | JSON files, one per bench, path and budget point | each emit mode: read the files that are there, answer a code and lines | separate processes; files missing; the same verdict worked out by two emitters; quotients by what stock reached | emitters agree; no verdict from a gap; more logical bytes for no more memory; liberation within its band |
| GEMM proxy, perf counters, Moon/vLLM, build and run scripts | -- | -- | -- | not modelled, section 8 |

Interaction: a client thread (or a bench) calls the shim; each call runs helpers of the slot
table, the arena and the buckets, each its own critical section, and at most one driver call.
There are no callbacks and nothing is persisted, so there is no crash recovery; what survives a
step is in the tables above until `shim_driver_reset_v1` or the end of the process. The benches
and the emitters are processes of their own that meet only in the report files.

The full list of hazards, each at its line, is in `PROJECT.json`.

## 2. Modules

```
DriverTypes                     LeafMath -- IronMath -- LeafCases -- LeafMathMC
 |  |  |                           |           |  \
 |  |  SlotTable -- SlotTableMC    |           |   IronReports
 |  |     |                        |           |
 |  |     |           PackArena ---+           |
 |  |     |           |   |  \                 |
 |  |     |          Gqa  |   PackWindow -- PackWindowMC
 |  |     |           |   |                    |
 Driver --+--- Shim --+---+                    |
 |            |   \                            |
 Reservations |    IronHarness ----------------+ -- IronHarnessMC
 |            |
 +-- ShimService -- ShimClients -- ShimClientsMC
```

The proofs, each module over the one it is about and over the proofs named after it:

```
SizeProofs         IronMath
LeafProofs         LeafCases                (SizeProofs)
TableProofs        SlotTable, PackWindow    (SizeProofs)
IronReportsProofs  IronReports              (SizeProofs)
ShimProofs         ShimClients              (TableProofs)
ClientProofs       ShimClients              (ShimProofs)
IronHarnessProofs  IronHarness              (ShimProofs)
IronFillProofs     IronHarness              (IronHarnessProofs)
```

* **DriverTypes** -- the sets of addresses, handles and sizes.
* **LeafMath** -- the size arithmetic, as non-recursive operators over `Leaf` and `LadderFloor`.
  Sizes are natural numbers: `size_t` would overflow only for requests near 2^64, which the
  driver cannot grant. **LeafCases** runs it through the leaves, floors, requests and bands of its
  constants; a state is one set of arguments.
* **SlotTable** -- `shim_reservation_v1.c`. Each exported helper holds the lock for its whole
  body and is one action; `SlotNext` lets them come in any order, which is more than the callers
  do. `slots[i].gen # 0` is "in use", as in the code; the counter wraps at `GenMod` (2^32 in the
  code). Alignment and flags are stored but never read back and are left out.
* **PackArena** -- `shim_pack_v1.c` and the band sequence of `shim_2adic_v1.c`, likewise one
  action per helper. `arena`, `mega`, `committed`, `peak`, `handleRefs` and `bandSeq` are the
  static variables. `logical_bytes` and the window statistics are only printed.
* **PackWindow** -- PackArena with a history variable: which address ranges were accounted to
  slices since the last window was opened. It is the vehicle for the disjointness theorem.
* **Gqa** -- the alias buckets.
* **Driver** -- external, from how the shim and the harness use it: the lowest free range is
  reserved (so addresses come back), a free must name a reservation exactly, an unmap a mapping
  exactly. With `DriverFails` any legal reserve, create, map or access may fail, with
  `GiveBackFails` any legal unmap, release or free; an illegal call always fails.
* **Shim** -- the interposed calls. `call[t]` holds the next step of thread `t` and the locals
  that live across steps (`rounded`, `packed`, the route taken, the map offset). Every step is
  one critical section or one driver call; any thread may run between two. The lookups with which
  a create, a map or a release is validated, which write nothing, are one step: what the call does
  afterwards it looks up again. The two lookups of `shim_unmap_validate` are steps of their own,
  since it refuses a slot that is gone between them.
* **Reservations** -- what the interposed calls promise, without a word on packing: a table of
  reservations, and calls that take effect at one instant, once if they answer success and not at
  all if they are refused. It says nothing of which addresses there are, nor of how many
  reservations fit (`Entry`).
* **ShimService** -- the refinement mapping from Shim to Reservations. A slot with an address is a
  reservation; the step of a call that writes the slot table is the instant it takes effect, and
  the steps after it (`AfterEffect`) are bookkeeping. `Entries` and `Calls` are the two abstract
  variables, the entries being the indices of the slot table and the addresses any natural number
  (a slice's address is the driver's plus an offset). `CallsAreAtomic` is the abstract
  specification under that mapping.
* **ShimClients** -- threads that own buffers and make any legal sequence of calls on them.
* **IronMath** -- the harness's own copy of the size arithmetic (`iso_slice_bytes`, slots per leaf,
  committed bytes from a count of slots, the cap of a budget), which must agree with LeafMath
  although neither includes the other.
* **IronHarness** -- the single-threaded benches, on either path. `setup` is the bench and its
  limits (budget, logical target, GQA heads); on the stock path a call is the driver's and one
  step. `work` is the list of calls still to make for
  the slot at hand, so a failure turns a mapping into its unwinding exactly where the code's
  `return -1` paths do. The wall-clock limits are a free choice to stop. The alloc microbench and
  the probe's chain (`BeginCycle`) take a slot and give it back at once.
* **IronReports** -- the files the benches leave and the emitters that read them. Only the figures
  a verdict is taken from are kept, as whole numbers; a quotient is a pair, and a comparison of
  quotients is multiplied out. `job` is the set of benches one run script starts; a bench may leave
  no file, and an emitter may run at any moment (`Emit`, `EmitMissing`, `Usage`).

Operators whose comment says *Faulty variant* are not used by any specification. Each is the
definition after it with a plausible bug, and shows that the property it is paired with in
`PROJECT.json` can tell the two apart.

## 3. Runs

| Run | What it checks | Bounds, and why they are enough |
|---|---|---|
| `SlotTable` | types, exact count, pending slot without address, stable addresses | 3 slots, 2 addresses, counter modulo 2: table full, reuse of a freed slot, duplicate addresses and the wrap all occur |
| `PackWindow` | types, fill level, window/arena agreement, disjoint charges, charges contained in the leaves taken and in the reservation | leaf of 4 ladder units (as 2 MiB / 512 KiB), windows of 2 leaves at 2 places, 3 leaves committed in all, 2 references, 2-adic bands modulo 4 |
| `LeafMath` | placement and its monotonicity, the harness's copy of it, bands, mask = remainder, K-cap for one size, eval cap, window sizes | leaves 3, 4, 5, 8, 16, 20, floors 1, 2, 4, every request to 42, bands to 9 |
| `ClientsSerial` | every call atomic (`CallsAreAtomic`, the abstract service), no orphan slot, one slot per reservation, bindings, committed = created | 1 thread, 2 buffers, all request sizes below and above a leaf, GQA on, a driver that may fail any call, 3 leaves of memory; any number of calls |
| `ClientsThreads` | bindings of shared handles, epoch held while reserved, committed never overstated | 2 threads with a buffer each, a driver that may fail any call, all interleavings of 6 calls (`CallBudget`), so deadlock is not checked: the clients stop |
| `IronIso` | disjoint and backed slots, leaves worked out from the count = leaves the driver made (`CountIsCommitted`), the budget kept, the bench ends | the iso bench without limits, with a budget of one leaf, a logical target of 7 units (no multiple of a slice), 2 GQA heads, and on the stock driver with two leaves; the resident bench; the chain on both paths. Pool of 6, 4 slots to a leaf, windows of 3 leaves, 2-adic placement, a driver that may fail any call, those of an unwinding and a teardown included |
| `IronFrag` | disjoint and backed slots, nothing survives the reset, bytes summed over the slots = bytes the driver made (`SumIsCommitted`), all memory returned | the six request sizes of the frag bench in units of 256 KiB, pool of 5, 7 churn cycles; kv_tail with retries; resident and alloc on both paths, 2 OOM attempts; a driver that may fail any reserve, create, map or access (`GiveBackFails` is off: memory the driver refuses to take back does not come back, which is what `MemoryReturned` asks about). About 810,000 states |
| `IronReports` | emitters agree, physics verdict backed, more logical bytes for less, matched liberation | leaf of 8 and slice of 2 (4 to a leaf), a device of 40 units with points at 50 and 70 per cent (2 and 3 leaves: stock is stopped by its budget, the shim by it or by its pool of 9); latencies 0, 3, 4, 5, rates 20 and 21, watts 0 to 2, slots 0 to 2: both sides of every threshold (25 per cent, 1.25, 1.05, 30 to 40 per cent) and nothing at all |

`LeafMath` is not checked for deadlock either: its arguments simply run out.
`MaxCommitted` and `MaxRefs` cap the two counters that only grow; the caps are guards of the
clients, never of the shim. `IronHarness` needs neither. In `IronReports` a file is written once,
since the run scripts write into a directory of their own.

Two of the shim runs check *between calls* only (`Quiet`): in the middle of a call the tables are
rightly out of step. `ClientsThreads` states what needs no such condition. `CallsAreAtomic` is for
one thread. With two it is violated, in the configuration of `SerialisedEpoch`: both threads are
given one address, and a map by one of them marks a slot whose handle the other's release has
just cleared.

### Where code and documents differ

Four runs check one statement of the repository each, and TLC finds it violated:

| Run | Statement | What happens |
|---|---|---|
| `SerialisedEpoch` | contract line 70, "Map epoch \| Serialised v1" | two threads in `cuMemAddressReserve` share the pending index (`shim_reservation_v1.c:153`); a slot without an address is left that no call frees, and the epoch is held for ever |
| `LeafIsolation` | contract line 218, unmapping slot A must not affect slots B-D | the base slice owns the leaf's only driver mapping (`lib2adic_shim.c:281`) |
| `KCap` | `EVAL_SHIM_KCAP_V1.md:10`, at most 2 slots per leaf | the test divides the fill level by the *new* slice's size (`shim_pack_v1.c:158`), so two slices of a quarter leaf count as one slice of half a leaf and a third is granted; smaller slices are turned away, and with one size the test is right (`UniformCap`) |
| `ChurnReuse` | comment at `iron_gate_v1.c:917`, churn reuses freed indices | `n_append` never grows during churn, every mapping goes to index 0 |

Seen while modelling and not run:

* `docs/SHIM_STATS_V2.md:21` says of the final committed value "often 0 after flush", and the example
  at line 8 prints a zero final value beside a non-zero peak. `shim_pack_flush_locked`
  (`shim_pack_v1.c:200`) leaves the committed total, which nothing lowers before `shim_pack_reset`
  clears it and the peak together (`PackFlush`, `PackReset`): the line of the example cannot be
  printed. No property states that the peak is the total, since that is what the document denies.
* `shim_pack_bump_usage` (`shim_pack_v1.c:443-453`) has no cap test at all: a base slice mapped
  after the cap was reached by reserves is charged all the same. `LeafWithinKCap` therefore asks of
  the grants of `shim_pack_try_reserve` only.
* The arena keeps the handle of a leaf after the last reference is released
  (`shim_reservation_v1.c:380`): the kv_tail bench, which goes on after a slot was unwound, gets
  the dead handle back. `LiveSlotsBacked` is therefore stated for the benches that stop at the
  first failure. `SpansDisjoint` holds for all of them in the runs.
* The iso bench releases the slices of a leaf from the last to the first, while `cuMemRelease`
  clears the *first* slot bound to the handle (`shim_reservation_v1.c:301`); the last release is
  refused and the memory stays until the context is destroyed. `MemoryReturned` leaves that bench
  out.
* With the mega window on, the alloc microbench's free of a leaf inside a window is refused
  (`lib2adic_shim.c:170`).
* The iso bench's slots per leaf ignores the K-cap of the eval build (`iron_gate_v1.c:832`): over
  that library it reports fewer bytes than are committed, against
  `IRON_LEAF_CEILING_SPEC_V1.md:67`. `CountIsCommitted` is checked and proved without the cap. The
  harness also fixes the leaf at 2 MiB where the shim reads `HWATOM_LEAF_BYTES`.
* `HWATOM_ISO_SLICE_BYTES` may name more than a leaf (`iron_gate_v1.c:161`); the bench then counts
  one leaf for each slot (`iron_gate_v1.c:807`, `809`) that has several. `EvenSlices`, a hypothesis
  of the theorems about its count, leaves that out, as `PackOn` leaves out a shim told not to pack.
* With `HWATOM_FRAG_UNIFORM_SLICE=1` the frag bench adds a leaf for every slice and reports four
  times what four packed slices commit; that switch is left out of the model.
* `IRON_LEAF_CEILING_SPEC_V1.md:83` has the iso bench stop when committed reaches the budget; the
  code stops before it exceeds it, which is what `BudgetKept` needs.
* `emit_zp12` compares operations per watt with no operations where nothing was sampled, so a run
  without power samples can be SCOUT_OK where `emit_zp2` is not OK: `EmittersAgree` asks for
  samples. `emit_f1` overwrites the measured outcomes when the shim has more slots.
* `A49_CLAIM_PROTOCOL_CACHE_LIBERATION_V1.md:16` asks for matched logical load, which
  `emit_cache_liberation` does not check. `MatchedLiberation` says what holds when it is.

## 4. Fairness

Only `FairHarness` has fairness: weak fairness of the whole next-state relation of one thread. A
bench is a sequential program whose every step is enabled until it ends, and driver calls return,
so it always takes its next step. No choice is favoured: not that the clock runs out, nor that a
call succeeds. `BenchEnds` follows because the pool is finite. The frag churn and the kv_tail fill are
ended by the clock alone, so no liveness is claimed of them. Clients owe the shim nothing, and no
liveness is claimed there.

## 5. Proofs

The theorems hold for every value of the constants that the named assumptions allow:
`DriverAssumption` (the sets hold natural numbers and the null values), `LeafAssumption`,
`SlotAssumption`, `PackAssumption`, `ShimAssumption`, `ClientAssumption`, `CasesAssumption` and
`HarnessAssumption` and those of IronReports. Of the 36 properties the passing runs check, 33 are
proved for the settings their theorems name; what is not is listed at the end of this section.

### The tables

* **TableProofs, the slot table** -- `SlotInv` is `SlotTypeOK /\ CountExact /\ PendingVirgin`, inductive as
  it stands but only as a whole: the exact count needs the generation counter never to be 0 (else
  a begun slot would not be in use), and the type of a freed slot needs the free index to be
  unused. One lemma each says what allocating, freeing and writing a slot do; each helper cites
  one of them. `AddressStable` needs `PendingVirgin`: a commit writes the pending slot, which has
  no address, or a fresh one.
* **TableProofs, the arena** -- `PackInv` adds to the types that the fill level is within the arena and
  that the window's last leaf taken is the open arena. What carries it
  is arithmetic: a placement is positive, a 2-adic offset of a slice that fits is a whole slice
  below the end of the leaf, a window holds the leaves cut from it.
* **TableProofs, the window** -- `WindowInv` adds that every charged range lies below the fill level of
  the open leaf and within one of the leaves taken from the window since it was opened
  (`ChargesInLeaves`), which gives `ChargesAlwaysContained`: no slice crosses from one leaf into
  the next or out of the driver's reservation. A new charge starts at or above the fill level and is therefore disjoint from all
  older ones (`ChargeAbove`); the next leaf of a window starts where the last one ended.
  `WindowImplementsPack` shows that the history variable only watches, so the invariants of
  PackArena hold of it.

### The interposed calls

* **ShimProofs** -- lemmas about one step of one call, for ClientProofs. `ShimInv` says that the
  tables are well typed and that every call under way is at a stage its operation has, with the
  locals that stage needs (`StageOK`). `CallMoves` is what a step does to the call,
  `Bookkeeping` what it does to the tables: most steps touch neither the slots nor the total, and
  are dealt with once.
* **ClientProofs, any number of threads** -- between two steps of a call anything may have
  happened, so what clients hold and what the shim keeps agree only in number, and only if a
  buffer counts from the very step that takes a slot, a handle or memory to the step that gives it
  back. `ClientInv` types the clients and ties each call to a buffer of its thread. Then three
  inequalities are kept by every step:
  claims never exceed the slots in use (`ClaimsBacked`, hence `EpochAlwaysHeld`); what is
  committed and what is still in flight never exceed what the driver made (`Ledger`, hence
  `TotalNeverOverstated`); the slots bound to a handle never exceed its holders (`BoundWithinHeld`,
  hence `BindingsAlwaysHeld`). None of the three holds of `ClientInv`'s states without the calls in
  flight: `NeverOverstated` alone is not kept by the step that charges a leaf.
* **ClientProofs, one call at a time** (`OneAtATime`: there is one thread, as in a
  client that serialises its calls) -- the three inequalities become equations.
  `SerialInv` says what the lookups that link one helper to the next find: the pending index is the
  one slot without an address (`TablePlaced`), the slot a create binds is still there
  (`TargetOK`), bases are real addresses (`BasesOK`). From it `NoSlotOrphaned`,
  `SlotPerReservation` (through `SlotsMatch`: at every address as many slots as claims) and, with
  packing on, `TotalIsExact` (`LedgerExact`).
* **SerialCallsAtomic** is the refinement: under `OneAtATime`, ClientSpec implements the abstract
  reservation service. `ServiceInv` adds that a slot without an address is blank (`SlotsClean`),
  that each call's next helper will find what it looks for (`ReadyOK`), and that arguments are those
  of the buffer (`ArgumentsOK`, `BufferOK`). Each step of a call is then one of: the entry, the
  effect (`ReserveServed`, `BindServed`, `ReleaseServed`, `MarkServed`, `UnmarkServed`,
  `FreeServed`), a refusal, or a stutter (`QuietServed`).

### The arithmetic

* **SizeProofs** -- for every leaf, ladder floor and request: a placement holds its request,
  wastes less than a leaf and is its own placement; it grows with the request; the harness's
  rounding is the shim's; bands tile a leaf that need not be a power of two (`BandsFillLeaf`);
  the K-cap counts slices of one size; windows are whole leaves; n slots at k to a leaf commit
  between a k-th of n leaves and n leaves (`CommittedWithinBand`). The solver does not multiply
  variables on its own, so a few facts about products and quotients (`ProductOrder`, `DivUnique`,
  `CeilDiv`) carry the rest, and the least member of a set of naturals is well-founded induction's
  (`MinMember`).
* **LeafProofs** -- the same facts in the words of LeafCases, whose leaf and floor are variables:
  SizeProofs is instantiated at the leaf at hand, and the two instances of the arithmetic are
  shown to be one.

### The benches

A bench is one thread, but its invariants are about what its calls leave behind in four places
at once: its own pool, the slot table, the arena and the driver.

* **IronHarnessProofs** -- `ControlInv` types the bench and the driver's records and says which
  plan (`work.plan`) belongs to which stage and that the call under way is the head of the plan, with
  the arguments of the slot at hand. It rests on `ShimInv`, so the steps inside a call come for
  free (`ShimStepKeeps`). `ResetAlwaysForgets` needs `ForgetInv`: the reset clears one table after
  the other, so what is blank depends on how far it has come (`Forgetting`), and from then to the
  first slot nothing may touch the shim. kv_tail counts a slot before it maps it, so an
  `appended` of 0 is a fresh start there too. `StockGivesAllBack` is about the driver alone: every
  piece of memory belongs to one slot (`MemoryOwned`) and every mapping too (`MappingsOwned`), provided
  the driver takes back what it is legally given back (`~GiveBackFails`), and
  which of the two the slot at hand has can be read off what is left of its plan (`MadePlans`,
  `MappedPlans`), whether it is being mapped, undone or torn down. It includes the iso bench only
  as far as `MemoryReturned` does, and the frag bench from its new context on.
* **IronFillProofs** -- the resident loop, slot by slot. Nothing about the live slots is inductive
  by itself: while a slot is reserved, made and mapped, the arena is half open and the lookups of
  the shim depend on the calls before. The invariant therefore follows the slot at hand, one
  predicate for each place in its plan and each step of the call, in three layers:
  1. *table* (`TableFill`): every slot of the table in use is a live slot's and bound, but one, which
     is the slot at hand's (`Seated`). So a lookup by address, by pending index or for the create
     target finds that one.
  2. *memory* (`MemoryFill`): the slot at hand is a slice of the arena, whose fill level is already
     past it (`Inner`), or memory of its own (`Outer`, then `OwnLeaf`, `OwnMapping`); live slots are
     backed and apart, and none of them lies in what the arena has left (`ArenaReady`). A first slice
     is charged only when it is mapped, which is why an arena with fill level 0 is held to a band
     sequence of 0, and why an undoing must be shown to release and unmap nothing that is live
     (`UndoByPlan`). `SlotsStayApart` and `SlotsStayBacked` follow.
  3. *leaves* (`LeafFill`), for the benches with one size: n slots fill all leaves but the last,
     and that one up to its j-th slice (`Stacked`). A slice fits exactly while j is below the
     slots per leaf (`SliceFits`), so a new leaf is made only when all are full, and only after the
     bench has tested its budget for it (`CountFill`). `BudgetAlwaysKept` and
     `CountAlwaysCommitted` follow. `CountFill` and `LeafFill` were model-checked on the setting of
     `IronIso` before they were proved.

  Their hypotheses are the code's own limits. `~GqaOn`: aliases hand out one address several times
  on purpose. `~Retries` for `SpansDisjoint`: after a failed kv_tail slot the arena offers a dead
  leaf (section 3). `PackOn`, `KCap = 0` and `EvenSlices` for the count: it is off
  otherwise. The alloc and chain benches keep no slot, so there the statements are about none.
  None of them asks anything of the driver: an unwinding whose own calls fail is covered
  (`UndoInCall`), since it must only take nothing from the live slots.

### The reports

* **IronReportsProofs** -- `ReportsInv` is `EmittersAgree /\ PhysicsBacked` with two
  strengthenings: every file holds figures its bench can come to (`FiguresReal`), and a verdict was
  read from files that are there (`ReportRead`). Files are never rewritten, so a report stays
  true of them, and a point that completes the curve later cannot take a verdict back. The two
  gains agree as quotients (`GainsEqual`) and the scout test is the stricter one
  (`ScoutStricter`). `MoreLogicalForLess` and `MatchedLiberation` follow from `FiguresReal` and
  the arithmetic alone: where the budget stops the shim, stock was stopped no later.

### Only model-checked

* `BenchEnds` is liveness and out of the prover's reach.
* `SumIsCommitted`: a sum over the slots is a fold over a set, a recursive definition whose value
  would have to be proved by induction over data.
* `MemoryReturned` over the shim: who holds a piece of memory is then the arena's and the reference
  counts' business too, from filling through undoing to the teardown. On the driver alone it is
  proved (`StockGivesAllBack`).
* `SpansDisjoint` for the kv_tail bench, which goes on after a failed slot.
* `MaskIsRemainder`: the bit operators of the community module are recursive, which the prover
  cannot unfold.
* `CallsAreAtomic`, `NoOrphanSlots`, `OneSlotPerReservation` and `CommittedIsCreated` with two
  threads are not theorems: `SerialisedEpoch` shows the first of them failing.

## 6. What the pieces show together

`ChargesAlwaysDisjoint` says that the packing code, called in any order, never hands one address of a
window out twice *as far as it has accounted for it*. That every slice is accounted for before
the next is cut is not its doing but the caller's: the base slice is accounted when it is mapped.
`SlotsStayApart` shows that the benches call in such an order, whichever calls fail, and clients
that reserve twice before they map are given one address twice, which `OneSlotPerReservation`
allows for.

For the calls, `SerialCallsAtomic` and the theorems for any number of threads draw the line
exactly: a program that makes one call at a time sees a reservation service, whatever is packed
below it and whichever driver calls fail; a program with threads keeps only that nothing is
counted that is not there, and that the epoch is held while something is.

The claim of the repository is a chain of four links. The shim packs k slices to a leaf
(`ChargesAlwaysDisjoint`); what the bench works out from its count is what the driver made and
within the budget (`CountAlwaysCommitted`, `BudgetAlwaysKept`); with those figures the shim always holds more
for less (`AlwaysMoreForLess`); and the emitters say so only where it is so (`PhysicsAlwaysBacked`,
`EmittersAlwaysAgree`). All four are proved, and the second is the one between the two programs: the
bench never asks the shim how many leaves there are. The
figures of the iso file in IronReports are without GQA heads (`IRON_GQA_LOGICAL`), whose counting
is in IronHarness.

## 7. Plan

Done: LeafMath, SlotTable, PackArena, PackWindow, Shim, ShimClients and IronHarness; then the
abstract service and the refinement (Reservations, ShimService), the harness's arithmetic, its
remaining benches and limits, the stock path, and the reports with their proofs (IronMath,
IronReports).

Next, to model:
1. the alias buckets on their own, with a full table, and concurrent clients with GQA on;
2. `HWATOM_FRAG_UNIFORM_SLICE`, and GQA heads in the figures of IronReports.

Done, to prove: the two tables and the window; the reports; the size arithmetic for every leaf;
the interposed calls for any number of threads, and their refinement for one; of the benches the
reset, the slots kept apart and backed, the count and the budget.

Next, to prove:
1. `MemoryReturned` over the shim;
2. `SpansDisjoint` for kv_tail, with an invariant about an arena whose leaf is gone;
3. that each slot of the frag bench has memory no other slot has, given that no request of its
   sequence fits behind the one before: what `SumIsCommitted` says without the sum.

## 8. Not modelled

* GEMM proxy of the harness: a cuBLAS loop timed by the clock; it makes no cuMem call.
* Perf counters, percentiles, JSON and the wording of the reports, and the figures no verdict is
  taken from: formatting, parsing and sampling. IronReports takes their results as any number.
* Statistics, identity, granularity and logging of the shim, and the granularity queries of the
  probes: they read and print.
* The two entry points `shim_epoch_abort` and `shim_epoch_exit`, which nothing calls, and
  `shim_epoch_try_enter`, which always answers 1.
* Moon and vLLM scripts, Docker, make and run scripts: offline measurement and packaging. Of the
  run scripts only which benches they start is used (`Jobs`).
* Memory ordering below the lock: every access is under `g_map_epoch_mu` but for
  `shim_pack_reset`, which only the single-threaded bench calls, and the pointer returned by
  `shim_reservation_snapshot`, which Shim reads in a step of its own.

## 9. Running

    tlc -workers 2 -config ClientsSerial.cfg ShimClientsMC
    tlapm TableProofs.tla

Each configuration names its module in `PROJECT.json` (`runs`).
