----------------------------- MODULE IronReports -----------------------------
(***************************************************************************)
(* The reports of the iron harness.  Each bench is a process of its own    *)
(* that leaves a JSON file of figures; an emitter (the emit modes of       *)
(* iron_gate_v1.c, emit_leaf_ceiling_gate12_v1.py) is a later process that *)
(* reads some of the files, whichever are there, and answers with an exit  *)
(* code and verdict lines.  The run scripts write into a directory of      *)
(* their own, so a file is written once.                                   *)
(*                                                                         *)
(* Figures are whole numbers of a small unit and comparisons of quotients  *)
(* are multiplied out; the rounding of doubles, the wording of the reports *)
(* and the figures no verdict is taken from are left out.                  *)
(***************************************************************************)
EXTENDS IronMath, Integers

CONSTANTS
  Points,      \* the budget percentages of the curve, 50, 60 and 70
  TopPoint,    \* the one the leaf physics verdict is taken at
  GpuTotal,    \* the memory of the device
  IsoPool,     \* ISO_MAX_SLOTS
  Slice,       \* iso_slice_bytes
  Latencies,   \* percentiles of the kv_tail bench, 0 when it has none
  Rates,       \* its operations per second
  Watts,       \* average power, 0 when nothing was sampled
  SlotCounts   \* slots the other benches may end with

ASSUME ReportAssumption ==
  /\ Points \subseteq Nat /\ IsFiniteSet(Points) /\ TopPoint \in Points
  /\ GpuTotal \in Nat /\ IsoPool \in Nat /\ Slice \in Nat \ {0}
  /\ Latencies \union Rates \union Watts \union SlotCounts \subseteq Nat

VARIABLES
  job,    \* the benches a script runs
  files,  \* the figures of each file that is there
  report  \* the last answer of an emitter

reportVars == <<job, files, report>>

Path == {"stock", "shim"}
Kind == {"alloc", "resident", "oom", "frag", "tail", "power", "iso"}

File(kind, path, point) == [kind |-> kind, path |-> path, point |-> point]
Written == DOMAIN files
Figures(kind, path) == files[File(kind, path, 0)]

Jobs == {{"tail", "power"}, {"resident", "oom"}, {"frag", "alloc"}, {"iso"}}

FilesOf(kinds) ==
  {File(k, p, 0) : k \in kinds \ {"iso"}, p \in Path}
    \union {File(k, p, pct) : k \in kinds \cap {"iso"}, p \in Path, pct \in Points}

(* A gain in per cent, as a quotient.                                      *)
Quotient(num, den) == [num |-> num, den |-> den]
Equal(p, q) == p.num * q.den = q.num * p.den

NoReport == [mode |-> "none", code |-> 0, lines |-> {}, gain |-> Quotient(0, 1)]

-----------------------------------------------------------------------------
(* The benches.                                                            *)

(* Faulty variant: over the shim the next slot is not projected.           *)
IsoFitsLate(path, pct, n) ==
  /\ n < IsoPool
  /\ InBudget(IsoCommitted(path = "shim", IronSlotsPerLeaf(Slice), IF path = "shim" THEN n ELSE n + 1),
              CommittedCap(GpuTotal, pct))

(* run_iso_logical_bench with n slots mapped tries another.                *)
IsoFits(path, pct, n) ==
  /\ n < IsoPool
  /\ InBudget(IsoCommitted(path = "shim", IronSlotsPerLeaf(Slice), n + 1),
              CommittedCap(GpuTotal, pct))

IsoFigures(path, n) ==
  [slots |-> n, requested |-> n * Slice,
   committed |-> IsoCommitted(path = "shim", IronSlotsPerLeaf(Slice), n)]

(* A call may fail for any slot, and the bench reports what it has.        *)
Outcomes(f) ==
  CASE f.kind = "iso" ->
         {IsoFigures(f.path, n) : n \in {m \in 0 .. IsoPool :
            \A earlier \in 0 .. m - 1 : IsoFits(f.path, f.point, earlier)}}
    [] f.kind = "tail"  -> [p99 : Latencies, p999 : Latencies, ops : Rates]
    [] f.kind = "power" -> [watts : Watts]
    [] f.kind \in {"alloc", "resident", "oom", "frag"} -> [slots : SlotCounts, oom : {"ok", "fail"}]

-----------------------------------------------------------------------------
(* Tail latency and power: emit_zp1, emit_zp2 and emit_zp12.               *)

Falls(stock, shim) == 0 < shim /\ shim < stock

(* A reduction of 25 per cent and a ratio of 1.25.                         *)
StrongFall(stock, shim) == Falls(stock, shim) /\ 4 * shim <= 3 * stock /\ 5 * shim <= 4 * stock

(* emit_zp1 takes p99.9 where p99 did not fall; emit_zp12 does not.        *)
TailOk(s, h) ==
  IF Falls(s.p99, h.p99) THEN StrongFall(s.p99, h.p99) ELSE StrongFall(s.p999, h.p999)
ScoutTailOk(s, h) == StrongFall(s.p99, h.p99)

(* Operations per watt, as a quotient; no samples count as no operations.  *)
PerWatt(ops, watts) == IF watts > 0 THEN Quotient(ops, watts) ELSE Quotient(0, 1)

(* The shim does at least 1.05 times the operations per watt.              *)
ScoutPowerOk(s, ws, h, wh) ==
  LET stock == PerWatt(s.ops, ws.watts)
      shim  == PerWatt(h.ops, wh.watts)
  IN  20 * shim.num * stock.den >= 21 * stock.num * shim.den

(* emit_zp2 asks for samples as well.                                      *)
Sampled(ws, wh) == ws.watts > 0 /\ wh.watts > 0
PowerOk(s, ws, h, wh) == ScoutPowerOk(s, ws, h, wh) /\ Sampled(ws, wh)

-----------------------------------------------------------------------------
(* Slots and bytes: emit_f1, emit_f1prime, emit_kv_gain,                   *)
(* emit_cache_liberation, emit_vram_curve and the leaf physics script.     *)

(* "T1: stock must fare worse": more slots over the shim decide.           *)
OomLines(s, h) ==
  IF h.slots > s.slots THEN {<<"stock", "fail">>, <<"shim", "ok">>}
  ELSE {<<"stock", s.oom>>, <<"shim", h.oom>>}

(* oom_stock and oom_shim where they are taken from the slots.             *)
SlotLines(s, h) ==
  {<<"stock", IF s.slots > 0 THEN "ok" ELSE "fail">>, <<"shim", IF h.slots > 0 THEN "ok" ELSE "fail">>}

(* kv_gain_pct of emit_f1prime: all of it where stock has no slots.        *)
SlotGain(s, h) ==
  CASE s.slots > 0                 -> Quotient(100 * (h.slots - s.slots), s.slots)
    [] s.slots = 0 /\ h.slots > 0  -> Quotient(100, 1)
    [] s.slots = 0 /\ h.slots = 0  -> Quotient(0, 1)

(* Faulty variant: the target is left at 1 where stock has no slots.       *)
TargetGainUnscaled(s, h) ==
  CASE s.slots > 0                 -> Quotient(100 * (h.slots - s.slots), s.slots)
    [] s.slots = 0                 -> Quotient(100 * h.slots, 1)

(* kv_gain_pct_n_slots of emit_kv_gain, of kv_gain_n_target slots.         *)
TargetGain(s, h) ==
  CASE s.slots > 0                 -> Quotient(100 * (h.slots - s.slots), s.slots)
    [] s.slots = 0 /\ h.slots > 0  -> Quotient(100 * h.slots, h.slots)
    [] s.slots = 0 /\ h.slots = 0  -> Quotient(0, 1)

(* cache_liberation_pct, and its band of 30 to 40 per cent.                *)
Liberation(s, h) ==
  IF s.committed > 0 THEN Quotient(100 * (s.committed - h.committed), s.committed)
  ELSE Quotient(0, 1)
InBand(gain) == 30 * gain.den <= gain.num /\ gain.num <= 40 * gain.den

PointFiles(pct) == {File("iso", p, pct) : p \in Path}
PointsOk == {pct \in Points : PointFiles(pct) \subseteq Written}

IsoPair(pct) == [stock |-> files[File("iso", "stock", pct)], shim |-> files[File("iso", "shim", pct)]]

(* layout_efficiency_pct at 70 or more, logical_kv_gain_pct at 30 or more. *)
Efficient(h) == h.committed > 0 /\ 100 * h.requested >= 70 * h.committed
Gains(s, h) == s.requested > 0 /\ 100 * h.requested >= 130 * s.requested

(* Faulty variant: the points that are there are enough.                   *)
PhysicsOkSomePoints ==
  /\ TopPoint \in PointsOk
  /\ Efficient(IsoPair(TopPoint).shim) /\ Gains(IsoPair(TopPoint).stock, IsoPair(TopPoint).shim)

(* N2_PASS_ceiling_ratio and N2_PASS_logical_kv_gain_70.                   *)
PhysicsOk ==
  /\ PointsOk = Points
  /\ Efficient(IsoPair(TopPoint).shim) /\ Gains(IsoPair(TopPoint).stock, IsoPair(TopPoint).shim)

-----------------------------------------------------------------------------
(* main: a mode, the files it must be given, its exit code and its lines.  *)

Modes == {"gate12", "f1", "f1prime", "kv-gain", "zp1", "zp2", "zp12",
          "cache-liberation", "vram-curve", "leaf-physics"}

Given(mode) ==
  CASE mode = "gate12"                      -> FilesOf({"alloc"})
    [] mode = "f1"                          -> FilesOf({"resident", "oom"})
    [] mode \in {"f1prime", "kv-gain"}      -> FilesOf({"frag"})
    [] mode = "zp1"                         -> FilesOf({"tail"})
    [] mode \in {"zp2", "zp12"}             -> FilesOf({"tail", "power"})
    [] mode = "cache-liberation"            -> PointFiles(TopPoint)
    [] mode \in {"vram-curve", "leaf-physics"} -> {}

KindsOf(mode) ==
  IF mode \in {"vram-curve", "leaf-physics"} THEN {"iso"} ELSE {f.kind : f \in Given(mode)}

ZpLines(mode) ==
  LET s == Figures("tail", "stock")
      h == Figures("tail", "shim")
      ws == Figures("power", "stock")
      wh == Figures("power", "shim")
  IN  CASE mode = "zp1" -> IF TailOk(s, h) THEN {<<"tail", "ok">>} ELSE {}
        [] mode = "zp2" -> IF PowerOk(s, ws, h, wh) THEN {<<"power", "ok">>} ELSE {}
        [] mode = "zp12" ->
             {l \in {"tail", "power", "scout"} \X {"ok"} :
                /\ l[1] # "power" => ScoutTailOk(s, h)
                /\ l[1] # "tail" => ScoutPowerOk(s, ws, h, wh)}

LinesOf(mode) ==
  CASE mode = "gate12" ->
         {<<p, Figures("alloc", p).oom>> : p \in Path}
    [] mode = "f1" -> OomLines(Figures("oom", "stock"), Figures("oom", "shim"))
    [] mode \in {"f1prime", "kv-gain"} -> SlotLines(Figures("frag", "stock"), Figures("frag", "shim"))
    [] mode \in {"zp1", "zp2", "zp12"} -> ZpLines(mode)
    [] mode = "cache-liberation" ->
         IF InBand(Liberation(IsoPair(TopPoint).stock, IsoPair(TopPoint).shim)) THEN {<<"band", "ok">>} ELSE {}
    [] mode = "vram-curve"   -> IF PointsOk = Points THEN {<<"curve", "ok">>} ELSE {}
    [] mode = "leaf-physics" -> IF PhysicsOk THEN {<<"physics", "ok">>} ELSE {}

GainOf(mode) ==
  CASE mode = "f1prime" -> SlotGain(Figures("frag", "stock"), Figures("frag", "shim"))
    [] mode = "kv-gain" -> TargetGain(Figures("frag", "stock"), Figures("frag", "shim"))
    [] mode = "cache-liberation" -> Liberation(IsoPair(TopPoint).stock, IsoPair(TopPoint).shim)
    [] OTHER            -> Quotient(0, 1)

(* zp1 and zp2 answer 0 whatever they find; zp12 answers 1 for a weak one. *)
CodeOf(mode) ==
  CASE mode \in {"gate12", "f1", "f1prime", "kv-gain", "zp1", "zp2"} -> 0
    [] mode = "zp12"             -> IF <<"scout", "ok">> \in LinesOf(mode) THEN 0 ELSE 1
    [] mode = "cache-liberation" -> IF LinesOf(mode) # {} THEN 0 ELSE 2
    [] mode = "vram-curve"       -> IF PointsOk = Points THEN 0 ELSE 2
    [] mode = "leaf-physics"     -> IF PhysicsOk THEN 0 ELSE 2

-----------------------------------------------------------------------------

ReportsInit == job \in Jobs /\ files = << >> /\ report = NoReport

(* A bench that finds no device, or cannot write, leaves no file.          *)
Bench ==
  /\ \E f \in FilesOf(job) \ Written : \E figures \in Outcomes(f) :
       files' = [g \in Written \union {f} |-> IF g = f THEN figures ELSE files[g]]
  /\ UNCHANGED <<job, report>>

Emit(mode) ==
  /\ KindsOf(mode) \subseteq job /\ Given(mode) \subseteq Written
  /\ report' = [mode |-> mode, code |-> CodeOf(mode), lines |-> LinesOf(mode),
                gain |-> GainOf(mode)]
  /\ UNCHANGED <<job, files>>

(* A file that is named but not there: 1, and nothing is printed.          *)
EmitMissing(mode) ==
  /\ KindsOf(mode) \subseteq job /\ ~(Given(mode) \subseteq Written)
  /\ report' = [NoReport EXCEPT !.mode = mode, !.code = 1]
  /\ UNCHANGED <<job, files>>

(* A file, or the directory of the curve, is not even named.               *)
Usage(mode) ==
  /\ KindsOf(mode) \subseteq job
  /\ report' = [NoReport EXCEPT !.mode = mode, !.code = 2]
  /\ UNCHANGED <<job, files>>

ReportsNext ==
  Bench \/ \E mode \in Modes : Emit(mode) \/ EmitMissing(mode) \/ Usage(mode)

ReportsSpec == ReportsInit /\ [][ReportsNext]_reportVars

-----------------------------------------------------------------------------

(* Emitters that work out the same thing with code of their own agree.     *)
(* Once emit_zp12 says SCOUT_OK, emit_zp1 on the same files says OK, and   *)
(* so does emit_zp2 when power was sampled on both paths; and emit_kv_gain *)
(* reports the gain in slots that emit_f1prime reports.                    *)
EmittersAgree ==
  /\ <<"scout", "ok">> \in report.lines =>
       /\ TailOk(Figures("tail", "stock"), Figures("tail", "shim"))
       /\ Sampled(Figures("power", "stock"), Figures("power", "shim")) =>
            PowerOk(Figures("tail", "stock"), Figures("power", "stock"),
                    Figures("tail", "shim"), Figures("power", "shim"))
  /\ report.mode = "kv-gain" /\ report.code = 0 =>
       Equal(report.gain, SlotGain(Figures("frag", "stock"), Figures("frag", "shim")))

(* LEAF_PHYSICS_OK is never said of a curve with a gap: emit_vram_curve on *)
(* the same directory answers 0, and at the top budget the shim holds more *)
(* than stock.  What is written later does not take the verdict back.      *)
PhysicsBacked ==
  <<"physics", "ok">> \in report.lines =>
    /\ CodeOf("vram-curve") = 0
    /\ IsoPair(TopPoint).shim.requested > IsoPair(TopPoint).stock.requested

(* A49_CLAIM_PROTOCOL_CACHE_LIBERATION_V1.md:25: at the same budget the    *)
(* shim holds at least the logical bytes of stock and commits no more, if  *)
(* no call failed and both benches stopped at a limit of their own.        *)
MoreLogicalForLess ==
  \A pct \in PointsOk :
    LET s == IsoPair(pct).stock
        h == IsoPair(pct).shim
    IN  ~IsoFits("stock", pct, s.slots) /\ ~IsoFits("shim", pct, h.slots) =>
          h.requested >= s.requested /\ h.committed <= s.committed

(* A49_CLAIM_PROTOCOL_CACHE_LIBERATION_V1.md:16 and :19: at matched logical *)
(* load the liberation is between nothing and what k slices to a leaf can  *)
(* save (75 per cent for 4), at whichever points the two runs were made.   *)
MatchedLiberation ==
  \A p, q \in Points :
    {File("iso", "stock", p), File("iso", "shim", q)} \subseteq Written =>
      LET s == files[File("iso", "stock", p)]
          h == files[File("iso", "shim", q)]
      IN  s.requested = h.requested =>
            /\ h.committed <= s.committed
            /\ s.committed <= IronSlotsPerLeaf(Slice) * h.committed
=============================================================================
