--------------------------- MODULE IronReportsProofs ---------------------------
(***************************************************************************)
(* Proofs about the report files, for every leaf and slice, every set of   *)
(* budget points, every device, and any figures the other benches may      *)
(* report: a file holds figures its bench can come to, and a file that is  *)
(* there is never written again.                                           *)
(***************************************************************************)
EXTENDS IronReports, SizeProofs

-----------------------------------------------------------------------------
(* The report files.                                                       *)

FiguresReal == \A f \in Written : files[f] \in Outcomes(f)

(* What the last report said was read from files that are there.           *)
ReportRead ==
  /\ <<"scout", "ok">> \in report.lines => FilesOf({"tail", "power"}) \subseteq Written
  /\ report.mode = "kv-gain" /\ report.code = 0 => FilesOf({"frag"}) \subseteq Written
  /\ <<"physics", "ok">> \in report.lines => PointsOk = Points

ReportsInv == FiguresReal /\ ReportRead /\ EmittersAgree /\ PhysicsBacked

-----------------------------------------------------------------------------
(* The files.                                                              *)

(* A bench adds a file of figures it can come to and changes no other.     *)
LEMMA BenchAdds ==
  ASSUME Bench
  PROVE  /\ report' = report
         /\ Written \subseteq Written'
         /\ \A g \in Written : files'[g] = files[g]
         /\ \A g \in Written' : g \in Written \/ files'[g] \in Outcomes(g)
<1>1. PICK f \in FilesOf(job) \ Written : \E figures \in Outcomes(f) :
        files' = [g \in Written \union {f} |-> IF g = f THEN figures ELSE files[g]]
  BY DEF Bench
<1>2. Written' = Written \union {f}
  BY <1>1 DEF Written
<1> QED
  BY <1>1, <1>2 DEF Bench

LEMMA IsoOutcome ==
  ASSUME NEW f, f.kind = "iso", NEW figures \in Outcomes(f)
  PROVE  \E n \in 0 .. IsoPool :
           /\ figures = IsoFigures(f.path, n)
           /\ \A earlier \in 0 .. n - 1 : IsoFits(f.path, f.point, earlier)
<1>1. Outcomes(f) = {IsoFigures(f.path, n) : n \in {m \in 0 .. IsoPool :
                       \A earlier \in 0 .. m - 1 : IsoFits(f.path, f.point, earlier)}}
  BY DEF Outcomes
<1> QED
  BY <1>1

LEMMA FragOutcome ==
  ASSUME NEW f, f.kind = "frag", NEW figures \in Outcomes(f)
  PROVE  figures.slots \in Nat
<1>1. Outcomes(f) = [slots : SlotCounts, oom : {"ok", "fail"}]
  BY DEF Outcomes
<1> QED
  BY <1>1, ReportAssumption

(* The figures of an iso bench that is there.                              *)
LEMMA IsoFile ==
  ASSUME FiguresReal, NEW path, NEW pct, File("iso", path, pct) \in Written
  PROVE  \E n \in 0 .. IsoPool :
           /\ files[File("iso", path, pct)] = IsoFigures(path, n)
           /\ \A earlier \in 0 .. n - 1 : IsoFits(path, pct, earlier)
<1> DEFINE f == File("iso", path, pct)
<1>1. f.kind = "iso" /\ f.path = path /\ f.point = pct
  BY DEF File
<1>2. files[f] \in Outcomes(f)
  BY DEF FiguresReal
<1> HIDE DEF f
<1>3. \E n \in 0 .. IsoPool :
        /\ files[f] = IsoFigures(f.path, n)
        /\ \A earlier \in 0 .. n - 1 : IsoFits(f.path, f.point, earlier)
  BY <1>1, <1>2, IsoOutcome
<1> QED
  BY <1>1, <1>3 DEF f

LEMMA PerLeafPositive == IronSlotsPerLeaf(Slice) \in Nat \ {0}
  BY HarnessPlacesAlike, ReportAssumption

-----------------------------------------------------------------------------
(* The two paths of the iso bench.                                         *)

(* Wherever the two runs stopped, if each stopped at a limit of its own.   *)
LEMMA ShimHoldsMore ==
  ASSUME NEW pct \in Points, NEW ns \in 0 .. IsoPool, NEW nh \in 0 .. IsoPool,
         \A earlier \in 0 .. ns - 1 : IsoFits("stock", pct, earlier),
         \A earlier \in 0 .. nh - 1 : IsoFits("shim", pct, earlier),
         ~IsoFits("stock", pct, ns), ~IsoFits("shim", pct, nh)
  PROVE  /\ ns <= nh
         /\ IsoFigures("shim", nh).committed <= IsoFigures("stock", ns).committed
<1> DEFINE k == IronSlotsPerLeaf(Slice)
<1> DEFINE leaves(n) == (n + k - 1) \div k
<1> DEFINE cap == CommittedCap(GpuTotal, pct)
<1>1. k \in Nat \ {0} /\ IsoPool \in Nat
  BY PerLeafPositive, ReportAssumption
<1>2. cap \in Nat
  <2>1. pct \in Nat /\ GpuTotal \in Nat
    BY ReportAssumption
  <2>2. GpuTotal * pct \in Nat
    BY <2>1
  <2> QED
    BY <2>2, DivMod DEF CommittedCap
<1>3. \A n : IsoFits("stock", pct, n) <=> n < IsoPool /\ (cap > 0 => (n + 1) * Leaf <= cap)
  BY DEF IsoFits, IsoCommitted, InBudget
<1>4. \A n : IsoFits("shim", pct, n) <=> n < IsoPool /\ (cap > 0 => leaves(n + 1) * Leaf <= cap)
  BY DEF IsoFits, IsoCommitted, InBudget
<1>5. \A n \in Nat : leaves(n) \in Nat /\ leaves(n) <= n
  <2> HIDE DEF k
  <2>1. TAKE n \in Nat
  <2>2. (n + k - 1) \div k \in Nat
    BY <1>1, CeilDiv
  <2>3. (n + k - 1) \div k <= n
    <3>1. n <= n
      OBVIOUS
    <3> QED
      BY <1>1, <3>1, CeilGrows
  <2> QED
    BY <2>2, <2>3
<1>6. IsoFigures("shim", nh).committed = leaves(nh) * Leaf
      /\ IsoFigures("stock", ns).committed = ns * Leaf
  BY DEF IsoFigures, IsoCommitted
<1> HIDE DEF k, leaves, cap
<1>7. ns <= nh
  <2>1. SUFFICES ASSUME nh < ns PROVE FALSE
    BY <1>1
  <2>2. nh < IsoPool /\ cap > 0 /\ ~(leaves(nh + 1) * Leaf <= cap)
    BY <1>1, <1>2, <1>4, <2>1
  <2>3. ns - 1 \in 0 .. ns - 1 /\ ns - 1 + 1 = ns
    BY <1>1, <2>1
  <2>4. ns * Leaf <= cap
    BY <1>3, <2>2, <2>3
  <2>5. leaves(nh + 1) \in Nat /\ leaves(nh + 1) <= ns /\ ns \in Nat
    BY <1>1, <1>5, <2>1
  <2>6. leaves(nh + 1) * Leaf <= ns * Leaf /\ leaves(nh + 1) * Leaf \in Nat /\ ns * Leaf \in Nat
    BY <2>5, LeafAssumption, ProductOrder
  <2> QED
    BY <1>2, <2>2, <2>4, <2>6
<1>8. leaves(nh) <= ns
  <2>1. SUFFICES ASSUME ns < leaves(nh) PROVE FALSE
    BY <1>1, <1>5
  <2>2. nh \in Nat /\ ns \in Nat /\ leaves(nh) \in Nat /\ leaves(nh) <= nh
    BY <1>1, <1>5
  <2>3. ns < IsoPool
    BY <1>1, <2>1, <2>2
  <2>4. cap > 0 /\ ~((ns + 1) * Leaf <= cap)
    BY <1>3, <2>3
  <2>5. nh - 1 \in 0 .. nh - 1 /\ nh - 1 + 1 = nh
    BY <1>1, <2>1, <2>2
  <2>6. leaves(nh) * Leaf <= cap
    BY <1>4, <2>4, <2>5
  <2>7. ns + 1 <= leaves(nh) /\ ns + 1 \in Nat
    BY <2>1, <2>2
  <2>8. (ns + 1) * Leaf <= leaves(nh) * Leaf /\ (ns + 1) * Leaf \in Nat /\ leaves(nh) * Leaf \in Nat
    BY <2>2, <2>7, LeafAssumption, ProductOrder
  <2> QED
    BY <1>2, <2>4, <2>6, <2>8
<1>9. leaves(nh) * Leaf <= ns * Leaf
  BY <1>1, <1>5, <1>8, LeafAssumption, ProductOrder
<1> QED
  BY <1>6, <1>7, <1>9

LEMMA MoreForLess == FiguresReal => MoreLogicalForLess
<1> SUFFICES ASSUME FiguresReal, NEW pct \in PointsOk,
                    ~IsoFits("stock", pct, IsoPair(pct).stock.slots),
                    ~IsoFits("shim", pct, IsoPair(pct).shim.slots)
             PROVE  /\ IsoPair(pct).shim.requested >= IsoPair(pct).stock.requested
                    /\ IsoPair(pct).shim.committed <= IsoPair(pct).stock.committed
  BY DEF MoreLogicalForLess
<1>1. pct \in Points /\ File("iso", "stock", pct) \in Written /\ File("iso", "shim", pct) \in Written
  BY DEF PointsOk, PointFiles, Path
<1>2. PICK ns \in 0 .. IsoPool :
        /\ IsoPair(pct).stock = IsoFigures("stock", ns)
        /\ \A earlier \in 0 .. ns - 1 : IsoFits("stock", pct, earlier)
  BY <1>1, IsoFile DEF IsoPair
<1>3. PICK nh \in 0 .. IsoPool :
        /\ IsoPair(pct).shim = IsoFigures("shim", nh)
        /\ \A earlier \in 0 .. nh - 1 : IsoFits("shim", pct, earlier)
  BY <1>1, IsoFile DEF IsoPair
<1>4. IsoFigures("stock", ns).slots = ns /\ IsoFigures("shim", nh).slots = nh
      /\ IsoFigures("stock", ns).requested = ns * Slice /\ IsoFigures("shim", nh).requested = nh * Slice
  BY DEF IsoFigures
<1>5. ns <= nh /\ IsoFigures("shim", nh).committed <= IsoFigures("stock", ns).committed
  BY <1>1, <1>2, <1>3, <1>4, ShimHoldsMore
<1>6. ns * Slice <= nh * Slice /\ ns * Slice \in Nat /\ nh * Slice \in Nat
  BY <1>5, ReportAssumption, ProductOrder
<1> QED
  BY <1>2, <1>3, <1>4, <1>5, <1>6

LEMMA MatchedBand == FiguresReal => MatchedLiberation
<1> SUFFICES ASSUME FiguresReal, NEW p \in Points, NEW q \in Points,
                    File("iso", "stock", p) \in Written, File("iso", "shim", q) \in Written,
                    files[File("iso", "stock", p)].requested = files[File("iso", "shim", q)].requested
             PROVE  /\ files[File("iso", "shim", q)].committed <= files[File("iso", "stock", p)].committed
                    /\ files[File("iso", "stock", p)].committed
                         <= IronSlotsPerLeaf(Slice) * files[File("iso", "shim", q)].committed
  BY DEF MatchedLiberation
<1>1. PICK ns \in 0 .. IsoPool : files[File("iso", "stock", p)] = IsoFigures("stock", ns)
  BY IsoFile
<1>2. PICK nh \in 0 .. IsoPool : files[File("iso", "shim", q)] = IsoFigures("shim", nh)
  BY IsoFile
<1>3. ns * Slice = nh * Slice
  BY <1>1, <1>2 DEF IsoFigures
<1>4. ns = nh /\ ns \in Nat
  BY <1>3, ReportAssumption, ProductOrder
<1>5. /\ IsoFigures("stock", ns).committed = IsoCommitted(FALSE, IronSlotsPerLeaf(Slice), ns)
      /\ IsoFigures("shim", nh).committed = IsoCommitted(TRUE, IronSlotsPerLeaf(Slice), nh)
  BY DEF IsoFigures
<1> QED
  BY <1>1, <1>2, <1>4, <1>5, PerLeafPositive, CommittedWithinBand

-----------------------------------------------------------------------------
(* The emitters.                                                           *)

(* Who says the line of the scout, and who that of the leaf physics.       *)
LEMMA ScoutLine ==
  ASSUME NEW mode \in Modes, <<"scout", "ok">> \in LinesOf(mode)
  PROVE  /\ mode = "zp12"
         /\ ScoutTailOk(Figures("tail", "stock"), Figures("tail", "shim"))
         /\ ScoutPowerOk(Figures("tail", "stock"), Figures("power", "stock"),
                         Figures("tail", "shim"), Figures("power", "shim"))
<1>1. mode \notin {"gate12", "f1", "f1prime", "kv-gain", "cache-liberation", "vram-curve", "leaf-physics"}
  BY DEF LinesOf, OomLines, SlotLines, Path
<1>2. mode \in {"zp1", "zp2", "zp12"}
  BY <1>1 DEF Modes
<1>3. <<"scout", "ok">> \in ZpLines(mode)
  BY <1>2 DEF LinesOf
<1>4. mode = "zp12"
  BY <1>2, <1>3 DEF ZpLines
<1> QED
  BY <1>3, <1>4 DEF ZpLines

LEMMA PhysicsLine ==
  ASSUME NEW mode \in Modes, <<"physics", "ok">> \in LinesOf(mode)
  PROVE  mode = "leaf-physics" /\ PhysicsOk
<1>1. mode \notin {"gate12", "f1", "f1prime", "kv-gain", "cache-liberation", "vram-curve"}
  BY DEF LinesOf, OomLines, SlotLines, Path
<1>2. mode \notin {"zp1", "zp2", "zp12"}
  BY DEF LinesOf, ZpLines
<1>3. mode = "leaf-physics"
  BY <1>1, <1>2 DEF Modes
<1> QED
  BY <1>3 DEF LinesOf

(* A scout verdict is one both single reports give.                        *)
LEMMA ScoutStricter ==
  ASSUME NEW s, NEW h, NEW ws, NEW wh, ScoutTailOk(s, h), ScoutPowerOk(s, ws, h, wh)
  PROVE  TailOk(s, h) /\ (Sampled(ws, wh) => PowerOk(s, ws, h, wh))
  BY DEF ScoutTailOk, StrongFall, TailOk, PowerOk

(* Both emitters take the same gain from the same slots.                   *)
LEMMA GainsEqual ==
  ASSUME NEW s, NEW h, s.slots \in Nat, h.slots \in Nat
  PROVE  Equal(TargetGain(s, h), SlotGain(s, h))
<1>1. CASE s.slots > 0
  <2>1. TargetGain(s, h) = SlotGain(s, h)
    BY <1>1 DEF TargetGain, SlotGain
  <2> QED
    BY <2>1 DEF Equal
<1>2. CASE s.slots = 0 /\ h.slots > 0
  <2>1. TargetGain(s, h) = Quotient(100 * h.slots, h.slots) /\ SlotGain(s, h) = Quotient(100, 1)
    BY <1>2 DEF TargetGain, SlotGain
  <2>2. (100 * h.slots) * 1 = 100 * h.slots
    OBVIOUS
  <2> QED
    BY <2>1, <2>2 DEF Equal, Quotient
<1>3. CASE s.slots = 0 /\ h.slots = 0
  <2>1. TargetGain(s, h) = SlotGain(s, h)
    BY <1>3 DEF TargetGain, SlotGain
  <2> QED
    BY <2>1 DEF Equal
<1> QED
  BY <1>1, <1>2, <1>3

(* The verdict's two thresholds and its gap test are what it promises.     *)
LEMMA PhysicsBacks ==
  ASSUME FiguresReal, PhysicsOk
  PROVE  /\ PointsOk = Points /\ CodeOf("vram-curve") = 0
         /\ IsoPair(TopPoint).shim.requested > IsoPair(TopPoint).stock.requested
<1>1. PointsOk = Points /\ Gains(IsoPair(TopPoint).stock, IsoPair(TopPoint).shim)
  BY DEF PhysicsOk
<1>2. CodeOf("vram-curve") = 0
  BY <1>1 DEF CodeOf
<1>3. File("iso", "stock", TopPoint) \in Written /\ File("iso", "shim", TopPoint) \in Written
  BY <1>1, ReportAssumption DEF PointsOk, PointFiles, Path
<1>4. PICK ns \in 0 .. IsoPool : IsoPair(TopPoint).stock = IsoFigures("stock", ns)
  BY <1>3, IsoFile DEF IsoPair
<1>5. PICK nh \in 0 .. IsoPool : IsoPair(TopPoint).shim = IsoFigures("shim", nh)
  BY <1>3, IsoFile DEF IsoPair
<1>6. ns * Slice \in Nat /\ nh * Slice \in Nat
  BY ReportAssumption, ProductOrder
<1>7. ns * Slice > 0 /\ 100 * (nh * Slice) >= 130 * (ns * Slice)
  BY <1>1, <1>4, <1>5 DEF Gains, IsoFigures
<1>8. nh * Slice > ns * Slice
  BY <1>6, <1>7
<1> QED
  BY <1>1, <1>2, <1>4, <1>5, <1>8 DEF IsoFigures

-----------------------------------------------------------------------------
(* The invariant.                                                          *)

LEMMA InitEstablishes == ReportsInit => ReportsInv
  BY DEF ReportsInit, ReportsInv, FiguresReal, ReportRead, EmittersAgree, PhysicsBacked,
         NoReport, Written

(* A report that was right stays right when files are added.               *)
LEMMA BenchPreserves == ReportsInv /\ Bench => ReportsInv'
<1> SUFFICES ASSUME ReportsInv, Bench PROVE ReportsInv'
  OBVIOUS
<1>1. /\ report' = report /\ Written \subseteq Written'
      /\ \A g \in Written : files'[g] = files[g]
      /\ \A g \in Written' : g \in Written \/ files'[g] \in Outcomes(g)
  BY BenchAdds
<1>2. FiguresReal'
  BY <1>1 DEF ReportsInv, FiguresReal
<1>3. PointsOk = Points => PointsOk' = Points
  BY <1>1 DEF PointsOk
<1>4. ReportRead'
  BY <1>1, <1>3 DEF ReportsInv, ReportRead
<1>5. EmittersAgree'
  <2>1. ASSUME NEW kind, NEW path, File(kind, path, 0) \in Written
        PROVE  Figures(kind, path)' = Figures(kind, path)
    BY <1>1, <2>1 DEF Figures
  <2>2. ASSUME <<"scout", "ok">> \in report.lines
        PROVE  \A kind \in {"tail", "power"}, path \in Path : Figures(kind, path)' = Figures(kind, path)
    BY <2>1, <2>2 DEF ReportsInv, ReportRead, FilesOf
  <2>3. ASSUME report.mode = "kv-gain", report.code = 0
        PROVE  \A path \in Path : Figures("frag", path)' = Figures("frag", path)
    BY <2>1, <2>3 DEF ReportsInv, ReportRead, FilesOf
  <2> QED
    BY <1>1, <2>2, <2>3 DEF ReportsInv, EmittersAgree, Path
<1>6. PhysicsBacked'
  <2>1. SUFFICES ASSUME <<"physics", "ok">> \in report.lines
                 PROVE  /\ CodeOf("vram-curve")' = 0
                        /\ IsoPair(TopPoint)' = IsoPair(TopPoint)
    BY <1>1 DEF ReportsInv, PhysicsBacked
  <2>2. PointsOk = Points /\ PointsOk' = Points
    BY <1>3, <2>1 DEF ReportsInv, ReportRead
  <2>3. File("iso", "stock", TopPoint) \in Written /\ File("iso", "shim", TopPoint) \in Written
    BY <2>2, ReportAssumption DEF PointsOk, PointFiles, Path
  <2> QED
    BY <1>1, <2>2, <2>3 DEF CodeOf, IsoPair
<1> QED
  BY <1>2, <1>4, <1>5, <1>6 DEF ReportsInv

(* A new report says what the files say now.                               *)
LEMMA EmitPreserves ==
  ASSUME ReportsInv, NEW mode \in Modes, Emit(mode)
  PROVE  ReportsInv'
<1>1. /\ files' = files /\ report'.mode = mode /\ report'.lines = LinesOf(mode)
      /\ report'.gain = GainOf(mode) /\ Given(mode) \subseteq Written /\ Written' = Written
  BY DEF Emit, Written
<1>2. FiguresReal /\ FiguresReal'
  BY <1>1 DEF ReportsInv, FiguresReal
<1>3. <<"physics", "ok">> \in report'.lines => PhysicsOk
  BY <1>1, PhysicsLine
<1>4. PointsOk' = PointsOk /\ IsoPair(TopPoint)' = IsoPair(TopPoint)
  BY <1>1 DEF PointsOk, IsoPair
<1>5. ReportRead'
  <2>1. mode = "zp12" => FilesOf({"tail", "power"}) \subseteq Written
    BY <1>1 DEF Given
  <2>2. mode = "kv-gain" => FilesOf({"frag"}) \subseteq Written
    BY <1>1 DEF Given
  <2>3. <<"scout", "ok">> \in report'.lines => mode = "zp12"
    BY <1>1, ScoutLine
  <2>4. PhysicsOk => PointsOk = Points
    BY DEF PhysicsOk
  <2>5. FilesOf({"tail", "power"})' = FilesOf({"tail", "power"}) /\ FilesOf({"frag"})' = FilesOf({"frag"})
    BY DEF FilesOf
  <2> QED
    BY <1>1, <1>3, <1>4, <2>1, <2>2, <2>3, <2>4 DEF ReportRead
<1>6. \A kind, path : Figures(kind, path)' = Figures(kind, path)
  BY <1>1 DEF Figures
<1>7. <<"scout", "ok">> \in report'.lines =>
        /\ TailOk(Figures("tail", "stock"), Figures("tail", "shim"))
        /\ Sampled(Figures("power", "stock"), Figures("power", "shim")) =>
             PowerOk(Figures("tail", "stock"), Figures("power", "stock"),
                     Figures("tail", "shim"), Figures("power", "shim"))
  BY <1>1, ScoutLine, ScoutStricter
<1>8. mode = "kv-gain" =>
        Equal(report'.gain, SlotGain(Figures("frag", "stock"), Figures("frag", "shim")))
  <2>1. SUFFICES ASSUME mode = "kv-gain"
                 PROVE  Equal(report'.gain, SlotGain(Figures("frag", "stock"), Figures("frag", "shim")))
    OBVIOUS
  <2>2. File("frag", "stock", 0) \in Written /\ File("frag", "shim", 0) \in Written
    BY <1>1, <2>1 DEF Given, FilesOf, Path
  <2>3. Figures("frag", "stock").slots \in Nat /\ Figures("frag", "shim").slots \in Nat
    BY <1>2, <2>2, FragOutcome DEF FiguresReal, Figures, File
  <2>4. report'.gain = TargetGain(Figures("frag", "stock"), Figures("frag", "shim"))
    BY <1>1, <2>1 DEF GainOf
  <2> QED
    BY <2>3, <2>4, GainsEqual
<1>9. EmittersAgree'
  BY <1>1, <1>6, <1>7, <1>8 DEF EmittersAgree
<1>10. PhysicsBacked'
  <2>1. <<"physics", "ok">> \in report'.lines =>
          /\ CodeOf("vram-curve") = 0
          /\ IsoPair(TopPoint).shim.requested > IsoPair(TopPoint).stock.requested
    BY <1>2, <1>3, PhysicsBacks
  <2>2. CodeOf("vram-curve")' = CodeOf("vram-curve")
    BY <1>4 DEF CodeOf
  <2> QED
    BY <1>4, <2>1, <2>2 DEF PhysicsBacked
<1> QED
  BY <1>2, <1>5, <1>9, <1>10 DEF ReportsInv

(* An answer without a report says nothing of the files.                   *)
LEMMA RefusalPreserves ==
  ASSUME ReportsInv, NEW mode \in Modes, EmitMissing(mode) \/ Usage(mode)
  PROVE  ReportsInv'
<1>1. files' = files /\ Written' = Written
  BY DEF EmitMissing, Usage, Written
<1>2. report'.lines = {} /\ report'.code # 0
  <2>1. CASE EmitMissing(mode)
    <3>1. report' = [NoReport EXCEPT !.mode = mode, !.code = 1]
      BY <2>1 DEF EmitMissing
    <3> QED
      BY <3>1 DEF NoReport
  <2>2. CASE Usage(mode)
    <3>1. report' = [NoReport EXCEPT !.mode = mode, !.code = 2]
      BY <2>2 DEF Usage
    <3> QED
      BY <3>1 DEF NoReport
  <2> QED
    BY <2>1, <2>2
<1>3. FiguresReal'
  BY <1>1 DEF ReportsInv, FiguresReal
<1>4. ReportRead'
  BY <1>2 DEF ReportRead
<1>5. EmittersAgree' /\ PhysicsBacked'
  BY <1>2 DEF EmittersAgree, PhysicsBacked
<1> QED
  BY <1>3, <1>4, <1>5 DEF ReportsInv

LEMMA ReportsInvariant == ReportsSpec => []ReportsInv
<1>1. ReportsInv /\ [ReportsNext]_reportVars => ReportsInv'
  <2> SUFFICES ASSUME ReportsInv, [ReportsNext]_reportVars PROVE ReportsInv'
    OBVIOUS
  <2>1. CASE Bench
    BY <2>1, BenchPreserves
  <2>2. CASE \E mode \in Modes : Emit(mode)
    BY <2>2, EmitPreserves
  <2>3. CASE \E mode \in Modes : EmitMissing(mode) \/ Usage(mode)
    BY <2>3, RefusalPreserves
  <2>4. CASE UNCHANGED reportVars
    <3>1. files' = files /\ report' = report /\ Written' = Written
      BY <2>4 DEF reportVars, Written
    <3>2. /\ PointsOk' = PointsOk /\ IsoPair(TopPoint)' = IsoPair(TopPoint)
          /\ \A kind, path : Figures(kind, path)' = Figures(kind, path)
      BY <3>1 DEF PointsOk, IsoPair, Figures
    <3>3. FiguresReal' /\ ReportRead'
      BY <3>1, <3>2 DEF ReportsInv, FiguresReal, ReportRead
    <3>4. EmittersAgree'
      BY <3>1, <3>2 DEF ReportsInv, EmittersAgree
    <3>5. PhysicsBacked'
      BY <3>1, <3>2 DEF ReportsInv, PhysicsBacked, CodeOf
    <3> QED
      BY <3>3, <3>4, <3>5 DEF ReportsInv
  <2> QED
    BY <2>1, <2>2, <2>3, <2>4 DEF ReportsNext
<1> QED
  BY <1>1, InitEstablishes, PTL DEF ReportsSpec

(* emit_zp1, emit_zp2 and emit_zp12, and emit_f1prime and emit_kv_gain,    *)
(* never contradict one another.                                           *)
THEOREM EmittersAlwaysAgree == ReportsSpec => []EmittersAgree
<1>1. ReportsInv => EmittersAgree
  BY DEF ReportsInv
<1> QED
  BY <1>1, ReportsInvariant, PTL

(* LEAF_PHYSICS_OK is said of whole curves only, and is never taken back.  *)
THEOREM PhysicsAlwaysBacked == ReportsSpec => []PhysicsBacked
<1>1. ReportsInv => PhysicsBacked
  BY DEF ReportsInv
<1> QED
  BY <1>1, ReportsInvariant, PTL

(* At every budget, on every device and for every slice, the shim holds    *)
(* the logical bytes of stock for no more committed bytes.                 *)
THEOREM AlwaysMoreForLess == ReportsSpec => []MoreLogicalForLess
<1>1. ReportsInv => MoreLogicalForLess
  BY MoreForLess DEF ReportsInv
<1> QED
  BY <1>1, ReportsInvariant, PTL

(* At matched logical load the shim saves no more than the slots of a leaf *)
(* allow and never loses.                                                  *)
THEOREM LiberationWithinBand == ReportsSpec => []MatchedLiberation
<1>1. ReportsInv => MatchedLiberation
  BY MatchedBand DEF ReportsInv
<1> QED
  BY <1>1, ReportsInvariant, PTL
=============================================================================
