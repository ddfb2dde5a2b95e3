------------------------------- MODULE IronMath -------------------------------
(***************************************************************************)
(* The iron harness's own copy of the size arithmetic (iron_gate_v1.c): it *)
(* works out the sizes it asks the shim and the driver for without calling *)
(* the shim.  Leaf is LEAF_BYTES here, which no environment variable       *)
(* changes.                                                                *)
(***************************************************************************)
EXTENDS LeafMath

(* Whole units: the multiple itself, or one unit past the last full one.   *)
IronUnits(size, unit) ==
  CASE size = 0                        -> unit
    [] size # 0 /\ size % unit = 0     -> size
    [] size # 0 /\ size % unit # 0     -> (size \div unit + 1) * unit

(* frag_alloc_bytes and iron_shim_round_leaf.                              *)
FragAllocBytes(req) ==
  IF req <= Leaf THEN Leaf ELSE ((req + Leaf - 1) \div Leaf) * Leaf
IronRoundLeaf(req) == IronUnits(req, Leaf)

IronHalve(unit) == IF unit > LadderFloor THEN unit \div 2 ELSE unit

IronLadderRound(size, level) ==
  IronUnits(size, IF level = 0 THEN Leaf
                  ELSE IF level = 1 THEN IronHalve(Leaf) ELSE IronHalve(IronHalve(Leaf)))

(* Faulty variant: the copy misses the last level of the shim's ladder.    *)
IronPlacementRoundCoarse(req) ==
  LET r == IronLadderRound(req, 1)
  IN  IF req <= r /\ r <= Leaf /\ r < IronRoundLeaf(req) THEN r ELSE IronRoundLeaf(req)

(* The loop of iron_placement_round keeps the best level so far.           *)
IronPlacementRound(req) ==
  LET better(best, level) ==
        LET r == IronLadderRound(req, level)
        IN  IF req <= r /\ r <= Leaf /\ r < best THEN r ELSE best
  IN  better(better(better(IronRoundLeaf(req), 0), 1), 2)

(* iron_pack_slots_per_leaf; place is 0 where the ladder has no unit left. *)
IronSlotsPerLeaf(slice) ==
  LET place == IronPlacementRound(slice)
  IN  IF place = 0 \/ place > Leaf THEN 1 ELSE Leaf \div place

(* Faulty variant: only full leaves are counted.                           *)
IsoCommittedFull(shimmed, perLeaf, n) == (IF shimmed THEN n \div perLeaf ELSE n) * Leaf

(* The committed bytes of n mapped slots, as the iso bench works them out. *)
IsoCommitted(shimmed, perLeaf, n) ==
  (IF shimmed THEN (n + perLeaf - 1) \div perLeaf ELSE n) * Leaf

(* A budget of 0 bytes is no budget.                                       *)
InBudget(committed, cap) == cap > 0 => committed <= cap

(* iron_committed_cap_bytes, in whole bytes.                               *)
CommittedCap(gpuTotal, budgetPct) == (gpuTotal * budgetPct) \div 100
=============================================================================
