------------------------------ MODULE LeafProofs ------------------------------
(***************************************************************************)
(* What LeafMathMC checks over a few leaf sizes, proved for every leaf,    *)
(* ladder floor, request and band: SizeProofs carried over to the          *)
(* arguments at hand.                                                      *)
(***************************************************************************)
EXTENDS LeafCases, TLAPS

(* The theorems about the leaf and the floor at hand.                      *)
L == INSTANCE SizeProofs WITH Leaf <- leaf, LadderFloor <- floor

ArgsOK == leaf \in Nat \ {0} /\ floor \in Nat \ {0} /\ req \in Nat /\ band \in Nat

LEMMA InitArgs == Init => ArgsOK
  BY CasesAssumption DEF Init, ArgsOK

LEMMA StepArgs == ArgsOK /\ [Next]_args => ArgsOK'
  BY DEF ArgsOK, Next, LargerRequest, NextBand, args

LEMMA ArgsAlwaysOK == Spec => []ArgsOK
  BY InitArgs, StepArgs, PTL DEF Spec

LEMMA LeafHolds == ArgsOK => L!LeafAssumption
  BY DEF ArgsOK, L!LeafAssumption

-----------------------------------------------------------------------------
(* M and L are the same arithmetic.                                        *)

LEMMA SameRounding ==
  ASSUME NEW r
  PROVE  /\ M!RoundLeafSize(r) = L!RoundLeafSize(r)
         /\ M!FragAllocBytes(r) = L!FragAllocBytes(r)
         /\ \A lv : M!LadderRound(r, lv) = L!LadderRound(r, lv)
  BY Zenon DEF M!RoundLeafSize, L!RoundLeafSize, M!RoundUpTo, L!RoundUpTo,
         M!FragAllocBytes, L!FragAllocBytes, M!LadderRound, L!LadderRound,
         M!LadderUnit, L!LadderUnit, M!HalveUnit, L!HalveUnit

LEMMA SamePlacement ==
  ASSUME NEW r
  PROVE  M!PlacementRound(r) = L!PlacementRound(r)
  BY Zenon DEF M!PlacementRound, L!PlacementRound, M!Min, L!Min,
         M!RoundLeafSize, L!RoundLeafSize, M!RoundUpTo, L!RoundUpTo, M!LadderRound, L!LadderRound,
         M!LadderUnit, L!LadderUnit, M!HalveUnit, L!HalveUnit

LEMMA SameIron ==
  ASSUME NEW r
  PROVE  /\ M!IronPlacementRound(r) = L!IronPlacementRound(r)
         /\ M!IronSlotsPerLeaf(r) = L!IronSlotsPerLeaf(r)
  BY Zenon DEF M!IronPlacementRound, L!IronPlacementRound, M!IronSlotsPerLeaf, L!IronSlotsPerLeaf,
         M!IronLadderRound, L!IronLadderRound, M!IronRoundLeaf, L!IronRoundLeaf,
         M!IronUnits, L!IronUnits, M!IronHalve, L!IronHalve

LEMMA SameBands ==
  ASSUME NEW b, NEW need
  PROVE  M!OffsetInLeaf(b, need, leaf) = L!OffsetInLeaf(b, need, leaf)
  BY Zenon DEF M!OffsetInLeaf, L!OffsetInLeaf, M!SlotsPerLeaf, L!SlotsPerLeaf

LEMMA SameCap ==
  ASSUME NEW cap, NEW next, NEW need, NEW env
  PROVE  /\ M!KCapBlocks(cap, TRUE, next, need) <=> L!KCapBlocks(cap, TRUE, next, need)
         /\ M!KCapMax(TRUE, env) = L!KCapMax(TRUE, env)
  BY Zenon DEF M!KCapBlocks, L!KCapBlocks, M!KCapMax, L!KCapMax

LEMMA SameWindows ==
  ASSUME NEW moon, NEW on, NEW n, NEW m, NEW len
  PROVE  /\ M!NewReserveSize(moon, on, n) = L!NewReserveSize(moon, on, n)
         /\ M!WindowLeaves(m, len) = L!WindowLeaves(m, len)
         /\ M!MegaLeafCount(moon, n) = L!MegaLeafCount(moon, n)
<1>1. M!NewReserveSize(moon, on, n) = L!NewReserveSize(moon, on, n)
  BY DEF M!NewReserveSize, L!NewReserveSize, M!MegaLeafCount, L!MegaLeafCount,
         M!RoundLeafSize, L!RoundLeafSize, M!RoundUpTo, L!RoundUpTo
<1>2. M!WindowLeaves(m, len) = L!WindowLeaves(m, len)
  BY DEF M!WindowLeaves, L!WindowLeaves
<1>3. M!MegaLeafCount(moon, n) = L!MegaLeafCount(moon, n)
  BY DEF M!MegaLeafCount, L!MegaLeafCount
<1> QED
  BY <1>1, <1>2, <1>3

-----------------------------------------------------------------------------
(* The theorems.                                                           *)

(* The arithmetic about the leaf at hand, in the words of LeafCases.       *)
LEMMA PlaceFacts ==
  ASSUME ArgsOK
  PROVE  \A r \in Nat :
           /\ Place(r) \in Nat \ {0} /\ r <= Place(r)
           /\ r > 0 => Place(r) < r + leaf
           /\ r <= leaf => Place(r) <= leaf
           /\ Place(Place(r)) = Place(r)
<1>1. \A r : Place(r) = L!PlacementRound(r)
  BY SamePlacement, Zenon DEF Place
<1>2. L!LeafAssumption
  BY LeafHolds
<1> QED
  BY <1>1, <1>2, L!PlacementHolds

(* The smallest ladder rounding that fits a leaf, else whole leaves, holds *)
(* the request and wastes less than a leaf (shim_pack_placement_round).    *)
THEOREM PlacementAlwaysFits == Spec => []PlacementFits
<1>1. ArgsOK => PlacementFits
  BY PlaceFacts DEF ArgsOK, PlacementFits
<1> QED
  BY <1>1, ArgsAlwaysOK, PTL

(* iron_placement_round, frag_alloc_bytes and iron_pack_slots_per_leaf of  *)
(* the harness agree with the shim's own rounding, for every leaf.         *)
THEOREM HarnessAlwaysRoundsAlike == Spec => []HarnessRoundsAlike
<1>1. ASSUME ArgsOK PROVE HarnessRoundsAlike
  <2> DEFINE iron == M!IronPlacementRound(req)
             n == M!IronSlotsPerLeaf(req)
  <2>1. iron = L!IronPlacementRound(req) /\ n = L!IronSlotsPerLeaf(req)
    BY SameIron
  <2>2. M!FragAllocBytes(req) = L!FragAllocBytes(req) /\ M!RoundLeafSize(req) = L!RoundLeafSize(req)
    BY SameRounding
  <2>3. Place(req) = L!PlacementRound(req)
    BY SamePlacement DEF Place
  <2>4. L!LeafAssumption /\ req \in Nat
    BY <1>1, LeafHolds DEF ArgsOK
  <2>5. /\ L!IronPlacementRound(req) = L!PlacementRound(req)
        /\ L!FragAllocBytes(req) = L!RoundLeafSize(req)
        /\ L!PlacementRound(req) <= leaf =>
             /\ L!IronSlotsPerLeaf(req) * L!PlacementRound(req) <= leaf
             /\ leaf < (L!IronSlotsPerLeaf(req) + 1) * L!PlacementRound(req)
    BY <2>4, L!HarnessPlacesAlike
  <2>6. Place(Place(req)) = Place(req)
    BY <1>1, <2>4, PlaceFacts
  <2> QED
    BY <2>1, <2>2, <2>3, <2>5, <2>6 DEF HarnessRoundsAlike
<1> QED
  BY <1>1, ArgsAlwaysOK, PTL

(* A larger request never gets a smaller placement.                        *)
THEOREM PlacementAlwaysMonotone == Spec => PlacementMonotone
<1>1. ASSUME ArgsOK, [Next]_args PROVE [Place(req') >= Place(req)]_args
  <2>1. CASE UNCHANGED args
    BY <2>1
  <2>2. CASE Next
    <3>1. /\ leaf' = leaf /\ floor' = floor
          /\ req \in Nat /\ req' \in Nat /\ req <= req' /\ L!LeafAssumption
      BY <1>1, <2>2, LeafHolds DEF ArgsOK, Next, LargerRequest, NextBand
    <3>2. \A r : Place(r) = L!PlacementRound(r)
      BY SamePlacement, Zenon DEF Place
    <3>3. L!PlacementRound(req) <= L!PlacementRound(req')
      BY <3>1, L!PlacementGrows
    <3>4. Place(req) \in Nat /\ Place(req') \in Nat
      BY <1>1, <3>1, PlaceFacts
    <3> QED
      BY <3>2, <3>3, <3>4
  <2> QED
    BY <1>1, <2>1, <2>2
<1> QED
  BY <1>1, ArgsAlwaysOK, PTL DEF Spec, PlacementMonotone

(* shim_2adic_offset_in_leaf_v1: every band's slice is inside the leaf, and *)
(* different bands never overlap, for leaves of any size.                  *)
THEOREM BandsAlwaysTile == Spec => []BandsTile
<1>1. ASSUME ArgsOK PROVE BandsTile
  <2> DEFINE need == Place(req)
  <2>1. need \in Nat \ {0} /\ band \in Nat /\ L!LeafAssumption
    BY <1>1, PlaceFacts, LeafHolds DEF ArgsOK
  <2>2. \A b : Offset(b, need) = L!OffsetInLeaf(b, need, leaf)
    BY SameBands, Zenon DEF Offset
  <2> HIDE DEF need
  <2>3. \A b \in Nat :
          need <= leaf =>
            /\ L!OffsetInLeaf(band, need, leaf) + need <= leaf
            /\ band % (leaf \div need) # b % (leaf \div need) =>
                 \/ L!OffsetInLeaf(band, need, leaf) + need <= L!OffsetInLeaf(b, need, leaf)
                 \/ L!OffsetInLeaf(b, need, leaf) + need <= L!OffsetInLeaf(band, need, leaf)
    BY <2>1, L!BandsFillLeaf
  <2>4. 0 .. MaxBand \subseteq Nat
    BY CasesAssumption
  <2>5. need <= leaf =>
          /\ Offset(band, need) + need <= leaf
          /\ \A b \in 0 .. MaxBand :
               b % (leaf \div need) # band % (leaf \div need) =>
                 \/ Offset(band, need) + need <= Offset(b, need)
                 \/ Offset(b, need) + need <= Offset(band, need)
    BY <2>1, <2>2, <2>3, <2>4
  <2> QED
    BY <2>5 DEF BandsTile, need
<1> QED
  BY <1>1, ArgsAlwaysOK, PTL

(* shim_pack_k_cap_blocks_reserve_locked: for slices of one size the K-cap *)
(* turns away exactly the slice after the cap-th.                          *)
THEOREM CapAlwaysUniform == Spec => []UniformCap
<1>1. ASSUME ArgsOK PROVE UniformCap
  <2>1. Place(req) \in Nat \ {0} /\ L!LeafAssumption
    BY <1>1, PlaceFacts, LeafHolds DEF ArgsOK
  <2>2. SUFFICES ASSUME NEW cap \in 2 .. 5, NEW n \in 1 .. MaxBand
                 PROVE  M!KCapBlocks(cap, TRUE, n * Place(req), Place(req)) <=> n >= cap
    BY DEF UniformCap
  <2>3. cap \in Nat \ {0, 1} /\ n \in Nat \ {0}
    BY CasesAssumption
  <2>4. L!KCapBlocks(cap, TRUE, n * Place(req), Place(req)) <=> n >= cap
    BY <2>1, <2>3, L!KCapCountsSlices
  <2> QED
    BY <2>4, SameCap, Zenon
<1> QED
  BY <1>1, ArgsAlwaysOK, PTL

(* docs/EVAL_SHIM_KCAP_V1.md:10: no setting takes the cap off the eval     *)
(* build or below 2.                                                       *)
THEOREM EvalAlwaysCapped == Spec => []EvalNeverUncapped
<1>1. ASSUME ArgsOK PROVE EvalNeverUncapped
  <2>1. L!KCapMax(TRUE, req) \in 2 .. 32
    BY <1>1, LeafHolds, L!EvalCapBand DEF ArgsOK
  <2> QED
    BY <2>1, SameCap DEF EvalNeverUncapped
<1> QED
  BY <1>1, ArgsAlwaysOK, PTL

(* shim_pack_new_reserve_size and shim_pack_mega_open: a window is whole   *)
(* leaves and is cut into no more than it holds.                           *)
THEOREM WindowsAlwaysHold == Spec => []WindowsHoldTheirLeaves
<1>1. ASSUME ArgsOK PROVE WindowsHoldTheirLeaves
  <2>1. req \in Nat /\ L!LeafAssumption
    BY <1>1, LeafHolds DEF ArgsOK
  <2>2. SUFFICES ASSUME NEW moon \in {0, req}, NEW n \in {0, 1, 2, 8192, 8193}, NEW on \in BOOLEAN
                 PROVE  LET size == M!NewReserveSize(moon, on, n)
                            cut  == M!WindowLeaves(M!MegaLeafCount(moon, n), size)
                        IN  size % leaf = 0 /\ 0 < cut /\ cut * leaf <= size
    BY DEF WindowsHoldTheirLeaves
  <2>3. moon \in Nat /\ n \in Nat
    BY <2>1
  <2> DEFINE m == L!MegaLeafCount(moon, n)
             len == L!NewReserveSize(moon, on, n)
  <2>4. m \in Nat
    BY <2>3 DEF L!MegaLeafCount
  <2> HIDE DEF m
  <2>5. /\ len % leaf = 0
        /\ 0 < L!WindowLeaves(m, len) /\ L!WindowLeaves(m, len) * leaf <= len
    BY <2>1, <2>3, <2>4, L!WindowsAreWholeLeaves
  <2>6. /\ M!NewReserveSize(moon, on, n) = len /\ M!MegaLeafCount(moon, n) = m
        /\ M!WindowLeaves(m, len) = L!WindowLeaves(m, len)
    BY SameWindows DEF m
  <2> HIDE DEF len
  <2> QED
    BY <2>5, <2>6
<1> QED
  BY <1>1, ArgsAlwaysOK, PTL
=============================================================================
