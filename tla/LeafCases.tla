------------------------------- MODULE LeafCases -------------------------------
(***************************************************************************)
(* The size arithmetic over a range of leaf sizes and ladder floors, odd   *)
(* leaves included (HWATOM_LEAF_BYTES takes any number).  The request and  *)
(* the 2-adic band grow step by step; a state is one set of arguments.     *)
(***************************************************************************)
EXTENDS Naturals

CONSTANTS Leaves, Floors, MaxReq, MaxBand

ASSUME CasesAssumption ==
  /\ Leaves \subseteq Nat \ {0} /\ Floors \subseteq Nat \ {0}
  /\ MaxReq \in Nat /\ MaxBand \in Nat

VARIABLES leaf, floor, req, band

args == <<leaf, floor, req, band>>

(* The arithmetic for the leaf and the floor at hand.                      *)
M == INSTANCE IronMath WITH Leaf <- leaf, LadderFloor <- floor

Place(r) == M!PlacementRound(r)
Offset(b, need) == M!OffsetInLeaf(b, need, leaf)

Init == leaf \in Leaves /\ floor \in Floors /\ req = 0 /\ band = 0

LargerRequest == req < MaxReq /\ req' = req + 1 /\ UNCHANGED <<leaf, floor, band>>
NextBand == band < MaxBand /\ band' = band + 1 /\ UNCHANGED <<leaf, floor, req>>

Next == LargerRequest \/ NextBand

Spec == Init /\ [][Next]_args

-----------------------------------------------------------------------------

(* A placement holds the request, wastes less than a leaf, and stays in    *)
(* one leaf when the request does.                                         *)
PlacementFits ==
  /\ 0 < Place(req) /\ req <= Place(req)
  /\ req > 0 => Place(req) < req + leaf
  /\ req <= leaf => Place(req) <= leaf

(* The iron harness sizes its requests with its own copy of the rounding   *)
(* and the shim rounds them again (iron_gate_v1.c:306): both copies agree  *)
(* on the slice and on the leaves, and rounding twice changes nothing, so  *)
(* the harness frees the very range the shim gave out.                     *)
HarnessRoundsAlike ==
  LET iron == M!IronPlacementRound(req)
  IN  /\ iron = Place(req) /\ Place(iron) = iron
      /\ M!FragAllocBytes(req) = M!RoundLeafSize(req)
      /\ iron <= leaf =>
           LET n == M!IronSlotsPerLeaf(req)
           IN  n * iron <= leaf /\ leaf < (n + 1) * iron

(* A larger request never gets a smaller placement.                        *)
PlacementMonotone == [][Place(req') >= Place(req)]_args

(* Bands put every slice inside the leaf, and two bands that are not equal *)
(* modulo the slots of a leaf never put slices over one another.           *)
BandsTile ==
  LET need == Place(req)
      off  == Offset(band, need)
  IN  need <= leaf =>
        /\ off + need <= leaf
        /\ \A b \in 0 .. MaxBand :
             b % (leaf \div need) # band % (leaf \div need) =>
               off + need <= Offset(b, need) \/ Offset(b, need) + need <= off

(* With slices of one size, stacked from the base, the K-cap test turns    *)
(* the slice away exactly when cap of them are there.                      *)
UniformCap ==
  \A cap \in 2 .. 5, n \in 1 .. MaxBand :
    LET need == Place(req)
    IN  M!KCapBlocks(cap, TRUE, n * need, need) <=> n >= cap

(* docs/EVAL_SHIM_KCAP_V1.md:10: no setting of HWATOM_PACK_K_CAP takes the *)
(* cap off the eval build, or below 2.                                     *)
EvalNeverUncapped == M!KCapMax(TRUE, req) \in 2 .. 32

(* A new window is whole leaves, and is never cut into more leaves than it *)
(* holds, whatever reserve override and leaf count are set.                *)
WindowsHoldTheirLeaves ==
  \A moon \in {0, req}, n \in {0, 1, 2, 8192, 8193}, on \in BOOLEAN :
    LET size == M!NewReserveSize(moon, on, n)
        cut  == M!WindowLeaves(M!MegaLeafCount(moon, n), size)
    IN  size % leaf = 0 /\ 0 < cut /\ cut * leaf <= size
=============================================================================
