------------------------------- MODULE LeafMath -------------------------------
(***************************************************************************)
(* The size arithmetic of the shim: leaf and ladder rounding               *)
(* (shim_leaf_v1.c), placement rounding and the K-cap test                 *)
(* (shim_pack_v1.c), the 2-adic offset motor (shim_2adic_v1.c) and the     *)
(* window sizes read from the environment.                                 *)
(*                                                                         *)
(* Sizes and addresses are natural numbers of an unspecified unit; the     *)
(* code counts bytes.  Leaf is shim_leaf_bytes_v1() (HWATOM_LEAF_BYTES or  *)
(* 2^21) and LadderFloor the constant 2^19 below which the ladder stops    *)
(* halving.                                                                *)
(***************************************************************************)
EXTENDS Naturals, FiniteSetsExt

CONSTANTS Leaf, LadderFloor

ASSUME LeafAssumption == Leaf \in Nat \ {0} /\ LadderFloor \in Nat \ {0}

(* Up to a multiple of unit; the code gives one unit to an empty request.  *)
RoundUpTo(size, unit) ==
  IF size = 0 THEN unit ELSE ((size + unit - 1) \div unit) * unit

RoundLeafSize(size) == RoundUpTo(size, Leaf)

CreateRoundSize(size) == LET r == RoundLeafSize(size) IN IF r < Leaf THEN Leaf ELSE r

HalveUnit(unit) == IF unit > LadderFloor THEN unit \div 2 ELSE unit

(* The unit of a ladder level; levels above 2 count as 2.                  *)
LadderUnit(level) ==
  CASE level = 0 -> Leaf
    [] level = 1 -> HalveUnit(Leaf)
    [] OTHER     -> HalveUnit(HalveUnit(Leaf))

LadderRound(size, level) == RoundUpTo(size, LadderUnit(level))

(* Faulty variant: the r <= leaf test of the ladder loop is lost.          *)
PlacementRoundAnyLevel(req) ==
  Min({r \in {LadderRound(req, lv) : lv \in 1..2} : req <= r})

(* Faulty variant: r > req, so an exact multiple is never good enough.     *)
PlacementRoundStrict(req) ==
  LET fits == {r \in {LadderRound(req, lv) : lv \in 0..2} : req < r /\ r <= Leaf}
  IN  Min(fits \union {RoundLeafSize(req)})

(* The smallest ladder rounding that still fits a leaf, else whole leaves. *)
PlacementRound(req) ==
  LET fits == {r \in {LadderRound(req, lv) : lv \in 0..2} : req <= r /\ r <= Leaf}
  IN  Min(fits \union {RoundLeafSize(req)})

SlotsPerLeaf(need, len) == IF need = 0 \/ len = 0 THEN 1 ELSE len \div need

(* Faulty variant: the mask used for every slot count.                     *)
OffsetInLeafUnbounded(band, need, len) == band * need

(* band & (slots - 1) for a power of two is band % slots as well.          *)
OffsetInLeaf(band, need, len) ==
  LET n     == SlotsPerLeaf(need, len)
      slots == IF n = 0 THEN 1 ELSE n
  IN  (band % slots) * need

(* Faulty variant: one slice more than the cap.                            *)
KCapBlocksLate(cap, active, next, need) ==
  /\ cap # 0 /\ active /\ need # 0
  /\ cap = 1 \/ (next # 0 /\ next \div need > cap)

(* The test of shim_pack_k_cap_blocks_reserve_locked.                      *)
KCapBlocks(cap, active, next, need) ==
  /\ cap # 0 /\ active /\ need # 0
  /\ cap = 1 \/ (next # 0 /\ next \div need >= cap)

(* Faulty variant: the eval build honours the environment as it is.        *)
KCapMaxUnfloored(evalBuild, env) == IF env > 32 THEN 2 ELSE env

(* HWATOM_PACK_K_CAP; env = 0 stands for unset, unparsable and "0...".     *)
KCapMax(evalBuild, env) ==
  LET default == IF evalBuild THEN 2 ELSE 0
  IN  IF env = 0 \/ env > 32 \/ env < default THEN default ELSE env

(* HWATOM_PACK_MEGA_LEAVES; moon geometry makes the count follow the VA.   *)
MegaLeafCount(moonReserve, env) ==
  CASE moonReserve > 0        -> 0
    [] env = 0 \/ env > 8192  -> 32
    [] OTHER                  -> env

(* Faulty variant: the override is used without rounding it to leaves.     *)
NewReserveSizeRaw(moonReserve, megaOn, env) ==
  IF moonReserve > 0 THEN moonReserve
  ELSE IF megaOn THEN MegaLeafCount(0, env) * Leaf ELSE Leaf

(* The size of the next driver reservation (shim_pack_new_reserve_size).   *)
NewReserveSize(moonReserve, megaOn, env) ==
  LET moon == IF moonReserve = 0 THEN 0 ELSE RoundLeafSize(moonReserve)
  IN  CASE moon > 0 -> moon
        [] moon = 0 /\ megaOn  -> MegaLeafCount(moon, env) * Leaf
        [] moon = 0 /\ ~megaOn -> Leaf

(* How many leaves a freshly opened window of length len is cut into.      *)
WindowLeaves(n, len) ==
  LET fit == IF len >= Leaf THEN len \div Leaf ELSE 1
  IN  IF n = 0 \/ n > fit THEN fit ELSE n
=============================================================================
