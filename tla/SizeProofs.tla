------------------------------- MODULE SizeProofs -------------------------------
(***************************************************************************)
(* The size arithmetic of the shim and of the iron harness, for every      *)
(* leaf, ladder floor and request: what a placement holds, how bands tile  *)
(* a leaf, what the K-cap turns away, how a window is cut into leaves,     *)
(* that the harness's copy of the rounding is the shim's, and what the     *)
(* committed bytes of n slots are.                                         *)
(***************************************************************************)
EXTENDS IronMath, WellFoundedInduction, TLAPS

-----------------------------------------------------------------------------
(* The least member of a set of naturals.                                  *)

(* Every set of naturals that is not empty has a least member.             *)
LEMMA LeastNatural ==
  ASSUME NEW S \in SUBSET Nat, S # {}
  PROVE  \E n \in S : \A m \in S : n <= m
<1> DEFINE R == OpToRel(<, Nat)
<1>1. IsWellFoundedOn(R, Nat)
  BY NatLessThanWellFounded, Zenon
<1>2. \A a, b \in Nat : a < b => <<a, b>> \in R
  BY DEF OpToRel
<1> HIDE DEF R
<1>3. PICK n \in S : \A m \in S : ~(<<m, n>> \in R)
  BY <1>1, WFMin, Zenon
<1>4. \A m \in S : ~(m < n)
  BY <1>2, <1>3, Zenon
<1>5. \A m \in S : n <= m
  BY <1>4
<1> QED
  BY <1>5, Zenon

(* Min picks the least member.                                             *)
LEMMA MinMember ==
  ASSUME NEW S \in SUBSET Nat, S # {}
  PROVE  Min(S) \in S /\ \A m \in S : Min(S) <= m
<1>1. \E n \in S : \A m \in S : n <= m
  BY LeastNatural, Zenon
<1> QED
  BY <1>1, Zenon DEF Min

-----------------------------------------------------------------------------
(* Quotients.                                                              *)

LEMMA DivMod ==
  ASSUME NEW a \in Nat, NEW b \in Nat \ {0}
  PROVE  /\ a \div b \in Nat /\ a % b \in Nat
         /\ a = (a \div b) * b + (a % b) /\ a % b < b
  OBVIOUS

LEMMA ProductOrder ==
  ASSUME NEW a \in Nat, NEW b \in Nat, NEW c \in Nat \ {0}
  PROVE  /\ a <= b => a * c <= b * c
         /\ a * c < b * c => a < b
         /\ a * c = b * c => a = b
         /\ a * c \in Nat
  OBVIOUS

LEMMA NextMultiple ==
  ASSUME NEW a \in Nat, NEW c \in Nat
  PROVE  (a + 1) * c = a * c + c
  OBVIOUS

LEMMA DivBelow ==
  ASSUME NEW a \in Nat, NEW b \in Nat \ {0}
  PROVE  a \div b \in Nat /\ (a \div b) * b <= a
  OBVIOUS

LEMMA DivPositive ==
  ASSUME NEW a \in Nat, NEW b \in Nat \ {0}, b <= a
  PROVE  a \div b >= 1
  OBVIOUS

LEMMA ProductPositive ==
  ASSUME NEW a \in Nat, NEW b \in Nat, a >= 1, b >= 1
  PROVE  a * b \in Nat /\ a * b >= 1
  OBVIOUS

LEMMA ProductNat ==
  ASSUME NEW a \in Nat, NEW b \in Nat
  PROVE  a * b \in Nat
  OBVIOUS

LEMMA ProductMonotone ==
  ASSUME NEW a \in Nat, NEW b \in Nat, NEW c \in Nat, a <= b
  PROVE  a * c <= b * c
  OBVIOUS

(* A quotient is known from the multiples on either side of a number.      *)
LEMMA DivUnique ==
  ASSUME NEW a \in Nat, NEW b \in Nat \ {0}, NEW q \in Nat,
         q * b <= a, a < q * b + b
  PROVE  a \div b = q
<1> DEFINE p == a \div b
<1>1. p \in Nat /\ p * b <= a /\ a < p * b + b
  <2>1. a \div b \in Nat /\ a % b \in Nat /\ a = (a \div b) * b + (a % b) /\ a % b < b
    BY DivMod
  <2>2. (a \div b) * b \in Nat
    BY <2>1, ProductOrder
  <2> QED
    BY <2>1, <2>2
<1> HIDE DEF p
<1>2. (p + 1) * b = p * b + b /\ (q + 1) * b = q * b + b
  BY <1>1, NextMultiple
<1>3. p * b < (q + 1) * b /\ q * b < (p + 1) * b
  BY <1>1, <1>2, ProductOrder
<1>4. p < q + 1 /\ q < p + 1
  BY <1>1, <1>3, ProductOrder
<1>5. p = q
  BY <1>1, <1>4
<1> QED
  BY <1>5 DEF p

(* The least number of b's that hold a.                                    *)
LEMMA CeilDiv ==
  ASSUME NEW a \in Nat, NEW b \in Nat \ {0}
  PROVE  LET c == (a + b - 1) \div b
         IN  c \in Nat /\ a <= c * b /\ c * b < a + b
<1> DEFINE c == (a + b - 1) \div b
<1>1. a + b - 1 \in Nat
  OBVIOUS
<1>2. c \in Nat /\ (a + b - 1) % b \in Nat /\ (a + b - 1) % b < b
      /\ a + b - 1 = c * b + ((a + b - 1) % b) /\ c * b \in Nat
  BY <1>1, DivMod, ProductOrder
<1> QED
  BY <1>2

-----------------------------------------------------------------------------
(* Rounding up to a unit.                                                  *)

(* A rounded size holds the request and wastes less than a unit.           *)
LEMMA RoundUpHolds ==
  ASSUME NEW size \in Nat, NEW unit \in Nat \ {0}
  PROVE  /\ RoundUpTo(size, unit) \in Nat \ {0}
         /\ size <= RoundUpTo(size, unit)
         /\ size > 0 => RoundUpTo(size, unit) < size + unit
         /\ \E k \in Nat \ {0} : RoundUpTo(size, unit) = k * unit
<1>1. CASE size = 0
  <2>1. unit = 1 * unit
    OBVIOUS
  <2> QED
    BY <1>1, <2>1 DEF RoundUpTo
<1>2. CASE size # 0
  <2> DEFINE c == (size + unit - 1) \div unit
  <2>1. c \in Nat /\ size <= c * unit /\ c * unit < size + unit
    BY CeilDiv
  <2>2. RoundUpTo(size, unit) = c * unit
    BY <1>2 DEF RoundUpTo
  <2> HIDE DEF c
  <2>3. c * unit \in Nat
    BY <2>1, ProductOrder
  <2>4. c # 0
    BY <1>2, <2>1
  <2> QED
    BY <1>2, <2>1, <2>2, <2>3, <2>4
<1> QED
  BY <1>1, <1>2

(* A rounded size is a positive number, whatever it is rounded to.         *)
LEMMA RoundUpPositive ==
  ASSUME NEW size \in Nat, NEW unit \in Nat \ {0}
  PROVE  RoundUpTo(size, unit) \in Nat \ {0}
  BY RoundUpHolds

(* Rounding is known from the multiple at or above the request.            *)
LEMMA RoundUpUnique ==
  ASSUME NEW size \in Nat \ {0}, NEW unit \in Nat \ {0}, NEW k \in Nat,
         size <= k * unit, k * unit < size + unit
  PROVE  RoundUpTo(size, unit) = k * unit
<1>1. k * unit \in Nat
  BY ProductOrder
<1>2. k * unit <= size + unit - 1 /\ size + unit - 1 < k * unit + unit /\ size + unit - 1 \in Nat
  BY <1>1
<1>3. (size + unit - 1) \div unit = k
  BY <1>2, DivUnique
<1> QED
  BY <1>3 DEF RoundUpTo

(* A multiple is rounded to itself.                                        *)
LEMMA RoundUpStable ==
  ASSUME NEW k \in Nat \ {0}, NEW unit \in Nat \ {0}
  PROVE  RoundUpTo(k * unit, unit) = k * unit
<1>1. k * unit \in Nat \ {0}
  <2>1. 1 * unit <= k * unit /\ k * unit \in Nat
    BY ProductOrder
  <2>2. 1 * unit = unit
    OBVIOUS
  <2> QED
    BY <2>1, <2>2
<1> QED
  BY <1>1, RoundUpUnique

LEMMA RoundUpMonotone ==
  ASSUME NEW a \in Nat, NEW b \in Nat, a <= b, NEW unit \in Nat \ {0}
  PROVE  RoundUpTo(a, unit) <= RoundUpTo(b, unit)
<1>1. PICK j \in Nat \ {0} : RoundUpTo(a, unit) = j * unit
  BY RoundUpHolds
<1>2. PICK k \in Nat \ {0} : RoundUpTo(b, unit) = k * unit
  BY RoundUpHolds
<1>3. CASE a = 0
  <2>1. RoundUpTo(a, unit) = 1 * unit
    BY <1>3 DEF RoundUpTo
  <2>2. 1 * unit <= k * unit
    BY ProductOrder
  <2> QED
    BY <2>1, <2>2, <1>2
<1>4. CASE a # 0
  <2>1. j * unit < a + unit /\ b <= k * unit
    BY <1>1, <1>2, <1>4, RoundUpHolds
  <2>2. (k + 1) * unit = k * unit + unit /\ k * unit \in Nat /\ j * unit \in Nat
    BY NextMultiple, ProductOrder
  <2>3. j * unit < (k + 1) * unit
    BY <2>1, <2>2
  <2>4. j < k + 1
    BY <2>3, ProductOrder
  <2>5. j <= k
    BY <2>4
  <2> QED
    BY <1>1, <1>2, <2>5, ProductOrder
<1> QED
  BY <1>3, <1>4

(* The harness adds a unit where there is a remainder, the shim adds all   *)
(* but one byte of a unit before it divides: the same number.              *)
LEMMA UnitsAreRounded ==
  ASSUME NEW size \in Nat, NEW unit \in Nat \ {0}
  PROVE  IronUnits(size, unit) = RoundUpTo(size, unit)
<1> DEFINE q == size \div unit
<1>1. q \in Nat /\ size % unit \in Nat /\ size = q * unit + (size % unit) /\ size % unit < unit
  BY DivMod
<1>2. IronUnits(size, unit) =
        IF size = 0 THEN unit ELSE IF size % unit = 0 THEN size ELSE (q + 1) * unit
  BY DEF IronUnits
<1> HIDE DEF q
<1>3. q * unit \in Nat /\ (q + 1) * unit = q * unit + unit
  BY <1>1, NextMultiple, ProductOrder
<1>4. CASE size = 0
  BY <1>2, <1>4 DEF RoundUpTo
<1>5. CASE size # 0 /\ size % unit = 0
  <2>1. size = q * unit
    BY <1>1, <1>3, <1>5
  <2>2. size <= q * unit /\ q * unit < size + unit
    BY <2>1
  <2>3. RoundUpTo(size, unit) = q * unit
    BY <1>1, <1>5, <2>2, RoundUpUnique
  <2> QED
    BY <1>2, <1>5, <2>1, <2>3
<1>6. CASE size # 0 /\ size % unit # 0
  <2>1. size <= (q + 1) * unit /\ (q + 1) * unit < size + unit
    BY <1>1, <1>3, <1>6
  <2>2. RoundUpTo(size, unit) = (q + 1) * unit
    <3>1. q + 1 \in Nat /\ size \in Nat \ {0}
      BY <1>1, <1>6
    <3> QED
      BY <2>1, <3>1, RoundUpUnique
  <2> QED
    BY <1>2, <1>6, <2>2
<1> QED
  BY <1>4, <1>5, <1>6

(* Both round a request to whole leaves alike.                             *)
LEMMA LeavesAlike ==
  ASSUME NEW req \in Nat
  PROVE  /\ IronRoundLeaf(req) = RoundLeafSize(req)
         /\ FragAllocBytes(req) = RoundLeafSize(req)
<1>1. IronRoundLeaf(req) = RoundLeafSize(req)
  BY UnitsAreRounded, LeafAssumption DEF IronRoundLeaf, RoundLeafSize
<1>2. CASE req = 0
  <2>1. FragAllocBytes(req) = Leaf
    BY <1>2, LeafAssumption DEF FragAllocBytes
  <2> QED
    BY <1>1, <1>2, <2>1 DEF RoundLeafSize, RoundUpTo
<1>3. CASE req > Leaf
  <2>1. FragAllocBytes(req) = ((req + Leaf - 1) \div Leaf) * Leaf
    BY <1>3, LeafAssumption DEF FragAllocBytes
  <2>2. req # 0
    BY <1>3, LeafAssumption
  <2> QED
    BY <1>1, <2>1, <2>2 DEF RoundLeafSize, RoundUpTo
<1>4. CASE 0 < req /\ req <= Leaf
  <2>1. 1 * Leaf = Leaf
    BY LeafAssumption
  <2>2. req <= 1 * Leaf /\ 1 * Leaf < req + Leaf /\ req \in Nat \ {0}
    BY <1>4, <2>1, LeafAssumption
  <2>3. RoundUpTo(req, Leaf) = 1 * Leaf
    BY <2>2, LeafAssumption, RoundUpUnique
  <2>4. FragAllocBytes(req) = Leaf
    BY <1>4 DEF FragAllocBytes
  <2> QED
    BY <1>1, <2>1, <2>3, <2>4 DEF RoundLeafSize
<1> QED
  BY <1>2, <1>3, <1>4, LeafAssumption

-----------------------------------------------------------------------------
(* Placement.                                                              *)

Roundings(req) == {LadderRound(req, lv) : lv \in 0 .. 2}
Fits(req) == {r \in Roundings(req) : req <= r /\ r <= Leaf}

LEMMA LadderUnits ==
  /\ LadderUnit(0) = Leaf /\ LadderUnit(1) = HalveUnit(Leaf)
  /\ LadderUnit(2) = HalveUnit(HalveUnit(Leaf))
  /\ \A lv \in 0 .. 2 : LadderUnit(lv) \in Nat \ {0}
<1>1. \A unit \in Nat \ {0} : HalveUnit(unit) \in Nat \ {0}
  BY LeafAssumption DEF HalveUnit
<1>2. LadderUnit(0) = Leaf /\ LadderUnit(1) = HalveUnit(Leaf)
      /\ LadderUnit(2) = HalveUnit(HalveUnit(Leaf))
  BY DEF LadderUnit
<1>3. \A lv \in 0 .. 2 : lv = 0 \/ lv = 1 \/ lv = 2
  OBVIOUS
<1> QED
  BY <1>1, <1>2, <1>3, LeafAssumption

(* The placement is the least rounding that fits a leaf, or whole leaves.  *)
LEMMA PlacementLeast ==
  ASSUME NEW req \in Nat
  PROVE  /\ Fits(req) \subseteq Nat \ {0} /\ RoundLeafSize(req) \in Nat \ {0}
         /\ PlacementRound(req) \in Fits(req) \union {RoundLeafSize(req)}
         /\ \A r \in Fits(req) \union {RoundLeafSize(req)} : PlacementRound(req) <= r
<1>1. Roundings(req) \subseteq Nat \ {0}
  BY LadderUnits, RoundUpHolds DEF Roundings, LadderRound
<1>2. RoundLeafSize(req) \in Nat \ {0}
  BY LeafAssumption, RoundUpHolds DEF RoundLeafSize
<1> DEFINE S == Fits(req) \union {RoundLeafSize(req)}
<1>3. S \in SUBSET Nat /\ S # {} /\ Fits(req) \subseteq Nat \ {0}
  BY <1>1, <1>2 DEF Fits
<1>4. PlacementRound(req) = Min(S)
  BY DEF PlacementRound, Fits, Roundings
<1> HIDE DEF S
<1>5. Min(S) \in S /\ \A r \in S : Min(S) <= r
  BY <1>3, MinMember
<1> QED
  BY <1>2, <1>3, <1>4, <1>5 DEF S

(* A placement holds its request, wastes less than a leaf, stays in a leaf *)
(* when the request does, and placing it again changes nothing.            *)
THEOREM PlacementHolds ==
  \A req \in Nat :
    /\ PlacementRound(req) \in Nat \ {0} /\ req <= PlacementRound(req)
    /\ req > 0 => PlacementRound(req) < req + Leaf
    /\ req <= Leaf => PlacementRound(req) <= Leaf
    /\ PlacementRound(PlacementRound(req)) = PlacementRound(req)
<1> TAKE req \in Nat
<1> DEFINE P == PlacementRound(req)
<1>1. /\ P \in Fits(req) \union {RoundLeafSize(req)}
      /\ P <= RoundLeafSize(req) /\ Fits(req) \subseteq Nat \ {0}
      /\ RoundLeafSize(req) \in Nat \ {0}
  BY PlacementLeast
<1>2. /\ req <= RoundLeafSize(req) /\ (req > 0 => RoundLeafSize(req) < req + Leaf)
      /\ \E k \in Nat \ {0} : RoundLeafSize(req) = k * Leaf
  BY LeafAssumption, RoundUpHolds DEF RoundLeafSize
<1>3. P \in Nat \ {0} /\ req <= P /\ (req > 0 => P < req + Leaf)
  BY <1>1, <1>2, LeafAssumption DEF Fits
<1>4. ASSUME req <= Leaf PROVE P <= Leaf
  <2>1. FragAllocBytes(req) = Leaf
    BY <1>4 DEF FragAllocBytes
  <2>2. RoundLeafSize(req) = Leaf
    BY <2>1, LeavesAlike
  <2> QED
    BY <1>1, <2>2, LeafAssumption
<1>5. PlacementRound(P) = P
  <2> HIDE DEF P
  <2>1. P <= PlacementRound(P)
    <3>1. PlacementRound(P) \in Fits(P) \union {RoundLeafSize(P)}
      BY <1>3, PlacementLeast
    <3>2. P <= RoundLeafSize(P)
      BY <1>3, LeafAssumption, RoundUpHolds DEF RoundLeafSize
    <3> QED
      BY <3>1, <3>2 DEF Fits
  <2>2. CASE P \in Fits(req)
    <3>1. PICK lv \in 0 .. 2 : P = LadderRound(req, lv) /\ P <= Leaf
      BY <2>2 DEF Fits, Roundings
    <3>2. PICK k \in Nat \ {0} : P = k * LadderUnit(lv)
      BY <3>1, LadderUnits, RoundUpHolds DEF LadderRound
    <3>3. LadderRound(P, lv) = P
      BY <3>2, LadderUnits, RoundUpStable DEF LadderRound
    <3>4. P \in Fits(P)
      BY <1>3, <3>1, <3>3 DEF Fits, Roundings
    <3>5. PlacementRound(P) <= P
      BY <1>3, <3>4, PlacementLeast
    <3>6. PlacementRound(P) \in Nat
      BY <1>3, PlacementLeast
    <3> QED
      BY <1>3, <2>1, <3>5, <3>6
  <2>3. CASE P = RoundLeafSize(req)
    <3>1. PICK k \in Nat \ {0} : P = k * Leaf
      BY <1>2, <2>3
    <3>2. RoundLeafSize(P) = P
      BY <3>1, LeafAssumption, RoundUpStable DEF RoundLeafSize
    <3>3. PlacementRound(P) <= P
      BY <1>3, <3>2, PlacementLeast
    <3>4. PlacementRound(P) \in Nat
      BY <1>3, PlacementLeast
    <3> QED
      BY <1>3, <2>1, <3>3, <3>4
  <2> QED
    BY <1>1, <2>2, <2>3 DEF P
<1> QED
  BY <1>3, <1>4, <1>5

(* A larger request never gets a smaller placement.                        *)
THEOREM PlacementGrows ==
  \A a, b \in Nat : a <= b => PlacementRound(a) <= PlacementRound(b)
<1> SUFFICES ASSUME NEW a \in Nat, NEW b \in Nat, a <= b
             PROVE  PlacementRound(a) <= PlacementRound(b)
  OBVIOUS
<1>1. PlacementRound(b) \in Fits(b) \union {RoundLeafSize(b)}
  BY PlacementLeast
<1>2. PlacementRound(a) \in Nat \ {0} /\ PlacementRound(b) \in Nat \ {0}
  BY PlacementHolds
<1>3. CASE PlacementRound(b) \in Fits(b)
  <2>1. PICK lv \in 0 .. 2 : PlacementRound(b) = LadderRound(b, lv) /\ PlacementRound(b) <= Leaf
    BY <1>3 DEF Fits, Roundings
  <2>2. LadderRound(a, lv) <= LadderRound(b, lv)
    BY LadderUnits, RoundUpMonotone DEF LadderRound
  <2>3. a <= LadderRound(a, lv) /\ LadderRound(a, lv) \in Nat
    BY LadderUnits, RoundUpHolds DEF LadderRound
  <2>4. LadderRound(a, lv) \in Fits(a)
    BY <1>2, <2>1, <2>2, <2>3, LeafAssumption DEF Fits, Roundings
  <2>5. PlacementRound(a) <= LadderRound(a, lv)
    BY <2>4, PlacementLeast
  <2> QED
    BY <1>2, <2>1, <2>2, <2>3, <2>5
<1>4. CASE PlacementRound(b) = RoundLeafSize(b)
  <2>1. RoundLeafSize(a) <= RoundLeafSize(b) /\ RoundLeafSize(a) \in Nat
    BY LeafAssumption, RoundUpMonotone, RoundUpHolds DEF RoundLeafSize
  <2>2. PlacementRound(a) <= RoundLeafSize(a)
    BY PlacementLeast
  <2> QED
    BY <1>2, <1>4, <2>1, <2>2
<1> QED
  BY <1>1, <1>3, <1>4

(* The harness sizes a slice exactly as the shim does, and its slots fill  *)
(* a leaf but for less than one slot.                                      *)
THEOREM HarnessPlacesAlike ==
  \A req \in Nat :
    /\ IronPlacementRound(req) = PlacementRound(req)
    /\ FragAllocBytes(req) = RoundLeafSize(req)
    /\ IronSlotsPerLeaf(req) \in Nat \ {0}
    /\ PlacementRound(req) <= Leaf =>
         /\ IronSlotsPerLeaf(req) * PlacementRound(req) <= Leaf
         /\ Leaf < (IronSlotsPerLeaf(req) + 1) * PlacementRound(req)
<1> TAKE req \in Nat
<1> DEFINE R == RoundLeafSize(req)
<1> DEFINE r(lv) == LadderRound(req, lv)
<1>1. IronRoundLeaf(req) = R /\ r(0) = R
  BY LeavesAlike, LadderUnits DEF LadderRound, RoundLeafSize
<1>2. \A lv \in 0 .. 2 : r(lv) \in Nat \ {0} /\ req <= r(lv)
  BY LadderUnits, RoundUpHolds DEF LadderRound
<1>3. IronLadderRound(req, 0) = r(0) /\ IronLadderRound(req, 1) = r(1) /\ IronLadderRound(req, 2) = r(2)
  <2>1. \A unit : IronHalve(unit) = HalveUnit(unit)
    BY DEF IronHalve, HalveUnit
  <2>2. /\ IronLadderRound(req, 0) = IronUnits(req, LadderUnit(0))
        /\ IronLadderRound(req, 1) = IronUnits(req, LadderUnit(1))
        /\ IronLadderRound(req, 2) = IronUnits(req, LadderUnit(2))
    BY <2>1, LadderUnits DEF IronLadderRound
  <2> QED
    BY <2>2, LadderUnits, UnitsAreRounded DEF LadderRound
<1> DEFINE better(best, lv) == IF r(lv) <= Leaf /\ r(lv) < best THEN r(lv) ELSE best
<1> DEFINE P == better(better(better(R, 0), 1), 2)
<1>4. IronPlacementRound(req) = P
  BY <1>1, <1>2, <1>3 DEF IronPlacementRound
<1>5. Fits(req) \union {R} = {x \in {r(0), r(1), r(2)} : x <= Leaf} \union {R}
  <2>1. Roundings(req) = {r(0), r(1), r(2)}
    BY DEF Roundings
  <2> QED
    BY <1>2, <2>1 DEF Fits
<1>6. P \in Fits(req) \union {R} /\ \A x \in Fits(req) \union {R} : P <= x
  <2> HIDE DEF R, r
  <2>1. R \in Nat /\ r(0) \in Nat /\ r(1) \in Nat /\ r(2) \in Nat
    BY <1>1, <1>2
  <2> QED
    BY <1>5, <2>1, LeafAssumption
<1>7. IronPlacementRound(req) = PlacementRound(req)
  <2> HIDE DEF P, R
  <2>1. PlacementRound(req) \in Fits(req) \union {R}
        /\ \A x \in Fits(req) \union {R} : PlacementRound(req) <= x
        /\ Fits(req) \union {R} \subseteq Nat
    BY PlacementLeast DEF R
  <2> QED
    BY <1>4, <1>6, <2>1
<1>8. /\ PlacementRound(req) \in Nat \ {0}
      /\ FragAllocBytes(req) = RoundLeafSize(req)
  BY PlacementHolds, LeavesAlike
<1> DEFINE p == PlacementRound(req)
<1> HIDE DEF p
<1>9. CASE p <= Leaf
  <2>1. IronSlotsPerLeaf(req) = Leaf \div p
    BY <1>7, <1>8, <1>9, LeafAssumption DEF IronSlotsPerLeaf, p
  <2> DEFINE n == Leaf \div p
  <2>2. n \in Nat /\ n * p <= Leaf /\ Leaf < n * p + p
    <3>1. p \in Nat \ {0} /\ Leaf \in Nat
      BY <1>8, LeafAssumption DEF p
    <3>2. n \in Nat /\ Leaf % p \in Nat /\ Leaf = n * p + (Leaf % p) /\ Leaf % p < p
      BY <3>1, DivMod
    <3> HIDE DEF n
    <3>3. n * p \in Nat
      BY <3>1, <3>2, ProductOrder
    <3> QED
      BY <3>1, <3>2, <3>3
  <2> HIDE DEF n
  <2>3. (n + 1) * p = n * p + p
    BY <1>8, <2>2, NextMultiple DEF p
  <2>4. n # 0
    <3>1. p \in Nat \ {0} /\ 0 * p = 0
      BY <1>8 DEF p
    <3>2. SUFFICES ASSUME n = 0 PROVE FALSE
      OBVIOUS
    <3>3. n * p = 0
      BY <3>1, <3>2
    <3> QED
      BY <1>9, <2>2, <3>1, <3>3, LeafAssumption
  <2> QED
    BY <1>7, <1>8, <2>1, <2>2, <2>3, <2>4 DEF p, n
<1>10. CASE ~(p <= Leaf)
  BY <1>7, <1>8, <1>10, LeafAssumption DEF IronSlotsPerLeaf, p
<1> QED
  BY <1>9, <1>10, <1>7 DEF p

(* A placement is a positive number.                                       *)
LEMMA PlacementPositive ==
  ASSUME NEW req \in Nat
  PROVE  PlacementRound(req) \in Nat \ {0}
  BY PlacementHolds

-----------------------------------------------------------------------------
(* Bands, the K-cap and windows.                                           *)

(* The 2-adic offset is a number.                                          *)
LEMMA OffsetNat ==
  ASSUME NEW band \in Nat, NEW need \in Nat \ {0}, NEW len \in Nat
  PROVE  OffsetInLeaf(band, need, len) \in Nat
<1> DEFINE n == SlotsPerLeaf(need, len)
<1> DEFINE count == IF n = 0 THEN 1 ELSE n
<1>1. n \in Nat
  BY DivBelow DEF SlotsPerLeaf
<1> HIDE DEF n
<1>2. count \in Nat \ {0}
  BY <1>1
<1> HIDE DEF count
<1>3. band % count \in Nat
  BY <1>2
<1> DEFINE m == band % count
<1> HIDE DEF m
<1>4. m * need \in Nat
  BY <1>3, ProductNat DEF m
<1> QED
  BY <1>4 DEF OffsetInLeaf, count, n, m

(* A slice of a band starts a whole number of slices into the leaf.        *)
LEMMA BandStart ==
  ASSUME NEW band \in Nat, NEW need \in Nat \ {0}, need <= Leaf
  PROVE  \E i \in Nat :
           /\ i = band % (Leaf \div need)
           /\ OffsetInLeaf(band, need, Leaf) = i * need
           /\ (i + 1) * need <= Leaf
<1> DEFINE k == Leaf \div need
<1>1. k \in Nat /\ k >= 1 /\ k * need <= Leaf
  BY DivBelow, DivPositive, LeafAssumption
<1>2. OffsetInLeaf(band, need, Leaf) = (band % k) * need
  BY <1>1, LeafAssumption DEF OffsetInLeaf, SlotsPerLeaf
<1> HIDE DEF k
<1> DEFINE i == band % k
<1>3. i \in Nat /\ i + 1 <= k
  BY <1>1
<1>4. OffsetInLeaf(band, need, Leaf) = i * need
  BY <1>2
<1> HIDE DEF i
<1>5. (i + 1) * need <= k * need /\ (i + 1) * need \in Nat /\ k * need \in Nat
  BY <1>1, <1>3, ProductOrder
<1>6. (i + 1) * need <= Leaf
  BY <1>1, <1>5, LeafAssumption
<1> QED
  BY <1>3, <1>4, <1>6 DEF i, k

(* Every band puts its slice inside the leaf, whatever the leaf and the    *)
(* slice, and two bands that differ modulo the slots of a leaf put theirs  *)
(* side by side (shim_2adic_offset_in_leaf_v1).                            *)
THEOREM BandsFillLeaf ==
  \A a, b \in Nat, need \in Nat \ {0} :
    need <= Leaf =>
      /\ OffsetInLeaf(a, need, Leaf) + need <= Leaf
      /\ a % (Leaf \div need) # b % (Leaf \div need) =>
           \/ OffsetInLeaf(a, need, Leaf) + need <= OffsetInLeaf(b, need, Leaf)
           \/ OffsetInLeaf(b, need, Leaf) + need <= OffsetInLeaf(a, need, Leaf)
<1> SUFFICES ASSUME NEW a \in Nat, NEW b \in Nat, NEW need \in Nat \ {0}, need <= Leaf
             PROVE  /\ OffsetInLeaf(a, need, Leaf) + need <= Leaf
                    /\ a % (Leaf \div need) # b % (Leaf \div need) =>
                         \/ OffsetInLeaf(a, need, Leaf) + need <= OffsetInLeaf(b, need, Leaf)
                         \/ OffsetInLeaf(b, need, Leaf) + need <= OffsetInLeaf(a, need, Leaf)
  OBVIOUS
<1>1. PICK i \in Nat : /\ i = a % (Leaf \div need)
                       /\ OffsetInLeaf(a, need, Leaf) = i * need
                       /\ (i + 1) * need <= Leaf
  BY BandStart
<1>2. PICK j \in Nat : /\ j = b % (Leaf \div need)
                       /\ OffsetInLeaf(b, need, Leaf) = j * need
                       /\ (j + 1) * need <= Leaf
  BY BandStart
<1>3. (i + 1) * need = i * need + need /\ (j + 1) * need = j * need + need
  BY NextMultiple
<1>4. i < j => (i + 1) * need <= j * need
  BY ProductOrder
<1>5. j < i => (j + 1) * need <= i * need
  BY ProductOrder
<1>6. i # j => i < j \/ j < i
  OBVIOUS
<1> QED
  BY <1>1, <1>2, <1>3, <1>4, <1>5, <1>6

(* A multiple divided by its unit leaves nothing.                          *)
LEMMA MultipleDivides ==
  ASSUME NEW n \in Nat, NEW unit \in Nat \ {0}
  PROVE  (n * unit) \div unit = n /\ (n * unit) % unit = 0
<1>1. n * unit \in Nat
  BY ProductOrder
<1>2. (n * unit) \div unit = n
  BY <1>1, DivUnique
<1>3. n * unit = ((n * unit) \div unit) * unit + ((n * unit) % unit) /\ (n * unit) % unit \in Nat
  BY <1>1, DivMod
<1> QED
  BY <1>1, <1>2, <1>3

(* With slices of one size, stacked from the base, the K-cap test turns    *)
(* the slice away exactly when cap of them are there, for every cap of at  *)
(* least 2 (shim_pack_k_cap_blocks_reserve_locked).                        *)
THEOREM KCapCountsSlices ==
  \A cap \in Nat \ {0, 1}, n, need \in Nat \ {0} :
    KCapBlocks(cap, TRUE, n * need, need) <=> n >= cap
<1> SUFFICES ASSUME NEW cap \in Nat \ {0, 1}, NEW n \in Nat \ {0}, NEW need \in Nat \ {0}
             PROVE  KCapBlocks(cap, TRUE, n * need, need) <=> n >= cap
  OBVIOUS
<1>1. n * need \in Nat /\ n * need >= 1
  BY ProductPositive
<1>2. (n * need) \div need = n
  BY MultipleDivides
<1> QED
  BY <1>1, <1>2 DEF KCapBlocks

(* The eval build is never without a cap, or below 2 (KCapMax).            *)
LEMMA EvalCapBand == \A env \in Nat : KCapMax(TRUE, env) \in 2 .. 32
  BY DEF KCapMax

(* A window of at least a leaf is cut into at least one leaf, and never    *)
(* into more than it holds.                                                *)
LEMMA WindowHoldsItsLeaves ==
  ASSUME NEW n \in Nat, NEW len \in Nat, Leaf <= len
  PROVE  /\ WindowLeaves(n, len) \in Nat
         /\ 1 <= WindowLeaves(n, len)
         /\ WindowLeaves(n, len) * Leaf <= len
<1> DEFINE fit == len \div Leaf
<1>1. fit \in Nat /\ fit >= 1 /\ fit * Leaf <= len
  BY DivBelow, DivPositive, LeafAssumption
<1>2. WindowLeaves(n, len) = IF n = 0 \/ n > fit THEN fit ELSE n
  BY DEF WindowLeaves
<1> HIDE DEF fit
<1> DEFINE w == WindowLeaves(n, len)
<1>3. w \in Nat /\ 1 <= w /\ w <= fit
  BY <1>1, <1>2
<1> HIDE DEF w
<1>4. w * Leaf <= fit * Leaf /\ w * Leaf \in Nat /\ fit * Leaf \in Nat
  BY <1>1, <1>3, ProductMonotone, ProductNat, LeafAssumption
<1> QED
  BY <1>1, <1>3, <1>4 DEF w

(* A new window is whole leaves and is cut into no more leaves than it     *)
(* holds, whatever reserve override and leaf count are set                 *)
(* (shim_pack_new_reserve_size, shim_pack_mega_open).                      *)
THEOREM WindowsAreWholeLeaves ==
  \A moon, n, m \in Nat : \A on \in BOOLEAN :
    LET size == NewReserveSize(moon, on, n)
    IN  /\ size % Leaf = 0
        /\ 0 < WindowLeaves(m, size) /\ WindowLeaves(m, size) * Leaf <= size
<1> SUFFICES ASSUME NEW moon \in Nat, NEW n \in Nat, NEW m \in Nat, NEW on \in BOOLEAN
             PROVE  LET size == NewReserveSize(moon, on, n)
                    IN  /\ size % Leaf = 0
                        /\ 0 < WindowLeaves(m, size) /\ WindowLeaves(m, size) * Leaf <= size
  BY Zenon
<1> DEFINE size == NewReserveSize(moon, on, n)
<1>1. \E j \in Nat \ {0} : size = j * Leaf
  <2>1. CASE moon # 0
    <3>1. PICK j \in Nat \ {0} : RoundLeafSize(moon) = j * Leaf
      BY LeafAssumption, RoundUpHolds DEF RoundLeafSize
    <3>2. RoundLeafSize(moon) \in Nat \ {0}
      BY LeafAssumption, RoundUpHolds DEF RoundLeafSize
    <3>3. size = RoundLeafSize(moon)
      BY <2>1, <3>2 DEF NewReserveSize
    <3> QED
      BY <3>1, <3>3
  <2>2. CASE moon = 0 /\ on = TRUE
    <3>1. MegaLeafCount(0, n) \in Nat \ {0}
      BY DEF MegaLeafCount
    <3>2. size = MegaLeafCount(0, n) * Leaf
      BY <2>2 DEF NewReserveSize
    <3> QED
      BY <3>1, <3>2
  <2>3. CASE moon = 0 /\ on = FALSE
    <3>1. size = Leaf /\ Leaf = 1 * Leaf
      BY <2>3, LeafAssumption DEF NewReserveSize
    <3> QED
      BY <3>1
  <2> QED
    BY <2>1, <2>2, <2>3
<1> HIDE DEF size
<1>2. PICK j \in Nat \ {0} : size = j * Leaf
  BY <1>1
<1>3. size % Leaf = 0
  BY <1>2, LeafAssumption, MultipleDivides
<1>4. size \in Nat /\ Leaf <= size
  <2>1. 1 * Leaf <= j * Leaf /\ j * Leaf \in Nat /\ 1 * Leaf = Leaf
    BY LeafAssumption, ProductOrder
  <2> QED
    BY <1>2, <2>1
<1>5. WindowLeaves(m, size) \in Nat /\ 1 <= WindowLeaves(m, size) /\ WindowLeaves(m, size) * Leaf <= size
  BY <1>4, WindowHoldsItsLeaves
<1> QED
  BY <1>3, <1>5 DEF size

-----------------------------------------------------------------------------
(* Committed bytes.                                                        *)

(* As many leaves as slots are enough, and more slots need no fewer.       *)
LEMMA CeilGrows ==
  ASSUME NEW a \in Nat, NEW b \in Nat, a <= b, NEW k \in Nat \ {0}
  PROVE  /\ (a + k - 1) \div k <= (b + k - 1) \div k
         /\ (a + k - 1) \div k <= a
<1> DEFINE c == (a + k - 1) \div k
<1> DEFINE d == (b + k - 1) \div k
<1>1. c \in Nat /\ a <= c * k /\ c * k < a + k /\ d \in Nat /\ b <= d * k /\ d * k < b + k
  BY CeilDiv
<1> HIDE DEF c, d
<1>2. c * k \in Nat /\ d * k \in Nat /\ (d + 1) * k = d * k + k /\ (a + 1) * k = a * k + k
  BY <1>1, NextMultiple, ProductOrder
<1>3. a * 1 <= a * k /\ a * k \in Nat
  <2>1. a * 1 = 1 * a /\ a * k = k * a
    OBVIOUS
  <2>2. a = 0 => a * k = 0
    OBVIOUS
  <2>3. a # 0 => 1 * a <= k * a /\ k * a \in Nat
    BY ProductOrder
  <2> QED
    BY <2>1, <2>2, <2>3
<1>4. c * k < (d + 1) * k /\ c * k < (a + 1) * k
  BY <1>1, <1>2, <1>3
<1>5. c < d + 1 /\ c < a + 1
  BY <1>1, <1>4, ProductOrder
<1> QED
  BY <1>1, <1>5 DEF c, d

(* With k slots to a leaf the shim commits no more than one leaf to a slot *)
(* and no less than a k-th of it.                                          *)
THEOREM CommittedWithinBand ==
  ASSUME NEW n \in Nat, NEW k \in Nat \ {0}
  PROVE  /\ IsoCommitted(TRUE, k, n) \in Nat /\ IsoCommitted(FALSE, k, n) \in Nat
         /\ IsoCommitted(TRUE, k, n) <= IsoCommitted(FALSE, k, n)
         /\ IsoCommitted(FALSE, k, n) <= k * IsoCommitted(TRUE, k, n)
<1> DEFINE c == (n + k - 1) \div k
<1>1. c \in Nat /\ n <= c * k /\ c <= n
  BY CeilDiv, CeilGrows
<1>2. IsoCommitted(TRUE, k, n) = c * Leaf /\ IsoCommitted(FALSE, k, n) = n * Leaf
  BY DEF IsoCommitted
<1> HIDE DEF c
<1>3. c * Leaf <= n * Leaf /\ c * Leaf \in Nat /\ n * Leaf \in Nat
  BY <1>1, LeafAssumption, ProductOrder
<1>4. c * k \in Nat
  BY <1>1, ProductOrder
<1>5. n * Leaf <= (c * k) * Leaf
  BY <1>1, <1>4, LeafAssumption, ProductOrder
<1>6. (c * k) * Leaf = k * (c * Leaf)
  BY <1>1, LeafAssumption
<1> QED
  BY <1>2, <1>3, <1>5, <1>6
=============================================================================
