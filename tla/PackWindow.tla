------------------------------ MODULE PackWindow ------------------------------
(***************************************************************************)
(* PackArena with a history variable: charged is the set of address ranges *)
(* the packing code has accounted to logical slices since it last opened a *)
(* window.  TryReserve charges the range it grants, BumpUsage the range it *)
(* adds for a slice that sits at the arena's base.                         *)
(***************************************************************************)
EXTENDS PackArena, FiniteSets

VARIABLE charged

windowVars == <<packVars, charged>>

(* nth tells two charges of one and the same range apart.                  *)
Span(lo, len) == [lo |-> lo, hi |-> lo + len, nth |-> Cardinality(charged)]

GrantedRange(req) == Span(arena.base + TryOffset(req), PlacementRound(req))
BumpedRange(req) == Span(arena.base + arena.next, PlacementRound(req))

WindowInit == PackInit /\ charged = {}

(* A new window, or none: what was charged in the old one is forgotten.    *)
NewWindow ==
  /\ \/ PackReset
     \/ PackFlush
     \/ \E base \in Va \ {NoVa}, len \in WindowSizes : MegaOpen(base, len)
     \/ \E va \in Va \ {NoVa}, len \in CommitSizes, h \in Handle \ {NoHandle} :
          committed + len <= MaxCommitted /\ OpenArenaFresh(va, len, h)
  /\ charged' = {}

SameWindow ==
  /\ \/ TakeMegaLeaf
     \/ \E va \in Va \ {NoVa}, len \in CommitSizes, h \in Handle \ {NoHandle} :
          committed + len <= MaxCommitted /\ OpenArenaAtBase(va, len, h)
     \/ handleRefs < MaxRefs /\ RetainHandle
     \/ \E h \in Handle \ {NoHandle} : ReleaseRef(h)
  /\ UNCHANGED charged

ChargeGrant(req) ==
  /\ TryReserve(req)
  /\ charged' = charged \union {GrantedRange(req)}

ChargeBump(req) ==
  /\ BumpUsage(req)
  /\ charged' = IF BumpFits(req) THEN charged \union {BumpedRange(req)} ELSE charged

WindowNext ==
  \/ NewWindow
  \/ SameWindow
  \/ \E req \in Size \ {0} : ChargeGrant(req) \/ ChargeBump(req)

WindowSpec == WindowInit /\ [][WindowNext]_windowVars

-----------------------------------------------------------------------------

Overlap(a, b) == a.lo < b.hi /\ b.lo < a.hi

(* Within one window no address is ever charged to two slices: the stack   *)
(* of slices, the 2-adic start and the walk over the mega leaves never     *)
(* come back to a range already handed out.                                *)
ChargesDisjoint == \A a, b \in charged : a # b => ~Overlap(a, b)

(* The leaves cut from the window so far, and the end of the driver's      *)
(* reservation; without a window the arena is both.                        *)
LeavesTaken ==
  IF mega.active THEN {mega.base + k * Leaf : k \in 0 .. mega.used - 1} ELSE {arena.base}
WindowEnd == IF mega.active THEN mega.base + mega.len ELSE ArenaEnd

(* Every charged range lies within one leaf cut from the window, below the *)
(* fill level of the leaf now open, and inside the driver's reservation:   *)
(* no slice straddles two leaves, and none was cut past what is reserved.  *)
ChargesContained ==
  \A c \in charged :
    /\ c.lo < c.hi /\ arena.active
    /\ \E leaf \in LeavesTaken : leaf <= c.lo /\ c.hi <= leaf + arena.len
    /\ c.hi <= arena.base + arena.next
    /\ c.hi <= WindowEnd

ChargesInLeaf == {c \in charged : arena.base <= c.lo /\ c.lo < ArenaEnd}

(* shim_pack_v1.c:99 and docs/EVAL_SHIM_KCAP_V1.md:10, "max 2 slots": with  *)
(* a K-cap, no reserve is served from a leaf that holds that many slots.   *)
LeafWithinKCap ==
  [][\A req \in Size \ {0} : KCap > 0 /\ ChargeGrant(req)
       => Cardinality(ChargesInLeaf) < KCap]_windowVars
=============================================================================
