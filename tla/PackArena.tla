------------------------------- MODULE PackArena -------------------------------
(***************************************************************************)
(* The packing arena and the mega window of shim_pack_v1.c with the band   *)
(* counter of shim_2adic_v1.c.                                             *)
(*                                                                         *)
(* The arena is the one leaf new logical slices are placed in; the mega    *)
(* window is the driver reservation its leaves are cut from.  A grant of   *)
(* TryReserve or TakeMegaLeaf is an address the shim returns to the client *)
(* without asking the driver.  Every helper but shim_pack_reset takes      *)
(* g_map_epoch_mu, so each is one action, in any order and by any thread.  *)
(*                                                                         *)
(* Left out: logical_bytes (added to, never read).                         *)
(***************************************************************************)
EXTENDS DriverTypes, LeafMath

CONSTANTS
  KCap,        \* shim_pack_k_cap_max_v1(): slots per leaf, 0 = unlimited
  TwoAdic,     \* shim_2adic_enabled_v1()
  MegaOn,      \* shim_pack_mega_enabled_v1()
  MegaLeaves,  \* shim_pack_mega_leaf_count(): 0 = as many as the window holds
  BandMod,     \* modulus of the unsigned band counter, 2^32 in the code
  MaxCommitted, MaxRefs  \* bounds of PackNext on the two counters that only grow

ASSUME PackAssumption ==
  /\ KCap \in Nat /\ MegaLeaves \in Nat /\ BandMod \in Nat \ {0}
  /\ TwoAdic \in BOOLEAN /\ MegaOn \in BOOLEAN
  /\ MaxCommitted \in Nat /\ MaxRefs \in Nat

VARIABLES
  arena,       \* g_pack_arena
  mega,        \* g_mega
  committed,   \* g_pack_committed_total
  peak,        \* g_pack_committed_peak
  handleRefs,  \* g_pack_handle_refs
  bandSeq      \* g_2adic_band_seq

packVars == <<arena, mega, committed, peak, handleRefs, bandSeq>>

NoArena == [active |-> FALSE, base |-> NoVa, len |-> 0, handle |-> NoHandle, next |-> 0]
NoMega == [active |-> FALSE, base |-> NoVa, len |-> 0, leaves |-> 0, used |-> 0]

FreshArena(base, len) ==
  [active |-> TRUE, base |-> base, len |-> len, handle |-> NoHandle, next |-> 0]

ArenaEnd == arena.base + arena.len

-----------------------------------------------------------------------------
(* What the helpers compute.                                               *)

(* Faulty variant: the arena's base counts as a slice inside it.           *)
PackedSubVaInclusive(va) == arena.active /\ arena.base <= va /\ va < ArenaEnd

(* shim_pack_is_packed_subva_locked.  Inside the mega window and outside   *)
(* it the code tests the same range.                                       *)
PackedSubVa(va) == arena.active /\ arena.base < va /\ va < ArenaEnd

MapOffsetOf(va) ==
  IF arena.active /\ arena.base <= va /\ va < ArenaEnd THEN va - arena.base ELSE 0

(* Faulty variant: the slice that would fill the leaf is turned away.      *)
TryFitsStrict(req) ==
  LET need == PlacementRound(req)
  IN  /\ req # 0 /\ need <= Leaf
      /\ ~KCapBlocks(KCap, arena.active, arena.next, need)
      /\ arena.active /\ arena.next + need < arena.len

(* A logical request that shim_pack_try_reserve serves from the arena.     *)
TryFits(req) ==
  LET need == PlacementRound(req)
  IN  /\ req # 0 /\ need <= Leaf
      /\ ~KCapBlocks(KCap, arena.active, arena.next, need)
      /\ arena.active /\ arena.next + need <= arena.len

(* Only an empty arena follows the 2-adic band; then the slices just stack. *)
TryOffset(req) ==
  LET need == PlacementRound(req)
      off  == OffsetInLeaf(bandSeq, need, arena.len)
  IN  IF TwoAdic /\ arena.next = 0
      THEN IF off + need > arena.len THEN 0 ELSE off
      ELSE arena.next

MegaHasLeaf ==
  /\ MegaOn /\ mega.active /\ mega.used < mega.leaves
  /\ (mega.used + 1) * Leaf <= mega.len

(* Faulty variant: leaf_used is advanced before the leaf is addressed.     *)
NextLeafBaseAdvanced == mega.base + (mega.used + 1) * Leaf

NextLeafBase == mega.base + mega.used * Leaf

-----------------------------------------------------------------------------
(* The helpers.                                                            *)

PackInit ==
  /\ arena = NoArena
  /\ mega = NoMega
  /\ committed = 0
  /\ peak = 0
  /\ handleRefs = 0
  /\ bandSeq = 0

(* shim_pack_reset; shim_driver_reset_v1 calls it right after PackFlush.   *)
PackReset ==
  /\ arena' = NoArena
  /\ mega' = NoMega
  /\ committed' = 0
  /\ peak' = 0
  /\ handleRefs' = 0
  /\ UNCHANGED bandSeq

(* The committed counters and the reference count survive a flush.         *)
PackFlush ==
  /\ arena' = NoArena
  /\ mega' = NoMega
  /\ bandSeq' = 0
  /\ UNCHANGED <<committed, peak, handleRefs>>

MegaOpen(base, len) ==
  /\ mega' = [active |-> TRUE, base |-> base, len |-> len,
              leaves |-> WindowLeaves(MegaLeaves, len), used |-> 1]
  /\ arena' = FreshArena(base, Leaf)
  /\ UNCHANGED <<committed, peak, handleRefs, bandSeq>>

(* Faulty variant: leaf_used is not advanced.                              *)
TakeMegaLeafAgain ==
  /\ MegaHasLeaf
  /\ arena' = FreshArena(NextLeafBase, Leaf)
  /\ UNCHANGED <<mega, committed, peak, handleRefs, bandSeq>>

TakeMegaLeaf ==
  /\ MegaHasLeaf
  /\ mega' = [mega EXCEPT !.used = @ + 1]
  /\ arena' = FreshArena(NextLeafBase, Leaf)
  /\ UNCHANGED <<committed, peak, handleRefs, bandSeq>>

(* Faulty variant: after a 2-adic start only the slice's size is counted.  *)
TryReserveUnshifted(req) ==
  /\ TryFits(req)
  /\ arena' = [arena EXCEPT !.next = @ + PlacementRound(req)]
  /\ bandSeq' = IF TwoAdic THEN (bandSeq + 1) % BandMod ELSE bandSeq
  /\ UNCHANGED <<mega, committed, peak, handleRefs>>

(* Faulty variant: the fill level stays where it was.                      *)
TryReserveUncharged(req) ==
  /\ TryFits(req)
  /\ bandSeq' = IF TwoAdic THEN (bandSeq + 1) % BandMod ELSE bandSeq
  /\ UNCHANGED <<arena, mega, committed, peak, handleRefs>>

TryReserve(req) ==
  /\ TryFits(req)
  /\ arena' = [arena EXCEPT !.next = TryOffset(req) + PlacementRound(req)]
  /\ bandSeq' = IF TwoAdic THEN (bandSeq + 1) % BandMod ELSE bandSeq
  /\ UNCHANGED <<mega, committed, peak, handleRefs>>

NoteCommitted(len) ==
  /\ committed' = committed + len
  /\ peak' = IF committed' > peak THEN committed' ELSE peak

(* Faulty variant: the leaves of a mega window are not counted.            *)
OpenArenaAtBaseUncounted(va, len, h) ==
  /\ arena.active /\ arena.base = va /\ arena.handle = NoHandle
  /\ arena' = [arena EXCEPT !.handle = h]
  /\ handleRefs' = 1
  /\ UNCHANGED <<mega, committed, peak, bandSeq>>

(* shim_pack_open_arena at the base of the leaf just opened.               *)
OpenArenaAtBase(va, len, h) ==
  /\ arena.active /\ arena.base = va /\ arena.handle = NoHandle
  /\ arena' = [arena EXCEPT !.handle = h]
  /\ NoteCommitted(len)
  /\ handleRefs' = 1
  /\ UNCHANGED <<mega, bandSeq>>

(* Faulty variant: the mega window is kept when the arena moves away.      *)
OpenArenaFreshKeepsMega(va, len, h) ==
  /\ ~(arena.active /\ arena.base = va /\ arena.handle = NoHandle)
  /\ arena' = [FreshArena(va, len) EXCEPT !.handle = h]
  /\ NoteCommitted(len)
  /\ handleRefs' = 1
  /\ UNCHANGED <<mega, bandSeq>>

(* shim_pack_open_arena anywhere else: the old arena and window are gone.  *)
OpenArenaFresh(va, len, h) ==
  /\ ~(arena.active /\ arena.base = va /\ arena.handle = NoHandle)
  /\ arena' = [FreshArena(va, len) EXCEPT !.handle = h]
  /\ mega' = NoMega
  /\ bandSeq' = 0
  /\ NoteCommitted(len)
  /\ handleRefs' = 1

OpenArena(va, len, h) == OpenArenaAtBase(va, len, h) \/ OpenArenaFresh(va, len, h)

RetainHandle ==
  /\ handleRefs' = IF arena.active /\ handleRefs > 0 THEN handleRefs + 1 ELSE handleRefs
  /\ UNCHANGED <<arena, mega, committed, peak, bandSeq>>

(* shim_pack_release_ref answers "defer the real release" when references  *)
(* remain.                                                                 *)
RefHeld(h) == arena.active /\ arena.handle = h /\ handleRefs > 0
DefersRelease(h) == RefHeld(h) /\ handleRefs > 1

(* Faulty variant: the count is taken down without a look at it.           *)
ReleaseRefUnguarded(h) ==
  /\ handleRefs' = IF arena.active /\ arena.handle = h THEN handleRefs - 1 ELSE handleRefs
  /\ UNCHANGED <<arena, mega, committed, peak, bandSeq>>

ReleaseRef(h) ==
  /\ handleRefs' = IF RefHeld(h) THEN handleRefs - 1 ELSE handleRefs
  /\ UNCHANGED <<arena, mega, committed, peak, bandSeq>>

BumpFits(req) ==
  LET need == PlacementRound(req)
  IN  arena.active /\ need > 0 /\ arena.next + need <= arena.len

(* Faulty variant: the room left in the leaf is not tested.                *)
BumpUsageUnchecked(req) ==
  /\ arena' = IF arena.active
              THEN [arena EXCEPT !.next = @ + PlacementRound(req)] ELSE arena
  /\ UNCHANGED <<mega, committed, peak, handleRefs, bandSeq>>

BumpUsage(req) ==
  /\ arena' = IF BumpFits(req)
              THEN [arena EXCEPT !.next = @ + PlacementRound(req)] ELSE arena
  /\ UNCHANGED <<mega, committed, peak, handleRefs, bandSeq>>

(* Windows are at least a leaf long, physical allocations whole leaves.    *)
WindowSizes == {len \in Size : len >= Leaf}
CommitSizes == {len \in Size : len >= Leaf /\ len % Leaf = 0}

PackNext ==
  \/ PackReset
  \/ PackFlush
  \/ \E base \in Va \ {NoVa}, len \in WindowSizes : MegaOpen(base, len)
  \/ TakeMegaLeaf
  \/ \E req \in Size : TryReserve(req)
  \/ \E va \in Va \ {NoVa}, len \in CommitSizes, h \in Handle \ {NoHandle} :
       committed + len <= MaxCommitted /\ OpenArena(va, len, h)
  \/ handleRefs < MaxRefs /\ RetainHandle
  \/ \E h \in Handle \ {NoHandle} : ReleaseRef(h)
  \/ \E req \in Size \ {0} : BumpUsage(req)

PackSpec == PackInit /\ [][PackNext]_packVars

-----------------------------------------------------------------------------
(* Properties.                                                             *)

ArenaRecord == [active : BOOLEAN, base : Nat, len : Nat, handle : Handle, next : Nat]
MegaRecord == [active : BOOLEAN, base : Nat, len : Nat, leaves : Nat, used : Nat]

(* Types of the packing state.                                             *)
PackTypeOK ==
  /\ arena \in ArenaRecord
  /\ mega \in MegaRecord
  /\ committed \in Nat /\ peak \in Nat
  /\ handleRefs \in Nat
  /\ bandSeq \in 0 .. BandMod - 1

(* An inactive arena is blank; an active one never charges more than it    *)
(* holds, whichever of TryReserve, BumpUsage and the 2-adic start grew it. *)
ArenaBounded ==
  IF arena.active THEN arena.next <= arena.len ELSE arena = NoArena

(* While a mega window is open the arena is exactly its last leaf taken,   *)
(* and every leaf counted lies inside the driver's reservation.            *)
WindowCoherent ==
  mega.active =>
    /\ arena.active /\ arena.len = Leaf
    /\ arena.base = mega.base + (mega.used - 1) * Leaf
    /\ 1 <= mega.used /\ mega.used <= mega.leaves
    /\ mega.leaves * Leaf <= mega.len
=============================================================================
