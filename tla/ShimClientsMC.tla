---------------------------- MODULE ShimClientsMC ----------------------------
(***************************************************************************)
(* Leaves of two ladder units, mega windows of two leaves, room for three  *)
(* windows.                                                                *)
(***************************************************************************)
EXTENDS ShimClients, TLC

CONSTANTS t1, t2, b1, b2, h1, h2

OneThread == {t1}
TwoThreads == {t1, t2}
TwoBuffers == {b1, b2}
AllByOne == [b \in Buffer |-> t1]
OneEach == [b \in Buffer |-> IF b = b1 THEN t1 ELSE t2]
MCVa == 0 .. 9
NarrowVa == 0 .. 5
MCHandle == {NoHandle, h1, h2}
Odd == {1, 3}
MCSize == 0 .. 4
Small == {1}
Mixed == {1, 2, 3}

(* Threads may be swapped together with their buffers, handles freely.     *)
ThreadSwaps ==
  {t1 :> t1 @@ t2 :> t2 @@ b1 :> b1 @@ b2 :> b2,
   t1 :> t2 @@ t2 :> t1 @@ b1 :> b2 @@ b2 :> b1}
HandleSwaps == Permutations({h1, h2})
PairSymmetry == {f @@ g : f \in ThreadSwaps, g \in HandleSwaps}
=============================================================================
