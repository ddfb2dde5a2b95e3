----------------------------- MODULE IronHarnessMC -----------------------------
(***************************************************************************)
(* Units of 256 KiB: a leaf is 8, the ladder floor 2, and the requests of  *)
(* the frag bench (1.25, 1.5, 1.75, 2, 2.25 and 2.5 MiB) are 5 to 10.      *)
(* Every address and placement is even.                                    *)
(***************************************************************************)
EXTENDS IronHarness

CONSTANTS h1, h2, h3, h4

OneThread == {Main}
MCHandle == {NoHandle, h1, h2, h3, h4}
ThreeHandles == {NoHandle, h1, h2, h3}
MCVa == {2 * k : k \in 0 .. 40}
MCSize == 0 .. 24
BenchSizes == [frag |-> <<5, 6, 7, 8, 9, 10>>, iso |-> <<2>>, resident |-> <<8>>,
               kv_tail |-> <<2>>, alloc |-> <<8>>, chain |-> <<8>>]

RunOf(b, p) == [bench |-> b, path |-> p, cap |-> 0, target |-> 0, heads |-> 1]
IsoRun(c, t, n) == [RunOf("iso", "shim") EXCEPT !.cap = c, !.target = t, !.heads = n]

UniformSetups ==
  {RunOf("resident", "shim"), RunOf("chain", "shim"), RunOf("chain", "stock"),
   IsoRun(0, 0, 1), IsoRun(8, 0, 1), IsoRun(0, 7, 1), IsoRun(8, 0, 2),
   [RunOf("iso", "stock") EXCEPT !.cap = 16]}
PoolSetups == {RunOf("frag", "shim"), RunOf("kv_tail", "shim"),
               RunOf("resident", "shim"), RunOf("resident", "stock"),
               RunOf("alloc", "shim"), RunOf("alloc", "stock")}
ChurnSetups == {RunOf("frag", "shim")}
HandleSymmetry == Permutations({h1, h2, h3, h4})
=============================================================================
