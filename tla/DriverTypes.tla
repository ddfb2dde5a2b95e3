------------------------------ MODULE DriverTypes ------------------------------
(***************************************************************************)
(* What the shim and the CUDA driver exchange: device addresses, physical  *)
(* allocation handles and sizes.  The null address is 0, as in the code.   *)
(***************************************************************************)
EXTENDS Naturals

CONSTANTS Va, Handle, NoHandle, Size

NoVa == 0

ASSUME DriverAssumption ==
  /\ Va \subseteq Nat /\ NoVa \in Va
  /\ NoHandle \in Handle
  /\ Size \subseteq Nat /\ 0 \in Size
=============================================================================
