------------------------------ MODULE SlotTableMC ------------------------------
(***************************************************************************)
(* A table of three slots with two addresses, driven by arbitrary callers. *)
(***************************************************************************)
EXTENDS SlotTable

CONSTANT h1

MCVa == 0 .. 2
MCHandle == {NoHandle, h1}
MCSize == {0}
=============================================================================
