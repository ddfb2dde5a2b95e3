----------------------------- MODULE PackWindowMC -----------------------------
(***************************************************************************)
(* A leaf of four ladder units (2 MiB and 512 KiB in the code), windows of *)
(* two leaves that may be placed at two addresses.                         *)
(***************************************************************************)
EXTENDS PackWindow

CONSTANT h1

MCVa == {0, 4, 12}
MCHandle == {NoHandle, h1}
MCSize == {0, 1, 2, 4, 12}
=============================================================================
