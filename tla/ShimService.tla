------------------------------ MODULE ShimService ------------------------------
(***************************************************************************)
(* Shim as the reservation service of Reservations: a slot with an address *)
(* is a reservation, and a call is answered by the one step of it that     *)
(* writes the slot table; what follows is bookkeeping.                     *)
(***************************************************************************)
EXTENDS Shim

(* The steps a call still has to make after the one that took effect.      *)
AfterEffect ==
  {"rsv_mark", "rsv_off", "rsv_setoff", "rsv_leafoff", "rsv_register",
   "rsv_dregister", "rsv_window", "crt_snapshot", "crt_open", "map_usage", "map_active", "map_req",
   "map_bump"}

EntryOf(i) ==
  [va |-> slots[i].va, h |-> slots[i].handle, mapped |-> slots[i].mapped]

(* An address or handle is part of the call once it is asked or answered   *)
(* with; what a call keeps in these fields on its way is its own affair.   *)
CallOf(c) ==
  LET answered == c.pc \in AfterEffect \union {"done"}
      granted  == c.pc \in AfterEffect \/ c.ok
  IN  [op    |-> c.op,
       va    |-> IF \/ c.op \in {"map", "unmap", "free"}
                    \/ c.op = "reserve" /\ answered /\ granted THEN c.va ELSE NoVa,
       h     |-> IF \/ c.op \in {"map", "release"}
                    \/ c.op = "create" /\ answered /\ granted THEN c.h ELSE NoHandle,
       phase |-> CASE c.pc = "idle" -> "idle" [] answered -> "answered" [] OTHER -> "called",
       ok    |-> answered /\ granted]

Entries == [i \in Index |-> EntryOf(i)]
Calls == [t \in Thread |-> CallOf(call[t])]

Service == INSTANCE Reservations WITH Va <- Nat, Entry <- Index, entry <- Entries, ctl <- Calls

(* Every interposed call is atomic as far as its caller can tell: however  *)
(* many helpers and driver calls it is made of and wherever it fails, it   *)
(* changes one reservation once and answers success, or changes none.      *)
CallsAreAtomic == Service!ServiceSpec
=============================================================================
