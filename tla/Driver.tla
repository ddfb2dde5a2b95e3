--------------------------------- MODULE Driver ---------------------------------
(***************************************************************************)
(* The CUDA virtual memory driver, as the shim and its clients use it: a   *)
(* call with arguments the driver API forbids fails and changes nothing.   *)
(* A legal call that takes something may fail too when DriverFails, and a  *)
(* legal call that gives something back when GiveBackFails.                *)
(***************************************************************************)
EXTENDS DriverTypes, FiniteSetsExt

CONSTANTS
  Granule,     \* the allocation granularity, one leaf
  DriverFails, \* may a legal reserve, create, map or access call fail?
  GiveBackFails \* may a legal unmap, release or free fail?

VARIABLES
  reserved,  \* the address ranges reserved, [base, len]
  physLen,   \* the size of each live physical handle, 0 when not live
  mappings   \* the ranges mapped, [va, len, handle]

driverVars == <<reserved, physLen, mappings>>

DriverInit ==
  /\ reserved = {}
  /\ physLen = [h \in Handle |-> 0]
  /\ mappings = {}

TopVa == Max(Va)

(* Half-open ranges [a, a + n) and [b, b + m) meet.                        *)
Meet(a, n, b, m) == a < b + m /\ b < a + n

RoomAt(base, len) ==
  /\ base % Granule = 0 /\ base + len <= TopVa + 1
  /\ \A r \in reserved : ~Meet(base, len, r.base, r.len)

Rooms(len) == {base \in Va \ {NoVa} : RoomAt(base, len)}

(* The lowest free range is reserved, so addresses come back after a free. *)
NextRoom(len) == Min(Rooms(len))

DriverReserve(len) ==
  /\ Rooms(len) # {}
  /\ reserved' = reserved \union {[base |-> NextRoom(len), len |-> len]}
  /\ UNCHANGED <<physLen, mappings>>

CanAddressFree(va, len) ==
  /\ [base |-> va, len |-> len] \in reserved
  /\ \A m \in mappings : ~Meet(va, len, m.va, m.len)

DriverAddressFree(va, len) ==
  /\ CanAddressFree(va, len)
  /\ reserved' = reserved \ {[base |-> va, len |-> len]}
  /\ UNCHANGED <<physLen, mappings>>

FreshHandles == {h \in Handle \ {NoHandle} : physLen[h] = 0}

DriverCreate(h, len) ==
  /\ h \in FreshHandles
  /\ physLen' = [physLen EXCEPT ![h] = len]
  /\ UNCHANGED <<reserved, mappings>>

CanRelease(h) == physLen[h] > 0

(* Mappings keep the memory alive, the handle is gone.                     *)
DriverRelease(h) ==
  /\ CanRelease(h)
  /\ physLen' = [physLen EXCEPT ![h] = 0]
  /\ UNCHANGED <<reserved, mappings>>

CanMap(va, len, off, h) ==
  /\ physLen[h] > 0 /\ off + len <= physLen[h]
  /\ \E r \in reserved : r.base <= va /\ va + len <= r.base + r.len
  /\ \A m \in mappings : ~Meet(va, len, m.va, m.len)

DriverMap(va, len, off, h) ==
  /\ CanMap(va, len, off, h)
  /\ mappings' = mappings \union {[va |-> va, len |-> len, handle |-> h]}
  /\ UNCHANGED <<reserved, physLen>>

CanUnmap(va, len) == \E m \in mappings : m.va = va /\ m.len = len

DriverUnmap(va, len) ==
  /\ CanUnmap(va, len)
  /\ mappings' = {m \in mappings : m.va # va}
  /\ UNCHANGED <<reserved, physLen>>

(* cuCtxDestroy: everything the context owned is gone.                     *)
DriverContextDestroy ==
  /\ reserved' = {}
  /\ physLen' = [h \in Handle |-> 0]
  /\ mappings' = {}

Backed(va) == \E m \in mappings : m.va <= va /\ va < m.va + m.len
=============================================================================
