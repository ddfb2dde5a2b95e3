------------------------------ MODULE ShimClients ------------------------------
(***************************************************************************)
(* Client threads that use the interposed calls in any order the CUDA API  *)
(* allows.  Each thread owns some buffers; a buffer is reserved, given a   *)
(* handle, mapped, and taken down again in any legal order, over and over. *)
(***************************************************************************)
EXTENDS ShimService

CONSTANTS
  Buffer, NoBuffer,
  Owner,     \* [Buffer -> Thread]
  Request,   \* the sizes clients reserve
  CallBudget \* bound: how many calls are made in all, 0 = any number

ASSUME ClientAssumption ==
  /\ Owner \in [Buffer -> Thread] /\ NoBuffer \notin Buffer
  /\ Request \subseteq Size \ {0} /\ CallBudget \in Nat

VARIABLES
  buffer,  \* what each client knows of its buffers
  using,   \* the buffer each thread's call is about
  created, \* history: the physical memory the driver ever made for the shim
  started  \* the calls made so far, when CallBudget bounds them

clientVars == <<vars, buffer, using, created, started>>

NoBufferYet == [va |-> NoVa, size |-> 0, h |-> NoHandle, mapped |-> FALSE]

ClientInit ==
  /\ ShimInit
  /\ buffer = [b \in Buffer |-> NoBufferYet]
  /\ using = [t \in Thread |-> NoBuffer]
  /\ created = 0
  /\ started = 0

Start(t, b) ==
  /\ Idle(t) /\ Owner[b] = t
  /\ IF CallBudget = 0 THEN UNCHANGED started
     ELSE started < CallBudget /\ started' = started + 1
  /\ using' = [using EXCEPT ![t] = b]
  /\ OnlyCall /\ UNCHANGED <<buffer, created>>

StartReserve(t, b) ==
  /\ buffer[b].va = NoVa /\ buffer[b].h = NoHandle
  /\ \E req \in Request : Enter(t, "reserve", "rsv_begin", NoVa, req, NoHandle)
  /\ Start(t, b)

(* MaxCommitted and MaxRefs bound the two counters that only ever grow.    *)
StartCreate(t, b) ==
  /\ buffer[b].va # NoVa /\ buffer[b].h = NoHandle /\ ~buffer[b].mapped
  /\ SharesHandle \/ committed + CreateRoundSize(buffer[b].size) <= MaxCommitted
  /\ handleRefs < MaxRefs
  /\ Enter(t, "create", "crt_packed", NoVa, buffer[b].size, NoHandle)
  /\ Start(t, b)

(* Clients map whole leaves, as the driver's granularity demands.          *)
MapSize(b) == RoundLeafSize(buffer[b].size)

StartMap(t, b) ==
  /\ buffer[b].va # NoVa /\ buffer[b].h # NoHandle /\ ~buffer[b].mapped
  /\ Enter(t, "map", "map_validate", buffer[b].va, MapSize(b), buffer[b].h)
  /\ Start(t, b)

StartUnmap(t, b) ==
  /\ buffer[b].mapped
  /\ Enter(t, "unmap", "unm_validate", buffer[b].va, MapSize(b), NoHandle)
  /\ Start(t, b)

StartRelease(t, b) ==
  /\ buffer[b].h # NoHandle
  /\ Enter(t, "release", "rel_validate", NoVa, 0, buffer[b].h)
  /\ Start(t, b)

StartFree(t, b) ==
  /\ buffer[b].va # NoVa /\ ~buffer[b].mapped
  /\ Enter(t, "free", "fre_lookup", buffer[b].va, buffer[b].size, NoHandle)
  /\ Start(t, b)

(* What a successful call tells the client about its buffer.               *)
Outcome(c, buf) ==
  CASE c.op = "reserve" -> [buf EXCEPT !.va = c.va, !.size = c.size]
    [] c.op = "create"  -> [buf EXCEPT !.h = c.h]
    [] c.op = "map"     -> [buf EXCEPT !.mapped = TRUE]
    [] c.op = "unmap"   -> [buf EXCEPT !.mapped = FALSE]
    [] c.op = "release" -> [buf EXCEPT !.h = NoHandle]
    [] c.op = "free"    -> [buf EXCEPT !.va = NoVa, !.size = 0]

Finish(t) ==
  /\ Done(t)
  /\ buffer' = IF call[t].ok
               THEN [buffer EXCEPT ![using[t]] = Outcome(call[t], @)] ELSE buffer
  /\ call' = [call EXCEPT ![t] = IdleCall]
  /\ using' = [using EXCEPT ![t] = NoBuffer]
  /\ OnlyCall /\ UNCHANGED <<created, started>>

CallStep(t) ==
  /\ ShimStep(t)
  /\ created' = IF At(t, "crt_driver") /\ At(t, "crt_bind")'
                THEN created + CreateRoundSize(call[t].size) ELSE created
  /\ UNCHANGED <<buffer, using, started>>

ClientStep(t) ==
  \/ \E b \in Buffer :
       \/ StartReserve(t, b) \/ StartCreate(t, b) \/ StartMap(t, b)
       \/ StartUnmap(t, b) \/ StartRelease(t, b) \/ StartFree(t, b)
  \/ Finish(t)
  \/ CallStep(t)

ClientNext == \E t \in Thread : ClientStep(t)

ClientSpec == ClientInit /\ [][ClientNext]_clientVars

-----------------------------------------------------------------------------

BuffersAt(va) == {b \in Buffer : buffer[b].va = va}
BuffersHolding(h) == {b \in Buffer : buffer[b].h = h}

(* One call at a time: between calls every slot in use carries an address, *)
(* none is left over from a failed reserve and no reserve is pending, so   *)
(* the "epoch held" test means what it says.                               *)
NoOrphanSlots == Quiet => pending = -1 /\ SlotsAt(NoVa) = {}

(* Between calls the shim has exactly one slot per reservation a client    *)
(* still holds, also where two clients were given the same address.        *)
OneSlotPerReservation ==
  Quiet => \A va \in Va \ {NoVa} : Cardinality(SlotsAt(va)) = Cardinality(BuffersAt(va))

(* However calls interleave: while a client holds a reservation it is not  *)
(* just giving up, the epoch is held, so its create, map and unmap calls   *)
(* are never turned away with no_epoch.                                    *)
EpochHeldWhileReserved ==
  (\E b \in Buffer : buffer[b].va # NoVa /\ \A t \in Thread : using[t] # b) => EpochHeld

(* However calls interleave, the committed total never exceeds what the    *)
(* driver really made.                                                     *)
NeverOverstated == committed <= created

(* One call at a time: between calls the total is exactly what was made.   *)
CommittedIsCreated == Quiet => committed = created

(* Between calls no more slots are bound to a handle than clients hold it. *)
BindingsHeld ==
  Quiet => \A h \in Handle \ {NoHandle} :
             Cardinality(SlotsBoundTo(h)) <= Cardinality(BuffersHolding(h))

(* SHIM_INVIOLABLE_CONTRACT_V1.md:218: what other calls do to their slices *)
(* of a leaf leaves the memory behind a mapped slice where it is.          *)
NeighboursStayBacked ==
  [][\A b \in Buffer :
       buffer[b].mapped /\ Backed(buffer[b].va) /\ (\A t \in Thread : using[t] # b)
         => Backed(buffer[b].va)']_clientVars
=============================================================================
