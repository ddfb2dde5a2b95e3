------------------------------ MODULE Reservations ------------------------------
(***************************************************************************)
(* What the interposed cuMem calls promise: a table of reservations, each  *)
(* with an address, at most one handle and a mapped mark.  A call takes    *)
(* effect at one instant between its begin and its return, exactly once if *)
(* it answers "success" and not at all if it is refused.  How addresses    *)
(* are chosen, what is packed and what the driver does is not said.        *)
(***************************************************************************)
EXTENDS DriverTypes

CONSTANTS
  Thread,
  Entry    \* the places of the table

VARIABLES
  entry,   \* the reservations, NoEntry where there is none
  ctl      \* the call each thread is in and how far it is

serviceVars == <<entry, ctl>>

Reservation(va, h, mapped) == [va |-> va, h |-> h, mapped |-> mapped]
NoEntry == Reservation(NoVa, NoHandle, FALSE)
NoCall == [op |-> "none", va |-> NoVa, h |-> NoHandle, phase |-> "idle", ok |-> FALSE]

InUse == {i \in Entry : entry[i].va # NoVa}
EntriesAt(va) == {i \in InUse : entry[i].va = va}
EntriesBoundTo(h) == {i \in InUse : entry[i].h = h}

ServiceInit ==
  /\ entry = [i \in Entry |-> NoEntry]
  /\ ctl = [t \in Thread |-> NoCall]

Operation == {"reserve", "create", "map", "unmap", "release", "free", "reset"}

(* A thread calls with an address, a handle or neither.  Which address,    *)
(* and which one a reserve answers, is read off the new state: any will do.*)
Begin(t) ==
  /\ ctl[t].phase = "idle"
  /\ ctl'[t] \in [op : Operation, va : Va, h : Handle, phase : {"called"}, ok : {FALSE}]
  /\ ctl' = [ctl EXCEPT ![t] = ctl'[t]]
  /\ UNCHANGED entry

Called(t, op) == ctl[t].phase = "called" /\ ctl[t].op = op

(* The call is decided; a reserve answers an address, a create a handle.   *)
Answer(t, ok, va, h) ==
  ctl' = [ctl EXCEPT ![t] =
            [op |-> ctl[t].op, va |-> va, h |-> h, phase |-> "answered", ok |-> ok]]

Succeed(t) == Answer(t, TRUE, ctl[t].va, ctl[t].h)

Refuse(t) ==
  /\ ctl[t].phase = "called"
  /\ Answer(t, FALSE, ctl[t].va, ctl[t].h)
  /\ UNCHANGED entry

Reserve(t) ==
  /\ Called(t, "reserve")
  /\ ctl'[t].va \in Va \ {NoVa}
  /\ Answer(t, TRUE, ctl'[t].va, NoHandle)
  /\ \E i \in Entry \ InUse :
       entry' = [entry EXCEPT ![i] = Reservation(ctl'[t].va, NoHandle, FALSE)]

(* A handle is bound to one reservation that has none.                     *)
Create(t) ==
  /\ Called(t, "create")
  /\ \E i \in EntriesBoundTo(NoHandle), h \in Handle \ {NoHandle} :
       /\ entry' = [entry EXCEPT ![i] = Reservation(entry[i].va, h, entry[i].mapped)]
       /\ Answer(t, TRUE, NoVa, h)

Map(t) ==
  /\ Called(t, "map")
  /\ \E i \in EntriesAt(ctl[t].va) \ EntriesBoundTo(NoHandle) :
       entry' = [entry EXCEPT ![i] = Reservation(entry[i].va, entry[i].h, TRUE)]
  /\ Succeed(t)

Unmap(t) ==
  /\ Called(t, "unmap")
  /\ \E i \in EntriesAt(ctl[t].va) :
       entry' = [entry EXCEPT ![i] = Reservation(entry[i].va, entry[i].h, FALSE)]
  /\ Succeed(t)

(* Without its handle a reservation is not mapped either.                  *)
Release(t) ==
  /\ Called(t, "release")
  /\ \E i \in EntriesBoundTo(ctl[t].h) \ EntriesBoundTo(NoHandle) :
       entry' = [entry EXCEPT ![i] = Reservation(entry[i].va, NoHandle, FALSE)]
  /\ Succeed(t)

Free(t) ==
  /\ Called(t, "free")
  /\ \E i \in EntriesAt(ctl[t].va) : entry' = [entry EXCEPT ![i] = NoEntry]
  /\ Succeed(t)

Reset(t) ==
  /\ Called(t, "reset")
  /\ entry' = [i \in Entry |-> NoEntry]
  /\ Succeed(t)

Return(t) ==
  /\ ctl[t].phase = "answered"
  /\ ctl' = [ctl EXCEPT ![t] = NoCall]
  /\ UNCHANGED entry

ServiceNext ==
  \E t \in Thread :
    \/ Begin(t) \/ Refuse(t) \/ Return(t)
    \/ Reserve(t) \/ Create(t) \/ Map(t) \/ Unmap(t) \/ Release(t) \/ Free(t) \/ Reset(t)

ServiceSpec == ServiceInit /\ [][ServiceNext]_serviceVars
=============================================================================
