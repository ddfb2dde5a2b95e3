------------------------------ MODULE ClientProofs ------------------------------
(***************************************************************************)
(* Proofs about clients that use the interposed calls, for any number of   *)
(* threads and buffers, whatever their calls' interleaving, and any        *)
(* setting of the packing, alias and driver options; then, for clients     *)
(* that make one call at a time, that each call is atomic.                 *)
(*                                                                         *)
(* Each property compares what the shim keeps with what clients hold, and  *)
(* holds between calls only because a stronger fact holds inside them: a   *)
(* buffer counts as holding a slot, a handle or memory from the step of    *)
(* its call that takes it to the step that gives it back.                  *)
(***************************************************************************)
EXTENDS ShimClients, ShimProofs

ClientBuffer == [va : Nat, size : Nat, h : Handle, mapped : BOOLEAN]

(* A call is about one buffer of its thread, which lacks what the call     *)
(* makes and has what the call gives up.                                   *)
UsingOK(t) ==
  LET c == call[t]
      b == using[t]
  IN  IF c.op = "none" THEN b = NoBuffer
      ELSE /\ b \in Buffer /\ Owner[b] = t /\ c.op # "reset"
           /\ c.op = "reserve" => buffer[b].va = NoVa
           /\ c.op = "create" => buffer[b].h = NoHandle
           /\ c.op = "free" => buffer[b].va # NoVa /\ c.va = buffer[b].va
           /\ c.op = "release" => buffer[b].h # NoHandle /\ c.h = buffer[b].h

ClientInv ==
  /\ ShimInv
  /\ buffer \in [Buffer -> ClientBuffer]
  /\ using \in [Thread -> Buffer \union {NoBuffer}]
  /\ created \in Nat
  /\ \A t \in Thread : UsingOK(t)

-----------------------------------------------------------------------------
(* What a client's step does to the calls and buffers.                     *)

(* What a call is asked for stays as it is until the call is answered.     *)
LEMMA ArgumentsKept ==
  ASSUME ShimInv, NEW t \in Thread, ShimStep(t), call[t].op \in {"map", "unmap", "free", "release"}
  PROVE  call'[t].va = call[t].va /\ call'[t].h = call[t].h
<1>1. call \in [Thread -> CallRecord] /\ StageOK(call[t])
  BY DEF ShimInv, CallsOK
<1>2. ASSUME NEW q, Goto(t, q) PROVE call'[t].va = call[t].va /\ call'[t].h = call[t].h
  BY <1>1, <1>2 DEF Goto, CallRecord
<1>3. ASSUME NEW ok, Return(t, ok) PROVE call'[t].va = call[t].va /\ call'[t].h = call[t].h
  BY <1>1, <1>3 DEF Return, CallRecord
<1>4. CASE MapStep(t)
  <2>1. ASSUME NEW off, call' = [call EXCEPT ![t].pc = "map_driver", ![t].off = off]
        PROVE  call'[t].va = call[t].va /\ call'[t].h = call[t].h
    BY <1>1, <2>1 DEF CallRecord
  <2>2. ASSUME NEW sz, call' = [call EXCEPT ![t].pc = "map_bump", ![t].sz = sz]
        PROVE  call'[t].va = call[t].va /\ call'[t].h = call[t].h
    BY <1>1, <2>2 DEF CallRecord
  <2> QED
    BY <1>2, <1>3, <1>4, <2>1, <2>2
    DEF MapStep, MapValidate, MapRoute, MapPacked, MapOff, MapDriver, MapMark, MapUsage,
        MapActive, MapReq, MapBump
<1>5. CASE UnmapStep(t) \/ ReleaseStep(t) \/ FreeStep(t)
  BY <1>2, <1>3, <1>5
  DEF UnmapStep, ReleaseStep, FreeStep, UnmValidate, UnmKnown, UnmRoute, UnmDriver, UnmClear,
      RelValidate, RelRef, RelDriver, RelClear, FreLookup, FreRoute, FreDriver, FreSlot
<1>6. CASE ReserveStep(t) \/ CreateStep(t) \/ ResetStep(t)
  <2>1. call[t].pc \in ReservePc \union CreatePc \union ResetPc
    BY <1>6
    DEF At, ReservePc, PendingPc, GrantedPc, CreatePc, AskedPc, BoundPc, ResetPc,
        ReserveStep, CreateStep, ResetStep,
        RsvBegin, RsvReq, RsvAlias, RsvNoAlias, RsvFlush, RsvTry, RsvMega, RsvCommit, RsvMark,
        RsvOff, RsvSetOff, RsvLeafOff, RsvRegister, RsvDriver, RsvRollback, RsvDriverCommit,
        RsvDriverRegister, RsvWindow, CrtPacked, CrtRetain, CrtShare, CrtValidate, CrtDriver,
        CrtBind, CrtSnapshot, CrtOpen, RstFlush, RstPack, RstGqa, RstSlots
  <2> QED
    BY <1>1, <2>1, OpOfPc
<1> QED
  BY <1>4, <1>5, <1>6 DEF ShimStep

Starts(t, b) ==
  \/ StartReserve(t, b) \/ StartCreate(t, b) \/ StartMap(t, b)
  \/ StartUnmap(t, b) \/ StartRelease(t, b) \/ StartFree(t, b)

(* A thread enters a call: nothing but the call and its buffer's use.      *)
LEMMA StartMove ==
  ASSUME ClientInv, NEW t \in Thread, NEW b \in Buffer, Starts(t, b)
  PROVE  /\ ClientInv' /\ UNCHANGED <<shimVars, buffer, created>>
         /\ call[t].op = "none" /\ using[t] = NoBuffer /\ Owner[b] = t
         /\ \A s \in Thread \ {t} : call'[s] = call[s]
         /\ using' = [using EXCEPT ![t] = b]
         /\ call'[t].pc \in {"rsv_begin", "crt_packed", "map_validate", "unm_validate",
                             "rel_validate", "fre_lookup"}
<1>1. /\ Idle(t) /\ Owner[b] = t /\ using' = [using EXCEPT ![t] = b]
      /\ UNCHANGED <<shimVars, buffer, created>>
  BY DEF Starts, StartReserve, StartCreate, StartMap, StartUnmap, StartRelease, StartFree,
         Start, OnlyCall
<1>2. call[t].op = "none" /\ using[t] = NoBuffer
  <2>1. StageOK(call[t]) /\ call[t].pc = "idle"
    BY <1>1 DEF ClientInv, ShimInv, CallsOK, Idle
  <2>2. call[t].op = "none"
    BY <2>1 DEF StageOK, ReservePc, PendingPc, GrantedPc, CreatePc, AskedPc, BoundPc, MapPc,
         UnmapPc, ReleasePc, FreePc, ResetPc
  <2> QED
    BY <2>2 DEF ClientInv, UsingOK
<1>3. buffer[b] \in ClientBuffer /\ buffer[b].va \in Nat /\ buffer[b].h \in Handle
  BY DEF ClientInv, ClientBuffer
<1>4. MapSize(b) \in Nat /\ buffer[b].size \in Nat
  BY <1>3, RoundUpPositive, LeafAssumption DEF MapSize, RoundLeafSize, ClientBuffer
<1>5. /\ call'[t] \in CallRecord /\ \A s \in Thread \ {t} : call'[s] = call[s]
      /\ call' \in [Thread -> CallRecord]
      /\ \/ /\ call'[t].op = "reserve" /\ call'[t].pc = "rsv_begin"
            /\ buffer[b].va = NoVa
         \/ /\ call'[t].op = "create" /\ call'[t].pc = "crt_packed"
            /\ buffer[b].h = NoHandle
         \/ call'[t].op = "map" /\ call'[t].pc = "map_validate"
         \/ call'[t].op = "unmap" /\ call'[t].pc = "unm_validate"
         \/ /\ call'[t].op = "release" /\ call'[t].pc = "rel_validate"
            /\ buffer[b].h # NoHandle /\ call'[t].h = buffer[b].h
         \/ /\ call'[t].op = "free" /\ call'[t].pc = "fre_lookup"
            /\ buffer[b].va # NoVa /\ call'[t].va = buffer[b].va
  <2>1. /\ {"rsv_begin", "crt_packed", "map_validate", "unm_validate", "rel_validate",
            "fre_lookup"} \subseteq Pc
        /\ {"reserve", "create", "map", "unmap", "release", "free"} \subseteq Op
        /\ NoVa \in Nat /\ NoHandle \in Handle
    BY DriverAssumption
    DEF Pc, Op, ReservePc, CreatePc, AskedPc, MapPc, UnmapPc, ReleasePc, FreePc, NoVa
  <2>2. CASE StartReserve(t, b)
    <3>1. PICK req \in Request : Enter(t, "reserve", "rsv_begin", NoVa, req, NoHandle)
      BY <2>2 DEF StartReserve
    <3>2. req \in Nat
      BY ClientAssumption, DriverAssumption
    <3>3. buffer[b].va = NoVa
      BY <2>2 DEF StartReserve
    <3> QED
      BY <2>1, <3>1, <3>2, <3>3, EnterMove DEF ClientInv, ShimInv
  <2>3. CASE StartCreate(t, b)
    <3>1. Enter(t, "create", "crt_packed", NoVa, buffer[b].size, NoHandle)
          /\ buffer[b].h = NoHandle
      BY <2>3 DEF StartCreate
    <3> QED
      BY <1>4, <2>1, <3>1, EnterMove DEF ClientInv, ShimInv
  <2>4. CASE StartMap(t, b)
    <3>1. Enter(t, "map", "map_validate", buffer[b].va, MapSize(b), buffer[b].h)
      BY <2>4 DEF StartMap
    <3> QED
      BY <1>3, <1>4, <2>1, <3>1, EnterMove DEF ClientInv, ShimInv
  <2>5. CASE StartUnmap(t, b)
    <3>1. Enter(t, "unmap", "unm_validate", buffer[b].va, MapSize(b), NoHandle)
      BY <2>5 DEF StartUnmap
    <3> QED
      BY <1>3, <1>4, <2>1, <3>1, EnterMove DEF ClientInv, ShimInv
  <2>6. CASE StartRelease(t, b)
    <3>1. Enter(t, "release", "rel_validate", NoVa, 0, buffer[b].h) /\ buffer[b].h # NoHandle
      BY <2>6 DEF StartRelease
    <3> QED
      BY <1>3, <2>1, <3>1, EnterMove DEF ClientInv, ShimInv
  <2>7. CASE StartFree(t, b)
    <3>1. /\ Enter(t, "free", "fre_lookup", buffer[b].va, buffer[b].size, NoHandle)
          /\ buffer[b].va # NoVa
      BY <2>7 DEF StartFree
    <3> QED
      BY <1>3, <1>4, <2>1, <3>1, EnterMove DEF ClientInv, ShimInv
  <2> QED
    BY <2>2, <2>3, <2>4, <2>5, <2>6, <2>7 DEF Starts
<1>7. call'[t].pc \in {"rsv_begin", "crt_packed", "map_validate", "unm_validate", "rel_validate",
                "fre_lookup"}
  BY <1>5
<1>8. StageOK(call'[t])
  BY <1>5 DEF StageOK, ReservePc, CreatePc, AskedPc, MapPc, UnmapPc, ReleasePc, FreePc, RoutedPc
<1>9. CallsOK' /\ \A s \in Thread \ {t} : call'[s] = call[s]
  BY <1>5, <1>8 DEF ClientInv, ShimInv, CallsOK
<1>10. StateOK'
  BY <1>1, CallAlone DEF ClientInv, ShimInv
<1>11. ASSUME NEW s \in Thread PROVE UsingOK(s)'
  <2>1. using'[t] = b /\ (s # t => using'[s] = using[s])
    BY <1>1 DEF ClientInv
  <2>2. UsingOK(s)
    BY DEF ClientInv
  <2>3. CASE s # t
    BY <1>1, <1>9, <2>1, <2>2, <2>3 DEF UsingOK
  <2>4. CASE s = t
    BY <1>1, <1>5, <2>1, <2>4 DEF UsingOK
  <2> QED
    BY <2>3, <2>4
<1>12. ClientInv'
  BY <1>1, <1>9, <1>10, <1>11 DEF ClientInv, ShimInv
<1> QED
  BY <1>1, <1>2, <1>7, <1>9, <1>12

(* A thread returns with its answer: its buffer is as the answer says.     *)
LEMMA FinishMove ==
  ASSUME ClientInv, NEW t \in Thread, NEW b, b = using[t], NEW c, c = call[t], Finish(t)
  PROVE  /\ ClientInv' /\ UNCHANGED <<shimVars, created>>
         /\ c.pc = "done" /\ c.op # "none" /\ b \in Buffer /\ Owner[b] = t
         /\ \A s \in Thread \ {t} : call'[s] = call[s]
         /\ using' = [using EXCEPT ![t] = NoBuffer]
         /\ call'[t].op = "none" /\ call'[t].pc = "idle"
         /\ \A a \in Buffer \ {b} : buffer'[a] = buffer[a]
         /\ buffer'[b].va = IF Succeeded(c, "reserve") THEN c.va
                            ELSE IF Succeeded(c, "free") THEN NoVa ELSE buffer[b].va
         /\ buffer'[b].h = IF Succeeded(c, "create") THEN c.h
                           ELSE IF Succeeded(c, "release") THEN NoHandle ELSE buffer[b].h
<1>1. /\ c.pc = "done" /\ UNCHANGED <<shimVars, created>>
      /\ buffer' = IF c.ok THEN [buffer EXCEPT ![b] = Outcome(c, buffer[b])] ELSE buffer
      /\ call' = [call EXCEPT ![t] = IdleCall]
      /\ using' = [using EXCEPT ![t] = NoBuffer]
  BY DEF Finish, Done, OnlyCall
<1>2. /\ c \in CallRecord /\ StageOK(c) /\ UsingOK(t)
      /\ call \in [Thread -> CallRecord] /\ buffer \in [Buffer -> ClientBuffer]
      /\ using \in [Thread -> Buffer \union {NoBuffer}]
  BY DEF ClientInv, ShimInv, CallsOK
<1>3. c.op # "none" /\ c.op \in Op
  BY <1>1, <1>2 DEF StageOK, CallRecord
<1>4. b \in Buffer /\ Owner[b] = t /\ c.op # "reset"
  BY <1>2, <1>3 DEF UsingOK
<1> DEFINE new == Outcome(c, buffer[b])
<1>5. /\ new \in ClientBuffer
      /\ new.va = IF c.op = "reserve" THEN c.va ELSE IF c.op = "free" THEN NoVa ELSE buffer[b].va
      /\ new.h = IF c.op = "create" THEN c.h
                 ELSE IF c.op = "release" THEN NoHandle ELSE buffer[b].h
  <2>1. /\ buffer[b] \in ClientBuffer /\ c.va \in Nat /\ c.size \in Nat /\ c.h \in Handle
        /\ NoVa \in Nat /\ NoHandle \in Handle
    BY <1>2, <1>4, DriverAssumption DEF CallRecord, NoVa
  <2>2. c.op \in {"reserve", "create", "map", "unmap", "release", "free"}
    BY <1>3, <1>4 DEF Op
  <2> QED
    BY <2>1, <2>2 DEF Outcome, ClientBuffer
<1> HIDE DEF new
<1>6. /\ buffer' \in [Buffer -> ClientBuffer]
      /\ \A a \in Buffer \ {b} : buffer'[a] = buffer[a]
      /\ buffer'[b] = IF c.ok THEN new ELSE buffer[b]
  BY <1>1, <1>2, <1>4, <1>5 DEF new
<1>7. /\ buffer'[b].va = IF Succeeded(c, "reserve") THEN c.va
                         ELSE IF Succeeded(c, "free") THEN NoVa ELSE buffer[b].va
      /\ buffer'[b].h = IF Succeeded(c, "create") THEN c.h
                        ELSE IF Succeeded(c, "release") THEN NoHandle ELSE buffer[b].h
  BY <1>1, <1>2, <1>5, <1>6 DEF Succeeded, CallRecord
<1>8. IdleCall \in CallRecord /\ StageOK(IdleCall)
  BY DriverAssumption DEF IdleCall, CallRecord, NoVa, Pc, Op, StageOK, RoutedPc
<1>9. /\ CallsOK' /\ call'[t] = IdleCall
      /\ \A s \in Thread \ {t} : call'[s] = call[s] /\ using'[s] = using[s]
      /\ using' \in [Thread -> Buffer \union {NoBuffer}] /\ using'[t] = NoBuffer
  BY <1>1, <1>2, <1>8 DEF ClientInv, ShimInv, CallsOK
<1>10. StateOK'
  BY <1>1, CallAlone DEF ClientInv, ShimInv
<1>11. ASSUME NEW s \in Thread PROVE UsingOK(s)'
  <2>1. UsingOK(s)
    BY DEF ClientInv
  <2>2. CASE s # t
    <3>1. using[s] \in Buffer => Owner[using[s]] = s
      BY <2>1, ClientAssumption DEF UsingOK
    <3>2. using[s] \in Buffer => buffer'[using[s]] = buffer[using[s]]
      BY <1>4, <1>6, <2>2, <3>1
    <3> QED
      BY <1>9, <2>1, <2>2, <3>2 DEF UsingOK
  <2>3. CASE s = t
    BY <1>9, <2>3 DEF UsingOK, IdleCall
  <2> QED
    BY <2>2, <2>3
<1>12. ClientInv'
  BY <1>1, <1>6, <1>9, <1>10, <1>11 DEF ClientInv, ShimInv
<1> QED
  BY <1>1, <1>3, <1>4, <1>6, <1>7, <1>9, <1>12 DEF IdleCall

(* A step of a call leaves what the clients know alone.                    *)
LEMMA CallMove ==
  ASSUME ClientInv, NEW t \in Thread, CallStep(t)
  PROVE  /\ ClientInv' /\ ShimStep(t) /\ CallMoves(t) /\ buffer' = buffer /\ using' = using
         /\ using[t] \in Buffer /\ Owner[using[t]] = t /\ call[t].op # "reset"
<1>1. ShimStep(t) /\ buffer' = buffer /\ using' = using
  BY DEF CallStep
<1>2. ShimInv' /\ CallMoves(t) /\ call[t].op # "none"
  BY <1>1, ShimStepKeeps DEF ClientInv
<1>3. call[t].size \in Nat /\ CreateRoundSize(call[t].size) \in Nat
  <2>1. call[t].size \in Nat
    BY AtStep DEF ClientInv, ShimInv
  <2> QED
    BY <2>1, RoundUpPositive, LeafAssumption DEF CreateRoundSize, RoundLeafSize
<1>4. created' \in Nat
  BY <1>3 DEF CallStep, ClientInv
<1>5. ASSUME NEW s \in Thread PROVE UsingOK(s)'
  <2>1. UsingOK(s)
    BY DEF ClientInv
  <2>2. CASE s # t
    BY <1>1, <1>2, <2>1, <2>2 DEF UsingOK, CallMoves
  <2>3. CASE s = t
    <3>1. call'[t].op = call[t].op
      BY <1>2 DEF CallMoves
    <3>2. /\ call[t].op = "release" => call'[t].h = call[t].h
          /\ call[t].op = "free" => call'[t].va = call[t].va
      BY <1>1, ArgumentsKept DEF ClientInv
    <3> QED
      BY <1>1, <2>1, <2>3, <3>1, <3>2 DEF UsingOK
  <2> QED
    BY <2>2, <2>3
<1>6. ClientInv'
  BY <1>1, <1>2, <1>4, <1>5 DEF ClientInv
<1>7. UsingOK(t)
  BY DEF ClientInv
<1> QED
  BY <1>1, <1>2, <1>6, <1>7 DEF UsingOK

LEMMA ClientsStart == ClientInit => ClientInv
<1> SUFFICES ASSUME ClientInit PROVE ClientInv
  OBVIOUS
<1>1. ShimInv /\ \A t \in Thread : call[t].op = "none"
  BY CallsStart DEF ClientInit, ShimInit, IdleCall
<1>2. NoBufferYet \in ClientBuffer
  BY DriverAssumption DEF NoBufferYet, ClientBuffer, NoVa
<1> QED
  BY <1>1, <1>2 DEF ClientInit, ClientInv, UsingOK

LEMMA ClientsMove ==
  ASSUME ClientInv, ClientNext
  PROVE  ClientInv'
<1>1. PICK t \in Thread : ClientStep(t)
  BY DEF ClientNext
<1> QED
  BY <1>1, StartMove, FinishMove, CallMove DEF ClientStep, Starts

LEMMA ClientsStutter ==
  ASSUME ClientInv, UNCHANGED clientVars
  PROVE  ClientInv'
<1>1. UNCHANGED shimVars /\ UNCHANGED <<call, buffer, using, created>>
  BY DEF clientVars, vars
<1>2. StateOK'
  BY <1>1, CallAlone DEF ClientInv, ShimInv
<1>3. CallsOK'
  BY <1>1 DEF ClientInv, ShimInv, CallsOK
<1> QED
  BY <1>1, <1>2, <1>3 DEF ClientInv, ShimInv, UsingOK

LEMMA ClientInvariant == ClientSpec => []ClientInv
<1>1. ClientInv /\ [ClientNext]_clientVars => ClientInv'
  BY ClientsMove, ClientsStutter
<1> QED
  BY <1>1, ClientsStart, PTL DEF ClientSpec

-----------------------------------------------------------------------------
(* Counting what clients hold against what the shim keeps.                 *)

(* C stays within U's number: both change together, or C only shrinks.     *)
LEMMA StillBacked ==
  ASSUME NEW C, NEW D, NEW U, NEW V, IsFiniteSet(C), IsFiniteSet(U), IsFiniteSet(V),
         Cardinality(C) <= Cardinality(U),
         \/ D \subseteq C /\ U \subseteq V
         \/ \E x, y : D \subseteq C \union {x} /\ y \notin U /\ U \union {y} \subseteq V
         \/ \E y : \E x \in C : D \subseteq C \ {x} /\ U \ {y} \subseteq V
  PROVE  IsFiniteSet(D) /\ Cardinality(D) <= Cardinality(V)
<1>1. Cardinality(C) \in Nat /\ Cardinality(U) \in Nat /\ Cardinality(V) \in Nat
  BY FS_CardinalityType
<1>2. ASSUME NEW A, NEW B, IsFiniteSet(A), IsFiniteSet(B), Cardinality(A) <= Cardinality(B),
             D \subseteq A, B \subseteq V
      PROVE  IsFiniteSet(D) /\ Cardinality(D) <= Cardinality(V)
  <2>1. IsFiniteSet(D) /\ Cardinality(D) <= Cardinality(A) /\ Cardinality(B) <= Cardinality(V)
    BY <1>2, FS_Subset
  <2>2. /\ Cardinality(A) \in Nat /\ Cardinality(B) \in Nat /\ Cardinality(D) \in Nat
    BY <1>2, <2>1, FS_CardinalityType
  <2> QED
    BY <1>1, <1>2, <2>1, <2>2
<1>3. CASE D \subseteq C /\ U \subseteq V
  BY <1>2, <1>3
<1>4. CASE \E x, y : D \subseteq C \union {x} /\ y \notin U /\ U \union {y} \subseteq V
  <2>1. PICK x, y : D \subseteq C \union {x} /\ y \notin U /\ U \union {y} \subseteq V
    BY <1>4
  <2>2. /\ IsFiniteSet(C \union {x}) /\ IsFiniteSet(U \union {y})
        /\ Cardinality(C \union {x}) <= Cardinality(C) + 1
        /\ Cardinality(U \union {y}) = Cardinality(U) + 1
    <3>1. /\ IsFiniteSet(C \union {x})
          /\ Cardinality(C \union {x}) = IF x \in C THEN Cardinality(C) ELSE Cardinality(C) + 1
      BY FS_AddElement
    <3>2. /\ IsFiniteSet(U \union {y})
          /\ Cardinality(U \union {y}) = IF y \in U THEN Cardinality(U) ELSE Cardinality(U) + 1
      BY FS_AddElement
    <3> QED
      BY <1>1, <2>1, <3>1, <3>2
  <2>3. Cardinality(C \union {x}) <= Cardinality(U \union {y})
    <3>1. Cardinality(C \union {x}) \in Nat
      BY <2>2, FS_CardinalityType
    <3> QED
      BY <1>1, <2>2, <3>1
  <2> QED
    BY <1>2, <2>1, <2>2, <2>3
<1>5. CASE \E y : \E x \in C : D \subseteq C \ {x} /\ U \ {y} \subseteq V
  <2>0. PICK y : \E x \in C : D \subseteq C \ {x} /\ U \ {y} \subseteq V
    BY <1>5
  <2>1. PICK x \in C : D \subseteq C \ {x} /\ U \ {y} \subseteq V
    BY <2>0
  <2>2. /\ IsFiniteSet(C \ {x}) /\ IsFiniteSet(U \ {y})
        /\ Cardinality(C \ {x}) = Cardinality(C) - 1
        /\ Cardinality(U \ {y}) >= Cardinality(U) - 1
    <3>1. /\ IsFiniteSet(C \ {x})
          /\ Cardinality(C \ {x}) = IF x \in C THEN Cardinality(C) - 1 ELSE Cardinality(C)
      BY FS_RemoveElement
    <3>2. /\ IsFiniteSet(U \ {y})
          /\ Cardinality(U \ {y}) = IF y \in U THEN Cardinality(U) - 1 ELSE Cardinality(U)
      BY FS_RemoveElement
    <3> QED
      BY <1>1, <2>1, <3>1, <3>2
  <2>3. Cardinality(C \ {x}) <= Cardinality(U \ {y})
    <3>1. Cardinality(U \ {y}) \in Nat
      BY <2>2, FS_CardinalityType
    <3> QED
      BY <1>1, <2>2, <3>1
  <2> QED
    BY <1>2, <2>1, <2>2, <2>3
<1> QED
  BY <1>3, <1>4, <1>5

LEMMA UsedFiniteNext == IsFiniteSet(Used')
<1>1. IsFiniteSet(Index) /\ Used' \subseteq Index
  BY FS_Interval, SlotAssumption DEF Index, Used
<1> QED
  BY <1>1, FS_Subset

CallFor(b) == call[Owner[b]]
Busy(b) == using[Owner[b]] = b

(* A step of a thread is about one buffer; the others' calls stay.         *)
LEMMA OthersStay ==
  ASSUME ClientInv, NEW t \in Thread, CallMoves(t) \/ \A s \in Thread \ {t} : call'[s] = call[s],
         NEW b, \A s \in Thread \ {t} : using'[s] = using[s],
         \A a \in Buffer : Owner[a] = t /\ a # b => using[t] # a /\ using'[t] # a
  PROVE  \A a \in Buffer \ {b} : /\ Busy(a)' <=> Busy(a)
                                 /\ Busy(a) => CallFor(a)' = CallFor(a)
<1>1. \A s \in Thread \ {t} : call'[s] = call[s]
  BY DEF CallMoves
<1> QED
  BY <1>1, ClientAssumption DEF Busy, CallFor

-----------------------------------------------------------------------------
(* A buffer claims a slot from the step that takes one for it to the step  *)
(* that gives it up.                                                       *)

Claimed(b) ==
  IF Busy(b) /\ CallFor(b).op = "reserve"
  THEN Pending(CallFor(b)) \/ Granted(CallFor(b))
  ELSE buffer[b].va # NoVa /\ ~(Busy(b) /\ Succeeded(CallFor(b), "free"))

Claims == {b \in Buffer : Claimed(b)}
ClaimsBacked == IsFiniteSet(Claims) /\ Cardinality(Claims) <= Cardinality(Used)

(* What a reserve or a free does to the set of slots in use.               *)
LEMMA BeginTakesSlot ==
  ASSUME SlotInv, ReserveBeginSlot
  PROVE  \E i : i \notin Used /\ Used' = Used \union {i}
<1>1. FindFree \in Index \ Used
  BY FreeSlotIsFree DEF ReserveBeginSlot
<1>2. AllocSlot(FindFree, EmptySlot)
  BY DEF ReserveBeginSlot
<1>3. Used' = Used \union {FindFree}
  BY <1>1, <1>2, AllocKeeps, EmptyIsRecord DEF SlotInv
<1> QED
  BY <1>1, <1>3

LEMMA CommitKeepsSlots ==
  ASSUME SlotInv, NEW va \in Nat, NEW size \in Nat, ReservationSet(va, size)
  PROVE  Used \subseteq Used'
<1>1. CASE CommitPending(va, size)
  <2>1. \A i \in Index : slots'[i].gen = slots[i].gen
    BY <1>1 DEF CommitPending, SlotInv, SlotTypeOK, SlotRecord
  <2> QED
    BY <2>1 DEF Used
<1>2. CASE CommitFresh(va, size)
  <2>1. FindFree \in Index \ Used
    BY <1>2, FreeSlotIsFree DEF CommitFresh
  <2> DEFINE rec == [EmptySlot EXCEPT !.va = va, !.size = size]
  <2>2. rec \in SlotRecord
    BY EmptyIsRecord DEF SlotRecord
  <2>3. AllocSlot(FindFree, rec)
    BY <1>2 DEF CommitFresh
  <2> HIDE DEF rec
  <2> QED
    BY <2>1, <2>2, <2>3, AllocKeeps DEF SlotInv
<1>3. CASE CommitLost
  BY <1>3 DEF CommitLost, slotVars, Used
<1> QED
  BY <1>1, <1>2, <1>3 DEF ReservationSet

LEMMA FreeDropsOne ==
  ASSUME SlotInv, NEW idx, FreeSlot(idx)
  PROVE  Used \ {idx} \subseteq Used'
  BY FreeKeeps DEF SlotInv

(* A write to a slot leaves it in use.                                     *)
LEMMA WriteKeepsSlots ==
  ASSUME SlotInv, NEW h \in Handle, BindCreate(h) \/ ClearHandle(h)
  PROVE  Used' = Used
<1>1. ASSUME NEW idx, NEW rec, WriteSlot(idx, rec), idx \in Used => rec.gen = slots[idx].gen
      PROVE  Used' = Used
  BY <1>1, UsedIsIndex DEF WriteSlot, SlotInv, SlotTypeOK, Used
<1>2. CASE BindCreate(h)
  <2> DEFINE rec == [slots[CreateTarget] EXCEPT !.hasHandle = TRUE, !.handle = h]
  <2>1. WriteSlot(CreateTarget, rec)
    BY <1>2 DEF BindCreate
  <2>2. CreateTarget \in Used => rec.gen = slots[CreateTarget].gen
    BY UsedIsIndex DEF SlotInv, SlotTypeOK, SlotRecord
  <2> HIDE DEF rec
  <2> QED
    BY <1>1, <2>1, <2>2
<1>3. CASE ClearHandle(h)
  <2> DEFINE rec == [slots[FindByHandle(h)] EXCEPT !.hasHandle = FALSE, !.handle = NoHandle,
                                                   !.mapped = FALSE]
  <2>1. WriteSlot(FindByHandle(h), rec)
    BY <1>3 DEF ClearHandle
  <2>2. FindByHandle(h) \in Used => rec.gen = slots[FindByHandle(h)].gen
    BY UsedIsIndex DEF SlotInv, SlotTypeOK, SlotRecord
  <2> HIDE DEF rec
  <2> QED
    BY <1>1, <2>1, <2>2
<1> QED
  BY <1>2, <1>3

LEMMA KeptSlotsUsed ==
  ASSUME SlotsKept
  PROVE  Used' = Used
  BY DEF SlotsKept, Used

(* No call of its own touches a buffer's neighbours.                       *)
LEMMA CallStepAlone ==
  ASSUME ClientInv, NEW t \in Thread, NEW b, b = using[t], CallStep(t)
  PROVE  /\ b \in Buffer /\ Busy(b) /\ Busy(b)'
         /\ CallFor(b) = call[t] /\ CallFor(b)' = call'[t] /\ buffer' = buffer
         /\ \A a \in Buffer \ {b} : /\ Busy(a)' <=> Busy(a)
                                    /\ Busy(a) => CallFor(a)' = CallFor(a)
<1>1. /\ CallMoves(t) /\ buffer' = buffer /\ using' = using
      /\ b \in Buffer /\ Owner[b] = t
  BY CallMove
<1>2. \A a \in Buffer \ {b} : /\ Busy(a)' <=> Busy(a)
                              /\ Busy(a) => CallFor(a)' = CallFor(a)
  BY <1>1, OthersStay
<1> QED
  BY <1>1, <1>2 DEF Busy, CallFor

LEMMA StartAlone ==
  ASSUME ClientInv, NEW t \in Thread, NEW b \in Buffer, Starts(t, b)
  PROVE  /\ ~Busy(b) /\ Busy(b)' /\ CallFor(b)' = call'[t]
         /\ \A a \in Buffer \ {b} : /\ Busy(a)' <=> Busy(a)
                                    /\ Busy(a) => CallFor(a)' = CallFor(a)
<1>1. /\ using[t] = NoBuffer /\ Owner[b] = t /\ using' = [using EXCEPT ![t] = b]
      /\ \A s \in Thread \ {t} : call'[s] = call[s]
  BY StartMove
<1>2. using'[t] = b /\ \A s \in Thread \ {t} : using'[s] = using[s]
  BY <1>1 DEF ClientInv
<1>3. \A a \in Buffer \ {b} : /\ Busy(a)' <=> Busy(a)
                              /\ Busy(a) => CallFor(a)' = CallFor(a)
  BY <1>1, <1>2, ClientAssumption, OthersStay
<1> QED
  BY <1>1, <1>2, <1>3, ClientAssumption DEF Busy, CallFor

LEMMA FinishAlone ==
  ASSUME ClientInv, NEW t \in Thread, NEW b, b = using[t], Finish(t)
  PROVE  /\ Busy(b) /\ ~Busy(b)' /\ CallFor(b) = call[t]
         /\ b \in Buffer /\ UsingOK(t)
         /\ \A a \in Buffer \ {b} : /\ buffer'[a] = buffer[a]
                                    /\ Busy(a)' <=> Busy(a)
                                    /\ Busy(a) => CallFor(a)' = CallFor(a)
<1>1. /\ b \in Buffer /\ Owner[b] = t /\ using' = [using EXCEPT ![t] = NoBuffer]
      /\ \A s \in Thread \ {t} : call'[s] = call[s]
      /\ \A a \in Buffer \ {b} : buffer'[a] = buffer[a]
  BY FinishMove
<1>2. using'[t] = NoBuffer /\ \A s \in Thread \ {t} : using'[s] = using[s]
  BY <1>1 DEF ClientInv
<1>3. \A a \in Buffer \ {b} : /\ Busy(a)' <=> Busy(a)
                              /\ Busy(a) => CallFor(a)' = CallFor(a)
  BY <1>1, <1>2, ClientAssumption, OthersStay
<1>4. UsingOK(t)
  BY DEF ClientInv
<1> QED
  BY <1>1, <1>2, <1>3, <1>4, ClientAssumption DEF Busy, CallFor

LEMMA ClaimsAtRest ==
  ASSUME ClientInv, NEW t \in Thread, Finish(t) \/ \E b \in Buffer : Starts(t, b)
  PROVE  Claims' \subseteq Claims /\ Used' = Used
<1>1. CASE Finish(t)
  <2>0. PICK b, c : b = using[t] /\ c = call[t]
    OBVIOUS
  <2>1. /\ UNCHANGED shimVars /\ c.pc = "done" /\ c.op # "none"
        /\ buffer'[b].va = IF Succeeded(c, "reserve") THEN c.va
                           ELSE IF Succeeded(c, "free") THEN NoVa ELSE buffer[b].va
    BY <1>1, <2>0, FinishMove
  <2>2. \A a \in Buffer \ {b} : Claimed(a)' <=> Claimed(a)
    BY <1>1, <2>0, FinishAlone DEF Claimed
  <2>3. Busy(b) /\ ~Busy(b)' /\ CallFor(b) = c /\ UsingOK(t) /\ b \in Buffer
    BY <1>1, <2>0, FinishAlone
  <2>5. Claimed(b)' => Claimed(b)
    <3>1. Claimed(b)' <=> buffer'[b].va # NoVa
      BY <2>3 DEF Claimed
    <3>2. CASE c.op = "reserve"
      <4>1. buffer[b].va = NoVa
        BY <2>0, <2>1, <2>3, <3>2 DEF UsingOK
      <4>2. buffer'[b].va # NoVa => Succeeded(c, "reserve")
        BY <2>1, <4>1
      <4>3. Claimed(b) <=> Pending(c) \/ Granted(c)
        BY <2>3, <3>2 DEF Claimed
      <4> QED
        BY <3>1, <4>2, <4>3 DEF Granted
    <3>3. CASE c.op # "reserve"
      <4>1. Claimed(b) <=> buffer[b].va # NoVa /\ ~Succeeded(c, "free")
        BY <2>3, <3>3 DEF Claimed
      <4>2. ~Succeeded(c, "reserve")
        BY <3>3 DEF Succeeded
      <4> QED
        BY <2>1, <3>1, <4>1, <4>2
    <3> QED
      BY <3>2, <3>3
  <2>6. Used' = Used
    BY <2>1 DEF shimVars, slotVars, Used
  <2> QED
    BY <2>2, <2>5, <2>6 DEF Claims
<1>2. ASSUME NEW b \in Buffer, Starts(t, b)
      PROVE  Claims' \subseteq Claims /\ Used' = Used
  <2>1. /\ ClientInv' /\ UNCHANGED <<shimVars, buffer>>
        /\ call'[t].pc \in {"rsv_begin", "crt_packed", "map_validate", "unm_validate",
                            "rel_validate", "fre_lookup"}
    BY <1>2, StartMove
  <2>2. \A a \in Buffer \ {b} : Claimed(a)' <=> Claimed(a)
    BY <1>2, <2>1, StartAlone DEF Claimed
  <2>3. ~Busy(b) /\ Busy(b)' /\ CallFor(b)' = call'[t]
    BY <1>2, StartAlone
  <2>4. ~Pending(call'[t]) /\ ~Granted(call'[t])
    BY <2>1 DEF Pending, Granted, Succeeded, PendingPc, GrantedPc
  <2>5. Claimed(b)' => Claimed(b)
    BY <2>1, <2>3, <2>4 DEF Claimed
  <2>6. Used' = Used
    BY <2>1 DEF shimVars, slotVars, Used
  <2> QED
    BY <2>2, <2>5, <2>6 DEF Claims
<1> QED
  BY <1>1, <1>2

(* The claims and the slots in use at each step of a call.                 *)
LEMMA ClaimsInCall ==
  ASSUME ClientInv, NEW t \in Thread, CallStep(t)
  PROVE  \/ Claims' \subseteq Claims /\ Used \subseteq Used'
         \/ \E x, y : Claims' \subseteq Claims \union {x} /\ y \notin Used /\ Used \union {y} \subseteq Used'
         \/ \E y : \E x \in Claims : Claims' \subseteq Claims \ {x} /\ Used \ {y} \subseteq Used'
<1>0. PICK b, c, d : b = using[t] /\ c = call[t] /\ d = call'[t]
  OBVIOUS
<1>1. /\ ShimInv /\ SlotInv /\ ShimStep(t) /\ CallMoves(t)
      /\ b \in Buffer /\ c.op # "reset" /\ UsingOK(t)
  BY <1>0, CallMove DEF ClientInv, ShimInv, StateOK
<1>2. c.pc # "done" /\ d.op = c.op /\ c.op # "none"
  BY <1>0, <1>1, ShimStepKeeps DEF CallMoves
<1>3. \A a \in Buffer \ {b} : Claimed(a)' <=> Claimed(a)
  BY <1>0, CallStepAlone DEF Claimed
<1>4. Claimed(b) <=> IF c.op = "reserve" THEN Pending(c) \/ Granted(c)
                     ELSE buffer[b].va # NoVa /\ ~Succeeded(c, "free")
  BY <1>0, CallStepAlone DEF Claimed
<1>5. Claimed(b)' <=> IF c.op = "reserve" THEN Pending(d) \/ Granted(d)
                      ELSE buffer[b].va # NoVa /\ ~Succeeded(d, "free")
  BY <1>0, <1>2, CallStepAlone DEF Claimed
<1>6. Claims' \subseteq Claims \union {b}
  BY <1>3 DEF Claims
<1>7. (Claimed(b)' => Claimed(b)) => Claims' \subseteq Claims
  BY <1>3 DEF Claims
<1>8. CASE Bookkeeping(t)
  <2>1. Used' = Used /\ (Claimed(b)' => Claimed(b))
    BY <1>0, <1>4, <1>5, <1>8, KeptSlotsUsed DEF Bookkeeping, QuietCall, SamePhase
  <2> QED
    BY <1>7, <2>1
<1>9. CASE RsvBegin(t) /\ ReserveBeginSlot
  <2>1. PICK i : i \notin Used /\ Used' = Used \union {i}
    BY <1>1, <1>9, BeginTakesSlot
  <2> QED
    BY <1>6, <2>1
<1>10. CASE RsvCommit(t) \/ RsvDriverCommit(t)
  <2>1. /\ c.op = "reserve" /\ Pending(c)
        /\ ReservationSet(call[t].va, call[t].sz)
    BY <1>0, <1>1, <1>10, CommitEffect
  <2>2. call[t].va \in Nat /\ call[t].sz \in Nat
    BY <1>1, AtStep DEF ShimInv
  <2>3. Used \subseteq Used'
    BY <1>1, <2>1, <2>2, CommitKeepsSlots
  <2> QED
    BY <1>4, <1>7, <2>1, <2>3
<1>11. CASE RsvRollback(t)
  <2>1. c.op = "reserve" /\ Pending(c) /\ d.pc = "done" /\ ~d.ok /\ AbortPending
    BY <1>0, <1>1, <1>11, RollbackEffect
  <2>2. ~Pending(d) /\ ~Granted(d)
    BY <2>1, PcsApart DEF Pending, Granted, Succeeded
  <2>3. Claimed(b) /\ ~Claimed(b)'
    BY <1>4, <1>5, <2>1, <2>2
  <2>4. b \in Claims /\ Claims' \subseteq Claims \ {b}
    BY <1>1, <1>3, <2>3 DEF Claims
  <2>5. Used \ {pending} \subseteq Used'
    BY <1>1, <2>1, FreeDropsOne DEF AbortPending
  <2> QED
    BY <2>4, <2>5
<1>12. CASE FreSlot(t)
  <2>1. c.op = "free" /\ Succeeded(d, "free") /\ SlotFreeByVa(call[t].va)
    BY <1>0, <1>1, <1>12, FreeEffect
  <2>2. buffer[b].va # NoVa /\ ~Succeeded(c, "free")
    BY <1>0, <1>1, <1>2, <2>1 DEF UsingOK, Succeeded
  <2>3. Claimed(b) /\ ~Claimed(b)'
    BY <1>4, <1>5, <2>1, <2>2
  <2>4. b \in Claims /\ Claims' \subseteq Claims \ {b}
    BY <1>1, <1>3, <2>3 DEF Claims
  <2>5. Used \ {FindByVa(call[t].va)} \subseteq Used'
    BY <1>1, <2>1, FreeDropsOne DEF SlotFreeByVa
  <2> QED
    BY <2>4, <2>5
<1>13. ASSUME c.op \in {"create", "release"}, Used' = Used
       PROVE  Claims' \subseteq Claims /\ Used \subseteq Used'
  <2>1. ~Succeeded(c, "free") /\ ~Succeeded(d, "free")
    BY <1>2, <1>13 DEF Succeeded
  <2> QED
    BY <1>4, <1>5, <1>7, <1>13, <2>1
<1>14. CASE \/ CrtDriver(t) /\ At(t, "crt_bind")'
            \/ CrtSnapshot(t) /\ legacyVa = NoVa
            \/ CrtOpen(t)
  <2>1. c.op \in {"create", "release"} /\ SlotsKept
    BY <1>0, <1>1, <1>14, MadeEffect, SnapshotEffect, OpenEffect
  <2> QED
    BY <1>13, <2>1, KeptSlotsUsed
<1>15. CASE CrtShare(t) \/ CrtBind(t) \/ RelClear(t)
  <2>1. /\ c.op \in {"create", "release"}
        /\ BindCreate(call[t].h) \/ ClearHandle(call[t].h)
    BY <1>0, <1>1, <1>15, BindEffect, UnbindEffect
  <2>2. call[t].h \in Handle
    BY <1>1, AtStep DEF ShimInv
  <2> QED
    BY <1>1, <1>13, <2>1, <2>2, WriteKeepsSlots
<1> QED
  BY <1>0, <1>1, <1>8, <1>9, <1>10, <1>11, <1>12, <1>14, <1>15, ShimStepKeeps

LEMMA ClaimsStayBacked ==
  ASSUME ClientInv, ClaimsBacked, [ClientNext]_clientVars
  PROVE  ClaimsBacked'
<1>1. CASE Claims' \subseteq Claims /\ Used' = Used
  BY <1>1, UsedFinite, UsedFiniteNext, StillBacked DEF ClaimsBacked
<1>2. ASSUME NEW t \in Thread, ClientStep(t)
      PROVE  ClaimsBacked'
  <2>1. CASE Finish(t) \/ \E b \in Buffer : Starts(t, b)
    BY <1>1, <2>1, ClaimsAtRest
  <2>2. CASE CallStep(t)
    BY <2>2, ClaimsInCall, UsedFinite, UsedFiniteNext, StillBacked DEF ClaimsBacked
  <2> QED
    BY <1>2, <2>1, <2>2 DEF ClientStep, Starts
<1>3. CASE UNCHANGED clientVars
  BY <1>1, <1>3
  DEF clientVars, vars, shimVars, slotVars, Claims, Claimed, Busy, CallFor, Used
<1> QED
  BY <1>2, <1>3 DEF ClientNext

(* However calls interleave: while a client holds a reservation it is not  *)
(* just giving up, g_active_slot_count is above 0, so its create, map and  *)
(* unmap calls are never turned away with no_epoch.  Two threads may mix   *)
(* up whose slot is whose, but never how many there must be.               *)
THEOREM EpochAlwaysHeld == ClientSpec => []EpochHeldWhileReserved
<1>1. ClientInit => ClaimsBacked
  <2>1. ClientInit => Claims = {} /\ Used = {}
    BY ClientAssumption
    DEF ClientInit, ShimInit, SlotInit, Claims, Claimed, Busy, NoBufferYet, Used, EmptySlot
  <2> QED
    BY <2>1, FS_EmptySet DEF ClaimsBacked
<1>2. ClientInv /\ ClaimsBacked => EpochHeldWhileReserved
  <2> SUFFICES ASSUME ClientInv, ClaimsBacked, NEW b \in Buffer, buffer[b].va # NoVa,
                      \A t \in Thread : using[t] # b
               PROVE  EpochHeld
    BY DEF EpochHeldWhileReserved
  <2>1. b \in Claims
    BY ClientAssumption DEF Claims, Claimed, Busy
  <2>2. Cardinality(Claims) \in Nat /\ Cardinality(Claims) # 0
    BY <2>1, FS_CardinalityType, FS_EmptySet DEF ClaimsBacked
  <2>3. activeCount \in Nat /\ activeCount = Cardinality(Used)
    BY DEF ClientInv, ShimInv, StateOK, SlotInv, SlotTypeOK, CountExact
  <2> QED
    BY <2>2, <2>3 DEF ClaimsBacked, EpochHeld
<1> QED
  BY <1>1, <1>2, ClientInvariant, ClaimsStayBacked, PTL DEF ClientSpec

-----------------------------------------------------------------------------
(* Memory the driver has made but the committed total does not count yet,  *)
(* or will never count: a pair for each unit of it.                        *)

Uncharged(c) == Made(c) \/ Bound(c)
Units(t, n) == {t} \X (1 .. n)
InFlight ==
  {p \in Thread \X Nat : /\ Uncharged(call[p[1]])
                         /\ p[2] \in 1 .. CreateRoundSize(call[p[1]].size)}

Ledger == IsFiniteSet(InFlight) /\ committed + Cardinality(InFlight) <= created

LEMMA UnitsCounted ==
  ASSUME NEW t, NEW n \in Nat
  PROVE  IsFiniteSet(Units(t, n)) /\ Cardinality(Units(t, n)) = n
<1>1. IsFiniteSet(1 .. n) /\ Cardinality(1 .. n) = n
  BY FS_Interval
<1>2. IsFiniteSet({t}) /\ Cardinality({t}) = 1
  BY FS_Singleton
<1>3. /\ IsFiniteSet({t} \X (1 .. n))
      /\ Cardinality({t} \X (1 .. n)) = Cardinality({t}) * Cardinality(1 .. n)
  BY <1>1, <1>2, FS_Product, Zenon
<1>4. 1 * n = n
  OBVIOUS
<1> QED
  BY <1>1, <1>2, <1>3, <1>4 DEF Units

(* InFlight when only thread t's call moves.                               *)
LEMMA InFlightMoves ==
  ASSUME ClientInv, NEW t \in Thread, \A s \in Thread \ {t} : call'[s] = call[s],
         call'[t].size = call[t].size, NEW n \in Nat, n = CreateRoundSize(call[t].size)
  PROVE  /\ (Uncharged(call'[t]) <=> Uncharged(call[t])) => InFlight' = InFlight
         /\ ~Uncharged(call[t]) /\ Uncharged(call'[t]) =>
              InFlight' = InFlight \union Units(t, n) /\ InFlight \intersect Units(t, n) = {}
         /\ Uncharged(call[t]) /\ ~Uncharged(call'[t]) =>
              InFlight' = InFlight \ Units(t, n) /\ Units(t, n) \subseteq InFlight
  BY DEF InFlight, Units

(* Outside creates nothing is in flight.                                   *)
LEMMA OnlyCreatesCharge ==
  ASSUME NEW c, StageOK(c), c.op # "create"
  PROVE  ~Uncharged(c)
  BY OpOfPc, PcsApart DEF Uncharged, Made, Bound

LEMMA LedgerInCall ==
  ASSUME ClientInv, IsFiniteSet(InFlight), NEW t \in Thread, CallStep(t)
  PROVE  /\ IsFiniteSet(InFlight')
         /\ committed' + Cardinality(InFlight') + created <= committed + Cardinality(InFlight) + created'
         /\ \/ committed' + Cardinality(InFlight') + created
                 = committed + Cardinality(InFlight) + created'
            \/ CrtSnapshot(t) /\ legacyVa = NoVa
            \/ CrtBind(t) /\ ~PackOn
<1>0. PICK c, d, n : c = call[t] /\ d = call'[t] /\ n = CreateRoundSize(c.size)
  OBVIOUS
<1>1. /\ ShimInv /\ ShimInv' /\ ShimStep(t) /\ CallMoves(t) /\ c.op # "reset"
  BY <1>0, CallMove DEF ClientInv
<1>2. /\ n \in Nat /\ d.op = c.op /\ d.size = c.size /\ StageOK(c) /\ StageOK(d)
      /\ \A s \in Thread \ {t} : call'[s] = call[s]
  <2>1. c.size \in Nat
    BY <1>0, <1>1, AtStep DEF ShimInv
  <2> QED
    BY <1>0, <1>1, <2>1, RoundUpPositive, LeafAssumption
    DEF CreateRoundSize, RoundLeafSize, CallMoves, CallsOK, ShimInv
<1>3. /\ committed \in Nat /\ created \in Nat /\ created' \in Nat
      /\ Cardinality(InFlight) \in Nat
  BY <1>1, CallMove, FS_CardinalityType
  DEF ClientInv, ShimInv, StateOK, PackInv, PackTypeOK
<1>4. created' = IF c.pc = "crt_driver" /\ d.pc = "crt_bind" THEN created + n ELSE created
  BY <1>0 DEF CallStep, At
<1>5. ASSUME Uncharged(d) <=> Uncharged(c), committed' = committed, d.pc # "crt_bind" \/ c.pc # "crt_driver"
      PROVE  /\ IsFiniteSet(InFlight')
             /\ committed' + Cardinality(InFlight') + created
                  = committed + Cardinality(InFlight) + created'
             /\ committed' + Cardinality(InFlight') + created
                  <= committed + Cardinality(InFlight) + created'
  <2>1. InFlight' = InFlight
    BY <1>0, <1>2, <1>5, InFlightMoves
  <2> QED
    BY <1>3, <1>4, <1>5, <2>1
<1>6. CASE Bookkeeping(t)
  <2>1. (Uncharged(d) <=> Uncharged(c)) /\ committed' = committed /\ (Made(d) <=> Made(c))
    BY <1>0, <1>6 DEF Bookkeeping, QuietCall, SamePhase, Uncharged
  <2>2. d.pc # "crt_bind" \/ c.pc # "crt_driver"
    BY <2>1 DEF Made
  <2> QED
    BY <1>5, <2>1, <2>2
<1>7. CASE \/ RsvBegin(t) /\ ReserveBeginSlot
           \/ RsvCommit(t) \/ RsvDriverCommit(t) \/ RsvRollback(t) \/ FreSlot(t) \/ RelClear(t)
  <2>1. c.op \in {"reserve", "free", "release"} /\ committed' = committed
    BY <1>0, <1>1, <1>7, BeginEffect, CommitEffect, RollbackEffect, FreeEffect, UnbindEffect
  <2>2. ~Uncharged(c) /\ ~Uncharged(d) /\ c.pc # "crt_driver"
    <3>1. c.op # "create" /\ d.op # "create"
      BY <1>2, <2>1
    <3>2. "crt_driver" \in CreatePc
      BY DEF CreatePc, AskedPc
    <3> QED
      BY <1>2, <3>1, <3>2, OnlyCreatesCharge, OpOfPc
  <2> QED
    BY <1>5, <2>1, <2>2
<1>8. CASE CrtDriver(t) /\ At(t, "crt_bind")'
  <2>1. /\ committed' = committed /\ c.pc = "crt_driver" /\ d.pc = "crt_bind"
    BY <1>0, <1>1, <1>8, MadeEffect DEF Made
  <2>2. ~Uncharged(c) /\ Uncharged(d)
    BY <2>1 DEF Uncharged, Made, Bound, BoundPc
  <2>3. InFlight' = InFlight \union Units(t, n) /\ InFlight \intersect Units(t, n) = {}
    BY <1>0, <1>2, <2>2, InFlightMoves
  <2>4. IsFiniteSet(InFlight') /\ Cardinality(InFlight') = Cardinality(InFlight) + n
    <3>1. /\ IsFiniteSet(InFlight \union Units(t, n))
          /\ Cardinality(InFlight \union Units(t, n)) = Cardinality(InFlight)
               + Cardinality(Units(t, n)) - Cardinality(InFlight \intersect Units(t, n))
      BY <1>2, UnitsCounted, FS_Union
    <3>2. Cardinality(Units(t, n)) = n /\ Cardinality(InFlight \intersect Units(t, n)) = 0
      BY <1>2, <2>3, UnitsCounted, FS_EmptySet
    <3> QED
      BY <1>2, <1>3, <2>3, <3>1, <3>2
  <2> QED
    BY <1>2, <1>3, <1>4, <2>1, <2>4
<1>9. ASSUME Uncharged(c), ~Uncharged(d)
      PROVE  /\ IsFiniteSet(InFlight') /\ Cardinality(InFlight') = Cardinality(InFlight) - n
  <2>1. InFlight' = InFlight \ Units(t, n) /\ Units(t, n) \subseteq InFlight
    BY <1>0, <1>2, <1>9, InFlightMoves
  <2>2. /\ IsFiniteSet(InFlight \ Units(t, n))
        /\ Cardinality(InFlight \ Units(t, n))
             = Cardinality(InFlight) - Cardinality(InFlight \intersect Units(t, n))
    BY FS_Difference
  <2>3. InFlight \intersect Units(t, n) = Units(t, n)
    BY <2>1
  <2> QED
    BY <1>2, <2>1, <2>2, <2>3, UnitsCounted
<1>10. CASE CrtShare(t) \/ CrtBind(t)
  <2>1. /\ committed' = committed /\ c.pc \in {"crt_share", "crt_bind"}
        /\ Succeeded(d, "create") \/ (CrtBind(t) /\ Bound(d))
        /\ CrtBind(t) /\ PackOn => d.pc = "crt_snapshot"
    BY <1>0, <1>1, <1>10, BindEffect
  <2>2. created' = created
    BY <1>4, <2>1
  <2>3. CASE c.pc = "crt_share"
    <3>1. CrtShare(t) /\ ~CrtBind(t)
      BY <1>0, <1>10, <2>3 DEF CrtShare, CrtBind, At
    <3>2. ~Uncharged(c) /\ ~Uncharged(d)
      BY <2>1, <2>3, <3>1, PcsApart DEF Uncharged, Made, Bound, BoundPc, Succeeded
    <3> QED
      BY <1>5, <2>1, <2>3, <3>2
  <2>4. CASE c.pc = "crt_bind"
    <3>1. CrtBind(t) /\ Uncharged(c)
      BY <1>0, <1>10, <2>4 DEF CrtShare, CrtBind, At, Uncharged, Made
    <3>2. CASE Bound(d)
      <4>1. d.pc # "crt_bind" \/ c.pc # "crt_driver"
        BY <2>4
      <4> QED
        BY <1>5, <2>1, <3>1, <3>2, <4>1 DEF Uncharged
    <3>3. CASE ~Bound(d)
      <4>1. ~PackOn /\ ~Uncharged(d)
        BY <2>1, <3>1, <3>3 DEF Uncharged, Made, Bound, BoundPc, Succeeded
      <4> QED
        BY <1>2, <1>3, <1>9, <2>1, <2>2, <3>1, <4>1
    <3> QED
      BY <3>2, <3>3
  <2> QED
    BY <2>1, <2>3, <2>4
<1>11. CASE CrtSnapshot(t) /\ legacyVa = NoVa
  <2>1. /\ committed' = committed /\ c.pc = "crt_snapshot" /\ Succeeded(d, "create")
    BY <1>0, <1>1, <1>11, SnapshotEffect
  <2>2. Uncharged(c) /\ ~Uncharged(d) /\ created' = created
    BY <1>4, <2>1 DEF Uncharged, Made, Bound, BoundPc, Succeeded
  <2> QED
    BY <1>2, <1>3, <1>9, <1>11, <2>1, <2>2
<1>12. CASE CrtOpen(t)
  <2>1. /\ committed' = committed + n /\ c.pc = "crt_open" /\ Succeeded(d, "create")
    BY <1>0, <1>1, <1>12, OpenEffect
  <2>2. Uncharged(c) /\ ~Uncharged(d) /\ created' = created
    BY <1>4, <2>1 DEF Uncharged, Made, Bound, BoundPc, Succeeded
  <2> QED
    BY <1>2, <1>3, <1>9, <2>1, <2>2
<1> QED
  BY <1>0, <1>1, <1>3, <1>6, <1>7, <1>8, <1>10, <1>11, <1>12, ShimStepKeeps

LEMMA LedgerAtRest ==
  ASSUME ClientInv, NEW t \in Thread, Finish(t) \/ \E b \in Buffer : Starts(t, b)
  PROVE  InFlight' = InFlight /\ committed' = committed /\ created' = created
<1>1. /\ \A s \in Thread \ {t} : call'[s] = call[s]
      /\ UNCHANGED <<shimVars, created>>
      /\ ~Uncharged(call[t]) /\ ~Uncharged(call'[t])
  <2>1. CASE Finish(t)
    <3>1. PICK b, c : b = using[t] /\ c = call[t]
      OBVIOUS
    <3>2. /\ \A s \in Thread \ {t} : call'[s] = call[s]
          /\ UNCHANGED <<shimVars, created>>
          /\ call[t].pc = "done" /\ call'[t].pc = "idle"
      BY <2>1, <3>1, FinishMove
    <3> QED
      BY <3>2 DEF Uncharged, Made, Bound, BoundPc
  <2>2. ASSUME NEW b \in Buffer, Starts(t, b)
        PROVE  /\ \A s \in Thread \ {t} : call'[s] = call[s]
               /\ UNCHANGED <<shimVars, created>>
               /\ ~Uncharged(call[t]) /\ ~Uncharged(call'[t])
    <3>1. /\ \A s \in Thread \ {t} : call'[s] = call[s]
          /\ UNCHANGED <<shimVars, created>> /\ call[t].op = "none"
          /\ call'[t].pc \in {"rsv_begin", "crt_packed", "map_validate", "unm_validate",
                              "rel_validate", "fre_lookup"}
      BY <2>2, StartMove
    <3>2. StageOK(call[t])
      BY DEF ClientInv, ShimInv, CallsOK
    <3>3. ~Uncharged(call[t])
      BY <3>1, <3>2, OnlyCreatesCharge
    <3> QED
      BY <3>1, <3>3 DEF Uncharged, Made, Bound, BoundPc
  <2> QED
    BY <2>1, <2>2
<1>2. InFlight' = InFlight
  BY <1>1 DEF InFlight
<1> QED
  BY <1>1, <1>2 DEF shimVars, packVars

LEMMA LedgerStaysWithin ==
  ASSUME ClientInv, Ledger, [ClientNext]_clientVars
  PROVE  Ledger'
<1>1. ASSUME NEW t \in Thread, ClientStep(t)
      PROVE  Ledger'
  <2>1. CASE Finish(t) \/ \E b \in Buffer : Starts(t, b)
    BY <2>1, LedgerAtRest DEF Ledger
  <2>2. CASE CallStep(t)
    <3>1. /\ IsFiniteSet(InFlight')
          /\ committed' + Cardinality(InFlight') + created
               <= committed + Cardinality(InFlight) + created'
      BY <2>2, LedgerInCall DEF Ledger
    <3>2. /\ committed \in Nat /\ committed' \in Nat /\ created \in Nat /\ created' \in Nat
          /\ Cardinality(InFlight) \in Nat /\ Cardinality(InFlight') \in Nat
      BY <2>2, <3>1, CallMove, FS_CardinalityType
      DEF Ledger, ClientInv, ShimInv, StateOK, PackInv, PackTypeOK
    <3> QED
      BY <3>1, <3>2 DEF Ledger
  <2> QED
    BY <1>1, <2>1, <2>2 DEF ClientStep, Starts
<1>2. CASE UNCHANGED clientVars
  BY <1>2 DEF clientVars, vars, shimVars, packVars, InFlight, Ledger
<1> QED
  BY <1>1, <1>2 DEF ClientNext

(* However calls interleave, the committed total never exceeds what the    *)
(* driver really made: what is in flight inside a cuMemCreate makes up the *)
(* difference, or more than the difference when a create's memory is never *)
(* charged because no reservation was in sight.                            *)
THEOREM TotalNeverOverstated == ClientSpec => []NeverOverstated
<1>1. ClientInit => Ledger
  <2>1. ClientInit => InFlight = {} /\ committed = 0 /\ created = 0
    BY DEF ClientInit, ShimInit, PackInit, InFlight, Uncharged, Made, Bound, BoundPc, IdleCall
  <2> QED
    BY <2>1, FS_EmptySet DEF Ledger
<1>2. ClientInv /\ Ledger => NeverOverstated
  BY FS_CardinalityType
  DEF Ledger, NeverOverstated, ClientInv, ShimInv, StateOK, PackInv, PackTypeOK
<1> QED
  BY <1>1, <1>2, ClientInvariant, LedgerStaysWithin, PTL DEF ClientSpec

-----------------------------------------------------------------------------
(* A buffer holds a handle from the step that binds it to the step that    *)
(* unbinds it.                                                             *)

HandleOf(b) ==
  IF Busy(b) /\ CallFor(b).op = "create"
  THEN IF Bound(CallFor(b)) \/ Succeeded(CallFor(b), "create") THEN CallFor(b).h ELSE NoHandle
  ELSE IF Busy(b) /\ Succeeded(CallFor(b), "release") THEN NoHandle ELSE buffer[b].h

Holders(h) == {b \in Buffer : HandleOf(b) = h}

BoundWithinHeld ==
  \A h \in Handle \ {NoHandle} :
    IsFiniteSet(Holders(h)) /\ Cardinality(SlotsBoundTo(h)) <= Cardinality(Holders(h))

LEMMA BoundFinite == \A h : IsFiniteSet(SlotsBoundTo(h)) /\ IsFiniteSet(SlotsBoundTo(h)')
<1> SUFFICES ASSUME NEW h
             PROVE  IsFiniteSet(SlotsBoundTo(h)) /\ IsFiniteSet(SlotsBoundTo(h)')
  OBVIOUS
<1>1. SlotsBoundTo(h) \subseteq Used /\ SlotsBoundTo(h)' \subseteq Used'
  BY DEF SlotsBoundTo
<1> QED
  BY <1>1, UsedFinite, UsedFiniteNext, FS_Subset

(* Reserving and freeing bind nothing.                                     *)
LEMMA ReservesBindNothing ==
  ASSUME SlotInv, NEW va \in Nat, NEW size \in Nat,
         ReserveBeginSlot \/ ReservationSet(va, size) \/ AbortPending \/ SlotFreeByVa(va),
         NEW h
  PROVE  SlotsBoundTo(h)' \subseteq SlotsBoundTo(h)
<1>1. ASSUME NEW idx \in Index \ Used, NEW rec \in SlotRecord, AllocSlot(idx, rec), ~rec.hasHandle
      PROVE  SlotsBoundTo(h)' \subseteq SlotsBoundTo(h)
  <2>1. /\ Used' = Used \union {idx} /\ ~slots'[idx].hasHandle
        /\ \A i \in Index \ {idx} : slots'[i] = slots[i]
    BY <1>1, AllocKeeps DEF SlotInv
  <2> QED
    BY <2>1, UsedIsIndex DEF SlotsBoundTo
<1>2. ASSUME NEW idx, FreeSlot(idx)
      PROVE  SlotsBoundTo(h)' \subseteq SlotsBoundTo(h)
  <2>1. Used' = Used \ {idx} /\ \A i \in Index \ {idx} : slots'[i] = slots[i]
    BY <1>2, FreeKeeps DEF SlotInv
  <2> QED
    BY <2>1, UsedIsIndex DEF SlotsBoundTo
<1>3. CASE ReserveBeginSlot
  <2>1. FindFree \in Index \ Used /\ AllocSlot(FindFree, EmptySlot)
    BY <1>3, FreeSlotIsFree DEF ReserveBeginSlot
  <2> QED
    BY <1>1, <2>1, EmptyIsRecord DEF EmptySlot
<1>4. CASE CommitFresh(va, size)
  <2> DEFINE rec == [EmptySlot EXCEPT !.va = va, !.size = size]
  <2>1. FindFree \in Index \ Used /\ AllocSlot(FindFree, rec)
    BY <1>4, FreeSlotIsFree DEF CommitFresh
  <2>2. rec \in SlotRecord /\ ~rec.hasHandle
    BY EmptyIsRecord DEF SlotRecord, EmptySlot
  <2> HIDE DEF rec
  <2> QED
    BY <1>1, <2>1, <2>2
<1>5. CASE CommitPending(va, size)
  <2>1. \A i \in Index : /\ slots'[i].gen = slots[i].gen /\ slots'[i].handle = slots[i].handle
                         /\ slots'[i].hasHandle = slots[i].hasHandle
    BY <1>5 DEF CommitPending, SlotInv, SlotTypeOK, SlotRecord
  <2> QED
    BY <2>1 DEF SlotsBoundTo, Used
<1>6. CASE CommitLost
  BY <1>6 DEF CommitLost, slotVars, SlotsBoundTo, Used
<1>7. CASE AbortPending \/ SlotFreeByVa(va)
  BY <1>2, <1>7 DEF AbortPending, SlotFreeByVa
<1> QED
  BY <1>3, <1>4, <1>5, <1>6, <1>7 DEF ReservationSet

LEMMA BindBindsOne ==
  ASSUME SlotInv, NEW g \in Handle, BindCreate(g), NEW h
  PROVE  /\ h # g => SlotsBoundTo(h)' \subseteq SlotsBoundTo(h)
         /\ \E i : SlotsBoundTo(h)' \subseteq SlotsBoundTo(h) \union {i}
<1> DEFINE rec == [slots[CreateTarget] EXCEPT !.hasHandle = TRUE, !.handle = g]
<1>1. PICK idx : idx = CreateTarget
  OBVIOUS
<1>2. WriteSlot(idx, rec)
  BY <1>1 DEF BindCreate
<1>3. idx \in Used => rec.gen = slots[idx].gen /\ rec.hasHandle /\ rec.handle = g
  BY <1>1, UsedIsIndex DEF SlotInv, SlotTypeOK, SlotRecord
<1> HIDE DEF rec
<1>4. Used' = Used
  BY WriteKeepsSlots
<1>5. /\ \A i \in Used \ {idx} : slots'[i] = slots[i]
      /\ idx \in Used => slots'[idx].handle = g
  BY <1>2, <1>3, UsedIsIndex DEF WriteSlot, SlotInv, SlotTypeOK
<1>6. h # g => SlotsBoundTo(h)' \subseteq SlotsBoundTo(h)
  BY <1>4, <1>5 DEF SlotsBoundTo
<1>7. SlotsBoundTo(h)' \subseteq SlotsBoundTo(h) \union {idx}
  BY <1>4, <1>5 DEF SlotsBoundTo
<1> QED
  BY <1>6, <1>7

LEMMA ClearUnbindsOne ==
  ASSUME SlotInv, NEW g \in Handle, ClearHandle(g), NEW h
  PROVE  /\ SlotsBoundTo(h)' \subseteq SlotsBoundTo(h)
         /\ SlotsBoundTo(g) # {} =>
              \E i \in SlotsBoundTo(g) : SlotsBoundTo(g)' \subseteq SlotsBoundTo(g) \ {i}
<1> DEFINE rec == [slots[FindByHandle(g)] EXCEPT !.hasHandle = FALSE, !.handle = NoHandle,
                                                 !.mapped = FALSE]
<1>1. PICK idx : idx = FindByHandle(g)
  OBVIOUS
<1>2. WriteSlot(idx, rec)
  BY <1>1 DEF ClearHandle
<1>3. idx \in Used => rec.gen = slots[idx].gen /\ ~rec.hasHandle
  BY <1>1, UsedIsIndex DEF SlotInv, SlotTypeOK, SlotRecord
<1> HIDE DEF rec
<1>4. Used' = Used
  BY WriteKeepsSlots
<1>5. /\ \A i \in Used \ {idx} : slots'[i] = slots[i]
      /\ idx \in Used => ~slots'[idx].hasHandle
  BY <1>2, <1>3, UsedIsIndex DEF WriteSlot, SlotInv, SlotTypeOK
<1>6. \A k : SlotsBoundTo(k)' \subseteq SlotsBoundTo(k) \ {idx}
  BY <1>4, <1>5 DEF SlotsBoundTo
<1> QED
  BY <1>1, <1>6, FoundByHandle

(* The bindings and the holders of a handle at each step of a call.        *)
LEMMA BindingsInCall ==
  ASSUME ClientInv, NEW t \in Thread, CallStep(t), NEW h \in Handle \ {NoHandle}
  PROVE  LET S == SlotsBoundTo(h)
             H == Holders(h)
         IN  /\ \E y : H' \subseteq H \union {y}
             /\ \/ S' \subseteq S /\ H \subseteq H'
                \/ \E x, y : S' \subseteq S \union {x} /\ y \notin H /\ H \union {y} \subseteq H'
                \/ \E y : \E x \in S : S' \subseteq S \ {x} /\ H \ {y} \subseteq H'
                \/ S' = {}
<1>0. PICK b, c, d : b = using[t] /\ c = call[t] /\ d = call'[t]
  OBVIOUS
<1>1. /\ ShimInv /\ SlotInv /\ ShimStep(t) /\ CallMoves(t)
      /\ b \in Buffer /\ c.op # "reset" /\ UsingOK(t)
  BY <1>0, CallMove DEF ClientInv, ShimInv, StateOK
<1>2. c.pc # "done" /\ d.op = c.op /\ c.op # "none" /\ StageOK(c) /\ StageOK(d)
  BY <1>0, <1>1, ShimStepKeeps, AtStep DEF CallMoves, CallsOK, ShimInv
<1>3. \A a \in Buffer \ {b} : HandleOf(a)' = HandleOf(a)
  BY <1>0, CallStepAlone DEF HandleOf
<1>4. HandleOf(b) = IF c.op = "create"
                    THEN IF Bound(c) THEN c.h ELSE NoHandle
                    ELSE buffer[b].h
  <2>1. ~Succeeded(c, "create") /\ ~Succeeded(c, "release")
    BY <1>2 DEF Succeeded
  <2> QED
    BY <1>0, <2>1, CallStepAlone DEF HandleOf
<1>5. HandleOf(b)' = IF c.op = "create"
                     THEN IF Bound(d) \/ Succeeded(d, "create") THEN d.h ELSE NoHandle
                     ELSE IF Succeeded(d, "release") THEN NoHandle ELSE buffer[b].h
  BY <1>0, <1>2, CallStepAlone DEF HandleOf
<1>6. /\ Holders(h)' \subseteq Holders(h) \union {b}
      /\ Holders(h) \ {b} \subseteq Holders(h)'
      /\ HandleOf(b)' = h => Holders(h)' = Holders(h) \union {b}
      /\ HandleOf(b) # h => b \notin Holders(h)
  BY <1>1, <1>3 DEF Holders
<1>7. ASSUME HandleOf(b)' = HandleOf(b)
      PROVE  Holders(h) \subseteq Holders(h)'
  BY <1>3, <1>7 DEF Holders
<1>8. CASE Bookkeeping(t)
  <2>1. SlotsBoundTo(h)' = SlotsBoundTo(h)
    BY <1>8 DEF Bookkeeping, SlotsKept, SlotsBoundTo, Used
  <2>2. /\ Bound(d) <=> Bound(c)
        /\ Bound(c) => d.h = c.h
        /\ ~Succeeded(d, "create") /\ ~Succeeded(d, "release")
    BY <1>0, <1>2, <1>8 DEF Bookkeeping, QuietCall, SamePhase, Succeeded
  <2>3. HandleOf(b)' = HandleOf(b)
    BY <1>4, <1>5, <2>2
  <2> QED
    BY <1>6, <1>7, <2>1, <2>3
<1>9. CASE \/ RsvBegin(t) /\ ReserveBeginSlot
           \/ RsvCommit(t) \/ RsvDriverCommit(t) \/ RsvRollback(t) \/ FreSlot(t)
  <2>1. /\ c.op \in {"reserve", "free"}
        /\ \/ ReserveBeginSlot \/ ReservationSet(call[t].va, call[t].sz)
           \/ AbortPending \/ SlotFreeByVa(call[t].va)
    BY <1>0, <1>1, <1>9, BeginEffect, CommitEffect, RollbackEffect, FreeEffect
  <2>2. call[t].va \in Nat /\ call[t].sz \in Nat
    BY <1>1, AtStep DEF ShimInv
  <2>3. SlotsBoundTo(h)' \subseteq SlotsBoundTo(h)
    BY <1>1, <2>1, <2>2, ReservesBindNothing
  <2>4. HandleOf(b)' = HandleOf(b)
    BY <1>2, <1>4, <1>5, <2>1 DEF Succeeded
  <2> QED
    BY <1>6, <1>7, <2>3, <2>4
<1>10. CASE \/ CrtDriver(t) /\ At(t, "crt_bind")'
            \/ CrtSnapshot(t) /\ legacyVa = NoVa
            \/ CrtOpen(t)
  <2>1. SlotsKept /\ c.op = "create"
    BY <1>0, <1>1, <1>10, MadeEffect, SnapshotEffect, OpenEffect
  <2>2. SlotsBoundTo(h)' = SlotsBoundTo(h)
    BY <2>1 DEF SlotsKept, SlotsBoundTo, Used
  <2>3. \/ ~Bound(c) /\ ~Bound(d) /\ ~Succeeded(d, "create")
        \/ Bound(c) /\ d.h = c.h /\ Succeeded(d, "create")
    <3>1. CASE CrtDriver(t) /\ At(t, "crt_bind")'
      BY <1>0, <1>1, <3>1, MadeEffect DEF Made, Bound, BoundPc, Succeeded
    <3>2. CASE CrtSnapshot(t) /\ legacyVa = NoVa
      BY <1>0, <1>1, <3>2, SnapshotEffect DEF Bound, BoundPc
    <3>3. CASE CrtOpen(t)
      BY <1>0, <1>1, <3>3, OpenEffect DEF Bound, BoundPc
    <3> QED
      BY <1>10, <3>1, <3>2, <3>3
  <2>4. HandleOf(b)' = HandleOf(b)
    BY <1>4, <1>5, <2>1, <2>3
  <2> QED
    BY <1>6, <1>7, <2>2, <2>4
<1>11. CASE CrtShare(t) \/ CrtBind(t)
  <2>1. /\ c.op = "create" /\ c.pc \in {"crt_share", "crt_bind"}
        /\ Succeeded(d, "create") \/ Bound(d)
        /\ d.h = c.h /\ BindCreate(c.h) /\ c.h \in Handle
    BY <1>0, <1>1, <1>11, BindEffect, AtStep DEF ShimInv
  <2>2. HandleOf(b) = NoHandle /\ HandleOf(b)' = c.h
    BY <1>4, <1>5, <2>1 DEF Bound, BoundPc
  <2>3. CASE h = c.h
    <3>1. \E i : SlotsBoundTo(h)' \subseteq SlotsBoundTo(h) \union {i}
      BY <1>1, <2>1, BindBindsOne
    <3>2. b \notin Holders(h) /\ Holders(h)' = Holders(h) \union {b}
      BY <1>6, <2>2, <2>3
    <3> QED
      BY <3>1, <3>2
  <2>4. CASE h # c.h
    <3>1. SlotsBoundTo(h)' \subseteq SlotsBoundTo(h)
      BY <1>1, <2>1, <2>4, BindBindsOne
    <3>2. Holders(h) \subseteq Holders(h)'
      BY <1>6, <2>2
    <3> QED
      BY <1>6, <3>1, <3>2
  <2> QED
    BY <2>3, <2>4
<1>12. CASE RelClear(t)
  <2>1. /\ c.op = "release" /\ Succeeded(d, "release") /\ ClearHandle(c.h) /\ c.h \in Handle
        /\ c.h = buffer[b].h
    BY <1>0, <1>1, <1>12, UnbindEffect, AtStep DEF ShimInv, UsingOK
  <2>2. HandleOf(b) = c.h
    BY <1>4, <2>1
  <2>3. CASE h = c.h
    <3>1. SlotsBoundTo(h)' \subseteq SlotsBoundTo(h)
      BY <1>1, <2>1, ClearUnbindsOne
    <3>2. SlotsBoundTo(h) # {} =>
            \E i \in SlotsBoundTo(h) : SlotsBoundTo(h)' \subseteq SlotsBoundTo(h) \ {i}
      BY <1>1, <2>1, <2>3, ClearUnbindsOne
    <3>3. SlotsBoundTo(h) = {} => SlotsBoundTo(h)' = {}
      BY <3>1
    <3> QED
      BY <1>6, <3>2, <3>3
  <2>4. CASE h # c.h
    <3>1. SlotsBoundTo(h)' \subseteq SlotsBoundTo(h)
      BY <1>1, <2>1, ClearUnbindsOne
    <3>2. Holders(h) \subseteq Holders(h)'
      BY <1>6, <2>2, <2>4
    <3> QED
      BY <1>6, <3>1, <3>2
  <2> QED
    BY <2>3, <2>4
<1> QED
  BY <1>0, <1>1, <1>8, <1>9, <1>10, <1>11, <1>12, ShimStepKeeps

LEMMA BindingsAtRest ==
  ASSUME ClientInv, NEW t \in Thread, Finish(t) \/ \E b \in Buffer : Starts(t, b), NEW h
  PROVE  SlotsBoundTo(h)' = SlotsBoundTo(h) /\ Holders(h)' = Holders(h)
<1>1. CASE Finish(t)
  <2>0. PICK b, c : b = using[t] /\ c = call[t]
    OBVIOUS
  <2>1. /\ UNCHANGED shimVars /\ c.pc = "done" /\ c.op # "none"
        /\ buffer'[b].h = IF Succeeded(c, "create") THEN c.h
                          ELSE IF Succeeded(c, "release") THEN NoHandle ELSE buffer[b].h
    BY <1>1, <2>0, FinishMove
  <2>2. \A a \in Buffer \ {b} : HandleOf(a)' = HandleOf(a)
    BY <1>1, <2>0, FinishAlone DEF HandleOf
  <2>3. Busy(b) /\ ~Busy(b)' /\ CallFor(b) = c /\ UsingOK(t) /\ b \in Buffer
    BY <1>1, <2>0, FinishAlone
  <2>4. HandleOf(b)' = HandleOf(b)
    <3>1. HandleOf(b)' = buffer'[b].h
      BY <2>3 DEF HandleOf
    <3>2. ~Bound(c) /\ ~(Succeeded(c, "create") /\ c.op # "create")
          /\ ~(Succeeded(c, "release") /\ c.op = "create")
      BY <2>1 DEF Bound, BoundPc, Succeeded
    <3>3. c.op = "create" => buffer[b].h = NoHandle
      BY <2>0, <2>1, <2>3 DEF UsingOK
    <3>4. HandleOf(b) = IF c.op = "create"
                        THEN IF Succeeded(c, "create") THEN c.h ELSE NoHandle
                        ELSE IF Succeeded(c, "release") THEN NoHandle ELSE buffer[b].h
      BY <2>3, <3>2 DEF HandleOf
    <3> QED
      BY <2>1, <3>1, <3>2, <3>3, <3>4
  <2> QED
    BY <2>1, <2>2, <2>4 DEF Holders, SlotsBoundTo, Used, shimVars, slotVars
<1>2. ASSUME NEW b \in Buffer, Starts(t, b)
      PROVE  SlotsBoundTo(h)' = SlotsBoundTo(h) /\ Holders(h)' = Holders(h)
  <2>1. /\ ClientInv' /\ UNCHANGED <<shimVars, buffer>>
        /\ using' = [using EXCEPT ![t] = b]
        /\ call'[t].pc \in {"rsv_begin", "crt_packed", "map_validate", "unm_validate",
                            "rel_validate", "fre_lookup"}
    BY <1>2, StartMove
  <2>2. \A a \in Buffer \ {b} : HandleOf(a)' = HandleOf(a)
    BY <1>2, <2>1, StartAlone DEF HandleOf
  <2>3. ~Busy(b) /\ Busy(b)' /\ CallFor(b)' = call'[t]
    BY <1>2, StartAlone
  <2>4. call'[t].op = "create" => buffer[b].h = NoHandle
    <3>1. UsingOK(t)' /\ using'[t] = b
      BY <2>1 DEF ClientInv
    <3> QED
      BY <2>1, <3>1 DEF UsingOK
  <2>5. ~Bound(call'[t]) /\ \A op : ~Succeeded(call'[t], op)
    BY <2>1 DEF Bound, BoundPc, Succeeded
  <2>6. HandleOf(b)' = HandleOf(b)
    BY <2>1, <2>3, <2>4, <2>5 DEF HandleOf
  <2> QED
    BY <2>1, <2>2, <2>6 DEF Holders, SlotsBoundTo, Used, shimVars, slotVars
<1> QED
  BY <1>1, <1>2

LEMMA BindingsStayHeld ==
  ASSUME ClientInv, BoundWithinHeld, [ClientNext]_clientVars
  PROVE  BoundWithinHeld'
<1> SUFFICES ASSUME NEW h \in Handle \ {NoHandle}
             PROVE  /\ IsFiniteSet(Holders(h)')
                    /\ Cardinality(SlotsBoundTo(h)') <= Cardinality(Holders(h)')
  BY DEF BoundWithinHeld
<1>1. /\ IsFiniteSet(Holders(h)) /\ Cardinality(SlotsBoundTo(h)) <= Cardinality(Holders(h))
      /\ IsFiniteSet(SlotsBoundTo(h)) /\ IsFiniteSet(SlotsBoundTo(h)')
  BY BoundFinite DEF BoundWithinHeld
<1>2. ASSUME NEW t \in Thread, ClientStep(t)
      PROVE  /\ IsFiniteSet(Holders(h)')
             /\ Cardinality(SlotsBoundTo(h)') <= Cardinality(Holders(h)')
  <2>1. CASE Finish(t) \/ \E b \in Buffer : Starts(t, b)
    BY <1>1, <2>1, BindingsAtRest
  <2>2. CASE CallStep(t)
    <3>1. IsFiniteSet(Holders(h)')
      <4>1. PICK y : Holders(h)' \subseteq Holders(h) \union {y}
        BY <2>2, BindingsInCall
      <4>2. IsFiniteSet(Holders(h) \union {y})
        BY <1>1, FS_AddElement
      <4> QED
        BY <4>1, <4>2, FS_Subset
    <3>2. CASE SlotsBoundTo(h)' = {}
      BY <3>1, <3>2, FS_EmptySet, FS_CardinalityType
    <3>3. CASE SlotsBoundTo(h)' # {}
      BY <1>1, <2>2, <3>1, <3>3, BindingsInCall, StillBacked
    <3> QED
      BY <3>1, <3>2, <3>3
  <2> QED
    BY <1>2, <2>1, <2>2 DEF ClientStep, Starts
<1>3. CASE UNCHANGED clientVars
  <2>1. UNCHANGED <<slots, using, call, buffer>>
    BY <1>3 DEF clientVars, vars, shimVars, slotVars
  <2>2. SlotsBoundTo(h)' = SlotsBoundTo(h) /\ Holders(h)' = Holders(h)
    BY <2>1 DEF SlotsBoundTo, Used, Holders, HandleOf, Busy, CallFor
  <2> QED
    BY <1>1, <2>2
<1> QED
  BY <1>2, <1>3 DEF ClientNext

(* Between calls no more slots are bound to a handle than clients hold it, *)
(* whatever calls of however many threads went before: releasing clears    *)
(* the first slot with the handle, maybe another buffer's, but always one. *)
THEOREM BindingsAlwaysHeld == ClientSpec => []BindingsHeld
<1>1. ClientInit => BoundWithinHeld
  <2> SUFFICES ASSUME ClientInit, NEW h \in Handle \ {NoHandle}
               PROVE  /\ IsFiniteSet(Holders(h))
                      /\ Cardinality(SlotsBoundTo(h)) <= Cardinality(Holders(h))
    BY DEF BoundWithinHeld
  <2>1. Holders(h) = {} /\ SlotsBoundTo(h) = {}
    BY ClientAssumption
    DEF ClientInit, ShimInit, SlotInit, Holders, HandleOf, Busy, NoBufferYet, SlotsBoundTo,
        Used, EmptySlot
  <2> QED
    BY <2>1, FS_EmptySet
<1>2. ClientInv /\ BoundWithinHeld => BindingsHeld
  <2> SUFFICES ASSUME ClientInv, BoundWithinHeld, Quiet, NEW h \in Handle \ {NoHandle}
               PROVE  Cardinality(SlotsBoundTo(h)) <= Cardinality(BuffersHolding(h))
    BY DEF BindingsHeld
  <2>1. \A t \in Thread : using[t] = NoBuffer
    BY OpOfPc, PcsApart
    DEF ClientInv, UsingOK, Quiet, Idle, ShimInv, CallsOK, StageOK, ReservePc, PendingPc,
        GrantedPc, CreatePc, AskedPc, BoundPc, MapPc, UnmapPc, ReleasePc, FreePc, ResetPc
  <2>2. \A b \in Buffer : HandleOf(b) = buffer[b].h
    BY <2>1, ClientAssumption DEF HandleOf, Busy
  <2>3. Holders(h) = BuffersHolding(h)
    BY <2>2 DEF Holders, BuffersHolding
  <2> QED
    BY <2>3 DEF BoundWithinHeld
<1> QED
  BY <1>1, <1>2, ClientInvariant, BindingsStayHeld, PTL DEF ClientSpec

-----------------------------------------------------------------------------
(* One call at a time.  With nothing between two steps of a call but its   *)
(* own steps, the lookups that link one helper of a call to the next (the  *)
(* pending index, the last slot without a handle, the legacy view) all     *)
(* find what the call put there, and what clients hold and what the shim   *)
(* keeps agree exactly and not only in number.                             *)

OneAtATime == \E t : Thread = {t}

(* A call under way and the table: a slot without an address is the one    *)
(* the call is about to fill.                                              *)
TablePlaced(c) ==
  /\ Pending(c) <=> pending >= 0
  /\ \A i \in Used : slots[i].va = NoVa => i = pending

SerialInv ==
  /\ ClientInv /\ BasesOK
  /\ \A t \in Thread : TablePlaced(call[t]) /\ AddressOK(call[t]) /\ TargetOK(call[t])

-----------------------------------------------------------------------------
(* Each step of a call leaves the table as the rest of the call needs it.  *)

(* A step that leaves the slots' use and addresses and the pending index.  *)
LEMMA PlacesKept ==
  ASSUME NEW c, NEW d, TablePlaced(c), pending' = pending, Used' = Used,
         \A i \in Used : slots'[i].va = slots[i].va, Pending(d) <=> Pending(c)
  PROVE  TablePlaced(d)'
  BY DEF TablePlaced

LEMMA BindingKeepsPlaces ==
  ASSUME SlotInv, NEW h \in Handle, BindCreate(h) \/ ClearHandle(h)
  PROVE  pending' = pending /\ Used' = Used /\ \A i \in Used : slots'[i].va = slots[i].va
<1>1. ASSUME NEW idx, NEW rec, WriteSlot(idx, rec), idx \in Used => rec.va = slots[idx].va
      PROVE  pending' = pending /\ \A i \in Used : slots'[i].va = slots[i].va
  BY <1>1, UsedIsIndex DEF WriteSlot, SlotInv, SlotTypeOK
<1>2. CASE BindCreate(h)
  <2> DEFINE rec == [slots[CreateTarget] EXCEPT !.hasHandle = TRUE, !.handle = h]
  <2>1. WriteSlot(CreateTarget, rec)
    BY <1>2 DEF BindCreate
  <2>2. CreateTarget \in Used => rec.va = slots[CreateTarget].va
    BY UsedIsIndex DEF SlotInv, SlotTypeOK, SlotRecord
  <2> HIDE DEF rec
  <2> QED
    BY <1>1, <2>1, <2>2, WriteKeepsSlots
<1>3. CASE ClearHandle(h)
  <2> DEFINE rec == [slots[FindByHandle(h)] EXCEPT !.hasHandle = FALSE, !.handle = NoHandle,
                                                   !.mapped = FALSE]
  <2>1. WriteSlot(FindByHandle(h), rec)
    BY <1>3 DEF ClearHandle
  <2>2. FindByHandle(h) \in Used => rec.va = slots[FindByHandle(h)].va
    BY UsedIsIndex DEF SlotInv, SlotTypeOK, SlotRecord
  <2> HIDE DEF rec
  <2> QED
    BY <1>1, <2>1, <2>2, WriteKeepsSlots
<1> QED
  BY <1>2, <1>3

(* What a reserve or a free does to the table, one call at a time.         *)
LEMMA BeginPlaces ==
  ASSUME SlotInv, ReserveBeginSlot, NEW c, NEW d, TablePlaced(c), ~Pending(c), Pending(d)
  PROVE  /\ TablePlaced(d)'
         /\ \A va \in Nat \ {NoVa} : SlotsAt(va)' = SlotsAt(va)
<1>1. FindFree \in Index \ Used /\ AllocSlot(FindFree, EmptySlot) /\ pending' = FindFree
  BY FreeSlotIsFree DEF ReserveBeginSlot
<1>2. /\ Used' = Used \union {FindFree} /\ slots'[FindFree].va = NoVa
      /\ \A i \in Index \ {FindFree} : slots'[i] = slots[i]
  BY <1>1, AllocKeeps, EmptyIsRecord DEF SlotInv, EmptySlot
<1>3. pending' >= 0 /\ ~(pending >= 0)
  BY <1>1 DEF ReserveBeginSlot, TablePlaced
<1>4. \A i \in Used : slots[i].va # NoVa
  BY <1>3, UsedIsIndex, IndexIsNat DEF TablePlaced
<1>5. TablePlaced(d)'
  BY <1>1, <1>2, <1>3, <1>4, UsedIsIndex DEF TablePlaced
<1>6. \A va \in Nat \ {NoVa} : SlotsAt(va)' = SlotsAt(va)
  BY <1>1, <1>2, UsedIsIndex DEF SlotsAt
<1> QED
  BY <1>5, <1>6

LEMMA CommitPlaces ==
  ASSUME SlotInv, NEW va \in Nat \ {NoVa}, NEW size \in Nat, ReservationSet(va, size),
         NEW c, NEW d, TablePlaced(c), Pending(c), ~Pending(d)
  PROVE  /\ TablePlaced(d)'
         /\ pending \notin SlotsAt(va) /\ SlotsAt(va)' = SlotsAt(va) \union {pending}
         /\ \A v \in Nat \ {NoVa, va} : SlotsAt(v)' = SlotsAt(v)
<1>1. pending \in Used /\ slots[pending].va = NoVa
  BY DEF TablePlaced, SlotInv, PendingVirgin
<1>2. CommitPending(va, size)
  BY <1>1 DEF ReservationSet, CommitFresh, CommitLost
<1>3. /\ pending' = -1
      /\ \A i \in Index : /\ slots'[i].gen = slots[i].gen
                           /\ slots'[i].va = IF i = pending THEN va ELSE slots[i].va
  BY <1>2 DEF CommitPending, SlotInv, SlotTypeOK, SlotRecord
<1>4. Used' = Used
  BY <1>3 DEF Used
<1>5. TablePlaced(d)'
  BY <1>1, <1>3, <1>4, UsedIsIndex DEF TablePlaced
<1> QED
  BY <1>1, <1>3, <1>4, <1>5, UsedIsIndex DEF SlotsAt

LEMMA RollbackPlaces ==
  ASSUME SlotInv, AbortPending, NEW c, NEW d, TablePlaced(c), Pending(c), ~Pending(d)
  PROVE  /\ TablePlaced(d)'
         /\ \A va \in Nat \ {NoVa} : SlotsAt(va)' = SlotsAt(va)
<1>1. pending \in Used /\ slots[pending].va = NoVa
  BY DEF TablePlaced, SlotInv, PendingVirgin
<1>2. /\ Used' = Used \ {pending} /\ pending' = -1
      /\ \A i \in Index \ {pending} : slots'[i] = slots[i]
  BY FreeKeeps DEF AbortPending, SlotInv
<1>3. TablePlaced(d)'
  BY <1>2, UsedIsIndex DEF TablePlaced
<1> QED
  BY <1>1, <1>2, <1>3, UsedIsIndex DEF SlotsAt

LEMMA FreePlaces ==
  ASSUME SlotInv, NEW va, SlotFreeByVa(va), NEW c, NEW d, TablePlaced(c),
         ~Pending(c), ~Pending(d)
  PROVE  /\ TablePlaced(d)'
         /\ SlotsAt(va) # {} => \E i \in SlotsAt(va) : SlotsAt(va)' = SlotsAt(va) \ {i}
         /\ \A v : v # va => SlotsAt(v)' = SlotsAt(v)
<1>0. PICK idx : idx = FindByVa(va)
  OBVIOUS
<1>1. /\ Used' = Used \ {idx}
      /\ \A i \in Index \ {idx} : slots'[i] = slots[i]
  BY <1>0, FreeKeeps DEF SlotFreeByVa, SlotInv
<1>2. pending = -1 /\ pending' = -1
  <2>1. pending = -1
    BY SlotAssumption DEF TablePlaced, SlotInv, SlotTypeOK
  <2>2. pending \notin Used
    BY <2>1, UsedIsIndex, IndexIsNat
  <2> QED
    BY <2>1, <2>2 DEF SlotFreeByVa
<1>3. TablePlaced(d)'
  BY <1>1, <1>2, UsedIsIndex DEF TablePlaced
<1>4. /\ SlotsAt(va) # {} => idx \in SlotsAt(va)
      /\ SlotsAt(va) = {} => idx = -1
      /\ -1 \notin Index
  BY <1>0, FoundByVa, IndexIsNat DEF SlotsAt
<1>5. \A v : SlotsAt(v)' = SlotsAt(v) \ {idx}
  BY <1>1, UsedIsIndex DEF SlotsAt
<1>6. \A v : v # va => idx \notin SlotsAt(v)
  BY <1>4, UsedIsIndex DEF SlotsAt
<1> QED
  BY <1>3, <1>4, <1>5, <1>6

-----------------------------------------------------------------------------
(* A buffer holds an address from the step that commits it to a slot to    *)
(* the step that frees the slot.                                           *)

VaOf(b) ==
  IF Busy(b) /\ CallFor(b).op = "reserve"
  THEN IF Granted(CallFor(b)) THEN CallFor(b).va ELSE NoVa
  ELSE IF Busy(b) /\ Succeeded(CallFor(b), "free") THEN NoVa ELSE buffer[b].va

ClaimsAt(va) == {b \in Buffer : VaOf(b) = va}

SlotsMatch ==
  \A va \in Nat \ {NoVa} :
    IsFiniteSet(ClaimsAt(va)) /\ Cardinality(SlotsAt(va)) = Cardinality(ClaimsAt(va))

(* Two sets that stay, gain one or lose one together: C to D, S to T.      *)
EvenlyMoved(S, T, C, D) ==
  \/ T = S /\ D = C
  \/ \E x, y : x \notin S /\ T = S \union {x} /\ y \notin C /\ D = C \union {y}
  \/ \E y \in C : D = C \ {y} /\ (S # {} => \E x \in S : T = S \ {x})

LEMMA StillMatched ==
  ASSUME NEW C, NEW D, NEW S, NEW T, IsFiniteSet(C), IsFiniteSet(S),
         Cardinality(S) = Cardinality(C), EvenlyMoved(S, T, C, D)
  PROVE  IsFiniteSet(D) /\ Cardinality(T) = Cardinality(D)
<1>1. Cardinality(C) \in Nat /\ Cardinality(S) \in Nat
  BY FS_CardinalityType
<1>2. CASE \E x, y : x \notin S /\ T = S \union {x} /\ y \notin C /\ D = C \union {y}
  <2>1. PICK x, y : x \notin S /\ T = S \union {x} /\ y \notin C /\ D = C \union {y}
    BY <1>2
  <2>2. Cardinality(T) = IF x \in S THEN Cardinality(S) ELSE Cardinality(S) + 1
    BY <2>1, FS_AddElement
  <2>3. /\ IsFiniteSet(D)
        /\ Cardinality(D) = IF y \in C THEN Cardinality(C) ELSE Cardinality(C) + 1
    BY <2>1, FS_AddElement
  <2> QED
    BY <2>1, <2>2, <2>3
<1>3. CASE \E y \in C : D = C \ {y} /\ (S # {} => \E x \in S : T = S \ {x})
  <2>1. PICK y \in C : D = C \ {y} /\ (S # {} => \E x \in S : T = S \ {x})
    BY <1>3
  <2>2. S # {}
    BY <1>1, <2>1, FS_EmptySet
  <2>3. PICK x \in S : T = S \ {x}
    BY <2>1, <2>2
  <2>4. Cardinality(T) = IF x \in S THEN Cardinality(S) - 1 ELSE Cardinality(S)
    BY <2>3, FS_RemoveElement
  <2>5. /\ IsFiniteSet(D)
        /\ Cardinality(D) = IF y \in C THEN Cardinality(C) - 1 ELSE Cardinality(C)
    BY <2>1, FS_RemoveElement
  <2> QED
    BY <2>1, <2>3, <2>4, <2>5
<1> QED
  BY <1>2, <1>3 DEF EvenlyMoved

Together(va) == EvenlyMoved(SlotsAt(va), SlotsAt(va)', ClaimsAt(va), ClaimsAt(va)')

LEMMA PlacesInCall ==
  ASSUME SerialInv, NEW t \in Thread, CallStep(t), NEW d, d = call'[t]
  PROVE  TablePlaced(d)' /\ \A va \in Nat \ {NoVa} : Together(va)
<1>0. PICK b, c : b = using[t] /\ c = call[t]
  OBVIOUS
<1>1. /\ ClientInv /\ ShimInv /\ SlotInv /\ ShimStep(t) /\ CallMoves(t)
      /\ b \in Buffer /\ c.op # "reset" /\ UsingOK(t)
      /\ TablePlaced(c) /\ AddressOK(c)
  BY <1>0, CallMove DEF SerialInv, ClientInv, ShimInv, StateOK
<1>2. c.pc # "done" /\ d.op = c.op /\ c.op # "none" /\ StageOK(c) /\ StageOK(d)
  BY <1>0, <1>1, ShimStepKeeps, AtStep DEF CallMoves, CallsOK, ShimInv
<1>3. \A a \in Buffer \ {b} : VaOf(a)' = VaOf(a)
  BY <1>0, <1>1, CallStepAlone DEF VaOf
<1>4. VaOf(b) = IF c.op = "reserve" THEN IF Granted(c) THEN c.va ELSE NoVa
                ELSE buffer[b].va
  <2>1. ~Succeeded(c, "free")
    BY <1>2 DEF Succeeded
  <2> QED
    BY <1>0, <1>1, <2>1, CallStepAlone DEF VaOf
<1>5. VaOf(b)' = IF c.op = "reserve" THEN IF Granted(d) THEN d.va ELSE NoVa
                 ELSE IF Succeeded(d, "free") THEN NoVa ELSE buffer[b].va
  BY <1>0, <1>1, <1>2, CallStepAlone DEF VaOf
<1>6. ASSUME VaOf(b)' = VaOf(b)
      PROVE  \A va : ClaimsAt(va)' = ClaimsAt(va)
  BY <1>3, <1>6 DEF ClaimsAt
<1>7. ASSUME VaOf(b)' = VaOf(b), \A va \in Nat \ {NoVa} : SlotsAt(va)' = SlotsAt(va)
      PROVE  \A va \in Nat \ {NoVa} : Together(va)
  BY <1>6, <1>7 DEF Together, EvenlyMoved
<1>8. ASSUME c.op # "reserve" PROVE ~Pending(c) /\ ~Pending(d)
  BY <1>2, <1>8, GrantedOnlyInReserves
<1>9. ASSUME pending' = pending, Used' = Used, \A i \in Used : slots'[i].va = slots[i].va
      PROVE  \A va \in Nat \ {NoVa} : SlotsAt(va)' = SlotsAt(va)
  BY <1>9 DEF SlotsAt
<1>10. CASE Bookkeeping(t)
  <2>1. pending' = pending /\ Used' = Used /\ \A i \in Used : slots'[i].va = slots[i].va
    BY <1>10, KeptSlotsUsed, UsedIsIndex DEF Bookkeeping, SlotsKept
  <2>2. SamePhase(c, d)
    BY <1>0, <1>10 DEF Bookkeeping, QuietCall
  <2>3. TablePlaced(d)'
    BY <1>1, <2>1, <2>2, PlacesKept DEF SamePhase
  <2>4. VaOf(b)' = VaOf(b)
    BY <1>2, <1>4, <1>5, <2>2 DEF SamePhase, Succeeded
  <2> QED
    BY <1>7, <1>9, <2>1, <2>3, <2>4
<1>11. CASE RsvBegin(t) /\ ReserveBeginSlot
  <2>1. c.op = "reserve" /\ c.pc = "rsv_begin" /\ d.pc = "rsv_req"
    BY <1>0, <1>1, <1>11, BeginEffect
  <2>2. ~Pending(c) /\ Pending(d) /\ ~Granted(c) /\ ~Granted(d)
    BY <2>1 DEF Pending, PendingPc, Granted, GrantedPc, Succeeded
  <2>3. TablePlaced(d)' /\ \A va \in Nat \ {NoVa} : SlotsAt(va)' = SlotsAt(va)
    BY <1>1, <1>11, <2>2, BeginPlaces
  <2> QED
    BY <1>4, <1>5, <1>7, <2>1, <2>2, <2>3
<1>12. CASE RsvCommit(t) \/ RsvDriverCommit(t)
  <2>1. /\ c.op = "reserve" /\ Pending(c) /\ Granted(d) /\ d.va = c.va
        /\ c.pc \in {"rsv_commit", "rsv_dcommit"} /\ ReservationSet(c.va, c.sz)
    BY <1>0, <1>1, <1>12, CommitEffect
  <2>2. c.va \in Nat \ {NoVa} /\ c.sz \in Nat
    BY <1>0, <1>1, <2>1, AtStep DEF ShimInv, AddressOK
  <2>3. ~Pending(d) /\ ~Granted(c)
    BY <1>2, <2>1, PcsApart DEF Pending, Granted, Succeeded
  <2>4. /\ TablePlaced(d)'
        /\ pending \notin SlotsAt(c.va) /\ SlotsAt(c.va)' = SlotsAt(c.va) \union {pending}
        /\ \A v \in Nat \ {NoVa, c.va} : SlotsAt(v)' = SlotsAt(v)
    BY <1>1, <2>1, <2>2, <2>3, CommitPlaces
  <2>5. VaOf(b) = NoVa /\ VaOf(b)' = c.va
    BY <1>4, <1>5, <2>1, <2>3
  <2>6. Together(c.va)
    <3>1. b \notin ClaimsAt(c.va) /\ ClaimsAt(c.va)' = ClaimsAt(c.va) \union {b}
      BY <1>1, <1>3, <2>2, <2>5 DEF ClaimsAt
    <3> QED
      BY <2>4, <3>1 DEF Together, EvenlyMoved
  <2>7. ASSUME NEW v \in Nat \ {NoVa, c.va} PROVE Together(v)
    <3>1. ClaimsAt(v)' = ClaimsAt(v)
      BY <1>3, <2>5, <2>7 DEF ClaimsAt
    <3> QED
      BY <2>4, <3>1 DEF Together, EvenlyMoved
  <2> QED
    BY <2>4, <2>6, <2>7
<1>13. CASE RsvRollback(t)
  <2>1. c.op = "reserve" /\ Pending(c) /\ d.pc = "done" /\ ~d.ok /\ AbortPending
    BY <1>0, <1>1, <1>13, RollbackEffect
  <2>2. ~Pending(d) /\ ~Granted(d) /\ ~Granted(c)
    BY <1>2, <2>1, PcsApart DEF Pending, Granted, Succeeded
  <2>3. TablePlaced(d)' /\ \A va \in Nat \ {NoVa} : SlotsAt(va)' = SlotsAt(va)
    BY <1>1, <2>1, <2>2, RollbackPlaces
  <2> QED
    BY <1>4, <1>5, <1>7, <2>1, <2>2, <2>3
<1>14. CASE FreSlot(t)
  <2>1. c.op = "free" /\ Succeeded(d, "free") /\ SlotFreeByVa(c.va)
    BY <1>0, <1>1, <1>14, FreeEffect
  <2>2. c.va = buffer[b].va /\ c.va # NoVa
    BY <1>0, <1>1, <2>1 DEF UsingOK
  <2>3. /\ TablePlaced(d)'
        /\ SlotsAt(c.va) # {} =>
             \E i \in SlotsAt(c.va) : SlotsAt(c.va)' = SlotsAt(c.va) \ {i}
        /\ \A v : v # c.va => SlotsAt(v)' = SlotsAt(v)
    BY <1>1, <1>8, <2>1, FreePlaces
  <2>4. VaOf(b) = c.va /\ VaOf(b)' = NoVa
    BY <1>4, <1>5, <2>1, <2>2
  <2>5. Together(c.va)
    <3>1. b \in ClaimsAt(c.va) /\ ClaimsAt(c.va)' = ClaimsAt(c.va) \ {b}
      BY <1>1, <1>3, <2>2, <2>4 DEF ClaimsAt
    <3> QED
      BY <2>3, <3>1 DEF Together, EvenlyMoved
  <2>6. ASSUME NEW v \in Nat \ {NoVa}, v # c.va PROVE Together(v)
    <3>1. ClaimsAt(v)' = ClaimsAt(v)
      BY <1>3, <2>4, <2>6 DEF ClaimsAt
    <3> QED
      BY <2>3, <2>6, <3>1 DEF Together, EvenlyMoved
  <2> QED
    BY <2>3, <2>5, <2>6
<1>15. ASSUME c.op \in {"create", "release"}, pending' = pending, Used' = Used,
              \A i \in Used : slots'[i].va = slots[i].va
       PROVE  TablePlaced(d)' /\ \A va \in Nat \ {NoVa} : Together(va)
  <2>1. TablePlaced(d)'
    BY <1>1, <1>8, <1>15, PlacesKept
  <2>2. VaOf(b)' = VaOf(b)
    BY <1>2, <1>4, <1>5, <1>15 DEF Succeeded
  <2> QED
    BY <1>7, <1>9, <1>15, <2>1, <2>2
<1>16. CASE \/ CrtDriver(t) /\ At(t, "crt_bind")'
            \/ CrtSnapshot(t) /\ legacyVa = NoVa
            \/ CrtOpen(t)
  <2>1. c.op = "create" /\ SlotsKept
    BY <1>0, <1>1, <1>16, MadeEffect, SnapshotEffect, OpenEffect
  <2>2. pending' = pending /\ Used' = Used /\ \A i \in Used : slots'[i].va = slots[i].va
    BY <2>1, KeptSlotsUsed, UsedIsIndex DEF SlotsKept
  <2> QED
    BY <1>15, <2>1, <2>2
<1>17. CASE CrtShare(t) \/ CrtBind(t) \/ RelClear(t)
  <2>1. /\ c.op \in {"create", "release"}
        /\ BindCreate(call[t].h) \/ ClearHandle(call[t].h)
    BY <1>0, <1>1, <1>17, BindEffect, UnbindEffect
  <2>2. call[t].h \in Handle
    BY <1>1, AtStep DEF ShimInv
  <2>3. pending' = pending /\ Used' = Used /\ \A i \in Used : slots'[i].va = slots[i].va
    BY <1>1, <2>1, <2>2, BindingKeepsPlaces
  <2> QED
    BY <1>15, <2>1, <2>3
<1> QED
  BY <1>0, <1>1, <1>10, <1>11, <1>12, <1>13, <1>14, <1>16, <1>17, ShimStepKeeps

(* A create finds its slot again at every step.                            *)
LEMMA TargetsInCall ==
  ASSUME ShimInv, ShimInv', NEW t \in Thread, ShimStep(t), CallMoves(t), TargetOK(call[t]),
         NEW d, d = call'[t]
  PROVE  TargetOK(d)'
<1>0. PICK c : c = call[t]
  OBVIOUS
<1>1. /\ c \in CallRecord /\ StageOK(c) /\ StageOK(d) /\ d.op = c.op
      /\ call \in [Thread -> CallRecord]
      /\ SlotInv
  BY <1>0, AtStep DEF CallMoves, CallsOK, ShimInv, StateOK
<1>2. ASSUME d.pc \notin {"crt_driver", "crt_bind", "crt_snapshot", "crt_open"}
      PROVE  TargetOK(d)'
  BY <1>2 DEF TargetOK
<1>3. CASE c.op # "create"
  <2>1. d.pc \notin CreatePc
    BY <1>1, <1>3, OpOfPc
  <2> QED
    BY <1>2, <2>1 DEF CreatePc, AskedPc, BoundPc
<1>4. ASSUME NEW q, Goto(t, q) PROVE d.pc = q /\ d.va = c.va
  BY <1>0, <1>1, <1>4 DEF Goto, CallRecord
<1>5. ASSUME NEW ok, Return(t, ok) PROVE d.pc = "done"
  BY <1>0, <1>1, <1>5 DEF Return, CallRecord
<1>6. ASSUME UNCHANGED slotVars PROVE FindPendingCreate' = FindPendingCreate
  BY <1>6 DEF slotVars, FindPendingCreate, Used
<1>7. CASE CreateStep(t)
  <2>1. CASE CrtPacked(t) \/ CrtRetain(t) \/ CrtShare(t) \/ CrtOpen(t)
    <3>1. \/ call' = [call EXCEPT ![t].pc = "crt_retain", ![t].h = arena.handle]
          \/ \E q \in {"crt_validate", "crt_share"} : Goto(t, q)
          \/ Return(t, TRUE)
      BY <2>1 DEF CrtPacked, CrtRetain, CrtShare, CrtOpen
    <3>2. call' = [call EXCEPT ![t].pc = "crt_retain", ![t].h = arena.handle] => d.pc = "crt_retain"
      BY <1>1 DEF CallRecord
    <3> QED
      BY <1>2, <1>4, <1>5, <3>1, <3>2
  <2>2. CASE CrtValidate(t)
    <3>1. UNCHANGED slotVars
      BY <2>2 DEF CrtValidate, OnlyCall, shimVars
    <3>2. CASE FindPendingCreate >= 0 /\ Goto(t, "crt_driver")
      BY <1>4, <1>6, <3>1, <3>2 DEF TargetOK
    <3>3. CASE Return(t, FALSE)
      BY <1>2, <1>5, <3>3
    <3> QED
      BY <2>2, <3>2, <3>3 DEF CrtValidate
  <2>3. CASE CrtDriver(t)
    <3>1. UNCHANGED slotVars /\ c.pc = "crt_driver"
      BY <1>0, <2>3 DEF CrtDriver, OnlyDriver, shimVars, At
    <3>2. CASE \E h : call' = [call EXCEPT ![t].pc = "crt_bind", ![t].h = h]
      <4>1. d.pc = "crt_bind"
        BY <1>1, <3>2 DEF CallRecord
      <4> QED
        BY <1>0, <1>6, <3>1, <4>1 DEF TargetOK
    <3>3. CASE Return(t, FALSE)
      BY <1>2, <1>5, <3>3
    <3> QED
      BY <2>3, <3>2, <3>3 DEF CrtDriver
  <2>4. CASE CrtBind(t)
    <3>1. CASE Return(t, TRUE)
      BY <1>2, <1>5, <3>1
    <3>2. CASE Goto(t, "crt_snapshot")
      <4>1. FindPendingCreate >= 0 /\ BindCreate(c.h) /\ c.h \in Handle
        BY <1>0, <1>1, <2>4 DEF CrtBind, At, TargetOK, CallRecord
      <4>2. CreateTarget \in Used /\ slots[CreateTarget].va # NoVa
        BY <4>1, FoundPendingCreate DEF CreateTarget
      <4>3. \A i \in Used : slots'[i].va = slots[i].va
        BY <1>1, <4>1, BindingKeepsPlaces
      <4>4. legacyVa' # NoVa
        BY <4>1, <4>2, <4>3 DEF BindCreate, SyncLegacy
      <4> QED
        BY <1>4, <3>2, <4>4 DEF TargetOK
    <3> QED
      BY <2>4, <3>1, <3>2 DEF CrtBind
  <2>5. CASE CrtSnapshot(t)
    <3>1. CASE legacyVa # NoVa /\ call' = [call EXCEPT ![t].pc = "crt_open", ![t].va = legacyVa]
      <4>1. d.pc = "crt_open" /\ d.va = legacyVa
        BY <1>1, <3>1 DEF CallRecord
      <4>2. legacyVa' = legacyVa
        BY <2>5 DEF CrtSnapshot, OnlyCall, shimVars, slotVars
      <4> QED
        BY <3>1, <4>1, <4>2 DEF TargetOK
    <3>2. CASE Return(t, TRUE)
      BY <1>2, <1>5, <3>2
    <3> QED
      BY <2>5, <3>1, <3>2 DEF CrtSnapshot
  <2> QED
    BY <1>7, <2>1, <2>2, <2>3, <2>4, <2>5 DEF CreateStep
<1> QED
  BY <1>0, <1>3, <1>7, StepOfOp DEF ShimInv

-----------------------------------------------------------------------------
(* The invariant of clients that make one call at a time.                  *)

LEMMA SerialStart == ClientInit => SerialInv
<1> SUFFICES ASSUME ClientInit PROVE SerialInv
  OBVIOUS
<1>1. ClientInv
  BY ClientsStart
<1>2. BasesOK
  BY DEF ClientInit, ShimInit, PackInit, NoArena, GqaInit, BasesOK
<1>3. pending = -1 /\ Used = {}
  BY DEF ClientInit, ShimInit, SlotInit, Used, EmptySlot
<1>4. ASSUME NEW t \in Thread
      PROVE  TablePlaced(call[t]) /\ AddressOK(call[t]) /\ TargetOK(call[t])
  <2>1. call[t].pc = "idle"
    BY DEF ClientInit, ShimInit, IdleCall
  <2> QED
    BY <1>3, <2>1
    DEF TablePlaced, AddressOK, TargetOK, Pending, PendingPc, Granted, GrantedPc, Succeeded
<1> QED
  BY <1>1, <1>2, <1>4 DEF SerialInv

(* Entering and leaving a call leave the table as it is.                   *)
LEMMA SerialAtRest ==
  ASSUME SerialInv, NEW t \in Thread, Finish(t) \/ \E b \in Buffer : Starts(t, b),
         NEW d, d = call'[t]
  PROVE  /\ ClientInv' /\ BasesOK'
         /\ TablePlaced(d)' /\ AddressOK(d) /\ TargetOK(d)'
         /\ \A va : ClaimsAt(va)' = ClaimsAt(va) /\ SlotsAt(va)' = SlotsAt(va)
<1>0. PICK c : c = call[t]
  OBVIOUS
<1>1. ClientInv /\ BasesOK /\ TablePlaced(c) /\ StageOK(c)
  BY <1>0 DEF SerialInv, ClientInv, ShimInv, CallsOK
<1>2. ASSUME UNCHANGED shimVars
      PROVE  /\ BasesOK' /\ pending' = pending /\ Used' = Used
             /\ \A i \in Used : slots'[i].va = slots[i].va
             /\ \A va : SlotsAt(va)' = SlotsAt(va)
  BY <1>1, <1>2 DEF shimVars, slotVars, packVars, BasesOK, Used, SlotsAt
<1>3. ASSUME d.pc \in {"idle", "rsv_begin", "crt_packed", "map_validate", "unm_validate",
                       "rel_validate", "fre_lookup"}
      PROVE  ~Pending(d) /\ ~Granted(d) /\ AddressOK(d) /\ TargetOK(d)'
  BY <1>3 DEF Pending, PendingPc, Granted, GrantedPc, Succeeded, AddressOK, TargetOK
<1>4. CASE Finish(t)
  <2>0. PICK b : b = using[t]
    OBVIOUS
  <2>1. /\ ClientInv' /\ UNCHANGED shimVars /\ c.pc = "done" /\ c.op # "none"
        /\ d.pc = "idle"
        /\ buffer'[b].va = IF Succeeded(c, "reserve") THEN c.va
                           ELSE IF Succeeded(c, "free") THEN NoVa ELSE buffer[b].va
    BY <1>0, <1>1, <1>4, <2>0, FinishMove
  <2>2. ~Pending(c) /\ ~Pending(d) /\ AddressOK(d) /\ TargetOK(d)'
    BY <1>3, <2>1 DEF Pending, PendingPc
  <2>3. TablePlaced(d)'
    BY <1>1, <1>2, <2>1, <2>2, PlacesKept
  <2>4. Busy(b) /\ ~Busy(b)' /\ CallFor(b) = c /\ UsingOK(t) /\ b \in Buffer
    BY <1>0, <1>1, <1>4, <2>0, FinishAlone
  <2>5. \A a \in Buffer \ {b} : VaOf(a)' = VaOf(a)
    BY <1>1, <1>4, <2>0, FinishAlone DEF VaOf
  <2>6. VaOf(b)' = VaOf(b)
    <3>1. VaOf(b)' = buffer'[b].va
      BY <2>4 DEF VaOf
    <3>2. CASE c.op = "reserve"
      <4>1. buffer[b].va = NoVa
        BY <1>0, <2>0, <2>4, <3>2 DEF UsingOK
      <4>2. Granted(c) <=> Succeeded(c, "reserve")
        BY <2>1 DEF Granted, GrantedPc
      <4>3. ~Succeeded(c, "free")
        BY <3>2 DEF Succeeded
      <4>4. VaOf(b) = IF Granted(c) THEN c.va ELSE NoVa
        BY <2>4, <3>2 DEF VaOf
      <4> QED
        BY <2>1, <3>1, <4>1, <4>2, <4>3, <4>4
    <3>3. CASE c.op # "reserve"
      <4>1. VaOf(b) = IF Succeeded(c, "free") THEN NoVa ELSE buffer[b].va
        BY <2>4, <3>3 DEF VaOf
      <4>2. ~Succeeded(c, "reserve")
        BY <3>3 DEF Succeeded
      <4> QED
        BY <2>1, <3>1, <4>1, <4>2
    <3> QED
      BY <3>2, <3>3
  <2>7. \A va : ClaimsAt(va)' = ClaimsAt(va)
    BY <2>5, <2>6 DEF ClaimsAt
  <2> QED
    BY <1>2, <2>1, <2>2, <2>3, <2>7
<1>5. ASSUME NEW b \in Buffer, Starts(t, b)
      PROVE  /\ ClientInv' /\ BasesOK'
             /\ TablePlaced(d)' /\ AddressOK(d) /\ TargetOK(d)'
             /\ \A va : ClaimsAt(va)' = ClaimsAt(va) /\ SlotsAt(va)' = SlotsAt(va)
  <2>1. /\ ClientInv' /\ UNCHANGED <<shimVars, buffer>> /\ c.op = "none"
        /\ using' = [using EXCEPT ![t] = b]
        /\ d.pc \in {"rsv_begin", "crt_packed", "map_validate", "unm_validate",
                     "rel_validate", "fre_lookup"}
    BY <1>0, <1>1, <1>5, StartMove
  <2>2. ~Pending(d) /\ ~Granted(d) /\ AddressOK(d) /\ TargetOK(d)'
    BY <1>3, <2>1
  <2>3. ~Pending(c)
    BY <1>1, <2>1, GrantedOnlyInReserves
  <2>4. TablePlaced(d)'
    BY <1>1, <1>2, <2>1, <2>2, <2>3, PlacesKept
  <2>5. ~Busy(b) /\ Busy(b)' /\ CallFor(b)' = d
    BY <1>1, <1>5, StartAlone
  <2>6. \A a \in Buffer \ {b} : VaOf(a)' = VaOf(a)
    BY <1>1, <1>5, <2>1, StartAlone DEF VaOf
  <2>7. d.op = "reserve" => buffer[b].va = NoVa
    <3>1. UsingOK(t)' /\ using'[t] = b
      BY <1>1, <2>1 DEF ClientInv
    <3> QED
      BY <2>1, <3>1 DEF UsingOK
  <2>8. ~Succeeded(d, "free")
    BY <2>1 DEF Succeeded
  <2>9. VaOf(b)' = VaOf(b)
    BY <2>1, <2>2, <2>5, <2>7, <2>8 DEF VaOf
  <2>10. \A va : ClaimsAt(va)' = ClaimsAt(va)
    BY <2>6, <2>9 DEF ClaimsAt
  <2> QED
    BY <1>2, <2>1, <2>2, <2>4, <2>10
<1> QED
  BY <1>4, <1>5

LEMMA SerialInCall ==
  ASSUME SerialInv, NEW t \in Thread, CallStep(t), NEW d, d = call'[t]
  PROVE  ClientInv' /\ BasesOK' /\ TablePlaced(d)' /\ AddressOK(d) /\ TargetOK(d)'
<1>1. /\ ClientInv /\ ClientInv' /\ ShimInv /\ ShimInv' /\ BasesOK /\ ShimStep(t) /\ CallMoves(t)
      /\ call[t].op # "reset" /\ AddressOK(call[t]) /\ TargetOK(call[t])
  BY CallMove DEF SerialInv, ClientInv
<1>2. BasesOK'
  BY <1>1, BasesInCall
<1>3. TablePlaced(d)'
  BY PlacesInCall
<1>4. AddressOK(d)
  <2>1. CASE call[t].op = "reserve"
    BY <1>1, <2>1, StepOfOp, AddressesInReserve DEF ShimInv
  <2>2. CASE call[t].op # "reserve"
    <3>1. StageOK(d) /\ d.op # "reserve"
      BY <1>1, <2>2 DEF CallMoves, CallsOK
    <3> QED
      BY <3>1, GrantedOnlyInReserves
  <2> QED
    BY <2>1, <2>2
<1>5. TargetOK(d)'
  BY <1>1, TargetsInCall
<1> QED
  BY <1>1, <1>2, <1>3, <1>4, <1>5

LEMMA SerialMoves ==
  ASSUME OneAtATime, SerialInv, [ClientNext]_clientVars
  PROVE  SerialInv'
<1>1. PICK t : Thread = {t}
  BY DEF OneAtATime
<1>2. PICK d : d = call'[t]
  OBVIOUS
<1>3. CASE ClientNext
  <2>1. ClientStep(t)
    BY <1>1, <1>3 DEF ClientNext
  <2>2. ClientInv' /\ BasesOK' /\ TablePlaced(d)' /\ AddressOK(d) /\ TargetOK(d)'
    BY <1>1, <1>2, <2>1, SerialAtRest, SerialInCall DEF ClientStep, Starts
  <2>3. TablePlaced(call[t])' /\ AddressOK(call[t])' /\ TargetOK(call[t])'
    BY <1>2, <2>2 DEF TablePlaced, AddressOK, TargetOK
  <2> QED
    BY <1>1, <2>2, <2>3 DEF SerialInv
<1>4. CASE UNCHANGED clientVars
  <2>1. /\ UNCHANGED <<slots, pending, legacyVa, arena, buckets, call>>
    BY <1>4 DEF clientVars, vars, shimVars, slotVars, packVars
  <2>2. ClientInv'
    BY <1>4, ClientsStutter DEF SerialInv
  <2>3. BasesOK'
    BY <2>1 DEF SerialInv, BasesOK
  <2>4. \A s \in Thread : TablePlaced(call[s])' /\ AddressOK(call[s])' /\ TargetOK(call[s])'
    BY <2>1 DEF SerialInv, TablePlaced, AddressOK, TargetOK, Used, FindPendingCreate
  <2> QED
    BY <2>2, <2>3, <2>4 DEF SerialInv
<1> QED
  BY <1>3, <1>4

LEMMA SerialInvariant ==
  ASSUME OneAtATime
  PROVE  ClientSpec => []SerialInv
  BY SerialStart, SerialMoves, PTL DEF ClientSpec

(* One call at a time: between calls no slot is left without an address    *)
(* and no reserve pending, whichever calls failed before, and where.       *)
THEOREM NoSlotOrphaned ==
  ASSUME OneAtATime
  PROVE  ClientSpec => []NoOrphanSlots
<1>1. SerialInv => NoOrphanSlots
  <2> SUFFICES ASSUME SerialInv, Quiet PROVE pending = -1 /\ SlotsAt(NoVa) = {}
    BY DEF NoOrphanSlots
  <2>1. PICK t \in Thread : call[t].pc = "idle"
    BY DEF OneAtATime, Quiet, Idle
  <2>2. ~(pending >= 0) /\ \A i \in Used : slots[i].va = NoVa => i = pending
    BY <2>1 DEF SerialInv, TablePlaced, Pending, PendingPc
  <2>3. pending = -1
    BY <2>2, SlotAssumption DEF SerialInv, ClientInv, ShimInv, StateOK, SlotInv, SlotTypeOK
  <2>4. -1 \notin Used
    BY UsedIsIndex, IndexIsNat
  <2> QED
    BY <2>2, <2>3, <2>4 DEF SlotsAt
<1> QED
  BY <1>1, SerialInvariant, PTL

LEMMA SlotsStayMatched ==
  ASSUME OneAtATime, SerialInv, SlotsMatch, [ClientNext]_clientVars
  PROVE  SlotsMatch'
<1> SUFFICES ASSUME NEW va \in Nat \ {NoVa}
             PROVE  /\ IsFiniteSet(ClaimsAt(va)')
                    /\ Cardinality(SlotsAt(va)') = Cardinality(ClaimsAt(va)')
  BY DEF SlotsMatch
<1>1. /\ IsFiniteSet(ClaimsAt(va)) /\ Cardinality(SlotsAt(va)) = Cardinality(ClaimsAt(va))
      /\ IsFiniteSet(SlotsAt(va))
  <2>1. SlotsAt(va) \subseteq Used
    BY DEF SlotsAt
  <2> QED
    BY <2>1, UsedFinite, FS_Subset DEF SlotsMatch
<1>2. ASSUME NEW t \in Thread, ClientStep(t)
      PROVE  /\ IsFiniteSet(ClaimsAt(va)')
             /\ Cardinality(SlotsAt(va)') = Cardinality(ClaimsAt(va)')
  <2>1. CASE Finish(t) \/ \E b \in Buffer : Starts(t, b)
    BY <1>1, <2>1, SerialAtRest
  <2>2. CASE CallStep(t)
    <3>1. Together(va)
      BY <2>2, PlacesInCall
    <3> QED
      BY <1>1, <3>1, StillMatched DEF Together
  <2> QED
    BY <1>2, <2>1, <2>2 DEF ClientStep, Starts
<1>3. CASE UNCHANGED clientVars
  <2>1. UNCHANGED <<slots, using, call, buffer>>
    BY <1>3 DEF clientVars, vars, shimVars, slotVars
  <2>2. SlotsAt(va)' = SlotsAt(va) /\ ClaimsAt(va)' = ClaimsAt(va)
    BY <2>1 DEF SlotsAt, Used, ClaimsAt, VaOf, Busy, CallFor
  <2> QED
    BY <1>1, <2>2
<1> QED
  BY <1>2, <1>3 DEF ClientNext

LEMMA MatchedAtStart == ClientInit => SlotsMatch
<1> SUFFICES ASSUME ClientInit, NEW va \in Nat \ {NoVa}
             PROVE  /\ IsFiniteSet(ClaimsAt(va))
                    /\ Cardinality(SlotsAt(va)) = Cardinality(ClaimsAt(va))
  BY DEF SlotsMatch
<1>1. ClaimsAt(va) = {} /\ SlotsAt(va) = {}
  BY ClientAssumption
  DEF ClientInit, ShimInit, SlotInit, ClaimsAt, VaOf, Busy, NoBufferYet, SlotsAt, Used,
      EmptySlot
<1> QED
  BY <1>1, FS_EmptySet

(* One call at a time: between calls every address has as many slots as    *)
(* clients hold reservations at it, also an address the alias buckets gave *)
(* to several of them.                                                     *)
THEOREM SlotPerReservation ==
  ASSUME OneAtATime
  PROVE  ClientSpec => []OneSlotPerReservation
<1>1. ClientInit => SlotsMatch
  BY MatchedAtStart
<1>2. SerialInv /\ SlotsMatch => OneSlotPerReservation
  <2> SUFFICES ASSUME SerialInv, SlotsMatch, Quiet, NEW va \in Va \ {NoVa}
               PROVE  Cardinality(SlotsAt(va)) = Cardinality(BuffersAt(va))
    BY DEF OneSlotPerReservation
  <2>1. \A t \in Thread : using[t] = NoBuffer
    BY OpOfPc, PcsApart
    DEF SerialInv, ClientInv, UsingOK, Quiet, Idle, ShimInv, CallsOK, StageOK, ReservePc,
        PendingPc, GrantedPc, CreatePc, AskedPc, BoundPc, MapPc, UnmapPc, ReleasePc, FreePc,
        ResetPc
  <2>2. \A b \in Buffer : VaOf(b) = buffer[b].va
    BY <2>1, ClientAssumption DEF VaOf, Busy
  <2>3. ClaimsAt(va) = BuffersAt(va)
    BY <2>2 DEF ClaimsAt, BuffersAt
  <2>4. va \in Nat
    BY DriverAssumption
  <2> QED
    BY <2>3, <2>4 DEF SlotsMatch
<1> QED
  BY <1>1, <1>2, SerialInvariant, SerialStart, SlotsStayMatched, PTL DEF ClientSpec

-----------------------------------------------------------------------------
(* The committed total, when packing keeps one.                            *)

LedgerExact == IsFiniteSet(InFlight) /\ committed + Cardinality(InFlight) = created

LEMMA LedgerStaysExact ==
  ASSUME PackOn, SerialInv, LedgerExact, [ClientNext]_clientVars
  PROVE  LedgerExact'
<1>1. ClientInv
  BY DEF SerialInv
<1>2. ASSUME NEW t \in Thread, ClientStep(t)
      PROVE  LedgerExact'
  <2>1. CASE Finish(t) \/ \E b \in Buffer : Starts(t, b)
    BY <1>1, <2>1, LedgerAtRest DEF LedgerExact
  <2>2. CASE CallStep(t)
    <3>1. ~(CrtSnapshot(t) /\ legacyVa = NoVa)
      BY DEF SerialInv, TargetOK, CrtSnapshot, At
    <3>2. /\ IsFiniteSet(InFlight')
          /\ committed' + Cardinality(InFlight') + created
               = committed + Cardinality(InFlight) + created'
      BY <1>1, <2>2, <3>1, LedgerInCall DEF LedgerExact
    <3>3. /\ committed \in Nat /\ committed' \in Nat /\ created \in Nat /\ created' \in Nat
          /\ Cardinality(InFlight) \in Nat /\ Cardinality(InFlight') \in Nat
      BY <1>1, <2>2, <3>2, CallMove, FS_CardinalityType
      DEF LedgerExact, ClientInv, ShimInv, StateOK, PackInv, PackTypeOK
    <3> QED
      BY <3>2, <3>3 DEF LedgerExact
  <2> QED
    BY <1>2, <2>1, <2>2 DEF ClientStep, Starts
<1>3. CASE UNCHANGED clientVars
  BY <1>3 DEF clientVars, vars, shimVars, packVars, InFlight, LedgerExact
<1> QED
  BY <1>2, <1>3 DEF ClientNext

(* One call at a time, with packing on: between calls the committed total  *)
(* is exactly the memory the driver made: every create that made memory    *)
(* had a reservation in sight, so none was left uncharged, and creates     *)
(* that shared a handle charged nothing.                                   *)
THEOREM TotalIsExact ==
  ASSUME OneAtATime, PackOn
  PROVE  ClientSpec => []CommittedIsCreated
<1>1. ClientInit => LedgerExact
  <2>1. ClientInit => InFlight = {} /\ committed = 0 /\ created = 0
    BY DEF ClientInit, ShimInit, PackInit, InFlight, Uncharged, Made, Bound, BoundPc, IdleCall
  <2> QED
    BY <2>1, FS_EmptySet DEF LedgerExact
<1>2. SerialInv /\ LedgerExact => CommittedIsCreated
  <2> SUFFICES ASSUME SerialInv, LedgerExact, Quiet PROVE committed = created
    BY DEF CommittedIsCreated
  <2>1. InFlight = {}
    BY DEF InFlight, Uncharged, Made, Bound, BoundPc, Quiet, Idle
  <2>2. committed \in Nat
    BY DEF SerialInv, ClientInv, ShimInv, StateOK, PackInv, PackTypeOK
  <2> QED
    BY <2>1, <2>2, FS_EmptySet DEF LedgerExact
<1> QED
  BY <1>1, <1>2, SerialInvariant, LedgerStaysExact, PTL DEF ClientSpec

-----------------------------------------------------------------------------
(* The calls as the service sees them.                                     *)

Asked(c) == c.pc \notin AfterEffect \union {"idle", "done"}
Given(c) == c.pc \in AfterEffect \/ (c.pc = "done" /\ c.ok)
Refused(c) == c.pc = "done" /\ ~c.ok

(* The steps after the effect are the last ones of the calls that have any. *)
LEMMA GivenByOp ==
  ASSUME NEW c, StageOK(c)
  PROVE  /\ c.op = "reserve" => (Given(c) <=> Granted(c))
         /\ c.op = "create" => (Given(c) <=> Bound(c) \/ Succeeded(c, "create"))
         /\ c.op \in {"unmap", "release", "free"} => (Given(c) <=> Succeeded(c, c.op))
         /\ c.op = "map" => (Given(c) <=> \/ c.pc \in {"map_usage", "map_active", "map_req", "map_bump"}
                                        \/ Succeeded(c, "map"))
<1>1. CASE c.op = "reserve"
  BY <1>1
  DEF StageOK, ReservePc, PendingPc, GrantedPc, Given, AfterEffect, Granted, Succeeded
<1>2. CASE c.op = "create"
  BY <1>2
  DEF StageOK, CreatePc, AskedPc, BoundPc, Given, AfterEffect, Bound, Succeeded
<1>3. CASE c.op = "map"
  BY <1>3 DEF StageOK, MapPc, Given, AfterEffect, Succeeded
<1>4. CASE c.op \in {"unmap", "release", "free"}
  BY <1>4 DEF StageOK, UnmapPc, ReleasePc, FreePc, Given, AfterEffect, Succeeded
<1> QED
  BY <1>1, <1>2, <1>3, <1>4

LEMMA CallAsked ==
  ASSUME NEW c, Asked(c)
  PROVE  CallOf(c) = [op |-> c.op, va |-> IF c.op \in {"map", "unmap", "free"} THEN c.va ELSE NoVa,
                      h |-> IF c.op \in {"map", "release"} THEN c.h ELSE NoHandle,
                      phase |-> "called", ok |-> FALSE]
  BY DEF Asked, CallOf

LEMMA CallGiven ==
  ASSUME NEW c, Given(c)
  PROVE  CallOf(c) = [op |-> c.op,
                      va |-> IF c.op \in {"reserve", "map", "unmap", "free"} THEN c.va ELSE NoVa,
                      h |-> IF c.op \in {"create", "map", "release"} THEN c.h ELSE NoHandle,
                      phase |-> "answered", ok |-> TRUE]
  BY DEF Given, CallOf, AfterEffect

LEMMA CallRefused ==
  ASSUME NEW c, Refused(c)
  PROVE  CallOf(c) = [op |-> c.op, va |-> IF c.op \in {"map", "unmap", "free"} THEN c.va ELSE NoVa,
                      h |-> IF c.op \in {"map", "release"} THEN c.h ELSE NoHandle,
                      phase |-> "answered", ok |-> FALSE]
  BY DEF Refused, CallOf, AfterEffect

LEMMA CallIdle ==
  ASSUME NEW c, StageOK(c), c.pc = "idle"
  PROVE  CallOf(c) = Service!NoCall
<1>1. c.op = "none"
  BY PcsApart DEF StageOK, ReservePc, PendingPc, GrantedPc, CreatePc, AskedPc, BoundPc, MapPc,
     UnmapPc, ReleasePc, FreePc, ResetPc
<1> QED
  BY <1>1 DEF CallOf, AfterEffect, Service!NoCall, Service!NoVa, NoVa

(* A call under way stays as its caller sees it, or is refused.            *)
Unanswered(c, d) ==
  \/ CallOf(d) = CallOf(c)
  \/ Asked(c) /\ Refused(d)

LEMMA QuietOutcome ==
  ASSUME NEW c, NEW d, StageOK(c), StageOK(d), d.op = c.op, SamePhase(c, d),
         c.pc \notin {"idle", "done"}, d.pc # "idle", d.ok \in BOOLEAN,
         c.op \in {"reserve", "create", "release", "free"},
         c.op \in {"release", "free"} => d.va = c.va /\ d.h = c.h
  PROVE  Unanswered(c, d)
<1>1. Given(d) <=> Given(c)
  BY GivenByOp DEF SamePhase
<1>2. CASE Given(c)
  <2>1. /\ c.op = "reserve" => d.va = c.va
        /\ c.op = "create" => d.h = c.h
    BY <1>2, GivenByOp DEF SamePhase, Succeeded
  <2> QED
    BY <1>1, <1>2, <2>1, CallGiven DEF Unanswered
<1>3. CASE ~Given(c)
  <2>1. Asked(c)
    BY <1>3 DEF Asked, Given
  <2>2. Asked(d) \/ Refused(d)
    BY <1>1, <1>3 DEF Asked, Given, Refused
  <2>3. CASE Asked(d)
    BY <2>1, <2>3, CallAsked DEF Unanswered
  <2> QED
    BY <2>1, <2>2, <2>3 DEF Unanswered
<1> QED
  BY <1>2, <1>3

(* What the calls look like after a step of one thread.                    *)
LEMMA CallsAfter ==
  ASSUME NEW t \in Thread, NEW d, d = call'[t], \A s \in Thread \ {t} : call'[s] = call[s]
  PROVE  /\ Calls[t] = CallOf(call[t]) /\ Calls'[t] = CallOf(d)
         /\ Calls' = [Calls EXCEPT ![t] = CallOf(d)]
  BY DEF Calls

-----------------------------------------------------------------------------
(* What each step does to the table.                                       *)

TableKept ==
  /\ SlotsKept
  /\ \A i \in Index : slots'[i].mapped = slots[i].mapped

(* The steps that change what a reservation is.                            *)
LEMMA TableSteps ==
  ASSUME ShimInv, NEW t \in Thread, ShimStep(t), call[t].op # "reset"
  PROVE  \/ TableKept
         \/ RsvBegin(t) /\ ReserveBeginSlot
         \/ RsvCommit(t) \/ RsvDriverCommit(t) \/ RsvRollback(t) \/ FreSlot(t)
         \/ CrtShare(t) \/ CrtBind(t) \/ RelClear(t)
         \/ MapPacked(t) \/ MapMark(t) \/ UnmClear(t)
<1>1. SlotInv /\ slots \in [Index -> SlotRecord] /\ CallsOK
  BY DEF ShimInv, StateOK, SlotInv, SlotTypeOK
<1>2. ASSUME UNCHANGED slotVars PROVE TableKept
  BY <1>1, <1>2, SlotsSame DEF TableKept, slotVars
<1>3. ASSUME NEW idx, NEW rec, WriteSlot(idx, rec), SlotsKept,
             idx \in Used => rec.mapped = slots[idx].mapped
      PROVE  TableKept
  BY <1>1, <1>3, UsedIsIndex DEF TableKept, WriteSlot
<1>4. CASE RsvReq(t)
  <2>1. SetReqBytes(call[t].size) /\ call[t].size \in Nat
    BY <1>1, <1>4, AtStep DEF RsvReq
  <2> DEFINE rec == [slots[ReserveTarget] EXCEPT !.req = call[t].size]
  <2>2. WriteSlot(ReserveTarget, rec)
    BY <2>1 DEF SetReqBytes
  <2>3. ReserveTarget \in Used => rec.mapped = slots[ReserveTarget].mapped
    BY <1>1, UsedIsIndex DEF SlotRecord
  <2>4. SlotsKept
    BY <1>1, <2>1, FieldsKept
  <2> HIDE DEF rec
  <2> QED
    BY <1>3, <2>2, <2>3, <2>4
<1>5. CASE RsvMark(t)
  <2>0. PICK idx : idx = FindByVa(call[t].va)
    OBVIOUS
  <2>1. MarkPackedByVa(call[t].va, TRUE) /\ call[t].va \in Nat
    BY <1>1, <1>5, AtStep DEF RsvMark
  <2> DEFINE rec == [slots[idx] EXCEPT !.packed = TRUE]
  <2>2. WriteSlot(idx, rec)
    BY <2>0, <2>1 DEF MarkPackedByVa
  <2>3. idx \in Used => rec.mapped = slots[idx].mapped
    BY <1>1, UsedIsIndex DEF SlotRecord
  <2>4. SlotsKept
    BY <1>1, <2>1, FieldsKept
  <2> HIDE DEF rec
  <2> QED
    BY <1>3, <2>2, <2>3, <2>4
<1>6. CASE RsvSetOff(t)
  <2>0. PICK idx : idx = FindByVa(call[t].va)
    OBVIOUS
  <2>1. SetMapOffset(call[t].va, call[t].off) /\ call[t].va \in Nat /\ call[t].off \in Nat
    BY <1>1, <1>6, AtStep DEF RsvSetOff
  <2> DEFINE rec == [slots[idx] EXCEPT !.offset = call[t].off]
  <2>2. WriteSlot(idx, rec)
    BY <2>0, <2>1 DEF SetMapOffset
  <2>3. idx \in Used => rec.mapped = slots[idx].mapped
    BY <1>1, UsedIsIndex DEF SlotRecord
  <2>4. SlotsKept
    BY <1>1, <2>1, FieldsKept
  <2> HIDE DEF rec
  <2> QED
    BY <1>3, <2>2, <2>3, <2>4
<1>7. OnlyPack \/ OnlyBuckets \/ OnlyDriver \/ OnlyCall => UNCHANGED slotVars
  BY DEF OnlyPack, OnlyBuckets, OnlyDriver, OnlyCall, shimVars
<1>8. ResetStep(t) => call[t].op = "reset"
  BY ResetSteps
<1>9. RsvBegin(t) => ReserveBeginSlot \/ UNCHANGED slotVars
  BY DEF RsvBegin, ReserveBeginFull
<1>10. CASE ReserveStep(t)
  BY <1>2, <1>4, <1>5, <1>6, <1>7, <1>9, <1>10
  DEF ReserveStep, RsvAlias, RsvNoAlias, RsvFlush, RsvTry, RsvMega, RsvOff, RsvLeafOff,
      RsvRegister, RsvDriver, RsvDriverRegister, RsvWindow
<1>11. CASE CreateStep(t)
  BY <1>2, <1>7, <1>11
  DEF CreateStep, CrtPacked, CrtRetain, CrtValidate, CrtDriver, CrtSnapshot, CrtOpen
<1>12. CASE MapStep(t) \/ UnmapStep(t)
  BY <1>2, <1>7, <1>12
  DEF MapStep, MapValidate, MapRoute, MapOff, MapDriver, MapUsage, MapActive, MapReq,
      MapBump, UnmapStep, UnmValidate, UnmKnown, UnmRoute, UnmDriver
<1>13. CASE ReleaseStep(t) \/ FreeStep(t)
  BY <1>2, <1>7, <1>13
  DEF ReleaseStep, RelValidate, RelRef, RelDriver, FreeStep, FreLookup, FreRoute, FreDriver
<1> QED
  BY <1>8, <1>10, <1>11, <1>12, <1>13 DEF ShimStep

(* An unused slot and a slot without an address are blank, and a slot has  *)
(* a handle exactly if it says so.                                         *)
SlotsClean ==
  \A i \in Index :
    /\ i \notin Used => slots[i].va = NoVa
    /\ slots[i].va = NoVa => slots[i].handle = NoHandle /\ ~slots[i].mapped
    /\ slots[i].hasHandle <=> slots[i].handle # NoHandle

LEMMA EntriesKept ==
  ASSUME TableKept
  PROVE  Entries' = Entries /\ (SlotsClean => SlotsClean')
<1>1. \A i \in Index : EntryOf(i)' = EntryOf(i)
  BY DEF TableKept, SlotsKept, EntryOf
<1>2. Used' = Used
  BY KeptSlotsUsed DEF TableKept
<1> QED
  BY <1>1, <1>2 DEF Entries, SlotsClean, TableKept, SlotsKept

(* One slot is written, and with it one reservation.                       *)
Rewritten(idx, rec) ==
  /\ idx \in Index
  /\ slots' = [slots EXCEPT ![idx] = rec]
  /\ rec.va = NoVa => rec.handle = NoHandle /\ ~rec.mapped
  /\ rec.gen = 0 => rec.va = NoVa
  /\ rec.hasHandle <=> rec.handle # NoHandle

EntryIn(rec) == [va |-> rec.va, h |-> rec.handle, mapped |-> rec.mapped]

LEMMA EntryRewritten ==
  ASSUME SlotInv, SlotsClean, NEW idx, NEW rec, Rewritten(idx, rec)
  PROVE  /\ SlotsClean' /\ Entries' = [Entries EXCEPT ![idx] = EntryIn(rec)]
         /\ Entries[idx] = EntryIn(rec) => Entries' = Entries
<1>1. /\ slots \in [Index -> SlotRecord] /\ idx \in Index
      /\ \A i \in Index : slots'[i] = IF i = idx THEN rec ELSE slots[i]
  BY DEF SlotInv, SlotTypeOK, Rewritten
<1>2. \A i \in Index : EntryOf(i)' = IF i = idx THEN EntryIn(rec) ELSE EntryOf(i)
  BY <1>1 DEF EntryOf, EntryIn
<1>3. Entries' = [Entries EXCEPT ![idx] = EntryIn(rec)]
  BY <1>1, <1>2 DEF Entries
<1>4. SlotsClean'
  BY <1>1 DEF SlotsClean, Used, Rewritten
<1>5. Entries[idx] = EntryIn(rec) => Entries' = Entries
  BY <1>1, <1>2 DEF Entries
<1> QED
  BY <1>3, <1>4, <1>5

LEMMA BlankEntry ==
  ASSUME SlotInv, SlotsClean, NEW i \in Index, slots[i].va = NoVa
  PROVE  /\ Entries[i] = Service!NoEntry
         /\ slots[i].handle = NoHandle /\ slots[i].mapped = FALSE /\ slots[i].hasHandle = FALSE
<1>1. slots[i] \in SlotRecord
  BY DEF SlotInv, SlotTypeOK
<1>2. slots[i].handle = NoHandle /\ slots[i].mapped = FALSE /\ slots[i].hasHandle = FALSE
  BY <1>1 DEF SlotsClean, SlotRecord
<1> QED
  BY <1>2 DEF Entries, EntryOf, Service!NoEntry, Service!Reservation, Service!NoVa, NoVa

(* A slot taken for a reserve, and given up by a failed one, is no         *)
(* reservation.                                                            *)
LEMMA BeginEntries ==
  ASSUME SlotInv, SlotsClean, ReserveBeginSlot
  PROVE  SlotsClean' /\ Entries' = Entries
<1>0. PICK idx : idx = FindFree
  OBVIOUS
<1> DEFINE rec == [EmptySlot EXCEPT !.gen = slotGen]
<1>1. idx \in Index \ Used /\ slots' = [slots EXCEPT ![idx] = rec]
  BY <1>0, FreeSlotIsFree DEF ReserveBeginSlot, AllocSlot
<1>2. /\ EntryIn(rec) = Service!NoEntry
      /\ rec.hasHandle = FALSE /\ rec.handle = NoHandle /\ rec.va = NoVa /\ rec.mapped = FALSE
  BY DEF EntryIn, EmptySlot, Service!NoEntry, Service!Reservation, Service!NoVa, NoVa
<1>3. Entries[idx] = Service!NoEntry
  BY <1>1, BlankEntry DEF SlotsClean
<1> HIDE DEF rec
<1>4. Rewritten(idx, rec)
  BY <1>1, <1>2 DEF Rewritten
<1> QED
  BY <1>1, <1>2, <1>3, <1>4, EntryRewritten

LEMMA RollbackEntries ==
  ASSUME SlotInv, SlotsClean, AbortPending, pending \in Used
  PROVE  SlotsClean' /\ Entries' = Entries
<1>1. pending \in Index /\ slots' = [slots EXCEPT ![pending] = EmptySlot]
  BY UsedIsIndex DEF AbortPending, FreeSlot
<1>2. EntryIn(EmptySlot) = Service!NoEntry
  BY DEF EntryIn, EmptySlot, Service!NoEntry, Service!Reservation, Service!NoVa, NoVa
<1>3. Rewritten(pending, EmptySlot)
  BY <1>1 DEF Rewritten, EmptySlot
<1>4. Entries[pending] = Service!NoEntry
  <2>1. slots[pending].va = NoVa
    BY <1>1, IndexIsNat DEF SlotInv, PendingVirgin
  <2> QED
    BY <1>1, <2>1, BlankEntry
<1> QED
  BY <1>1, <1>2, <1>3, <1>4, EntryRewritten

(* A commit makes a reservation of it.                                     *)
LEMMA CommitEntries ==
  ASSUME SlotInv, SlotsClean, NEW va \in Nat \ {NoVa}, NEW size \in Nat,
         ReservationSet(va, size), pending \in Used
  PROVE  /\ SlotsClean'
         /\ pending \in Index /\ Entries[pending] = Service!NoEntry
         /\ Entries' = [Entries EXCEPT ![pending] = [va |-> va, h |-> NoHandle, mapped |-> FALSE]]
<1> DEFINE rec == [slots[pending] EXCEPT !.va = va, !.size = size]
<1>1. /\ pending \in Index /\ slots[pending] \in SlotRecord /\ pending >= 0
      /\ slots' = [slots EXCEPT ![pending] = rec]
  <2>1. pending \in Index /\ pending >= 0 /\ slots[pending] \in SlotRecord
    BY UsedIsIndex, IndexIsNat DEF SlotInv, SlotTypeOK
  <2>2. slots' = [slots EXCEPT ![pending].va = va, ![pending].size = size]
    BY DEF ReservationSet, CommitPending, CommitFresh, CommitLost
  <2>3. slots \in [Index -> SlotRecord]
    BY DEF SlotInv, SlotTypeOK
  <2> QED
    BY <2>1, <2>2, <2>3 DEF SlotRecord
<1>2. /\ slots[pending].handle = NoHandle /\ slots[pending].mapped = FALSE
      /\ slots[pending].hasHandle = FALSE /\ Entries[pending] = Service!NoEntry
  BY <1>1, BlankEntry DEF SlotInv, PendingVirgin
<1>3. /\ rec.hasHandle = FALSE /\ rec.handle = NoHandle /\ rec.mapped = FALSE /\ rec.va = va
      /\ rec.gen = slots[pending].gen
  BY <1>1, <1>2 DEF SlotRecord
<1> HIDE DEF rec
<1>4. EntryIn(rec) = [va |-> va, h |-> NoHandle, mapped |-> FALSE]
  BY <1>3 DEF EntryIn
<1>5. Rewritten(pending, rec)
  BY <1>1, <1>3 DEF Rewritten, Used
<1> QED
  BY <1>1, <1>2, <1>4, <1>5, EntryRewritten

LEMMA FreeEntries ==
  ASSUME SlotInv, SlotsClean, NEW va, NEW idx, idx = FindByVa(va), idx \in SlotsAt(va),
         SlotFreeByVa(va)
  PROVE  /\ SlotsClean' /\ idx \in Index
         /\ Entries' = [Entries EXCEPT ![idx] = Service!NoEntry]
<1>1. idx \in Index /\ slots' = [slots EXCEPT ![idx] = EmptySlot]
  BY UsedIsIndex DEF SlotFreeByVa, FreeSlot, SlotsAt
<1>2. EntryIn(EmptySlot) = Service!NoEntry
  BY DEF EntryIn, EmptySlot, Service!NoEntry, Service!Reservation, Service!NoVa, NoVa
<1>3. Rewritten(idx, EmptySlot)
  BY <1>1 DEF Rewritten, EmptySlot
<1> QED
  BY <1>1, <1>2, <1>3, EntryRewritten

(* A write that changes a reservation's handle or its mark.                *)
LEMMA WrittenEntries ==
  ASSUME SlotInv, SlotsClean, NEW idx, idx \in Used, NEW rec, WriteSlot(idx, rec),
         rec.gen = slots[idx].gen, rec.va = slots[idx].va,
         rec.hasHandle <=> rec.handle # NoHandle,
         rec.va = NoVa => rec.handle = NoHandle /\ ~rec.mapped
  PROVE  /\ SlotsClean' /\ idx \in Index
         /\ Entries' = [Entries EXCEPT ![idx] = [va |-> rec.va, h |-> rec.handle,
                                                 mapped |-> rec.mapped]]
<1>1. idx \in Index /\ slots' = [slots EXCEPT ![idx] = rec]
  BY UsedIsIndex DEF WriteSlot
<1>2. Rewritten(idx, rec)
  BY <1>1 DEF Rewritten, Used
<1>3. SlotsClean' /\ Entries' = [Entries EXCEPT ![idx] = EntryIn(rec)]
  BY <1>2, EntryRewritten
<1> QED
  BY <1>1, <1>3 DEF EntryIn

LEMMA BindEntries ==
  ASSUME SlotInv, SlotsClean, NEW h \in Handle \ {NoHandle}, BindCreate(h),
         NEW idx, idx = FindPendingCreate, idx >= 0
  PROVE  /\ SlotsClean' /\ idx \in Index
         /\ slots[idx].va # NoVa
         /\ Entries[idx] = [va |-> slots[idx].va, h |-> NoHandle, mapped |-> slots[idx].mapped]
         /\ Entries' = [Entries EXCEPT ![idx] = [va |-> slots[idx].va, h |-> h,
                                                 mapped |-> slots[idx].mapped]]
<1>1. /\ idx \in Used /\ idx \in Index /\ slots[idx].va # NoVa /\ ~slots[idx].hasHandle
      /\ CreateTarget = idx /\ slots[idx] \in SlotRecord
  BY FoundPendingCreate, UsedIsIndex DEF CreateTarget, SlotInv, SlotTypeOK
<1> DEFINE rec == [slots[idx] EXCEPT !.hasHandle = TRUE, !.handle = h]
<1>2. WriteSlot(idx, rec)
  BY <1>1 DEF BindCreate
<1>3. /\ rec.gen = slots[idx].gen /\ rec.va = slots[idx].va /\ rec.hasHandle = TRUE
      /\ rec.handle = h /\ rec.mapped = slots[idx].mapped
  BY <1>1 DEF SlotRecord
<1> HIDE DEF rec
<1>4. /\ SlotsClean'
      /\ Entries' = [Entries EXCEPT ![idx] = [va |-> rec.va, h |-> rec.handle,
                                              mapped |-> rec.mapped]]
  BY <1>1, <1>2, <1>3, WrittenEntries
<1>5. slots[idx].handle = NoHandle
  BY <1>1 DEF SlotsClean
<1>6. Entries[idx] = [va |-> slots[idx].va, h |-> NoHandle, mapped |-> slots[idx].mapped]
  BY <1>1, <1>5 DEF Entries, EntryOf
<1> QED
  BY <1>1, <1>3, <1>4, <1>6

LEMMA MarkEntries ==
  ASSUME SlotInv, SlotsClean, NEW va, va # NoVa, NEW idx, idx \in SlotsAt(va),
         NEW on \in BOOLEAN, WriteSlot(idx, [slots[idx] EXCEPT !.mapped = on])
  PROVE  /\ SlotsClean' /\ idx \in Index
         /\ slots[idx].hasHandle <=> slots[idx].handle # NoHandle
         /\ Entries[idx] = [va |-> va, h |-> slots[idx].handle, mapped |-> slots[idx].mapped]
         /\ Entries' = [Entries EXCEPT ![idx] = [va |-> va, h |-> slots[idx].handle, mapped |-> on]]
<1>1. idx \in Used /\ idx \in Index /\ slots[idx].va = va /\ slots[idx] \in SlotRecord
  BY UsedIsIndex DEF SlotsAt, SlotInv, SlotTypeOK
<1> DEFINE rec == [slots[idx] EXCEPT !.mapped = on]
<1>2. WriteSlot(idx, rec)
  OBVIOUS
<1>3. /\ rec.gen = slots[idx].gen /\ rec.va = va /\ rec.hasHandle = slots[idx].hasHandle
      /\ rec.handle = slots[idx].handle /\ rec.mapped = on
  BY <1>1 DEF SlotRecord
<1> HIDE DEF rec
<1>4. slots[idx].hasHandle <=> slots[idx].handle # NoHandle
  BY <1>1 DEF SlotsClean
<1>5. rec.hasHandle <=> rec.handle # NoHandle
  BY <1>3, <1>4
<1>6. /\ SlotsClean'
      /\ Entries' = [Entries EXCEPT ![idx] = [va |-> rec.va, h |-> rec.handle,
                                              mapped |-> rec.mapped]]
  BY <1>1, <1>2, <1>3, <1>5, WrittenEntries
<1>7. Entries[idx] = [va |-> va, h |-> slots[idx].handle, mapped |-> slots[idx].mapped]
  BY <1>1 DEF Entries, EntryOf
<1> QED
  BY <1>1, <1>3, <1>4, <1>6, <1>7

LEMMA UnbindEntries ==
  ASSUME SlotInv, SlotsClean, NEW h \in Handle \ {NoHandle}, ClearHandle(h),
         NEW idx, idx = FindByHandle(h), idx \in SlotsBoundTo(h)
  PROVE  /\ SlotsClean' /\ idx \in Index
         /\ slots[idx].va # NoVa
         /\ Entries[idx] = [va |-> slots[idx].va, h |-> h, mapped |-> slots[idx].mapped]
         /\ Entries' = [Entries EXCEPT ![idx] = [va |-> slots[idx].va, h |-> NoHandle,
                                                 mapped |-> FALSE]]
<1>1. /\ idx \in Used /\ idx \in Index /\ slots[idx].handle = h /\ slots[idx] \in SlotRecord
  BY UsedIsIndex DEF SlotsBoundTo, SlotInv, SlotTypeOK
<1> DEFINE rec == [slots[idx] EXCEPT !.hasHandle = FALSE, !.handle = NoHandle, !.mapped = FALSE]
<1>2. WriteSlot(idx, rec)
  BY DEF ClearHandle
<1>3. /\ rec.gen = slots[idx].gen /\ rec.va = slots[idx].va /\ rec.hasHandle = FALSE
      /\ rec.handle = NoHandle /\ rec.mapped = FALSE
  BY <1>1 DEF SlotRecord
<1> HIDE DEF rec
<1>4. slots[idx].va # NoVa
  BY <1>1 DEF SlotsClean
<1>5. /\ SlotsClean'
      /\ Entries' = [Entries EXCEPT ![idx] = [va |-> rec.va, h |-> rec.handle,
                                              mapped |-> rec.mapped]]
  BY <1>1, <1>2, <1>3, WrittenEntries
<1>6. Entries[idx] = [va |-> slots[idx].va, h |-> h, mapped |-> slots[idx].mapped]
  BY <1>1 DEF Entries, EntryOf
<1> QED
  BY <1>1, <1>3, <1>4, <1>5, <1>6

-----------------------------------------------------------------------------
(* What a call under way has looked up before its step that counts.        *)

ReadyOK(c) ==
  /\ c.pc \in {"map_route", "map_packed", "map_off", "map_driver", "map_mark"} =>
       slots[FindByVa(c.va)].hasHandle
  /\ c.pc \in {"crt_retain", "crt_share"} => FindPendingCreate >= 0
  /\ c.pc \in {"crt_retain", "crt_share", "crt_bind"} => c.h # NoHandle
  /\ c.pc \in {"rel_ref", "rel_driver", "rel_clear"} => FindByHandle(c.h) >= 0

(* A map or an unmap is about the address of its buffer.                   *)
ArgumentsOK(t) ==
  call[t].op \in {"map", "unmap"} =>
    call[t].va = buffer[using[t]].va /\ call[t].va # NoVa

(* A mapped buffer has an address, and is not being freed.                 *)
BufferOK(b) ==
  buffer[b].mapped => /\ buffer[b].va # NoVa
                      /\ ~(Busy(b) /\ CallFor(b).op = "free")

ServiceInv ==
  /\ SerialInv /\ SlotsMatch /\ SlotsClean
  /\ \A t \in Thread : ReadyOK(call[t]) /\ ArgumentsOK(t)
  /\ \A b \in Buffer : BufferOK(b)

(* The address a client calls with is one the table knows.                 *)
LEMMA AddressHasSlot ==
  ASSUME SerialInv, SlotsMatch, NEW t \in Thread, ArgumentsOK(t),
         NEW c, c = call[t], c.op \in {"map", "unmap", "free"}, c.pc # "done"
  PROVE  /\ c.va \in Nat \ {NoVa}
         /\ FindByVa(c.va) \in SlotsAt(c.va) /\ FindByVa(c.va) >= 0
<1>0. PICK b : b = using[t]
  OBVIOUS
<1>1. UsingOK(t) /\ c.va \in Nat
  BY AtStep DEF SerialInv, ClientInv, ShimInv
<1>2. /\ b \in Buffer /\ Owner[b] = t /\ c.va = buffer[b].va /\ c.va # NoVa
  BY <1>0, <1>1 DEF UsingOK, ArgumentsOK
<1>3. VaOf(b) = c.va
  BY <1>0, <1>2 DEF VaOf, Busy, CallFor, Succeeded
<1>4. b \in ClaimsAt(c.va)
  BY <1>2, <1>3 DEF ClaimsAt
<1>5. IsFiniteSet(ClaimsAt(c.va)) /\ Cardinality(SlotsAt(c.va)) = Cardinality(ClaimsAt(c.va))
  BY <1>1, <1>2 DEF SlotsMatch
<1>6. SlotsAt(c.va) # {}
  BY <1>4, <1>5, FS_EmptySet
<1>7. FindByVa(c.va) \in SlotsAt(c.va)
  BY <1>6, FoundByVa DEF SlotsAt
<1>8. FindByVa(c.va) \in Nat
  BY <1>7, UsedIsIndex, IndexIsNat DEF SlotsAt
<1> QED
  BY <1>1, <1>2, <1>7, <1>8

LEMMA ReadyInCall ==
  ASSUME SerialInv, NEW t \in Thread, ReadyOK(call[t]), ShimStep(t), CallMoves(t),
         NEW d, d = call'[t]
  PROVE  ReadyOK(d)'
<1>0. PICK c : c = call[t]
  OBVIOUS
<1>1. /\ c \in CallRecord /\ StageOK(c) /\ StageOK(d) /\ d.op = c.op
      /\ call \in [Thread -> CallRecord] /\ SlotInv /\ ShimInv /\ TablePlaced(c) /\ TargetOK(c)
  BY <1>0, AtStep DEF CallMoves, CallsOK, ShimInv, StateOK, SerialInv, ClientInv
<1>2. ASSUME d.pc \notin {"map_route", "map_packed", "map_off", "map_driver", "map_mark",
                          "crt_retain", "crt_share", "crt_bind",
                          "rel_ref", "rel_driver", "rel_clear"}
      PROVE  ReadyOK(d)'
  BY <1>2 DEF ReadyOK
<1>3. ASSUME NEW q, Goto(t, q) PROVE d.pc = q /\ d.va = c.va /\ d.h = c.h
  BY <1>0, <1>1, <1>3 DEF Goto, CallRecord
<1>4. ASSUME NEW ok, Return(t, ok) PROVE d.pc = "done"
  BY <1>0, <1>1, <1>4 DEF Return, CallRecord
<1>5. ASSUME UNCHANGED slotVars
      PROVE  /\ slots' = slots /\ FindPendingCreate' = FindPendingCreate
             /\ \A va : FindByVa(va)' = FindByVa(va)
             /\ \A h : FindByHandle(h)' = FindByHandle(h)
  BY <1>5 DEF slotVars, FindPendingCreate, FindByVa, FindByHandle, Used
<1>6. OnlyPack \/ OnlyBuckets \/ OnlyDriver \/ OnlyCall => UNCHANGED slotVars
  BY DEF OnlyPack, OnlyBuckets, OnlyDriver, OnlyCall, shimVars
<1>7. CASE c.op \notin {"create", "map", "release"}
  <2>1. d.pc \notin CreatePc \union MapPc \union ReleasePc
    BY <1>1, <1>7, OpOfPc
  <2> QED
    BY <1>2, <2>1 DEF CreatePc, AskedPc, BoundPc, MapPc, ReleasePc
<1>8. CASE MapStep(t)
  <2>1. CASE MapValidate(t)
    <3>1. CASE MapValid(c.va, c.size) /\ Goto(t, "map_route")
      BY <1>3, <1>5, <1>6, <2>1, <3>1 DEF MapValidate, MapValid, ReadyOK
    <3>2. CASE Return(t, FALSE)
      BY <1>2, <1>4, <3>2
    <3> QED
      BY <1>0, <2>1, <3>1, <3>2 DEF MapValidate
  <2>2. ASSUME UNCHANGED slotVars, d.va = c.va,
               c.pc \in {"map_route", "map_off", "map_driver"},
               d.pc \in {"map_packed", "map_off", "map_driver", "map_mark"}
        PROVE  ReadyOK(d)'
    <3>1. slots[FindByVa(c.va)].hasHandle
      BY <1>0, <2>2 DEF ReadyOK
    <3> QED
      BY <1>5, <2>2, <3>1 DEF ReadyOK
  <2>3. CASE MapRoute(t)
    BY <1>0, <1>3, <1>6, <2>2, <2>3 DEF MapRoute, At
  <2>4. CASE MapOff(t)
    <3>1. d.pc = "map_driver" /\ d.va = c.va
      BY <1>0, <1>1, <2>4 DEF MapOff, CallRecord
    <3> QED
      BY <1>0, <1>6, <2>2, <2>4, <3>1 DEF MapOff, At
  <2>5. CASE MapDriver(t)
    BY <1>0, <1>2, <1>3, <1>4, <1>6, <2>2, <2>5 DEF MapDriver, At
  <2>6. CASE MapPacked(t) \/ MapMark(t) \/ MapUsage(t) \/ MapActive(t) \/ MapReq(t) \/ MapBump(t)
    <3>1. ASSUME NEW sz, call' = [call EXCEPT ![t].pc = "map_bump", ![t].sz = sz]
          PROVE  d.pc = "map_bump"
      BY <1>1, <3>1 DEF CallRecord
    <3>2. d.pc \in {"done", "map_usage", "map_active", "map_req", "map_bump"}
      BY <1>3, <1>4, <2>6, <3>1 DEF MapPacked, MapMark, MapUsage, MapActive, MapReq, MapBump
    <3> QED
      BY <1>2, <3>2
  <2> QED
    BY <1>8, <2>1, <2>3, <2>4, <2>5, <2>6 DEF MapStep
<1>9. CASE CreateStep(t)
  <2>1. CASE CrtPacked(t)
    <3>1. CASE SharesHandle /\ call' = [call EXCEPT ![t].pc = "crt_retain", ![t].h = arena.handle]
      <4>1. d.pc = "crt_retain" /\ d.h = arena.handle
        BY <1>1, <3>1 DEF CallRecord
      <4>2. pending = -1 /\ pending \notin Used
        <5>1. ~Pending(c)
          BY <1>0, <2>1 DEF CrtPacked, At, Pending, PendingPc
        <5>2. pending = -1
          BY <1>1, <5>1, SlotAssumption DEF TablePlaced, SlotInv, SlotTypeOK
        <5> QED
          BY <5>2, UsedIsIndex, IndexIsNat
      <4>3. FindPendingCreate >= 0
        BY <3>1, <4>2 DEF SharesHandle, CreateTarget
      <4> QED
        BY <1>5, <1>6, <2>1, <3>1, <4>1, <4>3 DEF CrtPacked, SharesHandle, ReadyOK
    <3>2. CASE Goto(t, "crt_validate")
      BY <1>2, <1>3, <3>2
    <3> QED
      BY <2>1, <3>1, <3>2 DEF CrtPacked
  <2>2. CASE CrtRetain(t)
    <3>1. FindPendingCreate >= 0 /\ c.h # NoHandle
      BY <1>0, <2>2 DEF CrtRetain, At, ReadyOK
    <3> QED
      BY <1>3, <1>5, <1>6, <2>2, <3>1 DEF CrtRetain, ReadyOK
  <2>3. CASE CrtDriver(t)
    <3>1. CASE At(t, "crt_bind")'
      <4>1. d.h # NoHandle /\ d.pc = "crt_bind"
        BY <1>1, <2>3, <3>1, MadeEffect DEF At
      <4> QED
        BY <4>1 DEF ReadyOK
    <3>2. CASE ~At(t, "crt_bind")'
      <4>1. ASSUME NEW h, call' = [call EXCEPT ![t].pc = "crt_bind", ![t].h = h] PROVE FALSE
        BY <1>1, <3>2, <4>1 DEF At, CallRecord
      <4>2. Return(t, FALSE)
        BY <2>3, <4>1 DEF CrtDriver
      <4> QED
        BY <1>2, <1>4, <4>2
    <3> QED
      BY <3>1, <3>2
  <2>4. CASE CrtShare(t) \/ CrtValidate(t) \/ CrtBind(t) \/ CrtSnapshot(t) \/ CrtOpen(t)
    <3>1. call' = [call EXCEPT ![t].pc = "crt_open", ![t].va = legacyVa] => d.pc = "crt_open"
      BY <1>1 DEF CallRecord
    <3>2. d.pc \in {"done", "crt_driver", "crt_snapshot", "crt_open"}
      BY <1>3, <1>4, <2>4, <3>1 DEF CrtShare, CrtValidate, CrtBind, CrtSnapshot, CrtOpen
    <3> QED
      BY <1>2, <3>2
  <2> QED
    BY <1>9, <2>1, <2>2, <2>3, <2>4 DEF CreateStep
<1>10. CASE ReleaseStep(t)
  <2>1. ASSUME UNCHANGED slotVars, d.h = c.h, FindByHandle(c.h) >= 0,
               d.pc \in {"rel_ref", "rel_driver", "rel_clear"}
        PROVE  ReadyOK(d)'
    BY <1>5, <2>1 DEF ReadyOK
  <2>2. CASE RelValidate(t)
    BY <1>0, <1>2, <1>3, <1>4, <1>6, <2>1, <2>2 DEF RelValidate
  <2>3. CASE RelRef(t) \/ RelDriver(t)
    <3>1. FindByHandle(c.h) >= 0
      BY <1>0, <2>3 DEF RelRef, RelDriver, At, ReadyOK
    <3> QED
      BY <1>2, <1>3, <1>4, <1>6, <2>1, <2>3, <3>1 DEF RelRef, RelDriver
  <2>4. CASE RelClear(t)
    BY <1>2, <1>4, <2>4 DEF RelClear
  <2> QED
    BY <1>10, <2>2, <2>3, <2>4 DEF ReleaseStep
<1>11. ReserveStep(t) \/ UnmapStep(t) \/ FreeStep(t) \/ ResetStep(t)
         => c.op \notin {"create", "map", "release"}
  <2>1. ReserveStep(t) \/ UnmapStep(t) \/ FreeStep(t) \/ ResetStep(t)
          => c.pc \in ReservePc \union UnmapPc \union FreePc \union ResetPc
    BY <1>0
    DEF ReserveStep, RsvBegin, RsvReq, RsvAlias, RsvNoAlias, RsvFlush, RsvTry, RsvMega,
        RsvCommit, RsvMark, RsvOff, RsvSetOff, RsvLeafOff, RsvRegister, RsvDriver,
        RsvRollback, RsvDriverCommit, RsvDriverRegister, RsvWindow,
        UnmapStep, UnmValidate, UnmKnown, UnmRoute, UnmDriver, UnmClear, FreeStep, FreLookup, FreRoute,
        FreDriver, FreSlot, ResetStep, RstFlush, RstPack, RstGqa, RstSlots, At,
        ReservePc, PendingPc, GrantedPc, UnmapPc, FreePc, ResetPc
  <2> QED
    BY <1>1, <2>1, OpOfPc
<1> QED
  BY <1>7, <1>8, <1>9, <1>10, <1>11 DEF ShimStep

(* The table and the buffers are left fit for the calls to come.           *)
LEMMA ServiceStart == ClientInit => ServiceInv
<1> SUFFICES ASSUME ClientInit PROVE ServiceInv
  OBVIOUS
<1>1. SerialInv /\ SlotsMatch
  BY SerialStart, MatchedAtStart
<1>2. SlotsClean
  BY DEF ClientInit, ShimInit, SlotInit, SlotsClean, EmptySlot
<1>3. \A t \in Thread : ReadyOK(call[t]) /\ ArgumentsOK(t)
  BY DEF ClientInit, ShimInit, IdleCall, ReadyOK, ArgumentsOK
<1>4. \A b \in Buffer : BufferOK(b)
  BY DEF ClientInit, NoBufferYet, BufferOK
<1> QED
  BY <1>1, <1>2, <1>3, <1>4 DEF ServiceInv

LEMMA ServiceAtStart ==
  ASSUME ServiceInv, NEW t \in Thread, NEW b \in Buffer, Starts(t, b), NEW d, d = call'[t]
  PROVE  ReadyOK(d)' /\ ArgumentsOK(t)' /\ \A a \in Buffer : BufferOK(a)'
<1>1. /\ ClientInv /\ UNCHANGED <<shimVars, buffer>> /\ using'[t] = b
      /\ d.pc \in {"rsv_begin", "crt_packed", "map_validate", "unm_validate",
                   "rel_validate", "fre_lookup"}
  BY StartMove DEF ServiceInv, SerialInv, ClientInv
<1>2. ReadyOK(d)'
  BY <1>1 DEF ReadyOK
<1>3. ~Busy(b) /\ Busy(b)' /\ CallFor(b)' = d
      /\ \A a \in Buffer \ {b} : /\ Busy(a)' <=> Busy(a)
                                 /\ Busy(a) => CallFor(a)' = CallFor(a)
  BY <1>1, StartAlone
<1>4. CallsOK /\ BufferOK(b)
  BY DEF ServiceInv, SerialInv, ClientInv, ShimInv
<1>5. ASSUME NEW op \in Op, NEW pc \in Pc, NEW va \in Nat, NEW size \in Nat, NEW h \in Handle,
             Enter(t, op, pc, va, size, h)
      PROVE  d.op = op /\ d.va = va
  BY <1>4, <1>5, EnterMove
<1>6. /\ d.op \in {"map", "unmap"} => d.va = buffer[b].va /\ d.va # NoVa
      /\ d.op = "free" => ~buffer[b].mapped
  <2>0. /\ \A q \in {"rsv_begin", "crt_packed", "map_validate", "unm_validate",
                     "rel_validate", "fre_lookup"} : q \in Pc
        /\ \A op \in {"reserve", "create", "map", "unmap", "release", "free"} : op \in Op
        /\ buffer[b].va \in Nat /\ buffer[b].size \in Nat /\ buffer[b].h \in Handle
        /\ MapSize(b) \in Nat /\ NoVa \in Nat /\ NoHandle \in Handle
    <3>1. buffer[b].va \in Nat /\ buffer[b].size \in Nat /\ buffer[b].h \in Handle
      BY <1>1 DEF ClientInv, ClientBuffer
    <3>2. MapSize(b) \in Nat
      BY <3>1, RoundUpPositive, LeafAssumption DEF MapSize, RoundLeafSize
    <3> QED
      BY <3>1, <3>2, DriverAssumption
      DEF Pc, ReservePc, CreatePc, AskedPc, MapPc, UnmapPc, ReleasePc, FreePc, Op, NoVa
  <2>1. CASE StartReserve(t, b)
    <3>1. PICK req \in Request : Enter(t, "reserve", "rsv_begin", NoVa, req, NoHandle)
      BY <2>1 DEF StartReserve
    <3>2. req \in Nat
      BY ClientAssumption, DriverAssumption
    <3>3. d.op = "reserve"
      BY <1>5, <2>0, <3>1, <3>2
    <3> QED
      BY <3>3
  <2>2. CASE StartCreate(t, b)
    <3>1. d.op = "create"
      BY <1>5, <2>0, <2>2 DEF StartCreate
    <3> QED
      BY <3>1
  <2>3. CASE StartMap(t, b)
    <3>1. d.op = "map" /\ d.va = buffer[b].va
      BY <1>5, <2>0, <2>3 DEF StartMap
    <3> QED
      BY <2>3, <3>1 DEF StartMap
  <2>4. CASE StartUnmap(t, b)
    <3>1. d.op = "unmap" /\ d.va = buffer[b].va
      BY <1>5, <2>0, <2>4 DEF StartUnmap
    <3> QED
      BY <1>4, <2>4, <3>1 DEF StartUnmap, BufferOK
  <2>5. CASE StartRelease(t, b)
    <3>1. d.op = "release"
      BY <1>5, <2>0, <2>5 DEF StartRelease
    <3> QED
      BY <3>1
  <2>6. CASE StartFree(t, b)
    <3>1. d.op = "free"
      BY <1>5, <2>0, <2>6 DEF StartFree
    <3> QED
      BY <2>6, <3>1 DEF StartFree
  <2> QED
    BY <2>1, <2>2, <2>3, <2>4, <2>5, <2>6 DEF Starts
<1>7. ArgumentsOK(t)'
  BY <1>1, <1>6 DEF ArgumentsOK
<1>8. ASSUME NEW a \in Buffer PROVE BufferOK(a)'
  <2>1. BufferOK(a)
    BY DEF ServiceInv
  <2>2. CASE a = b
    BY <1>1, <1>3, <1>6, <2>1, <2>2 DEF BufferOK
  <2>3. CASE a # b
    BY <1>1, <1>3, <2>1, <2>3 DEF BufferOK
  <2> QED
    BY <2>2, <2>3
<1> QED
  BY <1>2, <1>7, <1>8

LEMMA ServiceAtFinish ==
  ASSUME ServiceInv, NEW t \in Thread, Finish(t), NEW d, d = call'[t]
  PROVE  ReadyOK(d)' /\ ArgumentsOK(t)' /\ \A a \in Buffer : BufferOK(a)'
<1>0. PICK b, c : b = using[t] /\ c = call[t]
  OBVIOUS
<1>1. /\ ClientInv /\ c.pc = "done" /\ c.op # "none" /\ d.op = "none" /\ d.pc = "idle"
      /\ buffer'[b].va = IF Succeeded(c, "reserve") THEN c.va
                         ELSE IF Succeeded(c, "free") THEN NoVa ELSE buffer[b].va
  BY <1>0, FinishMove DEF ServiceInv, SerialInv
<1>2. ReadyOK(d)' /\ ArgumentsOK(t)'
  BY <1>1 DEF ReadyOK, ArgumentsOK
<1>3. /\ Busy(b) /\ ~Busy(b)' /\ CallFor(b) = c /\ b \in Buffer /\ UsingOK(t)
      /\ \A a \in Buffer \ {b} : /\ buffer'[a] = buffer[a]
                                 /\ Busy(a)' <=> Busy(a)
                                 /\ Busy(a) => CallFor(a)' = CallFor(a)
  BY <1>0, <1>1, FinishAlone
<1>4. ASSUME NEW a \in Buffer PROVE BufferOK(a)'
  <2>1. BufferOK(a)
    BY DEF ServiceInv
  <2>2. CASE a # b
    BY <1>3, <2>1, <2>2 DEF BufferOK
  <2>3. CASE a = b
    <3>1. /\ ArgumentsOK(t) /\ AddressOK(c) /\ c.op # "reset" /\ c.op \in Op
          /\ c.op = "reserve" => buffer[b].va = NoVa
          /\ buffer \in [Buffer -> ClientBuffer] /\ buffer[b] \in ClientBuffer
      BY <1>0, <1>1, <1>3, AtStep
      DEF ServiceInv, SerialInv, ClientInv, UsingOK, ShimInv, CallRecord
    <3>2. CASE ~c.ok
      <4>1. buffer' = buffer
        BY <1>0, <3>2 DEF Finish
      <4> QED
        BY <1>3, <2>1, <2>3, <4>1 DEF BufferOK
    <3>3. CASE c.ok
      <4>1. buffer'[b] = Outcome(c, buffer[b])
        BY <1>0, <1>3, <3>1, <3>3 DEF Finish
      <4>2. CASE c.op = "reserve"
        <5>1. buffer'[b].mapped = buffer[b].mapped
          BY <3>1, <4>1, <4>2 DEF Outcome, ClientBuffer
        <5> QED
          BY <2>1, <2>3, <3>1, <4>2, <5>1 DEF BufferOK
      <4>3. CASE c.op \in {"create", "release"}
        <5>1. buffer'[b].mapped = buffer[b].mapped /\ buffer'[b].va = buffer[b].va
          BY <3>1, <4>1, <4>3 DEF Outcome, ClientBuffer
        <5> QED
          BY <1>3, <2>1, <2>3, <5>1 DEF BufferOK
      <4>4. CASE c.op \in {"map", "unmap"}
        <5>1. buffer'[b].va = buffer[b].va /\ buffer[b].va # NoVa
          BY <1>0, <1>1, <3>1, <4>4 DEF Succeeded, ArgumentsOK
        <5> QED
          BY <1>3, <2>3, <5>1 DEF BufferOK
      <4>5. CASE c.op = "free"
        <5>1. buffer'[b].mapped = buffer[b].mapped
          BY <3>1, <4>1, <4>5 DEF Outcome, ClientBuffer
        <5> QED
          BY <1>3, <2>1, <2>3, <4>5, <5>1 DEF BufferOK
      <4> QED
        BY <1>1, <3>1, <4>2, <4>3, <4>4, <4>5 DEF Op
    <3> QED
      BY <3>2, <3>3
  <2> QED
    BY <2>2, <2>3
<1> QED
  BY <1>2, <1>4

-----------------------------------------------------------------------------
(* The steps of the service, from what a step of a call does to the        *)
(* reservations and to the call.                                           *)

Told(op, va, h) == [op |-> op, va |-> va, h |-> h, phase |-> "called", ok |-> FALSE]
Answering(op, va, h, ok) == [op |-> op, va |-> va, h |-> h, phase |-> "answered", ok |-> ok]

LEMMA AnswerGiven ==
  ASSUME NEW t \in Thread, NEW op, NEW va, NEW h, NEW ok, NEW v, NEW g,
         Calls[t] = Told(op, va, h),
         Calls' = [Calls EXCEPT ![t] = Answering(op, v, g, ok)]
  PROVE  Service!Answer(t, ok, v, g)
<1>1. Calls[t].op = op
  BY DEF Told
<1> QED
  BY <1>1 DEF Service!Answer, Answering

LEMMA ServeRefusal ==
  ASSUME NEW t \in Thread, NEW op, NEW va, NEW h,
         Calls[t] = Told(op, va, h),
         Calls' = [Calls EXCEPT ![t] = Answering(op, va, h, FALSE)],
         Entries' = Entries
  PROVE  Service!ServiceNext
<1>1. Service!Answer(t, FALSE, va, h)
  BY AnswerGiven
<1>2. Calls[t].phase = "called" /\ Calls[t].va = va /\ Calls[t].h = h
  BY DEF Told
<1>3. Service!Refuse(t)
  BY <1>1, <1>2 DEF Service!Refuse
<1> QED
  BY <1>3 DEF Service!ServiceNext

LEMMA ServeReserve ==
  ASSUME NEW t \in Thread, NEW va \in Nat \ {NoVa}, NEW i \in Index,
         Calls[t] = Told("reserve", NoVa, NoHandle),
         Calls'[t] = Answering("reserve", va, NoHandle, TRUE),
         Calls' = [Calls EXCEPT ![t] = Answering("reserve", va, NoHandle, TRUE)],
         Entries[i] = Service!NoEntry,
         Entries' = [Entries EXCEPT ![i] = [va |-> va, h |-> NoHandle, mapped |-> FALSE]]
  PROVE  Service!ServiceNext
<1>1. Calls'[t].va = va
  BY DEF Answering
<1>2. Service!Answer(t, TRUE, Calls'[t].va, NoHandle)
  BY <1>1, AnswerGiven
<1>3. Service!Reservation(Calls'[t].va, NoHandle, FALSE)
        = [va |-> va, h |-> NoHandle, mapped |-> FALSE]
  BY <1>1 DEF Service!Reservation
<1>4. i \in Index \ Service!InUse
  BY DEF Service!InUse, Service!NoEntry, Service!Reservation, Service!NoVa
<1>5. Service!Called(t, "reserve") /\ Calls'[t].va \in Nat \ {Service!NoVa}
  <2>1. Service!Called(t, "reserve")
    BY DEF Service!Called, Told
  <2> QED
    BY <1>1, <2>1 DEF Service!NoVa, NoVa
<1>6. Service!Reserve(t)
  BY <1>2, <1>3, <1>4, <1>5 DEF Service!Reserve
<1> QED
  BY <1>6 DEF Service!ServiceNext

LEMMA ServeCreate ==
  ASSUME NEW t \in Thread, NEW h \in Handle \ {NoHandle}, NEW i \in Index,
         Calls[t] = Told("create", NoVa, NoHandle),
         Calls' = [Calls EXCEPT ![t] = Answering("create", NoVa, h, TRUE)],
         NEW va, NEW on, va # NoVa, Entries[i] = [va |-> va, h |-> NoHandle, mapped |-> on],
         Entries' = [Entries EXCEPT ![i] = [va |-> va, h |-> h, mapped |-> on]]
  PROVE  Service!ServiceNext
<1>1. Service!Answer(t, TRUE, Service!NoVa, h)
  BY AnswerGiven DEF Service!NoVa, NoVa
<1>2. Service!Reservation(Entries[i].va, h, Entries[i].mapped)
        = [va |-> va, h |-> h, mapped |-> on]
  BY DEF Service!Reservation
<1>3. Entries' = [Entries EXCEPT ![i] = Service!Reservation(Entries[i].va, h, Entries[i].mapped)]
  BY <1>2
<1>4. i \in Service!EntriesBoundTo(NoHandle)
  BY DEF Service!EntriesBoundTo, Service!InUse, Service!NoVa, NoVa
<1>5. Service!Called(t, "create")
  BY DEF Service!Called, Told
<1>6. Service!Create(t)
  BY <1>1, <1>3, <1>4, <1>5 DEF Service!Create
<1> QED
  BY <1>6 DEF Service!ServiceNext

LEMMA ServeMap ==
  ASSUME NEW t \in Thread, NEW va \in Nat \ {NoVa}, NEW h, NEW i \in Index,
         Calls[t] = Told("map", va, h),
         Calls' = [Calls EXCEPT ![t] = Answering("map", va, h, TRUE)],
         NEW g, NEW on, g # NoHandle, Entries[i] = [va |-> va, h |-> g, mapped |-> on],
         Entries' = [Entries EXCEPT ![i] = [va |-> va, h |-> g, mapped |-> TRUE]]
  PROVE  Service!ServiceNext
<1>1. Calls[t].va = va /\ Calls[t].h = h
  BY DEF Told
<1>2. Service!Succeed(t)
  BY <1>1, AnswerGiven DEF Service!Succeed
<1>3. Service!Reservation(Entries[i].va, Entries[i].h, TRUE)
        = [va |-> va, h |-> g, mapped |-> TRUE]
  BY DEF Service!Reservation
<1>4. Entries' = [Entries EXCEPT ![i] = Service!Reservation(Entries[i].va, Entries[i].h, TRUE)]
  BY <1>3
<1>5. i \in Service!EntriesAt(Calls[t].va) \ Service!EntriesBoundTo(NoHandle)
  BY <1>1 DEF Service!EntriesAt, Service!EntriesBoundTo, Service!InUse, Service!NoVa, NoVa
<1>6. Service!Called(t, "map")
  BY DEF Service!Called, Told
<1>7. Service!Map(t)
  BY <1>2, <1>4, <1>5, <1>6 DEF Service!Map
<1> QED
  BY <1>7 DEF Service!ServiceNext

LEMMA ServeUnmap ==
  ASSUME NEW t \in Thread, NEW va \in Nat \ {NoVa}, NEW i \in Index,
         Calls[t] = Told("unmap", va, NoHandle),
         Calls' = [Calls EXCEPT ![t] = Answering("unmap", va, NoHandle, TRUE)],
         NEW g, NEW on, Entries[i] = [va |-> va, h |-> g, mapped |-> on],
         Entries' = [Entries EXCEPT ![i] = [va |-> va, h |-> g, mapped |-> FALSE]]
  PROVE  Service!ServiceNext
<1>1. Calls[t].va = va /\ Calls[t].h = NoHandle
  BY DEF Told
<1>2. Service!Succeed(t)
  BY <1>1, AnswerGiven DEF Service!Succeed
<1>3. Service!Reservation(Entries[i].va, Entries[i].h, FALSE)
        = [va |-> va, h |-> g, mapped |-> FALSE]
  BY DEF Service!Reservation
<1>4. Entries' = [Entries EXCEPT ![i] = Service!Reservation(Entries[i].va, Entries[i].h, FALSE)]
  BY <1>3
<1>5. i \in Service!EntriesAt(Calls[t].va)
  BY <1>1 DEF Service!EntriesAt, Service!InUse, Service!NoVa, NoVa
<1>6. Service!Called(t, "unmap")
  BY DEF Service!Called, Told
<1>7. Service!Unmap(t)
  BY <1>2, <1>4, <1>5, <1>6 DEF Service!Unmap
<1> QED
  BY <1>7 DEF Service!ServiceNext

LEMMA ServeRelease ==
  ASSUME NEW t \in Thread, NEW h \in Handle \ {NoHandle}, NEW i \in Index,
         Calls[t] = Told("release", NoVa, h),
         Calls' = [Calls EXCEPT ![t] = Answering("release", NoVa, h, TRUE)],
         NEW va, NEW on, va # NoVa, Entries[i] = [va |-> va, h |-> h, mapped |-> on],
         Entries' = [Entries EXCEPT ![i] = [va |-> va, h |-> NoHandle, mapped |-> FALSE]]
  PROVE  Service!ServiceNext
<1>1. Calls[t].va = NoVa /\ Calls[t].h = h
  BY DEF Told
<1>2. Service!Succeed(t)
  BY <1>1, AnswerGiven DEF Service!Succeed
<1>4. Service!Reservation(Entries[i].va, NoHandle, FALSE)
        = [va |-> va, h |-> NoHandle, mapped |-> FALSE]
  BY DEF Service!Reservation
<1>5. Entries' = [Entries EXCEPT ![i] = Service!Reservation(Entries[i].va, NoHandle, FALSE)]
  BY <1>4
<1>6. i \in Service!EntriesBoundTo(Calls[t].h) \ Service!EntriesBoundTo(NoHandle)
  BY <1>1 DEF Service!EntriesBoundTo, Service!InUse, Service!NoVa, NoVa
<1>7. Service!Called(t, "release")
  BY DEF Service!Called, Told
<1>8. Service!Release(t)
  BY <1>2, <1>5, <1>6, <1>7 DEF Service!Release
<1> QED
  BY <1>8 DEF Service!ServiceNext

LEMMA ServeFree ==
  ASSUME NEW t \in Thread, NEW va \in Nat \ {NoVa}, NEW i \in Index,
         Calls[t] = Told("free", va, NoHandle),
         Calls' = [Calls EXCEPT ![t] = Answering("free", va, NoHandle, TRUE)],
         Entries[i].va = va, Entries' = [Entries EXCEPT ![i] = Service!NoEntry]
  PROVE  Service!ServiceNext
<1>1. Calls[t].va = va /\ Calls[t].h = NoHandle
  BY DEF Told
<1>2. Service!Succeed(t)
  BY <1>1, AnswerGiven DEF Service!Succeed
<1>3. i \in Service!EntriesAt(Calls[t].va)
  BY <1>1 DEF Service!EntriesAt, Service!InUse, Service!NoVa, NoVa
<1>4. Service!Called(t, "free")
  BY DEF Service!Called, Told
<1>5. Service!Free(t)
  BY <1>2, <1>3, <1>4 DEF Service!Free
<1> QED
  BY <1>5 DEF Service!ServiceNext

-----------------------------------------------------------------------------
(* Every step of a call is a step of the service, or none.                 *)

Served == Service!ServiceNext \/ (Entries' = Entries /\ Calls' = Calls)

LEMMA KeptOutcome ==
  ASSUME NEW c, NEW d, d.op = c.op,
         c.op \in {"map", "unmap", "release", "free"} => d.va = c.va /\ d.h = c.h,
         \/ Asked(c) /\ (Asked(d) \/ Refused(d))
         \/ Given(c) /\ Given(d) /\ (c.op = "reserve" => d.va = c.va) /\ (c.op = "create" => d.h = c.h)
  PROVE  Unanswered(c, d)
<1>1. CASE Asked(c) /\ Asked(d)
  BY <1>1, CallAsked DEF Unanswered
<1>2. CASE Given(c)
  <2>1. CallOf(d) = CallOf(c)
    BY <1>2, CallGiven DEF Given, Asked
  <2> QED
    BY <2>1 DEF Unanswered
<1> QED
  BY <1>1, <1>2 DEF Unanswered

LEMMA ServedQuietly ==
  ASSUME NEW t \in Thread, NEW c, c = call[t], NEW d, d = call'[t], CallMoves(t),
         Entries' = Entries, Unanswered(c, d),
         c.op \in {"map", "unmap", "release", "free"} => d.va = c.va /\ d.h = c.h
  PROVE  Served
<1>1. /\ d.op = c.op /\ Calls[t] = CallOf(c)
      /\ Calls' = [Calls EXCEPT ![t] = CallOf(d)]
  BY CallsAfter DEF CallMoves
<1>2. CASE CallOf(d) = CallOf(c)
  <2>1. Calls' = Calls
    BY <1>1, <1>2 DEF Calls
  <2> QED
    BY <2>1 DEF Served
<1>3. CASE Asked(c) /\ Refused(d)
  <2> DEFINE va == IF c.op \in {"map", "unmap", "free"} THEN c.va ELSE NoVa
             h == IF c.op \in {"map", "release"} THEN c.h ELSE NoHandle
  <2>1. CallOf(c) = Told(c.op, va, h)
    BY <1>3, CallAsked DEF Told
  <2>2. CallOf(d) = [op |-> d.op, va |-> IF d.op \in {"map", "unmap", "free"} THEN d.va ELSE NoVa,
                     h |-> IF d.op \in {"map", "release"} THEN d.h ELSE NoHandle,
                     phase |-> "answered", ok |-> FALSE]
    BY <1>3, CallRefused
  <2>3. /\ va = IF d.op \in {"map", "unmap", "free"} THEN d.va ELSE NoVa
        /\ h = IF d.op \in {"map", "release"} THEN d.h ELSE NoHandle
    BY <1>1
  <2>4. CallOf(d) = Answering(c.op, va, h, FALSE)
    BY <1>1, <2>2, <2>3 DEF Answering
  <2> HIDE DEF va, h
  <2>5. Service!ServiceNext
    BY <1>1, <2>1, <2>4, ServeRefusal
  <2> QED
    BY <2>5 DEF Served
<1> QED
  BY <1>2, <1>3 DEF Unanswered

(* The call as asked and as answered, over the step that takes effect.     *)
LEMMA AskedAs ==
  ASSUME NEW c, Asked(c)
  PROVE  /\ c.op = "reserve" => CallOf(c) = Told("reserve", NoVa, NoHandle)
         /\ c.op = "create" => CallOf(c) = Told("create", NoVa, NoHandle)
         /\ c.op = "map" => CallOf(c) = Told("map", c.va, c.h)
         /\ c.op = "unmap" => CallOf(c) = Told("unmap", c.va, NoHandle)
         /\ c.op = "release" => CallOf(c) = Told("release", NoVa, c.h)
         /\ c.op = "free" => CallOf(c) = Told("free", c.va, NoHandle)
  BY CallAsked DEF Told

LEMMA GivenAs ==
  ASSUME NEW d, Given(d)
  PROVE  /\ d.op = "reserve" => CallOf(d) = Answering("reserve", d.va, NoHandle, TRUE)
         /\ d.op = "create" => CallOf(d) = Answering("create", NoVa, d.h, TRUE)
         /\ d.op = "map" => CallOf(d) = Answering("map", d.va, d.h, TRUE)
         /\ d.op = "unmap" => CallOf(d) = Answering("unmap", d.va, NoHandle, TRUE)
         /\ d.op = "release" => CallOf(d) = Answering("release", NoVa, d.h, TRUE)
         /\ d.op = "free" => CallOf(d) = Answering("free", d.va, NoHandle, TRUE)
  BY CallGiven DEF Answering

LEMMA ReserveServed ==
  ASSUME ServiceInv, NEW t \in Thread, CallStep(t),
         \/ RsvBegin(t) /\ ReserveBeginSlot
         \/ RsvCommit(t) \/ RsvDriverCommit(t) \/ RsvRollback(t)
  PROVE  SlotsClean' /\ Served
<1>0. PICK c, d : c = call[t] /\ d = call'[t]
  OBVIOUS
<1>1. /\ ShimInv /\ SlotInv /\ SlotsClean /\ TablePlaced(c) /\ AddressOK(c)
      /\ CallMoves(t) /\ d.op = c.op /\ StageOK(c) /\ StageOK(d) /\ c.va \in Nat /\ c.sz \in Nat
  BY <1>0, CallMove, AtStep
  DEF ServiceInv, SerialInv, ClientInv, ShimInv, StateOK, CallMoves, CallsOK
<1>2. CASE RsvBegin(t) /\ ReserveBeginSlot
  <2>1. c.pc = "rsv_begin" /\ c.op = "reserve" /\ d.pc = "rsv_req"
    BY <1>0, <1>1, <1>2, BeginEffect
  <2>2. SlotsClean' /\ Entries' = Entries
    BY <1>1, <1>2, BeginEntries
  <2>3. Asked(c) /\ Asked(d)
    BY <2>1 DEF Asked, AfterEffect
  <2>4. Unanswered(c, d)
    BY <1>1, <2>1, <2>3, KeptOutcome
  <2> QED
    BY <1>0, <1>1, <2>1, <2>2, <2>4, ServedQuietly
<1>3. CASE RsvCommit(t) \/ RsvDriverCommit(t)
  <2>1. /\ c.pc \in {"rsv_commit", "rsv_dcommit"} /\ c.op = "reserve" /\ Pending(c)
        /\ Granted(d) /\ d.va = c.va /\ ReservationSet(c.va, c.sz)
    BY <1>0, <1>1, <1>3, CommitEffect
  <2>2. pending \in Used /\ c.va \in Nat \ {NoVa}
    BY <1>1, <2>1 DEF TablePlaced, SlotInv, PendingVirgin, AddressOK
  <2>3. /\ SlotsClean' /\ pending \in Index /\ Entries[pending] = Service!NoEntry
        /\ Entries' = [Entries EXCEPT ![pending] = [va |-> c.va, h |-> NoHandle, mapped |-> FALSE]]
    BY <1>1, <2>1, <2>2, CommitEntries
  <2>4. Asked(c) /\ Given(d)
    BY <1>1, <2>1, GivenByOp DEF Asked, AfterEffect
  <2>5. /\ Calls[t] = Told("reserve", NoVa, NoHandle)
        /\ Calls'[t] = Answering("reserve", c.va, NoHandle, TRUE)
        /\ Calls' = [Calls EXCEPT ![t] = Answering("reserve", c.va, NoHandle, TRUE)]
    <3>1. CallOf(c) = Told("reserve", NoVa, NoHandle) /\ CallOf(d) = Answering("reserve", c.va, NoHandle, TRUE)
      BY <1>0, <1>1, <2>1, <2>4, AskedAs, GivenAs
    <3>2. /\ Calls[t] = CallOf(c) /\ Calls'[t] = CallOf(d)
          /\ Calls' = [Calls EXCEPT ![t] = CallOf(d)]
      BY <1>0, <1>1, CallsAfter DEF CallMoves
    <3> QED
      BY <2>1, <3>1, <3>2
  <2>6. Service!ServiceNext
    BY <2>2, <2>3, <2>5, ServeReserve
  <2> QED
    BY <2>3, <2>6 DEF Served
<1>4. CASE RsvRollback(t)
  <2>1. Pending(c) /\ c.op = "reserve" /\ d.pc = "done" /\ ~d.ok /\ AbortPending
    BY <1>0, <1>1, <1>4, RollbackEffect
  <2>2. pending \in Used
    BY <1>1, <2>1 DEF TablePlaced, SlotInv, PendingVirgin
  <2>3. SlotsClean' /\ Entries' = Entries
    BY <1>1, <2>1, <2>2, RollbackEntries
  <2>4. Asked(c) /\ Refused(d)
    BY <2>1 DEF Asked, AfterEffect, Refused, Pending, PendingPc
  <2>5. Unanswered(c, d)
    BY <2>4 DEF Unanswered
  <2> QED
    BY <1>0, <1>1, <2>1, <2>3, <2>5, ServedQuietly
<1> QED
  BY <1>2, <1>3, <1>4

LEMMA BindServed ==
  ASSUME ServiceInv, NEW t \in Thread, CallStep(t), CrtShare(t) \/ CrtBind(t)
  PROVE  SlotsClean' /\ Served
<1>0. PICK c, d, idx : c = call[t] /\ d = call'[t] /\ idx = FindPendingCreate
  OBVIOUS
<1>1. /\ ShimInv /\ SlotInv /\ SlotsClean /\ TargetOK(c) /\ ReadyOK(c)
      /\ CallMoves(t) /\ d.op = c.op /\ StageOK(d) /\ c.h \in Handle
  BY <1>0, CallMove, AtStep
  DEF ServiceInv, SerialInv, ClientInv, ShimInv, StateOK, CallMoves, CallsOK
<1>2. /\ c.pc \in {"crt_share", "crt_bind"} /\ c.op = "create"
      /\ Bound(d) \/ Succeeded(d, "create")
      /\ d.h = c.h /\ BindCreate(c.h)
  BY <1>0, <1>1, BindEffect
<1>3. c.h \in Handle \ {NoHandle} /\ idx >= 0
  BY <1>0, <1>1, <1>2 DEF ReadyOK, TargetOK
<1>5. /\ SlotsClean' /\ idx \in Index /\ slots[idx].va # NoVa
      /\ Entries[idx] = [va |-> slots[idx].va, h |-> NoHandle, mapped |-> slots[idx].mapped]
      /\ Entries' = [Entries EXCEPT ![idx] = [va |-> slots[idx].va, h |-> c.h,
                                              mapped |-> slots[idx].mapped]]
  <2>1. SlotInv /\ SlotsClean /\ BindCreate(c.h) /\ idx = FindPendingCreate
    BY <1>0, <1>1, <1>2
  <2> QED
    BY <1>3, <2>1, BindEntries
<1>6. Asked(c) /\ Given(d)
  BY <1>1, <1>2, GivenByOp DEF Asked, AfterEffect
<1>7. /\ Calls[t] = Told("create", NoVa, NoHandle)
      /\ Calls' = [Calls EXCEPT ![t] = Answering("create", NoVa, c.h, TRUE)]
  <2>1. CallOf(c) = Told("create", NoVa, NoHandle) /\ CallOf(d) = Answering("create", NoVa, c.h, TRUE)
    BY <1>0, <1>1, <1>2, <1>6, AskedAs, GivenAs
  <2>2. /\ Calls[t] = CallOf(c) /\ Calls'[t] = CallOf(d)
        /\ Calls' = [Calls EXCEPT ![t] = CallOf(d)]
    BY <1>0, <1>1, CallsAfter DEF CallMoves
  <2> QED
    BY <1>2, <2>1, <2>2
<1>8. Service!ServiceNext
  BY <1>3, <1>5, <1>7, ServeCreate
<1> QED
  BY <1>5, <1>8 DEF Served

LEMMA ReleaseServed ==
  ASSUME ServiceInv, NEW t \in Thread, CallStep(t), RelClear(t)
  PROVE  SlotsClean' /\ Served
<1>0. PICK c, d, idx : c = call[t] /\ d = call'[t] /\ idx = FindByHandle(c.h)
  OBVIOUS
<1>1. /\ ShimInv /\ SlotInv /\ SlotsClean /\ ReadyOK(c) /\ UsingOK(t)
      /\ CallMoves(t) /\ d.op = c.op /\ StageOK(d) /\ c.h \in Handle
  BY <1>0, CallMove, AtStep
  DEF ServiceInv, SerialInv, ClientInv, ShimInv, StateOK, CallMoves, CallsOK
<1>2. /\ c.pc = "rel_clear" /\ c.op = "release"
      /\ Succeeded(d, "release") /\ d.h = c.h /\ ClearHandle(c.h)
  BY <1>0, <1>1, UnbindEffect
<1>3. c.h \in Handle \ {NoHandle}
  BY <1>0, <1>1, <1>2 DEF UsingOK
<1>4. idx \in SlotsBoundTo(c.h)
  <2>1. idx >= 0
    BY <1>0, <1>1, <1>2 DEF ReadyOK
  <2> QED
    BY <1>0, <2>1, FoundByHandle
<1>6. /\ SlotsClean' /\ idx \in Index /\ slots[idx].va # NoVa
      /\ Entries[idx] = [va |-> slots[idx].va, h |-> c.h, mapped |-> slots[idx].mapped]
      /\ Entries' = [Entries EXCEPT ![idx] = [va |-> slots[idx].va, h |-> NoHandle,
                                              mapped |-> FALSE]]
  <2>1. SlotInv /\ SlotsClean /\ ClearHandle(c.h) /\ idx = FindByHandle(c.h)
    BY <1>0, <1>1, <1>2
  <2> QED
    BY <1>3, <1>4, <2>1, UnbindEntries
<1>7. Asked(c) /\ Given(d)
  BY <1>1, <1>2, GivenByOp DEF Asked, AfterEffect
<1>8. /\ Calls[t] = Told("release", NoVa, c.h)
      /\ Calls' = [Calls EXCEPT ![t] = Answering("release", NoVa, c.h, TRUE)]
  <2>1. CallOf(c) = Told("release", NoVa, c.h) /\ CallOf(d) = Answering("release", NoVa, c.h, TRUE)
    BY <1>0, <1>1, <1>2, <1>7, AskedAs, GivenAs
  <2>2. /\ Calls[t] = CallOf(c) /\ Calls'[t] = CallOf(d)
        /\ Calls' = [Calls EXCEPT ![t] = CallOf(d)]
    BY <1>0, <1>1, CallsAfter DEF CallMoves
  <2> QED
    BY <1>2, <2>1, <2>2
<1>9. Service!ServiceNext
  BY <1>3, <1>6, <1>8, ServeRelease
<1> QED
  BY <1>6, <1>9 DEF Served

LEMMA FreeServed ==
  ASSUME ServiceInv, NEW t \in Thread, CallStep(t), FreSlot(t)
  PROVE  SlotsClean' /\ Served
<1>0. PICK c, d, idx : c = call[t] /\ d = call'[t] /\ idx = FindByVa(c.va)
  OBVIOUS
<1>1. /\ ShimInv /\ SlotInv /\ SlotsClean /\ SerialInv /\ SlotsMatch /\ ArgumentsOK(t)
      /\ CallMoves(t) /\ d.op = c.op /\ StageOK(d)
  BY <1>0, CallMove, AtStep
  DEF ServiceInv, SerialInv, ClientInv, ShimInv, StateOK, CallMoves, CallsOK
<1>2. /\ c.pc = "fre_slot" /\ c.op = "free"
      /\ Succeeded(d, "free") /\ d.va = c.va /\ SlotFreeByVa(c.va)
  BY <1>0, <1>1, FreeEffect
<1>3. c.va \in Nat \ {NoVa} /\ idx \in SlotsAt(c.va)
  BY <1>0, <1>1, <1>2, AddressHasSlot
<1>4. SlotsClean' /\ idx \in Index /\ Entries' = [Entries EXCEPT ![idx] = Service!NoEntry]
  BY <1>0, <1>1, <1>2, <1>3, FreeEntries
<1>5. Entries[idx].va = c.va
  BY <1>3, <1>4 DEF SlotsAt, Entries, EntryOf
<1>6. Asked(c) /\ Given(d)
  BY <1>1, <1>2, GivenByOp DEF Asked, AfterEffect
<1>7. /\ Calls[t] = Told("free", c.va, NoHandle)
      /\ Calls' = [Calls EXCEPT ![t] = Answering("free", c.va, NoHandle, TRUE)]
  <2>1. CallOf(c) = Told("free", c.va, NoHandle) /\ CallOf(d) = Answering("free", c.va, NoHandle, TRUE)
    BY <1>0, <1>1, <1>2, <1>6, AskedAs, GivenAs
  <2>2. /\ Calls[t] = CallOf(c) /\ Calls'[t] = CallOf(d)
        /\ Calls' = [Calls EXCEPT ![t] = CallOf(d)]
    BY <1>0, <1>1, CallsAfter DEF CallMoves
  <2> QED
    BY <1>2, <2>1, <2>2
<1>8. Service!ServiceNext
  BY <1>3, <1>4, <1>5, <1>7, ServeFree
<1> QED
  BY <1>4, <1>8 DEF Served

(* A step that rewrites the mapped mark of the slot the call names.        *)
LEMMA MarkServed ==
  ASSUME ServiceInv, NEW t \in Thread, CallStep(t), MapPacked(t) \/ MapMark(t)
  PROVE  SlotsClean' /\ Served
<1>0. PICK c, d, idx : c = call[t] /\ d = call'[t] /\ idx = FindByVa(c.va)
  OBVIOUS
<1>1. /\ ShimInv /\ CallsOK /\ SlotInv /\ SlotsClean /\ SerialInv /\ SlotsMatch /\ ArgumentsOK(t)
      /\ ReadyOK(c) /\ CallMoves(t) /\ d.op = c.op /\ StageOK(c) /\ call \in [Thread -> CallRecord]
      /\ ShimStep(t)
  BY <1>0, CallMove, AtStep
  DEF ServiceInv, SerialInv, ClientInv, ShimInv, StateOK, CallMoves, CallsOK
<1>2. c.pc \in {"map_packed", "map_mark"} /\ c.op = "map"
  <2>1. c.pc \in {"map_packed", "map_mark"}
    BY <1>0 DEF MapPacked, MapMark, At
  <2> QED
    BY <1>1, <2>1, OpOfPc DEF MapPc
<1>3. d.va = c.va /\ d.h = c.h
  BY <1>0, <1>1, <1>2, ArgumentsKept
<1>4. Given(d)
  BY <1>0, <1>1 DEF MapPacked, MapMark, Goto, Return, Given, AfterEffect, CallRecord
<1>5. Asked(c)
  BY <1>2 DEF Asked, AfterEffect
<1>6. c.va \in Nat \ {NoVa} /\ idx \in SlotsAt(c.va)
  BY <1>0, <1>1, <1>2, AddressHasSlot
<1>7. WriteSlot(idx, [slots[idx] EXCEPT !.mapped = TRUE])
  BY <1>0 DEF MapPacked, MapMark, MarkMapped
<1>8. /\ SlotsClean' /\ idx \in Index
      /\ slots[idx].hasHandle <=> slots[idx].handle # NoHandle
      /\ Entries[idx] = [va |-> c.va, h |-> slots[idx].handle, mapped |-> slots[idx].mapped]
      /\ Entries' = [Entries EXCEPT ![idx] = [va |-> c.va, h |-> slots[idx].handle, mapped |-> TRUE]]
  <2>1. SlotInv /\ SlotsClean /\ c.va # NoVa
    BY <1>1, <1>6
  <2>2. idx \in SlotsAt(c.va)
    BY <1>6
  <2> QED
    BY <1>7, <2>1, <2>2, MarkEntries
<1>9. slots[idx].handle # NoHandle
  BY <1>0, <1>1, <1>2, <1>8 DEF ReadyOK
<1>10. Calls[t] = Told("map", c.va, c.h)
       /\ Calls' = [Calls EXCEPT ![t] = Answering("map", c.va, c.h, TRUE)]
  <2>1. CallOf(c) = Told("map", c.va, c.h) /\ CallOf(d) = Answering("map", c.va, c.h, TRUE)
    BY <1>1, <1>2, <1>3, <1>4, <1>5, AskedAs, GivenAs
  <2>2. Calls[t] = CallOf(c) /\ Calls' = [Calls EXCEPT ![t] = CallOf(d)]
    BY <1>0, <1>1, CallsAfter DEF CallMoves
  <2> QED
    BY <2>1, <2>2
<1>11. Service!ServiceNext
  BY <1>6, <1>8, <1>9, <1>10, ServeMap
<1> QED
  BY <1>8, <1>11 DEF Served

LEMMA UnmarkServed ==
  ASSUME ServiceInv, NEW t \in Thread, CallStep(t), UnmClear(t)
  PROVE  SlotsClean' /\ Served
<1>0. PICK c, d, idx : c = call[t] /\ d = call'[t] /\ idx = FindByVa(c.va)
  OBVIOUS
<1>1. /\ ShimInv /\ CallsOK /\ SlotInv /\ SlotsClean /\ SerialInv /\ SlotsMatch /\ ArgumentsOK(t)
      /\ CallMoves(t) /\ d.op = c.op /\ StageOK(c) /\ call \in [Thread -> CallRecord]
      /\ ShimStep(t)
  BY <1>0, CallMove, AtStep
  DEF ServiceInv, SerialInv, ClientInv, ShimInv, StateOK, CallMoves, CallsOK
<1>2. c.pc = "unm_clear" /\ c.op = "unmap"
  <2>1. c.pc = "unm_clear"
    BY <1>0 DEF UnmClear, At
  <2> QED
    BY <1>1, <2>1, OpOfPc DEF UnmapPc
<1>3. d.va = c.va /\ d.h = c.h
  BY <1>0, <1>1, <1>2, ArgumentsKept
<1>4. Given(d)
  BY <1>0, <1>1 DEF UnmClear, Return, Given, AfterEffect, CallRecord
<1>5. Asked(c)
  BY <1>2 DEF Asked, AfterEffect
<1>6. c.va \in Nat \ {NoVa} /\ idx \in SlotsAt(c.va)
  BY <1>0, <1>1, <1>2, AddressHasSlot
<1>7. WriteSlot(idx, [slots[idx] EXCEPT !.mapped = FALSE])
  BY <1>0 DEF UnmClear, ClearMapped
<1>8. /\ SlotsClean' /\ idx \in Index
      /\ Entries[idx] = [va |-> c.va, h |-> slots[idx].handle, mapped |-> slots[idx].mapped]
      /\ Entries' = [Entries EXCEPT ![idx] = [va |-> c.va, h |-> slots[idx].handle, mapped |-> FALSE]]
  <2>1. SlotInv /\ SlotsClean /\ c.va # NoVa
    BY <1>1, <1>6
  <2>2. idx \in SlotsAt(c.va)
    BY <1>6
  <2> QED
    BY <1>7, <2>1, <2>2, MarkEntries
<1>9. Calls[t] = Told("unmap", c.va, NoHandle)
      /\ Calls' = [Calls EXCEPT ![t] = Answering("unmap", c.va, NoHandle, TRUE)]
  <2>1. /\ CallOf(c) = Told("unmap", c.va, NoHandle)
        /\ CallOf(d) = Answering("unmap", c.va, NoHandle, TRUE)
    BY <1>1, <1>2, <1>3, <1>4, <1>5, AskedAs, GivenAs
  <2>2. Calls[t] = CallOf(c) /\ Calls' = [Calls EXCEPT ![t] = CallOf(d)]
    BY <1>0, <1>1, CallsAfter DEF CallMoves
  <2> QED
    BY <2>1, <2>2
<1>10. Service!ServiceNext
  BY <1>6, <1>8, <1>9, ServeUnmap
<1> QED
  BY <1>8, <1>10 DEF Served

(* The steps of a map or an unmap that only lead up to it, or follow it.   *)
LEMMA MappingOutcome ==
  ASSUME CallsOK, NEW t \in Thread, NEW c, c = call[t], NEW d, d = call'[t],
         MapStep(t) \/ UnmapStep(t), ~MapPacked(t), ~MapMark(t), ~UnmClear(t)
  PROVE  \/ Asked(c) /\ (Asked(d) \/ Refused(d))
         \/ Given(c) /\ Given(d)
<1>1. call \in [Thread -> CallRecord] /\ c \in CallRecord
  BY DEF CallsOK
<1>2. ASSUME NEW q, Goto(t, q) PROVE d.pc = q
  BY <1>1, <1>2 DEF Goto, CallRecord
<1>3. ASSUME NEW ok \in BOOLEAN, Return(t, ok) PROVE d.pc = "done" /\ (d.ok <=> ok)
  BY <1>1, <1>3 DEF Return, CallRecord
<1>4. CASE MapValidate(t)
  <2>1. c.pc = "map_validate" /\ (d.pc = "map_route" \/ Refused(d))
    BY <1>2, <1>3, <1>4 DEF MapValidate, At, Refused
  <2> QED
    BY <2>1 DEF Asked, AfterEffect
<1>5. CASE MapRoute(t)
  <2>1. c.pc = "map_route" /\ d.pc \in {"map_packed", "map_off"}
    BY <1>2, <1>5 DEF MapRoute, At
  <2> QED
    BY <2>1 DEF Asked, AfterEffect
<1>6. CASE MapOff(t)
  <2>1. c.pc = "map_off" /\ d.pc = "map_driver"
    BY <1>1, <1>6 DEF MapOff, At, CallRecord
  <2> QED
    BY <2>1 DEF Asked, AfterEffect
<1>7. CASE MapDriver(t)
  <2>1. c.pc = "map_driver" /\ (d.pc = "map_mark" \/ Refused(d))
    BY <1>2, <1>3, <1>7 DEF MapDriver, At, Refused
  <2> QED
    BY <2>1 DEF Asked, AfterEffect
<1>8. CASE MapReq(t)
  <2>1. ASSUME NEW sz, call' = [call EXCEPT ![t].pc = "map_bump", ![t].sz = sz]
        PROVE  d.pc = "map_bump"
    BY <1>1, <2>1 DEF CallRecord
  <2>2. c.pc = "map_req" /\ (d.pc = "map_bump" \/ (d.pc = "done" /\ d.ok))
    BY <1>3, <1>8, <2>1 DEF MapReq, At
  <2> QED
    BY <2>2 DEF Given, AfterEffect
<1>9. CASE MapBump(t)
  <2>1. c.pc = "map_bump" /\ d.pc = "done" /\ d.ok
    BY <1>3, <1>9 DEF MapBump, At
  <2> QED
    BY <2>1 DEF Given, AfterEffect
<1>10. CASE UnmValidate(t)
  <2>1. c.pc = "unm_validate" /\ (d.pc \in {"unm_known", "unm_route"} \/ Refused(d))
    BY <1>2, <1>3, <1>10 DEF UnmValidate, At, Refused
  <2> QED
    BY <2>1 DEF Asked, AfterEffect
<1>11. CASE UnmRoute(t)
  <2>1. c.pc = "unm_route" /\ d.pc \in {"unm_clear", "unm_driver"}
    BY <1>2, <1>11 DEF UnmRoute, At
  <2> QED
    BY <2>1 DEF Asked, AfterEffect
<1>12. CASE UnmDriver(t)
  <2>1. c.pc = "unm_driver" /\ (d.pc = "unm_clear" \/ Refused(d))
    BY <1>2, <1>3, <1>12 DEF UnmDriver, At, Refused
  <2> QED
    BY <2>1 DEF Asked, AfterEffect
<1>13. CASE MapUsage(t) \/ MapActive(t)
  <2>1. c.pc \in {"map_usage", "map_active"}
        /\ (d.pc \in {"map_active", "map_req"} \/ (d.pc = "done" /\ d.ok))
    BY <1>2, <1>3, <1>13 DEF MapUsage, MapActive, At
  <2> QED
    BY <2>1 DEF Given, AfterEffect
<1>14. CASE UnmKnown(t)
  <2>1. c.pc = "unm_known" /\ (d.pc = "unm_route" \/ Refused(d))
    BY <1>2, <1>3, <1>14 DEF UnmKnown, At, Refused
  <2> QED
    BY <2>1 DEF Asked, AfterEffect
<1> QED
  BY <1>4, <1>5, <1>6, <1>7, <1>8, <1>9, <1>10, <1>11, <1>12, <1>13, <1>14
  DEF MapStep, UnmapStep

LEMMA MappingSteps ==
  ASSUME CallsOK, NEW t \in Thread, ShimStep(t), call[t].op \in {"map", "unmap"}
  PROVE  MapStep(t) \/ UnmapStep(t)
<1>1. CreateStep(t) => call[t].pc \in CreatePc
  BY DEF CreateStep, CrtPacked, CrtRetain, CrtShare, CrtValidate, CrtDriver, CrtBind,
         CrtSnapshot, CrtOpen, At, CreatePc, AskedPc, BoundPc
<1>2. ReserveStep(t) => call[t].pc \in ReservePc
  BY DEF ReserveStep, RsvBegin, RsvReq, RsvAlias, RsvNoAlias, RsvFlush, RsvTry, RsvMega,
         RsvCommit, RsvMark, RsvOff, RsvSetOff, RsvLeafOff, RsvRegister, RsvDriver,
         RsvRollback, RsvDriverCommit, RsvDriverRegister, RsvWindow, At,
         ReservePc, PendingPc, GrantedPc
<1>3. ReleaseStep(t) \/ FreeStep(t) \/ ResetStep(t)
        => call[t].pc \in ReleasePc \union FreePc \union ResetPc
  BY DEF ReleaseStep, RelValidate, RelRef, RelDriver, RelClear, FreeStep, FreLookup, FreRoute,
         FreDriver, FreSlot, ResetStep, RstFlush, RstPack, RstGqa, RstSlots, At,
         ReleasePc, FreePc, ResetPc
<1> QED
  BY <1>1, <1>2, <1>3, AtStep, OpOfPc DEF ShimStep

LEMMA NotYetIdle ==
  ASSUME NEW c, StageOK(c), c.op # "none"
  PROVE  c.pc # "idle"
  BY DEF StageOK, ReservePc, PendingPc, GrantedPc, CreatePc, AskedPc, BoundPc, MapPc,
         UnmapPc, ReleasePc, FreePc, ResetPc

(* A step that changes no reservation.                                     *)
LEMMA QuietServed ==
  ASSUME ServiceInv, NEW t \in Thread, CallStep(t), TableKept,
         ~MapPacked(t), ~MapMark(t), ~UnmClear(t),
         ~(RsvBegin(t) /\ ReserveBeginSlot), ~RsvCommit(t), ~RsvDriverCommit(t),
         ~RsvRollback(t), ~FreSlot(t), ~CrtShare(t), ~CrtBind(t), ~RelClear(t)
  PROVE  SlotsClean' /\ Served
<1>0. PICK c, d : c = call[t] /\ d = call'[t]
  OBVIOUS
<1>1. /\ ShimInv /\ CallsOK /\ SlotsClean /\ TargetOK(c) /\ ShimStep(t) /\ c.op # "reset"
      /\ CallMoves(t) /\ d.op = c.op /\ StageOK(c) /\ StageOK(d)
      /\ c \in CallRecord /\ d \in CallRecord
  BY <1>0, CallMove, AtStep
  DEF ServiceInv, SerialInv, ClientInv, ShimInv, StateOK, CallMoves, CallsOK
<1>2. SlotsClean' /\ Entries' = Entries
  BY <1>1, EntriesKept
<1>3. c.op # "none" /\ c.pc # "idle" /\ c.pc # "done" /\ d.pc # "idle"
  BY <1>0, <1>1, ShimStepKeeps, NotYetIdle
<1>4. c.op \in {"map", "unmap", "free", "release"} => d.va = c.va /\ d.h = c.h
  BY <1>0, <1>1, ArgumentsKept
<1>5. c.op \in {"reserve", "create", "map", "unmap", "release", "free"}
  BY <1>1, <1>3 DEF CallRecord, Op
<1>6. Unanswered(c, d)
  <2>1. CASE c.op \in {"map", "unmap"}
    <3>1. MapStep(t) \/ UnmapStep(t)
      BY <1>0, <1>1, <2>1, MappingSteps
    <3>2. \/ Asked(c) /\ (Asked(d) \/ Refused(d))
          \/ Given(c) /\ Given(d)
      BY <1>0, <1>1, <3>1, MappingOutcome
    <3> QED
      BY <1>1, <1>4, <2>1, <3>2, KeptOutcome
  <2>2. CASE c.op \notin {"map", "unmap"} /\ Bookkeeping(t)
    <3>1. SamePhase(c, d)
      BY <1>0, <2>2 DEF Bookkeeping, QuietCall
    <3>2. d.ok \in BOOLEAN
      BY <1>1 DEF CallRecord
    <3> QED
      BY <1>1, <1>3, <1>4, <1>5, <2>2, <3>1, <3>2, QuietOutcome
  <2>3. CASE CrtDriver(t) /\ At(t, "crt_bind")'
    <3>1. c.pc = "crt_driver" /\ c.op = "create" /\ d.pc = "crt_bind"
      BY <1>0, <1>1, <2>3, MadeEffect DEF Made
    <3>2. Asked(c) /\ Asked(d)
      BY <3>1 DEF Asked, AfterEffect
    <3> QED
      BY <1>1, <3>1, <3>2, KeptOutcome
  <2>4. CASE CrtSnapshot(t) /\ legacyVa = NoVa
    BY <1>0, <1>1, <2>4, SnapshotEffect DEF TargetOK
  <2>5. CASE CrtOpen(t)
    <3>1. c.pc = "crt_open" /\ c.op = "create" /\ Succeeded(d, "create") /\ d.h = c.h
      BY <1>0, <1>1, <2>5, OpenEffect
    <3>2. Given(c) /\ Given(d)
      BY <3>1 DEF Given, Succeeded, AfterEffect
    <3> QED
      BY <1>1, <3>1, <3>2, KeptOutcome
  <2> QED
    BY <1>0, <1>1, <1>5, <2>1, <2>2, <2>3, <2>4, <2>5, ShimStepKeeps
<1>7. Served
  BY <1>0, <1>1, <1>2, <1>4, <1>6, ServedQuietly
<1> QED
  BY <1>2, <1>7

LEMMA CallServed ==
  ASSUME ServiceInv, NEW t \in Thread, CallStep(t)
  PROVE  SlotsClean' /\ Served
<1>1. ShimInv /\ ShimStep(t) /\ call[t].op # "reset"
  BY CallMove DEF ServiceInv, SerialInv, ClientInv
<1>2. CASE \/ RsvBegin(t) /\ ReserveBeginSlot
           \/ RsvCommit(t) \/ RsvDriverCommit(t) \/ RsvRollback(t)
  BY <1>2, ReserveServed
<1>3. CASE CrtShare(t) \/ CrtBind(t)
  BY <1>3, BindServed
<1>4. CASE RelClear(t)
  BY <1>4, ReleaseServed
<1>5. CASE FreSlot(t)
  BY <1>5, FreeServed
<1>6. CASE MapPacked(t) \/ MapMark(t)
  BY <1>6, MarkServed
<1>7. CASE UnmClear(t)
  BY <1>7, UnmarkServed
<1> QED
  BY <1>1, <1>2, <1>3, <1>4, <1>5, <1>6, <1>7, TableSteps, QuietServed

-----------------------------------------------------------------------------
(* Clients enter and leave calls as the service lets them.                 *)

LEMMA StartServed ==
  ASSUME ServiceInv, NEW t \in Thread, NEW b \in Buffer, Starts(t, b)
  PROVE  SlotsClean' /\ Served
<1>0. PICK c, d : c = call[t] /\ d = call'[t]
  OBVIOUS
<1>1. /\ ClientInv /\ SlotsClean /\ StageOK(c) /\ c.pc = "idle" /\ UNCHANGED shimVars
      /\ \A s \in Thread \ {t} : call'[s] = call[s]
      /\ ClientInv'
      /\ d.pc \in {"rsv_begin", "crt_packed", "map_validate", "unm_validate",
                   "rel_validate", "fre_lookup"}
  BY <1>0, StartMove, AtStep
  DEF ServiceInv, SerialInv, ClientInv, ShimInv, Starts, StartReserve, StartCreate, StartMap,
      StartUnmap, StartRelease, StartFree, Start, Idle
<1>2. d \in CallRecord /\ StageOK(d) /\ d.op \in Service!Operation
  <2>1. d \in CallRecord /\ StageOK(d)
    BY <1>0, <1>1 DEF ClientInv, ShimInv, CallsOK
  <2> QED
    BY <1>1, <2>1 DEF CallRecord, Op, StageOK, Service!Operation
<1>3. SlotsClean' /\ Entries' = Entries
  BY <1>1 DEF SlotsClean, Entries, EntryOf, shimVars, slotVars, Used
<1>4. CallOf(c) = Service!NoCall
  BY <1>1, CallIdle
<1>5. CallOf(d) \in [op : Service!Operation, va : Nat, h : Handle, phase : {"called"}, ok : {FALSE}]
  <2>1. Asked(d)
    BY <1>1 DEF Asked, AfterEffect
  <2>2. d.va \in Nat /\ d.h \in Handle /\ NoVa \in Nat /\ NoHandle \in Handle
    BY <1>2, DriverAssumption DEF CallRecord, NoVa
  <2>3. PICK va, h : /\ va = IF d.op \in {"map", "unmap", "free"} THEN d.va ELSE NoVa
                     /\ h = IF d.op \in {"map", "release"} THEN d.h ELSE NoHandle
    OBVIOUS
  <2>4. va \in Nat /\ h \in Handle
    BY <2>2, <2>3
  <2>5. CallOf(d) = [op |-> d.op, va |-> va, h |-> h, phase |-> "called", ok |-> FALSE]
    BY <2>1, <2>3, CallAsked
  <2>6. "called" \in {"called"} /\ FALSE \in {FALSE}
    OBVIOUS
  <2> QED
    BY <1>2, <2>4, <2>5, <2>6
<1>6. /\ Calls[t] = CallOf(c) /\ Calls'[t] = CallOf(d)
      /\ Calls' = [Calls EXCEPT ![t] = CallOf(d)]
  BY <1>0, <1>1, CallsAfter
<1>7. Calls[t].phase = "idle"
  BY <1>4, <1>6 DEF Service!NoCall
<1>8. Service!Begin(t)
  BY <1>3, <1>5, <1>6, <1>7 DEF Service!Begin
<1>9. Service!ServiceNext
  BY <1>8 DEF Service!ServiceNext
<1> QED
  BY <1>3, <1>9 DEF Served

LEMMA FinishServed ==
  ASSUME ServiceInv, NEW t \in Thread, Finish(t)
  PROVE  SlotsClean' /\ Served
<1>0. PICK c, d : c = call[t] /\ d = call'[t]
  OBVIOUS
<1>1. /\ SlotsClean /\ c.pc = "done" /\ d.pc = "idle" /\ UNCHANGED shimVars
      /\ \A s \in Thread \ {t} : call'[s] = call[s]
      /\ ClientInv'
  BY <1>0, FinishMove DEF ServiceInv, SerialInv
<1>2. StageOK(d)
  BY <1>0, <1>1 DEF ClientInv, ShimInv, CallsOK
<1>3. SlotsClean' /\ Entries' = Entries
  BY <1>1 DEF SlotsClean, Entries, EntryOf, shimVars, slotVars, Used
<1>4. CallOf(d) = Service!NoCall
  BY <1>1, <1>2, CallIdle
<1>5. CallOf(c).phase = "answered"
  BY <1>1, CallGiven, CallRefused DEF Given, Refused
<1>6. /\ Calls[t] = CallOf(c)
      /\ Calls' = [Calls EXCEPT ![t] = CallOf(d)]
  BY <1>0, <1>1, CallsAfter
<1>7. Service!Return(t)
  BY <1>3, <1>4, <1>5, <1>6 DEF Service!Return
<1>8. Service!ServiceNext
  BY <1>7 DEF Service!ServiceNext
<1> QED
  BY <1>3, <1>8 DEF Served

LEMMA ServiceMoves ==
  ASSUME OneAtATime, ServiceInv, [ClientNext]_clientVars
  PROVE  ServiceInv' /\ Served
<1>1. PICK t \in Thread : Thread = {t}
  BY DEF OneAtATime
<1>2. PICK c, d : c = call[t] /\ d = call'[t]
  OBVIOUS
<1>3. SerialInv /\ SlotsMatch /\ SlotsClean /\ ReadyOK(c) /\ ArgumentsOK(t)
      /\ \A b \in Buffer : BufferOK(b)
  BY <1>1, <1>2 DEF ServiceInv
<1>4. SerialInv' /\ SlotsMatch'
  BY <1>3, SerialMoves, SlotsStayMatched
<1>5. ASSUME ReadyOK(d)', ArgumentsOK(t)', \A b \in Buffer : BufferOK(b)', SlotsClean'
      PROVE  ServiceInv'
  <2>1. ReadyOK(call[t])'
    BY <1>2, <1>5 DEF ReadyOK
  <2> QED
    BY <1>1, <1>4, <1>5, <2>1 DEF ServiceInv
<1>6. CASE ClientNext
  <2>1. ClientStep(t)
    BY <1>1, <1>6 DEF ClientNext
  <2>2. CASE Finish(t)
    BY <1>2, <1>5, <2>2, ServiceAtFinish, FinishServed
  <2>3. CASE \E b \in Buffer : Starts(t, b)
    BY <1>2, <1>5, <2>3, ServiceAtStart, StartServed
  <2>4. CASE CallStep(t)
    <3>1. /\ ClientInv /\ ShimInv /\ ShimStep(t) /\ CallMoves(t) /\ buffer' = buffer
          /\ using' = using /\ d.op = c.op
      BY <1>2, <1>3, <2>4, CallMove DEF SerialInv, ClientInv, CallMoves
    <3>2. ReadyOK(d)'
      BY <1>2, <1>3, <3>1, ReadyInCall
    <3>3. d.op \in {"map", "unmap"} => d.va = c.va
      BY <1>2, <3>1, ArgumentsKept
    <3>4. ArgumentsOK(t)'
      BY <1>2, <1>3, <3>1, <3>3 DEF ArgumentsOK
    <3>5. ASSUME NEW b \in Buffer PROVE BufferOK(b)'
      <4>1. BufferOK(b)
        BY <1>3
      <4>2. CallFor(b)'.op = CallFor(b).op /\ Busy(b)' = Busy(b)
        BY <1>1, <1>2, <3>1, ClientAssumption DEF CallFor, Busy
      <4> QED
        BY <3>1, <4>1, <4>2 DEF BufferOK
    <3>6. SlotsClean' /\ Served
      BY <2>4, CallServed
    <3> QED
      BY <1>5, <3>2, <3>4, <3>5, <3>6
  <2> QED
    BY <2>1, <2>2, <2>3, <2>4 DEF ClientStep, Starts
<1>7. CASE UNCHANGED clientVars
  <2>1. UNCHANGED <<slots, pending, call, buffer, using>>
    BY <1>7 DEF clientVars, vars, shimVars, slotVars
  <2>2. ReadyOK(d)'
    BY <1>2, <1>3, <2>1 DEF ReadyOK, FindByVa, FindByHandle, FindPendingCreate, Used
  <2>3. ArgumentsOK(t)' /\ \A b \in Buffer : BufferOK(b)'
    BY <1>3, <2>1 DEF ArgumentsOK, BufferOK, Busy, CallFor
  <2>4. SlotsClean' /\ Entries' = Entries
    BY <1>3, <2>1 DEF SlotsClean, Entries, EntryOf, Used
  <2>5. Calls' = Calls
    BY <2>1 DEF Calls
  <2> QED
    BY <1>5, <2>2, <2>3, <2>4, <2>5 DEF Served
<1> QED
  BY <1>6, <1>7

LEMMA ServiceAtInit == ClientInit => Service!ServiceInit
<1> SUFFICES ASSUME ClientInit PROVE Service!ServiceInit
  OBVIOUS
<1>1. ServiceInv
  BY ServiceStart
<1>2. SlotInv /\ SlotsClean /\ CallsOK
  BY <1>1 DEF ServiceInv, SerialInv, ClientInv, ShimInv, StateOK
<1>3. ASSUME NEW i \in Index PROVE Entries[i] = Service!NoEntry
  <2>1. slots[i].va = NoVa
    BY DEF ClientInit, ShimInit, SlotInit, EmptySlot
  <2> QED
    BY <1>2, <2>1, BlankEntry
<1>4. ASSUME NEW t \in Thread PROVE Calls[t] = Service!NoCall
  <2>1. call[t].pc = "idle" /\ StageOK(call[t])
    BY <1>2 DEF ClientInit, ShimInit, IdleCall, CallsOK
  <2> QED
    BY <2>1, CallIdle DEF Calls
<1>5. Entries = [i \in Index |-> Service!NoEntry]
  BY <1>3 DEF Entries
<1>6. Calls = [t \in Thread |-> Service!NoCall]
  BY <1>4 DEF Calls
<1> QED
  BY <1>5, <1>6 DEF Service!ServiceInit

(* One call at a time: the interposed calls implement the reservation      *)
(* service.  However many helpers and driver calls one of them is made of, *)
(* and wherever it fails, it changes one reservation at one instant and    *)
(* answers success, or changes none and is refused.                        *)
THEOREM SerialCallsAtomic ==
  ASSUME OneAtATime
  PROVE  ClientSpec => CallsAreAtomic
<1>1. ServiceInv /\ [ClientNext]_clientVars => ServiceInv'
  BY ServiceMoves
<1>2. ServiceInv /\ [ClientNext]_clientVars => [Service!ServiceNext]_(Service!serviceVars)
  BY ServiceMoves DEF Served, Service!serviceVars
<1> QED
  BY <1>1, <1>2, ServiceStart, ServiceAtInit, PTL DEF ClientSpec, CallsAreAtomic, Service!ServiceSpec
=============================================================================
