-------------------------- MODULE EventMixinProofs --------------------------
(***************************************************************************)
(* SnapshotDelivery holds for every set of events and every depth of       *)
(* nesting.  A handler that is added gets the counter as its handle; the   *)
(* counter never was below the handles in the store nor below the counter  *)
(* a call of trigger began with, so the call does not see the handler.     *)
(***************************************************************************)
EXTENDS EventMixin, SequenceTheorems, TLAPS

(* Handles are younger than none of the calls that could miss them. *)
HandleInv ==
  /\ \A e \in Events : \A h \in store[e] : h < counter
  /\ \A i \in 1 .. Len(calls) : calls[i].since <= counter

Inv == TypeOK /\ HandleInv /\ SnapshotDelivery

(* The calls below the innermost one. *)
LEMMA FrontFacts ==
  ASSUME NEW S, NEW seq \in Seq(S), seq # <<>>
  PROVE  LET front == SubSeq(seq, 1, Len(seq) - 1)
         IN  /\ front \in Seq(S)
             /\ Len(front) = Len(seq) - 1
             /\ \A i \in 1 .. Len(front) : i \in 1 .. Len(seq) /\ front[i] = seq[i]
<1> DEFINE n == Len(seq) - 1
<1>1. n \in Nat /\ Len(seq) \in Nat /\ Len(seq) = n + 1
  BY EmptySeq, LenProperties
<1>2. \A i \in 1 .. n : seq[i] \in S
  BY <1>1, ElementOfSeq
<1>3. /\ SubSeq(seq, 1, n) \in Seq(S)
      /\ Len(SubSeq(seq, 1, n)) = IF 1 <= n THEN n - 1 + 1 ELSE 0
      /\ \A i \in 1 .. n - 1 + 1 : SubSeq(seq, 1, n)[i] = seq[1 + i - 1]
  <2> HIDE DEF n
  <2> QED
    BY <1>1, <1>2, SubSeqProperties
<1>4. Len(SubSeq(seq, 1, n)) = n
  <2> HIDE DEF n
  <2> QED
    BY <1>1, <1>3
<1>5. \A i \in 1 .. n : i \in 1 .. Len(seq) /\ SubSeq(seq, 1, n)[i] = seq[i]
  <2> HIDE DEF n
  <2> QED
    BY <1>1, <1>3
<1>6. QED
  BY <1>3, <1>4, <1>5

LEMMA CallTypes ==
  ASSUME TypeOK, NEW i \in 1 .. Len(calls)
  PROVE  /\ calls[i] \in Call
         /\ calls[i].event \in Events /\ calls[i].since \in Nat
         /\ calls[i].todo \subseteq Nat /\ calls[i].called \subseteq Nat
<1>1. calls[i] \in Call
  BY ElementOfSeq DEF TypeOK
<1>2. QED
  BY <1>1 DEF Call

(* A call that ends, by an exception or not, leaves the others as they are. *)
LEMMA PopKeeps ==
  ASSUME Inv, calls # <<>>, calls' = Pop, running' = (Len(calls) > 1),
         UNCHANGED <<store, counter, removed>>
  PROVE  Inv'
<1>1. /\ calls' \in Seq(Call)
      /\ Len(calls') = Len(calls) - 1
      /\ \A i \in 1 .. Len(calls') : i \in 1 .. Len(calls) /\ calls'[i] = calls[i]
  BY FrontFacts DEF Inv, TypeOK, Pop
<1>2. TypeOK'
  <2>1. Len(calls) > 1 => calls' # <<>>
    BY <1>1, EmptySeq
  <2>2. running' \in BOOLEAN
    OBVIOUS
  <2>3. QED
    BY <1>1, <2>1, <2>2 DEF Inv, TypeOK
<1>3. HandleInv' /\ SnapshotDelivery'
  BY <1>1 DEF Inv, HandleInv, SnapshotDelivery
<1>4. QED
  BY <1>2, <1>3 DEF Inv

(* A handler that is added is in no snapshot taken before. *)
LEMMA OnKeeps ==
  ASSUME Inv, NEW e \in Events, on(e)
  PROVE  Inv'
<1>1. /\ counter' = counter + 1 /\ counter \in Nat
      /\ store' = [store EXCEPT ![e] = @ \cup {counter}]
      /\ UNCHANGED <<calls, running, removed>>
  BY DEF on, Inv, TypeOK
<1>2. TypeOK'
  BY <1>1 DEF Inv, TypeOK
<1>3. HandleInv'
  <2>1. \A f \in Events : \A h \in store'[f] : h < counter'
    BY <1>1 DEF Inv, TypeOK, HandleInv
  <2>2. \A i \in 1 .. Len(calls) : calls[i].since \in Nat
    BY CallTypes DEF Inv
  <2>3. QED
    BY <1>1, <2>1, <2>2 DEF Inv, HandleInv
<1>4. SnapshotDelivery'
  <2> SUFFICES ASSUME NEW i \in 1 .. Len(calls)
               PROVE  {h \in store'[calls[i].event] : h < calls[i].since}
                        = {h \in store[calls[i].event] : h < calls[i].since}
    BY <1>1 DEF Inv, SnapshotDelivery
  <2>1. calls[i].event \in Events /\ calls[i].since \in Nat /\ calls[i].since <= counter
    BY CallTypes DEF Inv, HandleInv
  <2>2. \A h \in store'[calls[i].event] :
          h \in store[calls[i].event] \/ ~(h < calls[i].since)
    BY <1>1, <2>1 DEF Inv, TypeOK
  <2>3. store[calls[i].event] \subseteq store'[calls[i].event]
    BY <1>1, <2>1 DEF Inv, TypeOK
  <2>4. QED
    BY <2>2, <2>3
<1>5. QED
  BY <1>2, <1>3, <1>4 DEF Inv

(* trigger's copy is what the store holds: every handle in it is younger    *)
(* than the counter.                                                        *)
LEMMA TriggerKeeps ==
  ASSUME Inv, NEW e \in Events, trigger(e)
  PROVE  Inv'
<1> DEFINE c == [event |-> e, todo |-> store[e], called |-> {}, since |-> counter]
<1>1. /\ calls' = Append(calls, c) /\ c \in Call
      /\ UNCHANGED <<store, counter, removed>> /\ running' = FALSE
  BY DEF trigger, Inv, TypeOK, Call
<1>2. /\ calls' \in Seq(Call) /\ Len(calls') = Len(calls) + 1
      /\ calls'[Len(calls')] = c
      /\ \A i \in 1 .. Len(calls) : calls'[i] = calls[i]
  BY <1>1 DEF Inv, TypeOK
<1>3. \A i \in 1 .. Len(calls') : i \in 1 .. Len(calls) \/ calls'[i] = c
  BY <1>2 DEF Inv, TypeOK
<1>4. TypeOK'
  BY <1>1, <1>2 DEF Inv, TypeOK
<1>5. HandleInv'
  BY <1>1, <1>2, <1>3 DEF Inv, TypeOK, HandleInv
<1>6. SnapshotDelivery'
  <2> SUFFICES ASSUME NEW i \in 1 .. Len(calls')
               PROVE  /\ calls'[i].todo \cup calls'[i].called
                           = {h \in store[calls'[i].event] : h < calls'[i].since}
                      /\ calls'[i].todo \cap calls'[i].called = {}
    BY <1>1 DEF SnapshotDelivery
  <2>1. CASE i \in 1 .. Len(calls)
    BY <1>2, <2>1 DEF Inv, SnapshotDelivery
  <2>2. CASE calls'[i] = c
    BY <2>2 DEF Inv, HandleInv
  <2>3. QED
    BY <1>3, <2>1, <2>2
<1>7. QED
  BY <1>4, <1>5, <1>6 DEF Inv

(* A handler that is called moves from one part of the snapshot to the      *)
(* other.                                                                   *)
LEMMA CallKeeps ==
  ASSUME Inv, NEW h, CallHandler(h)
  PROVE  Inv'
<1> DEFINE n == Len(calls)
           c == [Top EXCEPT !.todo = Top.todo \ {h}, !.called = Top.called \cup {h}]
<1>1. n \in 1 .. n
  BY LenProperties, EmptySeq DEF CallHandler, Inv, TypeOK
<1>2. calls[n] \in Call /\ h \in calls[n].todo /\ h \in Nat
  BY <1>1, CallTypes DEF CallHandler, Top, Inv
<1>3. /\ c \in Call
      /\ c.event = calls[n].event /\ c.since = calls[n].since
      /\ c.todo = calls[n].todo \ {h} /\ c.called = calls[n].called \cup {h}
  BY <1>2 DEF Call, Top
<1>4. /\ calls' = [calls EXCEPT ![n] = c]
      /\ running' = TRUE /\ UNCHANGED <<store, counter, removed>>
  BY DEF CallHandler
<1> HIDE DEF c
<1>5. /\ calls' \in Seq(Call) /\ Len(calls') = n /\ calls'[n] = c
      /\ \A i \in 1 .. n : i # n => calls'[i] = calls[i]
  BY <1>1, <1>3, <1>4, ExceptSeq DEF Inv, TypeOK
<1>6. TypeOK'
  <2>1. calls' # <<>>
    BY <1>1, <1>5, EmptySeq
  <2>2. QED
    BY <1>4, <1>5, <2>1 DEF Inv, TypeOK
<1>7. HandleInv'
  BY ZenonT(40), <1>1, <1>3, <1>4, <1>5 DEF Inv, HandleInv
<1>8. SnapshotDelivery'
  <2> SUFFICES ASSUME NEW i \in 1 .. n
               PROVE  /\ calls'[i].todo \cup calls'[i].called
                           = {k \in store[calls'[i].event] : k < calls'[i].since}
                      /\ calls'[i].todo \cap calls'[i].called = {}
    BY <1>4, <1>5 DEF SnapshotDelivery
  <2>1. CASE i = n
    <3>1. /\ calls[n].todo \cup calls[n].called
               = {k \in store[calls[n].event] : k < calls[n].since}
          /\ calls[n].todo \cap calls[n].called = {}
      BY <1>1 DEF Inv, SnapshotDelivery
    <3>2. c.todo \cup c.called = calls[n].todo \cup calls[n].called
      BY <1>2, <1>3
    <3>3. c.todo \cap c.called = {}
      BY <1>3, <3>1
    <3>4. QED
      BY <1>3, <1>5, <2>1, <3>1, <3>2, <3>3
  <2>2. CASE i # n
    BY <1>5, <2>2 DEF Inv, SnapshotDelivery
  <2>3. QED
    BY <2>1, <2>2
<1>9. QED
  BY <1>6, <1>7, <1>8 DEF Inv

LEMMA InitInv == Init => Inv
<1> SUFFICES ASSUME Init PROVE Inv
  OBVIOUS
<1>1. TypeOK
  BY EmptySeq DEF Init, TypeOK
<1>2. HandleInv /\ SnapshotDelivery
  BY DEF Init, HandleInv, SnapshotDelivery
<1>3. QED
  BY <1>1, <1>2 DEF Inv

LEMMA NextInv == Inv /\ [Next]_vars => Inv'
<1> SUFFICES ASSUME Inv, [Next]_vars PROVE Inv'
  OBVIOUS
<1>1. ASSUME NEW e \in Events, on(e) PROVE Inv'
  BY <1>1, OnKeeps
<1>2. ASSUME NEW e \in Events, trigger(e) PROVE Inv'
  BY <1>2, TriggerKeeps
<1>3. ASSUME NEW e \in Events, NEW h \in 0 .. MaxHandles - 1, off(e, h) PROVE Inv'
  BY <1>3, EventMixinAssumption DEF off, Inv, TypeOK, HandleInv, SnapshotDelivery
<1>4. ASSUME NEW h \in 0 .. MaxHandles - 1, CallHandler(h) PROVE Inv'
  BY <1>4, CallKeeps
<1>5. CASE HandlerReturns
  BY <1>5 DEF HandlerReturns, Inv, TypeOK, HandleInv, SnapshotDelivery
<1>6. CASE HandlerThrows \/ TriggerEnd
  BY <1>6, PopKeeps DEF HandlerThrows, TriggerEnd, Inv, TypeOK
<1>7. CASE UNCHANGED vars
  BY <1>7 DEF vars, Inv, TypeOK, HandleInv, SnapshotDelivery
<1>8. QED
  BY <1>1, <1>2, <1>3, <1>4, <1>5, <1>6, <1>7 DEF Next

(* Stores, snapshots and the flag stay well typed however calls nest. *)
THEOREM TypeCorrect == Spec => []TypeOK
<1>1. Inv => TypeOK
  BY DEF Inv
<1>2. QED
  BY <1>1, InitInv, NextInv, PTL DEF Spec

(* The handlers a trigger calls are those of its snapshot, however handlers *)
(* add and remove handlers, trigger and throw: for any number of events.    *)
THEOREM Snapshot == Spec => []SnapshotDelivery
<1>1. Inv => SnapshotDelivery
  BY DEF Inv
<1>2. QED
  BY <1>1, InitInv, NextInv, PTL DEF Spec

=============================================================================
