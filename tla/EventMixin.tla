----------------------------- MODULE EventMixin -----------------------------
(***************************************************************************)
(* headers/event.h and src/event.cpp: the handlers of one event target.    *)
(*                                                                         *)
(* trigger copies the handler store and calls the handlers of the copy, in *)
(* the order of an unordered_map; a handler may add and remove handlers    *)
(* and trigger events itself, so triggers form a stack of calls.           *)
(***************************************************************************)
EXTENDS Naturals, Sequences

CONSTANTS
  Events,       \* event names
  MaxHandles,   \* bound: calls of on
  MaxDepth      \* bound: nested calls of trigger

ASSUME EventMixinAssumption == MaxHandles \in Nat /\ MaxDepth \in Nat

VARIABLES
  store,     \* EventMixinData::store: the handles of each event
  counter,   \* EventMixinData::counter
  calls,     \* the calls of trigger, the innermost last
  running    \* the innermost call is inside a handler

(* History: the handles for which off has returned true. *)
VARIABLE removed

vars == <<store, counter, calls, running, removed>>

(* One call of trigger: the handlers of its copy it has still to call, and  *)
(* (history) those it has called and the counter when it began.             *)
Call == [event : Events, todo : SUBSET Nat, called : SUBSET Nat, since : Nat]

Init ==
  /\ store = [e \in Events |-> {}]
  /\ counter = 0
  /\ calls = <<>> /\ running = FALSE
  /\ removed = {}

UserCode == calls = <<>> \/ running

(* Broken variant: trigger walks the live store. *)
on_live(e) ==
  /\ UserCode
  /\ counter < MaxHandles
  /\ store' = [store EXCEPT ![e] = @ \cup {counter}]
  /\ counter' = counter + 1
  /\ calls' = [i \in 1 .. Len(calls) |->
                 IF calls[i].event = e THEN [calls[i] EXCEPT !.todo = @ \cup {counter}]
                                       ELSE calls[i]]
  /\ UNCHANGED <<running, removed>>

on(e) ==
  /\ UserCode
  /\ counter < MaxHandles
  /\ store' = [store EXCEPT ![e] = @ \cup {counter}]
  /\ counter' = counter + 1
  /\ UNCHANGED <<calls, running, removed>>

(* off erases the handler from a copy of the store: "auto store = ...".     *)
off(e, h) ==
  /\ UserCode
  /\ h \in store[e]
  /\ removed' = removed \cup {h}
  /\ UNCHANGED <<store, counter, calls, running>>

(* An event without handlers is not triggered at all. *)
trigger(e) ==
  /\ UserCode
  /\ Len(calls) < MaxDepth
  /\ store[e] # {}
  /\ calls' = Append(calls, [event |-> e, todo |-> store[e], called |-> {}, since |-> counter])
  /\ running' = FALSE
  /\ UNCHANGED <<store, counter, removed>>

Top == calls[Len(calls)]

Pop == SubSeq(calls, 1, Len(calls) - 1)

CallHandler(h) ==
  /\ calls # <<>> /\ ~running
  /\ h \in Top.todo
  /\ calls' = [calls EXCEPT ![Len(calls)] =
                 [Top EXCEPT !.todo = Top.todo \ {h}, !.called = Top.called \cup {h}]]
  /\ running' = TRUE
  /\ UNCHANGED <<store, counter, removed>>

HandlerReturns ==
  /\ running
  /\ running' = FALSE
  /\ UNCHANGED <<store, counter, calls, removed>>

(* Broken variant: the exception leaves every trigger, and the walk goes on. *)
HandlerThrowsOn ==
  /\ running
  /\ calls' = <<>>
  /\ UNCHANGED <<store, counter, running, removed>>

(* What a handler throws, a bad_any_cast of its argument included, leaves   *)
(* trigger: the handlers after it are not called.                           *)
HandlerThrows ==
  /\ running
  /\ calls' = Pop
  /\ running' = (Len(calls) > 1)
  /\ UNCHANGED <<store, counter, removed>>

TriggerEnd ==
  /\ calls # <<>> /\ ~running
  /\ Top.todo = {}
  /\ calls' = Pop
  /\ running' = (Len(calls) > 1)
  /\ UNCHANGED <<store, counter, removed>>

Next ==
  \/ \E e \in Events :
       \/ on(e) \/ trigger(e)
       \/ \E h \in 0 .. MaxHandles - 1 : off(e, h)
  \/ \E h \in 0 .. MaxHandles - 1 : CallHandler(h)
  \/ HandlerReturns \/ HandlerThrows \/ TriggerEnd

Spec == Init /\ [][Next]_vars

-----------------------------------------------------------------------------
(* The variables hold what EventMixinData and the calls of trigger hold. *)
TypeOK ==
  /\ store \in [Events -> SUBSET Nat]
  /\ counter \in Nat
  /\ calls \in Seq(Call)
  /\ running \in BOOLEAN /\ (running => calls # <<>>)
  /\ removed \subseteq Nat

(* A call of trigger is for the handlers that were there when it began:     *)
(* each is called or still to be called, never both, and one that a handler *)
(* adds meanwhile, at any depth of nesting, is neither (event.h:65-74).     *)
SnapshotDelivery ==
  \A i \in 1 .. Len(calls) :
    /\ calls[i].todo \cup calls[i].called = {h \in store[calls[i].event] : h < calls[i].since}
    /\ calls[i].todo \cap calls[i].called = {}

(* README.md:44: "Remove an event handler by handle."  A trigger that       *)
(* begins after off returned true does not call the handler.  off works on  *)
(* a copy (event.cpp:15), so it does.                                       *)
OffTakesEffect ==
  [][Len(calls') > Len(calls) => calls'[Len(calls')].todo \cap removed = {}]_vars

=============================================================================
