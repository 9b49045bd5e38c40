--------------------------- MODULE EventLoopProofs ---------------------------
(***************************************************************************)
(* BlockedLeaves holds for every number of callbacks and oneshot tasks.    *)
(* reactor_task is entered either by the end of promise_task, when nothing *)
(* is due, or by the begin of run_once, when no oneshot task is left       *)
(* unless it is the first round; and until the wait returns nothing else   *)
(* runs.                                                                   *)
(***************************************************************************)
EXTENDS EventLoop, TLAPS

(* Between its entry and the return of the wait, in either order of tasks.  *)
WaitInv ==
  (phase = "reactor_task" /\ ~handling) =>
    IF PromisesFirst THEN due = {} ELSE polled => oneshot_queue = {}

(* What run_once can be at, and that an event is handled by reactor_task.   *)
PhaseInv ==
  /\ permanent_queue \in {<<"promise_task", "reactor_task">>, <<"reactor_task", "promise_task">>}
  /\ phase \in {"setup", "promise_task", "reactor_task", "oneshot"}
  /\ handling \in BOOLEAN /\ (handling => phase = "reactor_task")
  /\ phase = "setup" => ~polled

Inv == PhaseInv /\ WaitInv

(* Where each task is followed by which. *)
LEMMA Successors ==
  ASSUME PhaseInv
  PROVE  /\ PromisesFirst =>
              /\ permanent_queue[1] = "promise_task"
              /\ After("promise_task") = "reactor_task" /\ After("reactor_task") = "oneshot"
         /\ ~PromisesFirst =>
              /\ permanent_queue[1] = "reactor_task"
              /\ After("promise_task") = "oneshot" /\ After("reactor_task") = "promise_task"
BY DEF PhaseInv, PromisesFirst, After

LEMMA InitInv == Init => Inv
BY DEF Init, Inv, PhaseInv, WaitInv

LEMMA NextInv == Inv /\ [Next]_vars => Inv'
<1> SUFFICES ASSUME Inv, [Next]_vars PROVE Inv'
  OBVIOUS
<1> USE DEF Inv, PhaseInv, WaitInv, PromisesFirst
<1>1. CASE Setup
  BY <1>1 DEF Setup
<1>2. CASE Run
  BY <1>2, Successors DEF Run
<1>3. ASSUME NEW c \in due, CallBack(c) PROVE Inv'
  BY <1>3 DEF CallBack
<1>4. CASE PromiseTaskEnd
  BY <1>4, Successors DEF PromiseTaskEnd
<1>5. CASE Report
  BY <1>5 DEF Report
<1>6. CASE ReportNothing
  BY <1>6, Successors DEF ReportNothing
<1>7. CASE Handle
  BY <1>7, Successors DEF Handle
<1>8. ASSUME NEW t \in oneshot_queue, Oneshot(t) PROVE Inv'
  BY <1>8 DEF Oneshot
<1>9. CASE RunOnceEnd
  BY <1>9, Successors DEF RunOnceEnd
<1>10. CASE EventComes
  BY <1>10 DEF EventComes
<1>11. CASE UNCHANGED vars
  BY <1>11 DEF vars
<1>12. QED
  BY <1>1, <1>2, <1>3, <1>4, <1>5, <1>6, <1>7, <1>8, <1>9, <1>10, <1>11 DEF Next, LoopStep

(* A blocked epoll_wait leaves either no due callback or no oneshot task    *)
(* behind, according to the order of initialisation, for any number of      *)
(* either.                                                                  *)
THEOREM WhatBlocks == FairSpec => []BlockedLeaves
<1>1. Inv => BlockedLeaves
  BY DEF Inv, WaitInv, BlockedLeaves, Blocked
<1>2. QED
  BY <1>1, InitInv, NextInv, PTL DEF FairSpec

=============================================================================
