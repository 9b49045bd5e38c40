----------------------------- MODULE TaskQueue -----------------------------
(***************************************************************************)
(* What TaskLoop::oneshot promises: tasks are started in the order they    *)
(* were submitted to their loop, and a task leaves the queue only by being *)
(* started.                                                                *)
(***************************************************************************)
EXTENDS Sequences

CONSTANTS Loops, Tasks

VARIABLES
  waiting,   \* each loop's tasks that have not been started, oldest first
  done       \* the tasks that have been started

vars == <<waiting, done>>

Init == waiting = [l \in Loops |-> <<>>] /\ done = {}

Submit(l, t) ==
  /\ t \notin done
  /\ waiting' = [waiting EXCEPT ![l] = Append(@, t)]
  /\ UNCHANGED done

Start(l) ==
  /\ waiting[l] # <<>>
  /\ waiting' = [waiting EXCEPT ![l] = Tail(@)]
  /\ done' = done \cup {Head(waiting[l])}

Next == \E l \in Loops : Start(l) \/ \E t \in Tasks : Submit(l, t)

Spec == Init /\ [][Next]_vars

=============================================================================
