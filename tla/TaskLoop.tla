------------------------------ MODULE TaskLoop ------------------------------
(***************************************************************************)
(* src/taskloop.cpp: the task loops of one thread.                         *)
(*                                                                         *)
(* run_once walks the permanent queue, then the oneshot queue, then clears *)
(* the latter.  Both walks are range-for loops over a live std::list, and  *)
(* a task may call back into any loop: add to it, or run it (README.md:6,  *)
(* "Cooperates well with other task loops").  Calls of run_once therefore  *)
(* form a stack of frames, each with its own position.                     *)
(*                                                                         *)
(* A member of Tasks stands for one list entry: one call of add or         *)
(* oneshot.  A thread that uses another thread's loop is not modelled.     *)
(***************************************************************************)
EXTENDS Naturals, Sequences

CONSTANTS
  Loops,       \* TaskLoopData objects
  Root,        \* the one that is run forever
  Tasks,       \* list entries (a bound)
  MaxDepth,    \* bound: nested calls of run_once
  MaxNested,   \* bound: calls of run_once made by tasks
  MaxThrows    \* bound: exceptions thrown by tasks

ASSUME TaskLoopAssumption ==
  /\ Root \in Loops
  /\ MaxDepth \in Nat \ {0} /\ MaxNested \in Nat /\ MaxThrows \in Nat

VARIABLES
  permanent_queue,   \* TaskLoopData::permanent_queue of each loop
  oneshot_queue,     \* TaskLoopData::oneshot_queue of each loop
  stack,             \* the calls of run_once, the innermost last
  running,           \* the innermost call is inside a task
  state              \* see State

(* History, read by properties and bounds only. *)
VARIABLES
  runs,        \* how often a task was entered (2 = again)
  nested,      \* calls of run_once made by tasks
  throws,      \* exceptions thrown by tasks
  reentered    \* a loop was run while one of its oneshot tasks was running

queues  == <<permanent_queue, oneshot_queue>>
history == <<runs, nested, throws, reentered>>
vars    == <<queues, stack, running, state, history>>

(* alive; terminated: an exception nobody caught; undefined: a call walked  *)
(* on from a list node that has been freed.  The standard says nothing of   *)
(* what follows, and no property does.                                      *)
State == {"alive", "terminated", "undefined"}

(* One call of run_once.  "dangling": the node it stands on has been freed. *)
Frame == [loop : Loops, phase : {"permanent", "oneshot"}, pos : Nat, dangling : BOOLEAN]

Init ==
  /\ permanent_queue = [l \in Loops |-> <<>>]
  /\ oneshot_queue = [l \in Loops |-> <<>>]
  /\ stack = <<>> /\ running = FALSE
  /\ state = "alive"
  /\ runs = [t \in Tasks |-> 0]
  /\ nested = 0 /\ throws = 0 /\ reentered = FALSE

-----------------------------------------------------------------------------
Entries(q) == {q[i] : i \in 1 .. Len(q)}

(* Code that may use the API: outside run_once, or inside a task. *)
UserCode == state = "alive" /\ (stack = <<>> \/ running)

(* An entry that was never in a list. *)
New(t) ==
  /\ runs[t] = 0
  /\ \A l \in Loops : t \notin Entries(permanent_queue[l]) \cup Entries(oneshot_queue[l])

add(l, t) ==
  /\ UserCode /\ New(t)
  /\ permanent_queue' = [permanent_queue EXCEPT ![l] = Append(@, t)]
  /\ UNCHANGED <<oneshot_queue, stack, running, state, history>>

(* Broken variant: push_front. *)
oneshot_front(l, t) ==
  /\ UserCode /\ New(t)
  /\ oneshot_queue' = [oneshot_queue EXCEPT ![l] = <<t>> \o @]
  /\ UNCHANGED <<permanent_queue, stack, running, state, history>>

oneshot(l, t) ==
  /\ UserCode /\ New(t)
  /\ oneshot_queue' = [oneshot_queue EXCEPT ![l] = Append(@, t)]
  /\ UNCHANGED <<permanent_queue, stack, running, state, history>>

(* run_once is called: by run, or by a task. *)
RunOnce(l) ==
  /\ UserCode
  /\ Len(stack) < MaxDepth
  /\ stack # <<>> => nested < MaxNested
  /\ stack' = Append(stack, [loop |-> l, phase |-> "permanent", pos |-> 0, dangling |-> FALSE])
  /\ running' = FALSE
  /\ nested' = IF stack = <<>> THEN nested ELSE nested + 1
  /\ reentered' = (reentered \/ \E i \in 1 .. Len(stack) :
                                  stack[i].loop = l /\ stack[i].phase = "oneshot")
  /\ UNCHANGED <<queues, state, runs, throws>>

-----------------------------------------------------------------------------
(* The steps of the innermost call.                                         *)
Top == stack[Len(stack)]

(* The list a call walks. *)
List(f) == IF f.phase = "permanent" THEN permanent_queue[f.loop] ELSE oneshot_queue[f.loop]

Walked == List(Top)

(* The call is between two tasks and stands on a node of its list. *)
Walking == state = "alive" /\ stack # <<>> /\ ~running /\ ~Top.dangling

Pop == SubSeq(stack, 1, Len(stack) - 1)

(* The walk's next task is called. *)
EnterTask ==
  /\ Walking
  /\ Top.pos < Len(Walked)
  /\ stack' = [stack EXCEPT ![Len(stack)].pos = @ + 1]
  /\ running' = TRUE
  /\ runs' = [runs EXCEPT ![Walked[Top.pos + 1]] = IF @ < 2 THEN @ + 1 ELSE @]
  /\ UNCHANGED <<queues, state, nested, throws, reentered>>

TaskReturns ==
  /\ state = "alive" /\ running
  /\ running' = FALSE
  /\ UNCHANGED <<queues, stack, state, history>>

(* The exception leaves the task and run_once, which clears nothing.  The   *)
(* caller of run_once catches it or, if it is a task, throws on; one that   *)
(* is caught nowhere ends the process.                                      *)
TaskThrows ==
  /\ state = "alive" /\ running
  /\ throws < MaxThrows
  /\ throws' = throws + 1
  /\ \/ /\ stack' = Pop
        /\ running' = (Len(stack) > 1)
        /\ UNCHANGED state
     \/ /\ state' = "terminated"
        /\ UNCHANGED <<stack, running>>
  /\ UNCHANGED <<queues, runs, nested, reentered>>

(* Broken variant: the second loop starts at its second node. *)
PermanentEndSkip ==
  /\ Walking
  /\ Top.phase = "permanent" /\ Top.pos = Len(Walked)
  /\ stack' = [stack EXCEPT ![Len(stack)] =
                 [@ EXCEPT !.phase = "oneshot",
                           !.pos = IF oneshot_queue[Top.loop] = <<>> THEN 0 ELSE 1]]
  /\ UNCHANGED <<queues, running, state, history>>

(* From the first loop to the second. *)
PermanentEnd ==
  /\ Walking
  /\ Top.phase = "permanent" /\ Top.pos = Len(Walked)
  /\ stack' = [stack EXCEPT ![Len(stack)] = [@ EXCEPT !.phase = "oneshot", !.pos = 0]]
  /\ UNCHANGED <<queues, running, state, history>>

(* Broken variant: begin() of the oneshot queue is taken before the first loop. *)
FreedEarly(f, l) == IF f.loop = l THEN [f EXCEPT !.dangling = TRUE] ELSE f

(* Broken variant: clear() is not seen by the outer calls. *)
FreedUnseen(f, l) == f

(* clear() frees the node an outer call on the same loop may stand on. *)
Freed(f, l) ==
  IF f.loop = l /\ f.phase = "oneshot" THEN [f EXCEPT !.dangling = TRUE] ELSE f

(* Broken variant: no clear(). *)
OneshotEndKeep ==
  /\ Walking
  /\ Top.phase = "oneshot" /\ Top.pos = Len(Walked)
  /\ stack' = Pop
  /\ running' = (Len(stack) > 1)
  /\ UNCHANGED <<queues, state, history>>

OneshotEnd ==
  /\ Walking
  /\ Top.phase = "oneshot" /\ Top.pos = Len(Walked)
  /\ oneshot_queue' = [oneshot_queue EXCEPT ![Top.loop] = <<>>]
  /\ stack' = [i \in 1 .. Len(stack) - 1 |-> Freed(stack[i], Top.loop)]
  /\ running' = (Len(stack) > 1)
  /\ UNCHANGED <<permanent_queue, state, history>>

(* The outer call advances its iterator. *)
WalkFreed ==
  /\ state = "alive" /\ stack # <<>> /\ ~running /\ Top.dangling
  /\ state' = "undefined"
  /\ UNCHANGED <<queues, stack, running, history>>

-----------------------------------------------------------------------------
Step == EnterTask \/ PermanentEnd \/ OneshotEnd \/ WalkFreed

Next ==
  \/ \E l \in Loops, t \in Tasks : add(l, t) \/ oneshot(l, t)
  \/ \E l \in Loops : RunOnce(l)
  \/ TaskReturns \/ TaskThrows
  \/ Step

Spec == Init /\ [][Next]_vars

(* run calls run_once of the root loop again and again: strong fairness,    *)
(* for the model also lets the caller run another loop in between.  Tasks   *)
(* return; they may call and throw as they like on the way.                 *)
RunForever == stack = <<>> /\ RunOnce(Root)

FairSpec == Spec /\ SF_vars(RunForever) /\ WF_vars(Step) /\ WF_vars(TaskReturns)

-----------------------------------------------------------------------------
(* Queues hold tasks; calls stand within the list they walk. *)
TypeOK ==
  /\ permanent_queue \in [Loops -> Seq(Tasks)]
  /\ oneshot_queue \in [Loops -> Seq(Tasks)]
  /\ stack \in Seq(Frame)
  /\ running \in BOOLEAN /\ (running => stack # <<>>)
  /\ state \in State
  /\ runs \in [Tasks -> 0..2]
  /\ nested \in Nat /\ throws \in Nat /\ reentered \in BOOLEAN
  /\ \A i \in 1 .. Len(stack) : stack[i].pos <= Len(List(stack[i])) \/ stack[i].dangling

Oneshots == {t \in Tasks : \A l \in Loops : t \notin Entries(permanent_queue[l])}

(* A oneshot task is entered once, however calls of run_once nest: what     *)
(* makes it run again is an exception, which skips clear(), or running a    *)
(* loop from inside one of its own oneshot tasks (taskloop.cpp:33-39).      *)
OnceUnlessInterrupted ==
  throws = 0 /\ ~reentered => \A t \in Oneshots : runs[t] <= 1

(* No call walks a freed node unless a loop was run from inside one of its  *)
(* own oneshot tasks: exceptions and calls from permanent tasks, also of    *)
(* the same loop, are safe (taskloop.cpp:36-38).                            *)
SafeWalk == state = "undefined" => reentered

(* How far a loop's oneshot tasks have been entered: up to the last of them *)
(* that was.                                                                *)
Started(l) ==
  CHOOSE n \in 0 .. Len(oneshot_queue[l]) :
    /\ n > 0 => runs[oneshot_queue[l][n]] > 0
    /\ \A i \in n + 1 .. Len(oneshot_queue[l]) : runs[oneshot_queue[l][i]] = 0

(* Every oneshot task is first entered in the order of submission, and none *)
(* is dropped before it was entered: clear() only forgets tasks that ran,   *)
(* though tasks are added while the list is walked.                         *)
Contract == INSTANCE TaskQueue
              WITH waiting <- [l \in Loops |-> SubSeq(oneshot_queue[l], Started(l) + 1,
                                                      Len(oneshot_queue[l]))],
                   done <- {t \in Oneshots : runs[t] > 0}

ImplementsQueue == Contract!Spec

(* A oneshot task of the loop that is run forever is eventually entered. *)
EveryOneshotRuns ==
  \A t \in Tasks :
    t \in Entries(oneshot_queue[Root]) ~> runs[t] > 0 \/ state # "alive"

=============================================================================
