----------------------------- MODULE EventLoop -----------------------------
(***************************************************************************)
(* The loop of a thread as a whole: TaskLoop::run (src/taskloop.cpp) with  *)
(* the two permanent tasks of the library, promise_task (src/promise.cpp)  *)
(* and reactor_task (src/Linux/reactor1.cpp, src/FreeBSD/reactor1.cpp), in *)
(* the order in which the program calls promise_init and reactor_init, and *)
(* the oneshot tasks.  epoll_wait blocks the thread until a descriptor has *)
(* an event; kevent is told not to wait.                                   *)
(*                                                                         *)
(* TaskLoop, Promise and Reactor have the parts in detail.  Here a list    *)
(* that is walked while it grows is a set of what is left of it, nothing   *)
(* throws, and no task runs the loop itself.                               *)
(***************************************************************************)
EXTENDS Sequences

CONSTANTS
  Callbacks,   \* promise callbacks (a bound)
  Oneshots     \* oneshot tasks (a bound)

ASSUME EventLoopAssumption == Callbacks \cap Oneshots = {}

VARIABLES
  platform,          \* which reactor was built
  permanent_queue,   \* the thread loop's permanent tasks
  due,               \* callbacks of the promises in pending_callback_queue
  oneshot_queue,     \* the thread loop's oneshot tasks that have not run
  fresh,             \* callbacks and oneshot tasks not used yet
  phase,             \* where run_once is: "setup", a permanent task, "oneshot"
  handling,          \* reactor_task has got an event
  ready,             \* external: a descriptor has an event
  polled             \* history: epoll_wait or kevent has returned before

vars == <<platform, permanent_queue, due, oneshot_queue, fresh, phase, handling, ready, polled>>

Init ==
  /\ platform \in {"epoll", "kqueue"}
  /\ permanent_queue \in {<<"promise_task", "reactor_task">>, <<"reactor_task", "promise_task">>}
  /\ due = {} /\ oneshot_queue = {}
  /\ fresh = Callbacks \cup Oneshots
  /\ phase = "setup" /\ handling = FALSE
  /\ ready = FALSE /\ polled = FALSE

-----------------------------------------------------------------------------
(* User code settles promises with callbacks and submits oneshot tasks; x   *)
(* is the callback or task whose code it is.                                *)
UserCode(x) ==
  \E new \in SUBSET fresh :
    /\ fresh' = fresh \ new
    /\ due' = (due \ x) \cup (new \cap Callbacks)
    /\ oneshot_queue' = (oneshot_queue \ x) \cup (new \cap Oneshots)

After(task) == IF task = permanent_queue[1] THEN permanent_queue[2] ELSE "oneshot"

(* The program before it calls run. *)
Setup ==
  /\ phase = "setup"
  /\ UserCode({})
  /\ UNCHANGED <<platform, permanent_queue, phase, handling, ready, polled>>

Run ==
  /\ phase = "setup"
  /\ phase' = permanent_queue[1]
  /\ UNCHANGED <<platform, permanent_queue, due, oneshot_queue, fresh, handling, ready, polled>>

CallBack(c) ==
  /\ phase = "promise_task" /\ c \in due
  /\ UserCode({c})
  /\ UNCHANGED <<platform, permanent_queue, phase, handling, ready, polled>>

(* Broken variant: the walk ends after what was there when it began. *)
PromiseTaskEndEarly ==
  /\ phase = "promise_task"
  /\ phase' = After(phase)
  /\ UNCHANGED <<platform, permanent_queue, due, oneshot_queue, fresh, handling, ready, polled>>

PromiseTaskEnd ==
  /\ phase = "promise_task" /\ due = {}
  /\ phase' = After(phase)
  /\ UNCHANGED <<platform, permanent_queue, due, oneshot_queue, fresh, handling, ready, polled>>

(* epoll_wait and kevent return with an event ... *)
Report ==
  /\ phase = "reactor_task" /\ ~handling /\ ready
  /\ handling' = TRUE /\ ready' = FALSE /\ polled' = TRUE
  /\ UNCHANGED <<platform, permanent_queue, due, oneshot_queue, fresh, phase>>

(* Broken variant: kevent waits, as epoll_wait does. *)
ReportNothingWaits ==
  /\ phase = "reactor_task" /\ ~handling /\ ready
  /\ platform = "kqueue"
  /\ phase' = After(phase) /\ polled' = TRUE
  /\ UNCHANGED <<platform, permanent_queue, due, oneshot_queue, fresh, handling, ready>>

(* ... and kevent without. *)
ReportNothing ==
  /\ phase = "reactor_task" /\ ~handling /\ ~ready
  /\ platform = "kqueue"
  /\ phase' = After(phase) /\ polled' = TRUE
  /\ UNCHANGED <<platform, permanent_queue, due, oneshot_queue, fresh, handling, ready>>

(* The target's handlers. *)
Handle ==
  /\ phase = "reactor_task" /\ handling
  /\ UserCode({})
  /\ handling' = FALSE
  /\ phase' = After(phase)
  /\ UNCHANGED <<platform, permanent_queue, ready, polled>>

Oneshot(t) ==
  /\ phase = "oneshot" /\ t \in oneshot_queue
  /\ UserCode({t})
  /\ UNCHANGED <<platform, permanent_queue, phase, handling, ready, polled>>

(* The end of run_once; run calls it again. *)
RunOnceEnd ==
  /\ phase = "oneshot" /\ oneshot_queue = {}
  /\ phase' = permanent_queue[1]
  /\ UNCHANGED <<platform, permanent_queue, due, oneshot_queue, fresh, handling, ready, polled>>

(* External. *)
EventComes ==
  /\ ready' = TRUE
  /\ UNCHANGED <<platform, permanent_queue, due, oneshot_queue, fresh, phase, handling, polled>>

-----------------------------------------------------------------------------
LoopStep ==
  \/ \E c \in due : CallBack(c)
  \/ PromiseTaskEnd
  \/ Report \/ ReportNothing \/ Handle
  \/ \E t \in oneshot_queue : Oneshot(t)
  \/ RunOnceEnd

Next == Setup \/ Run \/ LoopStep \/ EventComes

(* run is an endless loop, and user code returns.  Nothing is assumed of    *)
(* events.                                                                  *)
FairSpec == Init /\ [][Next]_vars /\ WF_vars(LoopStep)

-----------------------------------------------------------------------------
Blocked == phase = "reactor_task" /\ platform = "epoll" /\ ~handling /\ ~ready

PromisesFirst == permanent_queue[1] = "promise_task"

(* What epoll_wait can leave undone while it blocks depends on the order of *)
(* promise_init and reactor_init: either callbacks of settled promises, or  *)
(* oneshot tasks, but not both; apart from oneshot tasks submitted before   *)
(* run, which wait for the first event (taskloop.cpp:33-36, reactor1.cpp:   *)
(* 14).                                                                     *)
BlockedLeaves ==
  Blocked =>
    IF PromisesFirst THEN due = {} ELSE polled => oneshot_queue = {}

(* So a callback that is due is called without an event from outside if     *)
(* promise_init was called first, a oneshot task that is submitted from     *)
(* inside the loop if reactor_init was; on FreeBSD both always.             *)
NothingStarves ==
  /\ \A c \in Callbacks :
       (c \in due /\ phase # "setup")
         ~> (c \notin due \/ (platform = "epoll" /\ ~PromisesFirst))
  /\ \A t \in Oneshots :
       (t \in oneshot_queue /\ phase # "setup")
         ~> \/ t \notin oneshot_queue
            \/ platform = "epoll" /\ (PromisesFirst \/ ~polled)

=============================================================================
