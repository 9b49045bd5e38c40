------------------------------ MODULE Promise ------------------------------
(***************************************************************************)
(* Promises of one thread: headers/promise.h and src/promise.cpp.          *)
(*                                                                         *)
(* A promise handle is a shared pointer to a PromiseData; a member of      *)
(* Promises stands for one PromiseData.  Settling a promise appends it to  *)
(* the thread's pending_callback_queue; promise_task, a permanent task of  *)
(* the task loop, walks that queue and runs the wrappers stored in each    *)
(* promise.  Wrappers run user callbacks, and user callbacks call the      *)
(* promise API again: both walks are range-for loops over a std::list that *)
(* grows while it is walked, so each is modelled by a cursor into a        *)
(* sequence.                                                               *)
(***************************************************************************)
EXTENDS Integers, Sequences

CONSTANTS
  Promises,       \* PromiseData objects that can be allocated (a bound)
  VoidPromises,   \* those of type Promise<void>
  Values,         \* values of the other promises
  Blank,          \* the boost::blank value of a void promise
  Errors,         \* exceptions a promise can be rejected with
  AcceptSets,     \* for each error type of a _catch callback, what it catches
  MaxWrappers,    \* bound: a promise adopted through a PromiseCtx holds fewer wrappers
  MaxEscapes,     \* bound: exceptions that leave a promise's call_back and are caught
  Helper,         \* a void promise made and dropped by a callback helper
  Nothing         \* no promise, no result

ASSUME PromiseAssumption ==
  /\ VoidPromises \subseteq Promises
  /\ AcceptSets \subseteq SUBSET Errors
  /\ MaxWrappers \in Nat /\ MaxEscapes \in Nat
  /\ Helper \notin Promises
  /\ Nothing \notin Promises

VARIABLES
  created,                 \* the PromiseData objects that exist
  status,                  \* PromiseData::status
  result,                  \* PromiseData::value or PromiseData::error
  pending_callback,        \* PromiseData::pending_callback
  wrappers,                \* [RESOLVED |-> fulfilled_wrappers, REJECTED |-> rejected_wrappers]
  pending_callback_queue,  \* the thread's queue of promises to call back
  pc,                      \* where the thread is, see PC
  cursor,                  \* promise_task's position in the queue
  wcursor                  \* call_back's position in the wrapper list

(* History, read by properties only. *)
VARIABLES
  reaction,                \* the then / _catch that made a promise: [on, to, nth]
  n_reactions,             \* calls of then / _catch so far
  origin,                  \* what the callback deriving a promise produced
  runs,                    \* how often that callback was entered (2 = again)
  escapes                  \* exceptions that have left a promise's call_back

loop    == <<pc, cursor, wcursor>>
cells   == <<status, result, pending_callback, pending_callback_queue>>
history == <<reaction, n_reactions, origin, runs, escapes>>
vars    == <<created, cells, wrappers, loop, history>>

Settled == {"RESOLVED", "REJECTED"}
Status  == {"PENDING"} \cup Settled

(* idle: promise_task is not running; iterate: at the head of its loop;    *)
(* calling: at the head of call_back's loop; user: in a user callback;     *)
(* terminated: an exception left the loop and nobody caught it.            *)
PC == {"idle", "iterate", "calling", "user", "terminated"}

(* A stored wrapper: either the one associate_status stores on the inner   *)
(* promise, or the one then / _catch stores around a user callback.        *)
Wrapper == [adopt : BOOLEAN, outer : Promises, accepts : SUBSET Errors]

Adoption(p)    == [adopt |-> TRUE,  outer |-> p, accepts |-> Errors]
Callback(p, a) == [adopt |-> FALSE, outer |-> p, accepts |-> a]

NoReaction == [on |-> Nothing, to |-> "PENDING", nth |-> 0]
NoOrigin   == [how |-> "none", what |-> Nothing]

Payload(p) == IF p \in VoidPromises THEN {Blank} ELSE Values

SameType(p, q) == p \in VoidPromises <=> q \in VoidPromises

NoWrappers == [s \in Settled |-> <<>>]

(* Promise() leaves a PENDING promise without wrappers; promise_init gives *)
(* the thread its empty queue.                                             *)
Init ==
  /\ created = {}
  /\ status = [p \in Promises |-> "PENDING"]
  /\ result = [p \in Promises |-> Nothing]
  /\ pending_callback = [p \in Promises |-> FALSE]
  /\ wrappers = [p \in Promises |-> NoWrappers]
  /\ pending_callback_queue = <<>>
  /\ pc = "idle" /\ cursor = 0 /\ wcursor = 0
  /\ reaction = [p \in Promises |-> NoReaction] /\ n_reactions = 0
  /\ origin = [p \in Promises |-> NoOrigin]
  /\ runs = [p \in Promises |-> 0]
  /\ escapes = [p \in Promises |-> 0]

-----------------------------------------------------------------------------
(* The implementation functions shared by the API and the wrappers.  "base" *)
(* is the queue as the call finds it.                                       *)

(* Broken variant: no test for "already settled". *)
SettleAgain(base, p, s, x) ==
  /\ status' = [status EXCEPT ![p] = s]
  /\ result' = [result EXCEPT ![p] = x]
  /\ pending_callback' = [pending_callback EXCEPT ![p] = TRUE]
  /\ pending_callback_queue' = Append(base, p)

Settle(base, p, s, x) ==
  IF status[p] # "PENDING"
  THEN /\ pending_callback_queue' = base
       /\ UNCHANGED <<status, result, pending_callback>>
  ELSE /\ status' = [status EXCEPT ![p] = s]
       /\ result' = [result EXCEPT ![p] = x]
       /\ pending_callback' = [pending_callback EXCEPT ![p] = TRUE]
       /\ pending_callback_queue' = Append(base, p)

resolve_impl(base, p, v) == Settle(base, p, "RESOLVED", v)

reject_impl(base, p, e) == Settle(base, p, "REJECTED", e)

(* Broken variant: whatever is not rejected counts as resolved. *)
AssociateEarly(outer, inner) ==
  /\ IF status[inner] = "REJECTED"
     THEN reject_impl(pending_callback_queue, outer, result[inner])
     ELSE resolve_impl(pending_callback_queue, outer, result[inner])
  /\ UNCHANGED wrappers

(* Broken variant: no rejected wrapper on a pending inner promise. *)
AssociateResolved(outer, inner) ==
  CASE status[inner] = "RESOLVED" ->
         /\ resolve_impl(pending_callback_queue, outer, result[inner])
         /\ UNCHANGED wrappers
    [] status[inner] = "REJECTED" ->
         /\ reject_impl(pending_callback_queue, outer, result[inner])
         /\ UNCHANGED wrappers
    [] status[inner] = "PENDING" ->
         /\ wrappers' = [wrappers EXCEPT ![inner]["RESOLVED"] = Append(@, Adoption(outer))]
         /\ UNCHANGED cells

associate_status(outer, inner) ==
  CASE status[inner] = "RESOLVED" ->
         /\ resolve_impl(pending_callback_queue, outer, result[inner])
         /\ UNCHANGED wrappers
    [] status[inner] = "REJECTED" ->
         /\ reject_impl(pending_callback_queue, outer, result[inner])
         /\ UNCHANGED wrappers
    [] status[inner] = "PENDING" ->
         /\ wrappers' = [wrappers EXCEPT ![inner] =
                           [s \in Settled |-> Append(@[s], Adoption(outer))]]
         /\ UNCHANGED cells

-----------------------------------------------------------------------------
(* The API, called by user code: outside the task, or inside a callback.    *)

UserCode == pc \in {"idle", "user"}

Fresh(p) ==
  /\ p \in Promises \ created
  /\ created' = created \cup {p}

(* A promise made with an executor keeps a PromiseCtx; a derived one has    *)
(* none, and a factory-made one is settled.                                 *)
HasCtx(p) == p \in created /\ reaction[p] = NoReaction

(* Promise(executor): the executor only obtains the PromiseCtx; what it     *)
(* does with it are steps of their own.                                     *)
NewPromise(p) ==
  /\ UserCode
  /\ Fresh(p)
  /\ UNCHANGED <<cells, wrappers, loop, history>>

(* Promise<T>::resolved / rejected settle without queueing; the void        *)
(* specialisations go through resolve_impl / reject_impl and queue.         *)
MakeSettled(p, s, x) ==
  /\ UserCode
  /\ Fresh(p)
  /\ x \in (IF s = "RESOLVED" THEN Payload(p) ELSE Errors)
  /\ IF p \in VoidPromises
     THEN Settle(pending_callback_queue, p, s, x)
     ELSE /\ status' = [status EXCEPT ![p] = s]
          /\ result' = [result EXCEPT ![p] = x]
          /\ UNCHANGED <<pending_callback, pending_callback_queue>>
  /\ UNCHANGED <<wrappers, loop, history>>

Resolve(p, v) ==
  /\ UserCode
  /\ HasCtx(p)
  /\ v \in Payload(p)
  /\ resolve_impl(pending_callback_queue, p, v)
  /\ UNCHANGED <<created, wrappers, loop, history>>

(* PromiseCtx<T>::resolve(Promise<T>); PromiseCtx<void> has no such method. *)
ResolveWith(p, q) ==
  /\ UserCode
  /\ HasCtx(p) /\ p \notin VoidPromises
  /\ q \in created /\ SameType(p, q)
  /\ status[p] = "PENDING"
  /\ Len(wrappers[q]["RESOLVED"]) < MaxWrappers
  /\ associate_status(p, q)
  /\ UNCHANGED <<created, loop, history>>

Reject(p, e) ==
  /\ UserCode
  /\ HasCtx(p)
  /\ reject_impl(pending_callback_queue, p, e)
  /\ UNCHANGED <<created, wrappers, loop, history>>

(* Broken variant: a settled promise is not queued again. *)
ReactNoQueue(p, d, s, w) ==
  /\ UserCode
  /\ p \in created
  /\ Fresh(d)
  /\ n_reactions' = n_reactions + 1
  /\ reaction' = [reaction EXCEPT ![d] = [on |-> p, to |-> s, nth |-> n_reactions']]
  /\ wrappers' = IF status[p] \in Settled \ {s} THEN wrappers
                 ELSE [wrappers EXCEPT ![p][s] = Append(@, w)]
  /\ UNCHANGED <<pending_callback, pending_callback_queue>>
  /\ UNCHANGED <<status, result, loop, origin, runs, escapes>>

(* then and _catch: d is the returned promise.  On a promise settled the    *)
(* other way the callback is dropped and a fresh pending promise returned.  *)
React(p, d, s, w) ==
  /\ UserCode
  /\ p \in created
  /\ Fresh(d)
  /\ n_reactions' = n_reactions + 1
  /\ reaction' = [reaction EXCEPT ![d] = [on |-> p, to |-> s, nth |-> n_reactions']]
  /\ IF status[p] \in Settled \ {s}
     THEN UNCHANGED <<wrappers, pending_callback, pending_callback_queue>>
     ELSE /\ wrappers' = [wrappers EXCEPT ![p][s] = Append(@, w)]
          /\ IF status[p] = s /\ ~pending_callback[p]
             THEN /\ pending_callback' = [pending_callback EXCEPT ![p] = TRUE]
                  /\ pending_callback_queue' = Append(pending_callback_queue, p)
             ELSE UNCHANGED <<pending_callback, pending_callback_queue>>
  /\ UNCHANGED <<status, result, loop, origin, runs, escapes>>

Then(p, d) == React(p, d, "RESOLVED", Callback(d, Errors))

Catch(p, d, a) == React(p, d, "REJECTED", Callback(d, a))

-----------------------------------------------------------------------------
(* promise_task and call_back.                                              *)

Current == pending_callback_queue[cursor]

Active == wrappers[Current][status[Current]]

(* promise_task is entered by the task loop. *)
TaskBegin ==
  /\ pc = "idle"
  /\ pc' = "iterate" /\ cursor' = 1
  /\ UNCHANGED <<created, cells, wrappers, wcursor, history>>

(* call_back on the next promise.  A helper's own promise has no wrappers:  *)
(* its call_back changes nothing that can be reached.                       *)
CallBack ==
  /\ pc = "iterate" /\ cursor <= Len(pending_callback_queue)
  /\ IF Current = Helper
     THEN cursor' = cursor + 1 /\ UNCHANGED <<pc, wcursor>>
     ELSE pc' = "calling" /\ wcursor' = 1 /\ UNCHANGED cursor
  /\ UNCHANGED <<created, cells, wrappers, history>>

(* An associate_status wrapper forwards the settlement. *)
RunAdoption ==
  /\ pc = "calling" /\ wcursor <= Len(Active)
  /\ Active[wcursor].adopt
  /\ Settle(pending_callback_queue, Active[wcursor].outer,
            status[Current], result[Current])
  /\ wcursor' = wcursor + 1
  /\ UNCHANGED <<created, wrappers, pc, cursor, history>>

(* The error reaches a _catch callback through eptr_cast, evaluated before  *)
(* the helper's try block.                                                  *)
Castable == status[Current] = "REJECTED" => result[Current] \in Active[wcursor].accepts

EnterCallback ==
  /\ pc = "calling" /\ wcursor <= Len(Active)
  /\ ~Active[wcursor].adopt
  /\ Castable
  /\ pc' = "user"
  /\ runs' = [runs EXCEPT ![Active[wcursor].outer] = IF @ < 2 THEN @ + 1 ELSE @]
  /\ UNCHANGED <<created, cells, wrappers, cursor, wcursor, reaction, n_reactions,
                 origin, escapes>>

(* std::bad_cast leaves call_back, promise_task and the task loop's         *)
(* run_once; nothing is cleared.  Whoever called run_once may catch it and  *)
(* run the loop again; otherwise the process terminates.                    *)
BadCast ==
  /\ pc = "calling" /\ wcursor <= Len(Active)
  /\ ~Active[wcursor].adopt
  /\ ~Castable
  /\ pc' \in {"idle", "terminated"} /\ (pc' = "idle" => escapes[Current] < MaxEscapes)
  /\ cursor' = 0 /\ wcursor' = 0
  /\ escapes' = [escapes EXCEPT ![Current] = @ + 1]
  /\ UNCHANGED <<created, cells, wrappers, reaction, n_reactions, origin, runs>>

(* Back from a user callback: record what it produced, go to the next one.  *)
Return(how, what) ==
  /\ pc = "user"
  /\ pc' = "calling" /\ wcursor' = wcursor + 1
  /\ origin' = [origin EXCEPT ![Active[wcursor].outer] = [how |-> how, what |-> what]]
  /\ UNCHANGED <<created, cursor, reaction, n_reactions, runs, escapes>>

(* Broken variant: the helper's reference was moved from before it is queued. *)
HelperQueueMoved ==
  IF Active[wcursor].outer \in VoidPromises
  THEN Append(pending_callback_queue, Nothing)
  ELSE pending_callback_queue

(* The queue once the helper has made its own promise: a void one queues    *)
(* itself.                                                                  *)
HelperQueue ==
  IF Active[wcursor].outer \in VoidPromises
  THEN Append(pending_callback_queue, Helper)
  ELSE pending_callback_queue

ReturnValue(v) ==
  /\ Return("value", v)
  /\ v \in Payload(Active[wcursor].outer)
  /\ resolve_impl(HelperQueue, Active[wcursor].outer, v)
  /\ UNCHANGED wrappers

ReturnPromise(q) ==
  /\ Return("promise", q)
  /\ q \in created /\ SameType(q, Active[wcursor].outer)
  /\ associate_status(Active[wcursor].outer, q)

Throw(e) ==
  /\ Return("error", e)
  /\ reject_impl(HelperQueue, Active[wcursor].outer, e)
  /\ UNCHANGED wrappers

(* Broken variant: the wrappers are not cleared. *)
CallBackEndKeep ==
  /\ pc = "calling" /\ wcursor > Len(Active)
  /\ pending_callback' = [pending_callback EXCEPT ![Current] = FALSE]
  /\ pc' = "iterate" /\ cursor' = cursor + 1 /\ wcursor' = 0
  /\ UNCHANGED <<created, status, result, wrappers, pending_callback_queue, history>>

(* Broken variant: pending_callback is not reset. *)
CallBackEndPending ==
  /\ pc = "calling" /\ wcursor > Len(Active)
  /\ wrappers' = [wrappers EXCEPT ![Current] = NoWrappers]
  /\ pc' = "iterate" /\ cursor' = cursor + 1 /\ wcursor' = 0
  /\ UNCHANGED <<created, status, result, pending_callback, pending_callback_queue, history>>

(* The end of call_back's loop. *)
CallBackEnd ==
  /\ pc = "calling" /\ wcursor > Len(Active)
  /\ pending_callback' = [pending_callback EXCEPT ![Current] = FALSE]
  /\ wrappers' = [wrappers EXCEPT ![Current] = NoWrappers]
  /\ pc' = "iterate" /\ cursor' = cursor + 1 /\ wcursor' = 0
  /\ UNCHANGED <<created, status, result, pending_callback_queue, history>>

(* The end of promise_task's loop. *)
TaskEnd ==
  /\ pc = "iterate" /\ cursor > Len(pending_callback_queue)
  /\ pending_callback_queue' = <<>>
  /\ pc' = "idle" /\ cursor' = 0
  /\ UNCHANGED <<created, status, result, pending_callback, wrappers, wcursor, history>>

-----------------------------------------------------------------------------
Returns ==
  \/ \E v \in Values \cup {Blank} : ReturnValue(v)
  \/ \E q \in Promises : ReturnPromise(q)
  \/ \E e \in Errors : Throw(e)

TaskStep ==
  \/ TaskBegin \/ CallBack \/ RunAdoption \/ EnterCallback \/ BadCast
  \/ Returns \/ CallBackEnd \/ TaskEnd

ApiCall ==
  \/ \E p \in Promises :
       \/ NewPromise(p)
       \/ \E s \in Settled, x \in Values \cup {Blank} \cup Errors : MakeSettled(p, s, x)
       \/ \E v \in Values \cup {Blank} : Resolve(p, v)
       \/ \E e \in Errors : Reject(p, e)
  \/ \E p, q \in Promises :
       \/ ResolveWith(p, q)
       \/ Then(p, q)
       \/ \E a \in AcceptSets : Catch(p, q, a)

Next == ApiCall \/ TaskStep

Spec == Init /\ [][Next]_vars

(* The loop runs forever (TaskLoop::run) and user callbacks return; nothing *)
(* is assumed of the API calls.                                             *)
FairSpec == Spec /\ WF_vars(TaskStep)

-----------------------------------------------------------------------------
(* Each variable holds what PromiseData and the two loops can hold. *)
TypeOK ==
  /\ created \subseteq Promises
  /\ status \in [Promises -> Status]
  /\ result \in [Promises -> Values \cup {Blank} \cup Errors \cup {Nothing}]
  /\ pending_callback \in [Promises -> BOOLEAN]
  /\ wrappers \in [Promises -> [Settled -> Seq(Wrapper)]]
  /\ pending_callback_queue \in Seq(Promises \cup {Helper})
  /\ pc \in PC
  /\ cursor \in Nat /\ wcursor \in Nat
  /\ reaction \in [Promises -> [on : Promises \cup {Nothing}, to : Status, nth : Nat]]
  /\ n_reactions \in Nat
  /\ origin \in [Promises -> [how : {"none", "value", "error", "promise"},
                              what : Values \cup {Blank} \cup Errors \cup Promises \cup {Nothing}]]
  /\ runs \in [Promises -> 0..2]
  /\ escapes \in [Promises -> Nat]

(* The promise will still be visited by promise_task: it is at or after the *)
(* task's position, or in a queue the task will walk from its start.        *)
Start == IF pc \in {"idle", "terminated"} THEN 1 ELSE cursor

Waiting(p) ==
  \E i \in Start .. Len(pending_callback_queue) : pending_callback_queue[i] = p

(* No callback is forgotten: a settled promise that holds wrappers for its  *)
(* status is ahead of promise_task in the queue, whatever order then,       *)
(* _catch, resolve and the task's two loops interleave in, and also after   *)
(* an exception has left the task (promise.h:146-160, 320-327, 374-379).    *)
NoLostCallback ==
  \A p \in Promises :
    status[p] \in Settled /\ wrappers[p][status[p]] # <<>> => Waiting(p)

(* A user callback is entered at most once, whatever callbacks register and *)
(* settle meanwhile, and also when exceptions have left the call_back of    *)
(* other promises and promise_task starts over (promise.h:146-160,          *)
(* promise.cpp:9-14).  Only of a promise whose own call_back an exception   *)
(* has left, the wrappers are walked again.                                 *)
CallbackOnce ==
  \A p, d \in Promises : reaction[d].on = p /\ escapes[p] = 0 => runs[d] <= 1

(* A promise returned by then / _catch settles only as its callback said:   *)
(* with the value it returned, the exception it threw, or the settlement of *)
(* the promise it returned (promise.h:207-232, 330-340, 382-392).  Again    *)
(* only an exception out of the same promise's call_back spoils it.         *)
DerivedOutcome ==
  \A p, d \in Promises :
    status[d] \in Settled /\ reaction[d].on = p /\ escapes[p] = 0 =>
      \/ origin[d].how = "value"
         /\ status[d] = "RESOLVED" /\ result[d] = origin[d].what
      \/ origin[d].how = "error"
         /\ status[d] = "REJECTED" /\ result[d] = origin[d].what
      \/ origin[d].how = "promise"
         /\ status[d] = status[origin[d].what] /\ result[d] = result[origin[d].what]

(* What the API promises, whatever the queue and the two loops do: see      *)
(* PromiseContract.  A callback counts as delivered once it is entered.     *)
Contract == INSTANCE PromiseContract
              WITH delivered <- {d \in Promises : runs[d] > 0}

(* The promise machinery implements the contract: settle once, deliver each *)
(* reaction at most once, in registration order and only for the matching   *)
(* outcome (promise.h:146-232, 297-395).                                    *)
ImplementsContract == Contract!Spec

(* ... and every reaction to a promise that settles its way is delivered.   *)
EveryReactionDelivered == Contract!Fairness

(* A derived promise whose callback returned a promise does not stay        *)
(* pending once that promise has settled, whichever of the two happened     *)
(* first (associate_status, promise.h:207-232).                             *)
AdoptionSettles ==
  \A d, q \in Promises :
    (origin[d] = [how |-> "promise", what |-> q] /\ status[q] \in Settled)
      ~> status[d] \in Settled

(* Promises/A+ 2.2.7.3 and 2.2.7.4, which README.md:19 claims ("Promise/A+  *)
(* compliant promise type"): a promise that settles the way a then / _catch *)
(* does not handle passes its settlement on to the derived promise.  The    *)
(* early returns of then and _catch (promise.h:318-320, 370-372) and the    *)
(* lists call_back skips (promise.h:146-160) contradict it.                 *)
PassThrough ==
  \A d, p \in Promises :
    (reaction[d].on = p /\ status[p] \in Settled \ {reaction[d].to})
      ~> (status[d] = status[p] /\ result[d] = result[p])

=============================================================================
