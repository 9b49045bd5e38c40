----------------------------- MODULE AsyncFunc -----------------------------
(***************************************************************************)
(* headers/async_func.h: async functions, on top of generators (module     *)
(* Generator, whose actions the steps here call) and of promises (of which *)
(* PromiseContract is used: a reaction is delivered once, by promise_task, *)
(* after its promise settled, in the order of registration).               *)
(*                                                                         *)
(* A member of Gens is one call of an async function: its generator, and,  *)
(* under the same name, the promise the caller gets.  await_impl registers *)
(* its two reactions first and then yields; the reactions resume the       *)
(* generator, whatever it is suspended in by then.  AsyncCtx is a value:   *)
(* code of the caller, or of another function, may call await of it.       *)
(***************************************************************************)
EXTENDS Naturals, FiniteSets, Sequences

CONSTANTS
  Gens,       \* calls of async functions (a bound)
  Promises,   \* promises that other code settles
  Main, Null,
  MaxAwaits   \* bound: awaits of one AsyncCtx

ASSUME AsyncFuncAssumption ==
  /\ IsFiniteSet(Gens) /\ Gens \cap Promises = {}
  /\ Main \notin Gens /\ Null \notin Gens \cup Promises /\ Main # Null
  /\ MaxAwaits \in Nat

(* Generator's variables. *)
VARIABLES status, gen_ctx, caller_ctx, in_val, from, at, state, strayed, thrown

VARIABLES
  outcome,    \* of each promise
  adopts,     \* the pending promise that a function's own one follows
  waiting,    \* of each promise, the awaits that react to it, oldest first
  awaiting    \* the await whose yield a generator is suspended in

(* History, read by properties and bounds only. *)
VARIABLES
  n_awaits,   \* awaits of each AsyncCtx
  misused,    \* functions whose await was called while they were not executed
  crossed     \* functions an await of which was resumed by another's reaction

Gen == INSTANCE Generator

generator == <<status, gen_ctx, caller_ctx, in_val, from, at, state, strayed, thrown>>
promises  == <<outcome, adopts>>
history   == <<n_awaits, misused, crossed>>
vars      == <<generator, promises, waiting, awaiting, history>>

All == Gens \cup Promises

Settled == {"RESOLVED", "REJECTED"}

NoAwait == [promise |-> Null, nth |-> 0]

Init ==
  /\ Gen!Init
  /\ outcome = [p \in All |-> "PENDING"]
  /\ adopts = [f \in Gens |-> Null]
  /\ waiting = [p \in All |-> <<>>]
  /\ awaiting = [f \in Gens |-> NoAwait]
  /\ n_awaits = [f \in Gens |-> 0] /\ misused = {} /\ crossed = {}

-----------------------------------------------------------------------------
Called(f) == status[f] # "PENDING"

(* Promises that exist. *)
Known == Promises \cup {f \in Gens : Called(f)}

(* Other code settles one of its promises. *)
Settle(p, how) ==
  /\ state = "ok" /\ outcome[p] = "PENDING"
  /\ outcome' = [outcome EXCEPT ![p] = how]
  /\ UNCHANGED <<generator, adopts, waiting, awaiting, history>>

(* An async function is called: its promise's executor makes the generator  *)
(* and runs it up to the first await.                                       *)
Call(f) ==
  /\ ~Called(f)
  /\ Gen!next(f)
  /\ UNCHANGED <<promises, waiting, awaiting, history>>

(* Broken variant: the callbacks are registered when the yield returns. *)
AwaitLate(f, p) ==
  /\ Gen!UserCode /\ Called(f) /\ p \in Known
  /\ n_awaits[f] < MaxAwaits
  /\ n_awaits' = [n_awaits EXCEPT ![f] = @ + 1]
  /\ misused' = misused \cup ({f} \ Gen!Executed)
  /\ IF status[f] = "RUNNING"
     THEN /\ Gen!yield(f)
          /\ awaiting' = [awaiting EXCEPT ![f] = [promise |-> p, nth |-> n_awaits'[f]]]
     ELSE UNCHANGED <<generator, awaiting>>
  /\ UNCHANGED <<promises, waiting, crossed>>

(* f's AsyncCtx::await(p), called by whatever code runs.  Of a generator    *)
(* that is not RUNNING, yield throws, with the callbacks in place.          *)
Await(f, p) ==
  /\ Gen!UserCode /\ Called(f) /\ p \in Known
  /\ n_awaits[f] < MaxAwaits
  /\ n_awaits' = [n_awaits EXCEPT ![f] = @ + 1]
  /\ waiting' = [waiting EXCEPT ![p] = Append(@, [fn |-> f, nth |-> n_awaits'[f]])]
  /\ misused' = misused \cup ({f} \ Gen!Executed)
  /\ IF status[f] = "RUNNING"
     THEN /\ Gen!yield(f)
          /\ awaiting' = [awaiting EXCEPT ![f] = [promise |-> p, nth |-> n_awaits'[f]]]
     ELSE UNCHANGED <<generator, awaiting>>
  /\ UNCHANGED <<promises, crossed>>

(* The body returns a value, or a promise p, or throws; the generator ends. *)
Settles(how) ==
  /\ outcome' = [outcome EXCEPT ![at] = how]
  /\ UNCHANGED adopts

ReturnPromise(p) ==
  IF outcome[p] = "PENDING"
  THEN adopts' = [adopts EXCEPT ![at] = p] /\ UNCHANGED outcome
  ELSE Settles(outcome[p])

Ends ==
  /\ at \in Gens
  /\ \/ \E how \in Settled : Settles(how)
     \/ \E p \in Known \ {at} : ReturnPromise(p)
  /\ Gen!gen_wrapper(FALSE)
  /\ UNCHANGED <<waiting, awaiting, history>>

-----------------------------------------------------------------------------
(* promise_task, on the thread's own stack.                                 *)

(* A promise that resolve was given has settled. *)
Adopt(f) ==
  /\ at = Main /\ state = "ok"
  /\ outcome[f] = "PENDING" /\ adopts[f] # Null
  /\ outcome[adopts[f]] # "PENDING"
  /\ outcome' = [outcome EXCEPT ![f] = outcome[adopts[f]]]
  /\ UNCHANGED <<generator, adopts, waiting, awaiting, history>>

Due(p) == at = Main /\ state = "ok" /\ outcome[p] # "PENDING" /\ waiting[p] # <<>>

Resume(f, how) == IF how = "RESOLVED" THEN Gen!next(f) ELSE Gen!_throw(f)

(* The reaction w of p resumes its function, from whatever await. *)
Resumes(w, p) ==
  /\ crossed' = IF awaiting[w.fn] = [promise |-> p, nth |-> w.nth]
                THEN crossed ELSE crossed \cup {w.fn}
  /\ awaiting' = [awaiting EXCEPT ![w.fn] = NoAwait]

(* Broken variants: the callback stays registered; there is no _catch. *)
DeliverKeep(p) ==
  /\ Due(p)
  /\ LET w == Head(waiting[p])
     IN  IF status[w.fn] = "SUSPENDED"
         THEN Resume(w.fn, outcome[p]) /\ Resumes(w, p)
         ELSE UNCHANGED <<generator, awaiting, crossed>>
  /\ UNCHANGED <<promises, waiting, n_awaits, misused>>

DeliverResolved(p) ==
  /\ Due(p)
  /\ waiting' = [waiting EXCEPT ![p] = Tail(@)]
  /\ LET w == Head(waiting[p])
     IN  IF status[w.fn] = "SUSPENDED" /\ outcome[p] = "RESOLVED"
         THEN Gen!next(w.fn) /\ Resumes(w, p)
         ELSE UNCHANGED <<generator, awaiting, crossed>>
  /\ UNCHANGED <<promises, n_awaits, misused>>

(* The reaction of the oldest await: next, or _throw.  What they throw if   *)
(* the generator is RUNNING or DONE ends up in a promise nobody holds.      *)
Deliver(p) ==
  /\ Due(p)
  /\ waiting' = [waiting EXCEPT ![p] = Tail(@)]
  /\ LET w == Head(waiting[p])
     IN  IF status[w.fn] = "SUSPENDED"
         THEN Resume(w.fn, outcome[p]) /\ Resumes(w, p)
         ELSE UNCHANGED <<generator, awaiting, crossed>>
  /\ UNCHANGED <<promises, n_awaits, misused>>

-----------------------------------------------------------------------------
Next ==
  \/ \E p \in Promises, how \in Settled : Settle(p, how)
  \/ \E f \in Gens : Call(f) \/ Adopt(f) \/ \E p \in All : Await(f, p)
  \/ Ends
  \/ \E p \in All : Deliver(p)

Spec == Init /\ [][Next]_vars

(* A body comes to its end, if not to an await before; promise_task is      *)
(* called again and again and delivers what is due.                         *)
FairSpec ==
  /\ Spec /\ WF_vars(Ends)
  /\ \A f \in Gens : WF_vars(Adopt(f))
  /\ \A p \in All : WF_vars(Deliver(p))

-----------------------------------------------------------------------------
(* Await resumes with the outcome of its own promise, although the          *)
(* reactions of all awaits of a function do nothing but resume it: as long  *)
(* as its own await is only called while it is being executed, nested in    *)
(* others or not, whatever is done with the await of others.  Otherwise the *)
(* callbacks that a refused await has left behind resume a later one of the *)
(* same function, with a value of another promise, which may be of another  *)
(* type (async_func.h:18-26).  Once a RUNNING function has been suspended   *)
(* from outside, nothing of this holds.                                     *)
OwnOutcome == ~strayed => crossed \subseteq misused

(* The awaits of f that have a reaction to come. *)
Reactions(f) ==
  UNION {{[promise |-> p, nth |-> waiting[p][i].nth] :
            i \in {k \in DOMAIN waiting[p] : waiting[p][k].fn = f}} : p \in All}

(* No wake-up is lost: a suspended function has the reaction of the await   *)
(* it is suspended in, whoever misuses whose await.  And none is            *)
(* superfluous: that is all it has, unless its own await was misused.       *)
NoLostWake ==
  \A f \in Gens :
    /\ status[f] = "SUSPENDED" => awaiting[f] \in Reactions(f)
    /\ ~strayed /\ f \notin misused =>
         Reactions(f) \subseteq (IF status[f] = "SUSPENDED" THEN {awaiting[f]} ELSE {})

(* Async functions never run into the undefined behaviour of generators     *)
(* that are yielded from outside, if await is not misused, however they     *)
(* call and await each other, and whatever is thrown into them.             *)
SafeAwait == strayed \/ state = "undefined" => misused # {}

(* A function whose await is settled goes on (async_func.h:19-26, 36-41),   *)
(* also with callbacks of refused awaits, of this or other functions,       *)
(* ahead of its own in the same queues.                                     *)
AwaitReturns ==
  \A f \in Gens :
    []<>(status[f] = "SUSPENDED" => strayed \/ outcome[awaiting[f].promise] = "PENDING")

=============================================================================
