----------------------------- MODULE PromiseInv -----------------------------
(***************************************************************************)
(* The inductive invariant behind the theorems of PromiseProofs: how the   *)
(* two cursors, the queue, the wrapper lists and the history fit together. *)
(***************************************************************************)
EXTENDS Promise

Outside == pc \in {"idle", "terminated"}

Calling == pc \in {"calling", "user"}

(* The queue holds settled promises, and the cursors point into the lists   *)
(* that are being walked.                                                   *)
LoopInv ==
  /\ \A i \in 1 .. Len(pending_callback_queue) :
       pending_callback_queue[i] # Helper =>
         status[pending_callback_queue[i]] \in Settled
  /\ ~Outside => cursor \in 1 .. Len(pending_callback_queue) + 1
  /\ Calling => /\ cursor \in 1 .. Len(pending_callback_queue)
                /\ Current # Helper
                /\ wcursor \in 1 .. Len(Active) + 1
  /\ pc = "user" => wcursor <= Len(Active) /\ ~Active[wcursor].adopt

(* pending_callback is only set on a promise promise_task will visit, and   *)
(* is set on every promise that has something to run.                       *)
PendingInv ==
  \A p \in Promises :
    /\ pending_callback[p] => Waiting(p)
    /\ status[p] \in Settled /\ wrappers[p][status[p]] # <<>> => pending_callback[p]

(* A PromiseData that is not yet allocated is as Promise() will leave it.   *)
FreshInv ==
  \A d \in Promises \ created :
    /\ status[d] = "PENDING"
    /\ wrappers[d] = NoWrappers
    /\ reaction[d] = NoReaction
    /\ origin[d] = NoOrigin
    /\ runs[d] = 0

(* The promise a stored wrapper settles exists. *)
OuterInv ==
  \A p \in Promises, s \in Settled : \A i \in 1 .. Len(wrappers[p][s]) :
    wrappers[p][s][i].outer \in created

(* A promise is settled with a value or with an error, as its status says.  *)
ResultInv ==
  \A p \in Promises :
    /\ status[p] = "RESOLVED" => result[p] \in Values \cup {Blank}
    /\ status[p] = "REJECTED" => result[p] \in Errors

(* A stored callback belongs to the promise and the outcome it was          *)
(* registered for, and lists keep the order of registration.  Hence no      *)
(* callback is stored twice.                                                *)
StoredInv ==
  /\ \A d \in Promises :
       /\ reaction[d].nth <= n_reactions
       /\ reaction[d] # NoReaction =>
            reaction[d].on \in created /\ reaction[d].to \in Settled
  /\ \A p \in Promises, s \in Settled : \A i \in 1 .. Len(wrappers[p][s]) :
       ~wrappers[p][s][i].adopt =>
         /\ reaction[wrappers[p][s][i].outer].on = p
         /\ reaction[wrappers[p][s][i].outer].to = s
  /\ \A p \in Promises, s \in Settled : \A i, j \in 1 .. Len(wrappers[p][s]) :
       /\ i < j
       /\ ~wrappers[p][s][i].adopt /\ ~wrappers[p][s][j].adopt
       => reaction[wrappers[p][s][i].outer].nth < reaction[wrappers[p][s][j].outer].nth

(* call_back has already run the i-th wrapper of p for outcome s ... *)
Returned(p, s, i) == Calling /\ Current = p /\ status[p] = s /\ i < wcursor

(* ... or is running it. *)
Entered(p, s, i) ==
  \/ Returned(p, s, i)
  \/ pc = "user" /\ Current = p /\ status[p] = s /\ i = wcursor

(* call_back passes no callback without entering it, and a derived promise  *)
(* is only adopted after its callback was entered.                          *)
PassedInv ==
  \A p \in Promises, s \in Settled : \A i \in 1 .. Len(wrappers[p][s]) :
    LET w == wrappers[p][s][i] IN
    /\ ~w.adopt /\ Entered(p, s, i) => runs[w.outer] > 0
    /\ w.adopt /\ reaction[w.outer] # NoReaction => runs[w.outer] > 0

(* While no exception has left p's call_back, a callback of p has been      *)
(* entered once at most, and a stored one only if call_back has passed it.  *)
OnceInv ==
  \A p \in Promises : escapes[p] = 0 =>
    /\ \A d \in Promises : reaction[d].on = p => runs[d] <= 1
    /\ \A s \in Settled : \A i \in 1 .. Len(wrappers[p][s]) :
         ~wrappers[p][s][i].adopt /\ ~Entered(p, s, i) =>
           runs[wrappers[p][s][i].outer] = 0

(* A callback that has not returned has produced nothing, and a derived     *)
(* promise is only adopted from the promise its callback returned.          *)
OriginInv ==
  /\ \A d \in Promises : origin[d].how = "promise" => origin[d].what \in Promises
  /\ \A p \in Promises, s \in Settled : \A i \in 1 .. Len(wrappers[p][s]) :
       LET w == wrappers[p][s][i] IN
       /\ escapes[p] = 0 /\ ~w.adopt /\ ~Returned(p, s, i) => origin[w.outer] = NoOrigin
       /\ \A r \in Promises : w.adopt /\ reaction[w.outer].on = r /\ escapes[r] = 0 =>
            origin[w.outer] = [how |-> "promise", what |-> p]

(* A reaction that is registered, not entered, and not void because its     *)
(* promise settled the other way, is stored.                                *)
CompleteInv ==
  \A d \in Promises :
    /\ reaction[d] # NoReaction
    /\ runs[d] = 0
    /\ status[reaction[d].on] \in {"PENDING", reaction[d].to}
    => \E i \in 1 .. Len(wrappers[reaction[d].on][reaction[d].to]) :
         /\ ~wrappers[reaction[d].on][reaction[d].to][i].adopt
         /\ wrappers[reaction[d].on][reaction[d].to][i].outer = d

(* The conjunction is inductive: promise_task's bookkeeping never loses     *)
(* track of a callback (promise.h:146-160, 166-232, 297-395).               *)
IInv ==
  /\ TypeOK /\ LoopInv /\ FreshInv /\ OuterInv /\ PendingInv
  /\ ResultInv /\ StoredInv /\ PassedInv /\ CompleteInv
  /\ OnceInv /\ OriginInv /\ DerivedOutcome

=============================================================================
