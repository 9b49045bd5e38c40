-------------------------- MODULE PromiseContract --------------------------
(***************************************************************************)
(* What libasync's promises promise their user, without queue or task: a   *)
(* promise settles at most once; then / _catch register a reaction to one  *)
(* way of settling, and a reaction is delivered at most once, after its    *)
(* promise settled that way, in the order of registration; the promise a   *)
(* registration returns settles only after the reaction was delivered.     *)
(* These are the clauses 2.1.2, 2.1.3, 2.2.2, 2.2.3 and 2.2.6 of           *)
(* Promises/A+, which README.md claims, restricted to what the library     *)
(* offers (its then propagates nothing).                                   *)
(***************************************************************************)
EXTENDS Naturals

CONSTANTS Promises, Values, Blank, Errors, Nothing

VARIABLES created, status, result, reaction, n_reactions, delivered

vars == <<created, status, result, reaction, n_reactions, delivered>>

Settled == {"RESOLVED", "REJECTED"}

NoReaction == [on |-> Nothing, to |-> "PENDING", nth |-> 0]

Outcome(s) == IF s = "RESOLVED" THEN Values \cup {Blank} ELSE Errors

Init ==
  /\ created = {}
  /\ status = [p \in Promises |-> "PENDING"]
  /\ result = [p \in Promises |-> Nothing]
  /\ reaction = [p \in Promises |-> NoReaction]
  /\ n_reactions = 0
  /\ delivered = {}

(* A promise is born pending ... *)
Create(p) ==
  /\ p \in Promises \ created
  /\ created' = created \cup {p}
  /\ UNCHANGED <<status, result, reaction, n_reactions, delivered>>

Settling(p, s, x) ==
  /\ x \in Outcome(s)
  /\ status[p] = "PENDING"
  /\ status' = [status EXCEPT ![p] = s]
  /\ result' = [result EXCEPT ![p] = x]
  /\ UNCHANGED <<reaction, n_reactions, delivered>>

(* ... or settled. *)
CreateSettled(p, s, x) ==
  /\ p \in Promises \ created
  /\ created' = created \cup {p}
  /\ Settling(p, s, x)

Settle(p, s, x) ==
  /\ p \in created
  /\ reaction[p] # NoReaction => p \in delivered
  /\ Settling(p, s, x)
  /\ UNCHANGED created

Register(p, d, s) ==
  /\ p \in created /\ d \in Promises \ created
  /\ created' = created \cup {d}
  /\ n_reactions' = n_reactions + 1
  /\ reaction' = [reaction EXCEPT ![d] = [on |-> p, to |-> s, nth |-> n_reactions']]
  /\ UNCHANGED <<status, result, delivered>>

(* d's reaction is due: its promise settled its way, and the reactions      *)
(* registered before it for the same outcome have been delivered.           *)
Due(d) ==
  /\ reaction[d] # NoReaction
  /\ status[reaction[d].on] = reaction[d].to
  /\ d \notin delivered
  /\ \A e \in Promises :
       /\ reaction[e].on = reaction[d].on /\ reaction[e].to = reaction[d].to
       /\ reaction[e].nth < reaction[d].nth
       => e \in delivered

Deliver(d) ==
  /\ Due(d)
  /\ delivered' = delivered \cup {d}
  /\ UNCHANGED <<created, status, result, reaction, n_reactions>>

Next ==
  \/ \E p \in Promises : Create(p) \/ Deliver(p)
  \/ \E p \in Promises, s \in Settled : \E x \in Outcome(s) :
       CreateSettled(p, s, x) \/ Settle(p, s, x)
  \/ \E p, d \in Promises, s \in Settled : Register(p, d, s)

Spec == Init /\ [][Next]_vars

(* A reaction that is due is delivered. *)
Fairness == \A d \in Promises : WF_vars(Deliver(d))

=============================================================================
