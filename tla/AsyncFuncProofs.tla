--------------------------- MODULE AsyncFuncProofs ---------------------------
(***************************************************************************)
(* Async functions step only as generators do, so that what is proved of   *)
(* generators (GeneratorProofs) holds of them.  A suspended function always *)
(* has the reaction of the await it is suspended in; and, as long as its   *)
(* own await is only called while it is being executed, it has no other.   *)
(* For every number of functions, promises and awaits.                     *)
(***************************************************************************)
EXTENDS AsyncFunc, SequenceTheorems, TLAPS

GP == INSTANCE GeneratorProofs

Waiters == [fn : Gens, nth : Nat]

Awaits == [promise : All \cup {Null}, nth : Nat]

TypeInv ==
  /\ waiting \in [All -> Seq(Waiters)]
  /\ awaiting \in [Gens -> Awaits]
  /\ n_awaits \in [Gens -> Nat]
  /\ misused \subseteq Gens /\ crossed \subseteq Gens

(* No code is in a yield_from, a generator is yielded from outside only if  *)
(* await was misused, and undefined behaviour is only reached after that.   *)
FlowInv ==
  /\ \A g \in Gens : from[g] = Gen!NoFrom
  /\ strayed => misused # {}
  /\ state = "undefined" => strayed

(* A suspended function has the reaction of the await it is suspended in; *)
WakeInv ==
  \A f \in Gens : status[f] = "SUSPENDED" =>
    /\ awaiting[f].promise \in All
    /\ \E i \in 1 .. Len(waiting[awaiting[f].promise]) :
         waiting[awaiting[f].promise][i] = [fn |-> f, nth |-> awaiting[f].nth]

(* what is registered for others is that, unless their await was misused, *)
ReactionInv ==
  \A p \in All : \A i \in 1 .. Len(waiting[p]) : waiting[p][i].fn \notin misused =>
    /\ status[waiting[p][i].fn] = "SUSPENDED"
    /\ awaiting[waiting[p][i].fn] = [promise |-> p, nth |-> waiting[p][i].nth]

(* and it is registered once. *)
OneInv ==
  \A p, q \in All : \A i \in 1 .. Len(waiting[p]), j \in 1 .. Len(waiting[q]) :
    waiting[p][i].fn \notin misused /\ waiting[p][i].fn = waiting[q][j].fn => p = q /\ i = j

AwaitInv == strayed \/ (ReactionInv /\ OneInv)

Inv == TypeInv /\ FlowInv /\ WakeInv /\ OwnOutcome /\ AwaitInv

-----------------------------------------------------------------------------
(* The lists of reactions. *)
LEMMA WaiterFacts ==
  ASSUME TypeInv, NEW p \in All
  PROVE  /\ waiting[p] \in Seq(Waiters) /\ Len(waiting[p]) \in Nat
         /\ waiting[p] # <<>> <=> Len(waiting[p]) > 0
         /\ \A i \in 1 .. Len(waiting[p]) : waiting[p][i].fn \in Gens /\ waiting[p][i].nth \in Nat
<1>1. waiting[p] \in Seq(Waiters)
  BY DEF TypeInv
<1>2. \A i \in 1 .. Len(waiting[p]) : waiting[p][i] \in Waiters
  BY <1>1, ElementOfSeq
<1>3. Len(waiting[p]) \in Nat /\ (waiting[p] # <<>> <=> Len(waiting[p]) > 0)
  BY <1>1, LenProperties, EmptySeq
<1>4. QED
  BY <1>1, <1>2, <1>3 DEF Waiters

LEMMA HeadFacts ==
  ASSUME TypeInv, NEW p \in All, waiting[p] # <<>>
  PROVE  /\ Head(waiting[p]) = waiting[p][1] /\ 1 \in 1 .. Len(waiting[p])
         /\ Head(waiting[p]).fn \in Gens
         /\ Tail(waiting[p]) \in Seq(Waiters) /\ Len(Tail(waiting[p])) = Len(waiting[p]) - 1
         /\ \A i \in 1 .. Len(waiting[p]) - 1 : Tail(waiting[p])[i] = waiting[p][i + 1]
<1>1. waiting[p] \in Seq(Waiters) /\ Len(waiting[p]) \in Nat /\ Len(waiting[p]) > 0
  BY WaiterFacts
<1>2. Head(waiting[p]) = waiting[p][1] /\ 1 \in 1 .. Len(waiting[p])
  BY <1>1, HeadTailProperties
<1>3. /\ Tail(waiting[p]) \in Seq(Waiters) /\ Len(Tail(waiting[p])) = Len(waiting[p]) - 1
      /\ \A i \in 1 .. Len(waiting[p]) - 1 : Tail(waiting[p])[i] = waiting[p][i + 1]
  BY <1>1, HeadTailProperties
<1>4. QED
  BY <1>2, <1>3, WaiterFacts

(* The variables hold what they should, whatever the generators do. *)
LEMMA InitType == Init => TypeInv
<1> SUFFICES ASSUME Init PROVE TypeInv
  OBVIOUS
<1>1. <<>> \in Seq(Waiters)
  OBVIOUS
<1>2. NoAwait \in Awaits
  BY DEF NoAwait, Awaits
<1>3. QED
  BY <1>1, <1>2 DEF Init, TypeInv

LEMMA NextType == TypeInv /\ [Next]_vars => TypeInv'
<1> SUFFICES ASSUME TypeInv, [Next]_vars PROVE TypeInv'
  OBVIOUS
<1> USE DEF history
<1>1. ASSUME UNCHANGED <<waiting, awaiting, history>> PROVE TypeInv'
  BY <1>1 DEF TypeInv
<1>2. ASSUME NEW p \in Promises, NEW how \in Settled, Settle(p, how) PROVE TypeInv'
  BY <1>1, <1>2 DEF Settle
<1>3. ASSUME NEW f \in Gens, Call(f) \/ Adopt(f) PROVE TypeInv'
  BY <1>1, <1>3 DEF Call, Adopt
<1>4. ASSUME NEW f \in Gens, NEW p \in All, Await(f, p) PROVE TypeInv'
  <2>1. n_awaits' \in [Gens -> Nat] /\ n_awaits'[f] \in Nat
    BY <1>4 DEF Await, TypeInv
  <2>2. [fn |-> f, nth |-> n_awaits'[f]] \in Waiters
        /\ [promise |-> p, nth |-> n_awaits'[f]] \in Awaits
    BY <2>1 DEF Waiters, Awaits
  <2>3. Append(waiting[p], [fn |-> f, nth |-> n_awaits'[f]]) \in Seq(Waiters)
    BY <2>2, WaiterFacts, AppendProperties
  <2>4. waiting' = [waiting EXCEPT ![p] = Append(waiting[p], [fn |-> f, nth |-> n_awaits'[f]])]
    BY <1>4 DEF Await
  <2>5. waiting' \in [All -> Seq(Waiters)]
    BY <2>3, <2>4 DEF TypeInv
  <2>6. awaiting' \in [Gens -> Awaits]
    <3>1. CASE awaiting' = [awaiting EXCEPT ![f] = [promise |-> p, nth |-> n_awaits'[f]]]
      BY <2>2, <3>1 DEF TypeInv
    <3>2. CASE awaiting' = awaiting
      BY <3>2 DEF TypeInv
    <3>3. QED
      BY <1>4, <3>1, <3>2 DEF Await
  <2>7. misused' \subseteq Gens /\ crossed' \subseteq Gens
    BY <1>4 DEF Await, TypeInv
  <2>8. QED
    BY <2>1, <2>5, <2>6, <2>7 DEF TypeInv
<1>5. ASSUME Ends PROVE TypeInv'
  BY <1>1, <1>5 DEF Ends
<1>6. ASSUME NEW p \in All, Deliver(p) PROVE TypeInv'
  <2>1. Tail(waiting[p]) \in Seq(Waiters) /\ Head(waiting[p]).fn \in Gens
    BY <1>6, HeadFacts DEF Deliver, Due
  <2>2. waiting' = [waiting EXCEPT ![p] = Tail(waiting[p])]
    BY <1>6 DEF Deliver
  <2>3. waiting' \in [All -> Seq(Waiters)]
    BY <2>1, <2>2 DEF TypeInv
  <2>4. awaiting' \in [Gens -> Awaits] /\ crossed' \subseteq Gens
    <3> DEFINE w == Head(waiting[p])
    <3>1. CASE Resumes(w, p)
      <4>1. NoAwait \in Awaits
        BY DEF NoAwait, Awaits
      <4>2. QED
        BY <2>1, <3>1, <4>1 DEF Resumes, TypeInv
    <3>2. CASE awaiting' = awaiting /\ crossed' = crossed
      BY <3>2 DEF TypeInv
    <3>3. QED
      BY <1>6, <3>1, <3>2 DEF Deliver
  <2>5. n_awaits' = n_awaits /\ misused' = misused
    BY <1>6 DEF Deliver
  <2>6. QED
    BY <2>3, <2>4, <2>5 DEF TypeInv
<1>7. CASE UNCHANGED vars
  BY <1>1, <1>7 DEF vars
<1>8. QED
  BY <1>2, <1>3, <1>4, <1>5, <1>6, <1>7 DEF Next

(* Each step is one of the generators, or none of their business. *)
LEMMA StepsAreGen == TypeInv /\ [Next]_vars => [Gen!Next]_(Gen!vars)
<1> SUFFICES ASSUME TypeInv, [Next]_vars PROVE [Gen!Next]_(Gen!vars)
  OBVIOUS
<1>1. ASSUME UNCHANGED generator PROVE UNCHANGED Gen!vars
  BY <1>1 DEF generator, Gen!vars, Gen!history
<1>2. ASSUME NEW g \in Gens, Gen!next(g) \/ Gen!_throw(g) \/ Gen!yield(g) PROVE Gen!Next
  BY <1>2 DEF Gen!Next
<1>3. ASSUME NEW p \in Promises, NEW how \in Settled, Settle(p, how) PROVE UNCHANGED generator
  BY <1>3 DEF Settle
<1>4. ASSUME NEW f \in Gens, Call(f) PROVE Gen!Next
  BY <1>2, <1>4 DEF Call
<1>5. ASSUME NEW f \in Gens, Adopt(f) PROVE UNCHANGED generator
  BY <1>5 DEF Adopt
<1>6. ASSUME NEW f \in Gens, NEW p \in All, Await(f, p) PROVE Gen!Next \/ UNCHANGED generator
  BY <1>2, <1>6 DEF Await
<1>7. ASSUME Ends PROVE Gen!Next
  BY <1>7 DEF Ends, Gen!Next
<1>8. ASSUME NEW p \in All, Deliver(p) PROVE Gen!Next \/ UNCHANGED generator
  <2>1. Head(waiting[p]).fn \in Gens
    BY <1>8, HeadFacts DEF Deliver, Due
  <2>2. QED
    BY <1>2, <1>8, <2>1 DEF Deliver, Resume
<1>9. ASSUME UNCHANGED vars PROVE UNCHANGED generator
  BY <1>9 DEF vars
<1>10. QED
  BY <1>1, <1>3, <1>4, <1>5, <1>6, <1>7, <1>8, <1>9 DEF Next

LEMMA Typed == Spec => []TypeInv
<1>1. QED
  BY InitType, NextType, PTL DEF Spec

(* Async functions run as generators and do nothing else with them: what is *)
(* proved of Generator holds of them, for any number of functions.          *)
LEMMA StepsOfGenerators == Spec => Gen!Spec
<1>1. Init => Gen!Init
  BY DEF Init
<1>2. QED
  BY <1>1, StepsAreGen, Typed, PTL DEF Spec, Gen!Spec

-----------------------------------------------------------------------------
(* The proofs about generators speak of the same definitions. *)
LEMMA GeneratorsAre == GP!GeneratorAssumption
<1>1. GP!IsFiniteSet(Gens) <=> IsFiniteSet(Gens)
  BY DEF GP!IsFiniteSet, IsFiniteSet
<1>2. QED
  BY <1>1, AsyncFuncAssumption DEF GP!GeneratorAssumption

LEMMA SameExecuted == Gen!Executed = GP!Executed
BY DEF Gen!Executed, GP!Executed, Gen!Below, GP!Below, Gen!Cardinality, GP!Cardinality

LEMMA SameSteps == (Gen!Init <=> GP!Init) /\ (Gen!Next <=> GP!Next) /\ Gen!vars = GP!vars
BY SameExecuted
     DEF Gen!Init, GP!Init, Gen!GenStatus, GP!GenStatus, Gen!NoFrom, GP!NoFrom,
         Gen!From, GP!From, Gen!Stacks, GP!Stacks, Gen!history, GP!history,
         Gen!vars, GP!vars, Gen!UserCode, GP!UserCode, Gen!Abandon, GP!Abandon,
         Gen!run_generator, GP!run_generator, Gen!yield_impl, GP!yield_impl,
         Gen!next, GP!next, Gen!_throw, GP!_throw, Gen!yield, GP!yield,
         Gen!gen_wrapper, GP!gen_wrapper, Gen!yield_from, GP!yield_from,
         Gen!Delegating, GP!Delegating, Gen!Inner, GP!Inner, Gen!FromEnd,
         GP!FromEnd, Gen!FromDangling, GP!FromDangling, Gen!FromNext, GP!FromNext,
         Gen!FromYield, GP!FromYield, Gen!FromRefused, GP!FromRefused,
         Gen!YieldFrom, GP!YieldFrom, Gen!Next, GP!Next

LEMMA GeneratorsFlow == Spec => []GP!FlowInv
<1>1. Spec => Gen!Spec
  BY StepsOfGenerators
<1>2. GP!Spec => [](GP!FlowInv /\ GP!OneWayBack)
  BY GP!FlowHolds, GeneratorsAre, PTL
<1>3. [Gen!Next]_(Gen!vars) => [GP!Next]_(GP!vars)
  BY SameSteps DEF Gen!vars, GP!vars, Gen!history, GP!history
<1>4. Gen!Init => GP!Init
  BY SameSteps
<1>5. QED
  BY <1>1, <1>2, <1>3, <1>4, PTL DEF Gen!Spec, GP!Spec

(* What the steps below need of it. *)
LEMMA GenTypes ==
  ASSUME GP!FlowInv
  PROVE  /\ status \in [Gens -> {"PENDING", "RUNNING", "SUSPENDED", "DONE"}]
         /\ from = [g \in Gens |-> from[g]]
         /\ state \in {"ok", "undefined"} /\ strayed \in BOOLEAN
BY DEF GP!FlowInv, GP!TypeOK, GP!GenStatus

LEMMA GenRuns ==
  ASSUME GP!FlowInv, ~strayed
  PROVE  /\ \A g \in Gen!Executed : g \in Gens /\ status[g] = "RUNNING"
         /\ at # Main => at \in Gens /\ status[at] = "RUNNING"
<1>1. GP!NestInv
  BY DEF GP!FlowInv
<1>2. QED
  BY <1>1, GP!ExecutedRun, GeneratorsAre, SameExecuted

-----------------------------------------------------------------------------
(* A step that changes neither generators nor reactions keeps the           *)
(* invariant.                                                               *)
LEMMA QuietKeeps ==
  ASSUME FlowInv, WakeInv, OwnOutcome, AwaitInv,
         UNCHANGED <<status, from, state, strayed, waiting, awaiting, misused, crossed>>
  PROVE  FlowInv' /\ WakeInv' /\ OwnOutcome' /\ AwaitInv'
<1>1. FlowInv' /\ OwnOutcome' /\ WakeInv'
  BY DEF FlowInv, OwnOutcome, WakeInv
<1>2. (ReactionInv /\ OneInv) => (ReactionInv /\ OneInv)'
  BY DEF ReactionInv, OneInv
<1>3. AwaitInv'
  BY <1>2 DEF AwaitInv
<1>4. QED
  BY <1>1, <1>3

(* A generator that starts or ends was not suspended before and is not      *)
(* after.                                                                   *)
LEMMA OtherKeeps ==
  ASSUME TypeInv, GP!FlowInv, WakeInv, AwaitInv, NEW f \in Gens, NEW s,
         status[f] # "SUSPENDED", s # "SUSPENDED", status' = [status EXCEPT ![f] = s],
         UNCHANGED <<waiting, awaiting, misused, strayed>>
  PROVE  WakeInv' /\ AwaitInv'
<1>1. /\ \A g \in Gens : status'[g] = IF g = f THEN s ELSE status[g]
      /\ waiting' = waiting /\ awaiting' = awaiting /\ misused' = misused
  BY GenTypes
<1>2. \A p \in All : \A i \in 1 .. Len(waiting[p]) : waiting[p][i].fn \in Gens
  BY WaiterFacts
<1>3. ReactionInv => ReactionInv'
  BY <1>1, <1>2 DEF ReactionInv
<1>4. WakeInv'
  BY <1>1 DEF WakeInv
<1>5. OneInv => OneInv'
  BY <1>1 DEF OneInv
<1>6. QED
  BY <1>3, <1>4, <1>5 DEF AwaitInv

(* The start of a function. *)
LEMMA CallKeeps ==
  ASSUME Inv, GP!FlowInv, NEW f \in Gens, Call(f)
  PROVE  FlowInv' /\ WakeInv' /\ OwnOutcome' /\ AwaitInv'
<1>1. /\ status[f] = "PENDING" /\ status' = [status EXCEPT ![f] = "RUNNING"]
      /\ UNCHANGED <<from, state, strayed, waiting, awaiting, misused, crossed>>
  BY DEF Call, Called, Gen!next, Gen!run_generator, Gen!history, history
<1>2. FlowInv' /\ OwnOutcome'
  BY <1>1 DEF Inv, FlowInv, OwnOutcome
<1>3. WakeInv' /\ AwaitInv'
  BY <1>1, OtherKeeps DEF Inv
<1>4. QED
  BY <1>2, <1>3

(* The end of a function; it is RUNNING unless one was yielded from outside. *)
LEMMA EndKeeps ==
  ASSUME Inv, GP!FlowInv, Ends
  PROVE  FlowInv' /\ WakeInv' /\ OwnOutcome' /\ AwaitInv'
<1>1. /\ at \in Gens /\ at # Main /\ state = "ok"
      /\ UNCHANGED <<strayed, waiting, awaiting, misused, crossed>>
  BY DEF Ends, Gen!gen_wrapper, Gen!UserCode, Gen!history, history
<1>2. CASE status[at] = "RUNNING"
  <2>1. status' = [status EXCEPT ![at] = "DONE"] /\ UNCHANGED <<from, state>>
    BY <1>2 DEF Ends, Gen!gen_wrapper
  <2>2. FlowInv' /\ OwnOutcome'
    BY <1>1, <2>1 DEF Inv, FlowInv, OwnOutcome
  <2>3. WakeInv' /\ AwaitInv'
    BY <1>1, <1>2, <2>1, OtherKeeps DEF Inv
  <2>4. QED
    BY <2>2, <2>3
<1>3. CASE status[at] # "RUNNING"
  <2>1. from' = from /\ status' = status
    BY <1>3 DEF Ends, Gen!gen_wrapper
  <2>2. strayed
    BY <1>1, <1>3, GenRuns
  <2>3. QED
    BY <1>1, <2>1, <2>2 DEF Inv, FlowInv, WakeInv, OwnOutcome, AwaitInv
<1>4. QED
  BY <1>2, <1>3

(* An await registers a reaction at the end of the list of its promise, for *)
(* the await its function is suspended in, if it is.                        *)
LEMMA Registers ==
  ASSUME TypeInv, NEW f \in Gens, NEW p \in All, Await(f, p)
  PROVE  \E w \in Waiters :
           /\ w = [fn |-> f, nth |-> n_awaits'[f]]
           /\ Len(waiting'[p]) = Len(waiting[p]) + 1 /\ waiting'[p][Len(waiting[p]) + 1] = w
           /\ \A q \in All : /\ q # p => waiting'[q] = waiting[q]
                             /\ Len(waiting[q]) \in Nat
                             /\ \A i \in 1 .. Len(waiting[q]) :
                                  /\ i \in 1 .. Len(waiting'[q])
                                  /\ waiting'[q][i] = waiting[q][i]
                                  /\ waiting[q][i].fn \in Gens
           /\ \A q \in All : \A i \in 1 .. Len(waiting'[q]) :
                \/ q = p /\ i = Len(waiting[p]) + 1 /\ waiting'[q][i] = w
                \/ i \in 1 .. Len(waiting[q]) /\ waiting'[q][i] = waiting[q][i]
<1> DEFINE w == [fn |-> f, nth |-> n_awaits'[f]]
           n == Len(waiting[p])
<1>1. /\ waiting' = [waiting EXCEPT ![p] = Append(waiting[p], w)]
      /\ n_awaits' = [n_awaits EXCEPT ![f] = n_awaits[f] + 1]
  BY DEF Await
<1>2. n_awaits'[f] \in Nat
  BY <1>1 DEF TypeInv
<1>3. w \in Waiters
  BY <1>2 DEF Waiters
<1> HIDE DEF w
<1>4. /\ waiting[p] \in Seq(Waiters) /\ n \in Nat
      /\ \A q \in All : Len(waiting[q]) \in Nat
            /\ \A i \in 1 .. Len(waiting[q]) : waiting[q][i].fn \in Gens
  BY WaiterFacts
<1>5. /\ \A q \in All : q # p => waiting'[q] = waiting[q]
      /\ waiting'[p] = Append(waiting[p], w)
  BY <1>1 DEF TypeInv
<1>6. /\ Len(waiting'[p]) = n + 1
      /\ \A i \in 1 .. n : waiting'[p][i] = waiting[p][i]
      /\ waiting'[p][n + 1] = w
  BY <1>3, <1>4, <1>5, AppendProperties
<1> HIDE DEF n
<1>7. ASSUME NEW q \in All, NEW i \in 1 .. Len(waiting[q])
      PROVE  i \in 1 .. Len(waiting'[q]) /\ waiting'[q][i] = waiting[q][i]
  <2>1. CASE q = p
    <3>1. i \in 1 .. n /\ i \in 1 .. n + 1
      BY <1>4, <2>1 DEF n
    <3>2. QED
      BY <1>6, <2>1, <3>1
  <2>2. CASE q # p
    BY <1>5, <2>2
  <2>3. QED
    BY <2>1, <2>2
<1>8. ASSUME NEW q \in All, NEW i \in 1 .. Len(waiting'[q])
      PROVE  \/ q = p /\ i = n + 1 /\ waiting'[q][i] = w
             \/ i \in 1 .. Len(waiting[q]) /\ waiting'[q][i] = waiting[q][i]
  <2>1. CASE q = p /\ i = n + 1
    BY <1>6, <2>1
  <2>2. CASE q = p /\ i # n + 1
    <3>1. i \in 1 .. n
      BY <1>4, <1>6, <2>2
    <3>2. QED
      BY <1>6, <2>2, <3>1 DEF n
  <2>3. CASE q # p
    BY <1>5, <2>3
  <2>4. QED
    BY <2>1, <2>2, <2>3
<1>9. QED
  BY <1>3, <1>4, <1>5, <1>6, <1>7, <1>8 DEF n, w

(* An await of a function that is being executed suspends it and registers  *)
(* its only reaction; another one is a misuse.                              *)
LEMMA AwaitKeeps ==
  ASSUME Inv, GP!FlowInv, NEW f \in Gens, NEW p \in All, Await(f, p)
  PROVE  FlowInv' /\ WakeInv' /\ OwnOutcome' /\ AwaitInv'
<1>1. state = "ok" /\ crossed' = crossed /\ state' = state /\ from' = from /\ TypeInv
  BY DEF Inv, Await, Gen!UserCode, Gen!yield, Gen!yield_impl, generator
<1>2. misused' = misused \cup ({f} \ Gen!Executed)
  BY DEF Await
<1>3. strayed' <=> strayed \/ (status[f] = "RUNNING" /\ f \notin Gen!Executed)
  <2>1. CASE status[f] = "RUNNING"
    <3>1. strayed' = (strayed \/ f \notin Gen!Executed)
      BY <2>1, Zenon DEF Await, Gen!yield, Gen!yield_impl
    <3>2. QED
      BY <2>1, <3>1, Zenon
  <2>2. CASE status[f] # "RUNNING"
    <3>1. strayed' = strayed
      BY <2>2 DEF Await, generator
    <3>2. QED
      BY <2>2, <3>1, Zenon
  <2>3. QED
    BY <2>1, <2>2
<1>4. FlowInv' /\ OwnOutcome'
  BY <1>1, <1>2, <1>3 DEF Inv, FlowInv, OwnOutcome
<1>5. PICK w \in Waiters :
        /\ w = [fn |-> f, nth |-> n_awaits'[f]]
        /\ Len(waiting'[p]) = Len(waiting[p]) + 1 /\ waiting'[p][Len(waiting[p]) + 1] = w
        /\ \A q \in All : /\ q # p => waiting'[q] = waiting[q]
                          /\ Len(waiting[q]) \in Nat
                          /\ \A i \in 1 .. Len(waiting[q]) :
                               /\ i \in 1 .. Len(waiting'[q])
                               /\ waiting'[q][i] = waiting[q][i]
                               /\ waiting[q][i].fn \in Gens
        /\ \A q \in All : \A i \in 1 .. Len(waiting'[q]) :
             \/ q = p /\ i = Len(waiting[p]) + 1 /\ waiting'[q][i] = w
             \/ i \in 1 .. Len(waiting[q]) /\ waiting'[q][i] = waiting[q][i]
  BY <1>1, Registers
<1>6. \A g \in Gens \ {f} : status'[g] = status[g] /\ awaiting'[g] = awaiting[g]
  <2>1. CASE status[f] = "RUNNING"
    BY <1>1, <2>1, GenTypes DEF Await, Gen!yield, Gen!yield_impl, TypeInv
  <2>2. CASE status[f] # "RUNNING"
    BY <2>2 DEF Await, generator
  <2>3. QED
    BY <2>1, <2>2
<1>7. \/ /\ status[f] = "RUNNING" /\ status'[f] = "SUSPENDED"
         /\ awaiting'[f] = [promise |-> p, nth |-> n_awaits'[f]]
      \/ status[f] # "RUNNING" /\ status'[f] = status[f] /\ awaiting'[f] = awaiting[f]
  <2>1. CASE status[f] = "RUNNING"
    BY <1>1, <2>1, GenTypes DEF Await, Gen!yield, Gen!yield_impl, TypeInv
  <2>2. CASE status[f] # "RUNNING"
    BY <2>2 DEF Await, generator
  <2>3. QED
    BY <2>1, <2>2
<1>8. WakeInv'
  <2> SUFFICES ASSUME NEW g \in Gens, status'[g] = "SUSPENDED"
               PROVE  /\ awaiting'[g].promise \in All
                      /\ \E i \in 1 .. Len(waiting'[awaiting'[g].promise]) :
                           waiting'[awaiting'[g].promise][i] = [fn |-> g, nth |-> awaiting'[g].nth]
    BY DEF WakeInv
  <2>1. CASE g = f /\ status[f] = "RUNNING"
    <3>1. awaiting'[g].promise = p /\ awaiting'[g].nth = n_awaits'[f]
      BY <1>7, <2>1
    <3>2. Len(waiting[p]) + 1 \in 1 .. Len(waiting'[p])
      BY <1>5
    <3>3. QED
      BY <1>5, <2>1, <3>1, <3>2
  <2>2. CASE ~(g = f /\ status[f] = "RUNNING")
    <3>1. status[g] = "SUSPENDED" /\ awaiting'[g] = awaiting[g]
      BY <1>6, <1>7, <2>2
    <3> DEFINE q == awaiting[g].promise
    <3>2. q \in All /\ \E i \in 1 .. Len(waiting[q]) :
                          waiting[q][i] = [fn |-> g, nth |-> awaiting[g].nth]
      BY <3>1 DEF Inv, WakeInv
    <3> HIDE DEF q
    <3>3. PICK i \in 1 .. Len(waiting[q]) : waiting[q][i] = [fn |-> g, nth |-> awaiting[g].nth]
      BY <3>2
    <3>4. i \in 1 .. Len(waiting'[q]) /\ waiting'[q][i] = waiting[q][i]
      BY <1>5, <3>2
    <3>5. QED
      BY <3>1, <3>2, <3>3, <3>4 DEF q
  <2>3. QED
    BY <2>1, <2>2
<1>9. AwaitInv'
  <2> SUFFICES ASSUME ~strayed' PROVE ReactionInv' /\ OneInv'
    BY DEF AwaitInv
  <2>1. ReactionInv /\ OneInv /\ ~strayed
    BY <1>3 DEF Inv, AwaitInv
  <2>2. f \notin misused' => status[f] = "RUNNING" /\ f \notin misused
    BY <1>2, <2>1, GenRuns
  <2>3. f \notin misused' =>
          \A q \in All : \A i \in 1 .. Len(waiting[q]) : waiting[q][i].fn # f
    BY <2>1, <2>2 DEF ReactionInv
  <2>4. misused \subseteq misused'
    BY <1>2
  <2>5. w.fn = f /\ w.nth = n_awaits'[f]
    BY <1>5
  <2>6. ReactionInv'
    <3> SUFFICES ASSUME NEW q \in All, NEW i \in 1 .. Len(waiting'[q]),
                        waiting'[q][i].fn \notin misused'
                 PROVE  /\ status'[waiting'[q][i].fn] = "SUSPENDED"
                        /\ awaiting'[waiting'[q][i].fn] = [promise |-> q, nth |-> waiting'[q][i].nth]
      BY DEF ReactionInv
    <3>1. CASE q = p /\ i = Len(waiting[p]) + 1 /\ waiting'[q][i] = w
      BY <1>7, <2>2, <2>5, <3>1
    <3>2. CASE i \in 1 .. Len(waiting[q]) /\ waiting'[q][i] = waiting[q][i]
      <4>1. waiting[q][i].fn \in Gens /\ waiting[q][i].fn # f /\ waiting[q][i].fn \notin misused
        BY <1>5, <2>3, <2>4, <3>2
      <4>2. status[waiting[q][i].fn] = "SUSPENDED"
            /\ awaiting[waiting[q][i].fn] = [promise |-> q, nth |-> waiting[q][i].nth]
        BY <2>1, <3>2, <4>1 DEF ReactionInv
      <4>3. QED
        BY <1>6, <3>2, <4>1, <4>2
    <3>3. QED
      BY <1>5, <3>1, <3>2
  <2>7. OneInv'
    <3> SUFFICES ASSUME NEW q1 \in All, NEW q2 \in All,
                        NEW i1 \in 1 .. Len(waiting'[q1]), NEW i2 \in 1 .. Len(waiting'[q2]),
                        waiting'[q1][i1].fn \notin misused',
                        waiting'[q1][i1].fn = waiting'[q2][i2].fn
                 PROVE  q1 = q2 /\ i1 = i2
      BY DEF OneInv
    <3>1. \/ q1 = p /\ i1 = Len(waiting[p]) + 1 /\ waiting'[q1][i1].fn = f
          \/ /\ i1 \in 1 .. Len(waiting[q1]) /\ waiting'[q1][i1] = waiting[q1][i1]
             /\ waiting[q1][i1].fn # f
      BY <1>5, <2>3, <2>5
    <3>2. \/ q2 = p /\ i2 = Len(waiting[p]) + 1 /\ waiting'[q2][i2].fn = f
          \/ /\ i2 \in 1 .. Len(waiting[q2]) /\ waiting'[q2][i2] = waiting[q2][i2]
             /\ waiting[q2][i2].fn # f
      BY <1>5, <2>3, <2>5
    <3>3. QED
      BY SMTT(30), <2>1, <2>4, <3>1, <3>2 DEF OneInv
  <2>8. QED
    BY <2>6, <2>7
<1>10. QED
  BY <1>4, <1>8, <1>9

(* A reaction that is delivered is the first of its promise; what is left   *)
(* was behind it, or waits for another promise.                             *)
LEMMA Shifts ==
  ASSUME TypeInv, NEW p \in All, waiting[p] # <<>>,
         waiting' = [waiting EXCEPT ![p] = Tail(waiting[p])]
  PROVE  /\ Head(waiting[p]) = waiting[p][1] /\ 1 \in 1 .. Len(waiting[p])
         /\ Head(waiting[p]).fn \in Gens
         /\ \A q \in All : \A i \in 1 .. Len(waiting'[q]) :
              \E j \in 1 .. Len(waiting[q]) :
                /\ j = (IF q = p THEN i + 1 ELSE i) /\ i \in Nat
                /\ waiting'[q][i] = waiting[q][j] /\ waiting[q][j].fn \in Gens
         /\ \A q \in All : \A j \in 1 .. Len(waiting[q]) :
              ~(q = p /\ j = 1) =>
                \E i \in 1 .. Len(waiting'[q]) : waiting'[q][i] = waiting[q][j]
<1> DEFINE n == Len(waiting[p])
<1>1. /\ Head(waiting[p]) = waiting[p][1] /\ 1 \in 1 .. n /\ Head(waiting[p]).fn \in Gens
      /\ Len(Tail(waiting[p])) = n - 1
      /\ \A i \in 1 .. n - 1 : Tail(waiting[p])[i] = waiting[p][i + 1]
      /\ \A q \in All : /\ Len(waiting[q]) \in Nat
                        /\ \A i \in 1 .. Len(waiting[q]) : waiting[q][i].fn \in Gens
  BY HeadFacts, WaiterFacts
<1>2. /\ \A q \in All : q # p => waiting'[q] = waiting[q]
      /\ waiting'[p] = Tail(waiting[p])
  BY DEF TypeInv
<1>3. ASSUME NEW q \in All, NEW i \in 1 .. Len(waiting'[q])
      PROVE  \E j \in 1 .. Len(waiting[q]) :
               /\ j = (IF q = p THEN i + 1 ELSE i) /\ i \in Nat
               /\ waiting'[q][i] = waiting[q][j] /\ waiting[q][j].fn \in Gens
  <2>1. CASE q = p
    <3>0. Len(waiting'[q]) = n - 1 /\ n \in Nat
      BY <1>1, <1>2, <2>1
    <3> HIDE DEF n
    <3>1. i \in 1 .. n - 1 /\ i + 1 \in 1 .. n /\ i \in Nat
      BY <3>0
    <3>2. Tail(waiting[p])[i] = waiting[p][i + 1] /\ waiting[p][i + 1].fn \in Gens
      BY <1>1, <3>1 DEF n
    <3>3. waiting'[q][i] = waiting[q][i + 1] /\ waiting[q][i + 1].fn \in Gens
      BY <1>2, <2>1, <3>2
    <3>4. i + 1 \in 1 .. Len(waiting[q])
      BY <2>1, <3>1 DEF n
    <3>5. QED
      BY <2>1, <3>1, <3>3, <3>4
  <2>2. CASE q # p
    BY <1>1, <1>2, <2>2
  <2>3. QED
    BY <2>1, <2>2
<1>4. ASSUME NEW q \in All, NEW j \in 1 .. Len(waiting[q]), ~(q = p /\ j = 1)
      PROVE  \E i \in 1 .. Len(waiting'[q]) : waiting'[q][i] = waiting[q][j]
  <2>1. CASE q = p
    <3>1. j - 1 \in 1 .. n - 1 /\ j - 1 + 1 = j
      BY <1>1, <1>4, <2>1
    <3>2. j - 1 \in 1 .. Len(waiting'[p]) /\ waiting'[p][j - 1] = waiting[p][j]
      BY <1>1, <1>2, <3>1
    <3>3. QED
      BY <2>1, <3>2
  <2>2. CASE q # p
    BY <1>2, <2>2
  <2>3. QED
    BY <2>1, <2>2
<1>5. QED
  BY <1>1, <1>3, <1>4

(* A reaction resumes the await it belongs to, and no other one of the      *)
(* function is left, unless that one's await was misused.                   *)
LEMMA DeliverKeeps ==
  ASSUME Inv, GP!FlowInv, NEW p \in All, Deliver(p)
  PROVE  FlowInv' /\ WakeInv' /\ OwnOutcome' /\ AwaitInv'
<1> DEFINE w == Head(waiting[p])
           f == w.fn
<1>1. /\ TypeInv /\ waiting[p] # <<>> /\ misused' = misused
      /\ waiting' = [waiting EXCEPT ![p] = Tail(waiting[p])]
  BY DEF Deliver, Due, Inv
<1>2. /\ w = waiting[p][1] /\ 1 \in 1 .. Len(waiting[p]) /\ f \in Gens
      /\ \A q \in All : \A i \in 1 .. Len(waiting'[q]) :
           \E j \in 1 .. Len(waiting[q]) :
             /\ j = (IF q = p THEN i + 1 ELSE i) /\ i \in Nat
             /\ waiting'[q][i] = waiting[q][j] /\ waiting[q][j].fn \in Gens
      /\ \A q \in All : \A j \in 1 .. Len(waiting[q]) :
           ~(q = p /\ j = 1) =>
             \E i \in 1 .. Len(waiting'[q]) : waiting'[q][i] = waiting[q][j]
  BY <1>1, Shifts
<1>3. strayed' = strayed /\ state' = state /\ \A g \in Gens : from'[g] = Gen!NoFrom
  <2>1. \A g \in Gens : from[g] = Gen!NoFrom
    BY DEF Inv, FlowInv
  <2>2. CASE status[f] = "SUSPENDED"
    <3>1. Resume(f, outcome[p])
      BY <2>2 DEF Deliver
    <3>2. CASE Gen!next(f)
      BY <2>1, <3>2 DEF Gen!next, Gen!history
    <3>3. CASE Gen!_throw(f)
      BY <2>1, <3>3 DEF Gen!_throw, Gen!Abandon
    <3>4. QED
      BY <3>1, <3>2, <3>3 DEF Resume
  <2>3. CASE status[f] # "SUSPENDED"
    BY <2>1, <2>3 DEF Deliver, generator
  <2>4. QED
    BY <2>2, <2>3
<1>4. FlowInv'
  BY <1>1, <1>3 DEF Inv, FlowInv
<1>5. /\ \A g \in Gens \ {f} : status'[g] = status[g] /\ awaiting'[g] = awaiting[g]
      /\ status'[f] # "SUSPENDED"
  <2>1. CASE status[f] = "SUSPENDED"
    <3>1. /\ status' = [status EXCEPT ![f] = "RUNNING"]
          /\ awaiting' = [awaiting EXCEPT ![f] = NoAwait]
      BY <2>1 DEF Deliver, Resume, Resumes, Gen!next, Gen!_throw, Gen!run_generator
    <3> HIDE DEF f
    <3>2. QED
      BY <1>1, <1>2, <3>1, GenTypes DEF TypeInv
  <2>2. CASE status[f] # "SUSPENDED"
    BY <2>2 DEF Deliver, generator
  <2>3. QED
    BY <2>1, <2>2
<1>6. OwnOutcome'
  <2>1. CASE status[f] = "SUSPENDED" /\ ~strayed
    <3>1. crossed' = IF awaiting[f] = [promise |-> p, nth |-> w.nth]
                     THEN crossed ELSE crossed \cup {f}
      BY <2>1 DEF Deliver, Resumes
    <3>2. f \notin misused => awaiting[f] = [promise |-> p, nth |-> w.nth]
      <4>1. ReactionInv
        BY <2>1 DEF Inv, AwaitInv
      <4> HIDE DEF w
      <4>2. waiting[p][1] = w /\ 1 \in 1 .. Len(waiting[p])
        BY <1>2
      <4>3. QED
        BY <4>1, <4>2 DEF ReactionInv
    <3>3. QED
      BY <1>1, <2>1, <3>1, <3>2 DEF Inv, OwnOutcome
  <2>2. CASE status[f] # "SUSPENDED"
    <3>1. crossed' = crossed
      BY <2>2 DEF Deliver
    <3>2. QED
      BY <1>1, <1>3, <3>1 DEF Inv, OwnOutcome
  <2>3. QED
    BY <1>3, <2>1, <2>2 DEF OwnOutcome
<1> HIDE DEF f, w
<1>7. WakeInv'
  <2> SUFFICES ASSUME NEW g \in Gens, status'[g] = "SUSPENDED"
               PROVE  /\ awaiting'[g].promise \in All
                      /\ \E i \in 1 .. Len(waiting'[awaiting'[g].promise]) :
                           waiting'[awaiting'[g].promise][i] = [fn |-> g, nth |-> awaiting'[g].nth]
    BY DEF WakeInv
  <2>1. g # f /\ status[g] = "SUSPENDED" /\ awaiting'[g] = awaiting[g]
    BY <1>5
  <2> DEFINE q == awaiting[g].promise
  <2>2. q \in All /\ \E j \in 1 .. Len(waiting[q]) :
                        waiting[q][j] = [fn |-> g, nth |-> awaiting[g].nth]
    BY <2>1 DEF Inv, WakeInv
  <2> HIDE DEF q
  <2>3. PICK j \in 1 .. Len(waiting[q]) : waiting[q][j] = [fn |-> g, nth |-> awaiting[g].nth]
    BY <2>2
  <2>4. ~(q = p /\ j = 1)
    BY <1>2, <2>1, <2>3 DEF f
  <2>5. PICK i \in 1 .. Len(waiting'[q]) : waiting'[q][i] = waiting[q][j]
    BY <1>2, <2>2, <2>4
  <2>6. QED
    BY <2>1, <2>2, <2>3, <2>5 DEF q
<1>8. AwaitInv'
  <2> SUFFICES ASSUME ~strayed PROVE ReactionInv' /\ OneInv'
    BY <1>3 DEF AwaitInv
  <2>1. ReactionInv /\ OneInv
    BY DEF Inv, AwaitInv
  <2>2. \A q \in All : \A j \in 1 .. Len(waiting[q]) :
          waiting[q][j].fn = f /\ f \notin misused => q = p /\ j = 1
    <3>1. 1 \in 1 .. Len(waiting[p]) /\ waiting[p][1].fn = f
      BY <1>2 DEF f
    <3>2. QED
      BY <2>1, <3>1 DEF OneInv
  <2>3. ReactionInv'
    <3> SUFFICES ASSUME NEW q \in All, NEW i \in 1 .. Len(waiting'[q]),
                        waiting'[q][i].fn \notin misused
                 PROVE  /\ status'[waiting'[q][i].fn] = "SUSPENDED"
                        /\ awaiting'[waiting'[q][i].fn] = [promise |-> q, nth |-> waiting'[q][i].nth]
      BY <1>1 DEF ReactionInv
    <3>1. PICK j \in 1 .. Len(waiting[q]) :
            /\ j = (IF q = p THEN i + 1 ELSE i) /\ i \in Nat
            /\ waiting'[q][i] = waiting[q][j] /\ waiting[q][j].fn \in Gens
      BY SMTT(30), <1>2
    <3>2. ~(q = p /\ j = 1)
      <4>1. i # 0
        OBVIOUS
      <4>2. QED
        BY <3>1, <4>1
    <3>3. waiting[q][j].fn # f
      BY <2>2, <3>1, <3>2
    <3>4. status[waiting[q][j].fn] = "SUSPENDED"
          /\ awaiting[waiting[q][j].fn] = [promise |-> q, nth |-> waiting[q][j].nth]
      BY <2>1, <3>1 DEF ReactionInv
    <3>5. QED
      BY <1>5, <3>1, <3>3, <3>4
  <2>4. OneInv'
    <3> SUFFICES ASSUME NEW q1 \in All, NEW q2 \in All,
                        NEW i1 \in 1 .. Len(waiting'[q1]), NEW i2 \in 1 .. Len(waiting'[q2]),
                        waiting'[q1][i1].fn \notin misused',
                        waiting'[q1][i1].fn = waiting'[q2][i2].fn
                 PROVE  q1 = q2 /\ i1 = i2
      BY Zenon DEF OneInv
    <3>1. PICK j1 \in 1 .. Len(waiting[q1]) :
            /\ j1 = (IF q1 = p THEN i1 + 1 ELSE i1) /\ i1 \in Nat
            /\ waiting'[q1][i1] = waiting[q1][j1] /\ waiting[q1][j1].fn \in Gens
      BY SMTT(30), <1>2
    <3>2. PICK j2 \in 1 .. Len(waiting[q2]) :
            /\ j2 = (IF q2 = p THEN i2 + 1 ELSE i2) /\ i2 \in Nat
            /\ waiting'[q2][i2] = waiting[q2][j2] /\ waiting[q2][j2].fn \in Gens
      BY SMTT(30), <1>2
    <3>3. q1 = q2 /\ j1 = j2
      BY SMTT(30), <1>1, <2>1, <3>1, <3>2 DEF OneInv
    <3>4. QED
      BY <3>1, <3>2, <3>3
  <2>5. QED
    BY <2>3, <2>4
<1>9. QED
  BY <1>4, <1>6, <1>7, <1>8

-----------------------------------------------------------------------------
LEMMA InitIsInv == Init => Inv
<1> SUFFICES ASSUME Init PROVE Inv
  OBVIOUS
<1>1. /\ \A p \in All : Len(waiting[p]) = 0
      /\ \A f \in Gens : status[f] = "PENDING" /\ from[f] = Gen!NoFrom
      /\ ~strayed /\ misused = {} /\ crossed = {} /\ state = "ok"
  BY DEF Init, Gen!Init
<1>2. \A p \in All : \A i \in 1 .. Len(waiting[p]) : FALSE
  BY <1>1
<1>3. FlowInv /\ OwnOutcome
  BY <1>1 DEF FlowInv, OwnOutcome
<1>4. ReactionInv /\ WakeInv /\ OneInv
  BY <1>1, <1>2 DEF ReactionInv, WakeInv, OneInv
<1>5. QED
  BY <1>3, <1>4, InitType DEF Inv, AwaitInv

LEMMA NextIsInv == Inv /\ GP!FlowInv /\ [Next]_vars => Inv'
<1> SUFFICES ASSUME Inv, GP!FlowInv, [Next]_vars PROVE Inv'
  OBVIOUS
<1>1. FlowInv /\ WakeInv /\ OwnOutcome /\ AwaitInv /\ TypeInv'
  BY NextType DEF Inv
<1>2. ASSUME UNCHANGED <<generator, waiting, awaiting, history>>
      PROVE  FlowInv' /\ WakeInv' /\ OwnOutcome' /\ AwaitInv'
  BY <1>1, <1>2, QuietKeeps DEF generator, history
<1>3. ASSUME NEW p \in Promises, NEW how \in Settled, Settle(p, how)
      PROVE  FlowInv' /\ WakeInv' /\ OwnOutcome' /\ AwaitInv'
  BY <1>2, <1>3 DEF Settle
<1>4. ASSUME NEW f \in Gens, Adopt(f) PROVE FlowInv' /\ WakeInv' /\ OwnOutcome' /\ AwaitInv'
  BY <1>2, <1>4 DEF Adopt
<1>5. CASE UNCHANGED vars
  BY <1>1, <1>2, <1>5 DEF vars, Inv
<1>6. QED
  BY <1>1, <1>3, <1>4, <1>5, CallKeeps, AwaitKeeps, EndKeeps, DeliverKeeps DEF Next, Inv

LEMMA Inductive == Spec => []Inv
<1>1. QED
  BY InitIsInv, NextIsInv, GeneratorsFlow, PTL DEF Spec

(* An await resumes with the outcome of its own promise, if the await of    *)
(* its function is only called while that is being executed, however        *)
(* functions call and await each other, and also when callbacks that        *)
(* refused awaits of other functions left behind are delivered in between   *)
(* (async_func.h:18-26); until a RUNNING function is suspended from outside. *)
THEOREM OwnOutcomes == Spec => []OwnOutcome
<1>1. Inv => OwnOutcome
  BY DEF Inv
<1>2. QED
  BY <1>1, Inductive, PTL

(* A suspended function always has the reaction of the await it is          *)
(* suspended in (async_func.h:18-26); and no other, unless its own await    *)
(* was misused.                                                             *)
THEOREM NoneLost == Spec => []NoLostWake
<1>1. Inv /\ GP!FlowInv => NoLostWake
  <2> SUFFICES ASSUME Inv, GP!FlowInv, NEW f \in Gens
               PROVE  /\ status[f] = "SUSPENDED" => awaiting[f] \in Reactions(f)
                      /\ ~strayed /\ f \notin misused =>
                           \A r \in Reactions(f) : status[f] = "SUSPENDED" /\ r = awaiting[f]
    BY DEF NoLostWake
  <2>1. TypeInv /\ WakeInv /\ (~strayed => ReactionInv)
    BY DEF Inv, AwaitInv
  <2>2. \A p \in All : DOMAIN waiting[p] = 1 .. Len(waiting[p])
    BY <2>1, WaiterFacts, LenProperties
  <2>3. ASSUME NEW r
        PROVE  r \in Reactions(f) <=>
                 \E p \in All : \E i \in 1 .. Len(waiting[p]) :
                   waiting[p][i].fn = f /\ r = [promise |-> p, nth |-> waiting[p][i].nth]
    BY <2>2 DEF Reactions
  <2>4. ASSUME ~strayed, f \notin misused, NEW r \in Reactions(f)
        PROVE  status[f] = "SUSPENDED" /\ r = awaiting[f]
    <3>1. PICK p \in All : \E i \in 1 .. Len(waiting[p]) :
                   waiting[p][i].fn = f /\ r = [promise |-> p, nth |-> waiting[p][i].nth]
      BY <2>3
    <3>2. PICK i \in 1 .. Len(waiting[p]) :
                   waiting[p][i].fn = f /\ r = [promise |-> p, nth |-> waiting[p][i].nth]
      BY <3>1
    <3>3. QED
      BY <2>1, <2>4, <3>2 DEF ReactionInv
  <2>5. ASSUME status[f] = "SUSPENDED" PROVE awaiting[f] \in Reactions(f)
    <3> DEFINE p == awaiting[f].promise
    <3>1. p \in All /\ \E i \in 1 .. Len(waiting[p]) :
                          waiting[p][i] = [fn |-> f, nth |-> awaiting[f].nth]
      BY <2>1, <2>5 DEF WakeInv
    <3>2. awaiting[f] = [promise |-> p, nth |-> awaiting[f].nth]
      BY <2>1 DEF TypeInv, Awaits
    <3> HIDE DEF p
    <3>3. PICK i \in 1 .. Len(waiting[p]) : waiting[p][i] = [fn |-> f, nth |-> awaiting[f].nth]
      BY <3>1
    <3>4. waiting[p][i].fn = f /\ awaiting[f] = [promise |-> p, nth |-> waiting[p][i].nth]
      BY <3>2, <3>3
    <3>5. QED
      BY <2>3, <3>1, <3>4
  <2>6. QED
    BY <2>4, <2>5
<1>2. QED
  BY <1>1, Inductive, GeneratorsFlow, PTL

(* Async functions reach the undefined behaviour of generators only when    *)
(* await is misused, whatever is thrown into them.                          *)
THEOREM AwaitsAreSafe == Spec => []SafeAwait
<1>1. Inv => SafeAwait
  BY DEF Inv, FlowInv, SafeAwait
<1>2. QED
  BY <1>1, Inductive, PTL

=============================================================================
