--------------------------- MODULE PromiseProofs ---------------------------
(***************************************************************************)
(* Theorems about Promise, for every set of promises, values and errors    *)
(* and every bound.                                                        *)
(***************************************************************************)
EXTENDS PromiseInv, TLAPS

Results == Values \cup {Blank} \cup Errors \cup {Nothing}

Entries == Promises \cup {Helper}

(* What resolve_impl, reject_impl, associate_status, then and _catch have   *)
(* in common: settled promises stay as they are, the queue and the wrapper  *)
(* lists only grow at their end, and only settled promises are queued.      *)
CellsGrow ==
  /\ \A q \in Promises : status[q] \in Settled =>
       status'[q] = status[q] /\ result'[q] = result[q]
  /\ Len(pending_callback_queue') >= Len(pending_callback_queue)
  /\ \A i \in 1 .. Len(pending_callback_queue) :
       pending_callback_queue'[i] = pending_callback_queue[i]
  /\ \A i \in Len(pending_callback_queue) + 1 .. Len(pending_callback_queue') :
       pending_callback_queue'[i] # Helper => status'[pending_callback_queue'[i]] \in Settled

WrappersGrow ==
  \A q \in Promises, s \in Settled :
    /\ Len(wrappers'[q][s]) >= Len(wrappers[q][s])
    /\ \A i \in 1 .. Len(wrappers[q][s]) : wrappers'[q][s][i] = wrappers[q][s][i]

CellsType ==
  /\ status' \in [Promises -> Status]
  /\ result' \in [Promises -> Results]
  /\ pending_callback' \in [Promises -> BOOLEAN]
  /\ pending_callback_queue' \in Seq(Entries)

WrappersType == wrappers' \in [Promises -> [Settled -> Seq(Wrapper)]]

(* What Append does. *)
LEMMA AppendFacts ==
  ASSUME NEW S, NEW seq \in Seq(S), NEW x \in S
  PROVE  /\ Append(seq, x) \in Seq(S)
         /\ Len(Append(seq, x)) = Len(seq) + 1
         /\ \A i \in 1 .. Len(seq) : Append(seq, x)[i] = seq[i]
         /\ Append(seq, x)[Len(seq) + 1] = x
OBVIOUS

(* The step changes the settlement and the wrappers of promises in S only. *)
Touches(S) ==
  \A d \in Promises \ S : status'[d] = status[d] /\ wrappers'[d] = wrappers[d]

(* Settling a promise, with at most a helper's promise queued before it. *)
LEMMA SettleGrows ==
  ASSUME TypeOK,
         NEW p \in Promises, NEW s \in Settled, NEW x \in Results,
         NEW base \in {pending_callback_queue, Append(pending_callback_queue, Helper)},
         Settle(base, p, s, x)
  PROVE  /\ CellsType /\ CellsGrow
         /\ \A d \in Promises \ {p} : status'[d] = status[d]
<1> DEFINE q == pending_callback_queue
<1>1. /\ q \in Seq(Entries) /\ Len(q) \in Nat
      /\ status \in [Promises -> Status]
      /\ result \in [Promises -> Results]
      /\ pending_callback \in [Promises -> BOOLEAN]
  BY DEF TypeOK, Entries, Results
<1>2. /\ base \in Seq(Entries)
      /\ Len(base) \in {Len(q), Len(q) + 1}
      /\ \A i \in 1 .. Len(q) : base[i] = q[i]
      /\ \A i \in Len(q) + 1 .. Len(base) : base[i] = Helper
  <2>1. CASE base = q
    BY <1>1, <2>1
  <2>2. CASE base = Append(q, Helper)
    <3>1. Helper \in Entries
      BY DEF Entries
    <3>2. QED
      BY <1>1, <2>2, <3>1, AppendFacts
  <2>3. QED
    BY <2>1, <2>2
<1> HIDE DEF q
<1>3. CASE status[p] # "PENDING"
  <2>1. q' = base /\ UNCHANGED <<status, result, pending_callback>>
    BY <1>3 DEF Settle, q
  <2>2. QED
    BY <1>1, <1>2, <2>1 DEF CellsType, CellsGrow, q
<1>4. CASE status[p] = "PENDING"
  <2>1. /\ status' = [status EXCEPT ![p] = s]
        /\ result' = [result EXCEPT ![p] = x]
        /\ pending_callback' = [pending_callback EXCEPT ![p] = TRUE]
        /\ q' = Append(base, p)
    BY <1>4 DEF Settle, q
  <2>2. p \in Entries /\ s \in Status
    BY DEF Entries, Status, Settled
  <2>3. /\ q' \in Seq(Entries)
        /\ Len(q') = Len(base) + 1
        /\ \A i \in 1 .. Len(base) : q'[i] = base[i]
        /\ q'[Len(base) + 1] = p
    BY <1>2, <2>1, <2>2, AppendFacts
  <2>4. CellsType
    BY <1>1, <2>1, <2>2, <2>3 DEF CellsType, q
  <2>5. \A r \in Promises : status[r] \in Settled =>
          status'[r] = status[r] /\ result'[r] = result[r]
    BY <1>1, <1>4, <2>1 DEF Settled
  <2>6. /\ Len(q') >= Len(q)
        /\ \A i \in 1 .. Len(q) : q'[i] = q[i]
        /\ \A i \in Len(q) + 1 .. Len(q') : q'[i] \in {Helper, p}
    BY <1>1, <1>2, <2>3
  <2>7. status'[p] \in Settled
    BY <1>1, <2>1
  <2>8. \A d \in Promises \ {p} : status'[d] = status[d]
    BY <1>1, <2>1
  <2>9. QED
    BY <2>4, <2>5, <2>6, <2>7, <2>8 DEF CellsGrow, q
<1>5. QED
  BY <1>3, <1>4

(* The wrappers the step adds to the lists are in W. *)
NewWrappers(W) ==
  \A q \in Promises, s \in Settled :
    \A i \in Len(wrappers[q][s]) + 1 .. Len(wrappers'[q][s]) : wrappers'[q][s][i] \in W

(* A step that leaves the lists alone satisfies every bound on what it appends. *)
LEMMA SameWrappers ==
  ASSUME TypeOK, UNCHANGED wrappers, NEW W
  PROVE  WrappersType /\ WrappersGrow /\ NewWrappers(W)
<1>1. \A q \in Promises, s \in Settled : Len(wrappers[q][s]) \in Nat
  BY DEF TypeOK
<1>2. QED
  BY <1>1 DEF TypeOK, WrappersType, WrappersGrow, NewWrappers

(* What is appended from a set is appended from any larger one. *)
LEMMA MoreWrappers ==
  ASSUME NEW w, NEW W, w \in W, NewWrappers({w})
  PROVE  NewWrappers(W)
BY DEF NewWrappers

(* associate_status stores at most adoptions of the outer promise. *)
LEMMA AssociateGrows ==
  ASSUME TypeOK,
         NEW outer \in Promises, NEW inner \in Promises,
         associate_status(outer, inner)
  PROVE  /\ CellsType /\ CellsGrow /\ WrappersType /\ WrappersGrow
         /\ Touches({outer, inner})
         /\ NewWrappers({Adoption(outer)})
<1>1. CASE status[inner] \in Settled
  <2>1. /\ Settle(pending_callback_queue, outer, status[inner], result[inner])
        /\ UNCHANGED wrappers
    BY <1>1 DEF associate_status, resolve_impl, reject_impl, Settled
  <2>2. /\ CellsType /\ CellsGrow
        /\ \A d \in Promises \ {outer} : status'[d] = status[d]
    BY <1>1, <2>1, SettleGrows DEF TypeOK, Results
  <2>3. QED
    BY <2>1, <2>2, SameWrappers DEF Touches
<1>2. CASE status[inner] = "PENDING"
  <2>1. /\ wrappers' = [wrappers EXCEPT ![inner] =
                           [s \in Settled |-> Append(@[s], Adoption(outer))]]
        /\ UNCHANGED cells
    BY <1>2 DEF associate_status
  <2>2. CellsType /\ CellsGrow
    BY <2>1 DEF cells, CellsType, CellsGrow, TypeOK, Results, Entries
  <2>3. Adoption(outer) \in Wrapper
    BY DEF Adoption, Wrapper
  <2>4. wrappers \in [Promises -> [Settled -> Seq(Wrapper)]]
    BY DEF TypeOK
  <2>5. WrappersType /\ WrappersGrow
    BY <2>1, <2>3, <2>4 DEF WrappersType, WrappersGrow
  <2>6. NewWrappers({Adoption(outer)})
    <3>1. ASSUME NEW q \in Promises, NEW s \in Settled,
                 NEW i \in Len(wrappers[q][s]) + 1 .. Len(wrappers'[q][s])
          PROVE  wrappers'[q][s][i] = Adoption(outer)
      <4>1. wrappers[q][s] \in Seq(Wrapper)
        BY <2>4
      <4>2. CASE q = inner
        <5>1. wrappers'[q][s] = Append(wrappers[q][s], Adoption(outer))
          BY <2>1, <2>4, <4>2
        <5>2. QED
          BY <2>3, <4>1, <5>1, AppendFacts
      <4>3. CASE q # inner
        BY <2>1, <2>4, <4>1, <4>3
      <4>4. QED
        BY <4>2, <4>3
    <3>2. QED
      BY <3>1 DEF NewWrappers
  <2>7. Touches({outer, inner})
    BY <2>1, <2>4 DEF Touches, cells
  <2>8. QED
    BY <2>2, <2>5, <2>6, <2>7
<1>3. QED
  BY <1>1, <1>2 DEF TypeOK, Status

(* then and _catch store at most the wrapper of their callback. *)
LEMMA ReactGrows ==
  ASSUME TypeOK,
         NEW p \in Promises, NEW d \in Promises, NEW s \in Settled, NEW w \in Wrapper,
         React(p, d, s, w)
  PROVE  /\ CellsType /\ CellsGrow /\ WrappersType /\ WrappersGrow
         /\ Touches({p})
         /\ NewWrappers({w})
<1>1. /\ pending_callback_queue \in Seq(Entries)
      /\ wrappers \in [Promises -> [Settled -> Seq(Wrapper)]]
      /\ status \in [Promises -> Status]
      /\ result \in [Promises -> Results]
      /\ pending_callback \in [Promises -> BOOLEAN]
  BY DEF TypeOK, Entries, Results
<1>2. UNCHANGED <<status, result>>
  BY DEF React
<1>3. /\ pending_callback' \in [Promises -> BOOLEAN]
      /\ \/ UNCHANGED pending_callback_queue
         \/ /\ status[p] \in Settled
            /\ pending_callback_queue' = Append(pending_callback_queue, p)
  BY <1>1 DEF React
<1>4. CellsType /\ CellsGrow
  <2>1. CASE UNCHANGED pending_callback_queue
    BY <1>1, <1>2, <1>3, <2>1 DEF CellsType, CellsGrow
  <2>2. CASE /\ status[p] \in Settled
             /\ pending_callback_queue' = Append(pending_callback_queue, p)
    <3>1. p \in Entries
      BY DEF Entries
    <3>2. /\ pending_callback_queue' \in Seq(Entries)
          /\ Len(pending_callback_queue') = Len(pending_callback_queue) + 1
          /\ \A i \in 1 .. Len(pending_callback_queue) :
               pending_callback_queue'[i] = pending_callback_queue[i]
          /\ pending_callback_queue'[Len(pending_callback_queue) + 1] = p
      BY <1>1, <2>2, <3>1, AppendFacts
    <3>3. QED
      BY <1>1, <1>2, <1>3, <2>2, <3>2 DEF CellsType, CellsGrow
  <2>3. QED
    BY <1>3, <2>1, <2>2
<1>5. CASE UNCHANGED wrappers
  BY <1>2, <1>4, <1>5, SameWrappers DEF Touches
<1>6. CASE wrappers' = [wrappers EXCEPT ![p][s] = Append(@, w)]
  <2>1. WrappersType /\ WrappersGrow
    BY <1>1, <1>6 DEF WrappersType, WrappersGrow
  <2>2. ASSUME NEW q \in Promises, NEW t \in Settled,
               NEW i \in Len(wrappers[q][t]) + 1 .. Len(wrappers'[q][t])
        PROVE  wrappers'[q][t][i] = w
    <3>1. wrappers[q][t] \in Seq(Wrapper)
      BY <1>1
    <3>2. CASE q = p /\ t = s
      <4>1. wrappers'[q][t] = Append(wrappers[q][t], w)
        BY <1>1, <1>6, <3>2
      <4>2. QED
        BY <3>1, <4>1, AppendFacts
    <3>3. CASE ~(q = p /\ t = s)
      <4>1. wrappers'[q][t] = wrappers[q][t]
        BY <1>1, <1>6, <3>3
      <4>2. QED
        BY <3>1, <4>1
    <3>4. QED
      BY <3>2, <3>3
  <2>3. QED
    BY <1>1, <1>2, <1>4, <1>6, <2>1, <2>2 DEF Touches, NewWrappers
<1>7. QED
  BY <1>5, <1>6 DEF React

-----------------------------------------------------------------------------
(* The first layer of the invariant: types, cursors, and what exists.       *)
TInv == TypeOK /\ LoopInv /\ FreshInv /\ OuterInv

(* A step that only adds to the lists keeps call_back where it is.          *)
GrowStep ==
  /\ CellsType /\ CellsGrow /\ WrappersType /\ WrappersGrow
  /\ created \subseteq created'
  /\ Touches(created')
  /\ \A d \in Promises \ created' :
       reaction'[d] = reaction[d] /\ origin'[d] = origin[d] /\ runs'[d] = runs[d]
  /\ NewWrappers([adopt : BOOLEAN, outer : created', accepts : SUBSET Errors])
  /\ cursor' = cursor

(* The list being walked only gets longer under an API call: the cursors stay valid. *)
LEMMA ActiveGrows ==
  ASSUME TypeOK, LoopInv, Calling, CellsGrow, WrappersGrow, cursor' = cursor
  PROVE  /\ Current \in Promises /\ status[Current] \in Settled
         /\ Current' = Current
         /\ status'[Current] = status[Current]
         /\ Len(Active) \in Nat /\ Len(Active') >= Len(Active)
         /\ \A i \in 1 .. Len(Active) : Active[i] \in Wrapper /\ Active'[i] = Active[i]
<1>1. /\ cursor \in 1 .. Len(pending_callback_queue)
      /\ Current # Helper /\ status[Current] \in Settled
  BY DEF LoopInv, Current
<1>2. Current \in Promises
  BY <1>1 DEF TypeOK, Current
<1>3. Current' = Current
  BY <1>1 DEF CellsGrow, Current
<1>4. status'[Current] = status[Current]
  BY <1>1, <1>2 DEF CellsGrow
<1>5. Active \in Seq(Wrapper)
  BY <1>1, <1>2 DEF TypeOK, Active
<1>6. Active' = wrappers'[Current][status[Current]]
  BY <1>3, <1>4 DEF Active
<1>7. QED
  BY <1>1, <1>2, <1>3, <1>4, <1>5, <1>6 DEF WrappersGrow, Active

(* The list call_back walks is one of the current promise's wrapper lists. *)
LEMMA ActiveType ==
  ASSUME TypeOK, LoopInv, Calling
  PROVE  /\ Current \in Promises /\ status[Current] \in Settled
         /\ Active \in Seq(Wrapper) /\ Len(Active) \in Nat
         /\ wcursor \in 1 .. Len(Active) + 1
         /\ \A i \in 1 .. Len(Active) : Active[i] \in Wrapper
         /\ OuterInv => \A i \in 1 .. Len(Active) : Active[i].outer \in created
<1>1. /\ cursor \in 1 .. Len(pending_callback_queue)
      /\ Current # Helper /\ status[Current] \in Settled
      /\ wcursor \in 1 .. Len(Active) + 1
  BY DEF LoopInv, Current
<1>2. Current \in Promises
  BY <1>1 DEF TypeOK, Current
<1>3. Active \in Seq(Wrapper)
  BY <1>1, <1>2 DEF TypeOK, Active
<1>4. OuterInv => \A i \in 1 .. Len(Active) : Active[i].outer \in created
  BY <1>1, <1>2 DEF OuterInv, Active
<1>5. QED
  BY <1>1, <1>2, <1>3, <1>4

(* The moves of call_back that go with such a step: none, or to the next    *)
(* wrapper.                                                                 *)
Advance ==
  \/ pc' = pc /\ wcursor' = wcursor
  \/ /\ Calling /\ wcursor <= Len(Active)
     /\ pc' = "calling" /\ wcursor' = wcursor + 1

(* The inductive invariant's cursor part survives every step that only appends. *)
LEMMA GrowKeeps ==
  ASSUME TInv, GrowStep, Advance
  PROVE  LoopInv' /\ FreshInv' /\ OuterInv'
<1>1. LoopInv'
  <2>1. \A i \in 1 .. Len(pending_callback_queue') :
          pending_callback_queue'[i] # Helper =>
            status'[pending_callback_queue'[i]] \in Settled
    <3>1. SUFFICES ASSUME NEW i \in 1 .. Len(pending_callback_queue'),
                          pending_callback_queue'[i] # Helper
                   PROVE  status'[pending_callback_queue'[i]] \in Settled
      OBVIOUS
    <3>2. pending_callback_queue \in Seq(Entries) /\ pending_callback_queue' \in Seq(Entries)
      BY DEF TInv, TypeOK, GrowStep, CellsType, Entries
    <3>3. CASE i <= Len(pending_callback_queue)
      <4>1. /\ pending_callback_queue'[i] = pending_callback_queue[i]
            /\ pending_callback_queue[i] \in Promises
            /\ status[pending_callback_queue[i]] \in Settled
        BY <3>1, <3>2, <3>3 DEF TInv, LoopInv, GrowStep, CellsGrow, Entries
      <4>2. QED
        BY <4>1 DEF GrowStep, CellsGrow
    <3>4. CASE i > Len(pending_callback_queue)
      <4>1. i \in Len(pending_callback_queue) + 1 .. Len(pending_callback_queue')
        BY <3>2, <3>4
      <4>2. QED
        BY <3>1, <4>1 DEF GrowStep, CellsGrow
    <3>5. QED
      BY <3>2, <3>3, <3>4
  <2>2. Len(pending_callback_queue') \in Nat /\ Len(pending_callback_queue) \in Nat
        /\ Len(pending_callback_queue') >= Len(pending_callback_queue)
        /\ cursor \in Nat /\ wcursor \in Nat /\ cursor' = cursor
    BY DEF TInv, TypeOK, GrowStep, CellsType, CellsGrow
  <2>3. CASE ~Calling
    <3>1. pc' = pc /\ wcursor' = wcursor
      BY <2>3 DEF Advance
    <3>2. QED
      BY <2>1, <2>2, <2>3, <3>1 DEF LoopInv, TInv, Calling, Outside
  <2>4. CASE Calling
    <3>1. /\ Current' = Current
          /\ Len(Active) \in Nat /\ Len(Active') >= Len(Active)
          /\ \A i \in 1 .. Len(Active) : Active'[i] = Active[i]
      BY <2>4, ActiveGrows DEF TInv, GrowStep
    <3>2. Len(Active') \in Nat
      <4>1. Current \in Promises /\ status[Current] \in Settled
            /\ status'[Current] = status[Current]
        BY <2>4, ActiveGrows DEF TInv, GrowStep
      <4>2. QED
        BY <3>1, <4>1 DEF GrowStep, WrappersType, Active
    <3>3. /\ cursor \in 1 .. Len(pending_callback_queue)
          /\ Current # Helper
          /\ wcursor \in 1 .. Len(Active) + 1
          /\ pc = "user" => wcursor <= Len(Active) /\ ~Active[wcursor].adopt
      BY <2>4 DEF TInv, LoopInv
    <3>4. /\ cursor' \in 1 .. Len(pending_callback_queue')
          /\ Current' # Helper
          /\ wcursor' \in 1 .. Len(Active') + 1
      BY <2>2, <3>1, <3>2, <3>3 DEF Advance
    <3>5. pc' = "user" => wcursor' <= Len(Active') /\ ~Active'[wcursor'].adopt
      BY <2>2, <3>1, <3>2, <3>3 DEF Advance
    <3>6. QED
      BY <2>1, <2>2, <3>4, <3>5 DEF LoopInv
  <2>5. QED
    BY <2>3, <2>4
<1>2. FreshInv'
  BY DEF TInv, FreshInv, GrowStep, Touches
<1>3. OuterInv'
  <2>1. SUFFICES ASSUME NEW p \in Promises, NEW s \in Settled,
                        NEW i \in 1 .. Len(wrappers'[p][s])
                 PROVE  wrappers'[p][s][i].outer \in created'
    BY DEF OuterInv
  <2>2. Len(wrappers[p][s]) \in Nat /\ Len(wrappers'[p][s]) \in Nat
    BY DEF TInv, TypeOK, GrowStep, WrappersType
  <2>3. CASE i <= Len(wrappers[p][s])
    BY <2>2, <2>3 DEF TInv, OuterInv, GrowStep, WrappersGrow
  <2>4. CASE i > Len(wrappers[p][s])
    <3>1. wrappers'[p][s][i] \in [adopt : BOOLEAN, outer : created', accepts : SUBSET Errors]
      BY <2>2, <2>4 DEF GrowStep, NewWrappers
    <3>2. QED
      BY <3>1
  <2>5. QED
    BY <2>2, <2>3, <2>4
<1>4. QED
  BY <1>1, <1>2, <1>3

(* The history keeps its type. *)
HistoryType ==
  /\ reaction' \in [Promises -> [on : Promises \cup {Nothing}, to : Status, nth : Nat]]
  /\ n_reactions' \in Nat
  /\ origin' \in [Promises -> [how : {"none", "value", "error", "promise"},
                               what : Values \cup {Blank} \cup Errors \cup Promises \cup {Nothing}]]
  /\ runs' \in [Promises -> 0..2]
  /\ escapes' \in [Promises -> Nat]

(* Every API call is such a step. *)
LEMMA NewPromiseGrows ==
  ASSUME TInv, NEW p \in Promises, NewPromise(p)
  PROVE  GrowStep /\ UNCHANGED loop /\ created' \subseteq Promises /\ HistoryType
<1>1. /\ p \in Promises \ created /\ created' = created \cup {p}
      /\ UNCHANGED <<status, result, pending_callback, pending_callback_queue, wrappers>>
      /\ UNCHANGED loop /\ UNCHANGED history
  BY DEF NewPromise, Fresh, cells
<1>2. CellsType /\ CellsGrow
  BY <1>1 DEF TInv, TypeOK, CellsType, CellsGrow, Results, Entries
<1>3. QED
  BY <1>1, <1>2, SameWrappers
     DEF TInv, TypeOK, GrowStep, Touches, HistoryType, loop, history

(* resolved / rejected: at most the new promise is settled and queued. *)
LEMMA MakeSettledGrows ==
  ASSUME TInv, NEW p \in Promises, NEW s \in Settled,
         NEW x \in Values \cup {Blank} \cup Errors, MakeSettled(p, s, x)
  PROVE  GrowStep /\ UNCHANGED loop /\ created' \subseteq Promises /\ HistoryType
<1>1. /\ p \in Promises \ created /\ created' = created \cup {p}
      /\ UNCHANGED wrappers /\ UNCHANGED loop /\ UNCHANGED history
  BY DEF MakeSettled, Fresh
<1>2. x \in Results
  BY DEF Results
<1>3. CellsType /\ CellsGrow /\ \A d \in Promises \ {p} : status'[d] = status[d]
  <2>1. CASE p \in VoidPromises
    <3>1. Settle(pending_callback_queue, p, s, x)
      BY <2>1 DEF MakeSettled
    <3>2. QED
      BY <1>2, <3>1, SettleGrows DEF TInv
  <2>2. CASE p \notin VoidPromises
    <3>1. /\ status' = [status EXCEPT ![p] = s]
          /\ result' = [result EXCEPT ![p] = x]
          /\ UNCHANGED <<pending_callback, pending_callback_queue>>
      BY <2>2 DEF MakeSettled
    <3>2. status[p] = "PENDING"
      BY <1>1 DEF TInv, FreshInv
    <3>3. s \in Status
      BY DEF Status
    <3>4. QED
      BY <1>2, <3>1, <3>2, <3>3
         DEF TInv, TypeOK, CellsType, CellsGrow, Results, Entries, Settled
  <2>3. QED
    BY <2>1, <2>2
<1>4. QED
  BY <1>1, <1>3, SameWrappers
     DEF TInv, TypeOK, GrowStep, Touches, HistoryType, loop, history

(* PromiseCtx::resolve(value) and reject settle one existing promise. *)
LEMMA SettleByCtxGrows ==
  ASSUME TInv, NEW p \in Promises, NEW s \in Settled,
         NEW x \in Values \cup {Blank} \cup Errors,
         Settle(pending_callback_queue, p, s, x), HasCtx(p),
         UNCHANGED <<created, wrappers, loop, history>>
  PROVE  GrowStep /\ UNCHANGED loop /\ created' \subseteq Promises /\ HistoryType
<1>1. /\ CellsType /\ CellsGrow
      /\ \A d \in Promises \ {p} : status'[d] = status[d]
  <2>1. x \in Results
    BY DEF Results
  <2>2. QED
    BY <2>1, SettleGrows DEF TInv
<1>2. QED
  BY <1>1, SameWrappers
     DEF TInv, TypeOK, GrowStep, Touches, HistoryType, loop, history, HasCtx

(* PromiseCtx::resolve(Promise) settles the outer promise or stores adoptions. *)
LEMMA ResolveWithGrows ==
  ASSUME TInv, NEW p \in Promises, NEW q \in Promises, ResolveWith(p, q)
  PROVE  GrowStep /\ UNCHANGED loop /\ created' \subseteq Promises /\ HistoryType
<1>1. /\ p \in created /\ q \in created /\ associate_status(p, q)
      /\ UNCHANGED created /\ UNCHANGED loop /\ UNCHANGED history
  BY DEF ResolveWith, HasCtx
<1>2. /\ CellsType /\ CellsGrow /\ WrappersType /\ WrappersGrow
      /\ Touches({p, q}) /\ NewWrappers({Adoption(p)})
  BY <1>1, AssociateGrows DEF TInv
<1>3. Touches(created')
  BY <1>1, <1>2 DEF Touches
<1>4. NewWrappers([adopt : BOOLEAN, outer : created', accepts : SUBSET Errors])
  <2>1. Adoption(p) \in [adopt : BOOLEAN, outer : created', accepts : SUBSET Errors]
    BY <1>1 DEF Adoption
  <2>2. QED
    BY <1>2, <2>1, MoreWrappers
<1>5. QED
  BY <1>1, <1>2, <1>3, <1>4
     DEF TInv, TypeOK, GrowStep, HistoryType, loop, history

(* then and _catch append one wrapper and queue at most their promise. *)
LEMMA ReactApiGrows ==
  ASSUME TInv, NEW p \in Promises, NEW d \in Promises, NEW s \in Settled,
         NEW a \in SUBSET Errors, React(p, d, s, Callback(d, a))
  PROVE  GrowStep /\ UNCHANGED loop /\ created' \subseteq Promises /\ HistoryType
<1>1. /\ p \in created /\ d \in Promises \ created /\ created' = created \cup {d}
      /\ n_reactions' = n_reactions + 1
      /\ reaction' = [reaction EXCEPT ![d] = [on |-> p, to |-> s, nth |-> n_reactions']]
      /\ UNCHANGED <<origin, runs, escapes>> /\ UNCHANGED loop
  BY DEF React, Fresh
<1>2. Callback(d, a) \in Wrapper
  BY DEF Callback, Wrapper
<1>3. /\ CellsType /\ CellsGrow /\ WrappersType /\ WrappersGrow
      /\ Touches({p}) /\ NewWrappers({Callback(d, a)})
  BY <1>2, ReactGrows DEF TInv
<1>4. Touches(created')
  BY <1>1, <1>3 DEF Touches
<1>5. NewWrappers([adopt : BOOLEAN, outer : created', accepts : SUBSET Errors])
  <2>1. Callback(d, a) \in [adopt : BOOLEAN, outer : created', accepts : SUBSET Errors]
    BY <1>1 DEF Callback
  <2>2. QED
    BY <1>3, <2>1, MoreWrappers
<1>6. HistoryType
  BY <1>1 DEF TInv, TypeOK, HistoryType, Status
<1>7. QED
  BY <1>1, <1>3, <1>4, <1>5, <1>6 DEF TInv, TypeOK, GrowStep, loop

(* So every API call only appends, whoever makes it and wherever the task stands. *)
LEMMA ApiGrows ==
  ASSUME TInv, ApiCall
  PROVE  GrowStep /\ UNCHANGED loop /\ created' \subseteq Promises /\ HistoryType
<1>1. ASSUME NEW p \in Promises, NEW v \in Values \cup {Blank}, Resolve(p, v)
      PROVE  GrowStep /\ UNCHANGED loop /\ created' \subseteq Promises /\ HistoryType
  BY <1>1, SettleByCtxGrows DEF Resolve, resolve_impl, Settled
<1>2. ASSUME NEW p \in Promises, NEW e \in Errors, Reject(p, e)
      PROVE  GrowStep /\ UNCHANGED loop /\ created' \subseteq Promises /\ HistoryType
  BY <1>2, SettleByCtxGrows DEF Reject, reject_impl, Settled
<1>3. ASSUME NEW p \in Promises, NEW d \in Promises, Then(p, d)
      PROVE  GrowStep /\ UNCHANGED loop /\ created' \subseteq Promises /\ HistoryType
  BY <1>3, ReactApiGrows DEF Then, Settled
<1>4. ASSUME NEW p \in Promises, NEW d \in Promises, NEW a \in AcceptSets, Catch(p, d, a)
      PROVE  GrowStep /\ UNCHANGED loop /\ created' \subseteq Promises /\ HistoryType
  <2>1. a \in SUBSET Errors
    BY PromiseAssumption
  <2>2. QED
    BY <1>4, <2>1, ReactApiGrows DEF Catch, Settled
<1>5. QED
  BY <1>1, <1>2, <1>3, <1>4, NewPromiseGrows, MakeSettledGrows, ResolveWithGrows DEF ApiCall

(* The task's steps. *)
LEMMA RunAdoptionGrows ==
  ASSUME TInv, RunAdoption
  PROVE  GrowStep /\ Advance /\ created' \subseteq Promises /\ HistoryType /\ pc' \in PC /\ wcursor' \in Nat
<1>1. /\ pc = "calling" /\ wcursor <= Len(Active)
      /\ pc' = pc /\ cursor' = cursor /\ wcursor' = wcursor + 1
      /\ UNCHANGED wrappers /\ UNCHANGED created /\ UNCHANGED history
      /\ Settle(pending_callback_queue, Active[wcursor].outer, status[Current], result[Current])
  BY DEF RunAdoption
<1>2. /\ Current \in Promises /\ status[Current] \in Settled
      /\ Active[wcursor] \in Wrapper /\ Active[wcursor].outer \in created
  BY <1>1, ActiveType DEF TInv, Calling
<1>3. Active[wcursor].outer \in Promises /\ result[Current] \in Results
  BY <1>2 DEF TInv, TypeOK, Results
<1>4. /\ CellsType /\ CellsGrow
      /\ \A d \in Promises \ {Active[wcursor].outer} : status'[d] = status[d]
  BY <1>1, <1>2, <1>3, SettleGrows DEF TInv
<1>5. Touches(created')
  BY <1>1, <1>2, <1>4 DEF Touches
<1>6. /\ WrappersType /\ WrappersGrow
      /\ NewWrappers([adopt : BOOLEAN, outer : created', accepts : SUBSET Errors])
  BY <1>1, SameWrappers DEF TInv
<1>7. HistoryType /\ created' \subseteq Promises /\ created \subseteq created'
      /\ \A r \in Promises \ created' :
           reaction'[r] = reaction[r] /\ origin'[r] = origin[r] /\ runs'[r] = runs[r]
  BY <1>1 DEF TInv, TypeOK, HistoryType, history
<1>8. Advance /\ pc' \in PC /\ wcursor' \in Nat
  BY <1>1 DEF Advance, Calling, PC, TInv, TypeOK
<1>9. QED
  BY <1>1, <1>4, <1>5, <1>6, <1>7, <1>8 DEF GrowStep

(* Neither do the ways a user callback ends: the derived promise is settled or adopted. *)
LEMMA ReturnsGrow ==
  ASSUME TInv, Returns
  PROVE  GrowStep /\ Advance /\ created' \subseteq Promises /\ HistoryType /\ pc' \in PC /\ wcursor' \in Nat
<1> DEFINE d == Active[wcursor].outer
<1>1. PICK how \in {"value", "promise", "error"},
           what \in Values \cup {Blank} \cup Promises \cup Errors : Return(how, what)
  <2>1. CASE \E v \in Values \cup {Blank} : ReturnValue(v)
    BY <2>1 DEF ReturnValue
  <2>2. CASE \E q \in Promises : ReturnPromise(q)
    BY <2>2 DEF ReturnPromise
  <2>3. CASE \E e \in Errors : Throw(e)
    BY <2>3 DEF Throw
  <2>4. QED
    BY <2>1, <2>2, <2>3 DEF Returns
<1>2. /\ pc = "user" /\ pc' = "calling" /\ wcursor' = wcursor + 1 /\ cursor' = cursor
      /\ origin' = [origin EXCEPT ![d] = [how |-> how, what |-> what]]
      /\ UNCHANGED <<created, reaction, n_reactions, runs, escapes>>
  BY <1>1 DEF Return
<1>3. /\ wcursor <= Len(Active) /\ d \in created /\ d \in Promises
  BY <1>2, ActiveType DEF TInv, TypeOK, LoopInv, Calling
<1> HIDE DEF d
<1>4. /\ CellsType /\ CellsGrow /\ WrappersType /\ WrappersGrow /\ Touches(created')
      /\ NewWrappers([adopt : BOOLEAN, outer : created', accepts : SUBSET Errors])
  <2>1. ASSUME NEW s \in Settled, NEW x \in Results,
               Settle(HelperQueue, d, s, x), UNCHANGED wrappers
        PROVE  /\ CellsType /\ CellsGrow /\ WrappersType /\ WrappersGrow /\ Touches(created')
               /\ NewWrappers([adopt : BOOLEAN, outer : created', accepts : SUBSET Errors])
    <3>1. HelperQueue \in {pending_callback_queue, Append(pending_callback_queue, Helper)}
      BY DEF HelperQueue
    <3>2. /\ CellsType /\ CellsGrow
          /\ \A r \in Promises \ {d} : status'[r] = status[r]
      BY <1>3, <2>1, <3>1, SettleGrows DEF TInv
    <3>3. Touches(created')
      BY <1>2, <1>3, <2>1, <3>2 DEF Touches
    <3>4. QED
      BY <2>1, <3>2, <3>3, SameWrappers DEF TInv
  <2>2. CASE \E v \in Values \cup {Blank} : ReturnValue(v)
    BY <2>1, <2>2 DEF ReturnValue, resolve_impl, Results, Settled, d
  <2>3. CASE \E e \in Errors : Throw(e)
    BY <2>1, <2>3 DEF Throw, reject_impl, Results, Settled, d
  <2>4. CASE \E q \in Promises : ReturnPromise(q)
    <3>1. PICK q \in Promises : ReturnPromise(q)
      BY <2>4
    <3>2. q \in created /\ associate_status(d, q)
      BY <3>1 DEF ReturnPromise, d
    <3>3. /\ CellsType /\ CellsGrow /\ WrappersType /\ WrappersGrow
          /\ Touches({d, q}) /\ NewWrappers({Adoption(d)})
      BY <1>3, <3>1, <3>2, AssociateGrows DEF TInv
    <3>4. Adoption(d) \in [adopt : BOOLEAN, outer : created', accepts : SUBSET Errors]
      BY <1>2, <1>3 DEF Adoption
    <3>5. Touches(created')
      BY <1>2, <1>3, <3>2, <3>3 DEF Touches
    <3>6. QED
      BY <3>3, <3>4, <3>5, MoreWrappers
  <2>5. QED
    BY <2>2, <2>3, <2>4 DEF Returns
<1>5. HistoryType
  BY <1>2, <1>3 DEF TInv, TypeOK, HistoryType
<1>6. /\ created' \subseteq Promises /\ pc' \in PC /\ wcursor' \in Nat
      /\ created \subseteq created'
      /\ \A r \in Promises \ created' :
           reaction'[r] = reaction[r] /\ origin'[r] = origin[r] /\ runs'[r] = runs[r]
  BY <1>2, <1>3 DEF TInv, TypeOK, PC
<1>7. Advance
  BY <1>2, <1>3 DEF Advance, Calling
<1>8. QED
  BY <1>2, <1>4, <1>5, <1>6, <1>7 DEF GrowStep

(* promise_task starts at the head of the queue. *)
LEMMA TaskBeginKeeps ==
  ASSUME TInv, TaskBegin
  PROVE  TInv'
<1>1. /\ pc = "idle" /\ pc' = "iterate" /\ cursor' = 1
      /\ UNCHANGED <<created, status, result, pending_callback, pending_callback_queue,
                     wrappers, wcursor, reaction, n_reactions, origin, runs, escapes>>
  BY DEF TaskBegin, cells, history
<1>2. TypeOK' /\ FreshInv' /\ OuterInv'
  BY <1>1 DEF TInv, TypeOK, FreshInv, OuterInv, PC
<1>3. LoopInv'
  BY <1>1 DEF TInv, TypeOK, LoopInv, Outside, Calling
<1>4. QED
  BY <1>2, <1>3 DEF TInv

(* call_back starts at the head of the list for the promise's outcome. *)
LEMMA CallBackKeeps ==
  ASSUME TInv, CallBack
  PROVE  TInv'
<1>1. /\ pc = "iterate" /\ cursor <= Len(pending_callback_queue)
      /\ UNCHANGED <<created, status, result, pending_callback, pending_callback_queue,
                     wrappers, reaction, n_reactions, origin, runs, escapes>>
      /\ \/ Current = Helper /\ cursor' = cursor + 1 /\ UNCHANGED <<pc, wcursor>>
         \/ Current # Helper /\ pc' = "calling" /\ wcursor' = 1 /\ UNCHANGED cursor
  BY DEF CallBack, cells, history
<1>2. cursor \in 1 .. Len(pending_callback_queue)
  BY <1>1 DEF TInv, TypeOK, LoopInv, Outside
<1>3. TypeOK' /\ FreshInv' /\ OuterInv'
  BY <1>1, <1>2 DEF TInv, TypeOK, FreshInv, OuterInv, PC
<1>4. LoopInv'
  <2>1. CASE Current = Helper
    BY <1>1, <1>2, <2>1 DEF TInv, TypeOK, LoopInv, Outside, Calling
  <2>2. CASE Current # Helper
    <3>1. pc' = "calling" /\ wcursor' = 1 /\ cursor' = cursor
      BY <1>1, <2>2
    <3>2. Current' = Current /\ Active' = Active
      BY <1>1, <3>1 DEF Current, Active
    <3>3. Len(Active) \in Nat
      <4>1. Current \in Promises /\ status[Current] \in Settled
        BY <1>2, <2>2 DEF TInv, TypeOK, LoopInv, Current
      <4>2. QED
        BY <4>1 DEF TInv, TypeOK, Active
    <3>4. QED
      BY <1>1, <1>2, <2>2, <3>1, <3>2, <3>3 DEF TInv, LoopInv, Outside, Calling
  <2>3. QED
    BY <2>1, <2>2
<1>5. QED
  BY <1>3, <1>4 DEF TInv

(* Entering a callback moves no cursor and changes no list. *)
LEMMA EnterCallbackKeeps ==
  ASSUME TInv, EnterCallback
  PROVE  TInv'
<1>1. /\ pc = "calling" /\ pc' = "user" /\ wcursor <= Len(Active) /\ ~Active[wcursor].adopt
      /\ runs' = [runs EXCEPT ![Active[wcursor].outer] = IF @ < 2 THEN @ + 1 ELSE @]
      /\ UNCHANGED <<created, status, result, pending_callback, pending_callback_queue,
                     wrappers, cursor, wcursor, reaction, n_reactions, origin, escapes>>
  BY DEF EnterCallback, cells
<1>2. wcursor \in 1 .. Len(Active) /\ Active[wcursor].outer \in created
  BY <1>1, ActiveType DEF TInv, Calling
<1>3. runs' \in [Promises -> 0..2]
  <2>1. \A d \in Promises : (IF runs[d] < 2 THEN runs[d] + 1 ELSE runs[d]) \in 0..2
    BY DEF TInv, TypeOK
  <2>2. runs \in [Promises -> 0..2]
    BY DEF TInv, TypeOK
  <2>3. QED
    BY <1>1, <2>1, <2>2
<1>4. TypeOK'
  BY <1>1, <1>3 DEF TInv, TypeOK, PC
<1>5. FreshInv' /\ OuterInv'
  <2>1. \A d \in Promises \ created : runs'[d] = runs[d]
    BY <1>1, <1>2 DEF TInv, TypeOK
  <2>2. QED
    BY <1>1, <2>1 DEF TInv, FreshInv, OuterInv
<1>6. LoopInv'
  <2>1. Current' = Current /\ Active' = Active
    BY <1>1 DEF Current, Active
  <2>2. QED
    BY <1>1, <1>2, <2>1 DEF TInv, LoopInv, Outside, Calling
<1>7. QED
  BY <1>4, <1>5, <1>6 DEF TInv

(* An exception that leaves promise_task leaves queue and lists as they were. *)
LEMMA BadCastKeeps ==
  ASSUME TInv, BadCast
  PROVE  TInv'
<1>1. /\ pc = "calling" /\ pc' \in {"idle", "terminated"} /\ cursor' = 0 /\ wcursor' = 0
      /\ escapes' = [escapes EXCEPT ![Current] = @ + 1]
      /\ UNCHANGED <<created, status, result, pending_callback, pending_callback_queue,
                     wrappers, reaction, n_reactions, origin, runs>>
  BY DEF BadCast, cells
<1>2. escapes' \in [Promises -> Nat]
  <2>1. Current \in Promises
    BY <1>1, ActiveType DEF TInv, Calling
  <2>2. QED
    BY <1>1, <2>1 DEF TInv, TypeOK
<1>3. TypeOK'
  BY <1>1, <1>2 DEF TInv, TypeOK, PC
<1>4. QED
  BY <1>1, <1>3 DEF TInv, FreshInv, OuterInv, LoopInv, Outside, Calling

(* call_back clears the lists of the promise it has walked, and of no other. *)
LEMMA CallBackEndKeeps ==
  ASSUME TInv, CallBackEnd
  PROVE  TInv'
<1>1. /\ pc = "calling" /\ pc' = "iterate" /\ cursor' = cursor + 1 /\ wcursor' = 0
      /\ pending_callback' = [pending_callback EXCEPT ![Current] = FALSE]
      /\ wrappers' = [wrappers EXCEPT ![Current] = NoWrappers]
      /\ UNCHANGED <<created, status, result, pending_callback_queue,
                     reaction, n_reactions, origin, runs, escapes>>
  BY DEF CallBackEnd, history
<1>2. cursor \in 1 .. Len(pending_callback_queue) /\ Current \in Promises
  BY <1>1, ActiveType DEF TInv, LoopInv, Calling
<1>3. wrappers' \in [Promises -> [Settled -> Seq(Wrapper)]]
  <2>1. NoWrappers \in [Settled -> Seq(Wrapper)]
    BY DEF NoWrappers
  <2>2. QED
    BY <1>1, <2>1 DEF TInv, TypeOK
<1>4. TypeOK'
  BY <1>1, <1>2, <1>3 DEF TInv, TypeOK, PC
<1>5. \A p \in Promises : wrappers'[p] \in {wrappers[p], NoWrappers}
  BY <1>1 DEF TInv, TypeOK
<1>6. FreshInv'
  BY <1>1, <1>5 DEF TInv, FreshInv
<1>7. OuterInv'
  <2>1. SUFFICES ASSUME NEW p \in Promises, NEW s \in Settled,
                        NEW i \in 1 .. Len(wrappers'[p][s])
                 PROVE  wrappers'[p][s][i].outer \in created
    BY <1>1 DEF OuterInv
  <2>2. wrappers'[p] = wrappers[p]
    BY <1>5 DEF NoWrappers
  <2>3. QED
    BY <2>2 DEF TInv, OuterInv
<1>8. LoopInv'
  BY <1>1, <1>2 DEF TInv, LoopInv, Outside, Calling
<1>9. QED
  BY <1>4, <1>6, <1>7, <1>8 DEF TInv

(* promise_task clears the queue when it has reached its end. *)
LEMMA TaskEndKeeps ==
  ASSUME TInv, TaskEnd
  PROVE  TInv'
<1>1. /\ pc' = "idle" /\ cursor' = 0 /\ pending_callback_queue' = <<>>
      /\ UNCHANGED <<created, status, result, pending_callback, wrappers, wcursor,
                     reaction, n_reactions, origin, runs, escapes>>
  BY DEF TaskEnd, history
<1>2. QED
  BY <1>1 DEF TInv, TypeOK, FreshInv, OuterInv, LoopInv, Outside, Calling, PC

(* Steps that only append preserve the type part of the invariant. *)
LEMMA GrowTInv ==
  ASSUME TInv, GrowStep, Advance, created' \subseteq Promises, HistoryType,
         pc' \in PC, wcursor' \in Nat
  PROVE  TInv'
<1>1. TypeOK'
  BY DEF TInv, TypeOK, GrowStep, CellsType, WrappersType, HistoryType, Results, Entries
<1>2. QED
  BY <1>1, GrowKeeps DEF TInv

(* The type part of the inductive invariant holds before the first call. *)
THEOREM TInvInit == Init => TInv
<1> SUFFICES ASSUME Init PROVE TInv
  OBVIOUS
<1>1. wrappers \in [Promises -> [Settled -> Seq(Wrapper)]]
  BY DEF Init, NoWrappers
<1>2. TypeOK
  BY <1>1 DEF Init, TypeOK, PC, Status, Settled, NoReaction, NoOrigin
<1>3. LoopInv /\ FreshInv
  BY DEF Init, LoopInv, FreshInv, Outside, Calling
<1>4. OuterInv
  BY DEF Init, OuterInv, NoWrappers
<1>5. QED
  BY <1>2, <1>3, <1>4 DEF TInv

(* Every API call and every step of promise_task preserves it. *)
THEOREM TInvNext == TInv /\ [Next]_vars => TInv'
<1> SUFFICES ASSUME TInv, [Next]_vars PROVE TInv'
  OBVIOUS
<1>1. CASE ApiCall
  <2>1. /\ GrowStep /\ created' \subseteq Promises /\ HistoryType
        /\ pc' = pc /\ wcursor' = wcursor
    BY <1>1, ApiGrows DEF loop
  <2>2. pc' \in PC /\ wcursor' \in Nat /\ Advance
    BY <2>1 DEF TInv, TypeOK, Advance
  <2>3. QED
    BY <2>1, <2>2, GrowTInv
<1>2. CASE RunAdoption
  BY <1>2, RunAdoptionGrows, GrowTInv
<1>3. CASE Returns
  BY <1>3, ReturnsGrow, GrowTInv
<1>4. CASE UNCHANGED vars
  BY <1>4 DEF vars, cells, loop, history, TInv, TypeOK, LoopInv, FreshInv, OuterInv,
              Outside, Calling, Current, Active
<1>5. QED
  BY <1>1, <1>2, <1>3, <1>4, TaskBeginKeeps, CallBackKeeps, EnterCallbackKeeps, BadCastKeeps,
     CallBackEndKeeps, TaskEndKeeps DEF Next, TaskStep

(* Types, and with them: promise_task and call_back only ever stand on a    *)
(* settled promise and within the list of wrappers they walk, however much  *)
(* user callbacks make the lists grow.                                      *)
THEOREM TypeCorrect == Spec => []TypeOK
<1>1. Spec => []TInv
  BY TInvInit, TInvNext, PTL DEF Spec
<1>2. TInv => TypeOK
  BY DEF TInv
<1>3. QED
  BY <1>1, <1>2, PTL

-----------------------------------------------------------------------------
(* The second layer: what is queued.  A step queues a promise when it sets  *)
(* pending_callback, and sets it on every promise it settles or gives a     *)
(* wrapper to run.                                                          *)
QueueStep ==
  \A r \in Promises :
    /\ pending_callback'[r] =>
         \/ pending_callback[r]
         \/ \E i \in Len(pending_callback_queue) + 1 .. Len(pending_callback_queue') :
              pending_callback_queue'[i] = r
    /\ pending_callback[r] => pending_callback'[r]
    /\ status'[r] \in Settled =>
         \/ pending_callback'[r]
         \/ status'[r] = status[r] /\ wrappers'[r] = wrappers[r]
         \/ status'[r] = status[r] /\ wrappers'[r][status[r]] = wrappers[r][status[r]]
         \/ wrappers'[r] = NoWrappers

(* A promise that is settled is queued in the same step. *)
LEMMA SettleQueues ==
  ASSUME TypeOK,
         NEW p \in Promises, NEW s \in Settled, NEW x \in Results,
         NEW base \in {pending_callback_queue, Append(pending_callback_queue, Helper)},
         Settle(base, p, s, x), UNCHANGED wrappers
  PROVE  QueueStep
<1>1. CASE status[p] # "PENDING"
  BY <1>1 DEF Settle, QueueStep
<1>2. CASE status[p] = "PENDING"
  <2>1. /\ status' = [status EXCEPT ![p] = s]
        /\ pending_callback' = [pending_callback EXCEPT ![p] = TRUE]
        /\ pending_callback_queue' = Append(base, p)
    BY <1>2 DEF Settle
  <2>2. /\ pending_callback_queue \in Seq(Entries) /\ Helper \in Entries /\ p \in Entries
        /\ status \in [Promises -> Status]
        /\ pending_callback \in [Promises -> BOOLEAN]
    BY DEF TypeOK, Entries
  <2>3. base \in Seq(Entries) /\ Len(base) >= Len(pending_callback_queue) /\ Len(base) \in Nat
    BY <2>2, AppendFacts
  <2>4. /\ Len(pending_callback_queue') = Len(base) + 1
        /\ pending_callback_queue'[Len(base) + 1] = p
    BY <2>1, <2>2, <2>3, AppendFacts
  <2>5. \E i \in Len(pending_callback_queue) + 1 .. Len(pending_callback_queue') :
          pending_callback_queue'[i] = p
    BY <2>2, <2>3, <2>4
  <2>6. \A r \in Promises \ {p} :
          status'[r] = status[r] /\ pending_callback'[r] = pending_callback[r]
    BY <2>1, <2>2
  <2>7. pending_callback'[p]
    BY <2>1, <2>2
  <2>8. QED
    BY <2>5, <2>6, <2>7 DEF QueueStep
<1>3. QED
  BY <1>1, <1>2

(* associate_status settles and queues the outer promise, or touches a pending one. *)
LEMMA AssociateQueues ==
  ASSUME TypeOK,
         NEW outer \in Promises, NEW inner \in Promises,
         associate_status(outer, inner)
  PROVE  QueueStep
<1>1. CASE status[inner] \in Settled
  <2>1. /\ Settle(pending_callback_queue, outer, status[inner], result[inner])
        /\ UNCHANGED wrappers
    BY <1>1 DEF associate_status, resolve_impl, reject_impl, Settled
  <2>2. result[inner] \in Results
    BY DEF TypeOK, Results
  <2>3. QED
    BY <1>1, <2>1, <2>2, SettleQueues
<1>2. CASE status[inner] = "PENDING"
  <2>1. /\ wrappers' = [wrappers EXCEPT ![inner] =
                           [s \in Settled |-> Append(@[s], Adoption(outer))]]
        /\ UNCHANGED <<status, pending_callback>>
    BY <1>2 DEF associate_status, cells
  <2>2. \A r \in Promises : r = inner \/ wrappers'[r] = wrappers[r]
    BY <2>1 DEF TypeOK
  <2>3. QED
    BY <1>2, <2>1, <2>2 DEF QueueStep, Settled
<1>3. QED
  BY <1>1, <1>2 DEF TypeOK, Status

(* then and _catch on a settled promise leave it pending_callback and queued. *)
LEMMA ReactQueues ==
  ASSUME TypeOK,
         NEW p \in Promises, NEW d \in Promises, NEW s \in Settled, NEW w,
         React(p, d, s, w)
  PROVE  QueueStep
<1>1. /\ UNCHANGED status
      /\ status \in [Promises -> Status]
      /\ wrappers \in [Promises -> [Settled -> Seq(Wrapper)]]
      /\ pending_callback \in [Promises -> BOOLEAN]
      /\ pending_callback_queue \in Seq(Entries) /\ p \in Entries
  BY DEF React, TypeOK, Entries
<1>2. CASE status[p] \in Settled \ {s}
  BY <1>1, <1>2 DEF React, QueueStep
<1>3. CASE status[p] \notin Settled \ {s}
  <2>1. wrappers' = [wrappers EXCEPT ![p][s] = Append(@, w)]
    BY <1>3 DEF React
  <2>2. \A r \in Promises : r = p \/ wrappers'[r] = wrappers[r]
    BY <1>1, <2>1
  <2>3. status[p] \in {"PENDING", s}
    BY <1>1, <1>3 DEF Status
  <2>4. CASE status[p] = s /\ ~pending_callback[p]
    <3>1. /\ pending_callback' = [pending_callback EXCEPT ![p] = TRUE]
          /\ pending_callback_queue' = Append(pending_callback_queue, p)
      BY <1>3, <2>4 DEF React
    <3>2. /\ Len(pending_callback_queue') = Len(pending_callback_queue) + 1
          /\ pending_callback_queue'[Len(pending_callback_queue) + 1] = p
          /\ Len(pending_callback_queue) \in Nat
      BY <1>1, <3>1, AppendFacts
    <3>3. \E i \in Len(pending_callback_queue) + 1 .. Len(pending_callback_queue') :
            pending_callback_queue'[i] = p
      BY <3>2
    <3>4. /\ pending_callback'[p]
          /\ \A r \in Promises \ {p} : pending_callback'[r] = pending_callback[r]
      BY <1>1, <3>1
    <3>5. QED
      BY <1>1, <2>2, <3>3, <3>4 DEF QueueStep
  <2>5. CASE ~(status[p] = s /\ ~pending_callback[p])
    <3>1. UNCHANGED pending_callback
      BY <1>3, <2>5 DEF React
    <3>2. QED
      BY <1>1, <2>2, <2>3, <2>5, <3>1 DEF QueueStep, Settled
  <2>6. QED
    BY <2>4, <2>5
<1>4. QED
  BY <1>2, <1>3

(* So no API call leaves a settled promise with wrappers out of the queue. *)
LEMMA ApiQueues ==
  ASSUME TInv, ApiCall
  PROVE  QueueStep
<1>1. ASSUME NEW p \in Promises, NewPromise(p)
      PROVE  QueueStep
  BY <1>1 DEF NewPromise, cells, QueueStep
<1>2. ASSUME NEW p \in Promises, NEW s \in Settled,
             NEW x \in Values \cup {Blank} \cup Errors, MakeSettled(p, s, x)
      PROVE  QueueStep
  <2>1. CASE p \in VoidPromises
    <3>1. Settle(pending_callback_queue, p, s, x) /\ UNCHANGED wrappers
      BY <1>2, <2>1 DEF MakeSettled
    <3>2. x \in Results
      BY DEF Results
    <3>3. QED
      BY <3>1, <3>2, SettleQueues DEF TInv
  <2>2. CASE p \notin VoidPromises
    <3>1. /\ status' = [status EXCEPT ![p] = s]
          /\ UNCHANGED <<wrappers, pending_callback, pending_callback_queue>>
      BY <1>2, <2>2 DEF MakeSettled
    <3>2. wrappers[p] = NoWrappers
      BY <1>2 DEF MakeSettled, Fresh, TInv, FreshInv
    <3>3. QED
      BY <3>1, <3>2 DEF QueueStep, TInv, TypeOK
  <2>3. QED
    BY <2>1, <2>2
<1>3. ASSUME NEW p \in Promises, NEW s \in Settled, NEW x \in Values \cup {Blank} \cup Errors,
             Settle(pending_callback_queue, p, s, x), UNCHANGED wrappers
      PROVE  QueueStep
  BY <1>3, SettleQueues DEF TInv, Results
<1>4. ASSUME NEW p \in Promises, NEW v \in Values \cup {Blank}, Resolve(p, v)
      PROVE  QueueStep
  BY <1>3, <1>4 DEF Resolve, resolve_impl, Settled
<1>5. ASSUME NEW p \in Promises, NEW e \in Errors, Reject(p, e)
      PROVE  QueueStep
  BY <1>3, <1>5 DEF Reject, reject_impl, Settled
<1>6. ASSUME NEW p \in Promises, NEW q \in Promises, ResolveWith(p, q)
      PROVE  QueueStep
  BY <1>6, AssociateQueues DEF ResolveWith, TInv
<1>7. ASSUME NEW p \in Promises, NEW d \in Promises, Then(p, d)
      PROVE  QueueStep
  BY <1>7, ReactQueues DEF Then, TInv, Settled
<1>8. ASSUME NEW p \in Promises, NEW d \in Promises, NEW a \in AcceptSets, Catch(p, d, a)
      PROVE  QueueStep
  BY <1>8, ReactQueues DEF Catch, TInv, Settled
<1>9. QED
  BY <1>1, <1>2, <1>4, <1>5, <1>6, <1>7, <1>8 DEF ApiCall

(* Nor does an adoption wrapper that call_back runs. *)
LEMMA RunAdoptionQueues ==
  ASSUME TInv, RunAdoption
  PROVE  QueueStep
<1> DEFINE d == Active[wcursor].outer
<1>1. /\ pc = "calling" /\ wcursor <= Len(Active) /\ UNCHANGED wrappers
      /\ Settle(pending_callback_queue, d, status[Current], result[Current])
  BY DEF RunAdoption
<1>2. /\ Current \in Promises /\ status[Current] \in Settled /\ d \in created
  BY <1>1, ActiveType DEF TInv, Calling
<1> HIDE DEF d
<1>3. d \in Promises /\ result[Current] \in Results
  BY <1>2 DEF TInv, TypeOK, Results
<1>4. QED
  BY <1>1, <1>2, <1>3, SettleQueues DEF TInv

(* Nor does a user callback that returns or throws. *)
LEMMA ReturnsQueue ==
  ASSUME TInv, Returns
  PROVE  QueueStep
<1> DEFINE d == Active[wcursor].outer
<1>1. pc = "user"
  BY DEF Returns, ReturnValue, ReturnPromise, Throw, Return
<1>2. wcursor <= Len(Active) /\ d \in Promises
  BY <1>1, ActiveType DEF TInv, TypeOK, LoopInv, Calling
<1>3. HelperQueue \in {pending_callback_queue, Append(pending_callback_queue, Helper)}
  BY DEF HelperQueue
<1> HIDE DEF d
<1>4. CASE \E v \in Values \cup {Blank} : ReturnValue(v)
  <2>1. PICK v \in Values \cup {Blank} : resolve_impl(HelperQueue, d, v) /\ UNCHANGED wrappers
    BY <1>4 DEF ReturnValue, d
  <2>2. QED
    BY <1>2, <1>3, <2>1, SettleQueues DEF TInv, Results, resolve_impl, Settled
<1>5. CASE \E e \in Errors : Throw(e)
  <2>1. PICK e \in Errors : reject_impl(HelperQueue, d, e) /\ UNCHANGED wrappers
    BY <1>5 DEF Throw, d
  <2>2. QED
    BY <1>2, <1>3, <2>1, SettleQueues DEF TInv, Results, reject_impl, Settled
<1>6. CASE \E q \in Promises : ReturnPromise(q)
  <2>1. PICK q \in Promises : associate_status(d, q)
    BY <1>6 DEF ReturnPromise, d
  <2>2. QED
    BY <1>2, <2>1, AssociateQueues DEF TInv
<1>7. QED
  BY <1>4, <1>5, <1>6 DEF Returns

(* A step with that property preserves PendingInv while the cursor moves on. *)
LEMMA QueueKeeps ==
  ASSUME TInv, TInv', PendingInv, GrowStep, Advance, QueueStep
  PROVE  PendingInv'
<1>1. /\ Start' = Start
      /\ Start \in 1 .. Len(pending_callback_queue) + 1
      /\ Len(pending_callback_queue) \in Nat /\ Len(pending_callback_queue') \in Nat
      /\ Len(pending_callback_queue') >= Len(pending_callback_queue)
  <2>1. Len(pending_callback_queue) \in Nat /\ Len(pending_callback_queue') \in Nat
    BY DEF TInv, TypeOK
  <2>2. QED
    BY <2>1 DEF TInv, LoopInv, GrowStep, CellsGrow, Advance, Start, Calling, Outside
<1>2. ASSUME NEW p \in Promises, pending_callback'[p]
      PROVE  Waiting(p)'
  <2>1. CASE pending_callback[p]
    <3>1. PICK i \in Start .. Len(pending_callback_queue) : pending_callback_queue[i] = p
      BY <2>1 DEF PendingInv, Waiting
    <3>2. pending_callback_queue'[i] = p
      BY <1>1, <3>1 DEF GrowStep, CellsGrow
    <3>3. QED
      BY <1>1, <3>1, <3>2 DEF Waiting
  <2>2. CASE ~pending_callback[p]
    <3>1. PICK i \in Len(pending_callback_queue) + 1 .. Len(pending_callback_queue') :
            pending_callback_queue'[i] = p
      BY <1>2, <2>2 DEF QueueStep
    <3>2. QED
      BY <1>1, <3>1 DEF Waiting
  <2>3. QED
    BY <2>1, <2>2
<1>3. ASSUME NEW p \in Promises, status'[p] \in Settled, wrappers'[p][status'[p]] # <<>>
      PROVE  pending_callback'[p]
  <2>1. wrappers'[p] # NoWrappers
    BY <1>3 DEF NoWrappers
  <2>2. QED
    BY <1>3, <2>1 DEF PendingInv, QueueStep
<1>4. QED
  BY <1>2, <1>3 DEF PendingInv

(* Before the first call nothing is pending. *)
LEMMA PendingInit == Init => PendingInv
BY DEF Init, PendingInv, Settled

(* Every step keeps each promise with something to run ahead of promise_task. *)
LEMMA PendingNext ==
  ASSUME TInv, TInv', PendingInv, [Next]_vars
  PROVE  PendingInv'
<1>1. CASE ApiCall
  <2>1. GrowStep /\ pc' = pc /\ wcursor' = wcursor
    BY <1>1, ApiGrows DEF loop
  <2>2. Advance
    BY <2>1 DEF Advance
  <2>3. QED
    BY <1>1, <2>1, <2>2, ApiQueues, QueueKeeps
<1>2. CASE RunAdoption
  BY <1>2, RunAdoptionGrows, RunAdoptionQueues, QueueKeeps
<1>3. CASE Returns
  BY <1>3, ReturnsGrow, ReturnsQueue, QueueKeeps
<1>4. CASE TaskBegin
  <2>1. Start' = Start /\ UNCHANGED <<status, pending_callback, pending_callback_queue, wrappers>>
    BY <1>4 DEF TaskBegin, Start, cells
  <2>2. QED
    BY <2>1 DEF PendingInv, Waiting
<1>5. CASE CallBack
  <2>1. /\ pc = "iterate" /\ cursor \in 1 .. Len(pending_callback_queue)
        /\ UNCHANGED <<status, pending_callback, pending_callback_queue, wrappers>>
        /\ \/ Current = Helper /\ cursor' = cursor + 1 /\ pc' = pc
           \/ pc' = "calling" /\ cursor' = cursor
    BY <1>5 DEF CallBack, cells, TInv, TypeOK, LoopInv, Outside
  <2>2. \A p \in Promises : Waiting(p) => Waiting(p)'
    <3>1. SUFFICES ASSUME NEW p \in Promises,
                          NEW i \in Start .. Len(pending_callback_queue),
                          pending_callback_queue[i] = p
                   PROVE  i >= Start'
      BY <2>1 DEF Waiting, TInv, TypeOK, Start
    <3>2. Helper \notin Promises
      BY PromiseAssumption
    <3>3. QED
      BY <2>1, <3>1, <3>2 DEF Start, Current
  <2>3. QED
    BY <2>1, <2>2 DEF PendingInv
<1>6. CASE EnterCallback
  <2>1. Start' = Start /\ UNCHANGED <<status, pending_callback, pending_callback_queue, wrappers>>
    BY <1>6 DEF EnterCallback, Start, cells
  <2>2. QED
    BY <2>1 DEF PendingInv, Waiting
<1>7. CASE BadCast
  <2>1. /\ Start' = 1 /\ Start \in Nat /\ Start >= 1
        /\ UNCHANGED <<status, pending_callback, pending_callback_queue, wrappers>>
    BY <1>7 DEF BadCast, Start, cells, TInv, TypeOK, LoopInv, Outside
  <2>2. \A p \in Promises : Waiting(p) => Waiting(p)'
    BY <2>1 DEF Waiting, TInv, TypeOK
  <2>3. QED
    BY <2>1, <2>2 DEF PendingInv
<1>8. CASE CallBackEnd
  <2>1. /\ pc = "calling" /\ pc' = "iterate" /\ cursor' = cursor + 1
        /\ pending_callback' = [pending_callback EXCEPT ![Current] = FALSE]
        /\ wrappers' = [wrappers EXCEPT ![Current] = NoWrappers]
        /\ UNCHANGED <<status, pending_callback_queue>>
    BY <1>8 DEF CallBackEnd
  <2>2. Current \in Promises /\ cursor \in 1 .. Len(pending_callback_queue)
    BY <2>1, ActiveType DEF TInv, LoopInv, Calling
  <2>3. \A p \in Promises \ {Current} :
          /\ pending_callback'[p] = pending_callback[p]
          /\ wrappers'[p] = wrappers[p]
    BY <2>1 DEF TInv, TypeOK
  <2>4. ~pending_callback'[Current] /\ wrappers'[Current] = NoWrappers
    BY <2>1, <2>2 DEF TInv, TypeOK
  <2>5. \A p \in Promises \ {Current} : Waiting(p) => Waiting(p)'
    <3>1. SUFFICES ASSUME NEW p \in Promises \ {Current},
                          NEW i \in Start .. Len(pending_callback_queue),
                          pending_callback_queue[i] = p
                   PROVE  i >= Start'
      BY <2>1 DEF Waiting, TInv, TypeOK, Start
    <3>2. i # cursor
      BY <3>1 DEF Current
    <3>3. QED
      BY <2>1, <2>2, <3>1, <3>2 DEF Start
  <2>6. QED
    BY <2>1, <2>3, <2>4, <2>5 DEF PendingInv, NoWrappers
<1>9. CASE TaskEnd
  <2>1. /\ pc = "iterate" /\ cursor > Len(pending_callback_queue)
        /\ UNCHANGED <<status, pending_callback, wrappers>>
    BY <1>9 DEF TaskEnd
  <2>2. \A p \in Promises : ~Waiting(p)
    BY <2>1 DEF Waiting, Start, TInv, TypeOK
  <2>3. QED
    BY <2>1, <2>2 DEF PendingInv
<1>10. CASE UNCHANGED vars
  BY <1>10 DEF vars, cells, loop, PendingInv, Waiting, Start
<1>11. QED
  BY <1>1, <1>2, <1>3, <1>4, <1>5, <1>6, <1>7, <1>8, <1>9, <1>10 DEF Next, TaskStep

(* No callback is ever lost, for any number of promises and also after      *)
(* exceptions have left promise_task.                                       *)
THEOREM NoCallbackLost == Spec => []NoLostCallback
<1>1. Spec => [](TInv /\ PendingInv)
  <2>1. Init => TInv /\ PendingInv
    BY TInvInit, PendingInit
  <2>2. TInv /\ PendingInv /\ [Next]_vars => (TInv /\ PendingInv)'
    BY TInvNext, PendingNext
  <2>3. QED
    BY <2>1, <2>2, PTL DEF Spec
<1>2. PendingInv => NoLostCallback
  BY DEF PendingInv, NoLostCallback
<1>3. QED
  BY <1>1, <1>2, PTL

-----------------------------------------------------------------------------
(* The third layer: what the stored callbacks and the history say of each   *)
(* other.  Most steps settle at most one promise d, or make others adopt    *)
(* it, and leave the reactions and what was entered alone.                  *)
Adopts(d) ==
  /\ GrowStep /\ Advance
  /\ UNCHANGED <<reaction, n_reactions, runs, escapes>>
  /\ d \in Promises /\ d \in created'
  /\ \A r \in Promises \ {d} : status'[r] = status[r] /\ result'[r] = result[r]
  /\ status'[d] = "RESOLVED" => result'[d] \in Values \cup {Blank}
  /\ status'[d] = "REJECTED" => result'[d] \in Errors
  /\ NewWrappers({Adoption(d)})
  /\ reaction[d] # NoReaction => runs[d] > 0
  /\ wcursor' = wcursor \/ pc = "user" \/ Active[wcursor].adopt

(* What Settle and associate_status do to the promises. *)
LEMMA SettleFacts ==
  ASSUME TypeOK, NEW base, NEW p \in Promises, NEW s \in Settled, NEW x,
         Settle(base, p, s, x)
  PROVE  /\ \A r \in Promises \ {p} : status'[r] = status[r] /\ result'[r] = result[r]
         /\ status[p] = "PENDING" => status'[p] = s /\ result'[p] = x
         /\ status[p] # "PENDING" => status'[p] = status[p] /\ result'[p] = result[p]
BY DEF Settle, TypeOK

LEMMA AssociateFacts ==
  ASSUME TypeOK, NEW outer \in Promises, NEW inner \in Promises,
         associate_status(outer, inner)
  PROVE  /\ \A r \in Promises \ {outer} : status'[r] = status[r] /\ result'[r] = result[r]
         /\ status[inner] \in Settled =>
              /\ wrappers' = wrappers
              /\ status[outer] = "PENDING" =>
                   status'[outer] = status[inner] /\ result'[outer] = result[inner]
         /\ status[inner] = "PENDING" =>
              status'[outer] = status[outer] /\ result'[outer] = result[outer]
         /\ \A r \in Promises \ {inner} : wrappers'[r] = wrappers[r]
<1>1. CASE status[inner] \in Settled
  <2>1. /\ Settle(pending_callback_queue, outer, status[inner], result[inner])
        /\ UNCHANGED wrappers
    BY <1>1 DEF associate_status, resolve_impl, reject_impl, Settled
  <2>2. QED
    BY <1>1, <2>1, SettleFacts DEF Settled
<1>2. CASE status[inner] = "PENDING"
  <2>1. /\ wrappers' = [wrappers EXCEPT ![inner] =
                           [s \in Settled |-> Append(@[s], Adoption(outer))]]
        /\ UNCHANGED cells
    BY <1>2 DEF associate_status
  <2>2. \A r \in Promises \ {inner} : wrappers'[r] = wrappers[r]
    BY <2>1 DEF TypeOK
  <2>3. QED
    BY <1>2, <2>1, <2>2 DEF cells, Settled
<1>3. QED
  BY <1>1, <1>2 DEF TypeOK, Status

LEMMA NoNewWrappers ==
  ASSUME TypeOK, UNCHANGED wrappers, NEW d
  PROVE  NewWrappers({Adoption(d)})
BY SameWrappers

(* A call of the API other than then and _catch. *)
LEMMA ApiAdopts ==
  ASSUME TInv, ResultInv, ApiCall,
         ~\E p, d \in Promises : Then(p, d) \/ \E a \in AcceptSets : Catch(p, d, a)
  PROVE  \E d \in Promises :
           /\ Adopts(d) /\ reaction[d] = NoReaction
           /\ UNCHANGED <<origin, loop>>
<1>1. GrowStep /\ UNCHANGED loop /\ Advance
  BY ApiGrows DEF Advance, loop
<1>2. ASSUME NEW p \in Promises, NEW s \in Settled, NEW x,
             x \in IF s = "RESOLVED" THEN Payload(p) ELSE Errors,
             \/ Settle(pending_callback_queue, p, s, x)
             \/ /\ status' = [status EXCEPT ![p] = s]
                /\ result' = [result EXCEPT ![p] = x],
             p \in created', reaction[p] = NoReaction,
             UNCHANGED wrappers, UNCHANGED history
      PROVE  \E d \in Promises :
               /\ Adopts(d) /\ reaction[d] = NoReaction
               /\ UNCHANGED <<origin, loop>>
  <2>1. /\ \A r \in Promises \ {p} : status'[r] = status[r] /\ result'[r] = result[r]
        /\ \/ status'[p] = s /\ result'[p] = x
           \/ status'[p] = status[p] /\ result'[p] = result[p]
    BY <1>2, SettleFacts DEF TInv, TypeOK
  <2>2. /\ s = "RESOLVED" => x \in Values \cup {Blank}
        /\ s = "REJECTED" => x \in Errors
    BY <1>2 DEF Payload
  <2>3. /\ status'[p] = "RESOLVED" => result'[p] \in Values \cup {Blank}
        /\ status'[p] = "REJECTED" => result'[p] \in Errors
    BY <2>1, <2>2 DEF ResultInv
  <2>4. NewWrappers({Adoption(p)})
    BY <1>2, NoNewWrappers DEF TInv
  <2>5. Adopts(p) /\ UNCHANGED <<origin, loop>>
    BY <1>1, <1>2, <2>1, <2>3, <2>4 DEF Adopts, history, loop
  <2>6. QED
    BY <1>2, <2>5
<1>3. ASSUME NEW p \in Promises, NewPromise(p)
      PROVE  \E d \in Promises :
               /\ Adopts(d) /\ reaction[d] = NoReaction
               /\ UNCHANGED <<origin, loop>>
  <2>1. /\ UNCHANGED <<status, result>> /\ UNCHANGED wrappers /\ UNCHANGED history
        /\ p \in created' /\ p \notin created
    BY <1>3 DEF NewPromise, Fresh, cells
  <2>2. reaction[p] = NoReaction
    BY <2>1 DEF TInv, FreshInv
  <2>3. NewWrappers({Adoption(p)})
    BY <2>1, NoNewWrappers DEF TInv
  <2>4. Adopts(p) /\ UNCHANGED <<origin, loop>>
    BY <1>1, <2>1, <2>2, <2>3 DEF Adopts, history, loop, ResultInv
  <2>5. QED
    BY <2>2, <2>4
<1>4. ASSUME NEW p \in Promises, NEW s \in Settled,
             NEW x \in Values \cup {Blank} \cup Errors, MakeSettled(p, s, x)
      PROVE  \E d \in Promises :
               /\ Adopts(d) /\ reaction[d] = NoReaction
               /\ UNCHANGED <<origin, loop>>
  <2>1. /\ x \in IF s = "RESOLVED" THEN Payload(p) ELSE Errors
        /\ UNCHANGED wrappers /\ UNCHANGED history
        /\ p \in created' /\ p \notin created
    BY <1>4 DEF MakeSettled, Fresh
  <2>2. \/ Settle(pending_callback_queue, p, s, x)
        \/ /\ status' = [status EXCEPT ![p] = s]
           /\ result' = [result EXCEPT ![p] = x]
    BY <1>4 DEF MakeSettled
  <2>3. reaction[p] = NoReaction
    BY <2>1 DEF TInv, FreshInv
  <2>4. QED
    BY <1>2, <2>1, <2>2, <2>3
<1>5. ASSUME NEW p \in Promises, NEW v \in Values \cup {Blank}, Resolve(p, v)
      PROVE  \E d \in Promises :
               /\ Adopts(d) /\ reaction[d] = NoReaction
               /\ UNCHANGED <<origin, loop>>
  <2>1. /\ Settle(pending_callback_queue, p, "RESOLVED", v) /\ v \in Payload(p)
        /\ p \in created' /\ reaction[p] = NoReaction
        /\ UNCHANGED wrappers /\ UNCHANGED history
    BY <1>5 DEF Resolve, resolve_impl, HasCtx
  <2>2. QED
    BY <1>2, <2>1 DEF Settled
<1>6. ASSUME NEW p \in Promises, NEW e \in Errors, Reject(p, e)
      PROVE  \E d \in Promises :
               /\ Adopts(d) /\ reaction[d] = NoReaction
               /\ UNCHANGED <<origin, loop>>
  <2>1. /\ Settle(pending_callback_queue, p, "REJECTED", e)
        /\ p \in created' /\ reaction[p] = NoReaction
        /\ UNCHANGED wrappers /\ UNCHANGED history
    BY <1>6 DEF Reject, reject_impl, HasCtx
  <2>2. QED
    BY <1>2, <2>1 DEF Settled
<1>7. ASSUME NEW p \in Promises, NEW q \in Promises, ResolveWith(p, q)
      PROVE  \E d \in Promises :
               /\ Adopts(d) /\ reaction[d] = NoReaction
               /\ UNCHANGED <<origin, loop>>
  <2>1. /\ associate_status(p, q) /\ status[p] = "PENDING"
        /\ p \in created' /\ reaction[p] = NoReaction
        /\ UNCHANGED history
    BY <1>7 DEF ResolveWith, HasCtx
  <2>2. NewWrappers({Adoption(p)})
    BY <2>1, AssociateGrows DEF TInv
  <2>3. /\ \A r \in Promises \ {p} : status'[r] = status[r] /\ result'[r] = result[r]
        /\ status[q] \in Settled => status'[p] = status[q] /\ result'[p] = result[q]
        /\ status[q] = "PENDING" => status'[p] = "PENDING"
    BY <2>1, AssociateFacts DEF TInv
  <2>4. /\ status'[p] = "RESOLVED" => result'[p] \in Values \cup {Blank}
        /\ status'[p] = "REJECTED" => result'[p] \in Errors
    BY <2>3 DEF ResultInv, TInv, TypeOK, Status, Settled
  <2>5. Adopts(p) /\ UNCHANGED <<origin, loop>>
    BY <1>1, <2>1, <2>2, <2>3, <2>4 DEF Adopts, history, loop
  <2>6. QED
    BY <2>1, <2>5
<1>8. QED
  BY <1>3, <1>4, <1>5, <1>6, <1>7 DEF ApiCall

(* The wrapper call_back is at. *)
LEMMA AtCursor ==
  ASSUME TInv, Calling, wcursor <= Len(Active)
  PROVE  /\ Current \in Promises /\ status[Current] \in Settled
         /\ wcursor \in 1 .. Len(wrappers[Current][status[Current]])
         /\ wrappers[Current][status[Current]][wcursor] = Active[wcursor]
         /\ Active[wcursor] \in Wrapper
         /\ Active[wcursor].outer \in created /\ Active[wcursor].outer \in Promises
<1>1. /\ Current \in Promises /\ status[Current] \in Settled
      /\ wcursor \in 1 .. Len(Active)
      /\ Active[wcursor] \in Wrapper /\ Active[wcursor].outer \in created
  BY ActiveType DEF TInv
<1>2. Active[wcursor].outer \in Promises
  BY <1>1 DEF TInv, TypeOK
<1>3. QED
  BY <1>1, <1>2 DEF Active

(* An adoption wrapper settles its outer promise as the current one was.    *)
LEMMA RunAdoptionAdopts ==
  ASSUME TInv, ResultInv, PassedInv, RunAdoption
  PROVE  /\ Adopts(Active[wcursor].outer)
         /\ pc = "calling" /\ wcursor <= Len(Active) /\ Active[wcursor].adopt
         /\ pc' = pc /\ wcursor' = wcursor + 1
         /\ UNCHANGED <<origin, wrappers>>
         /\ status[Active[wcursor].outer] = "PENDING" =>
              /\ status'[Active[wcursor].outer] = status[Current]
              /\ result'[Active[wcursor].outer] = result[Current]
<1> DEFINE d == Active[wcursor].outer
<1>1. /\ pc = "calling" /\ wcursor <= Len(Active) /\ Active[wcursor].adopt
      /\ pc' = pc /\ wcursor' = wcursor + 1
      /\ UNCHANGED wrappers /\ UNCHANGED created /\ UNCHANGED history
      /\ Settle(pending_callback_queue, d, status[Current], result[Current])
  BY DEF RunAdoption
<1>2. /\ Current \in Promises /\ status[Current] \in Settled
      /\ wcursor \in 1 .. Len(wrappers[Current][status[Current]])
      /\ wrappers[Current][status[Current]][wcursor] = Active[wcursor]
      /\ d \in created /\ d \in Promises
  BY <1>1, AtCursor DEF Calling
<1>3. reaction[d] # NoReaction => runs[d] > 0
  BY <1>1, <1>2 DEF PassedInv
<1> HIDE DEF d
<1>4. GrowStep /\ Advance
  BY RunAdoptionGrows
<1>5. /\ \A r \in Promises \ {d} : status'[r] = status[r] /\ result'[r] = result[r]
      /\ status[d] = "PENDING" => status'[d] = status[Current] /\ result'[d] = result[Current]
      /\ status[d] # "PENDING" => status'[d] = status[d] /\ result'[d] = result[d]
  BY <1>1, <1>2, SettleFacts DEF TInv
<1>6. /\ status'[d] = "RESOLVED" => result'[d] \in Values \cup {Blank}
      /\ status'[d] = "REJECTED" => result'[d] \in Errors
  BY <1>2, <1>5 DEF ResultInv
<1>7. NewWrappers({Adoption(d)})
  BY <1>1, NoNewWrappers DEF TInv
<1>8. Adopts(d)
  BY <1>1, <1>2, <1>3, <1>4, <1>5, <1>6, <1>7 DEF Adopts, history
<1>9. QED
  BY <1>1, <1>5, <1>8 DEF d, history

(* What a callback that returns did to the promise d it derives.            *)
Produces(d, how, what) ==
  /\ Adopts(d) /\ d = Active[wcursor].outer
  /\ pc = "user" /\ pc' = "calling" /\ wcursor' = wcursor + 1
  /\ origin' = [origin EXCEPT ![d] = [how |-> how, what |-> what]]
  /\ \/ /\ how = "value" /\ UNCHANGED wrappers
        /\ status[d] = "PENDING" => status'[d] = "RESOLVED" /\ result'[d] = what
     \/ /\ how = "error" /\ UNCHANGED wrappers
        /\ status[d] = "PENDING" => status'[d] = "REJECTED" /\ result'[d] = what
     \/ /\ how = "promise" /\ what \in Promises
        /\ \A r \in Promises \ {what} : wrappers'[r] = wrappers[r]
        /\ status[d] = "PENDING" /\ status'[d] \in Settled =>
             status'[d] = status[what] /\ result'[d] = result[what]

LEMMA ReturnsProduces ==
  ASSUME TInv, ResultInv, PassedInv, Returns
  PROVE  \E d \in Promises, how \in {"value", "error", "promise"},
            what \in Values \cup {Blank} \cup Errors \cup Promises : Produces(d, how, what)
<1> DEFINE d == Active[wcursor].outer
<1>1. PICK how \in {"value", "error", "promise"},
           what \in Values \cup {Blank} \cup Errors \cup Promises :
        /\ Return(how, what)
        /\ \/ /\ how = "value" /\ what \in Payload(d) /\ UNCHANGED wrappers
              /\ Settle(HelperQueue, d, "RESOLVED", what)
           \/ /\ how = "error" /\ what \in Errors /\ UNCHANGED wrappers
              /\ Settle(HelperQueue, d, "REJECTED", what)
           \/ /\ how = "promise" /\ what \in Promises
              /\ associate_status(d, what)
  <2>1. ASSUME NEW v \in Values \cup {Blank}, ReturnValue(v)
        PROVE  /\ Return("value", v) /\ v \in Payload(d) /\ UNCHANGED wrappers
               /\ Settle(HelperQueue, d, "RESOLVED", v)
    BY <2>1 DEF ReturnValue, resolve_impl
  <2>2. ASSUME NEW q \in Promises, ReturnPromise(q)
        PROVE  Return("promise", q) /\ associate_status(d, q)
    BY <2>2 DEF ReturnPromise
  <2>3. ASSUME NEW e \in Errors, Throw(e)
        PROVE  /\ Return("error", e) /\ UNCHANGED wrappers
               /\ Settle(HelperQueue, d, "REJECTED", e)
    BY <2>3 DEF Throw, reject_impl
  <2> HIDE DEF d
  <2>4. QED
    BY <2>1, <2>2, <2>3 DEF Returns
<1>2. /\ pc = "user" /\ pc' = "calling" /\ wcursor' = wcursor + 1
      /\ origin' = [origin EXCEPT ![d] = [how |-> how, what |-> what]]
      /\ UNCHANGED <<created, reaction, n_reactions, runs, escapes>>
  BY <1>1 DEF Return
<1>3. wcursor <= Len(Active) /\ ~Active[wcursor].adopt
  BY <1>2 DEF TInv, LoopInv
<1>4. /\ Current \in Promises /\ status[Current] \in Settled
      /\ wcursor \in 1 .. Len(wrappers[Current][status[Current]])
      /\ wrappers[Current][status[Current]][wcursor] = Active[wcursor]
      /\ d \in created /\ d \in Promises
  BY <1>2, <1>3, AtCursor DEF Calling
<1>5. runs[d] > 0
  BY <1>2, <1>3, <1>4 DEF PassedInv, Entered
<1> HIDE DEF d
<1>6. GrowStep /\ Advance
  BY ReturnsGrow
<1>7. /\ \A r \in Promises \ {d} : status'[r] = status[r] /\ result'[r] = result[r]
      /\ NewWrappers({Adoption(d)})
      /\ status'[d] = "RESOLVED" => result'[d] \in Values \cup {Blank}
      /\ status'[d] = "REJECTED" => result'[d] \in Errors
      /\ \/ /\ how = "value" /\ UNCHANGED wrappers
            /\ status[d] = "PENDING" => status'[d] = "RESOLVED" /\ result'[d] = what
         \/ /\ how = "error" /\ UNCHANGED wrappers
            /\ status[d] = "PENDING" => status'[d] = "REJECTED" /\ result'[d] = what
         \/ /\ how = "promise" /\ what \in Promises
            /\ \A r \in Promises \ {what} : wrappers'[r] = wrappers[r]
            /\ status[d] = "PENDING" /\ status'[d] \in Settled =>
                 status'[d] = status[what] /\ result'[d] = result[what]
  <2>1. CASE /\ how = "value" /\ what \in Payload(d) /\ UNCHANGED wrappers
             /\ Settle(HelperQueue, d, "RESOLVED", what)
    <3>1. /\ \A r \in Promises \ {d} : status'[r] = status[r] /\ result'[r] = result[r]
          /\ status[d] = "PENDING" => status'[d] = "RESOLVED" /\ result'[d] = what
          /\ status[d] # "PENDING" => status'[d] = status[d] /\ result'[d] = result[d]
      BY <1>4, <2>1, SettleFacts DEF TInv, Settled
    <3>2. NewWrappers({Adoption(d)})
      BY <2>1, NoNewWrappers DEF TInv
    <3>3. QED
      BY <1>4, <2>1, <3>1, <3>2 DEF ResultInv, Payload
  <2>2. CASE /\ how = "error" /\ what \in Errors /\ UNCHANGED wrappers
             /\ Settle(HelperQueue, d, "REJECTED", what)
    <3>1. /\ \A r \in Promises \ {d} : status'[r] = status[r] /\ result'[r] = result[r]
          /\ status[d] = "PENDING" => status'[d] = "REJECTED" /\ result'[d] = what
          /\ status[d] # "PENDING" => status'[d] = status[d] /\ result'[d] = result[d]
      BY <1>4, <2>2, SettleFacts DEF TInv, Settled
    <3>2. NewWrappers({Adoption(d)})
      BY <2>2, NoNewWrappers DEF TInv
    <3>3. QED
      BY <1>4, <2>2, <3>1, <3>2 DEF ResultInv
  <2>3. CASE how = "promise" /\ what \in Promises /\ associate_status(d, what)
    <3>1. /\ \A r \in Promises \ {d} : status'[r] = status[r] /\ result'[r] = result[r]
          /\ \A r \in Promises \ {what} : wrappers'[r] = wrappers[r]
          /\ status[what] \in Settled /\ status[d] = "PENDING" =>
                status'[d] = status[what] /\ result'[d] = result[what]
          /\ status[what] = "PENDING" => status'[d] = status[d] /\ result'[d] = result[d]
      BY <1>4, <2>3, AssociateFacts DEF TInv
    <3>2. NewWrappers({Adoption(d)})
      BY <1>4, <2>3, AssociateGrows DEF TInv
    <3>3. status[d] \in Settled => status'[d] = status[d] /\ result'[d] = result[d]
      BY <1>4, <1>6 DEF GrowStep, CellsGrow
    <3>4. status[d] \in {"PENDING"} \cup Settled /\ status[what] \in {"PENDING"} \cup Settled
      BY <1>4, <2>3 DEF TInv, TypeOK, Status
    <3>5. /\ status'[d] = "RESOLVED" => result'[d] \in Values \cup {Blank}
          /\ status'[d] = "REJECTED" => result'[d] \in Errors
      BY <1>4, <2>3, <3>1, <3>3, <3>4 DEF ResultInv
    <3>6. status[d] = "PENDING" /\ status'[d] \in Settled =>
            status'[d] = status[what] /\ result'[d] = result[what]
      BY <3>1, <3>4 DEF Settled
    <3>7. QED
      BY <2>3, <3>1, <3>2, <3>5, <3>6
  <2>4. QED
    BY <1>1, <2>1, <2>2, <2>3 DEF d
<1>8. Adopts(d)
  BY <1>2, <1>4, <1>5, <1>6, <1>7 DEF Adopts
<1>9. d = Active[wcursor].outer
  BY DEF d
<1>10. Produces(d, how, what)
  BY <1>2, <1>7, <1>8, <1>9 DEF Produces
<1>11. QED
  BY <1>4, <1>10

(* The wrappers after such a step are the old ones, and adoptions of d.     *)
LEMMA OldOrNew ==
  ASSUME TInv, NEW d, Adopts(d), NEW q \in Promises, NEW s \in Settled,
         NEW i \in 1 .. Len(wrappers'[q][s])
  PROVE  \/ i \in 1 .. Len(wrappers[q][s]) /\ wrappers'[q][s][i] = wrappers[q][s][i]
         \/ wrappers'[q][s][i] = Adoption(d)
<1>1. Len(wrappers[q][s]) \in Nat /\ Len(wrappers'[q][s]) \in Nat
  BY DEF TInv, TypeOK, Adopts, GrowStep, WrappersType
<1>2. CASE i <= Len(wrappers[q][s])
  BY <1>1, <1>2 DEF Adopts, GrowStep, WrappersGrow
<1>3. CASE i > Len(wrappers[q][s])
  BY <1>1, <1>3 DEF Adopts, NewWrappers
<1>4. QED
  BY <1>1, <1>2, <1>3

(* call_back passes no callback in such a step. *)
LEMMA EnteredSame ==
  ASSUME TInv, NEW d, Adopts(d), NEW q \in Promises, NEW s \in Settled,
         NEW i \in 1 .. Len(wrappers[q][s]), ~wrappers[q][s][i].adopt
  PROVE  /\ Entered(q, s, i)' <=> Entered(q, s, i)
         /\ Returned(q, s, i) => Returned(q, s, i)'
<1>1. Advance /\ CellsGrow /\ WrappersGrow /\ cursor' = cursor
      /\ (wcursor' = wcursor \/ pc = "user" \/ Active[wcursor].adopt)
  BY DEF Adopts, GrowStep
<1>2. CASE ~Calling
  BY <1>1, <1>2 DEF Advance, Calling, Entered, Returned
<1>3. CASE Calling
  <2>1. /\ Current \in Promises /\ status[Current] \in Settled
        /\ Current' = Current /\ status'[Current] = status[Current]
    BY <1>1, <1>3, ActiveGrows DEF TInv
  <2>2. wcursor \in Nat /\ i \in Nat
    BY DEF TInv, TypeOK
  <2>3. CASE Current = q /\ status[q] = s
    <3>1. Current' = q /\ status'[q] = s
      BY <2>1, <2>3
    <3>2. CASE pc' = pc /\ wcursor' = wcursor
      BY <2>3, <3>1, <3>2 DEF Entered, Returned, Calling
    <3>3. CASE pc' = "calling" /\ wcursor' = wcursor + 1 /\ pc = "user"
      BY <2>2, <2>3, <3>1, <3>3 DEF Entered, Returned, Calling
    <3>4. CASE pc' = "calling" /\ wcursor' = wcursor + 1 /\ pc # "user"
      <4>1. Active[wcursor].adopt /\ Active = wrappers[q][s]
        BY <1>1, <2>2, <2>3, <3>4 DEF Active
      <4>2. i # wcursor
        BY <4>1
      <4>3. QED
        BY <1>3, <2>2, <2>3, <3>1, <3>4, <4>2 DEF Entered, Returned, Calling
    <3>5. QED
      BY <1>1, <3>2, <3>3, <3>4 DEF Advance
  <2>4. CASE ~(Current = q /\ status[q] = s)
    <3>1. ~(Current' = q /\ status'[q] = s)
      BY <2>1, <2>4
    <3>2. QED
      BY <2>4, <3>1 DEF Entered, Returned
  <2>5. QED
    BY <2>3, <2>4
<1>4. QED
  BY <1>2, <1>3

LEMMA AdoptionFields ==
  ASSUME NEW d
  PROVE  Adoption(d).adopt /\ Adoption(d).outer = d
BY DEF Adoption

(* The parts of the invariant that do not look at origin. *)
HInv == ResultInv /\ StoredInv /\ PassedInv /\ CompleteInv /\ OnceInv

LEMMA AdoptsStored ==
  ASSUME TInv, HInv, NEW d, Adopts(d)
  PROVE  StoredInv'
<1>1. /\ UNCHANGED <<reaction, n_reactions>> /\ created \subseteq created'
  BY DEF Adopts, GrowStep
<1>2. ASSUME NEW p \in Promises, NEW s \in Settled, NEW i \in 1 .. Len(wrappers'[p][s]),
             ~wrappers'[p][s][i].adopt
      PROVE  /\ i \in 1 .. Len(wrappers[p][s])
             /\ wrappers'[p][s][i] = wrappers[p][s][i]
  BY <1>2, OldOrNew, AdoptionFields
<1>3. \A e \in Promises :
        /\ reaction[e].nth <= n_reactions
        /\ reaction[e] # NoReaction => reaction[e].on \in created' /\ reaction[e].to \in Settled
  BY <1>1 DEF HInv, StoredInv
<1>4. ASSUME NEW p \in Promises, NEW s \in Settled, NEW i \in 1 .. Len(wrappers'[p][s]),
             ~wrappers'[p][s][i].adopt
      PROVE  /\ reaction[wrappers'[p][s][i].outer].on = p
             /\ reaction[wrappers'[p][s][i].outer].to = s
  <2>1. i \in 1 .. Len(wrappers[p][s]) /\ wrappers'[p][s][i] = wrappers[p][s][i]
    BY <1>2, <1>4
  <2>2. QED
    BY SMTT(30), <1>4, <2>1 DEF HInv, StoredInv
<1>5. ASSUME NEW p \in Promises, NEW s \in Settled,
             NEW i \in 1 .. Len(wrappers'[p][s]), NEW j \in 1 .. Len(wrappers'[p][s]),
             i < j, ~wrappers'[p][s][i].adopt, ~wrappers'[p][s][j].adopt
      PROVE  reaction[wrappers'[p][s][i].outer].nth < reaction[wrappers'[p][s][j].outer].nth
  <2>1. /\ i \in 1 .. Len(wrappers[p][s]) /\ wrappers'[p][s][i] = wrappers[p][s][i]
        /\ j \in 1 .. Len(wrappers[p][s]) /\ wrappers'[p][s][j] = wrappers[p][s][j]
    BY <1>2, <1>5
  <2>2. QED
    BY <1>5, <2>1 DEF HInv, StoredInv
<1>6. QED
  BY SMTT(60), <1>1, <1>3, <1>4, <1>5 DEF StoredInv

LEMMA AdoptsPassed ==
  ASSUME TInv, HInv, NEW d, Adopts(d)
  PROVE  PassedInv' /\ OnceInv'
<1>1. UNCHANGED <<reaction, runs, escapes>> /\ (reaction[d] # NoReaction => runs[d] > 0)
  BY DEF Adopts
<1>2. ASSUME NEW p \in Promises, NEW s \in Settled, NEW i \in 1 .. Len(wrappers'[p][s])
      PROVE  LET w == wrappers'[p][s][i] IN
             /\ ~w.adopt /\ Entered(p, s, i)' => runs[w.outer] > 0
             /\ w.adopt /\ reaction[w.outer] # NoReaction => runs[w.outer] > 0
             /\ escapes[p] = 0 /\ ~w.adopt /\ ~Entered(p, s, i)' => runs[w.outer] = 0
  <2>1. CASE i \in 1 .. Len(wrappers[p][s]) /\ wrappers'[p][s][i] = wrappers[p][s][i]
    <3>1. ~wrappers[p][s][i].adopt => (Entered(p, s, i)' <=> Entered(p, s, i))
      BY <2>1, EnteredSame
    <3>2. QED
      BY <2>1, <3>1 DEF HInv, PassedInv, OnceInv
  <2>2. CASE wrappers'[p][s][i] = Adoption(d)
    BY <1>1, <2>2, AdoptionFields
  <2>3. QED
    BY <2>1, <2>2, OldOrNew
<1>3. PassedInv'
  BY <1>1, <1>2 DEF PassedInv
<1>4. OnceInv'
  BY <1>1, <1>2 DEF HInv, OnceInv
<1>5. QED
  BY <1>3, <1>4

LEMMA AdoptsComplete ==
  ASSUME TInv, HInv, NEW d, Adopts(d)
  PROVE  CompleteInv' /\ ResultInv'
<1>1. ResultInv'
  BY DEF HInv, ResultInv, Adopts
<1>2. UNCHANGED <<reaction, runs>>
  BY DEF Adopts
<1>3. ASSUME NEW e \in Promises, reaction[e] # NoReaction, runs[e] = 0,
             status'[reaction[e].on] \in {"PENDING", reaction[e].to}
      PROVE  \E i \in 1 .. Len(wrappers'[reaction[e].on][reaction[e].to]) :
               /\ ~wrappers'[reaction[e].on][reaction[e].to][i].adopt
               /\ wrappers'[reaction[e].on][reaction[e].to][i].outer = e
  <2> DEFINE p == reaction[e].on
             s == reaction[e].to
  <2>1. p \in Promises /\ s \in Settled
    BY <1>3 DEF HInv, StoredInv, TInv, TypeOK
  <2>2. status[p] \in {"PENDING", s}
    <3>1. status[p] \in Settled => status'[p] = status[p]
      BY <2>1 DEF Adopts, GrowStep, CellsGrow
    <3>2. status[p] \in Settled \/ status[p] = "PENDING"
      BY <2>1 DEF TInv, TypeOK, Status
    <3>3. QED
      BY <1>3, <3>1, <3>2
  <2>3. PICK i \in 1 .. Len(wrappers[p][s]) :
          ~wrappers[p][s][i].adopt /\ wrappers[p][s][i].outer = e
    BY <1>3, <2>2 DEF HInv, CompleteInv
  <2>4. i \in 1 .. Len(wrappers'[p][s]) /\ wrappers'[p][s][i] = wrappers[p][s][i]
    <3>1. Len(wrappers[p][s]) \in Nat /\ Len(wrappers'[p][s]) \in Nat
      BY <2>1 DEF TInv, TypeOK, Adopts, GrowStep, WrappersType
    <3>2. /\ Len(wrappers'[p][s]) >= Len(wrappers[p][s])
          /\ \A j \in 1 .. Len(wrappers[p][s]) : wrappers'[p][s][j] = wrappers[p][s][j]
      <4> HIDE DEF p, s
      <4>1. QED
        BY <2>1 DEF Adopts, GrowStep, WrappersGrow
    <3> HIDE DEF p, s
    <3>3. QED
      BY <2>3, <3>1, <3>2
  <2>5. QED
    BY <2>3, <2>4
<1>4. CompleteInv'
  BY <1>2, <1>3 DEF CompleteInv
<1>5. QED
  BY <1>1, <1>4

LEMMA AdoptsKeeps ==
  ASSUME TInv, HInv, NEW d, Adopts(d)
  PROVE  HInv'
BY AdoptsStored, AdoptsPassed, AdoptsComplete DEF HInv

(* then and _catch: a new callback comes last in its list, and no stored    *)
(* one belongs to the new promise.                                          *)
Registers(p, d, s, w) ==
  /\ p \in created /\ d \in Promises \ created /\ created' = created \cup {d}
  /\ n_reactions' = n_reactions + 1
  /\ reaction' = [reaction EXCEPT ![d] = [on |-> p, to |-> s, nth |-> n_reactions']]
  /\ UNCHANGED <<status, result, origin, runs, escapes>> /\ UNCHANGED loop
  /\ \A q \in Promises, t \in Settled :
       /\ Len(wrappers'[q][t]) \in Nat /\ Len(wrappers'[q][t]) >= Len(wrappers[q][t])
       /\ \A i \in 1 .. Len(wrappers[q][t]) :
            wrappers'[q][t][i] = wrappers[q][t][i] /\ wrappers[q][t][i].outer \in Promises \ {d}
       /\ \A i \in 1 .. Len(wrappers'[q][t]) :
            \/ i \in 1 .. Len(wrappers[q][t])
            \/ /\ q = p /\ t = s /\ i = Len(wrappers[p][s]) + 1
               /\ wrappers'[q][t][i] = w
  /\ status[p] \in {"PENDING", s} =>
       /\ Len(wrappers[p][s]) + 1 \in 1 .. Len(wrappers'[p][s])
       /\ wrappers'[p][s][Len(wrappers[p][s]) + 1] = w
  /\ \A q \in Promises, t \in Settled, i \in Nat :
       /\ Entered(q, t, i)' <=> Entered(q, t, i)
       /\ Returned(q, t, i)' <=> Returned(q, t, i)

LEMMA ReactRegisters ==
  ASSUME TInv, NEW p \in Promises, NEW d \in Promises, NEW s \in Settled,
         NEW a \in SUBSET Errors, React(p, d, s, Callback(d, a))
  PROVE  Registers(p, d, s, Callback(d, a))
<1> DEFINE w == Callback(d, a)
<1>1. /\ p \in created /\ d \in Promises \ created /\ created' = created \cup {d}
      /\ n_reactions' = n_reactions + 1
      /\ reaction' = [reaction EXCEPT ![d] = [on |-> p, to |-> s, nth |-> n_reactions']]
      /\ UNCHANGED <<status, result, origin, runs, escapes>> /\ UNCHANGED loop
      /\ IF status[p] \in Settled \ {s} THEN wrappers' = wrappers
         ELSE wrappers' = [wrappers EXCEPT ![p][s] = Append(@, w)]
  BY DEF React, Fresh
<1>2. w \in Wrapper
  BY DEF Callback, Wrapper
<1>3. GrowStep
  BY ReactApiGrows
<1> HIDE DEF w
<1>4. ASSUME NEW q \in Promises, NEW t \in Settled
      PROVE  /\ wrappers[q][t] \in Seq(Wrapper) /\ Len(wrappers[q][t]) \in Nat
             /\ \A i \in 1 .. Len(wrappers[q][t]) : wrappers[q][t][i].outer \in Promises \ {d}
             /\ ~(q = p /\ t = s) => wrappers'[q][t] = wrappers[q][t]
  <2>1. wrappers[q][t] \in Seq(Wrapper)
    BY DEF TInv, TypeOK
  <2>2. \A i \in 1 .. Len(wrappers[q][t]) : wrappers[q][t][i].outer \in created
    BY DEF TInv, OuterInv
  <2>3. ~(q = p /\ t = s) => wrappers'[q][t] = wrappers[q][t]
    BY <1>1 DEF TInv, TypeOK
  <2>4. QED
    BY SMTT(30), <1>1, <2>1, <2>2, <2>3 DEF TInv, TypeOK
<1>5. \/ wrappers'[p][s] = wrappers[p][s] /\ status[p] \in Settled \ {s}
      \/ wrappers'[p][s] = Append(wrappers[p][s], w)
  BY <1>1 DEF TInv, TypeOK
<1>6. /\ Len(Append(wrappers[p][s], w)) = Len(wrappers[p][s]) + 1
      /\ \A i \in 1 .. Len(wrappers[p][s]) : Append(wrappers[p][s], w)[i] = wrappers[p][s][i]
      /\ Append(wrappers[p][s], w)[Len(wrappers[p][s]) + 1] = w
  BY <1>2, <1>4, AppendFacts
<1>7. ASSUME NEW q \in Promises, NEW t \in Settled
      PROVE  /\ Len(wrappers'[q][t]) \in Nat /\ Len(wrappers'[q][t]) >= Len(wrappers[q][t])
             /\ \A i \in 1 .. Len(wrappers[q][t]) :
                  /\ wrappers'[q][t][i] = wrappers[q][t][i]
                  /\ wrappers[q][t][i].outer \in Promises \ {d}
             /\ \A i \in 1 .. Len(wrappers'[q][t]) :
                  \/ i \in 1 .. Len(wrappers[q][t])
                  \/ /\ q = p /\ t = s /\ i = Len(wrappers[p][s]) + 1
                     /\ wrappers'[q][t][i] = w
  <2>1. CASE wrappers'[q][t] = wrappers[q][t]
    BY <1>4, <2>1
  <2>2. CASE q = p /\ t = s /\ wrappers'[p][s] = Append(wrappers[p][s], w)
    BY SMTT(30), <1>4, <1>6, <2>2
  <2>3. QED
    BY <1>4, <1>5, <2>1, <2>2
<1>8. status[p] \in {"PENDING", s} =>
        /\ Len(wrappers[p][s]) + 1 \in 1 .. Len(wrappers'[p][s])
        /\ wrappers'[p][s][Len(wrappers[p][s]) + 1] = w
  <2>1. status[p] \in {"PENDING", s} => wrappers'[p][s] = Append(wrappers[p][s], w)
    BY <1>5 DEF Settled
  <2>2. QED
    BY <1>4, <1>6, <2>1
<1>9. ASSUME NEW q \in Promises, NEW t \in Settled, NEW i \in Nat
      PROVE  /\ Entered(q, t, i)' <=> Entered(q, t, i)
             /\ Returned(q, t, i)' <=> Returned(q, t, i)
  <2>1. CASE Calling
    <3>1. Current' = Current
      BY <1>1, <1>3, <2>1, ActiveGrows DEF TInv, GrowStep
    <3>2. QED
      BY <1>1, <3>1 DEF Entered, Returned, Calling, loop
  <2>2. CASE ~Calling
    BY <1>1, <2>2 DEF Entered, Returned, Calling, loop
  <2>3. QED
    BY <2>1, <2>2
<1>10. QED
  BY <1>1, <1>7, <1>8, <1>9 DEF Registers, w

LEMMA CallbackFields ==
  ASSUME NEW d, NEW a
  PROVE  ~Callback(d, a).adopt /\ Callback(d, a).outer = d
BY DEF Callback

LEMMA RegistersKeeps ==
  ASSUME TInv, HInv, NEW p \in Promises, NEW d \in Promises, NEW s \in Settled,
         NEW a \in SUBSET Errors, Registers(p, d, s, Callback(d, a))
  PROVE  HInv'
<1> DEFINE w == Callback(d, a)
           n == Len(wrappers[p][s]) + 1
<1>1. /\ d \notin created /\ created' = created \cup {d} /\ p \in created
      /\ reaction[d] = NoReaction /\ runs[d] = 0
      /\ ~w.adopt /\ w.outer = d
      /\ UNCHANGED <<status, result, runs, escapes>> /\ UNCHANGED loop
  BY CallbackFields DEF Registers, TInv, FreshInv
<1>2. /\ \A e \in Promises \ {d} : reaction'[e] = reaction[e]
      /\ reaction'[d] = [on |-> p, to |-> s, nth |-> n_reactions + 1]
      /\ n_reactions' = n_reactions + 1 /\ n_reactions \in Nat
      /\ \A e \in Promises : reaction[e].nth \in Nat /\ reaction[e].nth <= n_reactions
  BY SMTT(30) DEF Registers, TInv, TypeOK, HInv, StoredInv
<1>3. /\ reaction'[d].on = p /\ reaction'[d].to = s /\ reaction'[d].nth = n_reactions + 1
  BY <1>2
<1>4. ASSUME NEW q \in Promises, NEW t \in Settled
      PROVE  /\ Len(wrappers[q][t]) \in Nat
             /\ Len(wrappers'[q][t]) \in Nat /\ Len(wrappers'[q][t]) >= Len(wrappers[q][t])
             /\ \A i \in 1 .. Len(wrappers[q][t]) :
                  /\ wrappers'[q][t][i] = wrappers[q][t][i]
                  /\ wrappers[q][t][i].outer \in Promises \ {d}
             /\ \A i \in 1 .. Len(wrappers'[q][t]) :
                  i \in 1 .. Len(wrappers[q][t]) \/ (q = p /\ t = s /\ i = n /\ wrappers'[q][t][i] = w)
  BY SMTT(30) DEF Registers, TInv, TypeOK
<1>5. \A q \in Promises, t \in Settled, i \in Nat : Entered(q, t, i)' <=> Entered(q, t, i)
  BY DEF Registers
<1>6. status[p] \in {"PENDING", s} => n \in 1 .. Len(wrappers'[p][s]) /\ wrappers'[p][s][n] = w
  BY DEF Registers
<1>7. ~Entered(p, s, n)
  <2>1. Calling /\ Current = p /\ status[p] = s =>
          /\ wcursor \in 1 .. Len(wrappers[p][s]) + 1
          /\ pc = "user" => wcursor <= Len(wrappers[p][s])
    BY DEF TInv, LoopInv, Active
  <2>2. Len(wrappers[p][s]) \in Nat
    BY <1>4
  <2>3. QED
    BY <2>1, <2>2 DEF Entered, Returned, Calling
<1> HIDE DEF w, n
<1>old. ASSUME NEW q \in Promises, NEW t \in Settled, NEW i \in 1 .. Len(wrappers[q][t])
        PROVE  /\ i \in 1 .. Len(wrappers'[q][t])
               /\ wrappers'[q][t][i] = wrappers[q][t][i]
               /\ reaction'[wrappers[q][t][i].outer] = reaction[wrappers[q][t][i].outer]
               /\ reaction[wrappers[q][t][i].outer].nth \in Nat
               /\ reaction[wrappers[q][t][i].outer].nth <= n_reactions
  <2>1. wrappers[q][t][i].outer \in Promises \ {d} /\ wrappers'[q][t][i] = wrappers[q][t][i]
    BY <1>4
  <2>2. i \in 1 .. Len(wrappers'[q][t])
    BY <1>4
  <2>3. QED
    BY <1>2, <2>1, <2>2
<1>8. ResultInv'
  BY <1>1 DEF HInv, ResultInv
<1>9. StoredInv'
  <2>1. ASSUME NEW e \in Promises
        PROVE  /\ reaction'[e].nth <= n_reactions'
               /\ reaction'[e] # NoReaction =>
                    reaction'[e].on \in created' /\ reaction'[e].to \in Settled
    <3>1. CASE e = d
      BY <1>1, <1>2, <1>3, <3>1
    <3>2. CASE e # d
      BY <1>1, <1>2, <3>2 DEF HInv, StoredInv
    <3>3. QED
      BY <3>1, <3>2
  <2>2. ASSUME NEW q \in Promises, NEW t \in Settled, NEW i \in 1 .. Len(wrappers'[q][t]),
               ~wrappers'[q][t][i].adopt
        PROVE  /\ reaction'[wrappers'[q][t][i].outer].on = q
               /\ reaction'[wrappers'[q][t][i].outer].to = t
    <3>1. CASE i \in 1 .. Len(wrappers[q][t])
      <4>1. ~wrappers[q][t][i].adopt
        BY <1>old, <2>2, <3>1
      <4>2. /\ reaction[wrappers[q][t][i].outer].on = q
            /\ reaction[wrappers[q][t][i].outer].to = t
        BY <3>1, <4>1 DEF HInv, StoredInv
      <4>3. QED
        <5>1. /\ wrappers'[q][t][i] = wrappers[q][t][i]
              /\ reaction'[wrappers[q][t][i].outer] = reaction[wrappers[q][t][i].outer]
          BY <1>old, <3>1
        <5>2. QED
          BY <4>2, <5>1
    <3>2. CASE q = p /\ t = s /\ wrappers'[q][t][i] = w
      BY <1>1, <1>3, <3>2
    <3>3. QED
      BY <1>4, <3>1, <3>2
  <2>3. ASSUME NEW q \in Promises, NEW t \in Settled,
               NEW i \in 1 .. Len(wrappers'[q][t]), NEW j \in 1 .. Len(wrappers'[q][t]),
               i < j, ~wrappers'[q][t][i].adopt, ~wrappers'[q][t][j].adopt
        PROVE  reaction'[wrappers'[q][t][i].outer].nth < reaction'[wrappers'[q][t][j].outer].nth
    <3>1. CASE j \in 1 .. Len(wrappers[q][t])
      <4>1. i \in 1 .. Len(wrappers[q][t])
        BY <1>4, <2>3, <3>1
      <4>2. QED
        <5>1. ~wrappers[q][t][i].adopt /\ ~wrappers[q][t][j].adopt
          BY <1>old, <2>3, <3>1, <4>1
        <5>2. reaction[wrappers[q][t][i].outer].nth < reaction[wrappers[q][t][j].outer].nth
          BY <2>3, <3>1, <4>1, <5>1 DEF HInv, StoredInv
        <5>3. QED
          <6>1. /\ wrappers'[q][t][i] = wrappers[q][t][i]
                /\ reaction'[wrappers[q][t][i].outer] = reaction[wrappers[q][t][i].outer]
            BY <1>old, <4>1
          <6>2. /\ wrappers'[q][t][j] = wrappers[q][t][j]
                /\ reaction'[wrappers[q][t][j].outer] = reaction[wrappers[q][t][j].outer]
            BY <1>old, <3>1
          <6>3. QED
            BY <5>2, <6>1, <6>2
    <3>2. CASE q = p /\ t = s /\ j = n /\ wrappers'[q][t][j] = w
      <4>1. i \in 1 .. Len(wrappers[q][t])
        BY <1>4, <2>3, <3>2 DEF n
      <4>2. QED
        <5>1. reaction'[wrappers'[q][t][j].outer].nth = n_reactions + 1
          BY <1>1, <1>3, <3>2
        <5>2. /\ reaction'[wrappers'[q][t][i].outer].nth \in Nat
              /\ reaction'[wrappers'[q][t][i].outer].nth <= n_reactions
          <6>1. /\ wrappers'[q][t][i] = wrappers[q][t][i]
                /\ reaction'[wrappers[q][t][i].outer] = reaction[wrappers[q][t][i].outer]
                /\ reaction[wrappers[q][t][i].outer].nth \in Nat
                /\ reaction[wrappers[q][t][i].outer].nth <= n_reactions
            BY <1>old, <4>1
          <6>2. QED
            BY <6>1
        <5>3. QED
          BY <1>2, <5>1, <5>2
    <3>3. QED
      BY <1>4, <3>1, <3>2
  <2>4. QED
    BY <2>1, <2>2, <2>3 DEF StoredInv
<1>10. ASSUME NEW q \in Promises, NEW t \in Settled, NEW i \in 1 .. Len(wrappers'[q][t])
       PROVE  LET x == wrappers'[q][t][i] IN
              /\ ~x.adopt /\ Entered(q, t, i)' => runs[x.outer] > 0
              /\ x.adopt /\ reaction'[x.outer] # NoReaction => runs[x.outer] > 0
              /\ escapes[q] = 0 /\ ~x.adopt /\ ~Entered(q, t, i)' => runs[x.outer] = 0
  <2>1. Entered(q, t, i)' <=> Entered(q, t, i)
    BY <1>4, <1>5
  <2>2. CASE i \in 1 .. Len(wrappers[q][t])
    <3> DEFINE x == wrappers[q][t][i]
    <3>1. wrappers'[q][t][i] = x /\ reaction'[x.outer] = reaction[x.outer]
      BY <1>old, <2>2
    <3>2. /\ ~x.adopt /\ Entered(q, t, i) => runs[x.outer] > 0
          /\ x.adopt /\ reaction[x.outer] # NoReaction => runs[x.outer] > 0
          /\ escapes[q] = 0 /\ ~x.adopt /\ ~Entered(q, t, i) => runs[x.outer] = 0
      BY <2>2 DEF HInv, PassedInv, OnceInv
    <3> HIDE DEF x
    <3>3. QED
      BY <2>1, <3>1, <3>2
  <2>3. CASE q = p /\ t = s /\ i = n /\ wrappers'[q][t][i] = w
    BY <1>1, <1>7, <2>1, <2>3
  <2>4. QED
    BY <1>4, <2>2, <2>3
<1>11. PassedInv' /\ OnceInv'
  <2>1. PassedInv'
    BY <1>1, <1>10 DEF PassedInv
  <2>2. ASSUME NEW q \in Promises, escapes[q] = 0, NEW e \in Promises, reaction'[e].on = q
        PROVE  runs[e] <= 1
    <3>1. CASE e = d
      BY <1>1, <3>1
    <3>2. CASE e # d
      BY <1>2, <2>2, <3>2 DEF HInv, OnceInv
    <3>3. QED
      BY <3>1, <3>2
  <2>3. OnceInv'
    BY <1>1, <1>10, <2>2 DEF OnceInv
  <2>4. QED
    BY <2>1, <2>3
<1>12. CompleteInv'
  <2>1. ASSUME NEW e \in Promises, reaction'[e] # NoReaction, runs[e] = 0,
               status[reaction'[e].on] \in {"PENDING", reaction'[e].to}
        PROVE  \E i \in 1 .. Len(wrappers'[reaction'[e].on][reaction'[e].to]) :
                 /\ ~wrappers'[reaction'[e].on][reaction'[e].to][i].adopt
                 /\ wrappers'[reaction'[e].on][reaction'[e].to][i].outer = e
    <3>1. CASE e = d
      BY <1>1, <1>3, <1>6, <2>1, <3>1
    <3>2. CASE e # d
      <4>1. reaction'[e] = reaction[e]
        BY <1>2, <3>2
      <4>2. reaction[e].on \in Promises /\ reaction[e].to \in Settled
        BY <2>1, <4>1 DEF HInv, StoredInv, TInv, TypeOK
      <4>3. PICK i \in 1 .. Len(wrappers[reaction[e].on][reaction[e].to]) :
              /\ ~wrappers[reaction[e].on][reaction[e].to][i].adopt
              /\ wrappers[reaction[e].on][reaction[e].to][i].outer = e
        BY <2>1, <4>1 DEF HInv, CompleteInv
      <4>4. QED
        <5>1. /\ i \in 1 .. Len(wrappers'[reaction[e].on][reaction[e].to])
              /\ wrappers'[reaction[e].on][reaction[e].to][i] =
                   wrappers[reaction[e].on][reaction[e].to][i]
          BY <1>old, <4>2, <4>3
        <5>2. QED
          BY <4>1, <4>3, <5>1
    <3>3. QED
      BY <3>1, <3>2
  <2>2. QED
    BY <1>1, <2>1 DEF CompleteInv
<1>13. QED
  BY <1>8, <1>9, <1>11, <1>12 DEF HInv

(* A promise that then or _catch returned has one stored callback at most.  *)
LEMMA StoredOnce ==
  ASSUME TInv, StoredInv,
         NEW p \in Promises, NEW s \in Settled, NEW i \in 1 .. Len(wrappers[p][s]),
         NEW q \in Promises, NEW t \in Settled, NEW j \in 1 .. Len(wrappers[q][t]),
         ~wrappers[p][s][i].adopt, ~wrappers[q][t][j].adopt,
         wrappers[p][s][i].outer = wrappers[q][t][j].outer
  PROVE  p = q /\ s = t /\ i = j
<1>1. p = q /\ s = t
  <2>1. \A a \in Promises, b \in Settled : \A k \in 1 .. Len(wrappers[a][b]) :
          ~wrappers[a][b][k].adopt =>
            reaction[wrappers[a][b][k].outer].on = a /\ reaction[wrappers[a][b][k].outer].to = b
    BY DEF StoredInv
  <2>2. reaction[wrappers[p][s][i].outer].on = p /\ reaction[wrappers[p][s][i].outer].to = s
    BY SMTT(30), <2>1
  <2>3. reaction[wrappers[q][t][j].outer].on = q /\ reaction[wrappers[q][t][j].outer].to = t
    BY <2>1
  <2>4. QED
    BY <2>2, <2>3
<1>2. i \in Int /\ j \in Int
  OBVIOUS
<1>3. reaction[wrappers[p][s][i].outer].nth \in Nat
  <2>1. wrappers[p][s][i].outer \in created
    BY DEF TInv, OuterInv
  <2>2. QED
    BY <2>1 DEF TInv, TypeOK
<1>4. ~(i < j)
  <2>1. i < j => reaction[wrappers[p][s][i].outer].nth < reaction[wrappers[p][s][j].outer].nth
    BY <1>1 DEF StoredInv
  <2>2. QED
    BY <1>1, <1>3, <2>1
<1>5. ~(j < i)
  <2>1. j < i => reaction[wrappers[p][s][j].outer].nth < reaction[wrappers[p][s][i].outer].nth
    BY <1>1 DEF StoredInv
  <2>2. QED
    BY <1>1, <1>3, <2>1
<1>6. QED
  BY <1>1, <1>2, <1>4, <1>5

(* A callback is entered: call_back was at it, and had not been before.     *)
LEMMA EnterFacts ==
  ASSUME TInv, EnterCallback
  PROVE  \E d \in Promises :
           /\ d = Active[wcursor].outer /\ pc = "calling" /\ pc' = "user"
           /\ Current \in Promises /\ status[Current] \in Settled
           /\ wcursor \in 1 .. Len(wrappers[Current][status[Current]])
           /\ ~wrappers[Current][status[Current]][wcursor].adopt
           /\ wrappers[Current][status[Current]][wcursor].outer = d
           /\ runs'[d] > 0 /\ (runs[d] = 0 => runs'[d] = 1)
           /\ \A e \in Promises \ {d} : runs'[e] = runs[e]
           /\ UNCHANGED <<created, status, result, wrappers, reaction, n_reactions, origin,
                          escapes>>
           /\ \A q \in Promises, t \in Settled, i \in Nat :
                /\ Entered(q, t, i)' <=>
                     Entered(q, t, i) \/ (q = Current /\ t = status[Current] /\ i = wcursor)
                /\ Returned(q, t, i)' <=> Returned(q, t, i)
           /\ ~Entered(Current, status[Current], wcursor)
<1> DEFINE d == Active[wcursor].outer
<1>1. /\ pc = "calling" /\ pc' = "user" /\ wcursor <= Len(Active) /\ ~Active[wcursor].adopt
      /\ runs' = [runs EXCEPT ![d] = IF @ < 2 THEN @ + 1 ELSE @]
      /\ UNCHANGED <<created, status, result, wrappers, reaction, n_reactions, origin, escapes>>
      /\ UNCHANGED <<cursor, wcursor, pending_callback_queue>>
  BY DEF EnterCallback, cells
<1>2. /\ Current \in Promises /\ status[Current] \in Settled
      /\ wcursor \in 1 .. Len(wrappers[Current][status[Current]])
      /\ wrappers[Current][status[Current]][wcursor] = Active[wcursor]
      /\ d \in Promises
  BY <1>1, AtCursor DEF Calling
<1> HIDE DEF d
<1>3. runs \in [Promises -> 0 .. 2]
  BY DEF TInv, TypeOK
<1>4. /\ runs'[d] > 0 /\ (runs[d] = 0 => runs'[d] = 1)
      /\ \A e \in Promises \ {d} : runs'[e] = runs[e]
  BY <1>1, <1>2, <1>3
<1>5. Current' = Current
  BY <1>1 DEF Current
<1>6. \A q \in Promises, t \in Settled, i \in Nat :
        /\ Entered(q, t, i)' <=>
             Entered(q, t, i) \/ (q = Current /\ t = status[Current] /\ i = wcursor)
        /\ Returned(q, t, i)' <=> Returned(q, t, i)
  BY <1>1, <1>2, <1>5 DEF Entered, Returned, Calling
<1>7. ~Entered(Current, status[Current], wcursor)
  BY <1>1, <1>2 DEF Entered, Returned
<1>8. QED
  BY <1>1, <1>2, <1>4, <1>6, <1>7 DEF d

(* A step that leaves the lists and the registrations alone keeps StoredInv. *)
LEMMA StoredKept ==
  ASSUME StoredInv, UNCHANGED <<created, wrappers, reaction, n_reactions>>
  PROVE  StoredInv'
<1>1. /\ created' = created /\ wrappers' = wrappers
      /\ reaction' = reaction /\ n_reactions' = n_reactions
  OBVIOUS
<1>2. QED
  BY SMTT(30), <1>1 DEF StoredInv

LEMMA EnterKeeps ==
  ASSUME TInv, HInv, EnterCallback
  PROVE  HInv'
<1>1. PICK d \in Promises :
           /\ Current \in Promises /\ status[Current] \in Settled
           /\ wcursor \in 1 .. Len(wrappers[Current][status[Current]])
           /\ ~wrappers[Current][status[Current]][wcursor].adopt
           /\ wrappers[Current][status[Current]][wcursor].outer = d
           /\ runs'[d] > 0 /\ (runs[d] = 0 => runs'[d] = 1)
           /\ \A e \in Promises \ {d} : runs'[e] = runs[e]
           /\ UNCHANGED <<created, status, result, wrappers, reaction, n_reactions, origin,
                          escapes>>
           /\ \A q \in Promises, t \in Settled, i \in Nat :
                Entered(q, t, i)' <=>
                  Entered(q, t, i) \/ (q = Current /\ t = status[Current] /\ i = wcursor)
           /\ ~Entered(Current, status[Current], wcursor)
  BY EnterFacts
<1>2. ResultInv' /\ StoredInv'
  <2>1. ResultInv'
    BY <1>1 DEF HInv, ResultInv
  <2>2. StoredInv'
    BY <1>1, StoredKept DEF HInv
  <2>3. QED
    BY <2>1, <2>2
<1>3. \A e \in Promises : runs[e] \in 0 .. 2 /\ (runs[e] > 0 => runs'[e] > 0)
  BY <1>1 DEF TInv, TypeOK
<1>4. ASSUME NEW q \in Promises, NEW t \in Settled, NEW i \in 1 .. Len(wrappers[q][t])
      PROVE  LET x == wrappers[q][t][i] IN
             /\ ~x.adopt /\ Entered(q, t, i)' => runs'[x.outer] > 0
             /\ x.adopt /\ reaction[x.outer] # NoReaction => runs'[x.outer] > 0
             /\ escapes[q] = 0 /\ ~x.adopt /\ ~Entered(q, t, i)' => runs'[x.outer] = 0
  <2> DEFINE x == wrappers[q][t][i]
  <2>1. /\ ~x.adopt /\ Entered(q, t, i) => runs[x.outer] > 0
        /\ x.adopt /\ reaction[x.outer] # NoReaction => runs[x.outer] > 0
        /\ escapes[q] = 0 /\ ~x.adopt /\ ~Entered(q, t, i) => runs[x.outer] = 0
    BY DEF HInv, PassedInv, OnceInv
  <2>2. x.outer \in Promises
    <3>1. x.outer \in created
      BY DEF TInv, OuterInv
    <3>2. QED
      BY <3>1 DEF TInv, TypeOK
  <2>3. /\ Entered(q, t, i)' => Entered(q, t, i) \/ x.outer = d
        /\ ~Entered(q, t, i)' => ~Entered(q, t, i)
    BY <1>1
  <2>4. ~x.adopt /\ ~Entered(q, t, i)' => x.outer # d
    <3>1. ~x.adopt /\ x.outer = d => q = Current /\ t = status[Current] /\ i = wcursor
      BY SMTT(30), <1>1, StoredOnce DEF HInv
    <3>2. QED
      BY <1>1, <3>1
  <2> HIDE DEF x
  <2>5. /\ ~x.adopt /\ Entered(q, t, i)' => runs'[x.outer] > 0
        /\ x.adopt /\ reaction[x.outer] # NoReaction => runs'[x.outer] > 0
        /\ escapes[q] = 0 /\ ~x.adopt /\ ~Entered(q, t, i)' => runs'[x.outer] = 0
    BY <1>1, <1>3, <2>1, <2>2, <2>3, <2>4
  <2>6. QED
    BY <2>5 DEF x
<1>5. PassedInv'
  BY <1>1, <1>4 DEF PassedInv
<1>6. OnceInv'
  <2>1. ASSUME NEW q \in Promises, escapes[q] = 0, NEW e \in Promises, reaction[e].on = q
        PROVE  runs'[e] <= 1
    <3>1. CASE e = d
      <4>0. q = Current
        BY <1>1, <2>1, <3>1 DEF HInv, StoredInv
      <4>1. runs[d] = 0
        BY <1>1, <2>1, <4>0 DEF HInv, OnceInv
      <4>2. QED
        BY <1>1, <3>1, <4>1
    <3>2. CASE e # d
      BY <1>1, <2>1, <3>2 DEF HInv, OnceInv
    <3>3. QED
      BY <3>1, <3>2
  <2>2. QED
    BY <1>1, <1>4, <2>1 DEF OnceInv
<1>7. CompleteInv'
  <2>1. \A e \in Promises : runs'[e] = 0 => runs[e] = 0
    BY <1>3
  <2>2. QED
    BY <1>1, <2>1 DEF HInv, CompleteInv
<1>8. QED
  BY <1>2, <1>5, <1>6, <1>7 DEF HInv

(* call_back clears the lists of a promise whose callbacks it has entered.  *)
LEMMA EndFacts ==
  ASSUME TInv, CallBackEnd
  PROVE  /\ Current \in Promises /\ status[Current] \in Settled
         /\ \A i \in 1 .. Len(wrappers[Current][status[Current]]) :
              Returned(Current, status[Current], i)
         /\ wrappers'[Current] = NoWrappers
         /\ \A q \in Promises \ {Current} : wrappers'[q] = wrappers[q]
         /\ \A t \in Settled : Len(wrappers'[Current][t]) = 0
         /\ UNCHANGED <<created, status, result, reaction, n_reactions, origin, runs, escapes>>
         /\ \A q \in Promises, t \in Settled, i \in Nat :
              /\ ~Entered(q, t, i)' /\ ~Returned(q, t, i)'
              /\ q # Current => ~Entered(q, t, i) /\ ~Returned(q, t, i)
<1>1. /\ pc = "calling" /\ wcursor > Len(Active) /\ pc' = "iterate"
      /\ wrappers' = [wrappers EXCEPT ![Current] = NoWrappers]
      /\ UNCHANGED <<created, status, result, reaction, n_reactions, origin, runs, escapes>>
  BY DEF CallBackEnd, history
<1>2. /\ Current \in Promises /\ status[Current] \in Settled /\ Len(Active) \in Nat
  BY <1>1, ActiveType DEF TInv, Calling
<1>3. \A i \in 1 .. Len(wrappers[Current][status[Current]]) :
        Returned(Current, status[Current], i)
  BY <1>1, <1>2 DEF Returned, Calling, Active, TInv, TypeOK
<1>4. /\ wrappers'[Current] = NoWrappers
      /\ \A q \in Promises \ {Current} : wrappers'[q] = wrappers[q]
  BY <1>1, <1>2 DEF TInv, TypeOK
<1>5. \A t \in Settled : Len(wrappers'[Current][t]) = 0
  BY <1>4 DEF NoWrappers
<1>6. \A q \in Promises, t \in Settled, i \in Nat :
        /\ ~Entered(q, t, i)' /\ ~Returned(q, t, i)'
        /\ q # Current => ~Entered(q, t, i) /\ ~Returned(q, t, i)
  BY <1>1 DEF Entered, Returned, Calling
<1>7. QED
  BY <1>1, <1>2, <1>3, <1>4, <1>5, <1>6

LEMMA EndKeeps ==
  ASSUME TInv, HInv, CallBackEnd
  PROVE  HInv'
<1> DEFINE c == Current
<1>1. /\ c \in Promises /\ status[c] \in Settled
      /\ \A i \in 1 .. Len(wrappers[c][status[c]]) : Entered(c, status[c], i)
      /\ \A q \in Promises \ {c} : wrappers'[q] = wrappers[q]
      /\ \A t \in Settled : Len(wrappers'[c][t]) = 0
      /\ UNCHANGED <<created, status, result, reaction, n_reactions, origin, runs, escapes>>
      /\ \A q \in Promises, t \in Settled, i \in Nat :
           ~Entered(q, t, i)' /\ (q # c => ~Entered(q, t, i))
  BY EndFacts DEF Entered
<1> HIDE DEF c
<1>2. ASSUME NEW q \in Promises, NEW t \in Settled, NEW i \in 1 .. Len(wrappers'[q][t])
      PROVE  q # c /\ wrappers'[q] = wrappers[q] /\ i \in 1 .. Len(wrappers[q][t])
  <2>1. q # c
    BY <1>1
  <2>2. QED
    BY <1>1, <2>1
<1>3. ResultInv'
  BY <1>1 DEF HInv, ResultInv
<1>4. StoredInv'
  <2>1. ASSUME NEW q \in Promises, NEW t \in Settled, NEW i \in 1 .. Len(wrappers'[q][t]),
               ~wrappers'[q][t][i].adopt
        PROVE  /\ reaction[wrappers'[q][t][i].outer].on = q
               /\ reaction[wrappers'[q][t][i].outer].to = t
    <3>1. wrappers'[q] = wrappers[q] /\ i \in 1 .. Len(wrappers[q][t])
      BY <1>2
    <3>2. QED
      BY <2>1, <3>1 DEF HInv, StoredInv
  <2>2. ASSUME NEW q \in Promises, NEW t \in Settled,
               NEW i \in 1 .. Len(wrappers'[q][t]), NEW j \in 1 .. Len(wrappers'[q][t]),
               i < j, ~wrappers'[q][t][i].adopt, ~wrappers'[q][t][j].adopt
        PROVE  reaction[wrappers'[q][t][i].outer].nth < reaction[wrappers'[q][t][j].outer].nth
    <3>1. /\ wrappers'[q] = wrappers[q] /\ i \in 1 .. Len(wrappers[q][t])
          /\ j \in 1 .. Len(wrappers[q][t])
      BY <1>2
    <3>2. QED
      BY <2>2, <3>1 DEF HInv, StoredInv
  <2>3. \A e \in Promises :
          /\ reaction[e].nth <= n_reactions
          /\ reaction[e] # NoReaction => reaction[e].on \in created /\ reaction[e].to \in Settled
    BY DEF HInv, StoredInv
  <2>4. QED
    BY SMTT(30), <1>1, <2>1, <2>2, <2>3 DEF StoredInv
<1>5. ASSUME NEW q \in Promises, NEW t \in Settled, NEW i \in 1 .. Len(wrappers'[q][t])
      PROVE  LET x == wrappers'[q][t][i] IN
             /\ ~x.adopt /\ Entered(q, t, i)' => runs[x.outer] > 0
             /\ x.adopt /\ reaction[x.outer] # NoReaction => runs[x.outer] > 0
             /\ escapes[q] = 0 /\ ~x.adopt /\ ~Entered(q, t, i)' => runs[x.outer] = 0
  <2>1. q # c /\ wrappers'[q] = wrappers[q] /\ i \in 1 .. Len(wrappers[q][t]) /\ i \in Nat
    BY <1>2
  <2>2. ~Entered(q, t, i)' /\ ~Entered(q, t, i)
    BY <1>1, <2>1
  <2>3. QED
    BY <2>1, <2>2 DEF HInv, PassedInv, OnceInv
<1>6. PassedInv'
  BY <1>1, <1>5 DEF PassedInv
<1>7. OnceInv'
  BY <1>1, <1>5 DEF HInv, OnceInv
<1>8. CompleteInv'
  <2>1. ASSUME NEW e \in Promises, reaction[e] # NoReaction, runs[e] = 0,
               status[reaction[e].on] \in {"PENDING", reaction[e].to}
        PROVE  \E i \in 1 .. Len(wrappers'[reaction[e].on][reaction[e].to]) :
                 /\ ~wrappers'[reaction[e].on][reaction[e].to][i].adopt
                 /\ wrappers'[reaction[e].on][reaction[e].to][i].outer = e
    <3>1. reaction[e].on \in Promises /\ reaction[e].to \in Settled
      BY <2>1 DEF HInv, StoredInv, TInv, TypeOK
    <3>2. PICK i \in 1 .. Len(wrappers[reaction[e].on][reaction[e].to]) :
            /\ ~wrappers[reaction[e].on][reaction[e].to][i].adopt
            /\ wrappers[reaction[e].on][reaction[e].to][i].outer = e
      BY <2>1 DEF HInv, CompleteInv
    <3>3. reaction[e].on # c
      <4>1. SUFFICES ASSUME reaction[e].on = c PROVE FALSE
        OBVIOUS
      <4>2. status[c] = reaction[e].to
        BY <1>1, <2>1, <4>1 DEF Settled
      <4>3. Entered(c, status[c], i)
        BY <1>1, <3>2, <4>1, <4>2
      <4>4. runs[e] > 0
        BY <1>1, <3>2, <4>1, <4>2, <4>3 DEF HInv, PassedInv
      <4>5. QED
        BY <2>1, <4>4
    <3>4. QED
      BY <1>1, <3>1, <3>2, <3>3
  <2>2. QED
    BY SMTT(30), <1>1, <2>1 DEF CompleteInv
<1>9. QED
  BY <1>3, <1>4, <1>6, <1>7, <1>8 DEF HInv

(* The steps between two calls of call_back, and the exception that leaves one. *)
Quiet ==
  /\ UNCHANGED <<created, status, result, wrappers, reaction, n_reactions, origin, runs>>
  /\ \A q \in Promises, t \in Settled, i \in Nat \ {0} :
       ~Entered(q, t, i)' /\ ~Returned(q, t, i)'
  /\ \A q \in Promises : escapes'[q] = 0 =>
       /\ escapes[q] = 0
       /\ \A t \in Settled, i \in Nat : ~Entered(q, t, i) /\ ~Returned(q, t, i)

LEMMA QuietSteps ==
  ASSUME TInv, TaskBegin \/ CallBack \/ BadCast \/ TaskEnd
  PROVE  Quiet
<1>1. UNCHANGED <<created, status, result, wrappers, reaction, n_reactions, origin, runs>>
  BY DEF TaskBegin, CallBack, BadCast, TaskEnd, cells, history
<1>2. \/ pc' \notin {"calling", "user"}
      \/ pc' = "calling" /\ wcursor' = 1
  BY DEF TaskBegin, CallBack, BadCast, TaskEnd
<1>3. \A q \in Promises, t \in Settled, i \in Nat \ {0} :
        ~Entered(q, t, i)' /\ ~Returned(q, t, i)'
  BY <1>2 DEF Entered, Returned, Calling
<1>4. CASE BadCast
  <2>1. pc = "calling" /\ escapes' = [escapes EXCEPT ![Current] = @ + 1]
    BY <1>4 DEF BadCast
  <2>2. Current \in Promises
    BY <2>1, ActiveType DEF TInv, Calling
  <2>3. /\ escapes'[Current] # 0
        /\ \A q \in Promises \ {Current} : escapes'[q] = escapes[q]
    BY <2>1, <2>2 DEF TInv, TypeOK
  <2>4. \A q \in Promises \ {Current}, t \in Settled, i \in Nat :
          ~Entered(q, t, i) /\ ~Returned(q, t, i)
    BY DEF Entered, Returned
  <2>5. QED
    BY <1>1, <1>3, <2>3, <2>4 DEF Quiet
<1>5. CASE TaskBegin \/ CallBack \/ TaskEnd
  <2>1. escapes' = escapes /\ pc \notin {"calling", "user"}
    BY <1>5 DEF TaskBegin, CallBack, TaskEnd, history
  <2>2. \A q \in Promises, t \in Settled, i \in Nat : ~Entered(q, t, i) /\ ~Returned(q, t, i)
    BY <2>1 DEF Entered, Returned, Calling
  <2>3. QED
    BY <1>1, <1>3, <2>1, <2>2 DEF Quiet
<1>6. QED
  BY <1>4, <1>5

LEMMA QuietKeeps ==
  ASSUME TInv, HInv, Quiet
  PROVE  HInv'
<1>1. ResultInv' /\ StoredInv' /\ CompleteInv'
  <2>1. UNCHANGED <<created, status, result, wrappers, reaction, n_reactions, runs>>
    BY DEF Quiet
  <2>2. ResultInv'
    BY <2>1 DEF HInv, ResultInv
  <2>3. StoredInv'
    BY <2>1, StoredKept DEF HInv
  <2>4. CompleteInv'
    BY Zenon, <2>1 DEF HInv, CompleteInv
  <2>5. QED
    BY <2>2, <2>3, <2>4
<1>2. PassedInv'
  <2>1. ASSUME NEW q \in Promises, NEW t \in Settled, NEW i \in 1 .. Len(wrappers[q][t])
        PROVE  /\ ~Entered(q, t, i)'
               /\ wrappers[q][t][i].adopt /\ reaction[wrappers[q][t][i].outer] # NoReaction =>
                    runs[wrappers[q][t][i].outer] > 0
    <3>1. i \in Nat \ {0}
      OBVIOUS
    <3>2. QED
      BY <3>1 DEF Quiet, HInv, PassedInv
  <2>2. QED
    BY <2>1 DEF Quiet, PassedInv
<1>3. OnceInv'
  BY DEF Quiet, HInv, OnceInv
<1>4. QED
  BY <1>1, <1>2, <1>3 DEF HInv

LEMMA HInvInit == Init => HInv
<1> SUFFICES ASSUME Init PROVE HInv
  OBVIOUS
<1>1. /\ \A p \in Promises : status[p] = "PENDING" /\ reaction[p] = NoReaction /\ runs[p] = 0
      /\ n_reactions = 0
      /\ \A p \in Promises, s \in Settled : wrappers[p][s] = <<>>
  BY DEF Init, NoWrappers
<1>2. ResultInv /\ CompleteInv
  BY <1>1 DEF ResultInv, CompleteInv
<1>3. StoredInv
  <2>1. NoReaction.nth = 0
    BY DEF NoReaction
  <2>2. QED
    BY <1>1, <2>1 DEF StoredInv
<1>4. PassedInv /\ OnceInv
  BY <1>1 DEF PassedInv, OnceInv
<1>5. QED
  BY <1>2, <1>3, <1>4 DEF HInv

LEMMA HInvNext ==
  ASSUME TInv, HInv, [Next]_vars
  PROVE  HInv'
<1>1. ASSUME NEW p \in Promises, NEW d \in Promises, Then(p, d) PROVE HInv'
  <2>1. Registers(p, d, "RESOLVED", Callback(d, Errors))
    BY <1>1, ReactRegisters DEF Then, Settled
  <2>2. QED
    BY <2>1, RegistersKeeps DEF Settled
<1>2. ASSUME NEW p \in Promises, NEW d \in Promises, NEW a \in AcceptSets, Catch(p, d, a)
      PROVE HInv'
  <2>1. a \in SUBSET Errors
    BY PromiseAssumption
  <2>2. Registers(p, d, "REJECTED", Callback(d, a))
    BY <1>2, <2>1, ReactRegisters DEF Catch, Settled
  <2>3. QED
    BY <2>1, <2>2, RegistersKeeps DEF Settled
<1>3. CASE /\ ApiCall
           /\ ~\E p, d \in Promises : Then(p, d) \/ \E a \in AcceptSets : Catch(p, d, a)
  <2>1. PICK d \in Promises : Adopts(d)
    BY <1>3, ApiAdopts DEF HInv
  <2>2. QED
    BY <2>1, AdoptsKeeps
<1>4. CASE RunAdoption
  <2>1. Adopts(Active[wcursor].outer)
    BY <1>4, RunAdoptionAdopts DEF HInv
  <2>2. QED
    BY <2>1, AdoptsKeeps
<1>5. CASE Returns
  <2>1. PICK d \in Promises : Adopts(d)
    BY <1>5, ReturnsProduces DEF HInv, Produces
  <2>2. QED
    BY <2>1, AdoptsKeeps
<1>6. CASE EnterCallback
  BY <1>6, EnterKeeps
<1>7. CASE CallBackEnd
  BY <1>7, EndKeeps
<1>8. CASE TaskBegin \/ CallBack \/ BadCast \/ TaskEnd
  BY <1>8, QuietSteps, QuietKeeps
<1>9. CASE UNCHANGED vars
  <2>1. /\ UNCHANGED <<created, status, result, wrappers, reaction, n_reactions, runs, escapes>>
        /\ \A p, s, i : Entered(p, s, i)' <=> Entered(p, s, i)
    BY <1>9 DEF vars, cells, loop, history, Entered, Returned, Calling, Current
  <2>2. ResultInv' /\ StoredInv' /\ CompleteInv'
    <3>1. ResultInv'
      BY <2>1 DEF HInv, ResultInv
    <3>2. StoredInv'
      BY <2>1, StoredKept DEF HInv
    <3>3. CompleteInv'
      BY Zenon, <2>1 DEF HInv, CompleteInv
    <3>4. QED
      BY <3>1, <3>2, <3>3
  <2>3. PassedInv'
    BY <2>1 DEF HInv, PassedInv
  <2>4. OnceInv'
    BY <2>1 DEF HInv, OnceInv
  <2>5. QED
    BY <2>2, <2>3, <2>4 DEF HInv
<1>10. QED
  BY <1>1, <1>2, <1>3, <1>4, <1>5, <1>6, <1>7, <1>8, <1>9 DEF Next, TaskStep

-----------------------------------------------------------------------------
(* The fourth layer: what callbacks produced. *)
Outcome(d) ==
  \/ origin[d].how = "value" /\ status[d] = "RESOLVED" /\ result[d] = origin[d].what
  \/ origin[d].how = "error" /\ status[d] = "REJECTED" /\ result[d] = origin[d].what
  \/ /\ origin[d].how = "promise"
     /\ status[d] = status[origin[d].what] /\ result[d] = result[origin[d].what]

OInv == OriginInv /\ DerivedOutcome

LEMMA OutcomeFacts ==
  ASSUME OInv
  PROVE  /\ \A r, d \in Promises :
              status[d] \in Settled /\ reaction[d].on = r /\ escapes[r] = 0 => Outcome(d)
         /\ \A p \in Promises, s \in Settled : \A i \in 1 .. Len(wrappers[p][s]) :
              /\ escapes[p] = 0 /\ ~wrappers[p][s][i].adopt /\ ~Returned(p, s, i) =>
                   origin[wrappers[p][s][i].outer] = NoOrigin
              /\ \A r \in Promises :
                   /\ wrappers[p][s][i].adopt
                   /\ reaction[wrappers[p][s][i].outer].on = r /\ escapes[r] = 0
                   => origin[wrappers[p][s][i].outer] = [how |-> "promise", what |-> p]
<1>1. DerivedOutcome /\ OriginInv
  BY DEF OInv
<1>2. \A r, d \in Promises :
        status[d] \in Settled /\ reaction[d].on = r /\ escapes[r] = 0 => Outcome(d)
  BY <1>1 DEF DerivedOutcome, Outcome
<1>3. QED
  BY <1>1, <1>2 DEF OriginInv

(* A promise that reacts to a promise has a reaction. *)
LEMMA OnOthers == \A d \in Promises : reaction[d].on \in Promises => reaction[d] # NoReaction
BY PromiseAssumption DEF NoReaction

(* Nothing settled changes, so an outcome stays what it was. *)
LEMMA OutcomeStays ==
  ASSUME OInv, \A q \in Promises : status[q] \in Settled =>
                  status'[q] = status[q] /\ result'[q] = result[q],
         NEW d \in Promises, status[d] \in Settled, origin'[d] = origin[d], Outcome(d)
  PROVE  Outcome(d)'
<1>1. origin[d].how = "promise" => origin[d].what \in Promises
  BY DEF OInv, OriginInv
<1>2. status'[d] = status[d] /\ result'[d] = result[d]
  OBVIOUS
<1>3. CASE origin[d].how = "promise"
  BY <1>1, <1>2, <1>3 DEF Outcome
<1>4. CASE origin[d].how # "promise"
  BY <1>2, <1>4 DEF Outcome
<1>5. QED
  BY <1>3, <1>4

(* OInv follows for the next state from these three facts. *)
LEMMA OInvFrom ==
  ASSUME \A d \in Promises : origin'[d].how = "promise" => origin'[d].what \in Promises,
         \A r, d \in Promises :
           status'[d] \in Settled /\ reaction'[d].on = r /\ escapes'[r] = 0 => Outcome(d)',
         \A p \in Promises, s \in Settled : \A i \in 1 .. Len(wrappers'[p][s]) :
           /\ escapes'[p] = 0 /\ ~wrappers'[p][s][i].adopt /\ ~Returned(p, s, i)' =>
                origin'[wrappers'[p][s][i].outer] = NoOrigin
           /\ \A r \in Promises :
                /\ wrappers'[p][s][i].adopt
                /\ reaction'[wrappers'[p][s][i].outer].on = r /\ escapes'[r] = 0
                => origin'[wrappers'[p][s][i].outer] = [how |-> "promise", what |-> p]
  PROVE  OInv'
<1>1. OriginInv'
  BY DEF OriginInv
<1>2. DerivedOutcome'
  BY DEF DerivedOutcome, Outcome
<1>3. QED
  BY <1>1, <1>2 DEF OInv

(* A promise of its own is settled, or adopts. *)
LEMMA OwnAdoptsOutcome ==
  ASSUME TInv, TInv', OInv, NEW d \in Promises, Adopts(d), reaction[d] = NoReaction,
         UNCHANGED origin
  PROVE  OInv'
<1>1. /\ \A q \in Promises : status[q] \in Settled =>
           status'[q] = status[q] /\ result'[q] = result[q]
      /\ \A q \in Promises \ {d} : status'[q] = status[q]
      /\ UNCHANGED <<reaction, escapes>>
  BY DEF Adopts, GrowStep, CellsGrow
<1>2. \A e \in Promises : origin'[e].how = "promise" => origin'[e].what \in Promises
  BY DEF OInv, OriginInv
<1>3. ASSUME NEW r \in Promises, NEW e \in Promises,
             status'[e] \in Settled, reaction[e].on = r, escapes[r] = 0
      PROVE  Outcome(e)'
  <2>1. status[e] \in Settled
    BY <1>1, <1>3, OnOthers
  <2>2. Outcome(e)
    BY <1>3, <2>1, OutcomeFacts
  <2>3. QED
    BY <1>1, <2>1, <2>2, OutcomeStays
<1>4. ASSUME NEW p \in Promises, NEW s \in Settled, NEW i \in 1 .. Len(wrappers'[p][s])
      PROVE  /\ escapes[p] = 0 /\ ~wrappers'[p][s][i].adopt /\ ~Returned(p, s, i)' =>
                  origin[wrappers'[p][s][i].outer] = NoOrigin
             /\ \A r \in Promises :
                  /\ wrappers'[p][s][i].adopt
                  /\ reaction[wrappers'[p][s][i].outer].on = r /\ escapes[r] = 0
                  => origin[wrappers'[p][s][i].outer] = [how |-> "promise", what |-> p]
  <2>1. CASE i \in 1 .. Len(wrappers[p][s]) /\ wrappers'[p][s][i] = wrappers[p][s][i]
    <3>1. ~wrappers[p][s][i].adopt => (Returned(p, s, i) => Returned(p, s, i)')
      BY <2>1, EnteredSame
    <3>2. QED
      BY <1>4, <2>1, <3>1, OutcomeFacts
  <2>2. CASE wrappers'[p][s][i] = Adoption(d)
    BY <2>2, OnOthers, AdoptionFields
  <2>3. QED
    BY <2>1, <2>2, OldOrNew
<1>5. QED
  BY <1>1, <1>2, <1>3, <1>4, OInvFrom

(* An adoption settles the outer promise as the one its callback returned. *)
LEMMA RunAdoptionOutcome ==
  ASSUME TInv, TInv', HInv, OInv, RunAdoption
  PROVE  OInv'
<1> DEFINE d == Active[wcursor].outer
<1>1. /\ Adopts(d)
      /\ pc = "calling" /\ wcursor <= Len(Active) /\ Active[wcursor].adopt
      /\ UNCHANGED <<origin, wrappers>>
      /\ status[d] = "PENDING" => status'[d] = status[Current] /\ result'[d] = result[Current]
  BY RunAdoptionAdopts DEF HInv
<1>2. /\ Current \in Promises /\ status[Current] \in Settled
      /\ wcursor \in 1 .. Len(wrappers[Current][status[Current]])
      /\ wrappers[Current][status[Current]][wcursor] = Active[wcursor]
      /\ d \in Promises
  BY <1>1, AtCursor DEF Calling
<1>3. \A r \in Promises : reaction[d].on = r /\ escapes[r] = 0 =>
        origin[d] = [how |-> "promise", what |-> Current]
  BY SMTT(30), <1>1, <1>2, OutcomeFacts
<1> HIDE DEF d
<1>4. /\ \A q \in Promises : status[q] \in Settled =>
           status'[q] = status[q] /\ result'[q] = result[q]
      /\ \A q \in Promises \ {d} : status'[q] = status[q]
      /\ UNCHANGED <<reaction, escapes>>
  BY <1>1 DEF Adopts, GrowStep, CellsGrow
<1>5. \A e \in Promises : origin'[e].how = "promise" => origin'[e].what \in Promises
  BY <1>1 DEF OInv, OriginInv
<1>6. ASSUME NEW r \in Promises, NEW e \in Promises,
             status'[e] \in Settled, reaction[e].on = r, escapes[r] = 0
      PROVE  Outcome(e)'
  <2>1. CASE status[e] \in Settled
    BY <1>1, <1>4, <1>6, <2>1, OutcomeFacts, OutcomeStays
  <2>2. CASE e = d /\ status[d] = "PENDING"
    <3>1. origin'[d] = [how |-> "promise", what |-> Current]
      BY <1>1, <1>3, <1>6, <2>2
    <3>2. status'[d] = status'[Current] /\ result'[d] = result'[Current]
      BY <1>1, <1>2, <1>4, <2>2
    <3>3. QED
      BY <2>2, <3>1, <3>2 DEF Outcome
  <2>3. QED
    BY <1>2, <1>4, <1>6, <2>1, <2>2 DEF TInv, TypeOK, Status
<1>7. ASSUME NEW p \in Promises, NEW s \in Settled, NEW i \in 1 .. Len(wrappers[p][s])
      PROVE  /\ escapes[p] = 0 /\ ~wrappers[p][s][i].adopt /\ ~Returned(p, s, i)' =>
                  origin[wrappers[p][s][i].outer] = NoOrigin
             /\ \A r \in Promises :
                  /\ wrappers[p][s][i].adopt
                  /\ reaction[wrappers[p][s][i].outer].on = r /\ escapes[r] = 0
                  => origin[wrappers[p][s][i].outer] = [how |-> "promise", what |-> p]
  <2>1. ~wrappers[p][s][i].adopt => (Returned(p, s, i) => Returned(p, s, i)')
    BY <1>1, EnteredSame
  <2>2. QED
    BY <1>7, <2>1, OutcomeFacts
<1>8. QED
  BY <1>1, <1>4, <1>5, <1>6, <1>7, OInvFrom

(* A callback returns: the promise it derives was pending, and nothing      *)
(* had been recorded for it.                                                *)
LEMMA ProducesOutcome ==
  ASSUME TInv, TInv', HInv, OInv, NEW d \in Promises, NEW how \in {"value", "error", "promise"},
         NEW what, Produces(d, how, what)
  PROVE  OInv'
<1>1. /\ Adopts(d) /\ d = Active[wcursor].outer
      /\ pc = "user" /\ pc' = "calling" /\ wcursor' = wcursor + 1
      /\ origin' = [origin EXCEPT ![d] = [how |-> how, what |-> what]]
      /\ how = "promise" => what \in Promises
  BY DEF Produces
<1>2. wcursor <= Len(Active) /\ ~Active[wcursor].adopt
  BY <1>1 DEF TInv, LoopInv
<1>3. /\ Current \in Promises /\ status[Current] \in Settled
      /\ wcursor \in 1 .. Len(wrappers[Current][status[Current]])
      /\ wrappers[Current][status[Current]][wcursor].outer = d
      /\ ~wrappers[Current][status[Current]][wcursor].adopt
      /\ wcursor \in Nat
  BY <1>1, <1>2, AtCursor DEF Calling, TInv, TypeOK
<1>4. /\ \A q \in Promises : status[q] \in Settled =>
           status'[q] = status[q] /\ result'[q] = result[q]
      /\ \A q \in Promises \ {d} : status'[q] = status[q]
      /\ UNCHANGED <<reaction, escapes>>
  BY <1>1 DEF Adopts, GrowStep, CellsGrow
<1>5. /\ origin'[d] = [how |-> how, what |-> what]
      /\ \A e \in Promises \ {d} : origin'[e] = origin[e]
  BY <1>1 DEF TInv, TypeOK
<1>6. \A e \in Promises : origin'[e].how = "promise" => origin'[e].what \in Promises
  BY <1>1, <1>5 DEF OInv, OriginInv
<1>7. reaction[d].on = Current
  BY <1>3 DEF HInv, StoredInv
<1>8. escapes[Current] = 0 => origin[d] = NoOrigin /\ status[d] = "PENDING"
  <2> SUFFICES ASSUME escapes[Current] = 0 PROVE origin[d] = NoOrigin /\ status[d] = "PENDING"
    OBVIOUS
  <2>1. ~Returned(Current, status[Current], wcursor)
    BY <1>3 DEF Returned
  <2>2. origin[d] = NoOrigin
    <3> DEFINE w == wrappers[Current][status[Current]][wcursor]
    <3>1. ~w.adopt /\ w.outer = d
      BY <1>3
    <3>2. \A i \in 1 .. Len(wrappers[Current][status[Current]]) :
            ~wrappers[Current][status[Current]][i].adopt
            /\ ~Returned(Current, status[Current], i)
            => origin[wrappers[Current][status[Current]][i].outer] = NoOrigin
      <4>1. \A p \in Promises, s \in Settled : \A i \in 1 .. Len(wrappers[p][s]) :
              escapes[p] = 0 /\ ~wrappers[p][s][i].adopt /\ ~Returned(p, s, i)
              => origin[wrappers[p][s][i].outer] = NoOrigin
        BY OutcomeFacts
      <4>2. Current \in Promises /\ status[Current] \in Settled /\ escapes[Current] = 0
        BY <1>3
      <4>3. QED
        BY <4>1, <4>2
    <3>3. origin[w.outer] = NoOrigin
      BY <1>3, <2>1, <3>1, <3>2
    <3>4. QED
      BY <3>1, <3>3
  <2>3. ~Outcome(d)
    BY <2>2 DEF Outcome, NoOrigin
  <2>4. status[d] \notin Settled
    BY <1>3, <1>7, <2>3, OutcomeFacts
  <2>5. QED
    BY <2>2, <2>4 DEF TInv, TypeOK, Status
<1>9. ASSUME NEW r \in Promises, NEW e \in Promises,
             status'[e] \in Settled, reaction[e].on = r, escapes[r] = 0
      PROVE  Outcome(e)'
  <2>1. CASE e # d
    BY <1>4, <1>5, <1>9, <2>1, OutcomeFacts, OutcomeStays
  <2>2. CASE e = d
    <3>1. status[d] = "PENDING" /\ origin'[d].how = how /\ origin'[d].what = what
      BY <1>5, <1>7, <1>8, <1>9, <2>2
    <3>2. CASE how = "value" /\ status'[d] = "RESOLVED" /\ result'[d] = what
      BY <2>2, <3>1, <3>2 DEF Outcome
    <3>3. CASE how = "error" /\ status'[d] = "REJECTED" /\ result'[d] = what
      BY <2>2, <3>1, <3>3 DEF Outcome
    <3>4. CASE how = "promise" /\ status'[d] = status[what] /\ result'[d] = result[what]
      <4>1. status[what] \in Settled
        BY <1>9, <2>2, <3>4
      <4>2. status'[what] = status[what] /\ result'[what] = result[what]
        BY <1>1, <1>4, <3>4, <4>1
      <4>3. QED
        BY <2>2, <3>1, <3>4, <4>2 DEF Outcome
    <3>5. QED
      BY <1>9, <2>2, <3>1, <3>2, <3>3, <3>4 DEF Produces
  <2>3. QED
    BY <2>1, <2>2
<1>10. ASSUME NEW p \in Promises, NEW s \in Settled,
              NEW i \in 1 .. Len(wrappers'[p][s])
       PROVE  /\ escapes[p] = 0 /\ ~wrappers'[p][s][i].adopt /\ ~Returned(p, s, i)' =>
                   origin'[wrappers'[p][s][i].outer] = NoOrigin
              /\ \A r \in Promises :
                   /\ wrappers'[p][s][i].adopt
                   /\ reaction[wrappers'[p][s][i].outer].on = r /\ escapes[r] = 0
                   => origin'[wrappers'[p][s][i].outer] = [how |-> "promise", what |-> p]
  <2>1. CASE i \in 1 .. Len(wrappers[p][s]) /\ wrappers'[p][s][i] = wrappers[p][s][i]
    <3> DEFINE w == wrappers[p][s][i]
    <3>1. /\ escapes[p] = 0 /\ ~w.adopt /\ ~Returned(p, s, i) => origin[w.outer] = NoOrigin
          /\ \A r \in Promises :
               /\ w.adopt
               /\ reaction[w.outer].on = r /\ escapes[r] = 0
               => origin[w.outer] = [how |-> "promise", what |-> p]
          /\ w.outer \in Promises
      <4>1. w.outer \in created
        BY <2>1 DEF TInv, OuterInv
      <4>2. w.outer \in Promises
        BY <4>1 DEF TInv, TypeOK
      <4>3. QED
        BY <1>10, <2>1, <4>2, OutcomeFacts
    <3>2. CASE w.outer # d
      <4>1. ~w.adopt => (Returned(p, s, i) => Returned(p, s, i)')
        BY <2>1, <1>1, EnteredSame
      <4>2. QED
        BY <1>5, <2>1, <3>1, <3>2, <4>1
    <3>3. CASE w.outer = d /\ ~w.adopt
      <4>1. p = Current /\ s = status[Current] /\ i = wcursor
        BY SMTT(30), <1>3, <2>1, <3>3, StoredOnce DEF HInv
      <4>2. Current' = Current /\ status'[Current] = status[Current]
        BY <1>1, ActiveGrows DEF TInv, Calling, Adopts, GrowStep
      <4>3. Returned(p, s, i)'
        BY <1>1, <1>3, <4>1, <4>2 DEF Returned, Calling
      <4>4. QED
        BY <2>1, <3>3, <4>3
    <3>4. CASE w.outer = d /\ w.adopt
      <4>1. escapes[Current] # 0
        BY <1>3, <1>7, <1>8, <3>1, <3>4 DEF NoOrigin
      <4>2. QED
        BY <1>7, <2>1, <3>4, <4>1
    <3>5. QED
      BY <3>2, <3>3, <3>4
  <2>2. CASE ~(i \in 1 .. Len(wrappers[p][s]) /\ wrappers'[p][s][i] = wrappers[p][s][i])
    <3>1. wrappers'[p][s][i] = Adoption(d)
      BY <1>1, <2>2, OldOrNew
    <3>2. wrappers'[p] # wrappers[p]
      BY <2>2
    <3>3. how = "promise" /\ p = what
      BY <3>2 DEF Produces
    <3>4. QED
      BY <1>5, <3>1, <3>3, AdoptionFields
  <2>3. QED
    BY <2>1, <2>2
<1>11. QED
  BY <1>4, <1>6, <1>9, <1>10, OInvFrom

(* A new reaction has produced nothing, and its promise is pending. *)
LEMMA RegistersOutcome ==
  ASSUME TInv, TInv', OInv, NEW p \in Promises, NEW d \in Promises, NEW s \in Settled,
         NEW a \in SUBSET Errors, Registers(p, d, s, Callback(d, a))
  PROVE  OInv'
<1>1. /\ UNCHANGED <<status, result, origin, escapes>>
      /\ status[d] = "PENDING" /\ origin[d] = NoOrigin
      /\ \A e \in Promises \ {d} : reaction'[e] = reaction[e]
  BY DEF Registers, TInv, FreshInv, TypeOK
<1>2. \A e \in Promises : origin'[e].how = "promise" => origin'[e].what \in Promises
  BY <1>1 DEF OInv, OriginInv
<1>3. ASSUME NEW r \in Promises, NEW e \in Promises,
             status[e] \in Settled, reaction'[e].on = r, escapes[r] = 0
      PROVE  Outcome(e)'
  <2>1. e # d
    BY <1>1, <1>3 DEF Settled
  <2>2. Outcome(e)
    BY <1>1, <1>3, <2>1, OutcomeFacts
  <2>3. QED
    BY <1>1, <2>2 DEF Outcome
<1>4. ASSUME NEW q \in Promises, NEW t \in Settled,
             NEW i \in 1 .. Len(wrappers'[q][t])
      PROVE  /\ escapes[q] = 0 /\ ~wrappers'[q][t][i].adopt /\ ~Returned(q, t, i)' =>
                  origin[wrappers'[q][t][i].outer] = NoOrigin
             /\ \A r \in Promises :
                  /\ wrappers'[q][t][i].adopt
                  /\ reaction'[wrappers'[q][t][i].outer].on = r /\ escapes[r] = 0
                  => origin[wrappers'[q][t][i].outer] = [how |-> "promise", what |-> q]
  <2>1. CASE i \in 1 .. Len(wrappers[q][t])
    <3>1. /\ wrappers'[q][t][i] = wrappers[q][t][i]
          /\ wrappers[q][t][i].outer \in Promises \ {d}
      BY <2>1 DEF Registers
    <3>2. Returned(q, t, i)' <=> Returned(q, t, i)
      BY DEF Registers
    <3>3. /\ escapes[q] = 0 /\ ~wrappers[q][t][i].adopt /\ ~Returned(q, t, i) =>
               origin[wrappers[q][t][i].outer] = NoOrigin
          /\ \A r \in Promises :
               /\ wrappers[q][t][i].adopt
               /\ reaction[wrappers[q][t][i].outer].on = r /\ escapes[r] = 0
               => origin[wrappers[q][t][i].outer] = [how |-> "promise", what |-> q]
      BY <1>4, <2>1, OutcomeFacts
    <3>4. reaction'[wrappers[q][t][i].outer] = reaction[wrappers[q][t][i].outer]
      BY <1>1, <3>1
    <3>5. QED
      BY <3>1, <3>2, <3>3, <3>4
  <2>2. CASE wrappers'[q][t][i] = Callback(d, a)
    BY <1>1, <2>2, CallbackFields
  <2>3. QED
    BY SMTT(30), <2>1, <2>2 DEF Registers
<1>5. QED
  BY <1>1, <1>2, <1>3, <1>4, OInvFrom

(* The steps that settle nothing and store nothing. *)
LEMMA WalkOutcome ==
  ASSUME TInv, TInv', OInv,
         UNCHANGED <<status, result, reaction, origin>>,
         \A p \in Promises : escapes'[p] = 0 => escapes[p] = 0,
         \A p \in Promises, s \in Settled : \A i \in 1 .. Len(wrappers'[p][s]) :
           /\ i \in 1 .. Len(wrappers[p][s]) /\ wrappers'[p][s][i] = wrappers[p][s][i]
           /\ escapes'[p] = 0 /\ Returned(p, s, i) => Returned(p, s, i)'
  PROVE  OInv'
<1>1. \A e \in Promises : origin'[e].how = "promise" => origin'[e].what \in Promises
  BY DEF OInv, OriginInv
<1>2. ASSUME NEW r \in Promises, NEW e \in Promises,
             status'[e] \in Settled, reaction'[e].on = r, escapes'[r] = 0
      PROVE  Outcome(e)'
  <2>1. Outcome(e)
    BY <1>2, OutcomeFacts
  <2>2. QED
    BY <2>1 DEF Outcome
<1>3. ASSUME NEW p \in Promises, NEW s \in Settled,
             NEW i \in 1 .. Len(wrappers'[p][s])
      PROVE  /\ escapes'[p] = 0 /\ ~wrappers'[p][s][i].adopt /\ ~Returned(p, s, i)' =>
                  origin'[wrappers'[p][s][i].outer] = NoOrigin
             /\ \A r \in Promises :
                  /\ wrappers'[p][s][i].adopt
                  /\ reaction'[wrappers'[p][s][i].outer].on = r /\ escapes'[r] = 0
                  => origin'[wrappers'[p][s][i].outer] = [how |-> "promise", what |-> p]
  <2>1. /\ i \in 1 .. Len(wrappers[p][s]) /\ wrappers'[p][s][i] = wrappers[p][s][i]
        /\ escapes'[p] = 0 /\ Returned(p, s, i) => Returned(p, s, i)'
    BY <1>3
  <2>2. QED
    BY <1>3, <2>1, OutcomeFacts
<1>4. QED
  BY <1>1, <1>2, <1>3, OInvFrom

LEMMA OInvInit == Init => OInv
<1> SUFFICES ASSUME Init PROVE OInv
  OBVIOUS
<1>1. /\ \A p \in Promises : status[p] = "PENDING" /\ origin[p] = NoOrigin
      /\ \A p \in Promises, s \in Settled : wrappers[p][s] = <<>>
  BY DEF Init, NoWrappers
<1>2. OriginInv
  BY <1>1 DEF OriginInv, NoOrigin
<1>3. DerivedOutcome
  BY <1>1 DEF DerivedOutcome, Settled
<1>4. QED
  BY <1>2, <1>3 DEF OInv

LEMMA OInvNext ==
  ASSUME TInv, TInv', HInv, OInv, [Next]_vars
  PROVE  OInv'
<1>1. ASSUME NEW p \in Promises, NEW d \in Promises, Then(p, d) PROVE OInv'
  <2>1. Registers(p, d, "RESOLVED", Callback(d, Errors))
    BY <1>1, ReactRegisters DEF Then, Settled
  <2>2. QED
    BY <2>1, RegistersOutcome DEF Settled
<1>2. ASSUME NEW p \in Promises, NEW d \in Promises, NEW a \in AcceptSets, Catch(p, d, a)
      PROVE OInv'
  <2>1. a \in SUBSET Errors
    BY PromiseAssumption
  <2>2. Registers(p, d, "REJECTED", Callback(d, a))
    BY <1>2, <2>1, ReactRegisters DEF Catch, Settled
  <2>3. QED
    BY <2>1, <2>2, RegistersOutcome DEF Settled
<1>3. CASE /\ ApiCall
           /\ ~\E p, d \in Promises : Then(p, d) \/ \E a \in AcceptSets : Catch(p, d, a)
  <2>1. PICK d \in Promises : Adopts(d) /\ reaction[d] = NoReaction /\ UNCHANGED origin
    BY <1>3, ApiAdopts DEF HInv
  <2>2. QED
    BY <2>1, OwnAdoptsOutcome
<1>4. CASE RunAdoption
  BY <1>4, RunAdoptionOutcome
<1>5. CASE Returns
  <2>1. PICK d \in Promises, how \in {"value", "error", "promise"},
             what \in Values \cup {Blank} \cup Errors \cup Promises : Produces(d, how, what)
    BY <1>5, ReturnsProduces DEF HInv
  <2>2. QED
    BY <2>1, ProducesOutcome
<1>6. CASE EnterCallback
  <2>1. /\ UNCHANGED <<status, result, reaction, origin, wrappers, escapes>>
        /\ \A q \in Promises, t \in Settled, i \in Nat : Returned(q, t, i)' <=> Returned(q, t, i)
    BY <1>6, EnterFacts
  <2>2. QED
    BY <2>1, WalkOutcome
<1>7. CASE CallBackEnd
  <2>1. /\ UNCHANGED <<status, result, reaction, origin, escapes>>
        /\ \A q \in Promises \ {Current} : wrappers'[q] = wrappers[q]
        /\ \A t \in Settled : Len(wrappers'[Current][t]) = 0
        /\ \A q \in Promises, t \in Settled, i \in Nat : q # Current => ~Returned(q, t, i)
    BY <1>7, EndFacts
  <2>2. ASSUME NEW p \in Promises, NEW s \in Settled, NEW i \in 1 .. Len(wrappers'[p][s])
        PROVE  /\ i \in 1 .. Len(wrappers[p][s]) /\ wrappers'[p][s][i] = wrappers[p][s][i]
               /\ ~Returned(p, s, i)
    <3>1. p # Current
      BY <2>1
    <3>2. QED
      BY <2>1, <3>1
  <2>3. QED
    BY <2>1, <2>2, WalkOutcome
<1>8. CASE TaskBegin \/ CallBack \/ BadCast \/ TaskEnd
  <2>1. Quiet
    BY <1>8, QuietSteps
  <2>2. \A p \in Promises : escapes'[p] = 0 =>
          /\ escapes[p] = 0
          /\ \A s \in Settled, i \in Nat : ~Returned(p, s, i)
    BY <2>1 DEF Quiet
  <2>3. QED
    BY <2>1, <2>2, WalkOutcome DEF Quiet
<1>9. CASE UNCHANGED vars
  <2>1. /\ UNCHANGED <<status, result, wrappers, reaction, origin, escapes>>
        /\ \A p, s, i : Returned(p, s, i)' <=> Returned(p, s, i)
    BY <1>9 DEF vars, cells, loop, history, Returned, Calling, Current
  <2>2. QED
    BY <2>1, WalkOutcome
<1>10. QED
  BY <1>1, <1>2, <1>3, <1>4, <1>5, <1>6, <1>7, <1>8, <1>9 DEF Next, TaskStep

(* The whole of the inductive invariant. *)
THEOREM Inductive == Spec => []IInv
<1>1. Init => TInv /\ PendingInv /\ HInv /\ OInv
  BY TInvInit, PendingInit, HInvInit, OInvInit
<1>2. TInv /\ PendingInv /\ HInv /\ OInv /\ [Next]_vars => (TInv /\ PendingInv /\ HInv /\ OInv)'
  BY TInvNext, PendingNext, HInvNext, OInvNext
<1>3. TInv /\ PendingInv /\ HInv /\ OInv <=> IInv
  BY DEF TInv, HInv, OInv, IInv
<1>4. QED
  BY <1>1, <1>2, <1>3, PTL DEF Spec

(* CallbackOnce: however then, _catch, resolve and the task's two loops     *)
(* interleave, and whatever exceptions leave the call_back of other         *)
(* promises, no user callback of a promise is entered twice before an       *)
(* exception has left the call_back of that promise itself.                 *)
THEOREM EnteredOnce == Spec => []CallbackOnce
<1>1. IInv => CallbackOnce
  BY DEF IInv, OnceInv, CallbackOnce
<1>2. QED
  BY <1>1, Inductive, PTL

(* DerivedOutcome: a derived promise settles as its callback said.          *)
THEOREM SettlesAsProduced == Spec => []DerivedOutcome
<1>1. IInv => DerivedOutcome
  BY DEF IInv
<1>2. QED
  BY <1>1, Inductive, PTL

-----------------------------------------------------------------------------
(* The refinement.  A step of the contract that settles a promise is a call *)
(* of resolve_impl or reject_impl that found it pending.                    *)
LEMMA SettleRefines ==
  ASSUME TypeOK, NEW base, NEW p \in created, NEW s \in Settled, NEW x,
         x \in IF s = "RESOLVED" THEN Values \cup {Blank} ELSE Errors,
         reaction[p] # NoReaction => runs[p] > 0,
         Settle(base, p, s, x), UNCHANGED created, UNCHANGED <<reaction, n_reactions, runs>>
  PROVE  Contract!Next \/ UNCHANGED Contract!vars
<1>1. p \in Promises
  BY DEF TypeOK
<1>2. CASE status[p] # "PENDING"
  <2>1. UNCHANGED <<status, result>>
    BY <1>2 DEF Settle
  <2>2. QED
    BY <2>1 DEF Contract!vars
<1>3. CASE status[p] = "PENDING"
  <2>1. /\ status' = [status EXCEPT ![p] = s]
        /\ result' = [result EXCEPT ![p] = x]
    BY <1>3 DEF Settle
  <2>2. x \in Contract!Outcome(s)
    BY DEF Contract!Outcome
  <2>3. Contract!Settling(p, s, x)
    BY <1>3, <2>1, <2>2 DEF Contract!Settling
  <2>4. Contract!NoReaction = NoReaction
    BY DEF Contract!NoReaction, NoReaction
  <2>5. Contract!Settle(p, s, x)
    BY <1>1, <2>3, <2>4 DEF Contract!Settle
  <2>6. QED
    BY <1>1, <2>2, <2>5 DEF Contract!Next, Contract!Settled, Settled
<1>4. QED
  BY <1>2, <1>3

LEMMA AssociateRefines ==
  ASSUME TypeOK, ResultInv, NEW outer \in created, NEW inner \in Promises,
         reaction[outer] # NoReaction => runs[outer] > 0,
         associate_status(outer, inner),
         UNCHANGED created, UNCHANGED <<reaction, n_reactions, runs>>
  PROVE  Contract!Next \/ UNCHANGED Contract!vars
<1>1. CASE status[inner] \in Settled
  <2>1. Settle(pending_callback_queue, outer, status[inner], result[inner])
    BY <1>1 DEF associate_status, resolve_impl, reject_impl, Settled
  <2>2. result[inner] \in IF status[inner] = "RESOLVED" THEN Values \cup {Blank} ELSE Errors
    BY <1>1 DEF ResultInv, Settled
  <2>3. QED
    BY <1>1, <2>1, <2>2, SettleRefines
<1>2. CASE status[inner] = "PENDING"
  <2>1. UNCHANGED <<status, result>>
    BY <1>2 DEF associate_status, cells
  <2>2. QED
    BY <2>1 DEF Contract!vars
<1>3. QED
  BY <1>1, <1>2 DEF TypeOK, Status

LEMMA CreateRefines ==
  ASSUME TInv,
         \/ \E p \in Promises : NewPromise(p)
         \/ \E p \in Promises, s \in Settled, x \in Values \cup {Blank} \cup Errors :
              MakeSettled(p, s, x)
  PROVE  Contract!Next
<1>1. ASSUME NEW p \in Promises, NewPromise(p) PROVE Contract!Next
  <2>1. Contract!Create(p)
    BY <1>1 DEF NewPromise, Fresh, cells, history, Contract!Create
  <2>2. QED
    BY <2>1 DEF Contract!Next
<1>2. ASSUME NEW p \in Promises, NEW s \in Settled, NEW x \in Values \cup {Blank} \cup Errors,
             MakeSettled(p, s, x)
      PROVE  Contract!Next
  <2>1. /\ p \in Promises \ created /\ created' = created \cup {p}
        /\ UNCHANGED <<reaction, n_reactions, runs>>
    BY <1>2 DEF MakeSettled, Fresh, history
  <2>2. x \in Contract!Outcome(s)
    BY <1>2 DEF MakeSettled, Payload, Contract!Outcome
  <2>3. status[p] = "PENDING"
    BY <2>1 DEF TInv, FreshInv
  <2>4. /\ status' = [status EXCEPT ![p] = s]
        /\ result' = [result EXCEPT ![p] = x]
    BY <1>2, <2>3 DEF MakeSettled, Settle
  <2>5. Contract!Settling(p, s, x)
    BY <2>1, <2>2, <2>3, <2>4 DEF Contract!Settling
  <2>6. Contract!CreateSettled(p, s, x)
    BY <2>1, <2>5 DEF Contract!CreateSettled
  <2>7. QED
    BY <2>2, <2>6 DEF Contract!Next, Contract!Settled, Settled
<1>3. QED
  BY <1>1, <1>2

LEMMA ReactRefines ==
  ASSUME TInv, NEW p \in Promises, NEW d \in Promises, NEW s \in Settled, NEW w,
         React(p, d, s, w)
  PROVE  Contract!Next
<1>1. /\ p \in created /\ d \in Promises \ created /\ created' = created \cup {d}
      /\ n_reactions' = n_reactions + 1
      /\ reaction' = [reaction EXCEPT ![d] = [on |-> p, to |-> s, nth |-> n_reactions']]
      /\ UNCHANGED <<status, result, runs>>
  BY DEF React, Fresh
<1>2. Contract!Register(p, d, s)
  BY <1>1 DEF Contract!Register
<1>3. QED
  BY <1>2 DEF Contract!Next, Contract!Settled, Settled

LEMMA ApiRefines ==
  ASSUME TInv, ResultInv, ApiCall
  PROVE  Contract!Next \/ UNCHANGED Contract!vars
<1>1. ASSUME NEW p \in Promises, NEW v \in Values \cup {Blank}, Resolve(p, v)
      PROVE  Contract!Next \/ UNCHANGED Contract!vars
  <2>1. /\ Settle(pending_callback_queue, p, "RESOLVED", v) /\ p \in created
        /\ reaction[p] = NoReaction /\ UNCHANGED created
        /\ UNCHANGED <<reaction, n_reactions, runs>>
    BY <1>1 DEF Resolve, resolve_impl, HasCtx, history
  <2>2. QED
    BY <2>1, SettleRefines DEF TInv, Settled
<1>2. ASSUME NEW p \in Promises, NEW e \in Errors, Reject(p, e)
      PROVE  Contract!Next \/ UNCHANGED Contract!vars
  <2>1. /\ Settle(pending_callback_queue, p, "REJECTED", e) /\ p \in created
        /\ reaction[p] = NoReaction /\ UNCHANGED created
        /\ UNCHANGED <<reaction, n_reactions, runs>>
    BY <1>2 DEF Reject, reject_impl, HasCtx, history
  <2>2. QED
    BY <2>1, SettleRefines DEF TInv, Settled
<1>3. ASSUME NEW p \in Promises, NEW q \in Promises, ResolveWith(p, q)
      PROVE  Contract!Next \/ UNCHANGED Contract!vars
  <2>1. /\ associate_status(p, q) /\ p \in created
        /\ reaction[p] = NoReaction /\ UNCHANGED created
        /\ UNCHANGED <<reaction, n_reactions, runs>>
    BY <1>3 DEF ResolveWith, HasCtx, history
  <2>2. QED
    BY <2>1, AssociateRefines DEF TInv
<1>4. ASSUME NEW p \in Promises, NEW d \in Promises,
             Then(p, d) \/ \E a \in AcceptSets : Catch(p, d, a)
      PROVE  Contract!Next
  BY <1>4, ReactRefines DEF Then, Catch, Settled
<1>5. QED
  BY <1>1, <1>2, <1>3, <1>4, CreateRefines DEF ApiCall

(* A callback that returns, and a wrapper that adopts, settle a promise     *)
(* whose reaction was delivered.                                            *)
LEMMA WalkRefines ==
  ASSUME TInv, ResultInv, PassedInv, RunAdoption \/ Returns
  PROVE  Contract!Next \/ UNCHANGED Contract!vars
<1> DEFINE d == Active[wcursor].outer
<1>1. /\ UNCHANGED created /\ UNCHANGED <<reaction, n_reactions, runs>>
      /\ Calling /\ wcursor <= Len(Active)
  BY DEF RunAdoption, Returns, ReturnValue, ReturnPromise, Throw, Return, history, Calling,
         TInv, LoopInv
<1>2. /\ Current \in Promises /\ status[Current] \in Settled
      /\ wcursor \in 1 .. Len(wrappers[Current][status[Current]])
      /\ wrappers[Current][status[Current]][wcursor] = Active[wcursor]
      /\ d \in created /\ d \in Promises
  BY <1>1, AtCursor
<1>3. reaction[d] # NoReaction => runs[d] > 0
  <2>1. CASE RunAdoption
    BY <1>2, <2>1 DEF RunAdoption, PassedInv
  <2>2. CASE Returns
    <3>1. pc = "user"
      BY <2>2 DEF Returns, ReturnValue, ReturnPromise, Throw, Return
    <3>2. Entered(Current, status[Current], wcursor)
      BY <3>1 DEF Entered
    <3>3. ~Active[wcursor].adopt
      BY <3>1 DEF TInv, LoopInv
    <3>4. QED
      BY <1>2, <3>2, <3>3 DEF PassedInv
  <2>3. QED
    BY <2>1, <2>2
<1>4. CASE RunAdoption
  <2>1. Settle(pending_callback_queue, d, status[Current], result[Current])
    BY <1>4 DEF RunAdoption
  <2>2. result[Current] \in IF status[Current] = "RESOLVED" THEN Values \cup {Blank} ELSE Errors
    BY <1>2 DEF ResultInv, Settled
  <2>3. QED
    <3> HIDE DEF d
    <3>1. QED
      BY <1>1, <1>2, <1>3, <2>1, <2>2, SettleRefines DEF TInv
<1>5. ASSUME NEW v \in Values \cup {Blank}, ReturnValue(v)
      PROVE  Contract!Next \/ UNCHANGED Contract!vars
  <2>1. Settle(HelperQueue, d, "RESOLVED", v)
    BY <1>5 DEF ReturnValue, resolve_impl
  <2>2. QED
    <3> HIDE DEF d
    <3>1. QED
      BY <1>1, <1>2, <1>3, <2>1, SettleRefines DEF TInv, Settled
<1>6. ASSUME NEW q \in Promises, ReturnPromise(q)
      PROVE  Contract!Next \/ UNCHANGED Contract!vars
  <2>1. associate_status(d, q)
    BY <1>6 DEF ReturnPromise
  <2>2. QED
    <3> HIDE DEF d
    <3>1. QED
      BY <1>1, <1>2, <1>3, <2>1, AssociateRefines DEF TInv
<1>7. ASSUME NEW e \in Errors, Throw(e)
      PROVE  Contract!Next \/ UNCHANGED Contract!vars
  <2>1. Settle(HelperQueue, d, "REJECTED", e)
    BY <1>7 DEF Throw, reject_impl
  <2>2. QED
    <3> HIDE DEF d
    <3>1. QED
      BY <1>1, <1>2, <1>3, <2>1, SettleRefines DEF TInv, Settled
<1>8. QED
  BY <1>4, <1>5, <1>6, <1>7 DEF Returns

(* The first entry of a callback delivers its reaction: the ones registered *)
(* before it for the same outcome stand earlier in the list being walked,   *)
(* or were entered in an earlier walk.                                      *)
LEMMA EnterRefines ==
  ASSUME TInv, HInv, EnterCallback
  PROVE  Contract!Next \/ UNCHANGED Contract!vars
<1>1. PICK d \in Promises :
        /\ d = Active[wcursor].outer /\ pc = "calling" /\ pc' = "user"
        /\ Current \in Promises /\ status[Current] \in Settled
        /\ wcursor \in 1 .. Len(wrappers[Current][status[Current]])
        /\ ~wrappers[Current][status[Current]][wcursor].adopt
        /\ wrappers[Current][status[Current]][wcursor].outer = d
        /\ runs'[d] > 0
        /\ \A e \in Promises \ {d} : runs'[e] = runs[e]
        /\ UNCHANGED <<created, status, result, reaction, n_reactions>>
  BY EnterFacts
<1> DEFINE delivered == {e \in Promises : runs[e] > 0}
<1>2. delivered' = delivered \cup {d}
  BY <1>1
<1>3. CASE runs[d] > 0
  <2>1. UNCHANGED delivered
    BY <1>2, <1>3
  <2>2. QED
    BY <1>1, <2>1 DEF Contract!vars
<1>4. CASE ~(runs[d] > 0)
  <2>1. /\ reaction[d].on = Current /\ reaction[d].to = status[Current]
    BY SMTT(30), <1>1 DEF HInv, StoredInv
  <2>2. reaction[d] # Contract!NoReaction
    <3>1. Contract!NoReaction.to = "PENDING"
      BY DEF Contract!NoReaction
    <3>2. QED
      BY <1>1, <2>1, <3>1 DEF Settled
  <2>3. ASSUME NEW e \in Promises,
               reaction[e].on = Current, reaction[e].to = status[Current],
               reaction[e].nth < reaction[d].nth
        PROVE  e \in delivered
    <3>0. runs[e] \in 0 .. 2
      BY DEF TInv, TypeOK
    <3>1. SUFFICES ASSUME runs[e] = 0 PROVE FALSE
      BY <3>0
    <3>2. reaction[e] # NoReaction
      BY <1>1, <2>3 DEF NoReaction, Settled
    <3>3. PICK i \in 1 .. Len(wrappers[Current][status[Current]]) :
            /\ ~wrappers[Current][status[Current]][i].adopt
            /\ wrappers[Current][status[Current]][i].outer = e
      <4>1. CompleteInv
        BY DEF HInv
      <4>2. status[reaction[e].on] \in {"PENDING", reaction[e].to}
        BY <2>3
      <4>3. PICK i \in 1 .. Len(wrappers[reaction[e].on][reaction[e].to]) :
              /\ ~wrappers[reaction[e].on][reaction[e].to][i].adopt
              /\ wrappers[reaction[e].on][reaction[e].to][i].outer = e
        BY Zenon, <3>1, <3>2, <4>1, <4>2 DEF CompleteInv
      <4>4. QED
        BY Zenon, <2>3, <4>3
    <3>4. reaction[e].nth \in Nat /\ reaction[d].nth \in Nat
      BY DEF TInv, TypeOK
    <3>5. wcursor < i => reaction[d].nth < reaction[e].nth
      BY ZenonT(40), <1>1, <3>3 DEF HInv, StoredInv
    <3>6. wcursor = i => d = e
      BY <1>1, <3>3
    <3>7. wcursor \in Int /\ i \in Int
      BY <1>1, <3>3
    <3>8. i < wcursor
      BY <2>3, <3>4, <3>5, <3>6, <3>7
    <3>9. Entered(Current, status[Current], i)
      BY <1>1, <3>8 DEF Entered, Returned, Calling
    <3>10. runs[e] > 0
      BY <1>1, <3>3, <3>9 DEF HInv, PassedInv
    <3>11. QED
      BY <3>1, <3>10
  <2>4. Contract!Due(d)
    BY <1>4, <2>1, <2>2, <2>3 DEF Contract!Due
  <2>5. Contract!Deliver(d)
    BY <1>1, <1>2, <2>4 DEF Contract!Deliver
  <2>6. QED
    BY <2>5 DEF Contract!Next
<1>5. QED
  BY <1>3, <1>4

(* ImplementsContract: whatever the queue and the two loops do, what a user *)
(* sees is a promise that settles once, and reactions delivered at most     *)
(* once, for the matching outcome and in the order of registration.         *)
THEOREM Implements == Spec => ImplementsContract
<1>1. Init => Contract!Init
  <2> SUFFICES ASSUME Init PROVE Contract!Init
    OBVIOUS
  <2>1. {d \in Promises : runs[d] > 0} = {}
    BY DEF Init
  <2>2. QED
    BY <2>1 DEF Init, Contract!Init, NoReaction, Contract!NoReaction
<1>2. IInv /\ [Next]_vars => [Contract!Next]_Contract!vars
  <2> SUFFICES ASSUME IInv, [Next]_vars
               PROVE  Contract!Next \/ UNCHANGED Contract!vars
    OBVIOUS
  <2>1. TInv /\ HInv /\ ResultInv /\ PassedInv
    BY DEF IInv, TInv, HInv
  <2>2. CASE ApiCall
    BY <2>1, <2>2, ApiRefines
  <2>3. CASE RunAdoption \/ Returns
    BY <2>1, <2>3, WalkRefines
  <2>4. CASE EnterCallback
    BY <2>1, <2>4, EnterRefines
  <2>5. CASE TaskBegin \/ CallBack \/ BadCast \/ TaskEnd
    <3>1. UNCHANGED <<created, status, result, reaction, n_reactions, runs>>
      BY <2>1, <2>5, QuietSteps DEF Quiet
    <3>2. QED
      BY <3>1 DEF Contract!vars
  <2>6. CASE CallBackEnd \/ UNCHANGED vars
    <3>1. UNCHANGED <<created, status, result, reaction, n_reactions, runs>>
      BY <2>6 DEF CallBackEnd, vars, cells, history
    <3>2. QED
      BY <3>1 DEF Contract!vars
  <2>7. QED
    BY <2>2, <2>3, <2>4, <2>5, <2>6 DEF Next, TaskStep
<1>3. QED
  BY <1>1, <1>2, Inductive, PTL DEF Spec, ImplementsContract, Contract!Spec

=============================================================================
