-------------------------- MODULE GeneratorProofs --------------------------
(***************************************************************************)
(* OneWayBack holds of every number of generators.  It is inductive        *)
(* together with the types: a resume fills the slot of the resumed         *)
(* generator with the executing stack and a yield does the same, each      *)
(* moving the thread to the stack the slot held before; an end empties the *)
(* slot of the stack that ends.                                            *)
(***************************************************************************)
EXTENDS Generator, Sequences, SequenceTheorems, FiniteSetTheorems,
        WellFoundedInduction, TLAPS

Inv == TypeOK /\ OneWayBack

(* The slots after a switch: generator g, with the slot r before, keeps the *)
(* stack that executed, and the thread goes on with r.                      *)
Swap(g) ==
  /\ g \in Live
  /\ at' = Slot(g)
  /\ Slot(g)' = at
  /\ Live' = Live /\ Unfinished' = Unfinished
  /\ \A h \in Live \ {g} : Slot(h)' = Slot(h)

(* A switch in either direction keeps the slots a bijection. *)
LEMMA SwapKeeps ==
  ASSUME NEW g \in Gens, OneWayBack, Swap(g)
  PROVE  OneWayBack'
<1>1. at' \in Unfinished'
  BY DEF OneWayBack, Swap
<1>2. \A h \in Live' : Slot(h)' \in Unfinished' \ {at'}
  <2> SUFFICES ASSUME NEW h \in Live PROVE Slot(h)' \in Unfinished \ {Slot(g)}
    BY DEF Swap
  <2>1. CASE h = g
    BY <2>1 DEF Swap, OneWayBack
  <2>2. CASE h # g
    BY <2>2 DEF Swap, OneWayBack
  <2>3. QED
    BY <2>1, <2>2
<1>3. \A s \in Unfinished' \ {at'} : \E h \in Live' : Slot(h)' = s
  <2> SUFFICES ASSUME NEW s \in Unfinished, s # Slot(g) PROVE \E h \in Live : Slot(h)' = s
    BY DEF Swap
  <2>1. CASE s = at
    BY <2>1 DEF Swap
  <2>2. CASE s # at
    BY <2>2 DEF Swap, OneWayBack
  <2>3. QED
    BY <2>1, <2>2
<1>4. \A h, k \in Live' : Slot(h)' = Slot(k)' => h = k
  <2> SUFFICES ASSUME NEW h \in Live, NEW k \in Live, Slot(h)' = Slot(k)' PROVE h = k
    BY DEF Swap
  <2>1. \A l \in Live \ {g} : Slot(l)' # at
    BY DEF Swap, OneWayBack
  <2>2. QED
    BY <2>1 DEF Swap, OneWayBack
<1>5. QED
  BY <1>1, <1>2, <1>3, <1>4 DEF OneWayBack

(* run_generator is a switch, whether it starts the generator or resumes it. *)
LEMMA ResumeSwaps ==
  ASSUME NEW g \in Gens, NEW v, TypeOK,
         status[g] \in {"PENDING", "SUSPENDED"}, run_generator(g, v)
  PROVE  Swap(g)
<1>1. g \in Live /\ at' = Slot(g) /\ Slot(g)' = at
  BY DEF TypeOK, run_generator, Live, Slot
<1>2. Live' = Live /\ Unfinished' = Unfinished
  BY GeneratorAssumption DEF TypeOK, run_generator, Live, Unfinished, Stacks
<1>3. \A h \in Live \ {g} : Slot(h)' = Slot(h)
  BY DEF TypeOK, run_generator, Live, Slot
<1>4. QED
  BY <1>1, <1>2, <1>3 DEF Swap

(* So is yield_impl, from whatever stack it is called. *)
LEMMA YieldSwaps ==
  ASSUME NEW g \in Gens, TypeOK, yield_impl(g)
  PROVE  Swap(g)
<1>1. g \in Live /\ at' = Slot(g) /\ Slot(g)' = at
  BY DEF TypeOK, yield_impl, Live, Slot
<1>2. Live' = Live /\ Unfinished' = Unfinished
  BY GeneratorAssumption DEF TypeOK, yield_impl, Live, Unfinished, Stacks
<1>3. \A h \in Live \ {g} : Slot(h)' = Slot(h)
  BY DEF TypeOK, yield_impl, Live, Slot
<1>4. QED
  BY <1>1, <1>2, <1>3 DEF Swap

(* The end of an executor takes one generator and its own stack away. *)
LEMMA EndKeeps ==
  ASSUME NEW failed \in BOOLEAN, TypeOK, OneWayBack, gen_wrapper(failed)
  PROVE  OneWayBack'
<1>1. at \in Gens
  BY DEF gen_wrapper, TypeOK, Stacks
<1>2. CASE status[at] # "RUNNING"
  <2>1. UNCHANGED <<status, gen_ctx, caller_ctx, at>>
    BY <1>2 DEF gen_wrapper
  <2>2. QED
    BY <2>1 DEF OneWayBack, Unfinished, Live, Slot
<1>3. CASE status[at] = "RUNNING"
  <2>1. /\ status' = [status EXCEPT ![at] = "DONE"]
        /\ at' = Slot(at)
        /\ UNCHANGED <<gen_ctx, caller_ctx>>
    BY <1>3 DEF gen_wrapper, Slot
  <2>2. /\ at \in Live
        /\ Live' = Live \ {at}
        /\ Unfinished' = Unfinished \ {at}
    BY <1>1, <1>3, <2>1, GeneratorAssumption DEF TypeOK, Live, Unfinished, Stacks
  <2>3. \A h \in Live' : Slot(h)' = Slot(h)
    BY <1>1, <2>1 DEF TypeOK, Live, Slot
  <2>4. QED
    BY <2>1, <2>2, <2>3 DEF OneWayBack
<1>4. QED
  BY <1>2, <1>3

(* The types hold initially, and the slots of the pending generators are    *)
(* their own stacks.                                                        *)
LEMMA InitInv == Init => Inv
<1> SUFFICES ASSUME Init PROVE Inv
  OBVIOUS
<1>1. TypeOK
  BY DEF Init, TypeOK, GenStatus, Stacks
<1>2. OneWayBack
  BY GeneratorAssumption DEF Init, OneWayBack, Unfinished, Live, Slot, Stacks
<1>3. QED
  BY <1>1, <1>2 DEF Inv

(* A step that resumes or yields keeps the types. *)
LEMMA NextType == TypeOK /\ OneWayBack /\ [Next]_vars => TypeOK'
<1> SUFFICES ASSUME TypeOK, OneWayBack, [Next]_vars PROVE TypeOK'
  OBVIOUS
<1> USE DEF TypeOK, GenStatus, Stacks
<1>0. \A s : Abandon(s) \in [Gens -> From \cup {NoFrom}]
  BY DEF Abandon
<1>1. ASSUME NEW g \in Gens, next(g) PROVE TypeOK'
  BY <1>1 DEF next, run_generator, history
<1>2. ASSUME NEW g \in Gens, _throw(g) PROVE TypeOK'
  BY <1>0, <1>2 DEF _throw, run_generator
<1>3. ASSUME NEW g \in Gens, status[g] = "RUNNING" PROVE caller_ctx[g] \in Stacks
  BY <1>3 DEF OneWayBack, Live, Slot, Unfinished
<1>4. ASSUME NEW g \in Gens, yield(g) PROVE TypeOK'
  BY <1>3, <1>4 DEF yield, yield_impl
<1>5. ASSUME NEW g \in Gens, yield_from(g) PROVE TypeOK'
  BY <1>5 DEF yield_from, From, history
<1>6. ASSUME NEW failed \in BOOLEAN, gen_wrapper(failed) PROVE TypeOK'
  BY <1>0, <1>3, <1>6 DEF gen_wrapper, history
<1>7. ASSUME YieldFrom PROVE TypeOK'
  <2>1. CASE FromEnd
    BY <1>0, <2>1 DEF FromEnd, history
  <2>2. CASE FromDangling
    BY <2>2 DEF FromDangling, history
  <2>3. CASE FromNext
    <3>1. at \in Gens /\ from[at] \in From /\ Inner \in Gens
      BY <2>3 DEF FromNext, Delegating, Inner, From, NoFrom
    <3>2. from' \in [Gens -> From \cup {NoFrom}]
      BY <2>3, <3>1 DEF FromNext, From
    <3>3. QED
      BY <2>3, <3>1, <3>2 DEF FromNext, run_generator, history
  <2>4. CASE FromYield
    <3>1. at \in Gens /\ from[at] \in From
      BY <2>4 DEF FromYield, Delegating, From, NoFrom
    <3>2. from' \in [Gens -> From \cup {NoFrom}]
      BY <2>4, <3>1 DEF FromYield, From
    <3>3. QED
      BY <1>3, <2>4, <3>1, <3>2 DEF FromYield, yield_impl
  <2>5. CASE FromRefused
    BY <1>0, <2>5 DEF FromRefused, history
  <2>6. QED
    BY <1>7, <2>1, <2>2, <2>3, <2>4, <2>5 DEF YieldFrom
<1>8. CASE UNCHANGED vars
  BY <1>8 DEF vars, history
<1>9. QED
  BY <1>1, <1>2, <1>4, <1>5, <1>6, <1>7, <1>8 DEF Next

(* Every step keeps the slots a bijection. *)
LEMMA NextOneWay == TypeOK /\ OneWayBack /\ [Next]_vars => OneWayBack'
<1> SUFFICES ASSUME TypeOK, OneWayBack, [Next]_vars PROVE OneWayBack'
  OBVIOUS
<1>1. ASSUME UNCHANGED <<status, gen_ctx, caller_ctx, at>> PROVE OneWayBack'
  BY <1>1 DEF OneWayBack, Unfinished, Live, Slot
<1>2. ASSUME NEW g \in Gens, next(g) \/ _throw(g) PROVE OneWayBack'
  BY <1>2, ResumeSwaps, SwapKeeps DEF next, _throw
<1>3. ASSUME NEW g \in Gens, yield(g) PROVE OneWayBack'
  BY <1>3, YieldSwaps, SwapKeeps DEF yield
<1>4. ASSUME NEW failed \in BOOLEAN, gen_wrapper(failed) PROVE OneWayBack'
  BY <1>4, EndKeeps
<1>5. ASSUME FromNext PROVE OneWayBack'
  <2>1. Inner \in Gens
    BY <1>5 DEF FromNext, Delegating, TypeOK, Stacks, Inner, From, NoFrom
  <2>2. QED
    BY <1>5, <2>1, ResumeSwaps, SwapKeeps DEF FromNext
<1>6. ASSUME FromYield PROVE OneWayBack'
  <2>1. at \in Gens
    BY <1>6 DEF FromYield, Delegating, TypeOK, Stacks
  <2>2. QED
    BY <1>6, <2>1, YieldSwaps, SwapKeeps DEF FromYield
<1>7. ASSUME FromEnd \/ FromDangling \/ FromRefused PROVE OneWayBack'
  BY <1>1, <1>7 DEF FromEnd, FromDangling, FromRefused
<1>8. ASSUME NEW g \in Gens, yield_from(g) PROVE OneWayBack'
  BY <1>1, <1>8 DEF yield_from
<1>9. QED
  BY <1>1, <1>2, <1>3, <1>4, <1>5, <1>6, <1>7, <1>8 DEF Next, YieldFrom, vars

(* No stack is lost and none can be entered twice, for any number of        *)
(* generators and any use of their contexts.                                *)
THEOREM NoStackLost == Spec => []OneWayBack
<1>1. Inv /\ [Next]_vars => Inv'
  BY NextType, NextOneWay DEF Inv
<1>2. Inv => OneWayBack
  BY DEF Inv
<1>3. QED
  BY <1>1, <1>2, InitInv, PTL DEF Spec

(* What GenData holds stays within its types, for any number of generators. *)
THEOREM TypeCorrect == Spec => []TypeOK
<1>1. Inv /\ [Next]_vars => Inv'
  BY NextType, NextOneWay DEF Inv
<1>2. Inv => TypeOK
  BY DEF Inv
<1>3. QED
  BY <1>1, <1>2, InitInv, PTL DEF Spec

-----------------------------------------------------------------------------
(* Below is a recursive function: that it exists, and what it is.           *)

NatLess == {p \in Nat \X Nat : p[1] < p[2]}

(* A nonempty set of numbers has a least element. *)
LEMMA LeastOf ==
  ASSUME NEW S \in SUBSET Nat, S # {}
  PROVE  \E m \in S : \A k \in S : m <= k
<1>1. IsWellFoundedOn(NatLess, Nat)
  BY NatLessThanWellFounded DEF OpToRel, NatLess
<1>2. PICK m \in S : \A k \in S : ~(<<k, m>> \in NatLess)
  BY <1>1, WFMin
<1>3. ASSUME NEW k \in S PROVE m <= k
  <2>1. k \in Nat /\ m \in Nat
    OBVIOUS
  <2>2. k < m => <<k, m>> \in NatLess
    BY <2>1 DEF NatLess
  <2>3. QED
    BY <1>2, <2>1, <2>2
<1>4. QED
  BY <1>3

N == Cardinality(Gens)

LEMMA CountType == N \in Nat
BY GeneratorAssumption, FS_CardinalityType DEF N

(* The stack that control returns to from s. *)
Caller(s) == IF s \in Gens THEN caller_ctx[s] ELSE Main

(* f follows the callers of s, n steps down. *)
Chain(f, s, n) ==
  /\ f = [i \in 0 .. n |-> f[i]]
  /\ f[0] = s
  /\ \A i \in 1 .. n : f[i] = Caller(f[i - 1])

(* One can follow the callers however far. *)
LEMMA ChainExists ==
  ASSUME NEW s, NEW n \in Nat
  PROVE  \E f : Chain(f, s, n)
<1> DEFINE Bad == {m \in Nat : ~ \E f : Chain(f, s, m)}
<1>1. SUFFICES ASSUME Bad # {} PROVE FALSE
  OBVIOUS
<1>2. PICK m \in Bad : \A k \in Bad : m <= k
  BY <1>1, LeastOf
<1>3. CASE m = 0
  <2> DEFINE f == [i \in 0 .. 0 |-> s]
  <2>1. Chain(f, s, 0)
    BY DEF Chain
  <2>2. QED
    BY <1>2, <1>3, <2>1
<1>4. CASE m # 0
  <2>1. m - 1 \in Nat /\ m - 1 \notin Bad
    BY <1>2, <1>4
  <2>2. PICK f : Chain(f, s, m - 1)
    BY <2>1
  <2> DEFINE g == [i \in 0 .. m |-> IF i = m THEN Caller(f[m - 1]) ELSE f[i]]
  <2>3. g = [i \in 0 .. m |-> g[i]] /\ g[0] = s
    BY <1>2, <1>4, <2>2 DEF Chain
  <2>4. ASSUME NEW i \in 1 .. m PROVE g[i] = Caller(g[i - 1])
    <3>1. CASE i = m
      BY <1>4, <3>1
    <3>2. CASE i # m
      <4>1. i \in 1 .. m - 1 /\ i - 1 \in 0 .. m /\ i - 1 # m /\ i \in 0 .. m
        BY <3>2
      <4>2. f[i] = Caller(f[i - 1])
        BY <2>2, <4>1 DEF Chain
      <4>3. g[i] = f[i] /\ g[i - 1] = f[i - 1]
        BY <3>2, <4>1
      <4>4. QED
        BY <4>2, <4>3
    <3>3. QED
      BY <3>1, <3>2
  <2>5. Chain(g, s, m)
    BY <2>3, <2>4 DEF Chain
  <2>6. QED
    BY <1>2, <2>5
<1>5. QED
  BY <1>3, <1>4

(* Below(s) follows the callers of s, as far as there are generators. *)
LEMMA BelowIs ==
  ASSUME NEW s
  PROVE  Chain(Below(s), s, N)
<1> DEFINE body(f) == [n \in 0 .. N |-> IF n = 0 THEN s
                                       ELSE IF f[n - 1] \in Gens
                                            THEN caller_ctx[f[n - 1]] ELSE Main]
<1>1. PICK f : Chain(f, s, N)
  BY ChainExists, CountType
<1>2. f = body(f)
  BY SMTT(30), <1>1, CountType DEF Chain, Caller
<1>3. Below(s) = CHOOSE g : g = body(g)
  BY DEF Below, N
<1>4. Below(s) = body(Below(s))
  <2> HIDE DEF body
  <2>1. QED
    BY <1>2, <1>3
<1> DEFINE b == Below(s)
<1>5. b = body(b)
  BY <1>4
<1> HIDE DEF b
<1>6. Chain(b, s, N)
  BY <1>5, CountType DEF Chain, Caller
<1>7. QED
  BY <1>6 DEF b

-----------------------------------------------------------------------------
(* As long as only generators which are being executed are yielded, the     *)
(* generators lie in lanes: the one of Main holds those that are being      *)
(* executed, the innermost last, and the one of a generator holds what goes *)
(* on when it is resumed.                                                   *)
Lanes == [Stacks -> Seq(Gens)]

(* The thread is on the last of Main's lane.                                *)
Innermost(lane) ==
  at = IF lane[Main] = <<>> THEN Main ELSE lane[Main][Len(lane[Main])]

(* In a lane control returns from each to the one before.                   *)
Linked(lane) ==
  /\ \A s \in Stacks : \A i \in 2 .. Len(lane[s]) : caller_ctx[lane[s][i]] = lane[s][i - 1]
  /\ lane[Main] # <<>> => caller_ctx[lane[Main][1]] = Main

(* A generator that can be resumed is the first of its own lane, and goes   *)
(* on with the last; a pending one is alone there.                          *)
Headed(lane) ==
  \A g \in Gens :
    /\ status[g] \in {"PENDING", "SUSPENDED"} =>
         lane[g] # <<>> /\ lane[g][1] = g /\ gen_ctx[g] = lane[g][Len(lane[g])]
    /\ status[g] \notin {"PENDING", "SUSPENDED"} => lane[g] = <<>>
    /\ status[g] = "PENDING" => Len(lane[g]) = 1

(* All others are RUNNING. *)
Busy(lane) ==
  \A s \in Stacks : \A i \in 1 .. Len(lane[s]) :
    s = Main \/ i > 1 => status[lane[s][i]] = "RUNNING"

(* No generator has two places.                                             *)
Apart(lane) ==
  \A s, t \in Stacks : \A i \in 1 .. Len(lane[s]), j \in 1 .. Len(lane[t]) :
    lane[s][i] = lane[t][j] => s = t /\ i = j

Nested(lane) ==
  /\ lane \in Lanes /\ Innermost(lane) /\ Linked(lane)
  /\ Headed(lane) /\ Busy(lane) /\ Apart(lane)

(* Following the callers from the last of a lane goes through the lane. *)
LEMMA BelowLane ==
  ASSUME NEW lane, Nested(lane), NEW s \in Stacks, lane[s] # <<>>,
         NEW n \in 0 .. N, n < Len(lane[s])
  PROVE  Below(lane[s][Len(lane[s])])[n] = lane[s][Len(lane[s]) - n]
<1> DEFINE l == lane[s]
           top == l[Len(l)]
           b == Below(top)
           Bad == {k \in 0 .. N : k < Len(l) /\ b[k] # l[Len(l) - k]}
<1>1. l \in Seq(Gens) /\ Len(l) \in Nat
  BY LenProperties DEF Nested, Lanes
<1>2. \A i \in 1 .. Len(l) : l[i] \in Gens
  BY <1>1, ElementOfSeq
<1>3. \A i \in 2 .. Len(l) : caller_ctx[l[i]] = l[i - 1]
  BY DEF Nested, Linked
<1> HIDE DEF l
<1>4. Chain(b, top, N)
  BY BelowIs
<1> HIDE DEF b
<1>5. N \in Nat
  BY CountType
<1>6. SUFFICES ASSUME Bad # {} PROVE FALSE
  BY DEF b, l
<1>7. Bad \in SUBSET Nat
  BY <1>5
<1>8. PICK k \in Bad : \A m \in Bad : k <= m
  BY <1>6, <1>7, LeastOf
<1>9. k # 0
  BY <1>1, <1>4, <1>8 DEF Chain
<1>10. k - 1 \in 0 .. N /\ k - 1 < Len(l) /\ k \in 1 .. N /\ k - 1 \notin Bad /\ k < Len(l)
  BY <1>1, <1>5, <1>8, <1>9
<1>11. b[k - 1] = l[Len(l) - (k - 1)]
  BY <1>10
<1>12. Len(l) - (k - 1) \in 2 .. Len(l) /\ Len(l) - (k - 1) - 1 = Len(l) - k
  BY <1>1, <1>10
<1>13. b[k] = Caller(b[k - 1])
  BY <1>4, <1>10 DEF Chain
<1>14. b[k] = l[Len(l) - k]
  BY SMTT(30), <1>2, <1>3, <1>11, <1>12, <1>13 DEF Caller
<1>15. QED
  BY <1>8, <1>14

LEMMA CountUpTo ==
  ASSUME NEW n \in Nat
  PROVE  Cardinality(1 .. n) = n /\ Cardinality(0 .. n - 1) = n
<1>1. 1 \in Int /\ 0 \in Int /\ n \in Int /\ n - 1 \in Int
  OBVIOUS
<1>2. Cardinality(1 .. n) = IF 1 > n THEN 0 ELSE n - 1 + 1
  BY <1>1, FS_Interval, Zenon
<1>3. Cardinality(0 .. n - 1) = IF 0 > n - 1 THEN 0 ELSE n - 1 - 0 + 1
  BY <1>1, FS_Interval, Zenon
<1>4. QED
  BY <1>2, <1>3

(* A lane is no longer than there are generators. *)
LEMMA LaneFits ==
  ASSUME NEW lane, Nested(lane), NEW s \in Stacks
  PROVE  Len(lane[s]) \in 0 .. N
<1> DEFINE l == lane[s]
           f == [i \in 1 .. Len(l) |-> l[i]]
<1>1. l \in Seq(Gens) /\ Len(l) \in Nat
  BY LenProperties DEF Nested, Lanes
<1>2. \A i \in 1 .. Len(l) : l[i] \in Gens
  BY <1>1, ElementOfSeq
<1>3. \A i, j \in 1 .. Len(l) : l[i] = l[j] => i = j
  BY DEF Nested, Apart
<1> HIDE DEF l
<1>4. f \in Injection(1 .. Len(l), Gens)
  BY <1>2, <1>3 DEF Injection, IsInjective
<1>5. Cardinality(1 .. Len(l)) <= N
  BY <1>4, GeneratorAssumption, FS_Injection DEF N
<1>6. Cardinality(1 .. Len(l)) = Len(l)
  BY <1>1, CountUpTo
<1>7. QED
  BY <1>1, <1>5, <1>6, CountType DEF l

(* Below the executing stack are Main's lane and then Main. *)
LEMMA BelowAt ==
  ASSUME NEW lane, Nested(lane), NEW n \in 0 .. N
  PROVE  Below(at)[n] = IF n < Len(lane[Main]) THEN lane[Main][Len(lane[Main]) - n] ELSE Main
<1> DEFINE l == lane[Main]
           b == Below(at)
           Bad == {k \in 0 .. N : k >= Len(l) /\ b[k] # Main}
<1>1. l \in Seq(Gens) /\ Len(l) \in Nat /\ Main \in Stacks
  BY LenProperties DEF Nested, Lanes, Stacks
<1>2. Chain(b, at, N) /\ N \in Nat
  BY BelowIs, CountType
<1>3. (l = <<>> <=> Len(l) = 0) /\ at = IF l = <<>> THEN Main ELSE l[Len(l)]
  BY <1>1, EmptySeq DEF Nested, Innermost
<1>4. ASSUME NEW k \in 0 .. N, k < Len(l) PROVE b[k] = l[Len(l) - k]
  <2>1. l # <<>> /\ at = l[Len(l)]
    BY <1>1, <1>3, <1>4
  <2>2. QED
    BY <1>1, <1>4, <2>1, BelowLane
<1>5. l # <<>> => l[1] \in Gens /\ caller_ctx[l[1]] = Main
  <2>1. l # <<>> => l[1] \in Gens
    BY <1>1, <1>3, ElementOfSeq
  <2>2. QED
    BY <2>1 DEF Nested, Linked
<1> HIDE DEF l, b
<1>6. SUFFICES ASSUME Bad # {} PROVE FALSE
  BY <1>4, <1>1 DEF l, b
<1>7. Bad \in SUBSET Nat
  BY <1>2
<1>8. PICK k \in Bad : \A m \in Bad : k <= m
  BY <1>6, <1>7, LeastOf
<1>9. CASE k = 0
  BY <1>1, <1>2, <1>3, <1>8, <1>9 DEF Chain
<1>10. CASE k # 0
  <2>1. k - 1 \in 0 .. N /\ k \in 1 .. N /\ k - 1 \notin Bad
    BY <1>2, <1>8, <1>10
  <2>2. b[k] = Caller(b[k - 1])
    BY <1>2, <2>1 DEF Chain
  <2>3. CASE k - 1 >= Len(l)
    <3>1. b[k - 1] = Main
      BY <2>1, <2>3
    <3>2. QED
      BY <1>8, <2>2, <3>1, GeneratorAssumption DEF Caller
  <2>4. CASE k - 1 < Len(l)
    <3>1. k = Len(l) /\ l # <<>> /\ Len(l) - (k - 1) = 1
      BY <1>1, <1>3, <1>8, <2>1, <2>4
    <3>2. b[k - 1] = l[1]
      BY <1>4, <2>1, <2>4, <3>1
    <3>3. QED
      BY <1>5, <1>8, <2>2, <3>1, <3>2 DEF Caller
  <2>5. QED
    BY <1>1, <2>1, <2>3, <2>4
<1>11. QED
  BY <1>9, <1>10

(* So the generators that are being executed are those in Main's lane. *)
LEMMA ExecutedIs ==
  ASSUME NEW lane, Nested(lane)
  PROVE  Executed = {lane[Main][i] : i \in 1 .. Len(lane[Main])}
<1> DEFINE l == lane[Main]
<1>1. l \in Seq(Gens) /\ Len(l) \in 0 .. N /\ N \in Nat
  BY LaneFits, CountType DEF Nested, Lanes, Stacks
<1>2. \A i \in 1 .. Len(l) : l[i] \in Gens /\ l[i] # Main
  BY <1>1, ElementOfSeq, GeneratorAssumption
<1>3. \A n \in 0 .. N : Below(at)[n] = IF n < Len(l) THEN l[Len(l) - n] ELSE Main
  BY BelowAt
<1>4. Executed = {Below(at)[n] : n \in 0 .. N} \ {Main}
  BY DEF Executed, N
<1> HIDE DEF l
<1>5. ASSUME NEW i \in 1 .. Len(l) PROVE l[i] \in Executed
  <2>1. Len(l) - i \in 0 .. N /\ Len(l) - i < Len(l) /\ Len(l) - (Len(l) - i) = i
    BY <1>1
  <2>2. Below(at)[Len(l) - i] = l[i]
    BY <1>3, <2>1
  <2>3. QED
    BY <1>2, <1>4, <2>1, <2>2
<1>6. ASSUME NEW g \in Executed PROVE \E i \in 1 .. Len(l) : g = l[i]
  <2>1. PICK n \in 0 .. N : g = Below(at)[n] /\ g # Main
    BY <1>4
  <2>2. n < Len(l) /\ Len(l) - n \in 1 .. Len(l)
    BY <1>1, <1>3, <2>1
  <2>3. QED
    BY <1>3, <2>1, <2>2
<1>7. QED
  BY <1>5, <1>6 DEF l

(* The sequences that the refinement mapping computes are the lanes. *)
LEMMA StackIs ==
  ASSUME NEW lane, Nested(lane)
  PROVE  StackNow = lane[Main]
<1> DEFINE l == lane[Main]
<1>1. l \in Seq(Gens) /\ Len(l) \in 0 .. N /\ N \in Nat
  BY LaneFits, CountType DEF Nested, Lanes, Stacks
<1>2. \A i \in 1 .. Len(l) : l[i] \in Gens
  BY <1>1, ElementOfSeq
<1>3. \A n \in 0 .. N : Below(at)[n] = IF n < Len(l) THEN l[Len(l) - n] ELSE Main
  BY BelowAt
<1>4. Depth = Cardinality({n \in 0 .. N : Below(at)[n] \in Gens})
  BY DEF Depth, N
<1> HIDE DEF l
<1>5. {n \in 0 .. N : Below(at)[n] \in Gens} = 0 .. Len(l) - 1
  <2>1. ASSUME NEW n \in 0 .. N, n < Len(l) PROVE Below(at)[n] \in Gens
    <3>1. Len(l) - n \in 1 .. Len(l)
      BY <1>1, <2>1
    <3>2. QED
      BY <1>2, <1>3, <2>1, <3>1
  <2>2. ASSUME NEW n \in 0 .. N, ~(n < Len(l)) PROVE Below(at)[n] \notin Gens
    BY <1>3, <2>2, GeneratorAssumption
  <2>3. \A n : n \in 0 .. Len(l) - 1 <=> n \in 0 .. N /\ n < Len(l)
    BY <1>1
  <2>4. QED
    BY <2>1, <2>2, <2>3
<1>6. Depth = Len(l)
  <2>1. Len(l) \in Nat
    BY <1>1
  <2>2. Cardinality(0 .. Len(l) - 1) = Len(l)
    BY <2>1, CountUpTo
  <2>3. QED
    BY <1>4, <1>5, <2>2, Zenon
<1>7. ASSUME NEW i \in 1 .. Len(l) PROVE Below(at)[Len(l) - i] = l[i]
  <2>1. Len(l) - i \in 0 .. N /\ Len(l) - i < Len(l) /\ Len(l) - (Len(l) - i) = i
    BY <1>1
  <2>2. QED
    BY <1>3, <2>1
<1>8. StackNow = [i \in 1 .. Len(l) |-> l[i]]
  BY <1>6, <1>7 DEF StackNow
<1>9. QED
  BY <1>1, <1>8, LenProperties DEF l

LEMMA SegmentIs ==
  ASSUME TypeOK, NEW lane, Nested(lane), NEW g \in Gens
  PROVE  Segment(g) = lane[g]
<1> DEFINE l == lane[g]
           stack == Below(gen_ctx[g])
           upto == {n \in 0 .. N : stack[n] = g}
           k == CHOOSE n \in upto : \A m \in upto : n <= m
<1>1. l \in Seq(Gens) /\ Len(l) \in 0 .. N /\ N \in Nat /\ (l = <<>> <=> Len(l) = 0)
  BY LaneFits, CountType, EmptySeq DEF Nested, Lanes, Stacks
<1>2. Segment(g) = CASE status[g] \in {"RUNNING", "DONE"} \/ upto = {} -> <<>>
                     [] status[g] = "PENDING" -> <<g>>
                     [] OTHER -> [i \in 1 .. k + 1 |-> stack[k + 1 - i]]
  BY DEF Segment, N
<1>3. CASE status[g] \in {"RUNNING", "DONE"}
  <2>1. l = <<>>
    BY <1>3 DEF Nested, Headed
  <2>2. Segment(g) = <<>>
    <3> HIDE DEF upto, k, stack
    <3>1. QED
      BY <1>2, <1>3
  <2>3. QED
    BY <2>1, <2>2
<1>4. CASE status[g] \in {"PENDING", "SUSPENDED"}
  <2>1. l # <<>> /\ l[1] = g /\ gen_ctx[g] = l[Len(l)] /\ Len(l) >= 1
    BY <1>1, <1>4 DEF Nested, Headed
  <2>2. ASSUME NEW n \in 0 .. N, n < Len(l) PROVE stack[n] = l[Len(l) - n]
    BY <2>1, <2>2, BelowLane DEF Stacks
  <2>3. \A i, j \in 1 .. Len(l) : l[i] = l[j] => i = j
    BY DEF Nested, Apart, Stacks
  <2>4. status[g] = "PENDING" => Len(l) = 1
    BY DEF Nested, Headed
  <2>5. status[g] \notin {"RUNNING", "DONE"}
    BY <1>4
  <2>6. l = [i \in 1 .. Len(l) |-> l[i]]
    BY <1>1, LenProperties
  <2> HIDE DEF l, stack
  <2>7. Len(l) - 1 \in upto
    <3>1. Len(l) - 1 \in 0 .. N /\ Len(l) - 1 < Len(l) /\ Len(l) - (Len(l) - 1) = 1
      BY <1>1, <2>1
    <3>2. QED
      BY <2>1, <2>2, <3>1
  <2>8. ASSUME NEW n \in upto PROVE Len(l) - 1 <= n
    <3>1. SUFFICES ASSUME n < Len(l) - 1 PROVE FALSE
      BY <1>1
    <3>2. n \in 0 .. N /\ n < Len(l) /\ Len(l) - n \in 1 .. Len(l) /\ Len(l) - n # 1 /\ 1 \in 1 .. Len(l)
      BY <1>1, <2>1, <3>1
    <3>3. l[Len(l) - n] = g
      BY <2>2, <3>2
    <3>4. QED
      BY <2>1, <2>3, <3>2, <3>3
  <2>9. \A n \in upto : n \in Nat
    BY <1>1
  <2> HIDE DEF upto
  <2>10. k \in upto /\ \A m \in upto : k <= m
    BY <2>7, <2>8
  <2> HIDE DEF k
  <2>11. k = Len(l) - 1 /\ k + 1 = Len(l)
    BY <1>1, <2>7, <2>8, <2>9, <2>10
  <2>12. ASSUME NEW i \in 1 .. Len(l) PROVE stack[Len(l) - i] = l[i]
    <3>1. Len(l) - i \in 0 .. N /\ Len(l) - i < Len(l) /\ Len(l) - (Len(l) - i) = i
      BY <1>1
    <3>2. QED
      BY <2>2, <3>1
  <2>13. [i \in 1 .. k + 1 |-> stack[k + 1 - i]] = l
    BY <2>6, <2>11, <2>12
  <2>14. status[g] = "PENDING" => <<g>> = l
    <3>1. SUFFICES ASSUME Len(l) = 1 PROVE <<g>> = l
      BY <2>4
    <3>2. l = [i \in 1 .. 1 |-> l[i]]
      BY <2>6, <3>1
    <3>3. l = [i \in 1 .. 1 |-> g]
      BY <2>1, <3>2
    <3>4. QED
      BY <3>3
  <2>15. QED
    BY <1>2, <2>5, <2>7, <2>13, <2>14 DEF l
<1>5. QED
  BY <1>3, <1>4 DEF TypeOK, GenStatus

-----------------------------------------------------------------------------
(* The lanes after a resume of g, after a yield of the i-th of Main's lane, *)
(* and after the end of the last one.                                       *)
Push(lane, g) ==
  [s \in Stacks |-> IF s = Main THEN lane[Main] \o lane[g]
                    ELSE IF s = g THEN <<>> ELSE lane[s]]

Cut(lane, i) ==
  [s \in Stacks |-> IF s = Main THEN SubSeq(lane[Main], 1, i - 1)
                    ELSE IF s = lane[Main][i] THEN SubSeq(lane[Main], i, Len(lane[Main]))
                    ELSE lane[s]]

Drop(lane) ==
  [s \in Stacks |-> IF s = Main THEN SubSeq(lane[Main], 1, Len(lane[Main]) - 1) ELSE lane[s]]

LEMMA LaneFacts ==
  ASSUME NEW lane \in Lanes, NEW s \in Stacks
  PROVE  /\ lane[s] \in Seq(Gens) /\ Len(lane[s]) \in Nat
         /\ lane[s] = <<>> <=> Len(lane[s]) = 0
         /\ \A i \in 1 .. Len(lane[s]) : lane[s][i] \in Gens /\ lane[s][i] # Main
<1>1. lane[s] \in Seq(Gens)
  BY DEF Lanes
<1>2. QED
  BY <1>1, LenProperties, EmptySeq, ElementOfSeq, GeneratorAssumption

LEMMA PushFacts ==
  ASSUME NEW lane \in Lanes, NEW g \in Gens
  PROVE  /\ Push(lane, g) \in Lanes
         /\ Len(Push(lane, g)[Main]) = Len(lane[Main]) + Len(lane[g])
         /\ \A i \in 1 .. Len(lane[Main]) + Len(lane[g]) :
              Push(lane, g)[Main][i] = IF i <= Len(lane[Main]) THEN lane[Main][i]
                                       ELSE lane[g][i - Len(lane[Main])]
         /\ Push(lane, g)[g] = <<>> /\ Len(Push(lane, g)[g]) = 0
         /\ \A s \in Stacks : s # Main /\ s # g => Push(lane, g)[s] = lane[s]
<1> DEFINE a == lane[Main]
           c == lane[g]
           p == Push(lane, g)
<1>1. a \in Seq(Gens) /\ c \in Seq(Gens) /\ Main \in Stacks /\ g \in Stacks /\ Main # g
  BY GeneratorAssumption DEF Lanes, Stacks
<1>2. \A s \in Stacks : lane[s] \in Seq(Gens)
  BY DEF Lanes
<1>3. <<>> \in Seq(Gens) /\ Len(<<>>) = 0
  OBVIOUS
<1>4. p[Main] = a \o c /\ p[g] = <<>> /\ \A s \in Stacks : s # Main /\ s # g => p[s] = lane[s]
  BY <1>1 DEF Push
<1>5. p = [s \in Stacks |-> p[s]]
  BY DEF Push
<1> HIDE DEF a, c, p
<1>6. a \o c \in Seq(Gens) /\ Len(a \o c) = Len(a) + Len(c)
      /\ \A i \in 1 .. Len(a) + Len(c) : (a \o c)[i] = IF i <= Len(a) THEN a[i] ELSE c[i - Len(a)]
  BY <1>1, ConcatProperties
<1>7. \A s \in Stacks : p[s] \in Seq(Gens)
  BY <1>2, <1>3, <1>4, <1>6
<1>8. p \in Lanes
  BY <1>5, <1>7 DEF Lanes
<1>9. QED
  BY <1>3, <1>4, <1>6, <1>8 DEF a, c, p

(* A resume keeps the generators nested. *)
LEMMA PushNested ==
  ASSUME TypeOK, NEW lane, Nested(lane), NEW g \in Gens, NEW v,
         status[g] \in {"PENDING", "SUSPENDED"}, run_generator(g, v)
  PROVE  Nested(Push(lane, g))'
<1> DEFINE a == lane[Main]
           c == lane[g]
           p == Push(lane, g)
           n == Len(a)
           m == Len(c)
           Was(s, i, t, j) ==
             /\ p[s][i] = lane[t][j]
             /\ s = Main /\ i <= n => t = Main /\ j = i
             /\ s = Main /\ i > n => t = g /\ j = i - n
             /\ s # Main => s # g /\ t = s /\ j = i
<1>1. lane \in Lanes /\ Main \in Stacks /\ g \in Stacks /\ Main # g /\ Gens \subseteq Stacks
  BY GeneratorAssumption DEF Nested, Stacks
<1>2. /\ a \in Seq(Gens) /\ n \in Nat /\ (a = <<>> <=> n = 0)
      /\ c \in Seq(Gens) /\ m \in Nat /\ (c = <<>> <=> m = 0)
      /\ \A i \in 1 .. n : a[i] \in Gens
      /\ \A i \in 1 .. m : c[i] \in Gens
  BY <1>1, LaneFacts
<1>3. /\ p \in Lanes /\ Len(p[Main]) = n + m
      /\ \A i \in 1 .. n + m : p[Main][i] = IF i <= n THEN a[i] ELSE c[i - n]
      /\ p[g] = <<>> /\ Len(p[g]) = 0
      /\ \A s \in Stacks : s # Main /\ s # g => p[s] = lane[s]
  BY <1>1, PushFacts, Zenon
<1>4. m > 0 /\ c[1] = g /\ gen_ctx[g] = c[m]
  BY <1>1, <1>2 DEF Nested, Headed
<1>5. at = IF n = 0 THEN Main ELSE a[n]
  BY <1>2 DEF Nested, Innermost
<1>6. /\ \A s \in Stacks : \A i \in 2 .. Len(lane[s]) : caller_ctx[lane[s][i]] = lane[s][i - 1]
      /\ n # 0 => caller_ctx[a[1]] = Main
  BY <1>2 DEF Nested, Linked
<1>7. \A s \in Stacks : \A i \in 1 .. Len(lane[s]) : lane[s][i] = g => s = g /\ i = 1
  <2>1. 1 \in 1 .. m
    BY <1>2, <1>4
  <2>2. QED
    BY <1>1, <1>4, <2>1 DEF Nested, Apart
<1>8. /\ \A x \in Gens : x # g => caller_ctx'[x] = caller_ctx[x] /\ status'[x] = status[x]
      /\ caller_ctx'[g] = at /\ status'[g] = "RUNNING" /\ at' = gen_ctx[g] /\ gen_ctx' = gen_ctx
  BY DEF run_generator, TypeOK
<1>9. \A s \in Stacks : Len(lane[s]) \in Nat /\ \A i \in 1 .. Len(lane[s]) : lane[s][i] \in Gens
  BY <1>1, LaneFacts
<1>10. \A s \in Stacks : \A i \in 1 .. Len(lane[s]) : s = Main \/ i > 1 => status[lane[s][i]] = "RUNNING"
  BY DEF Nested, Busy
<1>11. \A s, t \in Stacks : \A i \in 1 .. Len(lane[s]), j \in 1 .. Len(lane[t]) :
          lane[s][i] = lane[t][j] => s = t /\ i = j
  BY DEF Nested, Apart
<1> HIDE DEF a, c, p, n, m
<1>12. p[Main] = <<>> <=> n + m = 0
  <2>1. p[Main] = <<>> <=> Len(p[Main]) = 0
    BY <1>1, <1>3, LaneFacts
  <2>2. QED
    BY <1>3, <2>1
<1>13. Innermost(p)'
  <2>1. at' = p[Main][n + m] /\ p[Main] # <<>>
    <3>1. n + m \in 1 .. n + m /\ ~(n + m <= n) /\ n + m - n = m /\ n + m # 0
      BY <1>2, <1>4
    <3>2. p[Main][n + m] = c[n + m - n]
      <4>1. n \in Nat /\ m \in Nat
        BY <1>2
      <4>2. \A i \in 1 .. n + m : p[Main][i] = IF i <= n THEN a[i] ELSE c[i - n]
        BY <1>3
      <4>3. QED
        BY <3>1, <4>1, <4>2
    <3>3. p[Main][n + m] = c[m]
      BY <3>1, <3>2
    <3>4. QED
      BY <1>4, <1>8, <1>12, <3>1, <3>3
  <2>2. QED
    BY <1>3, <2>1 DEF Innermost
<1>14. Linked(p)'
  <2>1. ASSUME NEW i \in 2 .. n + m PROVE caller_ctx'[p[Main][i]] = p[Main][i - 1]
    <3>1. CASE i <= n
      <4>1. i \in 2 .. n /\ i \in 1 .. n /\ i - 1 \in 1 .. n + m /\ i - 1 <= n
        BY <1>2, <3>1
      <4>2. a[i] # g /\ a[i] \in Gens /\ caller_ctx[a[i]] = a[i - 1]
        BY <1>1, <1>2, <1>6, <1>7, <4>1 DEF a, n
      <4>3. QED
        BY <1>3, <1>8, <4>1, <4>2
    <3>2. CASE i = n + 1
      <4>1. n # 0 /\ i - n = 1 /\ i - 1 = n /\ n \in 1 .. n + m /\ i \in 1 .. n + m /\ ~(i <= n)
        BY <1>2, <3>2
      <4>2. p[Main][i] = g /\ p[Main][i - 1] = a[n]
        BY <1>3, <1>4, <4>1
      <4>3. QED
        BY <1>5, <1>8, <4>1, <4>2
    <3>3. CASE i > n + 1
      <4>1. i - n \in 2 .. m /\ i - n \in 1 .. m /\ i - n # 1 /\ i - 1 \in 1 .. n + m
            /\ ~(i - 1 <= n) /\ ~(i <= n) /\ i - 1 - n = i - n - 1 /\ i \in 1 .. n + m
        BY <1>2, <3>3
      <4>2. c[i - n] # g /\ c[i - n] \in Gens /\ caller_ctx[c[i - n]] = c[i - n - 1]
        BY <1>1, <1>2, <1>6, <1>7, <4>1 DEF c, m
      <4>3. QED
        BY <1>3, <1>8, <4>1, <4>2
    <3>4. QED
      BY <1>2, <3>1, <3>2, <3>3
  <2>2. ASSUME NEW s \in Stacks, s # Main, NEW i \in 2 .. Len(p[s])
        PROVE  caller_ctx'[p[s][i]] = p[s][i - 1]
    <3>1. s # g
      BY <1>3
    <3>2. p[s] = lane[s] /\ i \in 2 .. Len(lane[s]) /\ i \in 1 .. Len(lane[s])
      BY <1>3, <1>9, <2>2, <3>1
    <3>3. lane[s][i] # g /\ lane[s][i] \in Gens /\ caller_ctx[lane[s][i]] = lane[s][i - 1]
      BY <1>6, <1>7, <1>9, <3>1, <3>2
    <3>4. QED
      BY <1>8, <3>2, <3>3
  <2>3. caller_ctx'[p[Main][1]] = Main
    <3>1. CASE n = 0
      <4>1. 1 \in 1 .. n + m /\ ~(1 <= n) /\ 1 - n = 1
        BY <1>2, <1>4, <3>1
      <4>2. QED
        BY <1>3, <1>4, <1>5, <1>8, <3>1, <4>1
    <3>2. CASE n # 0
      <4>1. 1 \in 1 .. n + m /\ 1 <= n /\ 1 \in 1 .. n
        BY <1>2, <3>2
      <4>2. a[1] # g /\ a[1] \in Gens
        BY <1>1, <1>2, <1>7, <4>1 DEF a, n
      <4>3. QED
        BY <1>3, <1>6, <1>8, <3>2, <4>1, <4>2
    <3>3. QED
      BY <3>1, <3>2
  <2>4. QED
    BY <1>3, <2>1, <2>2, <2>3 DEF Linked
<1>15. Headed(p)'
  <2> SUFFICES ASSUME NEW h \in Gens
               PROVE  /\ status'[h] \in {"PENDING", "SUSPENDED"} =>
                           p[h] # <<>> /\ p[h][1] = h /\ gen_ctx'[h] = p[h][Len(p[h])]
                      /\ status'[h] \notin {"PENDING", "SUSPENDED"} => p[h] = <<>>
                      /\ status'[h] = "PENDING" => Len(p[h]) = 1
    BY DEF Headed
  <2>1. CASE h = g
    BY <1>3, <1>8, <2>1
  <2>2. CASE h # g
    <3>1. p[h] = lane[h] /\ status'[h] = status[h] /\ gen_ctx'[h] = gen_ctx[h]
      BY <1>1, <1>3, <1>8, <2>2, GeneratorAssumption
    <3>2. QED
      BY <3>1 DEF Nested, Headed
  <2>3. QED
    BY <2>1, <2>2
<1>16. ASSUME NEW s \in Stacks, NEW i \in 1 .. Len(p[s])
       PROVE  \E t \in Stacks : \E j \in 1 .. Len(lane[t]) : Was(s, i, t, j)
  <2>1. CASE s = Main /\ i <= n
    <3>1. i \in 1 .. n /\ i \in 1 .. n + m
      BY <1>2, <2>1
    <3>2. QED
      BY <1>1, <1>2, <1>3, <2>1, <3>1 DEF a, n
  <2>2. CASE s = Main /\ i > n
    <3>1. i \in 1 .. n + m /\ i - n \in 1 .. m /\ ~(i <= n)
      BY <1>2, <1>3, <2>2
    <3>2. p[s][i] = lane[g][i - n] /\ i - n \in 1 .. Len(lane[g])
      BY <1>3, <2>2, <3>1 DEF c, m
    <3>3. QED
      BY <1>1, <1>2, <2>2, <3>1, <3>2
  <2>3. CASE s # Main
    <3>1. s # g /\ p[s] = lane[s]
      BY <1>3, <2>3
    <3>2. QED
      BY <2>3, <3>1
  <2>4. QED
    BY <1>2, <1>3, <2>1, <2>2, <2>3
<1>17. Busy(p)'
  <2> SUFFICES ASSUME NEW s \in Stacks, NEW i \in 1 .. Len(p[s]), s = Main \/ i > 1
               PROVE  status'[p[s][i]] = "RUNNING"
    BY DEF Busy
  <2>0. PICK t \in Stacks : \E j \in 1 .. Len(lane[t]) : Was(s, i, t, j)
    BY <1>16
  <2>1. PICK j \in 1 .. Len(lane[t]) : Was(s, i, t, j)
    BY <2>0
  <2>2. lane[t][j] \in Gens
    BY <1>9
  <2>3. CASE lane[t][j] = g
    BY <1>8, <2>1, <2>3
  <2>4. CASE lane[t][j] # g
    <3>1. ~(t = g /\ j = 1)
      BY <1>4, <2>4 DEF c
    <3>2. j \in Nat /\ i \in Nat /\ j >= 1
      BY <1>3, <1>9, LaneFacts
    <3>3. t = Main \/ j > 1
      BY <1>2, <2>1, <3>1, <3>2
    <3>4. status[lane[t][j]] = "RUNNING"
      BY <1>10, <3>3
    <3>5. QED
      BY <1>8, <2>1, <2>2, <2>4, <3>4
  <2>5. QED
    BY <2>3, <2>4
<1>18. Apart(p)'
  <2> SUFFICES ASSUME NEW s1 \in Stacks, NEW s2 \in Stacks,
                      NEW i1 \in 1 .. Len(p[s1]), NEW i2 \in 1 .. Len(p[s2]),
                      p[s1][i1] = p[s2][i2]
               PROVE  s1 = s2 /\ i1 = i2
    BY DEF Apart
  <2>1a. PICK t1 \in Stacks : \E j \in 1 .. Len(lane[t1]) : Was(s1, i1, t1, j)
    BY <1>16
  <2>1. PICK j1 \in 1 .. Len(lane[t1]) : Was(s1, i1, t1, j1)
    BY <2>1a
  <2>2a. PICK t2 \in Stacks : \E j \in 1 .. Len(lane[t2]) : Was(s2, i2, t2, j)
    BY <1>16
  <2>2. PICK j2 \in 1 .. Len(lane[t2]) : Was(s2, i2, t2, j2)
    BY <2>2a
  <2>3. t1 = t2 /\ j1 = j2
    <3>1. lane[t1][j1] = lane[t2][j2]
      BY <2>1, <2>2
    <3>2. QED
      BY <1>11, <3>1
  <2>4. i1 \in Nat /\ i2 \in Nat
    BY <1>3, LaneFacts
  <2>5. QED
    BY <1>1, <1>2, <2>1, <2>2, <2>3, <2>4
<1>19. QED
  BY <1>3, <1>13, <1>14, <1>15, <1>17, <1>18 DEF Nested, p, Innermost, Linked, Headed, Busy, Apart

LEMMA CutFacts ==
  ASSUME NEW lane \in Lanes, NEW i \in 1 .. Len(lane[Main])
  PROVE  /\ Cut(lane, i) \in Lanes
         /\ Len(Cut(lane, i)[Main]) = i - 1
         /\ \A k \in 1 .. i - 1 : Cut(lane, i)[Main][k] = lane[Main][k]
         /\ Len(Cut(lane, i)[lane[Main][i]]) = Len(lane[Main]) - i + 1
         /\ \A k \in 1 .. Len(lane[Main]) - i + 1 :
              Cut(lane, i)[lane[Main][i]][k] = lane[Main][i + k - 1]
         /\ \A s \in Stacks : s # Main /\ s # lane[Main][i] => Cut(lane, i)[s] = lane[s]
<1> DEFINE a == lane[Main]
           p == Cut(lane, i)
           front == SubSeq(a, 1, i - 1)
           back == SubSeq(a, i, Len(a))
           g == a[i]
<1>1. a \in Seq(Gens) /\ Len(a) \in Nat /\ g \in Gens /\ Main \in Stacks /\ g \in Stacks /\ g # Main
  BY LaneFacts DEF Stacks
<1>2. \A s \in Stacks : lane[s] \in Seq(Gens)
  BY DEF Lanes
<1>3. p[Main] = front /\ p[g] = back /\ \A s \in Stacks : s # Main /\ s # g => p[s] = lane[s]
  BY <1>1 DEF Cut
<1>4. p = [s \in Stacks |-> p[s]]
  BY DEF Cut
<1>5. front \in Seq(Gens) /\ Len(front) = i - 1 /\ \A k \in 1 .. i - 1 : front[k] = a[k]
  <2> HIDE DEF a, g, p
  <2>1. 1 \in 1 .. Len(a) + 1 /\ i - 1 \in 0 .. Len(a) /\ i \in 1 .. Len(a)
    BY <1>1 DEF a
  <2>2. \A k \in 1 .. i - 1 : k \in 1 .. Len(a)
    BY <1>1, <2>1
  <2>3. QED
    BY <1>1, <2>1, <2>2, SubSeqProperties
<1>6. back \in Seq(Gens) /\ Len(back) = Len(a) - i + 1
      /\ \A k \in 1 .. Len(a) - i + 1 : back[k] = a[i + k - 1]
  <2> HIDE DEF a, g, p
  <2>1. i \in 1 .. Len(a) + 1 /\ Len(a) \in i - 1 .. Len(a) /\ i \in 1 .. Len(a)
    BY <1>1 DEF a
  <2>2. QED
    BY <1>1, <2>1, SubSeqProperties
<1> HIDE DEF a, p, front, back, g
<1>7. \A s \in Stacks : p[s] \in Seq(Gens)
  BY <1>2, <1>3, <1>5, <1>6
<1>8. p \in Lanes
  BY <1>4, <1>7 DEF Lanes
<1>9. QED
  BY <1>3, <1>5, <1>6, <1>8 DEF a, p, g

(* A yield of a generator that is being executed keeps them nested. *)
LEMMA CutNested ==
  ASSUME TypeOK, NEW lane, Nested(lane), NEW i \in 1 .. Len(lane[Main]),
         yield_impl(lane[Main][i])
  PROVE  Nested(Cut(lane, i))'
<1> DEFINE a == lane[Main]
           g == a[i]
           p == Cut(lane, i)
           n == Len(a)
           Was(s, k, t, j) ==
             /\ p[s][k] = lane[t][j]
             /\ s = Main => t = Main /\ j = k /\ k < i
             /\ s = g => t = Main /\ j = i + k - 1
             /\ s # Main /\ s # g => t = s /\ j = k
<1>1. lane \in Lanes /\ Main \in Stacks /\ Gens \subseteq Stacks
  BY DEF Nested, Stacks
<1>2. /\ a \in Seq(Gens) /\ n \in Nat /\ (a = <<>> <=> n = 0) /\ i \in 1 .. n /\ n > 0
      /\ \A k \in 1 .. n : a[k] \in Gens
  BY <1>1, LaneFacts
<1>3. /\ p \in Lanes /\ Len(p[Main]) = i - 1
      /\ \A k \in 1 .. i - 1 : p[Main][k] = a[k]
      /\ Len(p[g]) = n - i + 1
      /\ \A k \in 1 .. n - i + 1 : p[g][k] = a[i + k - 1]
      /\ \A s \in Stacks : s # Main /\ s # g => p[s] = lane[s]
  BY <1>1, CutFacts, Zenon
<1>4. g \in Gens /\ g \in Stacks /\ g # Main /\ at = a[n]
  BY <1>1, <1>2, GeneratorAssumption DEF Nested, Innermost
<1>5. \A s \in Stacks : \A k \in 2 .. Len(lane[s]) : caller_ctx[lane[s][k]] = lane[s][k - 1]
  BY DEF Nested, Linked
<1>6. \A k \in 2 .. n : caller_ctx[a[k]] = a[k - 1]
  BY <1>1, <1>5
<1>7. caller_ctx[a[1]] = Main
  BY <1>2 DEF Nested, Linked
<1>8. /\ \A x \in Gens : x # g => status'[x] = status[x] /\ gen_ctx'[x] = gen_ctx[x]
      /\ status'[g] = "SUSPENDED" /\ gen_ctx'[g] = at /\ at' = caller_ctx[g]
      /\ caller_ctx' = caller_ctx
  <2>1. yield_impl(g)
    OBVIOUS
  <2> HIDE DEF g
  <2>2. QED
    BY <1>4, <2>1 DEF yield_impl, TypeOK
<1>9. \A s \in Stacks : Len(lane[s]) \in Nat /\ \A k \in 1 .. Len(lane[s]) : lane[s][k] \in Gens
  BY <1>1, LaneFacts
<1>10. \A s \in Stacks : \A k \in 1 .. Len(lane[s]) : s = Main \/ k > 1 => status[lane[s][k]] = "RUNNING"
  BY DEF Nested, Busy
<1>11. \A s, t \in Stacks : \A k \in 1 .. Len(lane[s]), j \in 1 .. Len(lane[t]) :
          lane[s][k] = lane[t][j] => s = t /\ k = j
  BY DEF Nested, Apart
<1>12. \A t \in Stacks : \A j \in 1 .. Len(lane[t]) : lane[t][j] = g => t = Main /\ j = i
  BY <1>1, <1>2, <1>11
<1> HIDE DEF a, p, n, g
<1>13. (p[Main] = <<>> <=> i = 1) /\ p[g] # <<>>
  <2>1. (p[Main] = <<>> <=> Len(p[Main]) = 0) /\ (p[g] = <<>> <=> Len(p[g]) = 0)
    BY <1>1, <1>3, <1>4, LaneFacts
  <2>2. QED
    BY <1>2, <1>3, <2>1
<1>14. p[g][1] = g /\ p[g][n - i + 1] = at
  <2>1. 1 \in 1 .. n - i + 1 /\ i + 1 - 1 = i /\ n - i + 1 \in 1 .. n - i + 1 /\ i + (n - i + 1) - 1 = n
    BY <1>2
  <2>2. p[g][1] = a[i + 1 - 1] /\ p[g][n - i + 1] = a[i + (n - i + 1) - 1]
    BY <1>3, <2>1
  <2>3. QED
    BY <1>4, <2>1, <2>2 DEF g
<1>15. Innermost(p)'
  <2>1. CASE i = 1
    BY <1>7, <1>8, <1>13, <2>1 DEF Innermost, g
  <2>2. CASE i # 1
    <3>1. i \in 2 .. n /\ i - 1 \in 1 .. i - 1
      BY <1>2, <2>2
    <3>2. at' = a[i - 1] /\ p[Main][Len(p[Main])] = a[i - 1]
      BY <1>3, <1>6, <1>8, <3>1 DEF g
    <3>3. QED
      BY <1>13, <2>2, <3>2 DEF Innermost
  <2>3. QED
    BY <2>1, <2>2
<1>16. Linked(p)'
  <2>1. ASSUME NEW k \in 2 .. i - 1 PROVE caller_ctx[p[Main][k]] = p[Main][k - 1]
    <3>1. k \in 2 .. n /\ k \in 1 .. i - 1 /\ k - 1 \in 1 .. i - 1
      BY <1>2
    <3>2. QED
      BY <1>3, <1>6, <3>1
  <2>2. ASSUME NEW k \in 2 .. n - i + 1 PROVE caller_ctx[p[g][k]] = p[g][k - 1]
    <3>1. i + k - 1 \in 2 .. n /\ k \in 1 .. n - i + 1 /\ k - 1 \in 1 .. n - i + 1
          /\ i + k - 1 - 1 = i + (k - 1) - 1
      BY <1>2
    <3>2. QED
      BY <1>3, <1>6, <3>1
  <2>3. p[Main] # <<>> => p[Main][1] = a[1]
    <3>1. SUFFICES ASSUME i # 1 PROVE p[Main][1] = a[1]
      BY <1>13
    <3>2. 1 \in 1 .. i - 1
      BY <1>2, <3>1
    <3>3. QED
      BY <1>3, <3>2
  <2>4. ASSUME NEW s \in Stacks, NEW k \in 2 .. Len(p[s]) PROVE caller_ctx[p[s][k]] = p[s][k - 1]
    <3>1. CASE s = Main
      BY <1>3, <2>1, <3>1
    <3>2. CASE s = g
      BY <1>3, <2>2, <3>2
    <3>3. CASE s # Main /\ s # g
      BY <1>3, <1>5, <3>3
    <3>4. QED
      BY <3>1, <3>2, <3>3
  <2>5. QED
    BY <1>7, <1>8, <2>3, <2>4 DEF Linked
<1>17. Headed(p)'
  <2> SUFFICES ASSUME NEW h \in Gens
               PROVE  /\ status'[h] \in {"PENDING", "SUSPENDED"} =>
                           p[h] # <<>> /\ p[h][1] = h /\ gen_ctx'[h] = p[h][Len(p[h])]
                      /\ status'[h] \notin {"PENDING", "SUSPENDED"} => p[h] = <<>>
                      /\ status'[h] = "PENDING" => Len(p[h]) = 1
    BY DEF Headed
  <2>1. CASE h = g
    BY <1>3, <1>8, <1>13, <1>14, <2>1
  <2>2. CASE h # g
    <3>1. p[h] = lane[h] /\ status'[h] = status[h] /\ gen_ctx'[h] = gen_ctx[h]
      BY <1>1, <1>3, <1>8, <2>2, GeneratorAssumption
    <3>2. QED
      BY <3>1 DEF Nested, Headed
  <2>3. QED
    BY <2>1, <2>2
<1>18. ASSUME NEW s \in Stacks, NEW k \in 1 .. Len(p[s])
       PROVE  \E t \in Stacks : \E j \in 1 .. Len(lane[t]) : Was(s, k, t, j)
  <2>1. CASE s = Main
    <3>1. k \in 1 .. i - 1 /\ k \in 1 .. n /\ k < i
      BY <1>2, <1>3, <2>1
    <3>2. p[s][k] = lane[Main][k] /\ k \in 1 .. Len(lane[Main])
      BY <1>3, <2>1, <3>1 DEF a, n
    <3>3. QED
      BY <1>1, <1>4, <2>1, <3>1, <3>2
  <2>2. CASE s = g
    <3>1. k \in 1 .. n - i + 1 /\ i + k - 1 \in 1 .. n
      BY SMTT(30), <1>2, <1>3, <2>2
    <3>2. p[s][k] = lane[Main][i + k - 1] /\ i + k - 1 \in 1 .. Len(lane[Main])
      BY <1>3, <2>2, <3>1 DEF a, n
    <3>3. QED
      BY <1>1, <1>4, <2>2, <3>1, <3>2
  <2>3. CASE s # Main /\ s # g
    BY <1>3, <2>3
  <2>4. QED
    BY <2>1, <2>2, <2>3
<1>19. Busy(p)'
  <2> SUFFICES ASSUME NEW s \in Stacks, NEW k \in 1 .. Len(p[s]), s = Main \/ k > 1
               PROVE  status'[p[s][k]] = "RUNNING"
    BY DEF Busy
  <2>0. PICK t \in Stacks : \E j \in 1 .. Len(lane[t]) : Was(s, k, t, j)
    BY <1>18
  <2>1. PICK j \in 1 .. Len(lane[t]) : Was(s, k, t, j)
    BY <2>0
  <2>2. lane[t][j] \in Gens
    BY <1>9
  <2>3. k \in Nat
    BY <1>3, LaneFacts
  <2>4. lane[t][j] # g
    <3>1. SUFFICES ASSUME t = Main, j = i PROVE FALSE
      BY <1>12
    <3>2. CASE s = Main
      BY <1>2, <2>1, <2>3, <3>1, <3>2
    <3>3. CASE s = g
      BY <1>2, <1>4, <2>1, <2>3, <3>1, <3>3
    <3>4. CASE s # Main /\ s # g
      BY <2>1, <3>1, <3>4
    <3>5. QED
      BY <3>2, <3>3, <3>4
  <2>5. t = Main \/ j > 1
    BY <2>1
  <2>6. status[lane[t][j]] = "RUNNING"
    BY <1>10, <2>5
  <2>7. QED
    BY <1>8, <2>1, <2>2, <2>4, <2>6
<1>20. Apart(p)'
  <2> SUFFICES ASSUME NEW s1 \in Stacks, NEW s2 \in Stacks,
                      NEW k1 \in 1 .. Len(p[s1]), NEW k2 \in 1 .. Len(p[s2]),
                      p[s1][k1] = p[s2][k2]
               PROVE  s1 = s2 /\ k1 = k2
    BY DEF Apart
  <2>1. PICK t1 \in Stacks : \E j \in 1 .. Len(lane[t1]) : Was(s1, k1, t1, j)
    BY <1>18
  <2>2. PICK j1 \in 1 .. Len(lane[t1]) : Was(s1, k1, t1, j1)
    BY <2>1
  <2>3. PICK t2 \in Stacks : \E j \in 1 .. Len(lane[t2]) : Was(s2, k2, t2, j)
    BY <1>18
  <2>4. PICK j2 \in 1 .. Len(lane[t2]) : Was(s2, k2, t2, j2)
    BY <2>3
  <2>5. t1 = t2 /\ j1 = j2
    <3>1. lane[t1][j1] = lane[t2][j2]
      BY <2>2, <2>4
    <3>2. QED
      BY SMTT(30), <1>11, <3>1
  <2>6. k1 \in Nat /\ k2 \in Nat /\ k1 >= 1 /\ k2 >= 1 /\ i \in Nat
    BY <1>2, <1>3, LaneFacts
  <2>7. /\ s1 = Main => t1 = Main /\ j1 = k1 /\ k1 < i
        /\ s1 = g => t1 = Main /\ j1 = i + k1 - 1
        /\ s1 # Main /\ s1 # g => t1 = s1 /\ j1 = k1
        /\ s2 = Main => t2 = Main /\ j2 = k2 /\ k2 < i
        /\ s2 = g => t2 = Main /\ j2 = i + k2 - 1
        /\ s2 # Main /\ s2 # g => t2 = s2 /\ j2 = k2
    BY <2>2, <2>4
  <2>8. QED
    BY <2>5, <2>6, <2>7
<1>21. QED
  BY <1>3, <1>15, <1>16, <1>17, <1>19, <1>20 DEF Nested, p, Innermost, Linked, Headed, Busy, Apart

LEMMA DropFacts ==
  ASSUME NEW lane \in Lanes, lane[Main] # <<>>
  PROVE  /\ Drop(lane) \in Lanes
         /\ Len(Drop(lane)[Main]) = Len(lane[Main]) - 1
         /\ \A k \in 1 .. Len(lane[Main]) - 1 : Drop(lane)[Main][k] = lane[Main][k]
         /\ \A s \in Stacks : s # Main => Drop(lane)[s] = lane[s]
<1> DEFINE a == lane[Main]
           p == Drop(lane)
           front == SubSeq(a, 1, Len(a) - 1)
<1>1. a \in Seq(Gens) /\ Len(a) \in Nat /\ Len(a) # 0 /\ Main \in Stacks
  BY LaneFacts DEF Stacks
<1>2. \A s \in Stacks : lane[s] \in Seq(Gens)
  BY DEF Lanes
<1>3. p[Main] = front /\ \A s \in Stacks : s # Main => p[s] = lane[s]
  BY <1>1 DEF Drop
<1>4. p = [s \in Stacks |-> p[s]]
  BY DEF Drop
<1> HIDE DEF a, p
<1>5. front \in Seq(Gens) /\ Len(front) = Len(a) - 1 /\ \A k \in 1 .. Len(a) - 1 : front[k] = a[k]
  <2>1. 1 \in 1 .. Len(a) + 1 /\ Len(a) - 1 \in 0 .. Len(a)
    BY <1>1
  <2>2. \A k \in 1 .. Len(a) - 1 : k \in 1 .. Len(a)
    BY <1>1
  <2>3. PICK m \in Nat : m = Len(a) - 1
    BY <1>1
  <2>4. \A k \in 1 .. m : a[k] \in Gens
    BY <1>1, <2>2, <2>3, ElementOfSeq
  <2>5. m - 1 + 1 = m /\ (IF 1 <= m THEN m - 1 + 1 ELSE 0) = m /\ m \in Int
        /\ \A k \in 1 .. m : 1 + k - 1 = k
    OBVIOUS
  <2>6. SubSeq(a, 1, m) \in Seq(Gens) /\ Len(SubSeq(a, 1, m)) = m
        /\ \A k \in 1 .. m : SubSeq(a, 1, m)[k] = a[k]
    BY <2>4, <2>5, SubSeqProperties
  <2>7. QED
    BY <2>3, <2>6
<1> HIDE DEF front
<1>6. \A s \in Stacks : p[s] \in Seq(Gens)
  BY <1>2, <1>3, <1>5
<1>7. p \in Lanes
  BY <1>4, <1>6 DEF Lanes
<1>8. QED
  BY <1>3, <1>5, <1>7 DEF a, p

(* Nested generators end from the innermost. *)
LEMMA AtIsLast ==
  ASSUME NEW lane, Nested(lane), at # Main
  PROVE  /\ lane[Main] # <<>> /\ Len(lane[Main]) \in Nat \ {0}
         /\ at = lane[Main][Len(lane[Main])] /\ at \in Gens /\ status[at] = "RUNNING"
<1>1. lane[Main] # <<>> /\ at = lane[Main][Len(lane[Main])] /\ lane \in Lanes /\ Main \in Stacks
  BY DEF Nested, Innermost, Stacks
<1>2. Len(lane[Main]) \in Nat /\ Len(lane[Main]) # 0
  BY <1>1, LaneFacts
<1>3. Len(lane[Main]) \in 1 .. Len(lane[Main])
  BY <1>2
<1>4. at \in Gens
  BY <1>1, <1>3, LaneFacts
<1>5. status[lane[Main][Len(lane[Main])]] = "RUNNING"
  BY <1>1, <1>3 DEF Nested, Busy
<1>6. QED
  BY <1>1, <1>2, <1>4, <1>5

LEMMA DropNested ==
  ASSUME TypeOK, NEW lane, Nested(lane), NEW failed \in BOOLEAN, gen_wrapper(failed)
  PROVE  Nested(Drop(lane))'
<1> DEFINE a == lane[Main]
           p == Drop(lane)
           n == Len(a)
<1>1. lane \in Lanes /\ Main \in Stacks /\ Gens \subseteq Stacks
  BY DEF Nested, Stacks
<1>2. at # Main
  BY DEF gen_wrapper
<1>3. a # <<>> /\ n \in Nat \ {0} /\ at = a[n] /\ at \in Gens /\ status[at] = "RUNNING"
  BY <1>2, AtIsLast
<1>4. /\ p \in Lanes /\ Len(p[Main]) = n - 1
      /\ \A k \in 1 .. n - 1 : p[Main][k] = a[k]
      /\ \A s \in Stacks : s # Main => p[s] = lane[s]
  BY <1>1, <1>3, DropFacts, Zenon
<1>5. \A s \in Stacks : \A k \in 2 .. Len(lane[s]) : caller_ctx[lane[s][k]] = lane[s][k - 1]
  BY DEF Nested, Linked
<1>6. caller_ctx[a[1]] = Main
  BY <1>3 DEF Nested, Linked
<1>7. /\ \A x \in Gens : x # at => status'[x] = status[x]
      /\ status'[at] = "DONE" /\ at' = caller_ctx[at]
      /\ caller_ctx' = caller_ctx /\ gen_ctx' = gen_ctx
  BY <1>3 DEF gen_wrapper, TypeOK
<1>8. \A s \in Stacks : Len(lane[s]) \in Nat /\ \A k \in 1 .. Len(lane[s]) : lane[s][k] \in Gens
  BY <1>1, LaneFacts
<1>9. \A s \in Stacks : \A k \in 1 .. Len(lane[s]) : s = Main \/ k > 1 => status[lane[s][k]] = "RUNNING"
  BY DEF Nested, Busy
<1>10. \A s, t \in Stacks : \A k \in 1 .. Len(lane[s]), j \in 1 .. Len(lane[t]) :
          lane[s][k] = lane[t][j] => s = t /\ k = j
  BY DEF Nested, Apart
<1>11. n = Len(lane[Main]) /\ a = lane[Main]
  OBVIOUS
<1> HIDE DEF a, p, n
<1>12. \A t \in Stacks : \A j \in 1 .. Len(lane[t]) : lane[t][j] = at => t = Main /\ j = n
  <2>1. n \in 1 .. Len(lane[Main]) /\ at = lane[Main][n]
    BY <1>3, <1>11
  <2>2. QED
    BY <1>1, <1>10, <2>1
<1>13. p[Main] = <<>> <=> n = 1
  <2>1. p[Main] = <<>> <=> Len(p[Main]) = 0
    BY <1>1, <1>4, LaneFacts
  <2>2. QED
    BY <1>3, <1>4, <2>1
<1>14. ASSUME NEW s \in Stacks, NEW k \in 1 .. Len(p[s])
       PROVE  /\ k \in 1 .. Len(lane[s]) /\ p[s][k] = lane[s][k] /\ (s = Main => k < n)
              /\ lane[s][k] # at
  <2>1. CASE s = Main
    <3>1. k \in 1 .. n - 1 /\ k \in 1 .. n /\ k < n
      BY <1>3, <1>4, <2>1
    <3>2. QED
      BY <1>1, <1>4, <1>11, <1>12, <2>1, <3>1
  <2>2. CASE s # Main
    BY <1>4, <1>12, <2>2
  <2>3. QED
    BY <2>1, <2>2
<1>15. Innermost(p)'
  <2>1. CASE n = 1
    BY <1>3, <1>6, <1>7, <1>13, <2>1 DEF Innermost
  <2>2. CASE n # 1
    <3>1. n \in 2 .. Len(lane[Main]) /\ n - 1 \in 1 .. n - 1
      <4>1. n \in 2 .. n /\ n - 1 \in 1 .. n - 1
        BY <1>3, <2>2
      <4>2. QED
        BY <1>11, <4>1
    <3>2. at' = a[n - 1] /\ p[Main][Len(p[Main])] = a[n - 1]
      BY <1>1, <1>3, <1>4, <1>5, <1>7, <1>11, <3>1
    <3>3. QED
      BY <1>13, <2>2, <3>2 DEF Innermost
  <2>3. QED
    BY <2>1, <2>2
<1>16. Linked(p)'
  <2>1. ASSUME NEW s \in Stacks, NEW k \in 2 .. Len(p[s]) PROVE caller_ctx[p[s][k]] = p[s][k - 1]
    <3>1. Len(p[s]) \in Nat
      BY <1>4, LaneFacts
    <3>2. k \in 1 .. Len(p[s]) /\ k - 1 \in 1 .. Len(p[s])
      BY <3>1
    <3>3. k \in 1 .. Len(lane[s]) /\ p[s][k] = lane[s][k] /\ p[s][k - 1] = lane[s][k - 1]
      BY <1>14, <3>2
    <3>4. k \in 2 .. Len(lane[s])
      BY <1>8, <3>1, <3>3
    <3>5. QED
      BY <1>5, <3>3, <3>4
  <2>2. p[Main] # <<>> => p[Main][1] = a[1]
    <3>1. SUFFICES ASSUME n # 1 PROVE p[Main][1] = a[1]
      BY <1>13
    <3>2. 1 \in 1 .. n - 1
      BY <1>3, <3>1
    <3>3. QED
      BY <1>4, <3>2
  <2>3. QED
    BY <1>6, <1>7, <2>1, <2>2 DEF Linked
<1>17. Headed(p)'
  <2> SUFFICES ASSUME NEW h \in Gens
               PROVE  /\ status'[h] \in {"PENDING", "SUSPENDED"} =>
                           p[h] # <<>> /\ p[h][1] = h /\ gen_ctx'[h] = p[h][Len(p[h])]
                      /\ status'[h] \notin {"PENDING", "SUSPENDED"} => p[h] = <<>>
                      /\ status'[h] = "PENDING" => Len(p[h]) = 1
    BY DEF Headed
  <2>1. p[h] = lane[h] /\ gen_ctx'[h] = gen_ctx[h]
    BY <1>1, <1>4, <1>7, GeneratorAssumption
  <2>2. CASE h = at
    <3>1. lane[h] = <<>>
      BY <1>3, <2>2 DEF Nested, Headed
    <3>2. QED
      BY <1>7, <2>1, <2>2, <3>1
  <2>3. CASE h # at
    <3>1. status'[h] = status[h]
      BY <1>7, <2>3
    <3>2. QED
      BY <2>1, <3>1 DEF Nested, Headed
  <2>4. QED
    BY <2>2, <2>3
<1>18. Busy(p)'
  <2> SUFFICES ASSUME NEW s \in Stacks, NEW k \in 1 .. Len(p[s]), s = Main \/ k > 1
               PROVE  status'[p[s][k]] = "RUNNING"
    BY DEF Busy
  <2>1. k \in 1 .. Len(lane[s]) /\ p[s][k] = lane[s][k] /\ lane[s][k] # at
    BY <1>14
  <2>2. lane[s][k] \in Gens /\ status[lane[s][k]] = "RUNNING"
    BY <1>8, <1>9, <2>1
  <2>3. QED
    BY <1>7, <2>1, <2>2
<1>19. Apart(p)'
  <2> SUFFICES ASSUME NEW s1 \in Stacks, NEW s2 \in Stacks,
                      NEW k1 \in 1 .. Len(p[s1]), NEW k2 \in 1 .. Len(p[s2]),
                      p[s1][k1] = p[s2][k2]
               PROVE  s1 = s2 /\ k1 = k2
    BY DEF Apart
  <2>1. lane[s1][k1] = lane[s2][k2] /\ k1 \in 1 .. Len(lane[s1]) /\ k2 \in 1 .. Len(lane[s2])
    BY <1>14
  <2>2. QED
    BY <1>10, <2>1
<1>20. QED
  BY <1>4, <1>15, <1>16, <1>17, <1>18, <1>19 DEF Nested, p, Innermost, Linked, Headed, Busy, Apart

-----------------------------------------------------------------------------
(* The generators are nested until one that is not being executed is        *)
(* yielded.                                                                 *)
NestInv == strayed \/ \E lane \in Lanes : Nested(lane)

(* Until an exception is thrown into one, every generator that was resumed  *)
(* has a value.                                                             *)
ValueInv == thrown \/ \A g \in Gens : status[g] # "PENDING" => in_val[g] = "set"

FlowInv == TypeOK /\ NestInv /\ ValueInv /\ SafeUse

(* Until then, what is being executed is RUNNING; used by AsyncFuncProofs.  *)
LEMMA ExecutedRun ==
  ASSUME NestInv, ~strayed
  PROVE  /\ \A g \in Executed : g \in Gens /\ status[g] = "RUNNING"
         /\ at # Main => at \in Gens /\ status[at] = "RUNNING"
<1>1. PICK lane \in Lanes : Nested(lane)
  BY DEF NestInv
<1>2. Main \in Stacks
  BY DEF Stacks
<1>3. ASSUME NEW g \in Executed PROVE g \in Gens /\ status[g] = "RUNNING"
  <2>1. PICK i \in 1 .. Len(lane[Main]) : g = lane[Main][i]
    BY <1>1, ExecutedIs
  <2>2. g \in Gens
    BY <1>2, <2>1, LaneFacts
  <2>3. QED
    BY <1>1, <1>2, <2>1, <2>2 DEF Nested, Busy
<1>4. at # Main => at \in Gens /\ status[at] = "RUNNING"
  BY <1>1, AtIsLast
<1>5. QED
  BY <1>3, <1>4

(* What a step does to the lanes. *)
Moves(lane, l) ==
  \/ l = lane
  \/ \E g \in Gens : lane[g] # <<>> /\ l = Push(lane, g)
  \/ \E i \in 1 .. Len(lane[Main]) : l = Cut(lane, i)
  \/ lane[Main] # <<>> /\ l = Drop(lane)

LEMMA ResumeMoves ==
  ASSUME TypeOK, NEW lane \in Lanes, Nested(lane), NEW g \in Gens, NEW v,
         status[g] \in {"PENDING", "SUSPENDED"}, run_generator(g, v)
  PROVE  \E l \in Lanes : Nested(l)' /\ Moves(lane, l)
<1>1. Nested(Push(lane, g))' /\ Push(lane, g) \in Lanes
  <2>1. Nested(Push(lane, g))'
    BY PushNested
  <2>2. QED
    BY <2>1, PushFacts
<1>2. lane[g] # <<>>
  BY DEF Nested, Headed
<1>3. Moves(lane, Push(lane, g))
  BY <1>2 DEF Moves
<1>4. QED
  BY <1>1, <1>3

LEMMA YieldMoves ==
  ASSUME TypeOK, NEW lane \in Lanes, Nested(lane), NEW g \in Gens,
         yield_impl(g), ~strayed'
  PROVE  \E l \in Lanes : Nested(l)' /\ Moves(lane, l)
<1>1. g \in Executed
  BY DEF yield_impl
<1>2. PICK i \in 1 .. Len(lane[Main]) : g = lane[Main][i]
  BY <1>1, ExecutedIs
<1>3. yield_impl(lane[Main][i])
  BY <1>2
<1>4. Nested(Cut(lane, i))' /\ Cut(lane, i) \in Lanes
  BY <1>3, CutNested, CutFacts
<1>5. Moves(lane, Cut(lane, i))
  BY DEF Moves
<1>6. QED
  BY <1>4, <1>5

LEMMA EndMoves ==
  ASSUME TypeOK, NEW lane \in Lanes, Nested(lane), NEW failed \in BOOLEAN, gen_wrapper(failed)
  PROVE  \E l \in Lanes : Nested(l)' /\ Moves(lane, l)
<1>1. lane[Main] # <<>>
  BY AtIsLast DEF gen_wrapper
<1>2. Nested(Drop(lane))' /\ Drop(lane) \in Lanes
  BY <1>1, DropNested, DropFacts
<1>3. Moves(lane, Drop(lane))
  BY <1>1 DEF Moves
<1>4. QED
  BY <1>2, <1>3

LEMMA StaysNested ==
  ASSUME NEW lane \in Lanes, Nested(lane), UNCHANGED <<status, gen_ctx, caller_ctx, at>>
  PROVE  \E l \in Lanes : Nested(l)' /\ Moves(lane, l)
<1>1. status' = status /\ gen_ctx' = gen_ctx /\ caller_ctx' = caller_ctx /\ at' = at
  OBVIOUS
<1>2. /\ Innermost(lane)' /\ Linked(lane)' /\ Headed(lane)' /\ Busy(lane)' /\ Apart(lane)'
  <2>1. Innermost(lane)' /\ Apart(lane)'
    BY <1>1 DEF Nested, Innermost, Apart
  <2>2. Linked(lane)'
    BY <1>1 DEF Nested, Linked
  <2>3. Headed(lane)'
    BY <1>1 DEF Nested, Headed
  <2>4. Busy(lane)'
    BY <1>1 DEF Nested, Busy
  <2>5. QED
    BY <2>1, <2>2, <2>3, <2>4
<1>3. Nested(lane)'
  BY <1>2 DEF Nested
<1>4. QED
  BY <1>3 DEF Moves

LEMMA NextMoves ==
  ASSUME TypeOK, NEW lane \in Lanes, Nested(lane), [Next]_vars, ~strayed'
  PROVE  \E l \in Lanes : Nested(l)' /\ Moves(lane, l)
<1>1. ASSUME NEW g \in Gens, next(g) \/ _throw(g)
      PROVE  \E l \in Lanes : Nested(l)' /\ Moves(lane, l)
  BY <1>1, ResumeMoves DEF next, _throw
<1>2. ASSUME NEW g \in Gens, yield(g)
      PROVE  \E l \in Lanes : Nested(l)' /\ Moves(lane, l)
  BY <1>2, YieldMoves DEF yield
<1>3. ASSUME NEW g \in Gens, yield_from(g)
      PROVE  \E l \in Lanes : Nested(l)' /\ Moves(lane, l)
  BY <1>3, StaysNested DEF yield_from
<1>4. ASSUME NEW failed \in BOOLEAN, gen_wrapper(failed)
      PROVE  \E l \in Lanes : Nested(l)' /\ Moves(lane, l)
  BY <1>4, EndMoves
<1>5. ASSUME FromEnd \/ FromDangling \/ FromRefused
      PROVE  \E l \in Lanes : Nested(l)' /\ Moves(lane, l)
  BY <1>5, StaysNested DEF FromEnd, FromDangling, FromRefused
<1>6. ASSUME FromNext
      PROVE  \E l \in Lanes : Nested(l)' /\ Moves(lane, l)
  <2>1. Inner \in Gens
    BY <1>6 DEF FromNext, Delegating, TypeOK, Stacks, Inner, From, NoFrom
  <2>2. QED
    BY <1>6, <2>1, ResumeMoves DEF FromNext
<1>7. ASSUME FromYield
      PROVE  \E l \in Lanes : Nested(l)' /\ Moves(lane, l)
  <2>1. at \in Gens
    BY <1>7 DEF FromYield, Delegating, TypeOK, Stacks
  <2>2. QED
    BY <1>7, <2>1, YieldMoves DEF FromYield
<1>8. CASE UNCHANGED vars
  BY <1>8, StaysNested DEF vars
<1>9. QED
  BY <1>1, <1>2, <1>3, <1>4, <1>5, <1>6, <1>7, <1>8 DEF Next, YieldFrom

(* Nothing forgets a stray yield or an exception. *)
LEMMA HistoryGrows ==
  ASSUME TypeOK, [Next]_vars
  PROVE  (strayed => strayed') /\ (thrown => thrown')
<1>0. ASSUME UNCHANGED <<strayed, thrown>> PROVE (strayed => strayed') /\ (thrown => thrown')
  BY <1>0
<1>1. ASSUME NEW g \in Gens, yield_impl(g) PROVE (strayed => strayed') /\ (thrown => thrown')
  <2>1. strayed' = (strayed \/ g \notin Executed) /\ thrown' = thrown
    <3>1. thrown' = thrown
      BY <1>1 DEF yield_impl
    <3>2. strayed' = (strayed \/ g \notin Executed)
      BY <1>1, Zenon DEF yield_impl
    <3>3. QED
      BY <3>1, <3>2
  <2>2. QED
    BY <2>1, Zenon
<1>2. ASSUME NEW g \in Gens, next(g) \/ _throw(g) \/ yield(g) \/ yield_from(g)
      PROVE  (strayed => strayed') /\ (thrown => thrown')
  <2>1. CASE next(g) \/ yield_from(g)
    BY <1>0, <2>1 DEF next, yield_from, history
  <2>2. CASE _throw(g)
    BY <2>2 DEF _throw
  <2>3. CASE yield(g)
    BY <1>1, <2>3 DEF yield
  <2>4. QED
    BY <1>2, <2>1, <2>2, <2>3
<1>3. ASSUME NEW failed \in BOOLEAN, gen_wrapper(failed)
      PROVE  (strayed => strayed') /\ (thrown => thrown')
  BY <1>0, <1>3 DEF gen_wrapper, history
<1>4. ASSUME YieldFrom PROVE (strayed => strayed') /\ (thrown => thrown')
  <2>1. CASE FromYield
    <3>1. at \in Gens
      BY <2>1 DEF FromYield, Delegating, TypeOK, Stacks
    <3>2. QED
      BY <1>1, <2>1, <3>1 DEF FromYield
  <2>2. CASE FromEnd \/ FromDangling \/ FromNext \/ FromRefused
    BY <1>0, <2>2 DEF FromEnd, FromDangling, FromNext, FromRefused, history
  <2>3. QED
    BY <1>4, <2>1, <2>2 DEF YieldFrom
<1>5. CASE UNCHANGED vars
  BY <1>0, <1>5 DEF vars, history
<1>6. QED
  BY <1>2, <1>3, <1>4, <1>5 DEF Next

(* Nothing happens after undefined behaviour. *)
LEMMA UndefinedStays ==
  ASSUME [Next]_vars, state = "undefined"
  PROVE  state' = "undefined"
<1>1. CASE Next
  BY <1>1 DEF Next, next, _throw, yield, yield_from, gen_wrapper, YieldFrom, FromEnd, FromDangling,
              FromNext, FromYield, FromRefused, UserCode, Delegating
<1>2. CASE UNCHANGED vars
  BY <1>2 DEF vars
<1>3. QED
  BY <1>1, <1>2

LEMMA NextNest == TypeOK /\ NestInv /\ [Next]_vars => NestInv'
<1> SUFFICES ASSUME TypeOK, NestInv, [Next]_vars, ~strayed' PROVE \E l \in Lanes : Nested(l)'
  BY DEF NestInv
<1>1. ~strayed
  BY HistoryGrows
<1>2. PICK lane \in Lanes : Nested(lane)
  BY <1>1 DEF NestInv
<1>3. QED
  BY <1>2, NextMoves

LEMMA NextValue == TypeOK /\ ValueInv /\ [Next]_vars => ValueInv'
<1> SUFFICES ASSUME TypeOK, ValueInv, [Next]_vars, ~thrown',
                    NEW h \in Gens, status'[h] # "PENDING"
             PROVE  in_val'[h] = "set"
  BY DEF ValueInv
<1>1. status[h] # "PENDING" => in_val[h] = "set"
  BY HistoryGrows DEF ValueInv
<1>2. ASSUME UNCHANGED <<status, in_val>> PROVE in_val'[h] = "set"
  BY <1>1, <1>2
<1>3. ASSUME NEW g \in Gens, run_generator(g, "set") PROVE in_val'[h] = "set"
  BY <1>1, <1>3 DEF run_generator, TypeOK
<1>4. ASSUME NEW g \in Gens, yield_impl(g) PROVE in_val'[h] = "set"
  BY <1>1, <1>4 DEF yield_impl, TypeOK
<1>5. ASSUME NEW g \in Gens, next(g) \/ _throw(g) \/ yield(g) \/ yield_from(g)
      PROVE  in_val'[h] = "set"
  BY <1>2, <1>3, <1>4, <1>5 DEF next, _throw, yield, yield_from
<1>6. ASSUME NEW failed \in BOOLEAN, gen_wrapper(failed) PROVE in_val'[h] = "set"
  BY <1>1, <1>6 DEF gen_wrapper, TypeOK
<1>7. ASSUME YieldFrom PROVE in_val'[h] = "set"
  <2>1. FromNext => Inner \in Gens
    BY DEF FromNext, Delegating, TypeOK, Stacks, Inner, From, NoFrom
  <2>2. FromYield => at \in Gens
    BY DEF FromYield, Delegating, TypeOK, Stacks
  <2>3. QED
    BY <1>2, <1>3, <1>4, <1>7, <2>1, <2>2
       DEF YieldFrom, FromEnd, FromDangling, FromNext, FromYield, FromRefused
<1>8. CASE UNCHANGED vars
  BY <1>2, <1>8 DEF vars
<1>9. QED
  BY <1>5, <1>6, <1>7, <1>8 DEF Next

(* The two dangling accesses need a stack that was yielded from outside, or *)
(* an exception that was thrown in.                                         *)
LEMMA NextSafe == FlowInv /\ [Next]_vars => SafeUse'
<1> SUFFICES ASSUME FlowInv, [Next]_vars, state' = "undefined", ~strayed', ~thrown' PROVE FALSE
  BY DEF SafeUse
<1>1. ~strayed /\ ~thrown
  BY HistoryGrows DEF FlowInv
<1>2. state = "ok"
  BY <1>1 DEF FlowInv, TypeOK, SafeUse
<1>3. PICK lane \in Lanes : Nested(lane)
  BY <1>1 DEF FlowInv, NestInv
<1>4. at # Main => at \in Gens /\ status[at] = "RUNNING"
  BY <1>3, AtIsLast
<1>5. at # Main => in_val[at] = "set"
  BY <1>1, <1>4 DEF FlowInv, ValueInv
<1>6. ASSUME NEW g \in Gens, next(g) \/ _throw(g) \/ yield(g) \/ yield_from(g) PROVE FALSE
  BY <1>2, <1>6 DEF next, _throw, yield, yield_from, yield_impl
<1>7. ASSUME NEW failed \in BOOLEAN, gen_wrapper(failed) PROVE FALSE
  BY <1>2, <1>4, <1>7 DEF gen_wrapper
<1>8. ASSUME YieldFrom PROVE FALSE
  BY <1>2, <1>4, <1>5, <1>8
     DEF YieldFrom, FromEnd, FromDangling, FromNext, FromYield, FromRefused, Delegating, yield_impl
<1>9. CASE UNCHANGED vars
  BY <1>2, <1>9 DEF vars
<1>10. QED
  BY <1>6, <1>7, <1>8, <1>9 DEF Next

(* Initially every generator is alone in its own lane. *)
LEMMA InitFlow ==
  ASSUME Init
  PROVE  FlowInv /\ \E lane \in Lanes : Nested(lane) /\ lane[Main] = <<>> /\ \A g \in Gens : lane[g] = <<g>>
<1> DEFINE l == [s \in Stacks |-> IF s = Main THEN <<>> ELSE <<s>>]
<1>1. TypeOK
  BY InitInv DEF Inv
<1>2. l \in Lanes
  <2>1. \A s \in Gens : <<s>> \in Seq(Gens)
    OBVIOUS
  <2>2. <<>> \in Seq(Gens)
    OBVIOUS
  <2>3. QED
    BY <2>1, <2>2 DEF Lanes, Stacks
<1>3. l[Main] = <<>> /\ \A g \in Gens : l[g] = <<g>>
  BY GeneratorAssumption DEF Stacks
<1> HIDE DEF l
<1>4. Len(l[Main]) = 0 /\ \A g \in Gens : Len(l[g]) = 1 /\ l[g] # <<>> /\ l[g][1] = g
  <2>1. \A g \in Gens : Len(<<g>>) = 1 /\ <<g>> # <<>> /\ <<g>>[1] = g
    OBVIOUS
  <2>2. Len(<<>>) = 0
    OBVIOUS
  <2>3. QED
    BY <1>3, <2>1, <2>2
<1>5. /\ at = Main
      /\ \A g \in Gens : status[g] = "PENDING" /\ gen_ctx[g] = g
      /\ ~thrown /\ state = "ok"
  BY DEF Init
<1>6. \A s \in Stacks : \A i \in 1 .. Len(l[s]) : s \in Gens /\ i = 1 /\ l[s][i] = s
  <2> SUFFICES ASSUME NEW s \in Stacks, NEW i \in 1 .. Len(l[s])
               PROVE  s \in Gens /\ i = 1 /\ l[s][i] = s
    OBVIOUS
  <2>1. CASE s = Main
    <3>1. Len(l[s]) = 0
      BY <1>4, <2>1
    <3>2. i \in 1 .. 0
      BY <3>1
    <3>3. QED
      BY <3>2
  <2>2. CASE s \in Gens
    <3>1. Len(l[s]) = 1 /\ l[s][1] = s
      BY <1>4, <2>2
    <3>2. i \in 1 .. 1
      BY <3>1
    <3>3. QED
      BY <2>2, <3>1, <3>2
  <2>3. QED
    BY <2>1, <2>2 DEF Stacks
<1>7. Innermost(l) /\ Headed(l)
  BY <1>3, <1>4, <1>5 DEF Innermost, Headed
<1>8. Linked(l)
  <2>1. ASSUME NEW s \in Stacks, NEW i \in 2 .. Len(l[s]) PROVE FALSE
    <3>1. Len(l[s]) = 0 \/ Len(l[s]) = 1
      BY <1>4 DEF Stacks
    <3>2. i \in 2 .. 0 \/ i \in 2 .. 1
      BY <3>1
    <3>3. QED
      BY <3>2
  <2>2. QED
    BY <1>3, <2>1 DEF Linked
<1>9. Busy(l)
  BY <1>6, GeneratorAssumption DEF Busy
<1>10. Apart(l)
  BY <1>6 DEF Apart
<1>11. Nested(l)
  BY <1>2, <1>7, <1>8, <1>9, <1>10 DEF Nested
<1>12. NestInv /\ ValueInv /\ SafeUse
  BY <1>2, <1>5, <1>11 DEF NestInv, ValueInv, SafeUse
<1>13. QED
  BY <1>1, <1>2, <1>3, <1>11, <1>12 DEF FlowInv

LEMMA FlowHolds == Spec => [](FlowInv /\ OneWayBack)
<1>1. Init => FlowInv /\ OneWayBack
  BY InitFlow, InitInv DEF Inv
<1>2. FlowInv /\ OneWayBack /\ [Next]_vars => (FlowInv /\ OneWayBack)'
  <2> SUFFICES ASSUME FlowInv, OneWayBack, [Next]_vars PROVE (FlowInv /\ OneWayBack)'
    OBVIOUS
  <2>1. TypeOK' /\ OneWayBack'
    BY NextType, NextOneWay DEF FlowInv
  <2>2. NestInv' /\ ValueInv' /\ SafeUse'
    BY NextNest, NextValue, NextSafe DEF FlowInv
  <2>3. QED
    BY <2>1, <2>2 DEF FlowInv
<1>3. QED
  BY <1>1, <1>2, PTL DEF Spec

(* Generators that are only yielded while they are being executed, and into *)
(* which nothing is thrown, never reach the dangling accesses of            *)
(* gen_wrapper and yield_from, for any number of generators.                *)
THEOREM SafelyUsed == Spec => []SafeUse
<1>1. FlowInv => SafeUse
  BY DEF FlowInv
<1>2. QED
  BY <1>1, FlowHolds, PTL

-----------------------------------------------------------------------------
(* The refinement.  What the mapping computes in a state is what the lanes  *)
(* hold there; the second lemma says it of the next state.                  *)
MapIs ==
  \A lane \in Lanes :
    TypeOK /\ Nested(lane) => StackNow = lane[Main] /\ SavedNow = [g \in Gens |-> lane[g]]

LEMMA MapHolds == MapIs
<1> SUFFICES ASSUME NEW lane \in Lanes, TypeOK, Nested(lane)
             PROVE  StackNow = lane[Main] /\ SavedNow = [g \in Gens |-> lane[g]]
  BY DEF MapIs
<1>1. StackNow = lane[Main]
  BY StackIs
<1>2. \A g \in Gens : Segment(g) = lane[g]
  BY SegmentIs
<1>3. SavedNow = [g \in Gens |-> lane[g]]
  BY <1>2 DEF SavedNow
<1>4. QED
  BY <1>1, <1>3

LEMMA MapHoldsNext == MapIs'
BY MapHolds, PTL

LEMMA InitRefines ==
  ASSUME Init
  PROVE  Contract!Init
<1>1. PICK lane \in Lanes : Nested(lane) /\ lane[Main] = <<>> /\ \A g \in Gens : lane[g] = <<g>>
  BY InitFlow
<1>2. TypeOK
  BY InitInv DEF Inv
<1>3. StackNow = <<>> /\ SavedNow = [g \in Gens |-> <<g>>]
  BY <1>1, <1>2, MapHolds DEF MapIs
<1>4. Abused = FALSE
  BY DEF Init, Abused
<1>5. QED
  BY <1>3, <1>4 DEF Contract!Init

LEMMA NextRefines ==
  ASSUME FlowInv, FlowInv', [Next]_vars
  PROVE  [Contract!Next]_(Contract!vars)
<1>1. CASE Abused'
  BY <1>1 DEF Contract!Next
<1>2. CASE ~Abused'
  <2>1. ~strayed' /\ state' # "undefined"
    BY <1>2 DEF Abused
  <2>2. ~strayed
    BY <2>1, HistoryGrows DEF FlowInv
  <2>3. PICK lane \in Lanes : Nested(lane)
    BY <2>2 DEF FlowInv, NestInv
  <2>4. PICK l \in Lanes : Nested(l)' /\ Moves(lane, l)
    BY <2>1, <2>3, NextMoves DEF FlowInv
  <2>5. StackNow = lane[Main] /\ SavedNow = [g \in Gens |-> lane[g]]
    BY <2>3, MapHolds DEF MapIs, FlowInv
  <2>6. StackNow' = l[Main] /\ SavedNow' = [g \in Gens |-> l[g]]
    BY <2>4, MapHoldsNext DEF MapIs, FlowInv
  <2>7. Main \in Stacks /\ Gens \subseteq Stacks /\ Main \notin Gens
    BY GeneratorAssumption DEF Stacks
  <2>8. CASE l = lane
    <3>1. UNCHANGED <<StackNow, SavedNow>>
      BY <2>5, <2>6, <2>8
    <3>2. Abused' = Abused
      <4>1. state # "undefined"
        BY <2>1, UndefinedStays
      <4>2. QED
        BY <1>2, <2>2, <4>1 DEF Abused
    <3>3. QED
      BY <3>1, <3>2 DEF Contract!vars
  <2>9. CASE \E g \in Gens : lane[g] # <<>> /\ l = Push(lane, g)
    <3>1. PICK g \in Gens : lane[g] # <<>> /\ l = Push(lane, g)
      BY <2>9
    <3>2. l[Main] = lane[Main] \o lane[g]
      BY <2>7, <3>1 DEF Push
    <3>3. \A h \in Gens : l[h] = IF h = g THEN <<>> ELSE lane[h]
      BY <2>7, <3>1 DEF Push
    <3>4. SavedNow' = [SavedNow EXCEPT ![g] = <<>>]
      BY <2>5, <2>6, <3>3
    <3>5. SavedNow[g] # <<>> /\ StackNow' = StackNow \o SavedNow[g]
      BY <2>5, <2>6, <3>1, <3>2
    <3>6. Contract!Resume(g)
      BY <3>4, <3>5 DEF Contract!Resume
    <3>7. QED
      BY <1>2, <3>6 DEF Contract!Next
  <2>10. CASE \E i \in 1 .. Len(lane[Main]) : l = Cut(lane, i)
    <3>1. PICK i \in 1 .. Len(lane[Main]) : l = Cut(lane, i)
      BY <2>10
    <3>2. lane[Main][i] \in Gens
      BY <2>7, LaneFacts
    <3>3. l[Main] = SubSeq(lane[Main], 1, i - 1)
      BY <2>7, <3>1 DEF Cut
    <3>4. \A h \in Gens : l[h] = IF h = lane[Main][i]
                                  THEN SubSeq(lane[Main], i, Len(lane[Main])) ELSE lane[h]
      BY <2>7, <3>1 DEF Cut
    <3>5. SavedNow' = [SavedNow EXCEPT ![StackNow[i]] = SubSeq(StackNow, i, Len(StackNow))]
      BY <2>5, <2>6, <3>2, <3>4
    <3>6. StackNow' = SubSeq(StackNow, 1, i - 1) /\ i \in 1 .. Len(StackNow)
      BY <2>5, <2>6, <3>3
    <3>7. Contract!Suspend(i)
      BY <3>5, <3>6 DEF Contract!Suspend
    <3>8. QED
      BY <1>2, <3>6, <3>7 DEF Contract!Next
  <2>11. CASE lane[Main] # <<>> /\ l = Drop(lane)
    <3>1. l[Main] = SubSeq(lane[Main], 1, Len(lane[Main]) - 1)
      BY <2>7, <2>11 DEF Drop
    <3>2. \A h \in Gens : l[h] = lane[h]
      BY <2>7, <2>11 DEF Drop
    <3>3. SavedNow' = SavedNow
      BY <2>5, <2>6, <3>2
    <3>4. StackNow # <<>> /\ StackNow' = SubSeq(StackNow, 1, Len(StackNow) - 1)
      BY <2>5, <2>6, <2>11, <3>1
    <3>5. Contract!Finish
      BY <3>3, <3>4 DEF Contract!Finish
    <3>6. QED
      BY <1>2, <3>5 DEF Contract!Next
  <2>12. QED
    BY <2>4, <2>8, <2>9, <2>10, <2>11 DEF Moves
<1>3. QED
  BY <1>1, <1>2

(* The two saved contexts of each generator implement nested coroutines: a  *)
(* yield returns to the last caller of the generator it names and suspends  *)
(* all that runs on top of it, the next call resumes exactly that, and what *)
(* ends is always the innermost one, until a generator that is not being    *)
(* executed is yielded.                                                     *)
THEOREM Implements == Spec => ImplementsCoroutines
<1>1. FlowInv /\ FlowInv' /\ [Next]_vars => [Contract!Next]_(Contract!vars)
  BY NextRefines
<1>2. Init => Contract!Init
  BY InitRefines
<1>3. QED
  BY <1>1, <1>2, FlowHolds, PTL DEF Spec, ImplementsCoroutines, Contract!Spec

=============================================================================
