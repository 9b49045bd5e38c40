--------------------------- MODULE TaskLoopProofs ---------------------------
(***************************************************************************)
(* Theorems about TaskLoop, for every set of loops and tasks and every     *)
(* bound on nesting and exceptions: SafeWalk, OnceUnlessInterrupted, and   *)
(* that the oneshot queues implement TaskQueue.                            *)
(***************************************************************************)
EXTENDS TaskLoop, SequenceTheorems, TLAPS

(* An entry is in one place of one list. *)
DistinctInv ==
  /\ \A l, m \in Loops :
       \A i \in 1 .. Len(oneshot_queue[l]), j \in 1 .. Len(oneshot_queue[m]) :
         oneshot_queue[l][i] = oneshot_queue[m][j] => l = m /\ i = j
  /\ \A l, m \in Loops :
       \A i \in 1 .. Len(permanent_queue[l]), j \in 1 .. Len(oneshot_queue[m]) :
         permanent_queue[l][i] # oneshot_queue[m][j]

(* The oneshot tasks of l have been entered exactly up to the n-th. *)
EnteredUpTo(l, n) ==
  \A i \in 1 .. Len(oneshot_queue[l]) : runs[oneshot_queue[l][i]] > 0 <=> i <= n

(* Tasks are entered in the order of the queue, whichever call enters them, *)
(* and a call has entered what it has walked past.                          *)
StartedInv ==
  /\ \A l \in Loops : \E n \in 0 .. Len(oneshot_queue[l]) : EnteredUpTo(l, n)
  /\ \A k \in 1 .. Len(stack) :
       stack[k].phase = "oneshot" /\ ~stack[k].dangling =>
         \A i \in 1 .. stack[k].pos : runs[oneshot_queue[stack[k].loop][i]] > 0

(* A call above another one of the same loop that stands among the oneshot  *)
(* tasks was made by one of them.                                           *)
ReenterInv ==
  /\ \A i, j \in 1 .. Len(stack) :
       i < j /\ stack[i].loop = stack[j].loop /\ stack[i].phase = "oneshot" => reentered
  /\ \A i \in 1 .. Len(stack) : stack[i].dangling => reentered
  /\ state = "undefined" => reentered

(* Without exceptions and re-entrance, what has been entered and is still   *)
(* in a queue was entered by a call that is still walking it.               *)
OnceInv ==
  throws = 0 /\ ~reentered =>
    /\ \A t \in Oneshots : runs[t] <= 1
    /\ \A l \in Loops : \A i \in 1 .. Len(oneshot_queue[l]) :
         runs[oneshot_queue[l][i]] > 0 =>
           \E k \in 1 .. Len(stack) :
             stack[k].loop = l /\ stack[k].phase = "oneshot" /\ i <= stack[k].pos

Inv == TypeOK /\ DistinctInv /\ StartedInv /\ ReenterInv /\ OnceInv

-----------------------------------------------------------------------------
(* What Append does. *)
LEMMA AppendFacts ==
  ASSUME NEW S, NEW seq \in Seq(S), NEW x \in S
  PROVE  /\ Append(seq, x) \in Seq(S)
         /\ Len(Append(seq, x)) = Len(seq) + 1
         /\ \A i \in 1 .. Len(seq) : Append(seq, x)[i] = seq[i]
         /\ Append(seq, x)[Len(seq) + 1] = x
OBVIOUS

(* What is left of a sequence without its last element. *)
LEMMA FrontFacts ==
  ASSUME NEW S, NEW seq \in Seq(S), seq # <<>>
  PROVE  LET front == SubSeq(seq, 1, Len(seq) - 1)
         IN  /\ front \in Seq(S)
             /\ Len(front) = Len(seq) - 1
             /\ \A i \in 1 .. Len(front) : i \in 1 .. Len(seq) /\ front[i] = seq[i]
<1> DEFINE n == Len(seq) - 1
<1>1. n \in Nat /\ Len(seq) \in Nat /\ Len(seq) = n + 1
  BY EmptySeq, LenProperties
<1>2. \A i \in 1 .. n : seq[i] \in S
  BY <1>1, ElementOfSeq
<1> HIDE DEF n
<1>3. /\ SubSeq(seq, 1, n) \in Seq(S)
      /\ Len(SubSeq(seq, 1, n)) = IF 1 <= n THEN n - 1 + 1 ELSE 0
      /\ \A i \in 1 .. n - 1 + 1 : SubSeq(seq, 1, n)[i] = seq[1 + i - 1]
  BY <1>1, <1>2, SubSeqProperties
<1>4. Len(SubSeq(seq, 1, n)) = n
  BY <1>1, <1>3
<1>5. \A i \in 1 .. n : i \in 1 .. Len(seq) /\ SubSeq(seq, 1, n)[i] = seq[i]
  BY <1>1, <1>3
<1>6. QED
  BY <1>3, <1>4, <1>5 DEF n

LEMMA QueueTypes ==
  ASSUME TypeOK, NEW l \in Loops
  PROVE  /\ oneshot_queue[l] \in Seq(Tasks) /\ permanent_queue[l] \in Seq(Tasks)
         /\ Len(oneshot_queue[l]) \in Nat /\ Len(permanent_queue[l]) \in Nat
         /\ \A i \in 1 .. Len(oneshot_queue[l]) :
              oneshot_queue[l][i] \in Tasks /\ runs[oneshot_queue[l][i]] \in 0 .. 2
         /\ \A i \in 1 .. Len(permanent_queue[l]) : permanent_queue[l][i] \in Tasks
<1>1. oneshot_queue[l] \in Seq(Tasks) /\ permanent_queue[l] \in Seq(Tasks)
  BY DEF TypeOK
<1>2. QED
  BY <1>1, LenProperties, ElementOfSeq DEF TypeOK

LEMMA FrameTypes ==
  ASSUME TypeOK
  PROVE  /\ Len(stack) \in Nat
         /\ \A k \in 1 .. Len(stack) :
              /\ stack[k] \in Frame
              /\ stack[k].loop \in Loops /\ stack[k].phase \in {"permanent", "oneshot"}
              /\ stack[k].pos \in Nat /\ stack[k].dangling \in BOOLEAN
         /\ stack # <<>> => Len(stack) \in 1 .. Len(stack)
<1>1. Len(stack) \in Nat
  BY LenProperties DEF TypeOK
<1>2. \A k \in 1 .. Len(stack) : stack[k] \in Frame
  BY ElementOfSeq DEF TypeOK
<1>3. stack # <<>> => Len(stack) \in 1 .. Len(stack)
  BY EmptySeq DEF TypeOK
<1>4. QED
  BY <1>1, <1>2, <1>3 DEF Frame

(* Every call that is still to go on stands within its list. *)
WithinInv ==
  \A i \in 1 .. Len(stack) :
    \/ stack[i].dangling
    \/ stack[i].phase = "permanent" /\ stack[i].pos <= Len(permanent_queue[stack[i].loop])
    \/ stack[i].phase # "permanent" /\ stack[i].pos <= Len(oneshot_queue[stack[i].loop])

LEMMA Within == TypeOK => WithinInv
BY DEF TypeOK, WithinInv, List

-----------------------------------------------------------------------------
(* A new entry of the permanent queue is in no oneshot queue, and the calls *)
(* stand as they did.                                                       *)
LEMMA AddKeeps ==
  ASSUME Inv, NEW l \in Loops, NEW t \in Tasks, add(l, t)
  PROVE  Inv'
<1>1. /\ permanent_queue' = [permanent_queue EXCEPT ![l] = Append(@, t)]
      /\ UNCHANGED <<oneshot_queue, stack, running, state, history>>
      /\ runs[t] = 0
      /\ \A m \in Loops : \A i \in 1 .. Len(oneshot_queue[m]) : oneshot_queue[m][i] # t
  BY DEF add, New, Entries
<1>2. /\ permanent_queue' \in [Loops -> Seq(Tasks)]
      /\ \A m \in Loops :
           /\ Len(permanent_queue'[m]) >= Len(permanent_queue[m])
           /\ \A i \in 1 .. Len(permanent_queue[m]) : permanent_queue'[m][i] = permanent_queue[m][i]
           /\ \A i \in 1 .. Len(permanent_queue'[m]) :
                i \in 1 .. Len(permanent_queue[m]) \/ permanent_queue'[m][i] = t
  <2>1. permanent_queue[l] \in Seq(Tasks)
    BY DEF Inv, TypeOK
  <2>2. \A m \in Loops \ {l} : permanent_queue'[m] = permanent_queue[m]
    BY <1>1 DEF Inv, TypeOK
  <2>3. permanent_queue'[l] = Append(permanent_queue[l], t)
    BY <1>1 DEF Inv, TypeOK
  <2>4. /\ Len(permanent_queue'[l]) = Len(permanent_queue[l]) + 1
        /\ \A i \in 1 .. Len(permanent_queue[l]) : permanent_queue'[l][i] = permanent_queue[l][i]
        /\ permanent_queue'[l][Len(permanent_queue[l]) + 1] = t
    BY <2>1, <2>3, AppendFacts
  <2>5. permanent_queue' \in [Loops -> Seq(Tasks)]
    BY <1>1, <2>1, AppendFacts DEF Inv, TypeOK
  <2>6. \A m \in Loops : Len(permanent_queue[m]) \in Nat
    BY QueueTypes DEF Inv
  <2>7. QED
    BY SMTT(30), <2>2, <2>4, <2>5, <2>6
<1>3. TypeOK'
  <2>1. \A k \in 1 .. Len(stack) : Len(List(stack[k]))' >= Len(List(stack[k]))
    BY <1>1, <1>2, FrameTypes, QueueTypes DEF Inv, List
  <2>2. \A k \in 1 .. Len(stack) : Len(List(stack[k])) \in Nat /\ Len(List(stack[k]))' \in Nat
    BY <1>1, <1>2, FrameTypes, QueueTypes, LenProperties DEF Inv, List
  <2>3. WithinInv'
    BY <1>1, <2>1, <2>2, FrameTypes DEF Inv, TypeOK, WithinInv, List
  <2>4. QED
    BY <1>1, <1>2, <2>3 DEF Inv, TypeOK, WithinInv, List, history
<1>4. DistinctInv'
  <2>1. \A k, m \in Loops :
          \A i \in 1 .. Len(permanent_queue'[k]), j \in 1 .. Len(oneshot_queue[m]) :
            permanent_queue'[k][i] # oneshot_queue[m][j]
    BY <1>1, <1>2 DEF Inv, DistinctInv
  <2>2. QED
    BY <1>1, <2>1 DEF Inv, DistinctInv
<1>5. StartedInv' /\ ReenterInv'
  BY ZenonT(40), <1>1 DEF Inv, StartedInv, EnteredUpTo, ReenterInv, history
<1>6. OnceInv'
  <2>1. Oneshots' \subseteq Oneshots
    BY SMTT(30), <1>1, <1>2 DEF Oneshots, Entries
  <2>2. QED
    BY <1>1, <2>1 DEF Inv, OnceInv, history
<1>7. QED
  BY <1>3, <1>4, <1>5, <1>6 DEF Inv

(* A new entry of a oneshot queue has not been entered, and comes last. *)
LEMMA OneshotKeeps ==
  ASSUME Inv, NEW l \in Loops, NEW t \in Tasks, oneshot(l, t)
  PROVE  Inv'
<1>1. /\ oneshot_queue' = [oneshot_queue EXCEPT ![l] = Append(@, t)]
      /\ UNCHANGED <<permanent_queue, stack, running, state, history>>
      /\ runs[t] = 0
      /\ \A m \in Loops : \A i \in 1 .. Len(oneshot_queue[m]) : oneshot_queue[m][i] # t
      /\ \A m \in Loops : \A i \in 1 .. Len(permanent_queue[m]) : permanent_queue[m][i] # t
  BY DEF oneshot, New, Entries
<1>2. /\ oneshot_queue' \in [Loops -> Seq(Tasks)]
      /\ \A m \in Loops \ {l} : oneshot_queue'[m] = oneshot_queue[m]
      /\ Len(oneshot_queue'[l]) = Len(oneshot_queue[l]) + 1
      /\ \A i \in 1 .. Len(oneshot_queue[l]) : oneshot_queue'[l][i] = oneshot_queue[l][i]
      /\ oneshot_queue'[l][Len(oneshot_queue[l]) + 1] = t
  <2>1. oneshot_queue[l] \in Seq(Tasks)
    BY DEF Inv, TypeOK
  <2>2. \A m \in Loops \ {l} : oneshot_queue'[m] = oneshot_queue[m]
    BY <1>1 DEF Inv, TypeOK
  <2>3. oneshot_queue'[l] = Append(oneshot_queue[l], t)
    BY <1>1 DEF Inv, TypeOK
  <2>4. oneshot_queue' \in [Loops -> Seq(Tasks)]
    BY <1>1, <2>1, AppendFacts DEF Inv, TypeOK
  <2>5. QED
    BY <2>1, <2>2, <2>3, <2>4, AppendFacts
<1>3. \A m \in Loops :
        /\ Len(oneshot_queue[m]) \in Nat /\ Len(oneshot_queue'[m]) >= Len(oneshot_queue[m])
        /\ \A i \in 1 .. Len(oneshot_queue[m]) : oneshot_queue'[m][i] = oneshot_queue[m][i]
        /\ \A i \in 1 .. Len(oneshot_queue'[m]) :
             \/ i \in 1 .. Len(oneshot_queue[m])
             \/ m = l /\ i = Len(oneshot_queue[l]) + 1 /\ oneshot_queue'[m][i] = t
  BY <1>2, QueueTypes DEF Inv
<1>4. TypeOK'
  <2>1. \A k \in 1 .. Len(stack) : Len(List(stack[k]))' >= Len(List(stack[k]))
    BY <1>1, <1>3, FrameTypes, QueueTypes DEF Inv, List
  <2>2. \A k \in 1 .. Len(stack) : Len(List(stack[k])) \in Nat /\ Len(List(stack[k]))' \in Nat
    BY <1>1, <1>2, FrameTypes, QueueTypes, LenProperties DEF Inv, List
  <2>3. WithinInv'
    BY <1>1, <2>1, <2>2, FrameTypes DEF Inv, TypeOK, WithinInv, List
  <2>4. QED
    BY <1>1, <1>2, <2>3 DEF Inv, TypeOK, WithinInv, List, history
<1>5. DistinctInv'
  <2>1. \A k, m \in Loops :
          \A i \in 1 .. Len(oneshot_queue'[k]), j \in 1 .. Len(oneshot_queue'[m]) :
            oneshot_queue'[k][i] = oneshot_queue'[m][j] => k = m /\ i = j
    <3> SUFFICES ASSUME NEW k \in Loops, NEW m \in Loops,
                        NEW i \in 1 .. Len(oneshot_queue'[k]), NEW j \in 1 .. Len(oneshot_queue'[m]),
                        oneshot_queue'[k][i] = oneshot_queue'[m][j]
                 PROVE  k = m /\ i = j
      OBVIOUS
    <3>1. CASE i \in 1 .. Len(oneshot_queue[k]) /\ j \in 1 .. Len(oneshot_queue[m])
      BY <1>3, <3>1 DEF Inv, DistinctInv
    <3>2. CASE i \in 1 .. Len(oneshot_queue[k]) /\ j \notin 1 .. Len(oneshot_queue[m])
      BY <1>1, <1>3, <3>2
    <3>3. CASE i \notin 1 .. Len(oneshot_queue[k]) /\ j \in 1 .. Len(oneshot_queue[m])
      BY <1>1, <1>3, <3>3
    <3>4. CASE i \notin 1 .. Len(oneshot_queue[k]) /\ j \notin 1 .. Len(oneshot_queue[m])
      BY <1>3, <3>4
    <3>5. QED
      BY <3>1, <3>2, <3>3, <3>4
  <2>2. \A k, m \in Loops :
          \A i \in 1 .. Len(permanent_queue[k]), j \in 1 .. Len(oneshot_queue'[m]) :
            permanent_queue[k][i] # oneshot_queue'[m][j]
    BY <1>1, <1>3 DEF Inv, DistinctInv
  <2>3. QED
    <3>1. permanent_queue' = permanent_queue
      BY <1>1
    <3>2. \A k, m \in Loops :
            \A i \in 1 .. Len(permanent_queue'[k]), j \in 1 .. Len(oneshot_queue'[m]) :
              permanent_queue'[k][i] # oneshot_queue'[m][j]
      BY <2>2, <3>1
    <3>3. QED
      BY <2>1, <3>2 DEF DistinctInv
<1>6. StartedInv'
  <2>1. ASSUME NEW m \in Loops
        PROVE  \E n \in 0 .. Len(oneshot_queue'[m]) : EnteredUpTo(m, n)'
    <3>1. PICK n \in 0 .. Len(oneshot_queue[m]) : EnteredUpTo(m, n)
      BY DEF Inv, StartedInv
    <3>2. n \in 0 .. Len(oneshot_queue'[m])
      BY <1>3
    <3>3. EnteredUpTo(m, n)'
      BY <1>1, <1>3, <3>1 DEF EnteredUpTo, history
    <3>4. QED
      BY <3>2, <3>3
  <2>2. ASSUME NEW k \in 1 .. Len(stack), stack[k].phase = "oneshot", ~stack[k].dangling,
               NEW i \in 1 .. stack[k].pos
        PROVE  runs[oneshot_queue'[stack[k].loop][i]] > 0
    <3>1. stack[k].loop \in Loops /\ stack[k].pos \in Nat
      BY FrameTypes DEF Inv
    <3>2. i \in 1 .. Len(oneshot_queue[stack[k].loop])
      <4>1. stack[k].pos <= Len(oneshot_queue[stack[k].loop])
        BY <2>2 DEF Inv, TypeOK, List
      <4>2. QED
        BY <1>3, <2>2, <3>1, <4>1
    <3>3. QED
      BY <1>3, <2>2, <3>1, <3>2 DEF Inv, StartedInv
  <2>3. QED
    BY <1>1, <2>1, <2>2 DEF StartedInv, history
<1>7. ReenterInv'
  BY <1>1 DEF Inv, ReenterInv, history
<1>8. OnceInv'
  <2>1. Oneshots' = Oneshots
    BY <1>1 DEF Oneshots, Entries
  <2>2. \A m \in Loops : \A i \in 1 .. Len(oneshot_queue'[m]) :
          runs[oneshot_queue'[m][i]] > 0 =>
            i \in 1 .. Len(oneshot_queue[m]) /\ oneshot_queue'[m][i] = oneshot_queue[m][i]
    BY <1>1, <1>3
  <2>3. QED
    BY <1>1, <2>1, <2>2 DEF Inv, OnceInv, history
<1>9. QED
  BY <1>4, <1>5, <1>6, <1>7, <1>8 DEF Inv

(* A call that begins stands before its first task. *)
LEMMA RunOnceKeeps ==
  ASSUME Inv, NEW l \in Loops, RunOnce(l)
  PROVE  Inv'
<1> DEFINE f == [loop |-> l, phase |-> "permanent", pos |-> 0, dangling |-> FALSE]
<1>1. /\ stack' = Append(stack, f) /\ f \in Frame
      /\ running' = FALSE
      /\ nested' \in Nat
      /\ reentered' \in BOOLEAN
      /\ reentered => reentered'
      /\ \A i \in 1 .. Len(stack) :
           stack[i].loop = l /\ stack[i].phase = "oneshot" => reentered'
      /\ UNCHANGED <<queues, state, runs, throws>>
  <2>1. f \in Frame
    BY DEF Frame
  <2>2. reentered' \in BOOLEAN /\ (reentered => reentered') /\ nested' \in Nat
    BY DEF RunOnce, Inv, TypeOK
  <2>3. QED
    BY <2>1, <2>2 DEF RunOnce
<1>2. /\ stack' \in Seq(Frame)
      /\ Len(stack) \in Nat /\ Len(stack') = Len(stack) + 1
      /\ \A i \in 1 .. Len(stack) : stack'[i] = stack[i]
      /\ stack'[Len(stack) + 1] = f
  BY <1>1, AppendFacts, FrameTypes DEF Inv, TypeOK
<1>3. /\ f.loop = l /\ f.phase = "permanent" /\ f.pos = 0 /\ f.dangling = FALSE
      /\ \A i \in 1 .. Len(stack') : i \in 1 .. Len(stack) \/ (i = Len(stack) + 1 /\ stack'[i] = f)
  BY <1>2
<1> HIDE DEF f
<1>4. TypeOK'
  <2>1. WithinInv'
    <3>1. Len(permanent_queue[l]) \in Nat
      BY QueueTypes DEF Inv
    <3>2. WithinInv
      BY Within DEF Inv
    <3> SUFFICES ASSUME NEW k \in 1 .. Len(stack')
                 PROVE  \/ stack'[k].dangling
                        \/ /\ stack'[k].phase = "permanent"
                           /\ stack'[k].pos <= Len(permanent_queue[stack'[k].loop])
                        \/ /\ stack'[k].phase # "permanent"
                           /\ stack'[k].pos <= Len(oneshot_queue[stack'[k].loop])
      BY <1>1 DEF WithinInv, queues
    <3>3. CASE k \in 1 .. Len(stack)
      BY <1>2, <3>2, <3>3 DEF WithinInv
    <3>4. CASE stack'[k] = f
      BY <1>3, <3>1, <3>4
    <3>5. QED
      BY <1>3, <3>3, <3>4
  <2>2. QED
    BY <1>1, <1>2, <2>1 DEF Inv, TypeOK, WithinInv, List, queues
<1>5. DistinctInv'
  BY <1>1 DEF Inv, DistinctInv, queues
<1>6. StartedInv'
  <2>1. \A m \in Loops : \E n \in 0 .. Len(oneshot_queue'[m]) : EnteredUpTo(m, n)'
    BY <1>1 DEF Inv, StartedInv, EnteredUpTo, queues
  <2>2. QED
    BY <1>1, <1>2, <1>3, <2>1 DEF Inv, StartedInv, queues
<1>7. ReenterInv'
  BY <1>1, <1>2, <1>3, FrameTypes DEF Inv, ReenterInv
<1>8. OnceInv'
  <2>1. Oneshots' = Oneshots
    BY <1>1 DEF Oneshots, Entries, queues
  <2>2. 1 .. Len(stack) \subseteq 1 .. Len(stack')
    BY <1>2
  <2>3. QED
    BY <1>1, <1>2, <2>1, <2>2 DEF Inv, OnceInv, queues
<1>9. QED
  BY <1>4, <1>5, <1>6, <1>7, <1>8 DEF Inv

(* What a step that moves the innermost call does to the stack. *)
LEMMA MoveFacts ==
  ASSUME TypeOK, stack # <<>>, NEW g \in Frame, stack' = [stack EXCEPT ![Len(stack)] = g]
  PROVE  /\ stack' \in Seq(Frame)
         /\ Len(stack') = Len(stack) /\ stack' # <<>>
         /\ \A i \in 1 .. Len(stack) : i # Len(stack) => stack'[i] = stack[i]
         /\ stack'[Len(stack)] = g
<1>1. stack \in Seq(Frame) /\ Len(stack) \in 1 .. Len(stack) /\ Len(stack) \in Nat
  BY FrameTypes DEF TypeOK
<1>2. stack' \in Seq(Frame) /\ Len(stack') = Len(stack)
  BY <1>1, ExceptSeq
<1>3. stack' # <<>>
  BY <1>1, <1>2, EmptySeq
<1>4. stack'[Len(stack)] = g
  BY <1>1
<1>5. \A i \in 1 .. Len(stack) : i # Len(stack) => stack'[i] = stack[i]
  BY <1>1
<1>6. QED
  BY <1>2, <1>3, <1>4, <1>5

(* The task that is entered is the first of its queue that was not, or had  *)
(* been entered before.                                                     *)
LEMMA EnterTaskKeeps ==
  ASSUME Inv, EnterTask
  PROVE  Inv'
<1> DEFINE d == Len(stack)
           p == Top.pos
           l == Top.loop
           e == Walked[p + 1]
           g == [Top EXCEPT !.pos = p + 1]
<1>1. /\ stack # <<>> /\ ~Top.dangling /\ p < Len(Walked)
      /\ stack' = [stack EXCEPT ![d] = g]
      /\ running' = TRUE
      /\ runs' = [runs EXCEPT ![e] = IF @ < 2 THEN @ + 1 ELSE @]
      /\ UNCHANGED <<queues, state, nested, throws, reentered>>
  BY DEF EnterTask, Walking, Top
<1>2. /\ d \in Nat /\ d \in 1 .. Len(stack)
      /\ Top \in Frame /\ Top = stack[d]
      /\ p \in Nat /\ l \in Loops /\ Top.phase \in {"permanent", "oneshot"}
  <2>1. d \in Nat /\ d \in 1 .. Len(stack)
    BY <1>1, FrameTypes DEF Inv
  <2>2. Top \in Frame /\ Top = stack[d]
    BY <2>1, FrameTypes DEF Inv, Top
  <2>3. QED
    BY <2>1, <2>2 DEF Frame
<1>3. g \in Frame /\ g.pos = p + 1 /\ g.loop = l /\ g.phase = Top.phase /\ g.dangling = Top.dangling
  BY <1>2 DEF Frame
<1> HIDE DEF g
<1>4. /\ stack' \in Seq(Frame) /\ Len(stack') = Len(stack) /\ stack' # <<>>
      /\ \A i \in 1 .. Len(stack) : i # d => stack'[i] = stack[i]
      /\ stack'[d] = g
  BY <1>1, <1>3, MoveFacts DEF Inv
<1>5. /\ Top.phase = "permanent" => Walked = permanent_queue[l]
      /\ Top.phase = "oneshot" => Walked = oneshot_queue[l]
  BY DEF Walked, List
<1>6. p + 1 \in 1 .. Len(Walked) /\ Len(Walked) \in Nat /\ e \in Tasks
  BY <1>1, <1>2, <1>5, QueueTypes DEF Inv
<1>7. /\ runs' \in [Tasks -> 0 .. 2]
      /\ runs'[e] > 0 /\ (runs[e] = 0 => runs'[e] = 1)
      /\ \A t \in Tasks \ {e} : runs'[t] = runs[t]
      /\ \A t \in Tasks : runs[t] > 0 => runs'[t] > 0
  BY <1>1, <1>6 DEF Inv, TypeOK
<1> HIDE DEF e
<1>8. TypeOK'
  <2>1. WithinInv
    BY Within DEF Inv
  <2>2. ASSUME NEW k \in 1 .. Len(stack)
        PROVE  \/ stack'[k].dangling
               \/ /\ stack'[k].phase = "permanent"
                  /\ stack'[k].pos <= Len(permanent_queue[stack'[k].loop])
               \/ /\ stack'[k].phase # "permanent"
                  /\ stack'[k].pos <= Len(oneshot_queue[stack'[k].loop])
    <3>1. CASE k = d
      BY <1>2, <1>3, <1>4, <1>5, <1>6, <3>1
    <3>2. CASE k # d
      BY <1>4, <2>1, <3>2 DEF WithinInv
    <3>3. QED
      BY <3>1, <3>2
  <2>3. WithinInv'
    BY <1>1, <1>4, <2>2 DEF WithinInv, queues
  <2>4. QED
    <3>1. \A i \in 1 .. Len(stack') : stack'[i].pos <= Len(List(stack[i])') \/ stack'[i].dangling
      BY <2>3 DEF WithinInv, List
    <3>2. runs' \in [Tasks -> 0 .. 2]
      BY <1>7
    <3>3. QED
      BY <1>1, <1>4, <3>1, <3>2 DEF Inv, TypeOK, List, queues
<1>9. DistinctInv'
  BY SMTT(30), <1>1 DEF Inv, DistinctInv, queues
<1>10. \A m \in Loops : \A i \in 1 .. Len(oneshot_queue[m]) :
         oneshot_queue[m][i] = e <=> Top.phase = "oneshot" /\ m = l /\ i = p + 1
  <2>1. CASE Top.phase = "permanent"
    <3>1. \A m \in Loops : \A i \in 1 .. Len(oneshot_queue[m]) : oneshot_queue[m][i] # e
      BY <1>2, <1>5, <1>6, <2>1 DEF Inv, DistinctInv, e
    <3>2. QED
      BY <2>1, <3>1
  <2>2. CASE Top.phase = "oneshot"
    <3>1. e = oneshot_queue[l][p + 1] /\ p + 1 \in 1 .. Len(oneshot_queue[l])
      BY <1>5, <1>6, <2>2 DEF e
    <3>2. QED
      BY SMTT(30), <1>2, <2>2, <3>1 DEF Inv, DistinctInv
  <2>3. QED
    BY <1>2, <2>1, <2>2
<1>11. StartedInv'
  <2>1. ASSUME NEW m \in Loops
        PROVE  \E n \in 0 .. Len(oneshot_queue[m]) :
                 \A i \in 1 .. Len(oneshot_queue[m]) : runs'[oneshot_queue[m][i]] > 0 <=> i <= n
    <3>1. PICK n \in 0 .. Len(oneshot_queue[m]) : EnteredUpTo(m, n)
      BY DEF Inv, StartedInv
    <3>2. \A i \in 1 .. Len(oneshot_queue[m]) : oneshot_queue[m][i] \in Tasks
      BY QueueTypes DEF Inv
    <3>3. CASE Top.phase = "oneshot" /\ m = l
      <4>1. p + 1 \in 1 .. Len(oneshot_queue[l]) /\ Len(oneshot_queue[l]) \in Nat
        BY <1>5, <1>6, <3>3
      <4>2. p <= n
        <5>1. \A i \in 1 .. p : runs[oneshot_queue[l][i]] > 0
          BY <1>1, <1>2, <3>3 DEF Inv, StartedInv
        <5>2. CASE p = 0
          BY <4>1, <5>2
        <5>3. CASE p > 0
          BY SMTT(30), <1>2, <3>1, <3>3, <4>1, <5>1, <5>3 DEF EnteredUpTo
        <5>4. QED
          BY <1>2, <5>2, <5>3
      <4>3. CASE p = n
        <5>1. n + 1 \in 0 .. Len(oneshot_queue[m])
          BY <3>3, <4>1, <4>3
        <5>2. \A i \in 1 .. Len(oneshot_queue[m]) : runs'[oneshot_queue[m][i]] > 0 <=> i <= n + 1
          BY <1>7, <1>10, <3>1, <3>2, <3>3, <4>1, <4>3 DEF EnteredUpTo
        <5>3. QED
          BY <5>1, <5>2
      <4>4. CASE p < n
        <5>1. \A i \in 1 .. Len(oneshot_queue[m]) : runs'[oneshot_queue[m][i]] > 0 <=> i <= n
          BY SMTT(30), <1>2, <1>7, <1>10, <3>1, <3>2, <3>3, <4>1, <4>4 DEF EnteredUpTo
        <5>2. QED
          BY <5>1
      <4>5. p = n \/ p < n
        <5>1. n \in Nat
          BY <3>3, <4>1
        <5>2. QED
          BY <1>2, <4>2, <5>1
      <4>6. QED
        BY <4>3, <4>4, <4>5
    <3>4. CASE ~(Top.phase = "oneshot" /\ m = l)
      BY <1>7, <1>10, <3>1, <3>2, <3>4 DEF EnteredUpTo
    <3>5. QED
      BY <3>3, <3>4
  <2>2. ASSUME NEW k \in 1 .. Len(stack), stack'[k].phase = "oneshot", ~stack'[k].dangling,
               NEW i \in 1 .. stack'[k].pos
        PROVE  runs'[oneshot_queue[stack'[k].loop][i]] > 0
    <3> DEFINE t == oneshot_queue[stack[k].loop][i]
    <3>1. stack[k].loop \in Loops /\ stack[k].pos \in Nat
      BY FrameTypes DEF Inv
    <3>2. /\ stack'[k].loop = stack[k].loop /\ stack'[k].phase = stack[k].phase
          /\ stack'[k].dangling = stack[k].dangling
          /\ k # d => stack'[k].pos = stack[k].pos
          /\ k = d => stack[k].pos = p /\ stack'[k].pos = p + 1
      BY <1>2, <1>3, <1>4
    <3>3. CASE k = d /\ i = p + 1
      BY <1>2, <1>5, <1>7, <2>2, <3>2, <3>3 DEF e
    <3>4. CASE i \in 1 .. stack[k].pos
      <4>1. i \in 1 .. Len(oneshot_queue[stack[k].loop])
        <5>1. stack[k].pos <= Len(oneshot_queue[stack[k].loop])
          BY <2>2, <3>2, Within DEF Inv, WithinInv
        <5>2. QED
          BY <3>1, <3>4, <5>1, QueueTypes DEF Inv
      <4>2. runs[t] > 0 /\ t \in Tasks
        BY <2>2, <3>1, <3>2, <3>4, <4>1, QueueTypes DEF Inv, StartedInv
      <4>3. QED
        BY <1>7, <3>2, <4>2
    <3>5. QED
      BY <1>2, <3>1, <3>2, <3>3, <3>4
  <2>3. QED
    BY <1>1, <1>4, <2>1, <2>2 DEF StartedInv, EnteredUpTo, queues
<1>12. ReenterInv'
  <2>1. \A k \in 1 .. Len(stack) :
          /\ stack'[k].loop = stack[k].loop /\ stack'[k].phase = stack[k].phase
          /\ stack'[k].dangling = stack[k].dangling
    BY <1>2, <1>3, <1>4
  <2>2. QED
    BY <1>1, <1>4, <2>1 DEF Inv, ReenterInv
<1>13. OnceInv'
  <2> SUFFICES ASSUME throws = 0, ~reentered
               PROVE  /\ \A t \in Oneshots : runs'[t] <= 1
                      /\ \A m \in Loops : \A i \in 1 .. Len(oneshot_queue[m]) :
                           runs'[oneshot_queue[m][i]] > 0 =>
                             \E k \in 1 .. Len(stack) :
                               /\ stack'[k].loop = m /\ stack'[k].phase = "oneshot"
                               /\ i <= stack'[k].pos
    <3>1. Oneshots' = Oneshots
      BY <1>1 DEF Oneshots, Entries, queues
    <3>2. QED
      BY <1>1, <1>4, <3>1 DEF OnceInv, queues
  <2>1. \A k \in 1 .. Len(stack) :
          /\ stack'[k].loop = stack[k].loop /\ stack'[k].phase = stack[k].phase
          /\ stack[k].pos \in Nat /\ stack'[k].pos \in Nat /\ stack'[k].pos >= stack[k].pos
    BY <1>2, <1>3, <1>4, FrameTypes DEF Inv
  <2>2. Top.phase = "oneshot" => runs[e] = 0
    <3> SUFFICES ASSUME Top.phase = "oneshot", runs[e] # 0
                 PROVE  FALSE
      OBVIOUS
    <3>1. e = oneshot_queue[l][p + 1] /\ p + 1 \in 1 .. Len(oneshot_queue[l]) /\ runs[e] > 0
      <4>1. e = oneshot_queue[l][p + 1] /\ p + 1 \in 1 .. Len(oneshot_queue[l])
        BY <1>5, <1>6 DEF e
      <4>2. runs[e] \in 0 .. 2
        BY <1>6 DEF Inv, TypeOK
      <4>3. QED
        BY <4>1, <4>2
    <3>2. PICK k \in 1 .. Len(stack) :
            stack[k].loop = l /\ stack[k].phase = "oneshot" /\ p + 1 <= stack[k].pos
      BY <1>2, <3>1 DEF Inv, OnceInv
    <3>3. k < d
      BY <1>2, <3>2
    <3>4. QED
      BY <1>2, <3>2, <3>3 DEF Inv, ReenterInv
  <2>3. Top.phase = "permanent" => e \notin Oneshots
    BY <1>2, <1>5, <1>6 DEF Oneshots, Entries, e
  <2>4. \A t \in Oneshots : runs'[t] <= 1
    <3>1. \A t \in Oneshots : t \in Tasks /\ runs[t] <= 1
      BY DEF Inv, OnceInv, Oneshots
    <3>2. QED
      BY <1>2, <1>7, <2>2, <2>3, <3>1
  <2>5. ASSUME NEW m \in Loops, NEW i \in 1 .. Len(oneshot_queue[m]),
               runs'[oneshot_queue[m][i]] > 0
        PROVE  \E k \in 1 .. Len(stack) :
                 stack'[k].loop = m /\ stack'[k].phase = "oneshot" /\ i <= stack'[k].pos
    <3>1. CASE oneshot_queue[m][i] = e
      BY <1>2, <1>3, <1>4, <1>10, <3>1
    <3>2. CASE oneshot_queue[m][i] # e
      <4>1. runs[oneshot_queue[m][i]] > 0
        BY <1>7, <2>5, <3>2, QueueTypes DEF Inv
      <4>2. PICK k \in 1 .. Len(stack) :
              stack[k].loop = m /\ stack[k].phase = "oneshot" /\ i <= stack[k].pos
        BY <4>1 DEF Inv, OnceInv
      <4>3. i \in Nat
        OBVIOUS
      <4>4. QED
        BY <2>1, <4>2, <4>3
    <3>3. QED
      BY <3>1, <3>2
  <2>6. QED
    BY <2>4, <2>5
<1>14. QED
  BY <1>8, <1>9, <1>11, <1>12, <1>13 DEF Inv

LEMMA TaskReturnsKeeps ==
  ASSUME Inv, TaskReturns
  PROVE  Inv'
<1>1. running' = FALSE /\ UNCHANGED <<queues, stack, state, history>>
  BY DEF TaskReturns
<1>2. TypeOK'
  BY <1>1 DEF Inv, TypeOK, List, queues, history
<1>3. DistinctInv' /\ StartedInv' /\ ReenterInv'
  BY <1>1 DEF Inv, DistinctInv, StartedInv, EnteredUpTo, ReenterInv, queues, history
<1>4. OnceInv'
  <2>1. Oneshots' = Oneshots
    BY <1>1 DEF Oneshots, Entries, queues
  <2>2. QED
    BY <1>1, <2>1 DEF Inv, OnceInv, queues, history
<1>5. QED
  BY <1>2, <1>3, <1>4 DEF Inv

(* An exception may end a call, and leaves entered tasks in the queue.      *)
LEMMA TaskThrowsKeeps ==
  ASSUME Inv, TaskThrows
  PROVE  Inv'
<1>1. /\ throws' = throws + 1 /\ throws' \in Nat /\ throws' # 0
      /\ UNCHANGED <<queues, runs, nested, reentered>>
  BY DEF TaskThrows, Inv, TypeOK
<1>2. stack # <<>> /\ stack \in Seq(Frame) /\ Len(stack) \in Nat
  BY FrameTypes DEF TaskThrows, Inv, TypeOK
<1>3. /\ Len(stack') <= Len(stack) /\ Len(stack') \in Nat /\ stack' \in Seq(Frame)
      /\ \A i \in 1 .. Len(stack') : i \in 1 .. Len(stack) /\ stack'[i] = stack[i]
      /\ state' \in State /\ (state' = "undefined" => state = "undefined")
      /\ running' \in BOOLEAN /\ (running' => stack' # <<>>)
  <2>1. CASE stack' = Pop /\ running' = (Len(stack) > 1) /\ UNCHANGED state
    <3>1. /\ stack' \in Seq(Frame) /\ Len(stack') = Len(stack) - 1
          /\ \A i \in 1 .. Len(stack') : i \in 1 .. Len(stack) /\ stack'[i] = stack[i]
      BY <1>2, <2>1, FrontFacts DEF Pop
    <3>2. Len(stack') \in Nat
      BY <3>1, LenProperties
    <3>3. running' \in BOOLEAN
      BY <2>1
    <3>4. running' => stack' # <<>>
      <4>1. Len(stack) > 1 => stack' # <<>>
        BY <1>2, <3>1, EmptySeq
      <4>2. QED
        BY <2>1, <4>1
    <3>5. Len(stack') <= Len(stack)
      BY <1>2, <3>1
    <3>6. state' \in State /\ (state' = "undefined" => state = "undefined")
      BY <2>1 DEF Inv, TypeOK
    <3>7. QED
      BY <3>1, <3>2, <3>3, <3>4, <3>5, <3>6
  <2>2. CASE state' = "terminated" /\ UNCHANGED <<stack, running>>
    BY <1>2, <2>2 DEF Inv, TypeOK, State
  <2>3. QED
    BY <2>1, <2>2 DEF TaskThrows
<1>4. TypeOK'
  <2>1. \A i \in 1 .. Len(stack') : stack'[i].pos <= Len(List(stack[i])') \/ stack'[i].dangling
    BY <1>1, <1>3 DEF Inv, TypeOK, List, queues
  <2>2. QED
    BY <1>1, <1>3, <2>1 DEF Inv, TypeOK, queues
<1>5. DistinctInv'
  BY <1>1 DEF Inv, DistinctInv, queues
<1>6. StartedInv'
  <2>1. \A m \in Loops : \E n \in 0 .. Len(oneshot_queue'[m]) : EnteredUpTo(m, n)'
    BY <1>1 DEF Inv, StartedInv, EnteredUpTo, queues
  <2>2. QED
    BY <1>1, <1>3, <2>1 DEF Inv, StartedInv, queues
<1>7. ReenterInv'
  BY <1>1, <1>3 DEF Inv, ReenterInv
<1>8. OnceInv'
  BY <1>1 DEF OnceInv
<1>9. QED
  BY <1>4, <1>5, <1>6, <1>7, <1>8 DEF Inv

LEMMA PermanentEndKeeps ==
  ASSUME Inv, PermanentEnd
  PROVE  Inv'
<1> DEFINE d == Len(stack)
           g == [Top EXCEPT !.phase = "oneshot", !.pos = 0]
<1>1. /\ stack # <<>> /\ ~Top.dangling /\ Top.phase = "permanent"
      /\ stack' = [stack EXCEPT ![d] = g]
      /\ UNCHANGED <<queues, running, state, history>>
  BY DEF PermanentEnd, Walking, Top
<1>2. d \in 1 .. Len(stack) /\ Top \in Frame /\ Top = stack[d] /\ Len(stack) \in Nat
  BY <1>1, FrameTypes DEF Inv, Top
<1>3. g \in Frame /\ g.pos = 0 /\ g.loop = Top.loop /\ g.phase = "oneshot" /\ g.dangling = FALSE
  BY <1>1, <1>2 DEF Frame
<1> HIDE DEF g
<1>4. /\ stack' \in Seq(Frame) /\ Len(stack') = Len(stack) /\ stack' # <<>>
      /\ \A i \in 1 .. Len(stack) : i # d => stack'[i] = stack[i]
      /\ stack'[d] = g
  BY <1>1, <1>3, MoveFacts DEF Inv
<1>5. TypeOK'
  <2>1. ASSUME NEW k \in 1 .. Len(stack)
        PROVE  \/ stack'[k].dangling
               \/ /\ stack'[k].phase = "permanent"
                  /\ stack'[k].pos <= Len(permanent_queue[stack'[k].loop])
               \/ /\ stack'[k].phase # "permanent"
                  /\ stack'[k].pos <= Len(oneshot_queue[stack'[k].loop])
    <3>1. CASE k = d
      <4>1. Len(oneshot_queue[stack[d].loop]) \in Nat
        BY <1>2, FrameTypes, QueueTypes DEF Inv
      <4>2. QED
        BY <1>2, <1>3, <1>4, <3>1, <4>1
    <3>2. CASE k # d
      BY <1>4, <3>2, Within DEF WithinInv, Inv
    <3>3. QED
      BY <3>1, <3>2
  <2>2. WithinInv'
    BY <1>1, <1>4, <2>1 DEF WithinInv, queues
  <2>3. QED
    <3>1. \A i \in 1 .. Len(stack') : stack'[i].pos <= Len(List(stack[i])') \/ stack'[i].dangling
      BY <2>2 DEF WithinInv, List
    <3>2. QED
      BY <1>1, <1>4, <3>1 DEF Inv, TypeOK, queues, history
<1>6. DistinctInv'
  BY <1>1 DEF Inv, DistinctInv, queues
<1>7. StartedInv'
  <2>1. \A m \in Loops : \E n \in 0 .. Len(oneshot_queue'[m]) : EnteredUpTo(m, n)'
    BY <1>1 DEF Inv, StartedInv, EnteredUpTo, queues, history
  <2>2. ASSUME NEW k \in 1 .. Len(stack), stack'[k].phase = "oneshot", ~stack'[k].dangling,
               NEW i \in 1 .. stack'[k].pos
        PROVE  runs[oneshot_queue[stack'[k].loop][i]] > 0
    BY <1>3, <1>4, <2>2 DEF Inv, StartedInv
  <2>3. QED
    BY <1>1, <1>4, <2>1, <2>2 DEF StartedInv, queues, history
<1>8. ReenterInv'
  <2>1. \A k \in 1 .. Len(stack) :
          /\ stack'[k].loop = stack[k].loop /\ (stack'[k].dangling => stack[k].dangling)
          /\ k # d => stack'[k].phase = stack[k].phase
    BY <1>2, <1>3, <1>4
  <2>2. QED
    <3>1. \A i, j \in 1 .. Len(stack) :
            i < j /\ stack'[i].loop = stack'[j].loop /\ stack'[i].phase = "oneshot" => reentered
      <4>1. \A i, j \in 1 .. Len(stack) : i < j => i # d
        BY <1>2
      <4>2. QED
        BY <2>1, <4>1 DEF Inv, ReenterInv
    <3>2. \A i \in 1 .. Len(stack) : stack'[i].dangling => reentered
      BY <2>1 DEF Inv, ReenterInv
    <3>3. QED
      BY <1>1, <1>4, <3>1, <3>2 DEF Inv, ReenterInv, history
<1>9. OnceInv'
  <2>1. Oneshots' = Oneshots
    BY <1>1 DEF Oneshots, Entries, queues
  <2>2. \A k \in 1 .. Len(stack) : stack[k].phase = "oneshot" => stack'[k] = stack[k]
    BY <1>1, <1>2, <1>4
  <2>3. QED
    <3> SUFFICES ASSUME throws = 0, ~reentered
                 PROVE  /\ \A t \in Oneshots : runs[t] <= 1
                        /\ \A m \in Loops : \A i \in 1 .. Len(oneshot_queue[m]) :
                             runs[oneshot_queue[m][i]] > 0 =>
                               \E k \in 1 .. Len(stack) :
                                 /\ stack'[k].loop = m /\ stack'[k].phase = "oneshot"
                                 /\ i <= stack'[k].pos
      BY <1>1, <1>4, <2>1 DEF OnceInv, queues, history
    <3>1. \A t \in Oneshots : runs[t] <= 1
      BY DEF Inv, OnceInv
    <3>2. ASSUME NEW m \in Loops, NEW i \in 1 .. Len(oneshot_queue[m]),
                 runs[oneshot_queue[m][i]] > 0
          PROVE  \E k \in 1 .. Len(stack) :
                   stack'[k].loop = m /\ stack'[k].phase = "oneshot" /\ i <= stack'[k].pos
      <4>1. PICK k \in 1 .. Len(stack) :
              stack[k].loop = m /\ stack[k].phase = "oneshot" /\ i <= stack[k].pos
        BY <3>2 DEF Inv, OnceInv
      <4>2. QED
        BY <2>2, <4>1
    <3>3. QED
      BY <3>1, <3>2
<1>10. QED
  BY <1>5, <1>6, <1>7, <1>8, <1>9 DEF Inv

(* clear() empties the queue, and takes the node from under an outer call   *)
(* only if a loop was run from inside one of its own oneshot tasks.         *)
LEMMA OneshotEndKeeps ==
  ASSUME Inv, OneshotEnd
  PROVE  Inv'
<1> DEFINE d == Len(stack)
           l == Top.loop
<1>1. /\ stack # <<>> /\ Top.phase = "oneshot"
      /\ oneshot_queue' = [oneshot_queue EXCEPT ![l] = <<>>]
      /\ stack' = [i \in 1 .. d - 1 |-> Freed(stack[i], l)]
      /\ running' = (d > 1)
      /\ UNCHANGED <<permanent_queue, state, history>>
  BY DEF OneshotEnd, Walking
<1>2. /\ d \in 1 .. Len(stack) /\ Len(stack) \in Nat /\ d - 1 \in Nat
      /\ Top \in Frame /\ Top = stack[d] /\ l \in Loops
  BY <1>1, FrameTypes DEF Inv, Top
<1>3. ASSUME NEW i \in 1 .. d - 1
      PROVE  /\ i \in 1 .. Len(stack) /\ i < d
             /\ Freed(stack[i], l) \in Frame
             /\ Freed(stack[i], l).loop = stack[i].loop
             /\ Freed(stack[i], l).phase = stack[i].phase
             /\ Freed(stack[i], l).pos = stack[i].pos
             /\ stack[i].dangling => Freed(stack[i], l).dangling
             /\ Freed(stack[i], l).dangling =>
                  stack[i].dangling \/ (stack[i].loop = l /\ stack[i].phase = "oneshot")
             /\ stack[i].loop = l /\ stack[i].phase = "oneshot" => Freed(stack[i], l).dangling
  <2>1. i \in 1 .. Len(stack) /\ i < d
    BY <1>2
  <2>2. stack[i] \in Frame
    BY <2>1, FrameTypes DEF Inv
  <2>3. QED
    BY <2>1, <2>2 DEF Freed, Frame
<1>4. /\ stack' \in Seq(Frame) /\ Len(stack') = d - 1
      /\ \A i \in 1 .. d - 1 : stack'[i] = Freed(stack[i], l)
  BY <1>1, <1>2, <1>3
<1>5. ASSUME NEW i \in 1 .. Len(stack')
      PROVE  /\ i \in 1 .. Len(stack) /\ i < d
             /\ stack'[i].loop = stack[i].loop
             /\ stack'[i].phase = stack[i].phase
             /\ stack'[i].pos = stack[i].pos
             /\ stack[i].dangling => stack'[i].dangling
             /\ stack'[i].dangling =>
                  stack[i].dangling \/ (stack[i].loop = l /\ stack[i].phase = "oneshot")
             /\ stack[i].loop = l /\ stack[i].phase = "oneshot" => stack'[i].dangling
  BY <1>3, <1>4
<1>6. /\ oneshot_queue' \in [Loops -> Seq(Tasks)]
      /\ oneshot_queue'[l] = <<>>
      /\ Len(oneshot_queue'[l]) = 0
      /\ \A m \in Loops \ {l} : oneshot_queue'[m] = oneshot_queue[m]
  BY <1>1, <1>2 DEF Inv, TypeOK
<1>7. TypeOK'
  <2>1. ASSUME NEW i \in 1 .. Len(stack')
        PROVE  \/ stack'[i].dangling
               \/ /\ stack'[i].phase = "permanent"
                  /\ stack'[i].pos <= Len(permanent_queue[stack'[i].loop])
               \/ /\ stack'[i].phase # "permanent"
                  /\ stack'[i].pos <= Len(oneshot_queue'[stack'[i].loop])
    <3>1. i \in 1 .. Len(stack) /\ stack[i].loop \in Loops /\ stack[i].phase \in {"permanent", "oneshot"}
      BY <1>5, FrameTypes DEF Inv
    <3>2. CASE stack[i].loop = l /\ stack[i].phase = "oneshot"
      BY <1>5, <3>2
    <3>3. CASE ~(stack[i].loop = l /\ stack[i].phase = "oneshot")
      BY <1>5, <1>6, <3>1, <3>3, Within DEF WithinInv, Inv
    <3>4. QED
      BY <3>2, <3>3
  <2>2. WithinInv'
    BY <1>1, <2>1 DEF WithinInv
  <2>3. \A i \in 1 .. Len(stack') : stack'[i].pos <= Len(List(stack[i])') \/ stack'[i].dangling
    BY <2>2 DEF WithinInv, List
  <2>4. running' \in BOOLEAN /\ (running' => stack' # <<>>)
    <3>1. d > 1 => stack' # <<>>
      BY <1>2, <1>4, EmptySeq
    <3>2. running' \in BOOLEAN
      BY <1>1
    <3>3. running' => stack' # <<>>
      BY <1>1, <3>1
    <3>4. QED
      BY <3>2, <3>3
  <2>5. QED
    BY <1>1, <1>4, <1>6, <2>3, <2>4 DEF Inv, TypeOK, history
<1>8. DistinctInv'
  <2>1. \A m \in Loops : \A i \in 1 .. Len(oneshot_queue'[m]) :
          m # l /\ i \in 1 .. Len(oneshot_queue[m]) /\ oneshot_queue'[m][i] = oneshot_queue[m][i]
    BY <1>6
  <2>2. QED
    BY <1>1, <2>1 DEF Inv, DistinctInv
<1>9. StartedInv'
  <2>1. ASSUME NEW m \in Loops
        PROVE  \E n \in 0 .. Len(oneshot_queue'[m]) :
                 \A i \in 1 .. Len(oneshot_queue'[m]) : runs[oneshot_queue'[m][i]] > 0 <=> i <= n
    <3>1. CASE m = l
      BY <1>6, <3>1
    <3>2. CASE m # l
      <4>1. oneshot_queue'[m] = oneshot_queue[m]
        BY <1>6, <3>2
      <4>2. PICK n \in 0 .. Len(oneshot_queue[m]) : EnteredUpTo(m, n)
        BY DEF Inv, StartedInv
      <4>3. \A i \in 1 .. Len(oneshot_queue[m]) : runs[oneshot_queue[m][i]] > 0 <=> i <= n
        BY <4>2 DEF EnteredUpTo
      <4>4. QED
        BY <4>1, <4>2, <4>3
    <3>3. QED
      BY <3>1, <3>2
  <2>2. ASSUME NEW k \in 1 .. Len(stack'), stack'[k].phase = "oneshot", ~stack'[k].dangling,
               NEW i \in 1 .. stack'[k].pos
        PROVE  runs[oneshot_queue'[stack'[k].loop][i]] > 0
    <3>1. k \in 1 .. Len(stack) /\ stack[k].loop \in Loops /\ stack[k].loop # l
      BY <1>5, <2>2, FrameTypes DEF Inv
    <3>2. i \in 1 .. stack[k].pos /\ stack[k].phase = "oneshot" /\ ~stack[k].dangling
      BY <1>5, <2>2
    <3>3. runs[oneshot_queue[stack[k].loop][i]] > 0
      BY <3>1, <3>2 DEF Inv, StartedInv
    <3>4. QED
      BY <1>5, <1>6, <3>1, <3>3
  <2>3. QED
    BY <1>1, <2>1, <2>2 DEF StartedInv, EnteredUpTo, history
<1>10. ReenterInv'
  <2>1. \A i \in 1 .. d - 1 : stack[i].loop = l /\ stack[i].phase = "oneshot" => reentered
    BY <1>2, <1>3 DEF Inv, ReenterInv
  <2>2. \A i, j \in 1 .. Len(stack') :
          i < j /\ stack'[i].loop = stack'[j].loop /\ stack'[i].phase = "oneshot" => reentered
    BY <1>5 DEF Inv, ReenterInv
  <2>3. \A i \in 1 .. Len(stack') : stack'[i].dangling => reentered
    BY <1>4, <1>5, <2>1 DEF Inv, ReenterInv
  <2>4. QED
    BY <1>1, <2>2, <2>3 DEF Inv, ReenterInv, history
<1>11. OnceInv'
  <2>1. Oneshots' = Oneshots
    BY <1>1 DEF Oneshots, Entries
  <2>2. ASSUME throws = 0, ~reentered, NEW m \in Loops, NEW i \in 1 .. Len(oneshot_queue'[m]),
               runs[oneshot_queue'[m][i]] > 0
        PROVE  \E k \in 1 .. Len(stack') :
                 stack'[k].loop = m /\ stack'[k].phase = "oneshot" /\ i <= stack'[k].pos
    <3>1. m # l /\ oneshot_queue'[m] = oneshot_queue[m]
      BY <1>6
    <3>2. PICK k \in 1 .. Len(stack) :
            stack[k].loop = m /\ stack[k].phase = "oneshot" /\ i <= stack[k].pos
      BY <2>2, <3>1 DEF Inv, OnceInv
    <3>3. k \in 1 .. Len(stack')
      BY <1>2, <1>4, <3>1, <3>2
    <3>4. QED
      BY <1>5, <3>2, <3>3
  <2>3. QED
    BY SMTT(60), <1>1, <2>1, <2>2 DEF Inv, OnceInv, history
<1>12. QED
  BY <1>7, <1>8, <1>9, <1>10, <1>11 DEF Inv

(* The outer call advances an iterator of a node that has been freed. *)
LEMMA WalkFreedKeeps ==
  ASSUME Inv, WalkFreed
  PROVE  Inv'
<1>1. /\ state' = "undefined" /\ stack # <<>> /\ Top.dangling
      /\ UNCHANGED <<queues, stack, running, history>>
  BY DEF WalkFreed
<1>2. reentered
  <2>1. Len(stack) \in 1 .. Len(stack)
    BY <1>1, FrameTypes DEF Inv
  <2>2. QED
    BY <1>1, <2>1 DEF Inv, ReenterInv, Top
<1>3. TypeOK'
  BY <1>1 DEF Inv, TypeOK, State, List, queues, history
<1>4. DistinctInv' /\ StartedInv' /\ ReenterInv'
  BY <1>1, <1>2 DEF Inv, DistinctInv, StartedInv, EnteredUpTo, ReenterInv, queues, history
<1>5. OnceInv'
  BY <1>1, <1>2 DEF OnceInv, history
<1>6. QED
  BY <1>3, <1>4, <1>5 DEF Inv

-----------------------------------------------------------------------------
LEMMA InitInv == Init => Inv
<1> SUFFICES ASSUME Init PROVE Inv
  OBVIOUS
<1>1. TypeOK
  <2>1. permanent_queue \in [Loops -> Seq(Tasks)] /\ oneshot_queue \in [Loops -> Seq(Tasks)]
    BY DEF Init
  <2>2. runs \in [Tasks -> 0 .. 2]
    BY DEF Init
  <2>3. stack \in Seq(Frame) /\ \A i \in 1 .. Len(stack) : FALSE
    BY DEF Init
  <2>4. QED
    BY <2>1, <2>2, <2>3 DEF Init, TypeOK, State
<1>2. DistinctInv /\ StartedInv /\ ReenterInv /\ OnceInv
  BY DEF Init, DistinctInv, StartedInv, EnteredUpTo, ReenterInv, OnceInv, Oneshots
<1>3. QED
  BY <1>1, <1>2 DEF Inv

LEMMA NextInv == Inv /\ [Next]_vars => Inv'
<1> SUFFICES ASSUME Inv, [Next]_vars PROVE Inv'
  OBVIOUS
<1>1. ASSUME NEW l \in Loops, NEW t \in Tasks, add(l, t) PROVE Inv'
  BY <1>1, AddKeeps
<1>2. ASSUME NEW l \in Loops, NEW t \in Tasks, oneshot(l, t) PROVE Inv'
  BY <1>2, OneshotKeeps
<1>3. ASSUME NEW l \in Loops, RunOnce(l) PROVE Inv'
  BY <1>3, RunOnceKeeps
<1>4. CASE TaskReturns
  BY <1>4, TaskReturnsKeeps
<1>5. CASE TaskThrows
  BY <1>5, TaskThrowsKeeps
<1>6. CASE Step
  BY <1>6, EnterTaskKeeps, PermanentEndKeeps, OneshotEndKeeps, WalkFreedKeeps DEF Step
<1>7. CASE UNCHANGED vars
  <2>1. TypeOK'
    BY <1>7 DEF Inv, TypeOK, List, vars, queues, history
  <2>2. DistinctInv' /\ StartedInv' /\ ReenterInv'
    <3>1. DistinctInv'
      BY <1>7 DEF Inv, DistinctInv, vars, queues
    <3>2. StartedInv'
      BY <1>7 DEF Inv, StartedInv, EnteredUpTo, vars, queues, history
    <3>3. ReenterInv'
      BY <1>7 DEF Inv, ReenterInv, vars, history
    <3>4. QED
      BY <3>1, <3>2, <3>3
  <2>3. OnceInv'
    BY <1>7 DEF Inv, OnceInv, Oneshots, Entries, vars, queues, history
  <2>4. QED
    BY <2>1, <2>2, <2>3 DEF Inv
<1>8. QED
  BY <1>1, <1>2, <1>3, <1>4, <1>5, <1>6, <1>7 DEF Next

LEMMA AlwaysInv == Spec => []Inv
BY InitInv, NextInv, PTL DEF Spec

(* TypeOK: the queues of taskloop.cpp hold tasks, and every iterator that   *)
(* is not dangling stands inside its list.                                  *)
THEOREM TypeCorrect == Spec => []TypeOK
<1>1. Inv => TypeOK
  BY DEF Inv
<1>2. QED
  BY <1>1, AlwaysInv, PTL

(* SafeWalk: however calls of run_once nest and whatever tasks throw, no    *)
(* call walks on from a freed list node unless a loop was run from inside   *)
(* one of its own oneshot tasks.                                            *)
THEOREM WalksAreSafe == Spec => []SafeWalk
<1>1. Inv => SafeWalk
  BY DEF Inv, ReenterInv, SafeWalk
<1>2. QED
  BY <1>1, AlwaysInv, PTL

(* OnceUnlessInterrupted: without an exception and without such a           *)
(* re-entrance, no oneshot task is entered twice.                           *)
THEOREM EnteredOnce == Spec => []OnceUnlessInterrupted
<1>1. Inv => OnceUnlessInterrupted
  BY DEF Inv, OnceInv, OnceUnlessInterrupted
<1>2. QED
  BY <1>1, AlwaysInv, PTL

-----------------------------------------------------------------------------
(* The refinement.  Rest is what is left of a queue after its first n.      *)
Rest(q, n) == SubSeq(q, n + 1, Len(q))

Waiting == [l \in Loops |-> Rest(oneshot_queue[l], Started(l))]

Done == {t \in Oneshots : runs[t] > 0}

LEMMA RestFacts ==
  ASSUME NEW S, NEW q \in Seq(S), NEW n \in 0 .. Len(q)
  PROVE  /\ Rest(q, n) \in Seq(S)
         /\ Len(Rest(q, n)) = Len(q) - n
         /\ \A i \in 1 .. Len(q) - n : Rest(q, n)[i] = q[n + i]
<1>1. Len(q) \in Nat /\ n \in Nat
  BY LenProperties
<1>2. \A i \in n + 1 .. Len(q) : q[i] \in S
  BY <1>1, ElementOfSeq
<1>3. /\ Rest(q, n) \in Seq(S)
      /\ Len(Rest(q, n)) = IF n + 1 <= Len(q) THEN Len(q) - (n + 1) + 1 ELSE 0
      /\ \A i \in 1 .. Len(q) - (n + 1) + 1 : Rest(q, n)[i] = q[(n + 1) + i - 1]
  BY <1>1, <1>2, SubSeqProperties DEF Rest
<1>4. \A i \in 1 .. Len(q) - n : Rest(q, n)[i] = q[n + i]
  BY <1>1, <1>3
<1>5. QED
  BY <1>1, <1>3, <1>4

(* A task that is submitted goes to the end of what waits. *)
LEMMA RestAppend ==
  ASSUME NEW S, NEW q \in Seq(S), NEW n \in 0 .. Len(q), NEW x \in S
  PROVE  Rest(Append(q, x), n) = Append(Rest(q, n), x)
<1> DEFINE a == Append(q, x)
           b == Rest(q, n)
<1>1. Len(q) \in Nat /\ n \in Nat
  BY LenProperties
<1>2. /\ a \in Seq(S) /\ Len(a) = Len(q) + 1 /\ a[Len(q) + 1] = x
      /\ \A i \in 1 .. Len(q) : a[i] = q[i]
  BY AppendFacts
<1>3. /\ b \in Seq(S) /\ Len(b) = Len(q) - n
      /\ \A i \in 1 .. Len(q) - n : b[i] = q[n + i]
  BY RestFacts
<1> HIDE DEF a, b
<1>4. n \in 0 .. Len(a)
  BY <1>1, <1>2
<1>5. /\ Rest(a, n) \in Seq(S) /\ Len(Rest(a, n)) = Len(a) - n
      /\ \A i \in 1 .. Len(a) - n : Rest(a, n)[i] = a[n + i]
  BY ZenonT(40), <1>2, <1>4, RestFacts
<1>6. /\ Append(b, x) \in Seq(S) /\ Len(Append(b, x)) = Len(b) + 1
      /\ Append(b, x)[Len(b) + 1] = x
      /\ \A i \in 1 .. Len(b) : Append(b, x)[i] = b[i]
  BY <1>3, AppendFacts
<1>7. Len(Rest(a, n)) = Len(Append(b, x))
  BY <1>1, <1>2, <1>3, <1>5, <1>6
<1>8. ASSUME NEW i \in 1 .. Len(Rest(a, n))
      PROVE  Rest(a, n)[i] = Append(b, x)[i]
  <2>1. CASE i \in 1 .. Len(b)
    BY <1>1, <1>2, <1>3, <1>5, <1>6, <2>1
  <2>2. CASE i = Len(b) + 1
    BY <1>1, <1>2, <1>3, <1>5, <1>6, <2>2
  <2>3. QED
    BY <1>1, <1>3, <1>6, <1>7, <2>1, <2>2
<1>9. Rest(a, n) = Append(b, x)
  BY <1>5, <1>6, <1>7, <1>8, SeqEqual
<1>10. QED
  BY <1>9 DEF a, b

(* The task that is started is the first of those that wait. *)
LEMMA RestTail ==
  ASSUME NEW S, NEW q \in Seq(S), NEW n \in Nat, n < Len(q)
  PROVE  /\ Rest(q, n) # <<>>
         /\ Head(Rest(q, n)) = q[n + 1]
         /\ Rest(q, n + 1) = Tail(Rest(q, n))
<1> DEFINE a == Rest(q, n + 1)
           b == Rest(q, n)
<1>1. Len(q) \in Nat /\ n \in 0 .. Len(q) /\ n + 1 \in 0 .. Len(q)
  BY LenProperties
<1>2. /\ b \in Seq(S) /\ Len(b) = Len(q) - n
      /\ \A i \in 1 .. Len(q) - n : b[i] = q[n + i]
  BY <1>1, RestFacts
<1>3. /\ a \in Seq(S) /\ Len(a) = Len(q) - (n + 1)
      /\ \A i \in 1 .. Len(q) - (n + 1) : a[i] = q[(n + 1) + i]
  BY <1>1, RestFacts
<1> HIDE DEF a, b
<1>4. b # <<>>
  BY <1>1, <1>2, EmptySeq
<1>5. /\ Head(b) = b[1] /\ Tail(b) \in Seq(S) /\ Len(Tail(b)) = Len(b) - 1
      /\ \A i \in 1 .. Len(Tail(b)) : Tail(b)[i] = b[i + 1]
  BY <1>2, <1>4, HeadTailProperties
<1>6. Head(b) = q[n + 1]
  BY <1>1, <1>2, <1>5
<1>7. Len(a) = Len(Tail(b))
  BY <1>1, <1>2, <1>3, <1>5
<1>8. \A i \in 1 .. Len(a) : a[i] = Tail(b)[i]
  BY <1>1, <1>2, <1>3, <1>5, <1>7
<1>9. a = Tail(b)
  BY <1>3, <1>5, <1>7, <1>8, SeqEqual
<1>10. QED
  BY <1>4, <1>6, <1>9 DEF a, b

LEMMA RestAll ==
  ASSUME NEW S, NEW q \in Seq(S)
  PROVE  Rest(q, Len(q)) = <<>>
<1>1. Len(q) \in Nat /\ Len(q) \in 0 .. Len(q)
  BY LenProperties
<1>2. Rest(q, Len(q)) \in Seq(S) /\ Len(Rest(q, Len(q))) = 0
  BY <1>1, RestFacts
<1>3. QED
  BY <1>2, EmptySeq

(* Where the CHOOSE of Started points. *)
LEMMA LastEntered ==
  ASSUME NEW q \in Seq(Tasks), NEW r \in [Tasks -> 0 .. 2], NEW n \in 0 .. Len(q),
         \A i \in 1 .. Len(q) : r[q[i]] > 0 <=> i <= n
  PROVE  n = CHOOSE k \in 0 .. Len(q) :
               /\ k > 0 => r[q[k]] > 0
               /\ \A i \in k + 1 .. Len(q) : r[q[i]] = 0
<1>1. Len(q) \in Nat /\ n \in Nat /\ \A i \in 1 .. Len(q) : r[q[i]] \in 0 .. 2
  BY LenProperties, ElementOfSeq
<1> DEFINE P(k) == /\ k > 0 => r[q[k]] > 0
                   /\ \A i \in k + 1 .. Len(q) : r[q[i]] = 0
<1>2. P(n)
  BY <1>1
<1>3. ASSUME NEW k \in 0 .. Len(q), P(k) PROVE k = n
  <2>1. k \in Nat
    BY <1>1
  <2>2. k <= n
    BY <1>1, <1>3, <2>1
  <2>3. ~(k < n)
    BY <1>1, <1>3, <2>1
  <2>4. QED
    BY <1>1, <2>1, <2>2, <2>3
<1> HIDE DEF P
<1>4. n = CHOOSE k \in 0 .. Len(q) : P(k)
  BY <1>2, <1>3
<1>5. QED
  BY <1>4 DEF P

LEMMA WaitingIs ==
  ASSUME TypeOK, NEW l \in Loops, NEW n \in 0 .. Len(oneshot_queue[l]), EnteredUpTo(l, n)
  PROVE  Started(l) = n /\ Waiting[l] = Rest(oneshot_queue[l], n)
<1>1. Started(l) = n
  BY LastEntered DEF TypeOK, EnteredUpTo, Started
<1>2. QED
  BY <1>1 DEF Waiting

LEMMA WaitingIsNext ==
  ASSUME TypeOK', NEW l \in Loops, NEW n \in 0 .. Len(oneshot_queue'[l]),
         \A i \in 1 .. Len(oneshot_queue'[l]) : runs'[oneshot_queue'[l][i]] > 0 <=> i <= n
  PROVE  Waiting'[l] = Rest(oneshot_queue'[l], n)
<1>1. oneshot_queue'[l] \in Seq(Tasks) /\ runs' \in [Tasks -> 0 .. 2]
  BY DEF TypeOK
<1>2. Started(l)' = n
  BY <1>1, LastEntered DEF Started
<1>3. QED
  BY <1>2 DEF Waiting, Rest

(* What waits is a function of the loop. *)
LEMMA WaitingDomain ==
  /\ Waiting = [l \in Loops |-> Waiting[l]]
  /\ Waiting' = [l \in Loops |-> Waiting'[l]]
BY DEF Waiting

LEMMA Stutters ==
  ASSUME TypeOK, TypeOK', StartedInv, UNCHANGED oneshot_queue, Done' = Done,
         \A l \in Loops : \A i \in 1 .. Len(oneshot_queue[l]) :
           runs'[oneshot_queue[l][i]] > 0 <=> runs[oneshot_queue[l][i]] > 0
  PROVE  UNCHANGED <<Waiting, Done>>
<1>1. ASSUME NEW l \in Loops PROVE Waiting'[l] = Waiting[l]
  <2>1. PICK n \in 0 .. Len(oneshot_queue[l]) : EnteredUpTo(l, n)
    BY DEF StartedInv
  <2>2. Waiting[l] = Rest(oneshot_queue[l], n)
    BY <2>1, WaitingIs
  <2>3. /\ n \in 0 .. Len(oneshot_queue'[l])
        /\ \A i \in 1 .. Len(oneshot_queue'[l]) : runs'[oneshot_queue'[l][i]] > 0 <=> i <= n
    BY <2>1 DEF EnteredUpTo
  <2>4. Waiting'[l] = Rest(oneshot_queue'[l], n)
    BY <2>3, WaitingIsNext
  <2>5. QED
    BY <2>2, <2>4
<1>2. Waiting' = Waiting
  BY <1>1, WaitingDomain
<1>3. QED
  BY <1>2

(* A step that leaves the oneshot queues and what was entered alone. *)
LEMMA OthersStutter ==
  ASSUME TypeOK, TypeOK', StartedInv, UNCHANGED <<queues, runs>>
  PROVE  UNCHANGED <<Waiting, Done>>
<1>1. Done' = Done
  BY DEF Done, Oneshots, Entries, queues
<1>2. QED
  BY <1>1, Stutters DEF queues

LEMMA AddStutters ==
  ASSUME Inv, TypeOK', NEW l \in Loops, NEW t \in Tasks, add(l, t)
  PROVE  UNCHANGED <<Waiting, Done>>
<1>1. /\ permanent_queue' = [permanent_queue EXCEPT ![l] = Append(@, t)]
      /\ UNCHANGED <<oneshot_queue, runs>>
      /\ runs[t] = 0
  BY DEF add, New, history
<1>2. Done' = Done
  <2>1. permanent_queue[l] \in Seq(Tasks) /\ permanent_queue \in [Loops -> Seq(Tasks)]
    BY DEF Inv, TypeOK
  <2>2. \A m \in Loops : Entries(permanent_queue'[m]) =
                          Entries(permanent_queue[m]) \cup (IF m = l THEN {t} ELSE {})
    <3>1. Len(permanent_queue[l]) \in Nat
      BY <2>1, LenProperties
    <3>2. /\ permanent_queue'[l] = Append(permanent_queue[l], t)
          /\ \A m \in Loops \ {l} : permanent_queue'[m] = permanent_queue[m]
      BY <1>1, <2>1
    <3>3. Entries(permanent_queue'[l]) = Entries(permanent_queue[l]) \cup {t}
      BY <2>1, <3>1, <3>2, AppendFacts DEF Entries
    <3>4. QED
      BY <3>2, <3>3
  <2>3. \A u \in Tasks : u # t => (u \in Oneshots' <=> u \in Oneshots)
    BY <2>2 DEF Oneshots
  <2>4. QED
    BY <1>1, <2>3 DEF Done, Oneshots
<1>3. QED
  BY <1>1, <1>2, Stutters DEF Inv

LEMMA OneshotSubmits ==
  ASSUME Inv, TypeOK', NEW l \in Loops, NEW t \in Tasks, oneshot(l, t)
  PROVE  /\ t \notin Done
         /\ Waiting' = [Waiting EXCEPT ![l] = Append(@, t)]
         /\ UNCHANGED Done
<1>1. /\ oneshot_queue' = [oneshot_queue EXCEPT ![l] = Append(@, t)]
      /\ UNCHANGED <<permanent_queue, runs>>
      /\ runs[t] = 0
  BY DEF oneshot, New, history
<1>2. t \notin Done /\ Done' = Done
  BY <1>1 DEF Done, Oneshots, Entries
<1>3. ASSUME NEW m \in Loops
      PROVE  Waiting'[m] = IF m = l THEN Append(Waiting[l], t) ELSE Waiting[m]
  <2> DEFINE q == oneshot_queue[m]
  <2>1. q \in Seq(Tasks) /\ Len(q) \in Nat
    BY QueueTypes DEF Inv
  <2>2. PICK n \in 0 .. Len(q) : EnteredUpTo(m, n)
    BY DEF Inv, StartedInv
  <2>3. Waiting[m] = Rest(q, n)
    BY <2>2, WaitingIs DEF Inv
  <2>4. CASE m # l
    <3>1. oneshot_queue'[m] = q
      BY <1>1, <2>4 DEF Inv, TypeOK
    <3>2. \A i \in 1 .. Len(oneshot_queue'[m]) : runs'[oneshot_queue'[m][i]] > 0 <=> i <= n
      BY <1>1, <2>2, <3>1 DEF EnteredUpTo
    <3>3. Waiting'[m] = Rest(oneshot_queue'[m], n)
      BY <2>2, <3>1, <3>2, WaitingIsNext
    <3>4. QED
      BY <2>3, <2>4, <3>1, <3>3
  <2>5. CASE m = l
    <3>1. oneshot_queue'[m] = Append(q, t)
      BY <1>1, <2>5 DEF Inv, TypeOK
    <3>2. /\ Len(Append(q, t)) = Len(q) + 1
          /\ \A i \in 1 .. Len(q) : Append(q, t)[i] = q[i]
          /\ Append(q, t)[Len(q) + 1] = t
      BY <2>1, AppendFacts
    <3>3. n \in 0 .. Len(oneshot_queue'[m])
      BY <2>1, <2>2, <3>1, <3>2
    <3>4. ASSUME NEW i \in 1 .. Len(oneshot_queue'[m])
          PROVE  runs'[oneshot_queue'[m][i]] > 0 <=> i <= n
      <4>1. CASE i \in 1 .. Len(q)
        BY <1>1, <2>2, <3>1, <3>2, <4>1 DEF EnteredUpTo
      <4>2. CASE i = Len(q) + 1
        BY <1>1, <2>1, <2>2, <3>1, <3>2, <4>2
      <4>3. QED
        BY <2>1, <3>1, <3>2, <4>1, <4>2
    <3>5. Waiting'[m] = Rest(Append(q, t), n)
      BY <3>1, <3>3, <3>4, WaitingIsNext
    <3>6. QED
      BY <2>1, <2>3, <2>5, <3>5, RestAppend
  <2>6. QED
    BY <2>4, <2>5
<1>4. Waiting' = [Waiting EXCEPT ![l] = Append(@, t)]
  BY <1>3, WaitingDomain
<1>5. QED
  BY <1>2, <1>4

(* A task is entered: for the first time, and then it is the oldest that    *)
(* waits, or again, which TaskQueue does not see.                           *)
LEMMA EnterTaskStarts ==
  ASSUME Inv, TypeOK', EnterTask
  PROVE  \/ UNCHANGED <<Waiting, Done>>
         \/ \E l \in Loops :
              /\ Waiting[l] # <<>>
              /\ Waiting' = [Waiting EXCEPT ![l] = Tail(@)]
              /\ Done' = Done \cup {Head(Waiting[l])}
<1> DEFINE p == Top.pos
           l == Top.loop
           e == Walked[p + 1]
<1>1. /\ stack # <<>> /\ ~Top.dangling /\ p < Len(Walked)
      /\ runs' = [runs EXCEPT ![e] = IF @ < 2 THEN @ + 1 ELSE @]
      /\ UNCHANGED queues
  BY DEF EnterTask, Walking
<1>2. /\ Len(stack) \in 1 .. Len(stack) /\ p \in Nat /\ l \in Loops
      /\ Top.phase \in {"permanent", "oneshot"}
  BY <1>1, FrameTypes DEF Inv, Top
<1>3. /\ Top.phase = "permanent" => Walked = permanent_queue[l]
      /\ Top.phase = "oneshot" => Walked = oneshot_queue[l]
  BY DEF Walked, List
<1>4. p + 1 \in 1 .. Len(Walked) /\ e \in Tasks /\ runs[e] \in 0 .. 2
  <2>1. p + 1 \in 1 .. Len(Walked) /\ e \in Tasks
    BY <1>1, <1>2, <1>3, QueueTypes DEF Inv
  <2>2. QED
    BY <2>1 DEF Inv, TypeOK
<1>5. /\ runs'[e] > 0
      /\ \A t \in Tasks \ {e} : runs'[t] = runs[t]
  BY <1>1, <1>4 DEF Inv, TypeOK
<1> HIDE DEF e
<1>6. Oneshots' = Oneshots
  BY <1>1 DEF Oneshots, Entries, queues
<1>7. CASE runs[e] > 0
  <2>1. \A t \in Tasks : runs'[t] > 0 <=> runs[t] > 0
    BY <1>5, <1>7
  <2>2. Done' = Done
    BY <1>6, <2>1 DEF Done, Oneshots
  <2>3. QED
    BY <1>1, <2>1, <2>2, Stutters, QueueTypes DEF Inv, queues
<1>8. CASE Top.phase = "permanent"
  <2>1. e \notin Oneshots
    BY <1>2, <1>3, <1>4, <1>8 DEF Oneshots, Entries, e
  <2>2. Done' = Done
    BY <1>5, <1>6, <2>1 DEF Done, Oneshots
  <2>3. \A m \in Loops : \A i \in 1 .. Len(oneshot_queue[m]) : oneshot_queue[m][i] # e
    BY <1>2, <1>3, <1>4, <1>8 DEF Inv, DistinctInv, e
  <2>4. QED
    BY <1>1, <1>5, <2>2, <2>3, Stutters, QueueTypes DEF Inv, queues
<1>9. CASE Top.phase = "oneshot" /\ runs[e] = 0
  <2> DEFINE q == oneshot_queue[l]
  <2>1. /\ q \in Seq(Tasks) /\ Len(q) \in Nat /\ p < Len(q) /\ p + 1 \in 1 .. Len(q)
        /\ e = q[p + 1] /\ UNCHANGED <<oneshot_queue, permanent_queue>>
    BY <1>1, <1>2, <1>3, <1>4, <1>9, QueueTypes DEF Inv, e, queues
  <2>2. PICK n \in 0 .. Len(q) : EnteredUpTo(l, n)
    BY <1>2 DEF Inv, StartedInv
  <2>3. n = p
    <3>1. ~(p + 1 <= n)
      BY <1>9, <2>1, <2>2 DEF EnteredUpTo
    <3>2. p <= n
      <4>1. \A i \in 1 .. p : runs[q[i]] > 0
        BY <1>1, <1>2, <1>9 DEF Inv, StartedInv, Top
      <4>2. CASE p = 0
        BY <2>1, <2>2, <4>2
      <4>3. CASE p > 0
        <5>1. p \in 1 .. p /\ p \in 1 .. Len(q)
          BY <1>2, <2>1, <4>3
        <5>2. QED
          BY <2>2, <4>1, <5>1 DEF EnteredUpTo
      <4>4. QED
        BY <1>2, <4>2, <4>3
    <3>3. QED
      BY <1>2, <2>1, <3>1, <3>2
  <2>4. Waiting[l] = Rest(q, p)
    BY <1>2, <2>2, <2>3, WaitingIs DEF Inv
  <2>5. Waiting'[l] = Rest(q, p + 1)
    <3>1. ASSUME NEW i \in 1 .. Len(q)
          PROVE  runs'[q[i]] > 0 <=> i <= p + 1
      <4>1. q[i] \in Tasks
        BY <2>1, ElementOfSeq
      <4>2. q[i] = e <=> i = p + 1
        BY <1>2, <2>1 DEF Inv, DistinctInv
      <4>3. CASE i = p + 1
        BY <1>2, <1>5, <4>2, <4>3
      <4>4. CASE i # p + 1
        BY <1>2, <1>5, <2>2, <2>3, <4>1, <4>2, <4>4 DEF EnteredUpTo
      <4>5. QED
        BY <4>3, <4>4
    <3>2. p + 1 \in 0 .. Len(oneshot_queue'[l])
      BY <1>2, <2>1
    <3>3. \A i \in 1 .. Len(oneshot_queue'[l]) :
            runs'[oneshot_queue'[l][i]] > 0 <=> i <= p + 1
      BY <2>1, <3>1
    <3> HIDE DEF p
    <3>4. Waiting'[l] = Rest(oneshot_queue'[l], p + 1)
      BY <1>2, <3>2, <3>3, WaitingIsNext
    <3>5. QED
      BY <2>1, <3>4
  <2>6. ASSUME NEW m \in Loops \ {l} PROVE Waiting'[m] = Waiting[m]
    <3>1. PICK k \in 0 .. Len(oneshot_queue[m]) : EnteredUpTo(m, k)
      BY DEF Inv, StartedInv
    <3>2. \A i \in 1 .. Len(oneshot_queue[m]) : oneshot_queue[m][i] \in Tasks \ {e}
      <4>1. \A i \in 1 .. Len(oneshot_queue[m]) : oneshot_queue[m][i] \in Tasks
        BY QueueTypes DEF Inv
      <4>2. \A i \in 1 .. Len(oneshot_queue[m]) : oneshot_queue[m][i] # e
        BY <1>2, <2>1 DEF Inv, DistinctInv
      <4>3. QED
        BY <4>1, <4>2
    <3>3. /\ k \in 0 .. Len(oneshot_queue'[m])
          /\ \A i \in 1 .. Len(oneshot_queue'[m]) : runs'[oneshot_queue'[m][i]] > 0 <=> i <= k
      BY <1>5, <2>1, <3>1, <3>2 DEF EnteredUpTo
    <3>4. Waiting'[m] = Rest(oneshot_queue'[m], k)
      BY <3>3, WaitingIsNext
    <3>5. QED
      BY <2>1, <3>1, <3>4, WaitingIs DEF Inv
  <2>7. /\ Waiting[l] # <<>> /\ Head(Waiting[l]) = e /\ Waiting'[l] = Tail(Waiting[l])
    BY <1>2, <2>1, <2>4, <2>5, RestTail
  <2>8. Waiting' = [Waiting EXCEPT ![l] = Tail(@)]
    BY <1>2, <2>6, <2>7, WaitingDomain
  <2>9. Done' = Done \cup {e}
    <3>1. e \in Oneshots
      <4>1. \A m \in Loops : \A i \in 1 .. Len(permanent_queue[m]) : permanent_queue[m][i] # e
        BY <1>2, <2>1 DEF Inv, DistinctInv
      <4>2. QED
        BY <1>4, <4>1 DEF Oneshots, Entries
    <3>2. QED
      BY <1>5, <1>6, <3>1 DEF Done, Oneshots
  <2>10. QED
    BY <1>2, <2>7, <2>8, <2>9
<1>10. QED
  BY <1>2, <1>4, <1>7, <1>8, <1>9

(* clear() forgets tasks that were all entered. *)
LEMMA OneshotEndStutters ==
  ASSUME Inv, TypeOK', OneshotEnd
  PROVE  UNCHANGED <<Waiting, Done>>
<1> DEFINE l == Top.loop
           q == oneshot_queue[l]
<1>1. /\ stack # <<>> /\ ~Top.dangling /\ Top.phase = "oneshot" /\ Top.pos = Len(q)
      /\ oneshot_queue' = [oneshot_queue EXCEPT ![l] = <<>>]
      /\ UNCHANGED <<permanent_queue, runs>>
  BY DEF OneshotEnd, Walking, Walked, List, history
<1>2. Len(stack) \in 1 .. Len(stack) /\ l \in Loops
  BY <1>1, FrameTypes DEF Inv, Top
<1>3. q \in Seq(Tasks) /\ Len(q) \in Nat
  BY <1>2, QueueTypes DEF Inv
<1>4. Done' = Done
  BY <1>1 DEF Done, Oneshots, Entries
<1>5. Waiting[l] = <<>>
  <2>1. \A i \in 1 .. Len(q) : runs[q[i]] > 0
    BY <1>1, <1>2 DEF Inv, StartedInv, Top
  <2>2. EnteredUpTo(l, Len(q)) /\ Len(q) \in 0 .. Len(q)
    BY <1>3, <2>1 DEF EnteredUpTo
  <2>3. QED
    BY <1>2, <1>3, <2>2, WaitingIs, RestAll DEF Inv
<1>6. Waiting'[l] = <<>>
  <2>1. oneshot_queue'[l] = <<>> /\ Len(oneshot_queue'[l]) = 0 /\ oneshot_queue'[l] \in Seq(Tasks)
    BY <1>1, <1>2, EmptySeq DEF Inv, TypeOK
  <2>2. /\ 0 \in 0 .. Len(oneshot_queue'[l])
        /\ \A i \in 1 .. Len(oneshot_queue'[l]) : runs'[oneshot_queue'[l][i]] > 0 <=> i <= 0
    BY <2>1
  <2>3. Waiting'[l] = Rest(oneshot_queue'[l], 0)
    BY <1>2, <2>2, WaitingIsNext
  <2>4. QED
    BY <2>1, <2>3, RestAll
<1>7. ASSUME NEW m \in Loops \ {l} PROVE Waiting'[m] = Waiting[m]
  <2>1. oneshot_queue'[m] = oneshot_queue[m]
    BY <1>1 DEF Inv, TypeOK
  <2>2. PICK k \in 0 .. Len(oneshot_queue[m]) : EnteredUpTo(m, k)
    BY DEF Inv, StartedInv
  <2>3. /\ k \in 0 .. Len(oneshot_queue'[m])
        /\ \A i \in 1 .. Len(oneshot_queue'[m]) : runs'[oneshot_queue'[m][i]] > 0 <=> i <= k
    BY <1>1, <2>1, <2>2 DEF EnteredUpTo
  <2>4. Waiting'[m] = Rest(oneshot_queue'[m], k)
    BY <2>3, WaitingIsNext
  <2>5. QED
    BY <2>1, <2>2, <2>4, WaitingIs DEF Inv
<1>8. Waiting' = Waiting
  BY <1>5, <1>6, <1>7, WaitingDomain
<1>9. QED
  BY <1>4, <1>8

(* ImplementsQueue: each loop's oneshot tasks are first entered in the      *)
(* order in which they were submitted, and none is dropped before, however  *)
(* calls of run_once nest and whatever tasks throw or add.                  *)
THEOREM Implements == Spec => ImplementsQueue
<1>1. Init => Contract!Init
  <2> SUFFICES ASSUME Init PROVE Contract!Init
    OBVIOUS
  <2>1. Inv
    BY InitInv
  <2>2. Done = {}
    BY DEF Init, Done, Oneshots
  <2>3. ASSUME NEW l \in Loops PROVE Waiting[l] = <<>>
    <3>1. oneshot_queue[l] = <<>> /\ oneshot_queue[l] \in Seq(Tasks) /\ Len(oneshot_queue[l]) = 0
      BY EmptySeq DEF Init
    <3>2. EnteredUpTo(l, 0) /\ 0 \in 0 .. Len(oneshot_queue[l])
      BY <3>1 DEF EnteredUpTo
    <3>3. Waiting[l] = Rest(oneshot_queue[l], 0)
      BY <2>1, <3>2, WaitingIs DEF Inv
    <3>4. QED
      BY <3>1, <3>3, RestAll
  <2>4. Waiting = [l \in Loops |-> <<>>]
    BY <2>3, WaitingDomain
  <2>5. QED
    BY <2>2, <2>4 DEF Contract!Init, Waiting, Done, Rest
<1>2. Inv /\ Inv' /\ [Next]_vars => [Contract!Next]_Contract!vars
  <2> SUFFICES ASSUME Inv, Inv', [Next]_vars
               PROVE  Contract!Next \/ UNCHANGED <<Waiting, Done>>
    BY DEF Contract!vars, Waiting, Done, Rest
  <2>1. ASSUME NEW l \in Loops, NEW t \in Tasks, add(l, t) PROVE UNCHANGED <<Waiting, Done>>
    BY <2>1, AddStutters DEF Inv
  <2>2. ASSUME NEW l \in Loops, NEW t \in Tasks, oneshot(l, t) PROVE Contract!Next
    <3>1. Contract!Submit(l, t)
      BY <2>2, OneshotSubmits DEF Inv, Contract!Submit, Waiting, Done, Rest
    <3>2. QED
      BY <3>1 DEF Contract!Next
  <2>3. ASSUME NEW l \in Loops, RunOnce(l) PROVE UNCHANGED <<Waiting, Done>>
    BY <2>3, OthersStutter DEF Inv, RunOnce
  <2>4. CASE TaskReturns
    BY <2>4, OthersStutter DEF Inv, TaskReturns, history
  <2>5. CASE TaskThrows
    BY <2>5, OthersStutter DEF Inv, TaskThrows
  <2>6. CASE EnterTask
    <3>1. ASSUME NEW l \in Loops,
                 Waiting[l] # <<>>,
                 Waiting' = [Waiting EXCEPT ![l] = Tail(@)],
                 Done' = Done \cup {Head(Waiting[l])}
          PROVE  Contract!Start(l)
      BY <3>1 DEF Contract!Start, Waiting, Done, Rest
    <3>2. QED
      BY <2>6, <3>1, EnterTaskStarts DEF Inv, Contract!Next
  <2>7. CASE PermanentEnd
    BY <2>7, OthersStutter DEF Inv, PermanentEnd, history
  <2>8. CASE OneshotEnd
    BY <2>8, OneshotEndStutters DEF Inv
  <2>9. CASE WalkFreed
    BY <2>9, OthersStutter DEF Inv, WalkFreed, history
  <2>10. CASE UNCHANGED vars
    BY <2>10, OthersStutter DEF Inv, vars, history
  <2>11. QED
    BY <2>1, <2>2, <2>3, <2>4, <2>5, <2>6, <2>7, <2>8, <2>9, <2>10 DEF Next, Step
<1>3. QED
  BY <1>1, <1>2, AlwaysInv, PTL DEF Spec, ImplementsQueue, Contract!Spec

=============================================================================
