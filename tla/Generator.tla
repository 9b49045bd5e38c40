----------------------------- MODULE Generator -----------------------------
(***************************************************************************)
(* headers/generator.h: generators, coroutines on ucontext, of one thread. *)
(*                                                                         *)
(* A generator keeps two saved contexts: gen_ctx, where it goes on, and    *)
(* caller_ctx, a pointer into the frame of run_generator that resumed it.  *)
(* Code runs on the stack of the thread (Main) or of a generator; a saved  *)
(* context is modelled by the stack it continues on.  Nothing in the code  *)
(* ties a generator's context object to the stack it is used on: code run  *)
(* by an inner generator, or by the caller, may yield an outer one.        *)
(*                                                                         *)
(* Calls that change nothing are left out: next on a generator that is     *)
(* DONE (it returns the last value) or RUNNING, _throw on one that is not  *)
(* SUSPENDED, and yield on one that is not RUNNING (they throw).           *)
(***************************************************************************)
EXTENDS Naturals, FiniteSets

CONSTANTS
  Gens,   \* GenData objects
  Main,   \* the thread's own stack
  Null    \* no stack, no generator

ASSUME GeneratorAssumption ==
  /\ IsFiniteSet(Gens)
  /\ Main \notin Gens /\ Null \notin Gens /\ Main # Null

VARIABLES
  status,      \* GenData::status
  gen_ctx,     \* GenData::gen_ctx: the stack a resumed generator goes on with
  caller_ctx,  \* GenData::caller_ctx: the stack that resumed it last
  in_val,      \* GenData::in_val: set, or the null pointer
  from,        \* the yield_from a generator's code is in, see From
  at,          \* the stack the thread executes on
  state        \* ok, or undefined behaviour was reached

(* History, read by properties only. *)
VARIABLES
  strayed,     \* a generator that is not being executed was yielded
  thrown       \* an exception was thrown into a generator

history == <<strayed, thrown>>
vars    == <<status, gen_ctx, caller_ctx, in_val, from, at, state, history>>

GenStatus == {"PENDING", "RUNNING", "SUSPENDED", "DONE"}

Stacks == Gens \cup {Main}

(* yield_from: at the test of its loop, or about to yield what gen.next     *)
(* returned.                                                                *)
From   == [gen : Gens, phase : {"loop", "answer"}]
NoFrom == [gen |-> Null, phase |-> "none"]

Init ==
  /\ status = [g \in Gens |-> "PENDING"]
  /\ gen_ctx = [g \in Gens |-> g]
  /\ caller_ctx = [g \in Gens |-> Null]
  /\ in_val = [g \in Gens |-> "null"]
  /\ from = [g \in Gens |-> NoFrom]
  /\ at = Main /\ state = "ok"
  /\ strayed = FALSE /\ thrown = FALSE

-----------------------------------------------------------------------------
(* The stacks control returns through, from s down to Main. *)
Below(s) ==
  LET stack[n \in 0 .. Cardinality(Gens)] ==
        IF n = 0 THEN s
        ELSE IF stack[n - 1] \in Gens THEN caller_ctx[stack[n - 1]] ELSE Main
  IN  stack

(* The generators that are being executed. *)
Executed == {Below(at)[n] : n \in 0 .. Cardinality(Gens)} \ {Main}

UserCode == state = "ok" /\ (at # Main => from[at] = NoFrom)

(* An exception leaves the yield_from that stack s is in, if any. *)
Abandon(s) == [g \in Gens |-> IF g = s THEN NoFrom ELSE from[g]]

(* Broken variants: the caller is noted by the first next only, or by the   *)
(* later ones only; RUNNING is not set.                                     *)
ResumeFirst(g, v) ==
  /\ status' = [status EXCEPT ![g] = "RUNNING"]
  /\ in_val' = [in_val EXCEPT ![g] = v]
  /\ caller_ctx' = [caller_ctx EXCEPT ![g] = IF status[g] = "PENDING" THEN at ELSE @]
  /\ at' = gen_ctx[g]
  /\ UNCHANGED gen_ctx

ResumeLater(g, v) ==
  /\ status' = [status EXCEPT ![g] = "RUNNING"]
  /\ in_val' = [in_val EXCEPT ![g] = v]
  /\ caller_ctx' = [caller_ctx EXCEPT ![g] = IF status[g] = "PENDING" THEN @ ELSE at]
  /\ at' = gen_ctx[g]
  /\ UNCHANGED gen_ctx

ResumeQuiet(g, v) ==
  /\ in_val' = [in_val EXCEPT ![g] = v]
  /\ caller_ctx' = [caller_ctx EXCEPT ![g] = at]
  /\ at' = gen_ctx[g]
  /\ UNCHANGED <<status, gen_ctx>>

(* run_generator: save the caller and switch to the generator. *)
run_generator(g, v) ==
  /\ status' = [status EXCEPT ![g] = "RUNNING"]
  /\ in_val' = [in_val EXCEPT ![g] = v]
  /\ caller_ctx' = [caller_ctx EXCEPT ![g] = at]
  /\ at' = gen_ctx[g]
  /\ UNCHANGED gen_ctx

(* Broken variant: the context that yields is not saved. *)
YieldUnsaved(g) ==
  /\ status[g] = "RUNNING"
  /\ status' = [status EXCEPT ![g] = "SUSPENDED"]
  /\ at' = caller_ctx[g]
  /\ strayed' = (strayed \/ g \notin Executed)
  /\ UNCHANGED <<gen_ctx, caller_ctx, in_val, state, thrown>>

(* yield_impl, up to its switch to the caller. *)
yield_impl(g) ==
  /\ status[g] = "RUNNING"
  /\ status' = [status EXCEPT ![g] = "SUSPENDED"]
  /\ gen_ctx' = [gen_ctx EXCEPT ![g] = at]
  /\ at' = caller_ctx[g]
  /\ strayed' = (strayed \/ g \notin Executed)
  /\ UNCHANGED <<caller_ctx, in_val, state, thrown>>

-----------------------------------------------------------------------------
next(g) ==
  /\ UserCode
  /\ status[g] \in {"PENDING", "SUSPENDED"}
  /\ run_generator(g, "set")
  /\ UNCHANGED <<from, state, history>>

(* The exception is rethrown by the yield the generator is suspended in. *)
_throw(g) ==
  /\ UserCode
  /\ status[g] = "SUSPENDED"
  /\ run_generator(g, "null")
  /\ from' = Abandon(gen_ctx[g])
  /\ thrown' = TRUE
  /\ UNCHANGED <<state, strayed>>

yield(g) ==
  /\ UserCode
  /\ yield_impl(g)
  /\ UNCHANGED from

(* The executor returns, or lets an exception out, which run_generator      *)
(* rethrows in the caller.  A generator that was yielded in the meantime    *)
(* has no caller: caller_ctx points into a frame that is gone.              *)
gen_wrapper(failed) ==
  /\ UserCode /\ at # Main
  /\ IF status[at] = "RUNNING"
     THEN /\ status' = [status EXCEPT ![at] = "DONE"]
          /\ at' = caller_ctx[at]
          /\ from' = IF failed THEN Abandon(caller_ctx[at]) ELSE from
          /\ UNCHANGED state
     ELSE /\ state' = "undefined"
          /\ UNCHANGED <<status, at, from>>
  /\ UNCHANGED <<gen_ctx, caller_ctx, in_val, history>>

(* yield_from is called with the context of the generator whose code runs. *)
yield_from(g) ==
  /\ UserCode /\ at # Main
  /\ from' = [from EXCEPT ![at] = [gen |-> g, phase |-> "loop"]]
  /\ UNCHANGED <<status, gen_ctx, caller_ctx, in_val, at, state, history>>

Delegating(phase) == state = "ok" /\ at # Main /\ from[at].phase = phase

Inner == from[at].gen

(* The loop ends, or gen.next throws. *)
FromEnd ==
  /\ Delegating("loop")
  /\ \/ status[Inner] = "DONE"
     \/ status[Inner] = "RUNNING" /\ status[at] = "RUNNING" /\ in_val[at] = "set"
  /\ from' = Abandon(at)
  /\ UNCHANGED <<status, gen_ctx, caller_ctx, in_val, at, state, history>>

(* *in_val is the value of the call of next that is still in progress;      *)
(* after a _throw it is null.                                               *)
FromDangling ==
  /\ Delegating("loop")
  /\ status[Inner] # "DONE"
  /\ status[at] # "RUNNING" \/ in_val[at] = "null"
  /\ state' = "undefined"
  /\ UNCHANGED <<status, gen_ctx, caller_ctx, in_val, from, at, history>>

FromNext ==
  /\ Delegating("loop")
  /\ status[at] = "RUNNING" /\ in_val[at] = "set"
  /\ status[Inner] \in {"PENDING", "SUSPENDED"}
  /\ run_generator(Inner, "set")
  /\ from' = [from EXCEPT ![at].phase = "answer"]
  /\ UNCHANGED <<state, history>>

FromYield ==
  /\ Delegating("answer")
  /\ yield_impl(at)
  /\ from' = [from EXCEPT ![at].phase = "loop"]

FromRefused ==
  /\ Delegating("answer")
  /\ status[at] # "RUNNING"
  /\ from' = Abandon(at)
  /\ UNCHANGED <<status, gen_ctx, caller_ctx, in_val, at, state, history>>

-----------------------------------------------------------------------------
YieldFrom == FromEnd \/ FromDangling \/ FromNext \/ FromYield \/ FromRefused

Next ==
  \/ \E g \in Gens : next(g) \/ _throw(g) \/ yield(g) \/ yield_from(g)
  \/ \E failed \in BOOLEAN : gen_wrapper(failed)
  \/ YieldFrom

Spec == Init /\ [][Next]_vars

-----------------------------------------------------------------------------
(* The variables hold what GenData holds, and the thread is on a stack. *)
TypeOK ==
  /\ status \in [Gens -> GenStatus]
  /\ gen_ctx \in [Gens -> Stacks]
  /\ caller_ctx \in [Gens -> Stacks \cup {Null}]
  /\ in_val \in [Gens -> {"null", "set"}]
  /\ from \in [Gens -> From \cup {NoFrom}]
  /\ at \in Stacks /\ state \in {"ok", "undefined"}
  /\ strayed \in BOOLEAN /\ thrown \in BOOLEAN

Unfinished == {s \in Stacks : s = Main \/ status[s] # "DONE"}

Live == {g \in Gens : status[g] # "DONE"}

(* The stack whose context a generator holds, in the slot its status makes  *)
(* the next switch use.                                                     *)
Slot(g) == IF status[g] = "RUNNING" THEN caller_ctx[g] ELSE gen_ctx[g]

(* Whatever generators resume, throw into and yield each other, and on      *)
(* whatever stack, no stack is lost and none can be entered twice: the      *)
(* slots are a bijection from the generators that are not DONE to the       *)
(* unfinished stacks other than the one that executes (generator.h:148-185, *)
(* 194-262).                                                                *)
OneWayBack ==
  /\ at \in Unfinished
  /\ \A g \in Live : Slot(g) \in Unfinished \ {at}
  /\ \A s \in Unfinished \ {at} : \E g \in Live : Slot(g) = s
  /\ \A g, h \in Live : Slot(g) = Slot(h) => g = h

(* The dangling caller_ctx of gen_wrapper and the null or dangling in_val   *)
(* of yield_from are not reached by code that only yields generators which  *)
(* are being executed, and throws no exception into one (generator.h:79-82, *)
(* 134-146).                                                                *)
SafeUse == state = "undefined" => strayed \/ thrown

(* What the two saved contexts implement: see Coroutines. *)
Depth == Cardinality({n \in 0 .. Cardinality(Gens) : Below(at)[n] \in Gens})

Segment(g) ==
  LET stack == Below(gen_ctx[g])
      upto  == {n \in 0 .. Cardinality(Gens) : stack[n] = g}
  IN  CASE status[g] \in {"RUNNING", "DONE"} \/ upto = {} -> <<>>
        [] status[g] = "PENDING" -> <<g>>
        [] OTHER -> LET k == CHOOSE n \in upto : \A m \in upto : n <= m
                    IN  [i \in 1 .. k + 1 |-> stack[k + 1 - i]]

StackNow == [i \in 1 .. Depth |-> Below(at)[Depth - i]]

SavedNow == [g \in Gens |-> Segment(g)]

Abused == strayed \/ state = "undefined"

Contract == INSTANCE Coroutines WITH stack <- StackNow, saved <- SavedNow, abused <- Abused

(* Generators are nested coroutines: a yield returns to the last caller of  *)
(* the generator it names and suspends all that runs on top of it, the next *)
(* call resumes exactly that, and what ends is always the innermost one.    *)
ImplementsCoroutines == Contract!Spec

=============================================================================
