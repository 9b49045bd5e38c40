---------------------------- MODULE Coroutines ----------------------------
(***************************************************************************)
(* What libasync's generators promise: coroutines that run nested in one   *)
(* another.  Suspending one takes it off the stack together with all that  *)
(* runs on top of it; resuming it puts the same coroutines back, on top of *)
(* whoever resumes it.  Suspending one that is not on the stack is abuse,  *)
(* after which nothing is promised.                                        *)
(***************************************************************************)
EXTENDS Naturals, Sequences

CONSTANT Gens

VARIABLES
  stack,   \* the coroutines being executed, the innermost last
  saved,   \* for each coroutine that can be resumed, what goes on then
  abused

vars == <<stack, saved, abused>>

Init ==
  /\ stack = <<>>
  /\ saved = [g \in Gens |-> <<g>>]
  /\ abused = FALSE

Resume(g) ==
  /\ saved[g] # <<>>
  /\ stack' = stack \o saved[g]
  /\ saved' = [saved EXCEPT ![g] = <<>>]

Suspend(i) ==
  /\ saved' = [saved EXCEPT ![stack[i]] = SubSeq(stack, i, Len(stack))]
  /\ stack' = SubSeq(stack, 1, i - 1)

Finish ==
  /\ stack # <<>>
  /\ stack' = SubSeq(stack, 1, Len(stack) - 1)
  /\ UNCHANGED saved

Next ==
  \/ /\ ~abused'
     /\ \/ \E g \in Gens : Resume(g)
        \/ \E i \in 1 .. Len(stack) : Suspend(i)
        \/ Finish
  \/ abused'

Spec == Init /\ [][Next]_vars

=============================================================================
