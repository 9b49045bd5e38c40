----------------------------- MODULE MCPromise -----------------------------
(* Small instances of Promise for TLC. *)
EXTENDS PromiseInv, TLC

CONSTANTS e1, e2

(* Handlers that take std::exception_ptr catch everything ... *)
CatchAll == {Errors}

(* ... and a handler of one error type catches only that type. *)
CatchTyped == {Errors, {e1}}

Symmetry == Permutations(Promises \ VoidPromises)

=============================================================================
