--------------------------- MODULE MCEventMixin ---------------------------
(* Small instances of EventMixin for TLC. *)
EXTENDS EventMixin, TLC

Symmetry == Permutations(Events)

=============================================================================
