-------------------------- MODULE MCSubscriptions --------------------------
(* Instances of Subscriptions for TLC. *)
EXTENDS Subscriptions, TLC

CONSTANT c1

\* One body that only sets the configuration, so that a lost update shows, and
\* one that sets a status neither suspend nor resume accepts.
MCBodies ==
  {[status |-> Absent, config |-> c1], [status |-> "revoked", config |-> Absent]}

Symmetry == Permutations(Requests)

=============================================================================
