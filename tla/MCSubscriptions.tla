---------------------------- MODULE MCSubscriptions ----------------------------
(* Instances of Subscriptions for TLC. *)
EXTENDS Subscriptions, TLC

\* Handlers are alike.
AnyHandler == Permutations(Handlers)

=============================================================================
