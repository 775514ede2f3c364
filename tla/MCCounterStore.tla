--------------------------- MODULE MCCounterStore ---------------------------
(* CounterStore for TLC.                                                   *)
EXTENDS CounterStore

\* A damaged frame shows cleared counters or large ones.
ZeroOrLarge == {[p \in Port |-> 0], [p \in Port |-> HalfRange - 1]}

\* Behind a cause both action properties hold of every step, so nothing is lost
\* by looking no further.
NoCause == causes = {}
=============================================================================
