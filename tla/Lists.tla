------------------------------- MODULE Lists --------------------------------
(***************************************************************************)
(* A kernel list that is walked with list_for_each_entry_safe while some   *)
(* of its entries are taken off: the queues of both ports of a channel.    *)
(***************************************************************************)
EXTENDS Naturals, Sequences, FiniteSets

\* The n-th smallest of a finite set of numbers.
Rank(K, i) == Cardinality({j \in K : j <= i})
Nth(K, n) == CHOOSE i \in K : Rank(K, i) = n

\* What is left of list s when only the entries in T stay, in their order.
Places(s, T) == {i \in DOMAIN s : s[i] \in T}
Keep(s, T) == LET K == Places(s, T)
              IN  [n \in 1 .. Cardinality(K) |-> s[Nth(K, n)]]
=============================================================================
