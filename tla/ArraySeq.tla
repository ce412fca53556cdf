------------------------------ MODULE ArraySeq ------------------------------
(***************************************************************************)
(* The sequence view of the arrays of src/src/array.c in which event.c and *)
(* hash.c keep their entries: an array is the sequence of its values, and  *)
(* C index i is TLA+ index i + 1.                                          *)
(***************************************************************************)
EXTENDS Integers, Sequences, FiniteSets, SequencesExt

(* Rank(K, k) is how many members of K are at most k.                      *)
Rank(K, k) == Cardinality({j \in K : j <= k})

(* The subsequence of s at the positions K, in order.  It is written with  *)
(* ranks rather than by recursion so that it can be reasoned about.        *)
KeepAt(s, K) ==
    [n \in 1..Cardinality(K) |-> s[CHOOSE k \in K : Rank(K, k) = n]]

(* What the removal loops of event.c leave of s: they call array_remove_pos*)
(* on every entry whose value is in V, and look at the same index again.   *)
RemoveAll(s, V) == KeepAt(s, {k \in DOMAIN s : s[k] \notin V})
=============================================================================
