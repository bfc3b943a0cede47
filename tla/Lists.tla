--------------------------------- MODULE Lists ---------------------------------
(***************************************************************************)
(* Sorting and filtering, as the pollers, the rules and the gates do it.   *)
(* Both are stated by positions and not by SortSeq and SelectSeq, of which *)
(* nothing can be proved; SequenceLemmas proves what is needed of these.   *)
(***************************************************************************)
EXTENDS Naturals, Sequences, FiniteSets

(* n comes before m: by its key, and of equals the smaller one first.      *)
Sooner(key, n, m) == key[n] < key[m] \/ (key[n] = key[m] /\ n < m)

(* The members of a finite set of numbers, by their keys. *)
Sorted(S, key) ==
    [k \in 1 .. Cardinality(S) |->
        CHOOSE m \in S : Cardinality({n \in S : Sooner(key, n, m)}) = k - 1]

Ascending(S) == Sorted(S, [m \in S |-> m])

(* The entries of a sequence that lie in S, in their order. *)
Keep(s, S) ==
    LET at == Ascending({k \in DOMAIN s : s[k] \in S})
    IN  [k \in DOMAIN at |-> s[at[k]]]
=============================================================================
