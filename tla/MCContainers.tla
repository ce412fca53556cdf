---------------------------- MODULE MCContainers ----------------------------
(* A small instance of Array and one of Mutator for TLC, in one run.  They *)
(* share no state, so a behaviour uses the one or the other: a step of     *)
(* either is taken while the other is as it was at first.                  *)
EXTENDS Array, Mutator, TLC

CONSTANTS a, b, c

(* Values of one to three bytes.                                           *)
SomeData ==
    (1 :> {<<1>>}) @@ (2 :> {<<0, 1>>}) @@ (3 :> {<<0, 0, 1>>})

(* Two of the names have the same hash.                                    *)
Hashes == (a :> 1) @@ (b :> 1) @@ (c :> 2)

ContainersInit == Init /\ MutatorInit

ContainersNext ==
    \/ MutatorInit /\ Next /\ UNCHANGED mutatorVars
    \/ Init /\ MutatorNext /\ UNCHANGED vars

ContainersSpec == ContainersInit /\ [][ContainersNext]_<<vars, mutatorVars>>

Symmetry == Permutations(Arrays) \cup Permutations(Addrs) \cup Permutations(Values)
=============================================================================
