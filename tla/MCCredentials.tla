---------------------------- MODULE MCCredentials ----------------------------
(* Credentials for TLC: the keys and the operation slots are symmetric.     *)
EXTENDS Credentials, TLC

Symmetry == Permutations(Keys) \cup Permutations(Ops)

MCMints == {[aws |-> TRUE, group |-> TRUE], [aws |-> FALSE, group |-> FALSE]}

\* A key is frozen, released and bound to the group, or taken out of it.
MCPatches == {[enabled |-> FALSE, group |-> None], [enabled |-> TRUE, group |-> TRUE],
              [enabled |-> None, group |-> FALSE]}

MCTags == {None, [enabled |-> TRUE, group |-> TRUE]}
=============================================================================
