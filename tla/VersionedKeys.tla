--------------------------- MODULE VersionedKeys ---------------------------
(***************************************************************************)
(* What every key store of the SDK promises: under a name it keeps the     *)
(* versions of a key in the order in which they were saved, and it never   *)
(* drops, replaces or reorders one.                                        *)
(***************************************************************************)
EXTENDS Sequences

CONSTANTS Name,   \* the names keys are kept under
          Key     \* the keys

VARIABLE versions

Init == versions = [n \in Name |-> << >>]

Publish(n, k) == versions' = [versions EXCEPT ![n] = Append(@, k)]

Next == \E n \in Name, k \in Key : Publish(n, k)

Spec == Init /\ [][Next]_versions
=============================================================================
