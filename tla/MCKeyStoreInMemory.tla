------------------------- MODULE MCKeyStoreInMemory -------------------------
(* An instance of KeyStoreInMemory for TLC. *)
EXTENDS KeyStoreInMemory, TLC

CONSTANTS n1, n2, c1, c2

MCName == {n1, n2}
MCClient == {c1, c2}

\* Two EC keys, an RSA key for another use, and a secret saved as a string.
MCKey ==
  {[id |-> i, kty |-> "EC", use |-> "sig", private |-> TRUE] : i \in 1..2}
    \cup {[id |-> 3, kty |-> "RSA", use |-> "enc", private |-> TRUE],
          [id |-> 4, kty |-> "oct", use |-> "enc", private |-> TRUE]}

MCSymmetry == Permutations(MCName) \cup Permutations(MCClient)
=============================================================================
