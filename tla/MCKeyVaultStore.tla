--------------------------- MODULE MCKeyVaultStore ---------------------------
(* Instances of KeyVaultStore for TLC. *)
EXTENDS KeyVaultStore, TLC

CONSTANTS c1, c2

MCOneCaller == {c1}
MCCaller == {c1, c2}
MCSymmetry == Permutations(MCCaller)

MCName == {"n"}

MCEc(i) == [id |-> i, kty |-> "EC", use |-> "sig", private |-> TRUE]
MCRsa(i) == [id |-> i, kty |-> "RSA", use |-> "sig", private |-> TRUE]

\* Two keys of one type and one of another.
MCKeys == {MCEc(1), MCEc(2), MCRsa(3)}

\* And a secret of no known type.
MCSecrets ==
  MCKeys \cup {[id |-> 4, kty |-> "unknown", use |-> "sig", private |-> TRUE]}

\* What the callers in the SDK ask for: the newest public key, or all versions
\* with their private parts.
MCOptions ==
  {[publicKeyOnly |-> b, latestVersion |-> b] : b \in BOOLEAN}
=============================================================================
