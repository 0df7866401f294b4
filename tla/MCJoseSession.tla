--------------------------- MODULE MCJoseSession ---------------------------
(* Instances of JoseSession for TLC. *)
EXTENDS JoseSession, TLC

CONSTANTS c1, c2, p1, p2

MCCaller == {c1, c2}
MCPayload == {p1, p2}
MCSymmetry == Permutations(MCCaller)

\* A credential under another one's proof, and one without a proof.
MCForeignSwapped ==
  {[ld |-> TRUE, json |-> TRUE, content |-> [payload |-> p2, id |-> 1],
    sig |-> [payload |-> p1, id |-> 1]],
   [ld |-> TRUE, json |-> TRUE, content |-> [payload |-> p1, id |-> 0],
    sig |-> None]}

\* A JWS with other claims than were signed, and a credential whose proof has
\* no signature.
MCForeignMixed ==
  {[ld |-> FALSE, json |-> FALSE, content |-> [payload |-> p1, id |-> 2],
    sig |-> [payload |-> p1, id |-> 1]],
   [ld |-> TRUE, json |-> TRUE, content |-> [payload |-> p1, id |-> 1],
    sig |-> None]}

MCNoForeign == {}
=============================================================================
