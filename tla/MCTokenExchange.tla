--------------------------- MODULE MCTokenExchange ---------------------------
(* An instance of TokenExchange for TLC. *)
EXTENDS TokenExchange

CONSTANTS c1, c2, p1

MCCaller == {c1, c2}
MCPayload == {p1}
MCSymmetry == Permutations(MCCaller)

MCDotsIn ==
  [kid \in {"did:web:a.com#k2", "ka", "", Undefined} |->
    IF kid = "did:web:a.com#k2" THEN 1 ELSE 0]

\* Two keys of one algorithm, one that has a kid with a dot and one without a kid;
\* encrypt is what puts another algorithm on the shared map.
MCSigningKey ==
  {[id |-> 1, kid |-> "did:web:a.com#k2", alg |-> "ES256K"],
   [id |-> 2, kid |-> Undefined, alg |-> "ES256K"]}

MCReference == {"a", "b"}
MCRecipients == {<<"a", "b">>}

\* A key with a kid and one without, and an EC key that is refused.
MCNamed == [id |-> 1, kid |-> "ka", kty |-> "RSA", alg |-> "RSA-OAEP-256"]
MCUnnamed == [id |-> 2, kid |-> Undefined, kty |-> "RSA", alg |-> Undefined]
MCKey ==
  {MCNamed, MCUnnamed, [id |-> 3, kid |-> Undefined, kty |-> "EC", alg |-> Undefined]}
MCFirstKeys == {[a |-> MCUnnamed, b |-> MCNamed]}

\* No maps, or maps of the user with a kid and with an alg to fill in.
MCOptions ==
  {[protected |-> None, header |-> None],
   [protected |-> [kid |-> "ka"], header |-> [alg |-> ""]]}
=============================================================================
