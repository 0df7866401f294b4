--------------------------- MODULE KeyContainers ---------------------------
(***************************************************************************)
(* The key container of libs/keys and the view of it that a key store      *)
(* hands out.  A container is the sequence of the keys that were put in    *)
(* it, oldest first; a key is a record with at least                       *)
(*   kty     - "EC", "OKP", "RSA" or "oct",                                *)
(*   use     - what the key is for,                                        *)
(*   private - TRUE when the private or secret part is present.            *)
(*                                                                         *)
(* Here and in the other modules a definition D_fault is D with a fault    *)
(* that the properties must notice; no specification uses it.              *)
(***************************************************************************)
EXTENDS Naturals, Sequences

AsymmetricKty == {"EC", "OKP", "RSA"}

\* A key store has no entry under a name exactly when its container is empty:
\* a KeyContainer is built around a first key and never loses one.
NoContainer == << >>

\* kty and use of a container are those of its first key.
Kty(container) == container[1].kty
Use(container) == container[1].use

GetKey_oldest(container) == container[1]

\* getKey: the newest key.
GetKey(container) == container[Len(container)]

CanAdd_unchecked(container, key) == TRUE

\* add refuses a key of another type or usage than the first key's.
CanAdd(container, key) ==
  container # NoContainer => /\ key.kty = Kty(container)
                             /\ key.use = Use(container)

PublicOf_unchanged(key) == key

\* EcPublicKey and RsaPublicKey copy only the public members.  A key of any
\* other type falls through the switch and is left as it is.
PublicOf(key) ==
  IF key.kty \in AsymmetricKty THEN [key EXCEPT !.private = FALSE] ELSE key

PublicKeysOnly_newestOnly(container) ==
  [i \in DOMAIN container |->
     IF i = Len(container) THEN PublicOf(container[i]) ELSE container[i]]
PublicKeysOnly(container) ==
  [i \in DOMAIN container |-> PublicOf(container[i])]

\* get(.., publicKeyOnly) rejects when the container's type has no public key.
HasPublicKeys(container) ==
  /\ container # NoContainer
  /\ Kty(container) \in AsymmetricKty
=============================================================================
