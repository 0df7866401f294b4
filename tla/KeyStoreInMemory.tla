-------------------------- MODULE KeyStoreInMemory --------------------------
(***************************************************************************)
(* libs/keyStore KeyStoreInMemory and the containers its clients hold.     *)
(*                                                                         *)
(* get(name) without publicKeyOnly hands out the container OBJECT that     *)
(* the map holds: what other clients save or add later shows through it.   *)
(* get(name, publicKeyOnly) hands out a deep clone reduced to public keys. *)
(***************************************************************************)
EXTENDS KeyContainers, SequencesExt

CONSTANTS Name,      \* names of key references
          Client,    \* asynchronous users of the key store
          Key,       \* the keys a client may save
          MaxKeys    \* bound on the length of a container

ASSUME KeyAssumption ==
  /\ MaxKeys \in Nat \ {0}
  /\ \A k \in Key : /\ {"kty", "private"} \subseteq DOMAIN k
                    /\ k = [field \in DOMAIN k |-> k[field]]
                    /\ k.kty \in AsymmetricKty \cup {"oct"}
                    /\ k.private \in BOOLEAN

VARIABLES store,   \* [Name -> container]
          held     \* [Client -> what its last get resolved to]

vars == <<store, held>>

\* A client holds nothing, the live container of a name, or a clone.  "taken"
\* is the part of a clone that came from the store, the rest was added to it.
Nothing == [kind |-> "nothing"]
Live(n) == [kind |-> "live", name |-> n]
Clone(n, keys) ==
  [kind |-> "clone", name |-> n, keys |-> keys, taken |-> Len(keys)]

View(c) == IF held[c].kind = "live" THEN store[held[c].name] ELSE held[c].keys

Init == /\ store = [n \in Name |-> NoContainer]
        /\ held = [c \in Client |-> Nothing]

SaveTo_front(n, k) == store' = [store EXCEPT ![n] = <<k>> \o @]
SaveTo_overwrite(n, k) == store' = [store EXCEPT ![n] = <<k>>]
SaveTo_publicPart(n, k) ==
  store' = [store EXCEPT ![n] = Append(@, PublicOf(k))]

\* save pushes on the container's key list; it does not go through add, so
\* neither the type nor the usage of the key is looked at.  A string payload
\* arrives here as the "oct" key that save wraps around it.
SaveTo(n, k) == store' = [store EXCEPT ![n] = Append(@, k)]

Save(n, k) ==
  /\ Len(store[n]) < MaxKeys
  /\ SaveTo(n, k)
  /\ UNCHANGED held

GetPrivate(c, n) ==
  /\ store[n] # NoContainer
  /\ held' = [held EXCEPT ![c] = Live(n)]
  /\ UNCHANGED store

GetPublic(c, n) ==
  /\ HasPublicKeys(store[n])
  /\ held' = [held EXCEPT ![c] = Clone(n, PublicKeysOnly(store[n]))]
  /\ UNCHANGED store

\* The get promise is rejected: the name is unknown, or a public key is asked
\* of a container whose first key is a secret.
GetRejected(c, n, publicKeyOnly) ==
  /\ \/ store[n] = NoContainer
     \/ publicKeyOnly /\ ~HasPublicKeys(store[n])
  /\ held' = [held EXCEPT ![c] = Nothing]
  /\ UNCHANGED store

\* A client calls add on the container it holds.
Add(c, k) ==
  /\ held[c].kind # "nothing"
  /\ Len(View(c)) < MaxKeys
  /\ CanAdd(View(c), k)
  /\ IF held[c].kind = "live"
     THEN SaveTo(held[c].name, k) /\ UNCHANGED held
     ELSE /\ held' = [held EXCEPT ![c].keys = Append(@, k)]
          /\ UNCHANGED store

Next ==
  \/ \E n \in Name, k \in Key : Save(n, k)
  \/ \E c \in Client, n \in Name : GetPrivate(c, n) \/ GetPublic(c, n)
  \/ \E c \in Client, n \in Name, p \in BOOLEAN : GetRejected(c, n, p)
  \/ \E c \in Client, k \in Key : Add(c, k)

Spec == Init /\ [][Next]_vars
-----------------------------------------------------------------------------
Holding ==
  {Nothing}
    \cup [kind : {"live"}, name : Name]
    \cup [kind : {"clone"}, name : Name, keys : Seq(Key \cup {PublicOf(k) : k \in Key}),
          taken : Nat]

\* Every variable has its type.
TypeOK == /\ store \in [Name -> Seq(Key)]
          /\ held \in [Client -> Holding]

\* A public-only container is an honest old view of the store: as long as it
\* is held, what was taken from the store is the public form of the oldest
\* keys under that name, whatever the other clients save or add meanwhile.
PublicViewIsPrefix ==
  \A c \in Client : held[c].kind = "clone" =>
    IsPrefix(SubSeq(held[c].keys, 1, held[c].taken),
             PublicKeysOnly(store[held[c].name]))

\* publicKeyOnly hides every private EC, OKP or RSA key of a container with
\* several versions, not only the newest one.
PublicViewHidesPrivateKeys ==
  \A c \in Client : held[c].kind = "clone" =>
    \A i \in 1..held[c].taken :
      held[c].keys[i].kty \in AsymmetricKty => ~held[c].keys[i].private

\* The in-memory store keeps the versions of a key as VersionedKeys promises,
\* although clients can also add through the live container they hold.
Versioned == INSTANCE VersionedKeys WITH versions <- store
ImplementsVersionedKeys == Versioned!Spec
=============================================================================
