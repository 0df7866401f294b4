---------------------------- MODULE KeyVaultStore ----------------------------
(***************************************************************************)
(* libs/plugin-keyvault KeyStoreKeyVault: the key store over Azure Key     *)
(* Vault, with the local key store that it fills (its "cache"), and the    *)
(* part of KeyVaultEcdsaProvider and KeyVaultRsaOaepProvider that makes a  *)
(* key in the vault and saves it in the cache.                             *)
(*                                                                         *)
(* The vault is shared with others, who publish and disable versions at    *)
(* any time.  Every answer of the vault is an action of its own; an action *)
(* of a call runs it to its next await.  A get of all versions asks for    *)
(* the list of versions and then for each version, one after the other.    *)
(*                                                                         *)
(* The LRU cache of the class is left out: get looks it up and save clears *)
(* it, but nothing ever puts a container in it.                            *)
(*                                                                         *)
(* A definition D_fault is D with a fault that the properties must notice; *)
(* no specification uses it.                                               *)
(***************************************************************************)
EXTENDS Naturals, SequencesExt, KeyContainers

CONSTANTS
  Name,         \* names of secrets and keys in the vault
  Caller,       \* asynchronous users of the key store
  Key,          \* the keys that are published
  Options,      \* the options that get is called with
  MaxVersions   \* bound on the versions of a name

ASSUME ConstantsAssumption ==
  /\ \A k \in Key : /\ {"kty", "use", "private"} \subseteq DOMAIN k
                    /\ k = [field \in DOMAIN k |-> k[field]]
                    /\ k.private
  /\ Options \subseteq [publicKeyOnly : BOOLEAN, latestVersion : BOOLEAN]
  /\ MaxVersions \in Nat

VARIABLES
  typeOf,  \* [Name -> the type of its references], which stays
  vault,   \* [Name -> the versions in the vault, oldest first]
  cache,   \* [Name -> the set of keys saved in the local key store]
  call,    \* [Caller -> where its running call is suspended]
  got      \* [Caller -> what its last call asked for, and the resulting keys, if
           \* it was a get]

vars == <<typeOf, vault, cache, call, got>>

None == [none |-> TRUE]
Idle == [pc |-> "idle"]
Suspend(c, r) == call' = [call EXCEPT ![c] = r]
Return(c) == Suspend(c, Idle)
Forget(c) == got' = [got EXCEPT ![c] = None]

Init ==
  /\ typeOf \in [Name -> {"secret", "key"}]
  /\ vault = [n \in Name |-> << >>]
  /\ cache = [n \in Name |-> {}]
  /\ call = [c \in Caller |-> Idle]
  /\ got = [c \in Caller |-> None]
-----------------------------------------------------------------------------
(* Azure Key Vault. *)

Publish(n, k) ==
  /\ Len(vault[n]) < MaxVersions
  /\ typeOf[n] = "key" => k.kty \in {"EC", "RSA"}
  /\ vault' = [vault EXCEPT ![n] = Append(@, [key |-> k, enabled |-> TRUE])]

\* Someone else rotates a secret or a key, or disables a version of it.
Rotate(n, k) ==
  /\ Publish(n, k)
  /\ UNCHANGED <<cache, call, got>>

Disable(n, i) ==
  /\ vault[n][i].enabled
  /\ vault' = [vault EXCEPT ![n][i].enabled = FALSE]
  /\ UNCHANGED <<cache, call, got>>

\* Newest first: the loop of get, which goes through the list backwards to end
\* with the newest version, relies on it.
Listing(n) == [i \in 1..Len(vault[n]) |-> Len(vault[n]) + 1 - i]

\* The vault never gives away the private part of a key.  What it gives of a
\* secret is reduced to the public key when only that is asked for.
KeyForm(n, k, publicKeyOnly) ==
  IF typeOf[n] = "key" \/ publicKeyOnly THEN PublicOf(k) ELSE k
-----------------------------------------------------------------------------
(* get. *)

\* A request: "from" is the number of versions when the call began, "signing"
\* tells the calls of SubtleCryptoExtension.signByKeyStore.
Request == [name : Name, publicKeyOnly : BOOLEAN, latestVersion : BOOLEAN,
            signing : BOOLEAN, from : 0..MaxVersions]

GetStart(c, n, options, signing) ==
  /\ call[c].pc = "idle"
  /\ Forget(c)
  /\ Suspend(c, [pc |-> IF options.latestVersion THEN "latest" ELSE "listing",
                 req |-> [name |-> n, publicKeyOnly |-> options.publicKeyOnly,
                          latestVersion |-> options.latestVersion,
                          signing |-> signing, from |-> Len(vault[n])]])
  /\ UNCHANGED <<vault, cache>>

\* new KeyStoreOptions(), which get takes when it is called without options.
DefaultOptions == [publicKeyOnly |-> TRUE, latestVersion |-> TRUE]

GetForSigning(c, n) == GetStart(c, n, DefaultOptions, TRUE)

Deliver_emptyContainer(c, container) ==
  /\ got' = [got EXCEPT ![c] = [req |-> call[c].req, keys |-> NoContainer]]
  /\ Return(c)

Deliver(c, container) ==
  /\ got' = [got EXCEPT ![c] = [req |-> call[c].req, keys |-> container]]
  /\ Return(c)

SupportedKty == AsymmetricKty \cup {"oct"}
Fits(container, k) == k.kty \in SupportedKty /\ CanAdd(container, k)

\* The vault's keys are public: they all go in the container at once, and none
\* in the cache.
BuildFromKeys(c, fetched) ==
  LET keys == [i \in DOMAIN fetched |->
                 KeyForm(call[c].req.name, Reverse(fetched)[i], TRUE)]
  IN /\ IF \A i \in DOMAIN keys : Fits(SubSeq(keys, 1, i - 1), keys[i])
        THEN Deliver(c, keys)
        ELSE Return(c) /\ UNCHANGED got
     /\ UNCHANGED cache

\* Of the secrets the last one that was fetched is added to the container and
\* saved in the cache, and the next one after an await.  A secret that does not
\* fit rejects the call, and what was saved stays.
BuildFromSecrets(c, fetched, container) ==
  LET n == call[c].req.name
      k == KeyForm(n, Last(fetched), call[c].req.publicKeyOnly)
  IN IF fetched = << >> THEN Deliver(c, container) /\ UNCHANGED cache
     ELSE /\ IF Fits(container, k)
             THEN /\ cache' = [cache EXCEPT ![n] = @ \cup {k}]
                  /\ Suspend(c, [pc |-> "building", req |-> call[c].req,
                                 fetched |-> Front(fetched),
                                 container |-> Append(container, k)])
             ELSE Return(c) /\ UNCHANGED cache
          /\ UNCHANGED got

Build_listingOrder(c, fetched) ==
  IF typeOf[call[c].req.name] = "key"
  THEN BuildFromKeys(c, Reverse(fetched))
  ELSE BuildFromSecrets(c, Reverse(fetched), NoContainer)

Build(c, fetched) ==
  IF typeOf[call[c].req.name] = "key"
  THEN BuildFromKeys(c, fetched)
  ELSE BuildFromSecrets(c, fetched, NoContainer)

LatestFetched(c) ==
  LET versions == vault[call[c].req.name] IN
  /\ call[c].pc = "latest"
  /\ versions # << >>
  /\ Last(versions).enabled
  /\ Build(c, <<Last(versions).key>>)
  /\ UNCHANGED vault

Listed(c) ==
  /\ call[c].pc = "listing"
  /\ vault[call[c].req.name] # << >>
  /\ Suspend(c, [pc |-> "fetching", req |-> call[c].req,
                 left |-> Listing(call[c].req.name), fetched |-> << >>])
  /\ UNCHANGED <<vault, cache, got>>

\* One more version has come; after the last one the container is built.
VersionFetched(c) ==
  LET version == vault[call[c].req.name][Head(call[c].left)]
      fetched == Append(call[c].fetched, version.key)
  IN
  /\ call[c].pc = "fetching"
  /\ version.enabled
  /\ IF Len(call[c].left) = 1
     THEN Build(c, fetched)
     ELSE /\ Suspend(c, [call[c] EXCEPT !.left = Tail(@), !.fetched = fetched])
          /\ UNCHANGED <<cache, got>>
  /\ UNCHANGED vault

SecretCached_hangsOnMisfit(c) ==
  /\ call[c].pc = "building"
  /\ call[c].fetched # << >> => Fits(call[c].container, Last(call[c].fetched))
  /\ BuildFromSecrets(c, call[c].fetched, call[c].container)
  /\ UNCHANGED vault

SecretCached(c) ==
  /\ call[c].pc = "building"
  /\ BuildFromSecrets(c, call[c].fetched, call[c].container)
  /\ UNCHANGED vault
-----------------------------------------------------------------------------
(* save, and generateKey of the providers. *)

SaveTo(n, k) == cache' = [cache EXCEPT ![n] = @ \cup {k}]

\* The key types that importKey and createKey accept.
VaultKty == {"EC", "RSA"}

SaveStart_cacheFirst(c, n, k) ==
  /\ call[c].pc = "idle"
  /\ Forget(c)
  /\ typeOf[n] = "key" => k.kty \in VaultKty
  /\ IF typeOf[n] = "key" THEN SaveTo(n, k) ELSE UNCHANGED cache
  /\ Suspend(c, [pc |-> "saving", name |-> n, key |-> k, keep |-> FALSE])
  /\ UNCHANGED vault

\* save of a key sends its private part, and will keep all of it in the cache;
\* a secret is not kept.
SaveStart(c, n, k) ==
  /\ call[c].pc = "idle"
  /\ Forget(c)
  /\ typeOf[n] = "key" => k.kty \in VaultKty
  /\ Suspend(c, [pc |-> "saving", name |-> n, key |-> k,
                 keep |-> typeOf[n] = "key"])
  /\ UNCHANGED <<vault, cache>>

\* A key is made in the vault; what comes back and is kept is public.
GenerateStart(c, n, k) ==
  /\ call[c].pc = "idle"
  /\ Forget(c)
  /\ typeOf[n] = "key"
  /\ k.kty \in VaultKty
  /\ Suspend(c, [pc |-> "saving", name |-> n, key |-> PublicOf(k), keep |-> TRUE])
  /\ UNCHANGED <<vault, cache>>

\* The vault has done it, and the answer is on its way.
Published(c) ==
  /\ call[c].pc = "saving"
  /\ Publish(call[c].name, call[c].key)
  /\ Suspend(c, [call[c] EXCEPT !.pc = "published"])
  /\ UNCHANGED <<cache, got>>

SaveResolved(c) ==
  /\ call[c].pc = "published"
  /\ IF call[c].keep THEN SaveTo(call[c].name, call[c].key) ELSE UNCHANGED cache
  /\ Return(c)
  /\ UNCHANGED <<vault, got>>
-----------------------------------------------------------------------------
\* There is nothing under the name, a version is disabled, or the vault or the
\* network fails, be it after the vault has done what it was asked for.
Rejected(c) ==
  /\ call[c].pc \in {"latest", "listing", "fetching", "saving", "published"}
  /\ Return(c)
  /\ UNCHANGED <<vault, cache, got>>

Continue(c) ==
  \/ LatestFetched(c)
  \/ Listed(c)
  \/ VersionFetched(c)
  \/ SecretCached(c)
  \/ Published(c)
  \/ SaveResolved(c)
  \/ Rejected(c)

Next ==
  /\ UNCHANGED typeOf
  /\ \/ \E n \in Name :
          \/ \E k \in Key : Rotate(n, k)
          \/ \E i \in 1..Len(vault[n]) : Disable(n, i)
     \/ \E c \in Caller :
          \/ \E n \in Name, options \in Options : GetStart(c, n, options, FALSE)
          \/ \E n \in Name : GetForSigning(c, n)
          \/ \E n \in Name, k \in Key : SaveStart(c, n, k) \/ GenerateStart(c, n, k)
          \/ Continue(c)

Spec == Init /\ [][Next]_vars

\* The vault answers or fails every request.
FairSpec == Spec /\ \A c \in Caller : WF_vars(UNCHANGED typeOf /\ Continue(c))
-----------------------------------------------------------------------------
AnyKey == Key \cup {PublicOf(k) : k \in Key}

Call ==
  {Idle}
    \cup [pc : {"latest", "listing"}, req : Request]
    \cup [pc : {"fetching"}, req : Request, left : Seq(1..MaxVersions),
          fetched : Seq(AnyKey)]
    \cup [pc : {"building"}, req : Request, fetched : Seq(AnyKey),
          container : Seq(AnyKey)]
    \cup [pc : {"saving", "published"}, name : Name, key : AnyKey, keep : BOOLEAN]

\* Every variable has its type; a get never resolves to an empty container.
TypeOK ==
  /\ typeOf \in [Name -> {"secret", "key"}]
  /\ vault \in [Name -> Seq([key : AnyKey, enabled : BOOLEAN])]
  /\ cache \in [Name -> SUBSET AnyKey]
  /\ call \in [Caller -> Call]
  /\ got \in [Caller -> {None} \cup [req : Request, keys : Seq(AnyKey) \ {<< >>}]]

\* What get resolves to are the versions of the vault in their order, all of
\* them or one, and the last, which getKey returns, was the newest version at
\* some moment of the call, although versions come and go while they are
\* fetched one by one.
NewestVersionIsLast ==
  \A c \in Caller : got[c] # None =>
    LET req == got[c].req
        keys == got[c].keys
        versions == vault[req.name]
        oldest(newest) == IF req.latestVersion THEN newest ELSE 1
    IN \E newest \in 1..Len(versions) :
         /\ newest >= req.from
         /\ Len(keys) = newest + 1 - oldest(newest)
         /\ \A i \in DOMAIN keys :
              keys[i] = KeyForm(req.name, versions[oldest(newest) + i - 1].key,
                                req.publicKeyOnly)

\* Whatever fails half-way, the local key store only has keys, or public parts
\* of keys, that the vault has under the same name.
CacheComesFromVault ==
  \A n \in Name : \A k \in cache[n] : \E i \in 1..Len(vault[n]) :
    k \in {vault[n][i].key, PublicOf(vault[n][i].key)}

\* KeyContainer: "Each key in the key container is the same type and usage".
\* The vault may hold versions of several types; a get of all of them is
\* rejected instead of mixing them.
ContainersHaveOneType ==
  \A c \in Caller : got[c] # None =>
    \A i, j \in DOMAIN got[c].keys : got[c].keys[i].kty = got[c].keys[j].kty

\* Every call returns or is rejected.
EveryCallReturns ==
  \A c \in Caller : call[c].pc # "idle" ~> call[c].pc = "idle"
-----------------------------------------------------------------------------
(* What a comment in the code says and the code does not keep. *)

\* signByKeyStore: "Sign with a key referenced in the key store", for which it
\* takes the private key from the container of a secret.
SigningKeyIsPrivate ==
  \A c \in Caller :
    got[c] # None /\ got[c].req.signing /\ typeOf[got[c].req.name] = "secret"
      => GetKey(got[c].keys).private
=============================================================================
