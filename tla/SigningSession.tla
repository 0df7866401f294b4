--------------------------- MODULE SigningSession ---------------------------
(***************************************************************************)
(* One Crypto object of libs/sdk, its CryptoBuilder and its in-memory key  *)
(* store, used by several asynchronous callers on one JavaScript thread.   *)
(*                                                                         *)
(*   - Crypto.generateKey makes a key, remembers it on the key reference   *)
(*     (KeyReference.cryptoKey), exports it and saves it in the store;     *)
(*   - JwsToken.sign takes the header from the newest key in the store and *)
(*     the signature, through SubtleCryptoExtension.signByKeyStore, from   *)
(*     KeyReference.cryptoKey or else from the store a second time;        *)
(*   - Jose.verify checks against the newest key in the store.             *)
(*                                                                         *)
(* An action of a call runs it to its next await.  Between two actions of  *)
(* a call the other callers run, so a signature may use another key than   *)
(* its header names and than the verifier looks up.                        *)
(*                                                                         *)
(* A definition D_fault is D with a fault that the properties must notice; *)
(* no specification uses it.                                               *)
(***************************************************************************)
EXTENDS Integers, KeyContainers

CONSTANTS
  Caller,        \* asynchronous users of the Crypto object
  Alg,           \* JWA signing algorithms
  KtyOf,         \* [Alg -> the key type of the algorithm]
  KeyUsage,      \* the references in use, among "signing", "recovery", "update"
  Explicit,      \* those set with use..KeyReference on the builder
  Name,          \* key names
  ExplicitName,  \* [Explicit -> Name]
  ExplicitType,  \* [Explicit -> {"secret", "key"}]
  DefaultName,   \* [KeyUsage \X Alg -> Name], `${usage}-${algorithm}`
  MaxKeys        \* bound on the number of generateKey calls

ASSUME ConstantsAssumption ==
  /\ KtyOf \in [Alg -> AsymmetricKty]
  /\ "signing" \in KeyUsage
  /\ Explicit \subseteq KeyUsage
  /\ ExplicitName \in [Explicit -> Name]
  /\ ExplicitType \in [Explicit -> {"secret", "key"}]
  /\ DefaultName \in [KeyUsage \X Alg -> Name]
  /\ \A x, y \in KeyUsage \X Alg : DefaultName[x] = DefaultName[y] => x = y
  /\ MaxKeys \in Nat

VARIABLES
  store,       \* [Name -> container], the in-memory key store
  cryptoKey,   \* [Explicit -> KeyReference.cryptoKey]
  signingKey,  \* Crypto.signingKey and the usage it was generated for
  algorithm,   \* [KeyUsage -> the builder's algorithm]
  call,        \* [Caller -> where its running call is suspended]
  token,       \* [Caller -> the last token it obtained from sign]
  verdict,     \* [Caller -> the last outcome of its verify]
  minted,      \* history: the number of keys asked for, the next key's id
  begun,       \* history: [Name -> generateKey calls begun for that name]
  disturbed    \* history: [Name -> whether a generateKey call for that name
               \*   overlapped another, shared it with another reference, or
               \*   failed, and none has run alone and saved its key since]

history == <<minted, begun, disturbed>>
vars == <<store, cryptoKey, signingKey, algorithm, call, token, verdict, history>>

Key == [id : 0..MaxKeys-1, kty : AsymmetricKty, use : {"sig"}, alg : Alg,
        private : BOOLEAN]
None == [none |-> TRUE]
Idle == [pc |-> "idle"]

Suspend(c, r) == call' = [call EXCEPT ![c] = r]
Return(c) == Suspend(c, Idle)

Init ==
  /\ store = [n \in Name |-> NoContainer]
  /\ cryptoKey = [u \in Explicit |-> None]
  /\ signingKey = None
  /\ algorithm \in [KeyUsage -> Alg]
  /\ call = [c \in Caller |-> Idle]
  /\ token = [c \in Caller |-> None]
  /\ verdict = [c \in Caller |-> None]
  /\ minted = 0
  /\ begun = [n \in Name |-> 0]
  /\ disturbed = [n \in Name |-> FALSE]
-----------------------------------------------------------------------------
(* CryptoBuilder. *)

NameOf(u) ==
  IF u \in Explicit THEN ExplicitName[u] ELSE DefaultName[<<u, algorithm[u]>>]

\* Without an explicit reference the getter builds a new KeyReference at every
\* use, and what is remembered on it is lost.
CryptoKeyOf(u) == IF u \in Explicit THEN cryptoKey[u] ELSE None

\* Consulted for the keys of every usage.
SigningKeyIsExtractable ==
  "signing" \in Explicit => ExplicitType["signing"] = "secret"

\* useSigningAlgorithm, useRecoveryAlgorithm, useUpdateAlgorithm.
UseAlgorithm(u, a) ==
  /\ algorithm' = [algorithm EXCEPT ![u] = a]
  /\ UNCHANGED <<store, cryptoKey, signingKey, call, token, verdict, history>>
-----------------------------------------------------------------------------
(* The key store. *)

SaveTo(n, k) == store' = [store EXCEPT ![n] = Append(@, k)]

\* get(.., publicKeyOnly) and then getKey on the clone it resolves to.
NewestPublicKey_oldest(n) == PublicKeysOnly(store[n])[1]
NewestPublicKey(n) == GetKey(PublicKeysOnly(store[n]))
-----------------------------------------------------------------------------
(* When the keys of a name are at rest: no generateKey call is running for   *)
(* it, and the key that the signing reference remembers is the newest saved. *)

Generating(c, n) ==
  call[c].pc \in {"generating", "exporting"} /\ call[c].name = n

Settled(n) ==
  /\ \A c \in Caller : ~Generating(c, n)
  /\ CryptoKeyOf("signing") \in {None, GetKey(store[n])}

\* Read at the start of a sign or a verify: equal to begun[n] later on only if
\* n was settled and no generateKey call has begun for it since.
Epoch(n) == IF Settled(n) THEN begun[n] ELSE -1
-----------------------------------------------------------------------------
(* Crypto.generateKey. *)

\* No other generateKey call is running for the name that u uses, and no other
\* reference has it.
Alone(u) ==
  /\ \A d \in Caller : ~Generating(d, NameOf(u))
  /\ \A v \in Explicit \ {u} : ExplicitName[v] # NameOf(u)

\* The reference and the algorithm are read before the first await.  "turn" is
\* equal to begun[n] later on only if the call was alone when it began and none
\* has begun for n since.
GenerateStart(c, u) ==
  LET n == NameOf(u)
      k == [id |-> minted, kty |-> KtyOf[algorithm[u]], use |-> "sig",
            alg |-> algorithm[u], private |-> TRUE]
  IN
  /\ call[c].pc = "idle"
  /\ minted < MaxKeys
  /\ Suspend(c, [pc |-> "generating", usage |-> u, name |-> n, key |-> k,
                 extractable |-> SigningKeyIsExtractable,
                 turn |-> IF Alone(u) THEN begun[n] + 1 ELSE -1])
  /\ minted' = minted + 1
  /\ begun' = [begun EXCEPT ![n] = @ + 1]
  /\ disturbed' = [disturbed EXCEPT ![n] = @ \/ ~Alone(u)]
  /\ UNCHANGED <<store, cryptoKey, signingKey, algorithm, token, verdict>>

GenerateResolved_lateAlgorithm(c) ==
  LET a == algorithm[call[c].usage]
      k == [call[c].key EXCEPT !.alg = a, !.kty = KtyOf[a]]
  IN
  /\ call[c].pc = "generating"
  /\ signingKey' = [usage |-> call[c].usage, key |-> k]
  /\ cryptoKey' = [u \in Explicit |->
                     IF u = call[c].usage THEN k ELSE cryptoKey[u]]
  /\ Suspend(c, [call[c] EXCEPT !.pc = "exporting", !.key = k])
  /\ UNCHANGED <<store, algorithm, token, verdict, history>>

\* The key pair exists: it is remembered on the Crypto object and on the
\* reference, and its export is requested.
GenerateResolved(c) ==
  /\ call[c].pc = "generating"
  /\ signingKey' = [usage |-> call[c].usage, key |-> call[c].key]
  /\ cryptoKey' = [u \in Explicit |->
                     IF u = call[c].usage THEN call[c].key ELSE cryptoKey[u]]
  /\ Suspend(c, [call[c] EXCEPT !.pc = "exporting"])
  /\ UNCHANGED <<store, algorithm, token, verdict, history>>

\* The JWK is there: save appends it to the container before save returns its
\* promise, and nothing but the return of the call is left.
ExportResolved(c) ==
  /\ call[c].pc = "exporting"
  /\ call[c].extractable
  /\ SaveTo(call[c].name, call[c].key)
  /\ disturbed' = [n \in Name |-> /\ disturbed[n]
                                  /\ call[c].name = n => call[c].turn # begun[n]]
  /\ Return(c)
  /\ UNCHANGED <<cryptoKey, signingKey, algorithm, token, verdict, minted, begun>>
-----------------------------------------------------------------------------
(* JwsToken.sign with the signing reference. *)

\* The first read of the key store, for the header.  When it is rejected so is
\* the call, and nothing has changed.
SignStart(c) ==
  LET n == NameOf("signing") IN
  /\ call[c].pc = "idle"
  /\ HasPublicKeys(store[n])
  /\ Suspend(c, [pc |-> "header", name |-> n, epoch |-> Epoch(n),
                 jwk |-> NewestPublicKey(n)])
  /\ UNCHANGED <<store, cryptoKey, signingKey, algorithm, token, verdict, history>>

\* The algorithm comes from the header key: a provider refuses a signing key
\* of another algorithm, and the call is rejected.
SignWith(c, k) ==
  IF k.alg = call[c].jwk.alg
  THEN Suspend(c, [pc |-> "signing", name |-> call[c].name,
                   epoch |-> call[c].epoch, jwk |-> call[c].jwk, key |-> k])
  ELSE Return(c)

SignPickKey_rememberedOnly(c) ==
  /\ call[c].pc = "header"
  /\ CryptoKeyOf("signing") # None
  /\ SignWith(c, CryptoKeyOf("signing"))
  /\ UNCHANGED <<store, cryptoKey, signingKey, algorithm, token, verdict, history>>

\* The headers are complete and signByKeyStore picks its key: the one on the
\* reference, or else the live container of the store, of which the newest key
\* is taken only after another await.
SignPickKey(c) ==
  /\ call[c].pc = "header"
  /\ IF CryptoKeyOf("signing") # None
     THEN SignWith(c, CryptoKeyOf("signing"))
     ELSE Suspend(c, [call[c] EXCEPT !.pc = "container"])
  /\ UNCHANGED <<store, cryptoKey, signingKey, algorithm, token, verdict, history>>

SignReadContainer(c) ==
  /\ call[c].pc = "container"
  /\ SignWith(c, GetKey(store[call[c].name]))
  /\ UNCHANGED <<store, cryptoKey, signingKey, algorithm, token, verdict, history>>

SignResolved(c) ==
  /\ call[c].pc = "signing"
  /\ token' = [token EXCEPT ![c] =
                 [name |-> call[c].name, epoch |-> call[c].epoch,
                  jwk |-> call[c].jwk, key |-> call[c].key]]
  /\ Return(c)
  /\ UNCHANGED <<store, cryptoKey, signingKey, algorithm, verdict, history>>
-----------------------------------------------------------------------------
(* Jose.verify without validation keys. *)

VerifyStart(c) ==
  LET n == NameOf("signing") IN
  /\ call[c].pc = "idle"
  /\ HasPublicKeys(store[n])
  /\ Suspend(c, [pc |-> "verifying", name |-> n, epoch |-> Epoch(n),
                 jwk |-> NewestPublicKey(n)])
  /\ UNCHANGED <<store, cryptoKey, signingKey, algorithm, token, verdict, history>>

\* The signature checks out when the validation key belongs to the signing key
\* and the algorithm in the header is that key's.
Verifies(t, jwk) == t.jwk.alg = jwk.alg /\ PublicOf(t.key) = jwk

\* "quiet" remembers that sign and verify used one name, that it was settled
\* when each began, and that no generateKey call began for it since.
VerifyResolved(c, d) ==
  LET t == token[d]
      n == call[c].name
  IN
  /\ call[c].pc = "verifying"
  /\ t # None
  /\ verdict' = [verdict EXCEPT ![c] =
                   [ok |-> Verifies(t, call[c].jwk),
                    quiet |-> /\ t.name = n
                              /\ t.epoch = begun[n]
                              /\ call[c].epoch = begun[n]]]
  /\ Return(c)
  /\ UNCHANGED <<store, cryptoKey, signingKey, algorithm, token, history>>
-----------------------------------------------------------------------------
\* A WebCrypto promise is rejected, or verify has no token: the call is.  What
\* generateKey remembered before its export failed stays remembered.
Rejected(c) ==
  /\ call[c].pc \in {"generating", "exporting", "signing", "verifying"}
  /\ disturbed' = [n \in Name |-> \/ disturbed[n]
                                  \/ call[c].pc = "exporting" /\ call[c].name = n]
  /\ Return(c)
  /\ UNCHANGED <<store, cryptoKey, signingKey, algorithm, token, verdict,
                 minted, begun>>

Continue(c) ==
  \/ GenerateResolved(c)
  \/ ExportResolved(c)
  \/ SignPickKey(c)
  \/ SignReadContainer(c)
  \/ SignResolved(c)
  \/ \E d \in Caller : VerifyResolved(c, d)
  \/ Rejected(c)

Next ==
  \/ \E u \in KeyUsage, a \in Alg : UseAlgorithm(u, a)
  \/ \E c \in Caller :
       \/ \E u \in KeyUsage : GenerateStart(c, u)
       \/ SignStart(c)
       \/ VerifyStart(c)
       \/ Continue(c)

Spec == Init /\ [][Next]_vars

\* Every promise a call waits for settles: the key store's are settled when
\* they are returned, WebCrypto's operations terminate.
FairSpec == Spec /\ \A c \in Caller : WF_vars(Continue(c))
-----------------------------------------------------------------------------
PublicKey == {k \in Key : ~k.private}
PrivateKey == {k \in Key : k.private}
Stamp == {-1} \cup Nat

Call ==
  {Idle}
    \cup [pc : {"generating", "exporting"}, usage : KeyUsage, name : Name,
          key : PrivateKey, extractable : BOOLEAN, turn : Stamp]
    \cup [pc : {"header", "container", "verifying"}, name : Name,
          epoch : Stamp, jwk : PublicKey]
    \cup [pc : {"signing"}, name : Name, epoch : Stamp, jwk : PublicKey,
          key : PrivateKey]

Token == [name : Name, epoch : Stamp, jwk : PublicKey, key : PrivateKey]

\* Every variable has its type; in particular the store and the references
\* hold private keys, what was read with publicKeyOnly is a public key.
TypeOK ==
  /\ store \in [Name -> Seq(PrivateKey)]
  /\ cryptoKey \in [Explicit -> PrivateKey \cup {None}]
  /\ signingKey \in [usage : KeyUsage, key : PrivateKey] \cup {None}
  /\ algorithm \in [KeyUsage -> Alg]
  /\ call \in [Caller -> Call]
  /\ token \in [Caller -> Token \cup {None}]
  /\ verdict \in [Caller -> [ok : BOOLEAN, quiet : BOOLEAN] \cup {None}]
  /\ minted \in 0..MaxKeys
  /\ begun \in [Name -> Nat]
  /\ disturbed \in [Name -> BOOLEAN]

\* A token fails to verify only if the key was disturbed: when sign and verify
\* each began with the name settled and no generateKey began for it since the
\* earlier of the two, verify answers true, whichever way sign came to its key
\* and whatever else ran in between.
VerdictSound ==
  \A c \in Caller : verdict[c] # None => (verdict[c].quiet => verdict[c].ok)

\* The key from which a token's header takes alg, and kid when the key has one,
\* is the key that signs it, when the name was settled when sign began and no
\* generateKey began for it while sign was running.
HeaderNamesSigningKey ==
  \A c \in Caller :
    /\ call[c].pc = "signing"
    /\ call[c].epoch = begun[call[c].name]
    => call[c].jwk = PublicOf(call[c].key)

\* generateKey leaves the reference and the store agreeing whenever none is
\* running for the name: the key remembered on the reference is the newest one
\* saved, unless calls for the name overlapped, shared the name or failed after
\* the key was remembered; and a call that runs alone and saves its key puts
\* right what such calls left behind.
SerialGenerationSettles ==
  \A u \in Explicit :
    LET n == ExplicitName[u] IN
    /\ ~disturbed[n]
    /\ \A c \in Caller : ~Generating(c, n)
    /\ cryptoKey[u] # None
    => store[n] # NoContainer /\ cryptoKey[u] = GetKey(store[n])

\* Keys saved under the name of a default reference are all of the algorithm
\* in that name, although the builder's algorithm may change while generateKey
\* is suspended.
DefaultContainersHomogeneous ==
  \A u \in KeyUsage, a \in Alg :
    LET n == DefaultName[<<u, a>>] IN
    (\A v \in Explicit : ExplicitName[v] # n)
      => \A i \in 1..Len(store[n]) : store[n][i].alg = a

\* Every call returns or is rejected.
EveryCallReturns ==
  \A c \in Caller : call[c].pc # "idle" ~> call[c].pc = "idle"
-----------------------------------------------------------------------------
(* What comments in the code say and the code does not keep. *)

\* KeyContainer: "Each key in the key container is the same type and usage".
\* Save does not check it, and an explicit reference keeps its name when the
\* builder's algorithm changes.
ContainerKeysHaveOneType ==
  \A n \in Name : \A i, j \in 1..Len(store[n]) :
    store[n][i].kty = store[n][j].kty

\* CryptoBuilder: recoveryKeyIsExtractable is "True is the recovery key can be
\* extracted", when its own reference is a secret; generateKey asks
\* signingKeyIsExtractable for the keys of every usage.
ExtractableByOwnReference ==
  \A c \in Caller : call[c].pc = "exporting" =>
    LET u == call[c].usage IN
    call[c].extractable = (u \in Explicit => ExplicitType[u] = "secret")
=============================================================================
