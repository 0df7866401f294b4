# TLA+ models of the Verifiable Credentials Crypto SDK

This directory holds TLA+ specifications of the parts of the SDK whose
correctness depends on the order in which asynchronous calls run, the TLC
configurations that check them on small instances, and TLAPS proofs that hold
for every instance. Paths below are relative to `src/libs/`.

All the code runs on one JavaScript thread. What interleaves are `async`
functions: a call runs without interruption to its next `await` on a promise
that is not settled, and then other calls run. In every module an action of a
call therefore runs it from one such point to the next, and the variable `call`
says where each caller is suspended and what it has read so far.

## The system

| Component | State it keeps | Operations | What makes it hard | What makes it correct |
|---|---|---|---|---|
| Key containers (`keys/lib/KeyContainer.ts`) | the versions of a key, oldest first | `add`, `getKey`, `kty`, `use` | `kty` is that of the oldest key, `getKey` returns the newest | versions are only appended |
| In-memory key store (`keyStore/lib/KeyStoreInMemory.ts`) | a map from names to containers | `get`, `save`, `list` | `get` hands out the live container, or a clone without private keys | nothing saved is lost; a public view is an old view without private keys |
| `Crypto`, `CryptoBuilder` (`sdk/lib`) | algorithms, key references, the key each reference remembers | `generateKey`, `use...` | `generateKey` suspends three times; references are objects that calls share | the remembered key and the stored key agree when nothing overlapped or failed |
| `JwsToken`, `SubtleCryptoExtension` (`protocol-jose/lib/jws`, `plugin/lib`) | tokens and their headers | `sign`, `verify`, formats | `sign` reads keys twice, from two places | the header names the key that signed; a token verifies until the key changes |
| `Jose`, `JoseBuilder`, the JSON-LD suite (`sdk/lib`) | the last token or proof object, its headers and payload | `sign`, `verify`, `serialize`, `deserialize` | one object per protocol is shared by all users of a `Crypto`, and `sign` writes on the caller's payload | `verify` and `serialize` are about the document last signed or deserialized |
| Key Vault store (`plugin-keyvault/src/keyStore`) | a local key store, filled from the vault | `get`, `save`, `list` | others rotate and disable versions between two awaits; failure half-way | `getKey` is the newest version that was there; the local store has nothing the vault lacks |
| Key Vault providers (`plugin-keyvault/src/plugin`) | the remote key id pinned on a `CryptoKey` | `generateKey`, `sign`, `decrypt`, import, export | a pinned version against a rotated one, a retry with another algorithm name | the key that signs is the one whose public part is published |
| `JweToken`, JOSE adapters (`protocol-jose/lib`) | recipients, headers, cipher text; header maps shared through the options | `encrypt`, `decrypt`, formats | attempts on several recipients, maps changed in place, forms that keep different parts | a recipient's key opens what was encrypted for it; a form is read as it was written |
| Pairwise keys (`plugin/lib/Pairwise`) | a cache of master keys | `generatePairwiseKey` | the cache key, concurrent misses | the key depends on seed, persona and peer only |
| Factories (`plugin/lib/CryptoFactory.ts`, `plugin-factory/lib`) | a registry of providers, a session cache | `add...`, `get...`, `create` | precedence of registrations, the cache key | the right provider, the right credential |
| Long-form DID (`sdk/lib/LongFormDid.ts`) | none | `serialize` | three keys read one after the other | the keys of one moment |
| DER signatures (`plugin/lib/SubtleCryptoExtension.ts`) | none | `toDer`, `fromDer` | leading zeros, lengths | `fromDer` undoes `toDer` |

How they interact: a user builds a `Crypto` from a `CryptoBuilder`, which holds
one key store and one `CryptoFactory`. `Crypto.generateKey` gets a provider
from the factory, remembers the new key on the key reference and saves it in
the key store. `Crypto` holds one `Jose` object per protocol; `Jose.sign` goes
through `JwsToken.sign`, which reads the key store for the header, and
`SubtleCryptoExtension.signByKeyStore`, which takes the key that the reference
remembers or reads the key store again. `Jose.verify` reads the key store for
the validation key unless it is given one. Key store and providers may be those
of Azure Key Vault, which the application shares with others. Nothing is
persisted but in the vault, so there is no recovery to model: a restart of the
process starts from the initial state of each module and whatever the vault
holds.

## Modules

| Module | What it is |
|---|---|
| `KeyContainers` | operators: containers, `getKey`, the check of `add`, the public-only reduction |
| `VersionedKeys` | abstract specification: the versions of a name are only appended to |
| `KeyStoreInMemory` | the in-memory store with clients that hold live containers and clones; implements `VersionedKeys` |
| `SigningSession` | `Crypto`, `CryptoBuilder`, `JwsToken`, `signByKeyStore` and `Jose.verify` over the in-memory store |
| `JoseSession` | the shared `Jose` object and its JSON-LD suite |
| `JoseFormats` | operators: the three forms of `JwsToken` and `JweToken`, written and read |
| `TokenExchange` | `sign`, `encrypt` and `decrypt` of `JoseProtocol` and `JwtProtocol` with shared header maps; extends `JoseFormats` |
| `KeyVaultStore` | the Key Vault store, its local store and the vault |
| `VaultSession` | `generateKey`, `sign` and `decrypt` of a `Crypto` built with `useKeyVault` |
| `CryptoRegistry` | `CryptoFactory`, the factories that fill it, and the names of algorithms and curves |
| `PairwiseKeys` | `PairwiseKey`, `EcPairwiseKey` and `RsaPairwiseKey` with their cache |
| `KeyStoreSessions` | `KeyStoreFactory` and its session cache |
| `DerSignatures` | the bytes of elliptic signatures between plug-ins |
| `LongFormDid` | `LongFormDid.serialize` beside renewed keys and algorithms |
| `Plugins` | `VaultSession` and the last five modules side by side, since they share no state |
| `..._proofs` | theorems about the module of that name |
| `MC...` | instances for TLC |

A definition `D_fault` is `D` with a fault of the kind a change of the code could
bring; no specification uses it. Each property has one that it notices.

Most modules put the system together from the side of one hazard, with the rest
cut down to what that hazard needs: `SigningSession` has keys that change and
tokens without content, `JoseSession` one key and contents that change,
`TokenExchange` header maps that change, `VaultSession` versions in the vault.

### SigningSession

| Variable | In the code |
|---|---|
| `store` | `KeyStoreInMemory.store`, a container per name |
| `cryptoKey` | `KeyReference.cryptoKey` of the references that the user set; a default reference is rebuilt at every use, so nothing is remembered on it |
| `signingKey` | `Crypto.signingKey` |
| `algorithm` | `CryptoBuilder._signingAlgorithm` and its siblings |
| `call`, `token`, `verdict` | suspended calls and their results |
| `minted`, `begun`, `disturbed` | history, read by properties only (`minted` also bounds the run) |

`GenerateStart`, `GenerateResolved` and `ExportResolved` are
`Crypto.generateKey` cut at its awaits: the reference, the name and the
algorithm are read first, the key is remembered when it exists, and it is saved
when it was exported. `SignStart`, `SignPickKey`, `SignReadContainer` and
`SignResolved` are `JwsToken.sign` with `signByKeyStore` inside. `VerifyStart`
and `VerifyResolved` are `Jose.verify`; any caller may verify any caller's
token. `Rejected` is a failure of a WebCrypto operation, with what
`generateKey` has remembered by then left as it is. Keys have the type of their
algorithm, so keys of two algorithms can be told apart.

The properties speak of a name being *settled*: no `generateKey` is running for
it and the key that the signing reference remembers, if any, is the newest
saved. The code makes no promise without that, because `verify` looks up the
newest saved key while `sign` prefers the remembered one. A `generateKey` that
runs into another one of its name, shares the name with another reference, or
fails after it has remembered its key makes the name `disturbed`. One that
starts alone has its `turn`, the number of generations of the name so far; if
none began since, its save puts right what others left behind, and the name is
no longer disturbed.

### JoseSession

The key is fixed here. What is signed is a *content*, an object of the caller
together with the id that `sign` puts on it: the proof with its nonce under
JSON-LD, the claims `jti`, `nbf` and `exp` under JWT, nothing under JOSE.

| Variable | In the code |
|---|---|
| `id` | the embedded proof or the claims on the caller's object |
| `proofSig` | `signatureValue` of each proof object |
| `jsonLdProofObject`, `token`, `signaturePayload` | `Jose._jsonLdProofObject`, `_token`, `_signaturePayload` |
| `call`, `printed`, `verdict` | suspended calls, the result of `serialize`, the results of `verify` |
| `minted`, `signed`, `own`, `last` | history, read by properties only (`minted` also bounds the run) |

Under JSON-LD `sign` puts a new proof on the caller's object before its first
await (`LdSignStart`), writes the signature on the proof the object has *then*
(`LdSigned`), and the Jose object takes hold of the caller's object
(`LdSignReturned`). Under JOSE and JWT the payload is serialized before the
await. `deserialize` gives everything that is JSON to a proof suite
(`DeserializeStart`, `ParseResolved`), anything else to the JWS parser
(`DeserializeJws`). `verify` picks the document only after it has read the key
(`VerifyPick`), clones it, and reads the signature after one more await
(`VerifyReadProof`). `Foreign` are documents from elsewhere that no `sign` made.

### JoseFormats and TokenExchange

Bytes are read back from base64url as they were, so they stand for themselves.
What is kept is what a reader trips over: whether a header is base64url of
JSON, JSON text or an object inside the document, which members a form has,
what happens when one is missing, and the number of dots, by which
`deserialize` tells the compact form. `SerializeJws` and `DeserializeJws` are
`JwsToken.serialize` and `deserialize`, the names with `Jwe` those of
`JweToken`; `Serialize`, `Deserialize` and `DeserializeAny` are `JoseProtocol`.

| Variable | In the code |
|---|---|
| `options` | the maps `protected` and `header` of the one options object, or none |
| `keys` | the containers of the decryption keys |
| `call`, `made`, `opened` | suspended calls, the last token, the outcome of the last `decrypt` |
| `minted`, `uses` | history: `encrypt` calls (also a bound), operations that wrote on the map |

A token made with a map of the options has a reference to it (`Shared`), and
shows what the map holds at the time (`Deref`). `SignStart`, `SignHeaders` and
`SignResolved` are `JwsToken.sign` around the read of the key and the
signature; `EncryptStart`, `EncryptHeaders`, `EncryptWrapped` (once per
recipient) and `EncryptResolved` are `JweToken.encrypt`; `DecryptStart`,
`DecryptPick` and `DecryptResolved` are `decrypt`, which picks a recipient by
the kid of the newest key, and `decryptByKeyStore`, which reads the key again.
What is decrypted is always a token that was printed and read. `Rotate` saves
a new key.

`PrintedIsRead` compares what is read with `SeenJws` and `SeenJwe`, which say
for each form what it has room for; `JwsReadable` and `JweReadable` say when a
form can be read at all. `RecipientDecrypts` owes the payload only to a
recipient whose entry the form keeps, whose kid or place tells it from the
others, whose key is still the newest, and only while nothing but the
`encrypt` wrote on the map (`Due`); but nobody may ever get another payload.

### KeyVaultStore

`typeOf` is the type that the references of a name have for good, a secret or a
key of the vault. `vault` is the list of versions under each name, `cache` the
keys that were saved in the local key store, `got` what the last `get` of a
caller resolved to; a new call of the caller forgets it. `GetStart`,
`LatestFetched`, `Listed`, `VersionFetched` and `SecretCached` are the awaits of
`KeyStoreKeyVault.get`; `SaveStart`, `Published` and `SaveResolved` those of
`save`, and with `GenerateStart` those of `generateKey` of the providers.
`Published` is the moment at which the vault has done what it was asked for, so
that `Rejected` can come before or after it: the answer is lost, the version is
there. `Rotate` and `Disable` are other users of the vault. In a request,
`signing` marks the calls of `signByKeyStore`, and `from` is the number of
versions when the call began, which only properties read.

The vault is external. It is taken to list versions newest first: the loop of
`get` goes through the list backwards and its result depends on that order,
while `tests/KeyStoreKeyVault.spec.ts` accepts either. The class's own LRU
cache is left out: `get` looks containers up in it and `save` clears it, but
nothing ever puts one in, although `KeyStoreKeyVault.spec.ts` says "Two
requests should hit cache".

### VaultSession

One key of the vault, EC to sign or RSA to decrypt. A `CryptoKey` is a pair: the
version whose public part it has, and the kid of the version that the vault
will use. `cryptoKey` is what the key reference remembers. `Created` is the
answer of `createKey`, `GenerateResolved` the moment the key is remembered.
`SignStart`, `HeaderFetched`, `KeyFetched`, `SignAnswered` and `RetryAnswered`
are `sign` of `JwsToken` over `KeyVaultEcdsaProvider`, with the second attempt
under the name `ECDSA256` for legacy versions. `ImportStart` and `KidFetched`
import a JWK whose kid has a version or not. `DecryptStart` and
`DecryptAnswered` use a pair that `generateKey` gave; `DecryptByKeyStore` can
only be rejected, because `KeyVaultRsaOaepProvider` imports nothing. A call has the
version that was newest when it began (`from`), and is `due` when what was
remembered was that one, too, and nobody had made a version when the call got
its key (`Undisturbed`). What happens after that excuses nothing: a key that is
rotated between the import and the signature, or before the second attempt,
still signs with the pinned version. `own` are the versions the session made.
A JWK without a version that is of an older one is signed for with the newest,
so `HeaderVersionSigns` leaves it out; that nothing older signs than what was
newest when a call began, but for the session's own keys, has no condition.

### PairwiseKeys

`masterKeys` is the cache of `PairwiseKey`, by persona. `GenerateStart` looks a
master key up; on a miss `SeedRead` and `MasterKeyMade` make it from the seed
and put it in, and `Derived` derives the key. An HMAC is the record of its
inputs and a key the record of what it was made from, so equal means derived
from the same; `DeterministicNumber` are the rounds of `RsaPairwiseKey` with
the bits of a round as a constant. `SameQuestionSameKey` excludes a persona that
was used with two seeds (`mixed`): the code gives the second seed the first
one's keys.

### The smaller components

`CryptoRegistry`: `registry` are the six maps of `CryptoFactory`, filled by one of
three factories and then by users (`Add`); `Find` is the lookup with its default.
`JwaToWebCrypto`, `WebCryptoToJwa` and `KindOf` are the tables of
`CryptoHelpers` and the dispatch of `Subtle`. `jwk` and `accepted` follow a
secp256k1 key from plug-in to plug-in (`Travel`), renamed by `ImportTransform`
and `ExportTransform`.

`KeyStoreSessions`: `sessionCache` is the LRU cache of `KeyStoreFactory`, which a
library keeps (`AfterGet`, `AfterSet`, `Expire`); `CreateHit` and `CreateMissed`
are `create`.

`DerSignatures`: `Sign` is `signByKeyStore` over one of three plug-ins and with one
of four formats in the algorithm, `Verify` is `verifyByJwk` over one of them.
`ToDer`, `FromDer` and `Join` are on bytes, with the offset that the code
computes for the second number.

`LongFormDid`: `SerializeStart` checks the algorithms, `KeyRead` reads one of three
keys, `Save` and `UseAlgorithm` are others.

`Plugins` puts these four beside `VaultSession` and `PairwiseKeys`, and
`MCPlugins` gives it values. They share no state, so an interleaving of two of
them is of no interest: the rigid variable `machine` says which of them runs,
and the others stay in one initial state. The assumptions on the constants of
all six are in `Plugins`.

## Runs

| Run | Instance | What it shows |
|---|---|---|
| `in_memory_store` | 2 names, 2 clients, 4 keys of three types, 2 keys per name | a clone stays a prefix of the store without private keys (`PublicViewIsPrefix`, `PublicViewHidesPrivateKeys`); the store implements `VersionedKeys` |
| `session_explicit` | 2 callers, a signing reference set by the user, 3 keys | `VerdictSound`: `verify` answers true unless the key was disturbed; `HeaderNamesSigningKey`: the key of the header signs; `SerialGenerationSettles`: a generation that runs alone leaves reference and store agreeing, whatever went before |
| `session_default` | 2 callers, the default reference, 2 algorithms that may change at any time, 2 keys | `HeaderNamesSigningKey` where `sign` reads the store twice; `DefaultContainersHomogeneous`; `EveryCallReturns` |
| `jose_ld` | 2 callers, 2 credentials, 2 ids, JSON-LD; a credential under another's proof | `OwnDocumentPrinted`: a caller that signs and serializes gets its own document when nobody came in between; `Authentic`: only signed contents verify; `WholeDocumentVerifies`: signing an object again while it is verified does not spoil the verification |
| `jose_jwt` | 2 callers, 2 payloads, JWT; a tampered JWS and a proof without signature | also `ClaimsStable`: an object keeps its claims however signs of it overlap or fail; `EveryCallReturns` |
| `vault` | 1 caller, 3 versions, 3 keys of 2 types and a secret of an unknown type, `get`, `save` and `generateKey` | `NewestVersionIsLast`: `getKey` of a fetched container is a version that was newest during the call; `CacheComesFromVault`: the local store never has a key that the vault lacks; `ContainersHaveOneType`; `EveryCallReturns` |
| `tokens` | 2 callers, 2 signing keys, 2 recipients, 3 keys to decrypt with, 1 `encrypt`, with and without maps in the options | `PrintedIsRead`: every form of a token reads back as what it has room for, and is refused where it cannot hold the token; `SignedTokenVerifies`: a signature fits what the token shows until the shared map is used with another algorithm, or with a key that has no kid; `RecipientDecrypts` |
| `plugins` | six components side by side, see below | `AnswersStay`, `RegisteredNameIsFound`, `KeysTravel` (registry); `HeaderVersionSigns`, `NothingOlderSigns` (vault); `SameQuestionSameKey`, `PairsShareNothing` (pairwise keys); `OneStorePerVault` (sessions); `SignatureVerifies`, `DerIsCanonical` (signatures); `DidHasCurrentKeys` (DID) |

Four runs end in a counterexample, each about something a comment says and the
code does not do:

| Run | What happens |
|---|---|
| `mixed_container` | "Each key in the key container is the same type and usage", but `save` does not check: an explicit reference, `generateKey` with ES256K, `useSigningAlgorithm(EdDSA)`, `generateKey` |
| `recovery_extractable` | `recoveryKeyIsExtractable` exists and is never called: `generateKey` asks `signingKeyIsExtractable` for the keys of every usage, so a recovery key whose reference is a secret cannot be exported when the signing key is in hardware |
| `jose_token` | a JWS in flat or general JSON, printed by `serialize`, is taken for a JSON-LD proof by `deserialize`; `verify` rejects it and goes on looking at it whatever is signed later |
| `vault_signing_key` | `signByKeyStore` calls `get` without options; the in-memory store then returns private keys, the Key Vault store public ones, and signing with a secret of the vault fails |

Other disagreements met while modelling, without a run of their own. The models
have what the code does; where a property would fail, its condition excludes
it, and is as narrow as that.

Tokens:

- `Jose.signaturePayload` and the headers stay those of the last *deserialized*
  token after `sign` (`Jose.ts:116`); `Jose.optionsFromBuilder` takes an
  unprotected header that nothing reads.
- A map in the options is shared by all tokens: the first kid stays,
  `alg` is overwritten by each `sign` unless the unprotected header asks for it,
  and `encrypt` overwrites `alg`, `enc` and `kid`. Tokens made before stop
  verifying or decrypting (`JwsToken.ts:373`, `JweToken.ts:456`). A token of a
  key without kid stops verifying when a later sign fills its own kid in.
- `JwsToken.deserialize` takes a JSON document with one or two dots, as in a kid
  in a plain header, for the compact form and throws (`JwsToken.ts:148`);
  `JweToken` does with exactly four.
- A JWE in flat JSON loses its tag when read and never decrypts, and its
  unprotected header is written as it cannot be parsed (`JweToken.ts:271`). A
  JWS with an empty payload cannot be read in the JSON forms.
- `decrypt` makes one attempt: the first rejection ends the call
  (`JweToken.ts:549`), and only the newest key is tried.
- `JwtProtocol.sign` ignores the protected header of the options;
  `JwtToken.verify` is always false.

Plug-ins:

- The elliptic `onSign` concatenates r and s without leading zeros, and
  `fromDer` drops them and puts the second number at an offset made of its own
  length (`SubtleCryptoExtension.ts:87`). With a format of DER the elliptic
  plug-ins encode what `signByKeyStore` then decodes.
- `EllipticEcDsaProvider.onExportKey` takes the y coordinate from `pubKey.x`, and
  `onSign` hands on the method `hash.digest` instead of its result; both are
  inside the curve arithmetic that is left out.
- `CryptoHelpers` makes HS384 and HS512 HS256, RSA-OAEP RSA-OAEP-256, and RS256
  of any RSASSA whose hash is a string; `SHA-256` gets no name, and the
  dispatch throws. The default plug-in is found whatever type it is for.
- A kid without version is completed with the newest one, whatever version the
  coordinates of the JWK are of (`KeyVaultEcdsaProvider.ts:112`).
- `decryptByKeyStore` with an RSA key of the vault is always rejected.

Keys:

- `Crypto.signingKey` is also assigned for recovery and update keys
  (`Crypto.ts:75`).
- `KeyStoreKeyVault.save` keeps the private part of a key in the local store
  where the comment says "Save public key in cach" (`KeyStoreKeyVault.ts:209`).
- `SubtleCryptoExtension` makes a `PairwiseKey` per call, so that its cache never
  answers a later one; `EcPairwiseKey` derives on secp256k1 also for ed25519.
- `KeyStoreFactory` hands out the store of the first credential to all
  (`KeyStoreFactory.ts:32`). `LongFormDid` writes secp256k1 on every key.

### Bounds, and why they are enough

The hazards are about pairs: two calls that overlap, or one call and one
rotation. Two callers give every such pair, and each caller starts any number
of calls, so that a third may follow the overlap. Callers are interchangeable,
so runs without liveness use symmetry where the state is large. `Max...` are the
only bounds of behaviour; they guard the actions that start a generation, a
sign, an encryption or a publication, and nothing else.

- `SigningSession`: three keys in `session_explicit` allow a settled name, then two
  overlapping generations; two are enough in `session_default`, where nothing is
  remembered and only the newest key matters.
- `JoseSession`: two ids give two proofs of one object or one proof of each, so that
  a sign overlaps a sign of the same or of the other object.
- `KeyVaultStore`: callers do not read each other's state and the other users of the
  vault are actions of their own, so one caller is enough; three versions tell
  "newest first" from "newest last" and allow a rotation between two fetches.
- `TokenExchange`: two signing keys of one algorithm, one whose kid has a dot and one
  without kid; `encrypt` puts another algorithm on the map. A signing key always has
  an algorithm, because `sign` takes the default one otherwise (`JwsToken.ts:363`). Recipients a and b in this
  order, a named key, an unnamed one and an EC key that is refused, three
  keys in all: a recipient found by kid, by place or not, and one rotation. One
  token is encrypted while signs overlap; two encryptions differ from an
  encryption and a sign only in what they write.
- `VaultSession`: 2 callers and 2 versions, a remembered and a newer one.
- `PairwiseKeys`: 2 callers, 2 seeds, 2 personas, 2 peers, EC and RSA keys of the
  default size (two rounds of 2 bits for each prime) and of one round.
- `KeyStoreSessions`: 3 vaults for 2 places, 2 credentials, 4 stores: one vault is
  forgotten and asked for again.
- `DerSignatures`: numbers of 2 bytes out of 0, 1 and 128: every place for a leading
  zero and for a first bit that is set.
- `CryptoRegistry`: 3 names, 2 items that differ in scope and types, 2 registrations:
  before and after an item that fits, and under a name without one.
- `LongFormDid`: 1 caller and 4 keys: one of each usage and a renewal.

Deadlock is checked everywhere but in `plugins`, where components really stop: a
format that no plug-in can make leaves no signature to verify, and a component
at its bounds may have nothing left to do.

### Fairness

`FairSpec` adds weak fairness of `Continue(c)` for every caller: a suspended
call goes on. The in-memory store's promises are settled when they are
returned, WebCrypto operations terminate, and the Azure clients answer or give
up. Nothing is assumed fair that starts a call or acts on the vault, and
nothing forces a call to succeed: `Rejected` is one of the ways to go on.

## Proofs

`SigningSession_proofs` proves, from `ConstantsAssumption` only (the types of
the constants, and default names that differ for different usages and
algorithms), for any number of callers, algorithms, names and keys:

| Theorem | Says |
|---|---|
| `TypeCorrect` | `Spec => []TypeOK` |
| `VerdictIsSound` | `Spec => []VerdictSound` |
| `HeaderIsOfSigningKey` | `Spec => []HeaderNamesSigningKey` |
| `GenerationSettles` | `Spec => []SerialGenerationSettles` |
| `HomogeneousDefaults` | `Spec => []DefaultContainersHomogeneous` |

`VerdictSound` is not inductive: it speaks of the moment at which `verify`
ends, and the reasons lie in what the calls read before. `SessionInv` adds
them. `CallCurrent` says of every suspended `sign` and `verify` that as long as
its epoch is current nobody is generating for the name, and that the header or
validation key it read, the remembered key and, once picked, the signing key
are all the newest in the store. `TokenCurrent` says the same of every
finished token. `EpochsPast` (no epoch is ahead of `begun`) makes an epoch that
has once gone stale stay stale. `GeneratesForItsName` and `SignsForItsName` tie
a call to its name, so that a key is never remembered on the signing reference
by a generation for another name; the first needs that default names are
distinct. `ReadsNonempty` makes the reads of `getKey` defined, and the type
invariant needs it. The lemmas `CallStays` and `TokenStays` show that a step
which leaves the store, the remembered key and the generations of a name alone
leaves both facts alone; what remains is one step per action.

`GenerationSettles` rests on `SerialInv` beside `SessionInv`: under a name that
is not disturbed at most one generation runs, no other reference has that
name, and the remembered key is the newest saved or the one about to be saved
(`SerialFor`). That a disturbed name becomes settled again needs more, which must
hold under disturbed names as well: a generation whose turn it still is runs
alone, and the key that it is about to save is the remembered one (`TurnFor`).
`TurnSettles` gets the first from the second at the save. `HomogeneousDefaults`
uses `GeneratesForItsName`.

`JoseSession_proofs` proves, from the types of the constants and the assumption
that no foreign document is properly signed (a signature that `sign` did not
make fits nothing), for any number of callers, objects and ids:

| Theorem | Says |
|---|---|
| `TypeCorrect` | `Spec => []TypeOK` |
| `OnlySignedVerifies` | `Spec => []Authentic` |
| `ClaimsStay` | `Spec => []ClaimsStable`, where `Protocol # "JSONLD"` |
| `OwnDocument` | `Spec => []OwnDocumentPrinted` |
| `WholeVerifies` | `Spec => []WholeDocumentVerifies` |

The types need `ProofsThere`: an object that is signed, being signed, or about to
be verified has a proof. `Authentic` needs `AuthInv`: wherever a signature fits
its content (a proof, the token, a parsed or printed document, a suspended
`verify`) the content was signed. `ClaimsStable` needs that a content that is
being signed or was signed has the id that its object has now, so that two of
one object are equal; ids are only given to an object without one. The other two
rest on `IdInv`, by which an id that was handed out belongs to one object for
good. `AloneInv` says that a sign that nobody overlapped finds its own proof on
the object, and `OwnInv` what a caller's `own` document implies for the Jose
object, the proof and the running signs. `WholeInv` says of a `verify` that picked
a whole document that no running sign can write at the id of its proof: the
signs of other objects write at other ids and a new sign of the same object
takes a new id. The lemma `Moves` lists what a step can do to a call, once for
all these invariants.

`KeyStoreInMemory_proofs` proves, from `KeyAssumption` (a key is a record with a
type and a mark of its private part), for any number of clients, names and
keys:

| Theorem | Says |
|---|---|
| `TypeCorrect` | `Spec => []TypeOK` |
| `PublicViewStays` | `Spec => []PublicViewIsPrefix` |
| `PrivateKeysHidden` | `Spec => []PublicViewHidesPrivateKeys` |
| `StoreIsVersioned` | `Spec => ImplementsVersionedKeys` |

`StoreInv` is `TypeOK` and `ClonesFit`: the keys that a clone took from the store
are the public forms of what is at the same places of the container now. A
`save`, and an `add` through a live container, append, so those places stay.

`KeyVaultStore_proofs` proves, from `ConstantsAssumption` (keys are records with
private parts, options have their two members), for any number of callers,
names and versions:

| Theorem | Says |
|---|---|
| `TypeCorrect` | `Spec => []TypeOK` |
| `NewestIsLast` | `Spec => []NewestVersionIsLast` |
| `CacheFromVault` | `Spec => []CacheComesFromVault` |
| `OneTypePerContainer` | `Spec => []ContainersHaveOneType` |

`NewestVersionIsLast` speaks of the end of a `get`. `VaultInv` follows it from the
list on: `Fetching` says that the versions that were fetched and those that are
left are all versions up to one that was the newest since the call began, and
`Taken` says of the container that is being built that it begins with the oldest
version that was asked for and ends where the fetched ones begin. The vault
only appends and only changes `enabled` (`Grows`), which keeps both. For
`CacheComesFromVault` a call that has published its key, or fetched one, holds
what the vault has. No container ever gets a key of another type, and the
invariant carries that to `got`.

`VaultSession_proofs` proves, without assumptions, for any number of callers and
versions:

| Theorem | Says |
|---|---|
| `HeaderSigns` | `Spec => []HeaderVersionSigns` |
| `NothingOlder` | `Spec => []NothingOlderSigns` |

`SessionInv` has `Knows` for every call. Before it has its key, the version that
was newest when it began is not ahead of the newest; if it still is the newest
and something is due, what is remembered is that version, and nobody is about
to remember another one (`NobodyRemembers`). Once it has its key, the pinned
version is the header's if something is due, and in any case one of the
session's own or none that was older than the newest when the call began; that
does not speak of the vault any more, so that no later rotation can change it.
A version is only ever added, after which nothing that began before is
undisturbed and what `Knows` says of the earlier ones stays (`KnowsLater`,
`NobodyRemembersLater`). That what is remembered is the session's own needs that
a `generateKey` that goes on was given a version of its own, which `Knows` also
says.

`TokenExchange_proofs` proves, from `ConstantsAssumption` (recipients are given, the
maps of the options are those a user can give, a signing key has an algorithm
and no empty kid), for any callers, keys, recipients, payloads and options:

| Theorem | Says |
|---|---|
| `TokensFit` | `Spec => []Inv`, the invariant of the others |
| `TypeCorrect` | `Spec => []TypeOK` |
| `FormsAreRead` | `Spec => []PrintedIsRead` |
| `SignaturesVerify` | `Spec => []SignedTokenVerifies` |
| `RecipientsDecrypt` | `Spec => []RecipientDecrypts` |

First come lemmas about the operators of `JoseFormats`, one for each form:
`JwsCompactReads`, `JwsFlatReads` and `JwsGeneralReads`, and the same for `Jwe`, say
what `Deserialize` makes of what `Serialize` wrote, for tokens with any number
of signatures or recipients. The number of dots is a fold over the document and
stays unexpanded: a form is read in one way if the number is right and not at
all otherwise. `FormsRead` puts the six together to `PrintedIsRead`, refusals
included.

The state of the proof is in what a token says of the map that it shows. In `Inv`,
`SignedFits` says that a signature is by the key over the header as it was, and
that a shared map is still that header if all who wrote on it signed with the
same algorithm and the key has a kid (`Settled`). `SealedFits` and `JweFits` say
of an encrypted token, or of the part of one that a suspended `encrypt` has
built, that the recipients are in the order of the keys, that each has the
content key of this token, and that the additional data is the protected header
unless something else wrote there. `Ids` says that no two tokens have a content
key in common, so that "nobody else wrote" can be told. `DueFits` says of a
suspended `decrypt` that is owed the payload that the newest key opens the
recipient that was picked. `SignKeeps` and `EncryptKeeps` say what a write on the
map leaves true of all other tokens; what remains is one lemma per action. That
every token has a protected algorithm is the part of `TypeOK` that needs `Inv`:
an algorithm that was once on the map stays there, with whatever value.

`Plugins_proofs` proves theorems about the four components that `Plugins` adds, after
showing of each that its part of `PluginsSpec` is a behaviour of its own `Spec`:

| Theorem | Says, from |
|---|---|
| `PluginsStay` | `PluginsSpec => AnswersStay`, no assumption |
| `NamesAreFound` | `PluginsSpec => []RegisteredNameIsFound`, no assumption |
| `KeysAlwaysTravel` | `PluginsSpec => []KeysTravel`, no assumption |
| `VaultsHaveOneStore` | `PluginsSpec => []OneStorePerVault`, `SessionsAssumption` |
| `DidKeysAreCurrent` | `PluginsSpec => []DidHasCurrentKeys`, `DidAssumption` |
| `SignaturesTravel` | `PluginsSpec => []SignatureVerifies`, `DerAssumption` |
| `DerIsAlwaysCanonical` | `PluginsSpec => []DerIsCanonical`, `DerAssumption` |

- `PluginsStay`, an action property: the default item is the first under its name in
  each of the six maps, and users only append (`RegistryInv`). The item that
  `find` returns is the first that fits, and that stays the first
  (`AppendedLater`).
- `NamesAreFound`: the names that `JwaToWebCrypto` makes are those under which an
  item is kept (`NameKept`), a finite table.
- `VaultsHaveOneStore`: `OneStorePerVault` counts the vaults asked for since. For each
  vault `SessionsInv` has `StillThere`: as long as too few others were asked for,
  its session is in the cache, and all that stand before it are of vaults asked
  for since. So it is not the last when one is dropped. `AfterGet` and `AfterSet`
  move a session to the front, which is a permutation of the places
  (`Fronted`, `Rearranged`).
- `DidKeysAreCurrent`: what a suspended `serialize` has read are keys that were the
  newest of their algorithm since it began (`ReadFits`), since keys are only
  appended; they are of the right algorithm while no algorithm was changed.
- `SignaturesTravel` and `DerIsAlwaysCanonical`: `ToDer` of two numbers, byte by byte
  (`ToDerIs`), read back by `FromDer` (`FromDerIs`) and put together or cut in two.
  Lengths and offsets are those of numbers of any `Half` bytes. `DerIsCanonical` also
  compares values, a recursive function of the bytes that only the leading zeros
  change (`ZerosBefore`).

`PairwiseKeys_proofs` proves, from `PairwiseAssumption` (keys are EC, OKP or RSA, an RSA key
has room for two primes, hashes are not empty), for any callers, seeds,
personas, peers and algorithms:

| Theorem | Says |
|---|---|
| `SameQuestion` | `PluginsSpec => []SameQuestionSameKey` |
| `PairsAreApart` | `PluginsSpec => []PairsShareNothing` |

`PairwiseInv` says that while `mixed` is false the running calls of a persona have
one seed, and what the cache has for the persona, and what a call took from it,
is the master key of that seed (`OneSeed`); and always that a cached master key
is made of some seed for its own persona (`MastersFit`), without which `mixed`
could not be decided from the cache. `PairsAreApart` needs no more of the state. It
is about the rounds of `DeterministicNumber`, of which there may be any number:
what they make begins with the HMAC of the first round (`NumberStarts`, by
induction over the rounds). The first rounds of two pairs differ in the
persona or the peer, and those of the two primes of a key in their base.

### What is proved and what is only checked

Every invariant and every action property of a passing run is stated by one of
these theorems. Only model-checked are `EveryCallReturns`, because it is liveness
under fairness, and the four counterexamples.

The induction theorems of the library take an operator and cannot be used here, but a
set of numbers that has 0 and goes on is `Nat` (`Upward`, from
`NatLessThanWellFounded`). That is enough for the recursive functions, as the rounds
and the values above. It does not reach a fold, so what is folded stays
unexpanded, and the theorems hold whatever it computes.

## Not modelled

- The arithmetic of keys, signatures and encryption: a signature is the key and
  the input it was made with, an encryption what was encrypted and for whom.
  WebCrypto, the curve library of `plugin-elliptic`, the Azure clients, the LRU
  cache library and the ION library are asynchronous operations that resolve or
  reject, or operators marked external.
- `protocols-common`, which has interfaces and an error class, and the build and
  release tooling, which is no part of the running system.
- The constant tables and fields of the key data classes.
- `verify` and `encrypt` of the Key Vault providers, which do not use the vault, and
  the `list` operations, which only read.
- In `SigningSession` and `VaultSession` a change of a key reference, or of the key
  store, after its first use. In `SigningSession` the branch of `generateKey` for
  pairs without private key, which is in `VaultSession`.
- In `JoseSession` suites of other types than the default one, `nbf`, `exp` and `jti`
  that are given to the builder, and a change of the builder's protocol in
  mid-session. Two signs of one JSON-LD object that overlap may leave the
  signature of one on the proof of the other; that is in the model, and
  `OwnDocumentPrinted` and `WholeDocumentVerifies` exclude it by their conditions.
- In `PairwiseKeys` a new version of a seed is another seed.
- Seven hazards have no property. The models have what the code does there, and
  the named property leaves it out by its condition or does not speak of it:
  - a container of the local store grows with every `get` of a secret
    (`KeyStoreKeyVault.ts:157`), and the bound on it is the number of calls;
  - the stale `signaturePayload` (`Jose.ts:116`) is read by nothing that the model
    has;
  - a persona with a second seed gets the keys of the first
    (`PairwiseKey.ts:63`); `SameQuestionSameKey` excludes such a persona;
  - a vault is asked for with a second credential (`KeyStoreFactory.ts:32`);
    `OneStorePerVault` is about the vault only;
  - signatures with a number that starts with a zero byte are cut or joined in
    the wrong place (`SubtleCryptoExtension.ts:206`,
    `EllipticEcDsaProvider.ts:84`); `SignatureVerifies` excludes such numbers;
  - an algorithm that is changed during `serialize` puts the key of another
    curve into a DID (`LongFormDid.ts:73`); `DidHasCurrentKeys` asks for the curve
    only when the algorithms stayed.

## Plan

Done: the sessions, the stores and the vault, tokens in all forms, the plug-ins
and factories, pairwise keys and long-form DIDs, and the proofs of their safety.
What is left, in this order:

1. The builder in mid-session: another key reference, protocol or key store while
   calls are suspended, in `SigningSession` and `JoseSession`.
2. `VaultSession` over `KeyVaultStore` itself instead of the versions alone, with the
   local key store as one more place that a key comes from.

Runs are kept to one per question; new components join the instance of `MCPlugins`
when they share no state with the others.
