------------------------------ MODULE Plugins ------------------------------
(***************************************************************************)
(* The components that share no state with one another, put side by side:  *)
(* the first state says which of them runs, and the others stay in one     *)
(* initial state.  VaultSession is extended, the others are instances.     *)
(***************************************************************************)
EXTENDS VaultSession

CONSTANTS
  Items, Names, MaxAdded,                        \* of CryptoRegistry
  Seed, Persona, Peer, KeyAlgorithm, HashSize,   \* of PairwiseKeys
  Credential, Uri, MaxCached, MaxStores,         \* of KeyStoreSessions
  Half, Byte,                                    \* of DerSignatures
  DidCaller, DidAlgorithm, MaxKeys               \* of LongFormDid

\* An RSA key has room for two primes.
ASSUME PairwiseAssumption ==
  /\ HashSize \in Nat \ {0}
  /\ \A a \in KeyAlgorithm :
       a.kty \in {"EC", "OKP", "RSA"} /\ a.size \in Nat \ {1}
ASSUME SessionsAssumption == MaxCached \in Nat
ASSUME DerAssumption == Half \in Nat \ {0} /\ Byte \subseteq 0..255
ASSUME DidAssumption == "ES256K" \in DidAlgorithm

VARIABLES
  machine,
  factory, registry, jwk, accepted, added,
  masterKeys, pairwiseCall, mixed,
  sessionCache, made, results, others, over,
  numbers, signer, signature, verdict,
  algorithms, store, didCall

registryVars == <<factory, registry, jwk, accepted, added>>
pairwiseVars == <<masterKeys, pairwiseCall, mixed>>
sessionsVars == <<sessionCache, made, results, others, over>>
derVars == <<numbers, signer, signature, verdict>>
didVars == <<algorithms, store, didCall>>
pluginsVars == <<machine, vars, registryVars, pairwiseVars, sessionsVars, derVars, didVars>>

Registry == INSTANCE CryptoRegistry
Pairwise == INSTANCE PairwiseKeys WITH Algorithm <- KeyAlgorithm, call <- pairwiseCall
Sessions == INSTANCE KeyStoreSessions
Der == INSTANCE DerSignatures
Did == INSTANCE LongFormDid WITH
  Caller <- DidCaller, Algorithm <- DidAlgorithm, call <- didCall

Idles ==
  /\ machine # "registry" => factory = "CryptoFactoryNode" /\ jwk = "SECP256K1"
  /\ machine # "vault" => kty = "EC"
  /\ machine # "der" => numbers = CHOOSE n \in Der!Number \X Der!Number : TRUE

PluginsInit ==
  /\ machine \in {"registry", "vault", "pairwise", "sessions", "der", "did"}
  /\ Registry!Init /\ Init /\ Pairwise!Init /\ Sessions!Init /\ Der!Init /\ Did!Init
  /\ Idles

PluginsNext ==
  /\ UNCHANGED machine
  /\ \/ /\ machine = "registry" /\ Registry!Next
        /\ UNCHANGED <<vars, pairwiseVars, sessionsVars, derVars, didVars>>
     \/ /\ machine = "vault" /\ Next
        /\ UNCHANGED <<registryVars, pairwiseVars, sessionsVars, derVars, didVars>>
     \/ /\ machine = "pairwise" /\ Pairwise!Next
        /\ UNCHANGED <<registryVars, vars, sessionsVars, derVars, didVars>>
     \/ /\ machine = "sessions" /\ Sessions!Next
        /\ UNCHANGED <<registryVars, vars, pairwiseVars, derVars, didVars>>
     \/ /\ machine = "der" /\ Der!Next
        /\ UNCHANGED <<registryVars, vars, pairwiseVars, sessionsVars, didVars>>
     \/ /\ machine = "did" /\ Did!Next
        /\ UNCHANGED <<registryVars, vars, pairwiseVars, sessionsVars, derVars>>

PluginsSpec == PluginsInit /\ [][PluginsNext]_pluginsVars
-----------------------------------------------------------------------------
\* A plug-in of CryptoFactory that was found for an operation goes on being found.
AnswersStay == Registry!AnswersStay
\* CryptoHelpers keeps the names that plug-ins are registered for.
RegisteredNameIsFound == machine = "registry" => Registry!RegisteredNameIsFound
\* The JWK of a key that went through any plug-ins of Subtle is taken by all.
KeysTravel == Registry!KeysTravel
\* PairwiseKey derives the same key from the same input.
SameQuestionSameKey == Pairwise!SameQuestionSameKey
\* PairwiseKey derives unrelated keys for different pairs.
PairsShareNothing == Pairwise!PairsShareNothing
\* KeyStoreFactory hands out one key store for a vault.
OneStorePerVault == Sessions!OneStorePerVault
\* Elliptic signatures pass between plug-ins and formats.
SignatureVerifies == Der!SignatureVerifies
\* toDer encodes the numbers of a signature in the canonical way.
DerIsCanonical == Der!DerIsCanonical
\* LongFormDid.serialize takes current public keys of the three usages.
DidHasCurrentKeys == Did!DidHasCurrentKeys
=============================================================================
