---------------------------- MODULE PairwiseKeys ----------------------------
(***************************************************************************)
(* libs/plugin Pairwise: keys for pairs of a persona and a peer that are   *)
(* derived from a seed in the key store, by calls that share a PairwiseKey *)
(* and its cache of master keys.                                           *)
(*                                                                         *)
(* An HMAC is the record of its key and data, a key made from it the       *)
(* record of what it was made from, so that two are equal only when their  *)
(* inputs are.  The cryptography between two accesses of the cache or the  *)
(* key store is one action.                                                *)
(*                                                                         *)
(* A definition D_fault is D with a fault that the properties must notice; *)
(* no specification uses it.                                               *)
(***************************************************************************)
EXTENDS Naturals, SequencesExt

CONSTANTS
  Caller,      \* asynchronous users of the PairwiseKey
  Seed,        \* references of seeds
  Persona, Peer,
  Algorithm,   \* [kty, size], the size in bits of RSA keys
  HashSize     \* the bits of one HMAC, 512 in the code

VARIABLES
  masterKeys,   \* [the personas of the cache -> their master keys]
  call,         \* [Caller -> where its call is suspended, or the key it derived]
  mixed         \* history: a persona was used with two seeds

vars == <<masterKeys, call, mixed>>

None == [none |-> TRUE]
Idle == [pc |-> "idle"]
Suspend(c, r) == call' = [call EXCEPT ![c] = r]

Init ==
  /\ masterKeys = [p \in {} |-> None]
  /\ call = [c \in Caller |-> Idle]
  /\ mixed = FALSE

\* Bytes are a sequence of what made them: texts and HMACs.
Text(name) == <<[text |-> name]>>
Hmac(key, data) == [key |-> key, data |-> data]
-----------------------------------------------------------------------------
(* RsaPairwiseKey. *)

\* generateDeterministicNumberForPrime: HMACs until there are enough bits, each of
\* all that was made before.  The first is of the peer.
Rounds(size) == (size + HashSize - 1) \div HashSize
DeterministicNumber(size, key, peer) ==
  LET round[n \in 1..Rounds(size)] ==
        IF n = 1 THEN <<Hmac(key, Text(peer))>>
        ELSE Append(round[n - 1], Hmac(key, round[n - 1]))
  IN round[Rounds(size)]

\* The closest prime; those of different numbers are different.
Prime(number) == [prime |-> number]

RsaKey_oneBase(masterKey, size, peer) ==
  LET base == DeterministicNumber(size \div 2, masterKey, peer)
  IN [p |-> Prime(base), q |-> Prime(base)]
RsaKey(masterKey, size, peer) ==
  LET pBase == DeterministicNumber(size \div 2, masterKey, peer)
  IN [p |-> Prime(pBase), q |-> Prime(DeterministicNumber(size \div 2, pBase, peer))]

\* EcPairwiseKey: the curve is secp256k1, whatever curve the algorithm names.
EcKey(masterKey, peer) == [d |-> Hmac(masterKey, Text(peer))]

\* An algorithm without size has one of its own.
DefaultSize == 4 * HashSize
KeyFor(algorithm, masterKey, peer) ==
  CASE algorithm.kty \in {"EC", "OKP"} -> EcKey(masterKey, peer)
    [] algorithm.kty = "RSA" ->
         RsaKey(masterKey, IF algorithm.size = 0 THEN DefaultSize ELSE algorithm.size, peer)
-----------------------------------------------------------------------------
(* PairwiseKey. *)

MasterKey(seed, persona) ==
  <<Hmac(<<[seed |-> seed]>>, Text(persona))>>

Cached(persona) == persona \in DOMAIN masterKeys

Ready(c) == call[c].pc \in {"idle", "derived"}

\* A second seed for a persona: the cache knows the persona only.
UsesOtherSeed(asked) ==
  \/ \E c \in Caller : /\ ~Ready(c)
                       /\ call[c].asked.persona = asked.persona
                       /\ call[c].asked.seed # asked.seed
  \/ /\ Cached(asked.persona)
     /\ masterKeys[asked.persona][1].key[1].seed # asked.seed

GenerateStart(c, algorithm, seed, persona, peer) ==
  LET asked == [algorithm |-> algorithm, seed |-> seed, persona |-> persona,
                peer |-> peer] IN
  /\ Ready(c)
  /\ mixed' = (mixed \/ UsesOtherSeed(asked))
  /\ IF Cached(persona)
     THEN Suspend(c, [pc |-> "deriving", asked |-> asked, masterKey |-> masterKeys[persona]])
     ELSE Suspend(c, [pc |-> "reading", asked |-> asked])
  /\ UNCHANGED masterKeys

\* The seed, the newest key of its container, has come; a new version of it is as
\* good as another seed.
SeedRead(c) ==
  LET asked == call[c].asked IN
  /\ call[c].pc = "reading"
  /\ Suspend(c, [pc |-> "signing", asked |-> asked,
                 masterKey |-> MasterKey(asked.seed, asked.persona)])
  /\ UNCHANGED <<masterKeys, mixed>>

MasterKeyMade_forAll(c) ==
  /\ call[c].pc = "signing"
  /\ masterKeys' = [p \in Persona |-> call[c].masterKey]
  /\ Suspend(c, [call[c] EXCEPT !.pc = "deriving"])
  /\ UNCHANGED mixed

\* The master key replaces the one of an overlapping call.
MasterKeyMade(c) ==
  LET persona == call[c].asked.persona IN
  /\ call[c].pc = "signing"
  /\ masterKeys' = [p \in DOMAIN masterKeys \cup {persona} |->
                      IF p = persona THEN call[c].masterKey ELSE masterKeys[p]]
  /\ Suspend(c, [call[c] EXCEPT !.pc = "deriving"])
  /\ UNCHANGED mixed

Derived(c) ==
  LET asked == call[c].asked IN
  /\ call[c].pc = "deriving"
  /\ Suspend(c, [pc |-> "derived", asked |-> asked,
                 key |-> KeyFor(asked.algorithm, call[c].masterKey, asked.peer)])
  /\ UNCHANGED <<masterKeys, mixed>>

\* A type of key without pairwise keys, a seed that is not there, a failure.
Rejected(c) ==
  /\ ~Ready(c)
  /\ Suspend(c, Idle)
  /\ UNCHANGED <<masterKeys, mixed>>

Next ==
  \E c \in Caller :
       \/ \E a \in Algorithm, s \in Seed, persona \in Persona, peer \in Peer :
            GenerateStart(c, a, s, persona, peer)
       \/ SeedRead(c) \/ MasterKeyMade(c) \/ Derived(c) \/ Rejected(c)

Spec == Init /\ [][Next]_vars
-----------------------------------------------------------------------------
\* The same question has the same answer, the one without any cache, whether the
\* master key was in the cache or not and whatever calls overlapped, as long as
\* every persona keeps to one seed.
SameQuestionSameKey ==
  \A c \in Caller : call[c].pc = "derived" /\ ~mixed =>
    LET asked == call[c].asked
    IN call[c].key =
         KeyFor(asked.algorithm, MasterKey(asked.seed, asked.persona), asked.peer)

\* No two pairs of a persona and a peer share a key, or a prime of one, whichever
\* seeds they use, and the primes of an RSA key are different.
PairsShareNothing ==
  \A c \in Caller : call[c].pc = "derived" =>
    LET asked == call[c].asked
        parts(key) == {key[f] : f \in DOMAIN key}
    IN /\ asked.algorithm.kty = "RSA" => call[c].key.p # call[c].key.q
       /\ \A persona \in Persona, peer \in Peer, a \in Algorithm :
            \A s \in Seed :
              <<persona, peer>> # <<asked.persona, asked.peer>> =>
                parts(call[c].key)
                  \cap parts(KeyFor(a, MasterKey(s, persona), peer)) = {}
=============================================================================
