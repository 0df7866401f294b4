------------------------- MODULE PairwiseKeys_proofs -------------------------
(* Proofs about PairwiseKeys, for every value of the constants of Plugins. *)
EXTENDS Plugins_proofs

-----------------------------------------------------------------------------
(* The invariant. *)

Asked == [algorithm : KeyAlgorithm, seed : Seed, persona : Persona, peer : Peer]

\* The master key that a question is about.
MasterOf(asked) == Pairwise!MasterKey(asked.seed, asked.persona)

\* A master key of a persona, made from some seed.
Masters(m, persona) == \E s : m = Pairwise!MasterKey(s, persona)

\* What a call holds at each place.
Shape(r) ==
  /\ r.pc \in {"idle", "reading", "signing", "deriving", "derived"}
  /\ r.pc # "idle" => r.asked \in Asked
  /\ r.pc = "signing" =>
       /\ r = [pc |-> "signing", asked |-> r.asked, masterKey |-> r.masterKey]
       /\ r.masterKey = MasterOf(r.asked)
  /\ r.pc = "deriving" => Masters(r.masterKey, r.asked.persona)
  /\ r.pc = "derived" =>
       \E m : /\ Masters(m, r.asked.persona)
              /\ r.key = Pairwise!KeyFor(r.asked.algorithm, m, r.asked.peer)

Busy(r) == r.pc \notin {"idle", "derived"}

\* What a call holds when every persona keeps to one seed.
Answers(r) ==
  /\ r.pc = "deriving" => r.masterKey = MasterOf(r.asked)
  /\ r.pc = "derived" =>
       r.key = Pairwise!KeyFor(r.asked.algorithm, MasterOf(r.asked), r.asked.peer)

\* The calls and the cache have one seed for every persona.
OneSeed ==
  /\ \A c, d \in Caller :
       Busy(pairwiseCall[c]) /\ Busy(pairwiseCall[d]) /\ pairwiseCall[c].asked.persona = pairwiseCall[d].asked.persona
         => pairwiseCall[c].asked.seed = pairwiseCall[d].asked.seed
  /\ \A c \in Caller :
       Busy(pairwiseCall[c]) /\ pairwiseCall[c].asked.persona \in DOMAIN masterKeys
         => masterKeys[pairwiseCall[c].asked.persona] = MasterOf(pairwiseCall[c].asked)
  /\ \A c \in Caller : Answers(pairwiseCall[c])

\* A cached master key is the persona's.
MastersFit == \A p \in DOMAIN masterKeys : Masters(masterKeys[p], p)

PairwiseInv ==
  /\ pairwiseCall = [c \in Caller |-> pairwiseCall[c]]
  /\ \A c \in Caller : Shape(pairwiseCall[c])
  /\ MastersFit
  /\ ~mixed => OneSeed

Inv == PairwiseInv /\ mixed \in BOOLEAN

\* A master key tells its seed.
LEMMA SeedOf ==
  ASSUME NEW s, NEW p
  PROVE  Pairwise!MasterKey(s, p)[1].key[1].seed = s
  BY DEF Pairwise!MasterKey, Pairwise!Hmac

\* The empty cache has the invariant.
LEMMA PairwiseInit == Pairwise!Init => PairwiseInv
<1> SUFFICES ASSUME Pairwise!Init PROVE PairwiseInv
  OBVIOUS
<1>1. \A c \in Caller : pairwiseCall[c] = Pairwise!Idle
  BY DEF Pairwise!Init
<1>2. Pairwise!Idle.pc = "idle"
  BY DEF Pairwise!Idle
<1>3. DOMAIN masterKeys = {}
  BY DEF Pairwise!Init
<1>4. OneSeed
  BY <1>1, <1>2 DEF OneSeed, Busy, Answers
<1>. QED
  BY <1>1, <1>2, <1>3, <1>4 DEF Pairwise!Init, PairwiseInv, Shape, MastersFit
-----------------------------------------------------------------------------
(* The actions. *)

\* A step of one call that leaves the cache alone.
LEMMA CallStep ==
  ASSUME PairwiseInv, NEW c \in Caller, NEW r, pairwiseCall' = [pairwiseCall EXCEPT ![c] = r],
         UNCHANGED masterKeys, mixed' \in BOOLEAN, mixed => mixed', Shape(r),
         ~mixed' => Answers(r),
         ~mixed' /\ Busy(r) =>
           /\ r.asked.persona \in DOMAIN masterKeys =>
                masterKeys[r.asked.persona] = MasterOf(r.asked)
           /\ \A d \in Caller \ {c} :
                Busy(pairwiseCall[d]) /\ pairwiseCall[d].asked.persona = r.asked.persona
                  => pairwiseCall[d].asked.seed = r.asked.seed
  PROVE  PairwiseInv'
<1>1. /\ pairwiseCall' = [d \in Caller |-> pairwiseCall'[d]]
      /\ pairwiseCall'[c] = r
      /\ \A d \in Caller : d # c => pairwiseCall'[d] = pairwiseCall[d]
  BY DEF PairwiseInv
<1>2. \A d \in Caller : Shape(pairwiseCall'[d])
  BY <1>1 DEF PairwiseInv
<1>3. MastersFit'
  BY DEF PairwiseInv, MastersFit
<1>4. ASSUME ~mixed' PROVE OneSeed'
  <2>1. OneSeed
    BY <1>4 DEF PairwiseInv
  <2>2. ASSUME NEW d \in Caller, NEW e \in Caller, Busy(pairwiseCall'[d]), Busy(pairwiseCall'[e]),
               pairwiseCall'[d].asked.persona = pairwiseCall'[e].asked.persona
        PROVE  pairwiseCall'[d].asked.seed = pairwiseCall'[e].asked.seed
    <3>1. CASE d = c /\ e = c
      BY <3>1
    <3>2. CASE d = c /\ e # c
      BY <1>1, <1>4, <2>2, <3>2
    <3>3. CASE d # c /\ e = c
      BY <1>1, <1>4, <2>2, <3>3
    <3>4. CASE d # c /\ e # c
      BY <1>1, <2>1, <2>2, <3>4 DEF OneSeed
    <3>. QED
      BY <3>1, <3>2, <3>3, <3>4
  <2>3. ASSUME NEW d \in Caller, Busy(pairwiseCall'[d]),
               pairwiseCall'[d].asked.persona \in DOMAIN masterKeys'
        PROVE  masterKeys'[pairwiseCall'[d].asked.persona] = MasterOf(pairwiseCall'[d].asked)
    <3>1. CASE d = c
      BY <1>1, <1>4, <2>3, <3>1
    <3>2. CASE d # c
      BY <1>1, <2>1, <2>3, <3>2 DEF OneSeed
    <3>. QED
      BY <3>1, <3>2
  <2>4. ASSUME NEW d \in Caller PROVE Answers(pairwiseCall'[d])
    <3>1. CASE d = c
      BY <1>1, <1>4, <3>1
    <3>2. CASE d # c
      BY <1>1, <2>1, <3>2 DEF OneSeed
    <3>. QED
      BY <3>1, <3>2
  <2>. QED
    BY <2>2, <2>3, <2>4 DEF OneSeed
<1>. QED
  BY <1>1, <1>2, <1>3, <1>4 DEF PairwiseInv

\* A question takes the master key in the cache, if there is one, and tells
\* when it is about another seed.
LEMMA GenerateStartKeeps ==
  ASSUME PairwiseInv, NEW c \in Caller, NEW algorithm \in KeyAlgorithm, NEW seed \in Seed,
         NEW persona \in Persona, NEW peer \in Peer, mixed \in BOOLEAN,
         Pairwise!GenerateStart(c, algorithm, seed, persona, peer)
  PROVE  PairwiseInv'
<1> DEFINE asked == [algorithm |-> algorithm, seed |-> seed, persona |-> persona,
                     peer |-> peer]
<1>1. asked \in Asked /\ asked.persona = persona /\ asked.seed = seed
  BY DEF Asked
<1>2. /\ Pairwise!Ready(c) /\ mixed' = (mixed \/ Pairwise!UsesOtherSeed(asked)) /\ UNCHANGED masterKeys
  BY DEF Pairwise!GenerateStart
<1> HIDE DEF asked
<1>3. mixed' \in BOOLEAN /\ (mixed => mixed')
        /\ (~mixed' => ~mixed) /\ (~mixed' => ~Pairwise!UsesOtherSeed(asked))
  BY <1>2 DEF Pairwise!UsesOtherSeed
<1>4. ASSUME ~mixed'
      PROVE  /\ persona \in DOMAIN masterKeys => masterKeys[persona] = MasterOf(asked)
             /\ \A d \in Caller \ {c} :
                  Busy(pairwiseCall[d]) /\ pairwiseCall[d].asked.persona = persona
                    => pairwiseCall[d].asked.seed = seed
  <2>1. ~Pairwise!UsesOtherSeed(asked)
    BY <1>3, <1>4
  <2>2. ASSUME NEW d \in Caller, Busy(pairwiseCall[d]), pairwiseCall[d].asked.persona = persona
        PROVE  pairwiseCall[d].asked.seed = seed
    BY <1>1, <2>1, <2>2 DEF Pairwise!UsesOtherSeed, Pairwise!Ready, Busy
  <2>3. ASSUME persona \in DOMAIN masterKeys
        PROVE  masterKeys[persona] = MasterOf(asked)
    <3>1. masterKeys[persona][1].key[1].seed = seed
      BY <1>1, <2>1, <2>3 DEF Pairwise!UsesOtherSeed, Pairwise!Cached
    <3>2. PICK s : masterKeys[persona] = Pairwise!MasterKey(s, persona)
      BY <2>3 DEF PairwiseInv, MastersFit, Masters
    <3>3. s = seed
      BY <3>1, <3>2, SeedOf
    <3>. QED
      BY <1>1, <3>2, <3>3 DEF MasterOf
  <2>. QED
    BY <2>2, <2>3
<1>5. CASE Pairwise!Cached(persona)
  <2> DEFINE r == [pc |-> "deriving", asked |-> asked, masterKey |-> masterKeys[persona]]
  <2>1. pairwiseCall' = [pairwiseCall EXCEPT ![c] = r]
    BY <1>5 DEF Pairwise!GenerateStart, Pairwise!Suspend, asked
  <2>2. r.pc = "deriving" /\ r.asked = asked /\ r.masterKey = masterKeys[persona]
    OBVIOUS
  <2> HIDE DEF r
  <2>3. Shape(r)
    <3>1. Masters(r.masterKey, r.asked.persona)
      BY <1>1, <1>5, <2>2 DEF Pairwise!Cached, PairwiseInv, MastersFit
    <3>. QED
      BY <1>1, <2>2, <3>1 DEF Shape
  <2>4. ~mixed' => Answers(r)
    BY <1>4, <1>5, <2>2 DEF Answers, Pairwise!Cached
  <2>. QED
    BY <1>1, <1>2, <1>3, <1>4, <2>1, <2>2, <2>3, <2>4, CallStep
<1>6. CASE ~Pairwise!Cached(persona)
  <2> DEFINE r == [pc |-> "reading", asked |-> asked]
  <2>1. pairwiseCall' = [pairwiseCall EXCEPT ![c] = r]
    BY <1>6 DEF Pairwise!GenerateStart, Pairwise!Suspend, asked
  <2>2. r.pc = "reading" /\ r.asked = asked
    OBVIOUS
  <2> HIDE DEF r
  <2>3. Shape(r) /\ Answers(r)
    BY <1>1, <2>2 DEF Shape, Answers
  <2>. QED
    BY <1>1, <1>2, <1>3, <1>4, <2>1, <2>2, <2>3, CallStep
<1>. QED
  BY <1>5, <1>6

\* A call that goes on with its question.
LEMMA GoOn ==
  ASSUME PairwiseInv, mixed \in BOOLEAN, NEW c \in Caller, NEW r,
         pairwiseCall' = [pairwiseCall EXCEPT ![c] = r], UNCHANGED <<masterKeys, mixed>>,
         Shape(r), ~mixed => Answers(r),
         Busy(r) => Busy(pairwiseCall[c]) /\ r.asked = pairwiseCall[c].asked
  PROVE  PairwiseInv'
<1>1. ~mixed' /\ Busy(r) =>
        /\ r.asked.persona \in DOMAIN masterKeys =>
             masterKeys[r.asked.persona] = MasterOf(r.asked)
        /\ \A d \in Caller \ {c} :
             Busy(pairwiseCall[d]) /\ pairwiseCall[d].asked.persona = r.asked.persona
               => pairwiseCall[d].asked.seed = r.asked.seed
  BY DEF PairwiseInv, OneSeed
<1>. QED
  BY <1>1, CallStep

\* The master key of a question is made from its seed.
LEMMA SeedReadKeeps ==
  ASSUME PairwiseInv, mixed \in BOOLEAN, NEW c \in Caller, Pairwise!SeedRead(c)
  PROVE  PairwiseInv'
<1> DEFINE asked == pairwiseCall[c].asked
           r == [pc |-> "signing", asked |-> asked, masterKey |-> MasterOf(asked)]
<1>1. pairwiseCall[c].pc = "reading" /\ UNCHANGED <<masterKeys, mixed>>
        /\ pairwiseCall' = [pairwiseCall EXCEPT ![c] = r]
  BY DEF Pairwise!SeedRead, Pairwise!Suspend, MasterOf
<1>2. asked \in Asked
  BY <1>1 DEF PairwiseInv, Shape
<1>3. r.pc = "signing" /\ r.asked = asked /\ r.masterKey = MasterOf(asked)
  OBVIOUS
<1>4. r = [pc |-> "signing", asked |-> r.asked, masterKey |-> r.masterKey]
  OBVIOUS
<1> HIDE DEF r
<1>5. Shape(r) /\ Answers(r) /\ Busy(pairwiseCall[c])
  BY <1>1, <1>2, <1>3, <1>4 DEF Shape, Answers, Busy
<1>. QED
  BY <1>1, <1>3, <1>5, GoOn

\* It replaces the one of an overlapping call, which is the same.
LEMMA MasterKeyMadeKeeps ==
  ASSUME PairwiseInv, mixed \in BOOLEAN, NEW c \in Caller, Pairwise!MasterKeyMade(c)
  PROVE  PairwiseInv'
<1> DEFINE asked == pairwiseCall[c].asked
           persona == asked.persona
           r == [pairwiseCall[c] EXCEPT !.pc = "deriving"]
<1>1. /\ pairwiseCall[c].pc = "signing" /\ UNCHANGED mixed
      /\ pairwiseCall' = [pairwiseCall EXCEPT ![c] = r]
      /\ masterKeys' = [p \in DOMAIN masterKeys \cup {persona} |->
                          IF p = persona THEN pairwiseCall[c].masterKey ELSE masterKeys[p]]
  BY DEF Pairwise!MasterKeyMade, Pairwise!Suspend
<1>2. /\ asked \in Asked /\ pairwiseCall[c].masterKey = MasterOf(asked)
      /\ pairwiseCall[c] = [pc |-> "signing", asked |-> asked, masterKey |-> pairwiseCall[c].masterKey]
  BY <1>1 DEF PairwiseInv, Shape
<1>3. r.pc = "deriving" /\ r.asked = asked /\ r.masterKey = MasterOf(asked)
  BY <1>2
<1> HIDE DEF r
<1>4. Shape(r) /\ Answers(r) /\ Busy(pairwiseCall[c])
  <2>1. Masters(r.masterKey, r.asked.persona)
    BY <1>3 DEF Masters, MasterOf
  <2>. QED
    BY <1>1, <1>2, <1>3, <2>1 DEF Shape, Answers, Busy
<1>5. /\ pairwiseCall' = [d \in Caller |-> pairwiseCall'[d]]
      /\ pairwiseCall'[c] = r
      /\ \A d \in Caller : d # c => pairwiseCall'[d] = pairwiseCall[d]
  BY <1>1 DEF PairwiseInv
<1>6. \A d \in Caller : Shape(pairwiseCall'[d])
  BY <1>4, <1>5 DEF PairwiseInv
<1>7. masterKeys'[persona] = MasterOf(asked)
        /\ \A p \in DOMAIN masterKeys' : p # persona =>
             p \in DOMAIN masterKeys /\ masterKeys'[p] = masterKeys[p]
  BY <1>1, <1>2
<1>8. MastersFit'
  <2>1. ASSUME NEW p \in DOMAIN masterKeys'
        PROVE  Masters(masterKeys'[p], p)
    <3>1. CASE p = persona
      BY <1>7, <3>1 DEF MasterOf, Masters
    <3>2. CASE p # persona
      BY <1>7, <3>2 DEF PairwiseInv, MastersFit
    <3>. QED
      BY <3>1, <3>2
  <2>. QED
    BY <2>1 DEF MastersFit
<1>9. ASSUME ~mixed' PROVE OneSeed'
  <2>1. OneSeed
    BY <1>1, <1>9 DEF PairwiseInv
  <2>2. ASSUME NEW d \in Caller, Busy(pairwiseCall'[d])
        PROVE  Busy(pairwiseCall[d]) /\ pairwiseCall'[d].asked = pairwiseCall[d].asked
    BY <1>3, <1>4, <1>5, <2>2
  <2>3. ASSUME NEW d \in Caller, Busy(pairwiseCall'[d]),
               pairwiseCall'[d].asked.persona \in DOMAIN masterKeys'
        PROVE  masterKeys'[pairwiseCall'[d].asked.persona] = MasterOf(pairwiseCall'[d].asked)
    <3>1. CASE pairwiseCall[d].asked.persona = persona
      <4>1. pairwiseCall[d].asked.seed = asked.seed
        BY <1>4, <2>1, <2>2, <2>3, <3>1 DEF OneSeed
      <4>. QED
        BY <1>7, <2>2, <2>3, <3>1, <4>1 DEF MasterOf
    <3>2. CASE pairwiseCall[d].asked.persona # persona
      BY <1>7, <2>1, <2>2, <2>3, <3>2 DEF OneSeed
    <3>. QED
      BY <3>1, <3>2
  <2>4. \A d \in Caller : Answers(pairwiseCall'[d])
    BY <1>4, <1>5, <2>1 DEF OneSeed
  <2>5. ASSUME NEW d \in Caller, NEW e \in Caller, Busy(pairwiseCall'[d]), Busy(pairwiseCall'[e]),
               pairwiseCall'[d].asked.persona = pairwiseCall'[e].asked.persona
        PROVE  pairwiseCall'[d].asked.seed = pairwiseCall'[e].asked.seed
    BY <2>1, <2>2, <2>5 DEF OneSeed
  <2>. QED
    BY <2>3, <2>4, <2>5 DEF OneSeed
<1>. QED
  BY <1>5, <1>6, <1>8, <1>9 DEF PairwiseInv

\* The answer is the key of the master key.
LEMMA DerivedKeeps ==
  ASSUME PairwiseInv, mixed \in BOOLEAN, NEW c \in Caller, Pairwise!Derived(c)
  PROVE  PairwiseInv'
<1> DEFINE asked == pairwiseCall[c].asked
           key == Pairwise!KeyFor(asked.algorithm, pairwiseCall[c].masterKey, asked.peer)
           r == [pc |-> "derived", asked |-> asked, key |-> key]
<1>1. pairwiseCall[c].pc = "deriving" /\ UNCHANGED <<masterKeys, mixed>>
        /\ pairwiseCall' = [pairwiseCall EXCEPT ![c] = r]
  BY DEF Pairwise!Derived, Pairwise!Suspend
<1>2. asked \in Asked
  BY <1>1 DEF PairwiseInv, Shape
<1>3. ~mixed => pairwiseCall[c].masterKey = MasterOf(asked)
  BY <1>1 DEF PairwiseInv, OneSeed, Answers
<1> HIDE DEF key
<1>4. r.pc = "derived" /\ r.asked = asked /\ r.key = key
  OBVIOUS
<1> HIDE DEF r
<1>5. ~mixed => Answers(r)
  BY <1>3, <1>4 DEF Answers, key
<1>6. Shape(r) /\ ~Busy(r)
  <2>1. Masters(pairwiseCall[c].masterKey, asked.persona)
    BY <1>1 DEF PairwiseInv, Shape
  <2>. QED
    BY <1>2, <1>4, <2>1 DEF Shape, Busy, key
<1>. QED
  BY <1>1, <1>5, <1>6, GoOn

\* A call that is rejected ends.
LEMMA RejectedKeeps ==
  ASSUME PairwiseInv, mixed \in BOOLEAN, NEW c \in Caller, Pairwise!Rejected(c)
  PROVE  PairwiseInv'
<1>1. UNCHANGED <<masterKeys, mixed>> /\ pairwiseCall' = [pairwiseCall EXCEPT ![c] = Pairwise!Idle]
  BY DEF Pairwise!Rejected, Pairwise!Suspend
<1>2. Shape(Pairwise!Idle) /\ Answers(Pairwise!Idle) /\ ~Busy(Pairwise!Idle)
  BY DEF Pairwise!Idle, Shape, Answers, Busy
<1>. QED
  BY <1>1, <1>2, GoOn

\* Every step.
LEMMA PairwiseNext == Inv /\ [Pairwise!Next]_Pairwise!vars => Inv'
<1> SUFFICES ASSUME PairwiseInv, mixed \in BOOLEAN, [Pairwise!Next]_Pairwise!vars
             PROVE  PairwiseInv' /\ mixed' \in BOOLEAN
  BY DEF Inv
<1>1. CASE UNCHANGED Pairwise!vars
  BY <1>1 DEF Pairwise!vars, PairwiseInv, MastersFit, OneSeed
<1>2. CASE Pairwise!Next
  <2>1. ASSUME NEW c \in Caller, NEW a \in KeyAlgorithm, NEW s \in Seed,
               NEW persona \in Persona, NEW peer \in Peer,
               Pairwise!GenerateStart(c, a, s, persona, peer)
        PROVE  PairwiseInv' /\ mixed' \in BOOLEAN
    <3>1. mixed' \in BOOLEAN
      BY <2>1 DEF Pairwise!GenerateStart, Pairwise!UsesOtherSeed
    <3>. QED
      BY <2>1, <3>1, GenerateStartKeeps
  <2>2. ASSUME NEW c \in Caller,
               Pairwise!SeedRead(c) \/ Pairwise!MasterKeyMade(c) \/ Pairwise!Derived(c) \/ Pairwise!Rejected(c)
        PROVE  PairwiseInv' /\ mixed' \in BOOLEAN
    <3>1. UNCHANGED mixed
      BY <2>2 DEF Pairwise!SeedRead, Pairwise!MasterKeyMade, Pairwise!Derived, Pairwise!Rejected
    <3>. QED
      BY <2>2, <3>1, SeedReadKeeps, MasterKeyMadeKeeps, DerivedKeeps, RejectedKeeps
  <2>. QED
    BY <1>2, <2>1, <2>2 DEF Pairwise!Next
<1>. QED
  BY <1>1, <1>2

\* The invariant.
LEMMA PairwiseInvHolds == PluginsSpec => []Inv
<1>1. PluginsInit => Pairwise!Init
  BY DEF PluginsInit
<1>2. [PluginsNext]_pluginsVars => [Pairwise!Next]_Pairwise!vars
  BY DEF PluginsNext, pluginsVars, pairwiseVars, Pairwise!vars
<1>3. Pairwise!Init => Inv
  BY PairwiseInit DEF Pairwise!Init, Inv
<1>. QED
  BY <1>1, <1>2, <1>3, PairwiseNext, PTL DEF PluginsSpec
-----------------------------------------------------------------------------
\* Whatever calls overlap, a derived key is the one of its question without any
\* cache, as long as every persona keeps to one seed.
THEOREM SameQuestion == PluginsSpec => []SameQuestionSameKey
<1>1. Inv => SameQuestionSameKey
  <2> SUFFICES ASSUME PairwiseInv, ~mixed, NEW c \in Caller, pairwiseCall[c].pc = "derived"
               PROVE  pairwiseCall[c].key =
                        Pairwise!KeyFor(pairwiseCall[c].asked.algorithm,
                               Pairwise!MasterKey(pairwiseCall[c].asked.seed, pairwiseCall[c].asked.persona),
                               pairwiseCall[c].asked.peer)
    BY DEF Inv, SameQuestionSameKey, Pairwise!SameQuestionSameKey
  <2>1. Answers(pairwiseCall[c])
    BY DEF PairwiseInv, OneSeed
  <2>. QED
    BY <2>1 DEF Answers, MasterOf
<1>. QED
  BY <1>1, PairwiseInvHolds, PTL
-----------------------------------------------------------------------------
(* The keys. *)

\* There is a round at least, as PairwiseKey starts with one.
LEMMA SomeRound ==
  ASSUME NEW size \in Nat \ {0}
  PROVE  Pairwise!Rounds(size) \in Nat \ {0}
<1>1. HashSize \in Nat \ {0}
  BY PairwiseAssumption
<1> DEFINE x == size + HashSize - 1
<1>2. x \in Nat /\ x >= HashSize
  BY <1>1
<1> HIDE DEF x
<1>3. x \div HashSize \in Nat /\ x \div HashSize # 0
  BY <1>1, <1>2
<1>. QED
  BY <1>3 DEF x, Pairwise!Rounds

\* A sequence with one more element starts like it.
LEMMA Longer ==
  ASSUME NEW S, NEW s \in Seq(S), s # << >>, NEW e
  PROVE  /\ Append(s, e) \in Seq(S \cup {e}) /\ Append(s, e) # << >>
         /\ Append(s, e)[1] = s[1]
<1>1. s \in Seq(S \cup {e})
  <2>1. /\ Len(s) \in Nat /\ s = [i \in 1..Len(s) |-> s[i]]
        /\ \A i \in 1..Len(s) : s[i] \in S
    OBVIOUS
  <2>2. s \in [1..Len(s) -> S \cup {e}]
    BY <2>1
  <2>. QED
    BY <2>1, <2>2
<1>2. Len(s) \in Nat \ {0}
  OBVIOUS
<1>. QED
  BY <1>1, <1>2

\* A deterministic number starts with the HMAC of the peer.
LEMMA NumberStarts ==
  ASSUME NEW size \in Nat \ {0}, NEW key, NEW peer
  PROVE  Pairwise!DeterministicNumber(size, key, peer)[1]
           = Pairwise!Hmac(key, Pairwise!Text(peer))
<1> DEFINE h == Pairwise!Hmac(key, Pairwise!Text(peer))
           R == Pairwise!Rounds(size)
           More(s) == Append(s, Pairwise!Hmac(key, s))
           Step(f, n) == IF n = 1 THEN <<h>> ELSE More(f[n - 1])
           Recursion(f, n) == f = [m \in 1..n |-> Step(f, m)]
           Starts(s) == /\ \E S : s \in Seq(S)
                        /\ s # << >> /\ s[1] = h
           T == {n \in Nat : \E f : Recursion(f, n)}
<1>1. R \in Nat \ {0}
  BY SomeRound
<1>2. Pairwise!DeterministicNumber(size, key, peer) = (CHOOSE f : Recursion(f, R))[R]
  BY DEF Pairwise!DeterministicNumber
<1> HIDE DEF h, R, More
<1>3. T = Nat
  <2>1. 0 \in T
    <3>1. Recursion([m \in 1..0 |-> h], 0)
      OBVIOUS
    <3>. QED
      BY <3>1
  <2>2. ASSUME NEW n \in T PROVE n + 1 \in T
    <3>1. PICK f : Recursion(f, n)
      OBVIOUS
    <3> DEFINE g == [m \in 1..(n + 1) |-> Step(f, m)]
    <3>2. \A m \in 1..n : f[m] = Step(f, m)
      BY <3>1
    <3>3. \A m \in 1..(n + 1) : Step(g, m) = Step(f, m)
      <4>1. ASSUME NEW m \in 1..(n + 1), m # 1 PROVE g[m - 1] = f[m - 1]
        <5>1. m - 1 \in 1..n /\ m - 1 \in 1..(n + 1)
          BY <4>1
        <5>. QED
          BY <3>2, <5>1
      <4> HIDE DEF g
      <4>. QED
        BY <4>1
    <3>4. Recursion(g, n + 1)
      BY <3>3
    <3>5. n + 1 \in Nat
      OBVIOUS
    <3> HIDE DEF Recursion, g
    <3>. QED
      BY <3>4, <3>5
  <2> HIDE DEF T
  <2>3. T \in SUBSET Nat
    BY DEF T
  <2>. QED
    BY <2>1, <2>2, <2>3, Upward
<1> DEFINE f == CHOOSE f : Recursion(f, R)
<1>4. Recursion(f, R)
  <2>1. \E g : Recursion(g, R)
    BY <1>1, <1>3
  <2>. QED
    BY <2>1
<1> HIDE DEF f, T
<1>5. \A n \in 1..R : f[n] = Step(f, n)
  BY <1>4
<1> HIDE DEF Recursion
<1> DEFINE V == {n \in Nat : n + 1 \in 1..R => Starts(f[n + 1])}
<1>6. 0 \in V
  <2>1. f[1] = <<h>>
    BY <1>1, <1>5
  <2>2. <<h>> \in Seq({h}) /\ <<h>> # << >> /\ <<h>>[1] = h
    OBVIOUS
  <2>3. Starts(f[0 + 1])
    <3>1. f[0 + 1] = <<h>>
      BY <2>1
    <3>2. Starts(<<h>>)
      BY <2>2
    <3>. QED
      BY <3>1, <3>2
  <2> HIDE DEF Starts
  <2>. QED
    BY <2>3
<1>7. ASSUME NEW n \in V PROVE n + 1 \in V
  <2> SUFFICES ASSUME n + 2 \in 1..R PROVE Starts(f[n + 2])
    OBVIOUS
  <2> DEFINE s == f[n + 1]
  <2>1. n + 1 \in 1..R
    BY <1>1
  <2>2. f[n + 2] = More(s)
    <3>1. n + 2 # 1 /\ (n + 2) - 1 = n + 1
      BY <1>1
    <3>2. f[n + 2] = Step(f, n + 2)
      BY <1>5
    <3>. QED
      BY <3>1, <3>2
  <2>3. Starts(s)
    BY <2>1
  <2> HIDE DEF s
  <2>4. Starts(More(s))
    <3>1. PICK S : s \in Seq(S)
      BY <2>3
    <3>. QED
      BY <2>3, <3>1, Longer DEF More
  <2>. QED
    BY <2>2, <2>4
<1> HIDE DEF V
<1>8. V = Nat
  <2>1. V \in SUBSET Nat
    BY DEF V
  <2>. QED
    BY <1>6, <1>7, <2>1, Upward
<1>9. Starts(f[R])
  <2>1. R - 1 \in V
    BY <1>1, <1>8
  <2>2. (R - 1) + 1 = R /\ R \in 1..R
    BY <1>1
  <2>. QED
    BY <2>1, <2>2 DEF V
<1>. QED
  BY <1>2, <1>9 DEF f, h

\* An HMAC tells its key and, when it is of a text, the text.
LEMMA HmacsDiffer ==
  ASSUME NEW k, NEW l, NEW p, NEW q,
         Pairwise!Hmac(k, Pairwise!Text(p)) = Pairwise!Hmac(l, Pairwise!Text(q))
  PROVE  k = l /\ p = q
<1>1. k = l /\ Pairwise!Text(p) = Pairwise!Text(q)
  BY DEF Pairwise!Hmac
<1>2. Pairwise!Text(p)[1].text = p /\ Pairwise!Text(q)[1].text = q
  BY DEF Pairwise!Text
<1>. QED
  BY <1>1, <1>2

\* A master key tells its persona.
LEMMA PersonaOf ==
  ASSUME NEW m, NEW p, NEW q, Masters(m, p), Masters(m, q)
  PROVE  p = q
<1>1. PICK s : m = Pairwise!MasterKey(s, p)
  BY DEF Masters
<1>2. PICK t : m = Pairwise!MasterKey(t, q)
  BY DEF Masters
<1>3. /\ m[1] = Pairwise!Hmac(<<[seed |-> s]>>, Pairwise!Text(p))
      /\ m[1] = Pairwise!Hmac(<<[seed |-> t]>>, Pairwise!Text(q))
  BY <1>1, <1>2 DEF Pairwise!MasterKey
<1>. QED
  BY <1>3, HmacsDiffer

\* A number that was derived from a master key is no master key: it starts with
\* an HMAC of that, and a master key is one of the seed.
LEMMA NotMaster ==
  ASSUME NEW m, NEW persona, Masters(m, persona), NEW n, NEW other, Masters(n, other),
         NEW size \in Nat \ {0}, NEW peer
  PROVE  m # Pairwise!DeterministicNumber(size, n, peer)
<1> SUFFICES ASSUME m = Pairwise!DeterministicNumber(size, n, peer) PROVE FALSE
  OBVIOUS
<1>1. PICK s : m = Pairwise!MasterKey(s, persona)
  BY DEF Masters
<1>2. PICK t : n = Pairwise!MasterKey(t, other)
  BY DEF Masters
<1>3. m[1].key = <<[seed |-> s]>>
  BY <1>1 DEF Pairwise!MasterKey, Pairwise!Hmac
<1>4. m[1].key = n
  <2>1. m[1] = Pairwise!Hmac(n, Pairwise!Text(peer))
    BY NumberStarts
  <2>. QED
    BY <2>1 DEF Pairwise!Hmac
<1>5. n[1] = Pairwise!Hmac(<<[seed |-> t]>>, Pairwise!Text(other))
  BY <1>2 DEF Pairwise!MasterKey
<1>6. DOMAIN n[1] = {"key", "data"}
  BY <1>5 DEF Pairwise!Hmac
<1>7. n[1] = [seed |-> s]
  BY <1>3, <1>4
<1>8. DOMAIN n[1] = {"seed"}
  BY <1>7
<1>. QED
  BY <1>6, <1>8

\* The numbers of two pairs, and the two of one RSA key, are different: First is
\* the one that p is made from, Second the one of q.
First(size, m, peer) == Pairwise!DeterministicNumber(size, m, peer)
Second(size, m, peer) == First(size, First(size, m, peer), peer)

\* The first numbers of two pairs differ.
LEMMA FirstDiffer ==
  ASSUME NEW m, NEW persona, Masters(m, persona), NEW n, NEW other, Masters(n, other),
         NEW size \in Nat \ {0}, NEW width \in Nat \ {0}, NEW peer, NEW q,
         First(size, m, peer) = First(width, n, q)
  PROVE  persona = other /\ peer = q
<1>1. /\ First(size, m, peer)[1] = Pairwise!Hmac(m, Pairwise!Text(peer))
      /\ First(width, n, q)[1] = Pairwise!Hmac(n, Pairwise!Text(q))
  BY NumberStarts DEF First
<1>2. m = n /\ peer = q
  BY <1>1, HmacsDiffer
<1>. QED
  BY <1>2, PersonaOf

\* So do the second ones.
LEMMA SecondDiffer ==
  ASSUME NEW m, NEW persona, Masters(m, persona), NEW n, NEW other, Masters(n, other),
         NEW size \in Nat \ {0}, NEW width \in Nat \ {0}, NEW peer, NEW q,
         Second(size, m, peer) = Second(width, n, q)
  PROVE  persona = other /\ peer = q
<1>1. /\ Second(size, m, peer)[1] = Pairwise!Hmac(First(size, m, peer), Pairwise!Text(peer))
      /\ Second(width, n, q)[1] = Pairwise!Hmac(First(width, n, q), Pairwise!Text(q))
  BY NumberStarts DEF First, Second
<1>2. First(size, m, peer) = First(width, n, q)
  BY <1>1, HmacsDiffer
<1>. QED
  BY <1>2, FirstDiffer

\* A first number is no second one.
LEMMA FirstNotSecond ==
  ASSUME NEW m, NEW persona, Masters(m, persona), NEW n, NEW other, Masters(n, other),
         NEW size \in Nat \ {0}, NEW width \in Nat \ {0}, NEW peer, NEW q
  PROVE  First(size, m, peer) # Second(width, n, q)
<1> SUFFICES ASSUME First(size, m, peer) = Second(width, n, q) PROVE FALSE
  OBVIOUS
<1>1. /\ First(size, m, peer)[1] = Pairwise!Hmac(m, Pairwise!Text(peer))
      /\ Second(width, n, q)[1] = Pairwise!Hmac(First(width, n, q), Pairwise!Text(q))
  BY NumberStarts DEF First, Second
<1>2. m = First(width, n, q)
  BY <1>1, HmacsDiffer
<1>. QED
  BY <1>2, NotMaster DEF First

\* What a key is made of.
Parts(key) == {key[f] : f \in DOMAIN key}
EcParts(m, peer) == {Pairwise!Hmac(m, Pairwise!Text(peer))}
RsaParts(size, m, peer) ==
  {Pairwise!Prime(First(size, m, peer)), Pairwise!Prime(Second(size, m, peer))}

\* A key for an algorithm is of one of the two kinds.
LEMMA PartsOf ==
  ASSUME NEW a \in KeyAlgorithm, NEW m, NEW peer
  PROVE  LET key == Pairwise!KeyFor(a, m, peer) IN
         \/ a.kty # "RSA" /\ Parts(key) = EcParts(m, peer)
         \/ /\ a.kty = "RSA"
            /\ \E size \in Nat \ {0} :
                 /\ key.p = Pairwise!Prime(First(size, m, peer))
                 /\ key.q = Pairwise!Prime(Second(size, m, peer))
                 /\ Parts(key) = RsaParts(size, m, peer)
<1> DEFINE key == Pairwise!KeyFor(a, m, peer)
<1>1. a.kty \in {"EC", "OKP", "RSA"} /\ a.size \in Nat \ {1} /\ HashSize \in Nat \ {0}
  BY PairwiseAssumption
<1>2. CASE a.kty # "RSA"
  <2>1. key = Pairwise!EcKey(m, peer)
    BY <1>1, <1>2 DEF Pairwise!KeyFor
  <2>2. key = [d |-> Pairwise!Hmac(m, Pairwise!Text(peer))]
    BY <2>1 DEF Pairwise!EcKey
  <2> HIDE DEF key
  <2>3. DOMAIN key = {"d"} /\ key["d"] = Pairwise!Hmac(m, Pairwise!Text(peer))
    BY <2>2
  <2>4. Parts(key) = EcParts(m, peer)
    BY <2>3 DEF Parts, EcParts
  <2>. QED
    BY <1>2, <2>4 DEF key
<1>3. CASE a.kty = "RSA"
  <2> DEFINE bits == IF a.size = 0 THEN Pairwise!DefaultSize ELSE a.size
             size == bits \div 2
  <2>1. bits \in Nat /\ bits >= 2
    BY <1>1 DEF Pairwise!DefaultSize
  <2> HIDE DEF bits
  <2>2. size \in Nat \ {0}
    BY <2>1
  <2>3. key = Pairwise!RsaKey(m, bits, peer)
    BY <1>3 DEF Pairwise!KeyFor, bits
  <2>4. key = [p |-> Pairwise!Prime(First(size, m, peer)),
               q |-> Pairwise!Prime(Second(size, m, peer))]
    BY <2>3 DEF Pairwise!RsaKey, First, Second
  <2> HIDE DEF key, size
  <2>5. /\ DOMAIN key = {"p", "q"}
        /\ key["p"] = Pairwise!Prime(First(size, m, peer))
        /\ key["q"] = Pairwise!Prime(Second(size, m, peer))
    BY <2>4
  <2>6. Parts(key) = RsaParts(size, m, peer)
    BY <2>5 DEF Parts, RsaParts
  <2>7. /\ key.p = Pairwise!Prime(First(size, m, peer))
        /\ key.q = Pairwise!Prime(Second(size, m, peer))
    BY <2>4
  <2>. QED
    BY <1>3, <2>2, <2>6, <2>7 DEF key
<1>. QED
  BY <1>2, <1>3

\* A prime tells its number and is no HMAC.
LEMMA Primes ==
  /\ \A n, o : Pairwise!Prime(n) = Pairwise!Prime(o) => n = o
  /\ \A n, k, d : Pairwise!Prime(n) # Pairwise!Hmac(k, d)
<1>1. ASSUME NEW n, NEW o, Pairwise!Prime(n) = Pairwise!Prime(o) PROVE n = o
  <2>1. Pairwise!Prime(n).prime = n /\ Pairwise!Prime(o).prime = o
    BY DEF Pairwise!Prime
  <2>. QED
    BY <1>1, <2>1
<1>2. ASSUME NEW n, NEW k, NEW d PROVE Pairwise!Prime(n) # Pairwise!Hmac(k, d)
  <2>1. DOMAIN Pairwise!Prime(n) = {"prime"} /\ DOMAIN Pairwise!Hmac(k, d) = {"key", "data"}
    BY DEF Pairwise!Prime, Pairwise!Hmac
  <2>. QED
    BY <2>1
<1>. QED
  BY <1>1, <1>2

\* The keys of different pairs share nothing.
LEMMA PartsDiffer ==
  ASSUME NEW m, NEW persona, Masters(m, persona), NEW peer, NEW a \in KeyAlgorithm,
         NEW n, NEW other, Masters(n, other), NEW q, NEW b \in KeyAlgorithm,
         <<persona, peer>> # <<other, q>>
  PROVE  Parts(Pairwise!KeyFor(a, m, peer)) \cap Parts(Pairwise!KeyFor(b, n, q)) = {}
<1> DEFINE k == Pairwise!KeyFor(a, m, peer)
           l == Pairwise!KeyFor(b, n, q)
<1>1. \/ Parts(k) = EcParts(m, peer)
      \/ \E size \in Nat \ {0} : Parts(k) = RsaParts(size, m, peer)
  BY PartsOf
<1>2. \/ Parts(l) = EcParts(n, q)
      \/ \E size \in Nat \ {0} : Parts(l) = RsaParts(size, n, q)
  BY PartsOf
<1> HIDE DEF k, l
<1>3. EcParts(m, peer) \cap EcParts(n, q) = {}
  <2>1. Pairwise!Hmac(m, Pairwise!Text(peer)) # Pairwise!Hmac(n, Pairwise!Text(q))
    BY HmacsDiffer, PersonaOf
  <2>. QED
    BY <2>1 DEF EcParts
<1>4. \A size : EcParts(m, peer) \cap RsaParts(size, n, q) = {}
  BY Primes DEF EcParts, RsaParts
<1>5. \A size : RsaParts(size, m, peer) \cap EcParts(n, q) = {}
  BY Primes DEF EcParts, RsaParts
<1>6. ASSUME NEW size \in Nat \ {0}, NEW width \in Nat \ {0}
      PROVE  RsaParts(size, m, peer) \cap RsaParts(width, n, q) = {}
  <2>1. First(size, m, peer) # First(width, n, q)
    BY FirstDiffer
  <2>2. Second(size, m, peer) # Second(width, n, q)
    BY SecondDiffer
  <2>3. First(size, m, peer) # Second(width, n, q)
    BY FirstNotSecond
  <2>4. Second(size, m, peer) # First(width, n, q)
    BY FirstNotSecond
  <2>. QED
    BY <2>1, <2>2, <2>3, <2>4, Primes DEF RsaParts
<1>. QED
  BY <1>1, <1>2, <1>3, <1>4, <1>5, <1>6 DEF k, l
-----------------------------------------------------------------------------
\* The keys of two pairs of a persona and a peer have nothing in common, and the two
\* primes of an RSA key are different.
THEOREM PairsAreApart == PluginsSpec => []PairsShareNothing
<1>1. Inv => PairsShareNothing
  <2> SUFFICES ASSUME PairwiseInv, NEW c \in Caller, pairwiseCall[c].pc = "derived"
               PROVE  LET asked == pairwiseCall[c].asked
                          key == pairwiseCall[c].key
                      IN /\ asked.algorithm.kty = "RSA" => key.p # key.q
                         /\ \A persona \in Persona, peer \in Peer, a \in KeyAlgorithm :
                              \A s \in Seed :
                                <<persona, peer>> # <<asked.persona, asked.peer>> =>
                                  Parts(key)
                                    \cap Parts(Pairwise!KeyFor(a, Pairwise!MasterKey(s, persona), peer)) = {}
    BY DEF Inv, PairsShareNothing, Pairwise!PairsShareNothing, Parts
  <2> DEFINE asked == pairwiseCall[c].asked
             key == pairwiseCall[c].key
  <2>1. asked \in Asked /\ asked.algorithm \in KeyAlgorithm
    BY DEF PairwiseInv, Shape, Asked
  <2>2. PICK m : /\ Masters(m, asked.persona)
                 /\ key = Pairwise!KeyFor(asked.algorithm, m, asked.peer)
    BY DEF PairwiseInv, Shape
  <2> HIDE DEF asked, key
  <2>3. ASSUME asked.algorithm.kty = "RSA" PROVE key.p # key.q
    <3>1. PICK size \in Nat \ {0} :
            /\ key.p = Pairwise!Prime(First(size, m, asked.peer))
            /\ key.q = Pairwise!Prime(Second(size, m, asked.peer))
      BY <2>1, <2>2, <2>3, PartsOf
    <3>. QED
      BY <2>2, <3>1, FirstNotSecond, Primes
  <2>4. ASSUME NEW persona \in Persona, NEW peer \in Peer, NEW a \in KeyAlgorithm,
               NEW s \in Seed, <<persona, peer>> # <<asked.persona, asked.peer>>
        PROVE  Parts(key)
                 \cap Parts(Pairwise!KeyFor(a, Pairwise!MasterKey(s, persona), peer)) = {}
    <3> DEFINE n == Pairwise!MasterKey(s, persona)
    <3>1. Masters(n, persona)
      BY DEF Masters
    <3>2. <<asked.persona, asked.peer>> # <<persona, peer>>
      BY <2>4
    <3> HIDE DEF n
    <3>3. Parts(key) \cap Parts(Pairwise!KeyFor(a, n, peer)) = {}
      BY <2>1, <2>2, <3>1, <3>2, PartsDiffer
    <3>. QED
      BY <3>3 DEF n
  <2>. QED
    BY <2>3, <2>4 DEF asked, key
<1>. QED
  BY <1>1, PairwiseInvHolds, PTL
=============================================================================
