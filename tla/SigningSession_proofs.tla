----------------------- MODULE SigningSession_proofs -----------------------
(* Proofs about SigningSession, for every value of its constants. *)
EXTENDS SigningSession, TLAPS

-----------------------------------------------------------------------------
(* Keys and containers. *)

\* The public form of a key with a known asymmetric type is a public key that
\* keeps the key's identity and algorithm.
LEMMA PublicOfType ==
  ASSUME NEW k \in Key
  PROVE  /\ PublicOf(k) \in PublicKey
         /\ PublicOf(k).alg = k.alg
  BY DEF PublicOf, PublicKey, Key

\* What getKey returns from a container that is not empty is one of its keys.
LEMMA GetKeyType ==
  ASSUME NEW S, NEW s \in Seq(S), s # NoContainer
  PROVE  GetKey(s) \in S
  BY DEF GetKey, NoContainer

\* After save, getKey returns the saved key.
LEMMA GetKeyAppend ==
  ASSUME NEW S, NEW s \in Seq(S), NEW k \in S
  PROVE  /\ Append(s, k) # NoContainer
         /\ GetKey(Append(s, k)) = k
  BY DEF GetKey, NoContainer

\* The newest key of a public-only clone is the public form of the newest key.
LEMMA NewestPublicKeyIs ==
  ASSUME NEW n \in Name, store \in [Name -> Seq(PrivateKey)],
         store[n] # NoContainer
  PROVE  /\ NewestPublicKey(n) = PublicOf(GetKey(store[n]))
         /\ NewestPublicKey(n) \in PublicKey
<1> DEFINE s == store[n]
<1>1. s \in Seq(PrivateKey) /\ Len(s) \in Nat /\ DOMAIN s = 1..Len(s)
  OBVIOUS
<1>2. Len(PublicKeysOnly(s)) = Len(s)
  BY <1>1 DEF PublicKeysOnly
<1>3. Len(s) \in 1..Len(s)
  BY <1>1 DEF NoContainer
<1>4. GetKey(PublicKeysOnly(s)) = PublicOf(GetKey(s))
  BY <1>1, <1>2, <1>3 DEF GetKey, PublicKeysOnly
<1>5. GetKey(s) \in Key
  BY <1>1, GetKeyType DEF PrivateKey
<1>. QED
  BY <1>4, <1>5, PublicOfType DEF NewestPublicKey
-----------------------------------------------------------------------------
(* Type correctness. *)

\* Every reference in use has a name, explicit or default.
LEMMA NameOfType ==
  ASSUME TypeOK, NEW u \in KeyUsage
  PROVE  NameOf(u) \in Name
  BY ConstantsAssumption DEF NameOf, TypeOK

\* An epoch is a number of calls begun, or -1.
LEMMA EpochType ==
  ASSUME TypeOK, NEW n \in Name
  PROVE  Epoch(n) \in Stamp
  BY DEF Epoch, Stamp, TypeOK

\* A call that waits in the middle of generateKey, or of sign or verify, holds
\* what it has read so far.
LEMMA CallShape ==
  ASSUME TypeOK, NEW c \in Caller
  PROVE  /\ call[c].pc \in {"generating", "exporting"} =>
              call[c] \in [pc : {"generating", "exporting"}, usage : KeyUsage,
                           name : Name, key : PrivateKey, extractable : BOOLEAN,
                           turn : Stamp]
         /\ call[c].pc \in {"header", "container", "verifying"} =>
              call[c] \in [pc : {"header", "container", "verifying"},
                           name : Name, epoch : Stamp, jwk : PublicKey]
         /\ call[c].pc = "signing" =>
              call[c] \in [pc : {"signing"}, name : Name, epoch : Stamp,
                           jwk : PublicKey, key : PrivateKey]
  BY DEF TypeOK, Call, Idle

\* A call that has read the store reads it again only where it found a key.
ReadsNonempty ==
  \A c \in Caller :
    call[c].pc \in {"header", "container", "signing", "verifying"} =>
      store[call[c].name] # NoContainer

\* A session begins with an empty store and typed variables.
LEMMA TypeInit == Init => TypeOK
  BY ConstantsAssumption DEF Init, TypeOK, NoContainer, None, Call, Idle

\* Every step of a session keeps the types; the reads of getKey need a key.
LEMMA TypeNext == TypeOK /\ ReadsNonempty /\ [Next]_vars => TypeOK'
<1> SUFFICES ASSUME TypeOK, ReadsNonempty, [Next]_vars PROVE TypeOK'
  OBVIOUS
<1> USE ConstantsAssumption
<1>1. ASSUME NEW u \in KeyUsage, NEW a \in Alg, UseAlgorithm(u, a)
      PROVE  TypeOK'
  BY <1>1 DEF TypeOK, UseAlgorithm, history
<1>2. ASSUME NEW c \in Caller, NEW u \in KeyUsage, GenerateStart(c, u)
      PROVE  TypeOK'
  <2> DEFINE k == [id |-> minted, kty |-> KtyOf[algorithm[u]], use |-> "sig",
                   alg |-> algorithm[u], private |-> TRUE]
             r == [pc |-> "generating", usage |-> u, name |-> NameOf(u),
                   key |-> k, extractable |-> SigningKeyIsExtractable,
                   turn |-> IF Alone(u) THEN begun[NameOf(u)] + 1 ELSE -1]
  <2>1. k \in PrivateKey
    BY <1>2 DEF TypeOK, GenerateStart, PrivateKey, Key
  <2>2. r \in Call
    BY <2>1, NameOfType DEF Call, SigningKeyIsExtractable, Stamp, TypeOK
  <2>3. call' = [call EXCEPT ![c] = r]
    BY <1>2 DEF GenerateStart, Suspend
  <2>. HIDE DEF k, r
  <2>4. minted' \in 0..MaxKeys
    BY <1>2 DEF TypeOK, GenerateStart
  <2>5. begun' \in [Name -> Nat]
    BY <1>2, NameOfType DEF TypeOK, GenerateStart
  <2>6. disturbed' \in [Name -> BOOLEAN]
    BY <1>2 DEF TypeOK, GenerateStart, Alone
  <2>. QED
    BY <1>2, <2>2, <2>3, <2>4, <2>5, <2>6 DEF TypeOK, GenerateStart
<1>3. ASSUME NEW c \in Caller, GenerateResolved(c)
      PROVE  TypeOK'
  <2>1. call[c] \in [pc : {"generating", "exporting"}, usage : KeyUsage,
                     name : Name, key : PrivateKey, extractable : BOOLEAN,
                     turn : Stamp]
    BY <1>3, CallShape DEF GenerateResolved
  <2>. QED
    BY <1>3, <2>1 DEF TypeOK, GenerateResolved, Suspend, Call, history
<1>4. ASSUME NEW c \in Caller, ExportResolved(c)
      PROVE  TypeOK'
  <2>1. call[c] \in [pc : {"generating", "exporting"}, usage : KeyUsage,
                     name : Name, key : PrivateKey, extractable : BOOLEAN,
                     turn : Stamp]
    BY <1>4, CallShape DEF ExportResolved
  <2>2. store' \in [Name -> Seq(PrivateKey)]
    BY <1>4, <2>1 DEF TypeOK, ExportResolved, SaveTo
  <2>3. disturbed' \in [Name -> BOOLEAN]
    BY <1>4 DEF TypeOK, ExportResolved
  <2>. QED
    BY <1>4, <2>2, <2>3 DEF TypeOK, ExportResolved, Return, Suspend, Call
<1>5. ASSUME NEW c \in Caller, NEW p \in {"header", "verifying"},
             NEW n \in Name, HasPublicKeys(store[n]),
             Suspend(c, [pc |-> p, name |-> n, epoch |-> Epoch(n),
                         jwk |-> NewestPublicKey(n)])
      PROVE  call' \in [Caller -> Call]
  <2> DEFINE r == [pc |-> p, name |-> n, epoch |-> Epoch(n),
                   jwk |-> NewestPublicKey(n)]
  <2>1. r \in Call
    BY <1>5, NewestPublicKeyIs, EpochType DEF HasPublicKeys, TypeOK, Call
  <2>2. call' = [call EXCEPT ![c] = r]
    BY <1>5 DEF Suspend
  <2>. QED
    BY <2>1, <2>2 DEF TypeOK
<1>6. ASSUME NEW c \in Caller, NEW k \in PrivateKey,
             call[c].pc \in {"header", "container"}, SignWith(c, k)
      PROVE  call' \in [Caller -> Call]
  <2> DEFINE r == [pc |-> "signing", name |-> call[c].name,
                   epoch |-> call[c].epoch, jwk |-> call[c].jwk, key |-> k]
  <2>1. r \in Call /\ Idle \in Call
    BY <1>6, CallShape DEF Call
  <2>2. call' \in {[call EXCEPT ![c] = r], [call EXCEPT ![c] = Idle]}
    BY <1>6 DEF SignWith, Return, Suspend
  <2>. HIDE DEF r
  <2>. QED
    BY <2>1, <2>2 DEF TypeOK
<1>7. ASSUME NEW c \in Caller, SignStart(c) \/ VerifyStart(c)
      PROVE  TypeOK'
  BY <1>5, <1>7, NameOfType DEF TypeOK, SignStart, VerifyStart, history
<1>8. ASSUME NEW c \in Caller, SignPickKey(c)
      PROVE  TypeOK'
  <2>1. CASE CryptoKeyOf("signing") # None
    <3>1. CryptoKeyOf("signing") \in PrivateKey
      BY <2>1 DEF CryptoKeyOf, TypeOK
    <3>. QED
      BY <1>6, <1>8, <2>1, <3>1 DEF TypeOK, SignPickKey, history
  <2>2. CASE CryptoKeyOf("signing") = None
    <3> DEFINE r == [call[c] EXCEPT !.pc = "container"]
    <3>1. r \in Call
      BY <1>8, CallShape DEF SignPickKey, Call
    <3>2. call' = [call EXCEPT ![c] = r]
      BY <1>8, <2>2 DEF SignPickKey, Suspend
    <3>. QED
      BY <1>8, <3>1, <3>2 DEF TypeOK, SignPickKey, history
  <2>. QED
    BY <2>1, <2>2
<1>13. ASSUME NEW c \in Caller, SignReadContainer(c)
      PROVE  TypeOK'
  <2>1. GetKey(store[call[c].name]) \in PrivateKey
    BY <1>13, CallShape, GetKeyType
       DEF SignReadContainer, TypeOK, ReadsNonempty
  <2>. QED
    BY <1>6, <1>13, <2>1 DEF TypeOK, SignReadContainer, history
<1>9. ASSUME NEW c \in Caller, SignResolved(c)
      PROVE  TypeOK'
  <2>1. call[c] \in [pc : {"signing"}, name : Name, epoch : Stamp,
                     jwk : PublicKey, key : PrivateKey]
    BY <1>9, CallShape DEF SignResolved
  <2>. QED
    BY <1>9, <2>1 DEF TypeOK, SignResolved, Return, Suspend, Call, Token, history
<1>10. ASSUME NEW c \in Caller, NEW d \in Caller, VerifyResolved(c, d)
       PROVE  TypeOK'
  <2>. QED
    BY <1>10 DEF TypeOK, VerifyResolved, Verifies, Return, Suspend, Call, history
<1>11. ASSUME NEW c \in Caller, Rejected(c)
       PROVE  TypeOK'
  BY <1>11 DEF TypeOK, Rejected, Return, Suspend, Call
<1>12. CASE UNCHANGED vars
  BY <1>12 DEF TypeOK, vars, history
<1>. QED
  BY <1>1, <1>2, <1>3, <1>4, <1>7, <1>8, <1>9, <1>10, <1>11,
     <1>12, <1>13
     DEF Next, Continue
-----------------------------------------------------------------------------
(* The inductive invariant behind VerdictSound. *)

Reading(c) == call[c].pc \in {"header", "container", "signing", "verifying"}

\* A generateKey call works for the name its usage and algorithm stand for.
GeneratesForItsName ==
  \A c \in Caller : call[c].pc \in {"generating", "exporting"} =>
    call[c].name = IF call[c].usage \in Explicit
                   THEN ExplicitName[call[c].usage]
                   ELSE DefaultName[<<call[c].usage, call[c].key.alg>>]

\* A sign call works for the name of the signing reference.
SignsForItsName ==
  \A c \in Caller :
    call[c].pc = "header" /\ "signing" \in Explicit
      => call[c].name = ExplicitName["signing"]

\* No epoch is ahead of the calls begun.
EpochsPast ==
  \A c \in Caller :
    /\ Reading(c) => call[c].epoch <= begun[call[c].name]
    /\ token[c] # None => token[c].epoch <= begun[token[c].name]

NoGeneration(n) == \A c \in Caller : ~Generating(c, n)

\* While its epoch is current, all that a call has read is still true.
CallCurrent(c) ==
  LET n == call[c].name IN
  Reading(c) /\ call[c].epoch = begun[n] =>
    /\ NoGeneration(n)
    /\ call[c].jwk = PublicOf(GetKey(store[n]))
    /\ call[c].pc = "header" /\ "signing" \in Explicit
         => cryptoKey["signing"] \in {None, GetKey(store[n])}
    /\ call[c].pc = "signing" => call[c].key = GetKey(store[n])

\* While its epoch is current, a token is signed with the newest key.
TokenCurrent(c) ==
  LET n == token[c].name IN
  token[c] # None /\ token[c].epoch = begun[n] =>
    /\ NoGeneration(n)
    /\ token[c].key = GetKey(store[n])
    /\ token[c].jwk = PublicOf(token[c].key)

SessionInv ==
  /\ TypeOK
  /\ ReadsNonempty
  /\ GeneratesForItsName
  /\ SignsForItsName
  /\ EpochsPast
  /\ \A c \in Caller : CallCurrent(c) /\ TokenCurrent(c)
  /\ VerdictSound

\* No key and no token is taken for a missing one.
LEMMA NoneIsNoRecord ==
  /\ \A k \in Key : k # None
  /\ \A t \in Token : t # None
  BY DEF Key, Token, None

\* generateKey calls are only ever counted up, so a stale epoch stays stale.
LEMMA BegunGrows ==
  ASSUME TypeOK, [Next]_vars, NEW n \in Name
  PROVE  begun[n] \in Nat /\ begun'[n] \in Nat /\ begun[n] <= begun'[n]
<1>1. CASE begun' = begun
  BY <1>1 DEF TypeOK
<1>2. ASSUME NEW c \in Caller, NEW u \in KeyUsage, GenerateStart(c, u)
      PROVE  begun[n] \in Nat /\ begun'[n] \in Nat /\ begun[n] <= begun'[n]
  BY <1>2, NameOfType DEF TypeOK, GenerateStart
<1>. QED
  BY <1>1, <1>2
     DEF Next, vars, history, Continue, UseAlgorithm, GenerateResolved,
         ExportResolved, SignStart, SignPickKey, SignReadContainer,
         SignResolved, VerifyStart, VerifyResolved, Rejected

\* A name for which no generateKey call is running keeps its keys, and the
\* references to it what they remember, until one begins.
LEMMA QuietName ==
  ASSUME TypeOK, GeneratesForItsName, [Next]_vars,
         NEW n \in Name, NoGeneration(n), begun'[n] = begun[n]
  PROVE  /\ store'[n] = store[n]
         /\ NoGeneration(n)'
         /\ \A u \in Explicit : ExplicitName[u] = n => cryptoKey'[u] = cryptoKey[u]
<1> DEFINE P == /\ store'[n] = store[n]
                /\ NoGeneration(n)'
                /\ \A u \in Explicit :
                     ExplicitName[u] = n => cryptoKey'[u] = cryptoKey[u]
<1>1. ASSUME NEW c \in Caller, NEW u \in KeyUsage, GenerateStart(c, u)
      PROVE  P
  <2>1. NameOf(u) # n
    BY <1>1, NameOfType DEF TypeOK, GenerateStart
  <2>2. ~Generating(c, n)' /\ \A d \in Caller \ {c} : call'[d] = call[d]
    BY <1>1, <2>1 DEF TypeOK, GenerateStart, Suspend, Generating
  <2>. QED
    BY <1>1, <2>2 DEF GenerateStart, NoGeneration, Generating
<1>2. ASSUME NEW c \in Caller, GenerateResolved(c)
      PROVE  P
  <2>1. call[c].name # n
    BY <1>2 DEF GenerateResolved, NoGeneration, Generating
  <2>2. call'[c].name = call[c].name /\ \A d \in Caller \ {c} : call'[d] = call[d]
    BY <1>2, CallShape DEF TypeOK, GenerateResolved, Suspend
  <2>3. call[c].usage \in Explicit => ExplicitName[call[c].usage] # n
    BY <1>2, <2>1 DEF GenerateResolved, GeneratesForItsName
  <2>. QED
    BY <1>2, <2>1, <2>2, <2>3 DEF GenerateResolved, NoGeneration, Generating, TypeOK
<1>3. ASSUME NEW c \in Caller, ExportResolved(c)
      PROVE  P
  <2>1. call[c].name # n
    BY <1>3 DEF ExportResolved, NoGeneration, Generating
  <2>2. call[c].name \in Name
    BY <1>3, CallShape DEF ExportResolved
  <2>3. store'[n] = store[n]
    BY <1>3, <2>1, <2>2 DEF ExportResolved, SaveTo, TypeOK
  <2>. QED
    BY <1>3, <2>3 DEF ExportResolved, Return, Suspend, NoGeneration, Generating,
                      TypeOK, Idle
<1>4. ASSUME NEW c \in Caller,
             \/ SignStart(c)
             \/ VerifyStart(c)
             \/ SignPickKey(c)
             \/ SignReadContainer(c)
             \/ SignResolved(c)
             \/ \E d \in Caller : VerifyResolved(c, d)
             \/ Rejected(c)
      PROVE  P
  <2>1. store' = store /\ cryptoKey' = cryptoKey
    BY <1>4 DEF SignStart, VerifyStart, SignPickKey, SignReadContainer,
                SignResolved, VerifyResolved, Rejected
  <2>2. /\ call'[c].pc \notin {"generating", "exporting"}
        /\ \A d \in Caller \ {c} : call'[d] = call[d]
    BY <1>4, CallShape
       DEF SignStart, VerifyStart, SignPickKey, SignReadContainer, SignWith,
           SignResolved, VerifyResolved, Rejected, Return, Suspend, Idle, TypeOK
  <2>. QED
    BY <2>1, <2>2 DEF NoGeneration, Generating
<1>5. CASE UNCHANGED vars \/ \E u \in KeyUsage, a \in Alg : UseAlgorithm(u, a)
  BY <1>5 DEF vars, UseAlgorithm, NoGeneration, Generating
<1>. QED
  BY <1>1, <1>2, <1>3, <1>4, <1>5 DEF Next, Continue

\* A container that has keys keeps having keys.
LEMMA StoreGrows ==
  ASSUME TypeOK, [Next]_vars, NEW n \in Name, store[n] # NoContainer
  PROVE  store'[n] # NoContainer
<1>1. CASE store' = store
  BY <1>1
<1>2. ASSUME NEW c \in Caller, ExportResolved(c)
      PROVE  store'[n] # NoContainer
  <2>1. call[c].name \in Name /\ call[c].key \in PrivateKey
    BY <1>2, CallShape DEF ExportResolved
  <2>2. store[n] \in Seq(PrivateKey)
    BY DEF TypeOK
  <2>3. Append(store[n], call[c].key) # NoContainer
    BY <2>1, <2>2, GetKeyAppend
  <2>. QED
    BY <1>2, <2>1, <2>3 DEF ExportResolved, SaveTo, TypeOK
<1>. QED
  BY <1>1, <1>2
     DEF Next, vars, Continue, UseAlgorithm, GenerateStart, GenerateResolved,
         SignStart, SignPickKey, SignReadContainer, SignResolved, VerifyStart,
         VerifyResolved, Rejected

\* What the invariant says of one caller's call, and of its token.
CallGood(c) ==
  /\ Reading(c) => /\ store[call[c].name] # NoContainer
                   /\ call[c].epoch <= begun[call[c].name]
  /\ call[c].pc \in {"generating", "exporting"} =>
       call[c].name = IF call[c].usage \in Explicit
                      THEN ExplicitName[call[c].usage]
                      ELSE DefaultName[<<call[c].usage, call[c].key.alg>>]
  /\ call[c].pc = "header" /\ "signing" \in Explicit
       => call[c].name = ExplicitName["signing"]
  /\ CallCurrent(c)

TokenGood(c) ==
  /\ token[c] # None => token[c].epoch <= begun[token[c].name]
  /\ TokenCurrent(c)

\* SessionInv, one caller at a time.
LEMMA SessionInvParts ==
  SessionInv <=> /\ TypeOK
                 /\ VerdictSound
                 /\ \A c \in Caller : CallGood(c) /\ TokenGood(c)
  BY DEF SessionInv, CallGood, TokenGood, ReadsNonempty, GeneratesForItsName,
         SignsForItsName, EpochsPast, Reading

\* The same for the next state.
LEMMA SessionInvPartsNext ==
  ASSUME TypeOK', VerdictSound',
         \A c \in Caller : CallGood(c)' /\ TokenGood(c)'
  PROVE  SessionInv'
  BY DEF SessionInv, CallGood, TokenGood, ReadsNonempty, GeneratesForItsName,
         SignsForItsName, EpochsPast, Reading

\* What a suspended sign or verify holds.
LEMMA ReadingShape ==
  ASSUME TypeOK, NEW c \in Caller, Reading(c)
  PROVE  /\ call[c].name \in Name
         /\ call[c].epoch \in Int
         /\ call[c].jwk \in PublicKey
  BY CallShape DEF Reading, Stamp

\* A step of another caller leaves what is known of a suspended call true.
LEMMA CallStays ==
  ASSUME SessionInv, [Next]_vars, NEW c \in Caller, call'[c] = call[c]
  PROVE  CallGood(c)'
<1>1. CallGood(c) /\ TypeOK /\ GeneratesForItsName
  BY SessionInvParts DEF SessionInv
<1>2. CASE ~Reading(c)
  BY <1>1, <1>2 DEF CallGood, CallCurrent, Reading
<1>3. CASE Reading(c)
  <2> DEFINE n == call[c].name
  <2>1. n \in Name /\ call[c].epoch \in Int
    BY <1>1, <1>3, ReadingShape
  <2>2. store'[n] # NoContainer
    BY <1>1, <1>3, <2>1, StoreGrows DEF CallGood
  <2>3. begun[n] \in Nat /\ begun'[n] \in Nat /\ begun[n] <= begun'[n]
    BY <1>1, <2>1, BegunGrows
  <2>4. CallCurrent(c)'
    <3> SUFFICES ASSUME call[c].epoch = begun'[n]
                 PROVE  /\ NoGeneration(n)'
                        /\ call[c].jwk = PublicOf(GetKey(store'[n]))
                        /\ call[c].pc = "header" /\ "signing" \in Explicit
                             => cryptoKey'["signing"] \in {None, GetKey(store'[n])}
                        /\ call[c].pc = "signing" => call[c].key = GetKey(store'[n])
      BY DEF CallCurrent
    <3>1. call[c].epoch = begun[n] /\ begun'[n] = begun[n]
      BY <1>1, <1>3, <2>1, <2>3 DEF CallGood
    <3>2. NoGeneration(n)
      BY <1>1, <1>3, <3>1 DEF CallGood, CallCurrent
    <3>3. /\ store'[n] = store[n]
          /\ NoGeneration(n)'
          /\ \A u \in Explicit : ExplicitName[u] = n => cryptoKey'[u] = cryptoKey[u]
      BY <1>1, <2>1, <3>1, <3>2, QuietName
    <3>. QED
      BY <1>1, <1>3, <3>1, <3>3 DEF CallGood, CallCurrent
  <2>. QED
    BY <1>1, <1>3, <2>1, <2>2, <2>3, <2>4 DEF CallGood, Reading
<1>. QED
  BY <1>2, <1>3

\* Nor can any step make a finished token stale without a new epoch.
LEMMA TokenStays ==
  ASSUME SessionInv, [Next]_vars, NEW c \in Caller, token'[c] = token[c]
  PROVE  TokenGood(c)'
<1>1. TokenGood(c) /\ TypeOK /\ GeneratesForItsName
  BY SessionInvParts DEF SessionInv
<1>2. CASE token[c] = None
  BY <1>2 DEF TokenGood, TokenCurrent
<1>3. CASE token[c] # None
  <2> DEFINE n == token[c].name
  <2>1. n \in Name /\ token[c].epoch \in Int
    BY <1>1, <1>3 DEF TypeOK, Token, Stamp
  <2>2. begun[n] \in Nat /\ begun'[n] \in Nat /\ begun[n] <= begun'[n]
    BY <1>1, <2>1, BegunGrows
  <2>3. TokenCurrent(c)'
    <3> SUFFICES ASSUME token[c].epoch = begun'[n]
                 PROVE  /\ NoGeneration(n)'
                        /\ token[c].key = GetKey(store'[n])
                        /\ token[c].jwk = PublicOf(token[c].key)
      BY DEF TokenCurrent
    <3>1. token[c].epoch = begun[n] /\ begun'[n] = begun[n]
      BY <1>1, <1>3, <2>1, <2>2 DEF TokenGood
    <3>2. NoGeneration(n)
      BY <1>1, <1>3, <3>1 DEF TokenGood, TokenCurrent
    <3>3. store'[n] = store[n] /\ NoGeneration(n)'
      BY <1>1, <2>1, <3>1, <3>2, QuietName
    <3>. QED
      BY <1>1, <1>3, <3>1, <3>3 DEF TokenGood, TokenCurrent
  <2>. QED
    BY <1>1, <1>3, <2>1, <2>2, <2>3 DEF TokenGood
<1>. QED
  BY <1>2, <1>3

\* Only SignResolved changes a token, and only VerifyResolved a verdict.
LEMMA OneCallerMoves ==
  ASSUME TypeOK, NEW c \in Caller,
         \/ \E u \in KeyUsage : GenerateStart(c, u)
         \/ SignStart(c)
         \/ VerifyStart(c)
         \/ Continue(c)
  PROVE  \A d \in Caller \ {c} : call'[d] = call[d] /\ token'[d] = token[d]
  BY DEF TypeOK, Continue, GenerateStart, GenerateResolved, ExportResolved,
         SignStart, SignPickKey, SignReadContainer, SignWith, SignResolved,
         VerifyStart, VerifyResolved, Rejected, Return, Suspend

\* The call that a read of the store begins knows what it has read, and it has
\* a current epoch only when the name is settled.
LEMMA ReadBegins ==
  ASSUME SessionInv, NEW c \in Caller, SignStart(c) \/ VerifyStart(c)
  PROVE  CallGood(c)'
<1>1. TypeOK
  BY DEF SessionInv
<1>. PICK n \in Name : n = NameOf("signing")
  BY <1>1, NameOfType, ConstantsAssumption
<1>2. store[n] # NoContainer
  BY DEF SignStart, VerifyStart, HasPublicKeys
<1>3. UNCHANGED <<store, cryptoKey, begun>>
  BY DEF SignStart, VerifyStart, history
<1>4. /\ call'[c].pc \in {"header", "verifying"}
      /\ call'[c].name = n
      /\ call'[c].epoch = Epoch(n)
      /\ call'[c].jwk = NewestPublicKey(n)
  BY <1>1 DEF SignStart, VerifyStart, Suspend, TypeOK
<1>5. \A d \in Caller \ {c} : call'[d] = call[d]
  BY <1>1 DEF SignStart, VerifyStart, Suspend, TypeOK
<1>6. NewestPublicKey(n) = PublicOf(GetKey(store[n]))
  BY <1>1, <1>2, NewestPublicKeyIs DEF TypeOK
<1>7. begun[n] \in Nat
  BY <1>1, <1>2 DEF TypeOK
<1>8. Epoch(n) <= begun[n]
  BY <1>7 DEF Epoch
<1>9. "signing" \in Explicit => n = ExplicitName["signing"]
  BY DEF NameOf
<1>10. Epoch(n) = begun[n] =>
         /\ NoGeneration(n)'
         /\ "signing" \in Explicit => cryptoKey["signing"] \in {None, GetKey(store[n])}
  <2> SUFFICES ASSUME Epoch(n) = begun[n]
               PROVE  /\ NoGeneration(n)'
                      /\ "signing" \in Explicit =>
                           cryptoKey["signing"] \in {None, GetKey(store[n])}
    OBVIOUS
  <2>1. Settled(n)
    BY <1>7 DEF Epoch
  <2>2. NoGeneration(n)'
    BY <1>4, <1>5, <2>1 DEF Settled, NoGeneration, Generating
  <2>3. "signing" \in Explicit => cryptoKey["signing"] \in {None, GetKey(store[n])}
    BY <2>1 DEF Settled, CryptoKeyOf
  <2>. QED
    BY <2>2, <2>3
<1>11. CallCurrent(c)'
  BY <1>3, <1>4, <1>6, <1>10 DEF CallCurrent, NoGeneration, Generating
<1>. QED
  BY <1>2, <1>3, <1>4, <1>8, <1>9, <1>11 DEF CallGood, Reading

\* signByKeyStore picks the newest key of the store, from either place, when
\* nothing was generated since the header was read.
LEMMA KeyPicked ==
  ASSUME SessionInv, [Next]_vars, NEW c \in Caller, NEW k \in PrivateKey,
         call[c].pc \in {"header", "container"}, SignWith(c, k),
         UNCHANGED <<store, begun>>,
         call[c].epoch = begun[call[c].name] => k = GetKey(store[call[c].name])
  PROVE  CallGood(c)'
<1>1. TypeOK /\ CallGood(c) /\ GeneratesForItsName
  BY SessionInvParts DEF SessionInv
<1>. PICK n \in Name : n = call[c].name
  BY <1>1, ReadingShape DEF Reading
<1>2. CASE call'[c] = Idle
  BY <1>2 DEF CallGood, CallCurrent, Reading, Idle
<1>3. CASE call'[c] # Idle
  <2>1. /\ call'[c].pc = "signing"
        /\ call'[c].name = n
        /\ call'[c].epoch = call[c].epoch
        /\ call'[c].jwk = call[c].jwk
        /\ call'[c].key = k
    BY <1>1, <1>3 DEF SignWith, Return, Suspend, TypeOK
  <2>2. call[c].epoch = begun[n] => NoGeneration(n)'
    <3> SUFFICES ASSUME call[c].epoch = begun[n] PROVE NoGeneration(n)'
      OBVIOUS
    <3>1. NoGeneration(n)
      BY <1>1 DEF CallGood, CallCurrent, Reading
    <3>. QED
      BY <1>1, <3>1, QuietName
  <2>3. /\ store[n] # NoContainer
        /\ call[c].epoch <= begun[n]
        /\ call[c].epoch = begun[n] => call[c].jwk = PublicOf(GetKey(store[n]))
    BY <1>1 DEF CallGood, CallCurrent, Reading
  <2>. QED
    BY <2>1, <2>2, <2>3 DEF CallGood, CallCurrent, Reading, NoGeneration
<1>. QED
  BY <1>2, <1>3

\* Every step keeps SessionInv: one case per action.
LEMMA SessionNext == SessionInv /\ [Next]_vars => SessionInv'
<1> SUFFICES ASSUME SessionInv, [Next]_vars PROVE SessionInv'
  OBVIOUS
<1>1. TypeOK /\ TypeOK' /\ VerdictSound
  BY TypeNext DEF SessionInv
<1>2. \A c \in Caller : CallGood(c) /\ TokenGood(c)
  BY SessionInvParts
<1>3. ASSUME UNCHANGED <<call, token, verdict>>
      PROVE  SessionInv'
  <2>1. \A c \in Caller : CallGood(c)' /\ TokenGood(c)'
    BY <1>3, CallStays, TokenStays
  <2>2. VerdictSound'
    BY <1>1, <1>3 DEF VerdictSound
  <2>. QED
    BY <1>1, <2>1, <2>2, SessionInvPartsNext
<1>4. ASSUME NEW c \in Caller,
             \/ \E u \in KeyUsage : GenerateStart(c, u)
             \/ SignStart(c)
             \/ VerifyStart(c)
             \/ Continue(c)
      PROVE  SessionInv'
  <2>1. \A d \in Caller \ {c} : CallGood(d)' /\ TokenGood(d)'
    BY <1>1, <1>4, OneCallerMoves, CallStays, TokenStays
  <2>2. SUFFICES CallGood(c)' /\ TokenGood(c)' /\ VerdictSound'
    BY <1>1, <2>1, SessionInvPartsNext
  <2>3. ASSUME UNCHANGED <<token, verdict>>
        PROVE  TokenGood(c)' /\ VerdictSound'
    BY <1>1, <2>3, TokenStays DEF VerdictSound
  <2>4. ASSUME NEW u \in KeyUsage, GenerateStart(c, u)
        PROVE  CallGood(c)' /\ TokenGood(c)' /\ VerdictSound'
    <3>1. UNCHANGED <<token, verdict>>
      BY <2>4 DEF GenerateStart
    <3>2. /\ call'[c].pc = "generating"
          /\ call'[c].usage = u
          /\ call'[c].name = NameOf(u)
          /\ call'[c].key.alg = algorithm[u]
      BY <1>1, <2>4 DEF GenerateStart, Suspend, TypeOK
    <3>3. CallGood(c)'
      BY <3>2 DEF CallGood, CallCurrent, Reading, NameOf
    <3>. QED
      BY <2>3, <3>1, <3>3
  <2>5. ASSUME GenerateResolved(c)
        PROVE  CallGood(c)' /\ TokenGood(c)' /\ VerdictSound'
    <3>1. UNCHANGED <<token, verdict>>
      BY <2>5 DEF GenerateResolved
    <3>2. /\ call'[c].pc = "exporting"
          /\ call'[c].usage = call[c].usage
          /\ call'[c].name = call[c].name
          /\ call'[c].key = call[c].key
      BY <1>1, <2>5, CallShape DEF GenerateResolved, Suspend, TypeOK
    <3>3. CallGood(c)'
      BY <1>2, <2>5, <3>2 DEF CallGood, CallCurrent, Reading, GenerateResolved
    <3>. QED
      BY <2>3, <3>1, <3>3
  <2>6. ASSUME call'[c] = Idle
        PROVE  CallGood(c)'
    BY <2>6 DEF CallGood, CallCurrent, Reading, Idle
  <2>7. ASSUME ExportResolved(c) \/ Rejected(c)
        PROVE  CallGood(c)' /\ TokenGood(c)' /\ VerdictSound'
    BY <1>1, <2>3, <2>6, <2>7
       DEF ExportResolved, Rejected, Return, Suspend, TypeOK
  <2>8. ASSUME SignStart(c) \/ VerifyStart(c)
        PROVE  CallGood(c)' /\ TokenGood(c)' /\ VerdictSound'
    BY <2>3, <2>8, ReadBegins DEF SignStart, VerifyStart
  <2>9. ASSUME SignPickKey(c)
        PROVE  CallGood(c)' /\ TokenGood(c)' /\ VerdictSound'
    <3>1. UNCHANGED <<token, verdict, store, begun>>
      BY <2>9 DEF SignPickKey, history
    <3>2. CASE CryptoKeyOf("signing") # None
      <4>1. /\ CryptoKeyOf("signing") \in PrivateKey
            /\ "signing" \in Explicit
            /\ CryptoKeyOf("signing") = cryptoKey["signing"]
        BY <1>1, <3>2 DEF CryptoKeyOf, TypeOK
      <4>2. call[c].epoch = begun[call[c].name] =>
              cryptoKey["signing"] = GetKey(store[call[c].name])
        BY <1>2, <2>9, <3>2, <4>1 DEF SignPickKey, CallGood, CallCurrent, Reading
      <4>3. CallGood(c)'
        BY <2>9, <3>1, <3>2, <4>1, <4>2, KeyPicked DEF SignPickKey
      <4>. QED
        BY <2>3, <3>1, <4>3
    <3>3. CASE CryptoKeyOf("signing") = None
      <4>1. /\ call[c].pc = "header"
            /\ call'[c].pc = "container"
            /\ call'[c].name = call[c].name
            /\ call'[c].epoch = call[c].epoch
            /\ call'[c].jwk = call[c].jwk
        BY <1>1, <2>9, <3>3, CallShape DEF SignPickKey, Suspend, TypeOK
      <4>2. \A d \in Caller \ {c} : call'[d] = call[d]
        BY <1>1, <2>9, <3>3 DEF SignPickKey, Suspend, TypeOK
      <4>3. PICK n \in Name : n = call[c].name
        BY <1>1, <4>1, ReadingShape DEF Reading
      <4>4. call[c].epoch = begun[n] => NoGeneration(n)'
        <5>1. call[c].epoch = begun[n] => NoGeneration(n)
          BY <1>2, <4>1, <4>3 DEF CallGood, CallCurrent, Reading
        <5>. QED
          BY <4>1, <4>2, <5>1 DEF NoGeneration, Generating
      <4>5. CallCurrent(c)'
        BY <1>2, <3>1, <4>1, <4>3, <4>4 DEF CallGood, CallCurrent, Reading
      <4>6. CallGood(c)'
        BY <1>2, <3>1, <4>1, <4>3, <4>5 DEF CallGood, Reading
      <4>. QED
        BY <2>3, <3>1, <4>6
    <3>. QED
      BY <3>2, <3>3
  <2>10. ASSUME SignReadContainer(c)
         PROVE  CallGood(c)' /\ TokenGood(c)' /\ VerdictSound'
    <3>1. UNCHANGED <<token, verdict, store, begun>>
      BY <2>10 DEF SignReadContainer, history
    <3>2. call[c].name \in Name /\ store[call[c].name] # NoContainer
      BY <1>1, <1>2, <2>10, ReadingShape DEF CallGood, Reading, SignReadContainer
    <3>3. GetKey(store[call[c].name]) \in PrivateKey
      BY <1>1, <3>2, GetKeyType DEF TypeOK
    <3>4. CallGood(c)'
      BY <2>10, <3>1, <3>3, KeyPicked DEF SignReadContainer
    <3>. QED
      BY <2>3, <3>1, <3>4
  <2>11. ASSUME SignResolved(c)
         PROVE  CallGood(c)' /\ TokenGood(c)' /\ VerdictSound'
    <3>1. UNCHANGED <<verdict, store, begun>> /\ call[c].pc = "signing"
      BY <2>11 DEF SignResolved, history
    <3>2. call'[c] = Idle /\ \A d \in Caller \ {c} : call'[d] = call[d]
      BY <1>1, <2>11 DEF SignResolved, Return, Suspend, TypeOK
    <3>3. /\ token'[c].name = call[c].name
          /\ token'[c].epoch = call[c].epoch
          /\ token'[c].jwk = call[c].jwk
          /\ token'[c].key = call[c].key
      BY <1>1, <2>11 DEF SignResolved, TypeOK
    <3>4. CallGood(c)
      BY <1>2
    <3>5. TokenGood(c)'
      BY <3>1, <3>2, <3>3, <3>4
         DEF TokenGood, TokenCurrent, CallGood, CallCurrent, Reading,
             NoGeneration, Generating, Idle
    <3>. QED
      BY <1>1, <2>6, <3>1, <3>2, <3>5 DEF VerdictSound
  <2>12. ASSUME NEW d \in Caller, VerifyResolved(c, d)
         PROVE  CallGood(c)' /\ TokenGood(c)' /\ VerdictSound'
    <3>1. /\ token' = token
          /\ call'[c] = Idle
          /\ call[c].pc = "verifying"
          /\ token[d] # None
      BY <1>1, <2>12 DEF VerifyResolved, Return, Suspend, TypeOK
    <3>2. verdict'[c].quiet => verdict'[c].ok
      <4> DEFINE n == call[c].name
      <4>1. /\ verdict'[c].ok = Verifies(token[d], call[c].jwk)
            /\ verdict'[c].quiet = /\ token[d].name = n
                                   /\ token[d].epoch = begun[n]
                                   /\ call[c].epoch = begun[n]
        BY <1>1, <2>12 DEF VerifyResolved, TypeOK
      <4> SUFFICES ASSUME token[d].name = n, token[d].epoch = begun[n],
                          call[c].epoch = begun[n]
                   PROVE  Verifies(token[d], call[c].jwk)
        BY <4>1
      <4>2. call[c].jwk = PublicOf(GetKey(store[n]))
        BY <1>2, <3>1 DEF CallGood, CallCurrent, Reading
      <4>3. /\ token[d].key = GetKey(store[n])
            /\ token[d].jwk = PublicOf(token[d].key)
        BY <1>2, <3>1 DEF TokenGood, TokenCurrent
      <4>. QED
        BY <4>2, <4>3 DEF Verifies
    <3>3. \A e \in Caller \ {c} : verdict'[e] = verdict[e]
      BY <1>1, <2>12 DEF VerifyResolved, TypeOK
    <3>4. VerdictSound'
      BY <1>1, <3>2, <3>3 DEF VerdictSound
    <3>. QED
      BY <2>6, <3>1, <3>4, TokenStays
  <2>. QED
    BY <1>4, <2>4, <2>5, <2>7, <2>8, <2>9, <2>10, <2>11, <2>12 DEF Continue
<1>. QED
  BY <1>3, <1>4 DEF Next, vars, UseAlgorithm

\* SessionInv holds when no call has begun.
LEMMA SessionInit == Init => SessionInv
  BY TypeInit
     DEF Init, SessionInv, ReadsNonempty, GeneratesForItsName, SignsForItsName,
         EpochsPast, CallCurrent, TokenCurrent, Reading, VerdictSound, Idle

\* The variables of a session always have their types.
THEOREM TypeCorrect == Spec => []TypeOK
<1>1. SessionInv => TypeOK
  BY DEF SessionInv
<1>. QED
  BY <1>1, SessionInit, SessionNext, PTL DEF Spec

\* Whatever the interleaving of generateKey, sign and verify calls, a token
\* whose name was settled when it was signed verifies until the next
\* generateKey call for that name.
THEOREM VerdictIsSound == Spec => []VerdictSound
<1>1. SessionInv => VerdictSound
  BY DEF SessionInv
<1>. QED
  BY <1>1, SessionInit, SessionNext, PTL DEF Spec

\* The header of a token names the key that signs it, unless a generateKey call
\* began while it was being signed.
THEOREM HeaderIsOfSigningKey == Spec => []HeaderNamesSigningKey
<1>1. SessionInv => HeaderNamesSigningKey
  BY DEF SessionInv, HeaderNamesSigningKey, CallCurrent, Reading
<1>. QED
  BY <1>1, SessionInit, SessionNext, PTL DEF Spec

-----------------------------------------------------------------------------
(* The inductive invariant behind SerialGenerationSettles. *)

\* At most one generateKey call runs for the name, no other reference has the
\* name while it runs, and the remembered key is the newest saved or is about to
\* be saved by that call.
SerialFor(n) ==
  /\ \A c, d \in Caller : Generating(c, n) /\ Generating(d, n) => c = d
  /\ \A c \in Caller, v \in Explicit :
       Generating(c, n) /\ ExplicitName[v] = n => v = call[c].usage
  /\ \A u \in Explicit : ExplicitName[u] = n /\ cryptoKey[u] # None =>
       \/ store[n] # NoContainer /\ cryptoKey[u] = GetKey(store[n])
       \/ \E c \in Caller : /\ Generating(c, n)
                            /\ call[c].pc = "exporting"
                            /\ call[c].key = cryptoKey[u]
  /\ \A c \in Caller : Generating(c, n) /\ call[c].pc = "exporting" =>
       (call[c].usage \in Explicit => cryptoKey[call[c].usage] = call[c].key)

\* A generateKey call whose turn it still is runs alone, no other reference has
\* its name, and what it remembered on the reference is what it will save.
TurnFor(n) ==
  \A c \in Caller : Generating(c, n) =>
    /\ call[c].turn <= begun[n]
    /\ call[c].turn = begun[n] =>
         /\ \A d \in Caller : Generating(d, n) => d = c
         /\ \A v \in Explicit : ExplicitName[v] = n => v = call[c].usage
         /\ call[c].pc = "exporting" =>
              (call[c].usage \in Explicit => cryptoKey[call[c].usage] = call[c].key)

SerialInv ==
  \A n \in Name : TurnFor(n) /\ (~disturbed[n] => SerialFor(n))

\* What disturbed a name is forgotten only when a call whose turn it is saves.
LEMMA DisturbedStays ==
  ASSUME TypeOK, [Next]_vars, NEW n \in Name, disturbed[n],
         \A c \in Caller : ExportResolved(c) /\ call[c].name = n
                             => call[c].turn # begun[n]
  PROVE  disturbed'[n]
<1>1. CASE disturbed' = disturbed
  BY <1>1
<1>2. ASSUME NEW c \in Caller, NEW u \in KeyUsage, GenerateStart(c, u)
      PROVE  disturbed'[n]
  BY <1>2 DEF TypeOK, GenerateStart
<1>3. ASSUME NEW c \in Caller, Rejected(c)
      PROVE  disturbed'[n]
  BY <1>3 DEF TypeOK, Rejected
<1>4. ASSUME NEW c \in Caller, ExportResolved(c)
      PROVE  disturbed'[n]
  BY <1>4 DEF TypeOK, ExportResolved
<1>. QED
  BY <1>1, <1>2, <1>3, <1>4
     DEF Next, vars, history, Continue, UseAlgorithm, GenerateResolved,
         SignStart, SignPickKey, SignReadContainer,
         SignResolved, VerifyStart, VerifyResolved

\* A step that begins no call for a name, keeps what is remembered of its keys,
\* and at most ends calls that generate for it.
LEMMA TurnKept ==
  ASSUME NEW n \in Name, TurnFor(n),
         begun'[n] = begun[n],
         \A u \in Explicit : ExplicitName[u] = n => cryptoKey'[u] = cryptoKey[u],
         \A d \in Caller : Generating(d, n) /\ call[d].usage \in Explicit
                             => ExplicitName[call[d].usage] = n,
         \A d \in Caller : call'[d] = call[d] \/ ~Generating(d, n)'
  PROVE  TurnFor(n)'
<1>1. \A d \in Caller : Generating(d, n)' => call'[d] = call[d] /\ Generating(d, n)
  BY DEF Generating
<1>. QED
  BY <1>1 DEF TurnFor

\* Every step keeps what is said of the call whose turn it is.
LEMMA TurnNext ==
  ASSUME SessionInv, [Next]_vars, NEW n \in Name, TurnFor(n)
  PROVE  TurnFor(n)'
<1>1. TypeOK /\ GeneratesForItsName
  BY DEF SessionInv
<1>2. \A d \in Caller : Generating(d, n) /\ call[d].usage \in Explicit
                          => ExplicitName[call[d].usage] = n
  BY <1>1 DEF GeneratesForItsName, Generating
<1>3. begun[n] \in Nat
  BY <1>1 DEF TypeOK
<1>4. ASSUME NEW c \in Caller, NEW u \in KeyUsage, GenerateStart(c, u)
      PROVE  TurnFor(n)'
  <2>1. /\ ~Generating(c, n)
        /\ cryptoKey' = cryptoKey
        /\ \A d \in Caller \ {c} : call'[d] = call[d]
    BY <1>1, <1>4 DEF GenerateStart, Suspend, TypeOK, Generating
  <2>2. /\ call'[c].pc = "generating"
        /\ call'[c].name = NameOf(u)
        /\ call'[c].usage = u
        /\ call'[c].turn = IF Alone(u) THEN begun[NameOf(u)] + 1 ELSE -1
    BY <1>1, <1>4 DEF GenerateStart, Suspend, TypeOK
  <2>3. CASE NameOf(u) # n
    <3>1. ~Generating(c, n)' /\ begun'[n] = begun[n]
      BY <1>1, <1>4, <2>2, <2>3 DEF Generating, GenerateStart, TypeOK
    <3>. QED
      BY <1>2, <2>1, <3>1, TurnKept
  <2>4. CASE NameOf(u) = n
    <3>1. begun'[n] = begun[n] + 1
      BY <1>1, <1>4, <2>4 DEF GenerateStart, TypeOK
    <3>2. \A d \in Caller : Generating(d, n) => call[d].turn \in Int
      BY <1>1, CallShape DEF Generating, Stamp
    <3>3. ASSUME NEW d \in Caller, d # c, Generating(d, n)'
          PROVE  call'[d].turn <= begun'[n] /\ call'[d].turn # begun'[n]
      <4>1. call'[d] = call[d] /\ Generating(d, n)
        BY <2>1, <3>3 DEF Generating
      <4>2. call[d].turn <= begun[n] /\ call[d].turn \in Int
        BY <3>2, <4>1 DEF TurnFor
      <4>. QED
        BY <1>3, <3>1, <4>1, <4>2
    <3>4. call'[c].turn <= begun'[n]
      BY <1>3, <2>2, <2>4, <3>1
    <3>5. ASSUME call'[c].turn = begun'[n]
          PROVE  /\ \A d \in Caller : Generating(d, n)' => d = c
                 /\ \A v \in Explicit : ExplicitName[v] = n => v = call'[c].usage
      <4>1. Alone(u)
        BY <1>3, <2>2, <3>1, <3>5
      <4>. QED
        BY <2>1, <2>2, <2>4, <4>1 DEF Alone, Generating
    <3>. QED
      BY <2>2, <3>3, <3>4, <3>5 DEF TurnFor
  <2>. QED
    BY <2>3, <2>4
<1>5. ASSUME NEW c \in Caller, GenerateResolved(c)
      PROVE  TurnFor(n)'
  <2>1. /\ begun' = begun
        /\ \A d \in Caller \ {c} : call'[d] = call[d]
        /\ call[c].pc = "generating"
        /\ call'[c].pc = "exporting"
        /\ call'[c].name = call[c].name
        /\ call'[c].usage = call[c].usage
        /\ call'[c].key = call[c].key
        /\ call'[c].turn = call[c].turn
    BY <1>1, <1>5, CallShape DEF GenerateResolved, Suspend, TypeOK, history
  <2>2. \A u \in Explicit :
          cryptoKey'[u] = IF u = call[c].usage THEN call[c].key ELSE cryptoKey[u]
    BY <1>5 DEF GenerateResolved
  <2>3. CASE call[c].name # n
    <3>1. ~Generating(c, n) /\ ~Generating(c, n)'
      BY <2>1, <2>3 DEF Generating
    <3>2. \A u \in Explicit : ExplicitName[u] = n => cryptoKey'[u] = cryptoKey[u]
      BY <1>1, <2>1, <2>2, <2>3 DEF GeneratesForItsName
    <3>. QED
      BY <1>2, <2>1, <3>1, <3>2, TurnKept
  <2>4. CASE call[c].name = n
    <3>1. Generating(c, n)
      BY <2>1, <2>4 DEF Generating
    <3>2. \A d \in Caller : Generating(d, n)' => Generating(d, n)
      BY <2>1, <3>1 DEF Generating
    <3>3. \A d \in Caller : Generating(d, n) /\ call[d].turn = begun[n] => d = c
      BY <3>1 DEF TurnFor
    <3>4. call'[c].usage \in Explicit => cryptoKey'[call'[c].usage] = call'[c].key
      BY <2>1, <2>2
    <3>5. ASSUME NEW d \in Caller, Generating(d, n)'
          PROVE  /\ call'[d].turn <= begun'[n]
                 /\ call'[d].turn = begun'[n] =>
                      /\ \A e \in Caller : Generating(e, n)' => e = d
                      /\ \A v \in Explicit : ExplicitName[v] = n => v = call'[d].usage
                      /\ call'[d].pc = "exporting" =>
                           (call'[d].usage \in Explicit =>
                              cryptoKey'[call'[d].usage] = call'[d].key)
      <4>1. /\ Generating(d, n)
            /\ call'[d].turn = call[d].turn
            /\ call'[d].usage = call[d].usage
        BY <2>1, <3>2, <3>5
      <4>. QED
        BY <2>1, <3>2, <3>3, <3>4, <4>1 DEF TurnFor
    <3>. QED
      BY <3>5 DEF TurnFor
  <2>. QED
    BY <2>3, <2>4
<1>6. ASSUME NEW c \in Caller,
             \/ ExportResolved(c)
             \/ SignStart(c)
             \/ VerifyStart(c)
             \/ SignPickKey(c)
             \/ SignReadContainer(c)
             \/ SignResolved(c)
             \/ \E d \in Caller : VerifyResolved(c, d)
             \/ Rejected(c)
      PROVE  TurnFor(n)'
  <2>1. begun' = begun /\ cryptoKey' = cryptoKey
    BY <1>6 DEF ExportResolved, SignStart, VerifyStart, SignPickKey, SignReadContainer,
                SignResolved, VerifyResolved, Rejected, history
  <2>2. /\ call'[c].pc \notin {"generating", "exporting"}
        /\ \A d \in Caller \ {c} : call'[d] = call[d]
    BY <1>1, <1>6, CallShape
       DEF ExportResolved, SignStart, VerifyStart, SignPickKey, SignReadContainer,
           SignWith, SignResolved, VerifyResolved, Rejected, Return, Suspend, Idle,
           TypeOK
  <2>3. ~Generating(c, n)'
    BY <2>2 DEF Generating
  <2>. QED
    BY <1>2, <2>1, <2>2, <2>3, TurnKept
<1>7. CASE UNCHANGED <<begun, cryptoKey, call>>
  BY <1>2, <1>7, TurnKept
<1>. QED
  BY <1>4, <1>5, <1>6, <1>7
     DEF Next, Continue, vars, history, UseAlgorithm

\* A step that keeps the keys of a name and what is remembered of them, and
\* that starts, changes or ends no generateKey call for it but one that has
\* remembered nothing yet.
LEMMA SerialKept ==
  ASSUME NEW n \in Name, SerialFor(n),
         store'[n] = store[n],
         \A u \in Explicit : ExplicitName[u] = n => cryptoKey'[u] = cryptoKey[u],
         \A d \in Caller : Generating(d, n) /\ call[d].usage \in Explicit
                             => ExplicitName[call[d].usage] = n,
         \A d \in Caller :
           \/ call'[d] = call[d]
           \/ /\ ~Generating(d, n)'
              /\ ~(Generating(d, n) /\ call[d].pc = "exporting")
  PROVE  SerialFor(n)'
<1>1. \A d \in Caller : Generating(d, n)' => call'[d] = call[d] /\ Generating(d, n)
  BY DEF Generating
<1>2. \A d \in Caller : Generating(d, n) /\ call[d].pc = "exporting" =>
        call'[d] = call[d] /\ Generating(d, n)'
  BY DEF Generating
<1>3. \A c, d \in Caller : Generating(c, n)' /\ Generating(d, n)' => c = d
  BY <1>1 DEF SerialFor
<1>4. \A c \in Caller, v \in Explicit :
        Generating(c, n)' /\ ExplicitName[v] = n => v = call'[c].usage
  BY <1>1 DEF SerialFor
<1>5. \A u \in Explicit : ExplicitName[u] = n /\ cryptoKey'[u] # None =>
        \/ store'[n] # NoContainer /\ cryptoKey'[u] = GetKey(store'[n])
        \/ \E c \in Caller : /\ Generating(c, n)'
                             /\ call'[c].pc = "exporting"
                             /\ call'[c].key = cryptoKey'[u]
  BY <1>2 DEF SerialFor
<1>6. \A c \in Caller : Generating(c, n)' /\ call'[c].pc = "exporting" =>
        (call'[c].usage \in Explicit => cryptoKey'[call'[c].usage] = call'[c].key)
  BY <1>1 DEF SerialFor
<1>. QED
  BY <1>3, <1>4, <1>5, <1>6 DEF SerialFor

\* A call whose turn it is leaves its key as the newest one and the only one that
\* is remembered, whatever there was before.
LEMMA TurnSettles ==
  ASSUME TypeOK, NEW c \in Caller, ExportResolved(c), NEW n \in Name, TurnFor(n),
         call[c].name = n, call[c].turn = begun[n]
  PROVE  SerialFor(n)'
<1>1. /\ cryptoKey' = cryptoKey
      /\ \A d \in Caller \ {c} : call'[d] = call[d]
      /\ call[c].pc = "exporting"
      /\ call'[c] = Idle
      /\ call[c].key \in PrivateKey
  BY CallShape DEF ExportResolved, Return, Suspend, TypeOK
<1>2. Generating(c, n)
  BY <1>1 DEF Generating
<1>3. \A d \in Caller : ~Generating(d, n)'
  BY <1>1, <1>2 DEF TurnFor, Generating, Idle
<1>4. store'[n] # NoContainer /\ GetKey(store'[n]) = call[c].key
  <2>1. store'[n] = Append(store[n], call[c].key) /\ store[n] \in Seq(PrivateKey)
    BY DEF TypeOK, ExportResolved, SaveTo
  <2>. QED
    BY <1>1, <2>1, GetKeyAppend
<1>5. \A u \in Explicit : ExplicitName[u] = n => cryptoKey'[u] = call[c].key
  BY <1>1, <1>2 DEF TurnFor
<1>. QED
  BY <1>3, <1>4, <1>5 DEF SerialFor

\* Every step keeps SerialInv: one case per action that can disturb it.
LEMMA SerialNext == SessionInv /\ SerialInv /\ [Next]_vars => SerialInv'
<1> SUFFICES ASSUME SessionInv, SerialInv, [Next]_vars,
                    NEW n \in Name, ~disturbed'[n]
             PROVE  SerialFor(n)'
  BY TurnNext DEF SerialInv
<1>1. TypeOK /\ GeneratesForItsName
  BY DEF SessionInv
<1> SUFFICES ASSUME ~\E c \in Caller : /\ ExportResolved(c)
                                       /\ call[c].name = n
                                       /\ call[c].turn = begun[n]
             PROVE  SerialFor(n)'
  BY <1>1, TurnSettles DEF SerialInv
<1>2. SerialFor(n)
  BY <1>1, DisturbedStays DEF SerialInv
<1>3. \A d \in Caller : Generating(d, n) /\ call[d].usage \in Explicit
                          => ExplicitName[call[d].usage] = n
  BY <1>1 DEF GeneratesForItsName, Generating
<1>4. ASSUME NEW c \in Caller, NEW u \in KeyUsage, GenerateStart(c, u)
      PROVE  SerialFor(n)'
  <2>1. /\ ~Generating(c, n)
        /\ UNCHANGED <<store, cryptoKey>>
        /\ \A d \in Caller \ {c} : call'[d] = call[d]
    BY <1>1, <1>4 DEF GenerateStart, Suspend, TypeOK, Generating
  <2>2. /\ call'[c].pc = "generating"
        /\ call'[c].name = NameOf(u)
        /\ call'[c].usage = u
    BY <1>1, <1>4 DEF GenerateStart, Suspend, TypeOK
  <2>3. CASE NameOf(u) # n
    <3>1. ~Generating(c, n)'
      BY <2>2, <2>3 DEF Generating
    <3>. QED
      BY <1>2, <1>3, <2>1, <3>1, SerialKept
  <2>4. CASE NameOf(u) = n
    <3>1. /\ \A d \in Caller : ~Generating(d, n)
          /\ \A v \in Explicit \ {u} : ExplicitName[v] # n
      BY <1>1, <1>4, <2>4 DEF GenerateStart, Alone, TypeOK
    <3>2. \A d \in Caller : Generating(d, n)' => d = c
      BY <2>1, <3>1 DEF Generating
    <3>3. \A v \in Explicit : ExplicitName[v] = n /\ cryptoKey[v] # None =>
            store[n] # NoContainer /\ cryptoKey[v] = GetKey(store[n])
      BY <1>2, <3>1 DEF SerialFor
    <3>. QED
      BY <2>1, <2>2, <3>1, <3>2, <3>3 DEF SerialFor
  <2>. QED
    BY <2>3, <2>4
<1>5. ASSUME NEW c \in Caller, GenerateResolved(c)
      PROVE  SerialFor(n)'
  <2>1. /\ store' = store
        /\ \A d \in Caller \ {c} : call'[d] = call[d]
        /\ call[c].pc = "generating"
        /\ call'[c].pc = "exporting"
        /\ call'[c].name = call[c].name
        /\ call'[c].usage = call[c].usage
        /\ call'[c].key = call[c].key
    BY <1>1, <1>5, CallShape DEF GenerateResolved, Suspend, TypeOK
  <2>2. \A u \in Explicit :
          cryptoKey'[u] = IF u = call[c].usage THEN call[c].key ELSE cryptoKey[u]
    BY <1>5 DEF GenerateResolved
  <2>3. CASE call[c].name # n
    <3>1. ~Generating(c, n) /\ ~Generating(c, n)'
      BY <2>1, <2>3 DEF Generating
    <3>2. \A u \in Explicit : ExplicitName[u] = n => cryptoKey'[u] = cryptoKey[u]
      BY <1>1, <2>1, <2>2, <2>3 DEF GeneratesForItsName
    <3>. QED
      BY <1>2, <1>3, <2>1, <3>1, <3>2, SerialKept
  <2>4. CASE call[c].name = n
    <3>1. Generating(c, n) /\ Generating(c, n)'
      BY <2>1, <2>4 DEF Generating
    <3>2. \A d \in Caller : Generating(d, n)' => d = c
      BY <1>2, <2>1, <3>1 DEF SerialFor, Generating
    <3>3. \A v \in Explicit : ExplicitName[v] = n => v = call[c].usage
      BY <1>2, <3>1 DEF SerialFor
    <3>4. \A v \in Explicit : ExplicitName[v] = n => cryptoKey'[v] = call'[c].key
      BY <2>1, <2>2, <3>3
    <3>. QED
      BY <2>1, <2>2, <3>1, <3>2, <3>3, <3>4 DEF SerialFor
  <2>. QED
    BY <2>3, <2>4
<1>6. ASSUME NEW c \in Caller, ExportResolved(c)
      PROVE  SerialFor(n)'
  <2>1. /\ cryptoKey' = cryptoKey
        /\ \A d \in Caller \ {c} : call'[d] = call[d]
        /\ call[c].pc = "exporting"
        /\ call'[c] = Idle
        /\ call[c].name \in Name
        /\ call[c].key \in PrivateKey
    BY <1>1, <1>6, CallShape DEF ExportResolved, Return, Suspend, TypeOK
  <2>2. ~Generating(c, n)'
    BY <2>1 DEF Generating, Idle
  <2>3. store' = [store EXCEPT ![call[c].name] = Append(@, call[c].key)]
    BY <1>6 DEF ExportResolved, SaveTo
  <2>4. CASE call[c].name # n
    <3>1. store'[n] = store[n] /\ ~Generating(c, n)
      BY <1>1, <2>1, <2>3, <2>4 DEF Generating, TypeOK
    <3>. QED
      BY <1>2, <1>3, <2>1, <2>2, <3>1, SerialKept
  <2>5. CASE call[c].name = n
    <3>1. Generating(c, n)
      BY <2>1, <2>5 DEF Generating
    <3>2. \A d \in Caller : ~Generating(d, n)'
      BY <1>2, <2>1, <2>2, <3>1 DEF SerialFor, Generating
    <3>3. store'[n] # NoContainer /\ GetKey(store'[n]) = call[c].key
      <4>1. store'[n] = Append(store[n], call[c].key) /\ store[n] \in Seq(PrivateKey)
        BY <1>1, <2>3, <2>5 DEF TypeOK
      <4>. QED
        BY <2>1, <4>1, GetKeyAppend
    <3>4. \A u \in Explicit : ExplicitName[u] = n => cryptoKey'[u] = call[c].key
      BY <1>2, <2>1, <3>1 DEF SerialFor
    <3>. QED
      BY <3>2, <3>3, <3>4 DEF SerialFor
  <2>. QED
    BY <2>4, <2>5
<1>7. ASSUME NEW c \in Caller,
             \/ SignStart(c)
             \/ VerifyStart(c)
             \/ SignPickKey(c)
             \/ SignReadContainer(c)
             \/ SignResolved(c)
             \/ \E d \in Caller : VerifyResolved(c, d)
      PROVE  SerialFor(n)'
  <2>1. store' = store /\ cryptoKey' = cryptoKey
    BY <1>7 DEF SignStart, VerifyStart, SignPickKey, SignReadContainer,
                SignResolved, VerifyResolved
  <2>2. /\ call[c].pc \notin {"generating", "exporting"}
        /\ call'[c].pc \notin {"generating", "exporting"}
        /\ \A d \in Caller \ {c} : call'[d] = call[d]
    BY <1>1, <1>7, CallShape
       DEF SignStart, VerifyStart, SignPickKey, SignReadContainer, SignWith,
           SignResolved, VerifyResolved, Return, Suspend, Idle, TypeOK
  <2>3. ~Generating(c, n) /\ ~Generating(c, n)'
    BY <2>2 DEF Generating
  <2>. QED
    BY <1>2, <1>3, <2>1, <2>2, <2>3, SerialKept
<1>8. ASSUME NEW c \in Caller, Rejected(c)
      PROVE  SerialFor(n)'
  <2>1. /\ UNCHANGED <<store, cryptoKey>>
        /\ call'[c] = Idle
        /\ \A d \in Caller \ {c} : call'[d] = call[d]
    BY <1>1, <1>8 DEF Rejected, Return, Suspend, TypeOK
  <2>2. ~(Generating(c, n) /\ call[c].pc = "exporting")
    BY <1>8 DEF Rejected, Generating
  <2>3. ~Generating(c, n)'
    BY <2>1 DEF Generating, Idle
  <2>. QED
    BY <1>2, <1>3, <2>1, <2>2, <2>3, SerialKept
<1>9. CASE UNCHANGED <<store, cryptoKey, call>>
  BY <1>2, <1>3, <1>9, SerialKept
<1>. QED
  BY <1>4, <1>5, <1>6, <1>7, <1>8, <1>9
     DEF Next, Continue, vars, UseAlgorithm

\* Nothing is remembered and nothing runs at first.
LEMMA SerialInit == Init => SerialInv
  BY DEF Init, SerialInv, SerialFor, TurnFor, Generating, Idle

\* Without overlapping, sharing or failed exports, or once a call has run alone
\* and saved after them, generateKey leaves the key that a reference remembers as
\* the newest one of the store.
THEOREM GenerationSettles == Spec => []SerialGenerationSettles
<1>1. TypeOK /\ SerialInv => SerialGenerationSettles
  BY ConstantsAssumption DEF SerialInv, SerialFor, SerialGenerationSettles, Generating
<1>2. SessionInv => TypeOK
  BY DEF SessionInv
<1>. QED
  BY <1>1, <1>2, SessionInit, SessionNext, SerialInit, SerialNext, PTL DEF Spec
-----------------------------------------------------------------------------
(* The names of default references. *)

\* Only ExportResolved adds a key, of the algorithm in the name it generates for.
LEMMA HomogeneousNext ==
  SessionInv /\ DefaultContainersHomogeneous /\ [Next]_vars
    => DefaultContainersHomogeneous'
<1> SUFFICES ASSUME SessionInv, DefaultContainersHomogeneous, [Next]_vars,
                    NEW u \in KeyUsage, NEW a \in Alg,
                    \A v \in Explicit : ExplicitName[v] # DefaultName[<<u, a>>],
                    NEW i \in 1..Len(store'[DefaultName[<<u, a>>]])
             PROVE  store'[DefaultName[<<u, a>>]][i].alg = a
  BY DEF DefaultContainersHomogeneous
<1> DEFINE n == DefaultName[<<u, a>>]
<1>1. TypeOK /\ GeneratesForItsName /\ n \in Name
  BY ConstantsAssumption DEF SessionInv
<1>2. \A j \in 1..Len(store[n]) : store[n][j].alg = a
  BY DEF DefaultContainersHomogeneous
<1>3. CASE store'[n] = store[n]
  BY <1>2, <1>3
<1>4. ASSUME NEW c \in Caller, ExportResolved(c), store'[n] # store[n]
      PROVE  store'[n][i].alg = a
  <2>1. /\ call[c].pc = "exporting"
        /\ call[c].name \in Name
        /\ call[c].usage \in KeyUsage
        /\ call[c].key \in PrivateKey
        /\ call[c].key.alg \in Alg
    BY <1>1, <1>4, CallShape DEF ExportResolved, PrivateKey, Key
  <2>2. call[c].name = n /\ store'[n] = Append(store[n], call[c].key)
    BY <1>1, <1>4, <2>1 DEF ExportResolved, SaveTo, TypeOK
  <2>3. n = DefaultName[<<call[c].usage, call[c].key.alg>>]
    BY <1>1, <2>1, <2>2 DEF GeneratesForItsName
  <2>4. call[c].key.alg = a
    BY <2>1, <2>3, ConstantsAssumption
  <2>. PICK s \in Seq(PrivateKey) : s = store[n]
    BY <1>1 DEF TypeOK
  <2>. PICK k \in PrivateKey : k = call[c].key
    BY <2>1
  <2>5. /\ Len(Append(s, k)) = Len(s) + 1
        /\ \A j \in 1..Len(s) + 1 :
             Append(s, k)[j] = IF j = Len(s) + 1 THEN k ELSE s[j]
    OBVIOUS
  <2>6. i \in 1..Len(s) + 1
    BY <2>2, <2>5
  <2>. QED
    BY <1>2, <2>2, <2>4, <2>5, <2>6
<1>. QED
  BY <1>3, <1>4
     DEF Next, vars, Continue, UseAlgorithm, GenerateStart, GenerateResolved,
         SignStart, SignPickKey, SignReadContainer, SignResolved, VerifyStart,
         VerifyResolved, Rejected

\* All keys under the name of a default reference are of its algorithm.
THEOREM HomogeneousDefaults == Spec => []DefaultContainersHomogeneous
<1>1. Init => DefaultContainersHomogeneous
  BY ConstantsAssumption DEF Init, DefaultContainersHomogeneous, NoContainer
<1>. QED
  BY <1>1, HomogeneousNext, SessionInit, SessionNext, PTL DEF Spec
=============================================================================
