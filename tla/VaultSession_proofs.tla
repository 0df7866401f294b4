------------------------- MODULE VaultSession_proofs -------------------------
(* Proofs about VaultSession, for every value of its constants. *)
EXTENDS VaultSession, SequenceTheorems, TLAPS

-----------------------------------------------------------------------------
(* The invariant. *)

Pinned == [public : Nat, kid : Nat]
AnswerOf == [header : Nat, by : Nat, from : Nat, due : BOOLEAN]

Shape(r) ==
  /\ r.pc \in {"idle", "creating", "created", "publicKey", "key", "kid", "signing",
               "retrying", "decrypting", "importing"}
  /\ r.pc = "created" => r.version \in Nat
  /\ r.pc = "publicKey" => r \in [pc : {"publicKey"}, from : Nat, due : BOOLEAN]
  /\ r.pc \in {"key", "kid"} =>
       r \in [pc : {"key", "kid"}, header : Nat, from : Nat, due : BOOLEAN]
  /\ r.pc \in {"signing", "retrying", "decrypting"} =>
       r \in [pc : {"signing", "retrying", "decrypting"}, header : Nat, key : Pinned,
              from : Nat, due : BOOLEAN]

\* What a suspended call knows of the newest version and of the remembered key;
\* the versions of the session are "owned".  Until it has its key, what it knows is
\* about the version that was the newest when it began; a key that it has stays
\* what it is.
Knows(r, newest, remembered, owned) ==
  /\ Shape(r)
  /\ r.pc = "created" => r.version \in owned
  /\ r.pc \in {"publicKey", "key", "kid"} => r.from <= newest
  /\ r.pc = "publicKey" /\ r.due /\ r.from = newest
       => (remembered # None => remembered.kid = newest)
  /\ r.pc = "key" => r.from <= r.header /\ r.header <= newest
  /\ r.pc = "kid" /\ r.due => r.header = r.from
  /\ r.pc \in {"signing", "retrying", "decrypting"} =>
       /\ r.due => r.key.kid = r.header
       /\ r.key.kid \in owned \/ r.key.kid >= r.from

TypesFit ==
  /\ vault \in Seq([legacy : BOOLEAN, enabled : BOOLEAN])
  /\ call = [c \in Caller |-> call[c]]
  /\ cryptoKey # None => cryptoKey \in Pinned
  /\ result # None => result \in AnswerOf

RememberedIsOwn ==
  cryptoKey # None => cryptoKey.public = cryptoKey.kid /\ cryptoKey.kid \in own

\* No call will change what is remembered as long as nobody has made a version
\* since a sign began that found the session settled.
NobodyRemembers ==
  \A c, d \in Caller :
    call[c].pc = "publicKey" /\ call[c].due /\ call[c].from = Newest(vault)
      => call[d].pc # "created"

SessionInv ==
  /\ TypesFit
  /\ RememberedIsOwn
  /\ NobodyRemembers
  /\ HeaderVersionSigns
  /\ NothingOlderSigns
  /\ \A c \in Caller : Knows(call[c], Newest(vault), cryptoKey, own)

\* The newest version is a number.
LEMMA NewestIsNat == TypesFit => Newest(vault) \in Nat
  BY DEF TypesFit, Newest

\* The empty session has the invariant.
LEMMA SessionInit == Init => SessionInv
<1> SUFFICES ASSUME Init PROVE SessionInv
  OBVIOUS
<1>1. TypesFit /\ RememberedIsOwn /\ HeaderVersionSigns /\ NothingOlderSigns
  BY DEF Init, TypesFit, RememberedIsOwn, HeaderVersionSigns, NothingOlderSigns
<1>2. \A c \in Caller : call[c] = Idle
  BY DEF Init
<1>3. Idle.pc = "idle"
  BY DEF Idle
<1>4. \A c \in Caller : Knows(call[c], Newest(vault), cryptoKey, own)
  BY <1>2, <1>3 DEF Knows, Shape
<1>5. NobodyRemembers
  BY <1>2, <1>3 DEF NobodyRemembers
<1>. QED
  BY <1>1, <1>4, <1>5 DEF SessionInv
-----------------------------------------------------------------------------
(* Two kinds of steps. *)

\* A step of one call, which keeps the number of versions and the remembered key.
LEMMA CallStep ==
  ASSUME SessionInv, NEW c \in Caller, NEW r,
         call' = [call EXCEPT ![c] = r],
         Knows(r, Newest(vault), cryptoKey, own),
         r.pc # "created", r.pc = "publicKey" /\ r.due => Settled,
         UNCHANGED <<vault, cryptoKey, own>>,
         \/ UNCHANGED result
         \/ /\ result' \in AnswerOf
            /\ result'.due => result'.by = result'.header
            /\ result'.by \in own \/ result'.by >= result'.from
  PROVE  SessionInv'
<1>1. call = [d \in Caller |-> call[d]]
  BY DEF SessionInv, TypesFit
<1>2. /\ call' = [d \in Caller |-> call'[d]]
      /\ call'[c] = r
      /\ \A d \in Caller : d # c => call'[d] = call[d]
  BY <1>1
<1>3. TypesFit' /\ RememberedIsOwn'
  BY <1>2 DEF SessionInv, TypesFit, RememberedIsOwn
<1>4. HeaderVersionSigns' /\ NothingOlderSigns'
  BY DEF SessionInv, HeaderVersionSigns, NothingOlderSigns
<1>5. Newest(vault)' = Newest(vault)
  BY DEF Newest
<1>6. ASSUME NEW d \in Caller
      PROVE  Knows(call'[d], Newest(vault)', cryptoKey', own')
  <2>1. CASE d = c
    BY <1>2, <1>5, <2>1
  <2>2. CASE d # c
    BY <1>2, <1>5, <2>2 DEF SessionInv
  <2>. QED
    BY <2>1, <2>2
<1>7. NobodyRemembers'
  <2> SUFFICES ASSUME NEW d \in Caller, NEW e \in Caller, call'[d].pc = "publicKey",
                      call'[d].due, call'[d].from = Newest(vault)
               PROVE  call'[e].pc # "created"
    BY <1>5 DEF NobodyRemembers
  <2>1. CASE d = c
    BY <1>2, <2>1 DEF Settled
  <2>2. CASE d # c
    BY <1>2, <2>2 DEF SessionInv, NobodyRemembers
  <2>. QED
    BY <2>1, <2>2
<1>. QED
  BY <1>3, <1>4, <1>6, <1>7 DEF SessionInv

\* What a call knows is still so when a version is added: nothing is said any more of
\* the newest one to a call that has begun before.
LEMMA KnowsLater ==
  ASSUME NEW r, NEW newest \in Nat, NEW remembered, NEW owned,
         Knows(r, newest, remembered, owned),
         NEW more, owned \subseteq more
  PROVE  Knows(r, newest + 1, remembered, more)
<1>1. Shape(r)
  BY DEF Knows
<1>2. CASE r.pc \in {"publicKey", "key", "kid"}
  <2>1. r.from \in Nat /\ (r.pc \in {"key", "kid"} => r.header \in Nat)
    BY <1>1, <1>2 DEF Shape
  <2>2. r.from <= newest + 1 /\ r.from # newest + 1
    BY <1>2, <2>1 DEF Knows
  <2>3. r.pc = "key" => r.from <= r.header /\ r.header <= newest + 1
    BY <1>2, <2>1 DEF Knows
  <2>. QED
    BY <1>1, <1>2, <2>2, <2>3 DEF Knows
<1>3. CASE r.pc \notin {"publicKey", "key", "kid"}
  BY <1>1, <1>3 DEF Knows
<1>. QED
  BY <1>2, <1>3
-----------------------------------------------------------------------------
(* The actions. *)

\* The vault gets one version more.
LEMMA PublishIs ==
  ASSUME SessionInv, NEW legacy \in BOOLEAN, Publish(legacy)
  PROVE  /\ vault' \in Seq([legacy : BOOLEAN, enabled : BOOLEAN])
         /\ Newest(vault) \in Nat
         /\ Newest(vault') = Newest(vault) + 1
<1> DEFINE Version == [legacy : BOOLEAN, enabled : BOOLEAN]
<1>1. vault \in Seq(Version) /\ [legacy |-> legacy, enabled |-> TRUE] \in Version
  BY DEF SessionInv, TypesFit
<1>2. vault' = Append(vault, [legacy |-> legacy, enabled |-> TRUE])
  BY DEF Publish
<1> HIDE DEF Version
<1>3. vault' \in Seq(Version) /\ Len(vault) \in Nat /\ Len(vault') = Len(vault) + 1
  BY <1>1, <1>2
<1>. QED
  BY <1>3 DEF Version, Newest

\* No call that has begun before is about the version that was added.
LEMMA NobodyRemembersLater ==
  ASSUME SessionInv, Newest(vault) \in Nat, Newest(vault)' = Newest(vault) + 1,
         \A d \in Caller : call'[d].pc = "publicKey" => call'[d] = call[d]
  PROVE  NobodyRemembers'
<1> SUFFICES ASSUME NEW d \in Caller, call'[d].pc = "publicKey",
                    call'[d].from = Newest(vault) + 1
             PROVE  FALSE
  BY DEF NobodyRemembers
<1>1. call'[d] = call[d]
  OBVIOUS
<1>2. call[d].from <= Newest(vault) /\ call[d].from \in Nat
  BY <1>1 DEF SessionInv, Knows, Shape
<1>. QED
  BY <1>1, <1>2

\* Others make a version.
LEMMA RotateKeeps ==
  ASSUME SessionInv, NEW legacy \in BOOLEAN, Rotate(legacy)
  PROVE  SessionInv'
<1>1. UNCHANGED <<cryptoKey, call, result, own>> /\ Publish(legacy)
  BY DEF Rotate
<1>2. Newest(vault) \in Nat /\ Newest(vault)' = Newest(vault) + 1
  BY <1>1, PublishIs DEF Newest
<1>3. TypesFit' /\ RememberedIsOwn' /\ HeaderVersionSigns' /\ NothingOlderSigns'
  BY <1>1, PublishIs DEF SessionInv, TypesFit, RememberedIsOwn, HeaderVersionSigns,
                         NothingOlderSigns
<1>4. ASSUME NEW d \in Caller
      PROVE  Knows(call'[d], Newest(vault)', cryptoKey', own')
  <2>1. Knows(call[d], Newest(vault), cryptoKey, own)
    BY DEF SessionInv
  <2>2. Knows(call[d], Newest(vault) + 1, cryptoKey, own)
    BY <1>2, <2>1, KnowsLater
  <2>. QED
    BY <1>1, <1>2, <2>2
<1>5. NobodyRemembers'
  BY <1>1, <1>2, NobodyRemembersLater
<1>. QED
  BY <1>3, <1>4, <1>5 DEF SessionInv

\* Others disable a version: the newest one stays the newest.
LEMMA DisableKeeps ==
  ASSUME SessionInv, NEW i \in 1..Len(vault), Disable(i)
  PROVE  SessionInv'
<1> DEFINE Version == [legacy : BOOLEAN, enabled : BOOLEAN]
<1>1. /\ vault \in Seq(Version) /\ Len(vault) \in Nat
      /\ vault \in [1..Len(vault) -> Version] /\ DOMAIN vault = 1..Len(vault)
  <2>1. vault \in Seq(Version)
    BY DEF SessionInv, TypesFit
  <2> HIDE DEF Version
  <2>. QED
    BY <2>1, LenProperties
<1>2. vault' = [vault EXCEPT ![i] = [vault[i] EXCEPT !.enabled = FALSE]]
        /\ UNCHANGED <<cryptoKey, call, result, own>>
  BY DEF Disable
<1>3. vault[i] \in Version /\ [vault[i] EXCEPT !.enabled = FALSE] \in Version
  BY <1>1
<1> HIDE DEF Version
<1>4. vault' \in [1..Len(vault) -> Version]
  BY <1>1, <1>2, <1>3
<1>5. vault' \in Seq(Version) /\ Len(vault') = Len(vault)
  BY <1>1, <1>4
<1>6. TypesFit' /\ RememberedIsOwn'
  BY <1>2, <1>5 DEF SessionInv, TypesFit, RememberedIsOwn, Version
<1>7. HeaderVersionSigns' /\ NothingOlderSigns'
  BY <1>2 DEF SessionInv, HeaderVersionSigns, NothingOlderSigns
<1>8. Newest(vault)' = Newest(vault)
  BY <1>5 DEF Newest
<1>9. \A d \in Caller : Knows(call'[d], Newest(vault)', cryptoKey', own')
  BY <1>2, <1>8 DEF SessionInv
<1>10. NobodyRemembers'
  BY <1>2, <1>8 DEF SessionInv, NobodyRemembers
<1>. QED
  BY <1>6, <1>7, <1>9, <1>10 DEF SessionInv

\* The session makes a version, which is its own.
LEMMA CreatedKeeps ==
  ASSUME SessionInv, NEW c \in Caller, Created(c)
  PROVE  SessionInv'
<1> DEFINE r == [pc |-> "created", version |-> Len(vault')]
<1>1. /\ call' = [call EXCEPT ![c] = r] /\ Publish(FALSE)
      /\ own' = own \cup {Len(vault')} /\ UNCHANGED <<cryptoKey, result>>
  BY DEF Created, Suspend
<1>2. call = [d \in Caller |-> call[d]]
  BY DEF SessionInv, TypesFit
<1>3. /\ call' = [d \in Caller |-> call'[d]] /\ call'[c] = r
      /\ \A d \in Caller : d # c => call'[d] = call[d]
  BY <1>1, <1>2
<1>4. /\ Newest(vault) \in Nat /\ Newest(vault)' = Newest(vault) + 1
      /\ Len(vault') \in Nat
  <2>1. /\ vault' \in Seq([legacy : BOOLEAN, enabled : BOOLEAN])
        /\ Newest(vault) \in Nat /\ Newest(vault') = Newest(vault) + 1
    BY <1>1, PublishIs
  <2>. QED
    BY <2>1 DEF Newest
<1>5. TypesFit' /\ RememberedIsOwn'
  BY <1>1, <1>3, PublishIs DEF SessionInv, TypesFit, RememberedIsOwn
<1>6. HeaderVersionSigns' /\ NothingOlderSigns'
  BY <1>1 DEF SessionInv, HeaderVersionSigns, NothingOlderSigns
<1>7. r.pc = "created" /\ r.version = Len(vault')
  OBVIOUS
<1> HIDE DEF r
<1>8. ASSUME NEW d \in Caller
      PROVE  Knows(call'[d], Newest(vault)', cryptoKey', own')
  <2>1. CASE d = c
    BY <1>1, <1>3, <1>4, <1>7, <2>1 DEF Knows, Shape
  <2>2. CASE d # c
    <3>1. Knows(call[d], Newest(vault), cryptoKey, own) /\ own \subseteq own'
      BY <1>1 DEF SessionInv
    <3>2. Knows(call[d], Newest(vault) + 1, cryptoKey, own')
      BY <1>4, <3>1, KnowsLater
    <3>. QED
      BY <1>1, <1>3, <1>4, <2>2, <3>2
  <2>. QED
    BY <2>1, <2>2
<1>9. NobodyRemembers'
  BY <1>3, <1>4, <1>7, NobodyRemembersLater
<1>. QED
  BY <1>5, <1>6, <1>8, <1>9 DEF SessionInv

\* The session remembers the version that it made, which no call counts on.
LEMMA GenerateResolvedKeeps ==
  ASSUME SessionInv, NEW c \in Caller, GenerateResolved(c)
  PROVE  SessionInv'
<1> DEFINE key == [public |-> call[c].version, kid |-> call[c].version]
<1>1. /\ call[c].pc = "created" /\ cryptoKey' = key
      /\ call' = [call EXCEPT ![c] = Idle]
      /\ UNCHANGED <<vault, result, own>>
  BY DEF GenerateResolved, Return, Suspend
<1>2. call[c].version \in Nat /\ call[c].version \in own
  BY <1>1 DEF SessionInv, Knows, Shape
<1>3. call = [d \in Caller |-> call[d]]
  BY DEF SessionInv, TypesFit
<1>4. /\ call' = [d \in Caller |-> call'[d]] /\ call'[c] = Idle
      /\ \A d \in Caller : d # c => call'[d] = call[d]
  BY <1>1, <1>3
<1>5. key \in Pinned /\ key.public = key.kid /\ key.kid \in own
  BY <1>2 DEF Pinned
<1> HIDE DEF key
<1>6. TypesFit' /\ RememberedIsOwn'
  BY <1>1, <1>4, <1>5 DEF SessionInv, TypesFit, RememberedIsOwn
<1>7. HeaderVersionSigns' /\ NothingOlderSigns'
  BY <1>1 DEF SessionInv, HeaderVersionSigns, NothingOlderSigns
<1>8. Newest(vault)' = Newest(vault)
  BY <1>1 DEF Newest
<1>9. Idle.pc = "idle"
  BY DEF Idle
<1>10. ASSUME NEW d \in Caller
       PROVE  Knows(call'[d], Newest(vault)', cryptoKey', own')
  <2>1. CASE d = c
    BY <1>4, <1>9, <2>1 DEF Knows, Shape
  <2>2. CASE d # c
    <3>1. Knows(call[d], Newest(vault), cryptoKey, own)
      BY DEF SessionInv
    <3>2. ~(call[d].pc = "publicKey" /\ call[d].due /\ call[d].from = Newest(vault))
      BY <1>1 DEF SessionInv, NobodyRemembers
    <3>. QED
      BY <1>1, <1>4, <1>8, <2>2, <3>1, <3>2 DEF Knows
  <2>. QED
    BY <2>1, <2>2
<1>11. NobodyRemembers'
  BY <1>4, <1>8, <1>9 DEF SessionInv, NobodyRemembers
<1>. QED
  BY <1>6, <1>7, <1>10, <1>11 DEF SessionInv

\* An idle call knows nothing.
LEMMA IdleKnows ==
  ASSUME NEW r, r.pc \in {"idle", "creating", "importing"}
  PROVE  Knows(r, Newest(vault), cryptoKey, own)
  BY DEF Knows, Shape

\* A step that only tells a call what it asks for next.
LEMMA NextStep ==
  ASSUME SessionInv, NEW c \in Caller, NEW r, call' = [call EXCEPT ![c] = r],
         Knows(r, Newest(vault), cryptoKey, own), r.pc \notin {"created", "publicKey"},
         UNCHANGED <<kty, vault, cryptoKey, result, own>>
  PROVE  SessionInv'
  BY CallStep

\* sign begins at the newest version; when that, or nothing, is what is remembered, and
\* no call is about to remember anything, its header is due to name the key.
LEMMA SignStartKeeps ==
  ASSUME SessionInv, NEW c \in Caller, SignStart(c)
  PROVE  SessionInv'
<1> DEFINE r == [pc |-> "publicKey", from |-> Newest(vault), due |-> Settled]
<1>1. Settled \in BOOLEAN /\ Newest(vault) \in Nat
  BY NewestIsNat DEF Settled, SessionInv
<1>2. Settled => (cryptoKey # None => cryptoKey.kid = Newest(vault))
  BY DEF Settled
<1>3. call' = [call EXCEPT ![c] = r] /\ UNCHANGED <<kty, vault, cryptoKey, result, own>>
  BY DEF SignStart, Suspend
<1>4. /\ r \in [pc : {"publicKey"}, from : Nat, due : BOOLEAN]
      /\ r.pc = "publicKey" /\ r.from = Newest(vault) /\ (r.due => Settled)
  BY <1>1
<1> HIDE DEF r
<1>5. Knows(r, Newest(vault), cryptoKey, own)
  BY <1>1, <1>2, <1>4 DEF Knows, Shape
<1>. QED
  BY <1>3, <1>4, <1>5, CallStep

\* A call that is about to sign or decrypt.
LEMMA SigningKnows ==
  ASSUME NEW pc \in {"signing", "retrying", "decrypting"}, NEW header \in Nat,
         NEW key \in Pinned, NEW from \in Nat, NEW due \in BOOLEAN,
         due => key.kid = header, key.kid \in own \/ key.kid >= from,
         NEW r, r = [pc |-> pc, header |-> header, key |-> key, from |-> from, due |-> due]
  PROVE  Knows(r, Newest(vault), cryptoKey, own) /\ r.pc = pc
<1>1. /\ r \in [pc : {"signing", "retrying", "decrypting"}, header : Nat, key : Pinned,
                from : Nat, due : BOOLEAN]
      /\ r.pc = pc /\ r.header = header /\ r.key = key /\ r.from = from
      /\ r.due => due
  OBVIOUS
<1>. QED
  BY <1>1 DEF Knows, Shape

\* A call that asks for a key.
LEMMA KeyKnows ==
  ASSUME NEW header \in Nat, NEW from \in Nat, NEW due \in BOOLEAN,
         from <= header, header <= Newest(vault), Newest(vault) \in Nat,
         NEW r, r = [pc |-> "key", header |-> header, from |-> from, due |-> due]
  PROVE  Knows(r, Newest(vault), cryptoKey, own) /\ r.pc = "key"
<1>1. /\ r \in [pc : {"key", "kid"}, header : Nat, from : Nat, due : BOOLEAN]
      /\ r.pc = "key" /\ r.header = header /\ r.from = from
  OBVIOUS
<1>. QED
  BY <1>1 DEF Knows, Shape

\* A call that asks for the version of a key.
LEMMA KidKnows ==
  ASSUME NEW header \in Nat, NEW from \in Nat, NEW due \in BOOLEAN,
         from <= Newest(vault), due => header = from,
         NEW r, r = [pc |-> "kid", header |-> header, from |-> from, due |-> due]
  PROVE  Knows(r, Newest(vault), cryptoKey, own) /\ r.pc = "kid"
<1>1. /\ r \in [pc : {"key", "kid"}, header : Nat, from : Nat, due : BOOLEAN]
      /\ r.pc = "kid" /\ r.header = header /\ r.from = from /\ (r.due => due)
  OBVIOUS
<1>. QED
  BY <1>1 DEF Knows, Shape

\* The header is about the newest version.
LEMMA HeaderFetchedKeeps ==
  ASSUME SessionInv, NEW c \in Caller, HeaderFetched(c)
  PROVE  SessionInv'
<1> DEFINE from == call[c].from
           due == call[c].due
           undisturbed == Undisturbed(c)
           newest == Newest(vault)
<1>1. newest \in Nat
  BY NewestIsNat DEF SessionInv
<1>2. call[c].pc = "publicKey" /\ due \in BOOLEAN /\ from \in Nat /\ from <= newest
  BY DEF HeaderFetched, SessionInv, Knows, Shape
<1>3. /\ undisturbed \in BOOLEAN
      /\ undisturbed => (cryptoKey # None => cryptoKey.kid = newest)
  BY <1>2 DEF SessionInv, Knows, Undisturbed
<1>4. UNCHANGED <<kty, vault, cryptoKey, result, own>>
  BY DEF HeaderFetched
<1>5. CASE cryptoKey # None
  <2> DEFINE r == [pc |-> "signing", header |-> newest, key |-> cryptoKey,
                   from |-> from, due |-> undisturbed]
  <2>1. call' = [call EXCEPT ![c] = r]
    BY <1>5 DEF HeaderFetched, Signing, Suspend
  <2>2. cryptoKey \in Pinned /\ cryptoKey.kid \in own
    BY <1>5 DEF SessionInv, TypesFit, RememberedIsOwn
  <2> HIDE DEF from, due, undisturbed, newest
  <2>3. Knows(r, Newest(vault), cryptoKey, own) /\ r.pc = "signing"
    BY <1>1, <1>2, <1>3, <1>5, <2>2, SigningKnows
  <2> HIDE DEF r
  <2>. QED
    BY <1>4, <2>1, <2>3, NextStep
<1>6. CASE cryptoKey = None
  <2> DEFINE r == [pc |-> "key", header |-> newest, from |-> from, due |-> due]
  <2>1. call' = [call EXCEPT ![c] = r]
    BY <1>6 DEF HeaderFetched, Suspend
  <2>2. newest <= Newest(vault)
    BY <1>1
  <2> HIDE DEF from, due
  <2>3. Knows(r, Newest(vault), cryptoKey, own) /\ r.pc = "key"
    BY <1>1, <1>2, <2>2, KeyKnows
  <2> HIDE DEF r
  <2>. QED
    BY <1>4, <2>1, <2>3, NextStep
<1>. QED
  BY <1>5, <1>6

\* The key that is got once more is pinned to its version, the newest one.
LEMMA KeyFetchedKeeps ==
  ASSUME SessionInv, NEW c \in Caller, KeyFetched(c)
  PROVE  SessionInv'
<1> DEFINE from == call[c].from
           undisturbed == Undisturbed(c)
           header == call[c].header
           key == [public |-> Newest(vault), kid |-> Newest(vault)]
           r == [pc |-> "signing", header |-> header, key |-> key, from |-> from,
                 due |-> undisturbed]
<1>1. call[c].pc = "key" /\ Newest(vault) \in Nat
  BY NewestIsNat DEF KeyFetched, SessionInv
<1>2. /\ header \in Nat /\ from \in Nat /\ call[c].due \in BOOLEAN
      /\ from <= header /\ header <= Newest(vault)
  BY <1>1 DEF SessionInv, Knows, Shape
<1>3. undisturbed \in BOOLEAN /\ (undisturbed => header = Newest(vault))
  BY <1>1, <1>2 DEF Undisturbed
<1>4. key \in Pinned /\ key.kid = Newest(vault) /\ key.kid >= from
  BY <1>1, <1>2 DEF Pinned
<1>5. /\ UNCHANGED <<kty, vault, cryptoKey, result, own>>
      /\ call' = [call EXCEPT ![c] = r]
  BY DEF KeyFetched, Signing, Suspend
<1> HIDE DEF from, undisturbed, header, key
<1>6. Knows(r, Newest(vault), cryptoKey, own) /\ r.pc = "signing"
  BY <1>2, <1>3, <1>4, SigningKnows
<1> HIDE DEF r
<1>. QED
  BY <1>5, <1>6, NextStep

\* The newest version is pinned on a key without one.
LEMMA KidFetchedKeeps ==
  ASSUME SessionInv, NEW c \in Caller, KidFetched(c)
  PROVE  SessionInv'
<1> DEFINE from == call[c].from
           undisturbed == Undisturbed(c)
           header == call[c].header
           key == [public |-> header, kid |-> Newest(vault)]
           r == [pc |-> "signing", header |-> header, key |-> key, from |-> from,
                 due |-> undisturbed]
<1>1. call[c].pc = "kid" /\ Newest(vault) \in Nat
  BY NewestIsNat DEF KidFetched, SessionInv
<1>2. /\ header \in Nat /\ from \in Nat /\ call[c].due \in BOOLEAN
      /\ from <= Newest(vault) /\ (call[c].due => header = from)
  BY <1>1 DEF SessionInv, Knows, Shape
<1>3. undisturbed \in BOOLEAN /\ (undisturbed => header = Newest(vault))
  BY <1>1, <1>2 DEF Undisturbed
<1>4. key \in Pinned /\ key.kid = Newest(vault) /\ key.kid >= from
  BY <1>1, <1>2 DEF Pinned
<1>5. /\ UNCHANGED <<kty, vault, cryptoKey, result, own>>
      /\ call' = [call EXCEPT ![c] = r]
  BY DEF KidFetched, Signing, Suspend
<1> HIDE DEF from, undisturbed, header, key
<1>6. Knows(r, Newest(vault), cryptoKey, own) /\ r.pc = "signing"
  BY <1>2, <1>3, <1>4, SigningKnows
<1> HIDE DEF r
<1>. QED
  BY <1>5, <1>6, NextStep

\* A key with a version is pinned to it, whichever versions there are.
LEMMA ImportStartKeeps ==
  ASSUME SessionInv, NEW c \in Caller, NEW i \in 1..Len(vault), NEW versioned \in BOOLEAN,
         ImportStart(c, i, versioned)
  PROVE  SessionInv'
<1>1. i \in Nat /\ Newest(vault) \in Nat
  BY NewestIsNat DEF SessionInv
<1>2. UNCHANGED <<kty, vault, cryptoKey, result, own>>
  BY DEF ImportStart
<1>3. CASE versioned
  <2> DEFINE key == [public |-> i, kid |-> i]
             due == TRUE
             r == [pc |-> "signing", header |-> i, key |-> key, from |-> i, due |-> due]
  <2>1. key \in Pinned /\ key.kid = i /\ key.kid >= i
    BY <1>1 DEF Pinned
  <2>2. call' = [call EXCEPT ![c] = r]
    BY <1>3 DEF ImportStart, Signing, Suspend
  <2>3. due \in BOOLEAN /\ (due => key.kid = i)
    BY <2>1
  <2> HIDE DEF key, due
  <2>4. Knows(r, Newest(vault), cryptoKey, own) /\ r.pc = "signing"
    BY <1>1, <2>1, <2>3, SigningKnows
  <2> HIDE DEF r
  <2>. QED
    BY <1>2, <2>2, <2>4, NextStep
<1>4. CASE ~versioned
  <2> DEFINE due == i = Newest(vault)
             r == [pc |-> "kid", header |-> i, from |-> Newest(vault), due |-> due]
  <2>1. due \in BOOLEAN /\ (due => i = Newest(vault)) /\ Newest(vault) <= Newest(vault)
    BY <1>1
  <2>2. call' = [call EXCEPT ![c] = r]
    BY <1>4 DEF ImportStart, Suspend
  <2> HIDE DEF due
  <2>3. Knows(r, Newest(vault), cryptoKey, own) /\ r.pc = "kid"
    BY <1>1, <2>1, KidKnows
  <2> HIDE DEF r
  <2>. QED
    BY <1>2, <2>2, <2>3, NextStep
<1>. QED
  BY <1>3, <1>4

\* The vault has signed or decrypted with the version that is pinned.
LEMMA SignedKeeps ==
  ASSUME SessionInv, NEW c \in Caller,
         call[c].pc \in {"signing", "retrying", "decrypting"}, Signed(c),
         UNCHANGED <<vault, cryptoKey, own>>
  PROVE  SessionInv'
<1>1. /\ call[c].header \in Nat /\ call[c].key.kid \in Nat /\ call[c].due \in BOOLEAN
      /\ call[c].from \in Nat
      /\ call[c].due => call[c].key.kid = call[c].header
      /\ call[c].key.kid \in own \/ call[c].key.kid >= call[c].from
  BY DEF SessionInv, Knows, Shape, Pinned
<1> DEFINE answer == [header |-> call[c].header, by |-> call[c].key.kid,
                      from |-> call[c].from, due |-> call[c].due]
<1>2. result' = answer /\ call' = [call EXCEPT ![c] = Idle]
  BY DEF Signed, VersionOf, Return, Suspend
<1>3. /\ answer \in AnswerOf /\ (answer.due => answer.by = answer.header)
      /\ answer.by \in own \/ answer.by >= answer.from
  BY <1>1 DEF AnswerOf
<1> HIDE DEF answer
<1>4. Idle.pc = "idle"
  BY DEF Idle
<1>5. Knows(Idle, Newest(vault), cryptoKey, own)
  BY <1>4, IdleKnows
<1>. QED
  BY <1>2, <1>3, <1>4, <1>5, CallStep

\* The vault signs, or asks for the algorithm of legacy keys: the key stays the same.
LEMMA SignAnsweredKeeps ==
  ASSUME SessionInv, NEW c \in Caller, SignAnswered(c)
  PROVE  SessionInv'
<1>1. call[c].pc = "signing" /\ UNCHANGED <<kty, vault, cryptoKey, own>>
  BY DEF SignAnswered
<1>2. CASE vault[VersionOf(call[c].key)].legacy
  <2> DEFINE r == [call[c] EXCEPT !.pc = "retrying"]
  <2>1. call' = [call EXCEPT ![c] = r] /\ UNCHANGED result
    BY <1>2 DEF SignAnswered, Suspend
  <2>2. /\ call[c] \in [pc : {"signing", "retrying", "decrypting"}, header : Nat,
                        key : Pinned, from : Nat, due : BOOLEAN]
        /\ call[c].due => call[c].key.kid = call[c].header
        /\ call[c].key.kid \in own \/ call[c].key.kid >= call[c].from
    BY <1>1 DEF SessionInv, Knows, Shape
  <2>3. /\ r \in [pc : {"signing", "retrying", "decrypting"}, header : Nat,
                  key : Pinned, from : Nat, due : BOOLEAN]
        /\ r.pc = "retrying"
        /\ r.due => r.key.kid = r.header
        /\ r.key.kid \in own \/ r.key.kid >= r.from
    BY <2>2
  <2> HIDE DEF r
  <2>4. Knows(r, Newest(vault), cryptoKey, own)
    BY <2>3 DEF Knows, Shape
  <2>. QED
    BY <1>1, <2>1, <2>3, <2>4, NextStep
<1>3. CASE ~vault[VersionOf(call[c].key)].legacy
  BY <1>1, <1>3, SignedKeeps DEF SignAnswered
<1>. QED
  BY <1>2, <1>3

\* And signs with that.
LEMMA RetryAnsweredKeeps ==
  ASSUME SessionInv, NEW c \in Caller, RetryAnswered(c)
  PROVE  SessionInv'
  BY SignedKeeps DEF RetryAnswered

\* decrypt takes the remembered key, which is the session's own.
LEMMA DecryptStartKeeps ==
  ASSUME SessionInv, NEW c \in Caller, NEW i \in 1..Len(vault), DecryptStart(c, i)
  PROVE  SessionInv'
<1> DEFINE due == i = cryptoKey.public
           r == [pc |-> "decrypting", header |-> i, key |-> cryptoKey,
                 from |-> Newest(vault), due |-> due]
<1>1. /\ UNCHANGED <<kty, vault, cryptoKey, result, own>> /\ cryptoKey # None
      /\ call' = [call EXCEPT ![c] = r]
  BY DEF DecryptStart, Suspend
<1>2. /\ cryptoKey \in Pinned /\ cryptoKey.kid \in own
      /\ due \in BOOLEAN /\ (due => cryptoKey.kid = i)
      /\ i \in Nat /\ Newest(vault) \in Nat
  BY <1>1, NewestIsNat DEF SessionInv, TypesFit, RememberedIsOwn
<1> HIDE DEF due
<1>3. Knows(r, Newest(vault), cryptoKey, own) /\ r.pc = "decrypting"
  BY <1>2, SigningKnows
<1> HIDE DEF r
<1>. QED
  BY <1>1, <1>3, NextStep

\* The vault decrypts with the version that is pinned.
LEMMA DecryptAnsweredKeeps ==
  ASSUME SessionInv, NEW c \in Caller, DecryptAnswered(c)
  PROVE  SessionInv'
  BY SignedKeeps DEF DecryptAnswered

\* Calls that start something of which nothing is known yet, or end.
LEMMA UnknowingKeeps ==
  ASSUME SessionInv, NEW c \in Caller,
         GenerateStart(c) \/ DecryptByKeyStore(c) \/ Rejected(c)
  PROVE  SessionInv'
<1>1. CASE GenerateStart(c)
  <2>1. Knows([pc |-> "creating"], Newest(vault), cryptoKey, own)
    BY IdleKnows
  <2>. QED
    BY <1>1, <2>1, NextStep DEF GenerateStart, Suspend
<1>2. CASE DecryptByKeyStore(c)
  <2>1. Knows([pc |-> "importing"], Newest(vault), cryptoKey, own)
    BY IdleKnows
  <2>. QED
    BY <1>2, <2>1, NextStep DEF DecryptByKeyStore, Suspend
<1>3. CASE Rejected(c)
  <2>1. Idle.pc = "idle"
    BY DEF Idle
  <2>2. Knows(Idle, Newest(vault), cryptoKey, own)
    BY <2>1, IdleKnows
  <2>. QED
    BY <1>3, <2>1, <2>2, NextStep DEF Rejected, Return, Suspend
<1>. QED
  BY <1>1, <1>2, <1>3

\* Every step.
LEMMA SessionNext == SessionInv /\ [Next]_vars => SessionInv'
<1> SUFFICES ASSUME SessionInv, [Next]_vars PROVE SessionInv'
  OBVIOUS
<1>1. CASE UNCHANGED vars
  BY <1>1 DEF vars, SessionInv, TypesFit, RememberedIsOwn, NobodyRemembers,
              HeaderVersionSigns, NothingOlderSigns, Newest
<1>2. CASE Next
  <2>1. ASSUME NEW legacy \in BOOLEAN, Rotate(legacy) PROVE SessionInv'
    BY <2>1, RotateKeeps
  <2>2. ASSUME NEW i \in 1..Len(vault), Disable(i) PROVE SessionInv'
    BY <2>2, DisableKeeps
  <2>3. ASSUME NEW c \in Caller,
               \/ GenerateStart(c) \/ Created(c) \/ GenerateResolved(c)
               \/ SignStart(c) \/ HeaderFetched(c) \/ KeyFetched(c)
        PROVE  SessionInv'
    BY <2>3, UnknowingKeeps, CreatedKeeps, GenerateResolvedKeeps, SignStartKeeps,
       HeaderFetchedKeeps, KeyFetchedKeeps
  <2>4. ASSUME NEW c \in Caller, NEW i \in 1..Len(vault), NEW b \in BOOLEAN,
               ImportStart(c, i, b)
        PROVE  SessionInv'
    BY <2>4, ImportStartKeeps
  <2>5. ASSUME NEW c \in Caller, NEW i \in 1..Len(vault), DecryptStart(c, i)
        PROVE  SessionInv'
    BY <2>5, DecryptStartKeeps
  <2>6. ASSUME NEW c \in Caller,
               \/ KidFetched(c) \/ SignAnswered(c) \/ RetryAnswered(c)
               \/ DecryptAnswered(c) \/ DecryptByKeyStore(c) \/ Rejected(c)
        PROVE  SessionInv'
    BY <2>6, KidFetchedKeeps, SignAnsweredKeeps, RetryAnsweredKeeps,
       DecryptAnsweredKeeps, UnknowingKeeps
  <2>. QED
    BY <1>2, <2>1, <2>2, <2>3, <2>4, <2>5, <2>6 DEF Next
<1>. QED
  BY <1>1, <1>2

\* The invariant holds.
LEMMA SessionInvHolds == Spec => []SessionInv
  BY SessionInit, SessionNext, PTL DEF Spec
-----------------------------------------------------------------------------
(* The theorems. *)

\* The version whose public key is in the header, or in the JWK that was imported,
\* is the one that the vault signs with, also at the second attempt, unless a version
\* was made before the call had its key or the session remembered an older one.
THEOREM HeaderSigns == Spec => []HeaderVersionSigns
<1>1. SessionInv => HeaderVersionSigns
  BY DEF SessionInv
<1>. QED
  BY <1>1, SessionInvHolds, PTL

\* However generateKey, rotations and imports interleave, nothing is signed or
\* decrypted with a version of others that was replaced before the call began.
THEOREM NothingOlder == Spec => []NothingOlderSigns
<1>1. SessionInv => NothingOlderSigns
  BY DEF SessionInv
<1>. QED
  BY <1>1, SessionInvHolds, PTL
=============================================================================
