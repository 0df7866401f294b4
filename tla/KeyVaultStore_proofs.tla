------------------------ MODULE KeyVaultStore_proofs ------------------------
(* Proofs about KeyVaultStore, for every value of its constants. *)
EXTENDS KeyVaultStore, SequenceTheorems, TLAPS

-----------------------------------------------------------------------------
(* Keys and sequences. *)

\* The public form of a key is a key of the same type, and has no other public
\* form than itself.
LEMMA PublicForm ==
  ASSUME NEW k \in AnyKey
  PROVE  /\ PublicOf(k) \in AnyKey
         /\ PublicOf(PublicOf(k)) = PublicOf(k)
         /\ PublicOf(k).kty = k.kty
<1>1. ASSUME NEW key \in Key
      PROVE  /\ PublicOf(key).kty = key.kty
             /\ PublicOf(PublicOf(key)) = PublicOf(key)
  <2>1. CASE key.kty \in AsymmetricKty
    <3> DEFINE public == [field \in DOMAIN key |->
                            IF field = "private" THEN FALSE ELSE key[field]]
    <3>1. PublicOf(key) = public
      BY <2>1 DEF PublicOf
    <3>2. public.kty = key.kty
      BY ConstantsAssumption
    <3>3. [public EXCEPT !.private = FALSE] = public
      OBVIOUS
    <3>4. PublicOf(public) = public
      BY <2>1, <3>2, <3>3 DEF PublicOf
    <3>. QED
      BY <3>1, <3>2, <3>4
  <2>2. CASE key.kty \notin AsymmetricKty
    BY <2>2 DEF PublicOf
  <2>. QED
    BY <2>1, <2>2
<1>2. CASE k \in Key
  BY <1>1, <1>2 DEF AnyKey
<1>3. CASE k \notin Key
  BY <1>1, <1>3 DEF AnyKey
<1>. QED
  BY <1>2, <1>3

\* The last element of a sequence and what is before it.
LEMMA LastAndFront ==
  ASSUME NEW S, NEW s \in Seq(S), s # << >>
  PROVE  /\ Len(s) \in Nat \ {0}
         /\ Last(s) \in S /\ Last(s) = s[Len(s)]
         /\ Front(s) \in Seq(S) /\ Len(Front(s)) = Len(s) - 1
         /\ \A i \in 1..(Len(s) - 1) : Front(s)[i] = s[i]
<1>1. Len(s) \in Nat \ {0}
  BY EmptySeq
<1>2. Last(s) \in S /\ Last(s) = s[Len(s)]
  BY <1>1 DEF Last
<1>3. /\ SubSeq(s, 1, Len(s) - 1) \in Seq(S)
      /\ Len(SubSeq(s, 1, Len(s) - 1)) = Len(s) - 1
      /\ \A i \in 1..(Len(s) - 1) : SubSeq(s, 1, Len(s) - 1)[i] = s[i]
  <2> DEFINE m == Len(s) - 1
  <2>1. m \in Int /\ 1 \in Int /\ \A i \in 1..m : s[i] \in S
    BY <1>1
  <2> HIDE DEF m
  <2>2. /\ SubSeq(s, 1, m) \in Seq(S)
        /\ Len(SubSeq(s, 1, m)) = IF 1 <= m THEN m - 1 + 1 ELSE 0
        /\ \A i \in 1..(m - 1 + 1) : SubSeq(s, 1, m)[i] = s[1 + i - 1]
    BY <2>1, SubSeqProperties
  <2>3. m \in Nat
    BY <1>1 DEF m
  <2>4. /\ SubSeq(s, 1, m) \in Seq(S)
        /\ Len(SubSeq(s, 1, m)) = m
        /\ \A i \in 1..m : SubSeq(s, 1, m)[i] = s[i]
    BY <2>2, <2>3
  <2>. QED
    BY <2>4 DEF m
<1>. QED
  BY <1>1, <1>2, <1>3 DEF Front

\* Reverse as a sequence.
LEMMA ReverseIs ==
  ASSUME NEW S, NEW s \in Seq(S)
  PROVE  /\ Reverse(s) \in Seq(S) /\ Len(Reverse(s)) = Len(s)
         /\ DOMAIN Reverse(s) = 1..Len(s)
         /\ \A i \in 1..Len(s) : Reverse(s)[i] = s[Len(s) + 1 - i]
<1>1. \A i \in 1..Len(s) : Len(s) - i + 1 \in 1..Len(s) /\ s[Len(s) - i + 1] \in S
  OBVIOUS
<1>. QED
  BY <1>1 DEF Reverse

\* Appending keeps what is there.
LEMMA AppendKeeps ==
  ASSUME NEW S, NEW s \in Seq(S), NEW x \in S
  PROVE  /\ Append(s, x) \in Seq(S) /\ Len(Append(s, x)) = Len(s) + 1
         /\ \A i \in 1..Len(s) : Append(s, x)[i] = s[i]
         /\ Append(s, x)[Len(s) + 1] = x
  OBVIOUS
-----------------------------------------------------------------------------
(* The invariant. *)

VaultBounded == \A n \in Name : Len(vault[n]) <= MaxVersions

\* KeyForm, for a type of references.
FormOf(type, req, k) ==
  IF type = "key" \/ req.publicKeyOnly THEN PublicOf(k) ELSE k

\* Some version was the newest one during the call: a container begins with the
\* oldest version that was asked for and ends where the fetched keys, that one
\* first, begin.
Taken(versions, type, req, container, fetched) ==
  \E newest \in 1..Len(versions) :
    LET oldest == IF req.latestVersion THEN newest ELSE 1 IN
    /\ newest >= req.from
    /\ Len(container) + Len(fetched) = newest + 1 - oldest
    /\ \A i \in 1..Len(container) :
         container[i] = FormOf(type, req, versions[oldest + i - 1].key)
    /\ \A i \in 1..Len(fetched) : fetched[i] = versions[newest + 1 - i].key

\* The versions that are fetched and left are all up to one that was the newest.
Fetching(versions, req, left, fetched) ==
  LET newest == Len(left) + Len(fetched) IN
  /\ ~req.latestVersion
  /\ newest <= Len(versions) /\ newest >= req.from
  /\ Len(left) >= 1
  /\ \A i \in 1..Len(left) : left[i] = newest + 1 - Len(fetched) - i
  /\ \A i \in 1..Len(fetched) : fetched[i] = versions[newest + 1 - i].key

OneType(container) ==
  \A i, j \in 1..Len(container) : container[i].kty = container[j].kty

CallFits(versions, type, r) ==
  /\ r.pc \in {"latest", "listing"} =>
       r.req.from <= Len(versions) /\ (r.req.latestVersion <=> r.pc = "latest")
  /\ r.pc = "fetching" => Fetching(versions, r.req, r.left, r.fetched)
  /\ r.pc = "building" =>
       Taken(versions, type, r.req, r.container, r.fetched) /\ OneType(r.container)
  /\ r.pc = "published" => \E i \in 1..Len(versions) : versions[i].key = r.key

\* The name that a call is about.
NameOf(r) == IF r.pc \in {"saving", "published"} THEN r.name ELSE r.req.name

CallsFit ==
  \A c \in Caller : call[c].pc # "idle" =>
    CallFits(vault[NameOf(call[c])], typeOf[NameOf(call[c])], call[c])

GotFits(versions, type, g) ==
  Taken(versions, type, g.req, g.keys, << >>) /\ OneType(g.keys)

AllGotFits ==
  \A c \in Caller : got[c] # None =>
    GotFits(vault[got[c].req.name], typeOf[got[c].req.name], got[c])

VaultInv == TypeOK /\ VaultBounded /\ CallsFit /\ AllGotFits /\ CacheComesFromVault

\* What a suspended call holds.
LEMMA CallShape ==
  ASSUME TypeOK, NEW c \in Caller
  PROVE  /\ call[c].pc = "idle" => call[c] = Idle
         /\ call[c].pc \in {"latest", "listing"} =>
              call[c] \in [pc : {"latest", "listing"}, req : Request]
         /\ call[c].pc = "fetching" =>
              call[c] \in [pc : {"fetching"}, req : Request,
                           left : Seq(1..MaxVersions), fetched : Seq(AnyKey)]
         /\ call[c].pc = "building" =>
              call[c] \in [pc : {"building"}, req : Request, fetched : Seq(AnyKey),
                           container : Seq(AnyKey)]
         /\ call[c].pc \in {"saving", "published"} =>
              call[c] \in [pc : {"saving", "published"}, name : Name, key : AnyKey,
                           keep : BOOLEAN]
         /\ call[c].pc # "idle" => NameOf(call[c]) \in Name
  BY DEF TypeOK, Call, Idle, NameOf, Request

\* What a get resolved to.
LEMMA GotShape ==
  ASSUME TypeOK, NEW c \in Caller, got[c] # None
  PROVE  /\ got[c] \in [req : Request, keys : Seq(AnyKey) \ {<< >>}]
         /\ got[c].req \in Request /\ got[c].req.name \in Name
         /\ got[c].keys \in Seq(AnyKey)
  BY DEF TypeOK, Request
-----------------------------------------------------------------------------
(* The vault only appends versions: what was true of the versions stays true. *)

Grows(v, w) ==
  /\ Len(v) \in Nat /\ Len(w) \in Nat /\ Len(v) <= Len(w)
  /\ \A i \in 1..Len(v) : w[i].key = v[i].key

\* What was taken from the versions is still theirs when there are more.
LEMMA TakenStays ==
  ASSUME NEW v, NEW w, Grows(v, w), NEW type, NEW req \in Request,
         NEW container \in Seq(AnyKey), NEW fetched \in Seq(AnyKey),
         Taken(v, type, req, container, fetched)
  PROVE  Taken(w, type, req, container, fetched)
<1> DEFINE Oldest(newest) == IF req.latestVersion THEN newest ELSE 1
<1>1. PICK newest \in 1..Len(v) :
        /\ newest >= req.from
        /\ Len(container) + Len(fetched) = newest + 1 - Oldest(newest)
        /\ \A i \in 1..Len(container) :
             container[i] = FormOf(type, req, v[Oldest(newest) + i - 1].key)
        /\ \A i \in 1..Len(fetched) : fetched[i] = v[newest + 1 - i].key
  BY DEF Taken
<1>2. Len(container) \in Nat /\ Len(fetched) \in Nat /\ Oldest(newest) \in 1..newest
  BY <1>1 DEF Grows
<1>3. newest \in 1..Len(w)
  BY <1>1 DEF Grows
<1>4. ASSUME NEW i \in 1..Len(container)
      PROVE  w[Oldest(newest) + i - 1].key = v[Oldest(newest) + i - 1].key
  <2>1. Oldest(newest) + i - 1 \in 1..Len(v)
    BY <1>1, <1>2 DEF Grows
  <2>. QED
    BY <2>1 DEF Grows
<1>5. ASSUME NEW i \in 1..Len(fetched)
      PROVE  w[newest + 1 - i].key = v[newest + 1 - i].key
  <2>1. newest + 1 - i \in 1..Len(v)
    BY <1>1, <1>2 DEF Grows
  <2>. QED
    BY <2>1 DEF Grows
<1>6. \A i \in 1..Len(container) :
        container[i] = FormOf(type, req, w[Oldest(newest) + i - 1].key)
  BY <1>1, <1>4
<1>7. \A i \in 1..Len(fetched) : fetched[i] = w[newest + 1 - i].key
  BY <1>1, <1>5
<1> HIDE DEF Oldest
<1>8. \E latest \in 1..Len(w) :
        /\ latest >= req.from
        /\ Len(container) + Len(fetched) = latest + 1 - Oldest(latest)
        /\ \A i \in 1..Len(container) :
             container[i] = FormOf(type, req, w[Oldest(latest) + i - 1].key)
        /\ \A i \in 1..Len(fetched) : fetched[i] = w[latest + 1 - i].key
  BY <1>1, <1>3, <1>6, <1>7
<1>. QED
  BY <1>8 DEF Taken, Oldest

\* A get that is fetching is not disturbed by later versions.
LEMMA FetchingStays ==
  ASSUME NEW v, NEW w, Grows(v, w), NEW req \in Request,
         NEW left \in Seq(1..MaxVersions), NEW fetched \in Seq(AnyKey),
         Fetching(v, req, left, fetched)
  PROVE  Fetching(w, req, left, fetched)
<1> DEFINE newest == Len(left) + Len(fetched)
<1>1. newest \in Nat /\ newest <= Len(v) /\ Len(fetched) \in Nat /\ Len(left) \in Nat
  BY DEF Fetching
<1>2. newest <= Len(w)
  BY <1>1 DEF Grows
<1>3. ASSUME NEW i \in 1..Len(fetched)
      PROVE  w[newest + 1 - i].key = v[newest + 1 - i].key
  <2>1. newest + 1 - i \in 1..Len(v)
    BY <1>1
  <2>. QED
    BY <2>1 DEF Grows
<1>. QED
  BY <1>2, <1>3 DEF Fetching

\* A step that leaves a call alone while the vault grows leaves what is known of
\* it.
LEMMA CallStays ==
  ASSUME VaultInv, UNCHANGED typeOf, \A n \in Name : Grows(vault[n], vault'[n]),
         NEW c \in Caller, call'[c] = call[c], call[c].pc # "idle"
  PROVE  CallFits(vault'[NameOf(call'[c])], typeOf'[NameOf(call'[c])], call'[c])
<1> DEFINE r == call[c]
           n == NameOf(r)
<1>1. n \in Name /\ CallFits(vault[n], typeOf[n], r) /\ Grows(vault[n], vault'[n])
  BY CallShape DEF VaultInv, CallsFit
<1>2. CASE r.pc \in {"latest", "listing"}
  <2>1. r.req \in Request /\ r.req.from \in Nat
    BY <1>2, CallShape DEF VaultInv, Request
  <2>. QED
    BY <1>1, <1>2, <2>1 DEF CallFits, Grows
<1>3. CASE r.pc = "fetching"
  <2>1. r.req \in Request /\ r.left \in Seq(1..MaxVersions) /\ r.fetched \in Seq(AnyKey)
    BY <1>3, CallShape DEF VaultInv
  <2>. QED
    BY <1>1, <1>3, <2>1, FetchingStays DEF CallFits
<1>4. CASE r.pc = "building"
  <2>1. r.req \in Request /\ r.container \in Seq(AnyKey) /\ r.fetched \in Seq(AnyKey)
    BY <1>4, CallShape DEF VaultInv
  <2>. QED
    BY <1>1, <1>4, <2>1, TakenStays DEF CallFits
<1>5. CASE r.pc \in {"saving", "published"}
  BY <1>1, <1>5 DEF CallFits, Grows
<1>6. r.pc \in {"latest", "listing", "fetching", "building", "saving", "published"}
  BY DEF VaultInv, TypeOK, Call, Idle
<1>. QED
  BY <1>2, <1>3, <1>4, <1>5, <1>6

\* Neither is what a get has resolved to.
LEMMA GotStays ==
  ASSUME VaultInv, UNCHANGED typeOf, \A n \in Name : Grows(vault[n], vault'[n]),
         NEW c \in Caller, got'[c] = got[c], got[c] # None
  PROVE  GotFits(vault'[got'[c].req.name], typeOf'[got'[c].req.name], got'[c])
<1>1. TypeOK /\ GotFits(vault[got[c].req.name], typeOf[got[c].req.name], got[c])
  BY DEF VaultInv, AllGotFits
<1>2. got[c].req \in Request /\ got[c].req.name \in Name /\ got[c].keys \in Seq(AnyKey)
  BY <1>1, GotShape
<1>3. << >> \in Seq(AnyKey)
  OBVIOUS
<1> DEFINE g == got[c]
           n == g.req.name
<1>4. Grows(vault[n], vault'[n]) /\ Taken(vault[n], typeOf[n], g.req, g.keys, << >>)
  BY <1>1, <1>2 DEF GotFits
<1> HIDE DEF g, n
<1>5. Taken(vault'[n], typeOf[n], g.req, g.keys, << >>)
  <2>1. ASSUME NEW nothing \in Seq(AnyKey), Taken(vault[n], typeOf[n], g.req, g.keys, nothing)
        PROVE  Taken(vault'[n], typeOf[n], g.req, g.keys, nothing)
    BY <1>2, <1>4, <2>1, TakenStays DEF g, n
  <2>. QED
    BY <1>3, <1>4, <2>1
<1>6. GotFits(vault'[n], typeOf[n], g)
  BY <1>1, <1>5 DEF GotFits, g
<1>. QED
  BY <1>6 DEF g, n

\* The local key store has nothing new.
LEMMA CacheStays ==
  ASSUME VaultInv, \A n \in Name : Grows(vault[n], vault'[n]), UNCHANGED cache
  PROVE  CacheComesFromVault'
<1>1. ASSUME NEW n \in Name, NEW k \in cache[n]
      PROVE  \E i \in 1..Len(vault'[n]) : k \in {vault'[n][i].key, PublicOf(vault'[n][i].key)}
  <2>1. PICK i \in 1..Len(vault[n]) : k \in {vault[n][i].key, PublicOf(vault[n][i].key)}
    BY DEF VaultInv, CacheComesFromVault
  <2>2. i \in 1..Len(vault'[n]) /\ vault'[n][i].key = vault[n][i].key
    BY DEF Grows
  <2>. QED
    BY <2>1, <2>2
<1>. QED
  BY <1>1 DEF CacheComesFromVault

\* The vault that is left alone counts as grown.
LEMMA GrowsItself ==
  ASSUME TypeOK, UNCHANGED vault
  PROVE  \A n \in Name : Grows(vault[n], vault'[n])
  BY DEF TypeOK, Grows
-----------------------------------------------------------------------------
(* Steps of a call, which leave the vault alone. *)

\* What a call may be suspended with.
GoodCall(r) ==
  /\ r \in Call
  /\ r.pc # "idle" => CallFits(vault[NameOf(r)], typeOf[NameOf(r)], r)

\* What a get may resolve to.
GoodGot(g) ==
  /\ g \in [req : Request, keys : Seq(AnyKey) \ {<< >>}]
  /\ GotFits(vault[g.req.name], typeOf[g.req.name], g)

\* What may be saved in the cache.
GoodSave(n, k) ==
  /\ n \in Name /\ k \in AnyKey
  /\ \E i \in 1..Len(vault[n]) : k \in {vault[n][i].key, PublicOf(vault[n][i].key)}

CallStep(c) == \E r : GoodCall(r) /\ call' = [call EXCEPT ![c] = r]

GotStep(c) ==
  \/ UNCHANGED got
  \/ got' = [got EXCEPT ![c] = None]
  \/ \E g : GoodGot(g) /\ got' = [got EXCEPT ![c] = g]

CacheStep ==
  \/ UNCHANGED cache
  \/ \E n, k : GoodSave(n, k) /\ cache' = [cache EXCEPT ![n] = @ \cup {k}]

\* A call that is suspended with, resolves to and saves nothing else than that
\* keeps the invariant.
LEMMA GoodStep ==
  ASSUME VaultInv, NEW c \in Caller, UNCHANGED <<typeOf, vault>>,
         CallStep(c), GotStep(c), CacheStep
  PROVE  VaultInv'
<1>1. \A n \in Name : Grows(vault[n], vault'[n])
  BY GrowsItself DEF VaultInv
<1>2. PICK r : GoodCall(r) /\ call' = [call EXCEPT ![c] = r]
  BY DEF CallStep
<1>3. call' \in [Caller -> Call] /\ CallsFit'
  <2>1. call \in [Caller -> Call] /\ r \in Call
    BY <1>2 DEF VaultInv, TypeOK, GoodCall
  <2>2. call' \in [Caller -> Call] /\ call'[c] = r
    BY <1>2, <2>1
  <2>3. ASSUME NEW d \in Caller, call'[d].pc # "idle"
        PROVE  CallFits(vault'[NameOf(call'[d])], typeOf'[NameOf(call'[d])], call'[d])
    <3>1. CASE d = c
      BY <1>2, <2>2, <2>3, <3>1 DEF GoodCall
    <3>2. CASE d # c
      <4>1. call'[d] = call[d]
        BY <1>2, <2>1, <3>2
      <4>. QED
        BY <1>1, <2>3, <4>1, CallStays
    <3>. QED
      BY <3>1, <3>2
  <2>4. \A d \in Caller : call'[d].pc # "idle" =>
          CallFits(vault'[NameOf(call'[d])], typeOf'[NameOf(call'[d])], call'[d])
    BY <2>3
  <2>. QED
    BY <2>2, <2>4 DEF CallsFit
<1> DEFINE GotType == {None} \cup [req : Request, keys : Seq(AnyKey) \ {<< >>}]
<1>4. got \in [Caller -> GotType]
  BY DEF VaultInv, TypeOK
<1>5. /\ got' \in [Caller -> GotType]
      /\ \A d \in Caller : d # c => got'[d] = got[d]
      /\ \/ got'[c] = got[c]
         \/ got'[c] = None
         \/ GoodGot(got'[c])
  <2>1. CASE UNCHANGED got
    BY <1>4, <2>1
  <2>2. CASE got' = [got EXCEPT ![c] = None]
    BY <1>4, <2>2
  <2>3. ASSUME NEW g, GoodGot(g), got' = [got EXCEPT ![c] = g]
        PROVE  /\ got' \in [Caller -> GotType]
               /\ \A d \in Caller : d # c => got'[d] = got[d]
               /\ GoodGot(got'[c])
    <3>1. g \in GotType
      BY <2>3 DEF GoodGot
    <3>2. got'[c] = g /\ got' \in [Caller -> GotType]
            /\ \A d \in Caller : d # c => got'[d] = got[d]
      BY <1>4, <2>3, <3>1
    <3>. QED
      BY <2>3, <3>2
  <2>. QED
    BY <2>1, <2>2, <2>3 DEF GotStep
<1>6. AllGotFits'
  <2>1. ASSUME NEW d \in Caller, got'[d] # None
        PROVE  GotFits(vault'[got'[d].req.name], typeOf'[got'[d].req.name], got'[d])
    <3>1. CASE got'[d] = got[d]
      BY <1>1, <2>1, <3>1, GotStays
    <3>2. CASE d = c /\ GoodGot(got'[c])
      BY <3>2 DEF GoodGot
    <3>. QED
      BY <1>5, <2>1, <3>1, <3>2
  <2>2. \A d \in Caller : got'[d] # None =>
          GotFits(vault'[got'[d].req.name], typeOf'[got'[d].req.name], got'[d])
    BY <2>1
  <2>. QED
    BY <2>2 DEF AllGotFits
<1>7. cache' \in [Name -> SUBSET AnyKey] /\ CacheComesFromVault'
  <2>1. cache \in [Name -> SUBSET AnyKey]
    BY DEF VaultInv, TypeOK
  <2>2. CASE UNCHANGED cache
    BY <1>1, <2>1, <2>2, CacheStays
  <2>3. ASSUME NEW n, NEW k, GoodSave(n, k), cache' = [cache EXCEPT ![n] = @ \cup {k}]
        PROVE  cache' \in [Name -> SUBSET AnyKey] /\ CacheComesFromVault'
    <3>1. n \in Name /\ k \in AnyKey
      BY <2>3 DEF GoodSave
    <3>2. /\ cache' \in [Name -> SUBSET AnyKey]
          /\ cache'[n] = cache[n] \cup {k}
          /\ \A m \in Name : m # n => cache'[m] = cache[m]
      BY <2>1, <2>3, <3>1
    <3>3. ASSUME NEW m \in Name, NEW j \in cache'[m]
          PROVE  \E i \in 1..Len(vault[m]) : j \in {vault[m][i].key, PublicOf(vault[m][i].key)}
      <4>1. CASE j \in cache[m]
        BY <4>1 DEF VaultInv, CacheComesFromVault
      <4>2. CASE m = n /\ j = k
        BY <2>3, <4>2 DEF GoodSave
      <4>. QED
        BY <3>2, <4>1, <4>2
    <3>4. CacheComesFromVault'
      BY <3>3 DEF CacheComesFromVault
    <3>. QED
      BY <3>2, <3>4
  <2>. QED
    BY <2>2, <2>3 DEF CacheStep
<1>8. TypeOK' /\ VaultBounded'
  BY <1>3, <1>5, <1>7 DEF VaultInv, TypeOK, VaultBounded
<1>. QED
  BY <1>3, <1>6, <1>7, <1>8 DEF VaultInv

\* A call that ends is suspended with nothing.
LEMMA IdleIsGood == ASSUME NEW c, Return(c) PROVE CallStep(c)
<1>1. GoodCall(Idle)
  BY DEF GoodCall, Call, Idle
<1>. QED
  BY <1>1 DEF Return, Suspend, CallStep
-----------------------------------------------------------------------------
(* Building a container. *)

\* The form of a key in a container is the key or its public form.
LEMMA FormIs ==
  ASSUME NEW k \in AnyKey, NEW n \in Name, NEW req \in Request, req.name = n
  PROVE  /\ KeyForm(n, k, req.publicKeyOnly) = FormOf(typeOf[n], req, k)
         /\ FormOf(typeOf[n], req, k) \in {k, PublicOf(k)} \cap AnyKey
         /\ typeOf[n] = "key" => KeyForm(n, k, TRUE) = FormOf(typeOf[n], req, k)
  BY PublicForm DEF KeyForm, FormOf

\* The container of all keys at once.
LEMMA KeysAreTaken ==
  ASSUME NEW v, Len(v) \in Nat, NEW req \in Request,
         NEW fetched \in Seq(AnyKey), Taken(v, "key", req, << >>, fetched),
         NEW keys \in Seq(AnyKey), Len(keys) = Len(fetched),
         \A i \in 1..Len(keys) : keys[i] = PublicOf(fetched[Len(fetched) + 1 - i])
  PROVE  Taken(v, "key", req, keys, << >>)
<1> DEFINE Oldest(newest) == IF req.latestVersion THEN newest ELSE 1
<1>0. Len(<< >>) = 0
  OBVIOUS
<1>1. PICK newest \in 1..Len(v) :
        /\ newest >= req.from
        /\ 0 + Len(fetched) = newest + 1 - Oldest(newest)
        /\ \A i \in 1..Len(fetched) : fetched[i] = v[newest + 1 - i].key
  BY <1>0 DEF Taken
<1>2. Len(fetched) \in Nat /\ Oldest(newest) \in 1..newest
  BY <1>1
<1> HIDE DEF Oldest
<1>3. ASSUME NEW i \in 1..Len(keys)
      PROVE  keys[i] = FormOf("key", req, v[Oldest(newest) + i - 1].key)
  <2>1. Len(fetched) + 1 - i \in 1..Len(fetched)
    BY <1>2
  <2>2. fetched[Len(fetched) + 1 - i] = v[newest + 1 - (Len(fetched) + 1 - i)].key
    BY <1>1, <2>1
  <2>3. newest + 1 - (Len(fetched) + 1 - i) = Oldest(newest) + i - 1
    <3>1. i \in Int /\ newest \in Int /\ Oldest(newest) \in Int /\ Len(fetched) \in Int
      BY <1>1, <1>2
    <3>2. Len(fetched) = newest + 1 - Oldest(newest)
      BY <1>1, <3>1
    <3>. QED
      BY <3>1, <3>2
  <2>. QED
    BY <2>2, <2>3 DEF FormOf
<1>4. Len(keys) + 0 = newest + 1 - Oldest(newest)
  BY <1>1, <1>2
<1>5. ASSUME NEW nothing, Len(nothing) = 0
      PROVE  Taken(v, "key", req, keys, nothing)
  <2>1. \E latest \in 1..Len(v) :
          /\ latest >= req.from
          /\ Len(keys) + Len(nothing) = latest + 1 - Oldest(latest)
          /\ \A i \in 1..Len(keys) :
               keys[i] = FormOf("key", req, v[Oldest(latest) + i - 1].key)
          /\ \A i \in 1..Len(nothing) : nothing[i] = v[latest + 1 - i].key
    BY <1>1, <1>3, <1>4, <1>5
  <2>. QED
    BY <2>1 DEF Taken, Oldest
<1>. QED
  BY <1>0, <1>5

\* The last of the secrets moves to the container.
LEMMA SecretIsTaken ==
  ASSUME NEW v, Len(v) \in Nat, NEW type, NEW req \in Request,
         NEW fetched \in Seq(AnyKey), fetched # << >>, NEW container \in Seq(AnyKey),
         Taken(v, type, req, container, fetched),
         FormOf(type, req, Last(fetched)) \in AnyKey
  PROVE  /\ Taken(v, type, req, Append(container, FormOf(type, req, Last(fetched))),
                  Front(fetched))
         /\ \E i \in 1..Len(v) : v[i].key = Last(fetched)
<1> DEFINE Oldest(newest) == IF req.latestVersion THEN newest ELSE 1
           more == Append(container, FormOf(type, req, Last(fetched)))
<1>1. PICK newest \in 1..Len(v) :
        /\ newest >= req.from
        /\ Len(container) + Len(fetched) = newest + 1 - Oldest(newest)
        /\ \A i \in 1..Len(container) :
             container[i] = FormOf(type, req, v[Oldest(newest) + i - 1].key)
        /\ \A i \in 1..Len(fetched) : fetched[i] = v[newest + 1 - i].key
  BY DEF Taken
<1>2. Len(container) \in Nat /\ Oldest(newest) \in 1..newest
  BY <1>1
<1> HIDE DEF Oldest
<1>3. /\ Len(fetched) \in Nat \ {0} /\ Last(fetched) = fetched[Len(fetched)]
      /\ Len(Front(fetched)) = Len(fetched) - 1
      /\ \A i \in 1..(Len(fetched) - 1) : Front(fetched)[i] = fetched[i]
  BY LastAndFront
<1>4. /\ Len(more) = Len(container) + 1
      /\ \A i \in 1..Len(container) : more[i] = container[i]
      /\ more[Len(container) + 1] = FormOf(type, req, Last(fetched))
  BY AppendKeeps
<1>5. Last(fetched) = v[newest + 1 - Len(fetched)].key
  BY <1>1, <1>3
<1>6. newest + 1 - Len(fetched) \in 1..Len(v)
      /\ newest + 1 - Len(fetched) = Oldest(newest) + (Len(container) + 1) - 1
  BY <1>1, <1>2, <1>3
<1> HIDE DEF more
<1>7. ASSUME NEW i \in 1..Len(more)
      PROVE  more[i] = FormOf(type, req, v[Oldest(newest) + i - 1].key)
  <2>1. CASE i \in 1..Len(container)
    BY <1>1, <1>4, <2>1
  <2>2. CASE i = Len(container) + 1
    BY <1>4, <1>5, <1>6, <2>2
  <2>. QED
    BY <1>2, <1>4, <2>1, <2>2
<1>8. \A i \in 1..Len(Front(fetched)) : Front(fetched)[i] = v[newest + 1 - i].key
  BY <1>1, <1>3
<1>9. Len(more) + Len(Front(fetched)) = newest + 1 - Oldest(newest)
  BY <1>1, <1>2, <1>3, <1>4
<1>10. Taken(v, type, req, more, Front(fetched))
  <2>1. \E latest \in 1..Len(v) :
          /\ latest >= req.from
          /\ Len(more) + Len(Front(fetched)) = latest + 1 - Oldest(latest)
          /\ \A i \in 1..Len(more) :
               more[i] = FormOf(type, req, v[Oldest(latest) + i - 1].key)
          /\ \A i \in 1..Len(Front(fetched)) :
               Front(fetched)[i] = v[latest + 1 - i].key
    BY <1>1, <1>7, <1>8, <1>9
  <2>. QED
    BY <2>1 DEF Taken, Oldest
<1>. QED
  BY <1>5, <1>6, <1>10 DEF more

\* A key that fits keeps a container of one type.
LEMMA OneTypeStays ==
  ASSUME NEW container \in Seq(AnyKey), OneType(container), NEW k \in AnyKey,
         Fits(container, k)
  PROVE  OneType(Append(container, k))
<1>1. Len(container) \in Nat
  OBVIOUS
<1>2. /\ Len(Append(container, k)) = Len(container) + 1
      /\ \A i \in 1..Len(container) : Append(container, k)[i] = container[i]
      /\ Append(container, k)[Len(container) + 1] = k
  BY AppendKeeps
<1>3. ASSUME NEW i \in 1..Len(container)
      PROVE  container[i].kty = k.kty
  <2>1. container # << >> /\ 1 \in 1..Len(container)
    BY <1>1
  <2>2. k.kty = container[1].kty
    BY <2>1 DEF Fits, CanAdd, NoContainer, Kty
  <2>. QED
    BY <2>1, <2>2 DEF OneType
<1> DEFINE more == Append(container, k)
<1>4. ASSUME NEW i \in 1..Len(more)
      PROVE  more[i].kty = k.kty
  <2>1. CASE i \in 1..Len(container)
    BY <1>2, <1>3, <2>1
  <2>2. CASE i = Len(container) + 1
    BY <1>2, <2>2
  <2>. QED
    BY <1>1, <1>2, <2>1, <2>2
<1>. QED
  BY <1>4 DEF OneType

\* Keys of which each fits the ones before it are of one type.
LEMMA AllFitOneType ==
  ASSUME NEW keys \in Seq(AnyKey),
         \A i \in DOMAIN keys : Fits(SubSeq(keys, 1, i - 1), keys[i])
  PROVE  OneType(keys)
<1>1. Len(keys) \in Nat /\ DOMAIN keys = 1..Len(keys)
  BY LenProperties
<1>2. ASSUME NEW i \in 1..Len(keys)
      PROVE  keys[i].kty = keys[1].kty
  <2>1. CASE i = 1
    BY <2>1
  <2>2. CASE i # 1
    <3> DEFINE m == i - 1
               before == SubSeq(keys, 1, m)
    <3>1. m \in Int /\ 1 \in Int /\ 1 <= m /\ \A j \in 1..m : keys[j] \in AnyKey
      BY <1>1, <2>2
    <3> HIDE DEF m
    <3>2. Len(before) = (IF 1 <= m THEN m - 1 + 1 ELSE 0)
            /\ (\A j \in 1..(m - 1 + 1) : before[j] = keys[1 + j - 1])
            /\ before \in Seq(AnyKey)
      BY <3>1, SubSeqProperties
    <3>3. before[1] = keys[1]
      <4>1. 1 \in 1..(m - 1 + 1) /\ 1 + 1 - 1 = 1
        BY <3>1
      <4>. QED
        BY <3>2, <4>1
    <3>4. before # << >>
      BY <3>1, <3>2
    <3>5. Fits(before, keys[i])
      BY <1>1 DEF m
    <3>. QED
      BY <3>3, <3>4, <3>5 DEF Fits, CanAdd, NoContainer, Kty
  <2>. QED
    BY <2>1, <2>2
<1>. QED
  BY <1>2 DEF OneType

\* What a call that builds a container resolves to.
LEMMA DeliverIsGood ==
  ASSUME VaultInv, NEW c \in Caller, NEW container \in Seq(AnyKey),
         call[c].req \in Request,
         Taken(vault[call[c].req.name], typeOf[call[c].req.name], call[c].req,
               container, << >>),
         OneType(container), Deliver(c, container)
  PROVE  CallStep(c) /\ GotStep(c)
<1> DEFINE req == call[c].req
           g == [req |-> req, keys |-> container]
<1>1. container # << >>
  <2>1. PICK newest \in 1..Len(vault[req.name]) :
          Len(container) + Len(<< >>) = newest + 1 - (IF req.latestVersion THEN newest ELSE 1)
    BY DEF Taken
  <2>2. Len(vault[req.name]) \in Nat /\ newest \in Nat
    BY <2>1 DEF VaultInv, TypeOK, Request
  <2>. QED
    BY <2>1, <2>2
<1>2. GoodGot(g)
  <2>1. g \in [req : Request, keys : Seq(AnyKey) \ {<< >>}]
    BY <1>1
  <2>2. g.req = req /\ g.keys = container
    OBVIOUS
  <2> HIDE DEF g
  <2>3. GotFits(vault[req.name], typeOf[req.name], g)
    BY <2>2 DEF GotFits
  <2>. QED
    BY <2>1, <2>2, <2>3 DEF GoodGot
<1>3. got' = [got EXCEPT ![c] = g]
  BY DEF Deliver
<1>4. CallStep(c)
  BY IdleIsGood DEF Deliver
<1>. QED
  BY <1>2, <1>3, <1>4 DEF GotStep

\* The container of public keys that get resolves to is right.
LEMMA KeysAreGood ==
  ASSUME VaultInv, NEW c \in Caller, NEW fetched \in Seq(AnyKey),
         call[c].req \in Request, typeOf[call[c].req.name] = "key",
         Taken(vault[call[c].req.name], typeOf[call[c].req.name], call[c].req,
               << >>, fetched),
         BuildFromKeys(c, fetched)
  PROVE  CallStep(c) /\ GotStep(c) /\ CacheStep
<1> DEFINE req == call[c].req
           n == req.name
           keys == [i \in DOMAIN fetched |-> KeyForm(n, Reverse(fetched)[i], TRUE)]
<1>1. n \in Name /\ Len(vault[n]) \in Nat
  BY DEF VaultInv, TypeOK, Request
<1>2. /\ Len(fetched) \in Nat /\ DOMAIN fetched = 1..Len(fetched)
      /\ \A i \in 1..Len(fetched) : Len(fetched) + 1 - i \in 1..Len(fetched)
      /\ \A i \in 1..Len(fetched) : fetched[i] \in AnyKey
  BY LenProperties, ElementOfSeq
<1>3. \A i \in 1..Len(fetched) :
        Reverse(fetched)[i] = fetched[Len(fetched) + 1 - i]
  BY ReverseIs
<1>4. \A i \in 1..Len(fetched) : keys[i] = PublicOf(fetched[Len(fetched) + 1 - i])
  BY <1>2, <1>3 DEF KeyForm
<1>5. \A i \in 1..Len(fetched) : keys[i] \in AnyKey
  BY <1>2, <1>4, PublicForm
<1>6. keys \in Seq(AnyKey) /\ Len(keys) = Len(fetched)
  <2>1. keys \in [1..Len(fetched) -> AnyKey]
    BY <1>2, <1>5
  <2> HIDE DEF keys
  <2>. QED
    BY <1>2, <2>1
<1>7. Taken(vault[n], "key", req, keys, << >>)
  <2>1. Taken(vault[n], "key", req, << >>, fetched)
    OBVIOUS
  <2>2. \A i \in 1..Len(keys) : keys[i] = PublicOf(fetched[Len(fetched) + 1 - i])
    BY <1>4, <1>6
  <2> HIDE DEF keys, n, req
  <2>. QED
    BY <1>1, <1>6, <2>1, <2>2, KeysAreTaken DEF n, req
<1>8. CacheStep
  BY DEF BuildFromKeys, CacheStep
<1>9. CASE \A i \in DOMAIN keys : Fits(SubSeq(keys, 1, i - 1), keys[i])
  <2>1. Deliver(c, keys)
    BY <1>9 DEF BuildFromKeys
  <2>2. OneType(keys)
    <3> HIDE DEF keys
    <3>. QED
      BY <1>6, <1>9, AllFitOneType
  <2>3. Taken(vault[n], typeOf[n], req, keys, << >>)
    BY <1>7
  <2> HIDE DEF keys
  <2>. QED
    BY <1>6, <1>8, <2>1, <2>2, <2>3, DeliverIsGood
<1>10. CASE ~ \A i \in DOMAIN keys : Fits(SubSeq(keys, 1, i - 1), keys[i])
  <2>1. Return(c) /\ UNCHANGED got
    BY <1>10 DEF BuildFromKeys
  <2>. QED
    BY <1>8, <2>1, IdleIsGood DEF GotStep
<1>. QED
  BY <1>9, <1>10

\* A secret moves from what was fetched to the container and the cache.
LEMMA SecretsAreGood ==
  ASSUME VaultInv, NEW c \in Caller, NEW fetched \in Seq(AnyKey),
         NEW container \in Seq(AnyKey), OneType(container), call[c].req \in Request,
         Taken(vault[call[c].req.name], typeOf[call[c].req.name], call[c].req,
               container, fetched),
         BuildFromSecrets(c, fetched, container)
  PROVE  CallStep(c) /\ GotStep(c) /\ CacheStep
<1> DEFINE req == call[c].req
           n == req.name
           k == KeyForm(n, Last(fetched), req.publicKeyOnly)
<1>1. n \in Name /\ Len(vault[n]) \in Nat
  BY DEF VaultInv, TypeOK, Request
<1>2. CASE fetched = << >>
  <2>1. Deliver(c, container) /\ UNCHANGED cache
    BY <1>2 DEF BuildFromSecrets
  <2>2. Taken(vault[n], typeOf[n], req, container, << >>)
    BY <1>2
  <2>. QED
    BY <2>1, <2>2, DeliverIsGood DEF CacheStep
<1>3. CASE fetched # << >> /\ ~Fits(container, k)
  <2>1. Return(c) /\ UNCHANGED cache /\ UNCHANGED got
    BY <1>3 DEF BuildFromSecrets
  <2>. QED
    BY <2>1, IdleIsGood DEF GotStep, CacheStep
<1>4. CASE fetched # << >> /\ Fits(container, k)
  <2> DEFINE r == [pc |-> "building", req |-> req, fetched |-> Front(fetched),
                   container |-> Append(container, k)]
  <2>1. /\ cache' = [cache EXCEPT ![n] = @ \cup {k}]
        /\ call' = [call EXCEPT ![c] = r]
        /\ UNCHANGED got
    BY <1>4 DEF BuildFromSecrets, Suspend
  <2>2. Last(fetched) \in AnyKey /\ Front(fetched) \in Seq(AnyKey)
    BY <1>4, LastAndFront
  <2>3. k = FormOf(typeOf[n], req, Last(fetched)) /\ k \in AnyKey
          /\ k \in {Last(fetched), PublicOf(Last(fetched))}
    BY <1>1, <2>2, FormIs
  <2> HIDE DEF k
  <2>4. /\ Taken(vault[n], typeOf[n], req, Append(container, k), Front(fetched))
        /\ \E i \in 1..Len(vault[n]) : vault[n][i].key = Last(fetched)
    BY <1>1, <1>4, <2>3, SecretIsTaken
  <2>5. OneType(Append(container, k))
    BY <1>4, <2>3, OneTypeStays
  <2>6. Append(container, k) \in Seq(AnyKey)
    BY <2>3
  <2>7. r \in Call
    BY <2>2, <2>6 DEF Call
  <2>8. r.pc = "building" /\ r.req = req /\ r.container = Append(container, k)
          /\ r.fetched = Front(fetched)
    OBVIOUS
  <2> HIDE DEF r
  <2>9. GoodCall(r)
    BY <2>4, <2>5, <2>7, <2>8 DEF GoodCall, NameOf, CallFits
  <2>10. GoodSave(n, k)
    BY <1>1, <2>3, <2>4 DEF GoodSave
  <2>. QED
    BY <2>1, <2>9, <2>10 DEF CallStep, GotStep, CacheStep
<1>. QED
  BY <1>2, <1>3, <1>4

\* Whatever the type of the references.
LEMMA BuildIsGood ==
  ASSUME VaultInv, NEW c \in Caller, NEW fetched \in Seq(AnyKey),
         call[c].req \in Request,
         Taken(vault[call[c].req.name], typeOf[call[c].req.name], call[c].req,
               << >>, fetched),
         Build(c, fetched)
  PROVE  CallStep(c) /\ GotStep(c) /\ CacheStep
<1>1. CASE typeOf[call[c].req.name] = "key"
  BY <1>1, KeysAreGood DEF Build
<1>2. CASE typeOf[call[c].req.name] # "key"
  <2>1. ASSUME NEW nothing \in Seq(AnyKey), nothing = << >>
        PROVE  OneType(nothing)
    BY <2>1 DEF OneType
  <2>2. NoContainer \in Seq(AnyKey) /\ NoContainer = << >>
    BY DEF NoContainer
  <2>3. BuildFromSecrets(c, fetched, NoContainer)
    BY <1>2 DEF Build
  <2>4. Taken(vault[call[c].req.name], typeOf[call[c].req.name], call[c].req,
              NoContainer, fetched)
    BY <2>2
  <2>. QED
    BY <2>1, <2>2, <2>3, <2>4, SecretsAreGood
<1>. QED
  BY <1>1, <1>2
-----------------------------------------------------------------------------
(* The actions. *)

\* The empty vault has the invariant.
LEMMA VaultInit == ASSUME Init PROVE VaultInv
<1>1. TypeOK
  BY DEF Init, TypeOK, Call
<1>2. VaultBounded
  BY <1>1, ConstantsAssumption DEF Init, VaultBounded
<1>3. CallsFit
  BY DEF Init, CallsFit, Idle
<1>4. AllGotFits /\ CacheComesFromVault
  BY DEF Init, AllGotFits, CacheComesFromVault
<1>. QED
  BY <1>1, <1>2, <1>3, <1>4 DEF VaultInv

\* The versions of a name.
LEMMA VersionsShape ==
  ASSUME NEW s \in Seq([key : AnyKey, enabled : BOOLEAN])
  PROVE  /\ Len(s) \in Nat
         /\ \A i \in 1..Len(s) : s[i].key \in AnyKey
         /\ s # << >> => /\ Last(s) = s[Len(s)] /\ Len(s) \in Nat \ {0}
                        /\ Last(s).key \in AnyKey
<1>1. Len(s) \in Nat
  OBVIOUS
<1>2. \A i \in 1..Len(s) : s[i] \in [key : AnyKey, enabled : BOOLEAN]
  BY ElementOfSeq
<1>3. \A i \in 1..Len(s) : s[i].key \in AnyKey
  BY <1>2
<1>4. CASE s # << >>
  <2>1. Len(s) \in Nat \ {0} /\ Last(s) = s[Len(s)]
    BY <1>4, LastAndFront
  <2>2. Len(s) \in 1..Len(s)
    BY <2>1
  <2>. QED
    BY <1>1, <1>3, <2>1, <2>2
<1>. QED
  BY <1>1, <1>3, <1>4

\* A sequence that is appended to grows.
LEMMA AppendGrows ==
  ASSUME NEW S, NEW s \in Seq(S), NEW x \in S
  PROVE  Grows(s, Append(s, x))
<1>1. Len(s) \in Nat
  OBVIOUS
<1>. QED
  BY <1>1, AppendKeeps DEF Grows

\* Publish appends one version.
LEMMA PublishGrows ==
  ASSUME VaultInv, NEW n \in Name, NEW k \in AnyKey, Publish(n, k)
  PROVE  /\ vault' \in [Name -> Seq([key : AnyKey, enabled : BOOLEAN])]
         /\ VaultBounded'
         /\ \A m \in Name : Grows(vault[m], vault'[m])
         /\ \E i \in 1..Len(vault'[n]) : vault'[n][i].key = k
<1> DEFINE Version == [key : AnyKey, enabled : BOOLEAN]
           version == [key |-> k, enabled |-> TRUE]
<1>1. vault \in [Name -> Seq(Version)] /\ version \in Version /\ version.key = k
  BY DEF VaultInv, TypeOK
<1> HIDE DEF Version, version
<1>2. /\ vault' = [vault EXCEPT ![n] = Append(vault[n], version)]
      /\ Len(vault[n]) < MaxVersions
  BY DEF Publish, version
<1>3. /\ Append(vault[n], version) \in Seq(Version)
      /\ Len(Append(vault[n], version)) = Len(vault[n]) + 1
      /\ \A i \in 1..Len(vault[n]) : Append(vault[n], version)[i] = vault[n][i]
      /\ Append(vault[n], version)[Len(vault[n]) + 1] = version
  BY <1>1, AppendKeeps
<1>4. /\ vault' \in [Name -> Seq(Version)]
      /\ vault'[n] = Append(vault[n], version)
      /\ \A m \in Name : m # n => vault'[m] = vault[m]
  BY <1>1, <1>2, <1>3
<1>5. \A m \in Name : Len(vault[m]) \in Nat
  BY <1>1
<1>6. VaultBounded'
  BY <1>2, <1>3, <1>4, <1>5, ConstantsAssumption DEF VaultInv, VaultBounded
<1>7. ASSUME NEW m \in Name PROVE Grows(vault[m], vault'[m])
  <2>1. CASE m = n
    <3>1. Grows(vault[n], Append(vault[n], version))
      BY <1>1, AppendGrows
    <3>. QED
      BY <1>4, <2>1, <3>1
  <2>2. CASE m # n
    <3>1. vault'[m] = vault[m]
      BY <1>4, <2>2
    <3>. QED
      BY <1>5, <3>1 DEF Grows
  <2>. QED
    BY <2>1, <2>2
<1>8. Len(vault[n]) + 1 \in 1..Len(vault'[n]) /\ vault'[n][Len(vault[n]) + 1].key = k
  BY <1>1, <1>3, <1>4, <1>5
<1>. QED
  BY <1>4, <1>6, <1>7, <1>8 DEF Version

\* A step of others changes the vault only.
LEMMA VaultStep ==
  ASSUME VaultInv, UNCHANGED <<typeOf, cache, call, got>>,
         vault' \in [Name -> Seq([key : AnyKey, enabled : BOOLEAN])], VaultBounded',
         \A m \in Name : Grows(vault[m], vault'[m])
  PROVE  VaultInv'
<1>1. TypeOK'
  BY DEF VaultInv, TypeOK
<1>2. CallsFit'
  <2>1. ASSUME NEW d \in Caller, call'[d].pc # "idle"
        PROVE  CallFits(vault'[NameOf(call'[d])], typeOf'[NameOf(call'[d])], call'[d])
    BY <2>1, CallStays
  <2>2. \A d \in Caller : call'[d].pc # "idle" =>
          CallFits(vault'[NameOf(call'[d])], typeOf'[NameOf(call'[d])], call'[d])
    BY <2>1
  <2>. QED
    BY <2>2 DEF CallsFit
<1>3. AllGotFits'
  <2>1. ASSUME NEW d \in Caller, got'[d] # None
        PROVE  GotFits(vault'[got'[d].req.name], typeOf'[got'[d].req.name], got'[d])
    BY <2>1, GotStays
  <2>2. \A d \in Caller : got'[d] # None =>
          GotFits(vault'[got'[d].req.name], typeOf'[got'[d].req.name], got'[d])
    BY <2>1
  <2>. QED
    BY <2>2 DEF AllGotFits
<1>4. CacheComesFromVault'
  BY CacheStays
<1>. QED
  BY <1>1, <1>2, <1>3, <1>4 DEF VaultInv

\* A version that others make disturbs nothing.
LEMMA RotateKeeps ==
  ASSUME VaultInv, UNCHANGED typeOf, NEW n \in Name, NEW k \in Key, Rotate(n, k)
  PROVE  VaultInv'
<1>1. k \in AnyKey
  BY DEF AnyKey
<1>. QED
  BY <1>1, PublishGrows, VaultStep DEF Rotate

\* A version that others disable keeps its key.
LEMMA DisableKeeps ==
  ASSUME VaultInv, UNCHANGED typeOf, NEW n \in Name, NEW i \in 1..Len(vault[n]),
         Disable(n, i)
  PROVE  VaultInv'
<1> DEFINE Version == [key : AnyKey, enabled : BOOLEAN]
           disabled == [vault[n] EXCEPT ![i].enabled = FALSE]
<1>1. vault \in [Name -> Seq(Version)]
  BY DEF VaultInv, TypeOK
<1>2. /\ vault[n] \in Seq(Version) /\ Len(vault[n]) \in Nat
      /\ DOMAIN vault[n] = 1..Len(vault[n])
      /\ \A j \in 1..Len(vault[n]) : vault[n][j] \in Version
  BY <1>1, LenProperties, ElementOfSeq
<1>3. /\ [vault[n][i] EXCEPT !.enabled = FALSE] \in Version
      /\ [vault[n][i] EXCEPT !.enabled = FALSE].key = vault[n][i].key
  BY <1>2
<1>4. /\ disabled \in [1..Len(vault[n]) -> Version]
      /\ disabled[i] = [vault[n][i] EXCEPT !.enabled = FALSE]
      /\ \A j \in 1..Len(vault[n]) : j # i => disabled[j] = vault[n][j]
  <2>1. vault[n] \in [1..Len(vault[n]) -> Version]
    BY <1>2, LenProperties
  <2> HIDE DEF Version
  <2>. QED
    BY <1>3, <2>1
<1>5. vault' = [vault EXCEPT ![n] = disabled]
  BY DEF Disable
<1> HIDE DEF Version, disabled
<1>6. disabled \in Seq(Version) /\ Len(disabled) = Len(vault[n])
  BY <1>2, <1>4
<1>7. /\ vault' \in [Name -> Seq(Version)]
      /\ vault'[n] = disabled
      /\ \A m \in Name : m # n => vault'[m] = vault[m]
  BY <1>1, <1>5, <1>6
<1>8. \A j \in 1..Len(vault[n]) : disabled[j].key = vault[n][j].key
  BY <1>3, <1>4
<1>9. ASSUME NEW m \in Name PROVE Grows(vault[m], vault'[m])
  <2>1. Len(vault[m]) \in Nat
    BY <1>1
  <2>. QED
    BY <1>2, <1>6, <1>7, <1>8, <2>1 DEF Grows
<1>10. VaultBounded'
  BY <1>6, <1>7 DEF VaultInv, VaultBounded
<1>. QED
  BY <1>7, <1>9, <1>10, VaultStep DEF Disable, Version

\* get remembers how many versions there were.
LEMMA GetStartKeeps ==
  ASSUME VaultInv, UNCHANGED typeOf, NEW c \in Caller, NEW n \in Name,
         NEW options \in [publicKeyOnly : BOOLEAN, latestVersion : BOOLEAN],
         NEW signing \in BOOLEAN, GetStart(c, n, options, signing)
  PROVE  VaultInv'
<1> DEFINE req == [name |-> n, publicKeyOnly |-> options.publicKeyOnly,
                   latestVersion |-> options.latestVersion,
                   signing |-> signing, from |-> Len(vault[n])]
           r == [pc |-> IF options.latestVersion THEN "latest" ELSE "listing",
                 req |-> req]
<1>1. Len(vault[n]) \in 0..MaxVersions
  BY ConstantsAssumption DEF VaultInv, VaultBounded, TypeOK
<1>2. req \in Request
  BY <1>1 DEF Request
<1>3. call' = [call EXCEPT ![c] = r]
  BY DEF GetStart, Suspend
<1>4. /\ r.req = req /\ req.name = n /\ req.from = Len(vault[n])
      /\ req.latestVersion = options.latestVersion
      /\ r.pc = IF options.latestVersion THEN "latest" ELSE "listing"
  OBVIOUS
<1>5. r \in Call
  BY <1>2 DEF Call
<1>6. GoodCall(r)
  <2> HIDE DEF r, req
  <2>1. r.pc \in {"latest", "listing"} /\ (r.req.latestVersion <=> r.pc = "latest")
    BY <1>4
  <2>2. req.from <= Len(vault[n])
    BY <1>1, <1>4
  <2>3. NameOf(r) = n
    BY <1>4, <2>1 DEF NameOf
  <2>. QED
    BY <1>4, <1>5, <2>1, <2>2, <2>3 DEF GoodCall, CallFits
<1>7. CallStep(c)
  BY <1>3, <1>6 DEF CallStep
<1>8. GotStep(c) /\ CacheStep /\ UNCHANGED vault
  BY DEF GetStart, Forget, GotStep, CacheStep
<1>. QED
  BY <1>7, <1>8, GoodStep

\* A save or a generateKey, before the vault has done it.
LEMMA SavingKeeps ==
  ASSUME VaultInv, UNCHANGED <<typeOf, vault, cache>>, NEW c \in Caller,
         NEW n \in Name, NEW k \in AnyKey, NEW keep \in BOOLEAN, Forget(c),
         Suspend(c, [pc |-> "saving", name |-> n, key |-> k, keep |-> keep])
  PROVE  VaultInv'
<1> DEFINE r == [pc |-> "saving", name |-> n, key |-> k, keep |-> keep]
<1>1. r \in Call /\ r.pc = "saving"
  BY DEF Call
<1> HIDE DEF r
<1>2. GoodCall(r)
  BY <1>1 DEF GoodCall, CallFits
<1>3. CallStep(c)
  BY <1>2 DEF CallStep, Suspend, r
<1>. QED
  BY <1>3, GoodStep DEF Forget, GotStep, CacheStep

\* save suspends with its key.
LEMMA SaveStartKeeps ==
  ASSUME VaultInv, UNCHANGED typeOf, NEW c \in Caller, NEW n \in Name, NEW k \in Key,
         SaveStart(c, n, k)
  PROVE  VaultInv'
<1> DEFINE keep == typeOf[n] = "key"
<1>1. k \in AnyKey /\ keep \in BOOLEAN
  BY DEF AnyKey
<1>2. /\ Forget(c) /\ UNCHANGED <<vault, cache>>
      /\ Suspend(c, [pc |-> "saving", name |-> n, key |-> k, keep |-> keep])
  BY DEF SaveStart
<1> HIDE DEF keep
<1>. QED
  BY <1>1, <1>2, SavingKeeps

\* generateKey suspends with a public key.
LEMMA GenerateStartKeeps ==
  ASSUME VaultInv, UNCHANGED typeOf, NEW c \in Caller, NEW n \in Name, NEW k \in Key,
         GenerateStart(c, n, k)
  PROVE  VaultInv'
<1>1. PublicOf(k) \in AnyKey
  BY DEF AnyKey
<1>2. /\ Forget(c) /\ UNCHANGED <<vault, cache>>
      /\ Suspend(c, [pc |-> "saving", name |-> n, key |-> PublicOf(k), keep |-> TRUE])
  BY DEF GenerateStart
<1>. QED
  BY <1>1, <1>2, SavingKeeps
-----------------------------------------------------------------------------
(* The answers of the vault. *)

\* The newest version has come.
LEMMA LatestFetchedKeeps ==
  ASSUME VaultInv, UNCHANGED typeOf, NEW c \in Caller, LatestFetched(c)
  PROVE  VaultInv'
<1> DEFINE req == call[c].req
           n == req.name
           v == vault[n]
<1>1. req \in Request /\ call[c].pc = "latest" /\ n \in Name
  BY CallShape DEF LatestFetched, VaultInv, Request
<1>2. req.from <= Len(v) /\ req.latestVersion /\ req.from \in Nat
  <2>1. CallFits(v, typeOf[n], call[c])
    BY <1>1 DEF VaultInv, CallsFit, NameOf
  <2>. QED
    BY <1>1, <2>1 DEF CallFits, Request
<1>3. v # << >> /\ UNCHANGED vault /\ Build(c, <<Last(v).key>>)
  BY DEF LatestFetched
<1>4. v \in Seq([key : AnyKey, enabled : BOOLEAN])
  BY <1>1 DEF VaultInv, TypeOK
<1>5. Last(v) = v[Len(v)] /\ Len(v) \in Nat \ {0} /\ Last(v).key \in AnyKey
  <2> HIDE DEF v
  <2>. QED
    BY <1>3, <1>4, VersionsShape
<1> DEFINE newest == Len(v)
           fetched == <<Last(v).key>>
<1>6. fetched \in Seq(AnyKey) /\ Len(fetched) = 1 /\ fetched[1] = v[newest].key
  BY <1>5
<1>7. Taken(v, typeOf[n], req, << >>, fetched)
  <2> DEFINE Oldest(latest) == IF req.latestVersion THEN latest ELSE 1
  <2>1. \A i \in 1..Len(fetched) : i = 1 /\ fetched[i] = v[newest + 1 - i].key
    BY <1>5, <1>6
  <2>2. newest \in 1..Len(v) /\ newest >= req.from /\ 0 + 1 = newest + 1 - Oldest(newest)
    BY <1>2, <1>5
  <2> HIDE DEF newest, fetched, v, Oldest
  <2>3. ASSUME NEW nothing, Len(nothing) = 0
        PROVE  Taken(v, typeOf[n], req, nothing, fetched)
    <3>1. \E latest \in 1..Len(v) :
            /\ latest >= req.from
            /\ Len(nothing) + Len(fetched) = latest + 1 - Oldest(latest)
            /\ \A i \in 1..Len(nothing) :
                 nothing[i] = FormOf(typeOf[n], req, v[Oldest(latest) + i - 1].key)
            /\ \A i \in 1..Len(fetched) : fetched[i] = v[latest + 1 - i].key
      BY <1>6, <2>1, <2>2, <2>3
    <3>. QED
      BY <3>1 DEF Taken, Oldest
  <2>4. Len(<< >>) = 0
    OBVIOUS
  <2>. QED
    BY <2>3, <2>4
<1> HIDE DEF fetched
<1>8. Build(c, fetched)
  BY <1>3 DEF fetched
<1>. QED
  BY <1>1, <1>3, <1>6, <1>7, <1>8, BuildIsGood, GoodStep

\* The list of versions ends with the newest one.
LEMMA ListedKeeps ==
  ASSUME VaultInv, UNCHANGED typeOf, NEW c \in Caller, Listed(c)
  PROVE  VaultInv'
<1> DEFINE req == call[c].req
           n == req.name
           v == vault[n]
           r == [pc |-> "fetching", req |-> req, left |-> Listing(n),
                 fetched |-> << >>]
<1>1. req \in Request /\ call[c].pc = "listing" /\ n \in Name
  BY CallShape DEF Listed, VaultInv, Request
<1>2. req.from <= Len(v) /\ ~req.latestVersion /\ req.from \in Nat
  <2>1. CallFits(v, typeOf[n], call[c])
    BY <1>1 DEF VaultInv, CallsFit, NameOf
  <2>. QED
    BY <1>1, <2>1 DEF CallFits, Request
<1>3. v # << >> /\ UNCHANGED <<vault, cache, got>> /\ call' = [call EXCEPT ![c] = r]
  BY DEF Listed, Suspend
<1>4. v \in Seq([key : AnyKey, enabled : BOOLEAN]) /\ Len(v) <= MaxVersions
  BY <1>1 DEF VaultInv, TypeOK, VaultBounded
<1>5. Len(v) \in Nat \ {0}
  BY <1>3, <1>4, EmptySeq
<1>6. /\ Listing(n) \in Seq(1..MaxVersions) /\ Len(Listing(n)) = Len(v)
      /\ \A i \in 1..Len(v) : Listing(n)[i] = Len(v) + 1 - i
  <2>1. \A i \in 1..Len(v) : Len(v) + 1 - i \in 1..MaxVersions
    BY <1>4, <1>5, ConstantsAssumption
  <2>2. Listing(n) \in [1..Len(v) -> 1..MaxVersions]
    BY <2>1 DEF Listing
  <2>. QED
    BY <1>5, <2>2 DEF Listing
<1>7. r \in Call
  <2>1. << >> \in Seq(AnyKey)
    OBVIOUS
  <2>. QED
    BY <1>1, <1>6, <2>1 DEF Call
<1>8. r.pc = "fetching" /\ r.req = req /\ r.left = Listing(n) /\ r.fetched = << >>
  OBVIOUS
<1> HIDE DEF r
<1>9. Fetching(v, req, Listing(n), << >>)
  <2>1. Len(<< >>) = 0
    OBVIOUS
  <2>. QED
    BY <1>2, <1>5, <1>6, <2>1 DEF Fetching
<1>10. GoodCall(r)
  BY <1>7, <1>8, <1>9 DEF GoodCall, CallFits, NameOf
<1>. QED
  BY <1>3, <1>10, GoodStep DEF CallStep, GotStep, CacheStep

\* One more version has come: either all have, or the rest is still to come.
LEMMA OneMoreFetched ==
  ASSUME NEW v, Len(v) \in Nat, \A i \in 1..Len(v) : v[i].key \in AnyKey,
         NEW req \in Request, req.from \in Nat, NEW left \in Seq(1..MaxVersions),
         NEW before \in Seq(AnyKey), Fetching(v, req, left, before), NEW fetched,
         fetched = Append(before, v[Head(left)].key)
  PROVE  /\ fetched \in Seq(AnyKey)
         /\ Len(left) = 1 => \A type : Taken(v, type, req, << >>, fetched)
         /\ Len(left) # 1 => /\ Tail(left) \in Seq(1..MaxVersions)
                             /\ Fetching(v, req, Tail(left), fetched)
<1> DEFINE newest == Len(left) + Len(before)
<1>1. /\ ~req.latestVersion /\ newest <= Len(v) /\ newest >= req.from
      /\ Len(left) \in Nat \ {0} /\ Len(before) \in Nat
      /\ \A i \in 1..Len(left) : left[i] = newest + 1 - Len(before) - i
      /\ \A i \in 1..Len(before) : before[i] = v[newest + 1 - i].key
  BY DEF Fetching
<1>2. Head(left) = Len(left) /\ Head(left) \in 1..Len(v)
  <2>1. Head(left) = left[1] /\ 1 \in 1..Len(left)
    BY <1>1
  <2>. QED
    BY <1>1, <2>1
<1>3. v[Head(left)].key \in AnyKey
  BY <1>2
<1>4. /\ fetched \in Seq(AnyKey) /\ Len(fetched) = Len(before) + 1
      /\ \A i \in 1..Len(before) : fetched[i] = before[i]
      /\ fetched[Len(before) + 1] = v[Head(left)].key
  BY <1>3, AppendKeeps
<1>5. ASSUME NEW i \in 1..Len(fetched)
      PROVE  fetched[i] = v[newest + 1 - i].key
  <2>1. CASE i \in 1..Len(before)
    BY <1>1, <1>4, <2>1
  <2>2. CASE i = Len(before) + 1
    <3>1. newest + 1 - i = Head(left)
      BY <1>1, <1>2, <2>2
    <3>. QED
      BY <1>4, <2>2, <3>1
  <2>. QED
    BY <1>1, <1>4, <2>1, <2>2
<1>6. CASE Len(left) = 1
  <2>1. newest \in 1..Len(v) /\ Len(fetched) = newest /\ 0 + newest = newest + 1 - 1
    BY <1>1, <1>4, <1>6
  <2> HIDE DEF newest
  <2>2. ASSUME NEW nothing, Len(nothing) = 0, NEW type
        PROVE  Taken(v, type, req, nothing, fetched)
    <3>1. newest >= req.from /\ ~req.latestVersion
      BY <1>1 DEF newest
    <3>. QED
      BY <1>5, <2>1, <2>2, <3>1 DEF Taken
  <2>3. Len(<< >>) = 0
    OBVIOUS
  <2>4. \A type : Taken(v, type, req, << >>, fetched)
    BY <2>2, <2>3
  <2>. QED
    BY <1>4, <1>6, <2>4
<1>7. CASE Len(left) # 1
  <2>1. /\ Tail(left) \in Seq(1..MaxVersions) /\ Len(Tail(left)) = Len(left) - 1
        /\ \A i \in 1..(Len(left) - 1) : Tail(left)[i] = left[i + 1]
    BY <1>1, EmptySeq, HeadTailProperties
  <2>2. Len(Tail(left)) + Len(fetched) = newest /\ Len(Tail(left)) >= 1
    BY <1>1, <1>4, <1>7, <2>1
  <2>3. ASSUME NEW i \in 1..Len(Tail(left))
        PROVE  Tail(left)[i] = newest + 1 - Len(fetched) - i
    <3>1. i + 1 \in 1..Len(left) /\ i \in 1..(Len(left) - 1)
      BY <1>1, <2>1
    <3>2. Tail(left)[i] = newest + 1 - Len(before) - (i + 1)
      BY <1>1, <2>1, <3>1
    <3>. QED
      BY <1>1, <1>4, <3>2
  <2>4. Fetching(v, req, Tail(left), fetched)
    <3> HIDE DEF newest
    <3>. QED
      BY <1>1, <1>5, <2>2, <2>3 DEF Fetching, newest
  <2>. QED
    BY <1>4, <1>7, <2>1, <2>4
<1>. QED
  BY <1>6, <1>7

\* One version of the list has come, perhaps the last one.
LEMMA VersionFetchedKeeps ==
  ASSUME VaultInv, UNCHANGED typeOf, NEW c \in Caller, VersionFetched(c)
  PROVE  VaultInv'
<1> DEFINE req == call[c].req
           n == req.name
           left == call[c].left
           fetched == Append(call[c].fetched, vault[n][Head(left)].key)
           Shape == [pc : {"fetching"}, req : Request,
                     left : Seq(1..MaxVersions), fetched : Seq(AnyKey)]
<1>1. /\ call[c].pc = "fetching" /\ req \in Request /\ n \in Name
      /\ req.from \in Nat /\ call[c] \in Shape
      /\ left \in Seq(1..MaxVersions) /\ call[c].fetched \in Seq(AnyKey)
  BY CallShape DEF VersionFetched, VaultInv, Request
<1>2. Fetching(vault[n], req, left, call[c].fetched)
  BY <1>1 DEF VaultInv, CallsFit, CallFits, NameOf
<1>3. vault[n] \in Seq([key : AnyKey, enabled : BOOLEAN]) /\ UNCHANGED vault
  BY <1>1 DEF VaultInv, TypeOK, VersionFetched
<1>4. Len(vault[n]) \in Nat /\ \A i \in 1..Len(vault[n]) : vault[n][i].key \in AnyKey
  BY <1>3, VersionsShape
<1>5. /\ fetched \in Seq(AnyKey)
      /\ Len(left) = 1 => \A type : Taken(vault[n], type, req, << >>, fetched)
      /\ Len(left) # 1 => /\ Tail(left) \in Seq(1..MaxVersions)
                          /\ Fetching(vault[n], req, Tail(left), fetched)
  <2> HIDE DEF n, req, left
  <2>. QED
    BY <1>1, <1>2, <1>4, OneMoreFetched
<1>6. CASE Len(left) = 1
  <2>1. Build(c, fetched)
    BY <1>6 DEF VersionFetched
  <2> HIDE DEF fetched
  <2>2. Taken(vault[n], typeOf[n], req, << >>, fetched)
    BY <1>5, <1>6
  <2>. QED
    BY <1>1, <1>3, <1>5, <2>1, <2>2, BuildIsGood, GoodStep
<1>7. CASE Len(left) # 1
  <2> DEFINE r == [call[c] EXCEPT !.left = Tail(@), !.fetched = fetched]
  <2>1. call' = [call EXCEPT ![c] = r] /\ UNCHANGED <<cache, got>>
    BY <1>7 DEF VersionFetched, Suspend
  <2> HIDE DEF fetched
  <2>2. /\ r \in Shape
        /\ r.pc = "fetching" /\ r.req = req /\ r.left = Tail(left)
        /\ r.fetched = fetched
    BY <1>1, <1>5, <1>7
  <2> HIDE DEF r
  <2>3. r \in Call
    BY <2>2 DEF Call
  <2>4. GoodCall(r)
    BY <1>5, <1>7, <2>2, <2>3 DEF GoodCall, CallFits, NameOf
  <2>. QED
    BY <1>3, <2>1, <2>4, GoodStep DEF CallStep, GotStep, CacheStep
<1>. QED
  BY <1>6, <1>7

\* One secret has been saved in the cache.
LEMMA SecretCachedKeeps ==
  ASSUME VaultInv, UNCHANGED typeOf, NEW c \in Caller, SecretCached(c)
  PROVE  VaultInv'
<1> DEFINE req == call[c].req
           n == req.name
           fetched == call[c].fetched
           container == call[c].container
<1>1. /\ call[c].pc = "building" /\ req \in Request
      /\ fetched \in Seq(AnyKey) /\ container \in Seq(AnyKey)
  BY CallShape DEF SecretCached, VaultInv
<1>2. Taken(vault[n], typeOf[n], req, container, fetched) /\ OneType(container)
  BY <1>1 DEF VaultInv, CallsFit, CallFits, NameOf
<1>3. BuildFromSecrets(c, fetched, container) /\ UNCHANGED vault
  BY DEF SecretCached
<1>. QED
  BY <1>1, <1>2, <1>3, SecretsAreGood, GoodStep

\* The vault has the key that was saved.
LEMMA PublishedKeeps ==
  ASSUME VaultInv, UNCHANGED typeOf, NEW c \in Caller, Published(c)
  PROVE  VaultInv'
<1> DEFINE n == call[c].name
           k == call[c].key
           r == [call[c] EXCEPT !.pc = "published"]
           Saving == [pc : {"saving", "published"}, name : Name, key : AnyKey,
                      keep : BOOLEAN]
<1>1. call[c].pc = "saving" /\ call[c] \in Saving /\ n \in Name /\ k \in AnyKey
  BY CallShape DEF Published, VaultInv
<1>2. Publish(n, k) /\ call' = [call EXCEPT ![c] = r] /\ UNCHANGED <<cache, got>>
  BY DEF Published, Suspend
<1>3. /\ r \in Saving /\ r.pc = "published" /\ r.name = n /\ r.key = k
  BY <1>1
<1> HIDE DEF r
<1>4. /\ vault' \in [Name -> Seq([key : AnyKey, enabled : BOOLEAN])]
      /\ VaultBounded'
      /\ \A m \in Name : Grows(vault[m], vault'[m])
      /\ \E i \in 1..Len(vault'[n]) : vault'[n][i].key = k
  BY <1>1, <1>2, PublishGrows
<1>5. call \in [Caller -> Call] /\ r \in Call
  BY <1>3 DEF VaultInv, TypeOK, Call
<1>6. call' \in [Caller -> Call] /\ call'[c] = r
        /\ \A d \in Caller : d # c => call'[d] = call[d]
  BY <1>2, <1>5
<1>7. TypeOK'
  BY <1>2, <1>4, <1>6 DEF VaultInv, TypeOK
<1>8. CallsFit'
  <2>1. ASSUME NEW d \in Caller, call'[d].pc # "idle"
        PROVE  CallFits(vault'[NameOf(call'[d])], typeOf'[NameOf(call'[d])], call'[d])
    <3>1. CASE d = c
      <4>1. NameOf(r) = n
        BY <1>3 DEF NameOf
      <4>2. CallFits(vault'[n], typeOf'[n], r)
        BY <1>3, <1>4 DEF CallFits
      <4>. QED
        BY <1>6, <3>1, <4>1, <4>2
    <3>2. CASE d # c
      <4>1. call'[d] = call[d]
        BY <1>6, <3>2
      <4>. QED
        BY <1>4, <2>1, <4>1, CallStays
    <3>. QED
      BY <3>1, <3>2
  <2>2. \A d \in Caller : call'[d].pc # "idle" =>
          CallFits(vault'[NameOf(call'[d])], typeOf'[NameOf(call'[d])], call'[d])
    BY <2>1
  <2>. QED
    BY <2>2 DEF CallsFit
<1>9. AllGotFits'
  <2>1. ASSUME NEW d \in Caller, got'[d] # None
        PROVE  GotFits(vault'[got'[d].req.name], typeOf'[got'[d].req.name], got'[d])
    BY <1>2, <1>4, <2>1, GotStays
  <2>2. \A d \in Caller : got'[d] # None =>
          GotFits(vault'[got'[d].req.name], typeOf'[got'[d].req.name], got'[d])
    BY <2>1
  <2>. QED
    BY <2>2 DEF AllGotFits
<1>10. CacheComesFromVault'
  BY <1>2, <1>4, CacheStays
<1>. QED
  BY <1>4, <1>7, <1>8, <1>9, <1>10 DEF VaultInv

\* The key that the vault has goes in the cache.
LEMMA SaveResolvedKeeps ==
  ASSUME VaultInv, UNCHANGED typeOf, NEW c \in Caller, SaveResolved(c)
  PROVE  VaultInv'
<1> DEFINE n == call[c].name
           k == call[c].key
<1>1. call[c].pc = "published" /\ n \in Name /\ k \in AnyKey
  BY CallShape DEF SaveResolved, VaultInv
<1>2. \E i \in 1..Len(vault[n]) : vault[n][i].key = k
  BY <1>1 DEF VaultInv, CallsFit, CallFits, NameOf
<1>3. GoodSave(n, k)
  BY <1>1, <1>2 DEF GoodSave
<1>4. CacheStep
  BY <1>3 DEF SaveResolved, SaveTo, CacheStep
<1>5. Return(c) /\ UNCHANGED <<vault, got>>
  BY DEF SaveResolved
<1>. QED
  BY <1>4, <1>5, IdleIsGood, GoodStep DEF GotStep

\* A call that is rejected leaves everything as it is.
LEMMA RejectedKeeps ==
  ASSUME VaultInv, UNCHANGED typeOf, NEW c \in Caller, Rejected(c)
  PROVE  VaultInv'
<1>1. Return(c) /\ UNCHANGED <<vault, cache, got>>
  BY DEF Rejected
<1>. QED
  BY <1>1, IdleIsGood, GoodStep DEF GotStep, CacheStep

\* Every step.
LEMMA VaultNext == VaultInv /\ [Next]_vars => VaultInv'
<1> SUFFICES ASSUME VaultInv, [Next]_vars PROVE VaultInv'
  OBVIOUS
<1>1. CASE UNCHANGED vars
  <2>1. UNCHANGED <<typeOf, vault, cache, call, got>>
    BY <1>1 DEF vars
  <2>2. \A n \in Name : Grows(vault[n], vault'[n])
    BY <2>1, GrowsItself DEF VaultInv
  <2>3. vault' \in [Name -> Seq([key : AnyKey, enabled : BOOLEAN])] /\ VaultBounded'
    BY <2>1 DEF VaultInv, TypeOK, VaultBounded
  <2>. QED
    BY <2>1, <2>2, <2>3, VaultStep
<1>2. CASE Next
  <2>1. UNCHANGED typeOf
    BY <1>2 DEF Next
  <2>2. ASSUME NEW n \in Name, NEW k \in Key, Rotate(n, k) PROVE VaultInv'
    BY <2>1, <2>2, RotateKeeps
  <2>3. ASSUME NEW n \in Name, NEW i \in 1..Len(vault[n]), Disable(n, i)
        PROVE  VaultInv'
    BY <2>1, <2>3, DisableKeeps
  <2>4. ASSUME NEW c \in Caller, NEW n \in Name, NEW options \in Options,
               GetStart(c, n, options, FALSE)
        PROVE  VaultInv'
    BY <2>1, <2>4, GetStartKeeps, ConstantsAssumption
  <2>5. ASSUME NEW c \in Caller, NEW n \in Name, GetForSigning(c, n)
        PROVE  VaultInv'
    <3>1. DefaultOptions \in [publicKeyOnly : BOOLEAN, latestVersion : BOOLEAN]
      BY DEF DefaultOptions
    <3>. QED
      BY <2>1, <2>5, <3>1, GetStartKeeps DEF GetForSigning
  <2>6. ASSUME NEW c \in Caller, NEW n \in Name, NEW k \in Key,
               SaveStart(c, n, k) \/ GenerateStart(c, n, k)
        PROVE  VaultInv'
    BY <2>1, <2>6, SaveStartKeeps, GenerateStartKeeps
  <2>7. ASSUME NEW c \in Caller, Continue(c) PROVE VaultInv'
    BY <2>1, <2>7, LatestFetchedKeeps, ListedKeeps, VersionFetchedKeeps,
       SecretCachedKeeps, PublishedKeeps, SaveResolvedKeeps, RejectedKeeps
       DEF Continue
  <2>. QED
    BY <1>2, <2>2, <2>3, <2>4, <2>5, <2>6, <2>7 DEF Next
<1>. QED
  BY <1>1, <1>2

\* The invariant holds.
LEMMA VaultInvHolds == Spec => []VaultInv
<1>1. Init => VaultInv
  BY VaultInit
<1>. QED
  BY <1>1, VaultNext, PTL DEF Spec
-----------------------------------------------------------------------------
(* The theorems. *)

\* Every variable has its type, and no get resolves to an empty container.
THEOREM TypeCorrect == Spec => []TypeOK
<1>1. VaultInv => TypeOK
  BY DEF VaultInv
<1>. QED
  BY <1>1, VaultInvHolds, PTL

\* Whatever fails half-way, the local key store only holds keys, or public parts
\* of keys, that the vault has under the same name.
THEOREM CacheFromVault == Spec => []CacheComesFromVault
<1>1. VaultInv => CacheComesFromVault
  BY DEF VaultInv
<1>. QED
  BY <1>1, VaultInvHolds, PTL

\* A get of all versions never puts keys of two types in one container.
THEOREM OneTypePerContainer == Spec => []ContainersHaveOneType
<1>1. VaultInv => ContainersHaveOneType
  <2> SUFFICES ASSUME VaultInv, NEW c \in Caller, got[c] # None
               PROVE  \A i, j \in DOMAIN got[c].keys :
                        got[c].keys[i].kty = got[c].keys[j].kty
    BY DEF ContainersHaveOneType
  <2>1. OneType(got[c].keys)
    BY DEF VaultInv, AllGotFits, GotFits
  <2>2. got[c].keys \in Seq(AnyKey)
    BY GotShape DEF VaultInv
  <2>3. DOMAIN got[c].keys = 1..Len(got[c].keys)
    BY <2>2, LenProperties
  <2>. QED
    BY <2>1, <2>3 DEF OneType
<1>. QED
  BY <1>1, VaultInvHolds, PTL

\* What get resolves to ends with a version that was the newest one at some
\* moment of the call, however the vault changes while the versions are fetched.
THEOREM NewestIsLast == Spec => []NewestVersionIsLast
<1>1. VaultInv => NewestVersionIsLast
  <2> SUFFICES ASSUME VaultInv, NEW c \in Caller, got[c] # None
               PROVE  LET req == got[c].req
                          keys == got[c].keys
                          versions == vault[req.name]
                          oldest(newest) == IF req.latestVersion THEN newest ELSE 1
                      IN \E newest \in 1..Len(versions) :
                           /\ newest >= req.from
                           /\ Len(keys) = newest + 1 - oldest(newest)
                           /\ \A i \in DOMAIN keys :
                                keys[i] = KeyForm(req.name,
                                            versions[oldest(newest) + i - 1].key,
                                            req.publicKeyOnly)
    BY DEF NewestVersionIsLast
  <2> DEFINE req == got[c].req
             keys == got[c].keys
             v == vault[req.name]
             Oldest(newest) == IF req.latestVersion THEN newest ELSE 1
  <2>1. req \in Request /\ req.name \in Name /\ keys \in Seq(AnyKey)
    BY GotShape DEF VaultInv
  <2>2. Len(keys) \in Nat /\ DOMAIN keys = 1..Len(keys)
    BY <2>1, LenProperties
  <2>3. Taken(v, typeOf[req.name], req, keys, << >>)
    BY DEF VaultInv, AllGotFits, GotFits
  <2>4. Len(<< >>) = 0
    OBVIOUS
  <2>5. PICK top \in 1..Len(v) :
          /\ top >= req.from
          /\ Len(keys) + 0 = top + 1 - Oldest(top)
          /\ \A i \in 1..Len(keys) :
               keys[i] = FormOf(typeOf[req.name], req, v[Oldest(top) + i - 1].key)
    BY <2>3, <2>4 DEF Taken
  <2>6. \A k : KeyForm(req.name, k, req.publicKeyOnly) = FormOf(typeOf[req.name], req, k)
    BY DEF KeyForm, FormOf
  <2>7. \A i \in DOMAIN keys :
          keys[i] = KeyForm(req.name, v[Oldest(top) + i - 1].key, req.publicKeyOnly)
    BY <2>2, <2>5, <2>6
  <2>8. Len(keys) = top + 1 - Oldest(top)
    <3>1. Len(keys) + 0 = Len(keys)
      BY <2>2
    <3> HIDE DEF keys, Oldest
    <3>. QED
      BY <2>5, <3>1
  <2>. QED
    BY <2>5, <2>7, <2>8
<1>. QED
  BY <1>1, VaultInvHolds, PTL
=============================================================================
