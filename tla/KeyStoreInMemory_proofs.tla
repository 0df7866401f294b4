----------------------- MODULE KeyStoreInMemory_proofs -----------------------
(* Proofs about KeyStoreInMemory, for every value of its constants. *)
EXTENDS KeyStoreInMemory, SequenceTheorems, TLAPS

-----------------------------------------------------------------------------
(* Containers. *)

\* The public form of a key has the key's type, and no private part if the type
\* is one of those that have a public key.
LEMMA PublicForm ==
  ASSUME NEW k \in Key
  PROVE  /\ PublicOf(k).kty = k.kty
         /\ k.kty \in AsymmetricKty => ~PublicOf(k).private
<1>1. CASE k.kty \in AsymmetricKty
  <2>1. PublicOf(k) = [field \in DOMAIN k |->
                         IF field = "private" THEN FALSE ELSE k[field]]
    BY <1>1 DEF PublicOf
  <2>. QED
    BY <2>1, KeyAssumption
<1>2. CASE k.kty \notin AsymmetricKty
  BY <1>2 DEF PublicOf
<1>. QED
  BY <1>1, <1>2

\* A clone for public keys has the public form of each key of the container.
LEMMA PublicKeysOnlyIs ==
  ASSUME NEW s \in Seq(Key)
  PROVE  /\ PublicKeysOnly(s) \in Seq(Key \cup {PublicOf(k) : k \in Key})
         /\ Len(PublicKeysOnly(s)) = Len(s)
         /\ \A i \in 1..Len(s) : PublicKeysOnly(s)[i] = PublicOf(s[i])
<1>1. \A i \in 1..Len(s) : s[i] \in Key
  OBVIOUS
<1>. QED
  BY <1>1 DEF PublicKeysOnly

\* What is in a sequence stays when it is appended to.
LEMMA AppendKeeps ==
  ASSUME NEW S, NEW s \in Seq(S), NEW k \in S
  PROVE  /\ Append(s, k) \in Seq(S)
         /\ Len(Append(s, k)) = Len(s) + 1
         /\ \A i \in 1..Len(s) : Append(s, k)[i] = s[i]
  OBVIOUS
-----------------------------------------------------------------------------
(* The invariant: what was taken from the store is the public form of the    *)
(* keys that are at the same places now.                                     *)

CloneOf(h) ==
  /\ h.taken <= Len(h.keys)
  /\ h.taken <= Len(store[h.name])
  /\ \A i \in 1..h.taken : h.keys[i] = PublicOf(store[h.name][i])

ClonesFit == \A c \in Client : held[c].kind = "clone" => CloneOf(held[c])

StoreInv == TypeOK /\ ClonesFit

\* The keys of a clone.
CloneKey == Key \cup {PublicOf(k) : k \in Key}

\* What a client holds is nothing, the name of a live container, or a clone.
LEMMA HoldingShape ==
  ASSUME NEW h \in Holding
  PROVE  /\ h.kind = "live" => h.name \in Name
         /\ h.kind # "nothing" /\ h.kind # "live" => h.kind = "clone"
         /\ h.kind = "clone" =>
              /\ h \in [kind : {"clone"}, name : Name, keys : Seq(CloneKey), taken : Nat]
              /\ h.name \in Name /\ h.keys \in Seq(CloneKey) /\ h.taken \in Nat
<1>1. CASE h = Nothing
  BY <1>1 DEF Nothing
<1>2. CASE h \in [kind : {"live"}, name : Name]
  BY <1>2
<1>3. CASE h \in [kind : {"clone"}, name : Name, keys : Seq(CloneKey), taken : Nat]
  BY <1>3
<1>. QED
  BY <1>1, <1>2, <1>3 DEF Holding, CloneKey

\* The empty store has the invariant.
LEMMA StoreInit == Init => StoreInv
  BY DEF Init, StoreInv, TypeOK, ClonesFit, NoContainer, Holding, Nothing

\* save, by whatever way, leaves the clones as they are.
LEMMA SaveKeeps ==
  ASSUME StoreInv, NEW n \in Name, NEW k \in Key, SaveTo(n, k), UNCHANGED held
  PROVE  StoreInv'
<1>1. store' \in [Name -> Seq(Key)]
  BY AppendKeeps DEF StoreInv, TypeOK, SaveTo
<1>2. \A m \in Name : /\ Len(store'[m]) >= Len(store[m])
                      /\ \A i \in 1..Len(store[m]) : store'[m][i] = store[m][i]
  BY AppendKeeps DEF StoreInv, TypeOK, SaveTo
<1>3. ASSUME NEW c \in Client, held[c].kind = "clone"
      PROVE  CloneOf(held[c])'
  <2>1. CloneOf(held[c]) /\ held[c].name \in Name /\ held[c].taken \in Nat
    BY <1>3, HoldingShape DEF StoreInv, ClonesFit, TypeOK
  <2>2. store[held[c].name] \in Seq(Key) /\ store'[held[c].name] \in Seq(Key)
    BY <1>1, <2>1 DEF StoreInv, TypeOK
  <2>. QED
    BY <1>2, <2>1, <2>2 DEF CloneOf
<1>. QED
  BY <1>1, <1>3 DEF StoreInv, TypeOK, ClonesFit

\* Every step keeps the invariant.
LEMMA StoreNext == StoreInv /\ [Next]_vars => StoreInv'
<1> SUFFICES ASSUME StoreInv, [Next]_vars
             PROVE  StoreInv'
  OBVIOUS
<1> USE DEF StoreInv, TypeOK
<1>1. ASSUME NEW n \in Name, NEW k \in Key, Save(n, k)
      PROVE  StoreInv'
  BY <1>1, SaveKeeps DEF Save
<1>2. ASSUME NEW c \in Client, NEW n \in Name, GetPrivate(c, n)
      PROVE  StoreInv'
  BY <1>2 DEF GetPrivate, Live, ClonesFit, CloneOf, Holding
<1>3. ASSUME NEW c \in Client, NEW n \in Name, GetPublic(c, n)
      PROVE  StoreInv'
  <2> DEFINE h == Clone(n, PublicKeysOnly(store[n]))
  <2>1. h \in Holding
    BY PublicKeysOnlyIs DEF Clone, Holding
  <2>3. CloneOf(h)
    <3> DEFINE p == PublicKeysOnly(store[n])
    <3>1. store[n] \in Seq(Key)
      OBVIOUS
    <3>2. Len(p) = Len(store[n]) /\ \A i \in 1..Len(store[n]) : p[i] = PublicOf(store[n][i])
      BY <3>1, PublicKeysOnlyIs
    <3>3. Len(p) \in Nat
      BY <3>1, <3>2
    <3> HIDE DEF p
    <3>4. h.name = n /\ h.keys = p /\ h.taken = Len(p)
      BY DEF Clone, p
    <3>. QED
      BY <3>2, <3>3, <3>4 DEF CloneOf
  <2>2. held' = [held EXCEPT ![c] = h] /\ store' = store
    BY <1>3 DEF GetPublic
  <2>. QED
    BY <2>1, <2>2, <2>3 DEF ClonesFit, CloneOf
<1>4. ASSUME NEW c \in Client, NEW n \in Name, NEW p \in BOOLEAN, GetRejected(c, n, p)
      PROVE  StoreInv'
  BY <1>4 DEF GetRejected, Nothing, ClonesFit, CloneOf, Holding
<1>5. ASSUME NEW c \in Client, NEW k \in Key, Add(c, k)
      PROVE  StoreInv'
  <2>1. CASE held[c].kind = "live"
    <3>1. held[c].name \in Name
      BY <2>1, HoldingShape
    <3>. QED
      BY <1>5, <2>1, <3>1, SaveKeeps DEF Add
  <2>2. CASE held[c].kind # "live"
    <3>1. /\ held[c].kind = "clone" /\ held[c].name \in Name
          /\ held[c].keys \in Seq(CloneKey) /\ held[c].taken \in Nat
          /\ held[c] = [kind |-> "clone", name |-> held[c].name,
                        keys |-> held[c].keys, taken |-> held[c].taken]
      BY <1>5, <2>2, HoldingShape DEF Add
    <3> DEFINE h == [kind |-> "clone", name |-> held[c].name,
                     keys |-> Append(held[c].keys, k), taken |-> held[c].taken]
    <3>2. store' = store /\ held' = [held EXCEPT ![c] = h]
      BY <1>5, <2>2, <3>1 DEF Add
    <3>3. h \in Holding
      <4>1. k \in CloneKey
        BY DEF CloneKey
      <4>2. Append(held[c].keys, k) \in Seq(CloneKey)
        BY <3>1, <4>1, AppendKeeps
      <4>3. Holding = {Nothing} \cup [kind : {"live"}, name : Name]
                       \cup [kind : {"clone"}, name : Name, keys : Seq(CloneKey), taken : Nat]
        BY DEF Holding, CloneKey
      <4>. QED
        BY <3>1, <4>2, <4>3
    <3>4. CloneOf(held[c])
      BY <3>1 DEF ClonesFit
    <3>5. CloneOf(h)
      <4>1. /\ Len(h.keys) = Len(held[c].keys) + 1
            /\ \A i \in 1..Len(held[c].keys) : h.keys[i] = held[c].keys[i]
        BY <3>1, AppendKeeps
      <4>. QED
        BY <3>1, <3>4, <4>1 DEF CloneOf
    <3>. QED
      BY <3>2, <3>3, <3>5 DEF ClonesFit, CloneOf
  <2>. QED
    BY <2>1, <2>2
<1>6. CASE UNCHANGED vars
  BY <1>6 DEF vars, ClonesFit, CloneOf
<1>. QED
  BY <1>1, <1>2, <1>3, <1>4, <1>5, <1>6 DEF Next

\* The variables have their types, and clones are what the store had.
THEOREM StoreInvHolds == Spec => []StoreInv
  BY StoreInit, StoreNext, PTL DEF Spec
-----------------------------------------------------------------------------
(* What the invariant says. *)

\* Every variable of the store and of its clients keeps its type.
THEOREM TypeCorrect == Spec => []TypeOK
<1>1. StoreInv => TypeOK
  BY DEF StoreInv
<1>. QED
  BY <1>1, StoreInvHolds, PTL

\* What was taken from the store is a prefix of the public form of the store,
\* whatever was saved, added or got since.
THEOREM PublicViewStays == Spec => []PublicViewIsPrefix
<1>1. StoreInv => PublicViewIsPrefix
  <2> SUFFICES ASSUME StoreInv, NEW c \in Client, held[c].kind = "clone"
               PROVE  IsPrefix(SubSeq(held[c].keys, 1, held[c].taken),
                               PublicKeysOnly(store[held[c].name]))
    BY DEF PublicViewIsPrefix
  <2> DEFINE t == held[c].taken
             s == store[held[c].name]
             keys == held[c].keys
             p == PublicKeysOnly(s)
  <2>1. t \in Nat /\ keys \in Seq(CloneKey) /\ s \in Seq(Key) /\ CloneOf(held[c])
    BY HoldingShape DEF StoreInv, TypeOK, ClonesFit
  <2>2. p \in Seq(CloneKey) /\ Len(p) = Len(s) /\ \A i \in 1..Len(s) : p[i] = PublicOf(s[i])
    BY <2>1, PublicKeysOnlyIs DEF CloneKey
  <2>3. t <= Len(keys) /\ t <= Len(p) /\ \A i \in 1..t : keys[i] = p[i]
    BY <2>1, <2>2 DEF CloneOf
  <2> HIDE DEF t, s, keys, p
  <2>4. SubSeq(keys, 1, t) = SubSeq(p, 1, t) /\ Len(SubSeq(keys, 1, t)) = t
    <3> DEFINE x == SubSeq(keys, 1, t)
               y == SubSeq(p, 1, t)
    <3>1. /\ \A i \in 1..t : keys[i] \in CloneKey /\ p[i] \in CloneKey
          /\ t = IF 1 <= t THEN t - 1 + 1 ELSE 0
          /\ \A i \in 1..t : i \in 1..(t - 1 + 1) /\ 1 + i - 1 = i
      BY <2>1, <2>2, <2>3
    <3>2. x \in Seq(CloneKey) /\ Len(x) = t /\ \A i \in 1..t : x[i] = keys[i]
      BY <2>1, <3>1, SubSeqProperties
    <3>3. y \in Seq(CloneKey) /\ Len(y) = t /\ \A i \in 1..t : y[i] = p[i]
      BY <2>1, <3>1, SubSeqProperties
    <3> HIDE DEF x, y
    <3>4. x = y
      BY <2>3, <3>2, <3>3, SeqEqual
    <3>. QED
      BY <3>2, <3>4 DEF x, y
  <2>5. SubSeq(SubSeq(keys, 1, t), 1, t) = SubSeq(keys, 1, t)
    BY <2>1, <2>3
  <2>6. IsPrefix(SubSeq(keys, 1, t), p)
    BY <2>3, <2>4, <2>5 DEF IsPrefix
  <2>. QED
    BY <2>6 DEF t, s, keys, p
<1>. QED
  BY <1>1, StoreInvHolds, PTL

\* No clone shows the private part of a key that has a public one.
THEOREM PrivateKeysHidden == Spec => []PublicViewHidesPrivateKeys
<1>1. StoreInv => PublicViewHidesPrivateKeys
  <2> SUFFICES ASSUME StoreInv, NEW c \in Client, held[c].kind = "clone",
                      NEW i \in 1..held[c].taken,
                      held[c].keys[i].kty \in AsymmetricKty
               PROVE  ~held[c].keys[i].private
    BY DEF PublicViewHidesPrivateKeys
  <2>1. CloneOf(held[c]) /\ held[c].taken \in Nat /\ store[held[c].name] \in Seq(Key)
    BY HoldingShape DEF StoreInv, TypeOK, ClonesFit
  <2>2. /\ held[c].keys[i] = PublicOf(store[held[c].name][i])
        /\ store[held[c].name][i] \in Key
    BY <2>1 DEF CloneOf
  <2>. QED
    BY <2>2, PublicForm
<1>. QED
  BY <1>1, StoreInvHolds, PTL

\* The versions under a name are only appended to, also by clients that add
\* through the container they hold.
THEOREM StoreIsVersioned == Spec => ImplementsVersionedKeys
<1>1. Init => Versioned!Init
  BY DEF Init, Versioned!Init, NoContainer
<1>2. StoreInv /\ [Next]_vars => [Versioned!Next]_store
  <2> SUFFICES ASSUME StoreInv, [Next]_vars, store' # store
               PROVE  Versioned!Next
    OBVIOUS
  <2>1. CASE \E n \in Name, k \in Key : Save(n, k)
    BY <2>1 DEF Save, SaveTo, Versioned!Next, Versioned!Publish
  <2>2. ASSUME NEW c \in Client, NEW k \in Key, Add(c, k)
        PROVE  Versioned!Next
    <3>1. held[c].kind = "live" /\ SaveTo(held[c].name, k)
      BY <2>2 DEF Add
    <3>2. held[c].name \in Name
      BY <3>1, HoldingShape DEF StoreInv, TypeOK
    <3>. QED
      BY <3>1, <3>2 DEF SaveTo, Versioned!Next, Versioned!Publish
  <2>. QED
    BY <2>1, <2>2 DEF Next, vars, GetPrivate, GetPublic, GetRejected
<1>. QED
  BY <1>1, <1>2, StoreInvHolds, PTL
     DEF Spec, ImplementsVersionedKeys, Versioned!Spec
=============================================================================
