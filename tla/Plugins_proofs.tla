--------------------------- MODULE Plugins_proofs ---------------------------
(* Proofs about the components of Plugins, for every value of the constants. *)
EXTENDS
  Plugins, FiniteSets, SequenceTheorems, FiniteSetTheorems, WellFoundedInduction, TLAPS

-----------------------------------------------------------------------------
(* Induction. *)

\* A set of numbers has a least one.
LEMMA Least ==
  ASSUME NEW T \in SUBSET Nat, T # {}
  PROVE  \E x \in T : \A y \in T : x <= y
<1> DEFINE R == OpToRel(<, Nat)
<1>1. IsWellFoundedOn(R, Nat)
  BY NatLessThanWellFounded
<1>2. \A x, y \in Nat : <<y, x>> \in R <=> y < x
  BY DEF OpToRel
<1> HIDE DEF R
<1>3. PICK x \in T : \A y \in T : <<y, x>> \notin R
  BY <1>1, WFMin
<1>4. ASSUME NEW y \in T PROVE x <= y
  <2>1. x \in Nat /\ y \in Nat
    OBVIOUS
  <2>2. ~(y < x)
    BY <1>2, <1>3, <2>1
  <2>. QED
    BY <2>1, <2>2
<1>. QED
  BY <1>3, <1>4

\* The set of the numbers with a property, when it has 0 and goes on, has all.
LEMMA Upward ==
  ASSUME NEW T \in SUBSET Nat, 0 \in T, \A n \in T : n + 1 \in T
  PROVE  T = Nat
<1> SUFFICES ASSUME Nat \ T # {} PROVE FALSE
  OBVIOUS
<1>1. PICK x \in Nat \ T : \A y \in Nat \ T : x <= y
  BY Least
<1>2. x - 1 \in Nat /\ x - 1 < x
  BY <1>1
<1>3. x - 1 \in T
  BY <1>1, <1>2
<1>. QED
  BY <1>1, <1>3

\* Min, by which SelectInSeq finds the first place.
LEMMA MinIsLeast ==
  ASSUME NEW T \in SUBSET Nat, T # {}
  PROVE  Min(T) \in T /\ \A y \in T : Min(T) <= y
BY Least DEF Min

-----------------------------------------------------------------------------
(* CryptoFactory, CryptoHelpers and Subtle. *)

\* A behaviour of the composition is one of the component.
LEMMA RegistryRuns == PluginsSpec => Registry!Spec
<1>1. PluginsInit => Registry!Init
  BY DEF PluginsInit
<1>2. [PluginsNext]_pluginsVars => [Registry!Next]_Registry!vars
  BY DEF PluginsNext, pluginsVars, registryVars, Registry!vars
<1>. QED
  BY <1>1, <1>2, PTL DEF PluginsSpec, Registry!Spec

\* Every kind of operation has a default plug-in, which comes first under "*".
AnyItem == Items \cup {Registry!Default, Registry!Elliptic, Registry!Vault}
Registered(map) ==
  /\ "*" \in DOMAIN map
  /\ map = [n \in DOMAIN map |-> map[n]]
  /\ \A n \in DOMAIN map : map[n] \in Seq(AnyItem)
  /\ map["*"] # << >> /\ map["*"][1] = Registry!Default

RegistryInv ==
  /\ registry = [k \in Registry!Kind |-> registry[k]]
  /\ \A k \in Registry!Kind : Registered(registry[k])

\* What is registered under a name, and what fits among it.
Under(map, name) == IF name \in DOMAIN map THEN map[name] ELSE << >>
Fitting(items, scope, type) ==
  {i \in 1..Len(items) : items[i].scope \in {scope, "all"} /\ type \in items[i].types}

\* The first that fits, else the default one.
Answer(map, name, scope, type) ==
  LET items == Under(map, name)
      I == Fitting(items, scope, type)
  IN (IF I = {} THEN map["*"][1] ELSE items[Min(I)]).plugin

\* The first place that fits, if there is one.
LEMMA FirstFitting ==
  ASSUME NEW items \in Seq(AnyItem), NEW scope, NEW type
  PROVE  LET I == Fitting(items, scope, type) IN
         /\ I # {} => Min(I) \in I /\ Min(I) # 0 /\ \A i \in I : Min(I) <= i
         /\ Registry!SelectInSeq(items, LAMBDA item : item.scope \in {scope, "all"}
                                                        /\ type \in item.types)
              = IF I = {} THEN 0 ELSE Min(I)
<1> DEFINE I == Fitting(items, scope, type)
<1>1. I \subseteq Nat \ {0}
  BY DEF Fitting
<1>2. I # {} => Min(I) \in I /\ Min(I) # 0 /\ \A i \in I : Min(I) <= i
  BY <1>1, MinIsLeast
<1>. QED
  BY <1>2 DEF Registry!SelectInSeq, Registry!Min, Min, Fitting

\* An item that is appended leaves the first one that fits.
LEMMA AppendedLater ==
  ASSUME NEW items \in Seq(AnyItem), NEW item \in AnyItem, NEW scope, NEW type,
         Fitting(items, scope, type) # {}
  PROVE  LET I == Fitting(items, scope, type)
             more == Append(items, item)
             J == Fitting(more, scope, type)
         IN J # {} /\ more[Min(J)] = items[Min(I)]
<1> DEFINE I == Fitting(items, scope, type)
           more == Append(items, item)
           J == Fitting(more, scope, type)
<1>1. /\ more \in Seq(AnyItem) /\ Len(more) = Len(items) + 1
      /\ \A i \in 1..Len(items) : more[i] = items[i]
  OBVIOUS
<1> HIDE DEF more
<1>2. I \subseteq J /\ \A j \in J : j \in I \/ j = Len(items) + 1
  BY <1>1 DEF Fitting
<1>3. I \subseteq 1..Len(items) /\ J \subseteq Nat
  BY <1>1 DEF Fitting
<1> HIDE DEF I, J
<1>4. /\ Min(I) \in I /\ \A i \in I : Min(I) <= i
      /\ Min(J) \in J /\ \A j \in J : Min(J) <= j
  BY <1>1, <1>2, FirstFitting DEF I, J
<1>5. Min(J) = Min(I)
  <2>1. Min(J) <= Min(I)
    BY <1>2, <1>4
  <2>0. Min(I) \in 1..Len(items) /\ Min(J) \in Nat /\ Len(items) \in Nat
    <3>1. Min(I) \in I /\ Min(J) \in J
      BY <1>4
    <3>2. Len(items) \in Nat
      OBVIOUS
    <3>. QED
      BY <1>3, <3>1, <3>2
  <2>2. Min(J) \in I
    BY <1>2, <1>4, <2>0, <2>1
  <2>3. Min(I) <= Min(J)
    BY <1>4, <2>2
  <2>. QED
    BY <2>0, <2>1, <2>3
<1>. QED
  BY <1>1, <1>2, <1>3, <1>4, <1>5 DEF I, J, more

\* An item that is registered comes after the others under its name.
LEMMA RegisterAppends ==
  ASSUME NEW map, Registered(map), NEW name, NEW item \in Items
  PROVE  /\ Registered(Registry!Register(map, name, item))
         /\ \A n : Under(Registry!Register(map, name, item), n) =
                     IF n = name THEN Append(Under(map, n), item) ELSE Under(map, n)
<1> DEFINE new == Registry!Register(map, name, item)
<1>1. \A n : Under(map, n) \in Seq(AnyItem)
  BY DEF Registered, Under
<1>2. DOMAIN new = DOMAIN map \cup {name}
  BY DEF Registry!Register
<1>3. \A n \in DOMAIN new : new[n] = IF n = name THEN Append(Under(map, n), item) ELSE Under(map, n)
  <2> SUFFICES ASSUME NEW n \in DOMAIN new
               PROVE  new[n] = IF n = name THEN Append(Under(map, n), item) ELSE Under(map, n)
    OBVIOUS
  <2>1. new[n] = Under(map, n) \o (IF n = name THEN <<item>> ELSE << >>)
    BY <1>2 DEF Registry!Register, Under
  <2>2. Under(map, n) \o << >> = Under(map, n) /\ Under(map, n) \o <<item>> = Append(Under(map, n), item)
    BY <1>1
  <2>. QED
    BY <2>1, <2>2
<1>4. new = [n \in DOMAIN new |-> new[n]]
  BY DEF Registry!Register
<1> HIDE DEF new
<1>5. \A n : Under(new, n) = IF n = name THEN Append(Under(map, n), item) ELSE Under(map, n)
  BY <1>2, <1>3 DEF Under
<1>6. \A n \in DOMAIN new : new[n] \in Seq(AnyItem)
  BY <1>1, <1>3 DEF AnyItem
<1>7. "*" \in DOMAIN new /\ new["*"] # << >> /\ new["*"][1] = Registry!Default
  <2>1. map["*"] \in Seq(AnyItem) /\ map["*"] # << >> /\ map["*"][1] = Registry!Default
          /\ Under(map, "*") = map["*"] /\ "*" \in DOMAIN map
    BY DEF Registered, Under
  <2>2. new["*"] = map["*"] \/ new["*"] = Append(map["*"], item)
    BY <1>2, <1>3, <2>1
  <2>. QED
    BY <1>2, <2>1, <2>2
<1>. QED
  BY <1>4, <1>5, <1>6, <1>7 DEF Registered, new

\* What the factories register has the invariant.
LEMMA RegistryStarts == Registry!Init => RegistryInv
<1> SUFFICES ASSUME NEW f, registry = Registry!RegistryOf(f) PROVE RegistryInv
  BY DEF Registry!Init
<1>1. registry = [k \in Registry!Kind |-> registry[k]]
  BY DEF Registry!RegistryOf
<1>2. ASSUME NEW k \in Registry!Kind PROVE Registered(registry[k])
  <2>1. PICK names : registry[k] = [n \in names \cup {"*"} |->
                          IF n = "*" THEN <<Registry!Default>> ELSE <<Registry!Own(f)>>]
    BY DEF Registry!RegistryOf
  <2>2. Registry!Own(f) \in {Registry!Elliptic, Registry!Vault}
    BY DEF Registry!Own
  <2>3. \A n \in DOMAIN registry[k] : registry[k][n] \in Seq(AnyItem)
    <3>1. <<Registry!Default>> \in Seq(AnyItem) /\ <<Registry!Own(f)>> \in Seq(AnyItem)
      BY <2>2 DEF AnyItem
    <3>. QED
      BY <2>1, <3>1
  <2>. QED
    BY <2>1, <2>3 DEF Registered
<1>. QED
  BY <1>1, <1>2 DEF RegistryInv

\* A registration changes what is under one name.
LEMMA AddAppends ==
  ASSUME RegistryInv, NEW kind \in Registry!Kind, NEW name, NEW item \in Items,
         Registry!Add(kind, name, item)
  PROVE  /\ RegistryInv'
         /\ \A k \in Registry!Kind : \A n :
              Under(registry'[k], n) =
                IF k = kind /\ n = name THEN Append(Under(registry[k], n), item)
                ELSE Under(registry[k], n)
<1>1. registry' = [registry EXCEPT ![kind] = Registry!Register(@, name, item)]
  BY DEF Registry!Add
<1>2. Registered(registry[kind])
  BY DEF RegistryInv
<1>3. registry'[kind] = Registry!Register(registry[kind], name, item)
        /\ \A k \in Registry!Kind : k # kind => registry'[k] = registry[k]
  BY <1>1 DEF RegistryInv
<1>4. registry' = [k \in Registry!Kind |-> registry'[k]]
  BY <1>1 DEF RegistryInv
<1>5. \A k \in Registry!Kind : Registered(registry'[k])
  BY <1>2, <1>3, RegisterAppends DEF RegistryInv
<1>. QED
  BY <1>2, <1>3, <1>4, <1>5, RegisterAppends DEF RegistryInv

\* The invariant.
LEMMA RegistryInvHolds == Registry!Spec => []RegistryInv
<1>1. RegistryInv /\ [Registry!Next]_Registry!vars => RegistryInv'
  <2> SUFFICES ASSUME RegistryInv, [Registry!Next]_Registry!vars PROVE RegistryInv'
    OBVIOUS
  <2>1. CASE registry' = registry
    BY <2>1 DEF RegistryInv
  <2>2. CASE registry' # registry
    BY <2>2, AddAppends DEF Registry!Next, Registry!vars, Registry!Travel
  <2>. QED
    BY <2>1, <2>2
<1>. QED
  BY <1>1, RegistryStarts, PTL DEF Registry!Spec

\* Find takes the first item that fits.
FindsFirst ==
  \A k \in Registry!Kind, n \in Names, scope \in Registry!Scope, type \in Registry!KeyType :
    Registry!Find(k, n, scope, type) = Answer(registry[k], n, scope, type)

\* It does so as long as the invariant holds.
LEMMA FindIsFirst == RegistryInv => FindsFirst
<1> SUFFICES ASSUME RegistryInv, NEW k \in Registry!Kind, NEW n \in Names, NEW scope, NEW type
             PROVE  Registry!Find(k, n, scope, type) = Answer(registry[k], n, scope, type)
  BY DEF FindsFirst
<1>1. Under(registry[k], n) \in Seq(AnyItem)
  BY DEF RegistryInv, Registered, Under
<1>2. ASSUME NEW items \in Seq(AnyItem), NEW other
      PROVE  LET first == Registry!SelectInSeq(items, LAMBDA item : item.scope \in {scope, "all"}
                                                                      /\ type \in item.types)
                 I == Fitting(items, scope, type)
             IN (IF first = 0 THEN other ELSE items[first]) = (IF I = {} THEN other ELSE items[Min(I)])
  BY FirstFitting
<1>. QED
  BY <1>1, <1>2 DEF Registry!Find, Under, Answer

\* Whatever is registered by users in any order, an operation that found a plug-in other
\* than the default one goes on finding that one.
THEOREM PluginsStay == PluginsSpec => AnswersStay
<1> DEFINE Stays == registry' # registry =>
               \A kind \in Registry!Kind, name \in Names, scope \in Registry!Scope,
                  type \in Registry!KeyType :
                 Registry!Find(kind, name, scope, type) # "default" =>
                   Registry!Find(kind, name, scope, type)' = Registry!Find(kind, name, scope, type)
<1>1. RegistryInv /\ FindsFirst /\ FindsFirst' /\ [Registry!Next]_Registry!vars
        => [Stays]_Registry!vars
  <2> SUFFICES ASSUME RegistryInv, FindsFirst, FindsFirst', Registry!Next, registry' # registry,
                      NEW k \in Registry!Kind, NEW n \in Names, NEW scope \in Registry!Scope,
                      NEW type \in Registry!KeyType, Registry!Find(k, n, scope, type) # "default"
               PROVE  Registry!Find(k, n, scope, type)' = Registry!Find(k, n, scope, type)
    BY DEF Registry!vars
  <2>1. PICK kind \in Registry!Kind, name \in Names, item \in Items : Registry!Add(kind, name, item)
    BY DEF Registry!Next, Registry!Travel
  <2>2. Registry!Find(k, n, scope, type) = Answer(registry[k], n, scope, type)
          /\ Registry!Find(k, n, scope, type)' = Answer(registry'[k], n, scope, type)
    BY DEF FindsFirst
  <2> DEFINE items == Under(registry[k], n)
  <2>3. items \in Seq(AnyItem) /\ item \in AnyItem
    BY DEF RegistryInv, Registered, Under, AnyItem
  <2>4. Under(registry'[k], n) = items \/ Under(registry'[k], n) = Append(items, item)
    <3>1. Under(registry'[k], n) = IF k = kind /\ n = name THEN Append(Under(registry[k], n), item)
                                   ELSE Under(registry[k], n)
      BY <2>1, AddAppends
    <3>. QED
      BY <3>1
  <2>5. Fitting(items, scope, type) # {}
    <3>1. registry[k]["*"][1].plugin = "default"
      BY DEF RegistryInv, Registered, Registry!Default
    <3>. QED
      BY <2>2, <3>1 DEF Answer
  <2>. QED
    <3>1. CASE Under(registry'[k], n) = items
      BY <2>2, <2>5, <3>1 DEF Answer
    <3>2. CASE Under(registry'[k], n) = Append(items, item)
      <4>1. /\ Fitting(Append(items, item), scope, type) # {}
            /\ Append(items, item)[Min(Fitting(Append(items, item), scope, type))]
                 = items[Min(Fitting(items, scope, type))]
        BY <2>3, <2>5, AppendedLater
      <4> HIDE DEF items
      <4>2. Answer(registry'[k], n, scope, type)
              = Append(items, item)[Min(Fitting(Append(items, item), scope, type))].plugin
        BY <3>2, <4>1 DEF Answer
      <4>3. Answer(registry[k], n, scope, type) = items[Min(Fitting(items, scope, type))].plugin
        BY <2>5 DEF Answer, items
      <4>. QED
        BY <2>2, <4>1, <4>2, <4>3
    <3>. QED
      BY <2>4, <3>1, <3>2
<1>. QED
  BY <1>1, RegistryRuns, RegistryInvHolds, FindIsFirst, PTL DEF AnswersStay, Registry!AnswersStay, Registry!Spec

\* The names that JwaToWebCrypto tells apart.
LEMMA JwaNames ==
  ASSUME NEW jwa
  PROVE  /\ (\E n \in Registry!Bits : jwa = Registry!Rs(n)) <=> jwa \in {"RS256", "RS384", "RS512"}
         /\ (\E n \in {128, 192, 256} : jwa = Registry!AesGcm(n))
              <=> jwa \in {"A128GCM", "A192GCM", "A256GCM"}
         /\ (\E n \in Registry!Bits : jwa = Registry!Sha(n))
              <=> jwa \in {"SHA-256", "SHA-384", "SHA-512"}
         /\ (\E n \in Registry!Bits : jwa = Registry!Hs(n)) <=> jwa \in {"HS256", "HS384", "HS512"}
BY DEF Registry!Bits, Registry!Rs, Registry!AesGcm, Registry!Sha, Registry!Hs

\* The W3C algorithms of the names of JOSE.
LEMMA W3cOf ==
  /\ \A jwa \in {"RS256", "RS384", "RS512"} : Registry!JwaToWebCrypto(jwa) =
       Registry!W3c("RSASSA-PKCS1-v1_5",
                    Registry!ObjectHash(CHOOSE n \in Registry!Bits : jwa = Registry!Rs(n)))
  /\ Registry!JwaToWebCrypto("RSA-OAEP-256") = Registry!W3c("RSA-OAEP", Registry!TextHash(256))
  /\ \A jwa \in {"A128GCM", "A192GCM", "A256GCM"} : Registry!JwaToWebCrypto(jwa) =
       [Registry!W3c("AES-GCM", Registry!Missing) EXCEPT !.length =
          CHOOSE n \in {128, 192, 256} : jwa = Registry!AesGcm(n)]
  /\ Registry!JwaToWebCrypto("ES256K") = Registry!W3c("ECDSA", Registry!ObjectHash(256))
  /\ Registry!JwaToWebCrypto("EdDSA") = Registry!W3c("EdDSA", Registry!ObjectHash(256))
  /\ Registry!JwaToWebCrypto("HS256") =
       Registry!W3c("HMAC", Registry!ObjectHash(CHOOSE n \in Registry!Bits : "HS256" = Registry!Hs(n)))
<1>1. ASSUME NEW jwa \in {"RS256", "RS384", "RS512"}
      PROVE  Registry!JwaToWebCrypto(jwa) =
               Registry!W3c("RSASSA-PKCS1-v1_5",
                            Registry!ObjectHash(CHOOSE n \in Registry!Bits : jwa = Registry!Rs(n)))
  BY <1>1, JwaNames DEF Registry!JwaToWebCrypto
<1>2. Registry!JwaToWebCrypto("RSA-OAEP-256") = Registry!W3c("RSA-OAEP", Registry!TextHash(256))
  BY JwaNames DEF Registry!JwaToWebCrypto
<1>3. ASSUME NEW jwa \in {"A128GCM", "A192GCM", "A256GCM"}
      PROVE  Registry!JwaToWebCrypto(jwa) =
               [Registry!W3c("AES-GCM", Registry!Missing) EXCEPT !.length =
                  CHOOSE n \in {128, 192, 256} : jwa = Registry!AesGcm(n)]
  BY <1>3, JwaNames DEF Registry!JwaToWebCrypto
<1>4. Registry!JwaToWebCrypto("ES256K") = Registry!W3c("ECDSA", Registry!ObjectHash(256))
  BY JwaNames DEF Registry!JwaToWebCrypto
<1>5. Registry!JwaToWebCrypto("EdDSA") = Registry!W3c("EdDSA", Registry!ObjectHash(256))
  BY JwaNames DEF Registry!JwaToWebCrypto
<1>6. Registry!JwaToWebCrypto("HS256") =
       Registry!W3c("HMAC", Registry!ObjectHash(CHOOSE n \in Registry!Bits : "HS256" = Registry!Hs(n)))
  BY JwaNames DEF Registry!JwaToWebCrypto
<1>. QED
  BY <1>1, <1>2, <1>3, <1>4, <1>5, <1>6

\* The way through the W3C names keeps the algorithm and what it is for.
LEMMA NameKept ==
  ASSUME NEW jwa \in Registry!Jose
  PROVE  LET a == Registry!JwaToWebCrypto(jwa) IN
         /\ a.name # Registry!NoName
         /\ Registry!WebCryptoToJwa(a) = jwa
         /\ Registry!KindOf(a) = Registry!UseOf(jwa)
<1>1. CASE jwa \in {"RS256", "RS384", "RS512"}
  <2> DEFINE bits == CHOOSE n \in Registry!Bits : jwa = Registry!Rs(n)
  <2>1. jwa = Registry!Rs(bits)
    BY <1>1, JwaNames
  <2> HIDE DEF bits
  <2>2. Registry!JwaToWebCrypto(jwa)
          = [name |-> "RSASSA-PKCS1-v1_5", hash |-> [form |-> "object", bits |-> bits], length |-> 0]
    BY <1>1, W3cOf DEF bits, Registry!W3c, Registry!ObjectHash
  <2>. QED
    BY <1>1, <2>1, <2>2 DEF Registry!WebCryptoToJwa, Registry!KindOf, Registry!UseOf, Registry!NoName
<1>2. CASE jwa \in {"A128GCM", "A192GCM", "A256GCM"}
  <2> DEFINE bits == CHOOSE n \in {128, 192, 256} : jwa = Registry!AesGcm(n)
  <2>1. jwa = Registry!AesGcm(bits) /\ bits \in {128, 192, 256}
    BY <1>2, JwaNames
  <2> HIDE DEF bits
  <2>2. Registry!JwaToWebCrypto(jwa)
          = [name |-> "AES-GCM", hash |-> Registry!Missing, length |-> bits]
    BY <1>2, W3cOf DEF bits, Registry!W3c
  <2>. QED
    BY <1>2, <2>1, <2>2 DEF Registry!WebCryptoToJwa, Registry!KindOf, Registry!UseOf, Registry!NoName
<1>3. CASE jwa \in {"ES256K", "EdDSA"}
  <2>1. Registry!JwaToWebCrypto(jwa).name = IF jwa = "ES256K" THEN "ECDSA" ELSE "EdDSA"
    BY <1>3, W3cOf DEF Registry!W3c
  <2>. QED
    BY <1>3, <2>1 DEF Registry!WebCryptoToJwa, Registry!KindOf, Registry!UseOf, Registry!NoName
<1>4. CASE jwa \in {"RSA-OAEP-256", "HS256"}
  <2>1. Registry!JwaToWebCrypto(jwa).name = IF jwa = "HS256" THEN "HMAC" ELSE "RSA-OAEP"
    BY <1>4, W3cOf DEF Registry!W3c
  <2>. QED
    BY <1>4, <2>1 DEF Registry!WebCryptoToJwa, Registry!KindOf, Registry!UseOf, Registry!NoName
<1>. QED
  BY <1>1, <1>2, <1>3, <1>4 DEF Registry!Jose

\* An operation goes to the plug-in that is registered under the name of its algorithm,
\* whatever is registered.
THEOREM NamesAreFound == PluginsSpec => []RegisteredNameIsFound
<1>1. RegisteredNameIsFound
  BY NameKept DEF RegisteredNameIsFound, Registry!RegisteredNameIsFound,
     Registry!GetSubtleCryptoForAlgorithm
<1>. QED
  BY <1>1, PTL

\* The JWK has one of two names of the curve, whichever plug-ins the key went through.
TravelInv == accepted /\ jwk \in {"SECP256K1", "P-256K"}

\* Keys of secp256k1 are taken by every plug-in, wherever they have been.
THEOREM KeysAlwaysTravel == PluginsSpec => []KeysTravel
<1>1. Registry!Init => TravelInv
  BY DEF Registry!Init, TravelInv, Registry!Exports, Registry!ExportTransform, Registry!Carrier
<1>2. TravelInv /\ [Registry!Next]_Registry!vars => TravelInv'
  <2> SUFFICES ASSUME TravelInv, [Registry!Next]_Registry!vars PROVE TravelInv'
    OBVIOUS
  <2>1. CASE UNCHANGED <<jwk, accepted>>
    BY <2>1 DEF TravelInv
  <2>2. ASSUME NEW p \in Registry!Carrier, Registry!Travel(p) PROVE TravelInv'
    <3> DEFINE crv == Registry!ImportTransform(p, jwk)
    <3>1. accepted' = Registry!Imports(p, crv) /\ jwk' \in Registry!Exports(p, crv)
      BY <2>2 DEF Registry!Travel
    <3>2. jwk \in {"SECP256K1", "P-256K"}
      BY DEF TravelInv
    <3>3. CASE p = "default"
      BY <3>1, <3>2, <3>3
      DEF TravelInv, Registry!ImportTransform, Registry!Imports, Registry!Exports,
          Registry!ExportTransform
    <3>4. CASE p = "vault"
      BY <3>1, <3>2, <3>4
      DEF TravelInv, Registry!ImportTransform, Registry!Imports, Registry!Exports,
          Registry!ExportTransform
    <3>5. CASE p = "elliptic"
      <4>1. crv = jwk
        BY <3>5 DEF Registry!ImportTransform
      <4>2. Registry!JwaToWebCrypto("ES256K").name = "ECDSA"
        BY W3cOf DEF Registry!W3c
      <4>3. Registry!KeyImportAlgorithm(Registry!JwaToWebCrypto("ES256K"), crv).namedCurve = crv
        BY <4>2 DEF Registry!KeyImportAlgorithm
      <4>. QED
        BY <3>1, <3>2, <3>5, <4>1, <4>3 DEF TravelInv, Registry!Imports, Registry!Exports
    <3>. QED
      BY <3>3, <3>4, <3>5 DEF Registry!Carrier
  <2>. QED
    BY <2>1, <2>2 DEF Registry!Next, Registry!vars, Registry!Add
<1>. QED
  BY <1>1, <1>2, RegistryRuns, PTL DEF Registry!Spec, TravelInv, KeysTravel, Registry!KeysTravel
-----------------------------------------------------------------------------
(* Sequences. *)

\* A sequence without its p-th element.
LEMMA Removed ==
  ASSUME NEW S, NEW s \in Seq(S), NEW p \in 1..Len(s)
  PROVE  /\ Sessions!RemoveAt(s, p) \in Seq(S)
         /\ Len(Sessions!RemoveAt(s, p)) = Len(s) - 1
         /\ \A k \in 1..(Len(s) - 1) :
              Sessions!RemoveAt(s, p)[k] = IF k < p THEN s[k] ELSE s[k + 1]
<1> DEFINE a == SubSeq(s, 1, p - 1)
           b == SubSeq(s, p + 1, Len(s))
<1>1. /\ a \in Seq(S) /\ Len(a) = p - 1
      /\ \A k \in 1..(p - 1) : a[k] = s[k]
  OBVIOUS
<1>2. /\ b \in Seq(S) /\ Len(b) = Len(s) - p
      /\ \A k \in 1..(Len(s) - p) : b[k] = s[p + k]
  OBVIOUS
<1>3. Sessions!RemoveAt(s, p) = a \o b
  BY DEF Sessions!RemoveAt
<1> HIDE DEF a, b
<1>4. a \o b \in Seq(S) /\ Len(a \o b) = Len(s) - 1
  <2>1. Len(a \o b) = Len(a) + Len(b)
    BY <1>1, <1>2, ConcatProperties
  <2>2. Len(s) \in Nat /\ p \in Nat
    OBVIOUS
  <2>. QED
    BY <1>1, <1>2, <2>1, <2>2
<1>5. ASSUME NEW k \in 1..(Len(s) - 1) PROVE (a \o b)[k] = IF k < p THEN s[k] ELSE s[k + 1]
  <2>1. CASE k < p
    BY <1>1, <1>2, <2>1
  <2>2. CASE ~(k < p)
    <3>1. (a \o b)[k] = b[k - Len(a)]
      BY <1>1, <1>2, <2>2
    <3>2. k - Len(a) \in 1..(Len(s) - p) /\ p + (k - Len(a)) = k + 1
      BY <1>1, <2>2
    <3>. QED
      BY <1>2, <2>2, <3>1, <3>2
  <2>. QED
    BY <2>1, <2>2
<1>. QED
  BY <1>3, <1>4, <1>5

\* A sequence with a new first element.
LEMMA Fronted ==
  ASSUME NEW S, NEW s \in Seq(S), NEW e \in S
  PROVE  /\ <<e>> \o s \in Seq(S) /\ Len(<<e>> \o s) = Len(s) + 1
         /\ (<<e>> \o s)[1] = e
         /\ \A k \in 2..(Len(s) + 1) : (<<e>> \o s)[k] = s[k - 1]
OBVIOUS
-----------------------------------------------------------------------------
(* KeyStoreFactory. *)

\* A behaviour of the composition is one of the component.
LEMMA SessionsRun == PluginsSpec => Sessions!Spec
<1>1. PluginsInit => Sessions!Init
  BY DEF PluginsInit
<1>2. [PluginsNext]_pluginsVars => [Sessions!Next]_Sessions!vars
  BY DEF PluginsNext, pluginsVars, sessionsVars, Sessions!vars
<1>. QED
  BY <1>1, <1>2, PTL DEF PluginsSpec, Sessions!Spec

\* The instance counts as everybody does.
LEMMA SameCount == \A S : Sessions!Cardinality(S) = Cardinality(S)
  BY DEF Sessions!Cardinality, Cardinality, Sessions!IsFiniteSet, IsFiniteSet

Session == [vault : Uri, store : Nat, expired : BOOLEAN]
SessionTypes ==
  /\ sessionCache \in Seq(Session) /\ Len(sessionCache) <= MaxCached
  /\ made \in Seq([vault : Uri, credential : Credential])
  /\ results \in [Uri -> Seq(Nat)]
  /\ others \in [Uri -> SUBSET Uri] /\ \A u \in Uri : IsFiniteSet(others[u])

\* The store that was handed out last for a vault.
Latest(map, u) == map[u][Len(map[u])]

\* A cached session is the only one of its vault, and has the store that was handed out
\* last for it.
CacheFits ==
  \A i \in 1..Len(sessionCache) : LET e == sessionCache[i] IN
    /\ \A j \in 1..Len(sessionCache) : sessionCache[j].vault = e.vault => j = i
    /\ results[e.vault] # << >> /\ Latest(results, e.vault) = e.store
    /\ e.expired => e.store \in over

\* What was handed out for a vault.
HandedOut(u) ==
  /\ Len(results[u]) <= 2
  /\ \A i \in 1..Len(results[u]) : LET s == results[u][i] IN
       s \in 1..Len(made) /\ made[s].vault = u
  /\ Len(results[u]) = 2 => results[u][1] = results[u][2] \/ results[u][1] \in over

\* A vault whose session is before it in the cache was asked for since.
Cached(u) ==
  \E i \in 1..Len(sessionCache) :
    /\ sessionCache[i].vault = u
    /\ \A j \in 1..(i - 1) : sessionCache[j].vault \in others[u]

\* A store is there until its time is up or enough other vaults were asked for.
StillThere(u) ==
  results[u] # << >> /\ Latest(results, u) \notin over
    => Cached(u) \/ Cardinality(others[u]) >= MaxCached

SessionsInv ==
  /\ SessionTypes /\ CacheFits
  /\ \A u \in Uri : HandedOut(u) /\ StillThere(u)

\* The place of a session in the cache, if it is there.
LEMMA PlaceOf ==
  ASSUME SessionTypes, NEW u
  PROVE  IF \E i \in 1..Len(sessionCache) : sessionCache[i].vault = u
         THEN /\ Sessions!IsCached(u) /\ Sessions!Place(u) \in 1..Len(sessionCache)
              /\ sessionCache[Sessions!Place(u)].vault = u
         ELSE ~Sessions!IsCached(u)
<1> DEFINE I == {i \in 1..Len(sessionCache) : sessionCache[i].vault = u}
<1>1. Sessions!Place(u) = IF I # {} THEN Min(I) ELSE 0
  BY DEF Sessions!Place, Sessions!SelectInSeq, Sessions!Min, Min
<1>2. I \in SUBSET Nat
  BY DEF SessionTypes
<1>3. I # {} => Min(I) \in I
  BY <1>2, MinIsLeast
<1>. QED
  BY <1>1, <1>3 DEF Sessions!IsCached

\* What HandOut does to the vault and to the others.
LEMMA HandOutGives ==
  ASSUME SessionTypes, NEW u \in Uri, NEW s \in Nat, Sessions!HandOut(u, s)
  PROVE  /\ results' \in [Uri -> Seq(Nat)]
         /\ results'[u] = IF results[u] = << >> THEN <<s>> ELSE <<Latest(results, u), s>>
         /\ \A v \in Uri : v # u => results'[v] = results[v]
         /\ others' \in [Uri -> SUBSET Uri] /\ \A v \in Uri : IsFiniteSet(others'[v])
         /\ \A v \in Uri : others'[v] = IF v = u THEN {} ELSE others[v] \cup {u}
<1>1. results' = [results EXCEPT ![u] =
                    IF results[u] = << >> THEN <<s>> ELSE <<Latest(results, u), s>>]
  BY DEF Sessions!HandOut, Sessions!Last, Latest, SessionTypes
<1>2. results[u] # << >> => Latest(results, u) \in Nat
  <2>1. results[u] \in Seq(Nat)
    BY DEF SessionTypes
  <2>. QED
    BY <2>1 DEF Latest
<1>3. results' \in [Uri -> Seq(Nat)]
  <2>1. (IF results[u] = << >> THEN <<s>> ELSE <<Latest(results, u), s>>) \in Seq(Nat)
    BY <1>2
  <2>. QED
    BY <1>1, <2>1 DEF SessionTypes
<1>4. \A v \in Uri : others'[v] = IF v = u THEN {} ELSE others[v] \cup {u}
  BY DEF Sessions!HandOut
<1>5. others' \in [Uri -> SUBSET Uri]
  BY DEF Sessions!HandOut, SessionTypes
<1>6. \A v \in Uri : IsFiniteSet(others'[v])
  <2> SUFFICES ASSUME NEW v \in Uri PROVE IsFiniteSet(others'[v])
    OBVIOUS
  <2>1. IsFiniteSet({}) /\ IsFiniteSet(others[v])
    BY FS_EmptySet DEF SessionTypes
  <2>2. IsFiniteSet(others[v] \cup {u})
    BY <2>1, FS_AddElement
  <2>. QED
    BY <1>4, <2>1, <2>2
<1>. QED
  BY <1>1, <1>3, <1>4, <1>5, <1>6 DEF SessionTypes

\* The stores that were handed out stay those of their vaults.
LEMMA HandOutKeeps ==
  ASSUME SessionsInv, NEW u \in Uri, NEW s \in Nat, Sessions!HandOut(u, s),
         Len(made) <= Len(made'), \A i \in 1..Len(made) : made'[i] = made[i],
         Len(made') \in Nat, s \in 1..Len(made'), made'[s].vault = u, over \subseteq over',
         results[u] # << >> => Latest(results, u) = s \/ Latest(results, u) \in over'
  PROVE  /\ \A v \in Uri : HandedOut(v)'
         /\ results'[u] # << >> /\ Latest(results', u) = s
         /\ \A v \in Uri : v # u => results'[v] = results[v] /\ Latest(results', v) = Latest(results, v)
<1>1. SessionTypes
  BY DEF SessionsInv
<1>2. /\ results'[u] = IF results[u] = << >> THEN <<s>> ELSE <<Latest(results, u), s>>
      /\ \A v \in Uri : v # u => results'[v] = results[v]
  BY <1>1, HandOutGives
<1>3. Len(made) \in Nat
  BY <1>1 DEF SessionTypes
<1>4. ASSUME NEW v \in Uri, v # u PROVE HandedOut(v)'
  <2>1. HandedOut(v) /\ results'[v] = results[v]
    BY <1>2, <1>4 DEF SessionsInv
  <2>2. \A t \in 1..Len(made) : t \in 1..Len(made') /\ made'[t] = made[t]
    BY <1>3
  <2>. QED
    BY <2>1, <2>2 DEF HandedOut
<1>5. HandedOut(u)'
  <2>1. CASE results[u] = << >>
    BY <1>2, <2>1 DEF HandedOut
  <2>2. CASE results[u] # << >>
    <3>1. results[u] \in Seq(Nat) /\ Len(results[u]) \in 1..Len(results[u])
      BY <1>1, <2>2 DEF SessionTypes
    <3>2. Latest(results, u) \in 1..Len(made) /\ made[Latest(results, u)].vault = u
      BY <3>1 DEF SessionsInv, HandedOut, Latest
    <3>3. Latest(results, u) \in 1..Len(made') /\ made'[Latest(results, u)].vault = u
      BY <1>3, <3>2
    <3>4. results'[u] = <<Latest(results, u), s>>
      BY <1>2, <2>2
    <3>. QED
      BY <2>2, <3>3, <3>4 DEF HandedOut
  <2>. QED
    BY <2>1, <2>2
<1>6. results'[u] # << >> /\ Latest(results', u) = s
  BY <1>2 DEF Latest
<1>. QED
  BY <1>2, <1>4, <1>5, <1>6 DEF Latest

\* The others of a vault are not fewer after a step.
LEMMA OthersGrow ==
  ASSUME SessionTypes, NEW u \in Uri, NEW s \in Nat, Sessions!HandOut(u, s), NEW v \in Uri, v # u
  PROVE  /\ others[v] \subseteq others'[v] /\ u \in others'[v]
         /\ Cardinality(others[v]) \in Nat /\ Cardinality(others'[v]) \in Nat
         /\ Cardinality(others[v]) <= Cardinality(others'[v])
<1>1. others'[v] = others[v] \cup {u} /\ IsFiniteSet(others'[v]) /\ IsFiniteSet(others[v])
  BY HandOutGives DEF SessionTypes
<1>2. others[v] \in SUBSET others'[v]
  BY <1>1
<1>. QED
  BY <1>1, <1>2, FS_Subset, FS_CardinalityType

\* A create for a vault that is cached hands out what is there, and puts it first or,
\* when its time is up, out.
LEMMA AfterGetIs ==
  ASSUME SessionTypes, NEW u \in Uri, Sessions!IsCached(u)
  PROVE  LET p == Sessions!Place(u)
             new == Sessions!AfterGet(u)
         IN /\ p \in 1..Len(sessionCache) /\ sessionCache[p].vault = u
            /\ new \in Seq(Session)
            /\ IF sessionCache[p].expired
               THEN /\ Len(new) = Len(sessionCache) - 1
                    /\ \A k \in 1..Len(new) :
                         new[k] = IF k < p THEN sessionCache[k] ELSE sessionCache[k + 1]
               ELSE /\ Len(new) = Len(sessionCache)
                    /\ \A k \in 1..Len(new) :
                         new[k] = sessionCache[IF k = 1 THEN p ELSE IF k <= p THEN k - 1 ELSE k]
<1> DEFINE p == Sessions!Place(u)
           e == sessionCache[p]
           rest == Sessions!RemoveAt(sessionCache, p)
           new == Sessions!AfterGet(u)
<1>1. p \in 1..Len(sessionCache) /\ e.vault = u
  BY PlaceOf
<1>2. sessionCache \in Seq(Session) /\ e \in Session /\ Len(sessionCache) \in Nat
  BY <1>1 DEF SessionTypes
<1>3. new = IF e.expired THEN rest ELSE <<e>> \o rest
  BY DEF Sessions!AfterGet, Sessions!Entry, Sessions!Without
<1> HIDE DEF p, new
<1>4. /\ rest \in Seq(Session) /\ Len(rest) = Len(sessionCache) - 1
      /\ \A k \in 1..(Len(sessionCache) - 1) :
           rest[k] = IF k < p THEN sessionCache[k] ELSE sessionCache[k + 1]
  BY <1>1, <1>2, Removed
<1> HIDE DEF e, rest
<1>5. /\ <<e>> \o rest \in Seq(Session) /\ Len(<<e>> \o rest) = Len(rest) + 1
      /\ (<<e>> \o rest)[1] = e
      /\ \A k \in 2..(Len(rest) + 1) : (<<e>> \o rest)[k] = rest[k - 1]
  BY <1>2, <1>4, Fronted
<1>6. CASE e.expired
  BY <1>1, <1>2, <1>3, <1>4, <1>6 DEF e, p, new
<1>7. CASE ~e.expired
  <2>1. new = <<e>> \o rest /\ Len(new) = Len(sessionCache)
    BY <1>2, <1>3, <1>4, <1>5, <1>7
  <2>2. ASSUME NEW k \in 1..Len(new)
        PROVE  new[k] = sessionCache[IF k = 1 THEN p ELSE IF k <= p THEN k - 1 ELSE k]
    <3>1. CASE k = 1
      BY <1>5, <2>1, <3>1 DEF e
    <3>2. CASE k # 1 /\ k <= p
      <4>1. new[k] = rest[k - 1] /\ k - 1 \in 1..(Len(sessionCache) - 1) /\ k - 1 < p
        BY <1>1, <1>2, <1>4, <1>5, <2>1, <3>2
      <4>. QED
        BY <1>4, <3>2, <4>1
    <3>3. CASE k # 1 /\ ~(k <= p)
      <4>1. new[k] = rest[k - 1] /\ k - 1 \in 1..(Len(sessionCache) - 1) /\ ~(k - 1 < p)
              /\ (k - 1) + 1 = k
        BY <1>1, <1>2, <1>4, <1>5, <2>1, <3>3
      <4>. QED
        BY <1>4, <3>3, <4>1
    <3>. QED
      BY <3>1, <3>2, <3>3
  <2>. QED
    BY <1>1, <1>2, <1>3, <1>5, <1>7, <2>1, <2>2 DEF e, p, new
<1>. QED
  BY <1>6, <1>7

\* Sessions that only change their places in the cache: what stands at k stood at
\* from[k], and whoever is behind another one was so, or is behind the vault of u.
Rearranges(from, u) ==
  /\ Len(sessionCache') <= Len(sessionCache)
  /\ \A k \in 1..Len(sessionCache') :
       from[k] \in 1..Len(sessionCache) /\ sessionCache'[k] = sessionCache[from[k]]
  /\ \A k, m \in 1..Len(sessionCache') : from[k] = from[m] => k = m
  /\ \A i \in 1..Len(sessionCache) : i # Sessions!Place(u) =>
       \E k \in 1..Len(sessionCache') :
         /\ from[k] = i
         /\ \A j \in 1..(k - 1) : from[j] < i \/ from[j] = Sessions!Place(u)
  /\ sessionCache[Sessions!Place(u)].expired
       \/ (1 \in 1..Len(sessionCache') /\ from[1] = Sessions!Place(u))

\* They keep the invariant.
LEMMA Rearranged ==
  ASSUME SessionsInv, NEW u \in Uri, Sessions!IsCached(u), Sessions!CreateHit(u),
         NEW from, sessionCache' \in Seq(Session), Rearranges(from, u)
  PROVE  SessionsInv'
<1> DEFINE p == Sessions!Place(u)
           e == sessionCache[p]
<1> USE DEF Rearranges
<1>1. SessionTypes /\ CacheFits
  BY DEF SessionsInv
<1>2. /\ p \in 1..Len(sessionCache) /\ e.vault = u /\ e \in Session
      /\ results[u] # << >> /\ Latest(results, u) = e.store /\ (e.expired => e.store \in over)
  <2>1. p \in 1..Len(sessionCache) /\ e.vault = u
    BY <1>1, PlaceOf
  <2>. QED
    BY <1>1, <2>1 DEF CacheFits, SessionTypes
<1>3. Sessions!HandOut(u, e.store) /\ UNCHANGED <<made, over>>
  BY DEF Sessions!CreateHit, Sessions!Entry
<1>4. e.store \in Nat /\ e.store \in 1..Len(made) /\ made[e.store].vault = u
  <2>1. results[u] \in Seq(Nat)
    BY <1>1 DEF SessionTypes
  <2>2. Len(results[u]) \in 1..Len(results[u])
    BY <1>2, <2>1
  <2>3. Latest(results, u) \in 1..Len(made) /\ made[Latest(results, u)].vault = u
    BY <2>2 DEF SessionsInv, HandedOut, Latest
  <2>. QED
    BY <1>2, <2>3 DEF Session
<1>5. Len(made) \in Nat
  BY <1>1 DEF SessionTypes
<1>6. /\ \A v \in Uri : HandedOut(v)'
      /\ results'[u] # << >> /\ Latest(results', u) = e.store
      /\ \A v \in Uri : v # u => results'[v] = results[v] /\ Latest(results', v) = Latest(results, v)
  BY <1>2, <1>3, <1>4, <1>5, HandOutKeeps
<1> HIDE DEF e, p
<1>7. SessionTypes'
  <2>1. /\ results' \in [Uri -> Seq(Nat)]
        /\ others' \in [Uri -> SUBSET Uri] /\ \A v \in Uri : IsFiniteSet(others'[v])
    BY <1>1, <1>3, <1>4, HandOutGives
  <2>2. Len(sessionCache') <= MaxCached
    BY <1>1, SessionsAssumption DEF SessionTypes
  <2>. QED
    BY <1>1, <1>3, <2>1, <2>2 DEF SessionTypes
<1>8. CacheFits'
  <2> SUFFICES ASSUME NEW k \in 1..Len(sessionCache')
               PROVE  LET f == sessionCache'[k] IN
                      /\ \A m \in 1..Len(sessionCache') : sessionCache'[m].vault = f.vault => m = k
                      /\ results'[f.vault] # << >> /\ Latest(results', f.vault) = f.store
                      /\ f.expired => f.store \in over'
    BY DEF CacheFits
  <2> DEFINE f == sessionCache'[k]
  <2>1. from[k] \in 1..Len(sessionCache) /\ f = sessionCache[from[k]] /\ f.vault \in Uri
    <3>1. from[k] \in 1..Len(sessionCache) /\ f = sessionCache[from[k]]
      OBVIOUS
    <3>2. sessionCache[from[k]] \in Session
      BY <1>1, <3>1 DEF SessionTypes
    <3>. QED
      BY <3>1, <3>2 DEF Session
  <2>2. ASSUME NEW m \in 1..Len(sessionCache'), sessionCache'[m].vault = f.vault
        PROVE  m = k
    <3>1. from[m] \in 1..Len(sessionCache) /\ sessionCache[from[m]].vault = sessionCache[from[k]].vault
      BY <2>1, <2>2
    <3>2. from[m] = from[k]
      BY <1>1, <2>1, <3>1 DEF CacheFits
    <3>. QED
      BY <3>2
  <2>3. /\ results[f.vault] # << >> /\ Latest(results, f.vault) = f.store
        /\ f.expired => f.store \in over
    BY <1>1, <2>1 DEF CacheFits
  <2>4. results'[f.vault] # << >> /\ Latest(results', f.vault) = f.store
    BY <1>2, <1>6, <2>1, <2>3
  <2>. QED
    BY <1>3, <2>2, <2>3, <2>4
<1>9. ASSUME NEW v \in Uri PROVE StillThere(v)'
  <2>1. CASE v = u
    <3>1. CASE e.expired
      BY <1>2, <1>3, <1>6, <2>1, <3>1 DEF StillThere
    <3>2. CASE ~e.expired
      <4>1. 1 \in 1..Len(sessionCache') /\ sessionCache'[1].vault = u
        BY <1>2, <3>2 DEF e, p
      <4>2. Cached(u)'
        BY <4>1 DEF Cached
      <4>. QED
        BY <2>1, <4>2 DEF StillThere
    <3>. QED
      BY <3>1, <3>2
  <2>2. CASE v # u
    <3> SUFFICES ASSUME results'[v] # << >>, Latest(results', v) \notin over'
                 PROVE  Cached(v)' \/ Cardinality(others'[v]) >= MaxCached
      BY DEF StillThere
    <3>1. Cached(v) \/ Cardinality(others[v]) >= MaxCached
      BY <1>3, <1>6, <2>2 DEF SessionsInv, StillThere
    <3>2. CASE Cached(v)
      <4>1. PICK i \in 1..Len(sessionCache) :
              /\ sessionCache[i].vault = v
              /\ \A j \in 1..(i - 1) : sessionCache[j].vault \in others[v]
        BY <3>2 DEF Cached
      <4>2. i # p
        BY <1>2, <2>2, <4>1 DEF e
      <4>3. PICK k \in 1..Len(sessionCache') :
              from[k] = i /\ \A j \in 1..(k - 1) : from[j] < i \/ from[j] = p
        BY <4>2 DEF p
      <4>4. ASSUME NEW j \in 1..(k - 1) PROVE sessionCache'[j].vault \in others'[v]
        <5>1. j \in 1..Len(sessionCache')
          OBVIOUS
        <5>2. from[j] \in 1..Len(sessionCache) /\ sessionCache'[j] = sessionCache[from[j]]
          BY <5>1
        <5>3. others[v] \subseteq others'[v] /\ u \in others'[v]
          BY <1>1, <1>3, <1>4, <2>2, OthersGrow
        <5>4. CASE from[j] < i
          <6>1. from[j] \in 1..(i - 1)
            BY <5>2, <5>4
          <6>. QED
            BY <4>1, <5>2, <5>3, <6>1
        <5>5. CASE from[j] = p
          BY <1>2, <5>2, <5>3, <5>5 DEF e
        <5>. QED
          BY <4>3, <5>4, <5>5
      <4>. QED
        BY <4>1, <4>3, <4>4 DEF Cached
    <3>3. CASE Cardinality(others[v]) >= MaxCached
      <4>1. /\ Cardinality(others[v]) \in Nat /\ Cardinality(others'[v]) \in Nat
            /\ Cardinality(others[v]) <= Cardinality(others'[v])
        BY <1>1, <1>3, <1>4, <2>2, OthersGrow
      <4>. QED
        BY <3>3, <4>1, SessionsAssumption
    <3>. QED
      BY <3>1, <3>2, <3>3
  <2>. QED
    BY <2>1, <2>2
<1>. QED
  BY <1>6, <1>7, <1>8, <1>9 DEF SessionsInv

\* A create that hits the cache.
LEMMA HitKeeps ==
  ASSUME SessionsInv, NEW u \in Uri, Sessions!CreateHit(u)
  PROVE  SessionsInv'
<1> DEFINE p == Sessions!Place(u)
           n == Len(sessionCache)
<1>1. SessionTypes /\ Sessions!IsCached(u) /\ sessionCache' = Sessions!AfterGet(u)
  BY DEF SessionsInv, Sessions!CreateHit
<1>2. /\ p \in 1..n /\ sessionCache' \in Seq(Session)
      /\ IF sessionCache[p].expired
         THEN /\ Len(sessionCache') = n - 1
              /\ \A k \in 1..Len(sessionCache') :
                   sessionCache'[k] = IF k < p THEN sessionCache[k] ELSE sessionCache[k + 1]
         ELSE /\ Len(sessionCache') = n
              /\ \A k \in 1..Len(sessionCache') :
                   sessionCache'[k] = sessionCache[IF k = 1 THEN p ELSE IF k <= p THEN k - 1 ELSE k]
  BY <1>1, AfterGetIs
<1>3. n \in Nat
  BY <1>1 DEF SessionTypes
<1>6. p \in 1..n /\ \A i \in 1..n : i # p => i < p \/ i > p
  BY <1>2, <1>3
<1>7. sessionCache' \in Seq(Session)
  BY <1>2
<1>4. CASE sessionCache[p].expired
  <2> DEFINE from == [k \in 1..(n - 1) |-> IF k < p THEN k ELSE k + 1]
  <2>1. Len(sessionCache') = n - 1
    BY <1>2, <1>4
  <2> HIDE DEF n
  <2>2. \A k \in 1..(n - 1) : from[k] \in 1..n /\ sessionCache'[k] = sessionCache[from[k]]
    BY <1>2, <1>3, <1>4, <2>1
  <2>3. \A k, m \in 1..(n - 1) : from[k] = from[m] => k = m
    BY <1>2, <1>3
  <2>4. ASSUME NEW i \in 1..n, i # p
        PROVE  \E k \in 1..(n - 1) : from[k] = i /\ \A j \in 1..(k - 1) : from[j] < i \/ from[j] = p
    <3>1. CASE i < p
      <4>1. i \in 1..(n - 1) /\ from[i] = i /\ \A j \in 1..(i - 1) : from[j] < i
        BY <1>2, <1>3, <3>1
      <4>. QED
        BY <4>1
    <3>2. CASE i > p
      <4>1. i - 1 \in 1..(n - 1) /\ from[i - 1] = i /\ \A j \in 1..((i - 1) - 1) : from[j] < i
        BY <1>2, <1>3, <3>2
      <4>. QED
        BY <4>1
    <3>. QED
      BY <1>6, <2>4, <3>1, <3>2
  <2>5. Len(sessionCache') <= n
    BY <1>3, <2>1
  <2> HIDE DEF from
  <2>6. \A k \in 1..Len(sessionCache') :
          from[k] \in 1..Len(sessionCache) /\ sessionCache'[k] = sessionCache[from[k]]
    BY <2>1, <2>2 DEF n
  <2>7. \A k, m \in 1..Len(sessionCache') : from[k] = from[m] => k = m
    BY <2>1, <2>3
  <2>8. \A i \in 1..Len(sessionCache) : i # Sessions!Place(u) =>
          \E k \in 1..Len(sessionCache') :
            /\ from[k] = i
            /\ \A j \in 1..(k - 1) : from[j] < i \/ from[j] = Sessions!Place(u)
    BY <2>1, <2>4 DEF n
  <2>9. Len(sessionCache') <= Len(sessionCache)
    BY <2>5 DEF n
  <2>. QED
    <3>1. Rearranges(from, u)
      BY <1>4, <2>6, <2>7, <2>8, <2>9 DEF Rearranges
    <3>. QED
      BY <1>1, <1>7, <3>1, Rearranged
<1>5. CASE ~sessionCache[p].expired
  <2> DEFINE from == [k \in 1..n |-> IF k = 1 THEN p ELSE IF k <= p THEN k - 1 ELSE k]
  <2>1. Len(sessionCache') = n
    BY <1>2, <1>5
  <2> HIDE DEF n
  <2>2. \A k \in 1..n : from[k] \in 1..n /\ sessionCache'[k] = sessionCache[from[k]]
    BY <1>2, <1>3, <1>5, <2>1
  <2>3. \A k, m \in 1..n : from[k] = from[m] => k = m
    BY <1>2, <1>3
  <2>4. ASSUME NEW i \in 1..n, i # p
        PROVE  \E k \in 1..n : from[k] = i /\ \A j \in 1..(k - 1) : from[j] < i \/ from[j] = p
    <3>1. CASE i < p
      <4>1. /\ i + 1 \in 1..n /\ from[i + 1] = i
            /\ \A j \in 1..((i + 1) - 1) : from[j] < i \/ from[j] = p
        BY <1>2, <1>3, <3>1
      <4>. QED
        BY <4>1
    <3>2. CASE i > p
      <4>1. from[i] = i /\ \A j \in 1..(i - 1) : from[j] < i \/ from[j] = p
        BY <1>2, <1>3, <3>2
      <4>. QED
        BY <4>1
    <3>. QED
      BY <1>6, <2>4, <3>1, <3>2
  <2>5. Len(sessionCache') <= n /\ 1 \in 1..n /\ from[1] = p
    BY <1>2, <1>3, <2>1
  <2> HIDE DEF from
  <2>6. \A k \in 1..Len(sessionCache') :
          from[k] \in 1..Len(sessionCache) /\ sessionCache'[k] = sessionCache[from[k]]
    BY <2>1, <2>2 DEF n
  <2>7. \A k, m \in 1..Len(sessionCache') : from[k] = from[m] => k = m
    BY <2>1, <2>3
  <2>8. \A i \in 1..Len(sessionCache) : i # Sessions!Place(u) =>
          \E k \in 1..Len(sessionCache') :
            /\ from[k] = i
            /\ \A j \in 1..(k - 1) : from[j] < i \/ from[j] = Sessions!Place(u)
    BY <2>1, <2>4 DEF n
  <2>9. Len(sessionCache') <= Len(sessionCache) /\ 1 \in 1..Len(sessionCache')
          /\ from[1] = Sessions!Place(u)
    BY <2>1, <2>5 DEF n
  <2>10. sessionCache[Sessions!Place(u)].expired
           \/ (1 \in 1..Len(sessionCache') /\ from[1] = Sessions!Place(u))
    BY <2>9
  <2>11. Sessions!IsCached(u)
    BY <1>1
  <2>12. Len(sessionCache') <= Len(sessionCache)
    BY <2>9
  <2>. QED
    <3>1. Rearranges(from, u)
      BY <2>6, <2>7, <2>8, <2>10, <2>12 DEF Rearranges
    <3>. QED
      BY <1>7, <2>11, <3>1, Rearranged
<1>. QED
  BY <1>4, <1>5

\* The cache after a new session: it comes first, and the last one may go.
LEMMA AfterSetIs ==
  ASSUME SessionTypes, NEW u \in Uri, NEW s \in Nat
  PROVE  LET new == Sessions!AfterSet(u, s)
             n == Len(sessionCache)
         IN /\ new \in Seq(Session)
            /\ Len(new) = IF n + 1 > MaxCached THEN MaxCached ELSE n + 1
            /\ 1 \in 1..Len(new) => new[1] = [vault |-> u, store |-> s, expired |-> FALSE]
            /\ \A k \in 2..Len(new) : new[k] = sessionCache[k - 1]
<1> DEFINE e == [vault |-> u, store |-> s, expired |-> FALSE]
           all == <<e>> \o sessionCache
           m == IF Len(all) > MaxCached THEN MaxCached ELSE Len(all)
<1>1. Sessions!AfterSet(u, s) = SubSeq(all, 1, m)
  BY DEF Sessions!AfterSet
<1>2. e \in Session /\ sessionCache \in Seq(Session) /\ Len(sessionCache) \in Nat
  BY DEF Session, SessionTypes
<1> HIDE DEF e
<1>3. /\ all \in Seq(Session) /\ Len(all) = Len(sessionCache) + 1 /\ all[1] = e
      /\ \A k \in 2..(Len(sessionCache) + 1) : all[k] = sessionCache[k - 1]
  BY <1>2, Fronted
<1> HIDE DEF all
<1>4. m \in 0..Len(all)
  BY <1>2, <1>3, SessionsAssumption
<1>5. SubSeq(all, 1, m) \in Seq(Session) /\ Len(SubSeq(all, 1, m)) = m
        /\ \A k \in 1..m : SubSeq(all, 1, m)[k] = all[k]
  BY <1>3, <1>4
<1>. QED
  BY <1>1, <1>2, <1>3, <1>4, <1>5 DEF e

\* The vaults of the sessions before the last one are that many.
LEMMA VaultsBefore ==
  ASSUME SessionTypes, CacheFits, NEW i \in 1..Len(sessionCache), NEW S, IsFiniteSet(S),
         \A j \in 1..(i - 1) : sessionCache[j].vault \in S
  PROVE  i - 1 <= Cardinality(S)
<1> DEFINE f == [j \in 1..(i - 1) |-> sessionCache[j].vault]
<1>1. i \in Nat /\ Len(sessionCache) \in Nat
  BY DEF SessionTypes
<1>2. f \in Injection(1..(i - 1), S)
  <2>1. f \in [1..(i - 1) -> S]
    OBVIOUS
  <2>2. ASSUME NEW j \in 1..(i - 1), NEW k \in 1..(i - 1), f[j] = f[k] PROVE j = k
    <3>1. j \in 1..Len(sessionCache) /\ k \in 1..Len(sessionCache)
      BY <1>1
    <3>2. sessionCache[j].vault = sessionCache[k].vault
      BY <2>2
    <3>. QED
      BY <3>1, <3>2 DEF CacheFits
  <2>. QED
    BY <2>1, <2>2 DEF Injection, IsInjective
<1>3. Cardinality(1..(i - 1)) <= Cardinality(S)
  BY <1>2, FS_Injection
<1>4. Cardinality(1..(i - 1)) = i - 1
  BY <1>1, FS_Interval
<1>. QED
  BY <1>3, <1>4

\* A create that misses it.
LEMMA MissKeeps ==
  ASSUME SessionsInv, NEW u \in Uri, NEW credential \in Credential,
         Sessions!CreateMissed(u, credential)
  PROVE  SessionsInv'
<1> DEFINE s == Len(made) + 1
           n == Len(sessionCache)
           m == Len(sessionCache')
<1>1. SessionTypes /\ CacheFits /\ n \in Nat /\ Len(made) \in Nat /\ s \in Nat
  BY DEF SessionsInv, SessionTypes
<1>2. /\ ~Sessions!IsCached(u) /\ Sessions!HandOut(u, s)
      /\ made' = Append(made, [vault |-> u, credential |-> credential])
      /\ sessionCache' = Sessions!AfterSet(u, s)
      /\ over' = IF results[u] # << >> /\ Sessions!Cardinality(others[u]) >= MaxCached
                 THEN over \cup {Latest(results, u)} ELSE over
  BY DEF Sessions!CreateMissed, Sessions!Last, Latest
<1>3. \A i \in 1..n : sessionCache[i].vault # u
  BY <1>1, <1>2, PlaceOf
<1>4. /\ made' \in Seq([vault : Uri, credential : Credential]) /\ Len(made') = s
      /\ \A i \in 1..Len(made) : made'[i] = made[i]
      /\ made'[s].vault = u
  BY <1>1, <1>2 DEF SessionTypes
<1>5. /\ sessionCache' \in Seq(Session) /\ m = IF n + 1 > MaxCached THEN MaxCached ELSE n + 1
      /\ 1 \in 1..m => sessionCache'[1] = [vault |-> u, store |-> s, expired |-> FALSE]
      /\ \A k \in 2..m : sessionCache'[k] = sessionCache[k - 1]
  BY <1>1, <1>2, AfterSetIs
<1>6. over \subseteq over'
  BY <1>2
<1>7. results[u] # << >> => Latest(results, u) = s \/ Latest(results, u) \in over'
  <2> SUFFICES ASSUME results[u] # << >>, Latest(results, u) \notin over
               PROVE  Latest(results, u) \in over'
    BY <1>6
  <2>1. StillThere(u) /\ ~Cached(u)
    BY <1>3 DEF SessionsInv, Cached
  <2>2. Cardinality(others[u]) >= MaxCached
    BY <2>1 DEF StillThere
  <2>. QED
    BY <1>2, <2>2, SameCount
<1>8. /\ \A v \in Uri : HandedOut(v)'
      /\ results'[u] # << >> /\ Latest(results', u) = s
      /\ \A v \in Uri : v # u => results'[v] = results[v] /\ Latest(results', v) = Latest(results, v)
  <2>1. s \in 1..Len(made') /\ Len(made) <= Len(made') /\ Len(made') \in Nat
    BY <1>1, <1>4
  <2>2. made'[s].vault = u /\ \A i \in 1..Len(made) : made'[i] = made[i]
    BY <1>4
  <2> HIDE DEF s
  <2>. QED
    BY <1>1, <1>2, <1>6, <1>7, <2>1, <2>2, HandOutKeeps
<1> HIDE DEF s
<1>9. SessionTypes'
  <2>1. /\ results' \in [Uri -> Seq(Nat)]
        /\ others' \in [Uri -> SUBSET Uri] /\ \A v \in Uri : IsFiniteSet(others'[v])
    BY <1>1, <1>2, HandOutGives
  <2>2. Len(sessionCache') <= MaxCached
    BY <1>1, <1>5, SessionsAssumption
  <2>. QED
    BY <1>4, <1>5, <2>1, <2>2 DEF SessionTypes
<1>10. m \in Nat
  BY <1>1, <1>5, SessionsAssumption
<1>11. \A k \in 1..m : k = 1 \/ (k \in 2..m /\ k - 1 \in 1..n)
  BY <1>1, <1>5, <1>10, SessionsAssumption
<1> HIDE DEF m, n
<1>12. CacheFits'
  <2> SUFFICES ASSUME NEW k \in 1..m
               PROVE  LET f == sessionCache'[k] IN
                      /\ \A i \in 1..m : sessionCache'[i].vault = f.vault => i = k
                      /\ results'[f.vault] # << >> /\ Latest(results', f.vault) = f.store
                      /\ f.expired => f.store \in over'
    BY DEF CacheFits, Latest, m
  <2> DEFINE f == sessionCache'[k]
  <2>1. CASE k = 1
    <3>1. f.vault = u /\ f.store = s /\ ~f.expired
      BY <1>5, <2>1
    <3>2. ASSUME NEW i \in 1..m, sessionCache'[i].vault = u PROVE i = 1
      BY <1>3, <1>5, <1>11, <3>2
    <3>. QED
      BY <1>8, <2>1, <3>1, <3>2
  <2>2. CASE k # 1
    <3>1. k - 1 \in 1..n /\ f = sessionCache[k - 1]
      BY <1>5, <1>11, <2>2
    <3>2. f.vault # u /\ f.vault \in Uri
      <4>1. sessionCache[k - 1] \in Session
        BY <1>1, <3>1 DEF SessionTypes, n
      <4>. QED
        BY <1>3, <3>1, <4>1 DEF Session
    <3>3. ASSUME NEW i \in 1..m, sessionCache'[i].vault = f.vault PROVE i = k
      <4>1. i # 1
        BY <1>5, <3>2, <3>3
      <4>2. i - 1 \in 1..n /\ sessionCache'[i] = sessionCache[i - 1]
        BY <1>5, <1>11, <4>1
      <4>3. i - 1 = k - 1
        BY <1>1, <3>1, <3>3, <4>2 DEF CacheFits, n
      <4>. QED
        BY <1>10, <4>3
    <3>4. results[f.vault] # << >> /\ Latest(results, f.vault) = f.store
            /\ (f.expired => f.store \in over)
      BY <1>1, <3>1 DEF CacheFits, n
    <3>. QED
      BY <1>6, <1>8, <3>2, <3>3, <3>4
  <2>. QED
    BY <2>1, <2>2
<1>13. ASSUME NEW v \in Uri PROVE StillThere(v)'
  <2> SUFFICES ASSUME results'[v] # << >>, Latest(results', v) \notin over'
               PROVE  Cached(v)' \/ Cardinality(others'[v]) >= MaxCached
    BY DEF StillThere, Latest
  <2>1. CASE v = u
    <3>1. CASE MaxCached = 0
      <4>1. others'[u] = {}
        BY <1>1, <1>2, HandOutGives
      <4>. QED
        BY <2>1, <3>1, <4>1, FS_EmptySet
    <3>2. CASE MaxCached # 0
      <4>1. 1 \in 1..m
        BY <1>1, <1>5, <1>10, <3>2, SessionsAssumption
      <4>2. Cached(u)'
        BY <1>5, <4>1 DEF Cached, m
      <4>. QED
        BY <2>1, <4>2
    <3>. QED
      BY <3>1, <3>2
  <2>2. CASE v # u
    <3>1. Cached(v) \/ Cardinality(others[v]) >= MaxCached
      BY <1>6, <1>8, <2>2 DEF SessionsInv, StillThere
    <3>2. /\ others[v] \subseteq others'[v] /\ u \in others'[v]
          /\ Cardinality(others[v]) \in Nat /\ Cardinality(others'[v]) \in Nat
          /\ Cardinality(others[v]) <= Cardinality(others'[v])
      BY <1>1, <1>2, <2>2, OthersGrow
    <3>3. CASE Cardinality(others[v]) >= MaxCached
      BY <3>2, <3>3, SessionsAssumption
    <3>4. CASE Cached(v)
      <4>1. PICK i \in 1..n :
              /\ sessionCache[i].vault = v
              /\ \A j \in 1..(i - 1) : sessionCache[j].vault \in others[v]
        BY <3>4 DEF Cached, n
      <4>2. CASE i + 1 \in 1..m
        <5>1. sessionCache'[i + 1] = sessionCache[i]
          <6>1. i + 1 \in 2..m /\ (i + 1) - 1 = i
            BY <4>2
          <6>. QED
            BY <1>5, <6>1
        <5>2. ASSUME NEW j \in 1..((i + 1) - 1) PROVE sessionCache'[j].vault \in others'[v]
          <6>1. CASE j = 1
            <7>1. 1 \in 1..m
              BY <1>10, <4>2
            <7>. QED
              BY <1>5, <3>2, <6>1, <7>1
          <6>2. CASE j # 1
            <7>1. j \in 2..m /\ j - 1 \in 1..(i - 1)
              BY <1>10, <4>2, <6>2
            <7>. QED
              BY <1>5, <3>2, <4>1, <7>1
          <6>. QED
            BY <6>1, <6>2
        <5>3. Cached(v)'
          BY <4>1, <4>2, <5>1, <5>2 DEF Cached, m
        <5>. QED
          BY <5>3
      <4>3. CASE i + 1 \notin 1..m
        <5>1. i = MaxCached
          BY <1>1, <1>5, <4>3, SessionsAssumption DEF SessionTypes, n
        <5> DEFINE S == others'[v] \ {u}
        <5>2. IsFiniteSet(others'[v])
          BY <1>9 DEF SessionTypes
        <5>3. IsFiniteSet(S) /\ Cardinality(S) = Cardinality(others'[v]) - 1
          BY <3>2, <5>2, FS_RemoveElement
        <5>4. \A j \in 1..(i - 1) : sessionCache[j].vault \in S
          <6> SUFFICES ASSUME NEW j \in 1..(i - 1) PROVE sessionCache[j].vault \in S
            OBVIOUS
          <6>1. j \in 1..n
            BY <1>1 DEF n
          <6>. QED
            BY <1>3, <3>2, <4>1, <6>1
        <5>5. i - 1 <= Cardinality(S)
          BY <1>1, <5>3, <5>4, VaultsBefore DEF n
        <5>. QED
          BY <3>2, <5>1, <5>3, <5>5, SessionsAssumption
      <4>. QED
        BY <4>2, <4>3
    <3>. QED
      BY <3>1, <3>3, <3>4
  <2>. QED
    BY <2>1, <2>2
<1>. QED
  BY <1>8, <1>9, <1>12, <1>13 DEF SessionsInv

\* A day that passes.
LEMMA ExpireKeeps ==
  ASSUME SessionsInv, NEW i \in 1..Len(sessionCache), Sessions!Expire(i)
  PROVE  SessionsInv'
<1> DEFINE n == Len(sessionCache)
<1>1. SessionTypes /\ CacheFits /\ sessionCache \in Seq(Session)
  BY DEF SessionsInv, SessionTypes
<1>2. /\ sessionCache' = [sessionCache EXCEPT ![i].expired = TRUE]
      /\ over' = over \cup {sessionCache[i].store} /\ UNCHANGED <<made, results, others>>
  BY DEF Sessions!Expire
<1>3. sessionCache[i] \in Session /\ [sessionCache[i] EXCEPT !.expired = TRUE] \in Session
  <2>1. sessionCache[i] \in Session
    BY <1>1
  <2>. QED
    BY <2>1 DEF Session
<1>4. /\ sessionCache' \in Seq(Session) /\ Len(sessionCache') = n
      /\ \A k \in 1..n : sessionCache'[k] =
           IF k = i THEN [sessionCache[i] EXCEPT !.expired = TRUE] ELSE sessionCache[k]
  BY <1>1, <1>2, <1>3, ExceptSeq
<1>5. \A k \in 1..n : /\ sessionCache'[k].vault = sessionCache[k].vault
                      /\ sessionCache'[k].store = sessionCache[k].store
                      /\ sessionCache'[k].expired = (k = i \/ sessionCache[k].expired)
  <2> SUFFICES ASSUME NEW k \in 1..n
               PROVE  /\ sessionCache'[k].vault = sessionCache[k].vault
                      /\ sessionCache'[k].store = sessionCache[k].store
                      /\ sessionCache'[k].expired = (k = i \/ sessionCache[k].expired)
    OBVIOUS
  <2>1. CASE k = i
    BY <1>3, <1>4, <2>1 DEF Session
  <2>2. CASE k # i
    <3>1. sessionCache[k] \in Session
      BY <1>1
    <3>2. sessionCache[k].expired \in BOOLEAN
      BY <3>1 DEF Session
    <3>. QED
      BY <1>4, <2>2, <3>2
  <2>. QED
    BY <2>1, <2>2
<1>6. SessionTypes'
  BY <1>1, <1>2, <1>4 DEF SessionTypes
<1>7. CacheFits'
  BY <1>1, <1>2, <1>4, <1>5 DEF CacheFits, Latest
<1>8. ASSUME NEW v \in Uri PROVE HandedOut(v)' /\ StillThere(v)'
  <2>1. HandedOut(v) /\ StillThere(v)
    BY DEF SessionsInv
  <2>2. Cached(v) => Cached(v)'
    <3> SUFFICES ASSUME Cached(v) PROVE Cached(v)'
      OBVIOUS
    <3>1. PICK k \in 1..n : /\ sessionCache[k].vault = v
                            /\ \A j \in 1..(k - 1) : sessionCache[j].vault \in others[v]
      BY DEF Cached
    <3>2. \A j \in 1..(k - 1) : sessionCache'[j].vault \in others'[v]
      <4> SUFFICES ASSUME NEW j \in 1..(k - 1) PROVE sessionCache'[j].vault \in others'[v]
        OBVIOUS
      <4>1. j \in 1..n
        BY <1>1
      <4>. QED
        BY <1>2, <1>5, <3>1, <4>1
    <3>. QED
      BY <1>4, <1>5, <3>1, <3>2 DEF Cached
  <2>. QED
    BY <1>2, <2>1, <2>2 DEF HandedOut, StillThere, Latest
<1>. QED
  BY <1>6, <1>7, <1>8 DEF SessionsInv

\* The invariant.
LEMMA SessionsInvHolds == Sessions!Spec => []SessionsInv
<1>1. Sessions!Init => SessionsInv
  <2> SUFFICES ASSUME Sessions!Init PROVE SessionsInv
    OBVIOUS
  <2>1. /\ sessionCache = << >> /\ made = << >> /\ results = [u \in Uri |-> << >>]
        /\ others = [u \in Uri |-> {}]
    BY DEF Sessions!Init
  <2>2. SessionTypes
    BY <2>1, FS_EmptySet, SessionsAssumption DEF SessionTypes
  <2>. QED
    BY <2>1, <2>2 DEF SessionsInv, CacheFits, HandedOut, StillThere
<1>2. SessionsInv /\ [Sessions!Next]_Sessions!vars => SessionsInv'
  <2> SUFFICES ASSUME SessionsInv, [Sessions!Next]_Sessions!vars PROVE SessionsInv'
    OBVIOUS
  <2>1. CASE UNCHANGED Sessions!vars
    BY <2>1 DEF Sessions!vars, SessionsInv, SessionTypes, CacheFits, HandedOut, StillThere,
       Cached, Latest
  <2>2. CASE Sessions!Next
    <3>1. ASSUME NEW u \in Uri, Sessions!CreateHit(u) PROVE SessionsInv'
      BY <3>1, HitKeeps
    <3>2. ASSUME NEW u \in Uri, NEW credential \in Credential, Sessions!CreateMissed(u, credential)
          PROVE  SessionsInv'
      BY <3>2, MissKeeps
    <3>3. ASSUME NEW i \in DOMAIN sessionCache, Sessions!Expire(i) PROVE SessionsInv'
      <4>1. i \in 1..Len(sessionCache)
        BY DEF SessionsInv, SessionTypes
      <4>. QED
        BY <3>3, <4>1, ExpireKeeps
    <3>. QED
      BY <2>2, <3>1, <3>2, <3>3 DEF Sessions!Next
  <2>. QED
    BY <2>1, <2>2
<1>. QED
  BY <1>1, <1>2, PTL DEF Sessions!Spec

\* The sessions of a vault have one key store, until its time is up or as many other
\* vaults as the cache holds were asked for.
THEOREM VaultsHaveOneStore == PluginsSpec => []OneStorePerVault
<1>1. SessionsInv => OneStorePerVault
  <2> SUFFICES ASSUME SessionsInv, NEW u \in Uri, NEW i \in DOMAIN results[u],
                      NEW j \in DOMAIN results[u]
               PROVE  /\ made[results[u][i]].vault = u
                      /\ i < j /\ results[u][i] # results[u][j] => results[u][i] \in over
    BY DEF OneStorePerVault, Sessions!OneStorePerVault
  <2>1. results[u] \in Seq(Nat) /\ HandedOut(u)
    BY DEF SessionsInv, SessionTypes
  <2>2. i \in 1..Len(results[u]) /\ j \in 1..Len(results[u]) /\ Len(results[u]) \in Nat
    BY <2>1
  <2>3. made[results[u][i]].vault = u
    BY <2>1, <2>2 DEF HandedOut
  <2>4. Len(results[u]) <= 2
    BY <2>1 DEF HandedOut
  <2>5. i < j => i = 1 /\ j = 2 /\ Len(results[u]) = 2
    <3>1. \A l \in Nat : l <= 2 => \A a, b \in 1..l : a < b => a = 1 /\ b = 2 /\ l = 2
      OBVIOUS
    <3>. QED
      BY <2>2, <2>4, <3>1
  <2>. QED
    BY <2>1, <2>3, <2>5 DEF HandedOut
<1>. QED
  BY <1>1, SessionsRun, SessionsInvHolds, PTL
-----------------------------------------------------------------------------
(* LongFormDid. *)

\* A behaviour of the composition is one of the component.
LEMMA DidRuns == PluginsSpec => Did!Spec
<1>1. PluginsInit => Did!Init
  BY DEF PluginsInit
<1>2. [PluginsNext]_pluginsVars => [Did!Next]_Did!vars
  BY DEF PluginsNext, pluginsVars, didVars, Did!vars
<1>. QED
  BY <1>1, <1>2, PTL DEF PluginsSpec, Did!Spec

\* A saved key has the number of its place and what its container is for.
DidKey == [id : Nat, usage : 1..3, alg : DidAlgorithm, private : BOOLEAN,
           kty : {"EC", "OKP"}, use : {"sig"}]
Numbered(u, a, container) ==
  \A i \in 1..Len(container) :
    container[i].id = i /\ container[i].usage = u /\ container[i].alg = a
StoreFits ==
  /\ algorithms \in [1..3 -> DidAlgorithm]
  /\ store \in [1..3 -> [DidAlgorithm -> Seq(DidKey)]]
  /\ \A u \in 1..3, a \in DidAlgorithm : Numbered(u, a, store[u][a])

\* What a call has read: public keys that were the newest of their algorithm since it
\* began, and are of the right one while the algorithms stayed.
ReadFits(r) ==
  /\ r.pc \in {"idle", "reading", "serialized"}
  /\ r.pc # "idle" =>
       /\ r \in [pc : {"reading", "serialized"}, keys : Seq(DidKey), stable : BOOLEAN,
                 from : [1..3 -> [DidAlgorithm -> Nat]]]
       /\ Len(r.keys) <= 3
       /\ r.pc = "serialized" => Len(r.keys) = 3
       /\ \A u \in 1..Len(r.keys) :
            /\ r.keys[u].usage = u /\ ~r.keys[u].private
            /\ r.keys[u].id >= r.from[u][r.keys[u].alg]
            /\ r.stable => r.keys[u].alg = "ES256K"
       /\ r.pc = "reading" /\ r.stable => \A u \in 1..3 : algorithms[u] = "ES256K"
       /\ \A u \in 1..3, a \in DidAlgorithm : r.from[u][a] <= Len(store[u][a])

DidInv ==
  /\ StoreFits
  /\ didCall = [c \in DidCaller |-> didCall[c]]
  /\ \A c \in DidCaller : ReadFits(didCall[c])

\* The usages are numbered.
LEMMA Usages == DOMAIN Did!Usage = 1..3 /\ Len(Did!Usage) = 3
  BY DEF Did!Usage

\* A step of one call.
LEMMA DidCallStep ==
  ASSUME DidInv, NEW c \in DidCaller, NEW r, didCall' = [didCall EXCEPT ![c] = r],
         UNCHANGED <<algorithms, store>>, ReadFits(r)
  PROVE  DidInv'
<1>1. /\ didCall' = [d \in DidCaller |-> didCall'[d]]
      /\ \A d \in DidCaller : didCall'[d] = IF d = c THEN r ELSE didCall[d]
  BY DEF DidInv
<1>2. \A s : ReadFits(s) => ReadFits(s)'
  BY DEF ReadFits
<1>. QED
  BY <1>1, <1>2 DEF DidInv, StoreFits

\* A key is saved after the others of its container.
LEMMA DidSave ==
  ASSUME DidInv, NEW u \in 1..3, NEW a \in DidAlgorithm, Did!Save(u, a)
  PROVE  DidInv'
<1> DEFINE key == [id |-> Len(store[u][a]) + 1, usage |-> u, alg |-> a, private |-> TRUE,
                   kty |-> IF a = "ES256K" THEN "EC" ELSE "OKP", use |-> "sig"]
<1>1. store' = [store EXCEPT ![u][a] = Append(@, key)] /\ UNCHANGED <<algorithms, didCall>>
  BY DEF Did!Save
<1>2. /\ store \in [1..3 -> [DidAlgorithm -> Seq(DidKey)]]
      /\ \A v \in 1..3, b \in DidAlgorithm : store[v][b] \in Seq(DidKey)
  BY DEF DidInv, StoreFits
<1>3. key \in DidKey /\ key.id = Len(store[u][a]) + 1 /\ key.usage = u /\ key.alg = a
  BY <1>2 DEF DidKey
<1> HIDE DEF key
<1>4. /\ store' \in [1..3 -> [DidAlgorithm -> Seq(DidKey)]]
      /\ store'[u][a] = Append(store[u][a], key)
      /\ \A v \in 1..3, b \in DidAlgorithm : v # u \/ b # a => store'[v][b] = store[v][b]
  BY <1>1, <1>2, <1>3
<1>5. StoreFits'
  <2>1. \A v \in 1..3, b \in DidAlgorithm : Numbered(v, b, store[v][b])
    BY DEF DidInv, StoreFits
  <2>2. Numbered(u, a, store'[u][a])
    <3> DEFINE old == store[u][a]
    <3>1. old \in Seq(DidKey) /\ Numbered(u, a, old)
      BY <1>2, <2>1
    <3>2. store'[u][a] = Append(old, key)
      BY <1>4
    <3>3. key.id = Len(old) + 1 /\ key.usage = u /\ key.alg = a
      BY <1>3
    <3> HIDE DEF old
    <3>4. Numbered(u, a, Append(old, key))
      BY <1>3, <3>1, <3>3 DEF Numbered
    <3>. QED
      BY <3>2, <3>4
  <2>3. \A v \in 1..3, b \in DidAlgorithm : Numbered(v, b, store'[v][b])
    BY <1>4, <2>1, <2>2
  <2>. QED
    BY <1>1, <1>4, <2>3 DEF DidInv, StoreFits
<1>6. ASSUME NEW c \in DidCaller PROVE ReadFits(didCall[c])'
  <2>1. ReadFits(didCall[c]) /\ didCall'[c] = didCall[c]
    BY <1>1 DEF DidInv
  <2>2. ASSUME NEW v \in 1..3, NEW b \in DidAlgorithm
        PROVE  /\ Len(store[v][b]) \in Nat /\ Len(store'[v][b]) \in Nat
               /\ Len(store'[v][b]) >= Len(store[v][b])
    <3>1. store[v][b] \in Seq(DidKey)
      BY <1>2
    <3>2. store'[v][b] = store[v][b] \/ store'[v][b] = Append(store[v][b], key)
      BY <1>4
    <3>. QED
      BY <1>3, <3>1, <3>2
  <2>3. CASE didCall[c].pc = "idle"
    BY <2>1, <2>3 DEF ReadFits
  <2>4. CASE didCall[c].pc # "idle"
    <3>1. didCall[c].from \in [1..3 -> [DidAlgorithm -> Nat]]
      BY <2>1, <2>4 DEF ReadFits
    <3>2. \A v \in 1..3, b \in DidAlgorithm : didCall[c].from[v][b] \in Nat
      BY <3>1
    <3>3. \A v \in 1..3, b \in DidAlgorithm : didCall[c].from[v][b] <= Len(store[v][b])
      BY <2>1, <2>4 DEF ReadFits
    <3>4. ASSUME NEW v \in 1..3, NEW b \in DidAlgorithm
          PROVE  didCall[c].from[v][b] <= Len(store'[v][b])
      <4> DEFINE m == didCall[c].from[v][b]
                 n == Len(store[v][b])
                 later == Len(store'[v][b])
      <4>1. m \in Nat /\ m <= n
        BY <3>2, <3>3
      <4>2. n \in Nat /\ later \in Nat /\ later >= n
        BY <2>2
      <4> HIDE DEF m, n, later
      <4>3. m <= later
        BY <4>1, <4>2
      <4>. QED
        BY <4>3 DEF m, later
    <3>5. ASSUME NEW r, ReadFits(r),
                 \A v \in 1..3, b \in DidAlgorithm : r.from[v][b] <= Len(store'[v][b])
          PROVE  ReadFits(r)'
      BY <1>1, <3>5 DEF ReadFits
    <3>. QED
      BY <2>1, <3>4, <3>5
  <2>. QED
    BY <2>3, <2>4
<1>. QED
  BY <1>1, <1>5, <1>6 DEF DidInv

\* The running calls learn that an algorithm has changed.
LEMMA DidUseAlgorithm ==
  ASSUME DidInv, NEW u \in 1..3, NEW a \in DidAlgorithm, Did!UseAlgorithm(u, a)
  PROVE  DidInv'
<1>1. /\ algorithms' = [algorithms EXCEPT ![u] = a] /\ UNCHANGED store
      /\ didCall' = [c \in DidCaller |->
                       IF didCall[c].pc = "reading"
                       THEN [didCall[c] EXCEPT !.stable = FALSE] ELSE didCall[c]]
  BY DEF Did!UseAlgorithm
<1>2. StoreFits'
  <2>1. algorithms' \in [1..3 -> DidAlgorithm]
    BY <1>1 DEF DidInv, StoreFits
  <2>. QED
    BY <1>1, <2>1 DEF DidInv, StoreFits
<1>3. ASSUME NEW c \in DidCaller PROVE ReadFits(didCall[c])'
  <2>1. ReadFits(didCall[c])
    BY DEF DidInv
  <2>2. CASE didCall[c].pc = "reading"
    <3>1. didCall'[c] = [didCall[c] EXCEPT !.stable = FALSE]
      BY <1>1, <2>2
    <3>. QED
      BY <1>1, <2>1, <2>2, <3>1 DEF ReadFits
  <2>3. CASE didCall[c].pc # "reading"
    <3>1. didCall'[c] = didCall[c]
      BY <1>1, <2>3
    <3>. QED
      BY <1>1, <2>1, <2>3, <3>1 DEF ReadFits
  <2>. QED
    BY <2>2, <2>3
<1>. QED
  BY <1>1, <1>2, <1>3 DEF DidInv

\* A call begins when all algorithms are ES256K.
LEMMA DidStart ==
  ASSUME DidInv, NEW c \in DidCaller, Did!SerializeStart(c)
  PROVE  DidInv'
<1> DEFINE r == [pc |-> "reading", keys |-> << >>, stable |-> TRUE,
                 from |-> [u \in 1..3 |-> [a \in DidAlgorithm |-> Len(store[u][a])]]]
<1>1. /\ didCall' = [didCall EXCEPT ![c] = r] /\ UNCHANGED <<algorithms, store>>
      /\ \A u \in 1..3 : algorithms[u] = "ES256K"
  BY Usages DEF Did!SerializeStart, Did!Suspend
<1>2. \A u \in 1..3, a \in DidAlgorithm : Len(store[u][a]) \in Nat
  <2>1. \A u \in 1..3, a \in DidAlgorithm : store[u][a] \in Seq(DidKey)
    BY DEF DidInv, StoreFits
  <2>. QED
    BY <2>1
<1>3. ReadFits(r)
  BY <1>1, <1>2 DEF ReadFits
<1>. QED
  BY <1>1, <1>3, DidCallStep

\* The key that is read is the last of its container, without its private part.
LEMMA DidRead ==
  ASSUME DidInv, NEW c \in DidCaller, Did!KeyRead(c)
  PROVE  DidInv'
<1> DEFINE u == Len(didCall[c].keys) + 1
           container == store[u][algorithms[u]]
           key == Did!GetKey(Did!PublicKeysOnly(container))
           r == [didCall[c] EXCEPT !.keys = Append(@, key)]
<1>1. /\ didCall[c].pc = "reading" /\ u \in 1..3 /\ Did!HasPublicKeys(container)
      /\ didCall' = [didCall EXCEPT ![c] = r] /\ UNCHANGED <<algorithms, store>>
  BY Usages DEF Did!KeyRead, Did!Suspend
<1>2. /\ algorithms[u] \in DidAlgorithm /\ container \in Seq(DidKey)
      /\ Numbered(u, algorithms[u], container)
  <2>1. algorithms[u] \in DidAlgorithm
    BY <1>1 DEF DidInv, StoreFits
  <2>2. store[u][algorithms[u]] \in Seq(DidKey)
    BY <1>1, <2>1 DEF DidInv, StoreFits
  <2>. QED
    BY <1>1, <2>1, <2>2 DEF DidInv, StoreFits
<1>3. ReadFits(didCall[c])
  BY DEF DidInv
<1> HIDE DEF container
<1>4. container # << >>
  BY <1>1 DEF Did!HasPublicKeys, Did!NoContainer
<1>5. Len(container) \in 1..Len(container)
  BY <1>2, <1>4
<1>6. DOMAIN container = 1..Len(container) /\ Len(Did!PublicKeysOnly(container)) = Len(container)
  BY <1>2 DEF Did!PublicKeysOnly
<1>7. key = [container[Len(container)] EXCEPT !.private = FALSE]
  <2>1. key = Did!PublicOf(container[Len(container)])
    BY <1>5, <1>6 DEF Did!GetKey, Did!PublicKeysOnly
  <2>2. container[Len(container)] \in DidKey
    BY <1>2, <1>5
  <2>. QED
    BY <2>1, <2>2 DEF Did!PublicOf, Did!AsymmetricKty, DidKey
<1>8. /\ key \in DidKey /\ key.id = Len(container) /\ key.usage = u
      /\ key.alg = algorithms[u] /\ ~key.private
  <2>1. container[Len(container)] \in DidKey
    BY <1>2, <1>5
  <2>2. container[Len(container)].id = Len(container)
          /\ container[Len(container)].usage = u
          /\ container[Len(container)].alg = algorithms[u]
    BY <1>2, <1>5 DEF Numbered
  <2>. QED
    BY <1>7, <2>1, <2>2 DEF DidKey
<1>9. /\ key.id >= didCall[c].from[u][key.alg]
      /\ didCall[c].stable => key.alg = "ES256K"
  <2>1. didCall[c].stable => algorithms[u] = "ES256K"
    BY <1>1, <1>3 DEF ReadFits
  <2>2. /\ didCall[c].from[u][algorithms[u]] <= Len(container)
        /\ didCall[c].from[u][algorithms[u]] \in Nat
    BY <1>1, <1>2, <1>3 DEF ReadFits, container
  <2>3. Len(container) \in Nat
    BY <1>2
  <2>. QED
    BY <1>8, <2>1, <2>2, <2>3
<1> HIDE DEF key
<1>10. ReadFits(r)
  <2>1. /\ didCall[c].keys \in Seq(DidKey) /\ r.keys = Append(didCall[c].keys, key)
        /\ r.pc = "reading" /\ r.stable = didCall[c].stable /\ r.from = didCall[c].from
        /\ r \in [pc : {"reading", "serialized"}, keys : Seq(DidKey), stable : BOOLEAN,
                  from : [1..3 -> [DidAlgorithm -> Nat]]]
    <3>1. didCall[c] \in [pc : {"reading", "serialized"}, keys : Seq(DidKey),
                          stable : BOOLEAN, from : [1..3 -> [DidAlgorithm -> Nat]]]
      BY <1>1, <1>3 DEF ReadFits
    <3>2. Append(didCall[c].keys, key) \in Seq(DidKey)
      BY <1>8, <3>1
    <3>. QED
      BY <1>1, <3>1, <3>2
  <2> HIDE DEF r
  <2>2. Len(r.keys) <= 3
    BY <1>1, <1>8, <2>1
  <2>3. ASSUME NEW v \in 1..Len(r.keys)
        PROVE  /\ r.keys[v].usage = v /\ ~r.keys[v].private
               /\ r.keys[v].id >= r.from[v][r.keys[v].alg]
               /\ r.stable => r.keys[v].alg = "ES256K"
    <3>1. CASE v = u
      <4>1. r.keys[u] = key
        BY <1>8, <2>1
      <4>. QED
        BY <1>8, <1>9, <2>1, <3>1, <4>1
    <3>2. CASE v # u
      <4>1. v \in 1..Len(didCall[c].keys) /\ r.keys[v] = didCall[c].keys[v]
        BY <1>8, <2>1, <3>2
      <4>. QED
        BY <1>1, <1>3, <2>1, <4>1 DEF ReadFits
    <3>. QED
      BY <3>1, <3>2
  <2>. QED
    BY <1>1, <1>3, <2>1, <2>2, <2>3 DEF ReadFits
<1>. QED
  BY <1>1, <1>10, DidCallStep

\* A call that ends keeps what it has read, or nothing.
LEMMA DidEnd ==
  ASSUME DidInv, NEW c \in DidCaller, Did!Serialized(c) \/ Did!Rejected(c)
  PROVE  DidInv'
<1>1. ReadFits(didCall[c])
  BY DEF DidInv
<1>2. CASE Did!Serialized(c)
  <2> DEFINE r == [didCall[c] EXCEPT !.pc = "serialized"]
  <2>1. /\ didCall[c].pc = "reading" /\ Len(didCall[c].keys) = 3
        /\ didCall' = [didCall EXCEPT ![c] = r] /\ UNCHANGED <<algorithms, store>>
    BY <1>2, Usages DEF Did!Serialized, Did!Suspend
  <2>2. ReadFits(r)
    BY <1>1, <2>1 DEF ReadFits
  <2>. QED
    BY <2>1, <2>2, DidCallStep
<1>3. CASE Did!Rejected(c)
  <2>1. didCall' = [didCall EXCEPT ![c] = [pc |-> "idle"]] /\ UNCHANGED <<algorithms, store>>
    BY <1>3 DEF Did!Rejected, Did!Suspend, Did!Idle
  <2>2. ReadFits([pc |-> "idle"])
    BY DEF ReadFits
  <2>. QED
    BY <2>1, <2>2, DidCallStep
<1>. QED
  BY <1>2, <1>3

\* The invariant.
LEMMA DidInvHolds == Did!Spec => []DidInv
<1>1. Did!Init => DidInv
  <2> SUFFICES ASSUME Did!Init PROVE DidInv
    OBVIOUS
  <2>1. /\ algorithms = [u \in 1..3 |-> "ES256K"]
        /\ store = [u \in 1..3 |-> [a \in DidAlgorithm |-> << >>]]
        /\ didCall = [c \in DidCaller |-> [pc |-> "idle"]]
    BY Usages DEF Did!Init, Did!Idle, Did!NoContainer
  <2>2. StoreFits
    BY <2>1, DidAssumption DEF StoreFits, Numbered
  <2>. QED
    BY <2>1, <2>2 DEF DidInv, ReadFits
<1>2. DidInv /\ [Did!Next]_Did!vars => DidInv'
  <2> SUFFICES ASSUME DidInv, [Did!Next]_Did!vars PROVE DidInv'
    OBVIOUS
  <2>1. CASE UNCHANGED Did!vars
    BY <2>1 DEF Did!vars, DidInv, StoreFits, ReadFits
  <2>2. CASE Did!Next
    <3>1. ASSUME NEW u \in 1..3, NEW a \in DidAlgorithm, Did!Save(u, a) \/ Did!UseAlgorithm(u, a)
          PROVE  DidInv'
      BY <3>1, DidSave, DidUseAlgorithm
    <3>2. ASSUME NEW c \in DidCaller,
                 Did!SerializeStart(c) \/ Did!KeyRead(c) \/ Did!Serialized(c) \/ Did!Rejected(c)
          PROVE  DidInv'
      BY <3>2, DidStart, DidRead, DidEnd
    <3>. QED
      BY <2>2, <3>1, <3>2, Usages DEF Did!Next
  <2>. QED
    BY <2>1, <2>2
<1>. QED
  BY <1>1, <1>2, PTL DEF Did!Spec

\* A long-form DID has a public key of each usage that was the newest of its algorithm
\* at some moment of the call, of the right curve if the algorithms stayed.
THEOREM DidKeysAreCurrent == PluginsSpec => []DidHasCurrentKeys
<1>1. DidInv => DidHasCurrentKeys
  <2> SUFFICES ASSUME DidInv, NEW c \in DidCaller, didCall[c].pc = "serialized",
                      NEW u \in 1..3
               PROVE  LET key == didCall[c].keys[u] IN
                      /\ key.usage = u /\ ~key.private
                      /\ key.id >= didCall[c].from[u][key.alg]
                      /\ didCall[c].stable => key.alg = "ES256K"
    BY Usages DEF DidHasCurrentKeys, Did!DidHasCurrentKeys
  <2>1. ReadFits(didCall[c])
    BY DEF DidInv
  <2>. QED
    BY <2>1 DEF ReadFits
<1>. QED
  BY <1>1, DidRuns, DidInvHolds, PTL
-----------------------------------------------------------------------------
(* The elliptic signatures of DerSignatures. *)

\* The bytes of two sequences, one after the other.
LEMMA Joined ==
  ASSUME NEW a \in Seq(Nat), NEW b \in Seq(Nat)
  PROVE  /\ a \o b \in Seq(Nat) /\ Len(a \o b) = Len(a) + Len(b)
         /\ \A k \in 1..Len(a) : (a \o b)[k] = a[k]
         /\ \A k \in 1..Len(b) : (a \o b)[Len(a) + k] = b[k]
<1>1. Len(a) \in Nat /\ Len(b) \in Nat
  OBVIOUS
<1>2. /\ a \o b \in Seq(Nat) /\ Len(a \o b) = Len(a) + Len(b)
      /\ \A i \in 1..(Len(a) + Len(b)) :
           (a \o b)[i] = IF i <= Len(a) THEN a[i] ELSE b[i - Len(a)]
  BY ConcatProperties
<1>3. ASSUME NEW k \in 1..Len(a) PROVE (a \o b)[k] = a[k]
  <2>1. k \in 1..(Len(a) + Len(b)) /\ k <= Len(a)
    BY <1>1
  <2>. QED
    BY <1>2, <2>1
<1>4. ASSUME NEW k \in 1..Len(b) PROVE (a \o b)[Len(a) + k] = b[k]
  <2>1. /\ Len(a) + k \in 1..(Len(a) + Len(b)) /\ ~(Len(a) + k <= Len(a))
        /\ (Len(a) + k) - Len(a) = k
    BY <1>1
  <2>. QED
    BY <1>2, <2>1
<1>. QED
  BY <1>2, <1>3, <1>4

\* What Stripped leaves out are the zeros before the first other byte.
LEMMA StrippedIs ==
  ASSUME NEW b \in Seq(Nat)
  PROVE  \/ (\A i \in 1..Len(b) : b[i] = 0) /\ Der!Stripped(b) = << >>
         \/ \E m \in 1..Len(b) : /\ b[m] # 0
                                 /\ \A i \in 1..(m - 1) : b[i] = 0
                                 /\ Der!Stripped(b) = SubSeq(b, m, Len(b))
<1> DEFINE I == {i \in 1..Len(b) : b[i] # 0}
<1>1. Der!Minimal(b) = IF I # {} THEN Min(I) ELSE 0
  BY DEF Der!Minimal, Der!SelectInSeq, Der!Min, Min
<1>2. CASE I = {}
  BY <1>1, <1>2 DEF Der!Stripped
<1>3. CASE I # {}
  <2> DEFINE m == Min(I)
  <2>1. m \in I /\ \A i \in I : m <= i
    <3>1. I \in SUBSET Nat
      OBVIOUS
    <3> HIDE DEF I
    <3>. QED
      BY <1>3, <3>1, MinIsLeast
  <2>2. Der!Minimal(b) = m
    BY <1>1, <1>3
  <2> HIDE DEF m
  <2>3. m \in 1..Len(b) /\ b[m] # 0 /\ m # 0
    BY <2>1
  <2>4. \A i \in 1..(m - 1) : b[i] = 0
    BY <2>1, <2>3
  <2>5. Der!Stripped(b) = SubSeq(b, m, Len(b))
    BY <2>2, <2>3 DEF Der!Stripped
  <2>. QED
    BY <2>3, <2>4, <2>5
<1>. QED
  BY <1>2, <1>3

\* Nothing is left out of a number that does not start with a zero.
LEMMA NothingStripped ==
  ASSUME NEW b \in Seq(Nat), b # << >>, b[1] # 0
  PROVE  Der!Stripped(b) = b
<1>1. Len(b) \in Nat \ {0}
  OBVIOUS
<1>2. PICK m \in 1..Len(b) : /\ \A i \in 1..(m - 1) : b[i] = 0
                             /\ Der!Stripped(b) = SubSeq(b, m, Len(b))
  BY <1>1, StrippedIs
<1>3. m = 1
  BY <1>1, <1>2
<1>4. SubSeq(b, 1, Len(b)) = b
  OBVIOUS
<1>. QED
  BY <1>2, <1>3, <1>4

\* The content of the encoding of an integer.
Padded(b) ==
  LET number == Der!Stripped(b)
  IN IF number # << >> /\ Head(number) >= 128 THEN <<0>> \o number ELSE number

\* It is the number, or one with a zero before it.
LEMMA PaddedIs ==
  ASSUME NEW b \in Seq(Nat)
  PROVE  /\ Padded(b) \in Seq(Nat) /\ Der!Stripped(b) \in Seq(Nat)
         /\ Der!DerInteger(b) = <<2, Len(Padded(b))>> \o Padded(b)
         /\ \/ Padded(b) = Der!Stripped(b)
            \/ /\ Padded(b) = <<0>> \o Der!Stripped(b)
               /\ Der!Stripped(b) # << >> /\ Der!Stripped(b)[1] >= 128
<1>1. Der!Stripped(b) \in Seq(Nat)
  <2>1. ASSUME NEW m \in 1..Len(b) PROVE SubSeq(b, m, Len(b)) \in Seq(Nat)
    OBVIOUS
  <2>2. << >> \in Seq(Nat)
    OBVIOUS
  <2>. QED
    BY <2>1, <2>2, StrippedIs
<1>2. Der!DerInteger(b) = <<2, Len(Padded(b))>> \o Padded(b)
  BY DEF Der!DerInteger, Padded
<1>3. <<0>> \o Der!Stripped(b) \in Seq(Nat)
  BY <1>1
<1>. QED
  BY <1>1, <1>2, <1>3 DEF Padded

\* The bytes of an encoded signature.
LEMMA ToDerIs ==
  ASSUME NEW r \in Seq(Nat), NEW s \in Seq(Nat)
  PROVE  LET der == Der!ToDer(r, s)
             m == Len(Padded(r))
             n == Len(Padded(s))
         IN /\ der \in Seq(Nat) /\ Len(der) = 6 + m + n
            /\ der[1] = 48 /\ der[2] = 4 + m + n
            /\ der[3] = 2 /\ der[4] = m
            /\ \A k \in 1..m : der[4 + k] = Padded(r)[k]
            /\ der[5 + m] = 2 /\ der[6 + m] = n
            /\ \A k \in 1..n : der[6 + m + k] = Padded(s)[k]
<1> DEFINE p == Padded(r)
           q == Padded(s)
           m == Len(p)
           n == Len(q)
           a == <<2, m>> \o p
           b == <<2, n>> \o q
           c == a \o b
           der == <<48, Len(c)>> \o c
<1>1. p \in Seq(Nat) /\ q \in Seq(Nat)
  BY PaddedIs
<1>2. Der!ToDer(r, s) = der
  BY PaddedIs DEF Der!ToDer
<1> HIDE DEF p, q
<1>3. m \in Nat /\ n \in Nat
  BY <1>1
<1>4. /\ a \in Seq(Nat) /\ Len(a) = m + 2 /\ a[1] = 2 /\ a[2] = m
      /\ \A k \in 1..m : a[2 + k] = p[k]
  BY <1>1, <1>3
<1>5. /\ b \in Seq(Nat) /\ Len(b) = n + 2 /\ b[1] = 2 /\ b[2] = n
      /\ \A k \in 1..n : b[2 + k] = q[k]
  BY <1>1, <1>3
<1> HIDE DEF a, b, m, n
<1>6. /\ c \in Seq(Nat) /\ Len(c) = m + n + 4
      /\ \A k \in 1..(m + 2) : c[k] = a[k]
      /\ \A k \in 1..(n + 2) : c[m + 2 + k] = b[k]
  <2>1. Len(a) + Len(b) = m + n + 4
    BY <1>3, <1>4, <1>5
  <2>2. /\ c \in Seq(Nat) /\ Len(c) = Len(a) + Len(b)
        /\ \A k \in 1..Len(a) : c[k] = a[k]
        /\ \A k \in 1..Len(b) : c[Len(a) + k] = b[k]
    BY <1>4, <1>5, Joined
  <2> HIDE DEF c
  <2>. QED
    BY <1>4, <1>5, <2>1, <2>2
<1> HIDE DEF c
<1>7. /\ der \in Seq(Nat) /\ Len(der) = m + n + 6 /\ der[1] = 48 /\ der[2] = m + n + 4
      /\ \A k \in 1..(m + n + 4) : der[2 + k] = c[k]
  <2> DEFINE h == <<48, Len(c)>>
  <2>1. /\ h \in Seq(Nat) /\ Len(h) = 2 /\ h[1] = 48 /\ h[2] = m + n + 4
        /\ 1 \in 1..2 /\ 2 \in 1..2
    BY <1>3, <1>6
  <2> HIDE DEF h
  <2>2. 2 + Len(c) = m + n + 6
    BY <1>3, <1>6
  <2>. QED
    BY <1>6, <2>1, <2>2, Joined
<1> HIDE DEF der
<1>8. \A k \in 1..(m + 2) : der[2 + k] = a[k]
  <2> TAKE k \in 1..(m + 2)
  <2>1. k \in 1..(m + n + 4)
    BY <1>3
  <2>. QED
    BY <1>6, <1>7, <2>1
<1>9. \A k \in 1..(n + 2) : der[m + 4 + k] = b[k]
  <2> TAKE k \in 1..(n + 2)
  <2>1. m + 2 + k \in 1..(m + n + 4) /\ 2 + (m + 2 + k) = m + 4 + k
    BY <1>3
  <2>2. der[2 + (m + 2 + k)] = c[m + 2 + k]
    BY <1>7, <2>1
  <2>3. c[m + 2 + k] = b[k]
    BY <1>6
  <2>. QED
    BY <2>1, <2>2, <2>3
<1>10. der[3] = 2 /\ der[4] = m
  <2>1. 1 \in 1..(m + 2) /\ 2 \in 1..(m + 2)
    BY <1>3
  <2>2. der[2 + 1] = a[1] /\ der[2 + 2] = a[2]
    BY <1>8, <2>1
  <2>. QED
    BY <1>4, <2>2
<1>11. der[5 + m] = 2 /\ der[6 + m] = n
  <2>1. 1 \in 1..(n + 2) /\ 2 \in 1..(n + 2) /\ m + 4 + 1 = 5 + m /\ m + 4 + 2 = 6 + m
    BY <1>3
  <2>2. der[m + 4 + 1] = b[1] /\ der[m + 4 + 2] = b[2]
    BY <1>9, <2>1
  <2>. QED
    BY <1>5, <2>1, <2>2
<1>12. \A k \in 1..m : der[4 + k] = p[k]
  <2> TAKE k \in 1..m
  <2>1. 2 + k \in 1..(m + 2) /\ 2 + (2 + k) = 4 + k
    BY <1>3
  <2>. QED
    BY <1>4, <1>8, <2>1
<1>13. \A k \in 1..n : der[6 + m + k] = q[k]
  <2> TAKE k \in 1..n
  <2>1. 2 + k \in 1..(n + 2) /\ m + 4 + (2 + k) = 6 + m + k
    BY <1>3
  <2>. QED
    BY <1>5, <1>9, <2>1
<1>14. Len(der) = 6 + m + n /\ der[2] = 4 + m + n
  BY <1>3, <1>7
<1>. QED
  BY <1>2, <1>7, <1>10, <1>11, <1>12, <1>13, <1>14 DEF p, q, m, n

\* A part of a sequence.
LEMMA Part ==
  ASSUME NEW s \in Seq(Nat), NEW t \in Seq(Nat), NEW k \in Nat, k + Len(t) <= Len(s),
         \A i \in 1..Len(t) : s[k + i] = t[i]
  PROVE  SubSeq(s, k + 1, k + Len(t)) = t
<1> DEFINE p == SubSeq(s, k + 1, k + Len(t))
<1>1. Len(s) \in Nat /\ Len(t) \in Nat
  OBVIOUS
<1>2. /\ p \in Seq(Nat) /\ Len(p) = Len(t)
      /\ \A i \in 1..Len(t) : p[i] = s[k + i]
  <2>1. \A i \in (k + 1)..(k + Len(t)) : s[i] \in Nat
    BY <1>1
  <2>2. (k + Len(t)) - (k + 1) + 1 = Len(t) /\ k + 1 \in Nat /\ k + Len(t) \in Nat
    BY <1>1
  <2>3. \A i \in 1..Len(t) : (k + 1) + i - 1 = k + i
    BY <1>1
  <2>. QED
    BY <1>1, <2>1, <2>2, <2>3, SubSeqProperties
<1> HIDE DEF p
<1>3. p = t
  BY <1>2, SeqEqual
<1>. QED
  BY <1>3 DEF p

\* The zero that is put before a number is left out again.
LEMMA PaddedStripped ==
  ASSUME NEW r \in Seq(Nat), r # << >>, r[1] # 0
  PROVE  Padded(r) # << >> /\ Len(Padded(r)) >= Len(r) /\ Der!Stripped(Padded(r)) = r
<1>1. Len(r) \in Nat \ {0}
  OBVIOUS
<1>2. Der!Stripped(r) = r
  BY NothingStripped
<1>3. CASE Padded(r) = r
  BY <1>1, <1>2, <1>3
<1>4. CASE Padded(r) = <<0>> \o r
  <2> DEFINE b == <<0>> \o r
             z == <<0>>
  <2>1. z \in Seq(Nat) /\ Len(z) = 1 /\ z[1] = 0
    OBVIOUS
  <2>2. /\ b \in Seq(Nat) /\ Len(b) = 1 + Len(r)
        /\ \A k \in 1..1 : b[k] = z[k]
        /\ \A k \in 1..Len(r) : b[1 + k] = r[k]
    <3> HIDE DEF z
    <3>1. /\ z \o r \in Seq(Nat) /\ Len(z \o r) = Len(z) + Len(r)
          /\ \A k \in 1..Len(z) : (z \o r)[k] = z[k]
          /\ \A k \in 1..Len(r) : (z \o r)[Len(z) + k] = r[k]
      BY <2>1, Joined
    <3>. QED
      BY <2>1, <3>1 DEF z
  <2> HIDE DEF b
  <2>3. b[1] = 0 /\ b[2] # 0 /\ 2 \in 1..Len(b) /\ b # << >>
    <3>1. 1 \in 1..1 /\ 1 \in 1..Len(r) /\ 1 + 1 = 2
      BY <1>1
    <3>2. b[1] = 0 /\ b[1 + 1] = r[1]
      BY <2>1, <2>2, <3>1
    <3>. QED
      BY <1>1, <2>2, <3>2
  <2> HIDE DEF z
  <2>4. PICK m \in 1..Len(b) : /\ b[m] # 0
                               /\ \A i \in 1..(m - 1) : b[i] = 0
                               /\ Der!Stripped(b) = SubSeq(b, m, Len(b))
    BY <2>2, <2>3, StrippedIs
  <2>5. m = 2
    <3>1. m # 1
      BY <2>3, <2>4
    <3>2. ~(2 \in 1..(m - 1))
      BY <2>3, <2>4
    <3>. QED
      BY <2>2, <1>1, <3>1, <3>2
  <2>6. SubSeq(b, 1 + 1, 1 + Len(r)) = r
    BY <1>1, <2>2, Part
  <2>7. Der!Stripped(b) = r
    BY <1>1, <2>2, <2>4, <2>5, <2>6
  <2>8. Padded(r) = b
    BY <1>4 DEF b
  <2>. QED
    BY <1>1, <2>2, <2>3, <2>7, <2>8
<1>. QED
  BY <1>2, <1>3, <1>4, PaddedIs

\* What is encoded is read, when no number starts with a zero.
LEMMA FromDerIs ==
  ASSUME NEW r \in Seq(Nat), r # << >>, r[1] # 0, NEW s \in Seq(Nat), s # << >>, s[1] # 0
  PROVE  /\ Der!IsDer(Der!ToDer(r, s)) /\ Der!FromDer(Der!ToDer(r, s)) = <<r, s>>
         /\ Len(Der!ToDer(r, s)) >= 6 + Len(r) + Len(s)
<1> DEFINE der == Der!ToDer(r, s)
           p == Padded(r)
           q == Padded(s)
           m == Len(p)
           n == Len(q)
<1>1. /\ der \in Seq(Nat) /\ Len(der) = 6 + m + n
      /\ der[1] = 48 /\ der[3] = 2 /\ der[4] = m
      /\ \A k \in 1..m : der[4 + k] = p[k]
      /\ der[5 + m] = 2 /\ der[6 + m] = n
      /\ \A k \in 1..n : der[6 + m + k] = q[k]
  BY ToDerIs
<1>2. p \in Seq(Nat) /\ q \in Seq(Nat) /\ m \in Nat /\ n \in Nat
  <2>1. p \in Seq(Nat) /\ q \in Seq(Nat)
    BY PaddedIs
  <2> HIDE DEF p, q
  <2>. QED
    BY <2>1
<1>3. Der!Stripped(p) = r /\ Der!Stripped(q) = s /\ m >= Len(r) /\ n >= Len(s)
  BY PaddedStripped
<1> HIDE DEF der, p, q
<1>4. SubSeq(der, 4 + 1, 4 + m) = p
  BY <1>1, <1>2, Part
<1>5. SubSeq(der, 6 + m + 1, 6 + m + n) = q
  <2>1. 6 + m \in Nat /\ (6 + m) + n <= Len(der)
    BY <1>1, <1>2
  <2>. QED
    BY <1>1, <1>2, <2>1, Part
<1> HIDE DEF m, n
<1>6. Der!Integer(der, 3) = [number |-> r, next |-> 5 + m]
  <2>1. 3 + 1 = 4 /\ 3 + 2 = 4 + 1 /\ 3 + 1 + m = 4 + m /\ 3 + 2 + m = 5 + m
    BY <1>2
  <2>. QED
    BY <1>1, <1>3, <1>4, <2>1 DEF Der!Integer
<1>7. Der!Integer(der, 5 + m).number = s
  <2>1. /\ (5 + m) + 1 = 6 + m /\ (5 + m) + 2 = 6 + m + 1
        /\ (5 + m) + 1 + n = 6 + m + n
    BY <1>2
  <2>. QED
    BY <1>1, <1>3, <1>5, <2>1 DEF Der!Integer
<1>8. Head(der) = 48
  BY <1>1, <1>2
<1>9. Der!Integer(der, 3).next = 5 + m /\ Der!Integer(der, 3).number = r
  BY <1>6
<1>10. Der!IsDer(der)
  BY <1>1, <1>8, <1>9 DEF Der!IsDer
<1>11. Der!FromDer(der) = <<r, s>>
  BY <1>7, <1>9 DEF Der!FromDer
<1>12. Len(r) \in Nat /\ Len(s) \in Nat
  OBVIOUS
<1>13. Len(der) >= 6 + Len(r) + Len(s)
  BY <1>1, <1>2, <1>3, <1>12
<1>. QED
  BY <1>10, <1>11, <1>13 DEF der

\* Two numbers of Half bytes, one after the other, and the halves of that.
LEMMA HalvesIs ==
  ASSUME NEW r \in Seq(Nat), NEW s \in Seq(Nat), Len(r) = Half, Len(s) = Half
  PROVE  /\ r \o s \in Seq(Nat) /\ Len(r \o s) = Der!Fixed
         /\ Der!Halves(r \o s) = <<r, s>> /\ Der!Join(r, s) = r \o s
<1> DEFINE b == r \o s
<1>1. Half \in Nat \ {0}
  BY DerAssumption
<1>2. /\ b \in Seq(Nat) /\ Len(b) = Half + Half
      /\ \A k \in 1..Half : b[k] = r[k]
      /\ \A k \in 1..Half : b[Half + k] = s[k]
  <2>1. /\ b \in Seq(Nat) /\ Len(b) = Len(r) + Len(s)
        /\ \A k \in 1..Len(r) : b[k] = r[k]
        /\ \A k \in 1..Len(s) : b[Len(r) + k] = s[k]
    BY Joined
  <2> HIDE DEF b
  <2>. QED
    BY <2>1
<1> HIDE DEF b
<1>3. Len(b) = Der!Fixed /\ Len(b) \div 2 = Half
  BY <1>1, <1>2 DEF Der!Fixed
<1>4. SubSeq(b, 1, Half) = r
  <2>1. SubSeq(b, 0 + 1, 0 + Len(r)) = r
    BY <1>1, <1>2, Part
  <2>. QED
    BY <1>1, <2>1
<1>5. SubSeq(b, Half + 1, Half + Half) = s
  BY <1>1, <1>2, Part
<1>6. Der!Halves(b) = <<r, s>>
  BY <1>2, <1>3, <1>4, <1>5 DEF Der!Halves
<1>7. Der!Join(r, s) = b
  <2> DEFINE j == [i \in 1..(Half + Half) |->
                     IF i \in (Half + 1)..(2 * Half) THEN s[i - Half]
                     ELSE IF i <= Half THEN r[i] ELSE 0]
  <2>1. Der!Join(r, s) = j
    BY <1>1 DEF Der!Join
  <2>2. b = [i \in 1..(Half + Half) |-> b[i]]
    BY <1>2
  <2>3. ASSUME NEW i \in 1..(Half + Half) PROVE j[i] = b[i]
    <3>1. CASE i \in 1..Half
      BY <1>1, <1>2, <3>1
    <3>2. CASE i \in (Half + 1)..(2 * Half)
      <4>1. i - Half \in 1..Half /\ Half + (i - Half) = i
        BY <1>1, <3>2
      <4>. QED
        BY <1>2, <3>2, <4>1
    <3>. QED
      BY <1>1, <3>1, <3>2
  <2>. QED
    BY <2>1, <2>2, <2>3
<1>. QED
  BY <1>2, <1>3, <1>6, <1>7 DEF b

\* A number of Half bytes that are not all zeros.
LEMMA NumberIs ==
  ASSUME NEW r \in Der!Number
  PROVE  /\ r \in Seq(Nat) /\ Len(r) = Half /\ r # << >> /\ Head(r) = r[1]
         /\ \E i \in 1..Half : r[i] # 0
<1>1. Half \in Nat \ {0} /\ Byte \subseteq Nat
  BY DerAssumption
<1>2. r \in [1..Half -> Byte] /\ r # [i \in 1..Half |-> 0]
  BY DEF Der!Number
<1>3. r \in Seq(Nat) /\ Len(r) = Half
  <2>1. r \in [1..Half -> Nat]
    BY <1>1, <1>2
  <2>. QED
    BY <1>1, <2>1
<1>4. r # << >> /\ Head(r) = r[1]
  BY <1>1, <1>3
<1>5. \E i \in 1..Half : r[i] # 0
  <2> SUFFICES ASSUME \A i \in 1..Half : r[i] = 0 PROVE FALSE
    OBVIOUS
  <2>1. r = [i \in 1..Half |-> r[i]]
    BY <1>2
  <2>. QED
    BY <1>2, <2>1
<1>. QED
  BY <1>3, <1>4, <1>5

\* The members of a pair.
LEMMA Pair ==
  ASSUME NEW a, NEW b
  PROVE  <<a, b>>[1] = a /\ <<a, b>>[2] = b
OBVIOUS

\* None is no signature.
LEMMA NoneIsShort ==
  ASSUME NEW b, Len(b) >= 2
  PROVE  b # Der!None
<1>1. Len(Der!None) = 1
  BY DEF Der!None
<1>. QED
  BY <1>1

\* The two forms of a signature: as long as two numbers ...
LEMMA RawIs ==
  ASSUME NEW r \in Der!Number, NEW s \in Der!Number
  PROVE  LET raw == r \o s IN
         /\ Der!Halves(raw) = <<r, s>> /\ Der!Join(r, s) = raw
         /\ Len(raw) <= Der!Fixed /\ ~(Len(raw) > Der!Fixed) /\ ~(Len(raw) > Der!Fixed + 1)
         /\ Len(raw) = Der!Fixed /\ raw # Der!None
<1> DEFINE raw == r \o s
<1>1. Der!Halves(raw) = <<r, s>> /\ Der!Join(r, s) = raw /\ Len(raw) = Der!Fixed
  BY NumberIs, HalvesIs
<1> HIDE DEF raw
<1>2. Der!Fixed \in Nat /\ Der!Fixed >= 2
  BY DerAssumption DEF Der!Fixed
<1>3. Len(raw) <= Der!Fixed /\ ~(Len(raw) > Der!Fixed) /\ ~(Len(raw) > Der!Fixed + 1)
  <2> DEFINE l == Len(raw)
  <2>1. l = Der!Fixed
    BY <1>1
  <2> HIDE DEF l
  <2>2. l <= Der!Fixed /\ ~(l > Der!Fixed) /\ ~(l > Der!Fixed + 1)
    BY <1>2, <2>1
  <2>. QED
    BY <2>2 DEF l
<1>4. raw # Der!None
  BY <1>1, <1>2, NoneIsShort
<1>. QED
  BY <1>1, <1>3, <1>4 DEF raw

\* ... and encoded, which is longer.
LEMMA EncodedIs ==
  ASSUME NEW r \in Der!Number, r[1] # 0, NEW s \in Der!Number, s[1] # 0
  PROVE  LET der == Der!ToDer(r, s) IN
         /\ Der!IsDer(der) /\ Der!FromDer(der) = <<r, s>> /\ Der!Decoded(der) = r \o s
         /\ Len(der) > Der!Fixed /\ ~(Len(der) <= Der!Fixed)
<1> DEFINE der == Der!ToDer(r, s)
<1>1. /\ r \in Seq(Nat) /\ Len(r) = Half /\ r # << >>
      /\ s \in Seq(Nat) /\ Len(s) = Half /\ s # << >>
  BY NumberIs
<1>2. /\ Der!IsDer(der) /\ Der!FromDer(der) = <<r, s>> /\ Len(der) >= 6 + Half + Half
      /\ der \in Seq(Nat)
  BY <1>1, FromDerIs, ToDerIs
<1> HIDE DEF der
<1>3. Der!Decoded(der) = r \o s
  BY <1>2, RawIs DEF Der!Decoded
<1>4. Len(der) > Der!Fixed /\ ~(Len(der) <= Der!Fixed)
  <2>1. Len(der) \in Nat
    BY <1>2
  <2>. QED
    BY <1>2, <2>1, DerAssumption DEF Der!Fixed
<1>. QED
  BY <1>2, <1>3, <1>4 DEF der

\* What any plug-in signs in any format when no number starts with a zero.
LEMMA SignedIs ==
  ASSUME NEW p \in Der!Plugin, NEW format \in Der!Format,
         NEW r \in Der!Number, r[1] # 0, NEW s \in Der!Number, s[1] # 0
  PROVE  Der!SignByKeyStore(p, format, r, s) \in {Der!None, r \o s, Der!ToDer(r, s)}
<1>1. /\ r \in Seq(Nat) /\ Len(r) = Half /\ r # << >>
      /\ s \in Seq(Nat) /\ Len(s) = Half /\ s # << >>
  BY NumberIs
<1>2. Der!Stripped(r) = r /\ Der!Stripped(s) = s
  BY <1>1, NothingStripped
<1> DEFINE raw == r \o s
           der == Der!ToDer(r, s)
           signed == Der!OnSign(p, format, r, s)
<1>3. signed = raw \/ signed = der
  <2>1. CASE p = "default"
    BY <2>1 DEF Der!OnSign
  <2>2. CASE p = "EcDsa" /\ format = "DER"
    BY <1>2, <2>2 DEF Der!OnSign
  <2>3. CASE p = "EcDsa" /\ format # "DER"
    BY <1>2, <2>3 DEF Der!OnSign
  <2>4. CASE p = "EdDsa" /\ format = "DER"
    BY <2>4 DEF Der!OnSign
  <2>5. CASE p = "EdDsa" /\ format # "DER"
    BY <2>5 DEF Der!OnSign
  <2>. QED
    BY <2>1, <2>2, <2>3, <2>4, <2>5 DEF Der!Plugin
<1>4. Der!Halves(raw) = <<r, s>> /\ Len(raw) <= Der!Fixed /\ ~(Len(raw) > Der!Fixed)
  BY RawIs
<1>5. Der!Decoded(der) = raw /\ Len(der) > Der!Fixed /\ ~(Len(der) <= Der!Fixed)
  BY EncodedIs
<1> HIDE DEF raw, der, signed
<1>6. CASE signed = raw
  <2>1. Der!ToDer(Der!Halves(signed)[1], Der!Halves(signed)[2]) = der
    BY <1>4, <1>6 DEF der
  <2>2. CASE format = ""
    BY <1>6, <2>2 DEF Der!SignByKeyStore, signed, raw
  <2>3. CASE format = "raw"
    BY <1>4, <1>6, <2>3 DEF Der!SignByKeyStore, signed
  <2>4. CASE format # "" /\ format # "raw"
    BY <1>4, <1>6, <2>1, <2>4 DEF Der!SignByKeyStore, signed, der
  <2>. QED
    BY <2>2, <2>3, <2>4
<1>7. CASE signed = der
  <2>1. CASE format = ""
    BY <1>7, <2>1 DEF Der!SignByKeyStore, signed, der
  <2>2. CASE format # ""
    <3>1. Der!SignByKeyStore(p, format, r, s) = Der!Decoded(signed)
      BY <1>5, <1>7, <2>2 DEF Der!SignByKeyStore, signed
    <3>. QED
      BY <1>5, <1>7, <3>1 DEF raw
  <2>. QED
    BY <2>1, <2>2
<1>. QED
  BY <1>3, <1>6, <1>7

\* What WebCrypto signs with a format is encoded by signByKeyStore.
LEMMA DefaultSigned ==
  ASSUME NEW format \in Der!Format, format # "", NEW r \in Der!Number, NEW s \in Der!Number
  PROVE  Der!SignByKeyStore("default", format, r, s) \in {Der!None, Der!ToDer(r, s)}
<1> DEFINE both == r \o s
           h == Der!Halves(both)
           first == h[1]
           second == h[2]
<1>1. Der!Halves(both) = <<r, s>> /\ Len(both) <= Der!Fixed /\ ~(Len(both) > Der!Fixed)
  BY RawIs
<1>2. Der!OnSign("default", format, r, s) = both
  BY DEF Der!OnSign
<1>3. first = r /\ second = s
  <2>1. h = <<r, s>>
    BY <1>1
  <2> HIDE DEF h
  <2>. QED
    BY <2>1, Pair
<1>4. Der!ToDer(first, second) = Der!ToDer(r, s)
  BY <1>3
<1> HIDE DEF both
<1>5. CASE format = "raw"
  BY <1>1, <1>2, <1>5 DEF Der!SignByKeyStore
<1>6. CASE format # "raw"
  BY <1>1, <1>2, <1>4, <1>6 DEF Der!SignByKeyStore
<1>. QED
  BY <1>5, <1>6

\* Any plug-in of the algorithm understands it.
LEMMA Verified ==
  ASSUME NEW p \in Der!Plugin, NEW r \in Der!Number, r[1] # 0,
         NEW s \in Der!Number, s[1] # 0, numbers = <<r, s>>,
         NEW b \in {r \o s, Der!ToDer(r, s)}
  PROVE  Der!Understands(p, Der!VerifyByJwk(p, b))
<1> DEFINE raw == r \o s
           der == Der!ToDer(r, s)
<1>1. /\ Der!Halves(raw) = <<r, s>> /\ Len(raw) <= Der!Fixed /\ ~(Len(raw) > Der!Fixed)
      /\ ~(Len(raw) > Der!Fixed + 1) /\ Len(raw) = Der!Fixed /\ raw # Der!None
  BY RawIs
<1>2. /\ Der!IsDer(der) /\ Der!FromDer(der) = <<r, s>> /\ Der!Decoded(der) = raw
      /\ Len(der) > Der!Fixed
  BY EncodedIs
<1> HIDE DEF raw, der
<1>3. Der!VerifyByJwk(p, b) = Der!OnVerify(p, raw)
  <2>1. CASE b = raw
    BY <1>1, <2>1 DEF Der!VerifyByJwk
  <2>2. CASE b = der
    BY <1>1, <1>2, <2>2 DEF Der!VerifyByJwk
  <2>. QED
    BY <2>1, <2>2 DEF raw, der
<1>4. Der!OnVerify(p, raw) = <<r, s>>
  <2>1. CASE p = "default"
    BY <1>1, <2>1 DEF Der!OnVerify
  <2>2. CASE p = "EcDsa"
    <3>1. Der!ToDer(Der!Halves(raw)[1], Der!Halves(raw)[2]) = der
      BY <1>1 DEF der
    <3>. QED
      BY <1>1, <1>2, <2>2, <3>1 DEF Der!OnVerify
  <2>3. CASE p = "EdDsa"
    BY <1>1, <2>3 DEF Der!OnVerify
  <2>. QED
    BY <2>1, <2>2, <2>3 DEF Der!Plugin
<1>5. <<r, s>> # Der!None
  BY NoneIsShort
<1>. QED
  BY <1>3, <1>4, <1>5 DEF Der!Understands
-----------------------------------------------------------------------------
\* The numbers are two of Half bytes.  Without leading zeros a signature is one of
\* two forms, and every verification finds it good.
Headed == \A i \in 1..2 : Head(numbers[i]) # 0
DerInv ==
  /\ numbers \in Der!Number \X Der!Number
  /\ Headed =>
       /\ signature \in {Der!None, numbers[1] \o numbers[2], Der!ToDer(numbers[1], numbers[2])}
       /\ verdict \subseteq {TRUE}
  /\ signature # Der!None /\ signer.plugin = "default" /\ signer.format # "" =>
       signature = Der!ToDer(numbers[1], numbers[2])

\* A signature that is made.
LEMMA SignKeeps ==
  ASSUME DerInv, NEW p \in Der!Plugin, NEW format \in Der!Format, Der!Sign(p, format)
  PROVE  DerInv'
<1>1. /\ signer' = [plugin |-> p, format |-> format]
      /\ signature' = Der!SignByKeyStore(p, format, numbers[1], numbers[2])
      /\ UNCHANGED <<numbers, verdict>>
  BY DEF Der!Sign
<1>2. numbers[1] \in Der!Number /\ numbers[2] \in Der!Number
  BY DEF DerInv
<1>3. ASSUME Headed
      PROVE  signature' \in {Der!None, numbers[1] \o numbers[2], Der!ToDer(numbers[1], numbers[2])}
  <2>1. numbers[1][1] # 0 /\ numbers[2][1] # 0
    BY <1>2, <1>3, NumberIs DEF Headed
  <2>. QED
    BY <1>1, <1>2, <2>1, SignedIs
<1>4. ASSUME signature' # Der!None, signer'.plugin = "default", signer'.format # ""
      PROVE  signature' = Der!ToDer(numbers[1], numbers[2])
  <2>1. p = "default" /\ format # ""
    BY <1>1, <1>4
  <2>. QED
    BY <1>1, <1>2, <1>4, <2>1, DefaultSigned
<1>. QED
  BY <1>1, <1>3, <1>4 DEF DerInv, Headed

\* One that is verified.
LEMMA VerifyKeeps ==
  ASSUME DerInv, NEW p \in Der!Plugin, Der!Verify(p)
  PROVE  DerInv'
<1>1. /\ signature # Der!None /\ UNCHANGED <<numbers, signer, signature>>
      /\ verdict' = {Der!Understands(p, Der!VerifyByJwk(p, signature))}
  BY DEF Der!Verify
<1>2. ASSUME Headed PROVE verdict' \subseteq {TRUE}
  <2> DEFINE r == numbers[1]
             s == numbers[2]
  <2>1. r \in Der!Number /\ s \in Der!Number /\ numbers = <<r, s>>
    <3>1. numbers \in Der!Number \X Der!Number
      BY DEF DerInv
    <3>. QED
      BY <3>1
  <2>2. signature \in {r \o s, Der!ToDer(r, s)}
    BY <1>1, <1>2 DEF DerInv
  <2>3. Head(r) # 0 /\ Head(s) # 0
    BY <1>2 DEF Headed
  <2> HIDE DEF r, s
  <2>4. r[1] # 0 /\ s[1] # 0
    BY <2>1, <2>3, NumberIs
  <2>5. Der!Understands(p, Der!VerifyByJwk(p, signature))
    BY <2>1, <2>2, <2>4, Verified
  <2>6. Der!Understands(p, Der!VerifyByJwk(p, signature)) \in BOOLEAN
    BY DEF Der!Understands
  <2> DEFINE answer == Der!Understands(p, Der!VerifyByJwk(p, signature))
  <2>7. answer = TRUE
    BY <2>5, <2>6
  <2> HIDE DEF answer
  <2>8. verdict' = {answer}
    BY <1>1 DEF answer
  <2>. QED
    BY <2>7, <2>8
<1>. QED
  BY <1>1, <1>2 DEF DerInv, Headed

\* The invariant.
LEMMA DerInvHolds == PluginsSpec => []DerInv
<1>1. PluginsInit => DerInv
  BY DEF PluginsInit, Der!Init, DerInv
<1>2. [PluginsNext]_pluginsVars => [Der!Next]_Der!vars
  BY DEF PluginsNext, pluginsVars, derVars, Der!vars
<1>3. DerInv /\ [Der!Next]_Der!vars => DerInv'
  <2> SUFFICES ASSUME DerInv, [Der!Next]_Der!vars PROVE DerInv'
    OBVIOUS
  <2>1. CASE UNCHANGED Der!vars
    BY <2>1 DEF Der!vars, DerInv, Headed
  <2>2. CASE Der!Next
    BY <2>2, SignKeeps, VerifyKeeps DEF Der!Next
  <2>. QED
    BY <2>1, <2>2
<1>. QED
  BY <1>1, <1>2, <1>3, PTL DEF PluginsSpec

\* A signature that any plug-in makes in any format is good for any plug-in of its
\* algorithm, when neither number starts with a zero byte.
THEOREM SignaturesTravel == PluginsSpec => []SignatureVerifies
<1>1. DerInv => SignatureVerifies
  BY DEF DerInv, Headed, SignatureVerifies, Der!SignatureVerifies
<1>. QED
  BY <1>1, DerInvHolds, PTL
-----------------------------------------------------------------------------
\* Value is a function that is defined by recursion on the length.
LEMMA ValueIs ==
  ASSUME NEW b \in Seq(Nat)
  PROVE  \E f : /\ Der!Value(b) = f[Len(b)] /\ f[0] = 0
                /\ \A n \in 1..Len(b) : f[n] = 256 * f[n - 1] + b[n]
<1> DEFINE L == Len(b)
           More(x, y) == 256 * x + y
           Step(f, n) == IF n = 0 THEN 0 ELSE More(f[n - 1], b[n])
           Recursion(f, n) == f = [m \in 0..n |-> Step(f, m)]
           T == {n \in Nat : \E f : Recursion(f, n)}
           value == CHOOSE f : Recursion(f, L)
<1>1. L \in Nat
  OBVIOUS
<1>2. Der!Value(b) = value[L]
  BY DEF Der!Value
<1> HIDE DEF L, More
<1>3. T = Nat
  <2>1. 0 \in T
    <3> DEFINE f == [m \in 0..0 |-> 0]
    <3>1. \A m \in 0..0 : m = 0 /\ Step(f, m) = 0
      OBVIOUS
    <3>2. Recursion(f, 0)
      BY <3>1
    <3> HIDE DEF Recursion, f
    <3>. QED
      BY <3>2
  <2>2. ASSUME NEW n \in T PROVE n + 1 \in T
    <3>1. PICK f : Recursion(f, n)
      OBVIOUS
    <3> DEFINE g == [m \in 0..(n + 1) |-> Step(f, m)]
    <3>2. n \in Nat /\ \A m \in 0..n : f[m] = Step(f, m)
      BY <3>1
    <3>3. \A m \in 0..(n + 1) : Step(g, m) = Step(f, m)
      <4>1. ASSUME NEW m \in 0..(n + 1), m # 0 PROVE g[m - 1] = f[m - 1]
        <5>1. m - 1 \in 0..n /\ m - 1 \in 0..(n + 1)
          BY <3>2, <4>1
        <5>. QED
          BY <3>2, <5>1
      <4> HIDE DEF g
      <4>. QED
        BY <4>1
    <3>4. Recursion(g, n + 1)
      BY <3>3
    <3>5. n + 1 \in Nat
      BY <3>2
    <3> HIDE DEF Recursion, g
    <3>. QED
      BY <3>4, <3>5
  <2>3. T \in SUBSET Nat
    OBVIOUS
  <2> HIDE DEF T
  <2>. QED
    BY <2>1, <2>2, <2>3, Upward
<1>4. Recursion(value, L)
  <2>1. \E f : Recursion(f, L)
    BY <1>1, <1>3
  <2> HIDE DEF Recursion
  <2>. QED
    BY <2>1
<1> HIDE DEF value
<1>5. \A n \in 0..L : value[n] = Step(value, n)
  BY <1>4
<1>6. value[0] = 0 /\ \A n \in 1..L : value[n] = 256 * value[n - 1] + b[n]
  BY <1>1, <1>5 DEF More
<1>. QED
  BY <1>2, <1>6 DEF L

\* Zeros before a number do not change its value.
LEMMA ZerosBefore ==
  ASSUME NEW z \in Seq(Nat), NEW b \in Seq(Nat), NEW k \in Nat, Len(z) = k + Len(b),
         \A i \in 1..k : z[i] = 0, \A i \in 1..Len(b) : z[k + i] = b[i]
  PROVE  Der!Value(z) = Der!Value(b)
<1> DEFINE L == Len(b)
<1>1. PICK f : /\ Der!Value(z) = f[Len(z)] /\ f[0] = 0
               /\ \A n \in 1..Len(z) : f[n] = 256 * f[n - 1] + z[n]
  BY ValueIs
<1>2. PICK g : /\ Der!Value(b) = g[L] /\ g[0] = 0
               /\ \A n \in 1..L : g[n] = 256 * g[n - 1] + b[n]
  BY ValueIs
<1>3. L \in Nat /\ Len(z) = k + L
  OBVIOUS
<1> HIDE DEF L
<1> DEFINE Zero == {n \in Nat : n <= k => f[n] = 0}
           Same == {n \in Nat : n <= L => f[k + n] = g[n]}
<1>4. Zero = Nat
  <2>1. 0 \in Zero
    BY <1>1
  <2>2. ASSUME NEW n \in Zero PROVE n + 1 \in Zero
    <3> SUFFICES ASSUME n + 1 <= k PROVE f[n + 1] = 0
      OBVIOUS
    <3>1. n \in Nat /\ n <= k /\ n + 1 \in 1..k /\ n + 1 \in 1..Len(z) /\ (n + 1) - 1 = n
      BY <1>3
    <3>2. f[n] = 0
      BY <3>1
    <3>3. f[n + 1] = 256 * f[n] + z[n + 1] /\ z[n + 1] = 0
      BY <1>1, <3>1
    <3>. QED
      BY <3>2, <3>3
  <2>3. Zero \in SUBSET Nat
    OBVIOUS
  <2> HIDE DEF Zero
  <2>. QED
    BY <2>1, <2>2, <2>3, Upward
<1>5. Same = Nat
  <2>1. 0 \in Same
    <3>1. f[k] = 0
      BY <1>4
    <3>. QED
      BY <1>2, <3>1
  <2>2. ASSUME NEW n \in Same PROVE n + 1 \in Same
    <3> SUFFICES ASSUME n + 1 <= L PROVE f[k + (n + 1)] = g[n + 1]
      OBVIOUS
    <3>1. /\ n \in Nat /\ n <= L /\ n + 1 \in 1..L /\ (n + 1) - 1 = n
          /\ k + (n + 1) \in 1..Len(z) /\ (k + (n + 1)) - 1 = k + n
      BY <1>3
    <3>2. f[k + n] = g[n]
      BY <3>1
    <3>3. z[k + (n + 1)] = b[n + 1]
      BY <3>1 DEF L
    <3>4. f[k + (n + 1)] = 256 * f[k + n] + z[k + (n + 1)]
      BY <1>1, <3>1
    <3>5. g[n + 1] = 256 * g[n] + b[n + 1]
      BY <1>2, <3>1
    <3>. QED
      BY <3>2, <3>3, <3>4, <3>5
  <2>3. Same \in SUBSET Nat
    OBVIOUS
  <2> HIDE DEF Same
  <2>. QED
    BY <2>1, <2>2, <2>3, Upward
<1>6. f[k + L] = g[L]
  <2>1. L \in Same /\ L <= L
    BY <1>3, <1>5
  <2>. QED
    BY <2>1
<1>. QED
  BY <1>1, <1>2, <1>3, <1>6

\* The content of the encoding of a number is the shortest one that has its value and
\* whose first bit is not set.
LEMMA PaddedIsShortest ==
  ASSUME NEW r \in Seq(Nat), \E i \in 1..Len(r) : r[i] # 0
  PROVE  LET p == Padded(r) IN
         /\ p # << >> /\ Der!Value(p) = Der!Value(r) /\ Head(p) < 128
         /\ Len(p) > 1 /\ Head(p) = 0 => p[2] >= 128
<1> DEFINE b == Der!Stripped(r)
           L == Len(r)
<1>1. L \in Nat
  OBVIOUS
<1>2. PICK m \in 1..L : r[m] # 0 /\ (\A i \in 1..(m - 1) : r[i] = 0) /\ b = SubSeq(r, m, L)
  BY StrippedIs
<1>3. /\ b \in Seq(Nat) /\ Len(b) = L - m + 1
      /\ \A i \in 1..(L - m + 1) : b[i] = r[(m - 1) + i]
  <2> DEFINE c == SubSeq(r, m, L)
  <2>1. c \in Seq(Nat) /\ Len(c) = L - m + 1 /\ \A i \in 1..(L - m + 1) : c[i] = r[(m - 1) + i]
    OBVIOUS
  <2> HIDE DEF c
  <2>2. b = c
    BY <1>2 DEF c
  <2>. QED
    BY <2>1, <2>2
<1> HIDE DEF b
<1>4. Len(b) \in Nat /\ Len(b) >= 1 /\ b # << >> /\ Head(b) = b[1] /\ b[1] = r[m] /\ b[1] \in Nat
  <2>1. 1 \in 1..(L - m + 1) /\ (m - 1) + 1 = m
    BY <1>1
  <2>2. b[1] = r[m]
    BY <1>3, <2>1
  <2>. QED
    BY <1>1, <1>3, <2>1, <2>2
<1>5. Der!Value(r) = Der!Value(b)
  <2> DEFINE k == m - 1
  <2>1. k \in Nat /\ Len(r) = k + Len(b) /\ \A i \in 1..k : r[i] = 0
    BY <1>1, <1>2, <1>3
  <2>2. \A i \in 1..Len(b) : r[k + i] = b[i]
    BY <1>3
  <2> HIDE DEF k
  <2>. QED
    BY <1>3, <2>1, <2>2, ZerosBefore
<1>6. CASE b[1] >= 128
  <2> DEFINE z == <<0>>
             p == z \o b
  <2>1. Padded(r) = p
    BY <1>4, <1>6 DEF Padded, b
  <2>2. z \in Seq(Nat) /\ Len(z) = 1 /\ z[1] = 0
    OBVIOUS
  <2> HIDE DEF z
  <2>3. /\ p \in Seq(Nat) /\ Len(p) = 1 + Len(b)
        /\ \A k \in 1..1 : p[k] = 0
        /\ \A k \in 1..Len(b) : p[1 + k] = b[k]
    <3>1. /\ p \in Seq(Nat) /\ Len(p) = Len(z) + Len(b)
          /\ \A k \in 1..Len(z) : p[k] = z[k]
          /\ \A k \in 1..Len(b) : p[Len(z) + k] = b[k]
      BY <1>3, <2>2, Joined
    <3> HIDE DEF p
    <3>. QED
      BY <2>2, <3>1
  <2> HIDE DEF p
  <2>4. Der!Value(p) = Der!Value(b)
    BY <1>3, <2>3, ZerosBefore
  <2>5. p # << >> /\ Head(p) = 0 /\ p[2] = b[1]
    <3>1. 1 \in 1..1 /\ 1 \in 1..Len(b) /\ 1 + 1 = 2
      BY <1>4
    <3>2. p[1] = 0 /\ p[1 + 1] = b[1]
      BY <2>3, <3>1
    <3>. QED
      BY <1>4, <2>3, <3>2
  <2>. QED
    BY <1>5, <1>6, <2>1, <2>4, <2>5
<1>7. CASE ~(b[1] >= 128)
  <2>1. Padded(r) = b
    BY <1>4, <1>7 DEF Padded, b
  <2>2. Head(b) < 128 /\ Head(b) # 0
    BY <1>2, <1>4, <1>7
  <2>. QED
    BY <1>4, <1>5, <2>1, <2>2
<1>. QED
  BY <1>6, <1>7

\* So the integer is encoded in the canonical way.
LEMMA IntegerIs ==
  ASSUME NEW r \in Der!Number, NEW d \in Seq(Nat), Len(d) = 2 + Len(Padded(r)),
         d[1] = 2, d[2] = Len(Padded(r)),
         \A k \in 1..Len(Padded(r)) : d[2 + k] = Padded(r)[k]
  PROVE  Der!IsInteger(d, Der!Value(r))
<1> DEFINE p == Padded(r)
<1>1. r \in Seq(Nat) /\ \E i \in 1..Len(r) : r[i] # 0
  BY NumberIs
<1>2. p \in Seq(Nat)
  BY <1>1, PaddedIs
<1>3. /\ p # << >> /\ Der!Value(p) = Der!Value(r) /\ Head(p) < 128
      /\ Len(p) > 1 /\ Head(p) = 0 => p[2] >= 128
  BY <1>1, PaddedIsShortest
<1> HIDE DEF p
<1>4. SubSeq(d, 3, Len(d)) = p
  <2>1. SubSeq(d, 2 + 1, 2 + Len(p)) = p
    BY <1>2, Part DEF p
  <2>. QED
    BY <2>1 DEF p
<1>. QED
  BY <1>3, <1>4 DEF Der!IsInteger, p

\* toDer encodes two numbers in the canonical way.
LEMMA CanonicalIs ==
  ASSUME NEW r \in Der!Number, NEW s \in Der!Number
  PROVE  LET der == Der!ToDer(r, s) IN
         \E i \in 3..Len(der) :
           /\ der[1] = 48 /\ der[2] = Len(der) - 2
           /\ Der!IsInteger(SubSeq(der, 3, i), Der!Value(r))
           /\ Der!IsInteger(SubSeq(der, i + 1, Len(der)), Der!Value(s))
<1> DEFINE der == Der!ToDer(r, s)
           p == Padded(r)
           q == Padded(s)
           m == Len(p)
           n == Len(q)
<1>1. r \in Seq(Nat) /\ s \in Seq(Nat)
  BY NumberIs
<1>2. /\ der \in Seq(Nat) /\ Len(der) = 6 + m + n
      /\ der[1] = 48 /\ der[2] = 4 + m + n
      /\ der[3] = 2 /\ der[4] = m
      /\ \A k \in 1..m : der[4 + k] = p[k]
      /\ der[5 + m] = 2 /\ der[6 + m] = n
      /\ \A k \in 1..n : der[6 + m + k] = q[k]
  BY <1>1, ToDerIs
<1>3. p \in Seq(Nat) /\ q \in Seq(Nat)
  BY <1>1, PaddedIs
<1> HIDE DEF p, q
<1>4. m \in Nat /\ n \in Nat
  BY <1>3
<1> HIDE DEF m, n
<1> DEFINE i == 4 + m
           d == SubSeq(der, 3, i)
           e == SubSeq(der, i + 1, Len(der))
<1>5. i \in 3..Len(der) /\ der[2] = Len(der) - 2
  BY <1>2, <1>4
<1>6. d \in Seq(Nat) /\ Len(d) = 2 + m /\ \A k \in 1..(2 + m) : d[k] = der[2 + k]
  <2>1. \A k \in 1..(2 + m) : 3 + k - 1 = 2 + k
    BY <1>4
  <2>2. i - 3 + 1 = 2 + m /\ i \in Nat /\ \A k \in 3..i : der[k] \in Nat
    BY <1>2, <1>4
  <2>. QED
    BY <1>2, <1>4, <2>1, <2>2, SubSeqProperties
<1>7. e \in Seq(Nat) /\ Len(e) = 2 + n /\ \A k \in 1..(2 + n) : e[k] = der[4 + m + k]
  <2> DEFINE l == Len(der)
  <2>1. \A k \in 1..(2 + n) : (i + 1) + k - 1 = 4 + m + k
    BY <1>4
  <2>2. l - (i + 1) + 1 = 2 + n /\ i + 1 \in Nat /\ l \in Nat /\ \A k \in (i + 1)..l : der[k] \in Nat
    BY <1>2, <1>4
  <2>. QED
    BY <1>2, <1>4, <2>1, <2>2, SubSeqProperties
<1> HIDE DEF d, e
<1>8. Der!IsInteger(d, Der!Value(r))
  <2>1. d[1] = 2 /\ d[2] = m
    <3>1. 1 \in 1..(2 + m) /\ 2 \in 1..(2 + m) /\ 2 + 1 = 3 /\ 2 + 2 = 4
      BY <1>4
    <3>2. d[1] = der[2 + 1] /\ d[2] = der[2 + 2]
      BY <1>6, <3>1
    <3>. QED
      BY <1>2, <3>2
  <2>2. ASSUME NEW k \in 1..m PROVE d[2 + k] = p[k]
    <3>1. 2 + k \in 1..(2 + m) /\ 2 + (2 + k) = 4 + k
      BY <1>4
    <3>2. d[2 + k] = der[2 + (2 + k)]
      BY <1>6, <3>1
    <3>. QED
      BY <1>2, <3>1, <3>2
  <2>. QED
    BY <1>6, <2>1, <2>2, IntegerIs DEF m, p
<1>9. Der!IsInteger(e, Der!Value(s))
  <2>1. e[1] = 2 /\ e[2] = n
    <3>1. 1 \in 1..(2 + n) /\ 2 \in 1..(2 + n) /\ 4 + m + 1 = 5 + m /\ 4 + m + 2 = 6 + m
      BY <1>4
    <3>2. e[1] = der[4 + m + 1] /\ e[2] = der[4 + m + 2]
      BY <1>7, <3>1
    <3>. QED
      BY <1>2, <3>1, <3>2
  <2>2. ASSUME NEW k \in 1..n PROVE e[2 + k] = q[k]
    <3>1. 2 + k \in 1..(2 + n) /\ 4 + m + (2 + k) = 6 + m + k
      BY <1>4
    <3>2. e[2 + k] = der[4 + m + (2 + k)]
      BY <1>7, <3>1
    <3>. QED
      BY <1>2, <3>1, <3>2
  <2>. QED
    BY <1>7, <2>1, <2>2, IntegerIs DEF n, q
<1>. QED
  BY <1>2, <1>5, <1>8, <1>9 DEF d, e, der

\* It encodes so what the default plug-in signs with a format.
THEOREM DerIsAlwaysCanonical == PluginsSpec => []DerIsCanonical
<1>1. DerInv => DerIsCanonical
  <2> SUFFICES ASSUME DerInv, signature # Der!None, signer.plugin = "default", signer.format # ""
               PROVE  \E i \in 3..Len(signature) :
                        /\ signature[1] = 48 /\ signature[2] = Len(signature) - 2
                        /\ Der!IsInteger(SubSeq(signature, 3, i), Der!Value(numbers[1]))
                        /\ Der!IsInteger(SubSeq(signature, i + 1, Len(signature)),
                                         Der!Value(numbers[2]))
    BY DEF DerIsCanonical, Der!DerIsCanonical
  <2>1. numbers[1] \in Der!Number /\ numbers[2] \in Der!Number
    BY DEF DerInv
  <2>2. signature = Der!ToDer(numbers[1], numbers[2])
    BY DEF DerInv
  <2>. QED
    BY <2>1, <2>2, CanonicalIs
<1>. QED
  BY <1>1, DerInvHolds, PTL
=============================================================================
