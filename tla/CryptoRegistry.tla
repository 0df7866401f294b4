--------------------------- MODULE CryptoRegistry ---------------------------
(***************************************************************************)
(* CryptoFactory, CryptoHelpers and Subtle of libs/plugin, and the         *)
(* factories of libs/plugin-cryptofactory-suites, plugin-keyvault and      *)
(* plugin-factory: which plug-in carries out an operation, and the names   *)
(* of curves and algorithms on the way there.                              *)
(*                                                                         *)
(* A plug-in is registered for a JWA name, a scope and types of key        *)
(* references; an operation is looked up by its W3C algorithm.  Users      *)
(* register plug-ins of their own whenever they like.                      *)
(*                                                                         *)
(* A definition D_fault is D with a fault that the properties must notice; *)
(* no specification uses it.                                               *)
(***************************************************************************)
EXTENDS Naturals, SequencesExt

CONSTANTS
  Items,      \* plug-ins with their scope and types that users register
  Names,      \* names that they register them for
  MaxAdded    \* bound on these registrations

VARIABLES
  factory,    \* the factory that filled the registry: CryptoFactoryManager.create makes
              \* the ones for Node and Key Vault, a user the one for browsers
  registry,   \* [Kind -> [name -> the items registered for it]]
  jwk,        \* the name of the curve in the JWK of a secp256k1 key
  accepted,   \* whether the plug-in that imported the key last took it
  added       \* history: the number of registrations by users

vars == <<factory, registry, jwk, accepted, added>>
-----------------------------------------------------------------------------
(* CryptoFactory. *)

Kind == {"keyEncrypters", "sharedKeyEncrypters", "symmetricEncrypter",
         "messageSigners", "messageAuthenticationCodeSigners", "messageDigests"}
Scope == {"private", "public"}
KeyType == {"secret", "key"}
Default == [plugin |-> "default", scope |-> "all", types |-> {"secret"}]
Elliptic == [plugin |-> "elliptic", scope |-> "all", types |-> KeyType]
Vault == [plugin |-> "vault", scope |-> "private", types |-> {"key"}]

Register_front(items, name, item) ==
  [n \in DOMAIN items \cup {name} |->
     (IF n = name THEN <<item>> ELSE << >>)
       \o (IF n \in DOMAIN items THEN items[n] ELSE << >>)]
Register(items, name, item) ==
  [n \in DOMAIN items \cup {name} |->
     (IF n \in DOMAIN items THEN items[n] ELSE << >>)
       \o (IF n = name THEN <<item>> ELSE << >>)]

\* What a factory registers when it is made: names of signers and of encrypters.
Signers(f) ==
  CASE f = "CryptoFactoryNode" -> {"EdDSA", "EDDSA", "ed25519"}
    [] f = "CryptoFactoryBrowser" -> {"ES256K", "EdDSA"}
    [] f = "CryptoFactoryKeyVault" -> {"ES256K", "ECDSA"}
Encrypters(f) ==
  IF f = "CryptoFactoryKeyVault" THEN {"RSA-OAEP", "RSA-OAEP-256"} ELSE {}
Own(f) == IF f = "CryptoFactoryKeyVault" THEN Vault ELSE Elliptic

RegistryOf(f) ==
  LET names == [k \in Kind |-> CASE k = "messageSigners" -> Signers(f)
                                 [] k = "keyEncrypters" -> Encrypters(f)
                                 [] OTHER -> {}]
  IN [k \in Kind |-> [n \in names[k] \cup {"*"} |->
                        IF n = "*" THEN <<Default>> ELSE <<Own(f)>>]]

\* The first item that fits, else the default one, whatever type it is for.
Find(kind, name, scope, type) ==
  LET items == IF name \in DOMAIN registry[kind] THEN registry[kind][name] ELSE << >>
      fits(item) == item.scope \in {scope, "all"} /\ type \in item.types
      first == SelectInSeq(items, fits)
  IN (IF first = 0 THEN registry[kind]["*"][1] ELSE items[first]).plugin
-----------------------------------------------------------------------------
(* CryptoHelpers.  A hash is an object with a name, the name, or missing. *)

Missing == [form |-> "missing", bits |-> 256]
ObjectHash(n) == [form |-> "object", bits |-> n]
TextHash(n) == [form |-> "text", bits |-> n]
Bits == {256, 384, 512}
Rs(n) == CASE n = 256 -> "RS256" [] n = 384 -> "RS384" [] n = 512 -> "RS512"
Hs(n) == CASE n = 256 -> "HS256" [] n = 384 -> "HS384" [] n = 512 -> "HS512"
Sha(n) == CASE n = 256 -> "SHA-256" [] n = 384 -> "SHA-384" [] n = 512 -> "SHA-512"
AesGcm(n) == CASE n = 128 -> "A128GCM" [] n = 192 -> "A192GCM" [] n = 256 -> "A256GCM"

W3c(name, hash) == [name |-> name, hash |-> hash, length |-> 0]
NoName == "none"

\* toUpperCase comes first.
JwaToWebCrypto(jwa) ==
  CASE \E n \in Bits : jwa = Rs(n) ->
         W3c("RSASSA-PKCS1-v1_5", ObjectHash(CHOOSE n \in Bits : jwa = Rs(n)))
    [] jwa \in {"RSA-OAEP", "RSA-OAEP-256"} -> W3c("RSA-OAEP", TextHash(256))
    [] \E n \in {128, 192, 256} : jwa = AesGcm(n) ->
         [W3c("AES-GCM", Missing) EXCEPT !.length =
            CHOOSE n \in {128, 192, 256} : jwa = AesGcm(n)]
    [] jwa = "ES256K" -> W3c("ECDSA", ObjectHash(256))
    [] jwa \in {"EdDSA", "EDDSA"} -> W3c("EdDSA", ObjectHash(256))
    [] \E n \in Bits : jwa = Sha(n) ->
         W3c(NoName, ObjectHash(CHOOSE n \in Bits : jwa = Sha(n)))
    [] \E n \in Bits : jwa = Hs(n) ->
         W3c("HMAC", ObjectHash(CHOOSE n \in Bits : jwa = Hs(n)))

\* The size of a hash counts only when the hash is an object.
WebCryptoToJwa_anyHash(a) ==
  CASE a.name = "RSASSA-PKCS1-v1_5" -> Rs(256)
    [] a.name = "ECDSA" -> "ES256K"
    [] a.name = "EdDSA" -> "EdDSA"
    [] a.name \in {"RSA-OAEP", "RSA-OAEP-256"} -> "RSA-OAEP-256"
    [] a.name = "AES-GCM" -> AesGcm(IF a.length = 0 THEN 128 ELSE a.length)
    [] a.name = "HMAC" -> "HS256"
    [] OTHER -> a.name
WebCryptoToJwa(a) ==
  CASE a.name = "RSASSA-PKCS1-v1_5" -> Rs(IF a.hash.form = "object" THEN a.hash.bits ELSE 256)
    [] a.name = "ECDSA" -> "ES256K"
    [] a.name = "EdDSA" -> "EdDSA"
    [] a.name \in {"RSA-OAEP", "RSA-OAEP-256"} -> "RSA-OAEP-256"
    [] a.name = "AES-GCM" -> AesGcm(IF a.length = 0 THEN 128 ELSE a.length)
    [] a.name = "HMAC" -> "HS256"
    [] OTHER -> a.name

KindOf(a) ==
  CASE a.name \in {"RSASSA-PKCS1-v1_5", "ECDSA", "EdDSA"} -> "messageSigners"
    [] a.name \in {"RSA-OAEP", "RSA-OAEP-256"} -> "keyEncrypters"
    [] a.name = "AES-GCM" -> "symmetricEncrypter"
    [] a.name = "HMAC" -> "messageAuthenticationCodeSigners"
    [] OTHER -> "messageDigests"

\* An algorithm without a name throws.
GetSubtleCryptoForAlgorithm(a, scope, type) ==
  IF a.name = NoName THEN "error" ELSE Find(KindOf(a), WebCryptoToJwa(a), scope, type)

\* getKeyImportAlgorithm: keys of curves are imported with the curve of the JWK.
KeyImportAlgorithm(a, crv) ==
  CASE a.name \in {"ECDSA", "EdDSA"} -> [name |-> a.name, hash |-> a.hash, namedCurve |-> crv]
    [] a.name \in {"RSA-OAEP", "RSA-OAEP-256"} -> [name |-> "RSA-OAEP", hash |-> TextHash(256)]
    [] a.name = "AES-GCM" -> [name |-> a.name]
    [] OTHER -> [name |-> a.name, hash |-> a.hash]
-----------------------------------------------------------------------------
(* Names of the curve of secp256k1: "K-256" is what the library of the       *)
(* default plug-in knows; Key Vault has it as "P-256K".                       *)

Carrier == {"default", "elliptic", "vault"}

ImportTransform_none(p, crv) == crv
ImportTransform(p, crv) ==
  CASE p = "default" /\ crv \in {"P-256K", "SECP256K1"} -> "K-256"
    [] p = "vault" /\ crv = "P-256K" -> "SECP256K1"
    [] OTHER -> crv
ExportTransform(p, crv) ==
  IF p \in {"default", "vault"} /\ crv \in {"P-256K", "K-256"} THEN "SECP256K1" ELSE crv

\* importKey of the vault's provider knows two names, makes one of them and hands
\* the key on to the default plug-in.  The elliptic one looks at the algorithm.
Imports(p, crv) ==
  CASE p = "default" -> ImportTransform("default", crv) = "K-256"
    [] p = "vault" -> /\ crv \in {"SECP256K1", "P-256K"}
                      /\ ImportTransform("default", "P-256K") = "K-256"
    [] p = "elliptic" -> KeyImportAlgorithm(JwaToWebCrypto("ES256K"), crv).namedCurve
                           \in {"SECP256K1", "P-256K"}

\* The JWK that comes back: exported by the default plug-in, with the curve of the
\* key's algorithm, or exported by the default plug-in or read from the vault.
Exports(p, crv) ==
  CASE p = "default" -> {ExportTransform("default", "K-256")}
    [] p = "vault" -> {ExportTransform("default", "K-256"), "P-256K"}
    [] p = "elliptic" -> {crv}
-----------------------------------------------------------------------------
Init ==
  /\ factory \in {"CryptoFactoryNode", "CryptoFactoryBrowser", "CryptoFactoryKeyVault"}
  /\ registry = RegistryOf(factory)
  /\ jwk \in UNION {Exports(p, "SECP256K1") : p \in Carrier}
  /\ accepted = TRUE
  /\ added = 0

\* addMessageSigner, addKeyEncrypter and the like.
Add(kind, name, item) ==
  /\ added < MaxAdded
  /\ added' = added + 1
  /\ registry' = [registry EXCEPT ![kind] = Register(@, name, item)]
  /\ UNCHANGED <<factory, jwk, accepted>>

\* A key goes from the plug-in that wrote the JWK to another one and comes back.
Travel(p) ==
  LET crv == ImportTransform(p, jwk) IN
  /\ accepted
  /\ accepted' = Imports(p, crv)
  /\ jwk' \in Exports(p, crv)
  /\ UNCHANGED <<factory, registry, added>>

Next ==
  \/ \E kind \in Kind, name \in Names, item \in Items : Add(kind, name, item)
  \/ \E p \in Carrier : Travel(p)

Spec == Init /\ [][Next]_vars
-----------------------------------------------------------------------------
\* A plug-in that was found for an operation goes on being found for it, whatever
\* else is registered: a key is not moved to another library by a later plug-in.
AnswersStay ==
  [][registry' # registry =>
       \A kind \in Kind, name \in Names, scope \in Scope, type \in KeyType :
         Find(kind, name, scope, type) # "default" =>
           Find(kind, name, scope, type)' = Find(kind, name, scope, type)]_vars

\* The kinds of the algorithms of JOSE.  RSA-OAEP is RSA-OAEP-256 here, and HS384
\* and HS512 are HS256, so that what is registered for them is never found.
UseOf(jwa) ==
  CASE jwa \in {"RS256", "RS384", "RS512", "ES256K", "EdDSA"} -> "messageSigners"
    [] jwa = "RSA-OAEP-256" -> "keyEncrypters"
    [] jwa \in {"A128GCM", "A192GCM", "A256GCM"} -> "symmetricEncrypter"
    [] jwa = "HS256" -> "messageAuthenticationCodeSigners"
Jose == {"RS256", "RS384", "RS512", "ES256K", "EdDSA", "RSA-OAEP-256", "A128GCM",
         "A192GCM", "A256GCM", "HS256"}

\* An operation with an algorithm of JOSE goes to the plug-in that is registered
\* under its name: the way through the W3C names and back keeps the algorithm.
RegisteredNameIsFound ==
  \A jwa \in Jose, scope \in Scope, type \in KeyType :
    GetSubtleCryptoForAlgorithm(JwaToWebCrypto(jwa), scope, type)
      = Find(UseOf(jwa), jwa, scope, type)

\* The JWK of a key that went through any plug-ins is taken by all of them.
KeysTravel == accepted
=============================================================================
