---------------------------- MODULE TokenExchange ----------------------------
(***************************************************************************)
(* JoseProtocol and JwtProtocol of libs/protocol-jose: asynchronous        *)
(* callers sign, encrypt and decrypt with one options object.  Header maps *)
(* in the options are taken by reference: sign and encrypt write on them,  *)
(* and the tokens made before show what is written.                        *)
(*                                                                         *)
(* An action of a call runs it to its next await, or to one after which    *)
(* it only waits for the cryptography.  Keys to sign with do not change;   *)
(* SigningSession is about those.                                          *)
(*                                                                         *)
(* A definition D_fault is D with a fault that the properties must notice; *)
(* no specification uses it.                                               *)
(***************************************************************************)
EXTENDS JoseFormats

CONSTANTS
  Caller,       \* asynchronous users of the options
  Payload,      \* what they sign and encrypt
  SigningKey,   \* keys to sign with, [id, kid, alg]
  Reference,    \* references to keys to decrypt with
  Key,          \* those keys, [id, kid, kty, alg]
  FirstKeys,    \* what the references may refer to at first, [Reference -> Key]
  Recipients,   \* the lists of references that are encrypted for
  Options,      \* the header maps that the options start with, or None
  MaxKeys,      \* bound on the keys of all references
  MaxTokens     \* bound on the number of encrypt calls

\* Header maps with the entries that the properties tell apart.
HeaderName == {Alg, Enc, Kid, Typ}
HeaderValue ==
  {"", "JWT", "A256GCM", "RSA-OAEP-256"} \cup {k.alg : k \in SigningKey \cup Key}
    \cup {k.kid : k \in SigningKey \cup Key}
Header == UNION {[names -> HeaderValue] : names \in SUBSET HeaderName}
OptionsOfUser == [protected : Header \cup {None}, header : Header \cup {None}]

\* A key to sign with has an algorithm, its own or else ES256K, and an empty kid
\* is no kid.
ASSUME ConstantsAssumption ==
  /\ MaxKeys \in Nat /\ MaxTokens \in Nat
  /\ \A rs \in Recipients : rs \in Seq(Reference) \ {<< >>}
  /\ FirstKeys \subseteq [Reference -> Key]
  /\ Options \subseteq OptionsOfUser
  /\ \A k \in SigningKey : k.alg \notin {"", Undefined} /\ k.kid # ""

VARIABLES
  options,   \* [protected, header], the maps that the options hold, or None
  keys,      \* [Reference -> its container, the newest key last]
  call,      \* [Caller -> where its running call is suspended]
  made,      \* the last token that was signed or encrypted
  opened,    \* the outcome of the last decrypt
  minted,    \* history: the number of encrypt calls
  uses       \* history: who wrote on the protected map, and a sign's algorithm there

vars == <<options, keys, call, made, opened, minted, uses>>

Idle == [pc |-> "idle"]
Suspend(c, r) == call' = [call EXCEPT ![c] = r]
Return(c) == Suspend(c, Idle)

Init ==
  /\ options \in Options
  /\ \E first \in FirstKeys : keys = [r \in Reference |-> <<first[r]>>]
  /\ call = [c \in Caller |-> Idle]
  /\ made = None
  /\ opened = None
  /\ minted = 0
  /\ uses = {}
-----------------------------------------------------------------------------
(* Header maps. *)

\* getProtected and getHeader: the map of the options, or else a new one.
MapOf(name) == IF options[name] = None THEN EmptyHeader ELSE options[name]
Shared(name) == [map |-> name]
RefOf(name, header) == IF options[name] = None THEN header ELSE Shared(name)
Write(name, header) == IF options[name] = None THEN None ELSE header

\* What a token's header shows now.
Deref(header) ==
  CASE header = Shared("protected") -> options.protected
    [] header = Shared("header") -> options.header
    [] OTHER -> header

Set(header, name, value) ==
  [n \in {name} \cup (DOMAIN header \ {name}) |-> IF n = name THEN value ELSE header[n]]

Fill_overwrites(header, name, value) ==
  IF value = Undefined THEN Restrict(header, DOMAIN header \ {name})
  ELSE Set(header, name, value)

\* An entry that is there stays, unless it was left to be filled in.
Fill(header, name, value) ==
  IF name \in DOMAIN header /\ header[name] # "" THEN header
  ELSE IF value = Undefined THEN Restrict(header, DOMAIN header \ {name})
  ELSE Set(header, name, value)

\* alg goes on the header that asks for it, else on the protected header,
\* where it replaces what is there; kid goes on both.
SignHeader(header, key) ==
  Fill(IF Alg \in DOMAIN header THEN Fill(header, Alg, key.alg) ELSE header,
       Kid, key.kid)
SignProtected_trustsHeader(protected, header, key) ==
  Fill(IF Alg \in DOMAIN header THEN protected ELSE Set(protected, Alg, key.alg),
       Kid, key.kid)
SignProtected(protected, header, key) ==
  LET p == IF Alg \in DOMAIN header THEN protected
           ELSE Set(protected, Alg, key.alg)
  IN Fill(Fill(p, Alg, key.alg), Kid, key.kid)
-----------------------------------------------------------------------------
(* sign. *)

SignStart(c, key, payload, jwt) ==
  /\ call[c].pc = "idle"
  /\ Suspend(c, [pc |-> "signing", key |-> key, payload |-> payload, jwt |-> jwt])
  /\ UNCHANGED <<options, keys, made, opened, minted, uses>>

\* What verify takes for the algorithm.
AlgOf(s) ==
  IF s.protected # None /\ Alg \in DOMAIN s.protected THEN s.protected[Alg]
  ELSE IF s.header # None /\ Alg \in DOMAIN s.header THEN s.header[Alg]
  ELSE None

Signature(key, alg, protected, payload) ==
  [key |-> key, alg |-> alg, input |-> <<Base64(protected), payload>>]

\* The public key has come.  A JWT gets a protected header of its own, whatever
\* the options say.
SignHeaders(c) ==
  LET key == call[c].key
      jwt == call[c].jwt
      header == SignHeader(MapOf("header"), key)
      protected == SignProtected(
        IF jwt THEN [n \in {Typ} |-> "JWT"] ELSE MapOf("protected"),
        MapOf("header"), key)
      entry == [protected |-> IF jwt THEN protected ELSE RefOf("protected", protected),
                header |-> RefOf("header", header),
                signature |-> Signature(key, key.alg, protected, call[c].payload)]
  IN
  /\ call[c].pc = "signing"
  /\ options' = [protected |-> IF jwt THEN options.protected
                               ELSE Write("protected", protected),
                 header |-> Write("header", header)]
  /\ uses' = IF jwt THEN uses
             ELSE uses \cup {[sign |-> AlgOf([protected |-> protected, header |-> header])]}
  /\ Suspend(c, [pc |-> "signed", key |-> key,
                 token |-> [payload |-> call[c].payload, signatures |-> <<entry>>]])
  /\ UNCHANGED <<keys, made, opened, minted>>

SignResolved(c) ==
  /\ call[c].pc = "signed"
  /\ made' = [jws |-> TRUE, key |-> call[c].key, token |-> call[c].token]
  /\ Return(c)
  /\ UNCHANGED <<options, keys, opened, minted, uses>>

\* Whether one of the signatures is the key's over what the token shows.
Verifies(t, key) ==
  \E i \in DOMAIN t.signatures : LET s == t.signatures[i] IN
    /\ s.protected # None
    /\ s.signature = Signature(key, AlgOf(s), s.protected, t.payload)
-----------------------------------------------------------------------------
(* encrypt. *)

Newest(r) == Last(keys[r])

EncryptStart(c, rs, payload) ==
  /\ call[c].pc = "idle"
  /\ minted < MaxTokens
  /\ minted' = minted + 1
  /\ Suspend(c, [pc |-> "encrypting", id |-> minted', payload |-> payload,
                 keys |-> [i \in DOMAIN rs |-> Newest(rs[i])]])
  /\ UNCHANGED <<options, keys, made, opened, uses>>

\* The first recipient whose key is for RSA-OAEP-256 decides on the algorithm
\* and the protected kid for all, else the first one.
Chosen(recipients) ==
  LET oaep == SelectInSeq(recipients, LAMBDA k : k.alg = "RSA-OAEP-256")
  IN recipients[IF oaep = 0 THEN 1 ELSE oaep]

RsaOaep == {"RSA-OAEP", "RSA-OAEP-256"}

\* Without an algorithm of its own an EC key is refused, and RSA gets a default.
KeyAlg(key) == IF key.alg = Undefined THEN "RSA-OAEP-256" ELSE key.alg

\* The content key and the initial vector have been generated.
EncryptHeaders(c) ==
  LET chosen == Chosen(call[c].keys)
      set == Set(Set(MapOf("protected"), Alg, KeyAlg(chosen)), Enc, "A256GCM")
      protected == IF chosen.kid = Undefined THEN set ELSE Set(set, Kid, chosen.kid)
  IN
  /\ call[c].pc = "encrypting"
  /\ IF chosen.alg = Undefined /\ chosen.kty = "EC"
     THEN Return(c) /\ UNCHANGED <<options, uses>>
     ELSE /\ options' = [options EXCEPT !.protected = Write("protected", protected)]
          /\ uses' = uses \cup {[encrypt |-> call[c].id]}
          /\ Suspend(c, [pc |-> "wrapping", id |-> call[c].id,
                         keys |-> call[c].keys, payload |-> call[c].payload,
                         protected |-> RefOf("protected", protected),
                         aad |-> Base64(protected), recipients |-> << >>])
  /\ UNCHANGED <<keys, made, opened, minted>>

Tag(id, aad, payload) == [key |-> id, iv |-> id, aad |-> aad, payload |-> payload]
Jwe(r) ==
  [protected |-> r.protected, unprotected |-> EmptyHeader,
   recipients |-> r.recipients, aad |-> r.aad, iv |-> [iv |-> r.id],
   ciphertext |-> IF r.payload = Empty THEN Empty ELSE [cipher |-> r.payload],
   tag |-> Tag(r.id, r.aad, r.payload)]

\* The content key is encrypted for one more recipient: with RSA-OAEP, or not at
\* all.
EncryptWrapped(c) ==
  LET r == call[c]
      key == r.keys[Len(r.recipients) + 1]
      entry == [header |-> [n \in {Kid} |-> key.kid],
                encrypted_key |-> [wrapped |-> r.id, for |-> key.id]]
  IN
  /\ r.pc = "wrapping"
  /\ Len(r.recipients) < Len(r.keys)
  /\ IF key.kty = "RSA" /\ KeyAlg(Chosen(r.keys)) \in RsaOaep
     THEN Suspend(c, [r EXCEPT !.recipients = Append(@, entry)])
     ELSE Return(c)
  /\ UNCHANGED <<options, keys, made, opened, minted, uses>>

EncryptResolved(c) ==
  /\ call[c].pc = "wrapping"
  /\ Len(call[c].recipients) = Len(call[c].keys)
  /\ made' = [jws |-> FALSE, keys |-> call[c].keys, id |-> call[c].id,
              payload |-> call[c].payload, token |-> Jwe(call[c])]
  /\ Return(c)
  /\ UNCHANGED <<options, keys, opened, minted, uses>>
-----------------------------------------------------------------------------
(* decrypt. *)

\* What a token shows now to whoever serializes it.
NowSigned(s) ==
  [protected |-> Deref(s.protected), header |-> Deref(s.header),
   signature |-> s.signature]
Now(m) ==
  IF m.jws
  THEN [m.token EXCEPT !.signatures = [i \in DOMAIN @ |-> NowSigned(@[i])]]
  ELSE [m.token EXCEPT !.protected = Deref(@)]

\* The holder of r is owed the payload: the token is printed and read in a form
\* that keeps the holder's entry, which its kid or its place tells from the
\* others, the key is still the newest, and nothing but the encrypt wrote on
\* the protected map.
Due(m, r, format) ==
  /\ format # "JweFlatJson"
  /\ \E i \in DOMAIN m.keys :
       /\ m.keys[i] = Newest(r)
       /\ \/ i = 1
          \/ /\ format = "JweGeneralJson"
             /\ m.keys[i].kid # Undefined
             /\ \A j \in 1..(i - 1) : m.keys[j].kid # m.keys[i].kid
  /\ options.protected = None \/ uses = {[encrypt |-> m.id]}

DecryptStart(c, r, format) ==
  LET t == Deserialize(Serialize(Now(made), format), format) IN
  /\ call[c].pc = "idle"
  /\ made # None /\ ~made.jws
  /\ t # None
  /\ Suspend(c, [pc |-> "opening", token |-> t, ref |-> r,
                 due |-> Due(made, r, format), payload |-> made.payload])
  /\ UNCHANGED <<options, keys, made, opened, minted, uses>>

\* The recipient that is tried: the first whose kid is that of the key, else the
\* first of all.  A failed attempt rejects the call, so none other is tried.
Attempt_firstRecipient(t, key) == t.recipients[1]
Attempt(t, key) ==
  LET match == SelectInSeq(t.recipients, LAMBDA r :
        /\ key.kid # Undefined
        /\ r.header # None /\ Kid \in DOMAIN r.header
        /\ r.header[Kid] = key.kid)
  IN t.recipients[IF match = 0 THEN 1 ELSE match]
DecryptAlg(t, recipient) ==
  IF recipient.header # None /\ Alg \in DOMAIN recipient.header
  THEN recipient.header[Alg] ELSE t.protected[Alg]

DecryptPick(c) ==
  LET r == call[c] IN
  /\ r.pc = "opening"
  /\ Suspend(c, [pc |-> "unwrapping", token |-> r.token, ref |-> r.ref, due |-> r.due,
                 payload |-> r.payload, recipient |-> Attempt(r.token, Newest(r.ref))])
  /\ UNCHANGED <<options, keys, made, opened, minted, uses>>

\* decryptByKeyStore reads the key once more.  What comes out is the content
\* key, and the tag must be right for it.
Decrypts(t, recipient, key) ==
  /\ DecryptAlg(t, recipient) \in RsaOaep
  /\ key.kty = "RSA"
  /\ recipient.encrypted_key.for = key.id
  /\ \E p \in Payload :
       /\ t.ciphertext = IF p = Empty THEN Empty ELSE [cipher |-> p]
       /\ t.tag = Tag(recipient.encrypted_key.wrapped, t.aad, p)
       /\ t.iv = [iv |-> t.tag.iv]

DecryptResolved(c) ==
  LET r == call[c]
      t == r.token IN
  /\ r.pc = "unwrapping"
  /\ opened' = [due |-> r.due, expected |-> r.payload,
                payload |-> IF Decrypts(t, r.recipient, Newest(r.ref))
                            THEN t.tag.payload ELSE None]
  /\ Return(c)
  /\ UNCHANGED <<options, keys, made, minted, uses>>
-----------------------------------------------------------------------------
\* A new version of a decryption key is saved.  Whoever is decrypting with it is
\* owed nothing any more.
Rotate(r, k) ==
  /\ FoldFunction(+, 0, [q \in Reference |-> Len(keys[q])]) < MaxKeys
  /\ keys' = [keys EXCEPT ![r] = Append(@, k)]
  /\ call' = [c \in Caller |->
       IF call[c].pc \in {"opening", "unwrapping"} /\ call[c].ref = r
       THEN [call[c] EXCEPT !.due = FALSE] ELSE call[c]]
  /\ UNCHANGED <<options, made, opened, minted, uses>>

\* A key cannot be read, or the cryptography fails.
Rejected(c) ==
  /\ call[c].pc \in {"signing", "signed", "encrypting", "wrapping", "opening", "unwrapping"}
  /\ Return(c)
  /\ UNCHANGED <<options, keys, made, opened, minted, uses>>

Next ==
  \/ \E r \in Reference, k \in Key : Rotate(r, k)
  \/ \E c \in Caller :
       \/ \E key \in SigningKey, p \in Payload, jwt \in BOOLEAN : SignStart(c, key, p, jwt)
       \/ \E rs \in Recipients, p \in Payload : EncryptStart(c, rs, p)
       \/ \E r \in Reference, f \in JweFormat : DecryptStart(c, r, f)
       \/ SignHeaders(c) \/ SignResolved(c)
       \/ EncryptHeaders(c) \/ EncryptWrapped(c) \/ EncryptResolved(c)
       \/ DecryptPick(c) \/ DecryptResolved(c)
       \/ Rejected(c)

Spec == Init /\ [][Next]_vars
-----------------------------------------------------------------------------
Ref(name) == Header \cup {Shared(name)}
Buffer == {Empty} \cup Payload
Encoded == [encoding : {"base64"}, header : Header]
SignatureOfToken ==
  [protected : Ref("protected"), header : Ref("header"),
   signature : [key : SigningKey, alg : HeaderValue, input : Encoded \X Payload]]
JwsToken == [payload : Payload, signatures : Seq(SignatureOfToken)]
JweRecipient ==
  [header : {None} \cup [{Kid} -> HeaderValue] \cup {EmptyHeader},
   encrypted_key : [wrapped : 1..MaxTokens, for : {k.id : k \in Key}]]
JweToken ==
  [protected : Ref("protected"), unprotected : {EmptyHeader},
   recipients : Seq(JweRecipient), aad : Encoded, iv : [iv : 1..MaxTokens],
   ciphertext : {Empty} \cup [cipher : Payload],
   tag : {Empty} \cup [key : 1..MaxTokens, iv : 1..MaxTokens, aad : Encoded,
                       payload : Payload]]

SigningCall == [pc : {"signing"}, key : SigningKey, payload : Payload, jwt : BOOLEAN]
SignedCall == [pc : {"signed"}, key : SigningKey, token : JwsToken]
EncryptingCall ==
  [pc : {"encrypting"}, id : 1..MaxTokens, payload : Payload, keys : Seq(Key)]
WrappingCall ==
  [pc : {"wrapping"}, id : 1..MaxTokens, payload : Payload, keys : Seq(Key),
   protected : Ref("protected"), aad : Encoded, recipients : Seq(JweRecipient)]
OpeningCall ==
  [pc : {"opening"}, token : JweToken, ref : Reference, due : BOOLEAN, payload : Payload]
UnwrappingCall ==
  [pc : {"unwrapping"}, token : JweToken, ref : Reference, due : BOOLEAN,
   payload : Payload, recipient : JweRecipient]
Call == {Idle} \cup SigningCall \cup SignedCall \cup EncryptingCall
          \cup WrappingCall \cup OpeningCall \cup UnwrappingCall

Jws == [jws : {TRUE}, key : SigningKey, token : JwsToken]
JweMade ==
  [jws : {FALSE}, keys : Seq(Key), id : 1..MaxTokens, payload : Payload,
   token : JweToken]

Types ==
  /\ options \in OptionsOfUser
  /\ keys \in [Reference -> Seq(Key) \ {<< >>}]
  /\ call \in [Caller -> Call]
  /\ made \in {None} \cup Jws \cup JweMade
  /\ opened \in {None} \cup [due : BOOLEAN, expected : Payload,
                             payload : Payload \cup {None}]
  /\ minted \in 0..MaxTokens
  /\ uses \subseteq [sign : HeaderValue] \cup [encrypt : 1..MaxTokens]

AlgIsShown ==
  made # None =>
    IF made.jws
    THEN \A i \in DOMAIN Now(made).signatures :
           Alg \in DOMAIN Now(made).signatures[i].protected
    ELSE Alg \in DOMAIN Now(made).protected /\ made.token.recipients # << >>

\* Every variable has its type, and every token has a protected algorithm and a
\* recipient or a signature, so that a token refers to the map of the options only
\* if they have one.
TypeOK == Types /\ AlgIsShown

\* What is printed of a token is what a reader sees of it, in every form that can
\* hold it, whatever is being written on the maps meanwhile.  Where a form cannot
\* hold it (deserialize takes the dots of a kid for those of the compact form, or a
\* member is missing) the document is refused, never read as another token.
PrintedIsRead ==
  made # None =>
    IF made.jws
    THEN \A f \in JwsFormat : Deserialize(Serialize(Now(made), f), f) =
           IF JwsReadable(Now(made), f) THEN SeenJws(Now(made), f) ELSE None
    ELSE \A f \in JweFormat : Deserialize(Serialize(Now(made), f), f) =
           IF JweReadable(Now(made), f) THEN SeenJwe(Now(made), f) ELSE None

\* The signature of a token fits what the token shows, in every form that can be
\* read back.  That of a JWT always does; another one as long as the protected map
\* of the options was only used to sign, its algorithm was the key's whenever it
\* was, and the key has a kid: one that is missing is filled in by a later sign.
SignedTokenVerifies ==
  made # None /\ made.jws
    /\ (\/ made.token.signatures[1].protected # Shared("protected")
        \/ /\ \A x \in uses : x = [sign |-> made.key.alg]
           /\ made.key.kid # Undefined)
  => \A f \in JwsFormat :
       LET t == DeserializeAny(Serialize(Now(made), f))
       IN t # None => Verifies(t, made.key)

\* A recipient whose key is current, and who can be told from the others, gets
\* the payload of a token that was printed in general or compact form before
\* anything else was written on the map; nobody ever gets anything else.
RecipientDecrypts ==
  opened # None =>
    IF opened.due THEN opened.payload = opened.expected
    ELSE opened.payload \in {None, opened.expected}
=============================================================================
