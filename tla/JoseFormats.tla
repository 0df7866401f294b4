----------------------------- MODULE JoseFormats -----------------------------
(***************************************************************************)
(* JWS and JWE tokens of libs/protocol-jose and the forms in which they    *)
(* are written: serialize and deserialize of JwsToken and JweToken, and    *)
(* the choice between the two in JoseProtocol.                             *)
(*                                                                         *)
(* Bytes are written in base64url and read back as they were, so they      *)
(* stand for their encoding.  The encoding of a header matters, because a  *)
(* reader parses it: base64url of JSON, JSON text, or an object inside the *)
(* document.  A document is a record of its members or of the parts that   *)
(* its dots separate.  None is what is not there, and the result of an     *)
(* operation that throws.                                                  *)
(*                                                                         *)
(* A definition D_fault is D with a fault that the properties must notice; *)
(* no specification uses it.                                               *)
(***************************************************************************)
EXTENDS Naturals, SequencesExt

CONSTANT DotsIn   \* [kid -> the number of dots in it]

None == [none |-> TRUE]
Empty == [bytes |-> "none"]   \* a buffer without bytes, the empty string
Truthy(x) == x \notin {None, Empty}

\* A header map: a function from the names of its entries to their values.
Alg == "alg"
Kid == "kid"
Enc == "enc"
Typ == "typ"
EmptyHeader == [name \in {} |-> None]
Undefined == "undefined"
HasElements(header) == header # None /\ DOMAIN header # {}

\* JSON leaves out an entry whose value is undefined.
Defined(header) ==
  Restrict(header, {name \in DOMAIN header : header[name] # Undefined})

Base64(header) == [encoding |-> "base64", header |-> Defined(header)]
Text(header) == [encoding |-> "text", header |-> Defined(header)]
Object(header) == [encoding |-> "object", header |-> Defined(header)]

\* A header is written only when it has elements.
IfElements(header, encoded) == IF HasElements(header) THEN encoded ELSE None

\* JSON.parse throws on anything but the encoding it was told.
Parses(x, encoding) == x # None => Truthy(x) /\ x.encoding = encoding
Parsed(x, missing) == IF x = None THEN missing ELSE x.header

Has(w, member) == member \in DOMAIN w
IsCompact(w) == Has(w, "parts")

\* split('.') of the text of a document.  base64url has no dots, and of the
\* headers only a kid may have some.
DotsOf(x) ==
  IF x # None /\ x.encoding # "base64" /\ Kid \in DOMAIN x.header
  THEN DotsIn[x.header[Kid]] ELSE 0
DotsOfAll(entries) ==
  FoldFunction(+, 0, [i \in DOMAIN entries |-> DotsOf(entries[i].header)])
Dots(w) ==
  CASE IsCompact(w) -> Len(w.parts) - 1
    [] Has(w, "signatures") -> DotsOfAll(w.signatures)
    [] Has(w, "recipients") -> DotsOfAll(w.recipients) + DotsOf(w.unprotected)
    [] OTHER -> DotsOf(w.header)
-----------------------------------------------------------------------------
(* JwsToken. *)

SignatureEntry(s, header) ==
  [signature |-> s.signature, header |-> header,
   protected |-> IfElements(s.protected, Base64(s.protected))]

\* General JSON writes the header as a text in the document ...
JwsGeneral(t) ==
  LET entries == [i \in DOMAIN t.signatures |-> LET s == t.signatures[i] IN
                    SignatureEntry(s, IfElements(s.header, Text(s.header)))]
  IN IF \E i \in DOMAIN entries : entries[i].protected = None /\ entries[i].header = None
     THEN None ELSE [payload |-> t.payload, signatures |-> entries]

\* ... and flat JSON as an object.
JwsFlat(t) ==
  LET s == t.signatures[1]
  IN [payload |-> t.payload, signature |-> s.signature,
      header |-> IfElements(s.header, Object(s.header)),
      protected |-> IfElements(s.protected, Base64(s.protected))]

JwsCompact(t) ==
  LET p == t.signatures[1].protected
  IN [parts |-> <<IF HasElements(p) THEN Base64(p) ELSE Empty,
                  t.payload, t.signatures[1].signature>>]

JwsFormat == {"JwsGeneralJson", "JwsFlatJson", "JwsCompactJson"}
SerializeJws(t, format) ==
  CASE format = "JwsGeneralJson" -> JwsGeneral(t)
    [] format = "JwsFlatJson" -> JwsFlat(t)
    [] format = "JwsCompactJson" -> JwsCompact(t)

ReadsSignature(entry, headerEncoding) ==
  /\ entry.signature # None
  /\ Parses(entry.header, headerEncoding)
  /\ Parses(entry.protected, "base64")
  /\ entry.header # None \/ entry.protected # None
SignatureOf(entry) ==
  [signature |-> entry.signature, header |-> Parsed(entry.header, None),
   protected |-> Parsed(entry.protected, None)]

ReadJwsCompact(w) ==
  IF IsCompact(w) /\ Parses(w.parts[1], "base64")
  THEN [payload |-> w.parts[2],
        signatures |-> <<[signature |-> IF Len(w.parts) = 3 THEN w.parts[3] ELSE Empty,
                          header |-> None, protected |-> w.parts[1].header]>>]
  ELSE None
ReadJwsGeneral(w) ==
  IF /\ Truthy(w.payload)
     /\ w.signatures # << >>
     /\ \A i \in DOMAIN w.signatures : ReadsSignature(w.signatures[i], "text")
  THEN [payload |-> w.payload,
        signatures |-> [i \in DOMAIN w.signatures |-> SignatureOf(w.signatures[i])]]
  ELSE None
ReadJwsFlat_text(w) ==
  IF Truthy(w.payload) /\ Truthy(w.signature) /\ ReadsSignature(w, "text")
  THEN [payload |-> w.payload, signatures |-> <<SignatureOf(w)>>]
  ELSE None
ReadJwsFlat(w) ==
  IF Truthy(w.payload) /\ Truthy(w.signature) /\ ReadsSignature(w, "object")
  THEN [payload |-> w.payload, signatures |-> <<SignatureOf(w)>>]
  ELSE None

\* Whatever has one or two dots is taken for the compact form, also a JSON
\* document whose dots are in a kid.
DeserializeJws(w) ==
  CASE Dots(w) \in {1, 2} -> ReadJwsCompact(w)
    [] Dots(w) \notin {1, 2} /\ Has(w, "signatures") -> ReadJwsGeneral(w)
    [] Dots(w) \notin {1, 2} /\ Has(w, "signature") -> ReadJwsFlat(w)
    [] OTHER -> None
-----------------------------------------------------------------------------
(* JweToken. *)

RecipientEntry(r) ==
  [encrypted_key |-> r.encrypted_key, header |-> IfElements(r.header, Text(r.header))]

JweGeneral(t) ==
  [aad |-> t.aad, iv |-> t.iv, ciphertext |-> t.ciphertext, tag |-> t.tag,
   protected |-> IfElements(t.protected, Base64(t.protected)),
   unprotected |-> IfElements(t.unprotected, Text(t.unprotected)),
   recipients |-> [i \in DOMAIN t.recipients |-> RecipientEntry(t.recipients[i])]]

\* Flat JSON writes the unprotected header as the reader does not expect it.
JweFlat(t) ==
  LET r == t.recipients[1]
  IN [aad |-> t.aad, iv |-> t.iv, ciphertext |-> t.ciphertext, tag |-> t.tag,
      protected |-> IfElements(t.protected, Base64(t.protected)),
      unprotected |-> IfElements(t.unprotected, Base64(t.unprotected)),
      encrypted_key |-> r.encrypted_key,
      header |-> IfElements(r.header, Text(r.header))]

JweCompact(t) ==
  [parts |-> <<IF HasElements(t.protected) THEN Base64(t.protected) ELSE Empty,
               t.recipients[1].encrypted_key, t.iv, t.ciphertext, t.tag>>]

JweFormat == {"JweGeneralJson", "JweFlatJson", "JweCompactJson"}
SerializeJwe(t, format) ==
  CASE format = "JweGeneralJson" -> JweGeneral(t)
    [] format = "JweFlatJson" -> JweFlat(t)
    [] format = "JweCompactJson" -> JweCompact(t)

RecipientOf(entry) ==
  [encrypted_key |-> entry.encrypted_key, header |-> Parsed(entry.header, None)]
JweOf(w, recipients, tag) ==
  [protected |-> Parsed(w.protected, EmptyHeader),
   unprotected |-> Parsed(w.unprotected, EmptyHeader), recipients |-> recipients,
   aad |-> w.aad, iv |-> w.iv, ciphertext |-> w.ciphertext, tag |-> tag]
ReadsHeaders(w) == Parses(w.protected, "base64") /\ Parses(w.unprotected, "text")

\* The additional data of a compact token is its protected header.
ReadJweCompact(w) ==
  IF IsCompact(w) /\ Parses(w.parts[1], "base64")
  THEN [protected |-> w.parts[1].header, unprotected |-> EmptyHeader,
        recipients |-> <<[encrypted_key |-> w.parts[2], header |-> None]>>,
        aad |-> w.parts[1], iv |-> w.parts[3], ciphertext |-> w.parts[4],
        tag |-> w.parts[5]]
  ELSE None
ReadJweGeneral(w) ==
  IF /\ \A x \in {w.ciphertext, w.aad, w.iv, w.tag} : x # None
     /\ ReadsHeaders(w)
     /\ w.recipients # << >>
     /\ \A i \in DOMAIN w.recipients : /\ w.recipients[i].encrypted_key # None
                                       /\ Parses(w.recipients[i].header, "text")
  THEN JweOf(w, [i \in DOMAIN w.recipients |-> RecipientOf(w.recipients[i])], w.tag)
  ELSE None

\* The tag of a flat document is not read, and the additional data is optional.
ReadJweFlat(w) ==
  IF /\ Truthy(w.ciphertext) /\ Truthy(w.encrypted_key) /\ Truthy(w.iv)
     /\ ReadsHeaders(w) /\ Parses(w.header, "text")
  THEN [JweOf(w, <<RecipientOf(w)>>, Empty) EXCEPT !.aad = IF @ = None THEN Empty ELSE @]
  ELSE None

DeserializeJwe(w) ==
  CASE Dots(w) = 4 -> ReadJweCompact(w)
    [] Dots(w) # 4 /\ Has(w, "recipients") -> ReadJweGeneral(w)
    [] Dots(w) # 4 /\ Has(w, "ciphertext") /\ ~Has(w, "recipients") -> ReadJweFlat(w)
    [] OTHER -> None
-----------------------------------------------------------------------------
(* JoseProtocol. *)

\* serialize and deserialize with a format.
Serialize(t, format) ==
  CASE format \in JwsFormat -> SerializeJws(t, format)
    [] format \in JweFormat -> SerializeJwe(t, format)
Deserialize(w, format) ==
  IF format \in JwsFormat THEN DeserializeJws(w) ELSE DeserializeJwe(w)

\* The static deserialize finds out the format, which the token keeps.
FormatOf(w) ==
  CASE Dots(w) = 2 -> "JwsCompactJson"
    [] Dots(w) = 4 -> "JweCompactJson"
    [] Dots(w) \notin {2, 4} /\ Has(w, "signatures") -> "JwsGeneralJson"
    [] Dots(w) \notin {2, 4} /\ Has(w, "signature") -> "JwsFlatJson"
    [] Dots(w) \notin {2, 4} /\ Has(w, "recipients") -> "JweGeneralJson"
    [] Dots(w) \notin {2, 4} /\ Has(w, "ciphertext") /\ ~Has(w, "recipients") ->
         "JweFlatJson"
DeserializeAny(w) == Deserialize(w, FormatOf(w))
-----------------------------------------------------------------------------
(* What a reader of a document should see of the token. *)

Seen(header, missing) == IF HasElements(header) THEN Defined(header) ELSE missing

\* Compact shows the protected header of the first signature only, flat JSON the
\* first signature, general JSON everything.
SeenSignature(s) ==
  [signature |-> s.signature, header |-> Seen(s.header, None),
   protected |-> Seen(s.protected, None)]
SeenJws(t, format) ==
  [payload |-> t.payload,
   signatures |->
     CASE format = "JwsGeneralJson" ->
            [i \in DOMAIN t.signatures |-> SeenSignature(t.signatures[i])]
       [] format = "JwsFlatJson" -> <<SeenSignature(t.signatures[1])>>
       [] format = "JwsCompactJson" ->
            <<[SeenSignature(t.signatures[1]) EXCEPT !.header = None]>>]

\* JSON needs a payload, a header on each signature, and kids without the dots
\* that make the document look compact; compact needs a protected header.
JwsReadable(t, format) ==
  LET headed(s) == HasElements(s.protected) \/ HasElements(s.header)
      w == SerializeJws(t, format)
  IN CASE format = "JwsGeneralJson" ->
            /\ Truthy(t.payload)
            /\ \A i \in DOMAIN t.signatures : headed(t.signatures[i])
            /\ Dots(w) \notin {1, 2}
       [] format = "JwsFlatJson" ->
            /\ Truthy(t.payload) /\ Truthy(t.signatures[1].signature)
            /\ headed(t.signatures[1])
            /\ Dots(w) \notin {1, 2}
       [] format = "JwsCompactJson" -> HasElements(t.signatures[1].protected)

\* Flat JSON loses the tag, without which nothing decrypts; the additional data
\* of compact is the protected header that is printed.
SeenRecipient(r) ==
  [encrypted_key |-> r.encrypted_key, header |-> Seen(r.header, None)]
SeenJwe(t, format) ==
  LET sees(recipients, unprotected, aad, tag) ==
        [protected |-> Seen(t.protected, EmptyHeader), unprotected |-> unprotected,
         recipients |-> recipients, aad |-> aad, iv |-> t.iv,
         ciphertext |-> t.ciphertext, tag |-> tag]
      unprotected == Seen(t.unprotected, EmptyHeader)
      first == SeenRecipient(t.recipients[1])
  IN CASE format = "JweGeneralJson" ->
            sees([i \in DOMAIN t.recipients |-> SeenRecipient(t.recipients[i])],
                 unprotected, t.aad, t.tag)
       [] format = "JweFlatJson" -> sees(<<first>>, unprotected, t.aad, Empty)
       [] format = "JweCompactJson" ->
            sees(<<[first EXCEPT !.header = None]>>, EmptyHeader, Base64(t.protected),
                 t.tag)

\* Flat JSON needs a cipher text and no unprotected header.
JweReadable(t, format) ==
  CASE format = "JweGeneralJson" -> Dots(SerializeJwe(t, format)) # 4
    [] format = "JweFlatJson" -> /\ Dots(SerializeJwe(t, format)) # 4
                                 /\ Truthy(t.ciphertext)
                                 /\ ~HasElements(t.unprotected)
    [] format = "JweCompactJson" -> HasElements(t.protected)
=============================================================================
