----------------------------- MODULE JoseSession -----------------------------
(***************************************************************************)
(* One Jose object of libs/sdk with its JSON-LD proof suite, used by       *)
(* several asynchronous callers: Crypto builds one per protocol and every  *)
(* user of the Crypto object shares it.  The signing key is fixed here;    *)
(* SigningSession is about which key signs and verifies.                   *)
(*                                                                         *)
(* What is signed is a content: an object of a caller with the id on it.    *)
(* Under JSON-LD the id is the embedded proof, whose nonce is new at every *)
(* sign; under JWT it is the claims jti, nbf and exp, which sign adds to   *)
(* the caller's object; under plain JOSE nothing is added.                 *)
(*                                                                         *)
(* An action of a call runs it to its next await.                          *)
(*                                                                         *)
(* A definition D_fault is D with a fault that the properties must notice; *)
(* no specification uses it.                                               *)
(***************************************************************************)
EXTENDS Naturals

CONSTANTS
  Caller,      \* asynchronous users of the Jose object
  Payload,     \* the objects they sign
  Protocol,    \* "JOSE", "JWT" or "JSONLD"
  JsonFormat,  \* whether the serialization format is flat or general JSON
  Foreign,     \* documents that come from elsewhere, none properly signed
  MaxId        \* bound on the number of ids handed out

None == [none |-> TRUE]
NoId == 0
Content == [payload : Payload, id : 0..MaxId]

\* A serialized document: a JSON-LD credential with its proof or a JWS, as JSON
\* or in the compact form; the content it shows and the content its signature
\* was made for.
Doc == {d \in [ld : BOOLEAN, json : BOOLEAN, content : Content,
               sig : Content \cup {None}] : d.ld => d.json}

ASSUME ConstantsAssumption ==
  /\ Protocol \in {"JOSE", "JWT", "JSONLD"}
  /\ JsonFormat \in BOOLEAN
  /\ MaxId \in Nat
  /\ Foreign \subseteq Doc
  /\ \A d \in Foreign : d.sig # d.content

VARIABLES
  id,          \* [Payload -> the id on the caller's object]
  proofSig,    \* [id -> signatureValue of the proof with that id]
  jsonLdProofObject,  \* None, the caller's object, or a parsed document
  token,       \* None or the JWS last signed or deserialized
  signaturePayload,   \* None or the content of the JWS last deserialized
  call,        \* [Caller -> where its running call is suspended]
  printed,     \* None or the document that serialize returned last
  verdict,     \* [Caller -> the last outcome of its verify]
  minted,      \* history: the number of ids handed out
  signed,      \* history: the contents that were signed
  own,         \* history: [Caller -> the content it signed last, as long as
               \*   no other call has touched its object or the Jose object]
  last         \* history: what was last signed or deserialized

history == <<minted, signed, own, last>>
slots == <<jsonLdProofObject, token, signaturePayload>>
vars == <<id, proofSig, slots, call, printed, verdict, history>>

Idle == [pc |-> "idle"]
Object(p) == [object |-> p]
Objects == {Object(p) : p \in Payload}

Suspend(c, r) == call' = [call EXCEPT ![c] = r]
Return(c) == Suspend(c, Idle)

ContentOf(p) == [payload |-> p, id |-> id[p]]
SignedBy(x) == [ld |-> FALSE, json |-> JsonFormat, content |-> x, sig |-> x]

Init ==
  /\ id = [p \in Payload |-> NoId]
  /\ proofSig = [i \in 1..MaxId |-> None]
  /\ jsonLdProofObject = None
  /\ token = None
  /\ signaturePayload = None
  /\ call = [c \in Caller |-> Idle]
  /\ printed = None
  /\ verdict = [c \in Caller |-> None]
  /\ minted = 0
  /\ signed = {}
  /\ own = [c \in Caller |-> None]
  /\ last = None
-----------------------------------------------------------------------------
(* sign under JSON-LD: Jose.sign and SuiteJcsEd25519Signature2020.sign. *)

SigningLd(c, p) ==
  call[c].pc \in {"ldSigning", "ldSigned"} /\ call[c].content.payload = p

\* "alone" remembers that no other sign of the object has overlapped this one.
LdSignBegins(c, p, x) ==
  /\ call' = [d \in Caller |->
       IF d = c THEN [pc |-> "ldSigning", content |-> x,
                      alone |-> \A e \in Caller : ~SigningLd(e, p)]
       ELSE IF SigningLd(d, p) THEN [call[d] EXCEPT !.alone = FALSE]
       ELSE call[d]]
  /\ own' = [d \in Caller |->
       IF d = c \/ (own[d] # None /\ own[d].payload = p) THEN None ELSE own[d]]

LdSignStart_dataBeforeProof(c, p) ==
  /\ Protocol = "JSONLD"
  /\ call[c].pc = "idle"
  /\ minted < MaxId
  /\ minted' = minted + 1
  /\ id' = [id EXCEPT ![p] = minted']
  /\ LdSignBegins(c, p, ContentOf(p))
  /\ UNCHANGED <<proofSig, slots, printed, verdict, signed, last>>

\* createVerifyData puts a new proof on the caller's object, in the place of
\* an old one, and canonizes the object with it.
LdSignStart(c, p) ==
  /\ Protocol = "JSONLD"
  /\ call[c].pc = "idle"
  /\ minted < MaxId
  /\ minted' = minted + 1
  /\ id' = [id EXCEPT ![p] = minted']
  /\ LdSignBegins(c, p, [payload |-> p, id |-> minted'])
  /\ UNCHANGED <<proofSig, slots, printed, verdict, signed, last>>

\* The signature is there and is written on the proof that the object has now.
LdSigned(c) ==
  LET x == call[c].content IN
  /\ call[c].pc = "ldSigning"
  /\ proofSig' = [proofSig EXCEPT ![id[x.payload]] = x]
  /\ signed' = signed \cup {x}
  /\ Suspend(c, [call[c] EXCEPT !.pc = "ldSigned"])
  /\ UNCHANGED <<id, slots, printed, verdict, minted, own, last>>

\* The suite's promise resolved: the Jose object keeps the caller's object.
LdSignReturned(c) ==
  LET x == call[c].content IN
  /\ call[c].pc = "ldSigned"
  /\ jsonLdProofObject' = Object(x.payload)
  /\ last' = Object(x.payload)
  /\ own' = [d \in Caller |-> IF d = c /\ call[c].alone THEN x ELSE None]
  /\ Return(c)
  /\ UNCHANGED <<id, proofSig, token, signaturePayload, printed, verdict,
                 minted, signed>>
-----------------------------------------------------------------------------
(* sign under JOSE and JWT. *)

SetClaims_always(p) ==
  /\ minted < MaxId
  /\ minted' = minted + 1
  /\ id' = [id EXCEPT ![p] = minted']

\* nbf, exp and jti are added to the caller's object when it has none.
SetClaims(p) ==
  IF Protocol = "JWT" /\ id[p] = NoId
  THEN /\ minted < MaxId
       /\ minted' = minted + 1
       /\ id' = [id EXCEPT ![p] = minted']
  ELSE UNCHANGED <<minted, id>>

\* The object is serialized before the first await.
JwsSignStart(c, p) ==
  /\ Protocol # "JSONLD"
  /\ call[c].pc = "idle"
  /\ SetClaims(p)
  /\ Suspend(c, [pc |-> "jwsSigning", content |-> ContentOf(p)'])
  /\ UNCHANGED <<proofSig, slots, printed, verdict, signed, own, last>>

JwsSigned_keepsToken(c) ==
  LET t == SignedBy(call[c].content) IN
  /\ call[c].pc = "jwsSigning"
  /\ token' = IF token = None THEN t ELSE token
  /\ last' = t
  /\ signed' = signed \cup {t.content}
  /\ own' = [d \in Caller |-> IF d = c THEN t.content ELSE None]
  /\ Return(c)
  /\ UNCHANGED <<id, proofSig, jsonLdProofObject, signaturePayload, printed,
                 verdict, minted>>

JwsSigned(c) ==
  LET t == SignedBy(call[c].content) IN
  /\ call[c].pc = "jwsSigning"
  /\ token' = t
  /\ last' = t
  /\ signed' = signed \cup {t.content}
  /\ own' = [d \in Caller |-> IF d = c THEN t.content ELSE None]
  /\ Return(c)
  /\ UNCHANGED <<id, proofSig, jsonLdProofObject, signaturePayload, printed,
                 verdict, minted>>
-----------------------------------------------------------------------------
(* serialize and deserialize. *)

\* A document as it stands now: the caller's object is shown as it is.
Shown(x) ==
  IF x \in Objects
  THEN [ld |-> TRUE, json |-> TRUE, content |-> ContentOf(x.object),
        sig |-> proofSig[id[x.object]]]
  ELSE x

\* A token prints in the format of the builder, whichever it was parsed from.
Printed ==
  IF Protocol = "JSONLD" THEN Shown(jsonLdProofObject)
  ELSE IF token = None THEN None ELSE [token EXCEPT !.json = JsonFormat]

Serialize(c) ==
  /\ call[c].pc = "idle"
  /\ Printed # None
  /\ printed' = Printed
  /\ UNCHANGED <<id, proofSig, slots, call, verdict, history>>

\* Jose.deserialize asks payloadIsJsonLdProof.
IsJsonLdProof_always(d) == TRUE
IsJsonLdProof(d) == d.json

\* All JSON goes to a proof suite, the default one when it has no proof.
DeserializeStart(c, d) ==
  /\ call[c].pc = "idle"
  /\ IsJsonLdProof(d)
  /\ Suspend(c, [pc |-> "parsing", doc |-> d])
  /\ UNCHANGED <<id, proofSig, slots, printed, verdict, history>>

ParseResolved(c) ==
  /\ call[c].pc = "parsing"
  /\ jsonLdProofObject' = call[c].doc
  /\ last' = call[c].doc
  /\ own' = [d \in Caller |-> None]
  /\ Return(c)
  /\ UNCHANGED <<id, proofSig, token, signaturePayload, printed, verdict,
                 minted, signed>>

\* Anything else is parsed as a JWS, without an await.
DeserializeJws(c, d) ==
  /\ call[c].pc = "idle"
  /\ ~IsJsonLdProof(d)
  /\ token' = d
  /\ signaturePayload' = d.content
  /\ last' = d
  /\ own' = [e \in Caller |-> None]
  /\ UNCHANGED <<id, proofSig, jsonLdProofObject, call, printed, verdict,
                 minted, signed>>
-----------------------------------------------------------------------------
(* verify. *)

\* The key store is asked for the validation key.
VerifyStart(c) ==
  /\ call[c].pc = "idle"
  /\ Suspend(c, [pc |-> "keys"])
  /\ UNCHANGED <<id, proofSig, slots, printed, verdict, history>>

Picked == IF jsonLdProofObject # None THEN jsonLdProofObject ELSE token

Outcome(c, result, x, whole) ==
  verdict' = [verdict EXCEPT ![c] =
                [result |-> result, content |-> x, whole |-> whole]]

HasProof(doc) == doc.ld /\ doc.content.id # NoId

\* The document is picked only now, the JSON-LD object before the token.  The
\* suite clones the object for the data to verify and holds on to its proof.
\* "whole" remembers whether the document was properly signed at that moment
\* and no call was signing the same object.
VerifyPick(c) ==
  LET doc == Shown(Picked) IN
  /\ call[c].pc = "keys"
  /\ Picked # None
  /\ Picked = jsonLdProofObject => HasProof(doc)
  /\ Suspend(c, [pc |-> IF Picked = jsonLdProofObject THEN "proof" ELSE "checking",
                 content |-> doc.content, sig |-> doc.sig,
                 embedded |-> Picked \in Objects,
                 whole |-> /\ doc.sig = doc.content
                           /\ Picked \in Objects =>
                                \A d \in Caller : ~SigningLd(d, Picked.object)])
  /\ UNCHANGED <<id, proofSig, slots, printed, verdict, history>>

\* There is no document, or it has no proof.
VerifyRejected(c) ==
  /\ call[c].pc = "keys"
  /\ \/ Picked = None
     \/ jsonLdProofObject # None /\ ~HasProof(Shown(jsonLdProofObject))
  /\ Return(c)
  /\ UNCHANGED <<id, proofSig, slots, printed, verdict, history>>

SignatureValue_current(c) ==
  IF call[c].embedded THEN proofSig[id[call[c].content.payload]] ELSE call[c].sig

\* The signature is read from the proof after an await.  On a caller's object
\* the proof may have got its signature, or another one, in the meantime.
SignatureValue(c) ==
  IF call[c].embedded THEN proofSig[call[c].content.id] ELSE call[c].sig

VerifyReadProof_waitsForSignature(c) ==
  /\ call[c].pc = "proof"
  /\ SignatureValue(c) # None
  /\ Suspend(c, [call[c] EXCEPT !.pc = "checking", !.sig = SignatureValue(c)])
  /\ UNCHANGED <<id, proofSig, slots, printed, verdict, history>>

\* Without a signature the call is rejected.
VerifyReadProof(c) ==
  /\ call[c].pc = "proof"
  /\ IF SignatureValue(c) = None
     THEN /\ Outcome(c, "rejected", call[c].content, call[c].whole)
          /\ Return(c)
     ELSE /\ Suspend(c, [call[c] EXCEPT !.pc = "checking", !.sig = SignatureValue(c)])
          /\ UNCHANGED verdict
  /\ UNCHANGED <<id, proofSig, slots, printed, history>>

Valid_ignoresId(content, sig) == sig # None /\ sig.payload = content.payload
Valid(content, sig) == sig = content

VerifyResolved(c) ==
  /\ call[c].pc = "checking"
  /\ Outcome(c, IF Valid(call[c].content, call[c].sig) THEN "true" ELSE "false",
             call[c].content, call[c].whole)
  /\ Return(c)
  /\ UNCHANGED <<id, proofSig, slots, printed, history>>
-----------------------------------------------------------------------------
\* The key store or a WebCrypto operation rejects, and so does the call.  What
\* sign has put on the caller's object stays there.
Rejected(c) ==
  /\ call[c].pc \in {"ldSigning", "jwsSigning", "keys", "checking"}
  /\ Return(c)
  /\ UNCHANGED <<id, proofSig, slots, printed, verdict, history>>

Continue(c) ==
  \/ LdSigned(c)
  \/ LdSignReturned(c)
  \/ JwsSigned(c)
  \/ ParseResolved(c)
  \/ VerifyPick(c)
  \/ VerifyRejected(c)
  \/ VerifyReadProof(c)
  \/ VerifyResolved(c)
  \/ Rejected(c)

Next ==
  \E c \in Caller :
    \/ \E p \in Payload : LdSignStart(c, p) \/ JwsSignStart(c, p)
    \/ Serialize(c)
    \/ \E d \in Foreign \cup ({printed} \ {None}) :
         DeserializeStart(c, d) \/ DeserializeJws(c, d)
    \/ VerifyStart(c)
    \/ Continue(c)

Spec == Init /\ [][Next]_vars

\* Every promise that a call waits for settles.
FairSpec == Spec /\ \A c \in Caller : WF_vars(Continue(c))
-----------------------------------------------------------------------------
Call ==
  {Idle, [pc |-> "keys"]}
    \cup [pc : {"ldSigning", "ldSigned"}, content : Content, alone : BOOLEAN]
    \cup [pc : {"jwsSigning"}, content : Content]
    \cup [pc : {"parsing"}, doc : {d \in Doc : d.json}]
    \cup [pc : {"proof", "checking"}, content : Content,
          sig : Content \cup {None}, embedded : BOOLEAN, whole : BOOLEAN]

\* Every variable has its type; in particular only JSON becomes a proof object
\* and only a JWS in the compact form is taken from elsewhere as a token.
TypeOK ==
  /\ id \in [Payload -> 0..MaxId]
  /\ proofSig \in [1..MaxId -> Content \cup {None}]
  /\ jsonLdProofObject \in {None} \cup Objects \cup {d \in Doc : d.json}
  /\ token \in {None} \cup {d \in Doc : ~d.ld /\ (d.json => JsonFormat)}
  /\ signaturePayload \in {None} \cup Content
  /\ call \in [Caller -> Call]
  /\ printed \in {None} \cup Doc
  /\ verdict \in [Caller -> {None} \cup [result : {"true", "false", "rejected"},
                                         content : Content, whole : BOOLEAN]]
  /\ minted \in 0..MaxId
  /\ signed \subseteq Content
  /\ own \in [Caller -> {None} \cup Content]
  /\ last \in {None} \cup Objects \cup Doc

\* A caller that signed and then serializes gets its own payload, properly
\* signed, as long as no other call has assigned the shared Jose object since
\* or has begun to sign the same object.
OwnDocumentPrinted ==
  \A c \in Caller : own[c] # None =>
    Printed.content = own[c] /\ Printed.sig = own[c]

\* verify answers true only for a content that a sign call signed, whatever
\* was deserialized and however signs of one object overlap.
Authentic ==
  \A c \in Caller :
    verdict[c] # None /\ verdict[c].result = "true" => verdict[c].content \in signed

\* A document that was properly signed and not being signed again when verify
\* picked it is verified, even when a sign of the same object then replaces its
\* proof before verify reads the signature.
WholeDocumentVerifies ==
  \A c \in Caller :
    verdict[c] # None /\ verdict[c].whole => verdict[c].result = "true"

\* Under JWT an object keeps its first jti, nbf and exp: all tokens made from
\* it have the same claims, overlapping and rejected signs included.
ClaimsStable == \A x, y \in signed : x.payload = y.payload => x = y

\* Every call returns or is rejected.
EveryCallReturns ==
  \A c \in Caller : call[c].pc # "idle" ~> call[c].pc = "idle"
-----------------------------------------------------------------------------
(* What comments in the code say and the code does not keep. *)

\* deserialize: "Deserialize a cryptographic token", verify: "Verify a protected
\* payload".  A JWS that was signed or deserialized last is the token, and no
\* proof object stands before it when verify picks what to check.
LastJwsIsVerified ==
  last # None /\ last \notin Objects /\ ~last.ld
    => token = last /\ jsonLdProofObject = None
=============================================================================
