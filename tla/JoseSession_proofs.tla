------------------------- MODULE JoseSession_proofs -------------------------
(* Proofs about JoseSession, for every value of its constants. *)
EXTENDS JoseSession, TLAPS

-----------------------------------------------------------------------------
(* Documents, objects, contents and None. *)

\* No document, object or content is taken for a missing one, and no document
\* for an object of a caller.
LEMMA KindsDiffer ==
  /\ \A d \in Doc : d # None /\ d \notin Objects
  /\ \A x \in Objects : x # None
  /\ \A x \in Content : x # None
  BY DEF Doc, Objects, Object, Content, None

\* An object with an id has a proof, or claims.
HasId(p) == id[p] \in 1..MaxId

\* Whatever has been signed under JSON-LD, or is being signed, has a proof; so
\* has a document of which verify is about to read the proof.
ProofsThere ==
  /\ \A p \in Payload : jsonLdProofObject = Object(p) => HasId(p)
  /\ \A c \in Caller :
       /\ call[c].pc \in {"ldSigning", "ldSigned"} => HasId(call[c].content.payload)
       /\ call[c].pc = "proof" => call[c].content.id # NoId

\* What a suspended call holds.
LEMMA CallShape ==
  ASSUME TypeOK, NEW c \in Caller
  PROVE  /\ call[c].pc \in {"ldSigning", "ldSigned"} =>
              call[c] \in [pc : {"ldSigning", "ldSigned"}, content : Content,
                           alone : BOOLEAN]
         /\ call[c].pc = "jwsSigning" =>
              call[c] \in [pc : {"jwsSigning"}, content : Content]
         /\ call[c].pc = "parsing" =>
              call[c] \in [pc : {"parsing"}, doc : {d \in Doc : d.json}]
         /\ call[c].pc \in {"proof", "checking"} =>
              call[c] \in [pc : {"proof", "checking"}, content : Content,
                           sig : Content \cup {None}, embedded : BOOLEAN,
                           whole : BOOLEAN]
  BY DEF TypeOK, Call, Idle

\* A step that suspends or ends one call keeps the type of the calls.
LEMMA SuspendType ==
  ASSUME TypeOK, NEW c \in Caller, NEW r \in Call, Suspend(c, r)
  PROVE  call' \in [Caller -> Call]
  BY DEF Suspend, TypeOK

\* So does one that returns.
LEMMA ReturnType ==
  ASSUME TypeOK, NEW c \in Caller, Return(c)
  PROVE  call' \in [Caller -> Call]
  BY DEF Return, Suspend, TypeOK, Call

\* A document keeps its content and its signature in another format.
LEMMA OtherFormat ==
  ASSUME NEW d \in Doc, ~d.ld, NEW b \in BOOLEAN
  PROVE  /\ [d EXCEPT !.json = b] \in Doc
         /\ [d EXCEPT !.json = b].content = d.content
         /\ [d EXCEPT !.json = b].sig = d.sig
  BY DEF Doc

\* A document shown from a proof object or a token is a document.
LEMMA ShownType ==
  ASSUME TypeOK, ProofsThere,
         NEW x \in {jsonLdProofObject, token}, x # None
  PROVE  Shown(x) \in Doc
<1>1. CASE x \in Objects
  <2>1. PICK p \in Payload : x = Object(p)
    BY <1>1 DEF Objects
  <2>2. x.object = p
    BY <2>1 DEF Object
  <2>3. x = jsonLdProofObject
    BY <1>1, KindsDiffer DEF TypeOK
  <2>4. HasId(p)
    BY <2>1, <2>3 DEF ProofsThere
  <2>5. proofSig[id[p]] \in Content \cup {None}
    BY <2>4 DEF TypeOK, HasId
  <2>6. ContentOf(p) \in Content
    BY DEF TypeOK, ContentOf, Content
  <2>. QED
    BY <1>1, <2>2, <2>5, <2>6 DEF Shown, Doc
<1>2. CASE x \notin Objects
  BY <1>2 DEF Shown, TypeOK
<1>. QED
  BY <1>1, <1>2

\* serialize returns a document, in the format of the session when it is a JWS.
LEMMA PrintedType ==
  ASSUME TypeOK, ProofsThere, Printed # None
  PROVE  Printed \in Doc
<1> USE ConstantsAssumption
<1>1. CASE Protocol = "JSONLD"
  <2>1. jsonLdProofObject # None
    BY <1>1, KindsDiffer DEF Printed, Shown
  <2>. QED
    BY <1>1, <2>1, ShownType DEF Printed
<1>2. CASE Protocol # "JSONLD"
  <2>1. token \in Doc /\ ~token.ld
    BY <1>2 DEF Printed, TypeOK
  <2>2. Printed = [token EXCEPT !.json = JsonFormat]
    BY <1>2, <2>1, KindsDiffer DEF Printed
  <2>. QED
    BY <2>1, <2>2, OtherFormat
<1>. QED
  BY <1>1, <1>2

\* A session begins with nothing signed or deserialized, and typed variables.
LEMMA TypeInit == Init => TypeOK /\ ProofsThere
<1> SUFFICES ASSUME Init PROVE TypeOK /\ ProofsThere
  OBVIOUS
<1>1. TypeOK
  BY ConstantsAssumption DEF Init, TypeOK, Call, Idle, NoId
<1>2. ProofsThere
  BY KindsDiffer DEF Init, ProofsThere, Idle, Objects
<1>. QED
  BY <1>1, <1>2

\* Every step of a session keeps the types; where a signature is read from a
\* proof, there must be a proof.
LEMMA TypeNext == TypeOK /\ ProofsThere /\ [Next]_vars => TypeOK'
<1> SUFFICES ASSUME TypeOK, ProofsThere, [Next]_vars PROVE TypeOK'
  OBVIOUS
<1> USE ConstantsAssumption
<1>1. ASSUME NEW c \in Caller, NEW p \in Payload, LdSignStart(c, p)
      PROVE  TypeOK'
  <2>1. minted' \in 0..MaxId
    BY <1>1 DEF LdSignStart, TypeOK
  <2>2. id' \in [Payload -> 0..MaxId]
    BY <1>1, <2>1 DEF LdSignStart, TypeOK
  <2>3. [payload |-> p, id |-> minted'] \in Content
    BY <2>1 DEF Content
  <2>4. call' \in [Caller -> Call]
    <3>1. ASSUME NEW d \in Caller, SigningLd(d, p)
          PROVE  [call[d] EXCEPT !.alone = FALSE] \in Call
      BY <3>1, CallShape DEF SigningLd, Call
    <3>. QED
      BY <1>1, <2>3, <3>1 DEF LdSignStart, LdSignBegins, TypeOK, Call
  <2>5. own' \in [Caller -> {None} \cup Content]
    BY <1>1 DEF LdSignStart, LdSignBegins, TypeOK
  <2>. QED
    BY <1>1, <2>1, <2>2, <2>4, <2>5 DEF LdSignStart, TypeOK, slots
<1>2. ASSUME NEW c \in Caller, LdSigned(c)
      PROVE  TypeOK'
  <2>1. call[c] \in [pc : {"ldSigning", "ldSigned"}, content : Content,
                     alone : BOOLEAN]
    BY <1>2, CallShape DEF LdSigned
  <2>2. [call[c] EXCEPT !.pc = "ldSigned"] \in Call
    BY <2>1 DEF Call
  <2>3. call' \in [Caller -> Call]
    BY <1>2, <2>2, SuspendType DEF LdSigned
  <2>4. proofSig' \in [1..MaxId -> Content \cup {None}]
    BY <1>2, <2>1 DEF LdSigned, TypeOK
  <2>5. signed' \subseteq Content
    BY <1>2, <2>1 DEF LdSigned, TypeOK
  <2>. QED
    BY <1>2, <2>3, <2>4, <2>5 DEF LdSigned, TypeOK, slots
<1>3. ASSUME NEW c \in Caller, LdSignReturned(c)
      PROVE  TypeOK'
  <2>1. call[c] \in [pc : {"ldSigning", "ldSigned"}, content : Content,
                     alone : BOOLEAN]
    BY <1>3, CallShape DEF LdSignReturned
  <2>2. Object(call[c].content.payload) \in Objects
    BY <2>1 DEF Objects, Content
  <2>3. own' \in [Caller -> {None} \cup Content]
    BY <1>3, <2>1 DEF LdSignReturned
  <2>. QED
    BY <1>3, <2>2, <2>3, ReturnType DEF LdSignReturned, TypeOK
<1>4. ASSUME NEW c \in Caller, NEW p \in Payload, JwsSignStart(c, p)
      PROVE  TypeOK'
  <2>1. minted' \in 0..MaxId /\ id' \in [Payload -> 0..MaxId]
    <3>1. CASE UNCHANGED <<minted, id>>
      BY <3>1 DEF TypeOK
    <3>2. CASE /\ minted < MaxId
               /\ minted' = minted + 1
               /\ id' = [id EXCEPT ![p] = minted']
      <4>1. minted' \in 0..MaxId
        BY <3>2 DEF TypeOK
      <4>. QED
        BY <3>2, <4>1 DEF TypeOK
    <3>. QED
      BY <1>4, <3>1, <3>2 DEF JwsSignStart, SetClaims
  <2>2. ContentOf(p)' \in Content
    BY <2>1 DEF ContentOf, Content
  <2>. QED
    <3>1. [pc |-> "jwsSigning", content |-> ContentOf(p)'] \in Call
      BY <2>2 DEF Call
    <3>2. call' \in [Caller -> Call]
      BY <1>4, <3>1, SuspendType DEF JwsSignStart
    <3>. QED
      BY <1>4, <2>1, <3>2 DEF JwsSignStart, TypeOK, slots
<1>5. ASSUME NEW c \in Caller, JwsSigned(c)
      PROVE  TypeOK'
  <2>1. call[c] \in [pc : {"jwsSigning"}, content : Content]
    BY <1>5, CallShape DEF JwsSigned
  <2>2. /\ SignedBy(call[c].content) \in Doc
        /\ SignedBy(call[c].content).content = call[c].content
        /\ ~SignedBy(call[c].content).ld
        /\ SignedBy(call[c].content).json = JsonFormat
    BY <2>1 DEF SignedBy, Doc
  <2>. QED
    BY <1>5, <2>1, <2>2 DEF JwsSigned, TypeOK, Return, Suspend, Call
<1>6. ASSUME NEW c \in Caller, Serialize(c)
      PROVE  TypeOK'
  BY <1>6, PrintedType DEF Serialize, TypeOK, slots, history
<1>7. ASSUME NEW c \in Caller, NEW d \in Doc, DeserializeStart(c, d)
      PROVE  TypeOK'
  <2>1. [pc |-> "parsing", doc |-> d] \in Call
    BY <1>7 DEF DeserializeStart, IsJsonLdProof, Call
  <2>2. call' \in [Caller -> Call]
    BY <1>7, <2>1, SuspendType DEF DeserializeStart
  <2>. QED
    BY <1>7, <2>2 DEF DeserializeStart, TypeOK, slots, history
<1>8. ASSUME NEW c \in Caller, NEW d \in Doc, d \in Foreign \/ d = printed,
             DeserializeJws(c, d)
      PROVE  TypeOK'
  <2>1. ~d.json /\ ~d.ld /\ d.content \in Content
    BY <1>8 DEF DeserializeJws, IsJsonLdProof, Doc, TypeOK
  <2>. QED
    BY <1>8, <2>1 DEF DeserializeJws, TypeOK
<1>9. ASSUME NEW c \in Caller, ParseResolved(c)
      PROVE  TypeOK'
  <2>1. call[c] \in [pc : {"parsing"}, doc : {d \in Doc : d.json}]
    BY <1>9, CallShape DEF ParseResolved
  <2>. QED
    BY <1>9, <2>1 DEF ParseResolved, TypeOK, Return, Suspend, Call
<1>10. ASSUME NEW c \in Caller, VerifyStart(c) \/ VerifyRejected(c) \/ Rejected(c)
       PROVE  TypeOK'
  BY <1>10 DEF VerifyStart, VerifyRejected, Rejected, TypeOK, Return, Suspend,
     Call, slots, history
<1>11. ASSUME NEW c \in Caller, VerifyPick(c)
       PROVE  TypeOK'
  <2>1. Shown(Picked) \in Doc
    BY <1>11, ShownType DEF VerifyPick, Picked
  <2>2. Shown(Picked).content \in Content /\ Shown(Picked).sig \in Content \cup {None}
    BY <2>1 DEF Doc
  <2>. QED
    BY <1>11, <2>2 DEF VerifyPick, TypeOK, Suspend, Call, slots, history
<1>12. ASSUME NEW c \in Caller, VerifyReadProof(c)
       PROVE  TypeOK'
  <2>1. /\ call[c] \in [pc : {"proof", "checking"}, content : Content,
                         sig : Content \cup {None}, embedded : BOOLEAN,
                         whole : BOOLEAN]
        /\ call[c].content.id \in 1..MaxId
    BY <1>12, CallShape DEF VerifyReadProof, ProofsThere, NoId, Content
  <2>2. SignatureValue(c) \in Content \cup {None}
    BY <2>1 DEF SignatureValue, TypeOK
  <2>3. [call[c] EXCEPT !.pc = "checking", !.sig = SignatureValue(c)] \in Call
    BY <2>1, <2>2 DEF Call
  <2>4. CASE SignatureValue(c) = None
    <3>1. call' \in [Caller -> Call]
      BY <1>12, <2>4, ReturnType DEF VerifyReadProof
    <3>2. [result |-> "rejected", content |-> call[c].content,
           whole |-> call[c].whole]
            \in [result : {"true", "false", "rejected"}, content : Content,
                whole : BOOLEAN]
      BY <2>1
    <3>3. verdict' = [verdict EXCEPT ![c] =
                        [result |-> "rejected", content |-> call[c].content,
                         whole |-> call[c].whole]]
      BY <1>12, <2>4 DEF VerifyReadProof, Outcome
    <3>. QED
      BY <1>12, <3>1, <3>2, <3>3 DEF VerifyReadProof, TypeOK, slots, history
  <2>5. CASE SignatureValue(c) # None
    BY <1>12, <2>3, <2>5, SuspendType DEF VerifyReadProof, TypeOK, slots, history
  <2>. QED
    BY <2>4, <2>5
<1>13. ASSUME NEW c \in Caller, VerifyResolved(c)
       PROVE  TypeOK'
  <2>1. call[c] \in [pc : {"proof", "checking"}, content : Content,
                     sig : Content \cup {None}, embedded : BOOLEAN,
                     whole : BOOLEAN]
    BY <1>13, CallShape DEF VerifyResolved
  <2>. QED
    BY <1>13, <2>1 DEF VerifyResolved, TypeOK, Outcome, Return, Suspend, Call,
       slots, history
<1>14. CASE UNCHANGED vars
  BY <1>14 DEF TypeOK, vars, slots, history
<1>15. ASSUME NEW d \in Foreign \cup ({printed} \ {None})
       PROVE  d \in Doc
  BY DEF TypeOK
<1>. QED
  BY <1>1, <1>2, <1>3, <1>4, <1>5, <1>6, <1>7, <1>8, <1>9, <1>10, <1>11,
     <1>12, <1>13, <1>14, <1>15
     DEF Next, Continue

\* A step of one call that takes no proof away, and that leaves the call where
\* there is one, keeps all proofs there.
LEMMA ProofsStay ==
  ASSUME TypeOK, ProofsThere,
         \A p \in Payload : id[p] \in 1..MaxId => id'[p] = id[p],
         \A p \in Payload : jsonLdProofObject' = Object(p) =>
           jsonLdProofObject = Object(p) \/ id[p] \in 1..MaxId,
         NEW c \in Caller, NEW r, Suspend(c, r),
         r.pc \in {"ldSigning", "ldSigned"} => id[r.content.payload] \in 1..MaxId
                                              /\ r.content.payload \in Payload,
         r.pc = "proof" => r.content.id # NoId
  PROVE  ProofsThere'
<1>1. \A p \in Payload : jsonLdProofObject' = Object(p) => id'[p] \in 1..MaxId
  BY DEF ProofsThere, HasId
<1>2. ASSUME NEW d \in Caller
      PROVE  /\ call'[d].pc \in {"ldSigning", "ldSigned"} =>
                  id'[call'[d].content.payload] \in 1..MaxId
             /\ call'[d].pc = "proof" => call'[d].content.id # NoId
  <2>1. CASE d = c
    <3>1. call'[d] = r
      BY <2>1 DEF Suspend, TypeOK
    <3>. QED
      BY <3>1
  <2>2. CASE d # c
    <3>1. call'[d] = call[d]
      BY <2>2 DEF Suspend, TypeOK
    <3>2. call[d].pc \in {"ldSigning", "ldSigned"} =>
            call[d].content.payload \in Payload
      BY CallShape DEF Content
    <3>. QED
      BY <3>1, <3>2 DEF ProofsThere, HasId
  <2>. QED
    BY <2>1, <2>2
<1>. QED
  BY <1>1, <1>2 DEF ProofsThere, HasId

\* Nothing ever takes a proof off an object, and verify reads one only where it
\* saw one.
LEMMA ProofsThereNext == TypeOK /\ ProofsThere /\ [Next]_vars => ProofsThere'
<1> SUFFICES ASSUME TypeOK, ProofsThere, [Next]_vars PROVE ProofsThere'
  OBVIOUS
<1> USE ConstantsAssumption
<1>1. ASSUME NEW c \in Caller, NEW p \in Payload, LdSignStart(c, p)
      PROVE  ProofsThere'
  <2>1. minted' \in 1..MaxId
    BY <1>1 DEF LdSignStart, TypeOK
  <2>2. \A q \in Payload : id[q] \in 1..MaxId => id'[q] \in 1..MaxId
    BY <1>1, <2>1 DEF LdSignStart, TypeOK
  <2>3. id'[p] \in 1..MaxId
    BY <1>1, <2>1 DEF LdSignStart, TypeOK
  <2>4. \A q \in Payload : jsonLdProofObject' = Object(q) => id'[q] \in 1..MaxId
    BY <1>1, <2>2 DEF LdSignStart, ProofsThere, HasId, slots
  <2>5. ASSUME NEW d \in Caller
        PROVE  /\ call'[d].pc \in {"ldSigning", "ldSigned"} =>
                    id'[call'[d].content.payload] \in 1..MaxId
               /\ call'[d].pc = "proof" => call'[d].content.id # NoId
    <3>1. CASE d = c
      <4>1. call'[d] = [pc |-> "ldSigning",
                        content |-> [payload |-> p, id |-> minted'],
                        alone |-> \A e \in Caller : ~SigningLd(e, p)]
        BY <1>1, <3>1 DEF LdSignStart, LdSignBegins
      <4>. QED
        BY <4>1, <2>3
    <3>2. CASE d # c /\ SigningLd(d, p)
      <4>1. call[d] \in [pc : {"ldSigning", "ldSigned"}, content : Content,
                         alone : BOOLEAN]
        BY <3>2, CallShape DEF SigningLd
      <4>2. call'[d] = [call[d] EXCEPT !.alone = FALSE]
        BY <1>1, <3>2 DEF LdSignStart, LdSignBegins
      <4>3. call'[d].pc = call[d].pc /\ call'[d].content = call[d].content
        BY <4>1, <4>2
      <4>. QED
        BY <3>2, <4>1, <4>3, <2>3 DEF SigningLd
    <3>3. CASE d # c /\ ~SigningLd(d, p)
      <4>1. call'[d] = call[d]
        BY <1>1, <3>3 DEF LdSignStart, LdSignBegins
      <4>2. call[d].pc \in {"ldSigning", "ldSigned"} =>
              call[d].content.payload \in Payload
        BY CallShape DEF Content
      <4>. QED
        BY <4>1, <4>2, <2>2 DEF ProofsThere, HasId
    <3>. QED
      BY <3>1, <3>2, <3>3
  <2>. QED
    BY <2>4, <2>5 DEF ProofsThere, HasId
<1>2. ASSUME NEW c \in Caller, LdSigned(c)
      PROVE  ProofsThere'
  <2> DEFINE r == [call[c] EXCEPT !.pc = "ldSigned"]
  <2>1. call[c] \in [pc : {"ldSigning", "ldSigned"}, content : Content,
                     alone : BOOLEAN]
    BY <1>2, CallShape DEF LdSigned
  <2>2. r.pc = "ldSigned" /\ r.content = call[c].content
    BY <2>1
  <2>3. id[r.content.payload] \in 1..MaxId /\ r.content.payload \in Payload
    BY <1>2, <2>1, <2>2 DEF LdSigned, ProofsThere, HasId, Content
  <2>4. Suspend(c, r) /\ id' = id /\ jsonLdProofObject' = jsonLdProofObject
    BY <1>2 DEF LdSigned, slots
  <2>. HIDE DEF r
  <2>. QED
    BY <2>2, <2>3, <2>4, ProofsStay
<1>3. ASSUME NEW c \in Caller, LdSignReturned(c)
      PROVE  ProofsThere'
  <2>1. call[c] \in [pc : {"ldSigning", "ldSigned"}, content : Content,
                     alone : BOOLEAN]
    BY <1>3, CallShape DEF LdSignReturned
  <2>2. id[call[c].content.payload] \in 1..MaxId
    BY <1>3 DEF LdSignReturned, ProofsThere, HasId
  <2>3. \A p \in Payload : jsonLdProofObject' = Object(p) => id[p] \in 1..MaxId
    BY <1>3, <2>2 DEF LdSignReturned, Object
  <2>4. Suspend(c, Idle) /\ id' = id
    BY <1>3 DEF LdSignReturned, Return
  <2>. QED
    BY <2>3, <2>4, ProofsStay DEF Idle
<1>4. ASSUME NEW c \in Caller, NEW p \in Payload, JwsSignStart(c, p)
      PROVE  ProofsThere'
  <2>1. \A q \in Payload : id[q] \in 1..MaxId => id'[q] = id[q]
    BY <1>4 DEF JwsSignStart, SetClaims, NoId, TypeOK
  <2>2. jsonLdProofObject' = jsonLdProofObject
    BY <1>4 DEF JwsSignStart, slots
  <2> DEFINE r == [pc |-> "jwsSigning", content |-> ContentOf(p)']
  <2>3. Suspend(c, r)
    BY <1>4 DEF JwsSignStart
  <2>. QED
    BY <2>1, <2>2, <2>3, ProofsStay
<1>5. ASSUME NEW c \in Caller,
             JwsSigned(c) \/ VerifyRejected(c) \/ VerifyResolved(c) \/ Rejected(c)
      PROVE  ProofsThere'
  <2>1. Suspend(c, Idle) /\ UNCHANGED <<id, jsonLdProofObject>>
    BY <1>5 DEF JwsSigned, VerifyRejected, VerifyResolved, Rejected, Return, slots
  <2>. QED
    BY <2>1, ProofsStay DEF Idle
<1>6. ASSUME NEW c \in Caller, NEW d, DeserializeStart(c, d)
      PROVE  ProofsThere'
  <2>1. /\ Suspend(c, [pc |-> "parsing", doc |-> d])
        /\ UNCHANGED <<id, jsonLdProofObject>>
    BY <1>6 DEF DeserializeStart, slots
  <2>. QED
    BY <2>1, ProofsStay
<1>7. ASSUME NEW c \in Caller, ParseResolved(c)
      PROVE  ProofsThere'
  <2>1. call[c].doc \in Doc
    BY <1>7, CallShape DEF ParseResolved
  <2>2. \A p \in Payload : jsonLdProofObject' # Object(p)
    BY <1>7, <2>1, KindsDiffer DEF ParseResolved, Objects
  <2>3. Suspend(c, Idle) /\ id' = id
    BY <1>7 DEF ParseResolved, Return
  <2>. QED
    BY <2>2, <2>3, ProofsStay DEF Idle
<1>8. ASSUME NEW c \in Caller, VerifyStart(c)
      PROVE  ProofsThere'
  <2>1. Suspend(c, [pc |-> "keys"]) /\ UNCHANGED <<id, jsonLdProofObject>>
    BY <1>8 DEF VerifyStart, slots
  <2>. QED
    BY <2>1, ProofsStay
<1>9. ASSUME NEW c \in Caller, VerifyPick(c)
      PROVE  ProofsThere'
  <2>1. PICK r : /\ Suspend(c, r)
                 /\ r.pc = IF Picked = jsonLdProofObject THEN "proof" ELSE "checking"
                 /\ r.content = Shown(Picked).content
    BY <1>9 DEF VerifyPick
  <2>2. r.pc = "proof" => r.content.id # NoId
    BY <1>9, <2>1 DEF VerifyPick, HasProof
  <2>3. UNCHANGED <<id, jsonLdProofObject>>
    BY <1>9 DEF VerifyPick, slots
  <2>. QED
    BY <2>1, <2>2, <2>3, ProofsStay
<1>10. ASSUME NEW c \in Caller, VerifyReadProof(c)
       PROVE  ProofsThere'
  <2>1. UNCHANGED <<id, jsonLdProofObject>>
    BY <1>10 DEF VerifyReadProof, slots
  <2>2. CASE Suspend(c, Idle)
    BY <2>1, <2>2, ProofsStay DEF Idle
  <2>3. CASE Suspend(c, [call[c] EXCEPT !.pc = "checking", !.sig = SignatureValue(c)])
    <3> DEFINE r == [call[c] EXCEPT !.pc = "checking", !.sig = SignatureValue(c)]
    <3>1. call[c] \in [pc : {"proof", "checking"}, content : Content,
                       sig : Content \cup {None}, embedded : BOOLEAN,
                       whole : BOOLEAN]
      BY <1>10, CallShape DEF VerifyReadProof
    <3>2. r.pc = "checking" /\ Suspend(c, r)
      BY <2>3, <3>1
    <3>. HIDE DEF r
    <3>. QED
      BY <2>1, <3>2, ProofsStay
  <2>. QED
    BY <1>10, <2>2, <2>3 DEF VerifyReadProof, Return
<1>11. CASE UNCHANGED <<id, jsonLdProofObject, call>>
  BY <1>11 DEF ProofsThere, HasId
<1>. QED
  BY <1>1, <1>2, <1>3, <1>4, <1>5, <1>6, <1>7, <1>8, <1>9, <1>10, <1>11
     DEF Next, Continue, Serialize, DeserializeJws, vars, slots

\* The variables of a Jose session always have their types: only JSON becomes a
\* proof object, and only a JWS becomes the token.
THEOREM TypeCorrect == Spec => []TypeOK
<1>1. TypeOK /\ ProofsThere /\ [Next]_vars => (TypeOK /\ ProofsThere)'
  BY TypeNext, ProofsThereNext
<1>. QED
  BY <1>1, TypeInit, PTL DEF Spec
-----------------------------------------------------------------------------
(* The inductive invariant behind Authentic: wherever a signature fits its     *)
(* content, the content was signed.                                            *)

Genuine(d) == d.sig = d.content => d.content \in signed

AuthInv ==
  /\ \A i \in 1..MaxId : proofSig[i] \in signed \cup {None}
  /\ token # None => Genuine(token)
  /\ printed # None => Genuine(printed)
  /\ jsonLdProofObject \in Doc => Genuine(jsonLdProofObject)
  /\ \A c \in Caller : call[c].pc = "parsing" => Genuine(call[c].doc)
  /\ \A c \in Caller : call[c].pc \in {"proof", "checking"} => Genuine(call[c])
  /\ Authentic

\* What verify picks and what serialize prints is genuine.
LEMMA ShownGenuine ==
  ASSUME TypeOK, ProofsThere, AuthInv,
         NEW x \in {jsonLdProofObject, token}, x # None
  PROVE  Genuine(Shown(x))
<1>1. CASE x \in Objects
  <2>1. PICK p \in Payload : x = Object(p)
    BY <1>1 DEF Objects
  <2>2. x = jsonLdProofObject /\ x.object = p
    BY <1>1, <2>1, KindsDiffer DEF TypeOK, Object
  <2>3. proofSig[id[p]] \in signed \cup {None}
    BY <2>1, <2>2 DEF ProofsThere, HasId, AuthInv
  <2>4. ContentOf(p) # None
    BY DEF ContentOf, None
  <2>5. /\ Shown(x).sig = proofSig[id[p]]
        /\ Shown(x).content = ContentOf(p)
    BY <1>1, <2>2 DEF Shown
  <2>. QED
    BY <2>3, <2>4, <2>5 DEF Genuine
<1>2. CASE x \notin Objects
  BY <1>2 DEF Shown, TypeOK, AuthInv
<1>. QED
  BY <1>1, <1>2

\* The same for what serialize returns.
LEMMA PrintedGenuine ==
  ASSUME TypeOK, ProofsThere, AuthInv, Printed # None
  PROVE  Genuine(Printed)
<1> USE ConstantsAssumption
<1>1. CASE Protocol = "JSONLD"
  <2>1. jsonLdProofObject # None
    BY <1>1, KindsDiffer DEF Printed, Shown
  <2>. QED
    BY <1>1, <2>1, ShownGenuine DEF Printed
<1>2. CASE Protocol # "JSONLD"
  <2>1. token \in Doc /\ ~token.ld /\ token # None
    BY <1>2 DEF Printed, TypeOK
  <2>2. Printed = [token EXCEPT !.json = JsonFormat]
    BY <1>2, <2>1 DEF Printed
  <2>3. Printed.content = token.content /\ Printed.sig = token.sig
    BY <2>1, <2>2, OtherFormat
  <2>. QED
    BY <2>1, <2>3 DEF AuthInv, Genuine
<1>. QED
  BY <1>1, <1>2

\* At first nothing is signed.
LEMMA AuthInit == Init => AuthInv
  BY KindsDiffer DEF Init, AuthInv, Authentic, Idle

\* A step that signs nothing, changes one call and no verdict, and leaves only
\* genuine documents and calls.
LEMMA AuthStays ==
  ASSUME TypeOK, AuthInv, UNCHANGED <<proofSig, verdict>>,
         signed \subseteq signed',
         token' # token => (token'.sig = token'.content => token'.content \in signed'),
         printed' # printed => Genuine(printed'),
         jsonLdProofObject' # jsonLdProofObject /\ jsonLdProofObject' \in Doc =>
           Genuine(jsonLdProofObject'),
         NEW c \in Caller, NEW r, Suspend(c, r),
         r.pc = "parsing" => Genuine(r.doc),
         r.pc \in {"proof", "checking"} => Genuine(r)
  PROVE  AuthInv'
<1>1. \A i \in 1..MaxId : proofSig'[i] \in signed' \cup {None}
  BY DEF AuthInv
<1>2. /\ token' # None => Genuine(token)'
      /\ printed' # None => Genuine(printed)'
      /\ jsonLdProofObject' \in Doc => Genuine(jsonLdProofObject)'
  BY DEF AuthInv, Genuine
<1>3. ASSUME NEW d \in Caller
      PROVE  /\ call'[d].pc = "parsing" => Genuine(call[d].doc)'
             /\ call'[d].pc \in {"proof", "checking"} => Genuine(call[d])'
  <2>1. CASE d = c
    <3>1. call'[d] = r
      BY <2>1 DEF Suspend, TypeOK
    <3>. QED
      BY <3>1 DEF Genuine
  <2>2. CASE d # c
    <3>1. call'[d] = call[d]
      BY <2>2 DEF Suspend, TypeOK
    <3>. QED
      BY <3>1 DEF AuthInv, Genuine
  <2>. QED
    BY <2>1, <2>2
<1>4. Authentic'
  BY DEF AuthInv, Authentic
<1>. QED
  BY <1>1, <1>2, <1>3, <1>4 DEF AuthInv

\* Every step keeps AuthInv: one case per action.
LEMMA AuthNext ==
  TypeOK /\ ProofsThere /\ AuthInv /\ [Next]_vars => AuthInv'
<1> SUFFICES ASSUME TypeOK, ProofsThere, AuthInv, [Next]_vars PROVE AuthInv'
  OBVIOUS
<1> USE ConstantsAssumption
<1>1. ASSUME NEW c \in Caller, NEW p \in Payload, LdSignStart(c, p)
      PROVE  AuthInv'
  <2>1. UNCHANGED <<proofSig, token, jsonLdProofObject, printed, verdict, signed>>
    BY <1>1 DEF LdSignStart, slots
  <2>2. ASSUME NEW d \in Caller
        PROVE  /\ call'[d].pc = "parsing" => call'[d] = call[d]
               /\ call'[d].pc \in {"proof", "checking"} => call'[d] = call[d]
    <3>1. CASE d = c
      BY <1>1, <3>1 DEF LdSignStart, LdSignBegins
    <3>2. CASE d # c /\ SigningLd(d, p)
      <4>1. call[d] \in [pc : {"ldSigning", "ldSigned"}, content : Content,
                         alone : BOOLEAN]
        BY <3>2, CallShape DEF SigningLd
      <4>2. call'[d] = [call[d] EXCEPT !.alone = FALSE]
        BY <1>1, <3>2 DEF LdSignStart, LdSignBegins
      <4>3. call'[d].pc \in {"ldSigning", "ldSigned"}
        BY <4>1, <4>2
      <4>. QED
        BY <4>3
    <3>3. CASE d # c /\ ~SigningLd(d, p)
      BY <1>1, <3>3 DEF LdSignStart, LdSignBegins
    <3>. QED
      BY <3>1, <3>2, <3>3
  <2>. QED
    BY <2>1, <2>2 DEF AuthInv, Genuine, Authentic
<1>2. ASSUME NEW c \in Caller, LdSigned(c)
      PROVE  AuthInv'
  <2> DEFINE x == call[c].content
  <2>1. call[c] \in [pc : {"ldSigning", "ldSigned"}, content : Content,
                     alone : BOOLEAN]
    BY <1>2, CallShape DEF LdSigned
  <2>2. /\ signed' = signed \cup {x}
        /\ proofSig' = [proofSig EXCEPT ![id[x.payload]] = x]
        /\ UNCHANGED <<token, jsonLdProofObject, printed, verdict>>
        /\ call' = [call EXCEPT ![c] = [call[c] EXCEPT !.pc = "ldSigned"]]
    BY <1>2 DEF LdSigned, slots, Suspend
  <2>. HIDE DEF x
  <2>3. \A i \in 1..MaxId : proofSig'[i] \in signed' \cup {None}
    BY <2>2 DEF AuthInv, TypeOK
  <2>4. ASSUME NEW d \in Caller, call'[d].pc \in {"parsing", "proof", "checking"}
        PROVE  call'[d] = call[d]
    BY <2>1, <2>2, <2>4 DEF TypeOK
  <2>. QED
    BY <2>2, <2>3, <2>4 DEF AuthInv, Genuine, Authentic
<1>3. ASSUME NEW c \in Caller, LdSignReturned(c)
      PROVE  AuthInv'
  <2>1. call[c] \in [pc : {"ldSigning", "ldSigned"}, content : Content,
                     alone : BOOLEAN]
    BY <1>3, CallShape DEF LdSignReturned
  <2>2. jsonLdProofObject' \notin Doc
    BY <1>3, <2>1, KindsDiffer DEF LdSignReturned, Objects, Content
  <2>3. Suspend(c, Idle) /\ UNCHANGED <<proofSig, token, printed, verdict, signed>>
    BY <1>3 DEF LdSignReturned, Return
  <2>. QED
    BY <2>2, <2>3, AuthStays DEF Idle
<1>4. ASSUME NEW c \in Caller, NEW p \in Payload, JwsSignStart(c, p)
      PROVE  AuthInv'
  <2>1. /\ Suspend(c, [pc |-> "jwsSigning", content |-> ContentOf(p)'])
        /\ UNCHANGED <<proofSig, token, jsonLdProofObject, printed, verdict, signed>>
    BY <1>4 DEF JwsSignStart, slots
  <2>. QED
    BY <2>1, AuthStays
<1>5. ASSUME NEW c \in Caller, JwsSigned(c)
      PROVE  AuthInv'
  <2>1. /\ Suspend(c, Idle)
        /\ signed \subseteq signed'
        /\ token'.content \in signed'
        /\ UNCHANGED <<proofSig, jsonLdProofObject, printed, verdict>>
    BY <1>5 DEF JwsSigned, Return, SignedBy
  <2>. QED
    BY <2>1, AuthStays DEF Idle
<1>6. ASSUME NEW c \in Caller, Serialize(c)
      PROVE  AuthInv'
  <2>1. Genuine(printed')
    BY <1>6, PrintedGenuine DEF Serialize
  <2>2. UNCHANGED <<proofSig, token, jsonLdProofObject, call, verdict, signed>>
    BY <1>6 DEF Serialize, slots, history
  <2>. QED
    BY <2>1, <2>2 DEF AuthInv, Genuine, Authentic
<1>7. ASSUME NEW d \in Foreign \cup ({printed} \ {None})
      PROVE  Genuine(d)
  BY DEF AuthInv, Genuine
<1>8. ASSUME NEW c \in Caller, NEW d, Genuine(d), DeserializeStart(c, d)
      PROVE  AuthInv'
  <2>1. /\ Suspend(c, [pc |-> "parsing", doc |-> d])
        /\ UNCHANGED <<proofSig, token, jsonLdProofObject, printed, verdict, signed>>
    BY <1>8 DEF DeserializeStart, slots, history
  <2>. QED
    BY <1>8, <2>1, AuthStays
<1>9. ASSUME NEW c \in Caller, NEW d, Genuine(d), DeserializeJws(c, d)
      PROVE  AuthInv'
  BY <1>9 DEF DeserializeJws, AuthInv, Genuine, Authentic
<1>10. ASSUME NEW c \in Caller, ParseResolved(c)
       PROVE  AuthInv'
  <2>1. /\ Genuine(jsonLdProofObject')
        /\ Suspend(c, Idle)
        /\ UNCHANGED <<proofSig, token, printed, verdict, signed>>
    BY <1>10 DEF ParseResolved, Return, AuthInv
  <2>. QED
    BY <2>1, AuthStays DEF Idle
<1>11. ASSUME NEW c \in Caller, VerifyStart(c) \/ VerifyRejected(c) \/ Rejected(c)
       PROVE  AuthInv'
  <2>1. /\ Suspend(c, Idle) \/ Suspend(c, [pc |-> "keys"])
        /\ UNCHANGED <<proofSig, token, jsonLdProofObject, printed, verdict, signed>>
    BY <1>11 DEF VerifyStart, VerifyRejected, Rejected, Return, slots, history
  <2>. QED
    BY <2>1, AuthStays DEF Idle
<1>12. ASSUME NEW c \in Caller, VerifyPick(c)
       PROVE  AuthInv'
  <2>1. Genuine(Shown(Picked))
    BY <1>12, ShownGenuine DEF VerifyPick, Picked
  <2>2. PICK r : /\ Suspend(c, r)
                 /\ r.pc # "parsing"
                 /\ r.content = Shown(Picked).content
                 /\ r.sig = Shown(Picked).sig
    BY <1>12 DEF VerifyPick
  <2>3. UNCHANGED <<proofSig, token, jsonLdProofObject, printed, verdict, signed>>
    BY <1>12 DEF VerifyPick, slots, history
  <2>. QED
    BY <2>1, <2>2, <2>3, AuthStays DEF Genuine
<1>13. ASSUME NEW c \in Caller, VerifyReadProof(c)
       PROVE  AuthInv'
  <2>1. /\ call[c] \in [pc : {"proof", "checking"}, content : Content,
                         sig : Content \cup {None}, embedded : BOOLEAN,
                         whole : BOOLEAN]
        /\ call[c].content.id \in 1..MaxId
    BY <1>13, CallShape DEF VerifyReadProof, ProofsThere, NoId, Content
  <2>2. UNCHANGED <<proofSig, token, jsonLdProofObject, printed, signed>>
    BY <1>13 DEF VerifyReadProof, slots, history
  <2>3. CASE SignatureValue(c) = None
    <3>1. /\ call' = [call EXCEPT ![c] = Idle]
          /\ verdict' = [verdict EXCEPT ![c] =
                           [result |-> "rejected", content |-> call[c].content,
                            whole |-> call[c].whole]]
      BY <1>13, <2>3 DEF VerifyReadProof, Outcome, Return, Suspend
    <3>2. Authentic'
      BY <2>2, <3>1 DEF AuthInv, Authentic, TypeOK
    <3>3. ASSUME NEW d \in Caller, call'[d].pc \in {"parsing", "proof", "checking"}
          PROVE  call'[d] = call[d]
      BY <3>1, <3>3 DEF TypeOK, Idle
    <3>. QED
      BY <2>2, <3>2, <3>3 DEF AuthInv, Genuine
  <2>4. CASE SignatureValue(c) # None
    <3> DEFINE r == [call[c] EXCEPT !.pc = "checking", !.sig = SignatureValue(c)]
    <3>1. Suspend(c, r) /\ verdict' = verdict
      BY <1>13, <2>4 DEF VerifyReadProof
    <3>2. /\ r.pc = "checking"
          /\ r.content = call[c].content
          /\ r.sig = SignatureValue(c)
      BY <2>1
    <3>3. SignatureValue(c) \in signed \/ SignatureValue(c) = call[c].sig
      BY <2>1, <2>4 DEF SignatureValue, AuthInv
    <3>4. Genuine(r)
      BY <1>13, <3>2, <3>3 DEF AuthInv, Genuine, VerifyReadProof
    <3>. HIDE DEF r
    <3>. QED
      BY <2>2, <3>1, <3>2, <3>4, AuthStays
  <2>. QED
    BY <2>3, <2>4
<1>14. ASSUME NEW c \in Caller, VerifyResolved(c)
       PROVE  AuthInv'
  <2>1. /\ call' = [call EXCEPT ![c] = Idle]
        /\ verdict' = [verdict EXCEPT ![c] =
              [result |-> IF call[c].sig = call[c].content THEN "true" ELSE "false",
               content |-> call[c].content, whole |-> call[c].whole]]
        /\ UNCHANGED <<proofSig, token, jsonLdProofObject, printed, signed>>
    BY <1>14 DEF VerifyResolved, Outcome, Valid, Return, Suspend, slots, history
  <2>2. Authentic'
    <3>1. Genuine(call[c])
      BY <1>14 DEF VerifyResolved, AuthInv
    <3>. QED
      BY <2>1, <3>1 DEF AuthInv, Authentic, Genuine, TypeOK
  <2>3. ASSUME NEW d \in Caller, call'[d].pc \in {"parsing", "proof", "checking"}
        PROVE  call'[d] = call[d]
    BY <2>1, <2>3 DEF TypeOK, Idle
  <2>. QED
    BY <2>1, <2>2, <2>3 DEF AuthInv, Genuine
<1>15. CASE UNCHANGED vars
  BY <1>15 DEF AuthInv, Genuine, Authentic, vars, slots, history
<1>. QED
  BY <1>1, <1>2, <1>3, <1>4, <1>5, <1>6, <1>7, <1>8, <1>9, <1>10, <1>11,
     <1>12, <1>13, <1>14, <1>15
     DEF Next, Continue

\* verify answers true only for a content that a sign call signed, whatever
\* documents come from elsewhere and however signs of one object overlap.
THEOREM OnlySignedVerifies == Spec => []Authentic
<1>1. AuthInv => Authentic
  BY DEF AuthInv
<1>2. TypeOK /\ ProofsThere /\ AuthInv /\ [Next]_vars
        => (TypeOK /\ ProofsThere /\ AuthInv)'
  BY TypeNext, ProofsThereNext, AuthNext
<1>. QED
  BY <1>1, <1>2, TypeInit, AuthInit, PTL DEF Spec
-----------------------------------------------------------------------------
(* How a step moves a call. *)

AtLd(d) == call[d].pc \in {"ldSigning", "ldSigned"}

SignsLd(d) ==
  \E p \in Payload : /\ LdSignStart(d, p)
                     /\ call'[d].pc = "ldSigning"
                     /\ call'[d].content = [payload |-> p, id |-> minted']
                     /\ call'[d].alone = \A e \in Caller : ~SigningLd(e, p)

LosesAlone(d) ==
  \E c \in Caller : /\ c # d
                    /\ AtLd(d)
                    /\ LdSignStart(c, call[d].content.payload)
                    /\ call'[d].pc = call[d].pc
                    /\ call'[d].content = call[d].content
                    /\ ~call'[d].alone

GetsSignature(d) ==
  /\ LdSigned(d)
  /\ call'[d].pc = "ldSigned"
  /\ call'[d].content = call[d].content
  /\ call'[d].alone = call[d].alone

SignsJws(d) ==
  \E p \in Payload : /\ JwsSignStart(d, p)
                     /\ call'[d].pc = "jwsSigning"
                     /\ call'[d].content = ContentOf(p)'

Verifies(d) ==
  (VerifyPick(d) \/ VerifyReadProof(d)) /\ call'[d].pc \in {"proof", "checking"}

\* A step leaves a call where it is, moves it to a point that no invariant is
\* about, or is one of those that the invariants are about.
LEMMA Moves ==
  ASSUME TypeOK, [Next]_vars, NEW d \in Caller
  PROVE  \/ call'[d] = call[d]
         \/ call'[d].pc \in {"idle", "keys", "parsing"}
         \/ SignsLd(d)
         \/ LosesAlone(d)
         \/ GetsSignature(d)
         \/ SignsJws(d)
         \/ Verifies(d)
<1> DEFINE Goal == \/ call'[d] = call[d]
                   \/ call'[d].pc \in {"idle", "keys", "parsing"}
                   \/ SignsLd(d)
                   \/ LosesAlone(d)
                   \/ GetsSignature(d)
                   \/ SignsJws(d)
                   \/ Verifies(d)
<1>1. ASSUME NEW c \in Caller, NEW p \in Payload, LdSignStart(c, p)
      PROVE  Goal
  <2>1. CASE d = c
    <3>1. call'[d] = [pc |-> "ldSigning",
                      content |-> [payload |-> p, id |-> minted'],
                      alone |-> \A e \in Caller : ~SigningLd(e, p)]
      BY <1>1, <2>1 DEF LdSignStart, LdSignBegins
    <3>2. SignsLd(d)
      BY <1>1, <2>1, <3>1 DEF SignsLd
    <3>. QED
      BY <3>2
  <2>2. CASE d # c /\ SigningLd(d, p)
    <3>1. call[d] \in [pc : {"ldSigning", "ldSigned"}, content : Content,
                       alone : BOOLEAN]
      BY <2>2, CallShape DEF SigningLd
    <3>2. call'[d] = [call[d] EXCEPT !.alone = FALSE]
      BY <1>1, <2>2 DEF LdSignStart, LdSignBegins
    <3>3. /\ call'[d].pc = call[d].pc
          /\ call'[d].content = call[d].content
          /\ ~call'[d].alone
      BY <3>1, <3>2
    <3>4. LosesAlone(d)
      BY <1>1, <2>2, <3>3 DEF LosesAlone, AtLd, SigningLd
    <3>. QED
      BY <3>4
  <2>3. CASE d # c /\ ~SigningLd(d, p)
    BY <1>1, <2>3 DEF LdSignStart, LdSignBegins
  <2>. QED
    BY <2>1, <2>2, <2>3
<1>2. ASSUME NEW c \in Caller, LdSigned(c)
      PROVE  Goal
  <2>1. CASE d = c
    <3>1. call[d] \in [pc : {"ldSigning", "ldSigned"}, content : Content,
                       alone : BOOLEAN]
      BY <1>2, <2>1, CallShape DEF LdSigned
    <3>2. call'[d] = [call[d] EXCEPT !.pc = "ldSigned"]
      BY <1>2, <2>1 DEF LdSigned, Suspend, TypeOK
    <3>3. GetsSignature(d)
      BY <1>2, <2>1, <3>1, <3>2 DEF GetsSignature
    <3>. QED
      BY <3>3
  <2>2. CASE d # c
    BY <1>2, <2>2 DEF LdSigned, Suspend, TypeOK
  <2>. QED
    BY <2>1, <2>2
<1>3. ASSUME NEW c \in Caller, NEW p \in Payload, JwsSignStart(c, p)
      PROVE  Goal
  <2>1. CASE d = c
    <3>1. call'[d] = [pc |-> "jwsSigning", content |-> ContentOf(p)']
      BY <1>3, <2>1 DEF JwsSignStart, Suspend, TypeOK
    <3>2. SignsJws(d)
      BY <1>3, <2>1, <3>1 DEF SignsJws
    <3>. QED
      BY <3>2
  <2>2. CASE d # c
    BY <1>3, <2>2 DEF JwsSignStart, Suspend, TypeOK
  <2>. QED
    BY <2>1, <2>2
<1>4. ASSUME NEW c \in Caller, VerifyPick(c)
      PROVE  Goal
  <2>1. CASE d = c
    <3>1. call'[d].pc \in {"proof", "checking"}
      BY <1>4, <2>1 DEF VerifyPick, Suspend, TypeOK
    <3>2. Verifies(d)
      BY <1>4, <2>1, <3>1 DEF Verifies
    <3>. QED
      BY <3>2
  <2>2. CASE d # c
    BY <1>4, <2>2 DEF VerifyPick, Suspend, TypeOK
  <2>. QED
    BY <2>1, <2>2
<1>5. ASSUME NEW c \in Caller, VerifyReadProof(c)
      PROVE  Goal
  <2>1. CASE Suspend(c, Idle)
    BY <2>1 DEF Suspend, Idle, TypeOK
  <2>2. CASE Suspend(c, [call[c] EXCEPT !.pc = "checking", !.sig = SignatureValue(c)])
    <3>1. CASE d = c
      <4>1. call[d] \in [pc : {"proof", "checking"}, content : Content,
                         sig : Content \cup {None}, embedded : BOOLEAN,
                         whole : BOOLEAN]
        BY <1>5, <3>1, CallShape DEF VerifyReadProof
      <4>2. call'[d].pc = "checking"
        BY <2>2, <3>1, <4>1 DEF Suspend, TypeOK
      <4>3. Verifies(d)
        BY <1>5, <3>1, <4>2 DEF Verifies
      <4>. QED
        BY <4>3
    <3>2. CASE d # c
      BY <2>2, <3>2 DEF Suspend, TypeOK
    <3>. QED
      BY <3>1, <3>2
  <2>. QED
    BY <1>5, <2>1, <2>2 DEF VerifyReadProof, Return
<1>6. ASSUME NEW c \in Caller, NEW r, r.pc \in {"idle", "keys", "parsing"},
             Suspend(c, r)
      PROVE  Goal
  BY <1>6 DEF Suspend, TypeOK
<1>7. ASSUME NEW c \in Caller, Return(c)
      PROVE  Goal
  BY <1>6, <1>7 DEF Return, Idle
<1>8. ASSUME call' = call
      PROVE  Goal
  BY <1>8
<1>9. ASSUME NEW c \in Caller, VerifyStart(c)
      PROVE  Goal
  <2>1. Suspend(c, [pc |-> "keys"])
    BY <1>9 DEF VerifyStart
  <2>. QED
    BY <1>6, <2>1
<1>10. ASSUME NEW c \in Caller, NEW x, DeserializeStart(c, x)
       PROVE  Goal
  <2>1. Suspend(c, [pc |-> "parsing", doc |-> x])
    BY <1>10 DEF DeserializeStart
  <2>. QED
    BY <1>6, <2>1
<1>. HIDE DEF Goal
<1>11. ASSUME NEW c \in Caller, Continue(c)
       PROVE  Goal
  <2>1. CASE \/ LdSignReturned(c) \/ JwsSigned(c) \/ ParseResolved(c)
             \/ VerifyRejected(c) \/ VerifyResolved(c) \/ Rejected(c)
    BY <1>7, <2>1
       DEF LdSignReturned, JwsSigned, ParseResolved, VerifyRejected,
           VerifyResolved, Rejected
  <2>. QED
    BY <1>2, <1>4, <1>5, <1>11, <2>1 DEF Continue
<1>12. ASSUME NEW c \in Caller, NEW x, Serialize(c) \/ DeserializeJws(c, x)
       PROVE  Goal
  <2>1. call' = call
    BY <1>12 DEF Serialize, DeserializeJws
  <2>. QED
    BY <1>8, <2>1
<1>13. ASSUME UNCHANGED vars
       PROVE  Goal
  <2>1. call' = call
    BY <1>13 DEF vars
  <2>. QED
    BY <1>8, <2>1
<1>14. ASSUME NEW c \in Caller,
              \E p \in Payload : LdSignStart(c, p) \/ JwsSignStart(c, p)
       PROVE  Goal
  BY <1>1, <1>3, <1>14
<1>15. ASSUME NEW c \in Caller, NEW x, DeserializeStart(c, x) \/ DeserializeJws(c, x)
       PROVE  Goal
  BY <1>10, <1>12, <1>15
<1>16. Goal
  <2>1. CASE UNCHANGED vars
    BY <1>13, <2>1
  <2>2. ASSUME NEW c \in Caller,
               \/ \E p \in Payload : LdSignStart(c, p) \/ JwsSignStart(c, p)
               \/ Serialize(c)
               \/ \E x \in Foreign \cup ({printed} \ {None}) :
                    DeserializeStart(c, x) \/ DeserializeJws(c, x)
               \/ VerifyStart(c)
               \/ Continue(c)
        PROVE  Goal
    <3>1. CASE Serialize(c)
      BY <1>12, <3>1
    <3>. QED
      BY <1>9, <1>11, <1>14, <1>15, <2>2, <3>1
  <2>. QED
    BY <2>1, <2>2 DEF Next
<1>. QED
  BY <1>16 DEF Goal
-----------------------------------------------------------------------------
(* The claims of an object.  Without JSON-LD an id that a content holds is     *)
(* the one that its object has and keeps, because sign hands one out only to   *)
(* an object that has none.                                                    *)

Held(x) == id[x.payload] = x.id /\ (Protocol = "JWT" => x.id # NoId)

ClaimsInv ==
  /\ \A d \in Caller : ~AtLd(d)
  /\ \A d \in Caller : call[d].pc = "jwsSigning" => Held(call[d].content)
  /\ \A x \in signed : Held(x)

\* Without JSON-LD a content keeps what it holds.
LEMMA HeldStays ==
  ASSUME TypeOK, ClaimsInv, [Next]_vars, Protocol # "JSONLD",
         NEW x \in Content, Held(x)
  PROVE  Held(x)'
<1>1. CASE id' = id
  BY <1>1 DEF Held
<1>2. ASSUME NEW c \in Caller, NEW p \in Payload, JwsSignStart(c, p), id' # id
      PROVE  Held(x)'
  <2>1. /\ Protocol = "JWT"
        /\ id[p] = NoId
        /\ id' = [id EXCEPT ![p] = minted']
    BY <1>2 DEF JwsSignStart, SetClaims
  <2>2. x.payload \in Payload /\ x.payload # p
    BY <2>1 DEF Held, Content
  <2>3. id'[x.payload] = id[x.payload]
    BY <2>1, <2>2 DEF TypeOK
  <2>. QED
    BY <2>3 DEF Held
<1>3. CASE \A c \in Caller, p \in Payload : ~JwsSignStart(c, p)
  <2>1. id' = id
    <3>1. \A c \in Caller, p \in Payload : ~LdSignStart(c, p)
      BY DEF LdSignStart
    <3>2. ASSUME NEW c \in Caller, Continue(c)
          PROVE  id' = id
      BY <3>2
         DEF Continue, LdSigned, LdSignReturned, JwsSigned, ParseResolved,
             VerifyPick, VerifyRejected, VerifyReadProof, VerifyResolved, Rejected
    <3>. QED
      BY <1>3, <3>1, <3>2
         DEF Next, Serialize, DeserializeStart, DeserializeJws, VerifyStart, vars
  <2>. QED
    BY <1>1, <2>1
<1>. QED
  BY <1>1, <1>2, <1>3

\* A step signs at most the content of a call that is signing.
LEMMA SignedGrows ==
  ASSUME TypeOK, [Next]_vars, NEW x \in signed'
  PROVE  \/ x \in signed
         \/ \E c \in Caller : /\ call[c].pc \in {"ldSigning", "jwsSigning"}
                              /\ x = call[c].content
                              /\ LdSigned(c) \/ JwsSigned(c)
<1>1. ASSUME NEW c \in Caller, LdSigned(c)
      PROVE  x \in signed \/ (call[c].pc = "ldSigning" /\ x = call[c].content)
  BY <1>1 DEF LdSigned
<1>2. ASSUME NEW c \in Caller, JwsSigned(c)
      PROVE  x \in signed \/ (call[c].pc = "jwsSigning" /\ x = call[c].content)
  BY <1>2 DEF JwsSigned, SignedBy
<1>3. CASE \A c \in Caller : ~LdSigned(c) /\ ~JwsSigned(c)
  <2>1. ASSUME NEW c \in Caller, Continue(c)
        PROVE  signed' = signed
    BY <1>3, <2>1
       DEF Continue, LdSignReturned, ParseResolved, VerifyPick, VerifyRejected,
           VerifyReadProof, VerifyResolved, Rejected, history
  <2>2. ASSUME NEW c \in Caller, NEW p \in Payload,
               LdSignStart(c, p) \/ JwsSignStart(c, p)
        PROVE  signed' = signed
    BY <2>2 DEF LdSignStart, JwsSignStart
  <2>3. signed' = signed
    BY <2>1, <2>2
       DEF Next, Serialize, DeserializeStart, DeserializeJws, VerifyStart, vars,
           history
  <2>. QED
    BY <2>3
<1>. QED
  BY <1>1, <1>2, <1>3

\* Only a sign that begins fixes what a content holds, and it takes the claims of
\* its object.
LEMMA ClaimsNext ==
  ASSUME TypeOK, TypeOK', ClaimsInv, [Next]_vars, Protocol # "JSONLD"
  PROVE  ClaimsInv'
<1>1. ASSUME NEW d \in Caller
      PROVE  ~AtLd(d)'
  BY <1>1, Moves
     DEF AtLd, SignsLd, LdSignStart, LosesAlone, GetsSignature, LdSigned,
         SignsJws, Verifies, ClaimsInv
<1>2. ASSUME NEW d \in Caller, call'[d].pc = "jwsSigning"
      PROVE  Held(call[d].content)'
  <2>1. CASE call'[d] = call[d]
    <3>1. call[d].content \in Content
      BY <1>2, <2>1, CallShape
    <3>2. Held(call[d].content)
      BY <1>2, <2>1 DEF ClaimsInv
    <3>3. Held(call[d].content) => id'[call[d].content.payload] = call[d].content.id
                                   /\ (Protocol = "JWT" => call[d].content.id # NoId)
      BY <3>1, HeldStays DEF Held
    <3>. QED
      BY <2>1, <3>2, <3>3 DEF Held
  <2>2. CASE SignsJws(d)
    <3>1. PICK p \in Payload : /\ JwsSignStart(d, p)
                               /\ call'[d].content = ContentOf(p)'
      BY <2>2 DEF SignsJws
    <3>2. call'[d].content = [payload |-> p, id |-> id'[p]]
      BY <3>1 DEF ContentOf
    <3>3. ASSUME Protocol = "JWT"
          PROVE  id'[p] # NoId
      <4>1. CASE id[p] = NoId
        <5>1. id'[p] = minted + 1 /\ minted \in Nat
          BY <3>1, <3>3, <4>1, ConstantsAssumption
             DEF JwsSignStart, SetClaims, TypeOK
        <5>. QED
          BY <5>1 DEF NoId
      <4>2. CASE id[p] # NoId
        BY <3>1, <4>2 DEF JwsSignStart, SetClaims
      <4>. QED
        BY <4>1, <4>2
    <3>. QED
      BY <3>2, <3>3 DEF Held
  <2>3. CASE SignsLd(d) \/ LosesAlone(d) \/ GetsSignature(d)
    BY <2>3 DEF SignsLd, LosesAlone, GetsSignature, LdSignStart, LdSigned,
                AtLd, ClaimsInv
  <2>. QED
    BY <1>2, <2>1, <2>2, <2>3, Moves DEF Verifies
<1>3. ASSUME NEW x \in signed'
      PROVE  Held(x)'
  <2>1. x \in Content
    BY <1>3 DEF TypeOK
  <2>2. Held(x)
    BY <1>3, SignedGrows DEF ClaimsInv, AtLd
  <2>. QED
    BY <2>1, <2>2, HeldStays
<1>. QED
  BY <1>1, <1>2, <1>3 DEF ClaimsInv

\* Under JWT (and trivially under plain JOSE) all tokens made from one object
\* have the same jti, nbf and exp, overlapping and rejected signs included.
THEOREM ClaimsStay == ASSUME Protocol # "JSONLD" PROVE Spec => []ClaimsStable
<1>1. Init => ClaimsInv
  BY DEF Init, ClaimsInv, AtLd, Idle
<1>2. TypeOK /\ ClaimsInv => ClaimsStable
  BY DEF TypeOK, ClaimsInv, ClaimsStable, Held, Content
<1>3. TypeOK /\ ProofsThere /\ ClaimsInv /\ [Next]_vars
        => (TypeOK /\ ProofsThere /\ ClaimsInv)'
  BY TypeNext, ProofsThereNext, ClaimsNext
<1>. QED
  BY <1>1, <1>2, <1>3, TypeInit, PTL DEF Spec
-----------------------------------------------------------------------------
(* Ids are fresh.  An id that an object has was handed out once, to that      *)
(* object; an object that is being signed under JSON-LD has one.              *)

IdInv ==
  /\ \A p \in Payload : id[p] <= minted
  /\ \A p, q \in Payload : id[p] = id[q] /\ id[p] # NoId => p = q
  /\ \A d \in Caller :
       AtLd(d) => Protocol = "JSONLD" /\ id[call[d].content.payload] # NoId
  /\ \A d \in Caller : call[d].pc = "jwsSigning" => Protocol # "JSONLD"

\* What a step may assign, but for call, printed, verdict, signed and last.
LEMMA Writes ==
  ASSUME [Next]_vars
  PROVE  \/ UNCHANGED <<id, minted, proofSig, jsonLdProofObject, token, own>>
         \/ \E c \in Caller, p \in Payload : LdSignStart(c, p) \/ JwsSignStart(c, p)
         \/ \E c \in Caller : LdSigned(c) \/ LdSignReturned(c) \/ JwsSigned(c)
         \/ \A c \in Caller : own'[c] = None
<1>1. ASSUME NEW c \in Caller, ParseResolved(c)
      PROVE  \A d \in Caller : own'[d] = None
  BY <1>1 DEF ParseResolved
<1>2. ASSUME NEW c \in Caller, NEW x, DeserializeJws(c, x)
      PROVE  \A d \in Caller : own'[d] = None
  BY <1>2 DEF DeserializeJws
<1>3. ASSUME NEW c \in Caller,
             \/ VerifyPick(c) \/ VerifyRejected(c) \/ VerifyReadProof(c)
             \/ VerifyResolved(c) \/ Rejected(c) \/ VerifyStart(c) \/ Serialize(c)
      PROVE  UNCHANGED <<id, minted, proofSig, jsonLdProofObject, token, own>>
  BY <1>3
     DEF VerifyPick, VerifyRejected, VerifyReadProof, VerifyResolved, Rejected,
         VerifyStart, Serialize, slots, history
<1>4. ASSUME NEW c \in Caller, NEW x, DeserializeStart(c, x)
      PROVE  UNCHANGED <<id, minted, proofSig, jsonLdProofObject, token, own>>
  BY <1>4 DEF DeserializeStart, slots, history
<1>5. CASE UNCHANGED vars
  BY <1>5 DEF vars, slots, history
<1>. QED
  BY <1>1, <1>2, <1>3, <1>4, <1>5 DEF Next, Continue

\* A step keeps the ids or hands out the next one.
LEMMA IdStep ==
  ASSUME TypeOK, [Next]_vars
  PROVE  \/ UNCHANGED <<id, minted>>
         \/ \E c \in Caller, p \in Payload :
              /\ LdSignStart(c, p) \/ JwsSignStart(c, p)
              /\ minted' = minted + 1
              /\ id' = [id EXCEPT ![p] = minted']
<1>1. ASSUME NEW c \in Caller, NEW x, DeserializeJws(c, x) \/ DeserializeStart(c, x)
      PROVE  UNCHANGED <<id, minted>>
  BY <1>1 DEF DeserializeJws, DeserializeStart, history
<1>2. ASSUME NEW c \in Caller, Continue(c) \/ VerifyStart(c) \/ Serialize(c)
      PROVE  UNCHANGED <<id, minted>>
  BY <1>2
     DEF Continue, LdSigned, LdSignReturned, JwsSigned, ParseResolved, VerifyPick,
         VerifyRejected, VerifyReadProof, VerifyResolved, Rejected, VerifyStart,
         Serialize, history
<1>3. ASSUME NEW c \in Caller, NEW p \in Payload, LdSignStart(c, p)
      PROVE  minted' = minted + 1 /\ id' = [id EXCEPT ![p] = minted']
  BY <1>3 DEF LdSignStart
<1>4. ASSUME NEW c \in Caller, NEW p \in Payload, JwsSignStart(c, p)
      PROVE  \/ UNCHANGED <<id, minted>>
             \/ minted' = minted + 1 /\ id' = [id EXCEPT ![p] = minted']
  BY <1>4 DEF JwsSignStart, SetClaims
<1>5. CASE UNCHANGED vars
  BY <1>5 DEF vars, history
<1>. QED
  BY <1>1, <1>2, <1>3, <1>4, <1>5 DEF Next

\* Who signs an object after a step did so before, or has just begun.
LEMMA SigningBefore ==
  ASSUME TypeOK, [Next]_vars, NEW d \in Caller, AtLd(d)'
  PROVE  \/ AtLd(d) /\ call'[d].content = call[d].content
         \/ LdSignStart(d, call'[d].content.payload)
<1>1. CASE SignsLd(d)
  BY <1>1 DEF SignsLd
<1>2. CASE SignsJws(d) \/ Verifies(d)
  BY <1>2 DEF SignsJws, Verifies, AtLd
<1>. QED
  BY <1>1, <1>2, Moves DEF AtLd, LosesAlone, GetsSignature, LdSigned

\* Every id that is handed out is the next one, and goes to one object.
LEMMA IdNext ==
  ASSUME TypeOK, TypeOK', IdInv, [Next]_vars
  PROVE  IdInv'
<1> USE ConstantsAssumption
<1>0. /\ minted \in Nat
      /\ \A p \in Payload : id[p] \in Nat
  BY DEF TypeOK
<1>1. ASSUME NEW p \in Payload
      PROVE  (id[p] <= minted)'
  BY <1>0, IdStep DEF IdInv, TypeOK
<1>2. ASSUME NEW p \in Payload, NEW q \in Payload, id'[p] = id'[q], id'[p] # NoId
      PROVE  p = q
  <2>1. CASE UNCHANGED <<id, minted>>
    BY <1>2, <2>1 DEF IdInv
  <2>2. ASSUME NEW r \in Payload, minted' = minted + 1,
               id' = [id EXCEPT ![r] = minted']
        PROVE  p = q
    <3>1. \A s \in Payload : id'[s] = IF s = r THEN minted + 1 ELSE id[s]
      BY <2>2 DEF TypeOK
    <3>. QED
      BY <1>0, <1>2, <3>1 DEF IdInv
  <2>. QED
    BY <2>1, <2>2, IdStep
<1>3. ASSUME NEW d \in Caller, AtLd(d)'
      PROVE  Protocol = "JSONLD" /\ id'[call'[d].content.payload] # NoId
  <2>1. CASE AtLd(d) /\ call'[d].content = call[d].content
    <3> DEFINE p == call[d].content.payload
    <3>1. p \in Payload
      BY <2>1, CallShape DEF AtLd, Content
    <3>2. Protocol = "JSONLD" /\ id[p] # NoId
      BY <2>1 DEF IdInv
    <3>3. id'[p] # NoId
      BY <1>0, <3>1, <3>2, IdStep DEF TypeOK, NoId
    <3>. QED
      BY <2>1, <3>2, <3>3
  <2>2. ASSUME NEW p \in Payload, LdSignStart(d, p), p = call'[d].content.payload
        PROVE  Protocol = "JSONLD" /\ id'[p] # NoId
    BY <1>0, <2>2 DEF LdSignStart, TypeOK, NoId
  <2>3. call'[d].content.payload \in Payload
    <3>1. call'[d] \in Call
      BY DEF TypeOK
    <3>. QED
      BY <1>3, <3>1 DEF AtLd, Call, Content, Idle
  <2>. QED
    BY <1>3, <2>1, <2>2, <2>3, SigningBefore
<1>4. ASSUME NEW d \in Caller, call'[d].pc = "jwsSigning"
      PROVE  Protocol # "JSONLD"
  <2>1. CASE call'[d] = call[d]
    BY <1>4, <2>1 DEF IdInv
  <2>2. CASE SignsJws(d)
    BY <2>2 DEF SignsJws, JwsSignStart
  <2>3. CASE LosesAlone(d)
    BY <1>4, <2>3 DEF LosesAlone, AtLd
  <2>. QED
    BY <1>4, <2>1, <2>2, <2>3, Moves DEF SignsLd, GetsSignature, Verifies
<1>. QED
  BY <1>1, <1>2, <1>3, <1>4 DEF IdInv
-----------------------------------------------------------------------------
(* What a caller signed and serializes.  A call under JSON-LD that no other    *)
(* sign of its object has overlapped finds its own proof there when it writes  *)
(* the signature; what it returns stays as long as no other call touches it.   *)

AloneInv ==
  \A d \in Caller : AtLd(d) /\ call[d].alone =>
    /\ id[call[d].content.payload] = call[d].content.id
    /\ \A e \in Caller \ {d} : AtLd(e) =>
         call[e].content.payload # call[d].content.payload
    /\ call[d].pc = "ldSigned" => proofSig[call[d].content.id] = call[d].content

Kept(x) ==
  IF Protocol = "JSONLD"
  THEN /\ jsonLdProofObject = Object(x.payload)
       /\ id[x.payload] = x.id
       /\ proofSig[x.id] = x
       /\ \A e \in Caller : AtLd(e) => call[e].content.payload # x.payload
  ELSE token # None /\ token.content = x /\ token.sig = x

OwnInv == \A c \in Caller : own[c] # None => Kept(own[c])

\* The proof of one object is not written by a sign of another one.
LEMMA OtherProofStays ==
  ASSUME TypeOK, IdInv, NEW c \in Caller, LdSigned(c),
         NEW p \in Payload, ~SigningLd(c, p)
  PROVE  id'[p] = id[p] /\ proofSig'[id[p]] = proofSig[id[p]]
<1> DEFINE q == call[c].content.payload
<1>1. AtLd(c) /\ q \in Payload
  BY CallShape DEF LdSigned, AtLd, Content
<1>2. id[q] # NoId /\ q # p
  BY <1>1 DEF IdInv, SigningLd, AtLd
<1>3. id[q] # id[p]
  BY <1>1, <1>2 DEF IdInv
<1>4. id' = id /\ proofSig' = [proofSig EXCEPT ![id[q]] = call[c].content]
  BY DEF LdSigned
<1>. QED
  BY <1>3, <1>4

\* A sign that nobody overlapped still has its proof on the object, until it has
\* returned: another sign of the object takes away "alone", and a sign of another
\* object writes another proof.
LEMMA AloneNext ==
  ASSUME TypeOK, TypeOK', IdInv, AloneInv, [Next]_vars
  PROVE  AloneInv'
<1> SUFFICES ASSUME NEW d \in Caller, AtLd(d)', call'[d].alone
             PROVE  /\ id'[call'[d].content.payload] = call'[d].content.id
                    /\ \A e \in Caller \ {d} : AtLd(e)' =>
                         call'[e].content.payload # call'[d].content.payload
                    /\ call'[d].pc = "ldSigned" =>
                         proofSig'[call'[d].content.id] = call'[d].content
  BY DEF AloneInv
<1> DEFINE x == call'[d].content
<1>1. CASE call'[d] = call[d]
  <2>0. /\ AtLd(d) /\ call[d].alone /\ x = call[d].content
        /\ x.payload \in Payload
    BY <1>1, CallShape DEF AtLd, Content
  <2>1. /\ id[x.payload] = x.id
        /\ \A e \in Caller \ {d} : AtLd(e) => call[e].content.payload # x.payload
        /\ call[d].pc = "ldSigned" => proofSig[x.id] = x
    BY <2>0 DEF AloneInv
  <2>2. ASSUME NEW c \in Caller, LdSignStart(c, x.payload)
        PROVE  FALSE
    <3>1. c # d
      BY <2>0, <2>2 DEF LdSignStart, AtLd
    <3>2. SigningLd(d, x.payload)
      BY <2>0 DEF AtLd, SigningLd
    <3>3. call'[d] = [call[d] EXCEPT !.alone = FALSE]
      BY <2>2, <3>1, <3>2 DEF LdSignStart, LdSignBegins
    <3>4. call[d] \in [pc : {"ldSigning", "ldSigned"}, content : Content,
                       alone : BOOLEAN]
      BY <2>0, CallShape DEF AtLd
    <3>. QED
      BY <3>3, <3>4
  <2>3. ASSUME NEW e \in Caller \ {d}, AtLd(e)', call'[e].content.payload = x.payload
        PROVE  FALSE
    BY <2>1, <2>2, <2>3, SigningBefore
  <2>4. id'[x.payload] = id[x.payload]
    <3>1. ASSUME NEW c \in Caller, NEW p \in Payload,
                 LdSignStart(c, p) \/ JwsSignStart(c, p)
          PROVE  p # x.payload
      BY <2>0, <2>2, <3>1 DEF JwsSignStart, IdInv
    <3>. QED
      BY <2>0, <3>1, IdStep DEF TypeOK
  <2>5. proofSig'[x.id] = proofSig[x.id]
    <3>1. ASSUME NEW c \in Caller, LdSigned(c)
          PROVE  proofSig'[x.id] = proofSig[x.id]
      <4>1. c # d
        <5>1. call[d] \in [pc : {"ldSigning", "ldSigned"}, content : Content,
                           alone : BOOLEAN]
          BY <2>0, CallShape DEF AtLd
        <5>2. c = d => call'[d] = [call[d] EXCEPT !.pc = "ldSigned"]
                       /\ call[d].pc = "ldSigning"
          BY <3>1 DEF LdSigned, Suspend, TypeOK
        <5>. QED
          BY <1>1, <5>1, <5>2
      <4>2. ~SigningLd(c, x.payload)
        BY <2>1, <4>1 DEF SigningLd, AtLd
      <4>. QED
        BY <2>0, <2>1, <3>1, <4>2, OtherProofStays
    <3>2. ASSUME \A c \in Caller : ~LdSigned(c)
          PROVE  proofSig' = proofSig
      BY <3>2
         DEF Next, Continue, LdSignStart, JwsSignStart, LdSignReturned, JwsSigned,
             ParseResolved, VerifyPick, VerifyRejected, VerifyReadProof,
             VerifyResolved, Rejected, VerifyStart, Serialize, DeserializeStart,
             DeserializeJws, vars
    <3>. QED
      BY <3>1, <3>2
  <2>. QED
    BY <1>1, <2>0, <2>1, <2>3, <2>4, <2>5
<1>2. CASE SignsLd(d)
  <2>1. PICK p \in Payload : /\ LdSignStart(d, p)
                             /\ call'[d].pc = "ldSigning"
                             /\ call'[d].content = [payload |-> p, id |-> minted']
                             /\ call'[d].alone = \A e \in Caller : ~SigningLd(e, p)
    BY <1>2 DEF SignsLd
  <2>2. x.payload = p /\ id'[p] = x.id
    BY <2>1 DEF LdSignStart, TypeOK
  <2>3. ASSUME NEW e \in Caller \ {d}, AtLd(e)', call'[e].content.payload = p
        PROVE  FALSE
    <3>1. ~LdSignStart(e, p)
      <4>1. call[e].pc # "idle" \/ call'[e] = call[e]
        BY <2>1 DEF LdSignStart, LdSignBegins, SigningLd
      <4>2. LdSignStart(e, p) => call[e].pc = "idle"
        BY DEF LdSignStart
      <4>. QED
        BY <2>3, <4>1, <4>2 DEF AtLd
    <3>2. SigningLd(e, p)
      BY <2>3, <3>1, SigningBefore DEF SigningLd, AtLd
    <3>. QED
      BY <2>1, <3>2
  <2>. QED
    BY <2>1, <2>2, <2>3
<1>3. CASE GetsSignature(d)
  <2>0. /\ AtLd(d) /\ call[d].alone /\ x = call[d].content
        /\ x.payload \in Payload
    BY <1>3, CallShape DEF GetsSignature, LdSigned, AtLd, Content
  <2>1. /\ id[x.payload] = x.id
        /\ id[x.payload] # NoId
        /\ \A e \in Caller \ {d} : AtLd(e) => call[e].content.payload # x.payload
    BY <2>0 DEF AloneInv, IdInv
  <2>2. x.id \in 1..MaxId
    BY <2>0, <2>1, ConstantsAssumption DEF TypeOK, NoId
  <2>3. id' = id /\ proofSig' = [proofSig EXCEPT ![x.id] = x]
    BY <1>3, <2>0, <2>1 DEF GetsSignature, LdSigned
  <2>4. proofSig'[x.id] = x
    BY <2>2, <2>3 DEF TypeOK
  <2>5. \A e \in Caller \ {d} : call'[e] = call[e]
    BY <1>3 DEF GetsSignature, LdSigned, Suspend, TypeOK
  <2>. QED
    BY <2>0, <2>1, <2>3, <2>4, <2>5 DEF AtLd
<1>4. CASE LosesAlone(d)
  BY <1>4 DEF LosesAlone
<1>. QED
  BY <1>1, <1>2, <1>3, <1>4, Moves DEF AtLd, SignsJws, Verifies

\* What a caller signed stays in the Jose object until "own" forgets it.
LEMMA OwnNext ==
  ASSUME TypeOK, TypeOK', IdInv, AloneInv, OwnInv, [Next]_vars
  PROVE  OwnInv'
<1> SUFFICES ASSUME NEW c \in Caller, own'[c] # None
             PROVE  Kept(own[c])'
  BY DEF OwnInv
<1> DEFINE x == own'[c]
<1>0. x \in Content /\ x.payload \in Payload
  BY DEF TypeOK, Content
<1>1. ASSUME own'[c] = own[c], NEW d \in Caller, NEW p \in Payload, LdSignStart(d, p)
      PROVE  Kept(own[c])'
  <2>1. p # x.payload
    BY <1>1 DEF LdSignStart, LdSignBegins
  <2>2. Protocol = "JSONLD" /\ Kept(x)
    BY <1>1 DEF LdSignStart, OwnInv
  <2>3. /\ jsonLdProofObject' = jsonLdProofObject
        /\ id'[x.payload] = id[x.payload]
        /\ proofSig' = proofSig
    BY <1>0, <1>1, <2>1 DEF LdSignStart, slots, TypeOK
  <2>4. ASSUME NEW e \in Caller, AtLd(e)'
        PROVE  call'[e].content.payload # x.payload
    <3>1. ~LdSignStart(e, x.payload)
      BY <1>0 DEF LdSignStart, LdSignBegins
    <3>. QED
      BY <2>2, <2>4, <3>1, SigningBefore DEF Kept
  <2>. QED
    BY <1>1, <2>2, <2>3, <2>4 DEF Kept
<1>2. ASSUME NEW d \in Caller, LdSigned(d)
      PROVE  Kept(own[c])'
  <2>1. Protocol = "JSONLD" /\ AtLd(d)
    BY <1>2 DEF IdInv, LdSigned, AtLd
  <2>2. own' = own /\ jsonLdProofObject' = jsonLdProofObject
    BY <1>2 DEF LdSigned, slots
  <2>3. Kept(x)
    BY <2>2 DEF OwnInv
  <2>4. id'[x.payload] = id[x.payload] /\ proofSig'[x.id] = proofSig[x.id]
    <3>1. ~SigningLd(d, x.payload)
      BY <2>1, <2>3 DEF Kept, SigningLd, AtLd
    <3>2. id[x.payload] = x.id
      BY <2>1, <2>3 DEF Kept
    <3>. QED
      BY <1>0, <1>2, <3>1, <3>2, OtherProofStays
  <2>5. ASSUME NEW e \in Caller, AtLd(e)'
        PROVE  call'[e].content.payload # x.payload
    <3>1. ~LdSignStart(e, x.payload)
      BY <1>0 DEF LdSignStart, LdSignBegins
    <3>. QED
      BY <2>1, <2>3, <2>5, <3>1, SigningBefore DEF Kept
  <2>. QED
    BY <2>1, <2>2, <2>3, <2>4, <2>5 DEF Kept
<1>3. ASSUME NEW d \in Caller, LdSignReturned(d)
      PROVE  Kept(own[c])'
  <2>1. AtLd(d) /\ Protocol = "JSONLD"
    BY <1>3 DEF LdSignReturned, AtLd, IdInv
  <2>2. c = d /\ call[d].alone /\ x = call[d].content
    BY <1>3 DEF LdSignReturned
  <2>3. /\ id[x.payload] = x.id
        /\ proofSig[x.id] = x
        /\ \A e \in Caller \ {d} : AtLd(e) => call[e].content.payload # x.payload
    BY <1>3, <2>1, <2>2 DEF AloneInv, LdSignReturned
  <2>4. /\ jsonLdProofObject' = Object(x.payload)
        /\ UNCHANGED <<id, proofSig>>
        /\ call'[d].pc = "idle"
        /\ \A e \in Caller \ {d} : call'[e] = call[e]
    BY <1>3, <2>2 DEF LdSignReturned, Return, Suspend, Idle, TypeOK
  <2>. QED
    BY <2>1, <2>2, <2>3, <2>4 DEF Kept, AtLd
<1>4. ASSUME NEW d \in Caller, JwsSigned(d)
      PROVE  Kept(own[c])'
  <2>1. Protocol # "JSONLD"
    BY <1>4 DEF JwsSigned, IdInv
  <2>2. x = call[d].content /\ token' = SignedBy(x)
    BY <1>4 DEF JwsSigned, SignedBy
  <2>3. token' # None
    BY <2>2 DEF SignedBy, None
  <2>. QED
    BY <2>1, <2>2, <2>3 DEF Kept, SignedBy
<1>5. ASSUME NEW d \in Caller, NEW p \in Payload, JwsSignStart(d, p)
      PROVE  Kept(own[c])'
  BY <1>5 DEF JwsSignStart, slots, OwnInv, Kept
<1>6. CASE UNCHANGED <<id, minted, proofSig, jsonLdProofObject, token, own>>
  <2>1. Kept(x)
    BY <1>6 DEF OwnInv
  <2>2. ASSUME NEW e \in Caller, AtLd(e)', Protocol = "JSONLD"
        PROVE  call'[e].content.payload # x.payload
    <3>1. ~LdSignStart(e, x.payload)
      BY <1>6 DEF LdSignStart, TypeOK
    <3>. QED
      BY <2>1, <2>2, <3>1, SigningBefore DEF Kept
  <2>. QED
    BY <1>6, <2>1, <2>2 DEF Kept
<1>7. ASSUME NEW d \in Caller, NEW p \in Payload, LdSignStart(d, p)
      PROVE  own'[c] = own[c]
  BY <1>7 DEF LdSignStart, LdSignBegins
<1>. QED
  BY <1>1, <1>2, <1>3, <1>4, <1>5, <1>6, <1>7, Writes

\* What serialize would return is what the invariant says was kept.
LEMMA KeptIsPrinted ==
  ASSUME TypeOK, NEW x \in Content, Kept(x)
  PROVE  Printed.content = x /\ Printed.sig = x
<1>1. CASE Protocol = "JSONLD"
  <2>1. x.payload \in Payload /\ x = [payload |-> x.payload, id |-> x.id]
    BY DEF Content
  <2>2. Object(x.payload) \in Objects /\ Object(x.payload).object = x.payload
    BY <2>1 DEF Objects, Object
  <2>. QED
    BY <1>1, <2>1, <2>2 DEF Kept, Printed, Shown, ContentOf
<1>2. CASE Protocol # "JSONLD"
  <2>1. token \in Doc /\ ~token.ld /\ token.content = x /\ token.sig = x
    BY <1>2 DEF Kept, TypeOK
  <2>2. Printed = [token EXCEPT !.json = JsonFormat]
    BY <1>2, <2>1, KindsDiffer DEF Printed
  <2>. QED
    BY <2>1, <2>2, OtherFormat, ConstantsAssumption
<1>. QED
  BY <1>1, <1>2

\* A session begins without ids and without calls.
LEMMA IdInit == Init => IdInv /\ AloneInv /\ OwnInv
  BY DEF Init, IdInv, AloneInv, OwnInv, AtLd, Idle, NoId

\* A caller that signed and then serializes gets its own payload, properly
\* signed, as long as no other call has assigned the shared Jose object since
\* or has begun to sign the same object.
THEOREM OwnDocument == Spec => []OwnDocumentPrinted
<1>1. TypeOK /\ OwnInv => OwnDocumentPrinted
  BY KeptIsPrinted DEF OwnInv, OwnDocumentPrinted, TypeOK
<1>2. /\ TypeOK /\ ProofsThere /\ IdInv /\ AloneInv /\ OwnInv
      /\ [Next]_vars
      => (TypeOK /\ ProofsThere /\ IdInv /\ AloneInv /\ OwnInv)'
  BY TypeNext, ProofsThereNext, IdNext, AloneNext, OwnNext
<1>. QED
  BY <1>1, <1>2, TypeInit, IdInit, PTL DEF Spec
-----------------------------------------------------------------------------
(* A document that was whole when verify picked it.  Its proof belongs to no    *)
(* object that is being signed, and no object gets its id again, so that the    *)
(* signature that verify reads later is still the one that was there.           *)

Unwritten(i) ==
  i <= minted /\ \A e \in Caller : AtLd(e) => id[call[e].content.payload] # i

WholeRead(d) ==
  IF call[d].embedded
  THEN /\ proofSig[call[d].content.id] = call[d].content
       /\ Unwritten(call[d].content.id)
  ELSE call[d].sig = call[d].content

WholeInv ==
  /\ \A d \in Caller :
       call[d].pc = "proof" /\ call[d].whole => WholeRead(d)
  /\ \A d \in Caller :
       call[d].pc = "checking" /\ call[d].whole => call[d].sig = call[d].content
  /\ WholeDocumentVerifies

\* No sign that begins takes an id that was handed out, and none that is running
\* writes at an id that its object does not have.
LEMMA UnwrittenStays ==
  ASSUME TypeOK, TypeOK', IdInv, [Next]_vars, NEW i \in Nat, Unwritten(i)
  PROVE  Unwritten(i)' /\ proofSig'[i] = proofSig[i]
<1>0. minted \in Nat /\ i <= minted
  BY ConstantsAssumption DEF TypeOK, Unwritten
<1>1. i <= minted'
  BY <1>0, IdStep
<1>2. ASSUME NEW e \in Caller, AtLd(e)'
      PROVE  id'[call'[e].content.payload] # i
  <2> DEFINE q == call'[e].content.payload
  <2>1. q \in Payload
    <3>1. call'[e] \in Call
      BY DEF TypeOK
    <3>. QED
      BY <1>2, <3>1 DEF AtLd, Call, Content, Idle
  <2>2. CASE LdSignStart(e, q)
    <3>1. id'[q] = minted + 1
      BY <2>1, <2>2 DEF LdSignStart, TypeOK
    <3>. QED
      BY <1>0, <3>1
  <2>3. CASE AtLd(e) /\ call'[e].content = call[e].content
    <3>1. id[q] # i
      BY <2>3 DEF Unwritten
    <3>2. \/ id' = id
          \/ \E p \in Payload : id' = [id EXCEPT ![p] = minted + 1]
      BY IdStep
    <3>. QED
      BY <1>0, <2>1, <3>1, <3>2 DEF TypeOK
  <2>. QED
    BY <1>2, <2>2, <2>3, SigningBefore
<1>3. proofSig'[i] = proofSig[i]
  <2>1. ASSUME NEW c \in Caller, LdSigned(c)
        PROVE  proofSig'[i] = proofSig[i]
    <3>1. id[call[c].content.payload] # i
      BY <2>1 DEF LdSigned, AtLd, Unwritten
    <3>2. proofSig' = [proofSig EXCEPT ![id[call[c].content.payload]] = call[c].content]
      BY <2>1 DEF LdSigned
    <3>. QED
      BY <3>1, <3>2
  <2>2. ASSUME \A c \in Caller : ~LdSigned(c)
        PROVE  proofSig' = proofSig
    BY <2>2
       DEF Next, Continue, LdSignStart, JwsSignStart, LdSignReturned, JwsSigned,
           ParseResolved, VerifyPick, VerifyRejected, VerifyReadProof,
           VerifyResolved, Rejected, VerifyStart, Serialize, DeserializeStart,
           DeserializeJws, vars
  <2>. QED
    BY <2>1, <2>2
<1>. QED
  BY <1>1, <1>2, <1>3 DEF Unwritten

\* What a whole document is when verify picks it.
LEMMA WholePicked ==
  ASSUME TypeOK, TypeOK', IdInv, ProofsThere, [Next]_vars,
         NEW d \in Caller, VerifyPick(d), call'[d].whole
  PROVE  /\ call'[d].pc = "proof" => WholeRead(d)'
         /\ call'[d].pc = "checking" => call'[d].sig = call'[d].content
<1> DEFINE doc == Shown(Picked)
<1>1. call'[d] = [pc |-> IF Picked = jsonLdProofObject THEN "proof" ELSE "checking",
                  content |-> doc.content, sig |-> doc.sig,
                  embedded |-> Picked \in Objects,
                  whole |-> /\ doc.sig = doc.content
                            /\ Picked \in Objects =>
                                 \A e \in Caller : ~SigningLd(e, Picked.object)]
  BY DEF VerifyPick, Suspend, TypeOK
<1>2. /\ call'[d].content = doc.content
      /\ call'[d].sig = doc.sig
      /\ call'[d].embedded = (Picked \in Objects)
      /\ doc.sig = doc.content
      /\ Picked \in Objects => \A e \in Caller : ~SigningLd(e, Picked.object)
  BY <1>1
<1>3. UNCHANGED <<id, proofSig, minted>>
  BY DEF VerifyPick, history
<1>4. CASE Picked \in Objects
  <2>1. PICK p \in Payload : Picked = Object(p)
    BY <1>4 DEF Objects
  <2>2. Picked.object = p
    BY <2>1 DEF Object
  <2>3. Picked = jsonLdProofObject
    BY <1>4, KindsDiffer DEF Picked, TypeOK
  <2>4. doc.content = ContentOf(p) /\ doc.sig = proofSig[id[p]]
    BY <1>4, <2>2 DEF Shown
  <2>5. id[p] \in Nat /\ id[p] # NoId /\ id[p] <= minted
    <3>1. HasId(p)
      BY <2>1, <2>3 DEF ProofsThere
    <3>2. id[p] <= minted
      BY DEF IdInv
    <3>. QED
      BY <3>1, <3>2, ConstantsAssumption DEF HasId, NoId
  <2>6. ASSUME NEW e \in Caller, AtLd(e)
        PROVE  id[call[e].content.payload] # id[p]
    <3>1. call[e].content.payload # p
      BY <1>2, <1>4, <2>2, <2>6 DEF SigningLd, AtLd
    <3>2. call[e].content.payload \in Payload
      BY <2>6, CallShape DEF AtLd, Content
    <3>. QED
      BY <2>5, <3>1, <3>2 DEF IdInv
  <2>7. ASSUME NEW e \in Caller, AtLd(e)'
        PROVE  AtLd(e) /\ call'[e].content = call[e].content
    <3>1. e # d
      BY <1>1, <2>7 DEF AtLd
    <3>. QED
      BY <2>7, <3>1 DEF VerifyPick, Suspend, TypeOK, AtLd
  <2>8. call'[d].content.id = id[p] /\ call'[d].embedded
    <3>1. call'[d].content = [payload |-> p, id |-> id[p]]
      BY <1>2, <2>4 DEF ContentOf
    <3>2. call'[d].embedded
      BY <1>2, <1>4
    <3>. QED
      BY <3>1, <3>2
  <2>9. proofSig'[call'[d].content.id] = call'[d].content
    BY <1>2, <1>3, <2>4, <2>8
  <2>10. Unwritten(call[d].content.id)'
    BY <1>3, <2>5, <2>6, <2>7, <2>8 DEF Unwritten
  <2>11. call'[d].pc = "proof"
    BY <1>1, <2>3
  <2>. QED
    BY <2>8, <2>9, <2>10, <2>11 DEF WholeRead
<1>5. CASE Picked \notin Objects
  BY <1>2, <1>5 DEF WholeRead
<1>. QED
  BY <1>4, <1>5

\* verify reads the signature of a whole document as it was when picked.
LEMMA WholeSignature ==
  ASSUME TypeOK, WholeInv, NEW d \in Caller, call[d].pc = "proof", call[d].whole
  PROVE  SignatureValue(d) = call[d].content /\ SignatureValue(d) # None
<1>1. call[d].content \in Content
  BY CallShape
<1>2. SignatureValue(d) = call[d].content
  BY DEF WholeInv, WholeRead, SignatureValue
<1>. QED
  BY <1>1, <1>2, KindsDiffer

\* A whole document stays whole while verify waits, and so verify answers true.
LEMMA WholeNext ==
  ASSUME TypeOK, TypeOK', ProofsThere, IdInv, WholeInv, [Next]_vars
  PROVE  WholeInv'
<1>1. ASSUME NEW d \in Caller, call'[d].whole, VerifyReadProof(d),
             call'[d].pc \in {"proof", "checking"}
      PROVE  call'[d].pc = "checking" /\ call'[d].sig = call'[d].content
  <2>1. call[d] \in [pc : {"proof", "checking"}, content : Content,
                     sig : Content \cup {None}, embedded : BOOLEAN,
                     whole : BOOLEAN]
    BY <1>1, CallShape DEF VerifyReadProof
  <2>2. call'[d] # Idle
    BY <1>1 DEF Idle
  <2>3. call'[d] = [call[d] EXCEPT !.pc = "checking", !.sig = SignatureValue(d)]
    BY <1>1, <2>2 DEF VerifyReadProof, Return, Suspend, TypeOK
  <2>4. /\ call'[d].pc = "checking"
        /\ call'[d].sig = SignatureValue(d)
        /\ call'[d].content = call[d].content
        /\ call'[d].whole = call[d].whole
    BY <2>1, <2>3
  <2>. QED
    BY <1>1, <2>4, WholeSignature DEF VerifyReadProof
<1>2. ASSUME NEW d \in Caller, call'[d].whole,
             call'[d].pc \in {"proof", "checking"}, call'[d] = call[d]
      PROVE  /\ call'[d].pc = "proof" => WholeRead(d)'
             /\ call'[d].pc = "checking" => call'[d].sig = call'[d].content
  <2>1. call[d].content.id \in Nat
    BY <1>2, CallShape, ConstantsAssumption DEF Content
  <2>2. Unwritten(call[d].content.id) =>
          Unwritten(call[d].content.id)'
          /\ proofSig'[call[d].content.id] = proofSig[call[d].content.id]
    <3> DEFINE i == call[d].content.id
    <3>1. Unwritten(i) => proofSig'[i] = proofSig[i] /\ i <= minted'
            /\ \A e \in Caller : AtLd(e)' => id'[call'[e].content.payload] # i
      BY <2>1, UnwrittenStays DEF Unwritten
    <3>. QED
      BY <1>2, <3>1 DEF Unwritten
  <2>. QED
    BY <1>2, <2>2 DEF WholeInv, WholeRead
<1>3. ASSUME NEW d \in Caller, call'[d].whole, call'[d].pc \in {"proof", "checking"}
      PROVE  /\ call'[d].pc = "proof" => WholeRead(d)'
             /\ call'[d].pc = "checking" => call'[d].sig = call'[d].content
  <2>1. \/ call'[d] = call[d]
        \/ VerifyPick(d)
        \/ VerifyReadProof(d)
    BY <1>3, Moves DEF Verifies, SignsLd, LosesAlone, GetsSignature, SignsJws, AtLd
  <2>2. CASE VerifyPick(d)
    BY <1>3, <2>2, WholePicked
  <2>3. CASE VerifyReadProof(d)
    BY <1>1, <1>3, <2>3
  <2>. QED
    BY <1>2, <1>3, <2>1, <2>2, <2>3
<1>4. ASSUME NEW d \in Caller, verdict'[d] # None, verdict'[d].whole
      PROVE  verdict'[d].result = "true"
  <2>1. CASE verdict' = verdict
    BY <1>4, <2>1 DEF WholeInv, WholeDocumentVerifies
  <2>2. ASSUME NEW c \in Caller, VerifyReadProof(c), verdict' # verdict
        PROVE  verdict'[d].result = "true"
    <3>1. SignatureValue(c) = None /\ Outcome(c, "rejected", call[c].content, call[c].whole)
      BY <2>2 DEF VerifyReadProof
    <3>2. ~call[c].whole
      BY <2>2, <3>1, WholeSignature DEF VerifyReadProof
    <3>3. c # d /\ verdict'[d] = verdict[d]
      BY <1>4, <3>1, <3>2 DEF Outcome, TypeOK
    <3>. QED
      BY <1>4, <3>3 DEF WholeInv, WholeDocumentVerifies
  <2>3. ASSUME NEW c \in Caller, VerifyResolved(c)
        PROVE  verdict'[d].result = "true"
    <3>1. call[c].whole => Valid(call[c].content, call[c].sig)
      BY <2>3 DEF VerifyResolved, WholeInv, Valid
    <3>2. verdict' = [verdict EXCEPT ![c] =
            [result |-> IF Valid(call[c].content, call[c].sig) THEN "true" ELSE "false",
             content |-> call[c].content, whole |-> call[c].whole]]
      BY <2>3 DEF VerifyResolved, Outcome
    <3>3. CASE c = d
      BY <1>4, <3>1, <3>2, <3>3 DEF TypeOK
    <3>4. CASE c # d
      BY <1>4, <3>2, <3>4 DEF TypeOK, WholeInv, WholeDocumentVerifies
    <3>. QED
      BY <3>3, <3>4
  <2>4. ASSUME \A c \in Caller : ~VerifyResolved(c) /\ ~VerifyReadProof(c)
        PROVE  verdict' = verdict
    BY <2>4
       DEF Next, Continue, LdSignStart, JwsSignStart, LdSigned, LdSignReturned,
           JwsSigned, ParseResolved, VerifyPick, VerifyRejected, Rejected,
           VerifyStart, Serialize, DeserializeStart, DeserializeJws, vars
  <2>. QED
    BY <2>1, <2>2, <2>3, <2>4
<1>5. ASSUME NEW d \in Caller, call'[d].whole, call'[d].pc = "proof"
      PROVE  WholeRead(d)'
  BY <1>3, <1>5
<1>6. ASSUME NEW d \in Caller, call'[d].whole, call'[d].pc = "checking"
      PROVE  call'[d].sig = call'[d].content
  BY <1>3, <1>6
<1>. QED
  BY <1>4, <1>5, <1>6 DEF WholeInv, WholeDocumentVerifies

\* A session begins without calls and verdicts.
LEMMA WholeInit == Init => WholeInv
  BY DEF Init, WholeInv, WholeDocumentVerifies, Idle

\* A document that was properly signed and not being signed again when verify
\* picked it is verified, however signs of the same object then replace its proof.
THEOREM WholeVerifies == Spec => []WholeDocumentVerifies
<1>1. WholeInv => WholeDocumentVerifies
  BY DEF WholeInv
<1>2. /\ TypeOK /\ ProofsThere /\ IdInv /\ WholeInv
      /\ [Next]_vars
      => (TypeOK /\ ProofsThere /\ IdInv /\ WholeInv)'
  BY TypeNext, ProofsThereNext, IdNext, WholeNext
<1>. QED
  BY <1>1, <1>2, TypeInit, IdInit, WholeInit, PTL DEF Spec
=============================================================================
