------------------------ MODULE TokenExchange_proofs ------------------------
(* Proofs about TokenExchange, for every value of the constants. *)
EXTENDS TokenExchange, SequenceTheorems, WellFoundedInduction, TLAPS

-----------------------------------------------------------------------------
(* What is printed is read. *)

\* An encoded header is there and is not empty, and a header is not None.
LEMMA Encodings ==
  ASSUME NEW h
  PROVE  /\ Base64(h) \notin {None, Empty} /\ Base64(h).encoding = "base64"
         /\ Text(h) \notin {None, Empty} /\ Text(h).encoding = "text"
         /\ Object(h) \notin {None, Empty} /\ Object(h).encoding = "object"
         /\ Base64(h).header = Defined(h)
         /\ Text(h).header = Defined(h)
         /\ Object(h).header = Defined(h)
         /\ Empty # None
<1> DEFINE d == Defined(h)
<1> HIDE DEF d
<1>1. /\ [encoding |-> "base64", header |-> d] \notin {None, Empty}
      /\ [encoding |-> "text", header |-> d] \notin {None, Empty}
      /\ [encoding |-> "object", header |-> d] \notin {None, Empty}
  BY DEF None, Empty
<1>2. Empty # None
  BY DEF None, Empty
<1>. QED
  BY <1>1, <1>2 DEF Base64, Text, Object, d

\* A header that was written with the encoding the reader expects is read back.
LEMMA Written ==
  ASSUME NEW h, NEW missing
  PROVE  /\ Parses(IfElements(h, Base64(h)), "base64")
         /\ Parses(IfElements(h, Text(h)), "text")
         /\ Parses(IfElements(h, Object(h)), "object")
         /\ Parsed(IfElements(h, Base64(h)), missing) = Seen(h, missing)
         /\ Parsed(IfElements(h, Text(h)), missing) = Seen(h, missing)
         /\ Parsed(IfElements(h, Object(h)), missing) = Seen(h, missing)
         /\ IfElements(h, Base64(h)) # None <=> HasElements(h)
         /\ IfElements(h, Text(h)) # None <=> HasElements(h)
         /\ IfElements(h, Object(h)) # None <=> HasElements(h)
         /\ Parses(IfElements(h, Base64(h)), "text") <=> ~HasElements(h)
BY Encodings DEF Parses, IfElements, Parsed, Seen, Truthy

\* A document of the compact form is split at its dots ...
LEMMA CompactIsSplit ==
  ASSUME NEW a, NEW b, NEW c
  PROVE  LET w == [parts |-> <<a, b, c>>]
         IN /\ Dots(w) = 2
            /\ DeserializeJws(w) = ReadJwsCompact(w)
            /\ w.parts[1] = a /\ w.parts[2] = b /\ w.parts[3] = c
            /\ Len(w.parts) = 3 /\ IsCompact(w)
<1> DEFINE w == [parts |-> <<a, b, c>>]
<1>1. IsCompact(w) /\ Len(w.parts) = 3
  BY DEF IsCompact, Has
<1>2. ~Has(w, "signatures") /\ ~Has(w, "recipients")
  BY DEF Has
<1>3. Dots(w) = 2
  <2> HIDE DEF w
  <2>. QED
    BY <1>1, <1>2 DEF Dots
<1>. QED
  BY <1>1, <1>3 DEF DeserializeJws

\* ... and a JSON document that looks compact is not read.
LEMMA JwsJsonIsRead ==
  ASSUME NEW w, ~IsCompact(w)
  PROVE  /\ Has(w, "signatures") /\ ~Has(w, "signature")
              => DeserializeJws(w) = IF Dots(w) \in {1, 2} THEN None ELSE ReadJwsGeneral(w)
         /\ ~Has(w, "signatures") /\ Has(w, "signature")
              => DeserializeJws(w) = IF Dots(w) \in {1, 2} THEN None ELSE ReadJwsFlat(w)
<1>1. ReadJwsCompact(w) = None
  BY DEF ReadJwsCompact
<1>2. CASE Dots(w) \in {1, 2}
  BY <1>1, <1>2 DEF DeserializeJws
<1>3. ASSUME Dots(w) \notin {1, 2}, Has(w, "signatures"), ~Has(w, "signature")
      PROVE  DeserializeJws(w) = ReadJwsGeneral(w)
  BY <1>3 DEF DeserializeJws
<1>4. ASSUME Dots(w) \notin {1, 2}, ~Has(w, "signatures"), Has(w, "signature")
      PROVE  DeserializeJws(w) = ReadJwsFlat(w)
  BY <1>4 DEF DeserializeJws
<1>. QED
  BY <1>2, <1>3, <1>4

\* The compact form shows the protected header of the first signature.
LEMMA JwsCompactReads ==
  ASSUME NEW t
  PROVE  DeserializeJws(JwsCompact(t)) =
           IF HasElements(t.signatures[1].protected) THEN SeenJws(t, "JwsCompactJson")
           ELSE None
<1> DEFINE s == t.signatures[1]
           a == IF HasElements(s.protected) THEN Base64(s.protected) ELSE Empty
           y == t.payload
           x == s.signature
           w == [parts |-> <<a, y, x>>]
<1>1. JwsCompact(t) = w
  BY DEF JwsCompact
<1>2. SeenJws(t, "JwsCompactJson") =
        [payload |-> y, signatures |-> <<[signature |-> x, header |-> None,
                                          protected |-> Seen(s.protected, None)]>>]
  BY DEF SeenJws, SeenSignature
<1>3. Parses(a, "base64") <=> HasElements(s.protected)
  BY Encodings DEF Parses, Truthy
<1>4. HasElements(s.protected) => a.header = Seen(s.protected, None)
  BY Encodings DEF Seen
<1> HIDE DEF a, x, y, s
<1>5. DeserializeJws(w) = ReadJwsCompact(w)
  BY CompactIsSplit
<1>6. ReadJwsCompact(w) =
        IF Parses(a, "base64")
        THEN [payload |-> y, signatures |-> <<[signature |-> x, header |-> None,
                                               protected |-> a.header]>>]
        ELSE None
  BY CompactIsSplit DEF ReadJwsCompact
<1>7. CASE HasElements(s.protected)
  BY <1>1, <1>2, <1>3, <1>4, <1>5, <1>6, <1>7 DEF s
<1>8. CASE ~HasElements(s.protected)
  BY <1>1, <1>3, <1>5, <1>6, <1>8 DEF s
<1>. QED
  BY <1>7, <1>8

\* Flat JSON shows the first signature.
LEMMA JwsFlatReads ==
  ASSUME NEW t
  PROVE  DeserializeJws(JwsFlat(t)) =
           IF JwsReadable(t, "JwsFlatJson") THEN SeenJws(t, "JwsFlatJson") ELSE None
<1> DEFINE s == t.signatures[1]
           y == t.payload
           x == s.signature
           h == IfElements(s.header, Object(s.header))
           p == IfElements(s.protected, Base64(s.protected))
           w == [payload |-> y, signature |-> x, header |-> h, protected |-> p]
<1>1. JwsFlat(t) = w
  BY DEF JwsFlat
<1>2. SeenJws(t, "JwsFlatJson") = [payload |-> y, signatures |-> <<SeenSignature(s)>>]
  BY DEF SeenJws
<1>3. SeenSignature(s) = [signature |-> x, header |-> Parsed(h, None),
                          protected |-> Parsed(p, None)]
  BY Written DEF SeenSignature
<1>4. /\ Parses(h, "object") /\ Parses(p, "base64")
      /\ h # None <=> HasElements(s.header)
      /\ p # None <=> HasElements(s.protected)
  BY Written
<1>5. JwsReadable(t, "JwsFlatJson") <=>
        /\ Truthy(y) /\ Truthy(x)
        /\ HasElements(s.protected) \/ HasElements(s.header)
        /\ Dots(w) \notin {1, 2}
  BY <1>1 DEF JwsReadable, SerializeJws
<1> HIDE DEF x, y, s, h, p
<1>6. DeserializeJws(w) = IF Dots(w) \in {1, 2} THEN None ELSE ReadJwsFlat(w)
  BY JwsJsonIsRead DEF IsCompact, Has
<1>7. SignatureOf(w) = SeenSignature(s)
  BY <1>3 DEF SignatureOf
<1>8. ReadsSignature(w, "object") <=>
        x # None /\ (HasElements(s.protected) \/ HasElements(s.header))
  BY <1>4 DEF ReadsSignature
<1>9. ReadJwsFlat(w) =
        IF /\ Truthy(y) /\ Truthy(x)
           /\ HasElements(s.protected) \/ HasElements(s.header)
        THEN SeenJws(t, "JwsFlatJson") ELSE None
  <2>1. w.payload = y /\ w.signature = x
    OBVIOUS
  <2> HIDE DEF w
  <2>. QED
    BY <1>2, <1>7, <1>8, <2>1 DEF ReadJwsFlat, Truthy
<1> HIDE DEF w
<1>. QED
  BY <1>1, <1>5, <1>6, <1>9

\* General JSON shows everything, when every signature has a header.
LEMMA JwsGeneralReads ==
  ASSUME NEW t, NEW n \in Nat \ {0}, DOMAIN t.signatures = 1..n,
         \A i \in 1..n : /\ t.signatures[i].signature # None
                         /\ \/ HasElements(t.signatures[i].protected)
                            \/ HasElements(t.signatures[i].header)
  PROVE  /\ JwsGeneral(t) # None
         /\ DeserializeJws(JwsGeneral(t)) =
              IF JwsReadable(t, "JwsGeneralJson") THEN SeenJws(t, "JwsGeneralJson") ELSE None
<1> DEFINE h(i) == IfElements(t.signatures[i].header, Text(t.signatures[i].header))
           p(i) == IfElements(t.signatures[i].protected, Base64(t.signatures[i].protected))
           e(i) == SignatureEntry(t.signatures[i], h(i))
           entries == [i \in DOMAIN t.signatures |-> e(i)]
           y == t.payload
           w == [payload |-> y, signatures |-> entries]
<1>0. \A i \in 1..n : /\ e(i).signature = t.signatures[i].signature
                      /\ e(i).header = h(i) /\ e(i).protected = p(i)
  BY DEF SignatureEntry
<1>4. \A i : /\ Parses(h(i), "text") /\ Parses(p(i), "base64")
             /\ h(i) # None <=> HasElements(t.signatures[i].header)
             /\ p(i) # None <=> HasElements(t.signatures[i].protected)
             /\ Parsed(h(i), None) = Seen(t.signatures[i].header, None)
             /\ Parsed(p(i), None) = Seen(t.signatures[i].protected, None)
  BY Written
<1> HIDE DEF h, p
<1>3. \A i \in 1..n : SignatureOf(e(i)) = SeenSignature(t.signatures[i])
  BY <1>0, <1>4 DEF SignatureOf, SeenSignature
<1>7. \A i \in 1..n : ReadsSignature(e(i), "text")
  BY <1>0, <1>4 DEF ReadsSignature
<1>8. \A i \in 1..n : e(i).protected # None \/ e(i).header # None
  BY <1>0, <1>4
<1>1. JwsGeneral(t) = w
  <2>1. JwsGeneral(t) =
          IF \E i \in DOMAIN entries : entries[i].protected = None /\ entries[i].header = None
          THEN None ELSE w
    BY DEF JwsGeneral, h
  <2> HIDE DEF e
  <2>. QED
    BY <1>8, <2>1
<1> HIDE DEF e
<1>2. SeenJws(t, "JwsGeneralJson") =
        [payload |-> y, signatures |-> [i \in DOMAIN t.signatures |-> SeenSignature(t.signatures[i])]]
  BY DEF SeenJws
<1>5. JwsReadable(t, "JwsGeneralJson") <=> Truthy(y) /\ Dots(w) \notin {1, 2}
  BY <1>1 DEF JwsReadable, SerializeJws
<1>6. DeserializeJws(w) = IF Dots(w) \in {1, 2} THEN None ELSE ReadJwsGeneral(w)
  BY JwsJsonIsRead DEF IsCompact, Has
<1>9. ReadJwsGeneral(w) = IF Truthy(y) THEN SeenJws(t, "JwsGeneralJson") ELSE None
  <2>1. w.payload = y /\ w.signatures = entries
    OBVIOUS
  <2>2. DOMAIN entries = 1..n /\ \A i \in 1..n : entries[i] = e(i)
    OBVIOUS
  <2>3. entries # << >>
    <3>1. 1 \in DOMAIN entries
      BY <2>2
    <3>. QED
      BY <3>1
  <2>4. [i \in DOMAIN entries |-> SignatureOf(entries[i])] =
          [i \in DOMAIN t.signatures |-> SeenSignature(t.signatures[i])]
    BY <1>3, <2>2
  <2> HIDE DEF w, entries
  <2>. QED
    BY <1>2, <1>7, <2>1, <2>2, <2>3, <2>4 DEF ReadJwsGeneral
<1>10. w # None
  BY DEF None
<1> HIDE DEF w
<1>. QED
  BY <1>1, <1>5, <1>6, <1>9, <1>10

\* The compact form of an encrypted token is split at its dots ...
LEMMA FivePartsAreSplit ==
  ASSUME NEW a, NEW b, NEW c, NEW d, NEW e
  PROVE  LET w == [parts |-> <<a, b, c, d, e>>]
         IN /\ DeserializeJwe(w) = ReadJweCompact(w)
            /\ w.parts[1] = a /\ w.parts[2] = b /\ w.parts[3] = c
            /\ w.parts[4] = d /\ w.parts[5] = e
            /\ IsCompact(w)
<1> DEFINE w == [parts |-> <<a, b, c, d, e>>]
<1>1. IsCompact(w) /\ Len(w.parts) = 5
  BY DEF IsCompact, Has
<1>2. ~Has(w, "signatures") /\ ~Has(w, "recipients")
  BY DEF Has
<1>3. Dots(w) = 4
  <2>1. Dots(w) = Len(w.parts) - 1
    <3> HIDE DEF w
    <3>. QED
      BY <1>1, <1>2 DEF Dots
  <2>. QED
    BY <1>1, <2>1
<1>4. DeserializeJwe(w) = ReadJweCompact(w)
  BY <1>3 DEF DeserializeJwe
<1>. QED
  BY <1>1, <1>4

\* ... and a JSON document that looks compact is not read.
LEMMA JweJsonIsRead ==
  ASSUME NEW w, ~IsCompact(w), Has(w, "ciphertext")
  PROVE  DeserializeJwe(w) =
           IF Dots(w) = 4 THEN None
           ELSE IF Has(w, "recipients") THEN ReadJweGeneral(w) ELSE ReadJweFlat(w)
<1>1. ReadJweCompact(w) = None
  BY DEF ReadJweCompact
<1>2. CASE Dots(w) = 4
  BY <1>1, <1>2 DEF DeserializeJwe
<1>3. ASSUME Dots(w) # 4, Has(w, "recipients")
      PROVE  DeserializeJwe(w) = ReadJweGeneral(w)
  BY <1>3 DEF DeserializeJwe
<1>4. ASSUME Dots(w) # 4, ~Has(w, "recipients")
      PROVE  DeserializeJwe(w) = ReadJweFlat(w)
  BY <1>4 DEF DeserializeJwe
<1>. QED
  BY <1>2, <1>3, <1>4

\* The tokens that encrypt makes and deserialize reads, with n recipients.
JweShaped(t, n) ==
  /\ n \in Nat \ {0}
  /\ DOMAIN t.recipients = 1..n
  /\ \A i \in 1..n : t.recipients[i].encrypted_key # None
  /\ \A x \in {t.ciphertext, t.aad, t.iv, t.tag} : x # None
  /\ Truthy(t.iv) /\ Truthy(t.recipients[1].encrypted_key)

\* The compact form shows the protected header and the first recipient.
LEMMA JweCompactReads ==
  ASSUME NEW t, NEW n, JweShaped(t, n)
  PROVE  DeserializeJwe(JweCompact(t)) =
           IF JweReadable(t, "JweCompactJson") THEN SeenJwe(t, "JweCompactJson") ELSE None
<1> DEFINE pr == t.protected
           a == IF HasElements(pr) THEN Base64(pr) ELSE Empty
           b == t.recipients[1].encrypted_key
           c == t.iv
           d == t.ciphertext
           e == t.tag
           w == [parts |-> <<a, b, c, d, e>>]
           seen == [protected |-> Seen(pr, EmptyHeader), unprotected |-> EmptyHeader,
                    recipients |-> <<[encrypted_key |-> b, header |-> None]>>,
                    aad |-> Base64(pr), iv |-> c, ciphertext |-> d, tag |-> e]
<1>1. JweCompact(t) = w
  BY DEF JweCompact
<1>2. SeenJwe(t, "JweCompactJson") = seen
  <2>1. [SeenRecipient(t.recipients[1]) EXCEPT !.header = None] =
          [encrypted_key |-> b, header |-> None]
    BY DEF SeenRecipient
  <2>. QED
    BY <2>1 DEF SeenJwe
<1>3. Parses(a, "base64") <=> HasElements(pr)
  BY Encodings DEF Parses, Truthy
<1>4. HasElements(pr) => a = Base64(pr) /\ a.header = Seen(pr, EmptyHeader)
  BY Encodings DEF Seen
<1>5. JweReadable(t, "JweCompactJson") <=> HasElements(pr)
  BY DEF JweReadable
<1> HIDE DEF a, b, c, d, e, pr
<1>6. DeserializeJwe(w) = ReadJweCompact(w)
  BY FivePartsAreSplit
<1>7. ReadJweCompact(w) =
        IF Parses(a, "base64")
        THEN [protected |-> a.header, unprotected |-> EmptyHeader,
              recipients |-> <<[encrypted_key |-> b, header |-> None]>>,
              aad |-> a, iv |-> c, ciphertext |-> d, tag |-> e]
        ELSE None
  BY FivePartsAreSplit DEF ReadJweCompact
<1>. QED
  BY <1>1, <1>2, <1>3, <1>4, <1>5, <1>6, <1>7

\* Flat JSON shows the first recipient and no tag.
LEMMA JweFlatReads ==
  ASSUME NEW t, NEW n, JweShaped(t, n)
  PROVE  DeserializeJwe(JweFlat(t)) =
           IF JweReadable(t, "JweFlatJson") THEN SeenJwe(t, "JweFlatJson") ELSE None
<1> DEFINE r == t.recipients[1]
           aad == t.aad
           iv == t.iv
           ct == t.ciphertext
           tag == t.tag
           key == r.encrypted_key
           pr == IfElements(t.protected, Base64(t.protected))
           un == IfElements(t.unprotected, Base64(t.unprotected))
           h == IfElements(r.header, Text(r.header))
           w == [aad |-> aad, iv |-> iv, ciphertext |-> ct, tag |-> tag, protected |-> pr,
                 unprotected |-> un, encrypted_key |-> key, header |-> h]
           seen == [protected |-> Seen(t.protected, EmptyHeader),
                    unprotected |-> Seen(t.unprotected, EmptyHeader),
                    recipients |-> <<SeenRecipient(r)>>, aad |-> aad, iv |-> iv,
                    ciphertext |-> ct, tag |-> Empty]
<1>1. JweFlat(t) = w
  BY DEF JweFlat
<1>2. SeenJwe(t, "JweFlatJson") = seen
  BY DEF SeenJwe
<1>3. SeenRecipient(r) = [encrypted_key |-> key, header |-> Parsed(h, None)]
  BY Written DEF SeenRecipient
<1>4. /\ Parses(h, "text") /\ Parses(pr, "base64")
      /\ Parses(un, "text") <=> ~HasElements(t.unprotected)
      /\ Parsed(pr, EmptyHeader) = Seen(t.protected, EmptyHeader)
  BY Written
<1>5. ~HasElements(t.unprotected) => Parsed(un, EmptyHeader) = Seen(t.unprotected, EmptyHeader)
  BY DEF Parsed, IfElements, Seen
<1>6. JweReadable(t, "JweFlatJson") <=>
        Dots(w) # 4 /\ Truthy(ct) /\ ~HasElements(t.unprotected)
  BY <1>1 DEF JweReadable, SerializeJwe
<1>7. aad # None /\ Truthy(iv) /\ Truthy(key)
  BY DEF JweShaped
<1> HIDE DEF aad, iv, ct, tag, key, pr, un, h
<1>8. DeserializeJwe(w) = IF Dots(w) = 4 THEN None ELSE ReadJweFlat(w)
  BY JweJsonIsRead DEF IsCompact, Has
<1>9. RecipientOf(w) = SeenRecipient(r)
  BY <1>3 DEF RecipientOf
<1>10. /\ w.ciphertext = ct /\ w.encrypted_key = key /\ w.iv = iv /\ w.header = h
       /\ w.protected = pr /\ w.unprotected = un /\ w.aad = aad
  OBVIOUS
<1> HIDE DEF w
<1>11. ASSUME ~HasElements(t.unprotected)
       PROVE  [JweOf(w, <<RecipientOf(w)>>, Empty) EXCEPT
                 !.aad = IF @ = None THEN Empty ELSE @] = seen
  <2> DEFINE p == Seen(t.protected, EmptyHeader)
             u == Seen(t.unprotected, EmptyHeader)
             rs == <<SeenRecipient(r)>>
  <2>1. JweOf(w, <<RecipientOf(w)>>, Empty) =
          [protected |-> p, unprotected |-> u, recipients |-> rs, aad |-> aad, iv |-> iv,
           ciphertext |-> ct, tag |-> Empty]
    BY <1>4, <1>5, <1>9, <1>10, <1>11 DEF JweOf
  <2> DEFINE j == JweOf(w, <<RecipientOf(w)>>, Empty)
  <2> HIDE DEF p, u, rs, j
  <2>2. [j EXCEPT !.aad = IF @ = None THEN Empty ELSE @] =
          [protected |-> p, unprotected |-> u, recipients |-> rs, aad |-> aad, iv |-> iv,
           ciphertext |-> ct, tag |-> Empty]
    BY <1>7, <2>1 DEF j
  <2>. QED
    BY <2>2 DEF p, u, rs, j
<1> HIDE DEF seen
<1>12. ReadJweFlat(w) = IF Truthy(ct) /\ ~HasElements(t.unprotected) THEN seen ELSE None
  BY <1>4, <1>7, <1>10, <1>11 DEF ReadJweFlat, ReadsHeaders
<1>. QED
  BY <1>1, <1>2, <1>6, <1>8, <1>12

\* General JSON shows everything.
LEMMA JweGeneralReads ==
  ASSUME NEW t, NEW n, JweShaped(t, n)
  PROVE  DeserializeJwe(JweGeneral(t)) =
           IF JweReadable(t, "JweGeneralJson") THEN SeenJwe(t, "JweGeneralJson") ELSE None
<1> DEFINE rs == t.recipients
           aad == t.aad
           iv == t.iv
           ct == t.ciphertext
           tag == t.tag
           pr == IfElements(t.protected, Base64(t.protected))
           un == IfElements(t.unprotected, Text(t.unprotected))
           h(i) == IfElements(rs[i].header, Text(rs[i].header))
           e(i) == RecipientEntry(rs[i])
           entries == [i \in DOMAIN rs |-> e(i)]
           w == [aad |-> aad, iv |-> iv, ciphertext |-> ct, tag |-> tag, protected |-> pr,
                 unprotected |-> un, recipients |-> entries]
           all == [i \in DOMAIN rs |-> SeenRecipient(rs[i])]
           seen == [protected |-> Seen(t.protected, EmptyHeader),
                    unprotected |-> Seen(t.unprotected, EmptyHeader),
                    recipients |-> all, aad |-> aad, iv |-> iv,
                    ciphertext |-> ct, tag |-> tag]
<1>1. JweGeneral(t) = w
  BY DEF JweGeneral
<1>2. SeenJwe(t, "JweGeneralJson") = seen
  BY DEF SeenJwe
<1>3. /\ n \in Nat \ {0} /\ DOMAIN rs = 1..n
      /\ \A i \in 1..n : rs[i].encrypted_key # None
      /\ aad # None /\ iv # None /\ ct # None /\ tag # None
  BY DEF JweShaped
<1>4. /\ Parses(un, "text") /\ Parses(pr, "base64")
      /\ Parsed(pr, EmptyHeader) = Seen(t.protected, EmptyHeader)
      /\ Parsed(un, EmptyHeader) = Seen(t.unprotected, EmptyHeader)
  BY Written
<1>5. \A i : /\ Parses(h(i), "text")
             /\ Parsed(h(i), None) = Seen(rs[i].header, None)
  BY Written
<1>6. \A i : e(i).encrypted_key = rs[i].encrypted_key /\ e(i).header = h(i)
  BY DEF RecipientEntry
<1>7. JweReadable(t, "JweGeneralJson") <=> Dots(w) # 4
  BY <1>1 DEF JweReadable, SerializeJwe
<1> HIDE DEF aad, iv, ct, tag, pr, un, h, e, rs
<1>8. DeserializeJwe(w) = IF Dots(w) = 4 THEN None ELSE ReadJweGeneral(w)
  BY JweJsonIsRead DEF IsCompact, Has
<1>9. \A i : RecipientOf(e(i)) = SeenRecipient(rs[i])
  BY <1>5, <1>6 DEF RecipientOf, SeenRecipient
<1>10. /\ DOMAIN entries = 1..n /\ \A i \in 1..n : entries[i] = e(i)
       /\ entries # << >>
  <2>1. 1 \in DOMAIN entries
    BY <1>3
  <2>. QED
    BY <1>3, <2>1
<1>11. [i \in DOMAIN entries |-> RecipientOf(entries[i])] = all
  BY <1>3, <1>9, <1>10
<1> HIDE DEF entries, all
<1>12. /\ w.ciphertext = ct /\ w.iv = iv /\ w.tag = tag /\ w.recipients = entries
       /\ w.protected = pr /\ w.unprotected = un /\ w.aad = aad
  OBVIOUS
<1> HIDE DEF w
<1>13. /\ \A x \in {w.ciphertext, w.aad, w.iv, w.tag} : x # None
       /\ ReadsHeaders(w)
       /\ w.recipients # << >>
       /\ \A i \in DOMAIN w.recipients : /\ w.recipients[i].encrypted_key # None
                                         /\ Parses(w.recipients[i].header, "text")
  BY <1>3, <1>4, <1>5, <1>6, <1>10, <1>12 DEF ReadsHeaders
<1>14. ReadJweGeneral(w) = JweOf(w, [i \in DOMAIN entries |-> RecipientOf(entries[i])], w.tag)
  BY <1>12, <1>13 DEF ReadJweGeneral
<1>15. ReadJweGeneral(w) = seen
  BY <1>4, <1>11, <1>12, <1>14 DEF JweOf
<1> HIDE DEF seen
<1>. QED
  BY <1>1, <1>2, <1>7, <1>8, <1>15

-----------------------------------------------------------------------------
(* Header maps. *)

\* A header is a map from some of the names to values.
LEMMA Headers ==
  ASSUME NEW h
  PROVE  h \in Header <=> /\ h = [n \in DOMAIN h |-> h[n]]
                          /\ DOMAIN h \subseteq HeaderName
                          /\ \A n \in DOMAIN h : h[n] \in HeaderValue
<1>1. ASSUME h \in Header
      PROVE  /\ h = [n \in DOMAIN h |-> h[n]]
             /\ DOMAIN h \subseteq HeaderName
             /\ \A n \in DOMAIN h : h[n] \in HeaderValue
  <2>1. PICK names \in SUBSET HeaderName : h \in [names -> HeaderValue]
    BY <1>1 DEF Header
  <2>. QED
    BY <2>1
<1>2. ASSUME h = [n \in DOMAIN h |-> h[n]],
             DOMAIN h \subseteq HeaderName,
             \A n \in DOMAIN h : h[n] \in HeaderValue
      PROVE  h \in Header
  <2>1. h \in [DOMAIN h -> HeaderValue]
    BY <1>2
  <2>. QED
    BY <1>2, <2>1 DEF Header
<1>. QED
  BY <1>1, <1>2

\* A header is there, and it is not a reference to one.
LEMMA HeaderIsItself ==
  ASSUME NEW h \in Header, NEW name
  PROVE  h # None /\ h # Shared(name)
<1>1. DOMAIN h \subseteq HeaderName
  BY Headers
<1>2. "none" \notin DOMAIN h /\ "map" \notin DOMAIN h
  BY <1>1 DEF HeaderName, Alg, Enc, Kid, Typ
<1>3. DOMAIN None = {"none"} /\ DOMAIN Shared(name) = {"map"}
  BY DEF None, Shared
<1>. QED
  BY <1>2, <1>3

\* What keys have may be written in a header.
LEMMA KeyValues ==
  ASSUME NEW k \in SigningKey \cup Key
  PROVE  k.alg \in HeaderValue /\ k.kid \in HeaderValue
BY DEF HeaderValue

\* Setting an entry.
LEMMA SetsEntry ==
  ASSUME NEW h \in Header, NEW name \in HeaderName, NEW value \in HeaderValue
  PROVE  /\ Set(h, name, value) \in Header
         /\ DOMAIN Set(h, name, value) = DOMAIN h \cup {name}
         /\ Set(h, name, value)[name] = value
         /\ \A n \in DOMAIN h : n # name => Set(h, name, value)[n] = h[n]
         /\ name \in DOMAIN h /\ h[name] = value => Set(h, name, value) = h
<1> DEFINE s == Set(h, name, value)
<1>1. /\ h = [n \in DOMAIN h |-> h[n]]
      /\ DOMAIN h \subseteq HeaderName
      /\ \A n \in DOMAIN h : h[n] \in HeaderValue
  BY Headers
<1>2. s = [n \in {name} \cup (DOMAIN h \ {name}) |-> IF n = name THEN value ELSE h[n]]
  BY DEF Set
<1>3. DOMAIN s = DOMAIN h \cup {name} /\ s = [n \in DOMAIN s |-> s[n]]
  BY <1>2
<1>4. s[name] = value /\ \A n \in DOMAIN h : n # name => s[n] = h[n]
  BY <1>2
<1>5. name \in DOMAIN h /\ h[name] = value => s = h
  BY <1>1, <1>3, <1>4
<1> HIDE DEF s
<1>6. s \in Header
  BY <1>1, <1>3, <1>4, Headers
<1>. QED
  BY <1>3, <1>4, <1>5, <1>6 DEF s

\* A header without some entries.
LEMMA RestrictsEntries ==
  ASSUME NEW h \in Header, NEW names \in SUBSET DOMAIN h
  PROVE  /\ Restrict(h, names) \in Header
         /\ DOMAIN Restrict(h, names) = names
         /\ \A n \in names : Restrict(h, names)[n] = h[n]
<1> DEFINE r == Restrict(h, names)
<1>1. /\ DOMAIN h \subseteq HeaderName
      /\ \A n \in DOMAIN h : h[n] \in HeaderValue
  BY Headers
<1>2. r = [n \in names |-> h[n]]
  BY DEF Restrict
<1>3. DOMAIN r = names /\ r = [n \in DOMAIN r |-> r[n]] /\ \A n \in names : r[n] = h[n]
  BY <1>2
<1> HIDE DEF r
<1>4. r \in Header
  BY <1>1, <1>3, Headers
<1>. QED
  BY <1>3, <1>4 DEF r

\* Filling in an entry leaves the others, and itself when it is there.
LEMMA FillsEntry ==
  ASSUME NEW h \in Header, NEW name \in HeaderName, NEW value \in HeaderValue
  PROVE  /\ Fill(h, name, value) \in Header
         /\ name \in DOMAIN h /\ h[name] # "" => Fill(h, name, value) = h
         /\ value \notin {"", Undefined} =>
              /\ name \in DOMAIN Fill(h, name, value)
              /\ Fill(h, name, value)[name] # ""
              /\ name \notin DOMAIN h => Fill(h, name, value)[name] = value
<1>1. CASE name \in DOMAIN h /\ h[name] # ""
  BY <1>1 DEF Fill
<1>2. CASE ~(name \in DOMAIN h /\ h[name] # "") /\ value = Undefined
  BY <1>2, RestrictsEntries DEF Fill
<1>3. CASE ~(name \in DOMAIN h /\ h[name] # "") /\ value # Undefined
  <2> DEFINE s == Set(h, name, value)
  <2>1. /\ s \in Header
        /\ DOMAIN s = DOMAIN h \cup {name}
        /\ s[name] = value
        /\ \A n \in DOMAIN h : n # name => s[n] = h[n]
    BY SetsEntry
  <2>2. Fill(h, name, value) = s
    BY <1>3 DEF Fill
  <2> HIDE DEF s
  <2>. QED
    BY <1>3, <2>1, <2>2
<1>. QED
  BY <1>1, <1>2, <1>3

\* The others, one by one.
LEMMA FillsOnlyEntry ==
  ASSUME NEW h \in Header, NEW name \in HeaderName, NEW value \in HeaderValue,
         NEW n \in DOMAIN h, n # name
  PROVE  n \in DOMAIN Fill(h, name, value) /\ Fill(h, name, value)[n] = h[n]
<1>1. CASE name \in DOMAIN h /\ h[name] # ""
  BY <1>1 DEF Fill
<1>2. CASE ~(name \in DOMAIN h /\ h[name] # "") /\ value = Undefined
  <2> DEFINE r == Restrict(h, DOMAIN h \ {name})
  <2>1. DOMAIN r = DOMAIN h \ {name} /\ \A m \in DOMAIN h \ {name} : r[m] = h[m]
    BY RestrictsEntries
  <2>2. Fill(h, name, value) = r
    BY <1>2 DEF Fill
  <2> HIDE DEF r
  <2>. QED
    BY <2>1, <2>2
<1>3. CASE ~(name \in DOMAIN h /\ h[name] # "") /\ value # Undefined
  <2> DEFINE s == Set(h, name, value)
  <2>1. DOMAIN s = DOMAIN h \cup {name} /\ \A m \in DOMAIN h : m # name => s[m] = h[m]
    BY DEF Set
  <2>2. Fill(h, name, value) = s
    BY <1>3 DEF Fill
  <2> HIDE DEF s
  <2>. QED
    BY <2>1, <2>2
<1>. QED
  BY <1>1, <1>2, <1>3

\* The header that sign writes.
LEMMA SignsHeader ==
  ASSUME NEW h \in Header, NEW key \in SigningKey
  PROVE  SignHeader(h, key) \in Header
<1>1. key.alg \in HeaderValue /\ key.kid \in HeaderValue
  BY KeyValues
<1>2. Alg \in HeaderName /\ Kid \in HeaderName
  BY DEF HeaderName, Alg, Kid
<1>. QED
  BY <1>1, <1>2, FillsEntry DEF SignHeader

\* The map p keeps a sign with alg from changing its algorithm and its kid.
Settled(p, alg) ==
  /\ Alg \in DOMAIN p /\ p[Alg] = alg
  /\ Kid \in DOMAIN p /\ p[Kid] # ""

\* The protected header that sign writes has an algorithm, the key's unless there
\* was one before, and stays as it is once it is settled.
LEMMA SignsProtected ==
  ASSUME NEW p \in Header, NEW h \in Header, NEW key \in SigningKey
  PROVE  LET q == SignProtected(p, h, key)
         IN /\ q \in Header
            /\ Alg \in DOMAIN q
            /\ Alg \notin DOMAIN p => q[Alg] = key.alg
            /\ key.kid # Undefined => Kid \in DOMAIN q /\ q[Kid] # ""
            /\ \A a : a # "" /\ Settled(p, a) /\ q[Alg] = a => q = p
<1> DEFINE alg == key.alg
           kid == key.kid
           s == Set(p, Alg, alg)
           r == IF Alg \in DOMAIN h THEN p ELSE s
           f == Fill(r, Alg, alg)
           q == Fill(f, Kid, kid)
<1>1. alg \in HeaderValue /\ kid \in HeaderValue /\ alg \notin {"", Undefined} /\ kid # ""
  BY KeyValues, ConstantsAssumption
<1>2. Alg \in HeaderName /\ Kid \in HeaderName /\ Alg # Kid
  BY DEF HeaderName, Alg, Kid
<1>3. SignProtected(p, h, key) = q
  BY DEF SignProtected
<1> HIDE DEF alg, kid
<1>4. /\ s \in Header
      /\ DOMAIN s = DOMAIN p \cup {Alg}
      /\ s[Alg] = alg
      /\ \A n \in DOMAIN p : n # Alg => s[n] = p[n]
      /\ Alg \in DOMAIN p /\ p[Alg] = alg => s = p
  BY <1>1, <1>2, SetsEntry
<1> HIDE DEF s
<1>5. /\ r \in Header
      /\ r = p \/ r = s
      /\ Kid \in DOMAIN p => Kid \in DOMAIN r /\ r[Kid] = p[Kid]
      /\ Alg \notin DOMAIN p /\ Alg \in DOMAIN r => r[Alg] = alg
  BY <1>2, <1>4
<1> HIDE DEF r
<1>6. /\ f \in Header
      /\ Alg \in DOMAIN r /\ r[Alg] # "" => f = r
      /\ Alg \in DOMAIN f
      /\ Alg \notin DOMAIN r => f[Alg] = alg
  <2>1. f \in Header
    BY <1>1, <1>2, <1>5, FillsEntry
  <2>2. Alg \in DOMAIN r /\ r[Alg] # "" => f = r
    BY DEF Fill
  <2>3. Alg \in DOMAIN f
    BY <1>1, <1>2, <1>5, FillsEntry
  <2>4. Alg \notin DOMAIN r => f[Alg] = alg
    BY <1>1, <1>2, <1>5, FillsEntry
  <2>. QED
    BY <2>1, <2>2, <2>3, <2>4
<1> HIDE DEF f
<1>7. Alg \notin DOMAIN p => f[Alg] = alg
  BY <1>1, <1>5, <1>6
<1>8. /\ q \in Header
      /\ Kid \in DOMAIN f /\ f[Kid] # "" => q = f
      /\ \A n \in DOMAIN f : n # Kid => n \in DOMAIN q /\ q[n] = f[n]
      /\ kid # Undefined => Kid \in DOMAIN q /\ q[Kid] # ""
  <2>1. q \in Header
    BY <1>1, <1>2, <1>6, FillsEntry
  <2>2. Kid \in DOMAIN f /\ f[Kid] # "" => q = f
    BY DEF Fill
  <2>3. ASSUME NEW n \in DOMAIN f, n # Kid
        PROVE  n \in DOMAIN q /\ q[n] = f[n]
    BY <1>1, <1>2, <1>6, <2>3, FillsOnlyEntry
  <2>4. kid # Undefined => Kid \in DOMAIN q
    BY <1>1, <1>2, <1>6, FillsEntry
  <2>5. kid # Undefined => q[Kid] # ""
    BY <1>1, <1>2, <1>6, FillsEntry
  <2>. QED
    BY <2>1, <2>2, <2>3, <2>4, <2>5
<1> HIDE DEF q
<1>9. Alg \in DOMAIN q /\ q[Alg] = f[Alg]
  BY <1>2, <1>6, <1>8
<1>10. ASSUME NEW a, a # "", Settled(p, a), q[Alg] = a
       PROVE  q = p
  <2>1. Alg \in DOMAIN r /\ r[Alg] # ""
    BY <1>1, <1>4, <1>5, <1>10 DEF Settled
  <2>2. f = r /\ q = f
    BY <1>5, <1>6, <1>8, <1>10, <2>1 DEF Settled
  <2>. QED
    BY <1>4, <1>5, <1>10, <2>2 DEF Settled
<1>. QED
  BY <1>3, <1>7, <1>8, <1>9, <1>10 DEF alg, kid

\* What JSON writes of a header has no entries that it would leave out.
LEMMA DefinedEntries ==
  ASSUME NEW h \in Header
  PROVE  /\ Defined(h) \in Header
         /\ Defined(Defined(h)) = Defined(h)
         /\ Base64(Defined(h)) = Base64(h)
         /\ Base64(h) \in Encoded
         /\ \A n \in DOMAIN h : h[n] # Undefined =>
              n \in DOMAIN Defined(h) /\ Defined(h)[n] = h[n]
<1> DEFINE names == {n \in DOMAIN h : h[n] # Undefined}
           d == Defined(h)
<1>1. d = Restrict(h, names)
  BY DEF Defined
<1>2. d \in Header /\ DOMAIN d = names /\ \A n \in names : d[n] = h[n]
  BY <1>1, RestrictsEntries
<1> HIDE DEF d
<1>3. {n \in DOMAIN d : d[n] # Undefined} = DOMAIN d
  BY <1>2
<1>4. Defined(d) = Restrict(d, DOMAIN d)
  BY <1>3 DEF Defined
<1>5. Restrict(d, DOMAIN d) = d
  BY <1>2, Headers DEF Restrict
<1>6. Base64(h) = [encoding |-> "base64", header |-> d]
      /\ Base64(d) = [encoding |-> "base64", header |-> Defined(d)]
  BY DEF Base64, d
<1>7. Base64(h) \in Encoded
  BY <1>2, <1>6 DEF Encoded
<1>. QED
  BY <1>2, <1>4, <1>5, <1>6, <1>7 DEF d

\* The empty header, and that of a JWT.
LEMMA NewHeaders ==
  /\ EmptyHeader \in Header /\ DOMAIN EmptyHeader = {}
  /\ [n \in {Typ} |-> "JWT"] \in Header
  /\ DOMAIN [n \in {Typ} |-> "JWT"] = {Typ}
<1>1. DOMAIN EmptyHeader = {} /\ EmptyHeader = [n \in DOMAIN EmptyHeader |-> EmptyHeader[n]]
  BY DEF EmptyHeader
<1>2. EmptyHeader \in Header
  BY <1>1, Headers
<1> DEFINE j == [n \in {Typ} |-> "JWT"]
<1>3. /\ DOMAIN j = {Typ} /\ j = [n \in DOMAIN j |-> j[n]]
      /\ \A n \in DOMAIN j : j[n] = "JWT"
  OBVIOUS
<1>4. {Typ} \subseteq HeaderName /\ "JWT" \in HeaderValue
  BY DEF HeaderName, HeaderValue, Typ
<1> HIDE DEF j
<1>5. j \in Header
  BY <1>3, <1>4, Headers
<1>. QED
  BY <1>1, <1>2, <1>3, <1>5 DEF j

-----------------------------------------------------------------------------
(* Recipients. *)

\* A set of numbers has a least one.
LEMMA Least ==
  ASSUME NEW T \in SUBSET Nat, T # {}
  PROVE  Min(T) \in T /\ \A y \in T : Min(T) <= y
<1> DEFINE R == OpToRel(<, Nat)
<1>1. IsWellFoundedOn(R, Nat)
  BY NatLessThanWellFounded
<1>2. \A x, y \in Nat : <<y, x>> \in R <=> y < x
  BY DEF OpToRel
<1> HIDE DEF R
<1>3. PICK x \in T : \A y \in T : <<y, x>> \notin R
  BY <1>1, WFMin
<1>4. ASSUME NEW y \in T PROVE x <= y
  <2>1. x \in Nat /\ y \in Nat
    OBVIOUS
  <2>2. ~(y < x)
    BY <1>2, <1>3, <2>1
  <2>. QED
    BY <2>1, <2>2
<1>. QED
  BY <1>3, <1>4 DEF Min

\* The key that decides on the algorithm is one of the recipients'.
LEMMA ChosenIsOne ==
  ASSUME NEW ks \in Seq(Key), ks # << >>
  PROVE  /\ Chosen(ks) \in Key
         /\ KeyAlg(Chosen(ks)) \in HeaderValue
         /\ KeyAlg(Chosen(ks)) # Undefined
<1> DEFINE I == {i \in 1..Len(ks) : ks[i].alg = "RSA-OAEP-256"}
<1>1. I # {} => Min(I) \in I
  BY Least
<1>2. Chosen(ks) = ks[IF I = {} THEN 1 ELSE IF Min(I) = 0 THEN 1 ELSE Min(I)]
  BY DEF Chosen, SelectInSeq
<1>3. 1 \in 1..Len(ks)
  OBVIOUS
<1>4. Chosen(ks) \in Key
  BY <1>1, <1>2, <1>3
<1>5. Chosen(ks).alg \in HeaderValue
  BY <1>4, KeyValues
<1>6. "RSA-OAEP-256" \in HeaderValue /\ "RSA-OAEP-256" # Undefined
  BY DEF HeaderValue, Undefined
<1>. QED
  BY <1>4, <1>5, <1>6 DEF KeyAlg

\* The places of the recipients with the kid of a key.
SameKid(t, key) ==
  {i \in 1..Len(t.recipients) : LET r == t.recipients[i] IN
     /\ key.kid # Undefined
     /\ r.header # None /\ Kid \in DOMAIN r.header
     /\ r.header[Kid] = key.kid}

\* The first of them is tried.
LEMMA FirstIsTried ==
  ASSUME NEW t, NEW key
  PROVE  LET S == SameKid(t, key) IN
         /\ Attempt(t, key) = t.recipients[IF S = {} THEN 1 ELSE Min(S)]
         /\ S # {} => Min(S) \in S /\ \A i \in S : Min(S) <= i
<1> DEFINE S == SameKid(t, key)
<1>1. S \subseteq Nat \ {0}
  BY DEF SameKid
<1>2. S # {} => Min(S) \in S /\ \A i \in S : Min(S) <= i
  BY <1>1, Least
<1>3. Attempt(t, key) =
        t.recipients[IF S = {} THEN 1 ELSE IF Min(S) = 0 THEN 1 ELSE Min(S)]
  BY DEF Attempt, SelectInSeq, SameKid
<1>. QED
  BY <1>1, <1>2, <1>3

\* The recipient of a key, with its content key, as encrypt makes it.
Recipient(key, id) ==
  [header |-> [n \in {Kid} |-> key.kid], encrypted_key |-> [wrapped |-> id, for |-> key.id]]

\* Its header shows the kid, if there is one.
LEMMA RecipientShows ==
  ASSUME NEW key, NEW id
  PROVE  LET r == SeenRecipient(Recipient(key, id)) IN
         /\ r.encrypted_key = [wrapped |-> id, for |-> key.id]
         /\ r.header # None
         /\ key.kid # Undefined => r.header = [n \in {Kid} |-> key.kid]
         /\ key.kid = Undefined => r.header = EmptyHeader
<1> DEFINE kid == key.kid
           h == [n \in {Kid} |-> kid]
<1>1. DOMAIN h = {Kid} /\ h[Kid] = kid
  OBVIOUS
<1>2. h # None
  <2>1. DOMAIN None = {"none"} /\ Kid # "none"
    BY DEF None, Kid
  <2>. QED
    BY <1>1, <2>1
<1>3. HasElements(h)
  BY <1>1, <1>2 DEF HasElements
<1>4. SeenRecipient(Recipient(key, id)) =
        [encrypted_key |-> [wrapped |-> id, for |-> key.id], header |-> Defined(h)]
  BY <1>3 DEF SeenRecipient, Recipient, Seen
<1> DEFINE names == {n \in {Kid} : h[n] # Undefined}
<1>5. Defined(h) = [n \in names |-> h[n]]
  BY <1>1 DEF Defined, Restrict
<1>6. kid # Undefined => Defined(h) = h
  BY <1>1, <1>5
<1>7. kid = Undefined => Defined(h) = EmptyHeader
  BY <1>1, <1>5 DEF EmptyHeader
<1>8. EmptyHeader # None
  <2>1. DOMAIN None = {"none"} /\ DOMAIN EmptyHeader = {}
    BY DEF None, EmptyHeader
  <2>. QED
    BY <2>1
<1>. QED
  BY <1>2, <1>4, <1>6, <1>7, <1>8

-----------------------------------------------------------------------------
(* Encrypted tokens. *)

\* The protected header of what is encrypted for ks.
Sealed(protected, ks, aad) ==
  /\ Alg \in DOMAIN protected /\ protected[Alg] = KeyAlg(Chosen(ks))
  /\ Base64(protected) = aad

Ciphertext(payload) == IF payload = Empty THEN Empty ELSE [cipher |-> payload]

\* The token with the content key of a number, for ks, with a protected header
\* that it may show now.
SealedToken(protected, ks, id, aad, payload) ==
  [protected |-> protected, unprotected |-> EmptyHeader,
   recipients |-> [i \in 1..Len(ks) |-> Recipient(ks[i], id)],
   aad |-> aad, iv |-> [iv |-> id], ciphertext |-> Ciphertext(payload),
   tag |-> Tag(id, aad, payload)]

\* The forms keep it, and the reader of one of them gets what the form shows.
LEMMA SealedTokenIsRead ==
  ASSUME NEW P \in Header, Alg \in DOMAIN P, NEW ks \in Seq(Key), ks # << >>,
         NEW id \in 1..MaxTokens, NEW aad \in Encoded, NEW payload \in Payload,
         NEW f \in JweFormat
  PROVE  LET t == SealedToken(P, ks, id, aad, payload)
         IN /\ JweShaped(t, Len(ks))
            /\ Deserialize(Serialize(t, f), f) =
                 IF JweReadable(t, f) THEN SeenJwe(t, f) ELSE None
<1> DEFINE t == SealedToken(P, ks, id, aad, payload)
           n == Len(ks)
<1>1. n \in Nat \ {0} /\ DOMAIN ks = 1..n
  OBVIOUS
<1>2. /\ t.recipients = [i \in 1..n |-> Recipient(ks[i], id)]
      /\ t.aad = aad /\ t.iv = [iv |-> id]
      /\ t.ciphertext = Ciphertext(payload) /\ t.tag = Tag(id, aad, payload)
  BY DEF SealedToken
<1> HIDE DEF t, n
<1>3. /\ [iv |-> id] \notin {None, Empty} /\ Tag(id, aad, payload) # None
      /\ Ciphertext(payload) # None
  BY DEF None, Empty, Tag, Ciphertext
<1>4. aad # None
  <2>1. PICK h : aad = [encoding |-> "base64", header |-> h]
    BY DEF Encoded
  <2>. QED
    BY <2>1 DEF None
<1>5. ASSUME NEW i \in 1..n
      PROVE  t.recipients[i].encrypted_key \notin {None, Empty}
  <2>1. t.recipients[i].encrypted_key = [wrapped |-> id, for |-> ks[i].id]
    BY <1>2 DEF Recipient
  <2>2. [wrapped |-> id, for |-> ks[i].id] \notin {None, Empty}
    BY DEF None, Empty
  <2>. QED
    BY <2>1, <2>2
<1>6. 1 \in 1..n /\ DOMAIN t.recipients = 1..n
  BY <1>1, <1>2
<1>7. JweShaped(t, n)
  BY <1>1, <1>2, <1>3, <1>4, <1>5, <1>6 DEF JweShaped, Truthy
<1>8. f \notin JwsFormat /\ Serialize(t, f) = SerializeJwe(t, f)
      /\ \A w : Deserialize(w, f) = DeserializeJwe(w)
  <2>1. f \notin JwsFormat
    BY DEF JwsFormat, JweFormat
  <2>. QED
    BY <2>1 DEF Serialize, Deserialize
<1>9. CASE f = "JweGeneralJson"
  <2>1. SerializeJwe(t, f) = JweGeneral(t)
    BY <1>9 DEF SerializeJwe
  <2>. QED
    BY <1>7, <1>8, <1>9, <2>1, JweGeneralReads DEF t, n
<1>10. CASE f = "JweFlatJson"
  <2>1. SerializeJwe(t, f) = JweFlat(t)
    BY <1>10 DEF SerializeJwe
  <2>. QED
    BY <1>7, <1>8, <1>10, <2>1, JweFlatReads DEF t, n
<1>11. CASE f = "JweCompactJson"
  <2>1. SerializeJwe(t, f) = JweCompact(t)
    BY <1>11 DEF SerializeJwe
  <2>. QED
    BY <1>7, <1>8, <1>11, <2>1, JweCompactReads DEF t, n
<1>. QED
  BY <1>9, <1>10, <1>11 DEF JweFormat

\* What the reader of a form gets, member after member.
LEMMA SealedTokenSeen ==
  ASSUME NEW P \in Header, Alg \in DOMAIN P, NEW ks \in Seq(Key), ks # << >>,
         NEW id \in 1..MaxTokens, NEW aad \in Encoded, NEW payload \in Payload,
         NEW f \in JweFormat
  PROVE  LET t == SealedToken(P, ks, id, aad, payload)
             n == IF f = "JweGeneralJson" THEN Len(ks) ELSE 1
             r(i) == IF f = "JweCompactJson"
                     THEN [encrypted_key |-> [wrapped |-> id, for |-> ks[i].id],
                           header |-> None]
                     ELSE SeenRecipient(Recipient(ks[i], id))
         IN SeenJwe(t, f) =
              [protected |-> Defined(P), unprotected |-> EmptyHeader,
               recipients |-> [i \in 1..n |-> r(i)],
               aad |-> IF f = "JweCompactJson" THEN Base64(P) ELSE aad,
               iv |-> [iv |-> id], ciphertext |-> Ciphertext(payload),
               tag |-> IF f = "JweFlatJson" THEN Empty ELSE Tag(id, aad, payload)]
<1> DEFINE t == SealedToken(P, ks, id, aad, payload)
<1>1. Len(ks) \in Nat \ {0}
  OBVIOUS
<1>2. /\ t.recipients = [i \in 1..Len(ks) |-> Recipient(ks[i], id)]
      /\ t.aad = aad /\ t.iv = [iv |-> id]
      /\ t.protected = P /\ t.unprotected = EmptyHeader
      /\ t.ciphertext = Ciphertext(payload) /\ t.tag = Tag(id, aad, payload)
  BY DEF SealedToken
<1>3. t.recipients[1] = Recipient(ks[1], id)
  BY <1>1, <1>2
<1> HIDE DEF t
<1>4. Seen(P, EmptyHeader) = Defined(P)
  BY HeaderIsItself DEF Seen, HasElements
<1>5. Seen(EmptyHeader, EmptyHeader) = EmptyHeader
  BY NewHeaders DEF Seen, HasElements
<1>6. CASE f = "JweGeneralJson"
  <2> DEFINE rs == [i \in 1..Len(ks) |-> SeenRecipient(Recipient(ks[i], id))]
  <2>1. [i \in DOMAIN t.recipients |-> SeenRecipient(t.recipients[i])] = rs
    BY <1>2
  <2> HIDE DEF rs
  <2>2. SeenJwe(t, f) =
          [protected |-> Seen(t.protected, EmptyHeader),
           unprotected |-> Seen(t.unprotected, EmptyHeader),
           recipients |-> [i \in DOMAIN t.recipients |-> SeenRecipient(t.recipients[i])],
           aad |-> t.aad, iv |-> t.iv, ciphertext |-> t.ciphertext, tag |-> t.tag]
    BY <1>6 DEF SeenJwe
  <2>3. SeenJwe(t, f) =
          [protected |-> Defined(P), unprotected |-> EmptyHeader, recipients |-> rs,
           aad |-> aad, iv |-> [iv |-> id], ciphertext |-> Ciphertext(payload),
           tag |-> Tag(id, aad, payload)]
    BY <1>2, <1>4, <1>5, <2>1, <2>2
  <2>. QED
    BY <1>6, <2>3 DEF rs, t
<1>7. CASE f = "JweFlatJson"
  <2> DEFINE r1 == SeenRecipient(Recipient(ks[1], id))
             rs == [i \in 1..1 |-> SeenRecipient(Recipient(ks[i], id))]
  <2>1. <<r1>> = rs
    OBVIOUS
  <2>2. SeenJwe(t, f) =
          [protected |-> Seen(t.protected, EmptyHeader),
           unprotected |-> Seen(t.unprotected, EmptyHeader),
           recipients |-> <<SeenRecipient(t.recipients[1])>>,
           aad |-> t.aad, iv |-> t.iv, ciphertext |-> t.ciphertext, tag |-> Empty]
    BY <1>7 DEF SeenJwe
  <2> HIDE DEF rs
  <2>3. SeenJwe(t, f) =
          [protected |-> Defined(P), unprotected |-> EmptyHeader, recipients |-> rs,
           aad |-> aad, iv |-> [iv |-> id], ciphertext |-> Ciphertext(payload),
           tag |-> Empty]
    BY <1>2, <1>3, <1>4, <1>5, <2>1, <2>2
  <2>. QED
    BY <1>7, <2>3 DEF rs, t
<1>8. CASE f = "JweCompactJson"
  <2> DEFINE r1 == [encrypted_key |-> [wrapped |-> id, for |-> ks[1].id], header |-> None]
             rs == [i \in 1..1 |-> [encrypted_key |-> [wrapped |-> id, for |-> ks[i].id],
                                    header |-> None]]
  <2>1. <<r1>> = rs
    OBVIOUS
  <2>2. [SeenRecipient(t.recipients[1]) EXCEPT !.header = None] = r1
    BY <1>3 DEF SeenRecipient, Recipient
  <2>3. SeenJwe(t, f) =
          [protected |-> Seen(t.protected, EmptyHeader), unprotected |-> EmptyHeader,
           recipients |-> <<[SeenRecipient(t.recipients[1]) EXCEPT !.header = None]>>,
           aad |-> Base64(t.protected), iv |-> t.iv, ciphertext |-> t.ciphertext,
           tag |-> t.tag]
    BY <1>8 DEF SeenJwe
  <2> HIDE DEF rs, r1
  <2>4. SeenJwe(t, f) =
          [protected |-> Defined(P), unprotected |-> EmptyHeader, recipients |-> rs,
           aad |-> Base64(P), iv |-> [iv |-> id], ciphertext |-> Ciphertext(payload),
           tag |-> Tag(id, aad, payload)]
    BY <1>2, <1>4, <2>1, <2>2, <2>3
  <2>. QED
    BY <1>8, <2>4 DEF rs, t
<1>. QED
  BY <1>6, <1>7, <1>8 DEF JweFormat

\* What a token that is being decrypted has is what its maker encrypted.
TagFits(t, payload) == t.tag # Empty => t.tag.payload = payload

\* What is read has the type of a token, and the tag of the payload if it has one.
LEMMA SealedTokenStaysOne ==
  ASSUME NEW P \in Header, Alg \in DOMAIN P, NEW ks \in Seq(Key), ks # << >>,
         NEW id \in 1..MaxTokens, NEW aad \in Encoded, NEW payload \in Payload,
         NEW f \in JweFormat
  PROVE  LET w == SeenJwe(SealedToken(P, ks, id, aad, payload), f)
         IN w \in JweToken /\ TagFits(w, payload)
<1> DEFINE w == SeenJwe(SealedToken(P, ks, id, aad, payload), f)
           n == IF f = "JweGeneralJson" THEN Len(ks) ELSE 1
           r(i) == IF f = "JweCompactJson"
                   THEN [encrypted_key |-> [wrapped |-> id, for |-> ks[i].id],
                         header |-> None]
                   ELSE SeenRecipient(Recipient(ks[i], id))
           rs == [i \in 1..n |-> r(i)]
           ad == IF f = "JweCompactJson" THEN Base64(P) ELSE aad
           tag == IF f = "JweFlatJson" THEN Empty ELSE Tag(id, aad, payload)
<1>1. w = [protected |-> Defined(P), unprotected |-> EmptyHeader, recipients |-> rs,
           aad |-> ad, iv |-> [iv |-> id], ciphertext |-> Ciphertext(payload), tag |-> tag]
  BY SealedTokenSeen
<1>2. n \in 1..Len(ks)
  OBVIOUS
<1>3. ASSUME NEW i \in 1..n
      PROVE  r(i) \in JweRecipient
  <2>1. ks[i] \in Key
    BY <1>2
  <2> DEFINE k == ks[i]
             e == [wrapped |-> id, for |-> k.id]
             s == SeenRecipient(Recipient(k, id))
  <2>2. e \in [wrapped : 1..MaxTokens, for : {q.id : q \in Key}]
    BY <2>1
  <2>3. CASE f = "JweCompactJson"
    <3>1. r(i) = [encrypted_key |-> e, header |-> None]
      BY <2>3
    <3> HIDE DEF e, r
    <3>. QED
      BY <2>2, <3>1 DEF JweRecipient
  <2>4. CASE f # "JweCompactJson"
    <3>1. r(i) = s
      BY <2>4
    <3>2. k.kid \in HeaderValue
      BY <2>1, KeyValues
    <3>3. /\ s.encrypted_key = e
          /\ k.kid # Undefined => s.header = [m \in {Kid} |-> k.kid]
          /\ k.kid = Undefined => s.header = EmptyHeader
      BY RecipientShows
    <3>4. s = [encrypted_key |-> s.encrypted_key, header |-> s.header]
      BY DEF SeenRecipient
    <3>5. s.header \in {None} \cup [{Kid} -> HeaderValue] \cup {EmptyHeader}
      BY <3>2, <3>3
    <3> HIDE DEF e, r, s
    <3>. QED
      BY <2>2, <3>1, <3>3, <3>4, <3>5 DEF JweRecipient
  <2>. QED
    BY <2>3, <2>4
<1> HIDE DEF r
<1>4. rs \in Seq(JweRecipient)
  BY <1>2, <1>3
<1>5. /\ Defined(P) \in Ref("protected") /\ ad \in Encoded
      /\ Ciphertext(payload) \in {Empty} \cup [cipher : Payload]
  BY DefinedEntries DEF Ref, Ciphertext
<1>6. Tag(id, aad, payload) \in [key : 1..MaxTokens, iv : 1..MaxTokens, aad : Encoded,
                                 payload : Payload]
  BY DEF Tag
<1>7. tag \in {Empty} \cup [key : 1..MaxTokens, iv : 1..MaxTokens, aad : Encoded,
                            payload : Payload]
  BY <1>6
<1>8. tag # Empty => tag.payload = payload
  BY DEF Tag
<1> HIDE DEF w, rs, ad, tag, n
<1>9. w \in JweToken
  BY <1>1, <1>4, <1>5, <1>7 DEF JweToken
<1>10. TagFits(w, payload)
  BY <1>1, <1>8 DEF TagFits
<1>. QED
  BY <1>9, <1>10 DEF w

\* Who has the key of a recipient that can be told from the others opens the token.
LEMMA SealedTokenOpens ==
  ASSUME NEW P \in Header, NEW ks \in Seq(Key), ks # << >>,
         NEW id \in 1..MaxTokens, NEW aad \in Encoded, NEW payload \in Payload,
         NEW f \in {"JweGeneralJson", "JweCompactJson"},
         Sealed(P, ks, aad), KeyAlg(Chosen(ks)) \in RsaOaep,
         NEW i \in 1..Len(ks), ks[i].kty = "RSA",
         \/ i = 1
         \/ /\ f = "JweGeneralJson"
            /\ ks[i].kid # Undefined
            /\ \A j \in 1..(i - 1) : ks[j].kid # ks[i].kid
  PROVE  LET w == SeenJwe(SealedToken(P, ks, id, aad, payload), f)
         IN Decrypts(w, Attempt(w, ks[i]), ks[i])
<1> DEFINE w == SeenJwe(SealedToken(P, ks, id, aad, payload), f)
           n == IF f = "JweGeneralJson" THEN Len(ks) ELSE 1
           r(j) == IF f = "JweCompactJson"
                   THEN [encrypted_key |-> [wrapped |-> id, for |-> ks[j].id],
                         header |-> None]
                   ELSE SeenRecipient(Recipient(ks[j], id))
           rs == [j \in 1..n |-> r(j)]
           tag == Tag(id, aad, payload)
           k == ks[i]
           S == SameKid(w, k)
<1>1. Alg \in DOMAIN P /\ P[Alg] = KeyAlg(Chosen(ks)) /\ Base64(P) = aad
  BY DEF Sealed
<1>2. w = [protected |-> Defined(P), unprotected |-> EmptyHeader, recipients |-> rs,
           aad |-> aad, iv |-> [iv |-> id], ciphertext |-> Ciphertext(payload), tag |-> tag]
  <2> DEFINE ad == IF f = "JweCompactJson" THEN Base64(P) ELSE aad
             any == IF f = "JweFlatJson" THEN Empty ELSE Tag(id, aad, payload)
  <2>1. f \in JweFormat /\ f # "JweFlatJson"
    BY DEF JweFormat
  <2>2. w = [protected |-> Defined(P), unprotected |-> EmptyHeader, recipients |-> rs,
             aad |-> ad, iv |-> [iv |-> id], ciphertext |-> Ciphertext(payload),
             tag |-> any]
    BY <1>1, <2>1, SealedTokenSeen
  <2>3. ad = aad /\ any = tag
    BY <1>1, <2>1
  <2> HIDE DEF w, rs, ad, any, tag
  <2>. QED
    BY <2>2, <2>3
<1>3. n \in 1..Len(ks) /\ i \in 1..n
  OBVIOUS
<1>4. ASSUME NEW j \in 1..n
      PROVE  /\ r(j).encrypted_key.for = ks[j].id /\ r(j).encrypted_key.wrapped = id
             /\ r(j).header = None \/ Alg \notin DOMAIN r(j).header
             /\ f = "JweGeneralJson" /\ k.kid # Undefined =>
                  ((r(j).header # None /\ Kid \in DOMAIN r(j).header
                      /\ r(j).header[Kid] = k.kid) <=> ks[j].kid = k.kid)
             /\ f = "JweCompactJson" => r(j).header = None
  <2> DEFINE s == SeenRecipient(Recipient(ks[j], id))
             kid == ks[j].kid
             h == [m \in {Kid} |-> kid]
  <2>1. CASE f = "JweCompactJson"
    <3>1. r(j) = [encrypted_key |-> [wrapped |-> id, for |-> ks[j].id], header |-> None]
      BY <2>1
    <3> HIDE DEF r
    <3>. QED
      BY <2>1, <3>1
  <2>2. CASE f # "JweCompactJson"
    <3>1. r(j) = s
      BY <2>2
    <3>2. /\ s.encrypted_key = [wrapped |-> id, for |-> ks[j].id]
          /\ s.header # None
          /\ kid # Undefined => s.header = h
          /\ kid = Undefined => s.header = EmptyHeader
      BY RecipientShows
    <3>3. DOMAIN EmptyHeader = {} /\ Alg # Kid
      BY NewHeaders DEF Alg, Kid
    <3>4. DOMAIN h = {Kid} /\ h[Kid] = kid
      OBVIOUS
    <3> HIDE DEF r, s, h, kid
    <3>5. /\ r(j).header = None \/ Alg \notin DOMAIN r(j).header
          /\ k.kid # Undefined =>
               ((r(j).header # None /\ Kid \in DOMAIN r(j).header
                   /\ r(j).header[Kid] = k.kid) <=> kid = k.kid)
      BY <3>1, <3>2, <3>3, <3>4
    <3>. QED
      BY <2>2, <3>1, <3>2, <3>5 DEF kid
  <2>. QED
    BY <2>1, <2>2
<1> HIDE DEF r
<1>5. Len(rs) = n /\ \A j \in 1..n : rs[j] = r(j)
  BY <1>3
<1> HIDE DEF rs, tag
<1>6. /\ w.recipients = rs /\ w.protected = Defined(P) /\ w.aad = aad
      /\ w.iv = [iv |-> id] /\ w.ciphertext = Ciphertext(payload) /\ w.tag = tag
  BY <1>2
<1> HIDE DEF w, n
<1>7. Attempt(w, k) = rs[i]
  <2>1. /\ Attempt(w, k) = rs[IF S = {} THEN 1 ELSE Min(S)]
        /\ S # {} => Min(S) \in S /\ \A j \in S : Min(S) <= j
    BY <1>6, FirstIsTried
  <2>2. k.kid = Undefined \/ f = "JweCompactJson" => S = {}
    BY <1>4, <1>5, <1>6 DEF SameKid
  <2>3. ASSUME k.kid # Undefined, f = "JweGeneralJson"
        PROVE  S = {j \in 1..n : ks[j].kid = k.kid}
    BY <1>4, <1>5, <1>6, <2>3 DEF SameKid
  <2> HIDE DEF S
  <2>4. CASE k.kid = Undefined \/ f = "JweCompactJson"
    BY <2>1, <2>2, <2>4
  <2>5. CASE k.kid # Undefined /\ f = "JweGeneralJson"
    <3>1. i \in S
      BY <1>3, <2>3, <2>5
    <3>2. Min(S) \in 1..n /\ Min(S) <= i /\ ks[Min(S)].kid = k.kid
      BY <2>1, <2>3, <2>5, <3>1
    <3>3. Min(S) = i
      <4>1. CASE i = 1
        BY <1>3, <3>2, <4>1
      <4>2. CASE \A j \in 1..(i - 1) : ks[j].kid # ks[i].kid
        <5>1. Min(S) \notin 1..(i - 1)
          BY <3>2, <4>2
        <5>. QED
          BY <1>3, <3>2, <5>1
      <4>. QED
        BY <4>1, <4>2
    <3>. QED
      BY <2>1, <3>1, <3>3
  <2>. QED
    BY <2>4, <2>5
<1>8. /\ rs[i].encrypted_key.for = k.id /\ rs[i].encrypted_key.wrapped = id
      /\ rs[i].header = None \/ Alg \notin DOMAIN rs[i].header
  BY <1>3, <1>4, <1>5
<1>9. DecryptAlg(w, rs[i]) \in RsaOaep
  <2>1. P[Alg] # Undefined
    BY <1>1, ChosenIsOne
  <2>2. Defined(P)[Alg] = P[Alg]
    BY <1>1, <2>1, DefinedEntries
  <2>3. DecryptAlg(w, rs[i]) = w.protected[Alg]
    BY <1>8 DEF DecryptAlg
  <2>. QED
    BY <1>1, <1>6, <2>2, <2>3
<1>10. /\ w.ciphertext = IF payload = Empty THEN Empty ELSE [cipher |-> payload]
       /\ w.tag = Tag(rs[i].encrypted_key.wrapped, w.aad, payload)
       /\ w.iv = [iv |-> w.tag.iv]
  <2>1. tag.iv = id
    BY DEF tag, Tag
  <2>. QED
    BY <1>6, <1>8, <2>1 DEF tag, Ciphertext
<1> HIDE DEF k
<1>11. Decrypts(w, rs[i], k)
  <2>1. k.kty = "RSA"
    BY DEF k
  <2>. QED
    BY <1>8, <1>9, <1>10, <2>1 DEF Decrypts
<1>. QED
  BY <1>7, <1>11 DEF w, k

\* Whatever decrypts has its tag.
LEMMA DecryptedHasTag ==
  ASSUME NEW t, NEW recipient, NEW key, Decrypts(t, recipient, key)
  PROVE  t.tag # Empty
<1>1. PICK p \in Payload : t.tag = Tag(recipient.encrypted_key.wrapped, t.aad, p)
  BY DEF Decrypts
<1>. QED
  BY <1>1 DEF Tag, Empty

-----------------------------------------------------------------------------
(* Signed tokens. *)

\* The static deserialize takes a JSON document with signatures for one of them,
\* or for a compact form, and then it is not read.
LEMMA AnyJws ==
  ASSUME NEW w, ~IsCompact(w), ~Has(w, "recipients"), ~Has(w, "ciphertext"),
         \/ Has(w, "signatures") /\ ~Has(w, "signature")
         \/ Has(w, "signature") /\ ~Has(w, "signatures")
  PROVE  DeserializeAny(w) \in {None, DeserializeJws(w)}
<1>1. ReadJweCompact(w) = None
  BY DEF ReadJweCompact
<1>2. CASE Dots(w) = 4
  <2>1. Dots(w) # 2
    BY <1>2
  <2>2. FormatOf(w) = "JweCompactJson"
    BY <1>2, <2>1 DEF FormatOf
  <2>3. DeserializeJwe(w) = ReadJweCompact(w)
    BY <1>2 DEF DeserializeJwe
  <2>. QED
    BY <1>1, <2>2, <2>3 DEF DeserializeAny, Deserialize, JwsFormat
<1>3. ASSUME FormatOf(w) \in JwsFormat
      PROVE  DeserializeAny(w) = DeserializeJws(w)
  BY <1>3 DEF DeserializeAny, Deserialize
<1>4. CASE Dots(w) = 2
  <2>1. Dots(w) # 4
    BY <1>4
  <2>2. FormatOf(w) = "JwsCompactJson"
    BY <1>4, <2>1 DEF FormatOf
  <2>. QED
    BY <1>3, <2>2 DEF JwsFormat
<1>5. CASE Dots(w) \notin {2, 4}
  <2>0. Dots(w) # 2 /\ Dots(w) # 4
    BY <1>5
  <2>1. CASE Has(w, "signatures") /\ ~Has(w, "signature")
    <3>1. FormatOf(w) = "JwsGeneralJson"
      BY <1>5, <2>0, <2>1 DEF FormatOf
    <3>. QED
      BY <1>3, <3>1 DEF JwsFormat
  <2>2. CASE Has(w, "signature") /\ ~Has(w, "signatures")
    <3>1. FormatOf(w) = "JwsFlatJson"
      BY <1>5, <2>0, <2>2 DEF FormatOf
    <3>. QED
      BY <1>3, <3>1 DEF JwsFormat
  <2>. QED
    BY <2>1, <2>2
<1>. QED
  BY <1>2, <1>3, <1>4, <1>5

\* A token that shows one signature, in each form.
LEMMA SignedTokenIsRead ==
  ASSUME NEW t, DOMAIN t.signatures = {1}, NEW f \in JwsFormat,
         t.signatures[1].signature # None,
         HasElements(t.signatures[1].protected)
  PROVE  /\ Deserialize(Serialize(t, f), f) =
              IF JwsReadable(t, f) THEN SeenJws(t, f) ELSE None
         /\ DeserializeAny(Serialize(t, f)) \in {None, SeenJws(t, f)}
<1>1. Serialize(t, f) = SerializeJws(t, f) /\ \A w : Deserialize(w, f) = DeserializeJws(w)
  <2>1. f \notin JweFormat
    BY DEF JwsFormat, JweFormat
  <2>. QED
    BY <2>1 DEF Serialize, Deserialize
<1>2. CASE f = "JwsGeneralJson"
  <2>1. SerializeJws(t, f) = JwsGeneral(t)
    BY <1>2 DEF SerializeJws
  <2>2. 1 \in Nat \ {0} /\ 1..1 = {1}
    OBVIOUS
  <2>3. /\ JwsGeneral(t) # None
        /\ DeserializeJws(JwsGeneral(t)) =
             IF JwsReadable(t, "JwsGeneralJson") THEN SeenJws(t, "JwsGeneralJson") ELSE None
    BY <2>2, JwsGeneralReads
  <2> DEFINE e == [i \in DOMAIN t.signatures |->
                     SignatureEntry(t.signatures[i],
                                    IfElements(t.signatures[i].header,
                                               Text(t.signatures[i].header)))]
             p == t.payload
  <2>4. JwsGeneral(t) = [payload |-> p, signatures |-> e]
    BY <2>3 DEF JwsGeneral
  <2> HIDE DEF e, p
  <2>5. DeserializeAny(JwsGeneral(t)) \in {None, DeserializeJws(JwsGeneral(t))}
    BY <2>4, AnyJws DEF IsCompact, Has
  <2>. QED
    BY <1>1, <1>2, <2>1, <2>3, <2>5
<1>3. CASE f = "JwsFlatJson"
  <2>1. SerializeJws(t, f) = JwsFlat(t)
    BY <1>3 DEF SerializeJws
  <2>2. PICK a, b, c, d :
          JwsFlat(t) = [payload |-> a, signature |-> b, header |-> c, protected |-> d]
    BY DEF JwsFlat
  <2>3. DeserializeAny(JwsFlat(t)) \in {None, DeserializeJws(JwsFlat(t))}
    BY <2>2, AnyJws DEF IsCompact, Has
  <2>. QED
    BY <1>1, <1>3, <2>1, <2>3, JwsFlatReads
<1>4. CASE f = "JwsCompactJson"
  <2>1. SerializeJws(t, f) = JwsCompact(t)
    BY <1>4 DEF SerializeJws
  <2>2. PICK a, b, c : JwsCompact(t) = [parts |-> <<a, b, c>>]
    BY DEF JwsCompact
  <2>3. JwsReadable(t, f)
    BY <1>4 DEF JwsReadable
  <2>4. Dots(JwsCompact(t)) = 2 /\ Dots(JwsCompact(t)) # 4
    BY <2>2, CompactIsSplit
  <2>5. FormatOf(JwsCompact(t)) = "JwsCompactJson"
    BY <2>4 DEF FormatOf
  <2>6. DeserializeAny(JwsCompact(t)) = DeserializeJws(JwsCompact(t))
    BY <2>5 DEF DeserializeAny, Deserialize, JwsFormat
  <2>. QED
    BY <1>1, <1>4, <2>1, <2>3, <2>6, JwsCompactReads
<1>. QED
  BY <1>2, <1>3, <1>4 DEF JwsFormat

\* The signature of a key over what the token shows is verified in each form.
LEMMA SignatureIsVerified ==
  ASSUME NEW t, DOMAIN t.signatures = {1}, NEW f \in JwsFormat,
         NEW P \in Header, NEW key \in SigningKey, Alg \in DOMAIN P, P[Alg] = key.alg,
         t.signatures[1].protected = P,
         t.signatures[1].signature = Signature(key, key.alg, P, t.payload)
  PROVE  Verifies(SeenJws(t, f), key)
<1> DEFINE s == t.signatures[1]
           seen == SeenSignature(s)
           compact == [seen EXCEPT !.header = None]
           sig == s.signature
           d == Defined(P)
           y == t.payload
<1>1. /\ d \in Header /\ d # None
      /\ Base64(d) = Base64(P)
      /\ Alg \in DOMAIN d /\ d[Alg] = key.alg
  <2>1. key.alg # Undefined
    BY ConstantsAssumption
  <2>. QED
    BY <2>1, DefinedEntries, HeaderIsItself
<1>2. Seen(P, None) = d
  BY HeaderIsItself DEF Seen, HasElements
<1>3. seen = [signature |-> sig, header |-> Seen(s.header, None), protected |-> d]
  BY <1>2 DEF SeenSignature
<1>4. sig = Signature(key, key.alg, d, y)
  BY <1>1 DEF Signature
<1> HIDE DEF d, sig, y, seen
<1>5. /\ seen.protected = d /\ seen.signature = sig
      /\ compact.protected = d /\ compact.signature = sig
  BY <1>3
<1> HIDE DEF compact
<1>6. \A x : x.protected = d => AlgOf(x) = key.alg
  BY <1>1 DEF AlgOf
<1>7. ASSUME NEW x, x.protected = d, x.signature = sig,
             NEW v, v.payload = y, 1 \in DOMAIN v.signatures, v.signatures[1] = x
      PROVE  Verifies(v, key)
  <2>1. AlgOf(x) = key.alg
    BY <1>6, <1>7
  <2>. QED
    BY <1>1, <1>4, <1>7, <2>1 DEF Verifies
<1>8. CASE f = "JwsGeneralJson"
  <2> DEFINE all == [i \in DOMAIN t.signatures |-> SeenSignature(t.signatures[i])]
  <2>1. SeenJws(t, f) = [payload |-> y, signatures |-> all]
    BY <1>8 DEF SeenJws, y
  <2>2. 1 \in DOMAIN all /\ all[1] = seen
    BY DEF seen
  <2> HIDE DEF all
  <2>. QED
    BY <1>5, <1>7, <2>1, <2>2
<1>9. CASE f = "JwsFlatJson"
  <2>1. SeenJws(t, f) = [payload |-> y, signatures |-> <<seen>>]
    BY <1>9 DEF SeenJws, y, seen
  <2>. QED
    BY <1>5, <1>7, <2>1
<1>10. CASE f = "JwsCompactJson"
  <2>1. SeenJws(t, f) = [payload |-> y, signatures |-> <<compact>>]
    BY <1>10 DEF SeenJws, y, seen, compact
  <2>. QED
    BY <1>5, <1>7, <2>1
<1>. QED
  BY <1>8, <1>9, <1>10 DEF JwsFormat

-----------------------------------------------------------------------------
(* The inductive invariant.  p is the protected map of the options, or None, and *)
(* u are the operations that wrote on it.                                        *)

\* A token with one signature, by a key, over what its protected header showed
\* then.  A sign with the same algorithm leaves a map alone that has a kid.
SignedFits(p, u, key, token) ==
  LET s == token.signatures[1] IN
  /\ DOMAIN token.signatures = {1}
  /\ s.signature = [key |-> key, alg |-> key.alg,
                    input |-> <<s.signature.input[1], token.payload>>]
  /\ IF s.protected = Shared("protected")
     THEN /\ Alg \in DOMAIN p
          /\ key.kid # Undefined /\ (\A x \in u : x = [sign |-> key.alg])
               => Settled(p, key.alg) /\ Base64(p) = s.signature.input[1]
     ELSE /\ Alg \in DOMAIN s.protected /\ s.protected[Alg] = key.alg
          /\ Base64(s.protected) = s.signature.input[1]

\* The content key with a number is encrypted for the first of ks, and the additional
\* data is the protected header, or was it before something else was written there.
SealedFits(p, u, ks, id, protected, aad, recipients) ==
  /\ ks # << >> /\ Len(recipients) <= Len(ks)
  /\ \A i \in 1..Len(recipients) : /\ ks[i].kty = "RSA"
                                   /\ recipients[i] = Recipient(ks[i], id)
                                   /\ KeyAlg(Chosen(ks)) \in RsaOaep
  /\ IF protected = Shared("protected")
     THEN Alg \in DOMAIN p /\ (u = {[encrypt |-> id]} => Sealed(p, ks, aad))
     ELSE Sealed(protected, ks, aad)

JweFits(p, u, m) ==
  LET t == m.token IN
  /\ SealedFits(p, u, m.keys, m.id, t.protected, t.aad, t.recipients)
  /\ Len(t.recipients) = Len(m.keys)
  /\ t.iv = [iv |-> m.id]
  /\ t.ciphertext = Ciphertext(m.payload)
  /\ t.tag = Tag(m.id, t.aad, m.payload)

CallFits(p, u, r) ==
  /\ r.pc = "signed" => SignedFits(p, u, r.key, r.token)
  /\ r.pc = "encrypting" => r.keys # << >>
  /\ r.pc = "wrapping" =>
       SealedFits(p, u, r.keys, r.id, r.protected, r.aad, r.recipients)
  /\ r.pc \in {"opening", "unwrapping"} =>
       TagFits(r.token, r.payload) /\ r.token.recipients # << >>
MadeFits(p, u, m) ==
  m # None => IF m.jws THEN SignedFits(p, u, m.key, m.token) ELSE JweFits(p, u, m)

\* Who is owed the payload gets it with k, the newest key.
DueFits(r, k) ==
  /\ r.pc = "opening" /\ r.due => Decrypts(r.token, Attempt(r.token, k), k)
  /\ r.pc = "unwrapping" /\ r.due => Decrypts(r.token, r.recipient, k)

\* No two tokens have the same number.
Encrypts(r) == r.pc \in {"encrypting", "wrapping"}
Ids ==
  /\ \A c \in Caller : Encrypts(call[c]) => call[c].id <= minted
  /\ \A c, d \in Caller :
       c # d /\ Encrypts(call[c]) /\ Encrypts(call[d]) => call[c].id # call[d].id
  /\ made # None /\ ~made.jws =>
       /\ made.id <= minted
       /\ \A c \in Caller : Encrypts(call[c]) => call[c].id # made.id

Fits ==
  /\ \A c \in Caller : CallFits(options.protected, uses, call[c])
  /\ MadeFits(options.protected, uses, made)
Dues == \A c \in Caller : DueFits(call[c], Newest(call[c].ref))

Inv == Types /\ Fits /\ Dues /\ Ids /\ RecipientDecrypts

\* A call has the type of the place where it waits.
LEMMA CallKinds ==
  ASSUME NEW r \in Call
  PROVE  /\ r.pc = "signing" => r \in SigningCall
         /\ r.pc = "signed" => r \in SignedCall
         /\ r.pc = "encrypting" => r \in EncryptingCall
         /\ r.pc = "wrapping" => r \in WrappingCall
         /\ r.pc = "opening" => r \in OpeningCall
         /\ r.pc = "unwrapping" => r \in UnwrappingCall
BY DEF Call, Idle, SigningCall, SignedCall, EncryptingCall, WrappingCall, OpeningCall,
       UnwrappingCall

\* A token that was made is signed or encrypted.
LEMMA MadeKinds ==
  ASSUME NEW m \in {None} \cup Jws \cup JweMade, m # None
  PROVE  /\ m.jws \in BOOLEAN
         /\ m.jws => m \in Jws
         /\ ~m.jws => m \in JweMade
BY DEF Jws, JweMade

\* What a header is now that a token shows, when there is one with an algorithm.
LEMMA HeaderNow ==
  ASSUME Types, NEW h \in Ref("protected"),
         IF h = Shared("protected") THEN Alg \in DOMAIN options.protected
         ELSE Alg \in DOMAIN h
  PROVE  /\ Deref(h) \in Header /\ Alg \in DOMAIN Deref(h)
         /\ Deref(h) = IF h = Shared("protected") THEN options.protected ELSE h
<1>1. Shared("protected") # Shared("header")
  BY DEF Shared
<1>2. CASE h = Shared("protected")
  <2>1. Deref(h) = options.protected
    BY <1>1, <1>2 DEF Deref
  <2>2. options.protected \in Header \cup {None}
    BY DEF Types, OptionsOfUser
  <2>3. Alg \notin DOMAIN None
    BY DEF None, Alg
  <2>. QED
    BY <1>2, <2>1, <2>2, <2>3
<1>3. CASE h # Shared("protected")
  <2>1. h \in Header
    BY <1>3 DEF Ref
  <2>2. h # Shared("header")
    BY <2>1, HeaderIsItself
  <2>3. Deref(h) = h
    BY <1>3, <2>2 DEF Deref
  <2>. QED
    BY <1>3, <2>1, <2>3
<1>. QED
  BY <1>2, <1>3

\* What a signed token shows now.
LEMMA SignedNow ==
  ASSUME Types, MadeFits(options.protected, uses, made), made # None, made.jws
  PROVE  LET t == Now(made)
             s == made.token.signatures[1]
             P == Deref(s.protected)
         IN /\ t.payload = made.token.payload
            /\ DOMAIN t.signatures = {1}
            /\ t.signatures[1] = NowSigned(s)
            /\ t.signatures[1].protected = P
            /\ t.signatures[1].signature = s.signature
            /\ s.signature # None
            /\ P \in Header /\ Alg \in DOMAIN P
            /\ P = IF s.protected = Shared("protected") THEN options.protected
                   ELSE s.protected
<1> DEFINE s == made.token.signatures[1]
           token == made.token
           all == [i \in DOMAIN token.signatures |-> NowSigned(token.signatures[i])]
<1>1. made \in Jws
  BY MadeKinds DEF Types
<1>2. token \in [payload : Payload, signatures : Seq(SignatureOfToken)]
  BY <1>1 DEF Jws, JwsToken
<1>3. SignedFits(options.protected, uses, made.key, token)
  BY DEF MadeFits
<1>4. DOMAIN token.signatures = {1} /\ s \in SignatureOfToken
  BY <1>2, <1>3 DEF SignedFits
<1>5. s.protected \in Ref("protected")
  BY <1>4 DEF SignatureOfToken
<1>6. IF s.protected = Shared("protected") THEN Alg \in DOMAIN options.protected
      ELSE Alg \in DOMAIN s.protected
  BY <1>3 DEF SignedFits
<1>7. s.signature # None
  <2>1. s.signature = [key |-> made.key, alg |-> made.key.alg,
                       input |-> <<s.signature.input[1], token.payload>>]
    BY <1>3 DEF SignedFits
  <2>. QED
    BY <2>1 DEF None
<1>8. Now(made) = [token EXCEPT !.signatures = all]
  BY DEF Now
<1>9. DOMAIN all = {1} /\ all[1] = NowSigned(s)
  BY <1>4
<1> HIDE DEF token, all, s
<1>10. Now(made).payload = token.payload /\ Now(made).signatures = all
  BY <1>2, <1>8
<1>11. NowSigned(s).protected = Deref(s.protected) /\ NowSigned(s).signature = s.signature
  BY DEF NowSigned
<1>. QED
  BY <1>5, <1>6, <1>7, <1>9, <1>10, <1>11, HeaderNow DEF token, s

\* What an encrypted token shows now.
LEMMA SealedNow ==
  ASSUME Types, MadeFits(options.protected, uses, made), made # None, ~made.jws
  PROVE  LET P == Deref(made.token.protected)
         IN /\ Now(made) = SealedToken(P, made.keys, made.id, made.token.aad, made.payload)
            /\ P \in Header /\ Alg \in DOMAIN P
            /\ P = IF made.token.protected = Shared("protected") THEN options.protected
                   ELSE made.token.protected
            /\ made.keys \in Seq(Key) /\ made.keys # << >> /\ made.id \in 1..MaxTokens
            /\ made.token.aad \in Encoded /\ made.payload \in Payload
            /\ made.token.recipients # << >>
<1> DEFINE token == made.token
           ks == made.keys
           id == made.id
           P == Deref(token.protected)
           rs == [i \in 1..Len(ks) |-> Recipient(ks[i], id)]
<1>1. made \in JweMade
  BY MadeKinds DEF Types
<1>2. /\ ks \in Seq(Key) /\ id \in 1..MaxTokens /\ made.payload \in Payload
      /\ token \in JweToken
  BY <1>1 DEF JweMade
<1>3. JweFits(options.protected, uses, made)
  BY DEF MadeFits
<1>4. /\ ks # << >>
      /\ Len(token.recipients) = Len(ks)
      /\ \A i \in 1..Len(ks) : token.recipients[i] = Recipient(ks[i], id)
      /\ token.iv = [iv |-> id]
      /\ token.ciphertext = Ciphertext(made.payload)
      /\ token.tag = Tag(id, token.aad, made.payload)
  BY <1>3 DEF JweFits, SealedFits
<1>5. IF token.protected = Shared("protected") THEN Alg \in DOMAIN options.protected
      ELSE Alg \in DOMAIN token.protected
  BY <1>3 DEF JweFits, SealedFits, Sealed
<1>6. /\ token.protected \in Ref("protected") /\ token.unprotected = EmptyHeader
      /\ token.recipients \in Seq(JweRecipient) /\ token.aad \in Encoded
  BY <1>2 DEF JweToken
<1>7. token.recipients = rs
  BY <1>4, <1>6
<1>8. token.recipients # << >>
  BY <1>4, <1>2
<1>9. Now(made) = [token EXCEPT !.protected = P]
  BY DEF Now
<1> DEFINE aad == token.aad
           payload == made.payload
           pr == token.protected
<1>10. token = [protected |-> pr, unprotected |-> EmptyHeader, recipients |-> rs,
                aad |-> aad, iv |-> [iv |-> id], ciphertext |-> Ciphertext(payload),
                tag |-> Tag(id, aad, payload)]
  <2>1. token = [protected |-> token.protected, unprotected |-> token.unprotected,
                 recipients |-> token.recipients, aad |-> token.aad, iv |-> token.iv,
                 ciphertext |-> token.ciphertext, tag |-> token.tag]
    BY <1>2 DEF JweToken
  <2>. QED
    BY <1>4, <1>6, <1>7, <2>1
<1>11. P \in Header /\ Alg \in DOMAIN P
       /\ P = IF pr = Shared("protected") THEN options.protected ELSE pr
  BY <1>5, <1>6, HeaderNow
<1> HIDE DEF token, P, rs, aad, payload, pr, ks, id
<1>12. Now(made) = [protected |-> P, unprotected |-> EmptyHeader, recipients |-> rs,
                    aad |-> aad, iv |-> [iv |-> id], ciphertext |-> Ciphertext(payload),
                    tag |-> Tag(id, aad, payload)]
  BY <1>9, <1>10
<1>13. Now(made) = SealedToken(P, ks, id, aad, payload)
  BY <1>12 DEF SealedToken, rs
<1>. QED
  BY <1>2, <1>4, <1>6, <1>8, <1>11, <1>13 DEF token, P, aad, payload, pr, ks, id

-----------------------------------------------------------------------------
(* What the invariant says of the tokens that were made. *)

\* A token has a protected algorithm and a recipient or a signature.
LEMMA AlgorithmIsShown ==
  ASSUME Types, MadeFits(options.protected, uses, made)
  PROVE  AlgIsShown
<1>1. CASE made # None /\ made.jws
  <2>1. Alg \in DOMAIN Now(made).signatures[1].protected
        /\ DOMAIN Now(made).signatures = {1}
    BY <1>1, SignedNow
  <2>. QED
    BY <1>1, <2>1 DEF AlgIsShown
<1>2. CASE made # None /\ ~made.jws
  <2> DEFINE P == Deref(made.token.protected)
  <2>1. /\ Now(made) = SealedToken(P, made.keys, made.id, made.token.aad, made.payload)
        /\ Alg \in DOMAIN P /\ made.token.recipients # << >>
    BY <1>2, SealedNow
  <2>2. Now(made).protected = P
    BY <2>1 DEF SealedToken
  <2>. QED
    BY <1>2, <2>1, <2>2 DEF AlgIsShown
<1>. QED
  BY <1>1, <1>2 DEF AlgIsShown

\* A protected header with an algorithm is written.
LEMMA AlgIsElement ==
  ASSUME NEW h, h # None, Alg \in DOMAIN h
  PROVE  HasElements(h)
BY DEF HasElements

\* What is printed is what a reader sees.
LEMMA FormsRead ==
  ASSUME Types, MadeFits(options.protected, uses, made)
  PROVE  PrintedIsRead
<1>1. CASE made # None /\ made.jws
  <2> DEFINE P == Deref(made.token.signatures[1].protected)
             t == Now(made)
  <2>1. /\ DOMAIN t.signatures = {1}
        /\ t.signatures[1].signature # None
        /\ t.signatures[1].protected = P /\ P \in Header /\ Alg \in DOMAIN P
    BY <1>1, SignedNow
  <2>2. HasElements(t.signatures[1].protected)
    BY <2>1, AlgIsElement, HeaderIsItself
  <2> HIDE DEF t
  <2>3. \A f \in JwsFormat : Deserialize(Serialize(t, f), f) =
          IF JwsReadable(t, f) THEN SeenJws(t, f) ELSE None
    BY <2>1, <2>2, SignedTokenIsRead
  <2>. QED
    BY <1>1, <2>3 DEF PrintedIsRead, t
<1>2. CASE made # None /\ ~made.jws
  <2> DEFINE P == Deref(made.token.protected)
             t == Now(made)
  <2>1. /\ t = SealedToken(P, made.keys, made.id, made.token.aad, made.payload)
        /\ P \in Header /\ Alg \in DOMAIN P
        /\ made.keys \in Seq(Key) /\ made.keys # << >> /\ made.id \in 1..MaxTokens
        /\ made.token.aad \in Encoded /\ made.payload \in Payload
    BY <1>2, SealedNow
  <2> HIDE DEF t, P
  <2>3. \A f \in JweFormat : Deserialize(Serialize(t, f), f) =
          IF JweReadable(t, f) THEN SeenJwe(t, f) ELSE None
    BY <2>1, SealedTokenIsRead
  <2>. QED
    BY <1>2, <2>3 DEF PrintedIsRead, t
<1>. QED
  BY <1>1, <1>2 DEF PrintedIsRead

\* A signature fits what a reader sees.
LEMMA SignatureFits ==
  ASSUME Types, MadeFits(options.protected, uses, made)
  PROVE  SignedTokenVerifies
<1> DEFINE s == made.token.signatures[1]
           key == made.key
           t == Now(made)
           P == Deref(s.protected)
<1> SUFFICES ASSUME made # None, made.jws,
                    \/ s.protected # Shared("protected")
                    \/ /\ \A x \in uses : x = [sign |-> key.alg]
                       /\ key.kid # Undefined,
                    NEW f \in JwsFormat,
                    DeserializeAny(Serialize(t, f)) # None
             PROVE  Verifies(DeserializeAny(Serialize(t, f)), key)
  BY DEF SignedTokenVerifies
<1>1. /\ t.payload = made.token.payload
      /\ DOMAIN t.signatures = {1}
      /\ t.signatures[1].protected = P
      /\ t.signatures[1].signature = s.signature
      /\ s.signature # None
      /\ P \in Header /\ Alg \in DOMAIN P
      /\ P = IF s.protected = Shared("protected") THEN options.protected ELSE s.protected
  BY SignedNow
<1>2. HasElements(t.signatures[1].protected)
  BY <1>1, AlgIsElement, HeaderIsItself
<1>3. SignedFits(options.protected, uses, key, made.token)
  BY DEF MadeFits
<1>4. s.signature = [key |-> key, alg |-> key.alg,
                     input |-> <<s.signature.input[1], made.token.payload>>]
  BY <1>3 DEF SignedFits
<1>5. P[Alg] = key.alg /\ Base64(P) = s.signature.input[1]
  BY <1>1, <1>3 DEF SignedFits, Settled
<1>6. t.signatures[1].signature = Signature(key, key.alg, P, t.payload)
  BY <1>1, <1>4, <1>5 DEF Signature
<1>7. key \in SigningKey
  BY MadeKinds DEF Types, Jws
<1> HIDE DEF t, P, key
<1>8. DeserializeAny(Serialize(t, f)) = SeenJws(t, f)
  BY <1>1, <1>2, SignedTokenIsRead
<1>. QED
  BY <1>1, <1>5, <1>6, <1>7, <1>8, SignatureIsVerified

-----------------------------------------------------------------------------
(* What was signed or encrypted before still fits when something is written on   *)
(* the protected map of the options.                                             *)

\* A sign is not an encrypt, and different signs and encrypts are told apart.
LEMMA UsesDiffer ==
  ASSUME NEW a, NEW b
  PROVE  /\ [sign |-> a] # [encrypt |-> b]
         /\ [sign |-> a] = [sign |-> b] <=> a = b
         /\ [encrypt |-> a] = [encrypt |-> b] <=> a = b
<1>1. DOMAIN [sign |-> a] = {"sign"} /\ DOMAIN [encrypt |-> b] = {"encrypt"}
  OBVIOUS
<1>2. [sign |-> a] # [encrypt |-> b]
  BY <1>1
<1>. QED
  BY <1>2

\* What a key to sign with promises.
LEMMA SigningKeys ==
  ASSUME NEW k \in SigningKey
  PROVE  k.alg # "" /\ k.alg # Undefined /\ k.kid # ""
BY ConstantsAssumption

\* The map after a sign with a key, and who has written on it.
SignWrites(p, u, q, v, h, key) ==
  /\ q = IF p = None THEN None ELSE SignProtected(p, h, key)
  /\ \E a : /\ v = u \cup {[sign |-> a]}
            /\ p # None => a = q[Alg]

\* The map after the encrypt with a number.
EncryptWrites(p, u, q, v, id) ==
  /\ p # None => q \in Header /\ Alg \in DOMAIN q
  /\ v = u \cup {[encrypt |-> id]}

\* What is not there has no entries.
LEMMA NoneHasNoAlg == Alg \notin DOMAIN None
BY DEF None, Alg

\* A sign leaves the map of an earlier token alone if it has the same algorithm and
\* the token has a kid; otherwise the token need not fit any more.
LEMMA SignKeepsSigned ==
  ASSUME NEW p \in Header \cup {None}, NEW u, NEW q, NEW v, NEW h \in Header,
         NEW key \in SigningKey, SignWrites(p, u, q, v, h, key),
         NEW k \in SigningKey, NEW token, SignedFits(p, u, k, token)
  PROVE  SignedFits(q, v, k, token)
<1> DEFINE s == token.signatures[1]
<1>1. CASE s.protected # Shared("protected")
  BY <1>1 DEF SignedFits
<1>2. CASE s.protected = Shared("protected")
  <2>1. /\ Alg \in DOMAIN p
        /\ k.kid # Undefined /\ (\A x \in u : x = [sign |-> k.alg])
             => Settled(p, k.alg) /\ Base64(p) = s.signature.input[1]
    BY <1>2 DEF SignedFits
  <2>2. p \in Header /\ p # None
    BY <2>1, NoneHasNoAlg
  <2>3. q = SignProtected(p, h, key)
    BY <2>2 DEF SignWrites
  <2>4. /\ Alg \in DOMAIN q
        /\ \A a : a # "" /\ Settled(p, a) /\ q[Alg] = a => q = p
    BY <2>2, <2>3, SignsProtected
  <2>5. ASSUME k.kid # Undefined, \A x \in v : x = [sign |-> k.alg]
        PROVE  Settled(q, k.alg) /\ Base64(q) = s.signature.input[1]
    <3>1. v = u \cup {[sign |-> q[Alg]]}
      BY <2>2 DEF SignWrites
    <3>2. Settled(p, k.alg) /\ Base64(p) = s.signature.input[1]
      BY <2>1, <2>5, <3>1
    <3>3. [sign |-> q[Alg]] = [sign |-> k.alg]
      BY <2>5, <3>1
    <3>4. q[Alg] = k.alg
      BY <3>3, UsesDiffer
    <3>5. q = p
      BY <2>4, <3>2, <3>4, SigningKeys
    <3>. QED
      BY <3>2, <3>5
  <2>. QED
    BY <1>2, <2>4, <2>5 DEF SignedFits
<1>. QED
  BY <1>1, <1>2

\* After a sign nothing needs to decrypt that shows the map.
LEMMA SignKeepsSealed ==
  ASSUME NEW p \in Header \cup {None}, NEW u, NEW q, NEW v, NEW h \in Header,
         NEW key \in SigningKey, SignWrites(p, u, q, v, h, key),
         NEW ks, NEW id, NEW protected, NEW aad, NEW recipients,
         SealedFits(p, u, ks, id, protected, aad, recipients)
  PROVE  SealedFits(q, v, ks, id, protected, aad, recipients)
<1>1. CASE protected # Shared("protected")
  BY <1>1 DEF SealedFits
<1>2. CASE protected = Shared("protected")
  <2>1. Alg \in DOMAIN p
    BY <1>2 DEF SealedFits
  <2>2. p \in Header /\ p # None
    BY <2>1, NoneHasNoAlg
  <2>3. q = SignProtected(p, h, key)
    BY <2>2 DEF SignWrites
  <2>4. Alg \in DOMAIN q
    BY <2>2, <2>3, SignsProtected
  <2>5. PICK a : v = u \cup {[sign |-> a]}
    BY DEF SignWrites
  <2>6. v # {[encrypt |-> id]}
    <3>1. [sign |-> a] # [encrypt |-> id]
      BY UsesDiffer
    <3>2. [sign |-> a] \in v
      BY <2>5
    <3>. QED
      BY <3>1, <3>2
  <2>. QED
    BY <1>2, <2>4, <2>6 DEF SealedFits
<1>. QED
  BY <1>1, <1>2

\* After an encrypt nothing needs to verify that shows the map ...
LEMMA EncryptKeepsSigned ==
  ASSUME NEW p \in Header \cup {None}, NEW u, NEW q, NEW v, NEW id,
         EncryptWrites(p, u, q, v, id),
         NEW k, NEW token, SignedFits(p, u, k, token)
  PROVE  SignedFits(q, v, k, token)
<1> DEFINE s == token.signatures[1]
<1>1. CASE s.protected # Shared("protected")
  BY <1>1 DEF SignedFits
<1>2. CASE s.protected = Shared("protected")
  <2>1. Alg \in DOMAIN p
    BY <1>2 DEF SignedFits
  <2>2. Alg \in DOMAIN q
    BY <2>1, NoneHasNoAlg DEF EncryptWrites
  <2>3. ~(\A x \in v : x = [sign |-> k.alg])
    BY UsesDiffer DEF EncryptWrites
  <2>. QED
    BY <1>2, <2>2, <2>3 DEF SignedFits
<1>. QED
  BY <1>1, <1>2

\* ... and nothing needs to decrypt that another encrypt made.
LEMMA EncryptKeepsSealed ==
  ASSUME NEW p \in Header \cup {None}, NEW u, NEW q, NEW v, NEW id,
         EncryptWrites(p, u, q, v, id),
         NEW ks, NEW other, other # id, NEW protected, NEW aad, NEW recipients,
         SealedFits(p, u, ks, other, protected, aad, recipients)
  PROVE  SealedFits(q, v, ks, other, protected, aad, recipients)
<1>1. CASE protected # Shared("protected")
  BY <1>1 DEF SealedFits
<1>2. CASE protected = Shared("protected")
  <2>1. Alg \in DOMAIN p
    BY <1>2 DEF SealedFits
  <2>2. Alg \in DOMAIN q
    BY <2>1, NoneHasNoAlg DEF EncryptWrites
  <2>3. v # {[encrypt |-> other]}
    BY UsesDiffer DEF EncryptWrites
  <2>. QED
    BY <1>2, <2>2, <2>3 DEF SealedFits
<1>. QED
  BY <1>1, <1>2

\* Calls and tokens that were there before a sign.
LEMMA SignKeeps ==
  ASSUME NEW p \in Header \cup {None}, NEW u, NEW q, NEW v, NEW h \in Header,
         NEW key \in SigningKey, SignWrites(p, u, q, v, h, key)
  PROVE  /\ \A r \in Call : CallFits(p, u, r) => CallFits(q, v, r)
         /\ \A m \in {None} \cup Jws \cup JweMade : MadeFits(p, u, m) => MadeFits(q, v, m)
<1>1. ASSUME NEW r \in Call, CallFits(p, u, r)
      PROVE  CallFits(q, v, r)
  <2>1. CASE r.pc = "signed"
    <3>1. r.key \in SigningKey
      BY <2>1, CallKinds DEF SignedCall
    <3>2. SignedFits(q, v, r.key, r.token)
      BY <1>1, <2>1, <3>1, SignKeepsSigned DEF CallFits
    <3>. QED
      BY <2>1, <3>2 DEF CallFits
  <2>2. CASE r.pc = "wrapping"
    <3>1. SealedFits(q, v, r.keys, r.id, r.protected, r.aad, r.recipients)
      BY <1>1, <2>2, SignKeepsSealed DEF CallFits
    <3>. QED
      BY <2>2, <3>1 DEF CallFits
  <2>. QED
    BY <1>1, <2>1, <2>2 DEF CallFits
<1>2. ASSUME NEW m \in {None} \cup Jws \cup JweMade, MadeFits(p, u, m)
      PROVE  MadeFits(q, v, m)
  <2>1. CASE m # None /\ m.jws
    <3>1. m.key \in SigningKey
      BY <2>1, MadeKinds DEF Jws
    <3>2. SignedFits(q, v, m.key, m.token)
      BY <1>2, <2>1, <3>1, SignKeepsSigned DEF MadeFits
    <3>. QED
      BY <2>1, <3>2 DEF MadeFits
  <2>2. CASE m # None /\ ~m.jws
    <3>1. JweFits(p, u, m)
      BY <1>2, <2>2 DEF MadeFits
    <3>2. SealedFits(q, v, m.keys, m.id, m.token.protected, m.token.aad, m.token.recipients)
      BY <3>1, SignKeepsSealed DEF JweFits
    <3>3. JweFits(q, v, m)
      BY <3>1, <3>2 DEF JweFits
    <3>. QED
      BY <2>2, <3>3 DEF MadeFits
  <2>. QED
    BY <2>1, <2>2 DEF MadeFits
<1>. QED
  BY <1>1, <1>2

\* Calls and tokens that were there before an encrypt.
LEMMA EncryptKeeps ==
  ASSUME NEW p \in Header \cup {None}, NEW u, NEW q, NEW v, NEW id,
         EncryptWrites(p, u, q, v, id)
  PROVE  /\ \A r \in Call : /\ CallFits(p, u, r)
                            /\ Encrypts(r) => r.id # id
                            => CallFits(q, v, r)
         /\ \A m \in {None} \cup Jws \cup JweMade :
              /\ MadeFits(p, u, m)
              /\ m # None /\ ~m.jws => m.id # id
              => MadeFits(q, v, m)
<1>1. ASSUME NEW r \in Call, CallFits(p, u, r), Encrypts(r) => r.id # id
      PROVE  CallFits(q, v, r)
  <2>1. CASE r.pc = "signed"
    <3>1. SignedFits(q, v, r.key, r.token)
      BY <1>1, <2>1, EncryptKeepsSigned DEF CallFits
    <3>. QED
      BY <2>1, <3>1 DEF CallFits
  <2>2. CASE r.pc = "wrapping"
    <3>1. SealedFits(q, v, r.keys, r.id, r.protected, r.aad, r.recipients)
      BY <1>1, <2>2, EncryptKeepsSealed DEF CallFits, Encrypts
    <3>. QED
      BY <2>2, <3>1 DEF CallFits
  <2>. QED
    BY <1>1, <2>1, <2>2 DEF CallFits
<1>2. ASSUME NEW m \in {None} \cup Jws \cup JweMade, MadeFits(p, u, m),
             m # None /\ ~m.jws => m.id # id
      PROVE  MadeFits(q, v, m)
  <2>1. CASE m # None /\ m.jws
    <3>1. SignedFits(q, v, m.key, m.token)
      BY <1>2, <2>1, EncryptKeepsSigned DEF MadeFits
    <3>. QED
      BY <2>1, <3>1 DEF MadeFits
  <2>2. CASE m # None /\ ~m.jws
    <3>1. JweFits(p, u, m)
      BY <1>2, <2>2 DEF MadeFits
    <3>2. SealedFits(q, v, m.keys, m.id, m.token.protected, m.token.aad, m.token.recipients)
      BY <1>2, <2>2, <3>1, EncryptKeepsSealed DEF JweFits
    <3>3. JweFits(q, v, m)
      BY <3>1, <3>2 DEF JweFits
    <3>. QED
      BY <2>2, <3>3 DEF MadeFits
  <2>. QED
    BY <2>1, <2>2 DEF MadeFits
<1>. QED
  BY <1>1, <1>2

-----------------------------------------------------------------------------
(* Steps. *)

\* What a suspension does.
LEMMA Suspends ==
  ASSUME Types, NEW c \in Caller, NEW r \in Call, Suspend(c, r)
  PROVE  /\ call' \in [Caller -> Call]
         /\ call'[c] = r
         /\ \A d \in Caller : d # c => call'[d] = call[d]
BY DEF Suspend, Types

\* A call goes on, and only it.
LEMMA Resumes ==
  ASSUME Inv, NEW c \in Caller, NEW r \in Call, Suspend(c, r),
         UNCHANGED <<options, keys, made, opened, minted, uses>>,
         CallFits(options.protected, uses, r), DueFits(r, Newest(r.ref)),
         Encrypts(r) => Encrypts(call[c]) /\ r.id = call[c].id
  PROVE  Inv'
<1>0. Types /\ Fits /\ Dues /\ Ids /\ RecipientDecrypts
  BY DEF Inv
<1>1. /\ call' \in [Caller -> Call]
      /\ call'[c] = r
      /\ \A d \in Caller : d # c => call'[d] = call[d]
  BY <1>0, Suspends
<1>2. Types'
  BY <1>0, <1>1 DEF Types
<1>3. Fits'
  BY <1>0, <1>1 DEF Fits
<1>4. Dues'
  <2>1. \A d \in Caller : DueFits(call'[d], Newest(call'[d].ref))
    BY <1>0, <1>1 DEF Dues
  <2>. QED
    BY <2>1 DEF Dues, Newest
<1>5. Ids'
  BY <1>0, <1>1 DEF Ids
<1>6. RecipientDecrypts'
  BY <1>0 DEF RecipientDecrypts
<1>. QED
  BY <1>2, <1>3, <1>4, <1>5, <1>6 DEF Inv

\* A call that waits for nothing is idle.
LEMMA IdleCall ==
  /\ Idle \in Call /\ Idle.pc = "idle"
BY DEF Idle, Call

\* A call ends.
LEMMA Ends ==
  ASSUME Inv, NEW c \in Caller, Return(c),
         UNCHANGED <<options, keys, made, opened, minted, uses>>
  PROVE  Inv'
<1>1. Suspend(c, Idle)
  BY DEF Return
<1>2. CallFits(options.protected, uses, Idle) /\ ~Encrypts(Idle)
  BY IdleCall DEF CallFits, Encrypts
<1>3. DueFits(Idle, Newest(Idle.ref))
  BY IdleCall DEF DueFits
<1>. QED
  BY <1>1, <1>2, <1>3, IdleCall, Resumes

\* A call that fails changes nothing else.
LEMMA RejectedStep ==
  ASSUME Inv, NEW c \in Caller, Rejected(c)
  PROVE  Inv'
BY Ends DEF Rejected

\* A sign asks for the public key.
LEMMA SignStartStep ==
  ASSUME Inv, NEW c \in Caller, NEW key \in SigningKey, NEW p \in Payload,
         NEW jwt \in BOOLEAN, SignStart(c, key, p, jwt)
  PROVE  Inv'
<1> DEFINE r == [pc |-> "signing", key |-> key, payload |-> p, jwt |-> jwt]
<1>1. r \in Call /\ r.pc = "signing"
  BY DEF Call, SigningCall
<1>2. Suspend(c, r) /\ UNCHANGED <<options, keys, made, opened, minted, uses>>
  BY DEF SignStart
<1> HIDE DEF r
<1>3. CallFits(options.protected, uses, r) /\ ~Encrypts(r) /\ DueFits(r, Newest(r.ref))
  BY <1>1 DEF CallFits, Encrypts, DueFits
<1>. QED
  BY <1>1, <1>2, <1>3, Resumes

\* The content key is encrypted for one more recipient, or the call fails.
LEMMA EncryptWrappedStep ==
  ASSUME Inv, NEW c \in Caller, EncryptWrapped(c)
  PROVE  Inv'
<1> DEFINE r == call[c]
           n == Len(r.recipients) + 1
           key == r.keys[n]
           entry == [header |-> [x \in {Kid} |-> key.kid],
                     encrypted_key |-> [wrapped |-> r.id, for |-> key.id]]
           s == [r EXCEPT !.recipients = Append(@, entry)]
<1>0. Types /\ Fits
  BY DEF Inv
<1>1. r \in WrappingCall /\ r.pc = "wrapping"
  <2>1. r \in Call
    BY <1>0 DEF Types
  <2>. QED
    BY <2>1, CallKinds DEF EncryptWrapped
<1>2. /\ r.id \in 1..MaxTokens /\ r.keys \in Seq(Key) /\ r.recipients \in Seq(JweRecipient)
      /\ n \in 1..Len(r.keys) /\ key \in Key
  BY <1>1 DEF WrappingCall, EncryptWrapped
<1>3. SealedFits(options.protected, uses, r.keys, r.id, r.protected, r.aad, r.recipients)
  BY <1>0, <1>1 DEF Fits, CallFits
<1>4. CASE key.kty = "RSA" /\ KeyAlg(Chosen(r.keys)) \in RsaOaep
  <2>1. Suspend(c, s) /\ UNCHANGED <<options, keys, made, opened, minted, uses>>
    BY <1>4 DEF EncryptWrapped
  <2>2. entry = Recipient(key, r.id)
    BY DEF Recipient
  <2>3. entry \in JweRecipient
    <3>1. key.kid \in HeaderValue
      BY <1>2, KeyValues
    <3>. QED
      BY <1>2, <3>1 DEF JweRecipient
  <2> DEFINE rs == Append(r.recipients, entry)
  <2>4. rs \in Seq(JweRecipient) /\ Len(rs) = n
        /\ rs[n] = entry /\ \A i \in 1..Len(r.recipients) : rs[i] = r.recipients[i]
    BY <1>2, <2>3
  <2> HIDE DEF rs, entry
  <2>5. /\ s \in WrappingCall /\ s.pc = "wrapping" /\ s.id = r.id /\ s.keys = r.keys
        /\ s.protected = r.protected /\ s.aad = r.aad /\ s.recipients = rs
    BY <1>1, <2>4 DEF WrappingCall, rs
  <2>6. SealedFits(options.protected, uses, r.keys, r.id, r.protected, r.aad, rs)
    <3>1. Len(rs) <= Len(r.keys)
      BY <1>2, <2>4
    <3>2. ASSUME NEW i \in 1..Len(rs)
          PROVE  /\ r.keys[i].kty = "RSA" /\ rs[i] = Recipient(r.keys[i], r.id)
                 /\ KeyAlg(Chosen(r.keys)) \in RsaOaep
      <4>1. CASE i = n
        BY <1>4, <2>2, <2>4, <4>1
      <4>2. CASE i # n
        <5>1. i \in 1..Len(r.recipients)
          BY <1>2, <2>4, <4>2
        <5>. QED
          BY <1>3, <2>4, <5>1 DEF SealedFits
      <4>. QED
        BY <4>1, <4>2
    <3>. QED
      BY <1>3, <3>1, <3>2 DEF SealedFits
  <2> HIDE DEF s
  <2>7. CallFits(options.protected, uses, s) /\ DueFits(s, Newest(s.ref))
    BY <2>5, <2>6 DEF CallFits, DueFits
  <2>8. s \in Call
    BY <2>5 DEF Call
  <2>. QED
    BY <1>1, <2>1, <2>5, <2>7, <2>8, Resumes DEF Encrypts
<1>5. CASE ~(key.kty = "RSA" /\ KeyAlg(Chosen(r.keys)) \in RsaOaep)
  <2>1. Return(c) /\ UNCHANGED <<options, keys, made, opened, minted, uses>>
    BY <1>5 DEF EncryptWrapped
  <2>. QED
    BY <2>1, Ends
<1>. QED
  BY <1>4, <1>5

\* The recipient is tried that opens the token if it is due.
LEMMA DecryptPickStep ==
  ASSUME Inv, NEW c \in Caller, DecryptPick(c)
  PROVE  Inv'
<1> DEFINE r == call[c]
           k == Newest(r.ref)
           x == Attempt(r.token, k)
           s == [pc |-> "unwrapping", token |-> r.token, ref |-> r.ref, due |-> r.due,
                 payload |-> r.payload, recipient |-> x]
<1>0. Types /\ Fits /\ Dues
  BY DEF Inv
<1>1. r \in OpeningCall /\ r.pc = "opening"
  <2>1. r \in Call
    BY <1>0 DEF Types
  <2>. QED
    BY <2>1, CallKinds DEF DecryptPick
<1>2. TagFits(r.token, r.payload) /\ r.token.recipients # << >>
  BY <1>0, <1>1 DEF Fits, CallFits
<1>3. r.token \in JweToken /\ r.ref \in Reference /\ r.due \in BOOLEAN /\ r.payload \in Payload
  BY <1>1 DEF OpeningCall
<1>4. x \in JweRecipient
  <2> DEFINE S == SameKid(r.token, k)
  <2>1. r.token.recipients \in Seq(JweRecipient)
    BY <1>3 DEF JweToken
  <2>2. /\ x = r.token.recipients[IF S = {} THEN 1 ELSE Min(S)]
        /\ S # {} => Min(S) \in S
    BY FirstIsTried
  <2>3. S \subseteq 1..Len(r.token.recipients)
    BY DEF SameKid
  <2>. QED
    BY <1>2, <2>1, <2>2, <2>3
<1>5. DueFits(r, k)
  BY <1>0 DEF Dues
<1>6. Suspend(c, s) /\ UNCHANGED <<options, keys, made, opened, minted, uses>>
  BY DEF DecryptPick
<1> HIDE DEF x, k, r
<1>7. s \in UnwrappingCall
  BY <1>3, <1>4 DEF UnwrappingCall
<1>8. /\ s.pc = "unwrapping" /\ s.token = r.token /\ s.ref = r.ref /\ s.due = r.due
      /\ s.payload = r.payload /\ s.recipient = x
  OBVIOUS
<1> HIDE DEF s
<1>9. CallFits(options.protected, uses, s) /\ ~Encrypts(s)
  BY <1>2, <1>8 DEF CallFits, Encrypts
<1>10. DueFits(s, Newest(s.ref))
  BY <1>1, <1>5, <1>8 DEF DueFits, x, k
<1>11. s \in Call
  BY <1>7 DEF Call
<1>. QED
  BY <1>6, <1>9, <1>10, <1>11, Resumes

\* The maps that a call takes.
LEMMA Maps ==
  ASSUME Types
  PROVE  /\ MapOf("protected") \in Header /\ MapOf("header") \in Header
         /\ options.protected # None => MapOf("protected") = options.protected
         /\ options.protected = None => MapOf("protected") = EmptyHeader
         /\ options.protected \in Header \cup {None}
         /\ options.header \in Header \cup {None}
         /\ \A h : options.protected = None => Write("protected", h) = None
         /\ \A h : options.protected # None => Write("protected", h) = h
         /\ \A h : options.protected = None => RefOf("protected", h) = h
         /\ \A h : options.protected # None => RefOf("protected", h) = Shared("protected")
         /\ \A h : h \in Header => Write("header", h) \in Header \cup {None}
         /\ \A h : h \in Header => RefOf("header", h) \in Ref("header")
<1>1. options \in [protected : Header \cup {None}, header : Header \cup {None}]
  BY DEF Types, OptionsOfUser
<1>2. EmptyHeader \in Header
  BY NewHeaders
<1>3. options["protected"] = options.protected /\ options["header"] = options.header
  OBVIOUS
<1>. QED
  BY <1>1, <1>2, <1>3 DEF MapOf, Write, RefOf, Ref

\* An entry of a protected header that has an algorithm.
LEMMA AlgorithmOf ==
  ASSUME NEW h \in Header, Alg \in DOMAIN h, NEW other
  PROVE  /\ AlgOf([protected |-> h, header |-> other]) = h[Alg]
         /\ h[Alg] \in HeaderValue
<1>1. h # None
  BY HeaderIsItself
<1>2. h[Alg] \in HeaderValue
  BY Headers
<1>. QED
  BY <1>1, <1>2 DEF AlgOf

\* A sign writes on the maps of the options, and makes a signature that fits.
LEMMA SignHeadersStep ==
  ASSUME Inv, NEW c \in Caller, SignHeaders(c)
  PROVE  Inv'
<1> DEFINE r == call[c]
           key == r.key
           jwt == r.jwt
           h == MapOf("header")
           header == SignHeader(h, key)
           base == IF jwt THEN [n \in {Typ} |-> "JWT"] ELSE MapOf("protected")
           protected == SignProtected(base, h, key)
           refs == IF jwt THEN protected ELSE RefOf("protected", protected)
           href == RefOf("header", header)
           sig == Signature(key, key.alg, protected, r.payload)
           entry == [protected |-> refs, header |-> href, signature |-> sig]
           token == [payload |-> r.payload, signatures |-> <<entry>>]
           s == [pc |-> "signed", key |-> key, token |-> token]
           p == options.protected
           q == IF jwt THEN p ELSE Write("protected", protected)
           a == AlgOf([protected |-> protected, header |-> header])
           v == IF jwt THEN uses ELSE uses \cup {[sign |-> a]}
<1>0. Types /\ Fits /\ Dues /\ Ids /\ RecipientDecrypts
  BY DEF Inv
<1>1. r \in SigningCall /\ r.pc = "signing"
  <2>1. r \in Call
    BY <1>0 DEF Types
  <2>. QED
    BY <2>1, CallKinds DEF SignHeaders
<1>2. key \in SigningKey /\ jwt \in BOOLEAN /\ r.payload \in Payload
  BY <1>1 DEF SigningCall
<1>3. options' = [protected |-> q, header |-> Write("header", header)]
      /\ uses' = v
      /\ Suspend(c, s)
      /\ UNCHANGED <<keys, made, opened, minted>>
  BY DEF SignHeaders
<1>4. h \in Header /\ header \in Header /\ p \in Header \cup {None}
  BY <1>0, <1>2, Maps, SignsHeader
<1>5. /\ base \in Header
      /\ jwt \/ p = None => Alg \notin DOMAIN base
      /\ ~jwt /\ p # None => base = p
  BY <1>0, Maps, NewHeaders DEF Alg, Typ
<1>6. /\ protected \in Header /\ Alg \in DOMAIN protected
      /\ jwt \/ p = None => protected[Alg] = key.alg
      /\ key.kid # Undefined => Kid \in DOMAIN protected /\ protected[Kid] # ""
  <2> HIDE DEF key, jwt, h, p, base
  <2>. QED
    BY <1>2, <1>4, <1>5, SignsProtected
<1>7. a = protected[Alg] /\ a \in HeaderValue
  BY <1>6, AlgorithmOf
<1>8. /\ ~jwt /\ p # None => q = protected /\ refs = Shared("protected")
      /\ jwt \/ p = None => q = p /\ refs = protected
      /\ Write("header", header) \in Header \cup {None} /\ href \in Ref("header")
  BY <1>0, <1>4, Maps
<1>9. refs \in Ref("protected") /\ q \in Header \cup {None}
  BY <1>4, <1>6, <1>8 DEF Ref
<1>10. sig = [key |-> key, alg |-> key.alg, input |-> <<Base64(protected), r.payload>>]
  BY DEF Signature
<1>11. ~jwt => SignWrites(p, uses, q, v, h, key)
  <2> SUFFICES ASSUME ~jwt PROVE SignWrites(p, uses, q, v, h, key)
    OBVIOUS
  <2>1. q = IF p = None THEN None ELSE SignProtected(p, h, key)
    BY <1>5, <1>8
  <2>2. p # None => a = q[Alg]
    BY <1>7, <1>8
  <2>3. v = uses \cup {[sign |-> a]}
    OBVIOUS
  <2> HIDE DEF v, q, p, a
  <2>. QED
    BY <2>1, <2>2, <2>3 DEF SignWrites
<1> HIDE DEF protected, refs, href, h, header, base, a, q
<1>12. token.payload = r.payload /\ DOMAIN token.signatures = {1}
       /\ token.signatures[1] = entry
  OBVIOUS
<1>13. entry \in SignatureOfToken
  <2>1. Base64(protected) \in Encoded /\ key.alg \in HeaderValue
    BY <1>2, <1>6, DefinedEntries, KeyValues
  <2>2. sig \in [key : SigningKey, alg : HeaderValue, input : Encoded \X Payload]
    BY <1>2, <1>10, <2>1
  <2> HIDE DEF sig
  <2>. QED
    BY <1>8, <1>9, <2>2 DEF SignatureOfToken
<1> HIDE DEF entry
<1>14. token \in JwsToken
  BY <1>2, <1>13 DEF JwsToken
<1>15. SignedFits(q, v, key, token)
  <2>1. entry.signature = sig /\ entry.protected = refs
    BY DEF entry
  <2>2. sig.input[1] = Base64(protected)
    BY <1>10
  <2>3. sig = [key |-> key, alg |-> key.alg, input |-> <<sig.input[1], token.payload>>]
    BY <1>10, <1>12, <2>2
  <2>4. CASE refs = Shared("protected")
    <3>1. ~jwt /\ p # None /\ q = protected
      BY <1>6, <1>8, <2>4, HeaderIsItself
    <3>2. ASSUME key.kid # Undefined, \A x \in v : x = [sign |-> key.alg]
          PROVE  Settled(q, key.alg) /\ Base64(q) = sig.input[1]
      <4>1. [sign |-> a] = [sign |-> key.alg]
        BY <3>1, <3>2
      <4>2. protected[Alg] = key.alg
        BY <1>7, <4>1, UsesDiffer
      <4>. QED
        BY <1>6, <2>2, <3>1, <3>2, <4>2 DEF Settled
    <3> HIDE DEF sig, token, v
    <3>. QED
      BY <1>6, <1>12, <2>1, <2>3, <2>4, <3>1, <3>2 DEF SignedFits
  <2>5. CASE refs # Shared("protected")
    <3>1. refs = protected /\ protected[Alg] = key.alg
      BY <1>6, <1>8, <2>5
    <3> HIDE DEF sig, token, v
    <3>. QED
      BY <1>6, <1>12, <2>1, <2>2, <2>3, <2>5, <3>1 DEF SignedFits
  <2>. QED
    BY <2>4, <2>5
<1> HIDE DEF token
<1>16. s \in SignedCall /\ s.pc = "signed" /\ s.key = key /\ s.token = token
  BY <1>2, <1>14 DEF SignedCall
<1> HIDE DEF s
<1>17. s \in Call
  BY <1>16 DEF Call
<1>18. CallFits(q, v, s) /\ ~Encrypts(s) /\ \A k : DueFits(s, k)
  BY <1>15, <1>16 DEF CallFits, Encrypts, DueFits
<1>19. /\ call' \in [Caller -> Call]
       /\ call'[c] = s
       /\ \A d \in Caller : d # c => call'[d] = call[d]
  BY <1>0, <1>3, <1>17, Suspends
<1>20. /\ \A x \in Call : CallFits(p, uses, x) => CallFits(q, v, x)
       /\ \A m \in {None} \cup Jws \cup JweMade : MadeFits(p, uses, m) => MadeFits(q, v, m)
  <2>1. CASE jwt
    <3>1. q = p /\ v = uses
      BY <1>8, <2>1
    <3>. QED
      BY <3>1
  <2>2. CASE ~jwt
    <3>1. SignWrites(p, uses, q, v, h, key)
      BY <1>11, <2>2
    <3> HIDE DEF p, v, key
    <3>. QED
      BY <1>2, <1>4, <3>1, SignKeeps
  <2>. QED
    BY <2>1, <2>2
<1>21. options'.protected = q /\ options' \in OptionsOfUser
  BY <1>3, <1>8, <1>9 DEF OptionsOfUser
<1>22. v \subseteq [sign : HeaderValue] \cup [encrypt : 1..MaxTokens]
  BY <1>0, <1>7 DEF Types
<1> HIDE DEF v
<1>23. Types'
  BY <1>0, <1>3, <1>19, <1>21, <1>22 DEF Types
<1>24. Fits'
  <2>1. \A d \in Caller : CallFits(p, uses, call[d])
    BY <1>0 DEF Fits
  <2>2. \A d \in Caller : call[d] \in Call
    BY <1>0 DEF Types
  <2>3. \A d \in Caller : CallFits(q, v, call'[d])
    BY <1>18, <1>19, <1>20, <2>1, <2>2
  <2>4. MadeFits(q, v, made)
    BY <1>0, <1>20 DEF Fits, Types
  <2>. QED
    BY <1>3, <1>21, <2>3, <2>4 DEF Fits
<1>25. Dues'
  <2>1. \A d \in Caller : DueFits(call'[d], Newest(call'[d].ref))
    BY <1>0, <1>18, <1>19 DEF Dues
  <2>. QED
    BY <1>3, <2>1 DEF Dues, Newest
<1>26. Ids'
  BY <1>0, <1>3, <1>18, <1>19 DEF Ids
<1>27. RecipientDecrypts'
  BY <1>0, <1>3 DEF RecipientDecrypts
<1>. QED
  BY <1>23, <1>24, <1>25, <1>26, <1>27 DEF Inv

\* A signed token is given to the caller.
LEMMA SignResolvedStep ==
  ASSUME Inv, NEW c \in Caller, SignResolved(c)
  PROVE  Inv'
<1> DEFINE r == call[c]
           m == [jws |-> TRUE, key |-> r.key, token |-> r.token]
<1>0. Types /\ Fits /\ Dues /\ Ids /\ RecipientDecrypts
  BY DEF Inv
<1>1. r \in SignedCall /\ r.pc = "signed"
  <2>1. r \in Call
    BY <1>0 DEF Types
  <2>. QED
    BY <2>1, CallKinds DEF SignResolved
<1>2. made' = m /\ Suspend(c, Idle) /\ UNCHANGED <<options, keys, opened, minted, uses>>
  BY DEF SignResolved, Return
<1>3. m \in Jws /\ m.jws /\ m.key = r.key /\ m.token = r.token
  BY <1>1 DEF Jws, SignedCall
<1>4. SignedFits(options.protected, uses, r.key, r.token)
  BY <1>0, <1>1 DEF Fits, CallFits
<1> HIDE DEF m
<1>5. MadeFits(options.protected, uses, m)
  BY <1>3, <1>4 DEF MadeFits
<1>6. /\ call' \in [Caller -> Call]
      /\ call'[c] = Idle
      /\ \A d \in Caller : d # c => call'[d] = call[d]
  BY <1>0, <1>2, IdleCall, Suspends
<1>7. CallFits(options.protected, uses, Idle) /\ ~Encrypts(Idle) /\ \A k : DueFits(Idle, k)
  BY IdleCall DEF CallFits, Encrypts, DueFits
<1>8. Types'
  BY <1>0, <1>2, <1>3, <1>6 DEF Types
<1>9. Fits'
  BY <1>0, <1>2, <1>5, <1>6, <1>7 DEF Fits
<1>10. Dues'
  <2>1. \A d \in Caller : DueFits(call'[d], Newest(call'[d].ref))
    BY <1>0, <1>6, <1>7 DEF Dues
  <2>. QED
    BY <1>2, <2>1 DEF Dues, Newest
<1>11. Ids'
  BY <1>0, <1>2, <1>3, <1>6, <1>7 DEF Ids
<1>12. RecipientDecrypts'
  BY <1>0, <1>2 DEF RecipientDecrypts
<1>. QED
  BY <1>8, <1>9, <1>10, <1>11, <1>12 DEF Inv

\* An encrypt takes a new number and the newest keys.
LEMMA EncryptStartStep ==
  ASSUME Inv, NEW c \in Caller, NEW rs \in Recipients, NEW p \in Payload,
         EncryptStart(c, rs, p)
  PROVE  Inv'
<1> DEFINE id == minted + 1
           ks == [i \in DOMAIN rs |-> Newest(rs[i])]
           s == [pc |-> "encrypting", id |-> id, payload |-> p, keys |-> ks]
<1>0. Types /\ Fits /\ Dues /\ Ids /\ RecipientDecrypts
  BY DEF Inv
<1>1. minted' = id /\ Suspend(c, s) /\ UNCHANGED <<options, keys, made, opened, uses>>
  BY DEF EncryptStart
<1>2. id \in 1..MaxTokens /\ minted \in Nat
  <2>1. minted \in 0..MaxTokens
    BY <1>0 DEF Types
  <2>2. MaxTokens \in Nat
    BY ConstantsAssumption
  <2>3. minted < MaxTokens
    BY DEF EncryptStart
  <2>. QED
    BY <2>1, <2>2, <2>3
<1>3. rs \in Seq(Reference) /\ rs # << >>
  BY ConstantsAssumption
<1>4. ks \in Seq(Key) /\ ks # << >>
  <2>1. \A x \in Reference : Newest(x) \in Key
    BY <1>0 DEF Types, Newest, Last
  <2>2. \A i \in 1..Len(rs) : rs[i] \in Reference
    BY <1>3
  <2>3. DOMAIN rs = 1..Len(rs) /\ Len(rs) \in Nat \ {0}
    BY <1>3
  <2>4. \A i \in 1..Len(rs) : ks[i] \in Key
    BY <2>1, <2>2, <2>3
  <2>5. DOMAIN ks = 1..Len(rs)
    BY <2>3
  <2>6. ks \in [1..Len(rs) -> Key]
    BY <2>3, <2>4
  <2> HIDE DEF ks
  <2>. QED
    BY <2>3, <2>5, <2>6
<1> HIDE DEF ks, id
<1>5. s \in EncryptingCall /\ s.pc = "encrypting" /\ s.id = id /\ s.keys = ks
  BY <1>2, <1>4 DEF EncryptingCall
<1> HIDE DEF s
<1>6. s \in Call
  BY <1>5 DEF Call
<1>7. /\ call' \in [Caller -> Call]
      /\ call'[c] = s
      /\ \A d \in Caller : d # c => call'[d] = call[d]
  BY <1>0, <1>1, <1>6, Suspends
<1>8. CallFits(options.protected, uses, s) /\ \A k : DueFits(s, k)
  BY <1>4, <1>5 DEF CallFits, DueFits
<1>9. Types'
  BY <1>0, <1>1, <1>2, <1>7 DEF Types
<1>10. Fits'
  BY <1>0, <1>1, <1>7, <1>8 DEF Fits
<1>11. Dues'
  <2>1. \A d \in Caller : DueFits(call'[d], Newest(call'[d].ref))
    BY <1>0, <1>7, <1>8 DEF Dues
  <2>. QED
    BY <1>1, <2>1 DEF Dues, Newest
<1>12. Ids'
  <2>1. \A d \in Caller : d # c /\ Encrypts(call[d]) => call[d].id \in Nat /\ call[d].id < id
    <3> SUFFICES ASSUME NEW d \in Caller, Encrypts(call[d])
                 PROVE  call[d].id \in Nat /\ call[d].id < id
      OBVIOUS
    <3>1. call[d] \in Call
      BY <1>0 DEF Types
    <3>2. call[d].id \in 1..MaxTokens
      BY <3>1, CallKinds DEF Encrypts, EncryptingCall, WrappingCall
    <3>3. call[d].id <= minted
      BY <1>0 DEF Ids
    <3>. QED
      BY <1>2, <3>2, <3>3 DEF id
  <2>2. made # None /\ ~made.jws => made.id \in Nat /\ made.id < id
    <3> SUFFICES ASSUME made # None, ~made.jws
                 PROVE  made.id \in Nat /\ made.id < id
      OBVIOUS
    <3>1. made.id \in 1..MaxTokens
      BY <1>0, MadeKinds DEF Types, JweMade
    <3>2. made.id <= minted
      BY <1>0 DEF Ids
    <3>. QED
      BY <1>2, <3>1, <3>2 DEF id
  <2>3. minted' = id /\ id \in Nat
    BY <1>1, <1>2
  <2>4. \A d \in Caller : Encrypts(call'[d]) => call'[d].id <= id
    BY <1>5, <1>7, <2>1, <2>3
  <2>5. \A d, e \in Caller :
          d # e /\ Encrypts(call'[d]) /\ Encrypts(call'[e]) => call'[d].id # call'[e].id
    <3> SUFFICES ASSUME NEW d \in Caller, NEW e \in Caller, d # e, Encrypts(call'[d]),
                        Encrypts(call'[e])
                 PROVE  call'[d].id # call'[e].id
      OBVIOUS
    <3>1. CASE d # c /\ e # c
      BY <1>0, <1>7, <3>1 DEF Ids
    <3>2. CASE d = c
      BY <1>5, <1>7, <2>1, <2>3, <3>2
    <3>3. CASE e = c
      BY <1>5, <1>7, <2>1, <2>3, <3>3
    <3>. QED
      BY <3>1, <3>2, <3>3
  <2>6. made # None /\ ~made.jws =>
          /\ made.id <= id
          /\ \A d \in Caller : Encrypts(call'[d]) => call'[d].id # made.id
    BY <1>0, <1>5, <1>7, <2>2, <2>3 DEF Ids
  <2>. QED
    BY <1>1, <2>4, <2>5, <2>6 DEF Ids
<1>13. RecipientDecrypts'
  BY <1>0, <1>1 DEF RecipientDecrypts
<1>. QED
  BY <1>9, <1>10, <1>11, <1>12, <1>13 DEF Inv

\* An encrypted token is given to the caller.
LEMMA EncryptResolvedStep ==
  ASSUME Inv, NEW c \in Caller, EncryptResolved(c)
  PROVE  Inv'
<1> DEFINE r == call[c]
           token == Jwe(r)
           m == [jws |-> FALSE, keys |-> r.keys, id |-> r.id, payload |-> r.payload,
                 token |-> token]
<1>0. Types /\ Fits /\ Dues /\ Ids /\ RecipientDecrypts
  BY DEF Inv
<1>1. r \in WrappingCall /\ r.pc = "wrapping" /\ Encrypts(r)
  <2>1. r \in Call
    BY <1>0 DEF Types
  <2>. QED
    BY <2>1, CallKinds DEF EncryptResolved, Encrypts
<1>2. /\ r.id \in 1..MaxTokens /\ r.payload \in Payload /\ r.keys \in Seq(Key)
      /\ r.protected \in Ref("protected") /\ r.aad \in Encoded
      /\ r.recipients \in Seq(JweRecipient)
  BY <1>1 DEF WrappingCall
<1>3. made' = m /\ Suspend(c, Idle) /\ UNCHANGED <<options, keys, opened, minted, uses>>
      /\ Len(r.recipients) = Len(r.keys)
  BY DEF EncryptResolved, Return
<1>4. SealedFits(options.protected, uses, r.keys, r.id, r.protected, r.aad, r.recipients)
  BY <1>0, <1>1 DEF Fits, CallFits
<1>5. /\ token.protected = r.protected /\ token.unprotected = EmptyHeader
      /\ token.recipients = r.recipients /\ token.aad = r.aad
      /\ token.iv = [iv |-> r.id] /\ token.ciphertext = Ciphertext(r.payload)
      /\ token.tag = Tag(r.id, r.aad, r.payload)
  BY DEF Jwe, Ciphertext
<1>6. token \in JweToken
  <2>1. Ciphertext(r.payload) \in {Empty} \cup [cipher : Payload]
    BY <1>2 DEF Ciphertext
  <2>2. Tag(r.id, r.aad, r.payload) \in [key : 1..MaxTokens, iv : 1..MaxTokens, aad : Encoded,
                                         payload : Payload]
    BY <1>2 DEF Tag
  <2> DEFINE ct == Ciphertext(r.payload)
             tag == Tag(r.id, r.aad, r.payload)
  <2>3. token = [protected |-> r.protected, unprotected |-> EmptyHeader,
                 recipients |-> r.recipients, aad |-> r.aad, iv |-> [iv |-> r.id],
                 ciphertext |-> ct, tag |-> tag]
    BY DEF Jwe, Ciphertext
  <2> HIDE DEF token, ct, tag
  <2>. QED
    BY <1>2, <2>1, <2>2, <2>3 DEF JweToken, ct, tag
<1> HIDE DEF token
<1>7. m \in JweMade /\ ~m.jws /\ m.keys = r.keys /\ m.id = r.id /\ m.payload = r.payload
      /\ m.token = token
  BY <1>2, <1>6 DEF JweMade
<1> HIDE DEF m
<1>8. MadeFits(options.protected, uses, m)
  BY <1>3, <1>4, <1>5, <1>7 DEF MadeFits, JweFits
<1>9. /\ call' \in [Caller -> Call]
      /\ call'[c] = Idle
      /\ \A d \in Caller : d # c => call'[d] = call[d]
  BY <1>0, <1>3, IdleCall, Suspends
<1>10. CallFits(options.protected, uses, Idle) /\ ~Encrypts(Idle) /\ \A k : DueFits(Idle, k)
  BY IdleCall DEF CallFits, Encrypts, DueFits
<1>11. Types'
  BY <1>0, <1>3, <1>7, <1>9 DEF Types
<1>12. Fits'
  BY <1>0, <1>3, <1>8, <1>9, <1>10 DEF Fits
<1>13. Dues'
  <2>1. \A d \in Caller : DueFits(call'[d], Newest(call'[d].ref))
    BY <1>0, <1>9, <1>10 DEF Dues
  <2>. QED
    BY <1>3, <2>1 DEF Dues, Newest
<1>14. Ids'
  BY <1>0, <1>1, <1>3, <1>7, <1>9, <1>10 DEF Ids
<1>15. RecipientDecrypts'
  BY <1>0, <1>3 DEF RecipientDecrypts
<1>. QED
  BY <1>11, <1>12, <1>13, <1>14, <1>15 DEF Inv

\* The protected header of an encrypt names the algorithm of the key that was chosen.
LEMMA SealsProtected ==
  ASSUME NEW p \in Header, NEW ks \in Seq(Key), ks # << >>
  PROVE  LET chosen == Chosen(ks)
             set == Set(Set(p, Alg, KeyAlg(chosen)), Enc, "A256GCM")
             q == IF chosen.kid = Undefined THEN set ELSE Set(set, Kid, chosen.kid)
         IN q \in Header /\ Sealed(q, ks, Base64(q))
<1> DEFINE chosen == Chosen(ks)
           alg == KeyAlg(chosen)
           kid == chosen.kid
           first == Set(p, Alg, alg)
           set == Set(first, Enc, "A256GCM")
           q == IF kid = Undefined THEN set ELSE Set(set, Kid, kid)
<1>1. chosen \in Key /\ alg \in HeaderValue /\ kid \in HeaderValue
  BY ChosenIsOne, KeyValues
<1>2. /\ Alg \in HeaderName /\ Enc \in HeaderName /\ Kid \in HeaderName
      /\ "A256GCM" \in HeaderValue /\ Alg # Enc /\ Alg # Kid
  BY DEF HeaderName, HeaderValue, Alg, Enc, Kid
<1> HIDE DEF alg, kid
<1>3. first \in Header /\ Alg \in DOMAIN first /\ first[Alg] = alg
  <2>1. first \in Header
    BY <1>1, <1>2, SetsEntry
  <2>2. DOMAIN first = DOMAIN p \cup {Alg}
    BY <1>1, <1>2, SetsEntry
  <2>3. first[Alg] = alg
    BY DEF Set
  <2>. QED
    BY <2>1, <2>2, <2>3
<1> HIDE DEF first
<1>4. set \in Header /\ Alg \in DOMAIN set /\ set[Alg] = alg
  <2>1. set \in Header
    BY <1>2, <1>3, SetsEntry
  <2>2. DOMAIN set = DOMAIN first \cup {Enc}
    BY <1>2, <1>3, SetsEntry
  <2>3. set[Alg] = first[Alg]
    BY <1>2, <1>3 DEF Set
  <2>. QED
    BY <1>3, <2>1, <2>2, <2>3
<1> HIDE DEF set
<1>5. q \in Header /\ Alg \in DOMAIN q /\ q[Alg] = alg
  <2> DEFINE last == Set(set, Kid, kid)
  <2>1. last \in Header
    BY <1>1, <1>2, <1>4, SetsEntry
  <2>2. DOMAIN last = DOMAIN set \cup {Kid}
    BY <1>1, <1>2, <1>4, SetsEntry
  <2>3. last[Alg] = set[Alg]
    BY <1>2, <1>4 DEF Set
  <2> HIDE DEF last
  <2>4. q = set \/ q = last
    BY DEF last
  <2>. QED
    BY <1>4, <2>1, <2>2, <2>3, <2>4
<1> HIDE DEF q
<1>6. Sealed(q, ks, Base64(q))
  BY <1>5 DEF Sealed, alg, chosen
<1>. QED
  BY <1>5, <1>6 DEF q, set, first, alg, kid, chosen

\* An encrypt writes on the protected map of the options, or is refused.
LEMMA EncryptHeadersStep ==
  ASSUME Inv, NEW c \in Caller, EncryptHeaders(c)
  PROVE  Inv'
<1> DEFINE r == call[c]
           ks == r.keys
           id == r.id
           chosen == Chosen(ks)
           set == Set(Set(MapOf("protected"), Alg, KeyAlg(chosen)), Enc, "A256GCM")
           protected == IF chosen.kid = Undefined THEN set ELSE Set(set, Kid, chosen.kid)
           refs == RefOf("protected", protected)
           aad == Base64(protected)
           p == options.protected
           q == Write("protected", protected)
           v == uses \cup {[encrypt |-> id]}
           s == [pc |-> "wrapping", id |-> id, keys |-> ks, payload |-> r.payload,
                 protected |-> refs, aad |-> aad, recipients |-> << >>]
<1>0. Types /\ Fits /\ Dues /\ Ids /\ RecipientDecrypts
  BY DEF Inv
<1>1. r \in EncryptingCall /\ r.pc = "encrypting" /\ Encrypts(r)
  <2>1. r \in Call
    BY <1>0 DEF Types
  <2>. QED
    BY <2>1, CallKinds DEF EncryptHeaders, Encrypts
<1>2. id \in 1..MaxTokens /\ ks \in Seq(Key) /\ r.payload \in Payload
  BY <1>1 DEF EncryptingCall
<1>3. ks # << >>
  BY <1>0, <1>1 DEF Fits, CallFits
<1>4. CASE chosen.alg = Undefined /\ chosen.kty = "EC"
  <2>1. Return(c) /\ UNCHANGED <<options, keys, made, opened, minted, uses>>
    BY <1>4 DEF EncryptHeaders
  <2>. QED
    BY <2>1, Ends
<1>5. CASE ~(chosen.alg = Undefined /\ chosen.kty = "EC")
  <2>1. /\ options' = [options EXCEPT !.protected = q]
        /\ uses' = v
        /\ Suspend(c, s)
        /\ UNCHANGED <<keys, made, opened, minted>>
    BY <1>5 DEF EncryptHeaders
  <2>2. MapOf("protected") \in Header
    BY <1>0, Maps
  <2>3. protected \in Header /\ Sealed(protected, ks, aad)
    BY <1>2, <1>3, <2>2, SealsProtected
  <2>4. /\ p = None => q = None /\ refs = protected
        /\ p # None => q = protected /\ refs = Shared("protected")
        /\ p \in Header \cup {None}
    BY <1>0, Maps
  <2>5. aad \in Encoded
    BY <2>3, DefinedEntries
  <2> HIDE DEF protected, set, chosen, refs, aad, q
  <2>6. refs \in Ref("protected") /\ q \in Header \cup {None}
    BY <2>3, <2>4 DEF Ref
  <2>7. s \in WrappingCall /\ s.pc = "wrapping" /\ s.id = id /\ s.keys = ks
        /\ s.protected = refs /\ s.aad = aad /\ s.recipients = << >>
    BY <1>2, <2>5, <2>6 DEF WrappingCall
  <2>8. Alg \in DOMAIN protected
    BY <2>3 DEF Sealed
  <2>9. SealedFits(q, v, ks, id, refs, aad, << >>)
    <3>1. Len(<< >>) = 0 /\ 0 <= Len(ks) /\ 1..0 = {}
      BY <1>2
    <3>2. IF refs = Shared("protected")
          THEN Alg \in DOMAIN q /\ (v = {[encrypt |-> id]} => Sealed(q, ks, aad))
          ELSE Sealed(refs, ks, aad)
      <4>1. CASE p = None
        <5>1. refs # Shared("protected")
          BY <2>3, <2>4, <4>1, HeaderIsItself
        <5>. QED
          BY <2>3, <2>4, <4>1, <5>1
      <4>2. CASE p # None
        BY <2>3, <2>4, <2>8, <4>2
      <4>. QED
        BY <4>1, <4>2
    <3> HIDE DEF v
    <3>. QED
      BY <1>3, <3>1, <3>2 DEF SealedFits
  <2>10. EncryptWrites(p, uses, q, v, id)
    BY <2>3, <2>4, <2>8 DEF EncryptWrites
  <2> HIDE DEF s
  <2>11. s \in Call
    BY <2>7 DEF Call
  <2>12. CallFits(q, v, s) /\ Encrypts(s) /\ \A k : DueFits(s, k)
    BY <2>7, <2>9 DEF CallFits, Encrypts, DueFits
  <2>13. /\ call' \in [Caller -> Call]
         /\ call'[c] = s
         /\ \A d \in Caller : d # c => call'[d] = call[d]
    BY <1>0, <2>1, <2>11, Suspends
  <2>14. options' \in OptionsOfUser /\ options'.protected = q
    BY <1>0, <2>1, <2>6 DEF Types, OptionsOfUser
  <2>15. v \subseteq [sign : HeaderValue] \cup [encrypt : 1..MaxTokens]
    BY <1>0, <1>2 DEF Types
  <2>16. /\ \A x \in Call : CallFits(p, uses, x) /\ (Encrypts(x) => x.id # id)
                              => CallFits(q, v, x)
         /\ \A m \in {None} \cup Jws \cup JweMade :
              MadeFits(p, uses, m) /\ (m # None /\ ~m.jws => m.id # id) => MadeFits(q, v, m)
    <3> HIDE DEF p, v, id
    <3>. QED
      BY <2>4, <2>10, EncryptKeeps
  <2> HIDE DEF v
  <2>17. Types'
    BY <1>0, <2>1, <2>13, <2>14, <2>15 DEF Types
  <2>18. Fits'
    <3>1. \A d \in Caller : CallFits(p, uses, call[d]) /\ call[d] \in Call
      BY <1>0 DEF Fits, Types
    <3>2. \A d \in Caller : d # c /\ Encrypts(call[d]) => call[d].id # id
      BY <1>0, <1>1 DEF Ids
    <3>3. \A d \in Caller : CallFits(q, v, call'[d])
      BY <2>12, <2>13, <2>16, <3>1, <3>2
    <3>4. MadeFits(q, v, made)
      <4>1. MadeFits(p, uses, made) /\ made \in {None} \cup Jws \cup JweMade
        BY <1>0 DEF Fits, Types
      <4>2. made # None /\ ~made.jws => made.id # id
        BY <1>0, <1>1 DEF Ids
      <4>. QED
        BY <2>16, <4>1, <4>2
    <3>. QED
      BY <2>1, <2>14, <3>3, <3>4 DEF Fits
  <2>19. Dues'
    <3>1. \A d \in Caller : DueFits(call'[d], Newest(call'[d].ref))
      BY <1>0, <2>12, <2>13 DEF Dues
    <3>. QED
      BY <2>1, <3>1 DEF Dues, Newest
  <2>20. Ids'
    BY <1>0, <1>1, <2>1, <2>7, <2>12, <2>13 DEF Ids
  <2>21. RecipientDecrypts'
    BY <1>0, <2>1 DEF RecipientDecrypts
  <2>. QED
    BY <2>17, <2>18, <2>19, <2>20, <2>21 DEF Inv
<1>. QED
  BY <1>4, <1>5

\* What a token that was encrypted shows when it is printed and read, and that it
\* opens for whom it is due.
LEMMA ReadToOpen ==
  ASSUME Types, Fits, NEW r \in Reference, NEW f \in JweFormat, made # None, ~made.jws,
         Deserialize(Serialize(Now(made), f), f) # None
  PROVE  LET t == Deserialize(Serialize(Now(made), f), f) IN
         /\ t \in JweToken /\ TagFits(t, made.payload) /\ t.recipients # << >>
         /\ Due(made, r, f) => Decrypts(t, Attempt(t, Newest(r)), Newest(r))
<1> DEFINE t == Deserialize(Serialize(Now(made), f), f)
           ks == made.keys
           id == made.id
           token == made.token
           aad == token.aad
           payload == made.payload
           P == Deref(token.protected)
           w == SeenJwe(SealedToken(P, ks, id, aad, payload), f)
<1>1. MadeFits(options.protected, uses, made)
  BY DEF Fits
<1>2. /\ Now(made) = SealedToken(P, ks, id, aad, payload)
      /\ P \in Header /\ Alg \in DOMAIN P
      /\ P = IF token.protected = Shared("protected") THEN options.protected
             ELSE token.protected
      /\ ks \in Seq(Key) /\ ks # << >> /\ id \in 1..MaxTokens
      /\ aad \in Encoded /\ payload \in Payload
  BY <1>1, SealedNow
<1>3. SealedFits(options.protected, uses, ks, id, token.protected, aad, token.recipients)
      /\ Len(token.recipients) = Len(ks)
  BY <1>1 DEF MadeFits, JweFits
<1>4. Due(made, r, f) =>
        /\ f # "JweFlatJson"
        /\ \E i \in DOMAIN ks :
             /\ ks[i] = Newest(r)
             /\ \/ i = 1
                \/ /\ f = "JweGeneralJson"
                   /\ ks[i].kid # Undefined
                   /\ \A j \in 1..(i - 1) : ks[j].kid # ks[i].kid
        /\ options.protected = None \/ uses = {[encrypt |-> id]}
  BY DEF Due
<1> HIDE DEF P, ks, id, aad, payload, token
<1>5. t = w
  BY <1>2, SealedTokenIsRead
<1>6. w \in JweToken /\ TagFits(w, payload)
  BY <1>2, SealedTokenStaysOne
<1>7. w.recipients # << >>
  <2> DEFINE n == IF f = "JweGeneralJson" THEN Len(ks) ELSE 1
             x(i) == IF f = "JweCompactJson"
                     THEN [encrypted_key |-> [wrapped |-> id, for |-> ks[i].id],
                           header |-> None]
                     ELSE SeenRecipient(Recipient(ks[i], id))
             ad == IF f = "JweCompactJson" THEN Base64(P) ELSE aad
             tag == IF f = "JweFlatJson" THEN Empty ELSE Tag(id, aad, payload)
  <2>1. w = [protected |-> Defined(P), unprotected |-> EmptyHeader,
             recipients |-> [i \in 1..n |-> x(i)], aad |-> ad, iv |-> [iv |-> id],
             ciphertext |-> Ciphertext(payload), tag |-> tag]
    BY <1>2, SealedTokenSeen
  <2>2. w.recipients = [i \in 1..n |-> x(i)]
    BY <2>1
  <2>3. n \in Nat \ {0}
    BY <1>2
  <2> HIDE DEF x, n, w
  <2>4. 1 \in DOMAIN w.recipients
    BY <2>2, <2>3
  <2>. QED
    BY <2>4
<1>8. ASSUME Due(made, r, f)
      PROVE  Decrypts(w, Attempt(w, Newest(r)), Newest(r))
  <2>1. PICK i \in DOMAIN ks :
          /\ ks[i] = Newest(r)
          /\ \/ i = 1
             \/ /\ f = "JweGeneralJson"
                /\ ks[i].kid # Undefined
                /\ \A j \in 1..(i - 1) : ks[j].kid # ks[i].kid
    BY <1>4, <1>8
  <2>2. f \in {"JweGeneralJson", "JweCompactJson"}
    BY <1>4, <1>8 DEF JweFormat
  <2>3. i \in 1..Len(ks)
    BY <1>2
  <2>4. KeyAlg(Chosen(ks)) \in RsaOaep /\ ks[i].kty = "RSA"
    BY <1>3, <2>3 DEF SealedFits
  <2>5. Sealed(P, ks, aad)
    <3>1. CASE token.protected = Shared("protected")
      <4>1. Alg \in DOMAIN options.protected
        BY <1>3, <3>1 DEF SealedFits
      <4>2. options.protected # None
        BY <4>1, NoneHasNoAlg
      <4>3. uses = {[encrypt |-> id]}
        BY <1>4, <1>8, <4>2
      <4>. QED
        BY <1>2, <1>3, <3>1, <4>3 DEF SealedFits
    <3>2. CASE token.protected # Shared("protected")
      BY <1>2, <1>3, <3>2 DEF SealedFits
    <3>. QED
      BY <3>1, <3>2
  <2>6. Decrypts(w, Attempt(w, ks[i]), ks[i])
    BY <1>2, <2>1, <2>2, <2>3, <2>4, <2>5, SealedTokenOpens
  <2>. QED
    BY <2>1, <2>6
<1>. QED
  BY <1>5, <1>6, <1>7, <1>8 DEF payload

\* A token is printed, and read to be decrypted.
LEMMA DecryptStartStep ==
  ASSUME Inv, NEW c \in Caller, NEW r \in Reference, NEW f \in JweFormat,
         DecryptStart(c, r, f)
  PROVE  Inv'
<1> DEFINE t == Deserialize(Serialize(Now(made), f), f)
           due == Due(made, r, f)
           s == [pc |-> "opening", token |-> t, ref |-> r, due |-> due,
                 payload |-> made.payload]
<1>0. Types /\ Fits
  BY DEF Inv
<1>1. /\ made # None /\ ~made.jws /\ t # None /\ Suspend(c, s)
      /\ UNCHANGED <<options, keys, made, opened, minted, uses>>
  BY DEF DecryptStart
<1>2. /\ t \in JweToken /\ TagFits(t, made.payload) /\ t.recipients # << >>
      /\ due => Decrypts(t, Attempt(t, Newest(r)), Newest(r))
  BY <1>0, <1>1, ReadToOpen
<1>3. made.payload \in Payload
  BY <1>0, <1>1, MadeKinds DEF Types, JweMade
<1>4. due \in BOOLEAN
  BY DEF Due
<1> HIDE DEF t, due
<1>5. s \in OpeningCall
  BY <1>2, <1>3, <1>4 DEF OpeningCall
<1>6. /\ s.pc = "opening" /\ s.token = t /\ s.ref = r /\ s.due = due
      /\ s.payload = made.payload
  OBVIOUS
<1> HIDE DEF s
<1>7. CallFits(options.protected, uses, s) /\ ~Encrypts(s)
  BY <1>2, <1>6 DEF CallFits, Encrypts
<1>8. DueFits(s, Newest(s.ref))
  BY <1>2, <1>6 DEF DueFits
<1>9. s \in Call
  BY <1>5 DEF Call
<1>. QED
  BY <1>1, <1>7, <1>8, <1>9, Resumes

\* A token is decrypted or not.
LEMMA DecryptResolvedStep ==
  ASSUME Inv, NEW c \in Caller, DecryptResolved(c)
  PROVE  Inv'
<1> DEFINE r == call[c]
           t == r.token
           k == Newest(r.ref)
           got == IF Decrypts(t, r.recipient, k) THEN t.tag.payload ELSE None
           o == [due |-> r.due, expected |-> r.payload, payload |-> got]
<1>0. Types /\ Fits /\ Dues /\ Ids /\ RecipientDecrypts
  BY DEF Inv
<1>1. r \in UnwrappingCall /\ r.pc = "unwrapping"
  <2>1. r \in Call
    BY <1>0 DEF Types
  <2>. QED
    BY <2>1, CallKinds DEF DecryptResolved
<1>2. r.due \in BOOLEAN /\ r.payload \in Payload
  BY <1>1 DEF UnwrappingCall
<1>3. opened' = o /\ Suspend(c, Idle) /\ UNCHANGED <<options, keys, made, minted, uses>>
  BY DEF DecryptResolved, Return
<1>4. TagFits(t, r.payload)
  BY <1>0, <1>1 DEF Fits, CallFits
<1>5. Decrypts(t, r.recipient, k) => t.tag.payload = r.payload
  BY <1>4, DecryptedHasTag DEF TagFits
<1>6. r.due => Decrypts(t, r.recipient, k)
  <2>1. DueFits(r, k)
    BY <1>0 DEF Dues
  <2>. QED
    BY <1>1, <2>1 DEF DueFits
<1>7. got \in {None, r.payload} /\ (r.due => got = r.payload)
  BY <1>5, <1>6
<1> HIDE DEF got
<1>8. /\ call' \in [Caller -> Call]
      /\ call'[c] = Idle
      /\ \A d \in Caller : d # c => call'[d] = call[d]
  BY <1>0, <1>3, IdleCall, Suspends
<1>9. CallFits(options.protected, uses, Idle) /\ ~Encrypts(Idle) /\ \A x : DueFits(Idle, x)
  BY IdleCall DEF CallFits, Encrypts, DueFits
<1>10. o \in [due : BOOLEAN, expected : Payload, payload : Payload \cup {None}]
  BY <1>2, <1>7
<1>11. IF o.due THEN o.payload = o.expected ELSE o.payload \in {None, o.expected}
  BY <1>7
<1> HIDE DEF o
<1>12. Types'
  BY <1>0, <1>3, <1>8, <1>10 DEF Types
<1>13. Fits'
  BY <1>0, <1>3, <1>8, <1>9 DEF Fits
<1>14. Dues'
  <2>1. \A d \in Caller : DueFits(call'[d], Newest(call'[d].ref))
    BY <1>0, <1>8, <1>9 DEF Dues
  <2>. QED
    BY <1>3, <2>1 DEF Dues, Newest
<1>15. Ids'
  BY <1>0, <1>3, <1>8, <1>9 DEF Ids
<1>16. RecipientDecrypts'
  BY <1>3, <1>11 DEF RecipientDecrypts
<1>. QED
  BY <1>12, <1>13, <1>14, <1>15, <1>16 DEF Inv

\* A call that is owed nothing any more is otherwise the same.
LEMMA NotDue ==
  ASSUME NEW r \in Call, r.pc \in {"opening", "unwrapping"}
  PROVE  LET s == [r EXCEPT !.due = FALSE]
         IN /\ s \in Call /\ s.pc = r.pc /\ s.token = r.token /\ s.payload = r.payload
            /\ ~s.due
<1>1. CASE r.pc = "opening"
  <2>1. r \in OpeningCall
    BY <1>1, CallKinds
  <2>2. [r EXCEPT !.due = FALSE] \in OpeningCall
    BY <2>1 DEF OpeningCall
  <2>. QED
    BY <2>1, <2>2 DEF OpeningCall, Call
<1>2. CASE r.pc = "unwrapping"
  <2>1. r \in UnwrappingCall
    BY <1>2, CallKinds
  <2>2. [r EXCEPT !.due = FALSE] \in UnwrappingCall
    BY <2>1 DEF UnwrappingCall
  <2>. QED
    BY <2>1, <2>2 DEF UnwrappingCall, Call
<1>. QED
  BY <1>1, <1>2

\* A newer key takes what was due from whoever is decrypting with the old one.
LEMMA RotateStep ==
  ASSUME Inv, NEW r \in Reference, NEW k \in Key, Rotate(r, k)
  PROVE  Inv'
<1> DEFINE hit(c) == call[c].pc \in {"opening", "unwrapping"} /\ call[c].ref = r
<1>0. Types /\ Fits /\ Dues /\ Ids /\ RecipientDecrypts
  BY DEF Inv
<1>1. /\ keys' = [keys EXCEPT ![r] = Append(@, k)]
      /\ UNCHANGED <<options, made, opened, minted, uses>>
  BY DEF Rotate
<1>2. call' = [c \in Caller |-> IF hit(c) THEN [call[c] EXCEPT !.due = FALSE] ELSE call[c]]
  BY DEF Rotate
<1>3. \A c \in Caller : call[c] \in Call
  BY <1>0 DEF Types
<1>4. ASSUME NEW c \in Caller
      PROVE  /\ call'[c] \in Call /\ call'[c].pc = call[c].pc
             /\ ~hit(c) => call'[c] = call[c]
             /\ hit(c) => ~call'[c].due /\ call'[c].token = call[c].token
                          /\ call'[c].payload = call[c].payload
  <2>1. CASE hit(c)
    <3>1. call'[c] = [call[c] EXCEPT !.due = FALSE]
      BY <1>2, <2>1
    <3>. QED
      BY <1>3, <2>1, <3>1, NotDue
  <2>2. CASE ~hit(c)
    <3>1. call'[c] = call[c]
      BY <1>2, <2>2
    <3>. QED
      BY <1>3, <2>2, <3>1
  <2>. QED
    BY <2>1, <2>2
<1>5. call' \in [Caller -> Call]
  <2>1. DOMAIN call' = Caller /\ call' = [c \in DOMAIN call' |-> call'[c]]
    BY <1>2
  <2>. QED
    BY <1>4, <2>1
<1>6. keys' \in [Reference -> Seq(Key) \ {<< >>}]
  <2>1. keys \in [Reference -> Seq(Key) \ {<< >>}]
    BY <1>0 DEF Types
  <2>2. Append(keys[r], k) \in Seq(Key) \ {<< >>}
    BY <2>1
  <2>. QED
    BY <1>1, <2>1, <2>2
<1>7. Types'
  BY <1>0, <1>1, <1>5, <1>6 DEF Types
<1>8. Fits'
  <2>1. \A c \in Caller : CallFits(options.protected, uses, call'[c])
    BY <1>0, <1>4 DEF Fits, CallFits
  <2>. QED
    BY <1>0, <1>1, <2>1 DEF Fits
<1>9. Dues'
  <2>1. ASSUME NEW c \in Caller
        PROVE  DueFits(call'[c], Last(keys'[call'[c].ref]))
    <3>1. CASE hit(c)
      BY <1>4, <3>1 DEF DueFits
    <3>2. CASE ~hit(c) /\ call[c].pc \in {"opening", "unwrapping"}
      <4>1. call[c].ref \in Reference /\ call[c].ref # r
        BY <1>3, <3>2, CallKinds DEF OpeningCall, UnwrappingCall
      <4>2. keys'[call[c].ref] = keys[call[c].ref]
        BY <1>0, <1>1, <4>1 DEF Types
      <4>3. DueFits(call[c], Last(keys[call[c].ref]))
        BY <1>0 DEF Dues, Newest
      <4>. QED
        BY <1>4, <3>2, <4>2, <4>3
    <3>3. CASE call[c].pc \notin {"opening", "unwrapping"}
      BY <1>4, <3>3 DEF DueFits
    <3>. QED
      BY <3>1, <3>2, <3>3
  <2>. QED
    BY <2>1 DEF Dues, Newest
<1>10. Ids'
  <2>1. \A c \in Caller : /\ Encrypts(call'[c]) <=> Encrypts(call[c])
                          /\ Encrypts(call[c]) => call'[c] = call[c]
    BY <1>4 DEF Encrypts
  <2>. QED
    BY <1>0, <1>1, <2>1 DEF Ids
<1>11. RecipientDecrypts'
  BY <1>0, <1>1 DEF RecipientDecrypts
<1>. QED
  BY <1>7, <1>8, <1>9, <1>10, <1>11 DEF Inv

\* Nothing has been called at first.
LEMMA InitInv == Init => Inv
<1> SUFFICES ASSUME Init PROVE Inv
  OBVIOUS
<1>1. Types
  <2>1. options \in OptionsOfUser
    BY ConstantsAssumption DEF Init
  <2>2. keys \in [Reference -> Seq(Key) \ {<< >>}]
    <3>1. PICK first \in FirstKeys : keys = [r \in Reference |-> <<first[r]>>]
      BY DEF Init
    <3>2. \A r \in Reference : first[r] \in Key
      BY ConstantsAssumption
    <3>. QED
      BY <3>1, <3>2
  <2>3. call \in [Caller -> Call]
    BY IdleCall DEF Init
  <2>4. minted \in 0..MaxTokens
    <3>1. MaxTokens \in Nat
      BY ConstantsAssumption
    <3>2. minted = 0
      BY DEF Init
    <3>. QED
      BY <3>1, <3>2
  <2>. QED
    BY <2>1, <2>2, <2>3, <2>4 DEF Init, Types
<1>2. \A c \in Caller : call[c].pc = "idle"
  BY IdleCall DEF Init
<1>3. Fits
  BY <1>2 DEF Init, Fits, CallFits, MadeFits
<1>4. Dues
  BY <1>2 DEF Dues, DueFits
<1>5. Ids
  BY <1>2 DEF Init, Ids, Encrypts
<1>6. RecipientDecrypts
  BY DEF Init, RecipientDecrypts
<1>. QED
  BY <1>1, <1>3, <1>4, <1>5, <1>6 DEF Inv

\* Every step keeps the invariant.
LEMMA StepInv == Inv /\ [Next]_vars => Inv'
<1> SUFFICES ASSUME Inv, [Next]_vars PROVE Inv'
  OBVIOUS
<1>1. CASE \E r \in Reference, k \in Key : Rotate(r, k)
  BY <1>1, RotateStep
<1>2. CASE \E c \in Caller, key \in SigningKey, p \in Payload, jwt \in BOOLEAN :
             SignStart(c, key, p, jwt)
  BY <1>2, SignStartStep
<1>3. CASE \E c \in Caller, rs \in Recipients, p \in Payload : EncryptStart(c, rs, p)
  BY <1>3, EncryptStartStep
<1>4. CASE \E c \in Caller, r \in Reference, f \in JweFormat : DecryptStart(c, r, f)
  BY <1>4, DecryptStartStep
<1>5. CASE \E c \in Caller : SignHeaders(c)
  BY <1>5, SignHeadersStep
<1>6. CASE \E c \in Caller : SignResolved(c)
  BY <1>6, SignResolvedStep
<1>7. CASE \E c \in Caller : EncryptHeaders(c)
  BY <1>7, EncryptHeadersStep
<1>8. CASE \E c \in Caller : EncryptWrapped(c)
  BY <1>8, EncryptWrappedStep
<1>9. CASE \E c \in Caller : EncryptResolved(c)
  BY <1>9, EncryptResolvedStep
<1>10. CASE \E c \in Caller : DecryptPick(c)
  BY <1>10, DecryptPickStep
<1>11. CASE \E c \in Caller : DecryptResolved(c)
  BY <1>11, DecryptResolvedStep
<1>12. CASE \E c \in Caller : Rejected(c)
  BY <1>12, RejectedStep
<1>13. CASE UNCHANGED vars
  <2>1. UNCHANGED <<options, keys, call, made, opened, minted, uses>>
    BY <1>13 DEF vars
  <2>2. Types' /\ Fits' /\ Ids' /\ RecipientDecrypts'
    BY <2>1 DEF Inv, Types, Fits, Ids, RecipientDecrypts
  <2>3. Dues'
    BY <2>1 DEF Inv, Dues, Newest
  <2>. QED
    BY <2>2, <2>3 DEF Inv
<1>. QED
  BY <1>1, <1>2, <1>3, <1>4, <1>5, <1>6, <1>7, <1>8, <1>9, <1>10, <1>11, <1>12, <1>13
     DEF Next

-----------------------------------------------------------------------------

\* The invariant holds for any callers, keys, recipients and options.
THEOREM TokensFit == Spec => []Inv
<1>. QED
  BY InitInv, StepInv, PTL DEF Spec

\* Every variable has its type, and every token has a protected algorithm and a
\* recipient or a signature, whatever is written on the maps of the options.
THEOREM TypeCorrect == Spec => []TypeOK
<1>1. Inv => TypeOK
  BY AlgorithmIsShown DEF Inv, Fits, TypeOK
<1>. QED
  BY <1>1, TokensFit, PTL

\* Every form that can hold a token is read as it was printed.
THEOREM FormsAreRead == Spec => []PrintedIsRead
<1>1. Inv => PrintedIsRead
  BY FormsRead DEF Inv, Fits
<1>. QED
  BY <1>1, TokensFit, PTL

\* The signature of a token fits what is read of it, unless an encrypt or a sign
\* with another algorithm wrote on the map that it shows, or a later sign filled in
\* the kid that its key does not have.
THEOREM SignaturesVerify == Spec => []SignedTokenVerifies
<1>1. Inv => SignedTokenVerifies
  BY SignatureFits DEF Inv, Fits
<1>. QED
  BY <1>1, TokensFit, PTL

\* Who is owed the payload gets it, and nobody gets another one.
THEOREM RecipientsDecrypt == Spec => []RecipientDecrypts
<1>1. Inv => RecipientDecrypts
  BY DEF Inv
<1>. QED
  BY <1>1, TokensFit, PTL

=============================================================================
