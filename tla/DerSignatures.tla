---------------------------- MODULE DerSignatures ----------------------------
(***************************************************************************)
(* The bytes of elliptic signatures on their way from one plug-in to       *)
(* another: onSign and onVerify of libs/plugin-elliptic and of WebCrypto,  *)
(* and the encoding that SubtleCryptoExtension.signByKeyStore and          *)
(* verifyByJwk put on them or take off.                                    *)
(*                                                                         *)
(* A signature is two numbers r and s of Half bytes, 32 in the code, so    *)
(* that 2 * Half stands for its 64.  What a signature says is the          *)
(* numbers: who reads two others rejects it.                               *)
(*                                                                         *)
(* A definition D_fault is D with a fault that the properties must notice; *)
(* no specification uses it.                                               *)
(***************************************************************************)
EXTENDS Naturals, SequencesExt

CONSTANTS
  Half,     \* the bytes of a number
  Byte      \* the bytes that numbers are made of, in 0..255

VARIABLES
  numbers,     \* <<r, s>> as the last signer made them
  signer,      \* the plug-in that signed, and the format in the algorithm
  signature,   \* the bytes that signByKeyStore resolved to, or None
  verdict      \* the answers of verifyByJwk: {} while there is none

vars == <<numbers, signer, signature, verdict>>

None == <<"none">>
Fixed == 2 * Half
-----------------------------------------------------------------------------
(* DER. *)

\* Without the leading zeros.
Minimal(bytes) == SelectInSeq(bytes, LAMBDA b : b # 0)
Stripped(bytes) ==
  IF Minimal(bytes) = 0 THEN << >> ELSE SubSeq(bytes, Minimal(bytes), Len(bytes))

DerInteger_unsigned(bytes) == <<2, Len(Stripped(bytes))>> \o Stripped(bytes)
\* A zero goes before a number whose first bit is set.
DerInteger(bytes) ==
  LET number == Stripped(bytes)
      padded == IF number # << >> /\ Head(number) >= 128 THEN <<0>> \o number ELSE number
  IN <<2, Len(padded)>> \o padded
ToDer(r, s) ==
  LET content == DerInteger(r) \o DerInteger(s) IN <<48, Len(content)>> \o content

\* fromDer: the content of an integer that starts at index i, leading zeros left
\* out, and where the next one starts.
Integer(der, i) ==
  LET length == der[i + 1] IN
  [number |-> Stripped(SubSeq(der, i + 2, i + 1 + length)), next |-> i + 2 + length]
IsDer(der) ==
  /\ Head(der) = 48
  /\ der[3] = 2
  /\ der[Integer(der, 3).next] = 2
FromDer(der) ==
  LET r == Integer(der, 3) IN <<r.number, Integer(der, r.next).number>>

\* The second number is put where one of its own length would end; it throws if
\* it does not fit in there, and writes on the first one if it is shorter.
Join(r, s) ==
  IF Len(s) > Len(r) THEN None
  ELSE [i \in 1..(Len(r) + Len(s)) |->
          IF i \in (Len(s) + 1)..(2 * Len(s)) THEN s[i - Len(s)]
          ELSE IF i <= Len(r) THEN r[i] ELSE 0]
Decoded(der) == IF IsDer(der) THEN Join(FromDer(der)[1], FromDer(der)[2]) ELSE None

Halves(bytes) ==
  LET middle == Len(bytes) \div 2
  IN <<SubSeq(bytes, 1, middle), SubSeq(bytes, middle + 1, Len(bytes))>>
-----------------------------------------------------------------------------
(* Plug-ins: "default" is WebCrypto, "EcDsa" and "EdDsa" the elliptic ones.  *)

Plugin == {"default", "EcDsa", "EdDsa"}
Format == {"", "DER", "der", "raw"}

\* The library of EcDsa gives numbers without their leading zeros.
OnSign(p, format, r, s) ==
  CASE p = "default" -> r \o s
    [] p = "EcDsa" /\ format = "DER" -> ToDer(Stripped(r), Stripped(s))
    [] p = "EcDsa" /\ format # "DER" -> Stripped(r) \o Stripped(s)
    [] p = "EdDsa" /\ format = "DER" -> ToDer(r, s)
    [] p = "EdDsa" /\ format # "DER" -> r \o s

\* The numbers that the library of a plug-in takes from a signature.
OnVerify(p, bytes) ==
  CASE p = "default" ->
         IF Len(bytes) = Fixed THEN Halves(bytes) ELSE None
    [] p = "EcDsa" ->
         LET der == IF Len(bytes) <= Fixed
                    THEN ToDer(Halves(bytes)[1], Halves(bytes)[2]) ELSE bytes
         IN IF IsDer(der) THEN FromDer(der) ELSE None
    [] p = "EdDsa" ->
         LET raw == IF Len(bytes) > Fixed + 1 THEN Decoded(bytes) ELSE bytes
         IN IF raw # None /\ Len(raw) = Fixed THEN Halves(raw) ELSE None

\* What a library understands of the numbers: EdDSA has bytes, not numbers.
Understands(p, read) ==
  /\ read # None
  /\ IF p = "EdDsa" THEN read = numbers
     ELSE \A i \in 1..2 : Stripped(read[i]) = Stripped(numbers[i])
-----------------------------------------------------------------------------
(* SubtleCryptoExtension. *)

\* A format in the algorithm adds DER to what fits in 64 bytes, and takes it off
\* what does not.
SignByKeyStore(p, format, r, s) ==
  LET signed == OnSign(p, format, r, s)
      halves == Halves(signed)
  IN CASE format = "" -> signed
       [] format # "" /\ Len(signed) <= Fixed /\ format = "raw" -> None
       [] format # "" /\ Len(signed) <= Fixed /\ format # "raw" ->
            ToDer(halves[1], halves[2])
       [] format # "" /\ Len(signed) > Fixed -> Decoded(signed)

VerifyByJwk_noDer(p, bytes) == OnVerify(p, bytes)
VerifyByJwk(p, bytes) ==
  IF Len(bytes) > Fixed
  THEN IF Decoded(bytes) = None THEN None ELSE OnVerify(p, Decoded(bytes))
  ELSE OnVerify(p, bytes)
-----------------------------------------------------------------------------
Number == [1..Half -> Byte] \ {[i \in 1..Half |-> 0]}

Init ==
  /\ numbers \in Number \X Number
  /\ signer = [plugin |-> "default", format |-> ""]
  /\ signature = None
  /\ verdict = {}

Sign(p, format) ==
  /\ signature = None
  /\ signer' = [plugin |-> p, format |-> format]
  /\ signature' = SignByKeyStore(p, format, numbers[1], numbers[2])
  /\ UNCHANGED <<numbers, verdict>>

\* The same algorithm may be done by another plug-in where it is verified.
Verify(p) ==
  /\ signature # None
  /\ (p = "EdDsa") = (signer.plugin = "EdDsa")
  /\ verdict' = {Understands(p, VerifyByJwk(p, signature))}
  /\ UNCHANGED <<numbers, signer, signature>>

Next ==
  \/ \E p \in Plugin, format \in Format : Sign(p, format)
  \/ \E p \in Plugin : Verify(p)

Spec == Init /\ [][Next]_vars
-----------------------------------------------------------------------------
\* A signature that any plug-in made in any format is verified by any plug-in of
\* its algorithm, if neither of its numbers starts with a zero byte, which then
\* does not depend on the bytes in them.
SignatureVerifies ==
  (\A i \in 1..2 : Head(numbers[i]) # 0) => FALSE \notin verdict

\* Value of a number, and the encoding of an integer: the shortest one whose first
\* bit is not set.
Value(bytes) ==
  LET value[n \in 0..Len(bytes)] ==
        IF n = 0 THEN 0 ELSE 256 * value[n - 1] + bytes[n]
  IN value[Len(bytes)]
IsInteger(der, value) ==
  LET content == SubSeq(der, 3, Len(der)) IN
  /\ content # << >>
  /\ der[1] = 2 /\ der[2] = Len(content)
  /\ Value(content) = value
  /\ Head(content) < 128
  /\ Len(content) > 1 /\ Head(content) = 0 => content[2] >= 128

\* With format DER and a plug-in that leaves the encoding to signByKeyStore, the
\* result is the canonical encoding of the numbers.
DerIsCanonical ==
  signature # None /\ signer.plugin = "default" /\ signer.format # "" =>
    \E i \in 3..Len(signature) :
      /\ signature[1] = 48 /\ signature[2] = Len(signature) - 2
      /\ IsInteger(SubSeq(signature, 3, i), Value(numbers[1]))
      /\ IsInteger(SubSeq(signature, i + 1, Len(signature)), Value(numbers[2]))
=============================================================================
