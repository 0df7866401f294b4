-------------------------- MODULE MCSigningSession --------------------------
(* Instances of SigningSession for TLC. *)
EXTENDS SigningSession, TLC

CONSTANTS c1, c2

MCCaller == {c1, c2}
MCSymmetry == Permutations(MCCaller)
MCNone == {}
MCAlg == {"ES256K", "EdDSA"}
MCKtyOf == [a \in MCAlg |-> IF a = "EdDSA" THEN "OKP" ELSE "EC"]
MCOneAlg == {"ES256K"}
MCOneKtyOf == [a \in MCOneAlg |-> "EC"]

MCSigningOnly == {"signing"}
MCSigningRecovery == {"signing", "recovery"}

\* Default names are the pairs themselves, explicit names are strings.
MCDefaultName == [p \in KeyUsage \X Alg |-> p]
MCName == (KeyUsage \X Alg) \cup {<<u>> : u \in Explicit}
MCExplicitName == [u \in Explicit |-> <<u>>]
MCSecret == [u \in Explicit |-> "secret"]
MCSigningInHardware ==
  [u \in Explicit |-> IF u = "signing" THEN "key" ELSE "secret"]
=============================================================================
