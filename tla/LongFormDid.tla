----------------------------- MODULE LongFormDid -----------------------------
(***************************************************************************)
(* libs/sdk LongFormDid.serialize: it checks the algorithms of a builder   *)
(* and then reads the newest public keys of its three references, one      *)
(* after the other, while others save keys and change the algorithms.  The *)
(* references are the default ones, whose names follow the algorithm.      *)
(*                                                                         *)
(* A definition D_fault is D with a fault that the properties must notice; *)
(* no specification uses it.                                               *)
(***************************************************************************)
EXTENDS KeyContainers, FiniteSetsExt

CONSTANTS
  Caller,      \* asynchronous users of the builder
  Algorithm,   \* the algorithms of keys, "ES256K" and others
  MaxKeys      \* bound on the keys that are saved

\* The order in which the keys are read.
Usage == <<"signing", "recovery", "update">>

VARIABLES
  algorithms,   \* [1..3 -> the builder's algorithm of that usage]
  store,        \* [1..3 -> [Algorithm -> the container of the default name]]
  call          \* [Caller -> where its serialize is suspended, or the DID it made]

vars == <<algorithms, store, call>>

Idle == [pc |-> "idle"]
Suspend(c, r) == call' = [call EXCEPT ![c] = r]

Init ==
  /\ algorithms = [u \in DOMAIN Usage |-> "ES256K"]
  /\ store = [u \in DOMAIN Usage |-> [a \in Algorithm |-> NoContainer]]
  /\ call = [c \in Caller |-> Idle]

Saved == FoldSet(LAMBDA ua, n : n + Len(store[ua[1]][ua[2]]), 0, (DOMAIN Usage) \X Algorithm)

\* A key, numbered, is generated and saved.
Save(u, a) ==
  LET key == [id |-> Len(store[u][a]) + 1, usage |-> u, alg |-> a, private |-> TRUE,
              kty |-> IF a = "ES256K" THEN "EC" ELSE "OKP", use |-> "sig"] IN
  /\ Saved < MaxKeys
  /\ store' = [store EXCEPT ![u][a] = Append(@, key)]
  /\ UNCHANGED <<algorithms, call>>

UseAlgorithm(u, a) ==
  /\ algorithms' = [algorithms EXCEPT ![u] = a]
  /\ call' = [c \in Caller |->
                IF call[c].pc = "reading" THEN [call[c] EXCEPT !.stable = FALSE] ELSE call[c]]
  /\ UNCHANGED <<store>>

SerializeStart(c) ==
  /\ call[c].pc # "reading"
  /\ \A u \in DOMAIN Usage : algorithms[u] = "ES256K"
  /\ Suspend(c, [pc |-> "reading", keys |-> << >>, stable |-> TRUE,
                 from |-> [u \in DOMAIN Usage |-> [a \in Algorithm |-> Len(store[u][a])]]])
  /\ UNCHANGED <<algorithms, store>>

KeyRead_oldest(c) ==
  LET u == Len(call[c].keys) + 1 IN
  /\ call[c].pc = "reading"
  /\ u \in DOMAIN Usage
  /\ HasPublicKeys(store[u][algorithms[u]])
  /\ Suspend(c, [call[c] EXCEPT !.keys = Append(@, PublicOf(store[u][algorithms[u]][1]))])
  /\ UNCHANGED <<algorithms, store>>

\* The name follows the algorithm that the builder has now.
KeyRead(c) ==
  LET u == Len(call[c].keys) + 1 IN
  /\ call[c].pc = "reading"
  /\ u \in DOMAIN Usage
  /\ HasPublicKeys(store[u][algorithms[u]])
  /\ Suspend(c, [call[c] EXCEPT
                   !.keys = Append(@, GetKey(PublicKeysOnly(store[u][algorithms[u]])))])
  /\ UNCHANGED <<algorithms, store>>

\* Every key becomes one of secp256k1, whatever it was.
Serialized(c) ==
  /\ call[c].pc = "reading"
  /\ Len(call[c].keys) = Len(Usage)
  /\ Suspend(c, [call[c] EXCEPT !.pc = "serialized"])
  /\ UNCHANGED <<algorithms, store>>

\* There is no key.
Rejected(c) ==
  /\ call[c].pc = "reading"
  /\ Suspend(c, Idle)
  /\ UNCHANGED <<algorithms, store>>

Next ==
  \/ \E u \in DOMAIN Usage, a \in Algorithm : Save(u, a) \/ UseAlgorithm(u, a)
  \/ \E c \in Caller : SerializeStart(c) \/ KeyRead(c) \/ Serialized(c) \/ Rejected(c)

Spec == Init /\ [][Next]_vars
-----------------------------------------------------------------------------
\* A DID has a public key of each usage, which was the newest of its algorithm at some
\* moment of the call, whatever is renewed meanwhile.  If the algorithms stayed it is of
\* the curve that the DID says.
DidHasCurrentKeys ==
  \A c \in Caller : call[c].pc = "serialized" =>
    \A u \in DOMAIN Usage : LET key == call[c].keys[u] IN
      /\ key.usage = u /\ ~key.private
      /\ key.id >= call[c].from[u][key.alg]
      /\ call[c].stable => key.alg = "ES256K"
=============================================================================
