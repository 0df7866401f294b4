-------------------------- MODULE KeyStoreSessions --------------------------
(***************************************************************************)
(* libs/plugin-factory KeyStoreFactory, and with it SubtleCryptoFactory    *)
(* and CryptoBuilder.useKeyVault: the key stores that are handed out,      *)
(* those of a vault from an LRU cache that the whole process shares.       *)
(*                                                                         *)
(* A definition D_fault is D with a fault that the properties must notice; *)
(* no specification uses it.                                               *)
(***************************************************************************)
EXTENDS SequencesExt, FiniteSets

CONSTANTS
  Credential,   \* Azure token credentials
  Uri,          \* vaults
  MaxCached,          \* the vaults that the cache holds, 10000 in the code
  MaxStores     \* bound on the key stores that are made

VARIABLES
  sessionCache,   \* [vault, store, expired], the one used last first
  made,           \* the key stores for vaults, [vault, credential]
  results,        \* [Uri -> the last two stores that were handed out for it]
  others,         \* history: [Uri -> the vaults asked for since it was]
  over            \* history: stores whose time was up, or whose place was needed

vars == <<sessionCache, made, results, others, over>>

Init ==
  /\ sessionCache = << >>
  /\ made = << >>
  /\ results = [u \in Uri |-> << >>]
  /\ others = [u \in Uri |-> {}]
  /\ over = {}
-----------------------------------------------------------------------------
(* The cache: a library.  An entry whose time is up is given once more and     *)
(* then forgotten; what is over the limit is forgotten from the end.           *)

Place(u) == SelectInSeq(sessionCache, LAMBDA e : e.vault = u)
IsCached(u) == Place(u) # 0
Entry(u) == sessionCache[Place(u)]
Without(u) == RemoveAt(sessionCache, Place(u))

AfterGet(u) ==
  IF Entry(u).expired THEN Without(u) ELSE <<Entry(u)>> \o Without(u)
AfterSet(u, store) ==
  LET all == <<[vault |-> u, store |-> store, expired |-> FALSE]>> \o sessionCache
  IN SubSeq(all, 1, IF Len(all) > MaxCached THEN MaxCached ELSE Len(all))
-----------------------------------------------------------------------------
(* create. *)

HandOut(u, store) ==
  /\ results' = [results EXCEPT ![u] =
                   IF @ = << >> THEN <<store>> ELSE <<Last(@), store>>]
  /\ others' = [v \in Uri |-> IF v = u THEN {} ELSE others[v] \cup {u}]

\* The credential and the local key store of the call are left aside.
CreateHit(u) ==
  /\ IsCached(u)
  /\ HandOut(u, Entry(u).store)
  /\ sessionCache' = AfterGet(u)
  /\ UNCHANGED <<made, over>>

CreateMissed_notCached(u, credential) ==
  LET store == Len(made) + 1 IN
  /\ ~IsCached(u)
  /\ store <= MaxStores
  /\ made' = Append(made, [vault |-> u, credential |-> credential])
  /\ HandOut(u, store)
  /\ UNCHANGED <<sessionCache, over>>

CreateMissed(u, credential) ==
  LET store == Len(made) + 1 IN
  /\ ~IsCached(u)
  /\ store <= MaxStores
  /\ made' = Append(made, [vault |-> u, credential |-> credential])
  /\ sessionCache' = AfterSet(u, store)
  /\ HandOut(u, store)
  /\ over' = IF results[u] # << >> /\ Cardinality(others[u]) >= MaxCached
             THEN over \cup {Last(results[u])} ELSE over

\* A day has passed.
Expire(i) ==
  /\ ~sessionCache[i].expired
  /\ sessionCache' = [sessionCache EXCEPT ![i].expired = TRUE]
  /\ over' = over \cup {sessionCache[i].store}
  /\ UNCHANGED <<made, results, others>>

Next ==
  \/ \E u \in Uri :
       CreateHit(u) \/ \E credential \in Credential : CreateMissed(u, credential)
  \/ \E i \in DOMAIN sessionCache : Expire(i)

Spec == Init /\ [][Next]_vars
-----------------------------------------------------------------------------
\* The sessions of a vault have one key store, with the credential of the first,
\* until its time is up or as many other vaults as the cache holds were asked for
\* since: the traffic of fewer vaults never separates two sessions of one.
OneStorePerVault ==
  \A u \in Uri : \A i, j \in DOMAIN results[u] :
    /\ made[results[u][i]].vault = u
    /\ i < j /\ results[u][i] # results[u][j] => results[u][i] \in over
=============================================================================
