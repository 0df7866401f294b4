---------------------------- MODULE VaultSession ----------------------------
(***************************************************************************)
(* A Crypto built with useKeyVault: generateKey, sign and decrypt with a   *)
(* key of Azure Key Vault, through SubtleCryptoExtension, the providers of *)
(* libs/plugin-keyvault and KeyStoreKeyVault.                              *)
(*                                                                         *)
(* The private keys never leave the vault.  A CryptoKey has the public     *)
(* part of one version and, pinned on it, the kid of the version that the  *)
(* vault will use; nothing keeps the two equal by itself, and others       *)
(* rotate the key.  An action of a call runs it to the next answer of the  *)
(* vault.  Whatever becomes of the local key store is in KeyVaultStore.    *)
(*                                                                         *)
(* A definition D_fault is D with a fault that the properties must notice; *)
(* no specification uses it.                                               *)
(***************************************************************************)
EXTENDS Naturals, SequencesExt

CONSTANTS
  Caller,        \* asynchronous users of the session
  MaxVersions    \* bound on the versions of the key

VARIABLES
  kty,           \* the type of the key: EC to sign, RSA to decrypt
  vault,         \* the versions of the key, oldest first
  cryptoKey,     \* KeyReference.cryptoKey: [public, kid], versions, or None
  call,          \* [Caller -> where its running call is suspended]
  result,        \* the last signature or decryption, or None
  own            \* history: the versions that this session generated

vars == <<kty, vault, cryptoKey, call, result, own>>

None == [none |-> TRUE]
Idle == [pc |-> "idle"]
Suspend(c, r) == call' = [call EXCEPT ![c] = r]
Return(c) == Suspend(c, Idle)

Init ==
  /\ kty \in {"EC", "RSA"}
  /\ vault = << >>
  /\ cryptoKey = None
  /\ call = [c \in Caller |-> Idle]
  /\ result = None
  /\ own = {}

Newest(versions) == Len(versions)
-----------------------------------------------------------------------------
(* Azure Key Vault.  Versions made with the curve SECP256K1 are legacy. *)

Publish(legacy) ==
  /\ Len(vault) < MaxVersions
  /\ vault' = Append(vault, [legacy |-> legacy, enabled |-> TRUE])

Rotate(legacy) ==
  /\ legacy => kty = "EC"
  /\ Publish(legacy)
  /\ UNCHANGED <<kty, cryptoKey, call, result, own>>

Disable(i) ==
  /\ vault[i].enabled
  /\ vault' = [vault EXCEPT ![i].enabled = FALSE]
  /\ UNCHANGED <<kty, cryptoKey, call, result, own>>
-----------------------------------------------------------------------------
(* generateKey. *)

GenerateStart(c) ==
  /\ call[c].pc = "idle"
  /\ Suspend(c, [pc |-> "creating"])
  /\ UNCHANGED <<kty, vault, cryptoKey, result, own>>

\* createKey answers with the kid of the version it made.
Created(c) ==
  /\ call[c].pc = "creating"
  /\ Publish(FALSE)
  /\ Suspend(c, [pc |-> "created", version |-> Len(vault')])
  /\ own' = own \cup {Len(vault')}
  /\ UNCHANGED <<kty, cryptoKey, result>>

\* The pair has a public key only, which the reference remembers.  An RSA pair is
\* held by the caller instead.
GenerateResolved(c) ==
  /\ call[c].pc = "created"
  /\ cryptoKey' = [public |-> call[c].version, kid |-> call[c].version]
  /\ Return(c)
  /\ UNCHANGED <<kty, vault, result, own>>
-----------------------------------------------------------------------------
(* sign.  A call records, for the properties only, the newest version when it    *)
(* began ("from"), and whether the header is due to name the key ("due").      *)

\* What is remembered is the newest version, or nothing is.
Settled ==
  /\ cryptoKey # None => cryptoKey.kid = Newest(vault)
  /\ \A c \in Caller : call[c].pc # "created"

\* Nobody has made a version since the call began.
Undisturbed(c) == call[c].due /\ Newest(vault) = call[c].from

SignStart(c) ==
  /\ kty = "EC"
  /\ call[c].pc = "idle"
  /\ Suspend(c, [pc |-> "publicKey", from |-> Newest(vault), due |-> Settled])
  /\ UNCHANGED <<kty, vault, cryptoKey, result, own>>

\* get of the newest version.
Readable == vault # << >> /\ vault[Newest(vault)].enabled

Signing(c, header, key, from, due) ==
  Suspend(c, [pc |-> "signing", header |-> header, key |-> key, from |-> from, due |-> due])

\* The public key for the header has come.  signByKeyStore takes the remembered
\* key, else it gets the key once more.
HeaderFetched(c) ==
  /\ call[c].pc = "publicKey"
  /\ Readable
  /\ IF cryptoKey # None
     THEN Signing(c, Newest(vault), cryptoKey, call[c].from, Undisturbed(c))
     ELSE Suspend(c, [pc |-> "key", header |-> Newest(vault), from |-> call[c].from,
                      due |-> call[c].due])
  /\ UNCHANGED <<kty, vault, cryptoKey, result, own>>

\* The kid that comes with the key has a version, which importKey pins.
KeyFetched(c) ==
  /\ call[c].pc = "key"
  /\ Readable
  /\ Signing(c, call[c].header, [public |-> Newest(vault), kid |-> Newest(vault)],
             call[c].from, Undisturbed(c))
  /\ UNCHANGED <<kty, vault, cryptoKey, result, own>>

\* A caller imports the JWK of a version and signs with it.  When its kid has no
\* version, as those that save puts on keys, the newest one is pinned.
ImportStart(c, i, versioned) ==
  /\ kty = "EC"
  /\ call[c].pc = "idle"
  /\ IF versioned
     THEN Signing(c, i, [public |-> i, kid |-> i], i, TRUE)
     ELSE Suspend(c, [pc |-> "kid", header |-> i, from |-> Newest(vault),
                      due |-> i = Newest(vault)])
  /\ UNCHANGED <<kty, vault, cryptoKey, result, own>>

KidFetched_oldest(c) ==
  /\ call[c].pc = "kid"
  /\ Readable
  /\ Signing(c, call[c].header, [public |-> call[c].header, kid |-> 1],
             call[c].from, Undisturbed(c))
  /\ UNCHANGED <<kty, vault, cryptoKey, result, own>>

KidFetched(c) ==
  /\ call[c].pc = "kid"
  /\ Readable
  /\ Signing(c, call[c].header, [public |-> call[c].header, kid |-> Newest(vault)],
             call[c].from, Undisturbed(c))
  /\ UNCHANGED <<kty, vault, cryptoKey, result, own>>

\* The client of the vault is made for the kid that is pinned on the key.
VersionOf_newest(key) == Newest(vault)
VersionOf(key) == key.kid

Signed(c) ==
  /\ result' = [header |-> call[c].header, by |-> VersionOf(call[c].key),
                from |-> call[c].from, due |-> call[c].due]
  /\ Return(c)

\* The vault signs with ES256K, or says that a legacy key is incompatible with it.
SignAnswered(c) ==
  /\ call[c].pc = "signing"
  /\ vault[VersionOf(call[c].key)].enabled
  /\ IF vault[VersionOf(call[c].key)].legacy
     THEN Suspend(c, [call[c] EXCEPT !.pc = "retrying"]) /\ UNCHANGED result
     ELSE Signed(c)
  /\ UNCHANGED <<kty, vault, cryptoKey, own>>

\* And with ECDSA256 then.
RetryAnswered(c) ==
  /\ call[c].pc = "retrying"
  /\ vault[VersionOf(call[c].key)].enabled
  /\ Signed(c)
  /\ UNCHANGED <<kty, vault, cryptoKey, own>>
-----------------------------------------------------------------------------
(* decrypt. *)

\* With a pair that generateKey gave; what was encrypted is for version i.
DecryptStart(c, i) ==
  /\ kty = "RSA"
  /\ call[c].pc = "idle"
  /\ cryptoKey # None
  /\ Suspend(c, [pc |-> "decrypting", header |-> i, key |-> cryptoKey,
                 from |-> Newest(vault), due |-> i = cryptoKey.public])
  /\ UNCHANGED <<kty, vault, cryptoKey, result, own>>

DecryptAnswered(c) ==
  /\ call[c].pc = "decrypting"
  /\ vault[VersionOf(call[c].key)].enabled
  /\ VersionOf(call[c].key) = call[c].header
  /\ Signed(c)
  /\ UNCHANGED <<kty, vault, cryptoKey, own>>

\* decryptByKeyStore gets the newest key, and its import is rejected: the provider
\* of RSA keys has none.
DecryptByKeyStore(c) ==
  /\ kty = "RSA"
  /\ call[c].pc = "idle"
  /\ Suspend(c, [pc |-> "importing"])
  /\ UNCHANGED <<kty, vault, cryptoKey, result, own>>
-----------------------------------------------------------------------------
\* There is no key, a version is disabled, the vault fails or cannot decrypt, or
\* an import is rejected.
Rejected(c) ==
  /\ call[c].pc # "idle"
  /\ Return(c)
  /\ UNCHANGED <<kty, vault, cryptoKey, result, own>>

Next ==
  \/ \E legacy \in BOOLEAN : Rotate(legacy)
  \/ \E i \in 1..Len(vault) : Disable(i)
  \/ \E c \in Caller :
       \/ GenerateStart(c) \/ Created(c) \/ GenerateResolved(c)
       \/ SignStart(c) \/ HeaderFetched(c) \/ KeyFetched(c)
       \/ \E i \in 1..Len(vault), b \in BOOLEAN : ImportStart(c, i, b)
       \/ KidFetched(c) \/ SignAnswered(c) \/ RetryAnswered(c)
       \/ \E i \in 1..Len(vault) : DecryptStart(c, i)
       \/ DecryptAnswered(c) \/ DecryptByKeyStore(c) \/ Rejected(c)

Spec == Init /\ [][Next]_vars
-----------------------------------------------------------------------------
\* The version whose public key is in the header, or in the JWK that was imported,
\* is the one that signs, unless what is remembered was not the newest version when
\* the call began or someone made a version before the call had its key.  A version
\* that is made after that changes nothing, a second attempt included.
HeaderVersionSigns ==
  result # None /\ result.due => result.by = result.header

\* Whatever was made and remembered meanwhile, a version that signs or decrypts is the
\* one that the user named, one that this session made itself, or was the newest at
\* some moment of the call: nobody signs with a key that others had retired before.
NothingOlderSigns ==
  result # None => result.by \in own \/ result.by >= result.from
=============================================================================
