----------------------------- MODULE VaultKeys -----------------------------
(***************************************************************************)
(* The keys of an account on its devices: the master key that the password *)
(* gives at registration and at every login, the account key it protects   *)
(* (client/src/core/MasterKeyManager), and the key and index key of each   *)
(* vault, made on the device that creates the vault and recovered by every *)
(* other one (client/src/core/Vault), all in envelopes of                  *)
(* client/src/core/EnvelopeCodec.                                          *)
(*                                                                         *)
(* Cryptography is symbolic.  A key is a sequence of names: a random one   *)
(* its own name, a derived one the call that derives it.  An envelope      *)
(* opens with the key it was sealed with and with no other.                *)
(***************************************************************************)
EXTENDS Naturals, Sequences, FiniteSets

CONSTANTS
  Devices,      \* clients of the account
  Vaults        \* bound: vaults of the account

VARIABLES
  account,      \* server: the protected account key, from registration on
  keys,         \* keys[d]: m_masterKey and m_accountKey of device d
  loggedIn,     \* devices past their login, where vaults are made and opened
  vaultRows,    \* server: what it stores of each vault
  held          \* held[d]: the vaults device d holds
keyVars == <<account, keys, loggedIn, vaultRows, held>>

NoKey == <<>>

-----------------------------------------------------------------------------
(* Key derivation and envelopes. *)

Kmac(key, custom, data) == <<"(">> \o key \o <<custom>> \o data \o <<")">>

\* A key given as it is, or bound to a purpose and an identifier.
Seal(data, key, kdf) ==
  [version |-> "V1", kdf |-> kdf, cipher |-> "AES_256_GCM", key |-> key, data |-> data]

SealBound(data, key, custom, id) == Seal(data, Kmac(key, custom, id), "KMAC256")

NoEnvelope == [version |-> "", kdf |-> "", cipher |-> "", key |-> NoKey, data |-> <<>>]

\* Whether decoding gives the data rather than nothing.
DecryptsWith(envelope, key) ==
  envelope.cipher \in {"AES_256_GCM", "CHACHA20_POLY1305"} /\ envelope.key = key

Opens(envelope, key, kdf) ==
  envelope.version = "V1" /\ envelope.kdf = kdf /\ DecryptsWith(envelope, key)

OpensBound(envelope, key, custom, id) ==
  /\ envelope.version = "V1"
  /\ envelope.kdf = "KMAC256"
  /\ DecryptsWith(envelope, Kmac(key, custom, id))

-----------------------------------------------------------------------------
(* Master key and account key. *)

\* What the password exchange gives both sides of a user's registration and
\* logins, and the name the user registered and logs in with.
ExportKey == <<"exportKey">>
Username == <<"username">>

DeriveMasterKey(exportKey, name) == Kmac(exportKey, "master", name)

\* A new account key, at registration, and its envelope.
GenerateNewAccountKey(d) == <<"accountKey", d>>
ExportMasterKey(k) == Seal(k.account, k.master, "KMAC256")

Registration(d) ==
  [master |-> DeriveMasterKey(ExportKey, Username), account |-> GenerateNewAccountKey(d)]

LoadsAccountKey(blob, master) == Opens(blob, master, "KMAC256")

\* The keys are there before the server is asked; it takes the first
\* registration of the name that reaches it.
Register(d) ==
  /\ d \notin loggedIn
  /\ keys' = [keys EXCEPT ![d] = Registration(d)]
  /\ \/ account = NoEnvelope /\ account' = ExportMasterKey(Registration(d))
     \/ UNCHANGED account
  /\ UNCHANGED <<loggedIn, vaultRows, held>>

\* A login derives the master key again and opens the envelope it is sent.
Login(d) ==
  /\ d \notin loggedIn
  /\ account # NoEnvelope
  /\ LET master == DeriveMasterKey(ExportKey, Username) IN
     /\ LoadsAccountKey(account, master)
     /\ keys' = [keys EXCEPT ![d] = [master |-> master, account |-> account.data]]
  /\ loggedIn' = loggedIn \cup {d}
  /\ UNCHANGED <<account, vaultRows, held>>

-----------------------------------------------------------------------------
(* Vaults. *)

NoVault == [blob |-> NoEnvelope, salt |-> <<>>, vaultKey |-> NoKey, indexKey |-> NoKey,
            isDecrypted |-> FALSE]

ExportVaultKey(k, vaultKey, v) == SealBound(vaultKey, k.account, "vault", <<v>>)
LoadsVaultKey(k, blob, v) == OpensBound(blob, k.account, "vault", <<v>>)

NoRow == [blob |-> NoEnvelope, salt |-> <<>>]

IndexKey(vaultKey, salt) == Kmac(vaultKey, "index", salt)

\* A vault made on this device: random key and salt, index key from both.
NewVault(d, v) ==
  LET vaultKey == <<"vaultKey", d, v>>  salt == <<"salt", d, v>> IN
  [blob |-> ExportVaultKey(keys[d], vaultKey, v), salt |-> salt,
   vaultKey |-> vaultKey, indexKey |-> IndexKey(vaultKey, salt), isDecrypted |-> TRUE]

\* A vault that the server sent: only what the server stores.
LoadedVault(row) == [NoVault EXCEPT !.blob = row.blob, !.salt = row.salt]

MakeVault(d, v) ==
  /\ d \in loggedIn
  /\ vaultRows[v] = NoRow
  /\ held' = [held EXCEPT ![d][v] = NewVault(d, v)]
  /\ vaultRows' = [vaultRows EXCEPT ![v] =
                     [blob |-> NewVault(d, v).blob, salt |-> NewVault(d, v).salt]]
  /\ UNCHANGED <<account, keys, loggedIn>>

ReceiveVault(d, v) ==
  /\ d \in loggedIn
  /\ vaultRows[v] # NoRow
  /\ held[d][v] = NoVault
  /\ held' = [held EXCEPT ![d][v] = LoadedVault(vaultRows[v])]
  /\ UNCHANGED <<account, keys, loggedIn, vaultRows>>

\* The same key, and the same index key, from what the server stores.
DecryptedVaultUnsalted(d, v) ==
  LET vault == held[d][v]  vaultKey == vault.blob.data IN
  [vault EXCEPT !.vaultKey = vaultKey, !.indexKey = IndexKey(vaultKey, <<>>),
                !.isDecrypted = TRUE]

DecryptedVault(d, v) ==
  LET vault == held[d][v]  vaultKey == vault.blob.data IN
  [vault EXCEPT !.vaultKey = vaultKey, !.indexKey = IndexKey(vaultKey, vault.salt),
                !.isDecrypted = TRUE]

DecryptVaultKey(d, v) ==
  /\ held[d][v] # NoVault
  /\ ~held[d][v].isDecrypted
  /\ d \in loggedIn
  /\ LoadsVaultKey(keys[d], held[d][v].blob, v)
  /\ held' = [held EXCEPT ![d][v] = DecryptedVault(d, v)]
  /\ UNCHANGED <<account, keys, loggedIn, vaultRows>>

\* The hash by which the server knows that two items have the same name.
GetItemNameHash(vault, name) == Kmac(vault.indexKey, "itemName", <<name>>)

KeysInit ==
  /\ account = NoEnvelope
  /\ keys = [d \in Devices |-> [master |-> NoKey, account |-> NoKey]]
  /\ loggedIn = {}
  /\ vaultRows = [v \in Vaults |-> NoRow]
  /\ held = [d \in Devices |-> [v \in Vaults |-> NoVault]]

KeysNext ==
  \/ \E d \in Devices : Register(d) \/ Login(d)
  \/ \E d \in Devices, v \in Vaults :
       MakeVault(d, v) \/ ReceiveVault(d, v) \/ DecryptVaultKey(d, v)

-----------------------------------------------------------------------------
\* The account key is the same on all devices that are logged in, whichever
\* of them tried to register the account, and a vault a
\* device has opened has the keys it has on every other device that opened
\* it, the one that made it included, so that an item sealed on one opens
\* on all, and a name taken on one device is taken on all: its hash is the
\* same.  (Making a vault and loading one derive the keys in two places.)
DevicesAgree ==
  \A d, e \in Devices :
    /\ {d, e} \subseteq loggedIn => keys[d] = keys[e]
    /\ \A v \in Vaults : held[d][v].isDecrypted /\ held[e][v].isDecrypted =>
         /\ held[d][v].vaultKey = held[e][v].vaultKey
         /\ GetItemNameHash(held[d][v], "name") = GetItemNameHash(held[e][v], "name")
=============================================================================
