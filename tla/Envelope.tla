------------------------------ MODULE Envelope ------------------------------
(***************************************************************************)
(* The envelope encryption of the API: a Personal Account key wrapped by   *)
(* the key service, a Connection key wrapped under it, and values          *)
(* encrypted under the Connection key, each bound to where it belongs.     *)
(*                                                                         *)
(* AES-GCM and KMS are taken symbolically: what is sealed under a key with *)
(* additional data opens under that key and that data, and nothing else.   *)
(* Operators only; StoredMediaContainer uses them in its steps.            *)
(***************************************************************************)
EXTENDS Naturals, Sequences

CONSTANTS
  Environment, \* the deployment environment the program runs in
  RootKey      \* the key the key service wraps account keys with

Refused == "refused"

Seal(key, data, text) == [key |-> key, data |-> data, text |-> text]
Open(key, data, box) == IF box.key = key /\ box.data = data THEN box.text ELSE <<Refused>>
Opened(text) == text # <<Refused>>

\* What a sealed value is bound to.
AccountKeyContext(account, version) == <<"personal-account-key", Environment, account, version>>
ConnectionKeyData(row) ==
  <<"connection-key", Environment, row.account, row.connection, row.accountVersion, row.version>>
CiphertextData(context, version) ==
  <<"application-ciphertext", Environment, context.account, context.connection,
    context.entity, context.purpose, context.record, version>>

\* createPersonalAccountKey and createConnectionKey: the rows that are stored.
AccountKeyRow(account, version, key) ==
  [account |-> account, version |-> version, root |-> RootKey,
   box |-> Seal(RootKey, AccountKeyContext(account, version), <<key>>)]
ConnectionKeyRow(accountKey, accountRow, connection, version, key) ==
  LET row == [account |-> accountRow.account, accountVersion |-> accountRow.version,
              connection |-> connection, version |-> version]
  IN  [account |-> row.account, accountVersion |-> row.accountVersion,
       connection |-> connection, version |-> version,
       box |-> Seal(accountKey, ConnectionKeyData(row), <<key>>)]

\* withAccountKey and withConnectionKey: both rows have to belong together
\* before the key service is asked.
AccountKeyOf(accountRow) ==
  IF accountRow.root = RootKey
  THEN Open(RootKey, AccountKeyContext(accountRow.account, accountRow.version), accountRow.box)
  ELSE <<Refused>>
RowsFit(accountRow, connectionRow) ==
  /\ connectionRow.account = accountRow.account
  /\ connectionRow.accountVersion = accountRow.version
ConnectionKeyOf(accountRow, connectionRow) ==
  IF RowsFit(accountRow, connectionRow) /\ Opened(AccountKeyOf(accountRow))
  THEN Open(AccountKeyOf(accountRow)[1], ConnectionKeyData(connectionRow), connectionRow.box)
  ELSE <<Refused>>

ContextFits(accountRow, connectionRow, context) ==
  /\ context.account = accountRow.account /\ context.account = connectionRow.account
  /\ context.connection = connectionRow.connection

\* encrypt: the ciphertext with the version of the key it was made under.
Encrypted(accountRow, connectionRow, context, text) ==
  [version |-> connectionRow.version,
   box |-> Seal(ConnectionKeyOf(accountRow, connectionRow)[1],
                CiphertextData(context, connectionRow.version), text)]
Encryptable(accountRow, connectionRow, context) ==
  /\ ContextFits(accountRow, connectionRow, context)
  /\ Opened(ConnectionKeyOf(accountRow, connectionRow))

\* decrypt.
Decrypted(accountRow, connectionRow, context, ciphertext) ==
  IF /\ ContextFits(accountRow, connectionRow, context)
     /\ ciphertext.version = connectionRow.version
     /\ Opened(ConnectionKeyOf(accountRow, connectionRow))
  THEN Open(ConnectionKeyOf(accountRow, connectionRow)[1],
            CiphertextData(context, ciphertext.version), ciphertext.box)
  ELSE <<Refused>>
=============================================================================
