------------------------------- MODULE Backup -------------------------------
(***************************************************************************)
(* Backup and restore (src/vault/backup.ts, src/vault/restore.ts) behind   *)
(* src/server/backup/router.ts: a bundle holds a SQL dump of the database  *)
(* and the bytes of the vault file; a restore writes the vault file in     *)
(* place, drops every table and replays the dump, under a running server   *)
(* that keeps its own connection and its own copy of the vault.            *)
(***************************************************************************)
EXTENDS Integers, Sequences, SequencesExt, FiniteSets

CONSTANTS
  Creds,     \* the credentials the vault may hold
  Objects,   \* sqlite_master: [type, name, on, shadow] of the schema
  Imports,   \* the requests to restore a bundle
  MaxKills,  \* bound on how often the process is killed
  Nothing    \* no bundle, no cached vault

ASSUME BackupAssumption ==
  /\ MaxKills \in Nat
  /\ "truncated" \notin Creds /\ \A vault \in SUBSET (Creds \cup {"truncated"}) : vault # Nothing

VARIABLES
  vaultFile,   \* the credentials in auth.json, or Truncated
  vaultCache,  \* CredentialVault.cache
  db,          \* the objects of the database's schema
  bundle,      \* the last bundle, [db, vault], or one that is being made
  import,      \* per request: where its restore stands
  kills

backupVars == <<vaultFile, vaultCache, db, bundle, import, kills>>

\* A file that cannot be decrypted: empty, cut off, or written by two at once.
Truncated == {"truncated"}

Stage == {"new", "vault", "writing", "database", "dropping", "done", "failed", "killed"}

\* An import knows the bundle it restores, whether the file it opened still has the
\* vault's name, and, as history, what has met it: "mixed", another restore wrote the file
\* it had open; "replaced", another restore opened the file it had written; "stale", the
\* server stored a credential with an older copy of the vault than the one it wrote.
BackupInit ==
  /\ vaultFile = {} /\ vaultCache = Nothing
  /\ db = Objects
  /\ bundle = Nothing
  /\ import = [i \in Imports |-> [at |-> "new", schema |-> <<>>, vault |-> {}, named |-> TRUE,
                                  met |-> {}]]
  /\ kills = 0

\* Restores that have the vault's file open, or were killed when they had.
WithFile == {i \in Imports : import[i].at \in {"writing", "killed"} /\ import[i].named}
Written == {i \in Imports : import[i].at \in {"database", "dropping", "done", "failed"}}

\* The database part of a restore runs without an await: no other code of the server
\* runs meanwhile.
Busy == \E i \in Imports : import[i].at = "dropping"

-----------------------------------------------------------------------------
(* The server at work.                                                     *)

\* load(): a truncated file cannot be decrypted, and the caller fails.
loadVault == IF vaultCache # Nothing THEN vaultCache ELSE vaultFile

getCredential ==
  /\ ~Busy /\ loadVault # Truncated
  /\ vaultCache' = loadVault
  /\ UNCHANGED <<vaultFile, db, bundle, import, kills>>

\* persist() renames a file of its own over the vault: a restore that has the old file
\* open goes on writing to one that has no name any more.  (How calls of the vault meet
\* each other is modelled in Vault.)
setCredential(c) ==
  /\ ~Busy /\ loadVault # Truncated
  /\ vaultFile' = loadVault \cup {c} /\ vaultCache' = loadVault \cup {c}
  /\ import' = [i \in Imports |->
                  IF i \in WithFile THEN [import[i] EXCEPT !.named = FALSE]
                  ELSE IF i \in Written /\ ~(import[i].vault \subseteq loadVault)
                       THEN [import[i] EXCEPT !.met = @ \cup {"stale"}]
                       ELSE import[i]]
  /\ UNCHANGED <<db, bundle, kills>>

\* The process is killed and starts again: SQLite rolls back what was not committed,
\* and the migrations create what is missing.
reboot ==
  /\ kills < MaxKills /\ kills' = kills + 1
  /\ vaultCache' = Nothing
  /\ db' = Objects
  /\ bundle' = IF bundle # Nothing /\ bundle.vault = Nothing THEN Nothing ELSE bundle
  /\ import' = [i \in Imports |->
                  IF import[i].at \in {"new", "done", "failed"} THEN import[i]
                  ELSE [import[i] EXCEPT !.at = "killed", !.named = i \in WithFile]]
  /\ UNCHANGED vaultFile

-----------------------------------------------------------------------------
(* Export.                                                                 *)

typeRank(type) ==
  CASE type = "view" -> 4 [] type = "trigger" -> 3 [] type = "table" -> 2 [] OTHER -> 1

\* ORDER BY type DESC, name.
dumpOrder(o, p) ==
  \/ typeRank(o.type) > typeRank(p.type)
  \/ typeRank(o.type) = typeRank(p.type) /\ o.name < p.name

\* BEGIN, the schema, the rows, COMMIT; of the rows nothing is asked here.
sqlDump == SetToSortSeq(db, dumpOrder)

\* createBackup() dumps the database at once, and awaits the vault file.
createBackup ==
  /\ ~Busy
  /\ bundle' = [db |-> sqlDump, vault |-> Nothing]
  /\ UNCHANGED <<vaultFile, vaultCache, db, import, kills>>

\* The bytes are taken as they are: of a file that is cut off there may be none.
readVaultBytes ==
  /\ bundle # Nothing /\ bundle.vault = Nothing
  /\ \E bytes \in {vaultFile} \cup (IF vaultFile = Truncated THEN {{}} ELSE {}) :
       bundle' = [bundle EXCEPT !.vault = bytes]
  /\ UNCHANGED <<vaultFile, vaultCache, db, import, kills>>

-----------------------------------------------------------------------------
(* Import.                                                                 *)

Complete == bundle # Nothing /\ bundle.vault # Nothing

Part(name, value) == [name |-> name, value |-> value]
Uploads == {<<Part("file", "bundle"), Part("passphrase", "right")>>, <<Part("file", "bundle")>>,
            <<Part("passphrase", "wrong"), Part("file", "bundle")>>,
            <<Part("passphrase", "right"), Part("file", "other"), Part("file", "bundle")>>}

\* Of several parts of a name the last one counts.
parseMultipart(parts) ==
  [name \in {"file", "passphrase"} |->
     LET named == SelectSeq(parts, LAMBDA part : part.name = name)
     IN  IF named = <<>> THEN "missing" ELSE Last(named).value]

\* Passphrase, decryption and envelope; a refusal (413, 422) changes nothing.
accepts(form) == form.file = "bundle" /\ form.passphrase = "right"

\* Nothing keeps a second restore from starting while one is under way.
decrypt(i, parts) ==
  /\ ~Busy /\ import[i].at = "new" /\ Complete /\ accepts(parseMultipart(parts))
  /\ import' = [import EXCEPT ![i] = [@ EXCEPT !.at = "vault", !.schema = bundle.db, !.vault = bundle.vault]]
  /\ UNCHANGED <<vaultFile, vaultCache, db, bundle, kills>>

\* writeFile() opens the vault file, which truncates it; an empty vault is skipped.
truncateVault(i) ==
  /\ import[i].at = "vault" /\ import[i].vault # {}
  /\ vaultFile' = Truncated
  /\ import' = [j \in Imports |->
                  IF j = i THEN [import[i] EXCEPT !.at = "writing"]
                  ELSE IF j \in Written THEN [import[j] EXCEPT !.met = @ \cup {"replaced"}]
                  ELSE import[j]]
  /\ UNCHANGED <<vaultCache, db, bundle, kills>>

restoreVault_Cached(i) == vaultFile' = loadVault

\* The bytes go into the file that was opened.  Over those of another restore they may
\* leave the end of its longer ones.
restoreVault(i) ==
  \/ import[i].named /\ vaultFile' = import[i].vault
  \/ import[i].named /\ "mixed" \in import[i].met /\ vaultFile' = Truncated
  \/ ~import[i].named /\ UNCHANGED vaultFile

writeVault(i) ==
  /\ import[i].at = "writing" /\ restoreVault(i)
  /\ import' = [j \in Imports |->
                  IF j = i THEN [import[i] EXCEPT !.at = "database"]
                  ELSE IF ~import[i].named THEN import[j]
                  ELSE IF j \in WithFile THEN [import[j] EXCEPT !.met = @ \cup {"mixed"}]
                  ELSE IF j \in Written THEN [import[j] EXCEPT !.met = @ \cup {"replaced"}]
                  ELSE import[j]]
  /\ UNCHANGED <<vaultCache, db, bundle, kills>>

skipVault(i) ==
  /\ import[i].at = "vault" /\ import[i].vault = {}
  /\ import' = [import EXCEPT ![i].at = "database"]
  /\ UNCHANGED <<vaultFile, vaultCache, db, bundle, kills>>

Restoring(i) == import[i].at = "dropping" \/ (import[i].at = "database" /\ ~Busy)

\* A table is dropped with its shadow tables, its indexes and its triggers; each
\* statement commits by itself.
dropTable(i) ==
  /\ Restoring(i)
  /\ \E o \in db :
       /\ o.type = "table" /\ ~o.shadow
       /\ db' = {p \in db : o.name \notin {p.name, p.on}}
  /\ import' = [import EXCEPT ![i].at = "dropping"]
  /\ UNCHANGED <<vaultFile, vaultCache, bundle, kills>>

\* A statement needs the table it is on, and a name that is free; creating a
\* virtual table creates its shadow tables.
creates(done, o) ==
  IF done.ok /\ (o.type = "table" \/ \E p \in done.objects : p.name = o.on) /\ o \notin done.objects
  THEN [ok |-> TRUE, objects |-> done.objects \cup {o} \cup {p \in Objects : p.shadow /\ p.on = o.name}]
  ELSE [done EXCEPT !.ok = FALSE]

replay(schema) == FoldLeft(creates, [ok |-> TRUE, objects |-> {}], schema)

\* One transaction: an error rolls all of the dump back, and not the drops.
replayDump(i) ==
  /\ Restoring(i)
  /\ db = {}
  /\ LET done == replay(import[i].schema) IN
     IF done.ok THEN /\ db' = done.objects
                     /\ import' = [import EXCEPT ![i].at = "done"]
     ELSE /\ import' = [import EXCEPT ![i].at = "failed"] /\ UNCHANGED db
  /\ UNCHANGED <<vaultFile, vaultCache, bundle, kills>>

BackupNext ==
  \/ \E c \in Creds : setCredential(c)
  \/ getCredential \/ reboot \/ createBackup \/ readVaultBytes
  \/ \E i \in Imports :
       \/ \E parts \in Uploads : decrypt(i, parts)
       \/ truncateVault(i) \/ writeVault(i) \/ skipVault(i) \/ dropTable(i) \/ replayDump(i)

BackupSpec == BackupInit /\ [][BackupNext]_backupVars

-----------------------------------------------------------------------------
(* Properties.                                                             *)

\* Once a restore has written the vault of its bundle, no credential of it is lost,
\* whatever else fails, but in the cases the code leaves open: the server renamed another
\* file over the one the restore had opened, a second restore opened or wrote the file, or
\* the server's cached copy, older than the restore, was stored with another credential.
\* A file that no restore is writing is whole, unless one was killed at it, two wrote it
\* at once or its bundle held no whole vault; and one that is not is never cached.
RestoredVaultIsKept ==
  /\ \A i \in Written : import[i].named /\ import[i].met = {} => import[i].vault \subseteq vaultFile
  /\ vaultFile = Truncated =>
       \E i \in Imports : i \in WithFile \/ "mixed" \in import[i].met \/ import[i].vault = Truncated
  /\ vaultCache # Truncated

\* "Drop existing schema so the restore is clean" (src/vault/restore.ts:127): a
\* restore ends with a database of the whole schema, the one of the bundle, or
\* at worst the one it found.
RestoreIsWhole ==
  ~Busy /\ (\E i \in Imports : import[i].at \in {"done", "failed"}) => db = Objects
=============================================================================
