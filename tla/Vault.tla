-------------------------------- MODULE Vault --------------------------------
(***************************************************************************)
(* The credential vault (src/vault/vault.ts): one encrypted file, a cache  *)
(* of it in the process, and operations that read the cache, write a       *)
(* temporary file next to the vault and rename it over the vault.          *)
(*                                                                         *)
(* Every await of load() and persist() lets other operations run; nothing  *)
(* serialises them, and all of them use the same temporary path.  A file   *)
(* is modelled as an inode, because a rename moves the name of a file that *)
(* another operation still writes to.                                      *)
(***************************************************************************)
EXTENDS Integers, FiniteSets

CONSTANTS
  Ops,            \* the calls made to the vault
  Keys,           \* platforms, providers and app credentials
  Values,         \* credentials
  None,           \* no file, no cache, no descriptor
  Unset,          \* a key without a credential
  Empty,          \* what a file holds that was opened and not yet written
  Garbage,        \* what a file holds that was written in part or by two writers
  MaxConcurrent,  \* how many calls may be under way at once
  MaxCrashes      \* bound on how often the process is killed

ASSUME VaultAssumption ==
  /\ MaxConcurrent \in Nat \ {0} /\ MaxCrashes \in Nat
  /\ Keys # {} /\ None \notin Ops
  /\ {None, Empty, Garbage} \cap [Keys -> Values \cup {Unset}] = {}

VARIABLES
  inode,    \* contents of the files, by the operation that created them
  file,     \* the inode named auth.json, or "none"
  tmp,      \* the inode named auth.json.tmp, or "none"
  cache,    \* CredentialVault.cache, or "none"
  op,       \* per operation: where it is
  acked,    \* history: per key, the value last confirmed to a caller
  unsure,   \* history: per key, values written since without confirmation
  met,      \* history: has a call been under way together with a writer?
  clashed,  \* history: have two writers been at the temporary file together?
  crashes

vaultVars == <<inode, file, tmp, cache, op, acked, unsure, met, clashed, crashes>>

Content == [Keys -> Values \cup {Unset}]
Broken == {Empty, Garbage}
EMPTY_VAULT == [k \in Keys |-> Unset]

Phase == {"new", "reading", "read", "loaded", "opened", "written", "renamed", "done", "failed"}
\* get*: a read; set*: replace a credential; change: updateOAuth and deleteProvider,
\* which return early when there is none.
Kinds == {"get", "set", "change"}
Op == [at : Phase, kind : Kinds, key : Keys, value : Values \cup {Unset},
       seen : Content \cup Broken, fd : Ops \cup {None}]

VaultInit ==
  /\ inode = [o \in Ops |-> Empty]
  /\ file = None
  /\ tmp = None
  /\ cache = None
  /\ op = [o \in Ops |-> [at |-> "new", kind |-> "get", key |-> CHOOSE k \in Keys : TRUE,
                          value |-> Unset, seen |-> Empty, fd |-> None]]
  /\ acked = EMPTY_VAULT
  /\ unsure = [k \in Keys |-> {}]
  /\ met = FALSE
  /\ clashed = FALSE
  /\ crashes = 0

UnderWay == {o \in Ops : op[o].at \notin {"new", "done", "failed"}}
Writing == {o \in UnderWay : op[o].kind # "get"}
AtTmp == {o \in Ops : op[o].at \in {"opened", "written"}}

Goes(o, at) == op' = [op EXCEPT ![o].at = at]

-----------------------------------------------------------------------------

ReturnsEarly(entry, vault) ==
  \/ entry.kind = "get"
  \/ entry.kind = "change" /\ vault[entry.key] = Unset

\* What load() found becomes the vault the operation works on.  A getter is done;
\* a writer builds the next vault from it.
Loads(o, entry, vault) ==
  /\ cache' = vault
  /\ IF ReturnsEarly(entry, vault)
     THEN /\ op' = [op EXCEPT ![o] = [entry EXCEPT !.at = "done"]]
          /\ UNCHANGED unsure
     ELSE /\ op' = [op EXCEPT ![o] = [entry EXCEPT !.at = "loaded",
                                        !.seen = [vault EXCEPT ![entry.key] = entry.value]]]
          /\ unsure' = [unsure EXCEPT ![entry.key] = @ \cup {entry.value}]

\* A method of the vault is called.  A cached vault, or the empty one when there is
\* no file, is loaded at once.
call(o, kind, key, value) ==
  LET entry == [op[o] EXCEPT !.kind = kind, !.key = key, !.value = value] IN
  /\ op[o].at = "new"
  /\ Cardinality(UnderWay) < MaxConcurrent
  /\ IF cache # None THEN Loads(o, entry, cache)
     ELSE IF file = None THEN Loads(o, entry, EMPTY_VAULT)
     ELSE op' = [op EXCEPT ![o] = [entry EXCEPT !.at = "reading"]] /\ UNCHANGED <<cache, unsure>>
  /\ UNCHANGED <<inode, file, tmp, acked, crashes>>

\* readFile gets the bytes.
reads(o) ==
  /\ op[o].at = "reading"
  /\ op' = [op EXCEPT ![o] = [@ EXCEPT !.at = "read", !.seen = inode[file]]]
  /\ UNCHANGED <<inode, file, tmp, cache, acked, unsure, crashes>>

\* load() continues: decrypt and parse, or throw.
loads(o) ==
  /\ op[o].at = "read"
  /\ IF op[o].seen \in Broken THEN Goes(o, "failed") /\ UNCHANGED <<cache, unsure>>
     ELSE Loads(o, op[o], op[o].seen)
  /\ UNCHANGED <<inode, file, tmp, acked, crashes>>

opens_InPlace(o) ==
  /\ op[o].at = "loaded"
  /\ LET f == IF file # None THEN file ELSE o IN
     /\ inode' = [inode EXCEPT ![f] = Empty]
     /\ file' = f /\ tmp' = f
     /\ op' = [op EXCEPT ![o] = [@ EXCEPT !.at = "opened", !.fd = f]]
  /\ UNCHANGED <<cache, acked, unsure, crashes>>

\* writeFile opens the temporary path, creating or truncating it.
opens(o) ==
  /\ op[o].at = "loaded"
  /\ LET f == IF tmp # None THEN tmp ELSE o IN
     /\ inode' = [inode EXCEPT ![f] = Empty]
     /\ tmp' = f
     /\ op' = [op EXCEPT ![o] = [@ EXCEPT !.at = "opened", !.fd = f]]
  /\ UNCHANGED <<file, cache, acked, unsure, crashes>>

\* It writes from the start of the file; over what another operation wrote
\* meanwhile, the rest of a longer vault remains.
writes(o) ==
  /\ op[o].at = "opened"
  /\ \/ inode' = [inode EXCEPT ![op[o].fd] = op[o].seen]
     \/ inode[op[o].fd] # Empty /\ inode' = [inode EXCEPT ![op[o].fd] = Garbage]
  /\ Goes(o, "written")
  /\ UNCHANGED <<file, tmp, cache, acked, unsure, crashes>>

\* The disk is full: the file holds a part, and persist() throws.
writeFails(o) ==
  /\ op[o].at = "opened"
  /\ inode' = [inode EXCEPT ![op[o].fd] = Garbage]
  /\ Goes(o, "failed")
  /\ UNCHANGED <<file, tmp, cache, acked, unsure, crashes>>

\* chmod and rename of the temporary path, whatever file it names now; without one
\* they throw.
renames(o) ==
  /\ op[o].at = "written"
  /\ IF tmp = None THEN Goes(o, "failed") /\ UNCHANGED <<file, tmp>>
     ELSE file' = tmp /\ tmp' = None /\ Goes(o, "renamed")
  /\ UNCHANGED <<inode, cache, acked, unsure, crashes>>

\* persist() sets the cache; the caller learns that its credential is stored.
returns(o) ==
  /\ op[o].at = "renamed"
  /\ cache' = op[o].seen
  /\ Goes(o, "done")
  /\ acked' = [acked EXCEPT ![op[o].key] = op[o].value]
  /\ unsure' = [unsure EXCEPT ![op[o].key] =
       {op[p].value : p \in {q \in Writing \ {o} : op[q].key = op[o].key}}]
  /\ UNCHANGED <<inode, file, tmp, crashes>>

crash ==
  /\ crashes < MaxCrashes
  /\ crashes' = crashes + 1
  /\ cache' = None
  /\ op' = [o \in Ops |-> IF o \in UnderWay THEN [op[o] EXCEPT !.at = "failed"] ELSE op[o]]
  /\ UNCHANGED <<inode, file, tmp, acked, unsure>>

Step ==
  \/ \E o \in Ops :
       \/ \E kind \in Kinds, key \in Keys, v \in Values : call(o, kind, key, v)
       \/ \E key \in Keys : call(o, "change", key, Unset)
       \/ reads(o) \/ loads(o) \/ opens(o) \/ writes(o) \/ writeFails(o)
       \/ renames(o) \/ returns(o)
  \/ crash

VaultNext ==
  /\ Step
  /\ met' = (met \/ \E o \in Writing' : UnderWay' # {o})
  /\ clashed' = (clashed \/ \E o, p \in AtTmp' : o # p)

VaultSpec == VaultInit /\ [][VaultNext]_vaultVars

-----------------------------------------------------------------------------
(* Properties.                                                             *)

\* The files, the cache and the operations keep their shape.
VaultTypeOK ==
  /\ inode \in [Ops -> Content \cup Broken]
  /\ file \in Ops \cup {None} /\ tmp \in Ops \cup {None}
  /\ cache \in Content \cup {None}
  /\ op \in [Ops -> Op]
  /\ acked \in Content
  /\ unsure \in [Keys -> SUBSET (Values \cup {Unset})]
  /\ met \in BOOLEAN /\ clashed \in BOOLEAN
  /\ crashes \in 0 .. MaxCrashes

Stored == IF file = None THEN EMPTY_VAULT ELSE inode[file]

\* "Atomic write: tmpfile + chmod 0o600 + rename" (vault.ts:90): at every moment, a
\* crash and a full disk included, the vault file is one whole vault, unless two
\* writers were at the temporary file together.
FileIsWhole == ~clashed /\ file # None => inode[file] \notin Broken

\* A credential that a caller was told is stored is in the file, unless a later
\* write of the same key that was not confirmed is, or some call was under way
\* together with a writer.
AckedIsStored == ~met => \A k \in Keys : Stored[k] \in {acked[k]} \cup unsure[k]

\* The process works on what is stored: between calls its cache is the file, unless
\* some call was under way together with a writer.
CacheIsFile == VaultTypeOK /\ (UnderWay = {} /\ cache # None /\ ~met => cache = Stored)

\* A lost, torn or forgotten credential has a cause: two calls that met.
VaultKeepsItsWord == FileIsWhole /\ AckedIsStored /\ CacheIsFile
=============================================================================
