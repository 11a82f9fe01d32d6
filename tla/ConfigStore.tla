------------------------------ MODULE ConfigStore ------------------------------
(***************************************************************************)
(* The configuration file, changed by processes that take its lock for a   *)
(* whole load, change and save, and read by processes that go on with what *)
(* they loaded. A file of version 1 is backed up and migrated by whoever   *)
(* loads it first. A connection whose provider changed has its cache       *)
(* cleared afterwards. A discovery loads, asks the provider without the    *)
(* lock, and merges what it found into the file of that time.              *)
(*                                                                         *)
(* One connection stands for each; a path without a file behaves as a      *)
(* migrated file whose connection has been removed.                        *)
(***************************************************************************)
EXTENDS Naturals

CONSTANTS
  Process,    \* commands and server requests, of one process or of several
  Provider,   \* server, user and secret of a connection: what providerConfigID digests
  Folder,     \* names of a folder with a role
  None        \* no connection, no folder, no collections, no lock holder

ASSUME StoreAssumption ==
  None \notin Process /\ None \notin Provider /\ None \notin Folder

VARIABLES
  file,      \* [version, cfg]: config.json
  backup,    \* "none", "part", "whole": config.json.v1.bak
  holder,    \* the process with the file lock
  pc,        \* [Process -> ...]: the step that comes next
  op,        \* [Process -> Operation]
  seen,      \* [Process -> Config]: what the process loaded last
  start,     \* [Process -> Config]: what its discovery asked the provider with
  cache,     \* entries of the connection: [key, of], the account they came from
  intended,  \* ghost: the changes that were saved, applied one after another
  torn       \* ghost: a process stopped while it wrote the backup

disk  == <<file, backup, torn, cache, intended>>
local == <<pc, op, seen, start>>
vars  == <<disk, holder, local>>

\* A connection's provider, one of its folder roles, the account its calendar
\* collections were listed from, and whether a collection is read only.
Connection == [provider : Provider, folder : Folder \cup {None},
               listed : Provider \cup {None}, readOnly : BOOLEAN]

ASSUME NoneAssumption == None \notin Connection

\* Those a user writes: the collections, if any, are of the account.
Written == {c \in Connection : /\ c.listed \in {c.provider, None}
                               /\ c.readOnly => c.listed # None}

\* The connection, if it is there, and a class of operations that is denied.
Config == [conn : Connection \cup {None}, deny : BOOLEAN]

currentVersion == 2

Operation == {"read", "upsert", "remove", "policy", "discover", "merge"}
Locked    == {"load", "backup", "migrate", "change"}

TypeOK ==
  /\ file \in [version : {1, 2}, cfg : Config] /\ backup \in {"none", "part", "whole"}
  /\ holder \in Process \cup {None}
  /\ pc \in [Process -> Locked \cup {"idle", "lock", "fetch", "network", "clear"}]
  /\ op \in [Process -> Operation]
  /\ seen \in [Process -> Config] /\ start \in [Process -> Config]
  /\ cache \subseteq [key : Provider \X (Provider \cup {None}), of : Provider]
  /\ intended \in Config /\ torn \in BOOLEAN

Empty == [conn |-> None, deny |-> FALSE]

Init ==
  /\ file \in [version : {1}, cfg : [conn : Written, deny : {FALSE}]]
  /\ backup = "none" /\ holder = None /\ torn = FALSE
  /\ pc = [p \in Process |-> "idle"] /\ op = [p \in Process |-> "read"]
  /\ seen = [p \in Process |-> Empty] /\ start = [p \in Process |-> Empty]
  /\ cache = {} /\ intended = file.cfg

-----------------------------------------------------------------------------
Goto(p, s) == pc' = [pc EXCEPT ![p] = s]

\* What is loaded is kept no longer than the process needs it.
End(p) == Goto(p, "idle") /\ op' = [op EXCEPT ![p] = "read"]
          /\ seen' = [seen EXCEPT ![p] = Empty] /\ start' = [start EXCEPT ![p] = Empty]

Begin(p, o) ==
  /\ pc[p] = "idle" /\ o # "merge" /\ Goto(p, "lock") /\ op' = [op EXCEPT ![p] = o]
  /\ UNCHANGED <<disk, holder, seen, start>>

Lock(p) == holder' = p
Unlock(p) == holder' = IF holder = p THEN None ELSE holder

\* filelock.Exclusive.
Acquire(p) ==
  /\ pc[p] = "lock" /\ holder = None /\ Lock(p) /\ Goto(p, "load")
  /\ UNCHANGED <<disk, op, seen, start>>

\* Store.loadUnlocked has its result: Load unlocks, Update changes it.
Loaded(p) ==
  CASE op[p] = "read"     -> Goto(p, "fetch") /\ Unlock(p) /\ UNCHANGED <<op, start>>
    [] op[p] = "discover" -> /\ Goto(p, "network") /\ Unlock(p)
                             /\ start' = [start EXCEPT ![p] = file.cfg] /\ UNCHANGED op
    [] OTHER              -> Goto(p, "change") /\ UNCHANGED <<holder, op, start>>

\* The slip: the backup is written once the migrated file is saved.
NeedsBackupLater == FALSE

NeedsBackup == backup = "none"

\* Store.loadUnlocked up to the save of a migrated file: a backup that is there,
\* whatever is in it, is not written again.
Load(p) ==
  /\ pc[p] = "load" /\ seen' = [seen EXCEPT ![p] = file.cfg]
  /\ IF file.version = 1
     THEN /\ backup' = IF NeedsBackup THEN "part" ELSE backup
          /\ Goto(p, IF NeedsBackup THEN "backup" ELSE "migrate")
          /\ UNCHANGED <<holder, op, start>>
     ELSE Loaded(p) /\ UNCHANGED backup
  /\ UNCHANGED <<file, torn, cache, intended>>

\* backupV1's Write, Sync and Close.
WriteBackup(p) ==
  /\ pc[p] = "backup" /\ Goto(p, "migrate") /\ backup' = "whole"
  /\ UNCHANGED <<file, torn, cache, intended, holder, op, seen, start>>

\* migrateV1: the fields of version 1 that moved are at their new place, with the
\* same account, folders and policy.
Migrated(c) == [version |-> currentVersion, cfg |-> c]

\* saveUnlocked of the migrated configuration: a rename.
Migrate(p) ==
  /\ pc[p] = "migrate" /\ file' = Migrated(seen[p])
  /\ Loaded(p) /\ UNCHANGED <<backup, torn, cache, intended, seen>>

-----------------------------------------------------------------------------
\* saveUnlocked and the end of the transaction: the file is replaced by cfg. What
\* was meant is kept apart.
Save(p, cfg, meant) ==
  /\ file' = [version |-> currentVersion, cfg |-> cfg] /\ intended' = meant /\ Unlock(p)
  /\ UNCHANGED <<backup, torn>>

\* The change fails: nothing is saved.
Refuse(p) == End(p) /\ Unlock(p) /\ UNCHANGED disk

\* providerConfigID: the account and the identities of its collections.
providerConfigID(c) == <<c.provider, c.listed>>

With(cfg, c) == [cfg EXCEPT !.conn = c]

\* UpsertConnection: an unknown connection is added; a known one is replaced if
\* that is asked for, and its cache cleared next if it has another provider.
Upsert(p, c, replace) ==
  LET old == seen[p].conn IN
  /\ pc[p] = "change" /\ op[p] = "upsert"
  /\ IF old # None /\ ~replace
     THEN Refuse(p)
     ELSE /\ Save(p, With(seen[p], c), With(intended, c)) /\ UNCHANGED cache
          /\ IF old # None /\ providerConfigID(old) # providerConfigID(c)
             THEN Goto(p, "clear") /\ UNCHANGED <<op, seen, start>>
             ELSE End(p)

RemoveConnection(p) ==
  /\ pc[p] = "change" /\ op[p] = "remove"
  /\ IF seen[p].conn = None
     THEN Refuse(p)
     ELSE /\ Save(p, With(seen[p], None), With(intended, None))
          /\ Goto(p, "clear") /\ UNCHANGED <<cache, op, seen, start>>

\* updatePolicy: PolicyDeny and PolicyAllow.
UpdatePolicy(p, d) ==
  /\ pc[p] = "change" /\ op[p] = "policy"
  /\ Save(p, [seen[p] EXCEPT !.deny = d], [intended EXCEPT !.deny = d])
  /\ End(p) /\ UNCHANGED cache

\* Store.ClearConnection, in a transaction of the state database.
Clear(p) ==
  /\ pc[p] = "clear" /\ cache' = {} /\ End(p)
  /\ UNCHANGED <<file, backup, torn, intended, holder>>

-----------------------------------------------------------------------------
\* DiscoverConnection has the provider's answer and asks for the lock again.
Discovered(p) ==
  /\ pc[p] = "network"
  /\ IF start[p].conn = None
     THEN End(p)
     ELSE Goto(p, "lock") /\ op' = [op EXCEPT ![p] = "merge"] /\ UNCHANGED <<seen, start>>
  /\ UNCHANGED <<disk, holder>>

\* The slip: what was found is merged into whatever connection has the name.
SameProviderByName(old, latest) == latest # None

SameProvider(old, latest) ==
  latest # None /\ providerConfigID(latest) = providerConfigID(old)

\* The slip: the collections' settings are those from before the discovery.
KeptReadOnlyAsFound(old, latest) == old.readOnly

\* preserveCollectionPolicies.
KeptReadOnly(old, latest) == latest.readOnly

\* mergeFolders: what is configured stays, what was found fills the gap.
MergeFolders(configured, found) == IF configured # None THEN configured ELSE found

\* mergeDiscoveredConnection: what the provider was found to have, and whose it
\* is, with the latest settings; the folders are those of the discovery.
Merge(p, found, listed) ==
  LET old == start[p].conn
      latest == seen[p].conn
      Result(c, folder) == [c EXCEPT !.folder = folder, !.listed = listed,
                              !.readOnly = listed # None /\ KeptReadOnly(old, latest)]
      Meant(c) == [c EXCEPT !.folder = MergeFolders(c.folder, found), !.listed = listed,
                            !.readOnly = c.readOnly /\ listed # None]
  IN
  /\ pc[p] = "change" /\ op[p] = "merge" /\ listed \in {old.provider, None}
  /\ IF SameProvider(old, latest)
     THEN /\ Save(p, With(seen[p], Result(latest, MergeFolders(old.folder, found))),
                     IF intended.conn = None THEN intended
                     ELSE With(intended, Meant(intended.conn)))
          /\ End(p) /\ UNCHANGED cache
     ELSE Refuse(p)

-----------------------------------------------------------------------------
\* The slip: entries are kept under the connection's name only.
CacheKeyByName(c) == CHOOSE k \in Provider \X {None} : TRUE

\* resolvedCacheID.
CacheKey(c) == providerConfigID(c)

\* A read has its answer, from the provider or from the cache, and caches what it
\* got, whatever has become of the configuration it loaded. It stands for each of
\* the cache writes of a connection: search results, messages, attachments, events.
Fetch(p, cached) ==
  LET c == seen[p].conn IN
  /\ pc[p] = "fetch" /\ End(p)
  /\ cache' = IF cached /\ c # None
              THEN cache \cup {[key |-> CacheKey(c), of |-> c.provider]} ELSE cache
  /\ UNCHANGED <<file, backup, torn, intended, holder>>

\* A step fails, or the process stops: its lock is free.
Quit(p) ==
  /\ pc[p] # "idle" /\ End(p) /\ Unlock(p) /\ torn' = (torn \/ pc[p] = "backup")
  /\ UNCHANGED <<file, backup, cache, intended>>

Next ==
  \E p \in Process :
    \/ \E o \in Operation : Begin(p, o)
    \/ Acquire(p) \/ Load(p) \/ WriteBackup(p) \/ Migrate(p)
    \/ \E c \in Written, replace \in BOOLEAN : Upsert(p, c, replace)
    \/ RemoveConnection(p) \/ Clear(p)
    \/ \E d \in BOOLEAN : UpdatePolicy(p, d)
    \/ Discovered(p)
    \/ \E found \in Folder, listed \in Provider \cup {None} : Merge(p, found, listed)
    \/ \E cached \in BOOLEAN : Fetch(p, cached)
    \/ Quit(p)

Spec == Init /\ [][Next]_vars

-----------------------------------------------------------------------------
FolderOf(cfg) == IF cfg.conn = None THEN None ELSE cfg.conn.folder

\* The configuration but for the folder.
Rest(cfg) == IF cfg.conn = None THEN cfg ELSE [cfg EXCEPT !.conn.folder = None]

\* Updates of several processes, the migration among them, and discoveries that
\* return late lose nothing of each other; the folders' roles are set apart.
UpdatesKept == Rest(file.cfg) = Rest(intended)

\* What was discovered in one account is never kept with another.
CollectionsOfProvider ==
  file.cfg.conn # None => file.cfg.conn.listed \in {file.cfg.conn.provider, None}

\* The old file is gone only when its backup is whole, or a process was stopped
\* while it wrote the backup.
MigrationIsBackedUp == file.version # 1 => backup = "whole" \/ torn

\* After interrupted and late clears too, and reads that outlive a change of the
\* connection, what a read may be served is of the account it was asked for.
ServedFromOwnAccount ==
  \A p \in Process : pc[p] = "fetch" /\ seen[p].conn # None =>
    \A e \in cache : e.key = CacheKey(seen[p].conn) => e.of = seen[p].conn.provider

\* "Update serializes a complete load-modify-save transaction": a folder that was
\* configured during a discovery is kept.
FoldersKept == FolderOf(file.cfg) = FolderOf(intended)

\* "Config v1 is migrated atomically to v2 on load and backed up".
BackupIsWhole == file.version # 1 => backup = "whole"
=============================================================================
