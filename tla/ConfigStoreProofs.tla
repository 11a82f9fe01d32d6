--------------------------- MODULE ConfigStoreProofs ---------------------------
(***************************************************************************)
(* What holds of ConfigStore for any processes, providers and folders.     *)
(***************************************************************************)
EXTENDS ConfigStore, TLAPS

\* The file lock is held from the load to the save.
LockIsHeld == \A p \in Process : pc[p] \in Locked <=> holder = p

\* What the holder of the lock has loaded is what the file has.
LoadedIsCurrent ==
  \A p \in Process :
    /\ pc[p] = "change" => seen[p] = file.cfg
    /\ pc[p] \in {"backup", "migrate"} => seen[p] = file.cfg

\* How far the backup has got when the old file is about to go.
BackedUp ==
  /\ MigrationIsBackedUp
  /\ backup = "part" => torn \/ \E p \in Process : pc[p] = "backup"
  /\ \A p \in Process : /\ pc[p] = "migrate" => backup = "whole" \/ torn
                        /\ pc[p] = "change" => file.version # 1

\* The key of an entry begins with the account it came from.
OwnEntries == \A e \in cache : e.key[1] = e.of

\* A merge is that of a connection that was there when the provider was asked.
MergesConnection == \A p \in Process : op[p] = "merge" => start[p].conn # None

IInv == /\ TypeOK /\ LockIsHeld /\ LoadedIsCurrent /\ UpdatesKept
        /\ CollectionsOfProvider /\ BackedUp /\ OwnEntries /\ MergesConnection

\* TypeOK, a part of the state at a time.
StepTypes == /\ holder \in Process \cup {None} /\ op \in [Process -> Operation]
             /\ pc \in [Process -> Locked \cup {"idle", "lock", "fetch", "network", "clear"}]

FileTypes == /\ file \in [version : {1, 2}, cfg : Config] /\ intended \in Config

BackupTypes == backup \in {"none", "part", "whole"} /\ torn \in BOOLEAN

LoadedTypes == seen \in [Process -> Config] /\ start \in [Process -> Config]

EntryTypes == cache \subseteq [key : Provider \X (Provider \cup {None}), of : Provider]

-----------------------------------------------------------------------------
\* The operators.

\* What two configurations that differ in a folder only have in common.
LEMMA SameRest ==
  ASSUME NEW a \in Config, NEW b \in Config
  PROVE  Rest(a) = Rest(b) <=>
           /\ a.deny = b.deny /\ (a.conn = None <=> b.conn = None)
           /\ a.conn # None => /\ a.conn.provider = b.conn.provider
                              /\ a.conn.listed = b.conn.listed
                              /\ a.conn.readOnly = b.conn.readOnly
<1>1. CASE a.conn = None /\ b.conn = None
  BY <1>1 DEF Rest, Config
<1>2. CASE a.conn = None /\ b.conn # None
  <2>1. b.conn \in Connection /\ Rest(b).conn \in [provider : Provider, folder : {None},
          listed : Provider \cup {None}, readOnly : BOOLEAN]
    BY <1>2 DEF Rest, Config, Connection
  <2>2. Rest(b).conn \in Connection
    BY <2>1 DEF Connection
  <2> QED
    BY <1>2, <2>2, NoneAssumption DEF Rest
<1>3. CASE a.conn # None /\ b.conn = None
  <2>1. a.conn \in Connection /\ Rest(a).conn \in [provider : Provider, folder : {None},
          listed : Provider \cup {None}, readOnly : BOOLEAN]
    BY <1>3 DEF Rest, Config, Connection
  <2>2. Rest(a).conn \in Connection
    BY <2>1 DEF Connection
  <2> QED
    BY <1>3, <2>2, NoneAssumption DEF Rest
<1>4. CASE a.conn # None /\ b.conn # None
  <2>1. a.conn \in Connection /\ b.conn \in Connection
    BY <1>4 DEF Config
  <2>2. ASSUME NEW x \in {a, b}
        PROVE  Rest(x) = [conn |-> [provider |-> x.conn.provider, folder |-> None,
                                    listed |-> x.conn.listed,
                                    readOnly |-> x.conn.readOnly], deny |-> x.deny]
    BY <1>4, <2>1 DEF Rest, Config, Connection
  <2> QED
    BY <1>4, <2>2
<1> QED
  BY <1>1, <1>2, <1>3, <1>4

-----------------------------------------------------------------------------
\* Configurations and changed ones.
LEMMA ConfigTypes ==
  /\ Empty \in Config
  /\ \A cfg \in Config : /\ cfg.conn \in Connection \cup {None} /\ cfg.deny \in BOOLEAN
                          /\ \A c \in Connection \cup {None} : With(cfg, c) \in Config
                          /\ \A d \in BOOLEAN : [cfg EXCEPT !.deny = d] \in Config
  /\ Written \subseteq Connection
BY DEF Empty, Config, With, Written

\* A connection is its fields.
LEMMA ItsFields ==
  ASSUME NEW c \in Connection
  PROVE  c = [provider |-> c.provider, folder |-> c.folder, listed |-> c.listed,
              readOnly |-> c.readOnly]
BY DEF Connection

\* What a merge makes of a connection.
Changed(c, f, l, r) == [c EXCEPT !.folder = f, !.listed = l, !.readOnly = r]

\* It has the fields that it was given, and its own.
LEMMA MergedType ==
  ASSUME NEW c \in Connection, NEW f \in Folder \cup {None},
         NEW l \in Provider \cup {None}, NEW r \in BOOLEAN
  PROVE  Changed(c, f, l, r) =
           [provider |-> c.provider, folder |-> f, listed |-> l, readOnly |-> r]
<1> DEFINE m == Changed(c, f, l, r)
<1>1. m \in Connection
  BY DEF Connection, Changed
<1>2. m.provider = c.provider /\ m.folder = f /\ m.listed = l /\ m.readOnly = r
  BY DEF Connection, Changed
<1>3. m = [provider |-> m.provider, folder |-> m.folder, listed |-> m.listed,
           readOnly |-> m.readOnly]
  <2> HIDE DEF m
  <2> QED
    BY <1>1, ItsFields
<1> QED
  BY <1>1, <1>2, <1>3

\* What the file becomes by a merge, and what was meant: they differ in the folder.
LEMMA MergeResult ==
  ASSUME NEW p \in Process, NEW found \in Folder, NEW listed \in Provider \cup {None},
         TypeOK, MergesConnection, Merge(p, found, listed),
         SameProvider(start[p].conn, seen[p].conn)
  PROVE  /\ seen[p].conn \in Connection
         /\ \E f \in Folder \cup {None}, r \in BOOLEAN :
              /\ r = (listed # None /\ seen[p].conn.readOnly)
              /\ file' = [version |-> 2, cfg |-> With(seen[p],
                   [provider |-> seen[p].conn.provider, folder |-> f,
                    listed |-> listed, readOnly |-> r])]
         /\ IF intended.conn = None THEN intended' = intended
            ELSE \E f \in Folder \cup {None}, r \in BOOLEAN :
              /\ r = (intended.conn.readOnly /\ listed # None)
              /\ intended' = With(intended,
                   [provider |-> intended.conn.provider, folder |-> f,
                    listed |-> listed, readOnly |-> r])
<1>1. start[p].conn \in Connection /\ seen[p].conn \in Connection
  BY ConfigTypes DEF TypeOK, MergesConnection, Merge, SameProvider
<1>2. \E f \in Folder \cup {None}, r \in BOOLEAN :
        /\ r = (listed # None /\ seen[p].conn.readOnly)
        /\ file' = [version |-> 2, cfg |-> With(seen[p],
             [provider |-> seen[p].conn.provider, folder |-> f,
              listed |-> listed, readOnly |-> r])]
  <2> DEFINE f == MergeFolders(start[p].conn.folder, found)
             r == listed # None /\ seen[p].conn.readOnly
  <2>1. f \in Folder \cup {None} /\ r \in BOOLEAN
    BY <1>1 DEF MergeFolders, Connection
  <2>2. file' = [version |-> 2, cfg |-> With(seen[p],
          [seen[p].conn EXCEPT !.folder = f, !.listed = listed, !.readOnly = r])]
    BY DEF Merge, Save, currentVersion, KeptReadOnly
  <2>3. [seen[p].conn EXCEPT !.folder = f, !.listed = listed, !.readOnly = r] =
          [provider |-> seen[p].conn.provider, folder |-> f,
           listed |-> listed, readOnly |-> r]
    <3>1. PICK c \in Connection, g \in Folder \cup {None}, b \in BOOLEAN :
            c = seen[p].conn /\ g = f /\ b = r
      BY <1>1, <2>1
    <3>2. Changed(c, g, listed, b) =
            [provider |-> c.provider, folder |-> g, listed |-> listed, readOnly |-> b]
      BY MergedType
    <3> HIDE DEF f, r
    <3> QED
      BY <3>1, <3>2 DEF Changed
  <2> QED
    BY <2>1, <2>2, <2>3
<1>3. CASE intended.conn = None
  BY <1>1, <1>2, <1>3 DEF Merge, Save
<1>4. CASE intended.conn # None
  <2> DEFINE f == MergeFolders(intended.conn.folder, found)
             r == intended.conn.readOnly /\ listed # None
  <2>1. intended.conn \in Connection
    BY <1>4, ConfigTypes DEF TypeOK
  <2>2. f \in Folder \cup {None} /\ r \in BOOLEAN
    BY <2>1 DEF MergeFolders, Connection
  <2>3. intended' = With(intended,
          [intended.conn EXCEPT !.folder = f, !.listed = listed, !.readOnly = r])
    BY <1>4 DEF Merge, Save
  <2>4. [intended.conn EXCEPT !.folder = f, !.listed = listed, !.readOnly = r] =
          [provider |-> intended.conn.provider, folder |-> f,
           listed |-> listed, readOnly |-> r]
    <3>1. PICK c \in Connection, g \in Folder \cup {None}, b \in BOOLEAN :
            c = intended.conn /\ g = f /\ b = r
      BY <2>1, <2>2
    <3>2. Changed(c, g, listed, b) =
            [provider |-> c.provider, folder |-> g, listed |-> listed, readOnly |-> b]
      BY MergedType
    <3> HIDE DEF f, r
    <3> QED
      BY <3>1, <3>2 DEF Changed
  <2>5. \E x \in Folder \cup {None}, y \in BOOLEAN :
          /\ y = (intended.conn.readOnly /\ listed # None)
          /\ intended' = With(intended, [provider |-> intended.conn.provider,
               folder |-> x, listed |-> listed, readOnly |-> y])
    BY <2>2, <2>3, <2>4
  <2> QED
    BY <1>1, <1>2, <1>4, <2>5
<1> QED
  BY <1>3, <1>4

\* A change that is saved, or refused, goes on from the migrated file.
LEMMA BackupStays ==
  ASSUME TypeOK, BackedUp, NEW p \in Process, pc[p] = "change",
         UNCHANGED <<backup, torn>>, file' = file \/ file'.version = 2,
         NEW s \in {"idle", "clear"}, pc' = [pc EXCEPT ![p] = s]
  PROVE  BackedUp'
<1>1. \A q \in Process : pc'[q] = IF q = p THEN s ELSE pc[q]
  BY DEF TypeOK
<1>2. \A q \in Process : /\ pc'[q] = "migrate" => pc[q] = "migrate"
                         /\ pc'[q] = "change" => pc[q] = "change"
                         /\ pc[q] = "backup" => pc'[q] = "backup"
  BY <1>1
<1> QED
  BY <1>2 DEF BackedUp, MigrationIsBackedUp

-----------------------------------------------------------------------------
\* Nobody loads to change, or saves, without the lock.
LEMMA LockNext ==
  ASSUME TypeOK, LockIsHeld, [Next]_vars PROVE LockIsHeld'
<1> USE StoreAssumption
<1>1. CASE UNCHANGED vars
  BY <1>1 DEF vars, disk, local, TypeOK, LockIsHeld, Locked
<1>2. ASSUME NEW p \in Process, NEW o \in Operation, Begin(p, o)
      PROVE  LockIsHeld'
  BY <1>2 DEF Begin, Goto, disk, TypeOK, LockIsHeld, Locked
<1>3. ASSUME NEW p \in Process, Acquire(p) PROVE LockIsHeld'
  BY <1>3 DEF Acquire, Lock, Goto, disk, TypeOK, LockIsHeld, Locked
<1>4. ASSUME NEW p \in Process, Load(p) PROVE LockIsHeld'
  BY <1>4 DEF Load, Loaded, NeedsBackup, Unlock, Goto, disk, TypeOK,
     LockIsHeld, Locked
<1>5. ASSUME NEW p \in Process, WriteBackup(p) PROVE LockIsHeld'
  BY <1>5 DEF WriteBackup, Goto, disk, TypeOK, LockIsHeld, Locked
<1>6. ASSUME NEW p \in Process, Migrate(p) PROVE LockIsHeld'
  BY <1>6 DEF Migrate, Loaded, Unlock, Migrated, currentVersion, Goto, disk,
     TypeOK, LockIsHeld, Locked
<1>7. ASSUME NEW p \in Process, NEW c \in Written, NEW replace \in BOOLEAN, Upsert(p, c, replace)
      PROVE  LockIsHeld'
  BY <1>7 DEF Upsert, Refuse, End, Save, With, Unlock, currentVersion, Goto,
     disk, TypeOK, LockIsHeld, Locked
<1>8. ASSUME NEW p \in Process, RemoveConnection(p) PROVE LockIsHeld'
  BY <1>8 DEF RemoveConnection, Refuse, End, Save, With, Unlock,
     currentVersion, Goto, disk, TypeOK, LockIsHeld, Locked
<1>9. ASSUME NEW p \in Process, Clear(p) PROVE LockIsHeld'
  BY <1>9 DEF Clear, End, Goto, disk, TypeOK, LockIsHeld, Locked
<1>10. ASSUME NEW p \in Process, NEW d \in BOOLEAN, UpdatePolicy(p, d)
      PROVE  LockIsHeld'
  BY <1>10 DEF UpdatePolicy, End, Save, Unlock, currentVersion, Goto, disk,
     TypeOK, LockIsHeld, Locked
<1>11. ASSUME NEW p \in Process, Discovered(p) PROVE LockIsHeld'
  BY <1>11 DEF Discovered, End, Goto, disk, TypeOK, LockIsHeld, Locked
<1>12. ASSUME NEW p \in Process, NEW found \in Folder,
             NEW listed \in Provider \cup {None}, Merge(p, found, listed)
      PROVE  LockIsHeld'
  BY <1>12 DEF Merge, Refuse, End, Save, With, Unlock, currentVersion, Goto,
     disk, TypeOK, LockIsHeld, Locked
<1>13. ASSUME NEW p \in Process, NEW cached \in BOOLEAN, Fetch(p, cached)
      PROVE  LockIsHeld'
  BY <1>13 DEF Fetch, End, Goto, disk, TypeOK, LockIsHeld, Locked
<1>14. ASSUME NEW p \in Process, Quit(p) PROVE LockIsHeld'
  BY <1>14 DEF Quit, End, Unlock, Goto, disk, TypeOK, LockIsHeld, Locked
<1> QED
  BY <1>1, <1>2, <1>3, <1>4, <1>5, <1>6, <1>7, <1>8, <1>9, <1>10,
     <1>11, <1>12, <1>13, <1>14 DEF Next

\* Only the holder of the lock writes the file.
LEMMA LoadedNext ==
  ASSUME TypeOK, LockIsHeld, LoadedIsCurrent, [Next]_vars PROVE LoadedIsCurrent'
<1>1. CASE UNCHANGED vars
  BY <1>1 DEF vars, disk, local, TypeOK, LockIsHeld, Locked, LoadedIsCurrent
<1>2. ASSUME NEW p \in Process, NEW o \in Operation, Begin(p, o)
      PROVE  LoadedIsCurrent'
  BY <1>2 DEF Begin, Goto, disk, TypeOK, LockIsHeld, Locked, LoadedIsCurrent
<1>3. ASSUME NEW p \in Process, Acquire(p) PROVE LoadedIsCurrent'
  BY <1>3 DEF Acquire, Lock, Goto, disk, TypeOK, LockIsHeld, Locked,
     LoadedIsCurrent
<1>4. ASSUME NEW p \in Process, Load(p) PROVE LoadedIsCurrent'
  BY <1>4 DEF Load, Loaded, NeedsBackup, Unlock, Goto, disk, TypeOK,
     LockIsHeld, Locked, LoadedIsCurrent
<1>5. ASSUME NEW p \in Process, WriteBackup(p) PROVE LoadedIsCurrent'
  BY <1>5 DEF WriteBackup, Goto, disk, TypeOK, LockIsHeld, Locked,
     LoadedIsCurrent
<1>6. ASSUME NEW p \in Process, Migrate(p) PROVE LoadedIsCurrent'
  BY <1>6 DEF Migrate, Loaded, Unlock, Migrated, currentVersion, Goto, disk,
     TypeOK, LockIsHeld, Locked, LoadedIsCurrent
<1>7. ASSUME NEW p \in Process, NEW c \in Written, NEW replace \in BOOLEAN, Upsert(p, c, replace)
      PROVE  LoadedIsCurrent'
  BY <1>7 DEF Upsert, Refuse, End, Save, With, Unlock, currentVersion, Goto,
     disk, TypeOK, LockIsHeld, Locked, LoadedIsCurrent
<1>8. ASSUME NEW p \in Process, RemoveConnection(p) PROVE LoadedIsCurrent'
  BY <1>8 DEF RemoveConnection, Refuse, End, Save, With, Unlock,
     currentVersion, Goto, disk, TypeOK, LockIsHeld, Locked, LoadedIsCurrent
<1>9. ASSUME NEW p \in Process, Clear(p) PROVE LoadedIsCurrent'
  BY <1>9 DEF Clear, End, Goto, disk, TypeOK, LockIsHeld, Locked,
     LoadedIsCurrent
<1>10. ASSUME NEW p \in Process, NEW d \in BOOLEAN, UpdatePolicy(p, d)
      PROVE  LoadedIsCurrent'
  BY <1>10 DEF UpdatePolicy, End, Save, Unlock, currentVersion, Goto, disk,
     TypeOK, LockIsHeld, Locked, LoadedIsCurrent
<1>11. ASSUME NEW p \in Process, Discovered(p) PROVE LoadedIsCurrent'
  BY <1>11 DEF Discovered, End, Goto, disk, TypeOK, LockIsHeld, Locked,
     LoadedIsCurrent
<1>12. ASSUME NEW p \in Process, NEW found \in Folder,
             NEW listed \in Provider \cup {None}, Merge(p, found, listed)
      PROVE  LoadedIsCurrent'
  BY <1>12 DEF Merge, Refuse, End, Save, With, Unlock, currentVersion, Goto,
     disk, TypeOK, LockIsHeld, Locked, LoadedIsCurrent
<1>13. ASSUME NEW p \in Process, NEW cached \in BOOLEAN, Fetch(p, cached)
      PROVE  LoadedIsCurrent'
  BY <1>13 DEF Fetch, End, Goto, disk, TypeOK, LockIsHeld, Locked,
     LoadedIsCurrent
<1>14. ASSUME NEW p \in Process, Quit(p) PROVE LoadedIsCurrent'
  BY <1>14 DEF Quit, End, Unlock, Goto, disk, TypeOK, LockIsHeld, Locked,
     LoadedIsCurrent
<1> QED
  BY <1>1, <1>2, <1>3, <1>4, <1>5, <1>6, <1>7, <1>8, <1>9, <1>10,
     <1>11, <1>12, <1>13, <1>14 DEF Next

\* The old file is replaced after its backup is written.
LEMMA BackupNext ==
  ASSUME TypeOK, LockIsHeld, BackedUp, [Next]_vars PROVE BackedUp'
<1>1. CASE UNCHANGED vars
  BY <1>1 DEF vars, disk, local, TypeOK, LockIsHeld, Locked, BackedUp,
     MigrationIsBackedUp
<1>2. ASSUME NEW p \in Process, NEW o \in Operation, Begin(p, o)
      PROVE  BackedUp'
  BY <1>2 DEF Begin, Goto, disk, TypeOK, LockIsHeld, Locked, BackedUp,
     MigrationIsBackedUp
<1>3. ASSUME NEW p \in Process, Acquire(p) PROVE BackedUp'
  BY <1>3 DEF Acquire, Lock, Goto, disk, TypeOK, LockIsHeld, Locked, BackedUp,
     MigrationIsBackedUp
<1>4. ASSUME NEW p \in Process, Load(p) PROVE BackedUp'
  BY <1>4 DEF Load, Loaded, NeedsBackup, Unlock, Goto, disk, TypeOK,
     LockIsHeld, Locked, BackedUp, MigrationIsBackedUp
<1>5. ASSUME NEW p \in Process, WriteBackup(p) PROVE BackedUp'
  BY <1>5 DEF WriteBackup, Goto, disk, TypeOK, LockIsHeld, Locked, BackedUp,
     MigrationIsBackedUp
<1>6. ASSUME NEW p \in Process, Migrate(p) PROVE BackedUp'
  <2>1. /\ pc[p] = "migrate" /\ file'.version = 2 /\ UNCHANGED <<backup, torn>>
    BY <1>6 DEF Migrate, Migrated, currentVersion
  <2>2. backup = "whole" \/ torn
    BY <2>1 DEF BackedUp
  <2>3. PICK s \in {"fetch", "network", "change"} : pc' = [pc EXCEPT ![p] = s]
    BY <1>6 DEF Migrate, Loaded, Goto
  <2>4. \A q \in Process : pc[q] = "backup" => pc'[q] = "backup"
    BY <2>1, <2>3 DEF TypeOK
  <2> QED
    BY <2>1, <2>2, <2>4 DEF BackedUp, MigrationIsBackedUp
<1>7. ASSUME NEW p \in Process, NEW c \in Written, NEW replace \in BOOLEAN, Upsert(p, c, replace)
      PROVE  BackedUp'
  <2>1. /\ pc[p] = "change" /\ UNCHANGED <<backup, torn>>
        /\ file' = file \/ file'.version = 2
    BY <1>7 DEF Upsert, Refuse, Save, currentVersion, disk
  <2>2. pc' = [pc EXCEPT ![p] = "idle"] \/ pc' = [pc EXCEPT ![p] = "clear"]
    BY <1>7 DEF Upsert, Refuse, End, Goto
  <2> QED
    BY <2>1, <2>2, BackupStays
<1>8. ASSUME NEW p \in Process, RemoveConnection(p) PROVE BackedUp'
  <2>1. /\ pc[p] = "change" /\ UNCHANGED <<backup, torn>>
        /\ file' = file \/ file'.version = 2
    BY <1>8 DEF RemoveConnection, Refuse, Save, currentVersion, disk
  <2>2. pc' = [pc EXCEPT ![p] = "idle"] \/ pc' = [pc EXCEPT ![p] = "clear"]
    BY <1>8 DEF RemoveConnection, Refuse, End, Goto
  <2> QED
    BY <2>1, <2>2, BackupStays
<1>9. ASSUME NEW p \in Process, Clear(p) PROVE BackedUp'
  BY <1>9 DEF Clear, End, Goto, disk, TypeOK, LockIsHeld, Locked, BackedUp,
     MigrationIsBackedUp
<1>10. ASSUME NEW p \in Process, NEW d \in BOOLEAN, UpdatePolicy(p, d)
      PROVE  BackedUp'
  <2>1. /\ pc[p] = "change" /\ UNCHANGED <<backup, torn>>
        /\ file' = file \/ file'.version = 2
    BY <1>10 DEF UpdatePolicy, Save, currentVersion, disk
  <2>2. pc' = [pc EXCEPT ![p] = "idle"] \/ pc' = [pc EXCEPT ![p] = "clear"]
    BY <1>10 DEF UpdatePolicy, End, Goto
  <2> QED
    BY <2>1, <2>2, BackupStays
<1>11. ASSUME NEW p \in Process, Discovered(p) PROVE BackedUp'
  BY <1>11 DEF Discovered, End, Goto, disk, TypeOK, LockIsHeld, Locked,
     BackedUp, MigrationIsBackedUp
<1>12. ASSUME NEW p \in Process, NEW found \in Folder,
             NEW listed \in Provider \cup {None}, Merge(p, found, listed)
      PROVE  BackedUp'
  <2>1. /\ pc[p] = "change" /\ UNCHANGED <<backup, torn>>
        /\ file' = file \/ file'.version = 2
    BY <1>12 DEF Merge, Refuse, Save, currentVersion, disk
  <2>2. pc' = [pc EXCEPT ![p] = "idle"] \/ pc' = [pc EXCEPT ![p] = "clear"]
    BY <1>12 DEF Merge, Refuse, End, Goto
  <2> QED
    BY <2>1, <2>2, BackupStays
<1>13. ASSUME NEW p \in Process, NEW cached \in BOOLEAN, Fetch(p, cached)
      PROVE  BackedUp'
  BY <1>13 DEF Fetch, End, Goto, disk, TypeOK, LockIsHeld, Locked, BackedUp,
     MigrationIsBackedUp
<1>14. ASSUME NEW p \in Process, Quit(p) PROVE BackedUp'
  BY <1>14 DEF Quit, End, Unlock, Goto, disk, TypeOK, LockIsHeld, Locked,
     BackedUp, MigrationIsBackedUp
<1> QED
  BY <1>1, <1>2, <1>3, <1>4, <1>5, <1>6, <1>7, <1>8, <1>9, <1>10,
     <1>11, <1>12, <1>13, <1>14 DEF Next

\* Every save is a change of what the file had.
LEMMA KeptNext ==
  ASSUME TypeOK, LoadedIsCurrent, MergesConnection, UpdatesKept, [Next]_vars PROVE UpdatesKept'
<1>1. CASE UNCHANGED vars
  BY <1>1 DEF vars, disk, local, LoadedIsCurrent, UpdatesKept
<1>2. ASSUME NEW p \in Process, NEW o \in Operation, Begin(p, o)
      PROVE  UpdatesKept'
  BY <1>2 DEF Begin, Goto, disk, LoadedIsCurrent, UpdatesKept
<1>3. ASSUME NEW p \in Process, Acquire(p) PROVE UpdatesKept'
  BY <1>3 DEF Acquire, Lock, Goto, disk, LoadedIsCurrent, UpdatesKept
<1>4. ASSUME NEW p \in Process, Load(p) PROVE UpdatesKept'
  BY <1>4 DEF Load, Loaded, NeedsBackup, Unlock, Goto, disk, LoadedIsCurrent,
     UpdatesKept
<1>5. ASSUME NEW p \in Process, WriteBackup(p) PROVE UpdatesKept'
  BY <1>5 DEF WriteBackup, Goto, disk, LoadedIsCurrent, UpdatesKept
<1>6. ASSUME NEW p \in Process, Migrate(p) PROVE UpdatesKept'
  BY <1>6 DEF Migrate, Loaded, Unlock, Migrated, currentVersion, Goto, disk,
     LoadedIsCurrent, UpdatesKept
<1>7. ASSUME NEW p \in Process, NEW c \in Written, NEW replace \in BOOLEAN, Upsert(p, c, replace)
      PROVE  UpdatesKept'
  <2>1. CASE UNCHANGED <<file, intended>>
    BY <2>1 DEF UpdatesKept
  <2>2. CASE Save(p, With(seen[p], c), With(intended, c))
    <3>1. /\ file'.cfg = With(seen[p], c) /\ intended' = With(intended, c)
          /\ seen[p] = file.cfg /\ file.cfg \in Config /\ intended \in Config
      BY <1>7, <2>2 DEF Upsert, Save, LoadedIsCurrent, TypeOK
    <3>2. seen[p].deny = intended.deny
      BY <3>1, SameRest DEF UpdatesKept
    <3>3. file'.cfg \in Config /\ intended' \in Config
      BY <3>1, ConfigTypes
    <3>4. /\ file'.cfg.conn = c /\ file'.cfg.deny = intended.deny
          /\ intended'.conn = c /\ intended'.deny = intended.deny
      BY <3>1, <3>2 DEF With, Config
    <3> QED
      BY <3>3, <3>4, SameRest DEF UpdatesKept
  <2> QED
    BY <1>7, <2>1, <2>2 DEF Upsert, Refuse, disk
<1>8. ASSUME NEW p \in Process, RemoveConnection(p) PROVE UpdatesKept'
  <2>1. CASE UNCHANGED <<file, intended>>
    BY <2>1 DEF UpdatesKept
  <2>2. CASE Save(p, With(seen[p], None), With(intended, None))
    <3>1. /\ file'.cfg = With(seen[p], None) /\ intended' = With(intended, None)
          /\ seen[p] = file.cfg
      BY <1>8, <2>2 DEF RemoveConnection, Save, LoadedIsCurrent
    <3>2. seen[p].deny = intended.deny
      BY <3>1, SameRest DEF TypeOK, UpdatesKept
    <3> QED
      BY <3>1, <3>2 DEF With, UpdatesKept, Rest, TypeOK, Config
  <2> QED
    BY <1>8, <2>1, <2>2 DEF RemoveConnection, Refuse, disk
<1>9. ASSUME NEW p \in Process, Clear(p) PROVE UpdatesKept'
  BY <1>9 DEF Clear, End, Goto, disk, LoadedIsCurrent, UpdatesKept
<1>10. ASSUME NEW p \in Process, NEW d \in BOOLEAN, UpdatePolicy(p, d)
      PROVE  UpdatesKept'
  <2>1. /\ file'.cfg = [file.cfg EXCEPT !.deny = d]
        /\ intended' = [intended EXCEPT !.deny = d]
    BY <1>10 DEF UpdatePolicy, Save, LoadedIsCurrent
  <2>2. file'.cfg \in Config /\ intended' \in Config
    BY <2>1 DEF TypeOK, Config
  <2>3. file'.cfg.conn = file.cfg.conn /\ file'.cfg.deny = d
        /\ intended'.conn = intended.conn /\ intended'.deny = d
    BY <2>1 DEF TypeOK, Config
  <2>4. file.cfg \in Config /\ intended \in Config
    BY DEF TypeOK
  <2> QED
    BY <2>2, <2>3, <2>4, SameRest DEF UpdatesKept
<1>11. ASSUME NEW p \in Process, Discovered(p) PROVE UpdatesKept'
  BY <1>11 DEF Discovered, End, Goto, disk, LoadedIsCurrent, UpdatesKept
<1>12. ASSUME NEW p \in Process, NEW found \in Folder,
             NEW listed \in Provider \cup {None}, Merge(p, found, listed)
      PROVE  UpdatesKept'
  <2>1. CASE UNCHANGED <<file, intended>>
    BY <2>1 DEF UpdatesKept
  <2>2. CASE SameProvider(start[p].conn, seen[p].conn)
    <3>1. /\ seen[p] = file.cfg /\ file.cfg \in Config /\ intended \in Config
          /\ seen[p].conn # None
      BY <1>12, <2>2 DEF Merge, LoadedIsCurrent, TypeOK, SameProvider
    <3>2. /\ intended.conn \in Connection /\ seen[p].deny = intended.deny
          /\ seen[p].conn.readOnly = intended.conn.readOnly
          /\ seen[p].conn.provider = intended.conn.provider /\ intended.conn # None
      BY <3>1, SameRest, ConfigTypes DEF UpdatesKept
    <3>3. PICK f \in Folder \cup {None}, r \in BOOLEAN :
            /\ r = (listed # None /\ seen[p].conn.readOnly)
            /\ file' = [version |-> 2, cfg |-> With(seen[p],
                 [provider |-> seen[p].conn.provider, folder |-> f,
                  listed |-> listed, readOnly |-> r])]
      BY <1>12, <2>2, MergeResult
    <3>4. PICK g \in Folder \cup {None}, b \in BOOLEAN :
            /\ b = (intended.conn.readOnly /\ listed # None)
            /\ intended' = With(intended, [provider |-> intended.conn.provider,
                 folder |-> g, listed |-> listed, readOnly |-> b])
      BY <1>12, <2>2, <3>2, MergeResult
    <3>5. r = b
      BY <3>2, <3>3, <3>4
    <3> DEFINE x == [provider |-> intended.conn.provider, folder |-> f,
                     listed |-> listed, readOnly |-> r]
               y == [provider |-> intended.conn.provider, folder |-> g,
                     listed |-> listed, readOnly |-> r]
    <3>6. x \in Connection /\ y \in Connection
      BY <3>2 DEF Connection
    <3>7. x # None /\ y # None
      BY <3>6, NoneAssumption
    <3>8. file'.cfg = With(seen[p], x) /\ intended' = With(intended, y)
      BY <3>2, <3>3, <3>4, <3>5
    <3>9. /\ x.provider = y.provider /\ x.listed = y.listed /\ x.readOnly = y.readOnly
      OBVIOUS
    <3> HIDE DEF x, y
    <3>10. file'.cfg \in Config /\ intended' \in Config
      BY <3>1, <3>6, <3>8, ConfigTypes
    <3>11. /\ file'.cfg.conn = x /\ file'.cfg.deny = intended.deny
           /\ intended'.conn = y /\ intended'.deny = intended.deny
      BY <3>1, <3>2, <3>8 DEF With, Config
    <3> QED
      BY <3>7, <3>9, <3>10, <3>11, SameRest DEF UpdatesKept
  <2> QED
    BY <1>12, <2>1, <2>2 DEF Merge, Refuse, disk
<1>13. ASSUME NEW p \in Process, NEW cached \in BOOLEAN, Fetch(p, cached)
      PROVE  UpdatesKept'
  BY <1>13 DEF Fetch, End, Goto, disk, LoadedIsCurrent, UpdatesKept
<1>14. ASSUME NEW p \in Process, Quit(p) PROVE UpdatesKept'
  BY <1>14 DEF Quit, End, Unlock, Goto, disk, LoadedIsCurrent, UpdatesKept
<1> QED
  BY <1>1, <1>2, <1>3, <1>4, <1>5, <1>6, <1>7, <1>8, <1>9, <1>10,
     <1>11, <1>12, <1>13, <1>14 DEF Next

\* A discovery is merged into a connection of the same account only.
LEMMA CollectionsNext ==
  ASSUME TypeOK, LoadedIsCurrent, MergesConnection,
         CollectionsOfProvider, [Next]_vars PROVE CollectionsOfProvider'
<1>1. CASE UNCHANGED vars
  BY <1>1 DEF vars, disk, local, LoadedIsCurrent, CollectionsOfProvider
<1>2. ASSUME NEW p \in Process, NEW o \in Operation, Begin(p, o)
      PROVE  CollectionsOfProvider'
  BY <1>2 DEF Begin, Goto, disk, LoadedIsCurrent, CollectionsOfProvider
<1>3. ASSUME NEW p \in Process, Acquire(p) PROVE CollectionsOfProvider'
  BY <1>3 DEF Acquire, Lock, Goto, disk, LoadedIsCurrent,
     CollectionsOfProvider
<1>4. ASSUME NEW p \in Process, Load(p) PROVE CollectionsOfProvider'
  BY <1>4 DEF Load, Loaded, NeedsBackup, Unlock, Goto, disk, LoadedIsCurrent,
     CollectionsOfProvider
<1>5. ASSUME NEW p \in Process, WriteBackup(p) PROVE CollectionsOfProvider'
  BY <1>5 DEF WriteBackup, Goto, disk, LoadedIsCurrent, CollectionsOfProvider
<1>6. ASSUME NEW p \in Process, Migrate(p) PROVE CollectionsOfProvider'
  BY <1>6 DEF Migrate, Loaded, Unlock, Migrated, currentVersion, Goto, disk,
     LoadedIsCurrent, CollectionsOfProvider
<1>7. ASSUME NEW p \in Process, NEW c \in Written, NEW replace \in BOOLEAN, Upsert(p, c, replace)
      PROVE  CollectionsOfProvider'
  <2>1. CASE UNCHANGED file
    BY <2>1 DEF CollectionsOfProvider
  <2>2. CASE Save(p, With(seen[p], c), With(intended, c))
    <3>1. file'.cfg.conn = c
      BY <1>7, <2>2 DEF Upsert, Save, With, TypeOK, Config
    <3> QED
      BY <3>1 DEF CollectionsOfProvider, Written
  <2> QED
    BY <1>7, <2>1, <2>2 DEF Upsert, Refuse, disk
<1>8. ASSUME NEW p \in Process, RemoveConnection(p) PROVE CollectionsOfProvider'
  <2>1. CASE UNCHANGED file
    BY <2>1 DEF CollectionsOfProvider
  <2>2. CASE Save(p, With(seen[p], None), With(intended, None))
    <3>1. file'.cfg.conn = None
      BY <1>8, <2>2 DEF RemoveConnection, Save, With, TypeOK, Config
    <3> QED
      BY <3>1 DEF CollectionsOfProvider
  <2> QED
    BY <1>8, <2>1, <2>2 DEF RemoveConnection, Refuse, disk
<1>9. ASSUME NEW p \in Process, Clear(p) PROVE CollectionsOfProvider'
  BY <1>9 DEF Clear, End, Goto, disk, LoadedIsCurrent, CollectionsOfProvider
<1>10. ASSUME NEW p \in Process, NEW d \in BOOLEAN, UpdatePolicy(p, d)
      PROVE  CollectionsOfProvider'
  <2>1. file'.cfg = [file.cfg EXCEPT !.deny = d]
    BY <1>10 DEF UpdatePolicy, Save, LoadedIsCurrent
  <2> QED
    BY <2>1 DEF CollectionsOfProvider, TypeOK, Config
<1>11. ASSUME NEW p \in Process, Discovered(p) PROVE CollectionsOfProvider'
  BY <1>11 DEF Discovered, End, Goto, disk, LoadedIsCurrent,
     CollectionsOfProvider
<1>12. ASSUME NEW p \in Process, NEW found \in Folder,
             NEW listed \in Provider \cup {None}, Merge(p, found, listed)
      PROVE  CollectionsOfProvider'
  <2>1. CASE UNCHANGED file
    BY <2>1 DEF CollectionsOfProvider
  <2>2. CASE SameProvider(start[p].conn, seen[p].conn)
    <3>1. PICK f \in Folder \cup {None}, r \in BOOLEAN :
            file' = [version |-> 2, cfg |-> With(seen[p],
              [provider |-> seen[p].conn.provider, folder |-> f,
               listed |-> listed, readOnly |-> r])]
      BY <1>12, <2>2, MergeResult
    <3>2. /\ file'.cfg.conn.listed = listed
          /\ file'.cfg.conn.provider = seen[p].conn.provider
      BY <3>1 DEF With, TypeOK, Config
    <3>3. /\ seen[p].conn.provider = start[p].conn.provider
          /\ listed \in {start[p].conn.provider, None}
      BY <1>12, <2>2 DEF Merge, SameProvider, providerConfigID
    <3> QED
      BY <3>2, <3>3 DEF CollectionsOfProvider
  <2> QED
    BY <1>12, <2>1, <2>2 DEF Merge, Refuse, disk
<1>13. ASSUME NEW p \in Process, NEW cached \in BOOLEAN, Fetch(p, cached)
      PROVE  CollectionsOfProvider'
  BY <1>13 DEF Fetch, End, Goto, disk, LoadedIsCurrent, CollectionsOfProvider
<1>14. ASSUME NEW p \in Process, Quit(p) PROVE CollectionsOfProvider'
  BY <1>14 DEF Quit, End, Unlock, Goto, disk, LoadedIsCurrent,
     CollectionsOfProvider
<1> QED
  BY <1>1, <1>2, <1>3, <1>4, <1>5, <1>6, <1>7, <1>8, <1>9, <1>10,
     <1>11, <1>12, <1>13, <1>14 DEF Next

\* A read writes under the key of the connection it loaded.
LEMMA EntriesNext ==
  ASSUME TypeOK, OwnEntries, [Next]_vars PROVE OwnEntries'
<1>1. CASE UNCHANGED vars
  BY <1>1 DEF vars, disk, local, OwnEntries
<1>2. ASSUME NEW p \in Process, NEW o \in Operation, Begin(p, o)
      PROVE  OwnEntries'
  BY <1>2 DEF Begin, Goto, disk, OwnEntries
<1>3. ASSUME NEW p \in Process, Acquire(p) PROVE OwnEntries'
  BY <1>3 DEF Acquire, Lock, Goto, disk, OwnEntries
<1>4. ASSUME NEW p \in Process, Load(p) PROVE OwnEntries'
  BY <1>4 DEF Load, Loaded, NeedsBackup, Unlock, Goto, disk, OwnEntries
<1>5. ASSUME NEW p \in Process, WriteBackup(p) PROVE OwnEntries'
  BY <1>5 DEF WriteBackup, Goto, disk, OwnEntries
<1>6. ASSUME NEW p \in Process, Migrate(p) PROVE OwnEntries'
  BY <1>6 DEF Migrate, Loaded, Unlock, Migrated, currentVersion, Goto, disk,
     OwnEntries
<1>7. ASSUME NEW p \in Process, NEW c \in Written, NEW replace \in BOOLEAN, Upsert(p, c, replace)
      PROVE  OwnEntries'
  BY <1>7 DEF Upsert, Refuse, End, Save, With, Unlock, currentVersion, Goto,
     disk, OwnEntries
<1>8. ASSUME NEW p \in Process, RemoveConnection(p) PROVE OwnEntries'
  BY <1>8 DEF RemoveConnection, Refuse, End, Save, With, Unlock,
     currentVersion, Goto, disk, OwnEntries
<1>9. ASSUME NEW p \in Process, Clear(p) PROVE OwnEntries'
  BY <1>9 DEF Clear, End, Goto, disk, OwnEntries
<1>10. ASSUME NEW p \in Process, NEW d \in BOOLEAN, UpdatePolicy(p, d)
      PROVE  OwnEntries'
  BY <1>10 DEF UpdatePolicy, End, Save, Unlock, currentVersion, Goto, disk,
     OwnEntries
<1>11. ASSUME NEW p \in Process, Discovered(p) PROVE OwnEntries'
  BY <1>11 DEF Discovered, End, Goto, disk, OwnEntries
<1>12. ASSUME NEW p \in Process, NEW found \in Folder,
             NEW listed \in Provider \cup {None}, Merge(p, found, listed)
      PROVE  OwnEntries'
  BY <1>12 DEF Merge, Refuse, End, Save, With, Unlock, currentVersion, Goto,
     disk, OwnEntries
<1>13. ASSUME NEW p \in Process, NEW cached \in BOOLEAN, Fetch(p, cached)
      PROVE  OwnEntries'
  <2> DEFINE e == [key |-> <<seen[p].conn.provider, seen[p].conn.listed>>,
                   of |-> seen[p].conn.provider]
  <2>1. cache' \subseteq cache \cup {e}
    BY <1>13 DEF Fetch, CacheKey, providerConfigID
  <2>2. e.key[1] = e.of
    OBVIOUS
  <2> HIDE DEF e
  <2> QED
    BY <2>1, <2>2 DEF OwnEntries
<1>14. ASSUME NEW p \in Process, Quit(p) PROVE OwnEntries'
  BY <1>14 DEF Quit, End, Unlock, Goto, disk, OwnEntries
<1> QED
  BY <1>1, <1>2, <1>3, <1>4, <1>5, <1>6, <1>7, <1>8, <1>9, <1>10,
     <1>11, <1>12, <1>13, <1>14 DEF Next

\* A merge follows its discovery.
LEMMA MergesNext ==
  ASSUME TypeOK, MergesConnection, [Next]_vars PROVE MergesConnection'
<1>1. CASE UNCHANGED vars
  BY <1>1 DEF vars, disk, local, TypeOK, MergesConnection
<1>2. ASSUME NEW p \in Process, NEW o \in Operation, Begin(p, o)
      PROVE  MergesConnection'
  BY <1>2 DEF Begin, Goto, disk, TypeOK, MergesConnection
<1>3. ASSUME NEW p \in Process, Acquire(p) PROVE MergesConnection'
  BY <1>3 DEF Acquire, Lock, Goto, disk, TypeOK, MergesConnection
<1>4. ASSUME NEW p \in Process, Load(p) PROVE MergesConnection'
  BY <1>4 DEF Load, Loaded, NeedsBackup, Unlock, Goto, disk, TypeOK,
     MergesConnection
<1>5. ASSUME NEW p \in Process, WriteBackup(p) PROVE MergesConnection'
  BY <1>5 DEF WriteBackup, Goto, disk, TypeOK, MergesConnection
<1>6. ASSUME NEW p \in Process, Migrate(p) PROVE MergesConnection'
  BY <1>6 DEF Migrate, Loaded, Unlock, Migrated, currentVersion, Goto, disk,
     TypeOK, MergesConnection
<1>7. ASSUME NEW p \in Process, NEW c \in Written, NEW replace \in BOOLEAN, Upsert(p, c, replace)
      PROVE  MergesConnection'
  BY <1>7 DEF Upsert, Refuse, End, Save, With, Unlock, currentVersion, Goto,
     disk, TypeOK, MergesConnection
<1>8. ASSUME NEW p \in Process, RemoveConnection(p) PROVE MergesConnection'
  BY <1>8 DEF RemoveConnection, Refuse, End, Save, With, Unlock,
     currentVersion, Goto, disk, TypeOK, MergesConnection
<1>9. ASSUME NEW p \in Process, Clear(p) PROVE MergesConnection'
  BY <1>9 DEF Clear, End, Goto, disk, TypeOK, MergesConnection
<1>10. ASSUME NEW p \in Process, NEW d \in BOOLEAN, UpdatePolicy(p, d)
      PROVE  MergesConnection'
  BY <1>10 DEF UpdatePolicy, End, Save, Unlock, currentVersion, Goto, disk,
     TypeOK, MergesConnection
<1>11. ASSUME NEW p \in Process, Discovered(p) PROVE MergesConnection'
  BY <1>11 DEF Discovered, End, Goto, disk, TypeOK, MergesConnection
<1>12. ASSUME NEW p \in Process, NEW found \in Folder,
             NEW listed \in Provider \cup {None}, Merge(p, found, listed)
      PROVE  MergesConnection'
  BY <1>12 DEF Merge, Refuse, End, Save, With, Unlock, currentVersion, Goto,
     disk, TypeOK, MergesConnection
<1>13. ASSUME NEW p \in Process, NEW cached \in BOOLEAN, Fetch(p, cached)
      PROVE  MergesConnection'
  BY <1>13 DEF Fetch, End, Goto, disk, TypeOK, MergesConnection
<1>14. ASSUME NEW p \in Process, Quit(p) PROVE MergesConnection'
  BY <1>14 DEF Quit, End, Unlock, Goto, disk, TypeOK, MergesConnection
<1> QED
  BY <1>1, <1>2, <1>3, <1>4, <1>5, <1>6, <1>7, <1>8, <1>9, <1>10,
     <1>11, <1>12, <1>13, <1>14 DEF Next

\* TypeOK, part by part.
LEMMA StepNext ==
  ASSUME TypeOK, [Next]_vars PROVE StepTypes'
<1> USE StoreAssumption
<1>1. CASE UNCHANGED vars
  BY <1>1 DEF vars, disk, local, TypeOK, StepTypes, Locked, Operation
<1>2. ASSUME NEW p \in Process, NEW o \in Operation, Begin(p, o)
      PROVE  StepTypes'
  BY <1>2 DEF Begin, Goto, disk, TypeOK, StepTypes, Locked, Operation
<1>3. ASSUME NEW p \in Process, Acquire(p) PROVE StepTypes'
  BY <1>3 DEF Acquire, Lock, Goto, disk, TypeOK, StepTypes, Locked, Operation
<1>4. ASSUME NEW p \in Process, Load(p) PROVE StepTypes'
  BY <1>4 DEF Load, Loaded, NeedsBackup, Unlock, Goto, disk, TypeOK,
     StepTypes, Locked, Operation
<1>5. ASSUME NEW p \in Process, WriteBackup(p) PROVE StepTypes'
  BY <1>5 DEF WriteBackup, Goto, disk, TypeOK, StepTypes, Locked, Operation
<1>6. ASSUME NEW p \in Process, Migrate(p) PROVE StepTypes'
  BY <1>6 DEF Migrate, Loaded, Unlock, Migrated, currentVersion, Goto, disk,
     TypeOK, StepTypes, Locked, Operation
<1>7. ASSUME NEW p \in Process, NEW c \in Written, NEW replace \in BOOLEAN, Upsert(p, c, replace)
      PROVE  StepTypes'
  BY <1>7 DEF Upsert, Refuse, End, Save, With, Unlock, currentVersion, Goto,
     disk, TypeOK, StepTypes, Locked, Operation
<1>8. ASSUME NEW p \in Process, RemoveConnection(p) PROVE StepTypes'
  BY <1>8 DEF RemoveConnection, Refuse, End, Save, With, Unlock,
     currentVersion, Goto, disk, TypeOK, StepTypes, Locked, Operation
<1>9. ASSUME NEW p \in Process, Clear(p) PROVE StepTypes'
  BY <1>9 DEF Clear, End, Goto, disk, TypeOK, StepTypes, Locked, Operation
<1>10. ASSUME NEW p \in Process, NEW d \in BOOLEAN, UpdatePolicy(p, d)
      PROVE  StepTypes'
  BY <1>10 DEF UpdatePolicy, End, Save, Unlock, currentVersion, Goto, disk,
     TypeOK, StepTypes, Locked, Operation
<1>11. ASSUME NEW p \in Process, Discovered(p) PROVE StepTypes'
  BY <1>11 DEF Discovered, End, Goto, disk, TypeOK, StepTypes, Locked,
     Operation
<1>12. ASSUME NEW p \in Process, NEW found \in Folder,
             NEW listed \in Provider \cup {None}, Merge(p, found, listed)
      PROVE  StepTypes'
  BY <1>12 DEF Merge, Refuse, End, Save, With, Unlock, currentVersion, Goto,
     disk, TypeOK, StepTypes, Locked, Operation
<1>13. ASSUME NEW p \in Process, NEW cached \in BOOLEAN, Fetch(p, cached)
      PROVE  StepTypes'
  BY <1>13 DEF Fetch, End, Goto, disk, TypeOK, StepTypes, Locked, Operation
<1>14. ASSUME NEW p \in Process, Quit(p) PROVE StepTypes'
  BY <1>14 DEF Quit, End, Unlock, Goto, disk, TypeOK, StepTypes, Locked,
     Operation
<1> QED
  BY <1>1, <1>2, <1>3, <1>4, <1>5, <1>6, <1>7, <1>8, <1>9, <1>10,
     <1>11, <1>12, <1>13, <1>14 DEF Next

\* What is saved is a configuration of the current version.
LEMMA FileNext ==
  ASSUME TypeOK, MergesConnection, [Next]_vars PROVE FileTypes'
<1>1. CASE UNCHANGED vars
  BY <1>1 DEF vars, disk, local, TypeOK, FileTypes
<1>2. ASSUME NEW p \in Process, NEW o \in Operation, Begin(p, o)
      PROVE  FileTypes'
  BY <1>2, ConfigTypes DEF Begin, Goto, disk, TypeOK, FileTypes
<1>3. ASSUME NEW p \in Process, Acquire(p) PROVE FileTypes'
  BY <1>3, ConfigTypes DEF Acquire, Lock, Goto, disk, TypeOK, FileTypes
<1>4. ASSUME NEW p \in Process, Load(p) PROVE FileTypes'
  BY <1>4, ConfigTypes DEF Load, Loaded, NeedsBackup, Unlock, Goto, disk,
     TypeOK, FileTypes
<1>5. ASSUME NEW p \in Process, WriteBackup(p) PROVE FileTypes'
  BY <1>5, ConfigTypes DEF WriteBackup, Goto, disk, TypeOK, FileTypes
<1>6. ASSUME NEW p \in Process, Migrate(p) PROVE FileTypes'
  BY <1>6, ConfigTypes DEF Migrate, Loaded, Unlock, Migrated, currentVersion,
     Goto, disk, TypeOK, FileTypes
<1>7. ASSUME NEW p \in Process, NEW c \in Written, NEW replace \in BOOLEAN, Upsert(p, c, replace)
      PROVE  FileTypes'
  BY <1>7, ConfigTypes DEF Upsert, Refuse, End, Save, With, Unlock,
     currentVersion, Goto, disk, TypeOK, FileTypes
<1>8. ASSUME NEW p \in Process, RemoveConnection(p) PROVE FileTypes'
  <2>1. CASE UNCHANGED <<file, intended>>
    BY <2>1 DEF TypeOK, FileTypes
  <2>2. CASE Save(p, With(seen[p], None), With(intended, None))
    BY <2>2, ConfigTypes DEF Save, currentVersion, TypeOK, FileTypes
  <2> QED
    BY <1>8, <2>1, <2>2 DEF RemoveConnection, Refuse, disk
<1>9. ASSUME NEW p \in Process, Clear(p) PROVE FileTypes'
  BY <1>9, ConfigTypes DEF Clear, End, Goto, disk, TypeOK, FileTypes
<1>10. ASSUME NEW p \in Process, NEW d \in BOOLEAN, UpdatePolicy(p, d)
      PROVE  FileTypes'
  BY <1>10, ConfigTypes DEF UpdatePolicy, End, Save, Unlock, currentVersion,
     Goto, disk, TypeOK, FileTypes
<1>11. ASSUME NEW p \in Process, Discovered(p) PROVE FileTypes'
  BY <1>11, ConfigTypes DEF Discovered, End, Goto, disk, TypeOK, FileTypes
<1>12. ASSUME NEW p \in Process, NEW found \in Folder,
             NEW listed \in Provider \cup {None}, Merge(p, found, listed)
      PROVE  FileTypes'
  <2>1. CASE UNCHANGED <<file, intended>>
    BY <2>1 DEF TypeOK, FileTypes
  <2>2. CASE SameProvider(start[p].conn, seen[p].conn)
    <3>1. PICK f \in Folder \cup {None}, r \in BOOLEAN :
            file' = [version |-> 2, cfg |-> With(seen[p],
              [provider |-> seen[p].conn.provider, folder |-> f,
               listed |-> listed, readOnly |-> r])]
      BY <1>12, <2>2, MergeResult
    <3>2. seen[p].conn \in Connection
      BY <1>12, <2>2, MergeResult
    <3>3. [provider |-> seen[p].conn.provider, folder |-> f,
           listed |-> listed, readOnly |-> r] \in Connection
      BY <3>2 DEF Connection
    <3>4. file' \in [version : {1, 2}, cfg : Config]
      BY <3>1, <3>3, ConfigTypes DEF TypeOK
    <3>5. CASE intended.conn = None
      BY <1>12, <2>2, <3>4, <3>5, MergeResult DEF TypeOK, FileTypes
    <3>6. CASE intended.conn # None
      <4>1. PICK g \in Folder \cup {None}, b \in BOOLEAN :
              intended' = With(intended, [provider |-> intended.conn.provider,
                folder |-> g, listed |-> listed, readOnly |-> b])
        BY <1>12, <2>2, <3>6, MergeResult
      <4>2. intended.conn \in Connection
        BY <3>6, ConfigTypes DEF TypeOK
      <4>3. [provider |-> intended.conn.provider, folder |-> g,
             listed |-> listed, readOnly |-> b] \in Connection
        BY <4>2 DEF Connection
      <4> QED
        BY <3>4, <4>1, <4>3, ConfigTypes DEF TypeOK, FileTypes
    <3> QED
      BY <3>5, <3>6
  <2> QED
    BY <1>12, <2>1, <2>2 DEF Merge, Refuse, disk
<1>13. ASSUME NEW p \in Process, NEW cached \in BOOLEAN, Fetch(p, cached)
      PROVE  FileTypes'
  BY <1>13, ConfigTypes DEF Fetch, End, Goto, disk, TypeOK, FileTypes
<1>14. ASSUME NEW p \in Process, Quit(p) PROVE FileTypes'
  BY <1>14, ConfigTypes DEF Quit, End, Unlock, Goto, disk, TypeOK, FileTypes
<1> QED
  BY <1>1, <1>2, <1>3, <1>4, <1>5, <1>6, <1>7, <1>8, <1>9, <1>10,
     <1>11, <1>12, <1>13, <1>14 DEF Next

\* The backup goes from none through part to whole.
LEMMA BackupTypeNext ==
  ASSUME TypeOK, [Next]_vars PROVE BackupTypes'
<1>1. CASE UNCHANGED vars
  BY <1>1 DEF vars, disk, local, TypeOK, BackupTypes
<1>2. ASSUME NEW p \in Process, NEW o \in Operation, Begin(p, o)
      PROVE  BackupTypes'
  BY <1>2 DEF Begin, Goto, disk, TypeOK, BackupTypes
<1>3. ASSUME NEW p \in Process, Acquire(p) PROVE BackupTypes'
  BY <1>3 DEF Acquire, Lock, Goto, disk, TypeOK, BackupTypes
<1>4. ASSUME NEW p \in Process, Load(p) PROVE BackupTypes'
  BY <1>4 DEF Load, Loaded, NeedsBackup, Unlock, Goto, disk, TypeOK,
     BackupTypes
<1>5. ASSUME NEW p \in Process, WriteBackup(p) PROVE BackupTypes'
  BY <1>5 DEF WriteBackup, Goto, disk, TypeOK, BackupTypes
<1>6. ASSUME NEW p \in Process, Migrate(p) PROVE BackupTypes'
  BY <1>6 DEF Migrate, Loaded, Unlock, Migrated, currentVersion, Goto, disk,
     TypeOK, BackupTypes
<1>7. ASSUME NEW p \in Process, NEW c \in Written, NEW replace \in BOOLEAN, Upsert(p, c, replace)
      PROVE  BackupTypes'
  BY <1>7 DEF Upsert, Refuse, End, Save, With, Unlock, currentVersion, Goto,
     disk, TypeOK, BackupTypes
<1>8. ASSUME NEW p \in Process, RemoveConnection(p) PROVE BackupTypes'
  BY <1>8 DEF RemoveConnection, Refuse, End, Save, With, Unlock,
     currentVersion, Goto, disk, TypeOK, BackupTypes
<1>9. ASSUME NEW p \in Process, Clear(p) PROVE BackupTypes'
  BY <1>9 DEF Clear, End, Goto, disk, TypeOK, BackupTypes
<1>10. ASSUME NEW p \in Process, NEW d \in BOOLEAN, UpdatePolicy(p, d)
      PROVE  BackupTypes'
  BY <1>10 DEF UpdatePolicy, End, Save, Unlock, currentVersion, Goto, disk,
     TypeOK, BackupTypes
<1>11. ASSUME NEW p \in Process, Discovered(p) PROVE BackupTypes'
  BY <1>11 DEF Discovered, End, Goto, disk, TypeOK, BackupTypes
<1>12. ASSUME NEW p \in Process, NEW found \in Folder,
             NEW listed \in Provider \cup {None}, Merge(p, found, listed)
      PROVE  BackupTypes'
  BY <1>12 DEF Merge, Refuse, End, Save, With, Unlock, currentVersion, Goto,
     disk, TypeOK, BackupTypes
<1>13. ASSUME NEW p \in Process, NEW cached \in BOOLEAN, Fetch(p, cached)
      PROVE  BackupTypes'
  BY <1>13 DEF Fetch, End, Goto, disk, TypeOK, BackupTypes
<1>14. ASSUME NEW p \in Process, Quit(p) PROVE BackupTypes'
  BY <1>14 DEF Quit, End, Unlock, Goto, disk, TypeOK, BackupTypes
<1> QED
  BY <1>1, <1>2, <1>3, <1>4, <1>5, <1>6, <1>7, <1>8, <1>9, <1>10,
     <1>11, <1>12, <1>13, <1>14 DEF Next

\* What is loaded, or forgotten, is a configuration.
LEMMA LoadedTypeNext ==
  ASSUME TypeOK, [Next]_vars PROVE LoadedTypes'
<1>1. CASE UNCHANGED vars
  BY <1>1 DEF vars, disk, local, TypeOK, LoadedTypes
<1>2. ASSUME NEW p \in Process, NEW o \in Operation, Begin(p, o)
      PROVE  LoadedTypes'
  BY <1>2, ConfigTypes DEF Begin, Goto, disk, TypeOK, LoadedTypes
<1>3. ASSUME NEW p \in Process, Acquire(p) PROVE LoadedTypes'
  BY <1>3, ConfigTypes DEF Acquire, Lock, Goto, disk, TypeOK, LoadedTypes
<1>4. ASSUME NEW p \in Process, Load(p) PROVE LoadedTypes'
  BY <1>4, ConfigTypes DEF Load, Loaded, NeedsBackup, Unlock, Goto, disk,
     TypeOK, LoadedTypes
<1>5. ASSUME NEW p \in Process, WriteBackup(p) PROVE LoadedTypes'
  BY <1>5, ConfigTypes DEF WriteBackup, Goto, disk, TypeOK, LoadedTypes
<1>6. ASSUME NEW p \in Process, Migrate(p) PROVE LoadedTypes'
  BY <1>6, ConfigTypes DEF Migrate, Loaded, Unlock, Migrated, currentVersion,
     Goto, disk, TypeOK, LoadedTypes
<1>7. ASSUME NEW p \in Process, NEW c \in Written, NEW replace \in BOOLEAN, Upsert(p, c, replace)
      PROVE  LoadedTypes'
  <2>1. UNCHANGED <<seen, start>> \/ End(p)
    BY <1>7 DEF Upsert, Refuse
  <2>2. Empty \in Config
    BY ConfigTypes
  <2> QED
    BY <2>1, <2>2 DEF End, TypeOK, LoadedTypes
<1>8. ASSUME NEW p \in Process, RemoveConnection(p) PROVE LoadedTypes'
  <2>1. UNCHANGED <<seen, start>> \/ End(p)
    BY <1>8 DEF RemoveConnection, Refuse
  <2>2. Empty \in Config
    BY ConfigTypes
  <2> QED
    BY <2>1, <2>2 DEF End, TypeOK, LoadedTypes
<1>9. ASSUME NEW p \in Process, Clear(p) PROVE LoadedTypes'
  BY <1>9, ConfigTypes DEF Clear, End, Goto, disk, TypeOK, LoadedTypes
<1>10. ASSUME NEW p \in Process, NEW d \in BOOLEAN, UpdatePolicy(p, d)
      PROVE  LoadedTypes'
  BY <1>10, ConfigTypes DEF UpdatePolicy, End, Save, Unlock, currentVersion,
     Goto, disk, TypeOK, LoadedTypes
<1>11. ASSUME NEW p \in Process, Discovered(p) PROVE LoadedTypes'
  <2>1. UNCHANGED <<seen, start>> \/ End(p)
    BY <1>11 DEF Discovered
  <2>2. Empty \in Config
    BY ConfigTypes
  <2> QED
    BY <2>1, <2>2 DEF End, TypeOK, LoadedTypes
<1>12. ASSUME NEW p \in Process, NEW found \in Folder,
             NEW listed \in Provider \cup {None}, Merge(p, found, listed)
      PROVE  LoadedTypes'
  <2>1. UNCHANGED <<seen, start>> \/ End(p)
    BY <1>12 DEF Merge, Refuse
  <2>2. Empty \in Config
    BY ConfigTypes
  <2> QED
    BY <2>1, <2>2 DEF End, TypeOK, LoadedTypes
<1>13. ASSUME NEW p \in Process, NEW cached \in BOOLEAN, Fetch(p, cached)
      PROVE  LoadedTypes'
  BY <1>13, ConfigTypes DEF Fetch, End, Goto, disk, TypeOK, LoadedTypes
<1>14. ASSUME NEW p \in Process, Quit(p) PROVE LoadedTypes'
  BY <1>14, ConfigTypes DEF Quit, End, Unlock, Goto, disk, TypeOK, LoadedTypes
<1> QED
  BY <1>1, <1>2, <1>3, <1>4, <1>5, <1>6, <1>7, <1>8, <1>9, <1>10,
     <1>11, <1>12, <1>13, <1>14 DEF Next

\* What is cached is keyed by a connection.
LEMMA EntryNext ==
  ASSUME TypeOK, [Next]_vars PROVE EntryTypes'
<1>1. CASE UNCHANGED vars
  BY <1>1 DEF vars, disk, local, TypeOK, EntryTypes
<1>2. ASSUME NEW p \in Process, NEW o \in Operation, Begin(p, o)
      PROVE  EntryTypes'
  BY <1>2 DEF Begin, Goto, disk, TypeOK, EntryTypes
<1>3. ASSUME NEW p \in Process, Acquire(p) PROVE EntryTypes'
  BY <1>3 DEF Acquire, Lock, Goto, disk, TypeOK, EntryTypes
<1>4. ASSUME NEW p \in Process, Load(p) PROVE EntryTypes'
  BY <1>4 DEF Load, Loaded, NeedsBackup, Unlock, Goto, disk, TypeOK,
     EntryTypes
<1>5. ASSUME NEW p \in Process, WriteBackup(p) PROVE EntryTypes'
  BY <1>5 DEF WriteBackup, Goto, disk, TypeOK, EntryTypes
<1>6. ASSUME NEW p \in Process, Migrate(p) PROVE EntryTypes'
  BY <1>6 DEF Migrate, Loaded, Unlock, Migrated, currentVersion, Goto, disk,
     TypeOK, EntryTypes
<1>7. ASSUME NEW p \in Process, NEW c \in Written, NEW replace \in BOOLEAN, Upsert(p, c, replace)
      PROVE  EntryTypes'
  BY <1>7 DEF Upsert, Refuse, End, Save, With, Unlock, currentVersion, Goto,
     disk, TypeOK, EntryTypes
<1>8. ASSUME NEW p \in Process, RemoveConnection(p) PROVE EntryTypes'
  BY <1>8 DEF RemoveConnection, Refuse, End, Save, With, Unlock,
     currentVersion, Goto, disk, TypeOK, EntryTypes
<1>9. ASSUME NEW p \in Process, Clear(p) PROVE EntryTypes'
  BY <1>9 DEF Clear, End, Goto, disk, TypeOK, EntryTypes
<1>10. ASSUME NEW p \in Process, NEW d \in BOOLEAN, UpdatePolicy(p, d)
      PROVE  EntryTypes'
  BY <1>10 DEF UpdatePolicy, End, Save, Unlock, currentVersion, Goto, disk,
     TypeOK, EntryTypes
<1>11. ASSUME NEW p \in Process, Discovered(p) PROVE EntryTypes'
  BY <1>11 DEF Discovered, End, Goto, disk, TypeOK, EntryTypes
<1>12. ASSUME NEW p \in Process, NEW found \in Folder,
             NEW listed \in Provider \cup {None}, Merge(p, found, listed)
      PROVE  EntryTypes'
  BY <1>12 DEF Merge, Refuse, End, Save, With, Unlock, currentVersion, Goto,
     disk, TypeOK, EntryTypes
<1>13. ASSUME NEW p \in Process, NEW cached \in BOOLEAN, Fetch(p, cached)
      PROVE  EntryTypes'
  <2>1. CASE seen[p].conn = None
    BY <1>13, <2>1 DEF Fetch, EntryTypes, TypeOK
  <2>2. CASE seen[p].conn # None
    <3>1. seen[p].conn \in Connection
      BY <2>2, ConfigTypes DEF TypeOK
    <3>2. <<seen[p].conn.provider, seen[p].conn.listed>> \in Provider \X (Provider \cup {None})
          /\ seen[p].conn.provider \in Provider
      BY <3>1 DEF Connection
    <3> QED
      BY <1>13, <3>2 DEF Fetch, CacheKey, providerConfigID, EntryTypes, TypeOK
  <2> QED
    BY <2>1, <2>2
<1>14. ASSUME NEW p \in Process, Quit(p) PROVE EntryTypes'
  BY <1>14 DEF Quit, End, Unlock, Goto, disk, TypeOK, EntryTypes
<1> QED
  BY <1>1, <1>2, <1>3, <1>4, <1>5, <1>6, <1>7, <1>8, <1>9, <1>10,
     <1>11, <1>12, <1>13, <1>14 DEF Next

\* IInv is inductive.
LEMMA InitInvariant ==
  ASSUME Init PROVE IInv
<1> USE StoreAssumption
<1>1. file.cfg \in Config /\ file.version = 1 /\ file.cfg.conn \in Written
  <2>1. file.cfg \in [conn : Written, deny : {FALSE}] /\ file.version = 1
    BY DEF Init
  <2> QED
    BY <2>1 DEF Written, Config
<1>2. TypeOK
  <2>1. file \in [version : {1, 2}, cfg : Config] /\ intended \in Config
    BY <1>1 DEF Init
  <2>2. seen \in [Process -> Config] /\ start \in [Process -> Config]
    BY ConfigTypes DEF Init
  <2> QED
    BY <2>1, <2>2 DEF Init, TypeOK, Locked, Operation
<1>3. LockIsHeld /\ LoadedIsCurrent /\ MergesConnection
  BY DEF Init, LockIsHeld, LoadedIsCurrent, MergesConnection, Locked
<1>4. UpdatesKept /\ OwnEntries
  BY DEF Init, UpdatesKept, OwnEntries
<1>5. CollectionsOfProvider
  BY <1>1 DEF CollectionsOfProvider, Written
<1>6. BackedUp
  BY <1>1 DEF Init, BackedUp, MigrationIsBackedUp
<1> QED
  BY <1>2, <1>3, <1>4, <1>5, <1>6 DEF IInv

\* The invariant holds of every reachable state.
LEMMA Invariance ==
  Spec => []IInv
<1>1. Init => IInv
  BY InitInvariant
<1>2. IInv /\ [Next]_vars => IInv'
  <2> SUFFICES ASSUME IInv, [Next]_vars PROVE IInv'
    OBVIOUS
  <2>1. TypeOK'
    BY StepNext, FileNext, BackupTypeNext, LoadedTypeNext, EntryNext
       DEF IInv, TypeOK, StepTypes, FileTypes, BackupTypes, LoadedTypes, EntryTypes
  <2>2. LockIsHeld' /\ LoadedIsCurrent' /\ BackedUp'
    BY LockNext, LoadedNext, BackupNext DEF IInv
  <2>3. UpdatesKept' /\ CollectionsOfProvider' /\ OwnEntries' /\ MergesConnection'
    BY KeptNext, CollectionsNext, EntriesNext, MergesNext DEF IInv
  <2> QED
    BY <2>1, <2>2, <2>3 DEF IInv
<1> QED
  BY <1>1, <1>2, PTL DEF Spec

-----------------------------------------------------------------------------
\* The variables have their types.
THEOREM TypeCorrect == Spec => []TypeOK
<1>1. IInv => TypeOK
  BY DEF IInv
<1> QED
  BY <1>1, Invariance, PTL

\* Updates, migrations and late discoveries of any processes lose nothing of each
\* other but folders' roles: what the file has is what was saved into it.
THEOREM NothingLost == Spec => []UpdatesKept
<1>1. IInv => UpdatesKept
  BY DEF IInv
<1> QED
  BY <1>1, Invariance, PTL

\* However late a discovery returns, its collections are those of the account
\* that the connection has then.
THEOREM CollectionsStay == Spec => []CollectionsOfProvider
<1>1. IInv => CollectionsOfProvider
  BY DEF IInv
<1> QED
  BY <1>1, Invariance, PTL

\* The file of version 1 goes after its backup is whole, whoever migrates it.
THEOREM BackupFirst == Spec => []MigrationIsBackedUp
<1>1. IInv => MigrationIsBackedUp
  BY DEF IInv, BackedUp
<1> QED
  BY <1>1, Invariance, PTL

\* No read is served from the cache of another account, whatever was cleared.
THEOREM OwnAccount == Spec => []ServedFromOwnAccount
<1>1. IInv => ServedFromOwnAccount
  BY DEF IInv, OwnEntries, ServedFromOwnAccount, CacheKey, providerConfigID
<1> QED
  BY <1>1, Invariance, PTL
=============================================================================
