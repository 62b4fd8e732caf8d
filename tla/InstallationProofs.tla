------------------------- MODULE InstallationProofs -------------------------
(***************************************************************************)
(* Installation, for any identities and contents, either release the source *)
(* may be of, any number of keys and any number of power losses.            *)
(*                                                                         *)
(* The invariant says of each directory what the command at work on it has  *)
(* reached, and what of it lasts; a power loss (Remains) takes nothing that *)
(* lasts, so it keeps every part of the invariant but the jobs, which end.  *)
(* A directory is reasoned about as a whole (Sound): the lemmas on Written,  *)
(* Synced, Migrated and Remains say what each does to its fields, and the   *)
(* proofs of the steps cite those instead of the definitions.               *)
(***************************************************************************)
EXTENDS Installation, TLAPS

-----------------------------------------------------------------------------
(* The inductive invariant, directory by directory.                        *)

source == place["source"]
backup == place["backup"]
restored == place["restored"]

\* What both commands make in a backup: everything but the keys.
Archived == Parts \ {"secrets"}

\* A backup without its manifest, and a restored directory without its marker.
Copies == Copied(backup.index)
Moved == (Copies \ {"marker"}) \cup {"admin", "worker"}

Publishing == {"placing", "syncing", "committing"}
Crediting == {"key.sync", "key.commit"}
BackingUp == {"backup.copy", "backup.manifest", "backup.last"}
Restoring == {"restore.copy", "restore.retire", "restore.sync", "restore.marker", "restore.last"}
Serving == {"serving", "maintenance"} \cup Publishing \cup Crediting

\* A directory and what lasts of it.
Sound(dir) ==
  /\ dir \in Directory
  /\ dir.lasting.parts \subseteq dir.now.parts
  /\ dir.lasting.files \subseteq dir.now.files
  /\ dir.lasting.keys \subseteq dir.now.keys
  /\ \A f \in dir.now.files : Part(f) \in dir.now.parts \cup {""}
  /\ ~dir.exists => dir = Absent

Job == [at : Labels, what : Contents \cup Identities \cup {"none"}]

\* What a process works on is what it has begun with, and is there.
Working(d) ==
  /\ job[d].at \in Publishing => job[d].what \in Contents
  /\ job[d].at \in {"syncing", "committing"} => Has(d, {job[d].what})
  /\ job[d].at \in Crediting =>
       /\ job[d].what \in Identities /\ EpochAllows(d, job[d].what)
       /\ NextKey(d, job[d].what) \in place[d].now.keys
  /\ job[d].at = "key.commit" => NextKey(d, job[d].what) \in place[d].lasting.keys

Typed ==
  /\ place \in [Directories -> Directory]
  /\ \A d \in Directories : Sound(place[d])
  /\ job \in [Installations -> Job]
  /\ reported \subseteq {"backup", "restore"}
  /\ outages \in 0..MaxOutages
  /\ \A d \in Installations : Working(d)

EpochsUpTo(index, n) == \A w \in Identities : index.workers[w].epoch <= n

\* The source: its subdirectories are made once and for all, and the key of an
\* active identity that is not the token lasts.
SourceInv ==
  /\ source.now.parts \in {{}, Parts}
  /\ job["source"].at # "idle" => source.now.parts = Parts
  /\ EpochsUpTo(source.index, MaxEpoch)
  /\ \A w \in Identities :
       LET identity == source.index.workers[w] IN
       identity.status = "active" /\ identity.key # Token("source") => identity.key \in source.lasting.keys
  /\ outages = 0 => source.index.versions \subseteq source.now.files

\* The backup: until its manifest it holds what the source has, and the source
\* does not move; from then on what it names is durable.
BackupInv ==
  /\ backup.now.parts \subseteq Archived /\ ~backup.hot
  /\ EpochsUpTo(backup.index, MaxEpoch)
  /\ Has("backup", {"manifest"}) /\ backup.now.parts = Archived =>
       backup.now.files = Copies \cup {"manifest"} /\ Copies \subseteq backup.lasting.files
  /\ job["source"].at \in BackingUp =>
       backup.now.parts = Archived /\ "backup" \notin reported
  /\ job["source"].at \in {"backup.copy", "backup.manifest"} =>
       ~restored.exists /\ ~Has("backup", {"manifest"}) /\ backup.exists
  /\ job["source"].at = "backup.copy" =>
       /\ ~source.hot /\ backup.now.files \subseteq Copied(source.index)
       /\ Has("backup", {"index"}) => backup.index = source.index
  /\ job["source"].at = "backup.manifest" => backup.now.files = Copies /\ Copies \subseteq backup.lasting.files
  /\ job["source"].at = "backup.last" => Has("backup", {"manifest"})
  /\ "backup" \in reported /\ backup.exists =>
       backup.now.parts = Archived /\ backup.lasting.parts = Archived /\ "manifest" \in backup.lasting.files

\* No identity of a directory is of any use.
NoneActive(index) == \A w \in Identities : index.workers[w].status # "active"

\* The restored directory: until its marker the backup stands and is copied;
\* with its marker, what it needs lasts, and so do the keys of its identities.
RestoreInv ==
  /\ EpochsUpTo(restored.index, MaxEpoch + 1)
  /\ job["restored"].at \in Restoring =>
       Inspected /\ restored.exists /\ restored.now.parts = Parts /\ "restore" \notin reported
  /\ job["restored"].at \in Restoring \ {"restore.last"} => ~Has("restored", {"marker"})
  /\ job["restored"].at = "restore.copy" => (Has("restored", {"index"}) => restored.index = backup.index)
  /\ job["restored"].at = "restore.retire" => Has("restored", Moved) /\ restored.index = backup.index
  /\ job["restored"].at \in {"restore.sync", "restore.marker"} =>
       /\ Has("restored", Moved) /\ restored.index.versions = backup.index.versions
       /\ restored.index.schema = 2 /\ NoneActive(restored.index)
  /\ job["restored"].at = "restore.marker" => Moved \cup {"lock"} \subseteq restored.lasting.files
  /\ job["restored"].at \in Serving \cup {"restore.last"} =>
       Has("restored", {"marker"}) /\ restored.now.parts = Parts
  /\ Has("restored", {"marker"}) /\ restored.now.parts = Parts =>
       /\ Moved \cup {"lock"} \subseteq restored.lasting.files /\ restored.index.schema = 2
       /\ \A w \in Identities :
            LET identity == restored.index.workers[w] IN
            identity.status = "active" => identity.key \in restored.lasting.keys
       /\ outages = 0 => restored.index.versions \subseteq restored.now.files
  /\ "restore" \in reported /\ restored.exists =>
       {"marker", "settings"} \subseteq restored.lasting.files /\ restored.lasting.parts = Parts

IInv == Typed /\ SourceInv /\ BackupInv /\ RestoreInv

-----------------------------------------------------------------------------
(* What the operators on files and on indexes do.                          *)

LEMMA WrittenFields ==
  ASSUME NEW dir \in Directory, NEW files \in SUBSET Names
  PROVE  /\ Written(dir, files) \in Directory
         /\ Written(dir, files).exists = dir.exists
         /\ Written(dir, files).now.parts = dir.now.parts
         /\ Written(dir, files).now.files = dir.now.files \cup files
         /\ Written(dir, files).now.keys = dir.now.keys
         /\ Written(dir, files).lasting = dir.lasting
         /\ Written(dir, files).index = dir.index
         /\ Written(dir, files).hot = dir.hot
BY DEF Written, Directory, Content

\* The files that fsync of some subdirectories makes durable.
Within(dir, parts) == {f \in dir.now.files : Part(f) \in parts}

LEMMA SyncedFields ==
  ASSUME NEW dir \in Directory, NEW parts
  PROVE  /\ Synced(dir, parts) \in Directory
         /\ Synced(dir, parts).exists = dir.exists
         /\ Synced(dir, parts).now = dir.now
         /\ Synced(dir, parts).lasting.files = dir.lasting.files \cup Within(dir, parts)
         /\ "" \in parts => Synced(dir, parts).lasting.parts = dir.now.parts
         /\ "" \notin parts => Synced(dir, parts).lasting.parts = dir.lasting.parts
         /\ Synced(dir, parts).lasting.keys = dir.lasting.keys
         /\ Synced(dir, parts).index = dir.index
         /\ Synced(dir, parts).hot = dir.hot
<1>1. Within(dir, parts) \subseteq dir.now.files
  BY DEF Within
<1> DEFINE lasting == [dir.lasting EXCEPT !.files = @ \cup Within(dir, parts),
                                         !.parts = IF "" \in parts THEN dir.now.parts ELSE @]
<1>2. Synced(dir, parts) = [dir EXCEPT !.lasting = lasting]
  BY DEF Synced, Within, Directory, Content
<1>3. dir.lasting \in Content /\ dir.now \in Content
  BY DEF Directory
<1>4. /\ lasting \in Content /\ lasting.files = dir.lasting.files \cup Within(dir, parts)
      /\ lasting.keys = dir.lasting.keys
      /\ lasting.parts = IF "" \in parts THEN dir.now.parts ELSE dir.lasting.parts
  BY <1>1, <1>3 DEF Content
<1> HIDE DEF lasting
<1>5. /\ Synced(dir, parts) \in Directory /\ Synced(dir, parts).exists = dir.exists
      /\ Synced(dir, parts).now = dir.now /\ Synced(dir, parts).lasting = lasting
      /\ Synced(dir, parts).index = dir.index /\ Synced(dir, parts).hot = dir.hot
  BY <1>2, <1>4 DEF Directory
<1> QED
  BY <1>4, <1>5

\* A directory with another index or another journal is a directory.
LEMMA IndexedFields ==
  ASSUME NEW dir \in Directory, NEW index \in Index, NEW hot \in BOOLEAN
  PROVE  LET new == [dir EXCEPT !.index = index, !.hot = hot] IN
         /\ new \in Directory /\ new.exists = dir.exists /\ new.now = dir.now /\ new.lasting = dir.lasting
         /\ new.index = index /\ new.hot = hot
BY DEF Directory

LEMMA SoundWritten ==
  ASSUME NEW dir, Sound(dir), dir.exists, NEW files \in SUBSET Names,
         \A f \in files : Part(f) \in dir.now.parts \cup {""}
  PROVE  Sound(Written(dir, files))
<1> DEFINE new == Written(dir, files)
<1>1. dir \in Directory
  BY DEF Sound
<1> HIDE DEF new
<1>2. new \in Directory /\ new.exists
  BY <1>1, WrittenFields DEF new
<1>3. new.lasting = dir.lasting /\ new.now.parts = dir.now.parts /\ new.now.keys = dir.now.keys
      /\ new.now.files = dir.now.files \cup files
  BY <1>1, WrittenFields DEF new
<1>4. /\ new.lasting.parts \subseteq new.now.parts /\ new.lasting.files \subseteq new.now.files
      /\ new.lasting.keys \subseteq new.now.keys
      /\ \A f \in new.now.files : Part(f) \in new.now.parts \cup {""}
  BY <1>3 DEF Sound
<1>5. Sound(new)
  BY <1>2, <1>4, Zenon DEF Sound
<1> QED
  BY <1>5 DEF new

LEMMA SoundSynced ==
  ASSUME NEW dir, Sound(dir), dir.exists, NEW parts
  PROVE  Sound(Synced(dir, parts))
<1>1. Within(dir, parts) \subseteq dir.now.files
  BY DEF Within
<1>2. dir \in Directory
  BY DEF Sound
<1> DEFINE new == Synced(dir, parts)
<1> HIDE DEF new
<1>3. new \in Directory /\ new.exists
  BY <1>2, SyncedFields DEF new
<1>4. new.now = dir.now /\ new.lasting.keys = dir.lasting.keys
      /\ new.lasting.files = dir.lasting.files \cup Within(dir, parts)
      /\ new.lasting.parts \in {dir.now.parts, dir.lasting.parts}
  BY <1>2, SyncedFields DEF new
<1>5. /\ new.lasting.parts \subseteq new.now.parts /\ new.lasting.files \subseteq new.now.files
      /\ new.lasting.keys \subseteq new.now.keys
      /\ \A f \in new.now.files : Part(f) \in new.now.parts \cup {""}
  BY <1>1, <1>4 DEF Sound
<1>6. Sound(new)
  BY <1>3, <1>5, Zenon DEF Sound
<1> QED
  BY <1>6 DEF new

LEMMA SoundIndexed ==
  ASSUME NEW dir, Sound(dir), dir.exists, NEW index \in Index, NEW hot \in BOOLEAN
  PROVE  Sound([dir EXCEPT !.index = index, !.hot = hot])
<1> DEFINE new == [dir EXCEPT !.index = index, !.hot = hot]
<1>1. dir \in Directory
  BY DEF Sound
<1>2. new \in Directory /\ new.exists = dir.exists /\ new.now = dir.now /\ new.lasting = dir.lasting
  BY <1>1 DEF Directory
<1> HIDE DEF new
<1>3. /\ new.lasting.parts \subseteq new.now.parts /\ new.lasting.files \subseteq new.now.files
      /\ new.lasting.keys \subseteq new.now.keys
      /\ \A f \in new.now.files : Part(f) \in new.now.parts \cup {""}
  BY <1>2 DEF Sound
<1>4. Sound(new)
  BY <1>2, <1>3, Zenon DEF Sound
<1> QED
  BY <1>4 DEF new

LEMMA Bounds == MaxEpoch \in Nat /\ MaxEpoch > 0 /\ MaxOutages \in Nat
<1>1. MaxEpoch \in Nat \ {0} /\ MaxOutages \in Nat
  BY ConstantsAssumption, Zenon DEF ConstantsAssumption
<1> QED
  BY <1>1

LEMMA TokenType == ASSUME NEW d \in Installations PROVE Token(d) \in Key
BY Bounds DEF Token, Key, Identities

LEMMA NewIndexType ==
  NewIndex \in Index /\ NoneActive(NewIndex) /\ (\A n \in Nat : EpochsUpTo(NewIndex, n)) /\ NewIndex.versions = {}
<1>1. NoIdentity \in Identity
  BY TokenType, Bounds DEF NoIdentity, Identity, Installations
<1> QED
  BY <1>1 DEF NewIndex, Index, NoneActive, EpochsUpTo, NoIdentity

LEMMA MigratedIndex ==
  ASSUME NEW d \in Installations, NEW index \in Index
  PROVE  /\ Migrated(d, index) \in Index /\ Migrated(d, index).schema = 2
         /\ Migrated(d, index).versions = index.versions
         /\ \A n \in Nat \ {0} : EpochsUpTo(index, n) => EpochsUpTo(Migrated(d, index), n)
         /\ \A w \in Identities : \/ Migrated(d, index).workers[w] = index.workers[w]
                                  \/ Migrated(d, index).workers[w].key = Token(d)
<1> DEFINE seeded == [status |-> "active", epoch |-> 1, key |-> Token(d)]
<1>1. seeded \in Identity
  BY TokenType, Bounds DEF Identity
<1>2. CASE index.schema = 2
  BY <1>2 DEF Migrated
<1>3. CASE index.schema # 2
  <2>1. Migrated(d, index) = [index EXCEPT !.schema = 2, !.workers = [index.workers EXCEPT ![Legacy] = seeded]]
    BY <1>3 DEF Migrated, Index
  <2> HIDE DEF seeded
  <2>2. index.workers \in [Identities -> Identity]
    BY DEF Index
  <2>3. [index.workers EXCEPT ![Legacy] = seeded] \in [Identities -> Identity]
    BY <1>1, <2>2
  <2>4. Migrated(d, index) \in Index
    <3> DEFINE workers == [index.workers EXCEPT ![Legacy] = seeded]
    <3>1. index \in [schema: 0..2, workers: [Identities -> Identity], versions: SUBSET Contents]
      BY Zenon DEF Index
    <3>2. workers \in [Identities -> Identity] /\ Migrated(d, index) = [index EXCEPT !.schema = 2, !.workers = workers]
      BY <2>1, <2>3
    <3> HIDE DEF workers
    <3>3. Migrated(d, index) = [schema |-> 2, workers |-> workers, versions |-> index.versions]
      BY <3>1, <3>2
    <3> QED
      BY <3>1, <3>2, <3>3 DEF Index
  <2>5. Migrated(d, index).schema = 2 /\ Migrated(d, index).versions = index.versions
        /\ Migrated(d, index).workers = [index.workers EXCEPT ![Legacy] = seeded]
    BY <2>1 DEF Index
  <2>6. seeded.epoch = 1 /\ seeded.key = Token(d)
    BY DEF seeded
  <2> QED
    BY <2>2, <2>4, <2>5, <2>6 DEF EpochsUpTo
<1> QED
  BY <1>2, <1>3

LEMMA RetiredIndex ==
  ASSUME NEW index \in Index, EpochsUpTo(index, MaxEpoch)
  PROVE  /\ Retired(index) \in Index /\ NoneActive(Retired(index)) /\ EpochsUpTo(Retired(index), MaxEpoch + 1)
         /\ Retired(index).schema = index.schema /\ Retired(index).versions = index.versions
<1> DEFINE W == [w \in Identities |->
     IF index.workers[w].status = "none" THEN index.workers[w]
     ELSE [index.workers[w] EXCEPT !.status = "revoked", !.epoch = @ + 1]]
<1>1. ASSUME NEW w \in Identities
      PROVE  W[w] \in Identity /\ W[w].status # "active" /\ W[w].epoch <= MaxEpoch + 1
  <2> DEFINE identity == index.workers[w]
  <2>1. identity \in Identity /\ identity.epoch <= MaxEpoch
    BY DEF Index, EpochsUpTo
  <2>2. W[w] = IF identity.status = "none" THEN identity
               ELSE [identity EXCEPT !.status = "revoked", !.epoch = @ + 1]
    OBVIOUS
  <2> HIDE DEF identity, W
  <2>3. identity.epoch \in Nat
    BY <2>1, Bounds DEF Identity
  <2>4. CASE identity.status = "none"
    BY <2>1, <2>2, <2>3, <2>4, Bounds
  <2>5. CASE identity.status # "none"
    <3>1. W[w] = [identity EXCEPT !.status = "revoked", !.epoch = @ + 1]
      BY <2>2, <2>5
    <3>2. identity.epoch + 1 \in 0..MaxEpoch + 2 /\ identity.epoch + 1 <= MaxEpoch + 1
      BY <2>1, <2>3, Bounds
    <3>3. W[w].status = "revoked" /\ W[w].epoch = identity.epoch + 1
      BY <2>1, <3>1 DEF Identity
    <3>4. W[w] \in Identity
      BY <2>1, <3>1, <3>2 DEF Identity
    <3> QED
      BY <3>2, <3>3, <3>4
  <2> QED
    BY <2>4, <2>5
<1>2. Retired(index) = [index EXCEPT !.workers = W]
  BY DEF Retired
<1>3. W \in [Identities -> Identity]
  BY <1>1
<1> HIDE DEF W
<1>4. Retired(index) \in Index /\ Retired(index).workers = W
      /\ Retired(index).schema = index.schema /\ Retired(index).versions = index.versions
  BY <1>2, <1>3 DEF Index
<1> QED
  BY <1>1, <1>4 DEF NoneActive, EpochsUpTo

-----------------------------------------------------------------------------
(* Where the files are.                                                    *)

Fixed == {"index", "lock", "settings", "marker", "admin", "worker", "manifest"}

LEMMA ObjectNames == Contents \cap Fixed = {} /\ Names = Contents \cup Fixed
BY ConstantsAssumption, Zenon DEF ConstantsAssumption, Fixed, Names

LEMMA PartOf ==
  /\ Part("index") = "app" /\ Part("lock") = "app" /\ Part("settings") = "config" /\ Part("marker") = "config"
  /\ Part("admin") = "secrets" /\ Part("worker") = "secrets" /\ Part("manifest") = ""
  /\ \A c \in Contents : Part(c) = "objects"
<1>1. \A c \in Contents : c \notin Fixed
  BY ObjectNames
<1> QED
  BY <1>1 DEF Part, Fixed

\* What is copied is in the subdirectories of a backup, and neither a key nor a lock.
LEMMA CopiedNames ==
  ASSUME NEW index \in Index
  PROVE  /\ Copied(index) \in SUBSET Names
         /\ \A f \in Copied(index) : Part(f) \in Archived /\ f \notin {"lock", "admin", "worker", "manifest"}
         /\ index.versions \subseteq Copied(index) /\ {"index", "settings", "marker"} \subseteq Copied(index)
         /\ "marker" \notin index.versions
<1>1. index.versions \subseteq Contents
  BY DEF Index
<1>2. \A c \in Contents : c \in Names /\ c \notin Fixed
  BY ObjectNames
<1>3. {"index", "settings", "marker"} \subseteq Names
  BY DEF Names
<1>4. "objects" \in Archived /\ "app" \in Archived /\ "config" \in Archived
  BY DEF Archived, Parts
<1> QED
  BY <1>1, <1>2, <1>3, <1>4, PartOf DEF Copied, Fixed

LEMMA ForemostAmong == ASSUME NEW files PROVE Foremost(files) \subseteq files
BY DEF Foremost

LEMMA AbsentSound == Absent \in Directory /\ Sound(Absent) /\ ~Absent.exists
<1>1. NoContent \in Content
  BY DEF NoContent, Content
<1>2. Absent \in Directory
  BY <1>1, NewIndexType DEF Absent, Directory
<1> QED
  BY <1>2 DEF Sound, Absent, NoContent

\* What is left of a directory when these of its subdirectories, files and keys are.
LeftOf(parts, files, keys) ==
  [parts |-> parts, files |-> {f \in files : Part(f) \in parts \cup {""}},
   keys |-> IF "secrets" \in parts THEN keys ELSE {}]

OnlyLeft(dir, c) ==
  [dir EXCEPT !.now = c, !.lasting = c, !.index = IF "index" \in c.files THEN @ ELSE NewIndex]

Between(least, most) == {least \cup x : x \in SUBSET (most \ least)}

LEMMA BetweenBounds ==
  ASSUME NEW least, NEW most, least \subseteq most, NEW some \in Between(least, most)
  PROVE  least \subseteq some /\ some \subseteq most
BY DEF Between

LEMMA RemainsAre ==
  ASSUME NEW dir, Sound(dir), NEW left \in Remains(dir)
  PROVE  \E parts, files, keys :
           /\ dir.lasting.parts \subseteq parts /\ parts \subseteq dir.now.parts
           /\ dir.lasting.files \subseteq files /\ files \subseteq dir.now.files
           /\ dir.lasting.keys \subseteq keys /\ keys \subseteq dir.now.keys
           /\ left = OnlyLeft(dir, LeftOf(parts, files, keys))
<1>1. /\ dir.lasting.parts \subseteq dir.now.parts /\ dir.lasting.files \subseteq dir.now.files
      /\ dir.lasting.keys \subseteq dir.now.keys
  BY DEF Sound
<1>2. PICK c \in [parts: Between(dir.lasting.parts, dir.now.parts), files: Between(dir.lasting.files, dir.now.files),
                  keys: Between(dir.lasting.keys, dir.now.keys)] :
        left = OnlyLeft(dir, LeftOf(c.parts, c.files, c.keys))
  BY DEF Remains, OnlyLeft, LeftOf, Between
<1> QED
  BY <1>1, <1>2, BetweenBounds

\* What a power loss leaves of a directory.
LEMMA RemainsFields ==
  ASSUME NEW dir, Sound(dir), NEW left \in Remains(dir)
  PROVE  /\ Sound(left) /\ left.exists = dir.exists /\ left.hot = dir.hot
         /\ left.lasting = left.now
         /\ dir.lasting.parts \subseteq left.now.parts /\ left.now.parts \subseteq dir.now.parts
         /\ left.now.files \subseteq dir.now.files
         /\ \A f \in dir.lasting.files : Part(f) \in left.now.parts \cup {""} => f \in left.now.files
         /\ "secrets" \in left.now.parts => dir.lasting.keys \subseteq left.now.keys
         /\ left.index = IF "index" \in left.now.files THEN dir.index ELSE NewIndex
<1>1. PICK p, fs, ks :
        /\ dir.lasting.parts \subseteq p /\ p \subseteq dir.now.parts
        /\ dir.lasting.files \subseteq fs /\ fs \subseteq dir.now.files
        /\ dir.lasting.keys \subseteq ks /\ ks \subseteq dir.now.keys
        /\ left = OnlyLeft(dir, LeftOf(p, fs, ks))
  BY RemainsAre
<1> DEFINE files == {f \in fs : Part(f) \in p \cup {""}}
           keys == IF "secrets" \in p THEN ks ELSE {}
           c == [parts |-> p, files |-> files, keys |-> keys]
<1>2. dir \in Directory /\ dir.now \in Content /\ dir.lasting \in Content
  BY DEF Sound, Directory
<1>7. /\ files \subseteq dir.now.files
      /\ \A f \in dir.lasting.files : Part(f) \in p \cup {""} => f \in files
      /\ \A f \in files : Part(f) \in p \cup {""}
  BY <1>1
<1>8. keys \subseteq dir.now.keys /\ ("secrets" \in p => dir.lasting.keys \subseteq keys)
  BY <1>1
<1> HIDE DEF files, keys
<1>9. c \in Content /\ c.parts = p /\ c.files = files /\ c.keys = keys
  BY <1>1, <1>2, <1>7, <1>8 DEF Content
<1>10. left = [dir EXCEPT !.now = c, !.lasting = c, !.index = IF "index" \in c.files THEN @ ELSE NewIndex]
  BY <1>1 DEF OnlyLeft, LeftOf, files, keys
<1> HIDE DEF c
<1>11. /\ left \in Directory /\ left.exists = dir.exists /\ left.hot = dir.hot
       /\ left.now = c /\ left.lasting = c
       /\ left.index = IF "index" \in c.files THEN dir.index ELSE NewIndex
  BY <1>2, <1>9, <1>10, NewIndexType DEF Directory
<1>12. ASSUME ~left.exists PROVE left = Absent
  <2>1. dir = Absent
    BY <1>11, <1>12, Zenon DEF Sound
  <2>2. dir.now.parts = {} /\ dir.now.files = {} /\ dir.now.keys = {}
    BY <2>1 DEF Absent, NoContent
  <2>3. p = {} /\ files = {} /\ keys = {}
    BY <2>2, <1>1, <1>7, <1>8
  <2>4. c = NoContent
    BY <2>3 DEF c, NoContent
  <2>5. left = [Absent EXCEPT !.now = NoContent, !.lasting = NoContent, !.index = NewIndex]
    BY <1>10, <2>1, <2>4 DEF NoContent
  <2> QED
    BY <2>5 DEF Absent
<1>13. Sound(left)
  <2>1. /\ left.lasting.parts \subseteq left.now.parts /\ left.lasting.files \subseteq left.now.files
        /\ left.lasting.keys \subseteq left.now.keys
    BY <1>11
  <2>2. \A f \in left.now.files : Part(f) \in left.now.parts \cup {""}
    BY <1>7, <1>9, <1>11
  <2> QED
    BY <1>11, <1>12, <2>1, <2>2, Zenon DEF Sound
<1> QED
  BY <1>1, <1>7, <1>8, <1>9, <1>11, <1>13

-----------------------------------------------------------------------------
(* What a step changes, and what stands because nothing it is about changed. *)

Places == place \in [Directories -> Directory] /\ \A d \in Directories : Sound(place[d])
Jobs == job \in [Installations -> Job]

LEMMA PlaceStep ==
  ASSUME Places, NEW d \in Directories, NEW new, Sound(new), place' = [place EXCEPT ![d] = new]
  PROVE  Places' /\ place'[d] = new /\ \A e \in Directories \ {d} : place'[e] = place[e]
<1>1. new \in Directory
  BY Zenon DEF Sound
<1>2. place'[d] = new /\ \A e \in Directories \ {d} : place'[e] = place[e]
  BY DEF Places
<1>3. place' \in [Directories -> Directory]
  BY <1>1 DEF Places
<1>4. \A e \in Directories : Sound(place'[e])
  BY <1>2 DEF Places
<1> QED
  BY <1>2, <1>3, <1>4 DEF Places

LEMMA JobStep ==
  ASSUME Jobs, NEW d \in Installations, NEW new \in Job, job' = [job EXCEPT ![d] = new]
  PROVE  Jobs' /\ job'[d] = new /\ \A e \in Installations \ {d} : job'[e] = job[e]
BY Zenon DEF Jobs

LEMMA GotoStep ==
  ASSUME Jobs, NEW d \in Installations, NEW label \in Labels, Goto(d, label)
  PROVE  /\ Jobs' /\ job'[d].at = label /\ job'[d].what = job[d].what
         /\ \A e \in Installations \ {d} : job'[e] = job[e]
<1>1. job[d] \in Job
  BY DEF Jobs
<1>2. [job[d] EXCEPT !.at = label] \in Job /\ [job[d] EXCEPT !.at = label].at = label
      /\ [job[d] EXCEPT !.at = label].what = job[d].what
  BY <1>1 DEF Job
<1>3. job' = [job EXCEPT ![d] = [job[d] EXCEPT !.at = label]]
  BY DEF Goto
<1> QED
  BY <1>2, <1>3, JobStep

LEMMA IdleJob == Idle \in Job /\ Idle.at = "idle"
BY DEF Idle, Job, Labels

\* What a process works on stands when neither it nor its directory moves, or it works on nothing.
LEMMA WorkingFrame ==
  ASSUME NEW d \in Installations, Working(d), job'[d] = job[d],
         place'[d].now = place[d].now, place'[d].index = place[d].index,
         place[d].lasting.keys \subseteq place'[d].lasting.keys
  PROVE  Working(d)'
BY DEF Working, Has, NextKey, EpochAllows

LEMMA WorkingVoid ==
  ASSUME NEW d \in Installations, job'[d].at \notin Publishing \cup Crediting
  PROVE  Working(d)'
BY Zenon DEF Working, Publishing, Crediting

LEMMA SourceFrame ==
  ASSUME SourceInv, source' = source, outages' = outages,
         job'["source"].at # "idle" => source.now.parts = Parts
  PROVE  SourceInv'
BY DEF SourceInv, source

\* Nothing makes a backup after the step, and the backup is what it was.
LEMMA BackupStands ==
  ASSUME BackupInv, backup' = backup, "backup" \in reported' => "backup" \in reported,
         job'["source"].at \notin BackingUp
  PROVE  BackupInv'
BY Zenon DEF BackupInv, BackingUp, Has, Copies, backup

LEMMA BackupFrame ==
  ASSUME BackupInv, backup' = backup, "backup" \in reported' => "backup" \in reported,
         job'["source"] = job["source"], source' = source,
         restored.exists' => restored.exists \/ Has("backup", {"manifest"})
  PROVE  BackupInv'
BY Zenon DEF BackupInv, BackingUp, Has, Copies, backup, source

\* Nothing is restored, before or after.
LEMMA RestoreVoid ==
  ASSUME Sound(restored)', ~restored.exists', job'["restored"].at \notin Restoring \cup Serving
  PROVE  RestoreInv'
<1>1. restored' = Absent
  BY Zenon DEF Sound
<1>2. restored'.now.files = {} /\ restored'.index = NewIndex /\ ~restored'.exists
  BY <1>1 DEF Absent, NoContent
<1>3. EpochsUpTo(NewIndex, MaxEpoch + 1)
  BY Bounds, NewIndexType
<1> QED
  BY <1>2, <1>3 DEF RestoreInv, Restoring, Serving, Publishing, Crediting, Has, restored

LEMMA RestoreFrame ==
  ASSUME RestoreInv, restored' = restored, backup'.now = backup.now, backup'.index = backup.index,
         "restore" \in reported' => "restore" \in reported, job'["restored"] = job["restored"], outages' = outages
  PROVE  RestoreInv'
BY Zenon DEF RestoreInv, Inspected, Has, Moved, Copies, restored, backup

\* A directory that is not there holds nobody's process.
LEMMA NobodyInVoid ==
  ASSUME Places, RestoreInv, ~restored.exists
  PROVE  job["restored"].at \notin Restoring \cup Serving
<1>1. restored = Absent
  BY Zenon DEF Places, Sound, restored, Directories
<1>2. restored.now.files = {}
  BY <1>1 DEF Absent, NoContent
<1> QED
  BY <1>2 DEF RestoreInv, Has, restored

LEMMA TypedParts ==
  Typed <=> /\ Places /\ Jobs /\ reported \subseteq {"backup", "restore"} /\ outages \in 0..MaxOutages
            /\ Working("source") /\ Working("restored")
BY Zenon DEF Typed, Places, Jobs, Installations

LEMMA TypedNext ==
  ASSUME Places', Jobs', reported' \subseteq {"backup", "restore"}, outages' \in 0..MaxOutages,
         Working("source")', Working("restored")'
  PROVE  Typed'
<1>1. ASSUME NEW d \in Installations PROVE Working(d)'
  BY DEF Installations
<1> QED
  BY <1>1, Zenon DEF Typed, Places, Jobs

-----------------------------------------------------------------------------
(* What holds of a directory that is served or maintained.                 *)

EpochBound(d) == IF d = "restored" THEN MaxEpoch + 1 ELSE MaxEpoch

\* What the processes that use an installation do to its directory: names and
\* keys are added, an identity becomes active with a key that lasts, a version
\* is recorded with its object.
Serves(old, new, n) ==
  /\ new.exists = old.exists /\ new.now.parts = old.now.parts /\ new.lasting.parts = old.lasting.parts
  /\ old.now.files \subseteq new.now.files /\ old.lasting.files \subseteq new.lasting.files
  /\ old.lasting.keys \subseteq new.lasting.keys
  /\ new.index.schema = old.index.schema
  /\ EpochsUpTo(new.index, n)
  /\ \A w \in Identities : \/ new.index.workers[w] = old.index.workers[w]
                           \/ new.index.workers[w].status # "active"
                           \/ new.index.workers[w].key \in new.lasting.keys
  /\ new.index.versions \subseteq old.index.versions \cup new.now.files

LEMMA ServedSource ==
  ASSUME SourceInv, source.now.parts = Parts, Serves(source, source', MaxEpoch), outages' = outages
  PROVE  SourceInv'
<1>1. source'.now.parts = Parts /\ EpochsUpTo(source'.index, MaxEpoch)
  BY DEF Serves
<1>2. ASSUME NEW w \in Identities, source'.index.workers[w].status = "active",
             source'.index.workers[w].key # Token("source")
      PROVE  source'.index.workers[w].key \in source'.lasting.keys
  BY <1>2 DEF Serves, SourceInv
<1>3. outages' = 0 => source'.index.versions \subseteq source'.now.files
  BY DEF Serves, SourceInv
<1> QED
  BY <1>1, <1>2, <1>3, Zenon DEF SourceInv

LEMMA ServedRestored ==
  ASSUME RestoreInv, restored.now.parts = Parts, Has("restored", {"marker"}),
         Serves(restored, restored', MaxEpoch + 1), outages' = outages, backup' = backup,
         reported' = reported, job'["restored"].at \in Serving \cup {"idle"}
  PROVE  RestoreInv'
<1>1. restored'.now.parts = Parts /\ "marker" \in restored'.now.files /\ EpochsUpTo(restored'.index, MaxEpoch + 1)
  BY DEF Serves, Has, restored
<1>2. job'["restored"].at \notin Restoring
  BY DEF Serving, Publishing, Crediting, Restoring
<1>3. Moved' = Moved
  BY DEF Moved, Copies
<1>4. Moved \cup {"lock"} \subseteq restored'.lasting.files /\ restored'.index.schema = 2
  BY DEF Serves, RestoreInv
<1>5. ASSUME NEW w \in Identities, restored'.index.workers[w].status = "active"
      PROVE  restored'.index.workers[w].key \in restored'.lasting.keys
  <2>1. restored.index.workers[w].status = "active" => restored.index.workers[w].key \in restored.lasting.keys
    BY Zenon DEF RestoreInv
  <2> QED
    BY <1>5, <2>1 DEF Serves
<1>6. outages' = 0 => restored'.index.versions \subseteq restored'.now.files
  <2>1. outages = 0 => restored.index.versions \subseteq restored.now.files
    BY Zenon DEF RestoreInv
  <2> QED
    BY <2>1 DEF Serves
<1>7. "restore" \in reported' /\ restored'.exists =>
        {"marker", "settings"} \subseteq restored'.lasting.files /\ restored'.lasting.parts = Parts
  <2>1. restored'.exists => restored.exists
    BY Zenon DEF Serves
  <2>2. restored.lasting.files \subseteq restored'.lasting.files /\ restored'.lasting.parts = restored.lasting.parts
    BY Zenon DEF Serves
  <2>3. "restore" \in reported /\ restored.exists =>
          {"marker", "settings"} \subseteq restored.lasting.files /\ restored.lasting.parts = Parts
    BY Zenon DEF RestoreInv
  <2> QED
    BY <2>1, <2>2, <2>3
<1>8. /\ job'["restored"].at \notin {"restore.copy", "restore.retire", "restore.sync", "restore.marker", "restore.last"}
      /\ \A x \in Restoring \ {"restore.last"} : job'["restored"].at # x
  BY <1>2 DEF Restoring
<1>9. Has("restored", {"marker"})'
  BY <1>1 DEF Has, restored
<1> HIDE DEF restored
<1> QED
  BY <1>1, <1>2, <1>3, <1>4, <1>5, <1>6, <1>7, <1>8, <1>9 DEF RestoreInv

\* A step in one installation, which nobody copies.
LEMMA InOne ==
  ASSUME IInv, NEW d \in Installations, NEW new, Sound(new), place' = [place EXCEPT ![d] = new],
         Jobs', \A e \in Installations \ {d} : job'[e] = job[e], Working(d)', reported' = reported, outages' = outages,
         d = "source" => SourceInv' /\ job'["source"].at \notin BackingUp,
         d = "restored" => RestoreInv' /\ new.exists = restored.exists
  PROVE  IInv'
<1>1. Places /\ Working("source") /\ Working("restored") /\ reported \subseteq {"backup", "restore"}
      /\ outages \in 0..MaxOutages
  BY TypedParts DEF IInv
<1>2. Places' /\ place'[d] = new /\ \A e \in Directories \ {d} : place'[e] = place[e]
  BY <1>1, PlaceStep DEF Directories, Installations
<1>3. CASE d = "source"
  <2>1. backup' = backup /\ restored' = restored /\ job'["restored"] = job["restored"]
    BY <1>2, <1>3 DEF Directories, Installations, backup, restored
  <2>2. BackupInv'
    BY <1>3, <2>1, BackupStands DEF IInv
  <2>3. RestoreInv'
    BY <2>1, RestoreFrame DEF IInv
  <2>4. Working("restored")'
    BY <1>1, <2>1, WorkingFrame DEF restored, Installations
  <2>5. Working("source")'
    BY <1>3, Zenon
  <2>6. Typed'
    BY <1>1, <1>2, <2>4, <2>5, TypedNext
  <2> QED
    BY <1>3, <2>2, <2>3, <2>6 DEF IInv
<1>4. CASE d = "restored"
  <2>1. restored' = new /\ backup' = backup /\ source' = source /\ job'["source"] = job["source"]
    BY <1>2, <1>4 DEF Directories, Installations, source, backup, restored
  <2>2. BackupInv'
    BY <1>4, <2>1, BackupFrame DEF IInv
  <2>3. SourceInv'
    BY <2>1, SourceFrame DEF IInv, SourceInv
  <2>4. Working("source")'
    BY <1>1, <2>1, WorkingFrame DEF source, Installations
  <2>5. Working("restored")'
    BY <1>4, Zenon
  <2>6. Typed'
    BY <1>1, <1>2, <2>4, <2>5, TypedNext
  <2> QED
    BY <1>4, <2>2, <2>3, <2>6 DEF IInv
<1> QED
  BY <1>3, <1>4 DEF Installations

\* A step of a process that uses an installation, or is about to.
LEMMA Served ==
  ASSUME IInv, NEW d \in Installations, NEW new, Sound(new), Serves(place[d], new, EpochBound(d)),
         place' = [place EXCEPT ![d] = new], place[d].now.parts = Parts,
         d = "restored" => Has("restored", {"marker"}),
         Jobs', \A e \in Installations \ {d} : job'[e] = job[e], job'[d].at \in Serving \cup {"idle"}, Working(d)',
         reported' = reported, outages' = outages
  PROVE  IInv'
<1>1. place'[d] = new /\ \A e \in Directories \ {d} : place'[e] = place[e]
  BY TypedParts, PlaceStep DEF IInv, Directories, Installations
<1>2. ASSUME d = "source" PROVE SourceInv' /\ job'["source"].at \notin BackingUp
  <2>1. Serves(source, source', MaxEpoch) /\ source.now.parts = Parts
    BY <1>1, <1>2 DEF EpochBound, source
  <2>2. SourceInv'
    BY <2>1, ServedSource DEF IInv
  <2>3. job'["source"].at \notin BackingUp
    BY <1>2 DEF BackingUp, Serving, Publishing, Crediting
  <2> QED
    BY <2>2, <2>3
<1>3. ASSUME d = "restored" PROVE RestoreInv' /\ new.exists = restored.exists
  <2>1. Serves(restored, restored', MaxEpoch + 1) /\ restored.now.parts = Parts /\ backup' = backup
    BY <1>1, <1>3 DEF EpochBound, restored, backup, Directories
  <2>2. RestoreInv'
    BY <1>3, <2>1, ServedRestored DEF IInv
  <2>3. new.exists = restored.exists
    BY <1>3, Zenon DEF Serves, restored
  <2> QED
    BY <2>2, <2>3
<1> QED
  BY <1>2, <1>3, InOne

-----------------------------------------------------------------------------
(* The steps of the processes that use an installation.                    *)

LEMMA Reindexed ==
  ASSUME NEW dir, Sound(dir), dir.exists, NEW index \in Index
  PROVE  LET new == [dir EXCEPT !.index = index] IN
         /\ Sound(new) /\ new.exists = dir.exists /\ new.now = dir.now /\ new.lasting = dir.lasting
         /\ new.index = index /\ new.hot = dir.hot
<1>1. dir \in Directory /\ dir.hot \in BOOLEAN
  BY DEF Sound, Directory
<1>2. [dir EXCEPT !.index = index] = [dir EXCEPT !.index = index, !.hot = dir.hot]
  BY <1>1 DEF Directory
<1> DEFINE new == [dir EXCEPT !.index = index]
<1>3. new.exists = dir.exists /\ new.now = dir.now /\ new.lasting = dir.lasting
      /\ new.index = index /\ new.hot = dir.hot
  BY <1>1 DEF Directory
<1>4. Sound([dir EXCEPT !.index = index, !.hot = dir.hot])
  BY <1>1, SoundIndexed
<1>5. Sound(new)
  BY <1>2, <1>4, Zenon
<1> QED
  BY <1>3, <1>5, Zenon

LEMMA ReidentifiedIndex ==
  ASSUME NEW index \in Index, NEW w \in Identities, NEW identity \in Identity
  PROVE  LET new == [index EXCEPT !.workers = [index.workers EXCEPT ![w] = identity]] IN
         /\ new \in Index /\ new.schema = index.schema /\ new.versions = index.versions
         /\ new.workers[w] = identity /\ \A v \in Identities \ {w} : new.workers[v] = index.workers[v]
<1> DEFINE workers == [index.workers EXCEPT ![w] = identity]
<1>1. index.workers \in [Identities -> Identity]
  BY DEF Index
<1>2. workers \in [Identities -> Identity] /\ workers[w] = identity
      /\ \A v \in Identities \ {w} : workers[v] = index.workers[v]
  BY <1>1
<1> HIDE DEF workers
<1>3. [index EXCEPT !.workers = workers] = [schema |-> index.schema, workers |-> workers, versions |-> index.versions]
  BY DEF Index
<1>4. [index EXCEPT !.workers = workers] \in Index
  BY <1>2, <1>3 DEF Index
<1>5. /\ [index EXCEPT !.workers = workers] \in Index
      /\ [index EXCEPT !.workers = workers].schema = index.schema
      /\ [index EXCEPT !.workers = workers].versions = index.versions
      /\ [index EXCEPT !.workers = workers].workers[w] = identity
      /\ \A v \in Identities \ {w} : [index EXCEPT !.workers = workers].workers[v] = index.workers[v]
  BY <1>2, <1>3, <1>4
<1> QED
  BY <1>5 DEF workers

\* An installation in use is whole.
LEMMA InUse ==
  ASSUME IInv, NEW d \in Installations, job[d].at \in Serving
  PROVE  /\ place[d].now.parts = Parts /\ place[d].exists /\ Sound(place[d])
         /\ d = "restored" => Has("restored", {"marker"})
         /\ EpochsUpTo(place[d].index, EpochBound(d))
<1>1. Sound(place[d])
  BY TypedParts DEF IInv, Places, Installations, Directories
<1>2. place[d].now.parts = Parts /\ EpochsUpTo(place[d].index, EpochBound(d))
      /\ (d = "restored" => Has("restored", {"marker"}))
  <2>1. CASE d = "source"
    <3>1. job["source"].at # "idle"
      BY <2>1 DEF Serving, Publishing, Crediting
    <3> QED
      BY <2>1, <3>1 DEF IInv, SourceInv, EpochBound, source
  <2>2. CASE d = "restored"
    BY <2>2 DEF IInv, RestoreInv, EpochBound, restored
  <2> QED
    BY <2>1, <2>2 DEF Installations
<1>3. place[d].exists
  <2>1. ASSUME ~place[d].exists PROVE FALSE
    <3>1. place[d] = Absent
      BY <1>1, <2>1, Zenon DEF Sound
    <3> QED
      BY <1>2, <3>1 DEF Absent, NoContent, Parts
  <2> QED
    BY <2>1
<1> QED
  BY <1>1, <1>2, <1>3

LEMMA ServesSelf ==
  ASSUME NEW dir, NEW n, EpochsUpTo(dir.index, n)
  PROVE  Serves(dir, dir, n)
BY DEF Serves

\* A step that leaves the directory as it is.
LEMMA ServedUnmoved ==
  ASSUME IInv, NEW d \in Installations, job[d].at \in Serving, place' = place,
         Jobs', \A e \in Installations \ {d} : job'[e] = job[e], job'[d].at \in Serving \cup {"idle"}, Working(d)',
         reported' = reported, outages' = outages
  PROVE  IInv'
<1>1. Places
  BY TypedParts DEF IInv
<1>2. place' = [place EXCEPT ![d] = place[d]]
  BY <1>1 DEF Places
<1>3. Serves(place[d], place[d], EpochBound(d)) /\ Sound(place[d]) /\ place[d].now.parts = Parts
      /\ (d = "restored" => Has("restored", {"marker"}))
  BY InUse, ServesSelf
<1> QED
  BY <1>2, <1>3, Served

LEMMA CloseStep == ASSUME IInv, NEW d \in Installations, Close(d) PROVE IInv'
<1>1. job[d].at \in Serving /\ job' = [job EXCEPT ![d] = Idle] /\ place' = place /\ reported' = reported /\ outages' = outages
  BY DEF Close, Serving
<1>2. Jobs' /\ job'[d] = Idle /\ \A e \in Installations \ {d} : job'[e] = job[e]
  BY <1>1, JobStep, IdleJob, TypedParts DEF IInv
<1>3. job'[d].at = "idle"
  BY <1>2, IdleJob
<1>4. Working(d)'
  BY <1>3, WorkingVoid DEF Publishing, Crediting
<1> QED
  BY <1>1, <1>2, <1>3, <1>4, ServedUnmoved

LEMMA BeginPublishStep == ASSUME IInv, NEW d \in Installations, BeginPublish(d) PROVE IInv'
<1>1. PICK c \in Contents : job' = [job EXCEPT ![d] = [at |-> "placing", what |-> c]]
  BY DEF BeginPublish
<1>2. job[d].at \in Serving /\ place' = place /\ reported' = reported /\ outages' = outages
  BY DEF BeginPublish, Serving
<1>3. [at |-> "placing", what |-> c] \in Job
  BY DEF Job, Labels
<1>4. Jobs' /\ job'[d] = [at |-> "placing", what |-> c] /\ \A e \in Installations \ {d} : job'[e] = job[e]
  BY <1>1, <1>3, JobStep, TypedParts DEF IInv
<1>5. job'[d].at = "placing" /\ job'[d].what = c /\ job'[d].at \in Serving
  BY <1>4 DEF Serving, Publishing
<1>6. Working(d)'
  BY <1>5 DEF Working, Publishing, Crediting
<1> QED
  BY <1>2, <1>4, <1>5, <1>6, ServedUnmoved

LEMMA PlaceObjectStep == ASSUME IInv, NEW d \in Installations, PlaceObject(d) PROVE IInv'
<1> DEFINE c == job[d].what
<1>1. job[d].at = "placing" /\ reported' = reported /\ outages' = outages
  BY DEF PlaceObject
<1>2. job[d].at \in Serving /\ Jobs /\ Working(d)
  BY <1>1, TypedParts DEF Serving, Publishing, IInv, Installations
<1>3. c \in Contents
  BY <1>1, <1>2 DEF Working, Publishing
<1>4. CASE Has(d, {c})
  <2>1. place' = place /\ Goto(d, "committing")
    BY <1>4 DEF PlaceObject
  <2>2. Jobs' /\ job'[d].at = "committing" /\ job'[d].what = c /\ \A e \in Installations \ {d} : job'[e] = job[e]
    BY <1>2, <2>1, GotoStep DEF Labels
  <2>3. Working(d)' /\ job'[d].at \in Serving
    BY <1>3, <1>4, <2>1, <2>2 DEF Working, Publishing, Crediting, Has, Serving
  <2> QED
    BY <1>1, <1>2, <2>1, <2>2, <2>3, ServedUnmoved
<1>5. CASE ~Has(d, {c})
  <2> DEFINE new == Written(place[d], {c})
  <2>1. place' = [place EXCEPT ![d] = new] /\ Goto(d, "syncing")
    BY <1>5 DEF PlaceObject
  <2>2. Jobs' /\ job'[d].at = "syncing" /\ job'[d].what = c /\ \A e \in Installations \ {d} : job'[e] = job[e]
    BY <1>2, <2>1, GotoStep DEF Labels
  <2>3. place[d].now.parts = Parts /\ place[d].exists /\ Sound(place[d]) /\ EpochsUpTo(place[d].index, EpochBound(d))
        /\ (d = "restored" => Has("restored", {"marker"}))
    BY <1>2, InUse
  <2>4. {c} \in SUBSET Names /\ \A f \in {c} : Part(f) \in Parts
    BY <1>3, ObjectNames, PartOf DEF Parts
  <2>5. Sound(new)
    BY <2>3, <2>4, SoundWritten
  <2>6. /\ new.exists = place[d].exists /\ new.now.parts = place[d].now.parts /\ new.lasting = place[d].lasting
        /\ new.now.files = place[d].now.files \cup {c} /\ new.index = place[d].index
    BY <2>3, <2>4, WrittenFields DEF Sound
  <2> HIDE DEF new, c
  <2>7. Serves(place[d], new, EpochBound(d))
    BY <2>3, <2>6 DEF Serves
  <2>8. place'[d] = new
    BY <2>1, TypedParts DEF IInv, Places, Installations, Directories
  <2>9. Working(d)' /\ job'[d].at \in Serving
    BY <1>3, <2>2, <2>6, <2>8 DEF Working, Publishing, Crediting, Has, Serving
  <2> QED
    BY <1>1, <2>1, <2>2, <2>3, <2>5, <2>7, <2>9, Served
<1> QED
  BY <1>4, <1>5

LEMMA SyncObjectsStep == ASSUME IInv, NEW d \in Installations, SyncObjects(d) PROVE IInv'
<1> DEFINE new == Synced(place[d], {"objects"})
<1>1. /\ job[d].at = "syncing" /\ reported' = reported /\ outages' = outages
      /\ place' = [place EXCEPT ![d] = new] /\ Goto(d, "committing")
  BY DEF SyncObjects
<1>2. job[d].at \in Serving /\ Jobs /\ Working(d)
  BY <1>1, TypedParts DEF Serving, Publishing, IInv, Installations
<1>3. job[d].what \in Contents /\ Has(d, {job[d].what})
  BY <1>1, <1>2 DEF Working, Publishing
<1>4. place[d].now.parts = Parts /\ place[d].exists /\ Sound(place[d]) /\ EpochsUpTo(place[d].index, EpochBound(d))
      /\ (d = "restored" => Has("restored", {"marker"}))
  BY <1>2, InUse
<1>5. Jobs' /\ job'[d].at = "committing" /\ job'[d].what = job[d].what
      /\ \A e \in Installations \ {d} : job'[e] = job[e]
  BY <1>1, <1>2, GotoStep DEF Labels
<1>6. Sound(new)
  BY <1>4, SoundSynced
<1>7. /\ new.exists = place[d].exists /\ new.now = place[d].now /\ new.index = place[d].index
      /\ new.lasting.parts = place[d].lasting.parts /\ new.lasting.keys = place[d].lasting.keys
      /\ place[d].lasting.files \subseteq new.lasting.files
  BY <1>4, SyncedFields DEF Sound
<1> HIDE DEF new
<1>8. Serves(place[d], new, EpochBound(d))
  BY <1>4, <1>7 DEF Serves
<1>9. place'[d] = new
  BY <1>1, TypedParts DEF IInv, Places, Installations, Directories
<1>10. Working(d)' /\ job'[d].at \in Serving
  BY <1>3, <1>5, <1>7, <1>9 DEF Working, Publishing, Crediting, Has, Serving
<1> QED
  BY <1>1, <1>4, <1>5, <1>6, <1>8, <1>10, Served

LEMMA CommitVersionStep == ASSUME IInv, NEW d \in Installations, CommitVersion(d) PROVE IInv'
<1> DEFINE old == place[d]
           index == [old.index EXCEPT !.versions = @ \cup {job[d].what}]
           new == [old EXCEPT !.index = index]
           end == [at |-> "serving", what |-> "none"]
<1>1. /\ job[d].at = "committing" /\ reported' = reported /\ outages' = outages
      /\ place' = [place EXCEPT ![d] = new] /\ job' = [job EXCEPT ![d] = end]
  BY DEF CommitVersion
<1>2. job[d].at \in Serving /\ Jobs /\ Working(d)
  BY <1>1, TypedParts DEF Serving, Publishing, IInv, Installations
<1>3. job[d].what \in Contents /\ job[d].what \in old.now.files
  BY <1>1, <1>2 DEF Working, Publishing, Has
<1>4. old.now.parts = Parts /\ old.exists /\ Sound(old) /\ EpochsUpTo(old.index, EpochBound(d))
      /\ (d = "restored" => Has("restored", {"marker"}))
  BY <1>2, InUse
<1>5. end \in Job /\ end.at = "serving"
  BY DEF Job, Labels
<1>6. Jobs' /\ job'[d] = end /\ \A e \in Installations \ {d} : job'[e] = job[e]
  BY <1>1, <1>2, <1>5, JobStep
<1> HIDE DEF end
<1>7. old.index \in Index
  BY <1>4 DEF Sound, Directory
<1>8. /\ index \in Index /\ index.schema = old.index.schema /\ index.workers = old.index.workers
      /\ index.versions = old.index.versions \cup {job[d].what}
  BY <1>3, <1>7 DEF Index
<1> HIDE DEF index
<1>9. Sound(new) /\ new.exists = old.exists /\ new.now = old.now /\ new.lasting = old.lasting /\ new.index = index
  BY <1>4, <1>8, Reindexed
<1> HIDE DEF new
<1>10. EpochsUpTo(new.index, EpochBound(d))
  BY <1>4, <1>8, <1>9 DEF EpochsUpTo
<1>11. Serves(old, new, EpochBound(d))
  BY <1>3, <1>8, <1>9, <1>10 DEF Serves
<1>12. Working(d)' /\ job'[d].at \in Serving
  BY <1>5, <1>6, WorkingVoid DEF Publishing, Crediting, Serving
<1> QED
  BY <1>1, <1>4, <1>6, <1>9, <1>11, <1>12, Served

\* An identity of an index gets another status, epoch or key.
LEMMA Reidentified ==
  ASSUME IInv, NEW d \in Installations, job[d].at \in Serving, NEW w \in Identities, NEW identity \in Identity,
         identity.epoch <= EpochBound(d),
         identity.status # "active" \/ identity.key \in place[d].lasting.keys,
         place' = [place EXCEPT ![d] = [place[d] EXCEPT !.index = [place[d].index EXCEPT !.workers =
                                             [place[d].index.workers EXCEPT ![w] = identity]]]],
         Jobs', \A e \in Installations \ {d} : job'[e] = job[e], job'[d].at \in {"serving", "idle"},
         reported' = reported, outages' = outages
  PROVE  IInv'
<1> DEFINE old == place[d]
           index == [old.index EXCEPT !.workers = [old.index.workers EXCEPT ![w] = identity]]
           new == [old EXCEPT !.index = index]
<1>1. old.now.parts = Parts /\ old.exists /\ Sound(old) /\ EpochsUpTo(old.index, EpochBound(d))
      /\ (d = "restored" => Has("restored", {"marker"}))
  BY InUse
<1>2. old.index \in Index
  BY <1>1 DEF Sound, Directory
<1>3. /\ index \in Index /\ index.schema = old.index.schema /\ index.versions = old.index.versions
      /\ index.workers[w] = identity /\ \A v \in Identities \ {w} : index.workers[v] = old.index.workers[v]
  BY <1>2, ReidentifiedIndex
<1>4. place' = [place EXCEPT ![d] = new]
  OBVIOUS
<1> HIDE DEF index
<1>5. Sound(new) /\ new.exists = old.exists /\ new.now = old.now /\ new.lasting = old.lasting /\ new.index = index
  BY <1>1, <1>3, Reindexed
<1> HIDE DEF new
<1>6. EpochsUpTo(new.index, EpochBound(d))
  BY <1>1, <1>3, <1>5 DEF EpochsUpTo
<1>7. Serves(old, new, EpochBound(d))
  BY <1>3, <1>5, <1>6 DEF Serves
<1>8. Working(d)' /\ job'[d].at \in Serving \cup {"idle"}
  BY WorkingVoid DEF Publishing, Crediting, Serving
<1> QED
  BY <1>1, <1>4, <1>5, <1>7, <1>8, Served

LEMMA EpochType ==
  ASSUME NEW index \in Index, NEW w \in Identities
  PROVE  index.workers[w] \in Identity /\ index.workers[w].epoch \in Nat
<1>1. index.workers[w] \in Identity
  BY DEF Index
<1> QED
  BY <1>1, Bounds DEF Identity

LEMMA RevokeStep == ASSUME IInv, NEW d \in Installations, NEW w \in Identities, Revoke(d, w) PROVE IInv'
<1> DEFINE old == place[d].index.workers[w]
           identity == [old EXCEPT !.status = "revoked", !.epoch = @ + 1]
<1>1. /\ job[d].at = "serving" /\ job' = job /\ reported' = reported /\ outages' = outages
      /\ old.epoch < EpochBound(d)
  BY DEF Revoke, EpochAllows, EpochBound
<1>2. place' = [place EXCEPT ![d] = [place[d] EXCEPT !.index = [place[d].index EXCEPT !.workers =
                                             [place[d].index.workers EXCEPT ![w] = identity]]]]
  <2>1. place[d].index \in Index
    BY TypedParts DEF IInv, Places, Installations, Directories, Directory
  <2> QED
    BY <2>1 DEF Revoke
<1>3. old \in Identity /\ old.epoch \in Nat
  <2>1. place[d].index \in Index
    BY TypedParts DEF IInv, Places, Installations, Directories, Directory
  <2> QED
    BY <2>1, EpochType
<1> HIDE DEF old
<1>4. EpochBound(d) \in Nat /\ EpochBound(d) <= MaxEpoch + 1
  BY Bounds DEF EpochBound
<1>5. old.epoch + 1 \in 0..MaxEpoch + 2 /\ old.epoch + 1 <= EpochBound(d)
  BY <1>1, <1>3, <1>4, Bounds
<1>6. identity \in Identity /\ identity.status = "revoked" /\ identity.epoch = old.epoch + 1
  BY <1>3, <1>5 DEF Identity
<1> HIDE DEF identity
<1>7. job[d].at \in Serving /\ Jobs' /\ \A e \in Installations \ {d} : job'[e] = job[e]
  BY <1>1, TypedParts DEF Serving, IInv, Jobs
<1> QED
  BY <1>1, <1>2, <1>5, <1>6, <1>7, Reidentified

LEMMA NextKeyType ==
  ASSUME NEW d \in Installations, NEW w \in Identities, place[d].index \in Index, EpochAllows(d, w)
  PROVE  /\ NextKey(d, w) \in Key /\ NextKey(d, w).epoch = place[d].index.workers[w].epoch + 1
         /\ NextKey(d, w).epoch <= EpochBound(d)
<1>1. place[d].index.workers[w].epoch \in Nat
  BY EpochType
<1>2. place[d].index.workers[w].epoch < EpochBound(d)
  BY DEF EpochAllows, EpochBound
<1>3. EpochBound(d) \in Nat /\ EpochBound(d) <= MaxEpoch + 1
  BY Bounds DEF EpochBound
<1>4. place[d].index.workers[w].epoch + 1 \in 0..MaxEpoch + 2
      /\ place[d].index.workers[w].epoch + 1 <= EpochBound(d)
  BY <1>1, <1>2, <1>3, Bounds
<1> QED
  BY <1>4 DEF NextKey, Key

LEMMA WriteKeyStep == ASSUME IInv, NEW d \in Installations, NEW w \in Identities, WriteKey(d, w) PROVE IInv'
<1> DEFINE old == place[d]
           key == NextKey(d, w)
           new == [old EXCEPT !.now = [old.now EXCEPT !.keys = @ \cup {key}]]
           next == [at |-> "key.sync", what |-> w]
<1>1. /\ job[d].at = "maintenance" /\ reported' = reported /\ outages' = outages /\ EpochAllows(d, w)
      /\ place' = [place EXCEPT ![d] = new] /\ job' = [job EXCEPT ![d] = next]
  BY DEF WriteKey
<1>2. job[d].at \in Serving /\ Jobs
  BY <1>1, TypedParts DEF Serving, IInv
<1>3. old.now.parts = Parts /\ old.exists /\ Sound(old) /\ EpochsUpTo(old.index, EpochBound(d))
      /\ (d = "restored" => Has("restored", {"marker"}))
  BY <1>2, InUse
<1>4. old \in Directory /\ old.index \in Index /\ old.now \in Content
  BY <1>3 DEF Sound, Directory
<1>5. key \in Key
  BY <1>1, <1>4, NextKeyType
<1>6. next \in Job /\ next.at = "key.sync" /\ next.what = w
  BY DEF Job, Labels
<1>7. Jobs' /\ job'[d] = next /\ \A e \in Installations \ {d} : job'[e] = job[e]
  BY <1>1, <1>2, <1>6, JobStep
<1> HIDE DEF next, key
<1>8. /\ new \in Directory /\ new.exists = old.exists /\ new.now.parts = old.now.parts
      /\ new.now.files = old.now.files /\ new.now.keys = old.now.keys \cup {key}
      /\ new.lasting = old.lasting /\ new.index = old.index
  BY <1>4, <1>5 DEF Directory, Content
<1> HIDE DEF new
<1>9. Sound(new)
  <2>1. /\ new.lasting.parts \subseteq new.now.parts /\ new.lasting.files \subseteq new.now.files
        /\ new.lasting.keys \subseteq new.now.keys
        /\ \A f \in new.now.files : Part(f) \in new.now.parts \cup {""}
    BY <1>3, <1>8 DEF Sound
  <2> QED
    BY <1>3, <1>8, <2>1, Zenon DEF Sound
<1>10. Serves(old, new, EpochBound(d))
  BY <1>3, <1>8 DEF Serves
<1>11. place'[d] = new
  BY <1>1, TypedParts DEF IInv, Places, Installations, Directories
<1>12. EpochAllows(d, w)' /\ NextKey(d, w)' = key
  BY <1>1, <1>8, <1>11 DEF EpochAllows, NextKey, key
<1>13. job'[d].at = "key.sync" /\ job'[d].what = w
  BY <1>6, <1>7
<1>14. /\ job'[d].at \in Serving /\ job'[d].at \notin Publishing
       /\ job'[d].at \notin {"syncing", "committing"} /\ job'[d].at # "key.commit"
  BY <1>13 DEF Publishing, Crediting, Serving
<1>15. Working(d)'
  BY <1>8, <1>11, <1>12, <1>13, <1>14 DEF Working, NextKey, EpochAllows
<1> QED
  BY <1>1, <1>3, <1>7, <1>9, <1>10, <1>14, <1>15, Served

LEMMA SyncKeyStep == ASSUME IInv, NEW d \in Installations, SyncKey(d) PROVE IInv'
<1> DEFINE old == place[d]
           synced == Synced(old, {"secrets"})
           new == [synced EXCEPT !.lasting.keys = @ \cup old.now.keys]
<1>1. /\ job[d].at = "key.sync" /\ reported' = reported /\ outages' = outages
      /\ place' = [place EXCEPT ![d] = new] /\ Goto(d, "key.commit")
  BY DEF SyncKey
<1>2. job[d].at \in Serving /\ Jobs /\ Working(d)
  BY <1>1, TypedParts DEF Serving, Crediting, IInv, Installations
<1>3. job[d].what \in Identities /\ EpochAllows(d, job[d].what) /\ NextKey(d, job[d].what) \in old.now.keys
  BY <1>1, <1>2 DEF Working, Crediting
<1>4. old.now.parts = Parts /\ old.exists /\ Sound(old) /\ EpochsUpTo(old.index, EpochBound(d))
      /\ (d = "restored" => Has("restored", {"marker"}))
  BY <1>2, InUse
<1>5. Jobs' /\ job'[d].at = "key.commit" /\ job'[d].what = job[d].what
      /\ \A e \in Installations \ {d} : job'[e] = job[e]
  BY <1>1, <1>2, GotoStep DEF Labels
<1>6. /\ Sound(synced) /\ synced.exists = old.exists /\ synced.now = old.now /\ synced.index = old.index
      /\ synced.lasting.parts = old.lasting.parts /\ synced.lasting.keys = old.lasting.keys
      /\ old.lasting.files \subseteq synced.lasting.files
  BY <1>4, SoundSynced, SyncedFields DEF Sound
<1> HIDE DEF synced
<1>7. /\ new \in Directory /\ new.exists = old.exists /\ new.now = old.now /\ new.index = old.index
      /\ new.lasting.parts = old.lasting.parts /\ new.lasting.files = synced.lasting.files
      /\ new.lasting.keys = old.lasting.keys \cup old.now.keys
  <2>1. synced \in Directory /\ synced.lasting \in Content /\ synced.now \in Content
    BY <1>6 DEF Sound, Directory
  <2> QED
    BY <1>6, <2>1 DEF Directory, Content
<1> HIDE DEF new
<1>8. Sound(new)
  <2>1. /\ new.lasting.parts \subseteq new.now.parts /\ new.lasting.files \subseteq new.now.files
        /\ new.lasting.keys \subseteq new.now.keys
        /\ \A f \in new.now.files : Part(f) \in new.now.parts \cup {""}
    BY <1>4, <1>6, <1>7 DEF Sound
  <2> QED
    BY <1>4, <1>7, <2>1, Zenon DEF Sound
<1>9. Serves(old, new, EpochBound(d))
  BY <1>4, <1>6, <1>7 DEF Serves
<1>10. place'[d] = new
  BY <1>1, TypedParts DEF IInv, Places, Installations, Directories
<1>11. /\ job'[d].at \in Serving /\ job'[d].at \notin Publishing /\ job'[d].at \notin {"syncing", "committing"}
  BY <1>5 DEF Publishing, Crediting, Serving
<1>12. Working(d)'
  BY <1>3, <1>5, <1>7, <1>10, <1>11 DEF Working, NextKey, EpochAllows
<1> QED
  BY <1>1, <1>4, <1>5, <1>8, <1>9, <1>11, <1>12, Served

LEMMA CommitKeyStep == ASSUME IInv, NEW d \in Installations, CommitKey(d) PROVE IInv'
<1> DEFINE w == job[d].what
           identity == [status |-> "active", epoch |-> NextKey(d, w).epoch, key |-> NextKey(d, w)]
<1>1. /\ job[d].at = "key.commit" /\ reported' = reported /\ outages' = outages /\ job' = [job EXCEPT ![d] = Idle]
      /\ place' = [place EXCEPT ![d] = [place[d] EXCEPT !.index = [place[d].index EXCEPT !.workers =
                                             [place[d].index.workers EXCEPT ![w] = identity]]]]
  BY DEF CommitKey
<1>2. job[d].at \in Serving /\ Jobs /\ Working(d)
  BY <1>1, TypedParts DEF Serving, Crediting, IInv, Installations
<1>3. w \in Identities /\ EpochAllows(d, w) /\ NextKey(d, w) \in place[d].lasting.keys
  BY <1>1, <1>2 DEF Working, Crediting
<1>4. place[d].index \in Index
  BY TypedParts DEF IInv, Places, Installations, Directories, Directory
<1>5. NextKey(d, w) \in Key /\ NextKey(d, w).epoch <= EpochBound(d) /\ NextKey(d, w).epoch \in 0..MaxEpoch + 2
  BY <1>3, <1>4, NextKeyType DEF Key
<1>6. Jobs' /\ job'[d].at = "idle" /\ \A e \in Installations \ {d} : job'[e] = job[e]
  BY <1>1, <1>2, JobStep, IdleJob
<1> HIDE DEF w
<1>7. identity \in Identity /\ identity.epoch <= EpochBound(d) /\ identity.key \in place[d].lasting.keys
  BY <1>3, <1>5 DEF Identity
<1> HIDE DEF identity
<1> QED
  BY <1>1, <1>2, <1>3, <1>6, <1>7, Reidentified

\* A directory with subdirectories is there.
LEMMA WholeIsThere ==
  ASSUME NEW dir, Sound(dir), NEW p \in dir.now.parts
  PROVE  dir.exists
<1>1. ASSUME ~dir.exists PROVE FALSE
  <2>1. dir = Absent
    BY <1>1, Zenon DEF Sound
  <2> QED
    BY <2>1 DEF Absent, NoContent
<1> QED
  BY <1>1

LEMMA AllSound == ASSUME IInv PROVE Places /\ Jobs /\ Sound(source) /\ Sound(backup) /\ Sound(restored)
BY TypedParts DEF IInv, Places, Directories, source, backup, restored

LEMMA OpenStep == ASSUME IInv, NEW d \in Installations, Open(d) PROVE IInv'
<1> DEFINE dir == place[d]
           old == IF Has(d, {"index"}) THEN dir.index ELSE NewIndex
           written == Written(dir, {"index", "lock"})
           synced == Synced(written, {"app"})
           new == [synced EXCEPT !.index = Migrated(d, old), !.hot = FALSE]
<1>1. /\ job[d] = Idle /\ Has(d, {"marker", "settings"}) /\ dir.now.parts = Parts
      /\ place' = [place EXCEPT ![d] = new] /\ reported' = reported /\ outages' = outages
      /\ Goto(d, "serving") \/ Goto(d, "maintenance")
  BY DEF Open, Accepted
<1>2. Places /\ Jobs /\ Sound(dir) /\ dir \in Directory /\ dir.index \in Index
  BY AllSound DEF Places, Installations, Directories, Directory
<1>3. dir.exists
  BY <1>1, <1>2, WholeIsThere DEF Parts
<1>4. {"index", "lock"} \in SUBSET Names /\ \A f \in {"index", "lock"} : Part(f) \in Parts
  BY PartOf DEF Names, Parts
<1>5. Jobs' /\ job'[d].at \in {"serving", "maintenance"} /\ \A e \in Installations \ {d} : job'[e] = job[e]
  BY <1>1, <1>2, GotoStep DEF Labels
<1>6. job'[d].at \in Serving /\ job'[d].at \notin BackingUp /\ Working(d)'
  BY <1>5, WorkingVoid DEF Serving, BackingUp, Publishing, Crediting
<1>7. old \in Index
  BY <1>2, NewIndexType
<1>8. /\ Sound(written) /\ written.exists = dir.exists /\ written.now.parts = dir.now.parts /\ written.lasting = dir.lasting
      /\ written.now.files = dir.now.files \cup {"index", "lock"}
  BY <1>1, <1>2, <1>3, <1>4, SoundWritten, WrittenFields
<1> HIDE DEF written
<1>9. /\ Sound(synced) /\ synced.exists = dir.exists /\ synced.now = written.now
      /\ synced.lasting.parts = dir.lasting.parts /\ synced.lasting.keys = dir.lasting.keys
      /\ dir.lasting.files \subseteq synced.lasting.files
  <2>1. written \in Directory /\ written.exists
    BY <1>3, <1>8 DEF Sound
  <2>2. Sound(synced)
    BY <1>8, <2>1, SoundSynced
  <2>3. /\ synced.exists = written.exists /\ synced.now = written.now
        /\ synced.lasting.parts = written.lasting.parts /\ synced.lasting.keys = written.lasting.keys
        /\ written.lasting.files \subseteq synced.lasting.files
    BY <2>1, SyncedFields
  <2> QED
    BY <1>8, <2>2, <2>3
<1> HIDE DEF synced, old
<1>10. Migrated(d, old) \in Index /\ Migrated(d, old).versions = old.versions
  BY <1>7, MigratedIndex
<1>11. /\ Sound(new) /\ new.exists = synced.exists /\ new.now = synced.now /\ new.lasting = synced.lasting
       /\ new.index = Migrated(d, old)
  <2>1. synced \in Directory /\ synced.exists
    BY <1>3, <1>9 DEF Sound
  <2> QED
    BY <1>9, <1>10, <2>1, SoundIndexed, IndexedFields
<1> HIDE DEF new
<1>12. place'[d] = new
  BY <1>1, <1>2 DEF Places, Installations, Directories
<1>13. CASE d = "source"
  <2>1. source' = new /\ dir = source
    BY <1>12, <1>13 DEF source
  <2>2. EpochsUpTo(old, MaxEpoch) /\ EpochsUpTo(source'.index, MaxEpoch)
    <3>1. EpochsUpTo(dir.index, MaxEpoch) /\ EpochsUpTo(NewIndex, MaxEpoch)
      BY <2>1, Bounds, NewIndexType DEF IInv, SourceInv
    <3>2. EpochsUpTo(old, MaxEpoch)
      BY <3>1 DEF old
    <3> QED
      BY <1>7, <1>11, <2>1, <3>2, Bounds, MigratedIndex
  <2>3. ASSUME NEW w \in Identities, source'.index.workers[w].status = "active",
               source'.index.workers[w].key # Token("source")
        PROVE  source'.index.workers[w].key \in source'.lasting.keys
    <3>1. source'.index.workers[w] = old.workers[w]
      BY <1>7, <1>11, <1>13, <2>1, <2>3, MigratedIndex
    <3>2. old = source.index
      BY <2>1, <2>3, <3>1, NewIndexType DEF old, NoneActive
    <3>3. source.index.workers[w].key \in source.lasting.keys
      BY <2>3, <3>1, <3>2 DEF IInv, SourceInv
    <3> QED
      BY <1>9, <1>11, <2>1, <3>1, <3>2, <3>3
  <2>4. outages' = 0 => source'.index.versions \subseteq source'.now.files
    <3>1. outages = 0 => old.versions \subseteq source.now.files
      BY <2>1, NewIndexType DEF old, IInv, SourceInv
    <3> QED
      BY <1>1, <1>8, <1>9, <1>10, <1>11, <2>1, <3>1
  <2>5. source'.now.parts = Parts
    BY <1>1, <1>8, <1>9, <1>11, <2>1
  <2>6. SourceInv'
    BY <2>2, <2>3, <2>4, <2>5, Zenon DEF SourceInv
  <2> QED
    BY <1>1, <1>5, <1>6, <1>11, <1>13, <2>6, InOne
<1>14. CASE d = "restored"
  <2>1. dir = restored /\ Has("restored", {"marker"})
    BY <1>1, <1>14 DEF restored, Has
  <2>2. "index" \in restored.lasting.files /\ restored.index.schema = 2
    <3>1. "index" \in Moved
      BY DEF Moved, Copies, Copied
    <3> QED
      BY <1>1, <2>1, <3>1 DEF IInv, RestoreInv
  <2>3. Has("restored", {"index"})
    BY <2>2, AllSound DEF Sound, Has, restored
  <2>4. new.index = restored.index
    BY <1>11, <1>14, <2>1, <2>2, <2>3 DEF old, Migrated
  <2>5. EpochsUpTo(restored.index, MaxEpoch + 1)
    BY DEF IInv, RestoreInv
  <2>6. Serves(restored, new, MaxEpoch + 1)
    BY <1>8, <1>9, <1>11, <2>1, <2>4, <2>5 DEF Serves
  <2>7. Serves(dir, new, EpochBound(d))
    BY <1>14, <2>1, <2>6 DEF EpochBound
  <2> QED
    BY <1>1, <1>5, <1>6, <1>11, <2>1, <2>7, Served
<1> QED
  BY <1>13, <1>14 DEF Installations

LEMMA DiesStep == ASSUME IInv, NEW d \in Installations, Dies(d) PROVE IInv'
<1> DEFINE dir == place[d]
<1>1. PICK hot \in {dir.hot, dir.hot \/ Torn(d)} : place' = [place EXCEPT ![d] = [dir EXCEPT !.hot = hot]]
  BY DEF Dies
<1> DEFINE new == [dir EXCEPT !.hot = hot]
<1>2. job' = [job EXCEPT ![d] = Idle] /\ reported' = reported /\ outages' = outages
  BY DEF Dies
<1>3. Places /\ Jobs /\ Sound(dir) /\ dir \in Directory /\ dir.hot \in BOOLEAN
  BY AllSound DEF Places, Installations, Directories, Directory
<1>4. hot \in BOOLEAN
  BY <1>3 DEF Torn
<1>5. Jobs' /\ job'[d].at = "idle" /\ \A e \in Installations \ {d} : job'[e] = job[e]
  BY <1>2, <1>3, JobStep, IdleJob
<1>6. job'[d].at \notin BackingUp /\ job'[d].at \notin Restoring \cup Serving /\ Working(d)'
  BY <1>5, WorkingVoid DEF BackingUp, Restoring, Serving, Publishing, Crediting
<1>7. new \in Directory /\ new.exists = dir.exists /\ new.now = dir.now /\ new.lasting = dir.lasting /\ new.index = dir.index
  BY <1>3, <1>4 DEF Directory
<1>8. Sound(new)
  <2>1. CASE Torn(d)
    <3>1. job[d].at \in Serving
      BY <2>1 DEF Torn, Serving, Publishing, Crediting
    <3>2. dir.exists
      BY <3>1, InUse
    <3>3. dir.index \in Index /\ new = [dir EXCEPT !.index = dir.index, !.hot = hot]
      BY <1>3 DEF Directory
    <3> QED
      BY <1>3, <1>4, <3>2, <3>3, SoundIndexed
  <2>2. CASE ~Torn(d)
    <3>1. hot = dir.hot
      BY <1>3, <2>2
    <3>2. new = dir
      BY <1>3, <3>1 DEF Directory
    <3> QED
      BY <1>3, <3>2
  <2> QED
    BY <2>1, <2>2
<1>9. place'[d] = new /\ \A e \in Directories \ {d} : place'[e] = place[e]
  BY <1>1, <1>3 DEF Places, Installations, Directories
<1> HIDE DEF new
<1>10. ASSUME d = "source" PROVE SourceInv' /\ job'["source"].at \notin BackingUp
  <2>1. source'.now = source.now /\ source'.lasting = source.lasting /\ source'.index = source.index
        /\ job'["source"].at = "idle"
    BY <1>5, <1>7, <1>9, <1>10 DEF source
  <2>2. SourceInv'
    BY <1>2, <2>1, Zenon DEF IInv, SourceInv
  <2> QED
    BY <1>6, <1>10, <2>2
<1>11. ASSUME d = "restored" PROVE RestoreInv' /\ new.exists = restored.exists
  <2>1. /\ restored'.now = restored.now /\ restored'.lasting = restored.lasting /\ restored'.index = restored.index
        /\ restored'.exists = restored.exists /\ backup' = backup /\ job'["restored"].at = "idle"
    BY <1>5, <1>7, <1>9, <1>11 DEF restored, backup, Directories
  <2>2. Has("restored", {"marker"})' = Has("restored", {"marker"}) /\ Moved' = Moved
    BY <2>1 DEF Has, Moved, Copies, restored
  <2>3. RestoreInv'
    BY <1>2, <2>1, <2>2 DEF IInv, RestoreInv, Restoring, Serving, Publishing, Crediting
  <2> QED
    BY <1>7, <1>11, <2>3 DEF restored
<1> HIDE DEF dir
<1>12. place' = [place EXCEPT ![d] = new]
  BY <1>1 DEF new, dir
<1> QED
  BY <1>2, <1>5, <1>6, <1>8, <1>10, <1>11, <1>12, InOne

-----------------------------------------------------------------------------
(* Making an installation.                                                 *)

LEMMA InitDirectoryStep == ASSUME IInv, InitDirectory PROVE IInv'
<1> DEFINE new == [source EXCEPT !.exists = TRUE, !.now = [source.now EXCEPT !.parts = Parts]]
<1>1. /\ source.now = NoContent /\ place' = [place EXCEPT !["source"] = new] /\ Goto("source", "init.files")
      /\ reported' = reported /\ outages' = outages
  BY DEF InitDirectory, source
<1>2. Places /\ Jobs /\ Sound(source) /\ source \in Directory /\ "source" \in Installations /\ "source" \in Directories
  BY AllSound DEF Sound, Installations, Directories
<1>3. /\ new \in Directory /\ new.exists = TRUE /\ new.now.parts = Parts /\ new.now.files = {} /\ new.now.keys = {}
      /\ new.lasting = source.lasting /\ new.index = source.index
  <2> DEFINE now == [source.now EXCEPT !.parts = Parts]
  <2>1. now \in Content /\ now.parts = Parts /\ now.files = {} /\ now.keys = {}
    BY <1>1, <1>2 DEF Directory, Content, NoContent
  <2> HIDE DEF now
  <2>2. new = [source EXCEPT !.exists = TRUE, !.now = now]
    BY DEF now
  <2>3. new \in Directory /\ new.exists = TRUE /\ new.now = now /\ new.lasting = source.lasting /\ new.index = source.index
    BY <1>2, <2>1, <2>2 DEF Directory
  <2> QED
    BY <2>1, <2>3
<1> HIDE DEF new
<1>4. Sound(new)
  <2>1. source.lasting.parts = {} /\ source.lasting.files = {} /\ source.lasting.keys = {}
    BY <1>1, <1>2 DEF Sound, NoContent
  <2>2. /\ new.lasting.parts \subseteq new.now.parts /\ new.lasting.files \subseteq new.now.files
        /\ new.lasting.keys \subseteq new.now.keys
        /\ \A f \in new.now.files : Part(f) \in new.now.parts \cup {""}
    BY <1>3, <2>1
  <2> QED
    BY <1>3, <2>2, Zenon DEF Sound
<1>5. Jobs' /\ job'["source"].at = "init.files" /\ \A e \in Installations \ {"source"} : job'[e] = job[e]
  BY <1>1, <1>2, GotoStep DEF Labels
<1>6. job'["source"].at \notin BackingUp /\ Working("source")'
  BY <1>2, <1>5, WorkingVoid DEF BackingUp, Publishing, Crediting
<1>7. source' = new
  BY <1>1, <1>2 DEF Places, source
<1>8. SourceInv'
  <2>1. source'.now.parts = Parts /\ source'.index = source.index /\ source'.lasting = source.lasting
        /\ source'.now.files = source.now.files
    BY <1>1, <1>3, <1>7 DEF NoContent
  <2> QED
    BY <1>1, <2>1, Zenon DEF IInv, SourceInv
<1> QED
  BY <1>1, <1>2, <1>4, <1>5, <1>6, <1>8, InOne

\* Both writes of an initialization.
LEMMA InitWrite ==
  ASSUME IInv, NEW files \in SUBSET Names, \A f \in files : Part(f) \in Parts,
         job["source"].at # "idle", place' = [place EXCEPT !["source"] = Written(source, files)],
         NEW label \in {"idle", "init.marker"}, Goto("source", label), reported' = reported, outages' = outages
  PROVE  IInv'
<1> DEFINE new == Written(source, files)
<1>1. Places /\ Jobs /\ Sound(source) /\ source \in Directory /\ "source" \in Installations /\ "source" \in Directories
  BY AllSound DEF Sound, Installations, Directories
<1>2. source.now.parts = Parts
  BY DEF IInv, SourceInv
<1>3. source.exists
  BY <1>1, <1>2, WholeIsThere DEF Parts
<1>4. Sound(new) /\ new.now.parts = Parts /\ source.now.files \subseteq new.now.files
      /\ new.lasting = source.lasting /\ new.index = source.index
  BY <1>1, <1>2, <1>3, SoundWritten, WrittenFields
<1> HIDE DEF new
<1>5. Jobs' /\ job'["source"].at = label /\ \A e \in Installations \ {"source"} : job'[e] = job[e]
  BY <1>1, GotoStep DEF Labels
<1>6. job'["source"].at \notin BackingUp /\ Working("source")'
  BY <1>1, <1>5, WorkingVoid DEF BackingUp, Publishing, Crediting
<1>7. source' = new
  BY <1>1 DEF Places, source, new
<1>8. SourceInv'
  BY <1>4, <1>7 DEF IInv, SourceInv
<1> QED
  BY <1>1, <1>4, <1>5, <1>6, <1>8, InOne DEF new

LEMMA InitFilesStep == ASSUME IInv, InitFiles \/ InitMarker PROVE IInv'
<1>1. CASE InitFiles
  <2>1. {"settings", "admin", "worker"} \in SUBSET Names /\ \A f \in {"settings", "admin", "worker"} : Part(f) \in Parts
    BY PartOf DEF Names, Parts
  <2>2. /\ job["source"].at # "idle" /\ Goto("source", "init.marker") /\ reported' = reported /\ outages' = outages
        /\ place' = [place EXCEPT !["source"] = Written(source, {"settings", "admin", "worker"})]
    BY <1>1 DEF InitFiles, source
  <2> QED
    BY <2>1, <2>2, InitWrite
<1>2. CASE InitMarker
  <2>1. {"marker"} \in SUBSET Names /\ \A f \in {"marker"} : Part(f) \in Parts
    BY PartOf DEF Names, Parts
  <2>2. /\ job["source"].at # "idle" /\ Goto("source", "idle") /\ reported' = reported /\ outages' = outages
        /\ place' = [place EXCEPT !["source"] = Written(source, {"marker"})]
    BY <1>2 DEF InitMarker, source
  <2> QED
    BY <2>1, <2>2, InitWrite
<1> QED
  BY <1>1, <1>2

-----------------------------------------------------------------------------
(* Making a backup.                                                        *)

\* A step of create_backup that restores nothing.
LEMMA InBackup ==
  ASSUME IInv, NEW new, Sound(new), place' = [place EXCEPT !["backup"] = new],
         Jobs', job'["restored"] = job["restored"], job'["source"].at \in BackingUp \cup {"idle"},
         job'["source"].at # "idle" => source.now.parts = Parts,
         reported' \subseteq {"backup", "restore"}, "restore" \in reported' => "restore" \in reported, outages' = outages,
         BackupInv', ~restored.exists \/ (new.now = backup.now /\ new.index = backup.index)
  PROVE  IInv'
<1>1. Places /\ Sound(restored) /\ Working("restored") /\ outages \in 0..MaxOutages
  BY TypedParts, AllSound DEF IInv
<1>2. Places' /\ backup' = new /\ source' = source /\ restored' = restored
  BY <1>1, PlaceStep DEF Directories, source, backup, restored
<1>3. SourceInv'
  BY <1>2, SourceFrame DEF IInv
<1>4. RestoreInv'
  <2>1. CASE ~restored.exists
    <3>1. job'["restored"].at \notin Restoring \cup Serving
      BY <2>1, <1>1, NobodyInVoid DEF IInv
    <3>2. Sound(restored)' /\ ~restored.exists'
      BY <1>1, <1>2, <2>1, Zenon DEF Places, Directories, restored
    <3> QED
      BY <3>1, <3>2, RestoreVoid
  <2>2. CASE new.now = backup.now /\ new.index = backup.index
    BY <1>2, <2>2, RestoreFrame DEF IInv
  <2> QED
    BY <2>1, <2>2
<1>5. Working("restored")'
  BY <1>1, <1>2, WorkingFrame DEF restored, Installations
<1>6. Working("source")'
  BY WorkingVoid DEF BackingUp, Publishing, Crediting, Installations
<1>7. Typed'
  BY <1>1, <1>2, <1>5, <1>6, TypedNext
<1> QED
  BY <1>3, <1>4, <1>7 DEF IInv

LEMMA BeginBackupStep == ASSUME IInv, BeginBackup PROVE IInv'
<1> DEFINE new == [backup EXCEPT !.exists = TRUE, !.now = [backup.now EXCEPT !.parts = Archived]]
<1>1. /\ Offline /\ ~backup.exists /\ ~restored.exists /\ {"objects", "config"} \subseteq source.now.parts
      /\ place' = [place EXCEPT !["backup"] = new] /\ Goto("source", "backup.copy")
      /\ reported' = reported \ {"backup"} /\ outages' = outages
  BY DEF BeginBackup, SourceInUse, source, backup, restored, Archived
<1>2. Places /\ Jobs /\ Sound(backup) /\ backup = Absent
  BY <1>1, AllSound, Zenon DEF Sound
<1>3. source.now.parts = Parts
  BY <1>1 DEF IInv, SourceInv
<1>4. Jobs' /\ job'["source"].at = "backup.copy" /\ job'["restored"] = job["restored"]
  BY <1>1, <1>2, GotoStep DEF Labels, Installations
<1>5. /\ new \in Directory /\ new.exists = TRUE /\ new.now.parts = Archived /\ new.now.files = {} /\ new.now.keys = {}
      /\ new.lasting = NoContent /\ new.index = NewIndex /\ new.hot = FALSE
  <2> DEFINE now == [NoContent EXCEPT !.parts = Archived]
  <2>1. now \in Content /\ now.parts = Archived /\ now.files = {} /\ now.keys = {}
    BY DEF Content, NoContent, Archived
  <2>2. new = [Absent EXCEPT !.exists = TRUE, !.now = now]
    BY <1>2 DEF Absent
  <2> HIDE DEF now
  <2>3. /\ new.exists = TRUE /\ new.now = now /\ new.lasting = NoContent
        /\ new.index = NewIndex /\ new.hot = FALSE
    BY <2>2 DEF Absent
  <2>4. new \in Directory
    BY <2>1, <2>2, AbsentSound DEF Directory
  <2> QED
    BY <2>1, <2>3, <2>4
<1> HIDE DEF new
<1>6. Sound(new)
  BY <1>5 DEF Sound, NoContent
<1>7. backup' = new /\ source' = source /\ restored' = restored
  BY <1>1, <1>2, <1>6, PlaceStep DEF Directories, source, backup, restored
<1>8. BackupInv'
  <2>1. EpochsUpTo(backup'.index, MaxEpoch)
    BY <1>5, <1>7, Bounds, NewIndexType
  <2>2. backup'.now.files = {} /\ backup'.now.parts = Archived /\ backup'.exists /\ ~backup'.hot /\ ~source'.hot
        /\ ~restored'.exists
    BY <1>1, <1>5, <1>7 DEF Offline, source
  <2>3. "backup" \notin reported'
    BY <1>1
  <2>4. ~Has("backup", {"manifest"})' /\ ~Has("backup", {"index"})'
    BY <2>2 DEF Has, backup
  <2> QED
    BY <1>4, <2>1, <2>2, <2>3, <2>4 DEF BackupInv
<1>9. reported' \subseteq {"backup", "restore"} /\ ("restore" \in reported' => "restore" \in reported)
  BY <1>1, TypedParts DEF IInv
<1> QED
  BY <1>1, <1>3, <1>4, <1>6, <1>8, <1>9, InBackup DEF BackingUp

LEMMA CopyToBackupStep == ASSUME IInv, CopyToBackup PROVE IInv'
<1>1. PICK f \in Foremost(Copied(source.index) \ backup.now.files) :
        /\ Has("source", {f})
        /\ place' = [place EXCEPT !["backup"] = [Written(backup, {f}) EXCEPT
                       !.index = IF f = "index" THEN source.index ELSE @,
                       !.hot = IF f = "index" THEN source.hot ELSE @]]
  BY DEF CopyToBackup, source, backup
<1> DEFINE written == Written(backup, {f})
           index == IF f = "index" THEN source.index ELSE backup.index
           new == [written EXCEPT !.index = index, !.hot = FALSE]
<1>2. job["source"].at = "backup.copy" /\ job' = job /\ reported' = reported /\ outages' = outages
  BY DEF CopyToBackup
<1>3. Places /\ Jobs /\ Sound(backup) /\ Sound(source) /\ backup \in Directory
  BY AllSound DEF Sound
<1>4. /\ backup.now.parts = Archived /\ "backup" \notin reported /\ ~restored.exists /\ backup.exists /\ ~backup.hot
      /\ ~source.hot /\ backup.now.files \subseteq Copied(source.index)
      /\ ("index" \in backup.now.files => backup.index = source.index)
      /\ EpochsUpTo(backup.index, MaxEpoch) /\ "manifest" \notin backup.now.files
  BY <1>2 DEF IInv, BackupInv, BackingUp, Has, backup
<1>5. source.now.parts = Parts /\ EpochsUpTo(source.index, MaxEpoch) /\ source.index \in Index
  BY <1>2, <1>3 DEF IInv, SourceInv, Sound, Directory
<1>6. f \in Copied(source.index) /\ {f} \in SUBSET Names /\ f # "manifest" /\ Part(f) \in Archived
  BY <1>5, ForemostAmong, CopiedNames
<1>7. /\ Sound(written) /\ written.exists = backup.exists /\ written.now.parts = Archived
      /\ written.now.files = backup.now.files \cup {f} /\ written.lasting = backup.lasting
      /\ written.index = backup.index /\ written.hot = backup.hot
  BY <1>3, <1>4, <1>6, SoundWritten, WrittenFields
<1> HIDE DEF written
<1>8. index \in Index
  BY <1>3, <1>5 DEF Directory
<1>9. Sound(new) /\ new.exists = written.exists /\ new.now = written.now /\ new.index = index /\ new.hot = FALSE
  <2>1. written \in Directory /\ written.exists
    BY <1>4, <1>7 DEF Sound
  <2> QED
    BY <1>7, <1>8, <2>1, SoundIndexed, IndexedFields
<1>10. place' = [place EXCEPT !["backup"] = new]
  <2>1. backup.hot = FALSE /\ source.hot = FALSE
    BY <1>3, <1>4 DEF Sound, Directory
  <2>2. (IF f = "index" THEN source.index ELSE written.index) = index
        /\ (IF f = "index" THEN source.hot ELSE written.hot) = FALSE
    BY <1>7, <2>1
  <2> HIDE DEF index
  <2> QED
    BY <1>1, <2>2 DEF written
<1> HIDE DEF new
<1>11. backup' = new /\ source' = source /\ restored' = restored
  BY <1>3, <1>9, <1>10, PlaceStep DEF Directories, source, backup, restored
<1>12. BackupInv'
  <2>1. EpochsUpTo(backup'.index, MaxEpoch)
    BY <1>4, <1>5, <1>9, <1>11
  <2>2. /\ backup'.now.files = backup.now.files \cup {f} /\ backup'.now.parts = Archived /\ backup'.exists
        /\ ~backup'.hot /\ ~source'.hot /\ ~restored'.exists
    BY <1>4, <1>7, <1>9, <1>11
  <2>3. ~Has("backup", {"manifest"})'
    BY <1>4, <1>6, <2>2 DEF Has, backup
  <2>4. "index" \in backup'.now.files => backup'.index = source'.index
    BY <1>4, <1>9, <1>11, <2>2
  <2>5. backup'.now.files \subseteq Copied(source'.index)
    BY <1>4, <1>6, <1>11, <2>2
  <2> HIDE DEF index
  <2> QED
    BY <1>2, <1>4, <2>1, <2>2, <2>3, <2>4, <2>5 DEF BackupInv, Has, backup
<1>13. Jobs' /\ job'["source"].at \in BackingUp
  BY <1>2, <1>3 DEF Jobs, BackingUp
<1>14. reported' \subseteq {"backup", "restore"}
  BY <1>2, TypedParts DEF IInv
<1> QED
  BY <1>2, <1>4, <1>5, <1>9, <1>10, <1>12, <1>13, <1>14, InBackup

LEMMA SyncBackupStep == ASSUME IInv, SyncBackup PROVE IInv'
<1> DEFINE new == Synced(backup, Parts)
<1>1. /\ job["source"].at = "backup.copy" /\ Has("backup", Copied(source.index))
      /\ place' = [place EXCEPT !["backup"] = new] /\ Goto("source", "backup.manifest")
      /\ reported' = reported /\ outages' = outages
  BY DEF SyncBackup, source, backup
<1>2. Places /\ Jobs /\ Sound(backup) /\ Sound(source) /\ backup \in Directory
  BY AllSound DEF Sound
<1>3. /\ backup.now.parts = Archived /\ "backup" \notin reported /\ ~restored.exists /\ backup.exists /\ ~backup.hot
      /\ backup.now.files \subseteq Copied(source.index)
      /\ ("index" \in backup.now.files => backup.index = source.index)
      /\ EpochsUpTo(backup.index, MaxEpoch) /\ "manifest" \notin backup.now.files
  BY <1>1 DEF IInv, BackupInv, BackingUp, Has, backup
<1>4. source.now.parts = Parts /\ source.index \in Index
  BY <1>1, <1>2 DEF IInv, SourceInv, Sound, Directory
<1>5. backup.index = source.index /\ backup.now.files = Copies
  BY <1>1, <1>3 DEF Has, Copied, Copies, backup
<1>6. Jobs' /\ job'["source"].at = "backup.manifest" /\ job'["restored"] = job["restored"]
  BY <1>1, <1>2, GotoStep DEF Labels, Installations
<1>7. Sound(new)
  BY <1>2, <1>3, SoundSynced
<1>8. /\ new.exists = backup.exists /\ new.now = backup.now /\ new.index = backup.index /\ new.hot = backup.hot
      /\ new.lasting.files = backup.lasting.files \cup Within(backup, Parts)
  BY <1>2, SyncedFields
<1>9. Copies \subseteq new.lasting.files
  BY <1>4, <1>5, <1>8, CopiedNames DEF Within, Archived, Copies
<1> HIDE DEF new
<1>10. backup' = new /\ source' = source /\ restored' = restored
  BY <1>1, <1>2, <1>7, PlaceStep DEF Directories, source, backup, restored
<1>11. BackupInv'
  <2>1. /\ backup'.now.files = Copies' /\ Copies' \subseteq backup'.lasting.files /\ EpochsUpTo(backup'.index, MaxEpoch)
        /\ backup'.now.parts = Archived /\ backup'.exists /\ ~backup'.hot /\ ~restored'.exists
    BY <1>3, <1>5, <1>8, <1>9, <1>10 DEF Copies
  <2>2. ~Has("backup", {"manifest"})'
    BY <1>3, <1>8, <1>10 DEF Has, backup
  <2> QED
    BY <1>1, <1>3, <1>6, <2>1, <2>2 DEF BackupInv
<1>12. reported' \subseteq {"backup", "restore"}
  BY <1>1, TypedParts DEF IInv
<1> QED
  BY <1>1, <1>3, <1>4, <1>6, <1>7, <1>11, <1>12, InBackup DEF BackingUp

LEMMA WriteManifestStep == ASSUME IInv, WriteManifest PROVE IInv'
<1> DEFINE new == Written(backup, {"manifest"})
<1>1. /\ job["source"].at = "backup.manifest"
      /\ place' = [place EXCEPT !["backup"] = new] /\ Goto("source", "backup.last")
      /\ reported' = reported /\ outages' = outages
  BY DEF WriteManifest, backup
<1>2. Places /\ Jobs /\ Sound(backup) /\ backup \in Directory
  BY AllSound DEF Sound
<1>3. /\ backup.now.parts = Archived /\ "backup" \notin reported /\ ~restored.exists /\ backup.exists /\ ~backup.hot
      /\ backup.now.files = Copies /\ Copies \subseteq backup.lasting.files /\ EpochsUpTo(backup.index, MaxEpoch)
  BY <1>1 DEF IInv, BackupInv, BackingUp
<1>4. source.now.parts = Parts
  BY <1>1 DEF IInv, SourceInv
<1>5. Jobs' /\ job'["source"].at = "backup.last" /\ job'["restored"] = job["restored"]
  BY <1>1, <1>2, GotoStep DEF Labels, Installations
<1>6. {"manifest"} \in SUBSET Names /\ Part("manifest") = ""
  BY PartOf DEF Names
<1>7. /\ Sound(new) /\ new.exists = backup.exists /\ new.now.parts = backup.now.parts /\ new.lasting = backup.lasting
      /\ new.index = backup.index /\ new.hot = backup.hot /\ new.now.files = backup.now.files \cup {"manifest"}
  BY <1>2, <1>3, <1>6, SoundWritten, WrittenFields
<1> HIDE DEF new
<1>8. backup' = new /\ source' = source /\ restored' = restored
  BY <1>1, <1>2, <1>7, PlaceStep DEF Directories, source, backup, restored
<1>9. BackupInv'
  <2>1. /\ backup'.now.files = Copies' \cup {"manifest"} /\ Copies' \subseteq backup'.lasting.files
        /\ EpochsUpTo(backup'.index, MaxEpoch)
        /\ backup'.now.parts = Archived /\ backup'.exists /\ ~backup'.hot
    BY <1>3, <1>7, <1>8 DEF Copies
  <2>2. Has("backup", {"manifest"})'
    BY <2>1 DEF Has, backup
  <2> QED
    BY <1>1, <1>3, <1>5, <2>1, <2>2 DEF BackupInv
<1>10. reported' \subseteq {"backup", "restore"}
  BY <1>1, TypedParts DEF IInv
<1> QED
  BY <1>1, <1>3, <1>4, <1>5, <1>7, <1>9, <1>10, InBackup DEF BackingUp

LEMMA EndBackupStep == ASSUME IInv, EndBackup PROVE IInv'
<1> DEFINE new == Synced(backup, {""})
<1>1. /\ job["source"].at = "backup.last" /\ Inspected
      /\ place' = [place EXCEPT !["backup"] = new] /\ Goto("source", "idle")
      /\ reported' = reported \cup {"backup"} /\ outages' = outages
  BY DEF EndBackup, backup
<1>2. Places /\ Jobs /\ Sound(backup) /\ backup \in Directory
  BY AllSound DEF Sound
<1>3. backup.now.parts = Archived /\ backup.now.files = Copies \cup {"manifest"}
  BY <1>1 DEF Inspected, Archived, Copies, backup
<1>4. Copies \subseteq backup.lasting.files /\ EpochsUpTo(backup.index, MaxEpoch) /\ ~backup.hot
  BY <1>3 DEF IInv, BackupInv, Has, backup
<1>5. backup.exists
  BY <1>2, <1>3, WholeIsThere DEF Archived, Parts
<1>6. Jobs' /\ job'["source"].at = "idle" /\ job'["restored"] = job["restored"]
  BY <1>1, <1>2, GotoStep DEF Labels, Installations
<1>7. Sound(new)
  BY <1>2, <1>5, SoundSynced
<1>8. /\ new.exists = backup.exists /\ new.now = backup.now /\ new.index = backup.index /\ new.hot = backup.hot
      /\ new.lasting.files = backup.lasting.files \cup Within(backup, {""}) /\ new.lasting.parts = backup.now.parts
  BY <1>2, SyncedFields
<1>9. "manifest" \in new.lasting.files /\ Copies \subseteq new.lasting.files
  BY <1>3, <1>4, <1>8, PartOf DEF Within
<1> HIDE DEF new
<1>10. backup' = new /\ source' = source /\ restored' = restored
  BY <1>1, <1>2, <1>7, PlaceStep DEF Directories, source, backup, restored
<1>11. BackupInv'
  <2>1. /\ backup'.now.files = Copies' \cup {"manifest"} /\ Copies' \subseteq backup'.lasting.files
        /\ "manifest" \in backup'.lasting.files /\ EpochsUpTo(backup'.index, MaxEpoch)
        /\ backup'.now.parts = Archived /\ backup'.lasting.parts = Archived /\ ~backup'.hot
    BY <1>3, <1>4, <1>8, <1>9, <1>10 DEF Copies
  <2> QED
    BY <1>6, <2>1 DEF BackupInv, BackingUp
<1>12. reported' \subseteq {"backup", "restore"} /\ ("restore" \in reported' => "restore" \in reported)
  BY <1>1, TypedParts DEF IInv
<1> QED
  BY <1>1, <1>6, <1>7, <1>8, <1>11, <1>12, InBackup

-----------------------------------------------------------------------------
(* Restoring one.                                                          *)

\* A step of restore_backup.
LEMMA InRestored ==
  ASSUME IInv, NEW new, Sound(new), place' = [place EXCEPT !["restored"] = new],
         Jobs', job'["source"] = job["source"], job'["restored"].at \in Restoring \cup {"idle"},
         reported' \subseteq {"backup", "restore"}, "backup" \in reported' => "backup" \in reported, outages' = outages,
         RestoreInv', restored.exists \/ Has("backup", {"manifest"})
  PROVE  IInv'
<1>1. Places /\ Working("source") /\ outages \in 0..MaxOutages
  BY TypedParts, AllSound DEF IInv
<1>2. Places' /\ restored' = new /\ source' = source /\ backup' = backup
  BY <1>1, PlaceStep DEF Directories, source, backup, restored
<1>3. SourceInv'
  BY <1>2, SourceFrame DEF IInv, SourceInv
<1>4. BackupInv'
  BY <1>2, BackupFrame DEF IInv
<1>5. Working("source")'
  BY <1>1, <1>2, WorkingFrame DEF source, Installations
<1>6. Working("restored")'
  BY WorkingVoid DEF Restoring, Publishing, Crediting, Installations
<1>7. Typed'
  BY <1>1, <1>2, <1>5, <1>6, TypedNext
<1> QED
  BY <1>3, <1>4, <1>7 DEF IInv

\* The state of a restore, and of what it copies.
LEMMA Restores ==
  ASSUME IInv, job["restored"].at \in Restoring
  PROVE  /\ Places /\ Jobs /\ Sound(restored) /\ restored \in Directory /\ restored.index \in Index
         /\ Sound(backup) /\ backup.index \in Index /\ EpochsUpTo(backup.index, MaxEpoch)
         /\ Inspected /\ restored.exists /\ restored.now.parts = Parts /\ "restore" \notin reported
         /\ Has("backup", {"manifest"}) /\ reported \subseteq {"backup", "restore"}
<1>1. Places /\ Jobs /\ Sound(restored) /\ Sound(backup) /\ reported \subseteq {"backup", "restore"}
  BY AllSound, TypedParts DEF IInv
<1>2. restored \in Directory /\ restored.index \in Index /\ backup.index \in Index
  BY <1>1 DEF Sound, Directory
<1>3. Inspected /\ restored.exists /\ restored.now.parts = Parts /\ "restore" \notin reported
  BY Zenon DEF IInv, RestoreInv
<1>4. EpochsUpTo(backup.index, MaxEpoch)
  BY Zenon DEF IInv, BackupInv
<1>5. Has("backup", {"manifest"})
  BY <1>3 DEF Inspected, Has
<1> QED
  BY <1>1, <1>2, <1>3, <1>4, <1>5

LEMMA OneMore ==
  ASSUME NEW index \in Index, EpochsUpTo(index, MaxEpoch)
  PROVE  EpochsUpTo(index, MaxEpoch + 1)
<1>1. \A w \in Identities : index.workers[w].epoch \in Nat
  BY EpochType
<1> QED
  BY <1>1, Bounds DEF EpochsUpTo

LEMMA BeginRestoreStep == ASSUME IInv, BeginRestore PROVE IInv'
<1> DEFINE new == [restored EXCEPT !.exists = TRUE, !.now = [restored.now EXCEPT !.parts = Parts]]
<1>1. /\ job["restored"] = Idle /\ ~restored.exists /\ Inspected
      /\ place' = [place EXCEPT !["restored"] = new] /\ Goto("restored", "restore.copy")
      /\ reported' = reported \ {"restore"} /\ outages' = outages
  BY DEF BeginRestore, restored
<1>2. Places /\ Jobs /\ Sound(restored) /\ restored = Absent /\ reported \subseteq {"backup", "restore"}
  BY <1>1, AllSound, TypedParts, Zenon DEF Sound, IInv
<1>3. Jobs' /\ job'["restored"].at = "restore.copy" /\ job'["source"] = job["source"]
  BY <1>1, <1>2, GotoStep DEF Labels, Installations
<1>4. /\ new \in Directory /\ new.exists = TRUE /\ new.now.parts = Parts /\ new.now.files = {} /\ new.now.keys = {}
      /\ new.lasting = NoContent /\ new.index = NewIndex
  <2> DEFINE now == [NoContent EXCEPT !.parts = Parts]
  <2>1. now \in Content /\ now.parts = Parts /\ now.files = {} /\ now.keys = {}
    BY DEF Content, NoContent
  <2>2. new = [Absent EXCEPT !.exists = TRUE, !.now = now]
    BY <1>2 DEF Absent
  <2> HIDE DEF now
  <2>3. new.exists = TRUE /\ new.now = now /\ new.lasting = NoContent /\ new.index = NewIndex
    BY <2>2 DEF Absent
  <2>4. new \in Directory
    BY <2>1, <2>2, AbsentSound DEF Directory
  <2> QED
    BY <2>1, <2>3, <2>4
<1> HIDE DEF new
<1>5. Sound(new)
  BY <1>4 DEF Sound, NoContent
<1>6. restored' = new /\ backup' = backup
  BY <1>1, <1>2, <1>5, PlaceStep DEF Directories, source, backup, restored
<1>7. Has("backup", {"manifest"})
  BY <1>1 DEF Inspected, Has
<1>8. RestoreInv'
  <2>1. EpochsUpTo(restored'.index, MaxEpoch + 1)
    BY <1>4, <1>6, Bounds, NewIndexType
  <2>2. restored'.now.files = {} /\ restored'.now.parts = Parts /\ restored'.exists /\ "restore" \notin reported'
    BY <1>1, <1>4, <1>6
  <2>3. Inspected'
    BY <1>1, <1>6, Zenon DEF Inspected, backup
  <2>4. ~Has("restored", {"marker"})' /\ ~Has("restored", {"index"})'
    BY <2>2 DEF Has, restored
  <2>5. job'["restored"].at \notin Serving \cup {"restore.last"}
    BY <1>3 DEF Serving, Publishing, Crediting
  <2> QED
    BY <1>3, <2>1, <2>2, <2>3, <2>4, <2>5 DEF RestoreInv
<1>9. reported' \subseteq {"backup", "restore"} /\ ("backup" \in reported' => "backup" \in reported)
  BY <1>1, <1>2
<1> QED
  BY <1>1, <1>3, <1>5, <1>7, <1>8, <1>9, InRestored DEF Restoring

LEMMA CopyFromBackupStep == ASSUME IInv, CopyFromBackup PROVE IInv'
<1>1. PICK f \in Foremost(Copied(backup.index) \ (restored.now.files \cup {"marker"})) :
        /\ Has("backup", {f})
        /\ place' = [place EXCEPT !["restored"] = [Written(restored, {f}) EXCEPT
                       !.index = IF f = "index" THEN backup.index ELSE @]]
  BY DEF CopyFromBackup, backup, restored
<1> DEFINE written == Written(restored, {f})
           index == IF f = "index" THEN backup.index ELSE restored.index
           new == [written EXCEPT !.index = index]
<1>2. job["restored"].at = "restore.copy" /\ job' = job /\ reported' = reported /\ outages' = outages
  BY DEF CopyFromBackup
<1>3. /\ Places /\ Jobs /\ Sound(restored) /\ restored \in Directory /\ restored.index \in Index
      /\ backup.index \in Index /\ EpochsUpTo(backup.index, MaxEpoch)
      /\ Inspected /\ restored.exists /\ restored.now.parts = Parts /\ "restore" \notin reported
      /\ reported \subseteq {"backup", "restore"}
  BY <1>2, Restores DEF Restoring
<1>4. /\ "marker" \notin restored.now.files /\ ("index" \in restored.now.files => restored.index = backup.index)
      /\ EpochsUpTo(restored.index, MaxEpoch + 1)
  BY <1>2 DEF IInv, RestoreInv, Restoring, Has, restored
<1>5. f \in Copied(backup.index) /\ f # "marker"
  BY ForemostAmong
<1>6. {f} \in SUBSET Names /\ \A g \in {f} : Part(g) \in Parts
  BY <1>3, <1>5, CopiedNames DEF Archived
<1>7. /\ Sound(written) /\ written.exists = restored.exists /\ written.now.parts = Parts
      /\ written.now.files = restored.now.files \cup {f} /\ written.index = restored.index
  BY <1>3, <1>6, SoundWritten, WrittenFields
<1>8. place' = [place EXCEPT !["restored"] = new]
  BY <1>1, <1>7
<1> HIDE DEF written
<1>9. index \in Index /\ EpochsUpTo(index, MaxEpoch + 1)
  BY <1>3, <1>4, OneMore
<1>10. Sound(new) /\ new.exists = written.exists /\ new.now = written.now /\ new.index = index
  <2>1. written.exists
    BY <1>3, <1>7
  <2> QED
    BY <1>7, <1>9, <2>1, Reindexed
<1> HIDE DEF new
<1>11. restored' = new /\ backup' = backup
  BY <1>3, <1>8, <1>10, PlaceStep DEF Directories, backup, restored
<1>12. RestoreInv'
  <2>1. EpochsUpTo(restored'.index, MaxEpoch + 1)
    BY <1>9, <1>10, <1>11
  <2>2. /\ restored'.now.files = restored.now.files \cup {f} /\ restored'.now.parts = Parts /\ restored'.exists
        /\ "restore" \notin reported'
    BY <1>2, <1>3, <1>7, <1>10, <1>11
  <2>3. Inspected'
    BY <1>3, <1>11, Zenon DEF Inspected, backup
  <2>4. ~Has("restored", {"marker"})'
    BY <1>4, <1>5, <2>2 DEF Has, restored
  <2>5. "index" \in restored'.now.files => restored'.index = backup'.index
    BY <1>4, <1>10, <1>11, <2>2
  <2>6. job'["restored"].at = "restore.copy" /\ job'["restored"].at \notin Serving \cup {"restore.last"}
    BY <1>2 DEF Serving, Publishing, Crediting
  <2>7. Has("restored", {"index"})' => restored'.index = backup'.index
    BY <2>5 DEF Has, restored
  <2> HIDE DEF index
  <2> QED
    BY <2>1, <2>2, <2>3, <2>4, <2>6, <2>7 DEF RestoreInv
<1>13. Jobs' /\ job'["restored"].at \in Restoring
  BY <1>2, <1>3 DEF Jobs, Restoring
<1> QED
  BY <1>2, <1>3, <1>8, <1>10, <1>12, <1>13, InRestored

LEMMA WriteTokensStep == ASSUME IInv, WriteTokens PROVE IInv'
<1> DEFINE new == Written(restored, {"admin", "worker"})
<1>1. /\ job["restored"].at = "restore.copy" /\ Has("restored", Copied(backup.index) \ {"marker"})
      /\ place' = [place EXCEPT !["restored"] = new] /\ Goto("restored", "restore.retire")
      /\ reported' = reported /\ outages' = outages
  BY DEF WriteTokens, backup, restored
<1>2. /\ Places /\ Jobs /\ Sound(restored) /\ restored \in Directory /\ Inspected /\ restored.exists
      /\ restored.now.parts = Parts /\ "restore" \notin reported /\ reported \subseteq {"backup", "restore"}
  BY <1>1, Restores DEF Restoring
<1>3. /\ "marker" \notin restored.now.files /\ ("index" \in restored.now.files => restored.index = backup.index)
      /\ EpochsUpTo(restored.index, MaxEpoch + 1)
  BY <1>1 DEF IInv, RestoreInv, Restoring, Has, restored
<1>4. Copied(backup.index) \ {"marker"} \subseteq restored.now.files /\ "index" \in restored.now.files
  BY <1>1 DEF Has, Copied, restored
<1>5. {"admin", "worker"} \in SUBSET Names /\ \A f \in {"admin", "worker"} : Part(f) \in Parts
  BY PartOf DEF Names, Parts
<1>6. /\ Sound(new) /\ new.exists = restored.exists /\ new.now.parts = Parts
      /\ new.now.files = restored.now.files \cup {"admin", "worker"} /\ new.index = restored.index
  BY <1>2, <1>5, SoundWritten, WrittenFields
<1> HIDE DEF new
<1>7. Jobs' /\ job'["restored"].at = "restore.retire" /\ job'["source"] = job["source"]
  BY <1>1, <1>2, GotoStep DEF Labels, Installations
<1>8. restored' = new /\ backup' = backup
  BY <1>1, <1>2, <1>6, PlaceStep DEF Directories, backup, restored
<1>9. RestoreInv'
  <2>1. /\ EpochsUpTo(restored'.index, MaxEpoch + 1) /\ restored'.now.parts = Parts /\ restored'.exists
        /\ "restore" \notin reported' /\ restored'.index = backup'.index
    BY <1>1, <1>2, <1>3, <1>4, <1>6, <1>8
  <2>2. Inspected'
    BY <1>2, <1>8, Zenon DEF Inspected, backup
  <2>3. ~Has("restored", {"marker"})'
    BY <1>3, <1>6, <1>8 DEF Has, restored
  <2>4. Has("restored", Moved)'
    BY <1>4, <1>6, <1>8 DEF Has, restored, Moved, Copies
  <2>5. job'["restored"].at \notin Serving \cup {"restore.last"}
    BY <1>7 DEF Serving, Publishing, Crediting
  <2> QED
    BY <1>7, <2>1, <2>2, <2>3, <2>4, <2>5 DEF RestoreInv
<1> QED
  BY <1>1, <1>2, <1>6, <1>7, <1>9, InRestored DEF Restoring

LEMMA RetireStep == ASSUME IInv, Retire PROVE IInv'
<1> DEFINE migrated == Migrated("restored", restored.index)
           index == Retired(migrated)
           new == [restored EXCEPT !.index = index]
<1>1. /\ job["restored"].at = "restore.retire" /\ Goto("restored", "restore.sync")
      /\ place' = [place EXCEPT !["restored"] = new] /\ reported' = reported /\ outages' = outages
  BY DEF Retire, restored
<1>2. /\ Places /\ Jobs /\ Sound(restored) /\ restored \in Directory /\ restored.index \in Index
      /\ EpochsUpTo(backup.index, MaxEpoch) /\ Inspected /\ restored.exists
      /\ restored.now.parts = Parts /\ "restore" \notin reported /\ reported \subseteq {"backup", "restore"}
  BY <1>1, Restores DEF Restoring
<1>3. "marker" \notin restored.now.files /\ Moved \subseteq restored.now.files /\ restored.index = backup.index
  BY <1>1 DEF IInv, RestoreInv, Restoring, Has, restored
<1>4. /\ migrated \in Index /\ migrated.schema = 2 /\ migrated.versions = restored.index.versions
      /\ EpochsUpTo(migrated, MaxEpoch)
  BY <1>2, <1>3, Bounds, MigratedIndex DEF Installations
<1> HIDE DEF migrated
<1>5. /\ index \in Index /\ NoneActive(index) /\ EpochsUpTo(index, MaxEpoch + 1)
      /\ index.schema = 2 /\ index.versions = backup.index.versions
  BY <1>3, <1>4, RetiredIndex
<1> HIDE DEF index
<1>6. Sound(new) /\ new.exists = restored.exists /\ new.now = restored.now /\ new.index = index
  BY <1>2, <1>5, Reindexed
<1> HIDE DEF new
<1>7. Jobs' /\ job'["restored"].at = "restore.sync" /\ job'["source"] = job["source"]
  BY <1>1, <1>2, GotoStep DEF Labels, Installations
<1>8. restored' = new /\ backup' = backup
  BY <1>1, <1>2, <1>6, PlaceStep DEF Directories, backup, restored
<1>9. RestoreInv'
  <2>1. /\ EpochsUpTo(restored'.index, MaxEpoch + 1) /\ restored'.now.parts = Parts /\ restored'.exists
        /\ "restore" \notin reported' /\ NoneActive(restored'.index)
        /\ restored'.index.schema = 2 /\ restored'.index.versions = backup'.index.versions
    BY <1>1, <1>2, <1>5, <1>6, <1>8
  <2>2. Inspected'
    BY <1>2, <1>8, Zenon DEF Inspected, backup
  <2>3. ~Has("restored", {"marker"})' /\ Has("restored", Moved)'
    BY <1>3, <1>6, <1>8 DEF Has, restored, Moved, Copies
  <2>4. job'["restored"].at \notin Serving \cup {"restore.last"}
    BY <1>7 DEF Serving, Publishing, Crediting
  <2> QED
    BY <1>7, <2>1, <2>2, <2>3, <2>4 DEF RestoreInv
<1> QED
  BY <1>1, <1>2, <1>6, <1>7, <1>9, InRestored, Restores DEF Restoring

LEMMA MovedNames ==
  ASSUME backup.index \in Index
  PROVE  \A f \in Moved \cup {"lock"} : Part(f) \in Parts
BY CopiedNames, PartOf DEF Moved, Copies, Archived, Parts

LEMMA SyncRestoredStep == ASSUME IInv, SyncRestored PROVE IInv'
<1> DEFINE written == Written(restored, {"lock"})
           new == Synced(written, Parts)
<1>1. /\ job["restored"].at = "restore.sync" /\ Goto("restored", "restore.marker")
      /\ place' = [place EXCEPT !["restored"] = new] /\ reported' = reported /\ outages' = outages
  BY DEF SyncRestored, restored
<1>2. /\ Places /\ Jobs /\ Sound(restored) /\ restored \in Directory /\ backup.index \in Index
      /\ Inspected /\ restored.exists /\ restored.now.parts = Parts /\ "restore" \notin reported
      /\ reported \subseteq {"backup", "restore"}
  BY <1>1, Restores DEF Restoring
<1>3. /\ "marker" \notin restored.now.files /\ Moved \subseteq restored.now.files
      /\ restored.index.versions = backup.index.versions /\ restored.index.schema = 2
      /\ NoneActive(restored.index) /\ EpochsUpTo(restored.index, MaxEpoch + 1)
  BY <1>1 DEF IInv, RestoreInv, Restoring, Has, restored
<1>4. {"lock"} \in SUBSET Names /\ \A f \in {"lock"} : Part(f) \in Parts
  BY PartOf DEF Names, Parts
<1>5. /\ Sound(written) /\ written.exists = restored.exists /\ written.now.parts = Parts
      /\ written.now.files = restored.now.files \cup {"lock"} /\ written.index = restored.index
  BY <1>2, <1>4, SoundWritten, WrittenFields
<1> HIDE DEF written
<1>6. written \in Directory /\ written.exists
  BY <1>2, <1>5 DEF Sound
<1>7. Sound(new)
  BY <1>5, <1>6, SoundSynced
<1>8. /\ new.exists = written.exists /\ new.now = written.now /\ new.index = written.index
      /\ new.lasting.files = written.lasting.files \cup Within(written, Parts)
  BY <1>6, SyncedFields
<1>9. Moved \cup {"lock"} \subseteq new.lasting.files
  <2>1. Moved \cup {"lock"} \subseteq written.now.files
    BY <1>3, <1>5
  <2>2. \A f \in Moved \cup {"lock"} : Part(f) \in Parts
    BY <1>2, MovedNames
  <2> QED
    BY <1>8, <2>1, <2>2 DEF Within
<1> HIDE DEF new
<1>10. Jobs' /\ job'["restored"].at = "restore.marker" /\ job'["source"] = job["source"]
  BY <1>1, <1>2, GotoStep DEF Labels, Installations
<1>11. restored' = new /\ backup' = backup
  BY <1>1, <1>2, <1>7, PlaceStep DEF Directories, backup, restored
<1>12. RestoreInv'
  <2>1. /\ restored'.now.parts = Parts /\ restored'.exists /\ "restore" \notin reported'
        /\ restored'.index = restored.index /\ backup'.index = backup.index
    BY <1>1, <1>2, <1>5, <1>8, <1>11
  <2>2. /\ EpochsUpTo(restored'.index, MaxEpoch + 1) /\ NoneActive(restored'.index)
        /\ restored'.index.schema = 2 /\ restored'.index.versions = backup'.index.versions
    BY <1>3, <2>1
  <2>3. Inspected'
    BY <1>2, <1>11, Zenon DEF Inspected, backup
  <2>4. Moved' = Moved
    BY <1>11 DEF Moved, Copies
  <2>5. ~Has("restored", {"marker"})' /\ Has("restored", Moved)' /\ Moved' \cup {"lock"} \subseteq restored'.lasting.files
    BY <1>3, <1>5, <1>8, <1>9, <1>11, <2>4 DEF Has, restored
  <2>6. job'["restored"].at \notin Serving \cup {"restore.last"}
    BY <1>10 DEF Serving, Publishing, Crediting
  <2> QED
    BY <1>10, <2>1, <2>2, <2>3, <2>5, <2>6 DEF RestoreInv
<1> QED
  BY <1>1, <1>2, <1>7, <1>10, <1>12, InRestored, Restores DEF Restoring

LEMMA WriteMarkerStep == ASSUME IInv, WriteMarker PROVE IInv'
<1> DEFINE new == Written(restored, {"marker"})
<1>1. /\ job["restored"].at = "restore.marker" /\ Goto("restored", "restore.last")
      /\ place' = [place EXCEPT !["restored"] = new] /\ reported' = reported /\ outages' = outages
  BY DEF WriteMarker, restored
<1>2. /\ Places /\ Jobs /\ Sound(restored) /\ restored \in Directory /\ backup.index \in Index
      /\ Inspected /\ restored.exists /\ restored.now.parts = Parts /\ "restore" \notin reported
      /\ reported \subseteq {"backup", "restore"}
  BY <1>1, Restores DEF Restoring
<1>3. /\ Moved \cup {"lock"} \subseteq restored.lasting.files /\ Moved \subseteq restored.now.files
      /\ restored.index.versions = backup.index.versions /\ restored.index.schema = 2
      /\ NoneActive(restored.index) /\ EpochsUpTo(restored.index, MaxEpoch + 1)
  BY <1>1 DEF IInv, RestoreInv, Restoring, Has, restored
<1>4. {"marker"} \in SUBSET Names /\ \A f \in {"marker"} : Part(f) \in Parts
  BY PartOf DEF Names, Parts
<1>5. /\ Sound(new) /\ new.exists = restored.exists /\ new.now.parts = Parts /\ new.lasting = restored.lasting
      /\ new.now.files = restored.now.files \cup {"marker"} /\ new.index = restored.index
  BY <1>2, <1>4, SoundWritten, WrittenFields
<1> HIDE DEF new
<1>6. Jobs' /\ job'["restored"].at = "restore.last" /\ job'["source"] = job["source"]
  BY <1>1, <1>2, GotoStep DEF Labels, Installations
<1>7. restored' = new /\ backup' = backup
  BY <1>1, <1>2, <1>5, PlaceStep DEF Directories, backup, restored
<1>8. RestoreInv'
  <2>1. /\ restored'.now.parts = Parts /\ restored'.exists /\ "restore" \notin reported'
        /\ restored'.index = restored.index
    BY <1>1, <1>2, <1>5, <1>7
  <2>2. EpochsUpTo(restored'.index, MaxEpoch + 1) /\ NoneActive(restored'.index) /\ restored'.index.schema = 2
    BY <1>3, <2>1
  <2>3. Inspected'
    BY <1>2, <1>7, Zenon DEF Inspected, backup
  <2>4. Moved' = Moved
    BY <1>7 DEF Moved, Copies
  <2>5. Has("restored", {"marker"})' /\ Moved' \cup {"lock"} \subseteq restored'.lasting.files
    BY <1>3, <1>5, <1>7, <2>4 DEF Has, restored
  <2>6. restored'.index.versions \subseteq restored'.now.files
    <3>1. restored'.index.versions \subseteq Moved
      BY <1>2, <1>3, <2>1, CopiedNames DEF Moved, Copies
    <3> QED
      BY <1>3, <1>5, <1>7, <3>1
  <2>7. \A w \in Identities : restored'.index.workers[w].status # "active"
    BY <2>2 DEF NoneActive
  <2> QED
    BY <1>6, <2>1, <2>2, <2>3, <2>5, <2>6, <2>7 DEF RestoreInv
<1> QED
  BY <1>1, <1>2, <1>5, <1>6, <1>8, InRestored, Restores DEF Restoring

LEMMA EndRestoreStep == ASSUME IInv, EndRestore PROVE IInv'
<1> DEFINE new == Synced(restored, {"config", ""})
<1>1. /\ job["restored"].at = "restore.last" /\ Goto("restored", "idle")
      /\ place' = [place EXCEPT !["restored"] = new] /\ reported' = reported \cup {"restore"} /\ outages' = outages
  BY DEF EndRestore, restored
<1>2. /\ Places /\ Jobs /\ Sound(restored) /\ restored \in Directory /\ restored.exists /\ restored.now.parts = Parts
      /\ reported \subseteq {"backup", "restore"}
  BY <1>1, Restores DEF Restoring
<1>3. "marker" \in restored.now.files
  BY <1>1 DEF IInv, RestoreInv, Has, restored
<1>4. /\ Moved \cup {"lock"} \subseteq restored.lasting.files /\ restored.index.schema = 2
      /\ (\A w \in Identities : restored.index.workers[w].status = "active"
                                => restored.index.workers[w].key \in restored.lasting.keys)
      /\ (outages = 0 => restored.index.versions \subseteq restored.now.files)
      /\ EpochsUpTo(restored.index, MaxEpoch + 1)
  BY <1>2, <1>3 DEF IInv, RestoreInv, Has, restored
<1>5. Sound(new)
  BY <1>2, SoundSynced
<1>6. /\ new.exists = restored.exists /\ new.now = restored.now /\ new.index = restored.index
      /\ new.lasting.files = restored.lasting.files \cup Within(restored, {"config", ""})
      /\ new.lasting.parts = restored.now.parts /\ new.lasting.keys = restored.lasting.keys
  BY <1>2, SyncedFields
<1>7. {"marker", "settings"} \subseteq new.lasting.files
  <2>1. "settings" \in Moved
    BY DEF Moved, Copies, Copied
  <2> QED
    BY <1>3, <1>4, <1>6, <2>1, PartOf DEF Within
<1> HIDE DEF new
<1>8. Jobs' /\ job'["restored"].at = "idle" /\ job'["source"] = job["source"]
  BY <1>1, <1>2, GotoStep DEF Labels, Installations
<1>9. restored' = new /\ backup' = backup
  BY <1>1, <1>2, <1>5, PlaceStep DEF Directories, backup, restored
<1>10. RestoreInv'
  <2>1. /\ restored'.now = restored.now /\ restored'.lasting.parts = Parts /\ restored'.index = restored.index
        /\ restored'.lasting.keys = restored.lasting.keys /\ restored.lasting.files \subseteq restored'.lasting.files
    BY <1>2, <1>6, <1>9
  <2>2. Moved' = Moved
    BY <1>9 DEF Moved, Copies
  <2>3. Moved' \cup {"lock"} \subseteq restored'.lasting.files /\ {"marker", "settings"} \subseteq restored'.lasting.files
    BY <1>4, <1>7, <1>9, <2>1, <2>2
  <2>4. EpochsUpTo(restored'.index, MaxEpoch + 1) /\ restored'.index.schema = 2
    BY <1>4, <2>1
  <2>5. \A w \in Identities : restored'.index.workers[w].status = "active"
                              => restored'.index.workers[w].key \in restored'.lasting.keys
    BY <1>4, <2>1
  <2>6. outages' = 0 => restored'.index.versions \subseteq restored'.now.files
    BY <1>1, <1>4, <2>1
  <2>7. job'["restored"].at \notin Restoring \cup Serving
    BY <1>8 DEF Restoring, Serving, Publishing, Crediting
  <2> QED
    BY <1>8, <2>1, <2>3, <2>4, <2>5, <2>6, <2>7 DEF RestoreInv, Restoring
<1>11. reported' \subseteq {"backup", "restore"} /\ ("backup" \in reported' => "backup" \in reported)
  BY <1>1, <1>2
<1> QED
  BY <1>1, <1>2, <1>5, <1>8, <1>10, <1>11, InRestored

-----------------------------------------------------------------------------
(* Power losses.                                                           *)

\* How much of a directory is there after a power loss.
Survives(old, new) ==
  /\ old.exists
  /\ new.now.parts \subseteq old.now.parts /\ new.now.files \subseteq old.now.files
  /\ old.lasting.parts \subseteq new.lasting.parts
  /\ \A f \in old.lasting.files : Part(f) \in new.now.parts \cup {""} => f \in new.lasting.files
  /\ "secrets" \in new.now.parts => old.lasting.keys \subseteq new.lasting.keys
  /\ IF "index" \in new.now.files THEN new.index = old.index ELSE new.index \in {old.index, NewIndex}

LEMMA PowerLossLeaves ==
  ASSUME IInv, NEW d \in Directories, PowerLoss(d)
  PROVE  /\ Places' /\ \A e \in Directories : place'[e] = Absent \/ Survives(place[e], place'[e])
         /\ source'.exists /\ source.lasting.parts = Parts /\ backup'.hot \in {backup.hot, FALSE}
<1>1. PICK left \in Remains(place[d]) \cup (IF d = "source" THEN {} ELSE {Absent}), torn \in BOOLEAN :
        place' = [e \in Directories |->
                   LET dir == IF e = d THEN left ELSE place[e] IN
                   [dir EXCEPT !.hot = @ \/ (torn /\ e \in Installations /\ dir.exists /\ Torn(e))]]
  BY DEF PowerLoss
<1> DEFINE Dir(e) == IF e = d THEN left ELSE place[e]
           Hot(e) == Dir(e).hot \/ (torn /\ e \in Installations /\ Dir(e).exists /\ Torn(e))
<1>2. Places
  BY AllSound
<1>3. source.lasting.parts = Parts
  BY DEF PowerLoss, source
<1>4. left = Absent \/ left \in Remains(place[d])
  BY <1>1
<1>5. \A e \in Directories : Sound(Dir(e))
  BY <1>2, <1>4, RemainsFields, AbsentSound DEF Places
<1>6. ASSUME NEW e \in Directories, Dir(e) # Absent PROVE Survives(place[e], Dir(e)) /\ Dir(e).hot = place[e].hot
  <2>1. Sound(place[e]) /\ Sound(Dir(e)) /\ Dir(e).exists
    BY <1>2, <1>5, <1>6, Zenon DEF Places, Sound
  <2>2. CASE e = d
    <3>1. Dir(e) = left /\ left \in Remains(place[e])
      BY <1>4, <1>6, <2>2
    <3>2. /\ left.exists = place[e].exists /\ left.hot = place[e].hot
          /\ left.lasting = left.now
          /\ place[e].lasting.parts \subseteq left.now.parts /\ left.now.parts \subseteq place[e].now.parts
          /\ left.now.files \subseteq place[e].now.files
          /\ \A f \in place[e].lasting.files : Part(f) \in left.now.parts \cup {""} => f \in left.now.files
          /\ "secrets" \in left.now.parts => place[e].lasting.keys \subseteq left.now.keys
          /\ left.index = IF "index" \in left.now.files THEN place[e].index ELSE NewIndex
      BY <2>1, <3>1, RemainsFields
    <3> HIDE DEF Dir
    <3> QED
      BY <2>1, <3>1, <3>2 DEF Survives
  <2>3. CASE e # d
    <3>1. Dir(e) = place[e]
      BY <2>3
    <3> HIDE DEF Dir
    <3>2. /\ place[e].lasting.parts \subseteq place[e].lasting.parts
          /\ place[e].exists
      BY <2>1, <3>1
    <3> QED
      BY <2>1, <3>1, <3>2 DEF Survives
  <2> QED
    BY <2>2, <2>3
<1>7. \A e \in Directories : Dir(e) \in Directory /\ Dir(e).hot \in BOOLEAN
  BY <1>5 DEF Sound, Directory
<1>8. \A e \in Directories : place'[e] = [Dir(e) EXCEPT !.hot = Hot(e)]
  BY <1>1
<1> HIDE DEF Dir
<1>9. \A e \in Directories : Hot(e) \in BOOLEAN /\ (~Dir(e).exists => Hot(e) = Dir(e).hot)
  BY <1>7 DEF Torn
<1>10. "backup" \in Directories /\ Hot("backup") = Dir("backup").hot
  BY <1>7 DEF Directories, Installations
<1> HIDE DEF Hot
<1>11. ASSUME NEW e \in Directories
       PROVE  /\ place'[e] \in Directory /\ place'[e].exists = Dir(e).exists /\ place'[e].now = Dir(e).now
              /\ place'[e].lasting = Dir(e).lasting /\ place'[e].index = Dir(e).index /\ place'[e].hot = Hot(e)
              /\ Sound(place'[e]) /\ (~Dir(e).exists => place'[e] = Absent)
  <2>1. /\ place'[e] \in Directory /\ place'[e].exists = Dir(e).exists /\ place'[e].now = Dir(e).now
        /\ place'[e].lasting = Dir(e).lasting /\ place'[e].index = Dir(e).index /\ place'[e].hot = Hot(e)
    BY <1>7, <1>8, <1>9 DEF Directory
  <2>2. ASSUME ~Dir(e).exists PROVE place'[e] = Absent
    <3>1. Dir(e) = Absent
      BY <1>5, <2>2, Zenon DEF Sound
    <3>2. place'[e] = Dir(e)
      BY <1>7, <1>8, <1>9, <2>2 DEF Directory
    <3> QED
      BY <3>1, <3>2
  <2>3. /\ Dir(e).lasting.parts \subseteq Dir(e).now.parts /\ Dir(e).lasting.files \subseteq Dir(e).now.files
        /\ Dir(e).lasting.keys \subseteq Dir(e).now.keys
        /\ \A f \in Dir(e).now.files : Part(f) \in Dir(e).now.parts \cup {""}
    BY <1>5, Zenon DEF Sound
  <2>4. Sound(place'[e])
    BY <2>1, <2>2, <2>3, Zenon DEF Sound
  <2> QED
    BY <2>1, <2>2, <2>4
<1>12. ASSUME NEW e \in Directories PROVE place'[e] = Absent \/ Survives(place[e], place'[e])
  <2>1. CASE Dir(e) = Absent
    BY <1>11, <2>1, AbsentSound
  <2>2. CASE Dir(e) # Absent
    <3>1. Survives(place[e], Dir(e))
      BY <1>6, <2>2
    <3> QED
      BY <1>11, <3>1, Zenon DEF Survives
  <2> QED
    BY <2>1, <2>2
<1>13. Places'
  <2>1. place' \in [Directories -> Directory]
    BY <1>1, <1>11
  <2> QED
    BY <1>11, <2>1 DEF Places
<1>14. source'.exists
  <2>1. source.exists
    BY <1>2, <1>3, WholeIsThere DEF Places, Sound, Directories, source, Parts
  <2>2. Dir("source").exists = source.exists
    <3>1. CASE d = "source"
      <4>1. Dir("source") = left /\ left \in Remains(source)
        BY <1>1, <3>1 DEF Dir, source
      <4> QED
        BY <1>2, <4>1, RemainsFields DEF Places, Directories, source
    <3>2. CASE d # "source"
      BY <3>2 DEF Dir, source
    <3> QED
      BY <3>1, <3>2
  <2> QED
    BY <1>11, <2>1, <2>2 DEF Directories, source
<1>15. backup'.hot \in {backup.hot, FALSE}
  <2>1. backup'.hot = Dir("backup").hot
    BY <1>10, <1>11 DEF backup
  <2>2. CASE Dir("backup") = Absent
    <3>1. Absent.hot = FALSE
      BY DEF Absent
    <3> QED
      BY <2>1, <2>2, <3>1
  <2>3. CASE Dir("backup") # Absent
    BY <1>6, <1>10, <2>1, <2>3 DEF backup
  <2> QED
    BY <2>2, <2>3
<1> QED
  BY <1>3, <1>12, <1>13, <1>14, <1>15

LEMMA PowerLossStep == ASSUME IInv, NEW d \in Directories, PowerLoss(d) PROVE IInv'
<1>1. /\ Places' /\ source'.exists /\ source.lasting.parts = Parts /\ backup'.hot \in {backup.hot, FALSE}
      /\ source' = Absent \/ Survives(source, source')
      /\ backup' = Absent \/ Survives(backup, backup')
      /\ restored' = Absent \/ Survives(restored, restored')
  BY PowerLossLeaves DEF Directories, source, backup, restored
<1>2. /\ Places /\ Sound(source) /\ Sound(backup) /\ Sound(restored)
      /\ outages \in 0..MaxOutages /\ reported \subseteq {"backup", "restore"}
  BY AllSound, TypedParts DEF IInv
<1>3. Sound(source)' /\ Sound(backup)' /\ Sound(restored)'
  BY <1>1, Zenon DEF Places, Directories, source, backup, restored
<1>4. outages < MaxOutages /\ outages' = outages + 1 /\ reported' = reported /\ job' = [i \in Installations |-> Idle]
  BY DEF PowerLoss
<1>5. outages' \in 0..MaxOutages /\ outages' # 0
  BY <1>2, <1>4, Bounds
<1>6. Jobs' /\ job'["source"].at = "idle" /\ job'["restored"].at = "idle"
  BY <1>4, IdleJob DEF Jobs, Installations
<1>7. Working("source")' /\ Working("restored")'
  BY <1>6, WorkingVoid DEF Publishing, Crediting, Installations
<1>8. /\ job'["source"].at \notin BackingUp /\ job'["restored"].at \notin Restoring \cup Serving \cup {"restore.last"}
  BY <1>6 DEF BackingUp, Restoring, Serving, Publishing, Crediting
<1>9. SourceInv'
  <2>1. Survives(source, source') /\ source \in Directory /\ source.lasting.parts \subseteq source.now.parts
    BY <1>1, <1>2, AbsentSound DEF Sound
  <2>2. source'.now.parts = Parts
    <3>1. source'.lasting.parts \subseteq source'.now.parts
      BY <1>3, Zenon DEF Sound
    <3>2. source.now.parts \subseteq Parts
      BY <2>1 DEF Directory, Content
    <3> QED
      BY <1>1, <2>1, <3>1, <3>2 DEF Survives
  <2>3. source'.index \in {source.index, NewIndex} /\ source.lasting.keys \subseteq source'.lasting.keys
    BY <2>1, <2>2 DEF Survives, Parts
  <2>4. EpochsUpTo(source'.index, MaxEpoch)
    BY <2>3, Bounds, NewIndexType DEF IInv, SourceInv
  <2>5. ASSUME NEW w \in Identities, source'.index.workers[w].status = "active",
               source'.index.workers[w].key # Token("source")
        PROVE  source'.index.workers[w].key \in source'.lasting.keys
    <3>1. source'.index = source.index
      BY <2>3, <2>5, NewIndexType DEF NoneActive
    <3>2. source.index.workers[w].key \in source.lasting.keys
      BY <2>5, <3>1 DEF IInv, SourceInv
    <3> QED
      BY <2>3, <3>1, <3>2
  <2> QED
    BY <1>5, <1>6, <2>2, <2>4, <2>5 DEF SourceInv
<1>10. backup'.index \in {backup.index, NewIndex}
  <2>1. CASE backup' = Absent
    BY <2>1 DEF Absent
  <2>2. CASE Survives(backup, backup')
    BY <2>2 DEF Survives
  <2> QED
    BY <1>1, <2>1, <2>2
<1>11. BackupInv'
  <2>1. backup.now.parts \subseteq Archived /\ ~backup.hot /\ EpochsUpTo(backup.index, MaxEpoch)
    BY Zenon DEF IInv, BackupInv
  <2>2. EpochsUpTo(backup'.index, MaxEpoch)
    BY <1>10, <2>1, Bounds, NewIndexType
  <2>3. ~backup'.hot
    BY <1>1, <2>1
  <2>4. CASE backup' = Absent
    <3>1. /\ backup'.now.parts = {} /\ backup'.now.files = {} /\ ~backup'.exists
      BY <2>4 DEF Absent, NoContent
    <3>2. ~Has("backup", {"manifest"})'
      BY <3>1 DEF Has, backup
    <3> QED
      BY <1>8, <2>2, <2>3, <3>1, <3>2 DEF BackupInv, BackingUp
  <2>5. CASE Survives(backup, backup')
    <3>1. backup'.now.parts \subseteq Archived
      BY <2>1, <2>5 DEF Survives
    <3>2. ASSUME "manifest" \in backup'.now.files, backup'.now.parts = Archived
          PROVE  backup'.now.files = Copies' \cup {"manifest"} /\ Copies' \subseteq backup'.lasting.files
      <4>1. "manifest" \in backup.now.files /\ backup.now.parts = Archived
        BY <2>1, <2>5, <3>2 DEF Survives
      <4>2. backup.now.files = Copies \cup {"manifest"} /\ Copies \subseteq backup.lasting.files
        BY <4>1 DEF IInv, BackupInv, Has, backup
      <4>3. backup.index \in Index
        BY <1>2 DEF Sound, Directory
      <4>4. Copies \subseteq backup'.lasting.files
        BY <2>5, <3>2, <4>2, <4>3, CopiedNames DEF Survives, Copies
      <4>5. backup'.lasting.files \subseteq backup'.now.files
        BY <1>3, Zenon DEF Sound
      <4>6. "index" \in backup'.now.files
        BY <4>4, <4>5 DEF Copies, Copied
      <4>7. Copies' = Copies
        BY <2>5, <4>6 DEF Survives, Copies
      <4>8. backup'.now.files \subseteq Copies \cup {"manifest"}
        BY <2>5, <4>2 DEF Survives
      <4> QED
        BY <3>2, <4>4, <4>5, <4>7, <4>8
    <3>3. ASSUME "backup" \in reported', backup'.exists
          PROVE  backup'.now.parts = Archived /\ backup'.lasting.parts = Archived /\ "manifest" \in backup'.lasting.files
      <4>1. backup.exists
        BY <2>5, Zenon DEF Survives
      <4>2. backup.now.parts = Archived /\ backup.lasting.parts = Archived /\ "manifest" \in backup.lasting.files
        BY <1>4, <3>3, <4>1 DEF IInv, BackupInv
      <4>3. backup'.lasting.parts \subseteq backup'.now.parts
        BY <1>3, Zenon DEF Sound
      <4>4. backup'.now.parts = Archived /\ backup'.lasting.parts = Archived
        BY <2>5, <4>2, <4>3 DEF Survives
      <4> QED
        BY <2>5, <4>2, <4>4, PartOf DEF Survives
    <3>4. Has("backup", {"manifest"})' <=> "manifest" \in backup'.now.files
      BY DEF Has, backup
    <3> QED
      BY <1>8, <2>2, <2>3, <3>1, <3>2, <3>3, <3>4 DEF BackupInv, BackingUp
  <2> QED
    BY <1>1, <2>4, <2>5
<1>12. RestoreInv'
  <2>1. CASE restored' = Absent
    <3>1. ~restored.exists'
      BY <2>1, AbsentSound
    <3> QED
      BY <1>3, <1>8, <3>1, RestoreVoid
  <2>2. CASE Survives(restored, restored')
    <3>1. restored'.index \in {restored.index, NewIndex} /\ EpochsUpTo(restored.index, MaxEpoch + 1)
      BY <2>2 DEF Survives, IInv, RestoreInv
    <3>2. EpochsUpTo(restored'.index, MaxEpoch + 1)
      BY <3>1, Bounds, NewIndexType
    <3>3. restored.now.parts \subseteq Parts /\ backup.index \in Index
      BY <1>2 DEF Sound, Directory, Content
    <3>4. ASSUME "marker" \in restored'.now.files, restored'.now.parts = Parts
          PROVE  /\ Moved' \cup {"lock"} \subseteq restored'.lasting.files /\ restored'.index.schema = 2
                 /\ \A w \in Identities : restored'.index.workers[w].status = "active"
                                          => restored'.index.workers[w].key \in restored'.lasting.keys
      <4>1. "marker" \in restored.now.files /\ restored.now.parts = Parts
        BY <2>2, <3>3, <3>4 DEF Survives
      <4>2. /\ Moved \cup {"lock"} \subseteq restored.lasting.files /\ restored.index.schema = 2
            /\ \A w \in Identities : restored.index.workers[w].status = "active"
                                     => restored.index.workers[w].key \in restored.lasting.keys
        BY <4>1 DEF IInv, RestoreInv, Has, restored
      <4>3. Moved' \subseteq Moved /\ "index" \in Moved
        <5>1. Copied(NewIndex) \subseteq Copied(backup.index)
          BY NewIndexType DEF Copied
        <5> QED
          BY <1>10, <5>1 DEF Moved, Copies, Copied
      <4>4. Moved \cup {"lock"} \subseteq restored'.lasting.files
        BY <2>2, <3>3, <3>4, <4>2, MovedNames DEF Survives
      <4>5. "index" \in restored'.now.files
        BY <1>3, <4>3, <4>4 DEF Sound
      <4>6. restored'.index = restored.index /\ restored.lasting.keys \subseteq restored'.lasting.keys
        BY <2>2, <3>4, <4>5 DEF Survives, Parts
      <4> QED
        BY <4>2, <4>3, <4>4, <4>6
    <3>5. ASSUME "restore" \in reported', restored'.exists
          PROVE  {"marker", "settings"} \subseteq restored'.lasting.files /\ restored'.lasting.parts = Parts
      <4>1. restored.exists
        BY <2>2, Zenon DEF Survives
      <4>2. {"marker", "settings"} \subseteq restored.lasting.files /\ restored.lasting.parts = Parts
        BY <1>4, <3>5, <4>1 DEF IInv, RestoreInv
      <4>3. restored'.lasting.parts \subseteq restored'.now.parts
        BY <1>3, Zenon DEF Sound
      <4>4. restored'.now.parts = Parts /\ restored'.lasting.parts = Parts
        BY <2>2, <3>3, <4>2, <4>3 DEF Survives
      <4> QED
        BY <2>2, <4>2, <4>4, PartOf DEF Survives, Parts
    <3>6. Has("restored", {"marker"})' <=> "marker" \in restored'.now.files
      BY DEF Has, restored
    <3> QED
      BY <1>5, <1>6, <1>8, <3>2, <3>4, <3>5, <3>6 DEF RestoreInv, Restoring
  <2> QED
    BY <1>1, <2>1, <2>2
<1>13. Typed'
  BY <1>1, <1>2, <1>4, <1>5, <1>6, <1>7, TypedNext
<1> QED
  BY <1>9, <1>11, <1>12, <1>13 DEF IInv

-----------------------------------------------------------------------------
LEMMA FirstReleaseSound ==
  /\ Sound(FirstRelease) /\ FirstRelease.now.parts = Parts /\ NoneActive(FirstRelease.index)
  /\ EpochsUpTo(FirstRelease.index, MaxEpoch) /\ FirstRelease.index.versions = {}
<1> DEFINE files == {"index", "lock", "settings", "marker", "admin", "worker"}
           whole == [parts |-> Parts, files |-> files, keys |-> {}]
           index == [NewIndex EXCEPT !.schema = 1]
<1>1. files \in SUBSET Names /\ \A f \in files : Part(f) \in Parts
  BY PartOf DEF Names, Parts
<1> HIDE DEF files
<1>2. whole \in Content /\ whole.parts = Parts /\ whole.files = files /\ whole.keys = {}
  BY <1>1 DEF Content
<1> HIDE DEF whole
<1>3. NewIndex \in Index /\ NoneActive(NewIndex) /\ EpochsUpTo(NewIndex, MaxEpoch) /\ NewIndex.versions = {}
  BY Bounds, NewIndexType
<1>4. index.workers = NewIndex.workers /\ index.versions = {} /\ index.schema = 1
      /\ index = [schema |-> 1, workers |-> NewIndex.workers, versions |-> {}]
  BY <1>3 DEF NewIndex
<1>5. index \in Index
  BY <1>3, <1>4 DEF Index
<1> HIDE DEF index
<1>6. NoneActive(index) /\ EpochsUpTo(index, MaxEpoch)
  BY <1>3, <1>4 DEF NoneActive, EpochsUpTo
<1>7. FirstRelease = [exists |-> TRUE, now |-> whole, lasting |-> whole, index |-> index, hot |-> FALSE]
  BY Zenon DEF FirstRelease, whole, index, files
<1>8. FirstRelease \in Directory
  BY <1>2, <1>5, <1>7 DEF Directory
<1>9. FirstRelease.exists /\ FirstRelease.now = whole /\ FirstRelease.lasting = whole /\ FirstRelease.index = index
  BY <1>7
<1>10. Sound(FirstRelease)
  BY <1>1, <1>2, <1>8, <1>9 DEF Sound
<1> QED
  BY <1>2, <1>4, <1>6, <1>9, <1>10

LEMMA InitHolds == ASSUME Init PROVE IInv
<1>1. PICK start \in Starts :
        place = [d \in Directories |-> IF d = "source" /\ start = "first release" THEN FirstRelease ELSE Absent]
  BY DEF Init
<1>2. job = [d \in Installations |-> Idle] /\ reported = {} /\ outages = 0
  BY DEF Init
<1>3. source \in {FirstRelease, Absent} /\ backup = Absent /\ restored = Absent
  BY <1>1 DEF source, backup, restored, Directories
<1>4. Places
  <2>1. \A d \in Directories : place[d] \in {FirstRelease, Absent} /\ Sound(place[d])
    BY <1>1, FirstReleaseSound, AbsentSound
  <2>2. FirstRelease \in Directory /\ Absent \in Directory
    BY FirstReleaseSound, AbsentSound DEF Sound
  <2> QED
    BY <1>1, <2>1, <2>2 DEF Places
<1>5. Jobs /\ job["source"].at = "idle" /\ job["restored"].at = "idle"
  BY <1>2, IdleJob DEF Jobs, Installations
<1>6. /\ job["source"].at \notin BackingUp \cup Publishing \cup Crediting
      /\ job["restored"].at \notin Restoring \cup Serving \cup {"restore.last"} \cup Publishing \cup Crediting
  BY <1>5 DEF BackingUp, Restoring, Serving, Publishing, Crediting
<1>7. Working("source") /\ Working("restored")
  BY <1>5, <1>6 DEF Working, Publishing, Crediting
<1>8. Typed
  BY <1>2, <1>4, <1>5, <1>7, TypedParts, Bounds
<1>9. /\ Absent.now.parts = {} /\ Absent.now.files = {} /\ Absent.index = NewIndex
      /\ Absent.hot = FALSE /\ ~Absent.exists
  BY DEF Absent, NoContent
<1>10. SourceInv
  <2>1. /\ source.now.parts \in {{}, Parts} /\ NoneActive(source.index) /\ EpochsUpTo(source.index, MaxEpoch)
        /\ source.index.versions = {}
    BY <1>3, <1>9, FirstReleaseSound, NewIndexType, Bounds
  <2> QED
    BY <1>5, <2>1 DEF SourceInv, NoneActive
<1>11. BackupInv
  <2>1. EpochsUpTo(backup.index, MaxEpoch)
    BY <1>3, <1>9, Bounds, NewIndexType
  <2>2. ~Has("backup", {"manifest"})
    BY <1>3, <1>9 DEF Has, backup
  <2> QED
    BY <1>2, <1>3, <1>6, <1>9, <2>1, <2>2 DEF BackupInv, BackingUp
<1>12. RestoreInv
  <2>1. EpochsUpTo(restored.index, MaxEpoch + 1)
    BY <1>3, <1>9, Bounds, NewIndexType
  <2>2. ~Has("restored", {"marker"})
    BY <1>3, <1>9 DEF Has, restored
  <2> QED
    BY <1>2, <1>3, <1>6, <1>9, <2>1, <2>2 DEF RestoreInv, Restoring
<1> QED
  BY <1>8, <1>10, <1>11, <1>12 DEF IInv

LEMMA StutterStep == ASSUME IInv, UNCHANGED vars PROVE IInv'
<1>1. place' = place /\ job' = job /\ reported' = reported /\ outages' = outages
  BY DEF vars
<1>2. source' = source /\ backup' = backup /\ restored' = restored
  BY <1>1 DEF source, backup, restored
<1>3. SourceInv' /\ BackupInv' /\ RestoreInv'
  BY <1>1, <1>2, SourceFrame, BackupFrame, RestoreFrame DEF IInv, SourceInv
<1>4. Places' /\ Jobs'
  BY <1>1, AllSound DEF Places, Jobs
<1>5. Working("source")' /\ Working("restored")'
  BY <1>1, WorkingFrame, TypedParts DEF IInv, Installations
<1>6. Typed'
  BY <1>1, <1>4, <1>5, TypedParts, TypedNext DEF IInv
<1> QED
  BY <1>3, <1>6 DEF IInv

LEMMA Invariance == Spec => []IInv
<1>1. ASSUME IInv, [Next]_vars PROVE IInv'
  <2>1. ASSUME NEW d \in Installations,
               \/ Open(d) \/ Close(d) \/ BeginPublish(d) \/ PlaceObject(d) \/ SyncObjects(d) \/ CommitVersion(d)
               \/ SyncKey(d) \/ CommitKey(d) \/ Dies(d)
        PROVE  IInv'
    BY <1>1, <2>1, OpenStep, CloseStep, BeginPublishStep, PlaceObjectStep, SyncObjectsStep, CommitVersionStep,
       SyncKeyStep, CommitKeyStep, DiesStep
  <2>2. ASSUME NEW d \in Installations, NEW w \in Identities, Revoke(d, w) \/ WriteKey(d, w)
        PROVE  IInv'
    BY <1>1, <2>2, RevokeStep, WriteKeyStep
  <2>3. CASE InitDirectory \/ InitFiles \/ InitMarker
    BY <1>1, <2>3, InitDirectoryStep, InitFilesStep
  <2>4. CASE BeginBackup \/ CopyToBackup \/ SyncBackup \/ WriteManifest \/ EndBackup
    BY <1>1, <2>4, BeginBackupStep, CopyToBackupStep, SyncBackupStep, WriteManifestStep, EndBackupStep
  <2>5. CASE BeginRestore \/ CopyFromBackup \/ WriteTokens \/ Retire \/ SyncRestored \/ WriteMarker \/ EndRestore
    BY <1>1, <2>5, BeginRestoreStep, CopyFromBackupStep, WriteTokensStep, RetireStep, SyncRestoredStep,
       WriteMarkerStep, EndRestoreStep
  <2>6. ASSUME NEW d \in Directories, PowerLoss(d) PROVE IInv'
    BY <1>1, <2>6, PowerLossStep
  <2>7. CASE UNCHANGED vars
    BY <1>1, <2>7, StutterStep
  <2> QED
    BY <1>1, <2>1, <2>2, <2>3, <2>4, <2>5, <2>6, <2>7 DEF Next
<1> QED
  BY <1>1, InitHolds, PTL DEF Spec

-----------------------------------------------------------------------------
(* The theorems.                                                           *)

\* The directories, the jobs and the counters keep their types; nothing lasts
\* that is not there, and no file is in a missing subdirectory.
THEOREM TypeCorrect == Spec => []TypeOK
<1>1. IInv => TypeOK
  <2> SUFFICES ASSUME IInv PROVE TypeOK
    OBVIOUS
  <2>1. place \in [Directories -> Directory] /\ (\A d \in Directories : Sound(place[d]))
        /\ reported \subseteq {"backup", "restore"} /\ outages \in 0..MaxOutages
    BY Zenon DEF IInv, Typed
  <2>2. ASSUME NEW d \in Installations
        PROVE  job[d].at \in Labels /\ job[d].what \in Contents \cup Identities \cup {"none"}
    BY AllSound DEF Jobs, Job
  <2>3. ASSUME NEW d \in Directories
        PROVE  LET now == place[d].now  lasting == place[d].lasting IN
               /\ lasting.parts \subseteq now.parts /\ lasting.files \subseteq now.files
               /\ lasting.keys \subseteq now.keys
               /\ \A f \in now.files : Part(f) \in now.parts \cup {""}
    BY <2>1, Zenon DEF Sound
  <2> QED
    BY <2>1, <2>2, <2>3, Zenon DEF TypeOK
<1> QED
  BY <1>1, Invariance, PTL

\* Wherever a command dies or the power fails, and however many files and
\* identities there are: a backup with its manifest is one that inspect_backup
\* reads, its index is not in the middle of a transaction, and a restored
\* directory that Store accepts has everything it needs.
THEOREM MarkersComeLast == Spec => []MarkerComesLast
<1>1. IInv => MarkerComesLast
  <2> SUFFICES ASSUME IInv PROVE MarkerComesLast
    OBVIOUS
  <2>1. ASSUME Has("backup", {"manifest"}), backup.now.parts = Archived PROVE Inspected /\ ~backup.hot
    BY <2>1 DEF IInv, BackupInv, Inspected, Archived, Copies, Has, backup
  <2>2. ASSUME Accepted("restored")
        PROVE  Has("restored", (Copied(backup.index) \cup {"admin", "worker", "lock"}) \ {"manifest"})
    <3>1. Has("restored", {"marker"}) /\ restored.now.parts = Parts
      BY <2>2 DEF Accepted, Has, restored
    <3>2. Moved \cup {"lock"} \subseteq restored.lasting.files
      BY <3>1 DEF IInv, RestoreInv
    <3>3. restored.lasting.files \subseteq restored.now.files
      BY AllSound DEF Sound
    <3> QED
      BY <3>1, <3>2, <3>3 DEF Has, Moved, Copies, restored
  <2> QED
    BY <2>1, <2>2 DEF MarkerComesLast, Archived, backup
<1> QED
  BY <1>1, Invariance, PTL

\* What a command has reported stands: no power loss after it takes from a backup
\* or a restored directory, if it leaves it, what makes it acceptable.
THEOREM ReportsStand == Spec => []ReportedStands
<1>1. IInv => ReportedStands
  <2> SUFFICES ASSUME IInv PROVE ReportedStands
    OBVIOUS
  <2>1. ASSUME "backup" \in reported, backup.exists PROVE Inspected
    <3>1. backup.now.parts = Archived /\ "manifest" \in backup.lasting.files
      BY <2>1 DEF IInv, BackupInv
    <3>2. Has("backup", {"manifest"})
      BY <3>1, AllSound DEF Sound, Has, backup
    <3> QED
      BY <3>1, <3>2 DEF IInv, BackupInv, Inspected, Archived, Copies, backup
  <2>2. ASSUME "restore" \in reported, restored.exists PROVE Accepted("restored")
    <3>1. {"marker", "settings"} \subseteq restored.lasting.files /\ restored.lasting.parts = Parts
      BY <2>2 DEF IInv, RestoreInv
    <3>2. /\ restored.lasting.files \subseteq restored.now.files /\ restored.lasting.parts \subseteq restored.now.parts
          /\ restored.now.parts \subseteq Parts
      BY AllSound DEF Sound, Directory, Content
    <3> QED
      BY <3>1, <3>2 DEF Accepted, Has, restored
  <2> QED
    BY <2>1, <2>2 DEF ReportedStands, backup, restored
<1> QED
  BY <1>1, Invariance, PTL

\* In a restored directory that Store accepts, an active identity has a key that
\* was issued there: none of the source's keys, nor the new worker.token, is of
\* any use, whichever release the backup comes from.
THEOREM RestoredKeysAreNew == Spec => []RestoredNeedsNewKeys
<1>1. IInv => RestoredNeedsNewKeys
  <2> SUFFICES ASSUME IInv, Accepted("restored"), NEW w \in Identities, restored.index.workers[w].status = "active"
               PROVE  restored.index.workers[w].key \in restored.now.keys
    BY DEF RestoredNeedsNewKeys, restored
  <2>1. Has("restored", {"marker"}) /\ restored.now.parts = Parts
    BY DEF Accepted, Has, restored
  <2>2. restored.index.workers[w].key \in restored.lasting.keys
    BY <2>1 DEF IInv, RestoreInv
  <2> QED
    BY <2>2, AllSound DEF Sound
<1> QED
  BY <1>1, Invariance, PTL

\* The registry never says active of an identity whose key a crash could take:
\* its file and its name are on the disk first, the migrated token apart.
THEOREM ActiveKeysLast == Spec => []ActiveKeyLasts
<1>1. IInv => ActiveKeyLasts
  <2> SUFFICES ASSUME IInv, NEW d \in Installations, NEW w \in Identities, Accepted(d),
                      place[d].index.workers[w].status = "active", place[d].index.workers[w].key # Token(d)
               PROVE  place[d].index.workers[w].key \in place[d].lasting.keys
    BY Zenon DEF ActiveKeyLasts
  <2>1. CASE d = "source"
    BY <2>1 DEF IInv, SourceInv, source
  <2>2. CASE d = "restored"
    <3>1. Has("restored", {"marker"}) /\ restored.now.parts = Parts
      BY <2>2 DEF Accepted, Has, restored
    <3> QED
      BY <2>2, <3>1 DEF IInv, RestoreInv, restored
  <2> QED
    BY <2>1, <2>2 DEF Installations
<1> QED
  BY <1>1, Invariance, PTL

\* Until the power fails, every version a committed transaction recorded has its
\* object, in the source and in the restored directory, wherever a process dies.
THEOREM CommittedVersionsHaveObjects == Spec => []VersionsHaveObjects
<1>1. IInv => VersionsHaveObjects
  <2> SUFFICES ASSUME IInv, outages = 0, NEW d \in Installations, Accepted(d)
               PROVE  place[d].index.versions \subseteq place[d].now.files
    BY Zenon DEF VersionsHaveObjects
  <2>1. CASE d = "source"
    BY <2>1 DEF IInv, SourceInv, source
  <2>2. CASE d = "restored"
    <3>1. Has("restored", {"marker"}) /\ restored.now.parts = Parts
      BY <2>2 DEF Accepted, Has, restored
    <3> QED
      BY <2>2, <3>1 DEF IInv, RestoreInv, restored
  <2> QED
    BY <2>1, <2>2 DEF Installations
<1> QED
  BY <1>1, Invariance, PTL

=============================================================================
