---------------------------- MODULE Installation ----------------------------
(***************************************************************************)
(* The files under the control plane: a data directory, its offline backup  *)
(* and the directory restored from it (storage.py, backup.py), the objects  *)
(* of published versions (workspace.py) and the keys of worker identities   *)
(* (worker_registry.py).  Every process may die between two writes, and the *)
(* machine may lose power: a name that no fsync of its directory followed   *)
(* may then be gone.  Contents are never torn, since write_new syncs a file *)
(* before anything else; a commit of SQLite is durable.                     *)
(*                                                                         *)
(* Not here: object bytes that rot, staging and log files, limits of size   *)
(* and number, and a server started between a restore's marker and its last *)
(* fsync, since restore_backup holds no lock.                              *)
(***************************************************************************)
EXTENDS Naturals

CONSTANTS
  Contents,   \* what a version may contain; its digest names the object file
  Workers,    \* identities that may be enrolled, apart from Legacy
  Legacy,     \* fake-cpu, which migration 2 seeds with secrets/worker.token
  Starts,     \* what the source starts from: nothing, or an earlier release's directory
  MaxEpoch,   \* bound: credential epochs
  MaxOutages  \* bound: how many times the machine loses power

ASSUME ConstantsAssumption ==
  /\ Contents \cap {"index", "lock", "settings", "marker", "admin", "worker", "manifest"} = {}
  /\ Starts \subseteq {"nothing", "first release"}
  /\ Legacy \notin Workers /\ MaxEpoch \in Nat \ {0} /\ MaxOutages \in Nat

VARIABLES
  place,     \* the three directories: what is in them and what would survive
  job,       \* what the process that holds a data directory is doing
  reported,  \* the commands that returned success: backup, restore
  outages    \* how many times the power failed

vars == <<place, job, reported, outages>>

-----------------------------------------------------------------------------
Identities == Workers \cup {Legacy}
Directories == {"source", "backup", "restored"}
Installations == {"source", "restored"}

\* The subdirectories that hold files; "" is the directory itself.
Parts == {"app", "objects", "config", "secrets"}
Names == Contents \cup {"index", "lock", "settings", "marker", "admin", "worker", "manifest"}

Part(f) ==
  IF f \in {"index", "lock"} THEN "app"
  ELSE IF f \in {"settings", "marker"} THEN "config"
  ELSE IF f \in {"admin", "worker"} THEN "secrets"
  ELSE IF f = "manifest" THEN "" ELSE "objects"

\* A key is random: one of each directory, identity and epoch.
Key == [dir: Installations, worker: Identities, epoch: 0..MaxEpoch + 2]

\* secrets/worker.token; keys under secrets/workers have the epoch they are for.
Token(d) == [dir |-> d, worker |-> Legacy, epoch |-> 0]

Identity == [status: {"none", "active", "revoked"}, epoch: 0..MaxEpoch + 2, key: Key]
Index == [schema: 0..2, workers: [Identities -> Identity], versions: SUBSET Contents]

NoIdentity == [status |-> "none", epoch |-> 0, key |-> Token("source")]
NewIndex == [schema |-> 0, workers |-> [w \in Identities |-> NoIdentity], versions |-> {}]

\* lasting says which names an fsync has made durable; hot, that a transaction's
\* rollback journal is still beside the index.
Content == [parts: SUBSET Parts, files: SUBSET Names, keys: SUBSET Key]
Directory == [exists: BOOLEAN, now: Content, lasting: Content, index: Index, hot: BOOLEAN]

NoContent == [parts |-> {}, files |-> {}, keys |-> {}]
Absent == [exists |-> FALSE, now |-> NoContent, lasting |-> NoContent, index |-> NewIndex, hot |-> FALSE]

Idle == [at |-> "idle", what |-> "none"]
Labels == {"idle", "init.files", "init.marker", "serving", "maintenance", "placing",
           "syncing", "committing", "key.sync", "key.commit", "backup.copy", "backup.manifest", "backup.last",
           "restore.copy", "restore.retire", "restore.sync", "restore.marker", "restore.last"}

\* Types; nothing lasts that is not there, and nothing is in a missing subdirectory.
TypeOK ==
  /\ place \in [Directories -> Directory]
  /\ \A d \in Directories :
       LET now == place[d].now  lasting == place[d].lasting IN
       /\ lasting.parts \subseteq now.parts /\ lasting.files \subseteq now.files
       /\ lasting.keys \subseteq now.keys
       /\ \A f \in now.files : Part(f) \in now.parts \cup {""}
  /\ \A d \in Installations :
       /\ job[d].at \in Labels
       /\ job[d].what \in Contents \cup Identities \cup {"none"}
  /\ reported \subseteq {"backup", "restore"}
  /\ outages \in 0..MaxOutages

\* An installation of the first release, whose index has no registry yet.
FirstRelease ==
  LET whole == [parts |-> Parts, files |-> {"index", "lock", "settings", "marker", "admin", "worker"}, keys |-> {}]
  IN [exists |-> TRUE, now |-> whole, lasting |-> whole, index |-> [NewIndex EXCEPT !.schema = 1], hot |-> FALSE]

Init ==
  /\ \E start \in Starts :
       place = [d \in Directories |-> IF d = "source" /\ start = "first release" THEN FirstRelease ELSE Absent]
  /\ job = [d \in Installations |-> Idle]
  /\ reported = {}
  /\ outages = 0

-----------------------------------------------------------------------------
(* Steps on files.                                                         *)

Has(d, files) == files \subseteq place[d].now.files

\* write_new of files that are not there, in subdirectories that are.
Written(dir, files) == [dir EXCEPT !.now.files = @ \cup files]

\* fsync of a subdirectory, or of the directory itself for "".
Synced(dir, parts) ==
  [dir EXCEPT !.lasting.files = @ \cup {f \in dir.now.files : Part(f) \in parts},
              !.lasting.parts = IF "" \in parts THEN dir.now.parts ELSE @]

\* Bound: once a restore has begun, no command is started on the source.
SourceInUse == ~place["restored"].exists

Goto(d, label) == job' = [job EXCEPT ![d].at = label]

-----------------------------------------------------------------------------
(* Store: create or open a data directory.                                 *)

\* mkdir of an absent directory, and of the subdirectories of an empty one.  (An
\* empty destination of a restore could be made an installation too: not here.)
InitDirectory ==
  /\ job["source"] = Idle /\ place["source"].now = NoContent /\ SourceInUse
  /\ place' = [place EXCEPT !["source"].exists = TRUE, !["source"].now.parts = Parts]
  /\ Goto("source", "init.files")
  /\ UNCHANGED <<reported, outages>>

InitFiles ==
  /\ job["source"].at = "init.files"
  /\ place' = [place EXCEPT !["source"] = Written(@, {"settings", "admin", "worker"})]
  /\ Goto("source", "init.marker")
  /\ UNCHANGED <<reported, outages>>

InitMarker ==
  /\ job["source"].at = "init.marker"
  /\ place' = [place EXCEPT !["source"] = Written(@, {"marker"})]
  /\ Goto("source", "idle")
  /\ UNCHANGED <<reported, outages>>

\* What Store accepts: a marker, and all subdirectories.
Accepted(d) == Has(d, {"marker", "settings"}) /\ place[d].now.parts = Parts

\* migrate_index up to the second schema: the token becomes fake-cpu's key.
Migrated(d, index) ==
  IF index.schema = 2 THEN index
  ELSE [index EXCEPT !.schema = 2,
                     !.workers[Legacy] = [status |-> "active", epoch |-> 1, key |-> Token(d)]]

\* The lock is taken (serve then reads the keys), an interrupted transaction rolled back, the index
\* created when it is missing, and migrated.
Open(d) ==
  /\ job[d] = Idle /\ Accepted(d)
  /\ d = "source" => SourceInUse
  /\ LET old == IF Has(d, {"index"}) THEN place[d].index ELSE NewIndex IN
     /\ old.schema = 2 \/ Has(d, {"worker"})
     /\ place' = [place EXCEPT ![d] = [Synced(Written(@, {"index", "lock"}), {"app"}) EXCEPT
                                         !.index = Migrated(d, old), !.hot = FALSE]]
  /\ \/ Has(d, {"admin"}) /\ Goto(d, "serving")
     \/ Goto(d, "maintenance")
  /\ UNCHANGED <<reported, outages>>

Close(d) ==
  /\ job[d].at \in {"serving", "maintenance"}
  /\ job' = [job EXCEPT ![d] = Idle]
  /\ UNCHANGED <<place, reported, outages>>

-----------------------------------------------------------------------------
(* Publishing a version, inside its transaction.                           *)

BeginPublish(d) ==
  /\ job[d].at = "serving"
  /\ \E c \in Contents : job' = [job EXCEPT ![d] = [at |-> "placing", what |-> c]]
  /\ UNCHANGED <<place, reported, outages>>

\* An object that is there is compared and kept; another is renamed into place.
PlaceObject(d) ==
  /\ job[d].at = "placing"
  /\ IF Has(d, {job[d].what})
     THEN UNCHANGED place /\ Goto(d, "committing")
     ELSE place' = [place EXCEPT ![d] = Written(@, {job[d].what})] /\ Goto(d, "syncing")
  /\ UNCHANGED <<reported, outages>>

SyncObjects(d) ==
  /\ job[d].at = "syncing"
  /\ place' = [place EXCEPT ![d] = Synced(@, {"objects"})]
  /\ Goto(d, "committing")
  /\ UNCHANGED <<reported, outages>>

\* Mutant: the version is committed before its object is renamed into place.
CommitFirst(d) ==
  /\ job[d].at \in {"placing", "committing"}
  /\ place' = [place EXCEPT ![d].index.versions = @ \cup {job[d].what}]
  /\ job' = [job EXCEPT ![d] = IF @.at = "placing" THEN @ ELSE [at |-> "serving", what |-> "none"]]
  /\ UNCHANGED <<reported, outages>>

CommitVersion(d) ==
  /\ job[d].at = "committing"
  /\ place' = [place EXCEPT ![d].index.versions = @ \cup {job[d].what}]
  /\ job' = [job EXCEPT ![d] = [at |-> "serving", what |-> "none"]]
  /\ UNCHANGED <<reported, outages>>

-----------------------------------------------------------------------------
(* Worker identities.                                                      *)

\* Bound: a restored directory may go one epoch further than the source.
EpochAllows(d, w) ==
  place[d].index.workers[w].epoch < (IF d = "restored" THEN MaxEpoch + 1 ELSE MaxEpoch)

\* revoke, in one transaction of the server.
Revoke(d, w) ==
  LET identity == place[d].index.workers[w] IN
  /\ job[d].at = "serving" /\ identity.status = "active"
  /\ EpochAllows(d, w)
  /\ place' = [place EXCEPT ![d].index.workers[w] =
                 [identity EXCEPT !.status = "revoked", !.epoch = @ + 1]]
  /\ UNCHANGED <<job, reported, outages>>

NextKey(d, w) == [dir |-> d, worker |-> w, epoch |-> place[d].index.workers[w].epoch + 1]

\* enroll of a new identity, rotate of another (reactivating it if revoked):
\* the file of the next epoch must not exist.
WriteKey(d, w) ==
  /\ job[d].at = "maintenance"
  /\ place[d].index.workers[w].status # "none" \/ w \in Workers
  /\ EpochAllows(d, w)
  /\ NextKey(d, w) \notin place[d].now.keys
  /\ place' = [place EXCEPT ![d].now.keys = @ \cup {NextKey(d, w)}]
  /\ job' = [job EXCEPT ![d] = [at |-> "key.sync", what |-> w]]
  /\ UNCHANGED <<reported, outages>>

SyncKey(d) ==
  /\ job[d].at = "key.sync"
  /\ place' = [place EXCEPT ![d] = [Synced(place[d], {"secrets"}) EXCEPT !.lasting.keys = @ \cup place[d].now.keys]]
  /\ Goto(d, "key.commit")
  /\ UNCHANGED <<reported, outages>>

\* Mutant: the registry is committed as soon as the key is written.
CommitKeyUnsynced(d) ==
  /\ job[d].at \in {"key.sync", "key.commit"}
  /\ LET w == job[d].what IN
     place' = [place EXCEPT ![d].index.workers[w] =
                 [status |-> "active", epoch |-> NextKey(d, w).epoch, key |-> NextKey(d, w)]]
  /\ job' = [job EXCEPT ![d] = Idle]
  /\ UNCHANGED <<reported, outages>>

CommitKey(d) ==
  /\ job[d].at = "key.commit"
  /\ LET w == job[d].what IN
     place' = [place EXCEPT ![d].index.workers[w] =
                 [status |-> "active", epoch |-> NextKey(d, w).epoch, key |-> NextKey(d, w)]]
  /\ job' = [job EXCEPT ![d] = Idle]
  /\ UNCHANGED <<reported, outages>>

-----------------------------------------------------------------------------
(* create_backup, which holds the source's lock throughout.                *)

\* What a backup of an index consists of.
Copied(index) == {"index", "settings", "marker"} \cup index.versions

\* The files that come next, in the order both commands go: the index, the marker, the settings, the objects.
Foremost(files) ==
  LET Rank(f) == IF f = "index" THEN 1 ELSE IF f = "marker" THEN 2 ELSE IF f = "settings" THEN 3 ELSE 4
  IN {f \in files : \A g \in files : Rank(f) <= Rank(g)}

\* offline: the lock file is there and free, and no journal is left to replay.
Offline == job["source"] = Idle /\ Has("source", {"lock"}) /\ ~place["source"].hot

BeginBackup ==
  /\ Offline /\ ~place["backup"].exists /\ SourceInUse
  /\ {"objects", "config"} \subseteq place["source"].now.parts
  /\ Has("source", {"index", "settings", "marker"})
  /\ place' = [place EXCEPT !["backup"].exists = TRUE, !["backup"].now.parts = Parts \ {"secrets"}]
  /\ Goto("source", "backup.copy")
  /\ reported' = reported \ {"backup"}
  /\ UNCHANGED outages

\* File by file; one that is missing ends the command.
CopyToBackup ==
  /\ job["source"].at = "backup.copy"
  /\ \E f \in Foremost(Copied(place["source"].index) \ place["backup"].now.files) :
       /\ Has("source", {f})
       /\ place' = [place EXCEPT !["backup"] = [Written(place["backup"], {f}) EXCEPT
                       !.index = IF f = "index" THEN place["source"].index ELSE @,
                       !.hot = IF f = "index" THEN place["source"].hot ELSE @]]
  /\ UNCHANGED <<job, reported, outages>>

\* Mutant: nothing is synced before the manifest, only at the end.
SyncBackupLater ==
  /\ job["source"].at = "backup.copy" /\ Has("backup", Copied(place["source"].index))
  /\ Goto("source", "backup.manifest")
  /\ UNCHANGED <<place, reported, outages>>

SyncBackup ==
  /\ job["source"].at = "backup.copy" /\ Has("backup", Copied(place["source"].index))
  /\ place' = [place EXCEPT !["backup"] = Synced(@, Parts)]
  /\ Goto("source", "backup.manifest")
  /\ UNCHANGED <<reported, outages>>

WriteManifest ==
  /\ job["source"].at = "backup.manifest"
  /\ place' = [place EXCEPT !["backup"] = Written(@, {"manifest"})]
  /\ Goto("source", "backup.last")
  /\ UNCHANGED <<reported, outages>>

\* inspect_backup: the manifest, and exactly the files it and the index name.
Inspected ==
  /\ place["backup"].now.parts = Parts \ {"secrets"}
  /\ place["backup"].now.files = Copied(place["backup"].index) \cup {"manifest"}

\* Mutant: the manifest's name is not synced.
EndBackupUnsynced ==
  /\ job["source"].at = "backup.last"
  /\ Inspected
  /\ Goto("source", "idle")
  /\ reported' = reported \cup {"backup"}
  /\ UNCHANGED <<place, outages>>

EndBackup ==
  /\ job["source"].at = "backup.last"
  /\ place' = [place EXCEPT !["backup"] = Synced(@, {""})]
  /\ Inspected
  /\ Goto("source", "idle")
  /\ reported' = reported \cup {"backup"}
  /\ UNCHANGED outages

-----------------------------------------------------------------------------
(* restore_backup.                                                         *)

\* Mutant: the subdirectory of the keys, which the backup does not have, is not made.
BeginWithoutSecrets ==
  /\ job["restored"] = Idle /\ ~place["restored"].exists
  /\ Inspected
  /\ place' = [place EXCEPT !["restored"].exists = TRUE, !["restored"].now.parts = Parts \ {"secrets"}]
  /\ Goto("restored", "restore.copy")
  /\ reported' = reported \ {"restore"}
  /\ UNCHANGED outages

BeginRestore ==
  /\ job["restored"] = Idle /\ ~place["restored"].exists
  /\ Inspected
  /\ place' = [place EXCEPT !["restored"].exists = TRUE, !["restored"].now.parts = Parts]
  /\ Goto("restored", "restore.copy")
  /\ reported' = reported \ {"restore"}
  /\ UNCHANGED outages

CopyFromBackup ==
  /\ job["restored"].at = "restore.copy"
  /\ \E f \in Foremost(Copied(place["backup"].index) \ (place["restored"].now.files \cup {"marker"})) :
       /\ Has("backup", {f})
       /\ place' = [place EXCEPT !["restored"] = [Written(place["restored"], {f}) EXCEPT
                       !.index = IF f = "index" THEN place["backup"].index ELSE @]]
  /\ UNCHANGED <<job, reported, outages>>

WriteTokens ==
  /\ job["restored"].at = "restore.copy"
  /\ Has("restored", Copied(place["backup"].index) \ {"marker"})
  /\ place' = [place EXCEPT !["restored"] = Written(@, {"admin", "worker"})]
  /\ Goto("restored", "restore.retire")
  /\ UNCHANGED <<reported, outages>>

\* Every identity is revoked, the one a migration has just seeded included.
Retired(index) ==
  [index EXCEPT !.workers = [w \in Identities |->
     IF index.workers[w].status = "none" THEN index.workers[w]
     ELSE [index.workers[w] EXCEPT !.status = "revoked", !.epoch = @ + 1]]]

\* Mutant: the identities are retired first and the index migrated after.
RetireThenMigrate ==
  /\ job["restored"].at = "restore.retire"
  /\ place' = [place EXCEPT !["restored"].index = Migrated("restored", Retired(@))]
  /\ Goto("restored", "restore.sync")
  /\ UNCHANGED <<reported, outages>>

Retire ==
  /\ job["restored"].at = "restore.retire"
  /\ place' = [place EXCEPT !["restored"].index = Retired(Migrated("restored", @))]
  /\ Goto("restored", "restore.sync")
  /\ UNCHANGED <<reported, outages>>

SyncRestored ==
  /\ job["restored"].at = "restore.sync"
  /\ place' = [place EXCEPT !["restored"] = Synced(Written(@, {"lock"}), Parts)]
  /\ Goto("restored", "restore.marker")
  /\ UNCHANGED <<reported, outages>>

WriteMarker ==
  /\ job["restored"].at = "restore.marker"
  /\ place' = [place EXCEPT !["restored"] = Written(@, {"marker"})]
  /\ Goto("restored", "restore.last")
  /\ UNCHANGED <<reported, outages>>

EndRestore ==
  /\ job["restored"].at = "restore.last"
  /\ place' = [place EXCEPT !["restored"] = Synced(@, {"config", ""})]
  /\ Goto("restored", "idle")
  /\ reported' = reported \cup {"restore"}
  /\ UNCHANGED outages

-----------------------------------------------------------------------------
(* Failures.                                                               *)

\* A transaction that dies while it commits leaves its journal.
Torn(d) == job[d].at \in {"serving", "committing", "key.commit"}

\* A process dies, or its command raises, anywhere.
Dies(d) ==
  /\ job[d] # Idle
  /\ job' = [job EXCEPT ![d] = Idle]
  /\ \E hot \in {place[d].hot, place[d].hot \/ Torn(d)} : place' = [place EXCEPT ![d].hot = hot]
  /\ UNCHANGED <<reported, outages>>

\* What may be left of a directory: what lasts and any of the rest, without
\* the files whose subdirectory is gone.
Remains(dir) ==
  LET Between(lasting, now) == {lasting \cup x : x \in SUBSET (now \ lasting)}
      Reachable(c) == [parts |-> c.parts, files |-> {f \in c.files : Part(f) \in c.parts \cup {""}},
                       keys |-> IF "secrets" \in c.parts THEN c.keys ELSE {}]
      Left(c) == [dir EXCEPT !.now = c, !.lasting = c,
                             !.index = IF "index" \in c.files THEN @ ELSE NewIndex]
  IN {Left(Reachable(c)) : c \in [parts: Between(dir.lasting.parts, dir.now.parts),
                                  files: Between(dir.lasting.files, dir.now.files),
                                  keys: Between(dir.lasting.keys, dir.now.keys)]}

\* The disk that one of the directories is on loses power, and every command ends.
\* Nothing syncs the directory that a destination is made in: it may be gone.
\* Bound: the source is an earlier release's, whose subdirectories last.
PowerLoss(d) ==
  /\ outages < MaxOutages /\ place["source"].lasting.parts = Parts
  /\ outages' = outages + 1
  /\ \E left \in Remains(place[d]) \cup (IF d = "source" THEN {} ELSE {Absent}), torn \in BOOLEAN :
       place' = [e \in Directories |->
                   LET dir == IF e = d THEN left ELSE place[e] IN
                   [dir EXCEPT !.hot = @ \/ (torn /\ e \in Installations /\ dir.exists /\ Torn(e))]]
  /\ job' = [i \in Installations |-> Idle]
  /\ UNCHANGED reported

Next ==
  \/ InitDirectory \/ InitFiles \/ InitMarker
  \/ BeginBackup \/ CopyToBackup \/ SyncBackup \/ WriteManifest \/ EndBackup
  \/ BeginRestore \/ CopyFromBackup \/ WriteTokens \/ Retire \/ SyncRestored \/ WriteMarker \/ EndRestore
  \/ \E d \in Installations :
       \/ Open(d) \/ Close(d) \/ BeginPublish(d) \/ PlaceObject(d) \/ SyncObjects(d) \/ CommitVersion(d)
       \/ SyncKey(d) \/ CommitKey(d) \/ Dies(d)
       \/ \E w \in Identities : Revoke(d, w) \/ WriteKey(d, w)
  \/ \E d \in Directories : PowerLoss(d)

Spec == Init /\ [][Next]_vars

-----------------------------------------------------------------------------
(* Properties.                                                             *)

\* The manifest of a backup and the marker of a restored directory are written
\* last, after everything else is on the disk (backup.py, create_backup and
\* restore_backup): wherever a command dies or, with a source of the first release,
\* the power fails, a backup that inspect_backup would read and a restored
\* directory that Store would open are whole.  The copied index is not in the middle of a transaction, and every
\* version it knew has its object.
MarkerComesLast ==
  /\ Has("backup", {"manifest"}) /\ place["backup"].now.parts = Parts \ {"secrets"}
       => Inspected /\ ~place["backup"].hot
  /\ Accepted("restored") =>
       Has("restored", (Copied(place["backup"].index) \cup {"admin", "worker", "lock"}) \ {"manifest"})

\* A command that reported success has made what it reported durable: what a
\* power loss leaves of the directory, if it leaves it, is still accepted
\* (the fsyncs at the ends of create_backup and restore_backup).
ReportedStands ==
  /\ "backup" \in reported /\ place["backup"].exists => Inspected
  /\ "restore" \in reported /\ place["restored"].exists => Accepted("restored")

\* "No transient activation after installation acceptance" (restore_backup): in
\* a restored directory that Store accepts, only keys issued in that directory
\* by a worker-enroll or a worker-rotate are of any use, whichever release the
\* backup comes from: neither those of the source nor the new worker.token.
RestoredNeedsNewKeys ==
  Accepted("restored") =>
    \A w \in Identities :
      LET identity == place["restored"].index.workers[w] IN
      identity.status = "active" => identity.key \in place["restored"].now.keys

\* The key of an active identity is on the disk before the registry says that it
\* is active (_credential, called before the UPDATE or INSERT of its
\* transaction): no crash leaves an identity that nobody can be.  The token that
\* migration 2 makes fake-cpu's is not covered, since nothing syncs its name.
ActiveKeyLasts ==
  \A d \in Installations, w \in Identities :
    LET identity == place[d].index.workers[w] IN
    Accepted(d) /\ identity.status = "active" /\ identity.key # Token(d)
      => identity.key \in place[d].lasting.keys

\* A version whose transaction committed has its object, wherever a process dies:
\* _object returns before the transaction can commit, and nothing deletes an
\* object (workspace.py).  Only as long as the power holds: an object that a dead
\* process renamed into place is kept as it is found, its name never synced.
VersionsHaveObjects ==
  outages = 0 =>
    \A d \in Installations : Accepted(d) => place[d].index.versions \subseteq place[d].now.files

=============================================================================
