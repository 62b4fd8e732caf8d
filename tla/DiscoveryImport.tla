-------------------------- MODULE DiscoveryImport --------------------------
(***************************************************************************)
(* Snapshots of external resources and their import into the two discovery  *)
(* caches (discovery_cache.py, emit_discovery_import.py,                    *)
(* incremental_import_plan.py; the script that qualifies them is            *)
(* isolated_bench_runtime.discovery_qualification).                         *)
(*                                                                         *)
(* A generated PostgreSQL import is a script its session runs statement by  *)
(* statement, beside other sessions; the connection may be lost between any *)
(* two.  A SurrealDB import is one transaction of the engine.  Snapshots    *)
(* are what make_snapshot builds: instants are given by the caller and need *)
(* not follow the order in which the snapshots are made or imported.        *)
(*                                                                         *)
(* A snapshot keeps the digits of captured_at it was given.  An instant is  *)
(* counted here in ticks finer than a microsecond, because Python truncates *)
(* it to microseconds, PostgreSQL rounds it to microseconds and SurrealDB   *)
(* keeps it.  Its notation (time zone, trailing zeros) is left out.         *)
(***************************************************************************)
EXTENDS Integers, FiniteSets

CONSTANTS
  Keys,          \* identities (source, entity type, source id)
  Payloads,      \* what a record may say, up to its payload_sha256
  Scopes,        \* declared collection scopes
  Kinds,         \* provenance kinds in play, of "synthetic", "controlled", "historical"
  Instants,      \* capture instants in play, in ticks
  Microsecond,   \* ticks in a microsecond
  MaxSnapshots,  \* bound: snapshots ever made
  SurrealRecords, \* records the byte budget of one SurrealDB import has room for
  Sessions,      \* PostgreSQL sessions that run generated imports
  NoRow,         \* not a row
  None           \* no session, no snapshot

ASSUME BoundsAssumption ==
  Instants \subseteq Nat /\ MaxSnapshots \in Nat /\ SurrealRecords \in Nat
\* Odd, so that no instant lies half-way between two microseconds.
ASSUME MicrosecondAssumption == Microsecond \in Nat /\ Microsecond % 2 = 1
ASSUME NoneAssumption == None \notin Sessions

VARIABLES
  snapshots, \* the snapshots made so far
  pg,        \* poc.discovery_cache as committed: its row for each key
  su,        \* discovery_cache of the SurrealDB engine
  lock,      \* the session that holds the table's SHARE ROW EXCLUSIVE lock
  phase,     \* how far each session is in its import
  import     \* the snapshot each session imports, as its staging table holds it

vars == <<snapshots, pg, su, lock, phase, import>>

-----------------------------------------------------------------------------
\* A record is a key and what was read of it.  The same identity read twice
\* with two payloads is refused, and so is a snapshot of nothing.
MakeSnapshot(records) ==
  [k \in {r[1] : r \in records} |-> CHOOSE p \in Payloads : <<k, p>> \in records]

Consistent(records) ==
  records # {} /\ \A r, q \in records : r[1] = q[1] => r = q

Contents == UNION {[D -> Payloads] : D \in (SUBSET Keys) \ {{}}}

Snapshot ==
  [scope: Scopes, kind: Kinds, at: Instants, content: Contents]

\* The id covers the scope and the content, not the instant.
SnapshotId(s) == <<s.scope, s.content>>

ImportRecord(s, k) == [payload |-> s.content[k], id |-> SnapshotId(s), at |-> s.at]

Row == [payload: Payloads, id: Scopes \X Contents, at: Nat] \cup {NoRow}

\* datetime.fromisoformat drops what is finer than a microsecond.
Truncated(t) == t - (t % Microsecond)
WholeMicrosecond(t) == Truncated(t) = t

\* timestamptz takes the nearest microsecond.
Rounded(t) ==
  IF t % Microsecond <= Microsecond \div 2 THEN Truncated(t) ELSE Truncated(t) + Microsecond

\* COPY converts last_seen_at to the column's type, in the staging table that
\* the guard and the upsert read.
Copied(s) == [s EXCEPT !.at = Rounded(@)]
CopiedSnapshot == {Copied(s) : s \in Snapshot}

TypeOK ==
  /\ snapshots \subseteq Snapshot
  /\ pg \in [Keys -> Row] /\ su \in [Keys -> Row]
  /\ lock \in Sessions \cup {None}
  /\ phase \in [Sessions -> {"idle", "staged", "locked", "checked"}]
  /\ import \in [Sessions -> CopiedSnapshot \cup {None}]
  /\ \A c \in Sessions : phase[c] # "idle" => import[c] \in CopiedSnapshot

Init ==
  /\ snapshots = {}
  /\ pg = [k \in Keys |-> NoRow] /\ su = [k \in Keys |-> NoRow]
  /\ lock = None
  /\ phase = [c \in Sessions |-> "idle"]
  /\ import = [c \in Sessions |-> None]

-----------------------------------------------------------------------------
(* Making a snapshot, and the guard and the writes every import carries.    *)

Collect(records, scope, kind, at) ==
  /\ Cardinality(snapshots) < MaxSnapshots
  /\ Consistent(records)
  /\ snapshots' = snapshots \cup
       {[scope |-> scope, kind |-> kind, at |-> at, content |-> MakeSnapshot(records)]}
  /\ UNCHANGED <<pg, su, lock, phase, import>>

\* The condition the PostgreSQL guard raises on: a stored row that is newer
\* than the staged one, or of the same instant and in any column another.
StaleOrConflicting(staged) ==
  \E k \in DOMAIN staged.content :
    /\ pg[k] # NoRow
    /\ \/ pg[k].at > staged.at
       \/ pg[k].at = staged.at /\ pg[k] # ImportRecord(staged, k)

\* The SurrealDB guard's: the generator wrote the incoming instant truncated,
\* the row has the digits of the snapshot it came from, and the payload it
\* compares is every column but last_seen_at.
StaleOrConflictingSu(s) ==
  \E k \in DOMAIN s.content :
    /\ su[k] # NoRow
    /\ \/ su[k].at > Truncated(s.at)
       \/ /\ su[k].at = Truncated(s.at)
          /\ [su[k] EXCEPT !.at = s.at] # ImportRecord(s, k)

\* The upsert: keys the snapshot did not observe keep their row.
Upserted(table, s) ==
  [k \in Keys |-> IF k \in DOMAIN s.content THEN ImportRecord(s, k) ELSE table[k]]

-----------------------------------------------------------------------------
(* The generated PostgreSQL script: BEGIN and COPY into a staging table;    *)
(* LOCK TABLE; the guard; the upsert and COMMIT.                            *)

Stage(c, s) ==
  /\ phase[c] = "idle"
  /\ phase' = [phase EXCEPT ![c] = "staged"]
  /\ import' = [import EXCEPT ![c] = Copied(s)]
  /\ UNCHANGED <<snapshots, pg, su, lock>>

\* Mutant: the script does not take the table's lock.
LockTableNot(c) ==
  /\ phase[c] = "staged"
  /\ phase' = [phase EXCEPT ![c] = "locked"]
  /\ UNCHANGED <<snapshots, pg, su, lock, import>>

LockTable(c) ==
  /\ phase[c] = "staged"
  /\ lock = None
  /\ lock' = c
  /\ phase' = [phase EXCEPT ![c] = "locked"]
  /\ UNCHANGED <<snapshots, pg, su, import>>

\* The end of a transaction gives back its lock, if it had it.
Close(c) ==
  /\ lock' = IF lock = c THEN None ELSE lock
  /\ phase' = [phase EXCEPT ![c] = "idle"]
  /\ import' = [import EXCEPT ![c] = None]

\* Mutant: the guard runs before LOCK TABLE, which then only covers the upsert.
GuardBeforeLock(c) ==
  /\ phase[c] = "staged"
  /\ \/ /\ ~StaleOrConflicting(import[c])
        /\ phase' = [phase EXCEPT ![c] = "checked"]
        /\ UNCHANGED <<lock, import>>
     \/ /\ StaleOrConflicting(import[c])
        /\ Close(c)
  /\ UNCHANGED <<snapshots, pg, su>>

\* READ COMMITTED: the guard's statement sees what is committed by now.
Guard(c) ==
  /\ phase[c] = "locked"
  /\ \/ /\ ~StaleOrConflicting(import[c])
        /\ phase' = [phase EXCEPT ![c] = "checked"]
        /\ UNCHANGED <<lock, import>>
     \/ /\ StaleOrConflicting(import[c])
        /\ Close(c)
  /\ UNCHANGED <<snapshots, pg, su>>

Commit(c) ==
  /\ phase[c] = "checked"
  /\ pg' = Upserted(pg, import[c])
  /\ Close(c)
  /\ UNCHANGED <<snapshots, su>>

\* A statement fails, or the connection is lost: the engine rolls back.
Disconnect(c) ==
  /\ phase[c] # "idle"
  /\ Close(c)
  /\ UNCHANGED <<snapshots, pg, su>>

-----------------------------------------------------------------------------
\* The SurrealDB import guards and upserts record by record, and THROW undoes
\* the whole transaction.  The generator refuses what exceeds its byte budget
\* rather than split it.
SurrealImport(s) ==
  /\ Cardinality(DOMAIN s.content) <= SurrealRecords
  /\ ~StaleOrConflictingSu(s)
  /\ su' = Upserted(su, s)
  /\ UNCHANGED <<snapshots, pg, lock, phase, import>>

-----------------------------------------------------------------------------
(* The incremental plan: reviewed beside the generators, executed by none.  *)

\* compare_snapshots, which refuses what two scopes did not observe alike.
Comparable(b, a) == b.scope = a.scope

\* Mutant: only an older capture is refused, not another one of the same time.
PlanImportSameTime(b, a) ==
  /\ a.kind # "historical"
  /\ b # None =>
       /\ b.kind # "historical" /\ b.kind = a.kind
       /\ Comparable(b, a)
       /\ Truncated(a.at) >= Truncated(b.at)

\* plan_import's conditions on the baseline it was given, None for none.
PlanImport(b, a) ==
  /\ a.kind # "historical"
  /\ b # None =>
       /\ b.kind # "historical" /\ b.kind = a.kind
       /\ Comparable(b, a)
       /\ Truncated(a.at) >= Truncated(b.at)
       /\ Truncated(a.at) = Truncated(b.at) => a = b

\* The row an action of the plan expects to find for a key.
Expected(b, k) == IF b = None \/ k \notin DOMAIN b.content THEN NoRow ELSE ImportRecord(b, k)

\* upsert_if_expected_or_already_applied, for every action of the plan.
PlanApplies(table, b, a) ==
  \A k \in DOMAIN a.content : table[k] \in {Expected(b, k), ImportRecord(a, k)}

Next ==
  \/ \E records \in SUBSET (Keys \X Payloads), scope \in Scopes, kind \in Kinds, at \in Instants :
       Collect(records, scope, kind, at)
  \/ \E c \in Sessions, s \in snapshots : Stage(c, s)
  \/ \E c \in Sessions : LockTable(c)
  \/ \E c \in Sessions : Guard(c)
  \/ \E c \in Sessions : Commit(c)
  \/ \E c \in Sessions : Disconnect(c)
  \/ \E s \in snapshots : SurrealImport(s)

Spec == Init /\ [][Next]_vars

-----------------------------------------------------------------------------
(* What the guard is for.                                                  *)

\* However sessions interleave and break off, each engine's cache only takes
\* whole snapshots, each key only ever a later observation or the same one
\* (the lock, the guard and the upsert that emit_pg writes, and emit_surreal's
\* transaction).  PostgreSQL's are the snapshots to the microsecond; SurrealDB
\* keeps every digit, and truncating the incoming instant never lets an older
\* observation through.
PgCache == INSTANCE GuardedCache WITH Observations <- CopiedSnapshot, cache <- pg
SuCache == INSTANCE GuardedCache WITH Observations <- Snapshot, cache <- su
PgTakesWholeSnapshots == PgCache!Spec
SuTakesWholeSnapshots == SuCache!Spec
TakesWholeSnapshots == PgTakesWholeSnapshots /\ SuTakesWholeSnapshots

\* A session past the guard still has the guard's answer: nothing that other
\* sessions commit can make its writes stale before it commits (LOCK TABLE
\* before the DO block, held to COMMIT).
CheckedIsCurrent ==
  \A c \in Sessions : phase[c] = "checked" => ~StaleOrConflicting(import[c])

\* For captures to the microsecond, a plan whose expectations the stored rows
\* meet is never refused by the generated import of either engine: plan_import's
\* conditions and the two guards, written apart, agree on what is stale and what
\* conflicts.  For a finer capture it would depend on how a plan's expectation is
\* compared with the digits the engine kept, which no code does yet, and
\* SurrealDB's guard refuses even a replay of it: the stored row looks newer than
\* the truncated instant of the very snapshot it came from.
PlansAreAdmitted ==
  \A a \in snapshots, b \in snapshots \cup {None} :
    PlanImport(b, a) /\ WholeMicrosecond(a.at) /\ (b # None => WholeMicrosecond(b.at)) =>
      /\ PlanApplies(pg, b, a) => ~StaleOrConflicting(Copied(a))
      /\ PlanApplies(su, b, a) => ~StaleOrConflictingSu(a)
=============================================================================
