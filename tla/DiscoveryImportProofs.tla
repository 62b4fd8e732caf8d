----------------------- MODULE DiscoveryImportProofs -----------------------
(***************************************************************************)
(* The discovery caches: what fills them and what keeps them current.       *)
(*                                                                         *)
(* Imports into the two engines (DiscoveryImport), for every set of keys,   *)
(* payloads, scopes and sessions and every bound.  The lock makes the       *)
(* guard's answer stable (Locked); with that, each commit is one step of    *)
(* GuardedCache.                                                            *)
(*                                                                         *)
(* Revalidation of the validated cache (Revalidation), for every set of     *)
(* contexts, versions, issuers and polls: what a 304 vouches for is what    *)
(* its validators name, and an entry never has the validators of another    *)
(* version than its own.                                                    *)
(***************************************************************************)
EXTENDS DiscoveryImport, Revalidation, TLAPS

-----------------------------------------------------------------------------
\* Consistent records make a snapshot of a non-empty set of keys.
LEMMA MakeSnapshotType ==
  ASSUME NEW records \in SUBSET (Keys \X Payloads), Consistent(records)
  PROVE  MakeSnapshot(records) \in Contents
<1> DEFINE D == {r[1] : r \in records}
<1>1. D \in (SUBSET Keys) \ {{}}
  <2>1. \A r \in records : r[1] \in Keys
    OBVIOUS
  <2>2. PICK r \in records : TRUE
    BY DEF Consistent
  <2>3. r[1] \in D
    BY <2>2
  <2>4. QED
    BY <2>1, <2>3
<1>2. ASSUME NEW k \in D
      PROVE  (CHOOSE p \in Payloads : <<k, p>> \in records) \in Payloads
  <2>1. PICK r \in records : r[1] = k
    OBVIOUS
  <2>2. r[2] \in Payloads /\ <<k, r[2]>> \in records
    BY <2>1
  <2>3. QED
    BY <2>2
<1>3. MakeSnapshot(records) \in [D -> Payloads]
  BY <1>2 DEF MakeSnapshot
<1>4. QED
  BY <1>1, <1>3 DEF Contents

\* Truncating an instant never makes it later, and rounding leaves a whole
\* microsecond alone.
LEMMA InstantsKept ==
  ASSUME NEW t \in Nat
  PROVE  /\ Truncated(t) \in Nat /\ Truncated(t) <= t
         /\ Rounded(t) \in Nat
         /\ WholeMicrosecond(t) => Rounded(t) = t
<1>1. Microsecond \in Nat \ {0}
  BY MicrosecondAssumption
<1>2. t % Microsecond \in 0..(Microsecond - 1) /\ t % Microsecond <= t
  BY <1>1
<1>3. Truncated(t) \in Nat /\ Truncated(t) <= t
  BY <1>2 DEF Truncated
<1>4. Rounded(t) \in Nat
  BY <1>1, <1>3 DEF Rounded
<1>5. ASSUME WholeMicrosecond(t)
      PROVE  Rounded(t) = t
  <2>1. t - (t % Microsecond) = t
    BY <1>5 DEF WholeMicrosecond, Truncated
  <2>2. t % Microsecond = 0
    BY <1>2, <2>1
  <2>3. 0 <= Microsecond \div 2
    BY <1>1
  <2>4. QED
    BY <2>1, <2>2, <2>3 DEF Rounded, Truncated
<1>6. QED
  BY <1>3, <1>4, <1>5

\* A staged snapshot differs from the snapshot it copies in its instant only.
LEMMA CopiedType ==
  ASSUME NEW c \in CopiedSnapshot
  PROVE  /\ c.content \in Contents /\ c.scope \in Scopes /\ c.at \in Nat
         /\ \E s \in Snapshot : c = Copied(s)
<1>1. PICK s \in Snapshot : c = Copied(s)
  BY DEF CopiedSnapshot
<1>2. s.at \in Nat
  BY BoundsAssumption DEF Snapshot
<1>3. c.at = Rounded(s.at) /\ c.content = s.content /\ c.scope = s.scope
  BY <1>1 DEF Copied, Snapshot
<1>4. QED
  BY <1>1, <1>2, <1>3, InstantsKept DEF Snapshot

\* A row an import leaves is a row of the cache.
LEMMA ImportRecordType ==
  ASSUME NEW s \in Snapshot \cup CopiedSnapshot, NEW k \in DOMAIN s.content
  PROVE  ImportRecord(s, k) \in Row /\ k \in Keys
<1>1. s.content \in Contents /\ s.scope \in Scopes /\ s.at \in Nat
  BY BoundsAssumption, CopiedType DEF Snapshot
<1>2. PICK D \in (SUBSET Keys) \ {{}} : s.content \in [D -> Payloads]
  BY <1>1 DEF Contents
<1>3. s.content[k] \in Payloads /\ k \in Keys
  BY <1>2
<1>4. QED
  BY <1>1, <1>3 DEF ImportRecord, SnapshotId, Row

LEMMA UpsertedType ==
  ASSUME NEW s \in Snapshot \cup CopiedSnapshot, NEW table \in [Keys -> Row]
  PROVE  Upserted(table, s) \in [Keys -> Row]
BY ImportRecordType DEF Upserted

-----------------------------------------------------------------------------
\* The state keeps its types (the snapshots, both tables and the sessions).
THEOREM TypeCorrect == Spec => []TypeOK
<1>1. Init => TypeOK
  BY DEF Init, TypeOK, Row
<1>2. TypeOK /\ [Next]_vars => TypeOK'
  <2> SUFFICES ASSUME TypeOK, [Next]_vars PROVE TypeOK'
    OBVIOUS
  <2> USE DEF TypeOK
  <2>1. ASSUME NEW records \in SUBSET (Keys \X Payloads), NEW scope \in Scopes,
               NEW kind \in Kinds, NEW at \in Instants, Collect(records, scope, kind, at)
        PROVE  TypeOK'
    <3>1. [scope |-> scope, kind |-> kind, at |-> at, content |-> MakeSnapshot(records)] \in Snapshot
      BY <2>1, MakeSnapshotType DEF Collect, Snapshot
    <3>2. QED
      BY <2>1, <3>1 DEF Collect
  <2>2. ASSUME NEW c \in Sessions, NEW s \in snapshots, Stage(c, s)
        PROVE  TypeOK'
    <3>1. Copied(s) \in CopiedSnapshot
      BY DEF CopiedSnapshot
    <3>2. QED
      BY <2>2, <3>1 DEF Stage
  <2>3. ASSUME NEW c \in Sessions, LockTable(c)
        PROVE  TypeOK'
    BY <2>3 DEF LockTable
  <2>4. ASSUME NEW c \in Sessions, Guard(c)
        PROVE  TypeOK'
    BY <2>4 DEF Guard, Close
  <2>5. ASSUME NEW c \in Sessions, Commit(c)
        PROVE  TypeOK'
    <3>1. Upserted(pg, import[c]) \in [Keys -> Row]
      BY <2>5, UpsertedType DEF Commit
    <3>2. QED
      BY <2>5, <3>1 DEF Commit, Close
  <2>6. ASSUME NEW c \in Sessions, Disconnect(c)
        PROVE  TypeOK'
    BY <2>6 DEF Disconnect, Close
  <2>7. ASSUME NEW s \in snapshots, SurrealImport(s)
        PROVE  TypeOK'
    BY <2>7, UpsertedType DEF SurrealImport
  <2>8. CASE UNCHANGED vars
    BY <2>8 DEF vars
  <2>9. QED
    BY <2>1, <2>2, <2>3, <2>4, <2>5, <2>6, <2>7, <2>8 DEF Next
<1>3. QED
  BY <1>1, <1>2, PTL DEF Spec

-----------------------------------------------------------------------------
\* Only the holder of the lock is past it, so only it can commit.
Locked == \A c \in Sessions : phase[c] \in {"locked", "checked"} => lock = c

LEMMA LockedHolds == Spec => [](Locked /\ CheckedIsCurrent)
<1>1. Init => Locked /\ CheckedIsCurrent
  BY DEF Init, Locked, CheckedIsCurrent
<1>2. TypeOK /\ Locked /\ CheckedIsCurrent /\ [Next]_vars => (Locked /\ CheckedIsCurrent)'
  <2> SUFFICES ASSUME TypeOK, Locked, CheckedIsCurrent, [Next]_vars
               PROVE  Locked' /\ CheckedIsCurrent'
    OBVIOUS
  <2> USE DEF TypeOK, Locked, CheckedIsCurrent
  <2>1. ASSUME NEW records \in SUBSET (Keys \X Payloads), NEW scope \in Scopes,
               NEW kind \in Kinds, NEW at \in Instants, Collect(records, scope, kind, at)
        PROVE  Locked' /\ CheckedIsCurrent'
    BY <2>1 DEF Collect, StaleOrConflicting
  <2>2. ASSUME NEW c \in Sessions, NEW s \in snapshots, Stage(c, s)
        PROVE  Locked' /\ CheckedIsCurrent'
    <3>1. \A d \in Sessions : phase'[d] \in {"locked", "checked"} =>
            d # c /\ phase'[d] = phase[d] /\ import'[d] = import[d]
      BY <2>2 DEF Stage
    <3>2. QED
      BY <2>2, <3>1 DEF Stage, StaleOrConflicting
  <2>3. ASSUME NEW c \in Sessions, LockTable(c)
        PROVE  Locked' /\ CheckedIsCurrent'
    <3>1. \A d \in Sessions \ {c} : phase'[d] = phase[d] /\ phase[d] \notin {"locked", "checked"}
      BY <2>3, NoneAssumption DEF LockTable
    <3>2. phase'[c] = "locked" /\ lock' = c
      BY <2>3 DEF LockTable
    <3>3. QED
      BY <3>1, <3>2
  <2>4. ASSUME NEW c \in Sessions, Guard(c)
        PROVE  Locked' /\ CheckedIsCurrent'
    <3>1. lock = c /\ \A d \in Sessions \ {c} : phase[d] \notin {"locked", "checked"}
      BY <2>4 DEF Guard
    <3>2. CASE ~StaleOrConflicting(import[c]) /\ phase' = [phase EXCEPT ![c] = "checked"]
               /\ UNCHANGED <<lock, import>>
      <4>1. \A d \in Sessions \ {c} : phase'[d] = phase[d]
        BY <3>2
      <4>2. pg' = pg /\ lock' = lock /\ import' = import
        BY <2>4, <3>2 DEF Guard
      <4>3. QED
        BY <3>1, <3>2, <4>1, <4>2 DEF StaleOrConflicting
    <3>3. CASE Close(c)
      BY <3>1, <3>3 DEF Close
    <3>4. QED
      BY <2>4, <3>2, <3>3 DEF Guard
  <2>5. ASSUME NEW c \in Sessions, Commit(c)
        PROVE  Locked' /\ CheckedIsCurrent'
    <3>1. lock = c /\ \A d \in Sessions \ {c} : phase[d] \notin {"locked", "checked"}
      BY <2>5 DEF Commit
    <3>2. QED
      BY <2>5, <3>1 DEF Commit, Close
  <2>6. ASSUME NEW c \in Sessions, Disconnect(c)
        PROVE  Locked' /\ CheckedIsCurrent'
    <3>1. \A d \in Sessions : phase'[d] \in {"locked", "checked"} =>
            d # c /\ phase'[d] = phase[d] /\ import'[d] = import[d]
      BY <2>6 DEF Disconnect, Close
    <3>2. pg' = pg /\ (lock' = lock \/ lock = c)
      BY <2>6 DEF Disconnect, Close
    <3>3. QED
      BY <3>1, <3>2 DEF StaleOrConflicting
  <2>7. ASSUME NEW s \in snapshots, SurrealImport(s)
        PROVE  Locked' /\ CheckedIsCurrent'
    BY <2>7 DEF SurrealImport, StaleOrConflicting
  <2>8. CASE UNCHANGED vars
    BY <2>8 DEF vars, StaleOrConflicting
  <2>9. QED
    BY <2>1, <2>2, <2>3, <2>4, <2>5, <2>6, <2>7, <2>8 DEF Next
<1>3. QED
  BY <1>1, <1>2, TypeCorrect, PTL DEF Spec

\* Nothing that happens between the guard and the commit changes the guard's
\* answer (LOCK TABLE before the DO block of emit_pg).
THEOREM GuardIsStable == Spec => []CheckedIsCurrent
BY LockedHolds, PTL

-----------------------------------------------------------------------------
\* An upsert the PostgreSQL guard let through is one step of the promised cache.
LEMMA PgAdmittedTake ==
  ASSUME NEW s \in CopiedSnapshot, pg \in [Keys -> Row], ~StaleOrConflicting(s)
  PROVE  \A k \in DOMAIN s.content :
           \/ pg[k] = NoRow
           \/ pg[k].at < s.at
           \/ pg[k] = ImportRecord(s, k)
<1> SUFFICES ASSUME NEW k \in DOMAIN s.content, pg[k] # NoRow
             PROVE  pg[k].at < s.at \/ pg[k] = ImportRecord(s, k)
  OBVIOUS
<1>1. k \in Keys
  BY ImportRecordType
<1>2. pg[k].at \in Int /\ s.at \in Int
  BY <1>1, CopiedType DEF Row
<1>3. ~(pg[k].at > s.at) /\ (pg[k].at = s.at => pg[k] = ImportRecord(s, k))
  BY DEF StaleOrConflicting
<1>4. QED
  BY <1>2, <1>3

\* Nor does SurrealDB's let an older observation through, though it compares
\* with a truncated instant: a row older than that is older still than the
\* snapshot, and one of that instant is older or the same row.
LEMMA SuAdmittedTake ==
  ASSUME NEW s \in Snapshot, su \in [Keys -> Row], ~StaleOrConflictingSu(s)
  PROVE  \A k \in DOMAIN s.content :
           \/ su[k] = NoRow
           \/ su[k].at < s.at
           \/ su[k] = ImportRecord(s, k)
<1> SUFFICES ASSUME NEW k \in DOMAIN s.content, su[k] # NoRow
             PROVE  su[k].at < s.at \/ su[k] = ImportRecord(s, k)
  OBVIOUS
<1>1. k \in Keys
  BY ImportRecordType
<1>2. su[k] \in Row /\ su[k].at \in Nat /\ s.at \in Nat
  BY <1>1, BoundsAssumption DEF Row, Snapshot
<1>3. Truncated(s.at) \in Nat /\ Truncated(s.at) <= s.at
  BY <1>2, InstantsKept
<1>4. /\ ~(su[k].at > Truncated(s.at))
      /\ su[k].at = Truncated(s.at) => [su[k] EXCEPT !.at = s.at] = ImportRecord(s, k)
  BY DEF StaleOrConflictingSu
<1>5. CASE su[k].at = s.at
  <2>1. su[k].at = Truncated(s.at)
    BY <1>2, <1>3, <1>4, <1>5
  <2>2. [su[k] EXCEPT !.at = s.at] = su[k]
    BY <1>2, <1>5 DEF Row
  <2>3. QED
    BY <1>4, <2>1, <2>2
<1>6. QED
  BY <1>2, <1>3, <1>4, <1>5

\* The PostgreSQL cache takes whole snapshots and never goes back in time,
\* whatever its sessions do (emit_pg's script, statement by statement).
THEOREM PgRefinement == Spec => PgTakesWholeSnapshots
<1>1. Init => PgCache!Init
  BY DEF Init, PgCache!Init
<1>2. TypeOK /\ CheckedIsCurrent /\ [Next]_vars => [PgCache!Next]_pg
  <2> SUFFICES ASSUME TypeOK, CheckedIsCurrent, Next PROVE PgCache!Next \/ pg' = pg
    BY DEF vars
  <2>1. ASSUME NEW c \in Sessions, Commit(c)
        PROVE  PgCache!Next
    <3>1. import[c] \in CopiedSnapshot /\ ~StaleOrConflicting(import[c]) /\ pg \in [Keys -> Row]
      BY <2>1 DEF Commit, TypeOK, CheckedIsCurrent
    <3>2. \A k \in DOMAIN import[c].content : PgCache!Supersedes(import[c], k)
      BY <3>1, PgAdmittedTake DEF PgCache!Supersedes, PgCache!RowOf, ImportRecord, SnapshotId
    <3>3. pg' = [k \in Keys |-> IF k \in DOMAIN import[c].content
                                THEN PgCache!RowOf(import[c], k) ELSE pg[k]]
      BY <2>1 DEF Commit, Upserted, ImportRecord, SnapshotId, PgCache!RowOf
    <3>4. QED
      BY <3>1, <3>2, <3>3 DEF PgCache!Next, PgCache!Take
  <2>2. QED
    BY <2>1 DEF Next, Collect, Stage, LockTable, Guard, Disconnect, SurrealImport
<1>3. QED
  BY <1>1, <1>2, TypeCorrect, GuardIsStable, PTL DEF Spec, PgTakesWholeSnapshots, PgCache!Spec

\* So does the SurrealDB cache (emit_surreal's transaction).
THEOREM SuRefinement == Spec => SuTakesWholeSnapshots
<1>1. Init => SuCache!Init
  BY DEF Init, SuCache!Init
<1>2. TypeOK /\ [Next]_vars => [SuCache!Next]_su
  <2> SUFFICES ASSUME TypeOK, Next PROVE SuCache!Next \/ su' = su
    BY DEF vars
  <2>1. ASSUME NEW s \in snapshots, SurrealImport(s)
        PROVE  SuCache!Next
    <3>1. s \in Snapshot /\ ~StaleOrConflictingSu(s) /\ su \in [Keys -> Row]
      BY <2>1 DEF SurrealImport, TypeOK
    <3>2. \A k \in DOMAIN s.content : SuCache!Supersedes(s, k)
      BY <3>1, SuAdmittedTake DEF SuCache!Supersedes, SuCache!RowOf, ImportRecord, SnapshotId
    <3>3. su' = [k \in Keys |-> IF k \in DOMAIN s.content THEN SuCache!RowOf(s, k) ELSE su[k]]
      BY <2>1 DEF SurrealImport, Upserted, ImportRecord, SnapshotId, SuCache!RowOf
    <3>4. QED
      BY <3>1, <3>2, <3>3 DEF SuCache!Next, SuCache!Take
  <2>2. QED
    BY <2>1 DEF Next, Collect, Stage, LockTable, Guard, Commit, Disconnect
<1>3. QED
  BY <1>1, <1>2, TypeCorrect, PTL DEF Spec, SuTakesWholeSnapshots, SuCache!Spec

\* Both engines implement the guarded cache, each on its own: neither waits for
\* the other (emit_discovery_import.py writes two independent imports).
THEOREM BothEnginesRefine == Spec => TakesWholeSnapshots
  BY PgRefinement, SuRefinement DEF TakesWholeSnapshots

-----------------------------------------------------------------------------
\* What a stored row may be when a plan's expectation of it is met, and what
\* plan_import then knows of its instant.
LEMMA PlanExpects ==
  ASSUME TypeOK, NEW a \in snapshots, NEW b \in snapshots \cup {None}, PlanImport(b, a),
         WholeMicrosecond(a.at), b # None => WholeMicrosecond(b.at),
         NEW table, PlanApplies(table, b, a),
         NEW k \in DOMAIN a.content, table[k] # NoRow
  PROVE  \/ table[k] = ImportRecord(a, k)
         \/ table[k].at \in Nat /\ table[k].at < a.at
<1> SUFFICES ASSUME table[k] # ImportRecord(a, k)
             PROVE  table[k].at \in Nat /\ table[k].at < a.at
  OBVIOUS
<1>1. table[k] = Expected(b, k)
  BY DEF PlanApplies
<1>2. b # None /\ table[k] = ImportRecord(b, k)
  BY <1>1 DEF Expected
<1>3. a \in Snapshot /\ b \in Snapshot /\ table[k].at = b.at
  BY <1>2 DEF TypeOK, ImportRecord
<1>4. a.at \in Nat /\ b.at \in Nat
  BY <1>3, BoundsAssumption DEF Snapshot
<1>5. Truncated(a.at) = a.at /\ Truncated(b.at) = b.at
  BY <1>2 DEF WholeMicrosecond
<1>6. a.at >= b.at /\ a.at # b.at
  BY <1>2, <1>5 DEF PlanImport
<1>7. QED
  BY <1>3, <1>4, <1>6

\* Whatever rows are stored, a plan they fit is a snapshot that both generated
\* guards admit, if captures are to the microsecond (plan_import, emit_pg and
\* emit_surreal agree).
THEOREM PlansAdmitted == Spec => []PlansAreAdmitted
<1>1. TypeOK => PlansAreAdmitted
  <2> SUFFICES ASSUME TypeOK, NEW a \in snapshots, NEW b \in snapshots \cup {None},
                      PlanImport(b, a), WholeMicrosecond(a.at), b # None => WholeMicrosecond(b.at)
               PROVE  /\ PlanApplies(pg, b, a) => ~StaleOrConflicting(Copied(a))
                      /\ PlanApplies(su, b, a) => ~StaleOrConflictingSu(a)
    BY Zenon DEF PlansAreAdmitted
  <2>1. a \in Snapshot /\ a.at \in Nat /\ Truncated(a.at) = a.at /\ Rounded(a.at) = a.at
    BY BoundsAssumption, InstantsKept DEF TypeOK, Snapshot, WholeMicrosecond
  <2>2. \A k : ImportRecord(a, k).at = a.at
    BY DEF ImportRecord
  <2>3. ASSUME PlanApplies(pg, b, a)
        PROVE  ~StaleOrConflicting(Copied(a))
    <3>1. Copied(a) = a
      BY <2>1 DEF Copied, Snapshot
    <3>2. ASSUME NEW k \in DOMAIN a.content, pg[k] # NoRow
          PROVE  ~(pg[k].at > a.at) /\ (pg[k].at = a.at => pg[k] = ImportRecord(a, k))
      BY <2>1, <2>2, <2>3, <3>2, PlanExpects
    <3>3. QED
      BY <3>1, <3>2 DEF StaleOrConflicting
  <2>4. ASSUME PlanApplies(su, b, a)
        PROVE  ~StaleOrConflictingSu(a)
    <3>1. ASSUME NEW k \in DOMAIN a.content, su[k] # NoRow
          PROVE  /\ ~(su[k].at > a.at)
                 /\ su[k].at = a.at => [su[k] EXCEPT !.at = a.at] = ImportRecord(a, k)
      <4>1. CASE su[k] = ImportRecord(a, k)
        BY <2>1, <2>2, <4>1 DEF ImportRecord
      <4>2. CASE su[k].at \in Nat /\ su[k].at < a.at
        BY <2>1, <4>2
      <4>3. QED
        BY <2>4, <3>1, <4>1, <4>2, PlanExpects
    <3>2. QED
      BY <2>1, <3>1 DEF StaleOrConflictingSu
  <2>5. QED
    BY <2>3, <2>4
<1>2. QED
  BY <1>1, TypeCorrect, PTL

-----------------------------------------------------------------------------
(* Revalidation: the validated cache and the polls that keep it.             *)

LEMMA ValidatorsType ==
  ASSUME NEW v \in Versions
  PROVE  Validators(v) \in Versions \cup {Nothing} /\ Revision[v] \in Versions
BY ConstantsAssumption DEF Validators

\* The state keeps its types.
THEOREM CacheTypeCorrect == CacheSpec => []CacheTypeOK
<1>1. CacheInit => CacheTypeOK
  BY DEF CacheInit, CacheTypeOK, Poll, Idle
<1>2. CacheTypeOK /\ [CacheNext]_cacheVars => CacheTypeOK'
  <2> SUFFICES ASSUME CacheTypeOK, [CacheNext]_cacheVars PROVE CacheTypeOK'
    OBVIOUS
  <2> USE DEF CacheTypeOK
  <2>1. ASSUME NEW x \in Contexts, NEW v \in Versions, Publish(x, v)
        PROVE  CacheTypeOK'
    BY <2>1 DEF Publish
  <2>2. ASSUME NEW i \in Issuers, Revoke(i)
        PROVE  CacheTypeOK'
    BY <2>2 DEF Revoke
  <2>3. ASSUME NEW p \in Polls, NEW x \in Contexts, Send(p, x)
        PROVE  CacheTypeOK'
    <3>1. entry # Nothing => entry.validators \in Versions \cup {Nothing}
      BY DEF Entry
    <3>2. [context |-> x, revision |-> Revision[origin[x]]] \in Request
      BY ValidatorsType DEF Request
    <3>3. polls'[p] \in Poll
      BY <2>3, <3>1, <3>2 DEF Send, Poll
    <3>4. QED
      BY <2>3, <3>3 DEF Send
  <2>4. ASSUME NEW p \in Polls, Answer(p)
        PROVE  CacheTypeOK'
    <3>1. polls[p].request \in Request /\ polls[p].sent \in Versions \cup {Nothing}
      BY <2>4 DEF Answer, Poll
    <3>2. origin[polls[p].request.context] \in Versions
      BY <3>1 DEF Request
    <3>3. polls'[p] \in Poll
      BY <2>4, <3>1, <3>2 DEF Answer, Poll
    <3>4. QED
      BY <2>4, <3>3 DEF Answer
  <2>5. ASSUME NEW p \in Polls, NEW kind \in {"controlled", "synthetic", "historical"},
               NEW issuer \in Issuers \cup {Nothing}, Store(p, kind, issuer)
        PROVE  CacheTypeOK'
    <3>1. polls[p].request \in Request /\ polls[p].version \in Versions
      BY <2>5 DEF Store, Poll
    <3>2. entry' \in Entry
      BY <2>5, <3>1, ValidatorsType DEF Store, Entry
    <3>3. polls' \in [Polls -> Poll]
      BY <2>5 DEF Store, Poll, Idle
    <3>4. QED
      BY <2>5, <3>2, <3>3 DEF Store
  <2>6. ASSUME NEW p \in Polls, Reuse(p)
        PROVE  CacheTypeOK'
    <3>1. entry \in Entry /\ polls[p].version \in Versions /\ polls[p].request \in Request
      BY <2>6 DEF Reuse, ReuseNotModified, Poll
    <3>2. outcome' \in [asked: Contexts, snapshot: Versions, answer: Versions, provenance: Provenance]
      BY <2>6, <3>1 DEF Reuse, Entry, Request
    <3>3. polls' \in [Polls -> Poll]
      BY <2>6 DEF Reuse, Poll, Idle
    <3>4. QED
      BY <2>6, <3>2, <3>3 DEF Reuse
  <2>7. ASSUME NEW p \in Polls, GiveUp(p)
        PROVE  CacheTypeOK'
    BY <2>7 DEF GiveUp, Poll, Idle
  <2>8. CASE Protect
    <3>1. entry \in Entry
      BY <2>8 DEF Protect, EmitProtected
    <3>2. outcome' \in [asked: Contexts, snapshot: Versions, answer: Versions, provenance: Provenance]
      BY <2>8, <3>1 DEF Protect, Entry, Request
    <3>3. QED
      BY <2>8, <3>2 DEF Protect
  <2>9. CASE UNCHANGED cacheVars
    BY <2>9 DEF cacheVars
  <2>10. QED
    BY <2>1, <2>2, <2>3, <2>4, <2>5, <2>6, <2>7, <2>8, <2>9 DEF CacheNext
<1>3. QED
  BY <1>1, <1>2, PTL DEF CacheSpec

-----------------------------------------------------------------------------
\* The entry has its own version's validators and its own request's context.
EntryBound ==
  entry # Nothing =>
    /\ entry.validators = Validators(entry.snapshot)
    /\ entry.provenance.context = entry.request.context

\* A 304 was given for the validators of the version the source had.
UnmodifiedBound ==
  \A p \in Polls : polls[p].state = "unmodified" =>
    polls[p].sent = Validators(polls[p].version)

CacheInv == EntryBound /\ UnmodifiedBound /\ ReusedIsCurrent

LEMMA CacheInvariantHolds == CacheSpec => []CacheInv
<1>1. CacheInit => CacheInv
  BY DEF CacheInit, CacheInv, EntryBound, UnmodifiedBound, ReusedIsCurrent, Idle
<1>2. CacheTypeOK /\ CacheInv /\ [CacheNext]_cacheVars => CacheInv'
  <2> SUFFICES ASSUME CacheTypeOK, CacheInv, [CacheNext]_cacheVars PROVE CacheInv'
    OBVIOUS
  <2> USE DEF CacheTypeOK, CacheInv, EntryBound, UnmodifiedBound, ReusedIsCurrent
  <2>1. ASSUME NEW x \in Contexts, NEW v \in Versions, Publish(x, v)
        PROVE  CacheInv'
    BY <2>1 DEF Publish, Validators
  <2>2. ASSUME NEW i \in Issuers, Revoke(i)
        PROVE  CacheInv'
    BY <2>2 DEF Revoke, Validators
  <2>3. ASSUME NEW p \in Polls, NEW x \in Contexts, Send(p, x)
        PROVE  CacheInv'
    BY <2>3 DEF Send, Validators
  <2>4. ASSUME NEW p \in Polls, Answer(p)
        PROVE  CacheInv'
    <3>1. \A q \in Polls \ {p} : polls'[q] = polls[q]
      BY <2>4 DEF Answer
    <3>2. polls'[p].state = "unmodified" => polls'[p].sent = Validators(polls'[p].version)
      BY <2>4 DEF Answer
    <3>3. UnmodifiedBound'
      BY <3>1, <3>2 DEF Validators
    <3>4. EntryBound' /\ ReusedIsCurrent'
      BY <2>4 DEF Answer, Validators
    <3>5. QED
      BY <3>3, <3>4
  <2>5. ASSUME NEW p \in Polls, NEW kind \in {"controlled", "synthetic", "historical"},
               NEW issuer \in Issuers \cup {Nothing}, Store(p, kind, issuer)
        PROVE  CacheInv'
    BY <2>5 DEF Store, Validators, Idle
  <2>6. ASSUME NEW p \in Polls, Reuse(p)
        PROVE  CacheInv'
    <3>1. /\ entry # Nothing /\ entry.request = polls[p].request
          /\ polls[p].sent # Nothing /\ polls[p].sent = entry.validators
          /\ polls[p].sent = Validators(polls[p].version)
      BY <2>6 DEF Reuse, ReuseNotModified
    <3>2. entry.snapshot = polls[p].version
      BY <3>1 DEF Validators
    <3>3. ReusedIsCurrent'
      BY <2>6, <3>1, <3>2 DEF Reuse
    <3>4. EntryBound' /\ UnmodifiedBound'
      BY <2>6 DEF Reuse, Validators, Idle
    <3>5. QED
      BY <3>3, <3>4
  <2>7. ASSUME NEW p \in Polls, GiveUp(p)
        PROVE  CacheInv'
    BY <2>7 DEF GiveUp, Validators, Idle
  <2>8. CASE Protect
    BY <2>8 DEF Protect, EmitProtected, Validators
  <2>9. CASE UNCHANGED cacheVars
    BY <2>9 DEF cacheVars, Validators
  <2>10. QED
    BY <2>1, <2>2, <2>3, <2>4, <2>5, <2>6, <2>7, <2>8, <2>9 DEF CacheNext
<1>3. QED
  BY <1>1, <1>2, CacheTypeCorrect, PTL DEF CacheSpec

\* A snapshot reused after a 304 is what the source had when it said so, of the
\* context asked about, however polls overlap (reuse_not_modified).
THEOREM ReuseIsCurrent == CacheSpec => []ReusedIsCurrent
BY CacheInvariantHolds, PTL DEF CacheInv

\* A withdrawn key ends the use of what it attested (validate_cache re-run at
\* every use).
THEOREM WithdrawnKeyEndsUse == CacheSpec => HandedOutIsTrusted
<1>1. CacheTypeOK /\ [CacheNext]_cacheVars =>
        [outcome' # outcome => outcome'.provenance.issuer \in trusted \cup {Nothing}]_cacheVars
  <2> SUFFICES ASSUME CacheTypeOK, CacheNext, outcome' # outcome
               PROVE  outcome'.provenance.issuer \in trusted \cup {Nothing}
    BY DEF cacheVars
  <2>1. ASSUME NEW p \in Polls, Reuse(p)
        PROVE  outcome'.provenance.issuer \in trusted \cup {Nothing}
    <3>1. entry \in Entry /\ ValidProvenance(entry.provenance)
      BY <2>1 DEF Reuse, ReuseNotModified, ValidateCache, MakeCache, CacheTypeOK
    <3>2. entry.provenance.issuer \in trusted \cup {Nothing}
      BY <3>1 DEF Entry, Provenance, ValidProvenance
    <3>3. QED
      BY <2>1, <3>2 DEF Reuse
  <2>2. CASE Protect
    BY <2>2 DEF Protect, EmitProtected, ValidProvenance
  <2>3. QED
    BY <2>1, <2>2 DEF CacheNext, Publish, Revoke, Send, Answer, Store, GiveUp
<1>2. QED
  BY <1>1, CacheTypeCorrect, PTL DEF CacheSpec, HandedOutIsTrusted
=============================================================================
