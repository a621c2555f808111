----------------------------- MODULE ReadCache -----------------------------
(***************************************************************************)
(* The in-memory SQLite copy of one published unit that the threads of a    *)
(* process share: PostgresDomainReadCache and, in the same design,          *)
(* SharedIdentityReadCache and FinancialDataReadCache.                      *)
(*                                                                         *)
(* Under the lock of the cache a thread compares a fingerprint of the       *)
(* PostgreSQL rows with the one of the copy, and loads the rows when they   *)
(* differ; fingerprint and rows are two statements, and mutations commit    *)
(* between them.  A copy is a named shared-memory database.  It lives while *)
(* a connection to it is open, the cache's own (the keeper) or a reader's,  *)
(* and opening a name that is not alive gives a new, empty database.        *)
(*                                                                         *)
(* Time does not occur: whether the next check is due is a choice.          *)
(***************************************************************************)
EXTENDS Naturals

CONSTANTS
    Threads,
    MaxCommits, MaxCloses,   \* bounds on a behaviour
    None

ASSUME CacheAssumption == MaxCommits \in Nat /\ MaxCloses \in Nat

VARIABLES
    design,      \* which of the three caches; a behaviour is about one
    authority,   \* of the unit: 0 not published, 1 in S3, 2 in S4
    commits,     \* mutations of the rows the copy shows
    keeper,      \* the version of the copy, or None
    built,       \* versions whose database lives and has its tables
    lock,        \* the thread that holds the lock, or None
    pc,
    seen,        \* the fingerprint a thread read
    version,     \* the version a thread loads, was told of or reads
    last,        \* mutations a thread has seen the effect of
    closes

Designs == {"domain", "identity", "financial"}

cache   == <<keeper, built, closes>>
threads == <<lock, pc, seen, version, last>>
cvars   == <<design, authority, commits, cache, threads>>

Token   == [authority : 0..2, commits : 0..MaxCommits]
Version == [token : Token, rows : 0..MaxCommits]

ASSUME NoneAssumption == None \notin Threads \cup Token \cup Version

CacheTypeOK ==
    /\ design \in Designs
    /\ authority \in 0..2
    /\ commits \in 0..MaxCommits
    /\ keeper \in Version \cup {None}
    /\ built \subseteq Version
    /\ lock \in Threads \cup {None}
    /\ pc \in [Threads -> {"idle", "check", "load", "build", "told", "reading", "failed"}]
    /\ seen \in [Threads -> Token \cup {None}]
    /\ version \in [Threads -> Version \cup {None}]
    /\ last \in [Threads -> 0..MaxCommits]
    /\ closes \in 0..MaxCloses

CacheInit ==
    /\ design \in Designs
    /\ authority = 0
    /\ commits = 0
    /\ keeper = None
    /\ built = {}
    /\ lock = None
    /\ pc = [t \in Threads |-> "idle"]
    /\ seen = [t \in Threads |-> None]
    /\ version = [t \in Threads |-> None]
    /\ last = [t \in Threads |-> 0]
    /\ closes = 0

---------------------------------------------------------------------------
(* PostgreSQL *)

\* A mutation batch commits; the sum of the overlay revisions grows with it.
Mutate ==
    /\ commits < MaxCommits
    /\ commits' = commits + 1
    /\ UNCHANGED <<design, authority, cache, threads>>

\* S2 -> S3, S3 -> S4.
Advance ==
    /\ authority < 2
    /\ authority' = authority + 1
    /\ UNCHANGED <<design, commits, cache, threads>>

\* What the first statement returns.  The financial cache looks at its own
\* unit's row and snapshot; the rows that change are those of shared_identity.
Fingerprint ==
    [authority |-> authority, commits |-> IF design = "financial" THEN 0 ELSE commits]

---------------------------------------------------------------------------
(* The threads *)

\* Databases alive after the cache and the reader `t` have let go of `v`.
Without(v, t) ==
    {w \in built : w # v \/ \E u \in Threads \ {t} : pc[u] = "reading" /\ version[u] = v}

\* Faulty variant: nothing is locked.
EnterUnlocked(t) ==
    /\ pc[t] = "idle"
    /\ lock' = t
    /\ pc' = [pc EXCEPT ![t] = "check"]
    /\ UNCHANGED <<design, authority, commits, cache, seen, version, last>>

\* The lock is free, the thread takes it.
Enter(t) ==
    /\ pc[t] = "idle"
    /\ lock = None
    /\ lock' = t
    /\ pc' = [pc EXCEPT ![t] = "check"]
    /\ UNCHANGED <<design, authority, commits, cache, seen, version, last>>

\* The lock is released and the thread raises.
Raise(t, to) ==
    /\ lock' = None
    /\ pc' = [pc EXCEPT ![t] = to]
    /\ seen' = [seen EXCEPT ![t] = None]
    /\ version' = [version EXCEPT ![t] = None]
    /\ UNCHANGED <<design, authority, commits, last>>

\* sqlite3.connect(uri) of a reader.
Read(t, v, alive) ==
    last' = IF v \in alive THEN [last EXCEPT ![t] = v.rows] ELSE last

\* Faulty variant: every cache opens the name after the lock.
ReturnThenOpen(t, v, alive) ==
    /\ lock' = None
    /\ pc' = [pc EXCEPT ![t] = "told"]
    /\ seen' = [seen EXCEPT ![t] = None]
    /\ version' = [version EXCEPT ![t] = v]
    /\ UNCHANGED <<design, authority, commits, last>>

\* ensure_current returns the name.  Only the financial cache opens it before
\* the lock is released.
Return(t, v, alive) ==
    /\ lock' = None
    /\ pc' = [pc EXCEPT ![t] = IF design = "financial" THEN "reading" ELSE "told"]
    /\ seen' = [seen EXCEPT ![t] = None]
    /\ version' = [version EXCEPT ![t] = v]
    /\ IF design = "financial" THEN Read(t, v, alive) ELSE UNCHANGED last
    /\ UNCHANGED <<design, authority, commits>>

\* No check is due.
Reuse(t) ==
    /\ pc[t] = "check"
    /\ keeper # None
    /\ Return(t, keeper, built)
    /\ UNCHANGED cache

\* Faulty variant: the whole version is compared with a fingerprint.
UnchangedVersion(token) == keeper # None /\ keeper = token

\* The copy is current.  FinancialDataReadCache keeps the whole version where
\* it means to keep the fingerprint, and never finds the two equal.
Unchanged(token) ==
    /\ keeper # None
    /\ design # "financial"
    /\ keeper.token = token

\* The check is due: the fingerprint first.
ReadAuthority(t) ==
    /\ pc[t] = "check"
    /\ \/ /\ authority = 0
          /\ Raise(t, "idle")
       \/ /\ authority # 0 /\ Unchanged(Fingerprint)
          /\ Return(t, keeper, built)
       \/ /\ authority # 0 /\ ~Unchanged(Fingerprint)
          /\ pc' = [pc EXCEPT ![t] = "load"]
          /\ seen' = [seen EXCEPT ![t] = Fingerprint]
          /\ UNCHANGED <<design, authority, commits, lock, version, last>>
    /\ UNCHANGED cache

\* Faulty variant: the rows first, the fingerprint after them.
ReadRowsFirst(t) ==
    /\ pc[t] = "load"
    /\ pc' = [pc EXCEPT ![t] = "build"]
    /\ version' = [version EXCEPT
                     ![t] = [token |-> Fingerprint, rows |-> seen[t].commits]]
    /\ UNCHANGED <<design, authority, commits, lock, seen, last, cache>>

\* Then the rows.  The identity cache also compares their number, which most
\* mutations change, with the one it read before.
ReadRows(t) ==
    /\ pc[t] = "load"
    /\ \/ /\ pc' = [pc EXCEPT ![t] = "build"]
          /\ version' = [version EXCEPT ![t] = [token |-> seen[t], rows |-> commits]]
          /\ UNCHANGED <<design, authority, commits, lock, seen, last>>
       \/ /\ design = "identity" /\ seen[t].commits # commits
          /\ Raise(t, "idle")
    /\ UNCHANGED cache

\* PostgreSQL does not answer.
Unavailable(t) ==
    /\ pc[t] \in {"check", "load"}
    /\ Raise(t, "idle")
    /\ UNCHANGED cache

\* The tables are created, the copy is replaced and the old one let go.  If
\* the name is alive and has its tables, CREATE TABLE fails.
Build(t) ==
    /\ pc[t] = "build"
    /\ IF version[t] \in built
       THEN Raise(t, "failed") /\ UNCHANGED <<keeper, built>>
       ELSE LET alive == Without(keeper, t) \cup {version[t]} IN
            /\ keeper' = version[t]
            /\ built' = alive
            /\ Return(t, version[t], alive)
    /\ UNCHANGED closes

\* The rest of connect, or of attach, without the lock.
Open(t) ==
    /\ pc[t] = "told"
    /\ pc' = [pc EXCEPT ![t] = "reading"]
    /\ Read(t, version[t], built)
    /\ UNCHANGED <<design, authority, commits, cache, lock, seen, version>>

\* The request ends.
Finish(t) ==
    /\ pc[t] \in {"reading", "failed"}
    /\ pc' = [pc EXCEPT ![t] = "idle"]
    /\ version' = [version EXCEPT ![t] = None]
    /\ built' = IF version[t] = keeper THEN built ELSE Without(version[t], t)
    /\ UNCHANGED <<design, authority, commits, keeper, closes, lock, seen, last>>

\* close() of the cache; the financial cache has none.
Close ==
    /\ design # "financial"
    /\ lock = None
    /\ keeper # None
    /\ closes < MaxCloses
    /\ closes' = closes + 1
    /\ keeper' = None
    /\ built' = {w \in built : w # keeper \/
                   \E u \in Threads : pc[u] = "reading" /\ version[u] = keeper}
    /\ UNCHANGED <<design, authority, commits, threads>>

Step(t) ==
    \/ Enter(t) \/ Reuse(t) \/ ReadAuthority(t) \/ ReadRows(t) \/ Unavailable(t)
    \/ Build(t) \/ Open(t) \/ Finish(t)

CacheNext == Mutate \/ Advance \/ Close \/ \E t \in Threads : Step(t)

CacheSpec == CacheInit /\ [][CacheNext]_cvars

---------------------------------------------------------------------------
(* Properties *)

\* The copy is stale only as long as its fingerprint is: although fingerprint
\* and rows are read at different moments, a copy that passes the check of
\* _load shows the rows of this moment, and never stays behind for good.  The
\* financial fingerprint does not cover the rows of shared_identity.
CacheIsHonest ==
    design # "financial" /\ keeper # None /\ keeper.token = Fingerprint
      => keeper.rows = commits

\* Successive connections of one thread never go back in time, whatever the
\* other threads load, replace and close between its call and its open.
ReadsAdvance == [][\A t \in Threads : last'[t] >= last[t]]_cvars

NoFailure == \A t \in Threads : pc[t] # "failed"

\* A check that finds nothing new, or a load, never fails for a reason of the
\* cache's own: a name is built once while it lives.  (After close a reader
\* may still hold the name.)
BuildsSucceed == design # "financial" /\ closes = 0 => NoFailure

\* Who has connected reads the tables of the unit, not an empty database of
\* the same name: of the cache that opens the name under its lock, and of the
\* caches that open it later.
HasTables == \A t \in Threads : pc[t] = "reading" => version[t] \in built

ReaderHasTables     == design = "financial" => HasTables
LateReaderHasTables == design # "financial" => HasTables
===========================================================================
