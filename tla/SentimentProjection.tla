------------------------- MODULE SentimentProjection -------------------------
(***************************************************************************)
(* PersistentSentimentProjection and PersistentSentimentConnection: a file  *)
(* with a copy of the unit's rows, shared by the processes of a host.  An   *)
(* interprocess lock serialises everything that writes the file.  A reader  *)
(* brings the file up to date under the lock, lets go of it and only then   *)
(* opens the file; a writer keeps the lock until it closes.                 *)
(*                                                                         *)
(* A writer's transaction goes to PostgreSQL first (DomainMutation) and is  *)
(* committed to the file after the answer.  Answers are lost, processes     *)
(* die, and a call nobody waits for may still commit later.                 *)
(***************************************************************************)
EXTENDS DomainMutation, FiniteSets

CONSTANTS
    Readers,       \* processes that only read
    Assignments,   \* what a transaction may store: functions from some rows to values
    MaxFormal,     \* bound on the changes of the formal token: S3 to S4, a new snapshot
    MaxCrashes, MaxLosses   \* bounds on the faults of a behaviour

Processes == Clients \cup Readers

ASSUME ProjectionAssumption ==
    /\ Clients \cap Readers = {}
    /\ None \notin Processes
    /\ \A a \in Assignments :
         DOMAIN a \subseteq Rows /\ \A r \in DOMAIN a : a[r] \in Values \cup {None}
    /\ MaxFormal \in Nat /\ MaxCrashes \in Nat /\ MaxLosses \in Nat
    /\ IsFiniteSet(Rows)

VARIABLES
    formal,    \* the formal half of the authority, as a number
    file,      \* the projection file, or None
    holder,    \* who has the interprocess lock
    pc,        \* where a process is
    told,      \* the authority it read, until the file is up to date
    identity,  \* the operation id of a writer
    index, pending,   \* _transaction_index and _pending of a writer
    floor,     \* history: the revisions PostgreSQL had when a reader read the authority
    crashes, losses

process == <<pc, told, identity, index, pending, floor>>
pvars == <<server, calls, formal, file, holder, process, crashes, losses>>

\* __honghu_record_state and the rows themselves.
Content == [Rows -> [version : Nat, value : Values \cup {None}]]

Token == [formal : 0..MaxFormal, overlay : Nat]
File == [formal : 0..MaxFormal, overlay : Nat, rows : Content]
Pending == [key : Key, batch : SUBSET Mutation]

ASSUME NoRecordAssumption == None \notin File \cup Pending

ProjTypeOK ==
    /\ ServerTypeOK
    /\ formal \in 0..MaxFormal
    /\ file \in File \cup {None}
    /\ holder \in Processes \cup {None}
    /\ pc \in [Processes -> {"out", "locked", "rebuild", "sync", "current", "opening", "open"}]
    /\ told \in [Processes -> Token]
    /\ identity \in [Clients -> Identities \cup {None}]
    /\ index \in [Clients -> 0..MaxIndex]
    /\ pending \in [Clients -> Pending \cup {None}]
    /\ floor \in [Readers -> [Rows -> Nat]]
    /\ crashes \in 0..MaxCrashes /\ losses \in 0..MaxLosses

NoToken == [formal |-> 0, overlay |-> 0]
NoFloor == [r \in Rows |-> 0]

ProjInit ==
    /\ ServerInit
    /\ formal = 0 /\ file = None /\ holder = None
    /\ pc = [p \in Processes |-> "out"]
    /\ told = [p \in Processes |-> NoToken]
    /\ identity = [c \in Clients |-> None]
    /\ index = [c \in Clients |-> 0]
    /\ pending = [c \in Clients |-> None]
    /\ floor = [p \in Readers |-> NoFloor]
    /\ crashes = 0 /\ losses = 0

---------------------------------------------------------------------------
(* Bringing the file up to date *)

\* count, revision_sum and last_update of the overlay change with every
\* mutation.
OverlayNow == Cardinality(ledger)

RowsNow == [r \in Rows |-> [version |-> version[r], value |-> value[r]]]

\* A process that ends, or fails, leaves nothing but the file and its calls.
Leave(p) ==
    /\ pc' = [pc EXCEPT ![p] = "out"]
    /\ told' = [told EXCEPT ![p] = NoToken]
    /\ floor' = [q \in Readers |-> IF q = p THEN NoFloor ELSE floor[q]]
    /\ holder' = IF holder = p THEN None ELSE holder
    /\ identity' = [c \in Clients |-> IF c = p THEN None ELSE identity[c]]
    /\ index' = [c \in Clients |-> IF c = p THEN 0 ELSE index[c]]
    /\ pending' = [c \in Clients |-> IF c = p THEN None ELSE pending[c]]

\* _InterprocessLock.acquire; who waits too long gives up, unseen here.
Acquire(p) ==
    /\ pc[p] = "out"
    /\ holder = None
    /\ holder' = p
    /\ pc' = [pc EXCEPT ![p] = "locked"]
    /\ UNCHANGED <<server, calls, formal, file, told, identity, index, pending, floor,
                   crashes, losses>>

\* What a process has to do, with the tokens it read.
Go(p, next) ==
    /\ pc' = [pc EXCEPT ![p] = next]
    /\ told' = [told EXCEPT ![p] = IF next = "current" THEN NoToken
                                   ELSE [formal |-> formal, overlay |-> OverlayNow]]

\* _authority, one statement, then the meta row of the file.
ReadAuthority(p) ==
    /\ pc[p] = "locked"
    /\ floor' = [q \in Readers |-> IF q = p THEN version ELSE floor[q]]
    /\ IF file = None THEN Go(p, "rebuild")
       ELSE IF file.formal # formal THEN Go(p, "rebuild")
       ELSE IF file.overlay # OverlayNow THEN Go(p, "sync")
       ELSE Go(p, "current")
    /\ UNCHANGED <<server, calls, formal, file, holder, identity, index, pending,
                   crashes, losses>>

UpToDate(p) ==
    /\ pc' = [pc EXCEPT ![p] = "current"]
    /\ told' = [told EXCEPT ![p] = NoToken]

Open(p) == pc[p] = "open"

\* Faulty variant: the formal snapshot without its overlay.
RebuildSnapshotOnly(p) ==
    /\ pc[p] = "rebuild"
    /\ \A q \in Processes : ~Open(q)
    /\ file' = [formal |-> told[p].formal, overlay |-> told[p].overlay,
                rows |-> [r \in Rows |-> [version |-> BaseVersion(r), value |-> BaseValue[r]]]]
    /\ UpToDate(p)
    /\ UNCHANGED <<server, calls, formal, holder, identity, index, pending, floor,
                   crashes, losses>>

\* _rebuild reads the records, writes a new file and puts it in place, under
\* the tokens read before.  Windows refuses to replace a file somebody has
\* open: the new file stays unused and the caller fails.
Rebuild(p) ==
    /\ pc[p] = "rebuild"
    /\ \A q \in Processes : ~Open(q)
    /\ file' = [formal |-> told[p].formal, overlay |-> told[p].overlay, rows |-> RowsNow]
    /\ UpToDate(p)
    /\ UNCHANGED <<server, calls, formal, holder, identity, index, pending, floor,
                   crashes, losses>>

\* Faulty variant: the exception leaves the lock taken.
RebuildFailsLocked(p) ==
    /\ pc[p] = "rebuild"
    /\ \E q \in Processes : Open(q)
    /\ pc' = [pc EXCEPT ![p] = "out"]
    /\ UNCHANGED <<server, calls, formal, file, holder, told, identity, index, pending,
                   floor, crashes, losses>>

RebuildFails(p) ==
    /\ pc[p] = "rebuild"
    /\ \E q \in Processes : Open(q)
    /\ Leave(p)
    /\ UNCHANGED <<server, calls, formal, file, crashes, losses>>

\* Faulty variant: the overlay is read before the tokens.
SyncFreshToken(p) ==
    /\ pc[p] = "sync"
    /\ file' = [file EXCEPT !.overlay = OverlayNow]
    /\ UpToDate(p)
    /\ UNCHANGED <<server, calls, formal, holder, identity, index, pending, floor,
                   crashes, losses>>

\* _sync_overlay: the rows of the overlay, under the token read before.
Sync(p) ==
    /\ pc[p] = "sync"
    /\ file' = [file EXCEPT !.overlay = told[p].overlay, !.rows =
         [r \in Rows |-> IF version[r] > BaseVersion(r) THEN RowsNow[r] ELSE @[r]]]
    /\ UpToDate(p)
    /\ UNCHANGED <<server, calls, formal, holder, identity, index, pending, floor,
                   crashes, losses>>

---------------------------------------------------------------------------
(* Readers *)

\* connect_readonly and attach: the lock is released first.
ReleaseLock(p) ==
    /\ p \in Readers
    /\ pc[p] = "current"
    /\ holder' = None
    /\ pc' = [pc EXCEPT ![p] = "opening"]
    /\ UNCHANGED <<server, calls, formal, file, told, identity, index, pending, floor,
                   crashes, losses>>

OpenFile(p) ==
    /\ pc[p] = "opening"
    /\ pc' = [pc EXCEPT ![p] = "open"]
    /\ UNCHANGED <<server, calls, formal, file, holder, told, identity, index, pending,
                   floor, crashes, losses>>

---------------------------------------------------------------------------
(* Writers *)

\* connect_writer: the file is opened under the lock, which stays taken.
OpenWriter(c, id) ==
    /\ pc[c] = "current"
    /\ identity' = [identity EXCEPT ![c] = id]
    /\ pc' = [pc EXCEPT ![c] = "open"]
    /\ UNCHANGED <<server, calls, formal, file, holder, told, index, pending, floor,
                   crashes, losses>>

\* _mutations: the tracked rows that differ, with the revisions of the file.
Mutations(a) ==
    {[row |-> r, value |-> a[r], expected |-> file.rows[r].version] :
       r \in {q \in DOMAIN a : file.rows[q].value # a[q]}}

Waiting(c) == \E k \in calls : k.client = c

Send(c, key, batch) ==
    calls' = calls \cup {[key |-> key, batch |-> batch, tx |-> 0, client |-> c,
                          phase |-> "sent"]}

\* commit of a transaction with changes.
Commit(c, a) ==
    LET key == [id |-> identity[c], index |-> index[c] + 1] IN
    /\ Open(c)
    /\ pending[c] = None
    /\ Mutations(a) # {}
    /\ index[c] < MaxIndex
    /\ index' = [index EXCEPT ![c] = @ + 1]
    /\ pending' = [pending EXCEPT ![c] = [key |-> key, batch |-> Mutations(a)]]
    /\ Send(c, key, Mutations(a))
    /\ UNCHANGED <<server, formal, file, holder, pc, told, identity, floor, crashes, losses>>

\* commit again: the pending batch, unchanged, under its key.
Retry(c) ==
    /\ Open(c)
    /\ pending[c] # None
    /\ ~Waiting(c)
    /\ Send(c, pending[c].key, pending[c].batch)
    /\ UNCHANGED <<server, formal, file, holder, process, crashes, losses>>

\* Faulty variant: the file is committed row by row and the process dies in between.
AcknowledgePartly(k) ==
    /\ k.phase = "ok"
    /\ calls' = calls \ {k}
    /\ \E m \in k.batch :
         file' = [file EXCEPT !.rows[m.row] = [version |-> m.expected + 1, value |-> m.value]]
    /\ pending' = [pending EXCEPT ![k.client] = None]
    /\ UNCHANGED <<server, formal, holder, pc, told, identity, index, floor, crashes, losses>>

\* The answer arrives and the local transaction commits, rows and revisions;
\* the overlay token of the file stays behind.
Acknowledge(k) ==
    /\ k.phase = "ok"
    /\ calls' = calls \ {k}
    /\ file' = [file EXCEPT !.rows = [r \in Rows |->
         IF \E m \in k.batch : m.row = r
         THEN LET m == CHOOSE n \in k.batch : n.row = r IN
              [version |-> m.expected + 1, value |-> m.value]
         ELSE @[r]]]
    /\ pending' = [pending EXCEPT ![k.client] = None]
    /\ UNCHANGED <<server, formal, holder, pc, told, identity, index, floor, crashes, losses>>

\* Faulty variant: the local transaction commits whatever the answer.
DisappointCommits(k) ==
    /\ k.client # None
    /\ k.phase \in {"error", "conflict", "rejected"}
    /\ calls' = calls \ {k}
    /\ file' = [file EXCEPT !.rows = [r \in Rows |->
         IF \E m \in k.batch : m.row = r
         THEN LET m == CHOOSE n \in k.batch : n.row = r IN
              [version |-> m.expected + 1, value |-> m.value]
         ELSE @[r]]]
    /\ UNCHANGED <<server, formal, holder, process, crashes, losses>>

\* A refusal arrives; the batch stays pending.
Disappoint(k) ==
    /\ k.client # None
    /\ k.phase \in {"error", "conflict", "rejected"}
    /\ calls' = calls \ {k}
    /\ UNCHANGED <<server, formal, file, holder, process, crashes, losses>>

\* The connection to PostgreSQL breaks; the call may still be executed.
Lose(k) ==
    /\ k.client # None
    /\ losses < MaxLosses
    /\ losses' = losses + 1
    /\ calls' = (calls \ {k}) \cup
         (IF k.phase \in {"sent", "locking"} THEN {[k EXCEPT !.client = None]} ELSE {})
    /\ UNCHANGED <<server, formal, file, holder, process, crashes>>

\* The server dies with a call nobody waits for.
Vanish(k) ==
    /\ k.client = None
    /\ calls' = calls \ {k}
    /\ UNCHANGED <<server, formal, file, holder, process, crashes, losses>>

---------------------------------------------------------------------------
(* The rest *)

\* close: what is not committed locally is rolled back, and the lock goes.
Close(p) ==
    /\ Open(p)
    /\ ~Waiting(p)
    /\ Leave(p)
    /\ UNCHANGED <<server, calls, formal, file, crashes, losses>>

\* The process dies, also between the answer and the local commit, or while it
\* rebuilds or synchronises; the system releases its lock.
Crash(p) ==
    /\ pc[p] # "out"
    /\ crashes < MaxCrashes
    /\ crashes' = crashes + 1
    /\ Leave(p)
    /\ calls' = {k \in calls : k.client # p} \cup
         {[k EXCEPT !.client = None] :
            k \in {j \in calls : j.client = p /\ j.phase \in {"sent", "locking"}}}
    /\ UNCHANGED <<server, formal, file, losses>>

\* The unit moves from S3 to S4: another formal token.
Republish ==
    /\ formal < MaxFormal
    /\ formal' = formal + 1
    /\ UNCHANGED <<server, calls, file, holder, process, crashes, losses>>

ProjServe(k) ==
    /\ Serve(k)
    /\ UNCHANGED <<formal, file, holder, process, crashes, losses>>

Refresh(p) == ReadAuthority(p) \/ Rebuild(p) \/ RebuildFails(p) \/ Sync(p)

ProjNext ==
    \/ \E p \in Processes :
         Acquire(p) \/ Refresh(p) \/ ReleaseLock(p) \/ OpenFile(p) \/ Close(p) \/ Crash(p)
    \/ \E c \in Clients :
         \/ \E id \in Identities : OpenWriter(c, id)
         \/ \E a \in Assignments : Commit(c, a)
         \/ Retry(c)
    \/ \E k \in calls :
         ProjServe(k) \/ Acknowledge(k) \/ Disappoint(k) \/ Lose(k) \/ Vanish(k)
    \/ Republish

ProjSpec == ProjInit /\ [][ProjNext]_pvars

\* Processes go on with what they began, and close; readers come again and
\* again, and a call somebody waits for is executed and answered.  Nobody needs
\* to write.
ProjFairness ==
    /\ \A p \in Processes :
         WF_pvars(Refresh(p) \/ ReleaseLock(p) \/ OpenFile(p)
                  \/ (p \in Clients /\ \E id \in Identities : OpenWriter(p, id)))
    /\ \A p \in Processes : SF_pvars(Close(p))
    /\ \A p \in Readers : SF_pvars(Acquire(p))
    /\ WF_pvars(\E k \in calls :
                  k.client # None /\ (ProjServe(k) \/ Acknowledge(k) \/ Disappoint(k)))

ProjFairSpec == ProjSpec /\ ProjFairness

---------------------------------------------------------------------------
(* Properties *)

\* "one cross-process lock serializes projection writes": a file whose tokens
\* are the current ones holds the current rows, although rows are read after
\* the tokens and a local commit changes rows without the token.
FileIsHonest ==
    file # None =>
      (file.formal = formal /\ file.overlay = OverlayNow => file.rows = RowsNow)

\* "Formal mutations are committed to PostgreSQL first": the file shows only
\* rows PostgreSQL has or had, under their own revisions, however answers were
\* lost and processes died.
FileIsHistory ==
    file # None => \A r \in Rows :
      LET row == file.rows[r] IN
      /\ row.version <= version[r]
      /\ IF row.version = BaseVersion(r)
         THEN row.value = BaseValue[r]
         ELSE \E e \in ledger : e.row = r /\ e.to = row.version /\ e.value = row.value

\* The types, and rows that PostgreSQL had.
ProjInv == ProjTypeOK /\ FileIsHistory

\* A reader opens the file after it gave up the lock, and others may rebuild or
\* change it meanwhile: it still sees at least what PostgreSQL held when it
\* looked, on every later query too.
ReaderIsFresh ==
    \A p \in Readers : pc[p] \in {"opening", "open"} =>
      \A r \in Rows : file.rows[r].version >= floor[p][r]

\* A batch appears in the file whole or not at all.
BatchShownWhole ==
    file # None => \A x \in results :
      LET shown == {m \in x.batch : file.rows[m.row].version > m.expected} IN
      shown \in {{}, x.batch}

\* After the formal token has changed every process fails while one has the
\* old file open; the file is rebuilt nevertheless, once those have closed.
FileCatchesUp == [](formal = MaxFormal => <>(file # None /\ file.formal = formal))
=============================================================================
