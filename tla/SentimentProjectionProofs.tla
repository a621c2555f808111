--------------------- MODULE SentimentProjectionProofs ---------------------
(***************************************************************************)
(* Theorems about SentimentProjection and the DomainMutation it composes,   *)
(* for any rows, transactions, readers, writers, crashes and losses.        *)
(***************************************************************************)
EXTENDS SentimentProjection, FiniteSetTheorems, TLAPS

---------------------------------------------------------------------------
(* The inductive invariant *)

Functional(batch) == \A m, n \in batch : m.row = n.row => m = n

Entries(key, batch) ==
    {[row |-> m.row, to |-> m.expected + 1, value |-> m.value, key |-> key] : m \in batch}

\* PostgreSQL: batches are atomic, every version has one author, no row is
\* under its base version, and no batch names a row twice.
ServerInv ==
    /\ BatchIsAtomic
    /\ EveryVersionHasOneAuthor
    /\ \A r \in Rows : BaseVersion(r) <= version[r]
    /\ \A k \in calls : Functional(k.batch)
    /\ IsFiniteSet(ledger)

\* A writer waits for one call at a time, that of its pending batch, and only a
\* stored batch is answered "ok".
CallInv ==
    /\ \A j, k \in calls : j.client # None /\ j.client = k.client => j = k
    /\ \A k \in calls :
         /\ k.phase \notin {"sent", "locking"} => k.client # None
         /\ k.phase = "ok" => \E x \in results : x.key = k.key /\ x.batch = k.batch
         /\ k.client # None => /\ pending[k.client] # None
                               /\ pending[k.client].key = k.key
                               /\ pending[k.client].batch = k.batch

\* Whoever brings the file up to date has the lock, and a writer until it
\* closes; who is past that finds a file.
LockInv ==
    /\ \A p \in Processes :
         /\ pc[p] \in {"locked", "rebuild", "sync", "current"} => holder = p
         /\ pc[p] \in {"sync", "current", "opening", "open"} => file # None
    /\ \A c \in Clients :
         /\ pc[c] # "opening"
         /\ pc[c] = "open" => holder = c
         /\ pending[c] # None => pc[c] = "open"

\* A writer has an operation id.
IdentityInv == \A c \in Clients : pc[c] = "open" => identity[c] \in Identities

\* A pending batch carries the revisions of the file.
PendingInv ==
    \A c \in Clients : pending[c] # None =>
      /\ pending[c].batch # {} /\ Functional(pending[c].batch)
      /\ \A m \in pending[c].batch : m.expected = file.rows[m.row].version

\* Nobody holds a token that is still to come.
TokenInv ==
    /\ \A p \in Processes : told[p].formal <= formal /\ told[p].overlay <= OverlayNow
    /\ file # None => file.formal <= formal /\ file.overlay <= OverlayNow

\* PostgreSQL has what a reader found there, and so has the file once the
\* reader brought it up to date.
FloorInv ==
    \A p \in Readers : \A r \in Rows :
      /\ floor[p][r] <= version[r]
      /\ pc[p] \in {"current", "opening", "open"} => floor[p][r] <= file.rows[r].version

ProjIInv ==
    /\ ProjTypeOK /\ ServerInv /\ CallInv /\ LockInv /\ IdentityInv
    /\ PendingInv /\ TokenInv /\ FloorInv
    /\ FileIsHonest /\ FileIsHistory /\ BatchShownWhole

---------------------------------------------------------------------------
(* Batches and what the server makes of a call *)

LEMMA BatchFinite ==
    ASSUME NEW B, B \subseteq Mutation, Functional(B)
    PROVE  IsFiniteSet(B)
<1> DEFINE f == [m \in B |-> m.row]
<1>1. f \in Injection(B, Rows)
  BY DEF Injection, IsInjective, Mutation, Functional
<1> QED BY <1>1, FS_Injection, ProjectionAssumption

LEMMA EntriesFinite ==
    ASSUME NEW B, IsFiniteSet(B), NEW key
    PROVE  IsFiniteSet(Entries(key, B))
<1> DEFINE f == [m \in B |-> [row |-> m.row, to |-> m.expected + 1, value |-> m.value,
                              key |-> key]]
<1>1. f \in Surjection(B, Entries(key, B))
  BY DEF Surjection, Entries
<1> QED BY <1>1, FS_Surjection

\* The call goes on to its lock or is answered; only a stored batch is
\* answered "ok".
LEMMA ServeCalls ==
    ASSUME ServerTypeOK, NEW k \in calls, Serve(k)
    PROVE  \A j \in calls' : \/ j \in calls /\ j # k
                             \/ /\ j \in Call
                                /\ j.key = k.key /\ j.batch = k.batch
                                /\ j.client = k.client
                                /\ j.phase # "locking" => k.client # None
                                /\ j.phase = "ok" => \E x \in results' :
                                     x.key = k.key /\ x.batch = k.batch
<1>1. k \in Call
  BY DEF ServerTypeOK
<1>2. ASSUME NEW p \in {"ok", "error", "conflict", "rejected"}, Answer(k, p), NEW j \in calls'
      PROVE  \/ j \in calls /\ j # k
             \/ /\ j \in Call
                /\ j.key = k.key /\ j.batch = k.batch
                /\ j.client = k.client /\ k.client # None /\ j.phase = p
  BY <1>1, <1>2 DEF Answer, Call
<1>3. CASE Lookup(k)
  <2>1. CASE (\E x \in results : x.key = k.key /\ x.batch = k.batch) /\ Answer(k, "ok")
    <3>1. \E x \in results' : x.key = k.key /\ x.batch = k.batch
      BY <1>3, <2>1 DEF Lookup, server
    <3>2. Answer(k, "ok")
      BY <2>1
    <3> QED BY <1>2, <3>1, <3>2
  <2>2. CASE Answer(k, "conflict")
    BY <1>2, <2>2
  <2>3. CASE calls' = (calls \ {k}) \cup {[k EXCEPT !.phase = "locking"]}
    BY <1>1, <2>3 DEF Call
  <2> QED BY <1>3, <2>1, <2>2, <2>3 DEF Lookup
<1>4. CASE Apply(k)
  <2>1. Answer(k, "ok")
    BY <1>4, Zenon DEF Apply
  <2>2. [key |-> k.key, batch |-> k.batch, tx |-> k.tx] \in results'
    BY <1>4, Zenon DEF Apply
  <2>3. \E x \in results' : x.key = k.key /\ x.batch = k.batch
    BY <2>2
  <2> QED BY <1>2, <2>1, <2>3
<1>5. CASE Refuse(k)
  BY <1>2, <1>5 DEF Refuse
<1>6. CASE Reject(k)
  BY <1>2, <1>6 DEF Reject
<1> QED BY <1>3, <1>4, <1>5, <1>6 DEF Serve

LEMMA ApplyTyped ==
    ASSUME ServerTypeOK, NEW k \in calls, Apply(k), calls' \subseteq Call
    PROVE  ServerTypeOK'
<1>1. k.batch \subseteq Mutation /\ k.key \in Key /\ k.tx \in Nat
  BY DEF ServerTypeOK, Call
<1>2. version' \in [Rows -> Nat]
  BY <1>1 DEF Apply, ServerTypeOK
<1>3. \A r \in Rows : (\E m \in k.batch : m.row = r) =>
        (CHOOSE m \in k.batch : m.row = r) \in k.batch
  OBVIOUS
<1>4. \A m \in k.batch : m.value \in Values \cup {None} /\ m.row \in Rows /\ m.expected \in Nat
  BY <1>1 DEF Mutation
<1>5. value' \in [Rows -> Values \cup {None}]
  BY <1>3, <1>4 DEF Apply, ServerTypeOK
<1>6. ledger' \subseteq Entry
  BY <1>1, <1>4 DEF Apply, ServerTypeOK, Entry
<1>7. results' \subseteq Result
  <2>1. [key |-> k.key, batch |-> k.batch, tx |-> k.tx] \in Result
    BY <1>1 DEF Result
  <2>2. results' = results \cup {[key |-> k.key, batch |-> k.batch, tx |-> k.tx]}
    BY DEF Apply
  <2> QED BY <2>1, <2>2 DEF ServerTypeOK
<1> QED BY <1>2, <1>5, <1>6, <1>7 DEF ServerTypeOK

LEMMA ApplyAtomic ==
    ASSUME BatchIsAtomic, NEW k \in calls, Apply(k)
    PROVE  BatchIsAtomic'
<1> DEFINE new == [key |-> k.key, batch |-> k.batch, tx |-> k.tx]
<1>1. results' = results \cup {new} /\ \A x \in results : x.key # k.key
  BY DEF Apply
<1>2. ledger' = ledger \cup Entries(k.key, k.batch)
  BY DEF Apply, Entries
<1>3. ledger = UNION {Entries(x.key, x.batch) : x \in results}
  BY DEF BatchIsAtomic, Entries
<1>4. new.key = k.key /\ new.batch = k.batch
  OBVIOUS
<1> HIDE DEF new
<1>5. ledger' = UNION {Entries(x.key, x.batch) : x \in results'}
  BY <1>1, <1>2, <1>3, <1>4
<1>6. \A x, y \in results' : x.key = y.key => x = y
  BY <1>1, <1>4 DEF BatchIsAtomic
<1> QED BY <1>5, <1>6 DEF BatchIsAtomic, Entries

LEMMA ApplyHistory ==
    ASSUME ServerTypeOK, ServerInv, NEW k \in calls, Apply(k)
    PROVE  EveryVersionHasOneAuthor' /\ \A r \in Rows : BaseVersion(r) <= version'[r]
<1>1. /\ version \in [Rows -> Nat] /\ ledger \subseteq Entry
      /\ k.batch \subseteq Mutation /\ Functional(k.batch)
  BY DEF ServerTypeOK, Call, ServerInv
<1>2. \A r \in Rows : BaseVersion(r) \in Nat /\ BaseVersion(r)' = BaseVersion(r)
  BY DEF BaseVersion
<1>3. \A m \in k.batch : m.row \in Rows /\ m.expected = version[m.row]
  BY <1>1 DEF Apply, Current, Mutation
<1>4. ledger' = ledger \cup Entries(k.key, k.batch)
  BY DEF Apply, Entries
<1>5. ASSUME NEW m \in k.batch
      PROVE  version'[m.row] = version[m.row] + 1 /\ value'[m.row] = m.value
  <2>1. \A n \in k.batch : n.row = m.row => n = m
    BY <1>1 DEF Functional
  <2>2. (CHOOSE n \in k.batch : n.row = m.row) = m
    BY <2>1
  <2> QED BY <1>3, <2>2 DEF Apply
<1>6. ASSUME NEW r \in Rows, \A m \in k.batch : m.row # r
      PROVE  version'[r] = version[r] /\ value'[r] = value[r]
  BY <1>6 DEF Apply
<1>7. \A e \in Entries(k.key, k.batch) :
        \E m \in k.batch : e = [row |-> m.row, to |-> version[m.row] + 1,
                                value |-> m.value, key |-> k.key]
  BY <1>3 DEF Entries
<1>8. \A e \in ledger : e.row \in Rows /\ e.to \in (BaseVersion(e.row) + 1)..version[e.row]
  BY <1>1 DEF ServerInv, EveryVersionHasOneAuthor, Entry
<1>9. ASSUME NEW e \in ledger', NEW f \in ledger', e.row = f.row, e.to = f.to PROVE e = f
  <2>1. CASE e \in ledger /\ f \in ledger
    BY <1>9, <2>1 DEF ServerInv, EveryVersionHasOneAuthor
  <2>2. CASE e \in Entries(k.key, k.batch) /\ f \in Entries(k.key, k.batch)
    BY <1>1, <1>7, <1>9, <2>2 DEF Functional
  <2>3. ASSUME NEW a \in ledger, NEW b \in Entries(k.key, k.batch), a.row = b.row, a.to = b.to
        PROVE  FALSE
    <3>1. b.row \in Rows /\ b.to = version[b.row] + 1
      BY <1>3, <1>7
    <3>2. a.to <= version[b.row] /\ version[b.row] \in Nat /\ a.to \in Nat
      BY <1>1, <1>2, <1>8, <2>3, <3>1
    <3> QED BY <2>3, <3>1, <3>2
  <2> QED BY <1>4, <1>9, <2>1, <2>2, <2>3
<1> DEFINE Written(r) ==
             /\ BaseVersion(r) <= version'[r]
             /\ \A n \in (BaseVersion(r) + 1)..version'[r] :
                  \E e \in ledger' : e.row = r /\ e.to = n
             /\ \A e \in ledger' : e.row = r =>
                  /\ e.to \in (BaseVersion(r) + 1)..version'[r]
                  /\ e.to = version'[r] => e.value = value'[r]
             /\ version'[r] = BaseVersion(r) => value'[r] = BaseValue[r]
<1>10. ASSUME NEW r \in Rows
       PROVE  Written(r)
  <2> USE <1>1, <1>2 DEF ServerInv, EveryVersionHasOneAuthor
  <2>1. CASE \A m \in k.batch : m.row # r
    <3>1. \A e \in Entries(k.key, k.batch) : e.row # r
      BY <1>7, <2>1
    <3> QED BY <1>4, <1>6, <2>1, <3>1
  <2>2. ASSUME NEW m \in k.batch, m.row = r
        PROVE  Written(r)
    <3> DEFINE new == [row |-> r, to |-> version[r] + 1, value |-> m.value, key |-> k.key]
    <3>1. version'[r] = version[r] + 1 /\ value'[r] = m.value
      BY <1>5, <2>2
    <3>2. new \in ledger'
      BY <1>3, <1>4, <2>2 DEF Entries
    <3>3. \A e \in Entries(k.key, k.batch) : e.row = r => e = new
      BY <1>7, <2>2 DEF Functional
    <3>4. new.row = r /\ new.to = version[r] + 1 /\ new.value = m.value
      OBVIOUS
    <3> HIDE DEF new
    <3>5. version[r] \in Nat /\ BaseVersion(r) \in Nat /\ BaseVersion(r) <= version[r]
      OBVIOUS
    <3>6. \A n \in (BaseVersion(r) + 1)..version'[r] : \E e \in ledger' : e.row = r /\ e.to = n
      <4>1. \A n \in (BaseVersion(r) + 1)..version'[r] :
              n = version[r] + 1 \/ n \in (BaseVersion(r) + 1)..version[r]
        BY <3>1, <3>5
      <4> QED BY <1>4, <3>2, <3>4, <4>1
    <3>7. \A e \in ledger : e.row = r =>
            e.to \in (BaseVersion(r) + 1)..version'[r] /\ e.to # version'[r]
      BY <3>1, <3>5
    <3>8. \A e \in ledger' : e.row = r =>
            /\ e.to \in (BaseVersion(r) + 1)..version'[r]
            /\ e.to = version'[r] => e.value = value'[r]
      BY <1>4, <3>1, <3>3, <3>4, <3>5, <3>7
    <3> QED BY <3>1, <3>5, <3>6, <3>8
  <2> QED BY <2>1, <2>2
<1> QED BY <1>2, <1>9, <1>10 DEF EveryVersionHasOneAuthor

---------------------------------------------------------------------------
(* What a step does to PostgreSQL and to the file *)

LEMMA ServerStep ==
    ASSUME [ProjNext]_pvars
    PROVE  UNCHANGED server \/ \E k \in calls : ProjServe(k) /\ Apply(k)
BY DEF ProjNext, Refresh, Acquire, ReadAuthority, Rebuild, RebuildFails, Sync, ReleaseLock,
       OpenFile, Close, Crash, OpenWriter, Commit, Retry, ProjServe, Serve, Lookup, Refuse,
       Reject, Acknowledge, Disappoint, Lose, Vanish, Republish, pvars, server

LEMMA ServerGrows ==
    ASSUME ProjIInv, [ProjNext]_pvars
    PROVE  /\ results \subseteq results' /\ ledger \subseteq ledger'
           /\ \A r \in Rows : version[r] <= version'[r]
<1>1. version \in [Rows -> Nat]
  BY DEF ProjIInv, ProjTypeOK, ServerTypeOK
<1> QED BY <1>1, ServerStep DEF server, Apply

\* The overlay token grows with every mutation that is stored.
LEMMA OverlayGrows ==
    ASSUME ProjIInv, [ProjNext]_pvars, IsFiniteSet(ledger')
    PROVE  /\ OverlayNow \in Nat /\ OverlayNow' \in Nat /\ OverlayNow <= OverlayNow'
           /\ OverlayNow = OverlayNow' => ledger' = ledger
<1>1. ledger \in SUBSET ledger'
  BY ServerGrows
<1> QED BY <1>1, FS_Subset, FS_CardinalityType DEF OverlayNow, ProjIInv, ServerInv

LEMMA FormalGrows ==
    ASSUME ProjIInv, [ProjNext]_pvars
    PROVE  formal \in Nat /\ formal' \in Nat /\ formal <= formal'
<1> USE DEF ProjIInv
<1>1. formal \in Nat
  BY ProjectionAssumption DEF ProjTypeOK
<1>2. formal' = formal \/ formal' = formal + 1
  BY DEF ProjNext, Refresh, Acquire, ReadAuthority, Rebuild, RebuildFails, Sync,
      ReleaseLock, OpenFile, Close, Crash, OpenWriter, Commit, Retry, ProjServe,
      Acknowledge, Disappoint, Lose, Vanish, Republish, pvars
<1> QED BY <1>1, <1>2

LEMMA FileMoves ==
    ASSUME [ProjNext]_pvars
    PROVE  \/ file' = file
           \/ \E p \in Processes : Rebuild(p) \/ Sync(p)
           \/ \E k \in calls : Acknowledge(k)
BY DEF ProjNext, Refresh, Acquire, ReadAuthority, RebuildFails, ReleaseLock,
       OpenFile, Close, Crash, OpenWriter, Commit, Retry, ProjServe,
       Disappoint, Lose, Vanish, Republish, pvars

LEMMA BaseNat == \A r : BaseVersion(r) \in Nat
BY DEF BaseVersion

\* What PostgreSQL has now is part of its history.
LEMMA NowIsHistory ==
    ASSUME ServerTypeOK, ServerInv, NEW r \in Rows
    PROVE  IF version[r] = BaseVersion(r) THEN value[r] = BaseValue[r]
           ELSE \E e \in ledger : e.row = r /\ e.to = version[r] /\ e.value = value[r]
<1>1. version[r] \in Nat /\ BaseVersion(r) \in Nat /\ BaseVersion(r) <= version[r]
  BY BaseNat DEF ServerTypeOK, ServerInv
<1>2. CASE version[r] = BaseVersion(r)
  BY <1>2 DEF ServerInv, EveryVersionHasOneAuthor
<1>3. CASE version[r] # BaseVersion(r)
  <2>1. version[r] \in (BaseVersion(r) + 1)..version[r]
    BY <1>1, <1>3
  <2>2. PICK e \in ledger : e.row = r /\ e.to = version[r]
    BY <2>1 DEF ServerInv, EveryVersionHasOneAuthor
  <2>3. e.value = value[r]
    BY <2>2 DEF ServerInv, EveryVersionHasOneAuthor
  <2> QED BY <1>3, <2>2, <2>3
<1> QED BY <1>2, <1>3

\* A row of the file is not under its base version.
LEMMA FileFromBase ==
    ASSUME ProjIInv, file # None, NEW r \in Rows
    PROVE  /\ file.rows[r].version \in Nat /\ version[r] \in Nat
           /\ BaseVersion(r) <= file.rows[r].version /\ file.rows[r].version <= version[r]
<1>1. file.rows[r].version \in Nat /\ version[r] \in Nat
  BY DEF ProjIInv, ProjTypeOK, ServerTypeOK, File, Content
<1>2. file.rows[r].version <= version[r]
  BY DEF ProjIInv, FileIsHistory
<1>3. BaseVersion(r) <= file.rows[r].version
  <2>1. CASE file.rows[r].version = BaseVersion(r)
    BY <1>1, <2>1, BaseNat
  <2>2. CASE file.rows[r].version # BaseVersion(r)
    <3>1. PICK e \in ledger : e.row = r /\ e.to = file.rows[r].version
      BY <2>2 DEF ProjIInv, FileIsHistory
    <3>2. e.to \in (BaseVersion(r) + 1)..version[r]
      BY <3>1 DEF ProjIInv, ServerInv, EveryVersionHasOneAuthor
    <3> QED BY <1>1, <3>1, <3>2, BaseNat
  <2> QED BY <2>1, <2>2
<1> QED BY <1>1, <1>2, <1>3

LEMMA RowsNowTyped ==
    ASSUME ServerTypeOK
    PROVE  RowsNow \in Content
BY DEF RowsNow, Content, ServerTypeOK

\* Both ways to bring the file up to date end with the rows of PostgreSQL:
\* rows that the overlay lacks are those of the snapshot.
LEMMA UpdatedFile ==
    ASSUME ProjIInv, NEW p \in Processes, Rebuild(p) \/ Sync(p)
    PROVE  /\ UNCHANGED <<server, calls, formal, holder, pending>>
           /\ file' \in File /\ file'.rows = RowsNow
           /\ pc[p] \in {"rebuild", "sync"} /\ holder = p /\ pc' = [pc EXCEPT ![p] = "current"]
           /\ file'.overlay = told[p].overlay
           /\ file'.formal \in {told[p].formal, file.formal}
           /\ file # None \/ file'.formal = told[p].formal
<1> USE DEF ProjIInv
<1>1. told[p] \in Token /\ RowsNow \in Content /\ holder = p
  BY RowsNowTyped DEF ProjTypeOK, Rebuild, Sync, LockInv
<1>2. CASE Rebuild(p)
  BY <1>1, <1>2 DEF Rebuild, UpToDate, File, Token
<1>3. CASE Sync(p)
  <2> DEFINE rows == [r \in Rows |-> IF version[r] > BaseVersion(r) THEN RowsNow[r]
                                     ELSE file.rows[r]]
  <2>1. file # None /\ file \in File
    BY <1>3 DEF Sync, LockInv, ProjTypeOK
  <2>2. file' = [file EXCEPT !.overlay = told[p].overlay, !.rows = rows]
    BY <1>3 DEF Sync
  <2>3. \A r \in Rows : rows[r] = RowsNow[r]
    <3> SUFFICES ASSUME NEW r \in Rows, ~(version[r] > BaseVersion(r))
                 PROVE  file.rows[r] = RowsNow[r]
      OBVIOUS
    <3>1. file.rows[r].version = BaseVersion(r) /\ version[r] = BaseVersion(r)
      BY <2>1, FileFromBase, BaseNat
    <3>2. file.rows[r].value = BaseValue[r] /\ value[r] = BaseValue[r]
      BY <2>1, <3>1, NowIsHistory DEF FileIsHistory, ProjTypeOK
    <3>3. file.rows[r] \in [version : Nat, value : Values \cup {None}]
      BY <2>1 DEF File, Content
    <3>4. file.rows[r] = [version |-> file.rows[r].version, value |-> file.rows[r].value]
      BY <3>3
    <3> QED BY <3>1, <3>2, <3>4 DEF RowsNow
  <2>4. rows = RowsNow
    BY <2>3 DEF RowsNow
  <2> HIDE DEF rows
  <2>5. file' \in File /\ file'.rows = RowsNow /\ file'.overlay = told[p].overlay
        /\ file'.formal = file.formal
    BY <1>1, <2>1, <2>2, <2>4 DEF File, Token
  <2> QED BY <1>1, <1>3, <2>1, <2>5 DEF Sync, UpToDate
<1> QED BY <1>2, <1>3

\* The local commit of an answered batch: each of its rows goes from the revision
\* the batch names to the next, the others stay, and PostgreSQL has the batch.
LEMMA AcknowledgedFile ==
    ASSUME ProjIInv, NEW k \in calls, Acknowledge(k)
    PROVE  /\ k.client \in Clients /\ pending[k.client] # None
           /\ pc[k.client] = "open" /\ holder = k.client
           /\ file # None /\ file' \in File
           /\ file'.formal = file.formal /\ file'.overlay = file.overlay
           /\ k.batch \subseteq Mutation /\ k.batch # {} /\ Functional(k.batch)
           /\ \A m \in k.batch : /\ m.expected = file.rows[m.row].version
                                 /\ file'.rows[m.row].version = m.expected + 1
                                 /\ file'.rows[m.row].value = m.value
           /\ \A r \in Rows : (\A m \in k.batch : m.row # r) => file'.rows[r] = file.rows[r]
           /\ \E x \in results : x.key = k.key /\ x.batch = k.batch
<1> USE DEF ProjIInv
<1>1. k \in Call /\ k.phase = "ok" /\ k.client # None
  BY DEF ProjTypeOK, ServerTypeOK, CallInv, Acknowledge
<1>2. k.client \in Clients /\ k.batch \subseteq Mutation
  BY <1>1 DEF Call
<1>3. /\ pending[k.client] # None /\ pending[k.client].batch = k.batch
      /\ pc[k.client] = "open" /\ holder = k.client
      /\ \E x \in results : x.key = k.key /\ x.batch = k.batch
  BY <1>1, <1>2 DEF CallInv, LockInv
<1>4. file # None /\ file \in File
  BY <1>2, <1>3 DEF LockInv, ProjTypeOK, Processes
<1>5. /\ k.batch # {} /\ Functional(k.batch)
      /\ \A m \in k.batch : m.expected = file.rows[m.row].version
  BY <1>2, <1>3 DEF PendingInv
<1> DEFINE rows == [r \in Rows |->
         IF \E m \in k.batch : m.row = r
         THEN LET m == CHOOSE n \in k.batch : n.row = r IN
              [version |-> m.expected + 1, value |-> m.value]
         ELSE file.rows[r]]
<1>6. file' = [file EXCEPT !.rows = rows]
  BY DEF Acknowledge
<1>7. \A m \in k.batch : m.row \in Rows /\ m.expected \in Nat /\ m.value \in Values \cup {None}
  BY <1>2 DEF Mutation
<1>8. ASSUME NEW m \in k.batch
      PROVE  rows[m.row] = [version |-> m.expected + 1, value |-> m.value]
  <2>1. (CHOOSE n \in k.batch : n.row = m.row) = m
    BY <1>5 DEF Functional
  <2> QED BY <1>7, <2>1
<1>9. \A r \in Rows : (\A m \in k.batch : m.row # r) => rows[r] = file.rows[r]
  OBVIOUS
<1>10. rows \in Content
  <2>1. \A r \in Rows : rows[r] \in [version : Nat, value : Values \cup {None}]
    <3> SUFFICES ASSUME NEW r \in Rows
                 PROVE  rows[r] \in [version : Nat, value : Values \cup {None}]
      OBVIOUS
    <3>1. CASE \A m \in k.batch : m.row # r
      BY <1>4, <1>9, <3>1 DEF File, Content
    <3>2. ASSUME NEW m \in k.batch, m.row = r
          PROVE  rows[r] \in [version : Nat, value : Values \cup {None}]
      <4>1. rows[r] = [version |-> m.expected + 1, value |-> m.value]
        BY <1>8, <3>2
      <4>2. m.expected + 1 \in Nat /\ m.value \in Values \cup {None}
        BY <1>7
      <4> HIDE DEF rows
      <4> QED BY <4>1, <4>2
    <3> QED BY <3>1, <3>2
  <2>2. rows = [r \in Rows |-> rows[r]]
    OBVIOUS
  <2> HIDE DEF rows
  <2> QED BY <2>1, <2>2 DEF Content
<1> HIDE DEF rows
<1>11. /\ file' \in File /\ file'.rows = rows
       /\ file'.formal = file.formal /\ file'.overlay = file.overlay
  BY <1>4, <1>6, <1>10 DEF File
<1>12. \A m \in k.batch : rows[m.row].version = m.expected + 1 /\ rows[m.row].value = m.value
  <2> SUFFICES ASSUME NEW m \in k.batch
               PROVE  rows[m.row].version = m.expected + 1 /\ rows[m.row].value = m.value
    OBVIOUS
  <2>1. rows[m.row] = [version |-> m.expected + 1, value |-> m.value]
    BY <1>8
  <2> QED BY <2>1
<1> QED BY <1>2, <1>3, <1>4, <1>5, <1>9, <1>11, <1>12

\* The rows of the file never go back.
LEMMA FileRowsGrow ==
    ASSUME ProjIInv, [ProjNext]_pvars, file # None, NEW r \in Rows
    PROVE  /\ file' # None
           /\ file.rows[r].version <= file'.rows[r].version /\ file'.rows[r].version \in Nat
<1>1. file.rows[r].version \in Nat /\ version[r] \in Nat /\ file.rows[r].version <= version[r]
  BY FileFromBase
<1>2. CASE file' = file
  BY <1>1, <1>2
<1>3. ASSUME NEW p \in Processes, Rebuild(p) \/ Sync(p)
      PROVE  file' # None /\ file'.rows[r].version = version[r]
  <2>1. file' \in File /\ file'.rows = RowsNow
    BY <1>3, UpdatedFile
  <2>2. RowsNow[r].version = version[r]
    BY DEF RowsNow
  <2> QED BY <2>1, <2>2, NoRecordAssumption
<1>4. ASSUME NEW k \in calls, Acknowledge(k)
      PROVE  /\ file' # None
             /\ file.rows[r].version <= file'.rows[r].version /\ file'.rows[r].version \in Nat
  <2>1. file' # None
    BY <1>4, AcknowledgedFile, NoRecordAssumption
  <2>2. CASE \A m \in k.batch : m.row # r
    BY <1>1, <1>4, <2>1, <2>2, AcknowledgedFile
  <2>3. ASSUME NEW m \in k.batch, m.row = r
        PROVE  file.rows[r].version <= file'.rows[r].version /\ file'.rows[r].version \in Nat
    <3>1. file'.rows[r].version = file.rows[r].version + 1
      BY <1>4, <2>3, AcknowledgedFile
    <3> QED BY <1>1, <3>1
  <2> QED BY <2>1, <2>2, <2>3
<1> QED BY <1>1, <1>2, <1>3, <1>4, FileMoves

---------------------------------------------------------------------------
(* The file is true *)

LEMMA FileIsHistoryStep ==
    ASSUME ProjIInv, [ProjNext]_pvars
    PROVE  FileIsHistory'
<1> USE DEF ProjIInv
<1> DEFINE Had(row, r) ==
      /\ row.version <= version[r]
      /\ IF row.version = BaseVersion(r) THEN row.value = BaseValue[r]
         ELSE \E e \in ledger : e.row = r /\ e.to = row.version /\ e.value = row.value
<1>1. \A r \in Rows : version[r] \in Nat /\ version'[r] \in Nat /\ BaseVersion(r) \in Nat
  <2>1. version \in [Rows -> Nat]
    BY DEF ProjTypeOK, ServerTypeOK
  <2> QED BY <2>1, BaseNat, ServerStep DEF server, Apply
<1>2. CASE file' = file
  <2> SUFFICES ASSUME file # None, NEW r \in Rows
               PROVE  Had(file.rows[r], r)'
    BY <1>2 DEF FileIsHistory
  <2>1. Had(file.rows[r], r)
    BY DEF FileIsHistory
  <2>2. file.rows[r].version \in Nat
    BY FileFromBase
  <2>3. version[r] <= version'[r] /\ ledger \subseteq ledger'
    BY ServerGrows
  <2> QED BY <1>1, <1>2, <2>1, <2>2, <2>3 DEF BaseVersion
<1>3. ASSUME NEW p \in Processes, Rebuild(p) \/ Sync(p)
      PROVE  FileIsHistory'
  <2> SUFFICES ASSUME NEW r \in Rows PROVE Had(file.rows[r], r)'
    BY DEF FileIsHistory
  <2>1. file'.rows[r].version = version[r] /\ file'.rows[r].value = value[r]
    <3>1. file'.rows = RowsNow
      BY <1>3, UpdatedFile
    <3>2. RowsNow[r].version = version[r] /\ RowsNow[r].value = value[r]
      BY DEF RowsNow
    <3> QED BY <3>1, <3>2
  <2>2. UNCHANGED server
    BY <1>3, UpdatedFile
  <2>3. IF version[r] = BaseVersion(r) THEN value[r] = BaseValue[r]
        ELSE \E e \in ledger : e.row = r /\ e.to = version[r] /\ e.value = value[r]
    BY NowIsHistory DEF ProjTypeOK
  <2> QED BY <1>1, <2>1, <2>2, <2>3 DEF server, BaseVersion
<1>4. ASSUME NEW k \in calls, Acknowledge(k)
      PROVE  FileIsHistory'
  <2> SUFFICES ASSUME NEW r \in Rows PROVE Had(file.rows[r], r)'
    BY DEF FileIsHistory
  <2>1. UNCHANGED server
    BY <1>4 DEF Acknowledge
  <2>2. CASE \A m \in k.batch : m.row # r
    <3>1. file'.rows[r] = file.rows[r] /\ file # None
      BY <1>4, <2>2, AcknowledgedFile
    <3>2. Had(file.rows[r], r)
      BY <3>1 DEF FileIsHistory
    <3> QED BY <2>1, <3>1, <3>2 DEF server, BaseVersion
  <2>3. ASSUME NEW m \in k.batch, m.row = r
        PROVE  Had(file.rows[r], r)'
    <3> DEFINE e == [row |-> m.row, to |-> m.expected + 1, value |-> m.value, key |-> k.key]
    <3>1. file'.rows[r].version = m.expected + 1 /\ file'.rows[r].value = m.value
      BY <1>4, <2>3, AcknowledgedFile
    <3>2. PICK x \in results : x.key = k.key /\ x.batch = k.batch
      BY <1>4, AcknowledgedFile
    <3>3. e \in ledger
      BY <2>3, <3>2 DEF ServerInv, BatchIsAtomic
    <3>4. e.row = r /\ e.to = m.expected + 1 /\ e.value = m.value
      BY <2>3
    <3> HIDE DEF e
    <3>5. e.to \in (BaseVersion(r) + 1)..version[r]
      BY <3>3, <3>4 DEF ServerInv, EveryVersionHasOneAuthor
    <3>6. e.to <= version[r] /\ e.to # BaseVersion(r)
      BY <1>1, <3>5
    <3> QED BY <2>1, <3>1, <3>3, <3>4, <3>6 DEF server, BaseVersion
  <2> QED BY <2>2, <2>3
<1> QED BY <1>2, <1>3, <1>4, FileMoves

\* A stored batch is in the ledger, and the rows are past the revisions it names.
LEMMA StoredBatch ==
    ASSUME ServerTypeOK, ServerInv, NEW x \in results, NEW m \in x.batch
    PROVE  /\ m \in Mutation
           /\ [row |-> m.row, to |-> m.expected + 1, value |-> m.value, key |-> x.key] \in ledger
           /\ m.expected < version[m.row]
<1> DEFINE e == [row |-> m.row, to |-> m.expected + 1, value |-> m.value, key |-> x.key]
<1>1. m \in Mutation
  BY DEF ServerTypeOK, Result
<1>2. e \in ledger
  BY DEF ServerInv, BatchIsAtomic
<1>3. e.row = m.row /\ e.to = m.expected + 1
  OBVIOUS
<1> HIDE DEF e
<1>4. m.row \in Rows /\ m.expected \in Nat /\ version[m.row] \in Nat /\ BaseVersion(m.row) \in Nat
  BY <1>1, BaseNat DEF Mutation, ServerTypeOK
<1>5. e.to \in (BaseVersion(m.row) + 1)..version[m.row]
  BY <1>2, <1>3, <1>4 DEF ServerInv, EveryVersionHasOneAuthor
<1>6. m.expected < version[m.row]
  BY <1>3, <1>4, <1>5
<1> QED BY <1>1, <1>2, <1>6 DEF e

LEMMA FileIsHonestStep ==
    ASSUME ProjIInv, [ProjNext]_pvars, IsFiniteSet(ledger')
    PROVE  FileIsHonest'
<1> USE DEF ProjIInv
<1>1. formal \in Nat /\ formal' \in Nat /\ formal <= formal'
  BY FormalGrows
<1>2. /\ OverlayNow \in Nat /\ OverlayNow' \in Nat /\ OverlayNow <= OverlayNow'
      /\ OverlayNow = OverlayNow' => ledger' = ledger
  BY OverlayGrows
<1>3. ASSUME ledger' = ledger PROVE RowsNow' = RowsNow
  <2>1. CASE UNCHANGED server
    BY <2>1 DEF server, RowsNow
  <2>2. ASSUME NEW k \in calls, Apply(k) PROVE RowsNow' = RowsNow
    <3>1. ASSUME NEW m \in k.batch PROVE FALSE
      <4> DEFINE e == [row |-> m.row, to |-> m.expected + 1, value |-> m.value, key |-> k.key]
      <4>1. e \in ledger
        BY <1>3, <2>2 DEF Apply
      <4>2. m.row \in Rows /\ m.expected = version[m.row] /\ version[m.row] \in Nat
        BY <2>2 DEF Apply, Current, ProjTypeOK, ServerTypeOK, Call, Mutation
      <4>3. e.row = m.row /\ e.to = m.expected + 1
        OBVIOUS
      <4> HIDE DEF e
      <4>4. e.to \in (BaseVersion(m.row) + 1)..version[m.row]
        BY <4>1, <4>2, <4>3 DEF ServerInv, EveryVersionHasOneAuthor
      <4> QED BY <4>2, <4>3, <4>4, BaseNat
    <3>2. version' = version /\ value' = value
      BY <2>2, <3>1 DEF Apply, ProjTypeOK, ServerTypeOK
    <3> QED BY <3>2 DEF RowsNow
  <2> QED BY <2>1, <2>2, ServerStep
<1>4. CASE file' = file
  <2> SUFFICES ASSUME file # None, file.formal = formal', file.overlay = OverlayNow'
               PROVE  file.rows = RowsNow'
    BY <1>4 DEF FileIsHonest
  <2>1. file.formal <= formal /\ file.overlay <= OverlayNow /\ file \in File
    BY DEF TokenInv, ProjTypeOK
  <2>2. file.formal \in Nat /\ file.overlay \in Nat
    BY <2>1, ProjectionAssumption DEF File
  <2>3. file.formal = formal /\ file.overlay = OverlayNow /\ OverlayNow = OverlayNow'
    BY <1>1, <1>2, <2>1, <2>2
  <2> QED BY <1>2, <1>3, <2>3 DEF FileIsHonest
<1>5. ASSUME NEW p \in Processes, Rebuild(p) \/ Sync(p)
      PROVE  FileIsHonest'
  <2>1. file'.rows = RowsNow /\ UNCHANGED server
    BY <1>5, UpdatedFile
  <2> QED BY <1>3, <2>1 DEF server, FileIsHonest
<1>6. ASSUME NEW k \in calls, Acknowledge(k)
      PROVE  FileIsHonest'
  <2>1. /\ file # None /\ file'.formal = file.formal /\ file'.overlay = file.overlay
        /\ \E m \in k.batch : m.expected = file.rows[m.row].version
        /\ \E x \in results : x.batch = k.batch
    BY <1>6, AcknowledgedFile
  <2>2. formal' = formal /\ OverlayNow' = OverlayNow
    BY <1>6 DEF Acknowledge, server, OverlayNow
  <2>3. ~(file.formal = formal /\ file.overlay = OverlayNow)
    <3> SUFFICES ASSUME file.formal = formal, file.overlay = OverlayNow
                 PROVE  FALSE
      OBVIOUS
    <3>1. file.rows = RowsNow
      BY <2>1 DEF FileIsHonest
    <3>2. PICK m \in k.batch : m.expected = RowsNow[m.row].version
      BY <2>1, <3>1
    <3>3. m \in Mutation /\ m.expected < version[m.row]
      BY <2>1, StoredBatch DEF ProjTypeOK
    <3>4. m.row \in Rows /\ version[m.row] \in Nat /\ RowsNow[m.row].version = version[m.row]
      BY <3>3 DEF Mutation, RowsNow, ProjTypeOK, ServerTypeOK
    <3> QED BY <3>2, <3>3, <3>4
  <2> QED BY <2>1, <2>2, <2>3 DEF FileIsHonest
<1> QED BY <1>4, <1>5, <1>6, FileMoves

Shown(m) == file.rows[m.row].version > m.expected

Whole(x) == (\A m \in x.batch : Shown(m)) \/ (\A m \in x.batch : ~Shown(m))

LEMMA WholeForm == BatchShownWhole <=> (file # None => \A x \in results : Whole(x))
<1>1. ASSUME NEW x
      PROVE  {m \in x.batch : file.rows[m.row].version > m.expected} \in {{}, x.batch} <=> Whole(x)
  BY DEF Whole, Shown
<1> QED BY <1>1 DEF BatchShownWhole

LEMMA BatchShownWholeStep ==
    ASSUME ProjIInv, [ProjNext]_pvars
    PROVE  BatchShownWhole'
<1> USE DEF ProjIInv
<1>0. SUFFICES ASSUME file' # None, NEW x \in results' PROVE Whole(x)'
  <2>1. ASSUME NEW x, Whole(x)'
        PROVE  {m \in x.batch : file'.rows[m.row].version > m.expected} \in {{}, x.batch}
    BY <2>1 DEF Whole, Shown
  <2> QED BY <2>1 DEF BatchShownWhole
<1>1. file # None => \A y \in results : Whole(y)
  BY WholeForm
<1>2. CASE file' = file
  <2>1. CASE x \in results
    BY <1>0, <1>1, <1>2, <2>1 DEF Whole, Shown
  <2>2. ASSUME NEW k \in calls, Apply(k), x \notin results
        PROVE  Whole(x)'
    <3>1. x.batch = k.batch
      BY <2>2 DEF Apply
    <3>2. ASSUME NEW m \in k.batch PROVE ~(file.rows[m.row].version > m.expected)
      <4>1. m.row \in Rows /\ m.expected = version[m.row]
        BY <2>2 DEF Apply, Current, ProjTypeOK, ServerTypeOK, Call, Mutation
      <4> QED BY <1>0, <1>2, <4>1, FileFromBase
    <3> QED BY <1>2, <3>1, <3>2 DEF Whole, Shown
  <2> QED BY <2>1, <2>2, ServerStep DEF server
<1>3. ASSUME NEW p \in Processes, Rebuild(p) \/ Sync(p)
      PROVE  Whole(x)'
  <2>1. file'.rows = RowsNow /\ UNCHANGED server
    BY <1>3, UpdatedFile
  <2>2. ASSUME NEW m \in x.batch PROVE file'.rows[m.row].version > m.expected
    <3>1. m \in Mutation /\ m.expected < version[m.row]
      BY <2>1, <2>2, StoredBatch DEF server, ProjTypeOK
    <3>2. m.row \in Rows /\ version[m.row] \in Nat /\ m.expected \in Nat
      BY <3>1 DEF Mutation, ProjTypeOK, ServerTypeOK
    <3>3. RowsNow[m.row].version = version[m.row]
      BY <3>2 DEF RowsNow
    <3> QED BY <2>1, <3>1, <3>2, <3>3
  <2> QED BY <2>2 DEF Whole, Shown
<1>4. ASSUME NEW k \in calls, Acknowledge(k)
      PROVE  Whole(x)'
  <2>1. PICK y \in results : y.key = k.key /\ y.batch = k.batch
    BY <1>4, AcknowledgedFile
  <2>2. x \in results /\ file # None
    BY <1>4, AcknowledgedFile DEF Acknowledge, server
  <2>3. \A n \in k.batch : n \in Mutation
    BY <1>4, AcknowledgedFile
  <2>4. \A n \in k.batch : /\ n.row \in Rows /\ n.expected \in Nat
                           /\ n.expected = file.rows[n.row].version
                           /\ file'.rows[n.row].version = n.expected + 1
    BY <1>4, <2>3, AcknowledgedFile DEF Mutation
  <2>5. CASE x = y
    BY <2>1, <2>4, <2>5 DEF Whole, Shown
  <2>6. ASSUME x # y, NEW m \in x.batch PROVE Shown(m)' <=> Shown(m)
    <3>1. m \in Mutation /\ m.row \in Rows /\ m.expected \in Nat
      BY <2>2, StoredBatch DEF Mutation, ProjTypeOK
    <3>2. CASE \A n \in k.batch : n.row # m.row
      BY <1>4, <3>1, <3>2, AcknowledgedFile DEF Shown
    <3>3. ASSUME NEW n \in k.batch, n.row = m.row PROVE Shown(m)' <=> Shown(m)
      <4> DEFINE e == [row |-> m.row, to |-> m.expected + 1, value |-> m.value, key |-> x.key]
                 f == [row |-> n.row, to |-> n.expected + 1, value |-> n.value, key |-> y.key]
      <4>1. e \in ledger /\ f \in ledger
        BY <2>1, <2>2, StoredBatch DEF ProjTypeOK
      <4>2. /\ e.row = m.row /\ e.to = m.expected + 1 /\ e.key = x.key
            /\ f.row = n.row /\ f.to = n.expected + 1 /\ f.key = y.key
        OBVIOUS
      <4>3. x.key # y.key
        BY <2>2, <2>6 DEF ServerInv, BatchIsAtomic
      <4> HIDE DEF e, f
      <4>4. m.expected # n.expected
        BY <3>3, <4>1, <4>2, <4>3 DEF ServerInv, EveryVersionHasOneAuthor
      <4>5. file.rows[m.row].version = n.expected /\ file'.rows[m.row].version = n.expected + 1
            /\ n.expected \in Nat
        BY <2>4, <3>3
      <4> QED BY <3>1, <4>4, <4>5 DEF Shown
    <3> QED BY <3>2, <3>3
  <2>7. CASE x # y
    <3>1. Whole(x)
      BY <1>1, <2>2
    <3> QED BY <2>6, <2>7, <3>1 DEF Whole
  <2> QED BY <2>5, <2>7
<1> QED BY <1>2, <1>3, <1>4, FileMoves

---------------------------------------------------------------------------
(* Calls *)

\* What a writer sends: rows that differ, under the revisions of the file.
LEMMA CommitSends ==
    ASSUME ProjIInv, NEW c \in Clients, NEW a \in Assignments, Commit(c, a)
    PROVE  \E new \in Pending :
             /\ new # None /\ new.batch # {} /\ Functional(new.batch)
             /\ \A m \in new.batch : m.expected = file.rows[m.row].version
             /\ pending' = [pending EXCEPT ![c] = new]
             /\ index' \in [Clients -> 0..MaxIndex]
             /\ pending[c] = None
             /\ \E call \in Call :
                  /\ calls' = calls \cup {call}
                  /\ call.client = c /\ call.phase = "sent"
                  /\ call.key = new.key /\ call.batch = new.batch
<1> USE DEF ProjIInv
<1> DEFINE key == [id |-> identity[c], index |-> index[c] + 1]
           new == [key |-> key, batch |-> Mutations(a)]
           call == [key |-> key, batch |-> Mutations(a), tx |-> 0, client |-> c, phase |-> "sent"]
<1>1. pc[c] = "open" /\ file # None /\ file \in File
  BY DEF Commit, Open, LockInv, ProjTypeOK, Processes
<1>2. \A r \in DOMAIN a : r \in Rows /\ a[r] \in Values \cup {None}
  BY ProjectionAssumption
<1>3. Mutations(a) \subseteq Mutation
  BY <1>1, <1>2 DEF Mutations, Mutation, File, Content
<1>4. Functional(Mutations(a)) /\ \A m \in Mutations(a) : m.expected = file.rows[m.row].version
  BY DEF Mutations, Functional
<1>5. index[c] \in 0..MaxIndex /\ index[c] < MaxIndex /\ MaxIndex \in Nat
  BY MutationAssumption DEF Commit, ProjTypeOK
<1>6. index[c] + 1 \in 1..MaxIndex /\ index[c] + 1 \in 0..MaxIndex
  BY <1>5
<1>7. identity[c] \in Identities
  BY <1>1 DEF IdentityInv
<1>8. key \in Key
  BY <1>6, <1>7 DEF Key
<1>9. /\ calls' = calls \cup {call} /\ pending' = [pending EXCEPT ![c] = new]
      /\ index' = [index EXCEPT ![c] = index[c] + 1]
      /\ pending[c] = None /\ Mutations(a) # {}
  BY DEF Commit, Send
<1>10. index' \in [Clients -> 0..MaxIndex]
  BY <1>6, <1>9 DEF ProjTypeOK
<1> HIDE DEF key
<1>11. new \in Pending /\ call \in Call
  BY <1>3, <1>8 DEF Pending, Call
<1>12. new # None
  BY <1>11, NoRecordAssumption
<1>13. /\ call.client = c /\ call.phase = "sent" /\ call.key = new.key /\ call.batch = new.batch
       /\ new.batch = Mutations(a)
  OBVIOUS
<1> HIDE DEF new, call
<1> QED BY <1>4, <1>9, <1>10, <1>11, <1>12, <1>13

LEMMA RetrySends ==
    ASSUME ProjIInv, NEW c \in Clients, Retry(c)
    PROVE  /\ pending[c] \in Pending /\ pending[c] # None
           /\ \E call \in Call :
                /\ calls' = calls \cup {call}
                /\ call.client = c /\ call.phase = "sent"
                /\ call.key = pending[c].key /\ call.batch = pending[c].batch
<1> USE DEF ProjIInv
<1> DEFINE call == [key |-> pending[c].key, batch |-> pending[c].batch, tx |-> 0,
                    client |-> c, phase |-> "sent"]
<1>1. pending[c] \in Pending /\ pending[c] # None /\ calls' = calls \cup {call}
  BY DEF Retry, Send, ProjTypeOK
<1>2. call \in Call
  BY <1>1 DEF Pending, Call
<1>3. /\ call.client = c /\ call.phase = "sent"
      /\ call.key = pending[c].key /\ call.batch = pending[c].batch
  OBVIOUS
<1> HIDE DEF call
<1> QED BY <1>1, <1>2, <1>3

\* The call was there, or it is one that the server moved on, that a writer
\* sends, or that lost its writer.
FromServer(j) ==
    \E k \in calls : /\ ProjServe(k)
                     /\ j.key = k.key /\ j.batch = k.batch /\ j.client = k.client
                     /\ j.phase # "locking" => k.client # None
                     /\ j.phase = "ok" => \E x \in results' :
                          x.key = k.key /\ x.batch = k.batch

FromWriter(j) ==
    /\ j.client \in Clients /\ j.phase = "sent"
    /\ (\E a \in Assignments : Commit(j.client, a)) \/ Retry(j.client)
    /\ pending'[j.client] # None
    /\ j.key = pending'[j.client].key /\ j.batch = pending'[j.client].batch
    /\ Functional(j.batch)

Abandoned(j) ==
    /\ j.client = None /\ j.phase \in {"sent", "locking"}
    /\ \E k \in calls : j.key = k.key /\ j.batch = k.batch

LEMMA CallsMove ==
    ASSUME ProjIInv, [ProjNext]_pvars, NEW j \in calls', j \notin calls
    PROVE  j \in Call /\ (FromServer(j) \/ FromWriter(j) \/ Abandoned(j))
<1> USE DEF ProjIInv
<1>1. \A k \in calls : k \in Call
  BY DEF ProjTypeOK, ServerTypeOK
<1>2. ASSUME NEW k \in calls, ProjServe(k) PROVE j \in Call /\ FromServer(j)
  BY <1>2, ServeCalls DEF ProjServe, FromServer, ProjTypeOK
<1>3. ASSUME NEW c \in Clients, NEW a \in Assignments, Commit(c, a)
      PROVE  j \in Call /\ FromWriter(j)
  <2>1. PICK new \in Pending :
           /\ new # None /\ Functional(new.batch)
           /\ pending' = [pending EXCEPT ![c] = new]
           /\ \E call \in Call :
                /\ calls' = calls \cup {call}
                /\ call.client = c /\ call.phase = "sent"
                /\ call.key = new.key /\ call.batch = new.batch
    BY <1>3, CommitSends
  <2>2. pending'[c] = new
    BY <2>1 DEF ProjTypeOK
  <2>3. j \in Call /\ j.client = c /\ j.phase = "sent" /\ j.key = new.key /\ j.batch = new.batch
    BY <2>1
  <2> QED BY <1>3, <2>1, <2>2, <2>3 DEF FromWriter
<1>4. ASSUME NEW c \in Clients, Retry(c) PROVE j \in Call /\ FromWriter(j)
  <2>1. j \in Call /\ j.client = c /\ j.phase = "sent"
        /\ j.key = pending[c].key /\ j.batch = pending[c].batch /\ pending[c] # None
    BY <1>4, RetrySends
  <2>2. pending' = pending
    BY <1>4 DEF Retry, process
  <2>3. Functional(pending[c].batch)
    BY <2>1 DEF PendingInv
  <2> QED BY <1>4, <2>1, <2>2, <2>3 DEF FromWriter
<1>5. ASSUME NEW k \in calls, k.phase \in {"sent", "locking"}, j = [k EXCEPT !.client = None]
      PROVE  j \in Call /\ Abandoned(j)
  BY <1>1, <1>5 DEF Call, Abandoned
<1>6. ASSUME NEW p \in Processes, Crash(p) PROVE j \in Call /\ Abandoned(j)
  <2>1. \E k \in calls : k.phase \in {"sent", "locking"} /\ j = [k EXCEPT !.client = None]
    BY <1>6 DEF Crash
  <2> QED BY <1>5, <2>1
<1>7. ASSUME NEW k \in calls, Lose(k) PROVE j \in Call /\ Abandoned(j)
  <2>1. k.phase \in {"sent", "locking"} /\ j = [k EXCEPT !.client = None]
    BY <1>7 DEF Lose
  <2> QED BY <1>5, <2>1
<1>8. CASE calls' \subseteq calls
  BY <1>8
<1> QED
  BY <1>2, <1>3, <1>4, <1>6, <1>7, <1>8
  DEF ProjNext, Refresh, Acquire, ReadAuthority, Rebuild, RebuildFails, Sync, ReleaseLock,
      OpenFile, Close, OpenWriter, Acknowledge, Disappoint, Vanish, Republish, pvars

LEMMA OneCallStep ==
    ASSUME ProjIInv, [ProjNext]_pvars
    PROVE  \A j, k \in calls' : j.client # None /\ j.client = k.client => j = k
<1> USE DEF ProjIInv
<1> DEFINE OneCall == \A j, k \in calls : j.client # None /\ j.client = k.client => j = k
<1>1. OneCall /\ \A k \in calls : k \in Call
  BY DEF CallInv, ProjTypeOK, ServerTypeOK
<1>2. ASSUME NEW k \in calls, NEW n, calls' \subseteq (calls \ {k}) \cup {n},
             n.client \in {None, k.client}
      PROVE  OneCall'
  BY <1>1, <1>2
<1>3. ASSUME NEW c \in Clients, NEW call, calls' = calls \cup {call}, call.client = c,
             \A k \in calls : k.client # c
      PROVE  OneCall'
  BY <1>1, <1>3
<1>4. ASSUME NEW c \in Clients, NEW a \in Assignments, Commit(c, a) PROVE OneCall'
  <2>1. pending[c] = None /\ \E call : calls' = calls \cup {call} /\ call.client = c
    BY <1>4, CommitSends
  <2>2. \A k \in calls : k.client # c
    BY <2>1, MutationAssumption DEF CallInv
  <2> QED BY <1>3, <2>1, <2>2
<1>5. ASSUME NEW c \in Clients, Retry(c) PROVE OneCall'
  <2>1. \E call : calls' = calls \cup {call} /\ call.client = c
    BY <1>5, RetrySends
  <2>2. \A k \in calls : k.client # c
    BY <1>5 DEF Retry, Waiting
  <2> QED BY <1>3, <2>1, <2>2
<1>6. ASSUME NEW p \in Processes, Crash(p) PROVE OneCall'
  <2>1. \A j \in calls' : j \in calls \/ j.client = None
    BY <1>1, <1>6 DEF Crash, Call
  <2> QED BY <1>1, <2>1
<1>7. ASSUME NEW k \in calls, Serve(k) PROVE OneCall'
  <2>1. ASSUME NEW ph, calls' \subseteq (calls \ {k}) \cup {[k EXCEPT !.phase = ph]}
        PROVE  OneCall'
    <3>1. [k EXCEPT !.phase = ph].client = k.client
      BY <1>1 DEF Call
    <3> QED BY <1>2, <2>1, <3>1
  <2>2. ASSUME NEW ph, Answer(k, ph) PROVE OneCall'
    BY <2>1, <2>2 DEF Answer
  <2> QED BY <1>7, <2>1, <2>2 DEF Serve, Lookup, Apply, Refuse, Reject
<1>8. ASSUME NEW k \in calls, Lose(k) PROVE OneCall'
  <2>1. [k EXCEPT !.client = None].client = None
    BY <1>1 DEF Call
  <2>2. calls' \subseteq (calls \ {k}) \cup {[k EXCEPT !.client = None]}
    BY <1>8 DEF Lose
  <2> QED BY <1>2, <2>1, <2>2
<1>9. CASE calls' \subseteq calls
  BY <1>1, <1>9
<1> QED
  BY <1>4, <1>5, <1>6, <1>7, <1>8, <1>9
  DEF ProjNext, Refresh, Acquire, ReadAuthority, Rebuild, RebuildFails, Sync, ReleaseLock,
      OpenFile, Close, OpenWriter, ProjServe, Acknowledge, Disappoint, Vanish, Republish, pvars

\* While a writer waits for its call the batch stays pending.
LEMMA PendingKept ==
    ASSUME ProjIInv, [ProjNext]_pvars, NEW k \in calls, k \in calls', k.client # None
    PROVE  pending'[k.client] = pending[k.client]
<1> USE DEF ProjIInv
<1> DEFINE c == k.client
<1>1. c \in Clients /\ pending[c] # None /\ pc[c] = "open" /\ c \in Processes
  BY DEF ProjTypeOK, ServerTypeOK, Call, CallInv, LockInv, Processes
<1> HIDE DEF c
<1>2. ASSUME NEW d \in Clients, NEW a \in Assignments, Commit(d, a)
      PROVE  pending'[c] = pending[c]
  <2>1. d # c /\ \E new : pending' = [pending EXCEPT ![d] = new]
    BY <1>1, <1>2, CommitSends
  <2> QED BY <1>1, <2>1 DEF ProjTypeOK
<1>3. ASSUME NEW j \in calls, Acknowledge(j) PROVE pending'[c] = pending[c]
  <2>1. j # k /\ j.client \in Clients
    BY <1>3, AcknowledgedFile DEF Acknowledge
  <2>2. j.client # c
    BY <2>1 DEF CallInv, c
  <2> QED BY <1>1, <1>3, <2>2 DEF Acknowledge, ProjTypeOK
<1>4. ASSUME NEW p \in Processes, Leave(p), p # c PROVE pending'[c] = pending[c]
  BY <1>1, <1>4 DEF Leave
<1>5. ASSUME NEW p \in Processes, RebuildFails(p) PROVE pending'[c] = pending[c]
  BY <1>1, <1>4, <1>5 DEF RebuildFails
<1>6. ASSUME NEW p \in Processes, Close(p) PROVE pending'[c] = pending[c]
  <2>1. p # c
    BY <1>6 DEF Close, Waiting, c
  <2> QED BY <1>4, <1>6, <2>1 DEF Close
<1>7. ASSUME NEW p \in Processes, Crash(p) PROVE pending'[c] = pending[c]
  <2>1. \A j \in calls : j.client = p => j \in Call
    BY DEF ProjTypeOK, ServerTypeOK
  <2>2. p # c
    <3> SUFFICES ASSUME p = c PROVE FALSE
      OBVIOUS
    <3>1. \E j \in calls : j \in Call /\ k = [j EXCEPT !.client = None]
      BY <1>7, <2>1 DEF Crash, c
    <3> QED BY <3>1 DEF Call
  <2> QED BY <1>4, <1>7, <2>2 DEF Crash
<1>8. CASE pending' = pending
  BY <1>8
<1> QED
  BY <1>2, <1>3, <1>5, <1>6, <1>7, <1>8
  DEF c, ProjNext, Refresh, Acquire, ReadAuthority, Rebuild, Sync, ReleaseLock,
      OpenFile, OpenWriter, Retry, ProjServe, Disappoint, Lose, Vanish, Republish, pvars, process

LEMMA CallInvStep ==
    ASSUME ProjIInv, [ProjNext]_pvars
    PROVE  CallInv'
<1> USE DEF ProjIInv
<1>1. ASSUME NEW j \in calls'
      PROVE  /\ j.phase \notin {"sent", "locking"} => j.client # None
             /\ j.phase = "ok" => \E x \in results' : x.key = j.key /\ x.batch = j.batch
             /\ j.client # None => /\ pending'[j.client] # None
                                   /\ pending'[j.client].key = j.key
                                   /\ pending'[j.client].batch = j.batch
  <2>1. CASE j \in calls
    BY <2>1, PendingKept, ServerGrows DEF CallInv
  <2>2. CASE j \notin calls /\ FromServer(j)
    <3>1. PICK k \in calls : /\ ProjServe(k)
                             /\ j.key = k.key /\ j.batch = k.batch /\ j.client = k.client
                             /\ j.phase # "locking" => k.client # None
                             /\ j.phase = "ok" => \E x \in results' :
                                  x.key = k.key /\ x.batch = k.batch
      BY <2>2 DEF FromServer
    <3>2. pending' = pending
      BY <3>1 DEF ProjServe, process
    <3> QED BY <3>1, <3>2 DEF CallInv
  <2>3. CASE FromWriter(j)
    BY <2>3 DEF FromWriter
  <2>4. CASE Abandoned(j)
    BY <2>4 DEF Abandoned
  <2> QED BY <2>1, <2>2, <2>3, <2>4, CallsMove
<1> QED BY <1>1, OneCallStep DEF CallInv

LEMMA ServerInvStep ==
    ASSUME ProjIInv, [ProjNext]_pvars
    PROVE  ServerInv'
<1> USE DEF ProjIInv
<1>1. \A k \in calls : k.batch \subseteq Mutation /\ Functional(k.batch)
  BY DEF ProjTypeOK, ServerTypeOK, Call, ServerInv
<1>2. ASSUME NEW j \in calls' PROVE Functional(j.batch)
  <2>1. CASE j \in calls
    BY <1>1, <2>1
  <2>2. CASE FromServer(j) \/ Abandoned(j)
    BY <1>1, <2>2 DEF FromServer, Abandoned
  <2>3. CASE FromWriter(j)
    BY <2>3 DEF FromWriter
  <2> QED BY <2>1, <2>2, <2>3, CallsMove
<1>3. CASE UNCHANGED server
  BY <1>2, <1>3 DEF server, ServerInv, BatchIsAtomic, EveryVersionHasOneAuthor, BaseVersion
<1>4. ASSUME NEW k \in calls, Apply(k) PROVE ServerInv'
  <2>1. EveryVersionHasOneAuthor' /\ \A r \in Rows : BaseVersion(r) <= version'[r]
    BY <1>4, ApplyHistory DEF ProjTypeOK
  <2>2. BatchIsAtomic'
    BY <1>4, ApplyAtomic DEF ServerInv
  <2>3. ledger' = ledger \cup Entries(k.key, k.batch)
    BY <1>4 DEF Apply, Entries
  <2>4. IsFiniteSet(Entries(k.key, k.batch))
    BY <1>1, BatchFinite, EntriesFinite
  <2>5. IsFiniteSet(ledger')
    BY <2>3, <2>4, FS_Union DEF ServerInv
  <2> QED BY <1>2, <2>1, <2>2, <2>5 DEF ServerInv, BaseVersion
<1> QED BY <1>3, <1>4, ServerStep

---------------------------------------------------------------------------
(* The lock, the pending batches and the tokens *)

LEMMA FileStays ==
    ASSUME ProjIInv, [ProjNext]_pvars, file # None
    PROVE  file' # None
<1>1. ASSUME NEW p \in Processes, Rebuild(p) \/ Sync(p) PROVE file' # None
  BY <1>1, UpdatedFile, NoRecordAssumption
<1>2. ASSUME NEW k \in calls, Acknowledge(k) PROVE file' # None
  BY <1>2, AcknowledgedFile, NoRecordAssumption
<1> QED BY <1>1, <1>2, FileMoves

\* One process moves, and takes or gives up nothing but its own lock.
OnlyMoves(p) ==
    /\ \A q \in Processes \ {p} : pc'[q] = pc[q] /\ (holder = q => holder' = q)
    /\ \A c \in Clients \ {p} : pending'[c] = pending[c]

LEMMA LockFollows ==
    ASSUME ProjIInv, file # None => file' # None, NEW p \in Processes, OnlyMoves(p),
           pc'[p] \in {"locked", "rebuild", "sync", "current"} => holder' = p,
           pc'[p] \in {"sync", "current", "opening", "open"} => file' # None,
           p \in Clients => /\ pc'[p] # "opening"
                            /\ pc'[p] = "open" => holder' = p
                            /\ pending'[p] # None => pc'[p] = "open"
    PROVE  LockInv'
BY DEF ProjIInv, LockInv, OnlyMoves, Processes

LEMMA LeaveMoves ==
    ASSUME ProjIInv, NEW p \in Processes, Leave(p)
    PROVE  /\ OnlyMoves(p) /\ pc'[p] = "out"
           /\ p \in Clients => pending'[p] = None
BY DEF ProjIInv, ProjTypeOK, Leave, OnlyMoves

LEMMA LockInvStep ==
    ASSUME ProjIInv, [ProjNext]_pvars
    PROVE  LockInv'
<1> USE DEF ProjIInv
<1>1. file # None => file' # None
  BY FileStays
<1>2. pc \in [Processes -> {"out", "locked", "rebuild", "sync", "current", "opening", "open"}]
      /\ pending \in [Clients -> Pending \cup {None}]
  BY DEF ProjTypeOK
<1>3. ASSUME NEW p \in Processes, Leave(p) PROVE LockInv'
  BY <1>1, <1>3, LeaveMoves, LockFollows
<1>4. ASSUME NEW p \in Processes, Acquire(p) PROVE LockInv'
  <2>1. /\ holder = None /\ holder' = p /\ pc' = [pc EXCEPT ![p] = "locked"]
        /\ pending' = pending /\ pc[p] = "out"
    BY <1>4 DEF Acquire
  <2>2. OnlyMoves(p) /\ pc'[p] = "locked"
    BY <1>2, <2>1, ProjectionAssumption DEF OnlyMoves
  <2>3. p \in Clients => pending'[p] = None
    BY <2>1 DEF LockInv
  <2> QED BY <1>1, <2>1, <2>2, <2>3, LockFollows
<1>5. ASSUME NEW p \in Processes, ReadAuthority(p) PROVE LockInv'
  <2>1. /\ pc[p] = "locked" /\ holder = p /\ UNCHANGED <<file, holder, pending>>
    BY <1>5 DEF ReadAuthority, LockInv
  <2>2. \E next \in {"rebuild", "sync", "current"} :
          pc' = [pc EXCEPT ![p] = next] /\ (next # "rebuild" => file # None)
    BY <1>5 DEF ReadAuthority, Go
  <2>3. OnlyMoves(p) /\ pc'[p] \in {"rebuild", "sync", "current"}
        /\ (pc'[p] # "rebuild" => file # None)
    BY <1>2, <2>1, <2>2 DEF OnlyMoves
  <2>4. p \in Clients => pending'[p] = None
    BY <2>1 DEF LockInv
  <2> QED BY <1>1, <2>1, <2>3, <2>4, LockFollows
<1>6. ASSUME NEW p \in Processes, Rebuild(p) \/ Sync(p) PROVE LockInv'
  <2>1. /\ pc[p] \in {"rebuild", "sync"} /\ holder = p /\ UNCHANGED <<holder, pending>>
        /\ pc' = [pc EXCEPT ![p] = "current"] /\ file' \in File
    BY <1>6, UpdatedFile
  <2>2. OnlyMoves(p) /\ pc'[p] = "current" /\ file' # None
    BY <1>2, <2>1, NoRecordAssumption DEF OnlyMoves
  <2>3. p \in Clients => pending'[p] = None
    BY <2>1 DEF LockInv
  <2> QED BY <1>1, <2>1, <2>2, <2>3, LockFollows
<1>7. ASSUME NEW p \in Processes, ReleaseLock(p) PROVE LockInv'
  <2>1. /\ p \in Readers /\ pc[p] = "current" /\ holder = p /\ file # None
        /\ holder' = None /\ pc' = [pc EXCEPT ![p] = "opening"] /\ pending' = pending
    BY <1>7 DEF ReleaseLock, LockInv
  <2>2. OnlyMoves(p) /\ pc'[p] = "opening" /\ p \notin Clients
    BY <1>2, <2>1, ProjectionAssumption DEF OnlyMoves
  <2> QED BY <1>1, <2>1, <2>2, LockFollows
<1>8. ASSUME NEW p \in Processes, OpenFile(p) PROVE LockInv'
  <2>1. /\ pc[p] = "opening" /\ p \notin Clients /\ file # None
        /\ pc' = [pc EXCEPT ![p] = "open"] /\ UNCHANGED <<holder, pending>>
    BY <1>8 DEF OpenFile, LockInv
  <2>2. OnlyMoves(p) /\ pc'[p] = "open"
    BY <1>2, <2>1 DEF OnlyMoves
  <2> QED BY <1>1, <2>1, <2>2, LockFollows
<1>9. ASSUME NEW c \in Clients, NEW id \in Identities, OpenWriter(c, id) PROVE LockInv'
  <2>1. /\ c \in Processes /\ pc[c] = "current" /\ holder = c /\ file # None
        /\ pc' = [pc EXCEPT ![c] = "open"] /\ UNCHANGED <<holder, pending>>
    BY <1>9 DEF OpenWriter, LockInv, Processes
  <2>2. OnlyMoves(c) /\ pc'[c] = "open"
    BY <1>2, <2>1 DEF OnlyMoves
  <2> QED BY <1>1, <2>1, <2>2, LockFollows
<1>10. ASSUME NEW c \in Clients, NEW a \in Assignments, Commit(c, a) PROVE LockInv'
  <2>1. /\ c \in Processes /\ pc[c] = "open" /\ holder = c /\ file # None
        /\ UNCHANGED <<holder, pc>>
    BY <1>10 DEF Commit, Open, LockInv, Processes
  <2>2. \E new : pending' = [pending EXCEPT ![c] = new]
    BY <1>10, CommitSends
  <2>3. OnlyMoves(c)
    BY <1>2, <2>1, <2>2 DEF OnlyMoves
  <2> QED BY <1>1, <2>1, <2>3, LockFollows
<1>11. ASSUME NEW k \in calls, Acknowledge(k) PROVE LockInv'
  <2> DEFINE c == k.client
  <2>1. /\ c \in Clients /\ c \in Processes /\ pc[c] = "open" /\ holder = c /\ file # None
    BY <1>11, AcknowledgedFile DEF Processes
  <2>2. UNCHANGED <<holder, pc>> /\ pending' = [pending EXCEPT ![c] = None]
    BY <1>11 DEF Acknowledge
  <2>3. OnlyMoves(c)
    BY <1>2, <2>2 DEF OnlyMoves
  <2> HIDE DEF c
  <2> QED BY <1>1, <2>1, <2>2, <2>3, LockFollows
<1>12. CASE UNCHANGED <<holder, pc, pending>>
  BY <1>1, <1>12 DEF LockInv
<1> QED
  BY <1>3, <1>4, <1>5, <1>6, <1>7, <1>8, <1>9, <1>10, <1>11, <1>12
  DEF ProjNext, Refresh, RebuildFails, Close, Crash, Retry, ProjServe, Disappoint, Lose,
      Vanish, Republish, pvars, process

\* While a writer has the lock nobody else changes the file.
LEMMA PendingInvStep ==
    ASSUME ProjIInv, [ProjNext]_pvars
    PROVE  PendingInv'
<1> USE DEF ProjIInv
<1> DEFINE Fits(c) == /\ pending[c].batch # {} /\ Functional(pending[c].batch)
                      /\ \A m \in pending[c].batch : m.expected = file.rows[m.row].version
<1>1. ASSUME NEW c \in Clients, pending[c] # None, pending'[c] = pending[c], file' = file
      PROVE  Fits(c)'
  BY <1>1 DEF PendingInv
<1>2. ASSUME NEW c \in Clients, pending[c] # None PROVE pc[c] = "open" /\ holder = c
  BY <1>2 DEF LockInv
<1>3. CASE file' = file /\ \A c \in Clients : pending'[c] \in {None, pending[c]}
  BY <1>1, <1>3 DEF PendingInv
<1>4. ASSUME NEW p \in Processes, Rebuild(p) \/ Sync(p) PROVE PendingInv'
  <2>1. pending' = pending /\ holder = p /\ pc[p] \in {"rebuild", "sync"}
    BY <1>4, UpdatedFile
  <2>2. \A c \in Clients : pending[c] = None
    BY <1>2, <2>1
  <2> QED BY <2>1, <2>2 DEF PendingInv
<1>5. ASSUME NEW k \in calls, Acknowledge(k) PROVE PendingInv'
  <2>1. k.client \in Clients /\ holder = k.client
    BY <1>5, AcknowledgedFile
  <2>2. pending' = [pending EXCEPT ![k.client] = None]
    BY <1>5 DEF Acknowledge
  <2>3. \A c \in Clients : pending'[c] = None
    BY <1>2, <2>1, <2>2 DEF ProjTypeOK
  <2> QED BY <2>3 DEF PendingInv
<1>6. ASSUME NEW c \in Clients, NEW a \in Assignments, Commit(c, a) PROVE PendingInv'
  <2>1. PICK new \in Pending :
          /\ new.batch # {} /\ Functional(new.batch)
          /\ \A m \in new.batch : m.expected = file.rows[m.row].version
          /\ pending' = [pending EXCEPT ![c] = new]
    BY <1>6, CommitSends
  <2>2. file' = file
    BY <1>6 DEF Commit
  <2>3. \A d \in Clients \ {c} : pending'[d] = pending[d]
    BY <2>1 DEF ProjTypeOK
  <2>4. pending'[c] = new
    BY <2>1 DEF ProjTypeOK
  <2>5. Fits(c)'
    BY <2>1, <2>2, <2>4
  <2> QED BY <1>1, <2>2, <2>3, <2>5 DEF PendingInv
<1>7. ASSUME NEW p \in Processes, Leave(p) PROVE \A c \in Clients : pending'[c] \in {None, pending[c]}
  BY <1>7 DEF Leave
<1> QED
  BY <1>3, <1>4, <1>5, <1>6, <1>7
  DEF ProjNext, Refresh, Acquire, ReadAuthority, RebuildFails, ReleaseLock, OpenFile, Close,
      Crash, OpenWriter, Retry, ProjServe, Disappoint, Lose, Vanish, Republish, pvars, process

LEMMA IdentityInvStep ==
    ASSUME ProjIInv, [ProjNext]_pvars
    PROVE  IdentityInv'
<1> USE DEF ProjIInv
<1>1. ASSUME NEW p \in Processes, NEW next \in {"locked", "rebuild", "sync", "current", "opening"},
             pc' = [pc EXCEPT ![p] = next], identity' = identity
      PROVE  IdentityInv'
  BY <1>1 DEF IdentityInv, ProjTypeOK, Processes
<1>2. ASSUME NEW p \in Processes, OpenFile(p) PROVE IdentityInv'
  <2>1. p \notin Clients
    BY <1>2 DEF OpenFile, LockInv
  <2> QED BY <1>2, <2>1 DEF OpenFile, IdentityInv, ProjTypeOK, Processes
<1>3. ASSUME NEW c \in Clients, NEW id \in Identities, OpenWriter(c, id) PROVE IdentityInv'
  BY <1>3 DEF OpenWriter, IdentityInv, ProjTypeOK, Processes
<1>4. ASSUME NEW p \in Processes, Leave(p) PROVE IdentityInv'
  BY <1>4 DEF Leave, IdentityInv, ProjTypeOK, Processes
<1>5. CASE UNCHANGED <<pc, identity>>
  BY <1>5 DEF IdentityInv
<1>6. ASSUME NEW p \in Processes, ReadAuthority(p) PROVE IdentityInv'
  <2>1. \E next \in {"rebuild", "sync", "current"} : pc' = [pc EXCEPT ![p] = next]
    BY <1>6 DEF ReadAuthority, Go
  <2> QED BY <1>1, <1>6, <2>1 DEF ReadAuthority
<1>7. ASSUME NEW p \in Processes, Acquire(p) \/ Rebuild(p) \/ Sync(p) \/ ReleaseLock(p)
      PROVE  IdentityInv'
  BY <1>1, <1>7 DEF Acquire, Rebuild, Sync, ReleaseLock, UpToDate
<1> QED
  BY <1>2, <1>3, <1>4, <1>5, <1>6, <1>7
  DEF ProjNext, Refresh, RebuildFails, Close, Crash, Commit, Retry, ProjServe, Acknowledge,
      Disappoint, Lose, Vanish, Republish, pvars, process

LEMMA TokenInvStep ==
    ASSUME ProjIInv, [ProjNext]_pvars, IsFiniteSet(ledger')
    PROVE  TokenInv'
<1> USE DEF ProjIInv
<1>1. /\ formal \in Nat /\ formal' \in Nat /\ formal <= formal'
      /\ OverlayNow \in Nat /\ OverlayNow' \in Nat /\ OverlayNow <= OverlayNow'
  BY FormalGrows, OverlayGrows
<1>2. \A p \in Processes : told[p].formal \in Nat /\ told[p].overlay \in Nat
  BY ProjectionAssumption DEF ProjTypeOK, Token
<1>3. ASSUME NEW p \in Processes,
             \/ told'[p] = told[p] \/ told'[p] = NoToken
             \/ told'[p] = [formal |-> formal, overlay |-> OverlayNow]
      PROVE  told'[p].formal <= formal' /\ told'[p].overlay <= OverlayNow'
  <2>1. CASE told'[p] = told[p]
    BY <1>1, <1>2, <2>1 DEF TokenInv
  <2>2. CASE told'[p] = NoToken
    BY <1>1, <2>2 DEF NoToken
  <2>3. CASE told'[p] = [formal |-> formal, overlay |-> OverlayNow]
    BY <1>1, <2>3
  <2> QED BY <1>3, <2>1, <2>2, <2>3
<1>4. \A p \in Processes : \/ told'[p] = told[p] \/ told'[p] = NoToken
                           \/ told'[p] = [formal |-> formal, overlay |-> OverlayNow]
  <2>1. ASSUME NEW p \in Processes, NEW token \in {NoToken, [formal |-> formal, overlay |-> OverlayNow]},
               told' = [told EXCEPT ![p] = token], NEW q \in Processes
        PROVE  \/ told'[q] = told[q] \/ told'[q] = NoToken
               \/ told'[q] = [formal |-> formal, overlay |-> OverlayNow]
    BY <2>1 DEF ProjTypeOK
  <2>2. ASSUME NEW p \in Processes,
               ReadAuthority(p) \/ Rebuild(p) \/ Sync(p) \/ RebuildFails(p) \/ Close(p) \/ Crash(p)
        PROVE  \E token \in {NoToken, [formal |-> formal, overlay |-> OverlayNow]} :
                 told' = [told EXCEPT ![p] = token]
    BY <2>2 DEF ReadAuthority, Go, Rebuild, Sync, UpToDate, RebuildFails, Close, Crash, Leave
  <2>3. CASE told' = told
    BY <2>3
  <2> QED
    BY <2>1, <2>2, <2>3
    DEF ProjNext, Refresh, Acquire, ReleaseLock, OpenFile, OpenWriter, Commit, Retry, ProjServe,
        Acknowledge, Disappoint, Lose, Vanish, Republish, pvars, process
<1>5. file' # None => file'.formal <= formal' /\ file'.overlay <= OverlayNow'
  <2>1. CASE file' = file
    <3>1. file # None => file.formal \in Nat /\ file.overlay \in Nat
      BY ProjectionAssumption DEF ProjTypeOK, File
    <3> QED BY <1>1, <2>1, <3>1 DEF TokenInv
  <2>2. ASSUME NEW p \in Processes, Rebuild(p) \/ Sync(p)
        PROVE  file'.formal <= formal' /\ file'.overlay <= OverlayNow'
    <3>1. /\ file'.overlay = told[p].overlay
          /\ file'.formal = told[p].formal \/ (file # None /\ file'.formal = file.formal)
      BY <2>2, UpdatedFile
    <3>2. file # None => file.formal <= formal /\ file.formal \in Nat
      BY ProjectionAssumption DEF ProjTypeOK, File, TokenInv
    <3>3. told[p].formal <= formal /\ told[p].overlay <= OverlayNow
      BY DEF TokenInv
    <3> QED BY <1>1, <1>2, <3>1, <3>2, <3>3
  <2>3. ASSUME NEW k \in calls, Acknowledge(k)
        PROVE  file'.formal <= formal' /\ file'.overlay <= OverlayNow'
    <3>1. /\ file # None /\ file \in File
          /\ file'.formal = file.formal /\ file'.overlay = file.overlay
      BY <2>3, AcknowledgedFile DEF ProjTypeOK
    <3>2. file.formal \in Nat /\ file.overlay \in Nat
      BY <3>1, ProjectionAssumption DEF File
    <3> QED BY <1>1, <3>1, <3>2 DEF TokenInv
  <2> QED BY <2>1, <2>2, <2>3, FileMoves
<1> QED BY <1>3, <1>4, <1>5 DEF TokenInv

\* A reader that has been told of a revision finds it in the file for good.
LEMMA FloorInvStep ==
    ASSUME ProjIInv, [ProjNext]_pvars
    PROVE  FloorInv'
<1> USE DEF ProjIInv
<1> DEFINE Past == {"current", "opening", "open"}
<1>0. version \in [Rows -> Nat] /\ version' \in [Rows -> Nat]
      /\ floor \in [Readers -> [Rows -> Nat]]
      /\ pc \in [Processes -> {"out", "locked", "rebuild", "sync", "current", "opening", "open"}]
  <2>1. version \in [Rows -> Nat]
    BY DEF ProjTypeOK, ServerTypeOK
  <2> QED BY <2>1, ServerStep DEF server, Apply, ProjTypeOK
<1>1. \A r \in Rows : version[r] <= version'[r]
  BY ServerGrows
<1>2. ASSUME NEW p \in Readers, NEW r \in Rows, floor'[p] = floor[p],
             pc'[p] \in Past => pc[p] \in Past
      PROVE  /\ floor'[p][r] <= version'[r]
             /\ pc'[p] \in Past => floor'[p][r] <= file'.rows[r].version
  <2>1. floor[p][r] \in Nat /\ version[r] \in Nat /\ version'[r] \in Nat
    BY <1>0
  <2>2. floor'[p][r] <= version'[r]
    BY <1>1, <1>2, <2>1 DEF FloorInv
  <2>3. CASE pc[p] \in Past
    <3>1. file # None /\ p \in Processes
      BY <2>3 DEF LockInv, Processes
    <3>2. /\ file.rows[r].version <= file'.rows[r].version
          /\ file.rows[r].version \in Nat /\ file'.rows[r].version \in Nat
      BY <3>1, FileRowsGrow, FileFromBase
    <3>3. floor[p][r] <= file.rows[r].version
      BY <2>3 DEF FloorInv
    <3> QED BY <1>2, <2>1, <2>2, <3>2, <3>3
  <2> QED BY <1>2, <2>2, <2>3
<1>3. ASSUME NEW p \in Readers, NEW r \in Rows, floor'[p] = NoFloor, pc'[p] \notin Past
      PROVE  /\ floor'[p][r] <= version'[r]
             /\ pc'[p] \in Past => floor'[p][r] <= file'.rows[r].version
  BY <1>0, <1>3 DEF NoFloor
<1>4. ASSUME NEW p \in Processes, Leave(p) PROVE FloorInv'
  <2> SUFFICES ASSUME NEW q \in Readers, NEW r \in Rows
               PROVE  /\ floor'[q][r] <= version'[r]
                      /\ pc'[q] \in Past => floor'[q][r] <= file'.rows[r].version
    BY DEF FloorInv
  <2>1. CASE q = p
    <3>1. floor'[q] = NoFloor /\ pc'[q] \notin Past
      BY <1>0, <1>4, <2>1 DEF Leave
    <3> QED BY <1>3, <3>1
  <2>2. CASE q # p
    <3>1. floor'[q] = floor[q] /\ pc'[q] = pc[q]
      BY <1>0, <1>4, <2>2 DEF Leave, Processes
    <3> QED BY <1>2, <3>1
  <2> QED BY <2>1, <2>2
<1>5. ASSUME NEW p \in Processes, ReadAuthority(p) PROVE FloorInv'
  <2> SUFFICES ASSUME NEW q \in Readers, NEW r \in Rows
               PROVE  /\ floor'[q][r] <= version'[r]
                      /\ pc'[q] \in Past => floor'[q][r] <= file'.rows[r].version
    BY DEF FloorInv
  <2>1. UNCHANGED <<file, version>>
    BY <1>5 DEF ReadAuthority, server
  <2>2. CASE q # p
    <3>1. floor'[q] = floor[q] /\ pc'[q] = pc[q]
      BY <1>0, <1>5, <2>2 DEF ReadAuthority, Go, Processes
    <3> QED BY <1>2, <3>1
  <2>3. CASE q = p
    <3>1. floor'[q] = version
      BY <1>5, <2>3 DEF ReadAuthority
    <3>2. ASSUME pc'[q] \in Past PROVE file # None /\ file.formal = formal /\ file.overlay = OverlayNow
      BY <1>0, <1>5, <2>3, <3>2 DEF ReadAuthority, Go
    <3>3. ASSUME pc'[q] \in Past PROVE file.rows[r].version = version[r]
      <4>1. file.rows = RowsNow
        BY <3>2, <3>3 DEF FileIsHonest
      <4> QED BY <4>1 DEF RowsNow
    <3> QED BY <1>0, <2>1, <3>1, <3>3
  <2> QED BY <2>2, <2>3
<1>6. ASSUME NEW p \in Processes, Rebuild(p) \/ Sync(p) PROVE FloorInv'
  <2> SUFFICES ASSUME NEW q \in Readers, NEW r \in Rows
               PROVE  /\ floor'[q][r] <= version'[r]
                      /\ pc'[q] \in Past => floor'[q][r] <= file'.rows[r].version
    BY DEF FloorInv
  <2>1. file'.rows = RowsNow /\ version' = version /\ floor' = floor
    <3>1. file'.rows = RowsNow /\ UNCHANGED server
      BY <1>6, UpdatedFile
    <3> QED BY <1>6, <3>1 DEF Rebuild, Sync, server
  <2>2. RowsNow[r].version = version[r]
    BY DEF RowsNow
  <2> QED BY <2>1, <2>2 DEF FloorInv
<1>7. ASSUME floor' = floor, \A q \in Readers : pc'[q] \in Past => pc[q] \in Past
      PROVE  FloorInv'
  BY <1>2, <1>7 DEF FloorInv
<1>8. ASSUME NEW p \in Processes, Acquire(p) \/ ReleaseLock(p) \/ OpenFile(p)
      PROVE  floor' = floor /\ \A q \in Readers : pc'[q] \in Past => pc[q] \in Past
  BY <1>0, <1>8 DEF Acquire, ReleaseLock, OpenFile, Processes
<1>9. ASSUME NEW c \in Clients, NEW id \in Identities, OpenWriter(c, id)
      PROVE  floor' = floor /\ \A q \in Readers : pc'[q] \in Past => pc[q] \in Past
  BY <1>0, <1>9 DEF OpenWriter, Processes
<1> QED
  BY <1>4, <1>5, <1>6, <1>7, <1>8, <1>9
  DEF ProjNext, Refresh, RebuildFails, Close, Crash, Commit, Retry, ProjServe, Acknowledge,
      Disappoint, Lose, Vanish, Republish, pvars, process

---------------------------------------------------------------------------
(* Types *)

LEMMA ServerTyped ==
    ASSUME ProjIInv, [ProjNext]_pvars
    PROVE  ServerTypeOK'
<1> USE DEF ProjIInv
<1>1. calls' \subseteq Call
  BY CallsMove DEF ProjTypeOK, ServerTypeOK
<1>2. CASE UNCHANGED server
  BY <1>1, <1>2 DEF ProjTypeOK, ServerTypeOK, server
<1>3. ASSUME NEW k \in calls, Apply(k) PROVE ServerTypeOK'
  BY <1>1, <1>3, ApplyTyped DEF ProjTypeOK
<1> QED BY <1>2, <1>3, ServerStep

LocalTypeOK ==
    /\ holder \in Processes \cup {None}
    /\ pc \in [Processes -> {"out", "locked", "rebuild", "sync", "current", "opening", "open"}]
    /\ told \in [Processes -> Token]
    /\ identity \in [Clients -> Identities \cup {None}]
    /\ index \in [Clients -> 0..MaxIndex]
    /\ pending \in [Clients -> Pending \cup {None}]
    /\ floor \in [Readers -> [Rows -> Nat]]

LEMMA LocalTyped ==
    ASSUME ProjIInv, [ProjNext]_pvars
    PROVE  LocalTypeOK'
<1> USE DEF ProjIInv
<1>1. LocalTypeOK /\ version \in [Rows -> Nat]
  BY DEF LocalTypeOK, ProjTypeOK, ServerTypeOK
<1>2. NoToken \in Token /\ [formal |-> formal, overlay |-> OverlayNow] \in Token
  BY ProjectionAssumption, FS_CardinalityType
  DEF NoToken, Token, OverlayNow, ServerInv, ProjTypeOK
<1>3. NoFloor \in [Rows -> Nat] /\ 0 \in 0..MaxIndex
  BY MutationAssumption DEF NoFloor
<1>4. ASSUME NEW p \in Processes, Leave(p) PROVE LocalTypeOK'
  BY <1>1, <1>2, <1>3, <1>4 DEF Leave, LocalTypeOK
<1>5. ASSUME NEW p \in Processes,
             Acquire(p) \/ Rebuild(p) \/ Sync(p) \/ ReleaseLock(p) \/ OpenFile(p)
      PROVE  LocalTypeOK'
  BY <1>1, <1>2, <1>5 DEF Acquire, Rebuild, Sync, UpToDate, ReleaseLock, OpenFile, LocalTypeOK
<1>6. ASSUME NEW p \in Processes, ReadAuthority(p) PROVE LocalTypeOK'
  <2>1. UNCHANGED <<holder, identity, index, pending>>
        /\ floor' = [q \in Readers |-> IF q = p THEN version ELSE floor[q]]
    BY <1>6 DEF ReadAuthority
  <2>2. \E next \in {"rebuild", "sync", "current"} :
          \E token \in {NoToken, [formal |-> formal, overlay |-> OverlayNow]} :
            pc' = [pc EXCEPT ![p] = next] /\ told' = [told EXCEPT ![p] = token]
    BY <1>6 DEF ReadAuthority, Go
  <2>3. pc' \in [Processes -> {"out", "locked", "rebuild", "sync", "current", "opening", "open"}]
        /\ told' \in [Processes -> Token]
    BY <1>1, <1>2, <2>2 DEF LocalTypeOK
  <2> QED BY <1>1, <2>1, <2>3 DEF LocalTypeOK
<1>7. ASSUME NEW c \in Clients, NEW id \in Identities, OpenWriter(c, id) PROVE LocalTypeOK'
  BY <1>1, <1>7 DEF OpenWriter, LocalTypeOK
<1>8. ASSUME NEW c \in Clients, NEW a \in Assignments, Commit(c, a) PROVE LocalTypeOK'
  <2>1. index' \in [Clients -> 0..MaxIndex]
        /\ \E new \in Pending : pending' = [pending EXCEPT ![c] = new]
    BY <1>8, CommitSends
  <2> QED BY <1>1, <1>8, <2>1 DEF Commit, LocalTypeOK
<1>9. ASSUME NEW k \in calls, Acknowledge(k) PROVE LocalTypeOK'
  BY <1>1, <1>9 DEF Acknowledge, LocalTypeOK
<1>10. CASE UNCHANGED <<holder, process>>
  BY <1>1, <1>10 DEF LocalTypeOK, process
<1> QED
  BY <1>4, <1>5, <1>6, <1>7, <1>8, <1>9, <1>10
  DEF ProjNext, Refresh, RebuildFails, Close, Crash, Retry, ProjServe, Disappoint, Lose,
      Vanish, Republish, pvars

LEMMA ProjTypeStep ==
    ASSUME ProjIInv, [ProjNext]_pvars
    PROVE  ProjTypeOK'
<1> USE DEF ProjIInv
<1>1. ServerTypeOK' /\ LocalTypeOK'
  BY ServerTyped, LocalTyped
<1>2. file' \in File \cup {None}
  <2>1. ASSUME NEW p \in Processes, Rebuild(p) \/ Sync(p) PROVE file' \in File
    BY <2>1, UpdatedFile
  <2>2. ASSUME NEW k \in calls, Acknowledge(k) PROVE file' \in File
    BY <2>2, AcknowledgedFile
  <2> QED BY <2>1, <2>2, FileMoves DEF ProjTypeOK
<1>3. formal' \in 0..MaxFormal /\ crashes' \in 0..MaxCrashes /\ losses' \in 0..MaxLosses
  <2>1. formal' = formal \/ (formal < MaxFormal /\ formal' = formal + 1)
    BY DEF ProjNext, Refresh, Acquire, ReadAuthority, Rebuild, RebuildFails, Sync,
        ReleaseLock, OpenFile, Close, Crash, OpenWriter, Commit, Retry, ProjServe,
        Acknowledge, Disappoint, Lose, Vanish, Republish, pvars
  <2>2. crashes' = crashes \/ (crashes < MaxCrashes /\ crashes' = crashes + 1)
    BY DEF ProjNext, Refresh, Acquire, ReadAuthority, Rebuild, RebuildFails, Sync,
        ReleaseLock, OpenFile, Close, Crash, OpenWriter, Commit, Retry, ProjServe,
        Acknowledge, Disappoint, Lose, Vanish, Republish, pvars
  <2>3. losses' = losses \/ (losses < MaxLosses /\ losses' = losses + 1)
    BY DEF ProjNext, Refresh, Acquire, ReadAuthority, Rebuild, RebuildFails, Sync,
        ReleaseLock, OpenFile, Close, Crash, OpenWriter, Commit, Retry, ProjServe,
        Acknowledge, Disappoint, Lose, Vanish, Republish, pvars
  <2>4. /\ formal \in 0..MaxFormal /\ crashes \in 0..MaxCrashes /\ losses \in 0..MaxLosses
        /\ MaxFormal \in Nat /\ MaxCrashes \in Nat /\ MaxLosses \in Nat
    BY ProjectionAssumption DEF ProjTypeOK
  <2>5. formal' \in 0..MaxFormal
    BY <2>1, <2>4
  <2>6. crashes' \in 0..MaxCrashes
    BY <2>2, <2>4
  <2>7. losses' \in 0..MaxLosses
    BY <2>3, <2>4
  <2> QED BY <2>5, <2>6, <2>7
<1> QED BY <1>1, <1>2, <1>3 DEF ProjTypeOK, LocalTypeOK

---------------------------------------------------------------------------
(* The theorems *)

LEMMA ProjInitially == ProjInit => ProjIInv
<1> SUFFICES ASSUME ProjInit PROVE ProjIInv
  OBVIOUS
<1>1. /\ version = [r \in Rows |-> BaseVersion(r)] /\ value = BaseValue
      /\ results = {} /\ ledger = {} /\ calls = {}
  BY DEF ProjInit, ServerInit
<1>0. ASSUME NEW r \in Rows
      PROVE  /\ version[r] = BaseVersion(r) /\ version[r] \in Nat /\ BaseVersion(r) \in Nat
             /\ BaseVersion(r) <= version[r] /\ 0 <= version[r]
             /\ (BaseVersion(r) + 1)..version[r] = {}
  <2>1. version[r] = BaseVersion(r)
    BY <1>1
  <2>2. BaseVersion(r) \in Nat
    BY BaseNat
  <2> HIDE DEF BaseVersion
  <2> DEFINE n == BaseVersion(r)
  <2>3. n \in Nat /\ n <= n /\ 0 <= n /\ (n + 1)..n = {}
    <3> HIDE DEF n
    <3>1. n \in Nat
      BY <2>2 DEF n
    <3> QED BY <3>1
  <2> QED BY <2>1, <2>3
<1>2. ServerTypeOK
  BY <1>1, BaseNat, MutationAssumption DEF ServerTypeOK
<1>3. LocalTypeOK
  BY MutationAssumption, ProjectionAssumption
  DEF ProjInit, LocalTypeOK, NoToken, NoFloor, Token
<1>4. formal \in 0..MaxFormal /\ file = None /\ crashes \in 0..MaxCrashes /\ losses \in 0..MaxLosses
  BY ProjectionAssumption DEF ProjInit
<1>5. ProjTypeOK
  BY <1>2, <1>3, <1>4 DEF ProjTypeOK, LocalTypeOK
<1>6. ServerInv
  <2>1. BatchIsAtomic
    BY <1>1 DEF BatchIsAtomic
  <2>2. EveryVersionHasOneAuthor
    <3>1. \A r \in Rows : (BaseVersion(r) + 1)..version[r] = {}
      BY <1>0
    <3>2. \A r \in Rows : value[r] = BaseValue[r]
      BY <1>1
    <3> QED BY <1>1, <3>1, <3>2 DEF EveryVersionHasOneAuthor
  <2>3. \A r \in Rows : BaseVersion(r) <= version[r]
    BY <1>0
  <2>4. IsFiniteSet(ledger)
    BY <1>1, FS_EmptySet
  <2> QED BY <1>1, <2>1, <2>2, <2>3, <2>4 DEF ServerInv
<1>7. CallInv /\ FileIsHonest /\ FileIsHistory /\ BatchShownWhole
  BY <1>1, <1>4 DEF CallInv, FileIsHonest, FileIsHistory, BatchShownWhole
<1>8. LockInv /\ IdentityInv /\ PendingInv
  BY DEF ProjInit, LockInv, IdentityInv, PendingInv, Processes
<1>9. TokenInv
  <2>1. OverlayNow = 0
    BY <1>1, FS_EmptySet DEF OverlayNow
  <2> QED BY <1>4, <2>1 DEF ProjInit, TokenInv, NoToken
<1>10. FloorInv
  <2>1. \A p \in Readers : pc[p] = "out" /\ floor[p] = NoFloor
    BY DEF ProjInit, Processes
  <2>2. \A r \in Rows : NoFloor[r] = 0 /\ 0 <= version[r]
    BY <1>0 DEF NoFloor
  <2> QED BY <2>1, <2>2 DEF FloorInv
<1> QED BY <1>5, <1>6, <1>7, <1>8, <1>9, <1>10 DEF ProjIInv

LEMMA ProjectionInvariant == ProjSpec => []ProjIInv
<1>1. ProjIInv /\ [ProjNext]_pvars => ProjIInv'
  <2> SUFFICES ASSUME ProjIInv, [ProjNext]_pvars PROVE ProjIInv'
    OBVIOUS
  <2>1. ServerInv' /\ IsFiniteSet(ledger')
    BY ServerInvStep DEF ServerInv
  <2>2. ProjTypeOK' /\ CallInv' /\ LockInv' /\ IdentityInv' /\ PendingInv'
    BY ProjTypeStep, CallInvStep, LockInvStep, IdentityInvStep, PendingInvStep
  <2>3. TokenInv' /\ FloorInv'
    BY <2>1, TokenInvStep, FloorInvStep
  <2>4. FileIsHonest' /\ FileIsHistory' /\ BatchShownWhole'
    BY <2>1, FileIsHonestStep, FileIsHistoryStep, BatchShownWholeStep
  <2> QED BY <2>1, <2>2, <2>3, <2>4 DEF ProjIInv
<1> QED BY <1>1, ProjInitially, PTL DEF ProjSpec

\* The types, and: the file shows only rows that PostgreSQL has or had, under
\* their own revisions.
THEOREM ShowsHistory == ProjSpec => []ProjInv
<1>1. ProjIInv => ProjInv
  BY DEF ProjIInv, ProjInv
<1> QED BY <1>1, ProjectionInvariant, PTL

\* A file under the current tokens holds the current rows, though its rows are
\* read after the tokens, and a local commit changes rows and not the token.
THEOREM HonestFile == ProjSpec => []FileIsHonest
<1>1. ProjIInv => FileIsHonest
  BY DEF ProjIInv
<1> QED BY <1>1, ProjectionInvariant, PTL

\* A reader sees at least what PostgreSQL held when it looked, though it opens
\* the file after it has given up the lock.
THEOREM FreshReader == ProjSpec => []ReaderIsFresh
<1>1. ProjIInv => ReaderIsFresh
  <2> SUFFICES ASSUME ProjIInv, NEW p \in Readers, pc[p] \in {"opening", "open"}, NEW r \in Rows
               PROVE  file.rows[r].version >= floor[p][r]
    BY DEF ReaderIsFresh
  <2>1. file # None
    BY DEF ProjIInv, LockInv, Processes
  <2>2. file.rows[r].version \in Nat /\ floor[p][r] \in Nat
    BY <2>1, FileFromBase DEF ProjIInv, ProjTypeOK
  <2>3. floor[p][r] <= file.rows[r].version
    BY DEF ProjIInv, FloorInv
  <2> QED BY <2>2, <2>3
<1> QED BY <1>1, ProjectionInvariant, PTL

\* A stored batch is in the file whole or not at all.
THEOREM WholeBatch == ProjSpec => []BatchShownWhole
<1>1. ProjIInv => BatchShownWhole
  BY DEF ProjIInv
<1> QED BY <1>1, ProjectionInvariant, PTL
===========================================================================
