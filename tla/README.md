# Verification of the Honghu data authority

This directory holds TLA+ models of the part of the Honghu research system that
moves its business data from SQLite files to PostgreSQL and writes it there, and of
the recurring jobs that fetch and crawl into it; the TLC configurations that check
them; and theorems about them checked by TLAPS.

Honghu is an industry-research system: crawlers and fetchers feed SQLite files, a
research pipeline produces run packs, a Flask viewer serves them. Most of its
lines are sequential data transformation. Its own hard logic is the *data
platform*: eight-odd "cutover units" (notes, shared identity, financial data,
research publication, dynamic intelligence, operations governance, ...) each owned
by one backend at a time, moved from SQLite to PostgreSQL by an operator through
the states S0, S1 (SQLite), S2 (fence), S3, S4 (PostgreSQL), with several
processes, transactions whose answer may be lost, and files beside the database.

## 1. Inventory

| Component | Source | State it keeps | Operations | What is hard |
|---|---|---|---|---|
| Cutover authority control plane | `migrations/postgresql/0002`, `0006`, `0010` | authority row of a unit, ledger, verification writes, formal snapshot | transition, verification write, promotion, activation | unlocked dependency check, stale reads before a compare-and-set, promotion atomic with the first mutation |
| Domain data plane | `0010` | overlay rows with revisions, idempotency results, row ledger | `apply_mutation_batch_v1`, `mutate_record_v1`, `read_unit_records_v1` | look-up before the lock, partial failure of a batch, replay |
| Compatibility connection | `tools/data_platform/domain_data.py` | private SQLite copy, revisions, transaction number, pending batch | open, commit, retry, rollback, close | lost answers, crash between transactions, stale beliefs, inherited identities |
| Unit cutover controller | `tools/migration/stage4_remaining_unit_cutover.py`, `local_authority_fence.py` | intent file, fence file, evidence | build or load intent, cutover, rerun | three stores without a common transaction, orphaned transactions, two operators |
| In-memory read caches | `domain_data.py` 99-283, `shared_identity.py` 375-540, `financial_data.py` 67-205 | shared in-memory copy, its uri and fingerprint | refresh, connect, attach, close | fingerprint and rows read apart, use of the uri after the lock is released, a name built twice |
| Sentiment projection | `sentiment_projection.py`, `0011` | projection file, meta, interprocess lock | rebuild, sync, connect, commit | readers that open the file after unlock, crash between PostgreSQL and file, Windows file replacement |
| Fetch scheduler | `tools/dynamic/scheduler.py` | `fetch_schedule` rows: lock, error count, next run | tick, try_lock, stale reset, back-off, pause | overlapping ticks, rows read long before they are used, two stores |
| Analyst notes and their cutover | `user_content_notes.py`, `0001`, `0002`, `stage4_user_content_cutover.py`, `Invoke-UserContent*.ps1` | notes, revisions, results; snapshot, evidence and route files; two Windows services | put, soft delete; snapshot, fence, S2, route, start, S3, catch blocks | a script that is cut off, transitions that commit after their caller gave up, Viewers of an earlier attempt, repeated requests |
| Retail windows | `tools/sentiment/retail_window*.py`, `senti_fetch_xinghan.py`, `sentiment_retention.py` | tick lock, window ledger, sources, page checkpoints, raw rows, facts | tick, recover, crawl, map, reconcile, seal, purge | a killed parent with a living child, two crawlers on one checkpoint |
| Routing | `routing.py`, `postgres_runtime.py` | none (route files) | load, route | stale route files |
| Shared identity | `shared_identity.py`, `0005`-`0007` | legacy records, aliases | create researcher, ensure company | identity allocation under an advisory lock |
| Operation runner | `run_domain_operation.py` | unit lock, evidence file | run | lock on Windows only |
| Release manager | `tools/release/manager.py` | releases, pointer file, ledger | build, activate, roll back | crash between pointer and ledger |
| Research workflow core | `tools/research_core` | run directory | create, record, persist | two files |

Everything else, the fetchers, the AI funnel, the viewer, the opportunity-lens and
pipeline run packs, maintenance audits, S1 loaders and recovery tooling, is listed
in `PROJECT.json` with the reason it is left out.

How they interact: a *controller* (operator) moves the authority row through
stored functions; it writes the local fence file that legacy SQLite writers look
at when they connect. Once a unit is in S3, legacy code opens a *compatibility
connection*, runs its SQLite statements against a private copy, and its `commit`
calls the *domain data plane*, which checks the authority row. *Read caches* and
the *projection* copy the formal data for readers. The *scheduler* and the *retail
ticks* run as several processes on such connections. The notes unit is the first that
moved: its own script drives the same authority row, and its Viewer writes through a
repository instead of a compatibility connection.

What makes each of the modelled components correct:

* control plane: the ledger is the history of the row; a unit is published in the
  same transaction as its first formal mutation; publication is final; no unit is
  fenced before what it depends on is published;
* data plane: a batch is all or nothing and stands under one key; every version of
  a row has one author; no update is lost;
* connection: a transaction takes effect at most once, a transaction the caller
  went past is stored, the doubt of a commit that can be stored ends, beliefs are stale at worst;
* read caches: a copy taken for current is current; a thread never goes back in time;
  a load does not fail on the cache's own name; who connects finds the tables;
* controller: the local fence is closed before PostgreSQL owns the unit; evidence
  is true; no process joins those that can still write to SQLite; rerunning after any
  crash ends in S3, unless two operators' intents displaced each other;
* projection: the file is what its tokens say, shows no row PostgreSQL never had and
  no half of a batch, and never stays behind;
* scheduler: a target is fetched under its lock, its failures are counted once, and
  whatever is due is fetched or paused in the end;
* notes: no update is lost, past S2 the script finds SQLite without a writer and with the rows of
  the watermark, a Viewer writes only under the attempt it was started for, a repeated request
  is answered;
* retail windows: a complete window is complete and stays so, pages have no gap, a
  sealed window keeps its status and counts, no window stays "running".

## 2. Modules

| Module | Models | Composes |
|---|---|---|
| `CutoverAuthority` | the authority row, its functions, operator sessions | refines `AuthorityPromise` |
| `AuthorityPromise` | what readers and writers of a unit are promised: the sequence of owners | |
| `MCCutoverAuthority` | instances | |
| `CutoverAuthorityProofs` | theorems about `CutoverAuthority` | |
| `DomainMutation` | the two server functions, overlay, results, ledger | |
| `CompatConnection` | clients, lost answers, crashes, reruns | extends `DomainMutation`, refines `OperationPromise` |
| `OperationPromise` | what a program that commits through connections is promised: its transactions, one by one | |
| `MCCompatConnection` | rows, programs and identities of the instances | |
| `CompatConnectionProofs` | theorems about `CompatConnection` and its server, its refinement included | |
| `ReadCache` | the three in-memory caches, their threads, the life of a named database | |
| `MCReadCache` | symmetry | |
| `ReadCacheProofs` | theorems about `ReadCache` | |
| `UnitCutover` | the controller with its files, legacy SQLite writers | refines `AuthorityPromise` |
| `MCUnitCutover` | the instance | |
| `UnitCutoverProofs` | theorems about `UnitCutover`, its refinement included | |
| `FetchScheduler`, `MCFetchScheduler` | ticks over `fetch_schedule`, on SQLite and on compatibility connections | |
| `FetchSchedulerProofs` | theorems about `FetchScheduler` | |
| `SentimentProjection`, `MCSentimentProjection` | the projection file, its readers and writers | extends `DomainMutation` |
| `SentimentProjectionProofs` | theorems about `SentimentProjection` and its server | |
| `NotesCutover`, `MCNotesCutover` | the first cutover: script, services, route, clients of the Viewer | |
| `NotesCutoverProofs` | theorems about `NotesCutover` | |
| `RetailWindows`, `MCRetailWindows` | ticks, their children, checkpoints and retention of one market window | |
| `RetailWindowsProofs` | theorems about `RetailWindows` | |

Each module declares its constants with a named `ASSUME`, one action per operation
or statement at which processes interleave, and its properties in a last section.
Operators introduced with "Faulty variant" are plausible bugs next to the definition they
would break; no specification uses them. For each property of a passing run the project
names one of them that TLC finds to violate it (`mutants` in `PROJECT.json`). A property
that checks the types also checks a safety invariant that needs little room of its own
(`UCInv`, `SchedInv`, `ProjInv`, `NotesInv`, `RetailInv`).

### CutoverAuthority

`state`, `writer`, `epoch`, `watermark`, `formal`, `approval`, `revision` are the
columns of `operations.cutover_unit_authority`, one function of the units each
(`state = "ABSENT"`: no row). `audit`, `verification`, `results` and `snapshot` are
the ledger, the verification writes, the idempotency results and the units with a
formal snapshot. A stored function is one action, because it holds the row
`FOR UPDATE` from its first look at it. What a session learned before, in another
transaction or in an unlocked statement, is a record in `inflight`: the row an
operator read (`ReadAuthority`, `ReadFence`) and the dependency check at the head of
`transition_remaining_unit` (`CheckDependencies`), which locks nothing. Any number of
other actions come between. `Abandon` is a refusal, a failed statement or a session that died.

### DomainMutation and CompatConnection

`version` and `value` are what `read_unit_records_v1` returns: revision 1 for a row of
the snapshot without overlay, 0 for no row at all. A call looks its key up
(`Lookup`), then waits for the authority row and does the rest (`Apply`, `Refuse`,
`Reject`); other calls run in between. The request hash is modelled as the batch
itself. A client runs the transactions of an operation's program:
`Commit` computes the differences with `before`, takes the next key and keeps
the batch in `pending`; `Acknowledge` is the answer, `Disappoint` a refusal, `Lose` a
broken connection whose call goes on without a caller, `Crash` the end of a process
(or a `close`), after which `Open` runs the operation again from its first
transaction. `tx` is a history variable that names the transaction of the program a
batch came from; nothing reads it but a property.

### ReadCache

A behaviour is about one cache, `design`. `authority` and `commits` are PostgreSQL: the state of the
unit and the number of mutations its rows have seen. `keeper` is the version the
cache holds, `built` the set of named databases alive with their tables; a name is its
version, because fingerprint and row digest are part of the uri. A thread takes the
lock (`Enter`), returns the present name (`Reuse`), or reads the fingerprint
(`ReadAuthority`), the rows (`ReadRows`) and makes the copy (`Build`), with mutations
in between. The domain and identity caches return the name and open it later
(`Open`); the financial one opens it in the same step. When the last connection to a
name goes (`Finish`, `Build`, `Close`), the database goes.

The differences of the three are conjuncts with `design`: what the fingerprint
covers, the row count of the identity cache, the comparison of the financial cache,
which never succeeds, and its missing `close`. `SharedIdentityReadCache` has `attach`
only (`connect_shared_identity_database`, line 590, calls a `connect` it does not
have); `attach` opens the name as late as `connect`.

### UnitCutover

`intent` and `fence` are the two files, each replaced atomically; `pc` follows
`cutover`. A transaction is sent (`SendTransition`, `SendActivation`) and executed by
the database (`ExecuteTransition`, `ExecuteActivation`) in separate steps; when its
process crashes in between it stays behind and may execute at any later time, or
never. `Reverse` is another session's S2 -> S1. `CheckFence`, `Connect`, `SqliteCommit` and
`Close` are legacy processes, which look at the fence in one step and open the file in another;
`sqlite` counts the commits into the SQLite file.

### FetchScheduler

`sched` is the table. A tick reads all rows (`Begin`) and takes them one after the other:
`ResetStale` frees a lock that looked stale when it was read, `Lock` takes it, and the
child process runs (`Fetching`) until `Finish` writes one of the three outcomes; `Skip` and
`End` are the rest. `Crash` leaves the lock behind. `backend` is chosen at the start. On
SQLite every write hits the live row; on PostgreSQL it goes into the tick's private copy,
and the commit is a compare-and-set of the row's revision under the key of the tick's
operation id and commit number: `Refusable` is a commit that finds another revision,
`Replay` one that finds its own key and words already used by a tick of the same window.
The revisions are abstracted to `behind` (commits of others this copy lacks) and `ahead`
(commits of others under keys it will use). Time is counted in tick periods and stands
still outside fetches. `overlap` is a history variable: the targets whose lock a living
fetch has lost or shares.

### SentimentProjection

`file` holds the two tokens of `__honghu_projection_meta` and the rows with their
revisions; `holder` is the interprocess lock. `Acquire`, `ReadAuthority`, `Rebuild` or
`RebuildFails` or `Sync`, `ReleaseLock` and `OpenFile` are the steps of a reader, which opens
the file without the lock; a writer keeps the lock (`OpenWriter`) until `Close`. `Commit` computes
the mutations, `ProjServe` is the server of `DomainMutation`, `Acknowledge` commits the file after the
answer, `Disappoint` rolls it back, `Lose` keeps the batch pending for `Retry`. `RebuildFails` is
`os.replace` while somebody has the file open, as on Windows. `Republish` stands
for every change of the formal half of the token. `floor` is a history variable.

### NotesCutover

`step` follows the script of `Invoke-UserContentCutoverPrepare.ps1` and
`Invoke-UserContentProductionCutover.ps1` with the Python tools they call: `Prepare`, `Fence`
and `Cutover` have one action per tool call or service operation. `Fail` makes a step fail, so
that `Catch` runs the catch block; `Kill` cuts the script off; `Reboot` starts the services
that start by themselves; `OrphanEnds` commits or drops a transition whose caller gave up.
`ByHand` is what an operator may do next to it. A request is sent, checked against the route the
Viewer loaded (`AssertAuthority`) and executed (`Execute`) in separate steps; `GiveUp` is a
client that does not wait. `ledger` entries carry the epoch of the row and of the writing
Viewer's route.

`service` says, for a whole behaviour, whether the legacy Viewer is a Windows service that starts
with the host, or a process. With a service the procedure that should disable or restore it throws
in both modes (finding 3): `DisableLegacy` fails, `Catch` changes nothing, and the script never
gets to its own `StartViewer`; operators do the rest by hand.

### RetailWindows

One market window. `lock` and `pc` are the ticks; `kid` holds the child of each tick and the
orphans, where `Crash` may move it. `src`, `seg` and `cp` are the rows of the three audit tables,
`fresh` whether one of the paging tables was written in the last ten minutes, and `stored`,
`mapped`, `weight`, `facts` the data. `weight` is what the post adds to the facts, its heat under its
label, and `None` before it has a label. It is one of a few model values, because all that matters is
that it may differ from what the facts were made of: a crawl of a post already stored renews its heat
(`CrawlGuba`), and a scorer labels by id the posts it chose at its start (`ChooseRows`, `Score`),
also when another scorer has labelled them since. A tick acquires the lock, waits while it sees a fresh
orphan, recovers (`Recover`) and goes through the sources: `StartSource`, the child's own
steps, `MapRows`, `Reap`, and `Reconcile` at the end. A xinghan child looks a request up (`Look`), opens its
checkpoint (`OpenCheckpoint`) and commits page after page (`CommitPage`) from the offset it
keeps in memory. `Retain` is one transaction of the 21:00 job. Ticks run without `--force`, as
Task Scheduler starts them; the retries of a page inside the supplier's client are one step.

## 3. Runs

| Run | Instance | Shows |
|---|---|---|
| `cutover_solo` | 1 unit, 2 sessions, revisions to 6 | `LedgerIsHistory`, `EvidenceIsOfItsAttempt` (what is published is the fence in force), `AuthorityIsDurable` through all loops S0..S4 |
| `cutover_chain` | a unit, one that depends on it, the notes unit (no snapshot); 2 sessions, revisions to 5 | `DependencyClosed`, `FormalCommitIsAtomic` (also of the promotion by the first note), refinement of `AuthorityPromise` |
| `compat_faults` | 2 clients, 2 operations of two transactions (one over two rows with a deletion, one that stores a new row), 1 crash, 1 loss, fairness | `HistoryIsWhole` (batches are atomic, every version has one author), `BeliefIsHistory`, `TransactionsTakeEffectOnce` (a passed transaction is stored, none is applied twice), refinement of `OperationPromise`, `DoubtEnds` |
| `compat_rerun` | crash between two transactions | finding 1 |
| `unit_race` | 2 operators, 2 epochs, 1 legacy writer, 1 crash, 1 reversal, fairness | `UCInv` (fence before authority), `EvidenceIsTrue`, `LegacyWritersDrain`, refinement of `AuthorityPromise`, `CutoverCompletes` |
| `cache_threads` | 3 threads, each of the three caches, 2 mutations, 1 close | `CacheIsHonest`, `BuildsSucceed`, `ReaderHasTables`, `ReadsAdvance` |
| `cache_late` | 2 threads | finding 2 |
| `scheduler` | 2 ticks at once, a voice and another target, both stores, 1 crash, fairness | `SchedInv` (a fetch has its lock), `OutcomeIsAccepted`, `FailuresAreCounted`, `LockIsJustified`, `DueTargetIsServed` |
| `projection` | 1 writer, 1 reader, 2 rows, 1 change of the formal token, 1 crash, 1 loss, fairness | `ProjInv` (the file is history), `FileIsHonest`, `ReaderIsFresh`, `BatchShownWhole`, `FileCatchesUp` |
| `notes_revival` | 1 attempt, 1 reboot | finding 3 |
| `notes` | with and without a legacy service, 1 loaded and 1 new note, 3 requests (two under one key), 2 attempts, 3 failures, 1 loss, fairness | `NotesInv` (the first write publishes), `UpdatesAreSerial`, `WatermarkIsFinal`, `WritesUnderOwnEpoch`, `AnswersAreTrue`, `RetryIsAnswered` |
| `retail_windows` | 1 window, 1 xinghan request of 3 pages, 1 post with two weights, 1 killed tick, fairness | `RetailInv` (a complete window is complete), `PagesHaveNoGap`, `SealedStaysSealed`, `RunningEnds` |

Bounds. Two sessions, clients or operators are the least that interleave, and every
hazard of the list is between two. With `MaxRevision = 6` a unit can be registered,
fenced, reversed, fenced again and published, or be brought to S4, which takes five
revisions; 5 is enough for every unit of `cutover_chain` to be published, or to be
fenced, reversed and fenced again. That run has one dependency; the theorems have any
number. `MaxIndex = 2` is the longest program; one crash and one loss give an orphaned call
next to a rerun, or a retry whose answer is lost as well. Two mutations and the
two published states give a cache six values of its fingerprint, and the third
thread a reader next to two that contend; one close is enough for a name to be built
again.

In `scheduler` a lock is stale after two periods, a fetch takes up to one, a target is due
every period and waits at most two; two ticks may start in a period, so that two of one
window and two of different windows overlap. Only the voice fails, three times in a row at the
least before it pauses. In `projection` one transaction writes two rows and one deletes a row; a second
identity lets a rerun be another operation. In `notes` two attempts are needed for a Viewer
of an earlier one, and three failures for both attempts to be cut off and the host to reboot;
the three requests are a creation, an edit under the same idempotency key and a
deletion of what is edited. In `retail_windows` three pages are the least where an offset
that two crawlers count up skips a page; two weights tell facts that are up to date from facts
that are not, and since they are only compared, the first one given is always `FirstWeight`; a tick that waits for the lock has no state, so
one place for ticks is enough, and the orphan is the second crawler.

Deadlock is not checked where the system ends, by its bounds or because its work
is done; caches, the scheduler and retail windows never do, and their runs check it.

Fairness. The control plane has none. In `CompatFairSpec` a client that runs keeps
acting, and the call a client waits for is executed and answered: the caller of
a synchronous database call blocks until one or the other. In `UCFairSpec` each
operator reruns the command after an error, and what is sent over a connection that
holds is executed. In `SchedFairSpec` time passes, Task Scheduler starts ticks and a tick goes
on; for a voice, which may only be locked in its window, taking the lock is strongly fair,
because the window comes again every day. In `ProjFairSpec` a process goes on, closes what it
opened, and a reader that retries gets the lock in the end (strong fairness, since
others hold it in between); calls somebody waits for are served. In `NotesFairSpec` clients repeat
their requests and the Viewer serves what it has; nothing is assumed of the script. In
`RetailFairSpec` ticks are started and go on, children go on, and ten minutes without a
heartbeat do pass. Nothing is assumed of crashes, losses, reversals, orphaned transactions, time-outs of
the wait for an orphan, or legacy processes.

`DoubtEnds` has an exception, `Hopeless`: a batch with a new row, which the overlay rejects; a
batch whose key stands for another one (finding 1); and a batch of which another transaction has
moved on a row. The code reports all three as "uncertain" and keeps the batch pending until the
connection is closed (`domain_data.py:548`); what the caller should do then is stated nowhere. The
property says that nothing else stays in doubt: a batch that committed is found again however
often its rows were overwritten since, and whoever committed it.

`CutoverCompletes` has an exception that the code needs: when a second operator's intent
replaces the one under which the row was fenced and the first operator is gone, every rerun
refuses the row's epoch until the fence is reversed by hand. The exception is that the
row is in S2 or S3, and the intent file names another epoch, for ever; a run that stays
between fence and transition, with the row in S1, is no exception.

### Findings

1. `compat_rerun`, `KeyIsOneTransaction`: the key of a transaction is the operation
   id and the number of commits with differences *of this process*. After a crash
   between two transactions the rerun finds the first one done, gives its number to
   the second, and is refused with an idempotency conflict, in every rerun. The same
   keys collide without a crash where processes share an identity, as the news sources
   of one scheduler tick do: `Identity` may map two operations to one.
2. `cache_late`, `LateReaderHasTables`: `connect` and `attach` open the name after the lock
   is released. A thread that is overtaken by another one's load opens a name whose
   database is gone, and gets an empty one.
3. `notes_revival`, `LegacyStaysRetired`: "Once durable authority is S2, the old auto-start service
   must never revive the SQLite writer after a reboot"
   (`Invoke-UserContentProductionCutover.ps1:184-186`). The service is to be disabled by the step
   after the transition, and a reboot in between finds it enabled. In fact it is never disabled:
   the fence hashes the JSON form of the service path (`Invoke-UserContentWriterFence.ps1:21-25`,
   163) and this script the path itself (22-27, 49), so that the procedure throws whenever there is a
   service, the catch block's call of it as well. What the legacy Viewer stores after the reboot is
   in no PostgreSQL row.

The properties of the passing runs hold in spite of 1: what is refused leaves nothing
behind. `ReaderHasTables` is about readers that connect under the lock.

### Observations without a run

The models have these behaviours. The repository states nothing that they break, or a property
above is about the cases without them and says so.

* A new row gets revision 1, and `record_overlay` has `CHECK (revision > 1)`
  (`0010:60`): a batch with an insertion is rejected whole (`Storable`, `Reject`).
* The local fence "prevents an old local CLI from silently writing a stale SQLite migration
  baseline" (`local_authority_fence.py:6-8`) with two gaps. It is looked at before the file is opened, and no
  lock is held in between (`domain_data.py:655`, 660; 675, 680), so a process may open the file after
  the unit is fenced and even published; and a connection opened before goes on writing
  (`UnitCutover`, `Connect`, `SqliteCommit`). `LegacyWritersDrain` says that these are all: who has
  not passed the check when the fence is written never does.
* `FinancialDataReadCache` stores the whole version and compares it with the fingerprint
  alone (`financial_data.py:107`), so a due check of an unchanged unit builds the name its
  own keeper holds and fails; `BuildsSucceed` is about the other two.
* Scheduler: "is_running ... prevents concurrent fetches of one target" (`scheduler.py:7`, in
  Chinese) holds on neither store. On SQLite a lock taken since a tick read the rows is reset with
  a stale one, two ticks fetch one target, one releases the lock of the other, and a failure may be
  counted from an old row. On PostgreSQL two ticks of one window that lock a
  target within one second send the same words under the same key, and both are told that they have
  it. These are the targets in `overlap`.
* Notes: nothing compares the snapshot of S1 with the watermark of the fence
  (`stage4_user_content_cutover.py:72`, 113-115). A note written in between is in SQLite
  and in no PostgreSQL row. `WatermarkIsFinal` is about what SQLite ended with.
* Notes: where the legacy Viewer is a service the script stops after the evidence of S2, and an operator
  has to start the Viewer by hand. While a transition is in flight an operator may read S1 and start the
  legacy Viewer, and the unit enters S2 under it; the catch block would do the same if its call
  worked, though it says it does not (`Invoke-UserContentProductionCutover.ps1:261-262`).
  `WatermarkIsFinal` says what is left: no such thing happens while the script is past S2, and
  without a service none while a Viewer can serve the row's epoch.
* Notes: a crash between the commit of S2 and the route or evidence file leaves S2 without
  them, and the script cannot be run again before the fence is reversed. A creation that
  is retried without a `note_key` gets a fresh one (`app.py`, about 6413), and is another request.
* Retail windows: an orphan is waited for only while its heartbeat is fresh; one that was
  just started has none, so two crawlers do page one request (`PagesHaveNoGap` holds
  all the same). Orphans of the other sources are never waited for. One between two requests may
  open a checkpoint and store pages in a window that is sealed or purged by then, and a purged window
  is not purged again. With `--force`, left out of the model, the new crawler's
  checkpoint would take the offset of an orphan that pages an older snapshot.
* Retail windows: the facts of a complete window may be older than its labels and heat, because orphans
  of killed ticks write these over (`senti_score.py:114-117`, `senti_fetch_guba.py:48-52`). The daily
  retention weighs a window that is complete anew, sealed or not, until it purges it; one that was
  sealed incomplete it does not, and what an orphan has labelled since is purged with the rows.
* Retail windows on PostgreSQL: `execute_window` keeps its connection, hence the projection
  lock, while it waits for children that each ask for that lock and give up after 30 s
  (`sentiment_projection.py:60-66`, 449-482, `retail_window_tick.py:845-902`). Every source fails there
  and no window becomes complete. The two modules are not composed.

## 4. Proofs

Every safety invariant, every action property and every refinement that a passing run
checks are also theorems, for every value of the constants that satisfies the named
assumptions of the modules. An invariant is seldom inductive as it stands; each section
says what had to be added, and why the code needs it. The strengthened invariants were
checked by TLC on the runs' instances before they were proved.

The assumptions are the `ASSUME`s of the modules, which TLC evaluates in the runs. Besides
types and finiteness they say that `None` is no value of the sets it is added to, which
TLA+ leaves open for records (`NoRecordAssumption` of the projection, `NoKidAssumption` of
the retail windows, the fence record in `CutoverAssumption`, `NotesAssumption`); that the
programs of the projection assign values or deletions (`ProjectionAssumption`); and that
a fetch is cut off before its lock counts as stale (`SchedulerAssumption`). Two theorems,
`EffectOnce` and `KeepsOperationsPromise`, have a hypothesis of their own, `StableIdentities`,
see below.

### Control plane

`CutoverAuthorityProofs` holds, for every value of the constants that satisfies
`ConstantsAssumption` (any number of units, dependencies, sessions, approvals and
revisions), seven theorems about the control plane:

| Theorem | States | Argument |
|---|---|---|
| `ShapeCorrect` | `Spec => [](TypeOK /\ RowShape)` | `ShapeInv`, the conjunction of both, is inductive: one step per action, and under it one per conjunct the action can disturb |
| `DurableAuthority` | `Spec => AuthorityIsDurable` | the `...Moves` lemmas reduce every action to `Moves(u, to)`: one unit makes an allowed transition or the promotion |
| `DependenciesFirst` | `Spec => []DependencyClosed` | not inductive alone, see below |
| `FormalAtomic` | `Spec => []FormalCommitIsAtomic` | inductive with the type invariant |
| `ImplementsPromise` | `Spec => KeepsPromise` | `Init` maps to the promise's `Init`, and every step to a step of it or a stutter |
| `LedgerFaithful` | `Spec => []LedgerIsHistory` | inductive with the types: `StepWrites` reduces every step to one `Write`, which appends the entry that starts where the row was |
| `EvidenceOfAttempt` | `Spec => []EvidenceIsOfItsAttempt` | inductive with `LedgerIsHistory`: the entry before a new one is the row |

A request is checked in one step and its row is written in a later one, and other
sessions run in between. So `DependencyClosed` needs the strengthening
`CheckedClosed`: every request in flight to S2 that has been checked has all
its dependencies published. It is inductive because publication is final
(`PostgresStays`): what was true when the dependencies were read is true when the row
is written. The same invariant gives the refinement its guard for `Fence`, and
`FormalCommitIsAtomic` its guard for the first commit: `QuietMove` maps a transition
without a result, `CommitMove` a formal mutation, promoting or not.

The ledger keeps the entries of reversed attempts. What `EvidenceIsOfItsAttempt` says of a published
unit is about consecutive entries: S3 carries writer, epoch and approval of the fence
right before it, because the promotion reads them from the row, and the row is the last entry
(`LedgerIsHistory`). It does not say more than the functions check: `S4` needs an approval other than S3's,
which may be that of a reversed attempt, and a verification write belongs to *some* fence with its
epoch, so that an operator who gives an epoch again takes its writes along.

### Compatibility connection

`CompatConnectionProofs` is about any set of clients, operations, programs, rows and
identities, and any number of crashes and losses:

| Theorem | States | Argument |
|---|---|---|
| `OneInDoubt` | `CompatSpec => [](CompatTypeOK /\ OneBatchInDoubt)` | `ConnectionShape`: types, `OneBatchInDoubt` and `InDoubt`, what each client state implies of `pending` |
| `WholeHistory` | `CompatSpec => []HistoryIsWhole` | `BatchIsAtomic` is inductive: `Apply` adds a result and its entries in one step, and only for a key without a result; versions need `History` |
| `BeliefCorrect` | `CompatSpec => []BeliefIsHistory` | `OkIsStored` and `Belief` |
| `EffectOnce` | `StableIdentities` implies `CompatSpec => []TransactionsTakeEffectOnce` | `ProgramInv`: results, calls and connections number their transactions alike |
| `KeepsOperationsPromise` | `StableIdentities` implies `CompatSpec => KeepsOperations` | `Apply` maps to `TakeEffect`, every other step to a stutter |

A batch with two mutations of one row would give a version two authors. `History`
adds that no row is below its base version and that the batch of every call is
functional, one mutation per row, as `Mutations` computes it; then a compare-and-set against the present
version gives the next version its only author. Beliefs change on an acknowledgement,
and an answer may arrive long after the row has moved on. `OkIsStored` says that what a
call answers "ok" to is among the results, so by `BatchIsAtomic` its entries are in the
ledger; `Was` then never ceases to hold, because the ledger only grows.

`EffectOnce` is the theorem that says a retry does not apply a transaction twice, and it
is not obvious: the key of a transaction is a count of the commits that changed something
in *this* run, so a rerun may number the same transactions differently (finding 1).
`ProgramInv` says that the batch under the key `n` of an identity belongs to a transaction with
`n - 1` earlier ones among the stored results. A rerun that meets its own key and its own batch has then
met its own transaction (`SameTransaction`): the rows it found to change carry
versions, and a version has one author. `StableIdentities` says that operations sharing an
identity run the same program, as a rerun of one operation does. Where it fails, as for the
sources of one scheduler tick that share an identity, one operation may be answered with the
result of another; the instance of `compat_faults` satisfies it.

`OperationPromise` knows no calls, keys or connections: a transaction of a program takes
effect once, after the earlier ones of its identity, and writes the values it assigns. It may
leave a row out only if the row has had that value, since a connection sends differences
from what it believes and may believe something old; nothing compares the rows it does not
send. `Whole`, invariant of every call however long it has been under way, says this of a batch,
and comes from `Belief` at the moment of sending. The order (`ApplyInOrder`) is that of
`Derived`: before a key is taken all smaller keys of its identity are, by earlier transactions.

### Read caches

`ReadCacheProofs` is about any number of threads, mutations and closes:

| Theorem | States | Argument |
|---|---|---|
| `CacheShapeCorrect` | `CacheSpec => []CacheShape` | types, and who loads holds the lock |
| `CacheHonest` | `CacheSpec => []CacheIsHonest` | `OlderTokens`: a fingerprint is never newer than its rows, and rows never newer than PostgreSQL |
| `CacheReadsAdvance` | `CacheSpec => ReadsAdvance` | `Forward`: no thread has seen, or was told of, more mutations than the keeper or the next copy shows (`Floor`) |
| `CacheBuildsSucceed` | `CacheSpec => []BuildsSucceed` | `NewNames`: until a close, every living name has a fingerprint no newer than the keeper's, and a load starts from a newer one |
| `CacheReadersHaveTables` | `CacheSpec => []ReaderHasTables` | `Alive`: keeper and readers keep their databases alive |

The premises on `design` in `BuildsSucceed` and `ReaderHasTables` leave out what is
wrong: the comparison of the financial cache, and the readers of `cache_late`.

### Unit cutover

`UnitCutoverProofs` is about any number of operators, legacy writers, epochs, crashes and
reversals:

| Theorem | States | Argument |
|---|---|---|
| `FenceAhead` | `UCSpec => []UCInv` | `FencedRun`: whoever is about to move the row, or sent the transaction and died, has left a fence file |
| `EvidenceTrue` | `UCSpec => []EvidenceIsTrue` | `RowInv`, `AwaitedInv`, `ActivationInv` |
| `WritersDrain` | `UCSpec => LegacyWritersDrain` | from `FenceAhead`: who passes the check finds no fence file, hence S1 |
| `KeepsUnitPromise` | `UCSpec => KeepsPromise` | each execution of a transaction, and each reversal, maps to a step of `AuthorityPromise`, every other step to a stutter |

A transaction outlives the process that sent it. `AwaitedInv` ties it to the process while
that waits, and `ActivationInv` to the row afterwards: an activation sent for revision `r`
under epoch `e` can only execute while the row has revision `r`, and in S2 at revision `r` the
epoch is `e`. So a late activation never publishes another operator's epoch.

### Analyst notes

`NotesCutoverProofs` is about any notes and requests and any number of attempts, failures
and lost answers. Its inductive invariant `NotesIInv` holds what the place of the script
implies (`ScriptInv`: between the fence and the transition nobody writes), what an orphaned
transition carries (`OrphanInv`) and what a Viewer's call was asserted for (`CallInv`).

| Theorem | States | Argument |
|---|---|---|
| `FirstWrite` | `NotesSpec => []NotesInv` | the function that stores a first result is the one that moves the row |
| `WatermarkFinal` | `NotesSpec => []WatermarkIsFinal` | `ScriptInv`, and `OrphanInv`: a transition that commits after its caller gave up carries an epoch of its own, which no route file has, since the route is written after the commit is seen |
| `OwnEpoch` | `NotesSpec => []WritesUnderOwnEpoch` | `CallInv`: a call that passed its check runs under its epoch, or under none that is published while its Viewer runs |
| `AnswersTrue` | `NotesSpec => []AnswersAreTrue` | a call is answered from the results |
| `SerialUpdates` | `NotesSpec => []UpdatesAreSerial` | the entries of a note are in bijection with its revisions; a write adds the next |

### Retail windows

`RetailWindowsProofs` is about any number of ticks, orphans, requests, pages and killed
ticks; `RetailIInv` is its inductive invariant.

| Theorem | States | Argument |
|---|---|---|
| `CompleteTrue` | `RetailSpec => []RetailInv` | `SuccessInv`: a success of xinghan on record left no page out; `CountsStay`: a label may be written over but not taken back |
| `NoGap` | `RetailSpec => []PagesHaveNoGap` | `KidInv`: a crawler has the pages before the offset *in its memory* behind it |
| `SealedFinal` | `RetailSpec => SealedStaysSealed` | `TickInv`: while a tick is past the choice of the window, the window is live and nothing seals it, and a window sealed as complete stays complete, so that it is weighed anew before it is purged (`Retained`) |

The checkpoint is a count that two crawlers overwrite, so nothing about its value is
inductive. What is inductive is about each crawler: it starts from a checkpoint without a
gap, and commits its page before it counts on. Whichever of two writes the offset, the pages
before it are there.

### Sentiment projection

`SentimentProjectionProofs` is about any rows, transactions, readers, writers, crashes and
losses, with the server of `DomainMutation` under it. `ProjIInv` is the conjunction of the
theorems with `ServerInv` (what the server guarantees of batches and versions), `CallInv`,
`LockInv`, `PendingInv`, `TokenInv` and `FloorInv`.

| Theorem | States | Argument |
|---|---|---|
| `ShowsHistory` | `ProjSpec => []ProjInv` | rows come from PostgreSQL or from a pending batch that the server has answered (`CallInv`) |
| `HonestFile` | `ProjSpec => []FileIsHonest` | `TokenInv`: tokens are read before rows and never lie ahead; if the file's are the present ones, nothing was written in between |
| `FreshReader` | `ProjSpec => []ReaderIsFresh` | `FloorInv`: what the reader found at its look is in the file once it is current, and the file never goes back |
| `WholeBatch` | `ProjSpec => []BatchShownWhole` | `PendingInv`: the pending batch carries the revisions of the file, so that it applies to all its rows or to none |

A writer changes the rows of the file after its commit and leaves the token alone. The file
stays honest because the answered batch has added to the ledger, whose size is half of the token:
the file's token is then older than PostgreSQL's, and the next process rebuilds it.

### Fetch scheduler

`FetchSchedulerProofs` is about any targets, voices, ticks, crashes and frequencies, on both
stores. `SchedIInv` adds to the types and the lock: `CountInv` (a target that is not paused
failed twice at most, in every copy of its row), `TurnInv`, `CopyInv` and `LeadInv`.

| Theorem | States | Argument |
|---|---|---|
| `HoldsLock` | `SchedSpec => []SchedInv` | who locks has seen the row unlocked *now*: the live row on SQLite, a copy that equals it on PostgreSQL (`CopyInv`) |
| `OutcomeAccepted` | `SchedSpec => []OutcomeIsAccepted` | `LeadInv`, see below |
| `FailuresCounted` | `SchedSpec => FailuresAreCounted` | on PostgreSQL the count a tick goes on from is that of the row it writes (`CopyInv`) |
| `LockJustified` | `SchedSpec => LockIsJustified` | `RowStep`: what a step can do to a row of the table |
| `LockKept` | `SchedSpec => LockOutlivesFetch` | a stale reset needs an old row, and the row is no older than the fetch (`LeadInv`) |

`CopyInv` says of a private copy on PostgreSQL: if it lacks no commit it is the row; a batch
it could replay is the only one of its target and the first it lacks, and if it is the last
as well, it leads from the copy to the row. So a replay, which changes nothing in PostgreSQL,
brings the copy to what the row became. `LeadInv` is about a tick that is alone with its target: it lacks
nothing, and every other tick of its window still has to get past the commit of the lock, the last
key it finds taken. Such a tick can do nothing to the window but replay, and a replay of the
lock itself makes the target `overlap`; so no commit of another comes between lock and release, and
the release is accepted. A new window differs from that of every living tick (`FreshWindow`,
a pigeonhole argument), and a tick that begins in a used one finds its first key taken. The
last theorem states a property no run lists, because it is the reason for the bound on a
fetch: on PostgreSQL a lock that one fetch holds alone is not reset under it. On
SQLite that is false, which is the first half of `overlap`.

### What is not proved

All liveness stays with TLC: `DoubtEnds`, `CutoverCompletes`, `DueTargetIsServed`, `FileCatchesUp`,
`RetryIsAnswered` and `RunningEnds` rest on fairness, hence on `ENABLED`, which the prover's
backends do not handle. So does what the three findings show, which are counterexamples. Induction
over data is out of reach too; no module uses a `RECURSIVE` operator, and the
back-off of the scheduler is a table of its three powers of two (`Doubling`) because the
provers know nothing of exponents.

Proving changed the models in two places. `Recheck` of `UnitCutover` was a `CASE` whose
guards overlapped, where the code has an order; it follows that order now. And where a
record and `None` share a set, the assumptions above had to be made explicit.

## 5. Plan

What is left, in this order:

1. Proofs: refinement of a register that is read and written at once by
   `SentimentProjection`, which the invariants above already carry.
2. `RetailWindows` over `SentimentProjection`, for the lock the tick and its children share.
3. `ReleaseManager`: the pointer file and the ledger, with a crash between them.
4. `SharedIdentity`: identity allocation and aliases over the control plane.
5. `ResearchRun`.

## 6. Not modelled

Roles, grants and argument checks of the stored functions are taken as passed: the
models are about callers that own their unit. The validation of evidence files, and
what the hashes are computed from, is taken as passed too. Payloads are model values.
Time occurs only in `FetchScheduler`, as tick periods; elsewhere whether something is
due, stale or expired is a choice. SQLite's own locking (busy errors, WAL) is not modelled: a
statement or transaction on a SQLite file is one step, and a private copy has one user.
Waits for a file lock end by getting it; their time-outs leave nothing behind.
PostgreSQL is taken to run `READ COMMITTED` with row locks, as the functions assume.

Of the retail windows the choice of windows to backfill, the daily aggregates, the kline
fetch, rows that belong to no window and legacy windows are left out; `aggregate_window` is
taken not to fail in a recovery. The release manager, shared identity with its controller, the
operation runner and the research workflow core have control of their own and are not
modelled yet. The rest, by far the most lines of the repository (run packs, the viewer's
handlers, fetchers, audits), is sequential transformation of data: it has no state that
steps of several actors could bring out of order, and a model would restate it.
