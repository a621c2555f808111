--------------------------- MODULE FetchScheduler ---------------------------
(***************************************************************************)
(* scheduler.py tick: a short process, started every tick period, reads all *)
(* rows of fetch_schedule once, then takes the targets one after the other: *)
(* it resets a lock that looks stale, takes the lock, runs the fetch in a   *)
(* child process and writes the outcome.  Ticks overlap when fetches take   *)
(* long, are started by hand, and die.                                      *)
(*                                                                         *)
(* The same code runs on two stores.  On SQLite every statement acts on the *)
(* live row.  On PostgreSQL it acts on the private copy of a compatibility  *)
(* connection (CompatConnection), whose commit is a compare-and-set of the  *)
(* row under a key made of the tick's window and its commit number; a tick  *)
(* whose commit is refused dies.                                            *)
(*                                                                         *)
(* Time advances in units of one tick period, and only while every running  *)
(* tick is in a fetch: the statements between two fetches take no time.     *)
(***************************************************************************)
EXTENDS Naturals, Sequences, FiniteSets

CONSTANTS
    Targets,      \* the active rows of fetch_schedule
    Voices,       \* those of type voice_leader
    Ticks,        \* processes that may run at once
    Backends,     \* the stores a behaviour may run on
    StaleAfter,   \* STALE_MIN
    LongestFetch, \* the timeouts of run_fetch
    Frequency,    \* base_freq
    LongestWait,  \* the cap of the backoff, and of the voice window alignment
    MaxCrashes,   \* bound on the ticks that die
    MaxStarts,    \* bound on the ticks started in one period
    Failing,      \* bound: the targets whose fetch may fail
    None

ASSUME SchedulerAssumption ==
    /\ Voices \subseteq Targets /\ Failing \subseteq Targets
    /\ None \notin Targets
    /\ Backends \subseteq {"sqlite", "postgres"}
    /\ StaleAfter \in Nat /\ LongestFetch \in Nat /\ LongestFetch < StaleAfter
    /\ Frequency \in Nat \ {0} /\ LongestWait \in Nat /\ Frequency <= LongestWait
    /\ MaxCrashes \in Nat /\ MaxStarts \in Nat
    /\ IsFiniteSet(Ticks)

VARIABLES
    backend,    \* where the table is; it does not change during a behaviour
    sched,      \* fetch_schedule
    window,     \* the current tick window
    used,       \* some tick of the current window has committed
    started,    \* ticks started in the current window
    phase, at, todo,   \* of a tick: where it is, its target, the rows left
    seen,       \* rows, and on PostgreSQL the private copy
    elapsed,    \* how long its fetch has been running
    born,       \* the window in its operation id
    behind,     \* commits of others a row of its private copy lacks
    ahead,      \* commits of others under the keys it will use next
    crashes,
    overlap     \* history: targets whose lock a running fetch lost or shares

local == <<phase, at, todo, seen, elapsed, born, behind, ahead>>
schvars == <<backend, sched, window, used, started, local, crashes, overlap>>

Statuses == {"active", "error", "paused"}
Kinds == {"reset", "lock", "success", "deferred", "error"}

\* age: time since running_started_at, of interest while is_running is set.
\* wait: time until next_run_at.
Row == [running : BOOLEAN, age : 0..StaleAfter, wait : 0..LongestWait,
        errors : 0..3, status : Statuses]

Windows == 0..Cardinality(Ticks)
Foreign == [target |-> None, kind |-> "foreign"]
Batch == [target : Targets, kind : Kinds] \cup {Foreign}

SchedTypeOK ==
    /\ backend \in Backends
    /\ sched \in [Targets -> Row]
    /\ window \in Windows /\ used \in BOOLEAN /\ started \in 0..MaxStarts
    /\ phase \in [Ticks -> {"idle", "scan", "reset", "fetch"}]
    /\ at \in [Ticks -> Targets \cup {None}]
    /\ todo \in [Ticks -> SUBSET Targets]
    /\ seen \in [Ticks -> [Targets -> Row]]
    /\ elapsed \in [Ticks -> 0..LongestFetch]
    /\ born \in [Ticks -> Windows]
    /\ behind \in [Ticks -> [Targets -> Nat]]
    /\ ahead \in [Ticks -> Seq(Batch)]
    /\ crashes \in 0..MaxCrashes
    /\ overlap \subseteq Targets

FreshRow == [running |-> FALSE, age |-> 0, wait |-> 0, errors |-> 0, status |-> "active"]

SchedInit ==
    /\ backend \in Backends
    /\ sched = [t \in Targets |-> FreshRow]
    /\ window = 0 /\ used = FALSE /\ started = 0
    /\ phase = [k \in Ticks |-> "idle"]
    /\ at = [k \in Ticks |-> None]
    /\ todo = [k \in Ticks |-> {}]
    /\ seen = [k \in Ticks |-> [t \in Targets |-> FreshRow]]
    /\ elapsed = [k \in Ticks |-> 0]
    /\ born = [k \in Ticks |-> 0]
    /\ behind = [k \in Ticks |-> [t \in Targets |-> 0]]
    /\ ahead = [k \in Ticks |-> <<>>]
    /\ crashes = 0
    /\ overlap = {}

---------------------------------------------------------------------------
(* The store *)

Fetching(k, t) == phase[k] = "fetch" /\ at[k] = t

Alive(k) == phase[k] # "idle"

\* The row a statement of the tick reads and writes.
Current(k, t) == IF backend = "sqlite" THEN sched[t] ELSE seen[k][t]

\* A row the tick will not look at again is dropped from the model's state.
Forget(k, t) ==
    /\ seen' = [seen EXCEPT ![k][t] = FreshRow]
    /\ behind' = [behind EXCEPT ![k][t] = 0]

\* What the tick keeps of a row it has written: on PostgreSQL the private copy,
\* on SQLite the row object it read; nothing once the fetch has ended.
Keep(k, t, kind, row) ==
    seen' = [seen EXCEPT ![k][t] =
               IF kind \notin {"reset", "lock"} THEN FreshRow
               ELSE IF backend = "sqlite" THEN @ ELSE row]

WriteLive(k, t, kind, row) ==
    /\ backend = "sqlite"
    /\ sched' = [sched EXCEPT ![t] = row]
    /\ Keep(k, t, kind, row)
    /\ UNCHANGED <<used, behind, ahead>>

\* The ticks that have the row in their private copies fall behind, and those of
\* the same window find their next key taken.
Overtake(k, t, kind) ==
    /\ used' = (used \/ born[k] = window)
    /\ behind' = [j \in Ticks |->
         IF j # k /\ t \in todo[j] THEN [behind[j] EXCEPT ![t] = @ + 1] ELSE behind[j]]
    /\ ahead' = [j \in Ticks |->
         IF j = k \/ ~Alive(j) \/ born[j] # born[k] THEN ahead[j]
         ELSE Append(ahead[j], IF t \in todo[j] /\ behind[j][t] = 0
                               THEN [target |-> t, kind |-> kind] ELSE Foreign)]

\* Faulty variant: the revision of the row is not compared.
WriteBatchUnchecked(k, t, kind, row) ==
    /\ backend = "postgres"
    /\ ahead[k] = <<>>
    /\ sched' = [sched EXCEPT ![t] = row]
    /\ Keep(k, t, kind, row)
    /\ Overtake(k, t, kind)

\* The commit is the next of its window and the row is at the revision of the
\* private copy.
WriteBatch(k, t, kind, row) ==
    /\ backend = "postgres"
    /\ ahead[k] = <<>>
    /\ behind[k][t] = 0
    /\ sched' = [sched EXCEPT ![t] = row]
    /\ Keep(k, t, kind, row)
    /\ Overtake(k, t, kind)

\* Another tick of the window has sent the very same batch within the same
\* second: the key is known and the request equal, so the call is answered
\* with the stored result.
Replayable(k, t, kind) ==
    /\ backend = "postgres"
    /\ ahead[k] # <<>>
    /\ Head(ahead[k]) = [target |-> t, kind |-> kind]

Replay(k, t, kind, row) ==
    /\ Replayable(k, t, kind)
    /\ Keep(k, t, kind, row)
    /\ ahead' = [ahead EXCEPT ![k] = Tail(@)]
    /\ behind' = [behind EXCEPT ![k][t] = IF kind \in {"reset", "lock"} THEN @ - 1 ELSE 0]
    /\ UNCHANGED <<sched, used>>

Write(k, t, kind, row) ==
    \/ WriteLive(k, t, kind, row)
    \/ WriteBatch(k, t, kind, row)
    \/ Replay(k, t, kind, row)

\* The commit raises and nothing in tick catches it.
Refusable(k, t) == backend = "postgres" /\ (ahead[k] # <<>> \/ behind[k][t] > 0)

---------------------------------------------------------------------------
(* A tick *)

\* What a dead or finished process leaves of its locals.
Leave(k) ==
    /\ phase' = [phase EXCEPT ![k] = "idle"]
    /\ at' = [at EXCEPT ![k] = None]
    /\ todo' = [todo EXCEPT ![k] = {}]
    /\ seen' = [seen EXCEPT ![k] = [t \in Targets |-> FreshRow]]
    /\ elapsed' = [elapsed EXCEPT ![k] = 0]
    /\ born' = [born EXCEPT ![k] = 0]
    /\ behind' = [behind EXCEPT ![k] = [t \in Targets |-> 0]]
    /\ ahead' = [ahead EXCEPT ![k] = <<>>]

\* A tick of the quiet hours returns at once and is not counted here.  One that
\* starts in a window whose first key is taken has nothing to send under it.
Begin(k) ==
    /\ phase[k] = "idle"
    /\ started < MaxStarts
    /\ started' = started + 1
    /\ phase' = [phase EXCEPT ![k] = "scan"]
    /\ todo' = [todo EXCEPT ![k] = Targets]
    /\ seen' = [seen EXCEPT ![k] = sched]
    /\ born' = [born EXCEPT ![k] = IF backend = "postgres" THEN window ELSE 0]
    /\ ahead' = [ahead EXCEPT ![k] =
         IF backend = "postgres" /\ used THEN <<Foreign>> ELSE <<>>]
    /\ UNCHANGED <<backend, sched, window, used, at, elapsed, behind,
                   crashes, overlap>>

Turn(k, t) == phase[k] = "scan" /\ t \in todo[k]

\* Faulty variant: locks are never reset.
LooksStaleNever(k, t) == FALSE

\* The lock in the row read at the start has become old.
LooksStale(k, t) ==
    /\ Turn(k, t)
    /\ seen[k][t].running
    /\ seen[k][t].age = StaleAfter

\* Faulty variants: conditions of the UPDATE left to the checks before it.
MayLockRunning(row) == row.status # "paused" /\ row.wait = 0
MayLockEarly(row) == ~row.running /\ row.status # "paused"

\* try_lock: the row as the store has it, after the checks on the row read.
MayLock(row) == ~row.running /\ row.status # "paused" /\ row.wait = 0

CanLock(k, t) ==
    /\ \/ Turn(k, t) /\ ~seen[k][t].running
       \/ phase[k] = "reset" /\ at[k] = t
    /\ seen[k][t].status # "paused"
    /\ seen[k][t].wait = 0
    /\ MayLock(Current(k, t))

\* A row the tick is through with.
Done(k, t) ==
    /\ phase' = [phase EXCEPT ![k] = "scan"]
    /\ at' = [at EXCEPT ![k] = None]
    /\ todo' = [todo EXCEPT ![k] = @ \ {t}]
    /\ elapsed' = [elapsed EXCEPT ![k] = 0]

\* The turn of the target passes without a statement: a voice outside its
\* window (at any time), a lock that is not stale, a paused or a future
\* target, or try_lock finds nothing to update.
Skip(k, t) ==
    /\ \/ Turn(k, t) /\ (t \in Voices \/ ~(LooksStale(k, t) \/ CanLock(k, t)))
       \/ phase[k] = "reset" /\ at[k] = t /\ ~CanLock(k, t)
    /\ Done(k, t)
    /\ Forget(k, t)
    /\ UNCHANGED <<backend, sched, window, used, started, born, ahead, crashes, overlap>>

\* The stale reset and its commit; the status, count and date stay.
ResetStale(k, t) ==
    /\ LooksStale(k, t)
    /\ Write(k, t, "reset", [Current(k, t) EXCEPT !.running = FALSE, !.age = 0])
    /\ phase' = [phase EXCEPT ![k] = "reset"]
    /\ at' = [at EXCEPT ![k] = t]
    /\ overlap' = IF \E j \in Ticks : Fetching(j, t) THEN overlap \cup {t} ELSE overlap
    /\ UNCHANGED <<backend, window, started, todo, elapsed, born, crashes>>

\* try_lock and its commit; the child process starts.
Lock(k, t) ==
    /\ CanLock(k, t)
    /\ Write(k, t, "lock", [Current(k, t) EXCEPT !.running = TRUE, !.age = 0])
    /\ phase' = [phase EXCEPT ![k] = "fetch"]
    /\ at' = [at EXCEPT ![k] = t]
    /\ elapsed' = [elapsed EXCEPT ![k] = 0]
    /\ overlap' = IF Replayable(k, t, "lock") THEN overlap \cup {t} ELSE overlap
    /\ UNCHANGED <<backend, window, started, todo, born, crashes>>

Capped(n) == IF n > LongestWait THEN LongestWait ELSE n

\* 2 ** errors, for the counts that occur.
Doubling == <<2, 4, 8>>

\* next_run_at is counted from the end of the fetch; that of a voice is moved
\* on to a time the window is open.
Waits(t, base) == IF t \in Voices THEN Capped(base)..LongestWait ELSE {Capped(base)}

\* The columns each outcome sets.
Outcome(row, outcome, count, wait) ==
    CASE outcome = "success" ->
           [running |-> FALSE, age |-> 0, wait |-> wait, errors |-> 0, status |-> "active"]
      [] outcome = "deferred" ->
           [row EXCEPT !.running = FALSE, !.age = 0, !.wait = wait]
      [] outcome = "error" ->
           [running |-> FALSE, age |-> 0, wait |-> wait, errors |-> count,
            status |-> IF count >= 3 THEN "paused" ELSE "error"]

\* The child ended: the next date, the count of the row read at the start plus
\* one after a failure, and the release of the lock, by the target's id alone.
Finish(k, t, outcome) ==
    LET count == seen[k][t].errors + 1
        base  == CASE outcome = "success"  -> Frequency
                   [] outcome = "deferred" -> 1
                   [] outcome = "error"    -> Frequency * Doubling[count]
    IN
    /\ Fetching(k, t)
    /\ outcome = "deferred" => t \in Voices
    /\ outcome = "error" => t \in Failing
    /\ \E wait \in Waits(t, base) :
         Write(k, t, outcome, Outcome(Current(k, t), outcome, count, wait))
    /\ Done(k, t)
    /\ overlap' = IF \E j \in Ticks \ {k} : Fetching(j, t) THEN overlap ELSE overlap \ {t}
    /\ UNCHANGED <<backend, window, started, born, crashes>>

\* A commit of the tick is refused: its number was used by another tick of the
\* window, or the row has changed since it was loaded.
Refused(k) ==
    /\ \E t \in Targets :
         /\ LooksStale(k, t) \/ CanLock(k, t) \/ Fetching(k, t)
         /\ Refusable(k, t)
         /\ overlap' = IF \E j \in Ticks \ {k} : Fetching(j, t) THEN overlap ELSE overlap \ {t}
    /\ Leave(k)
    /\ UNCHANGED <<backend, sched, window, used, started, crashes>>

End(k) ==
    /\ phase[k] = "scan" /\ todo[k] = {}
    /\ Leave(k)
    /\ UNCHANGED <<backend, sched, window, used, started, crashes, overlap>>

\* The process dies, and its child with it; a lock it has stays in the row.
Crash(k) ==
    /\ Alive(k)
    /\ crashes < MaxCrashes
    /\ crashes' = crashes + 1
    /\ Leave(k)
    /\ overlap' = {t \in overlap : \E j \in Ticks \ {k} : Fetching(j, t)}
    /\ UNCHANGED <<backend, sched, window, used, started>>

---------------------------------------------------------------------------
(* Time *)

Older(row) ==
    [row EXCEPT !.age  = IF row.running /\ @ < StaleAfter THEN @ + 1 ELSE @,
                !.wait = IF @ > 0 THEN @ - 1 ELSE 0]

\* One period passes: a new window begins, and nothing committed before can
\* equal a batch of a later second.
Pass ==
    /\ \A k \in Ticks : phase[k] \in {"idle", "fetch"} /\
         (phase[k] = "fetch" => elapsed[k] < LongestFetch)
    /\ sched' = [t \in Targets |-> Older(sched[t])]
    /\ seen' = [k \in Ticks |-> [t \in Targets |-> Older(seen[k][t])]]
    /\ elapsed' = [k \in Ticks |-> IF phase[k] = "fetch" THEN elapsed[k] + 1 ELSE 0]
    /\ ahead' = [k \in Ticks |-> [i \in DOMAIN ahead[k] |-> Foreign]]
    /\ used' = FALSE /\ started' = 0
    /\ window' = IF backend = "sqlite" THEN 0
                 ELSE CHOOSE w \in Windows : \A k \in Ticks : Alive(k) => born[k] # w
    /\ UNCHANGED <<backend, phase, at, todo, born, behind, crashes, overlap>>

SchedNext ==
    \/ \E k \in Ticks :
         \/ Begin(k)
         \/ Refused(k)
         \/ End(k)
         \/ Crash(k)
         \/ \E t \in Targets :
              \/ Skip(k, t)
              \/ ResetStale(k, t)
              \/ Lock(k, t)
              \/ \E outcome \in {"success", "deferred", "error"} : Finish(k, t, outcome)
    \/ Pass

SchedSpec == SchedInit /\ [][SchedNext]_schvars

Step(k) ==
    \/ Refused(k) \/ End(k)
    \/ \E t \in Targets :
         \/ Skip(k, t) \/ ResetStale(k, t) \/ Lock(k, t)
         \/ \E outcome \in {"success", "deferred", "error"} : Finish(k, t, outcome)

\* Time passes, ticks are started, and a tick that runs goes on.  The voice
\* window is long against a tick period: a chance to reset or to lock a voice
\* that comes again and again is not always missed by the window.
SchedFairness ==
    /\ WF_schvars(Pass)
    /\ WF_schvars(\E k \in Ticks : Begin(k))
    /\ \A k \in Ticks : WF_schvars(Step(k))
    /\ \A t \in Voices :
         /\ SF_schvars(\E k \in Ticks : ResetStale(k, t))
         /\ SF_schvars(\E k \in Ticks : Lock(k, t))

SchedFairSpec == SchedSpec /\ SchedFairness

---------------------------------------------------------------------------
(* Properties *)

\* "is_running ... prevents concurrent fetches of one target": a fetch has the
\* lock of its target and nobody else fetches it, unless the lock was reset
\* from a row read too early (SQLite), or granted twice because two ticks of
\* one window asked for it in the same words (PostgreSQL).
FetchHoldsLock ==
    \A k \in Ticks, t \in Targets \ overlap : Fetching(k, t) =>
      /\ sched[t].running
      /\ \A j \in Ticks \ {k} : ~Fetching(j, t)

\* The types, and fetches under their locks.
SchedInv == SchedTypeOK /\ FetchHoldsLock

\* On PostgreSQL a fetch that ended can always be recorded: its release is not
\* refused, which would leave the target locked and the outcome lost.
OutcomeIsAccepted ==
    \A k \in Ticks, t \in Targets \ overlap :
      backend = "postgres" /\ Fetching(k, t) => ~Refusable(k, t)

\* "The third failure in a row pauses": on PostgreSQL the stored count goes up
\* by one or back to zero, and only a count of two failures becomes a pause.
FailuresAreCounted ==
    [][backend = "postgres" => \A t \in Targets :
         /\ sched'[t].errors \in {0, sched[t].errors, sched[t].errors + 1}
         /\ sched'[t].status = "paused" /\ sched[t].status # "paused"
              => sched[t].errors = 2]_schvars

\* No lock is taken of a target that is locked, paused or not due at that
\* moment, whatever the row read at the start of the tick said.
LockIsJustified ==
    [][\A t \in Targets :
         sched'[t].running /\ (~sched[t].running \/ sched'[t].age < sched[t].age)
           => ~sched[t].running /\ sched[t].status # "paused" /\ sched[t].wait = 0]_schvars

\* A target that is due is fetched, or is paused; one whose lock a dead tick left
\* is due.
DueTargetIsServed ==
    \A t \in Targets :
      sched[t].wait = 0 ~> sched[t].status = "paused" \/ \E k \in Ticks : Fetching(k, t)
=============================================================================
