------------------------ MODULE FetchSchedulerProofs ------------------------
(***************************************************************************)
(* Theorems about FetchScheduler, for any targets, ticks, crashes and       *)
(* frequencies, on both stores.                                             *)
(***************************************************************************)
EXTENDS FetchScheduler, FiniteSetTheorems, TLAPS

---------------------------------------------------------------------------
(* The inductive invariant *)

\* A target that is not paused has failed twice in a row at most, in every copy
\* of its row; what is fetched was not paused when the tick read it.
NotPausedYet(row) == row.status # "paused" => row.errors <= 2

CountInv ==
    /\ \A t \in Targets : NotPausedYet(sched[t])
    /\ \A k \in Ticks, t \in Targets :
         /\ NotPausedYet(seen[k][t])
         /\ Fetching(k, t) => seen[k][t].status # "paused"

\* A tick has still to do the target it is at, and one that is gone nothing.
TurnInv ==
    /\ \A k \in Ticks, t \in Targets :
         phase[k] \in {"reset", "fetch"} /\ at[k] = t => t \in todo[k]
    /\ \A k \in Ticks : phase[k] = "idle" => todo[k] = {}

\* What a commit that only resets or takes the lock makes of a row.
Effect(kind, row) == [row EXCEPT !.running = (kind = "lock"), !.age = 0]

\* On PostgreSQL a private copy that is not behind is the row; a batch that
\* could be replayed is the first the copy lacks, and the only one of its
\* target; and if nothing came after it, it leads from the copy to the row.
CopyInv ==
    backend = "postgres" => \A k \in Ticks : \A t \in todo[k] :
      /\ behind[k][t] = 0 => seen[k][t] = sched[t]
      /\ \A i \in 1..Len(ahead[k]) : ahead[k][i].target = t =>
           /\ behind[k][t] >= 1
           /\ \A j \in 1..Len(ahead[k]) : ahead[k][j].target = t => j = i
           /\ behind[k][t] = 1 /\ ahead[k][i].kind \in {"reset", "lock"} =>
                sched[t] = Effect(ahead[k][i].kind, seen[k][t])

\* The tick that is alone with its target on PostgreSQL leads its window: its
\* key and its copy are up to date, its lock is as old as its fetch, and every
\* other tick of the window has to get past the commit of that lock.
Alone(k, t) == backend = "postgres" /\ Fetching(k, t) /\ t \notin overlap

Barred(j, t) ==
    /\ Len(ahead[j]) > 0
    /\ ahead[j][Len(ahead[j])] \in {Foreign, [target |-> t, kind |-> "lock"]}

Leads(k, t) ==
    /\ ahead[k] = <<>> /\ behind[k][t] = 0
    /\ sched[t].age <= elapsed[k]
    /\ born[k] = window => used
    /\ \A j \in Ticks \ {k} : Alive(j) /\ born[j] = born[k] => Barred(j, t)

LeadInv == \A k \in Ticks, t \in Targets : Alone(k, t) => Leads(k, t)

SchedIInv ==
    SchedTypeOK /\ CountInv /\ TurnInv /\ CopyInv /\ LeadInv /\ FetchHoldsLock

---------------------------------------------------------------------------
(* Rows *)

LEMMA RowTyped ==
    ASSUME NEW row \in Row
    PROVE  /\ row.running \in BOOLEAN /\ row.age \in 0..StaleAfter /\ row.age \in Nat
           /\ row.wait \in 0..LongestWait /\ row.wait \in Nat
           /\ row.errors \in 0..3 /\ row.errors \in Nat /\ row.status \in Statuses
BY SchedulerAssumption DEF Row

LEMMA FreshRowTyped == FreshRow \in Row /\ NotPausedYet(FreshRow) /\ FreshRow.status # "paused"
<1>1. 0 \in 0..StaleAfter /\ 0 \in 0..LongestWait /\ 0 \in 0..3
  BY SchedulerAssumption
<1> QED BY <1>1 DEF FreshRow, Row, Statuses, NotPausedYet

LEMMA EffectTyped ==
    ASSUME NEW row \in Row, NEW kind
    PROVE  /\ Effect(kind, row) \in Row
           /\ Effect(kind, row).running = (kind = "lock") /\ Effect(kind, row).age = 0
           /\ Effect(kind, row).wait = row.wait /\ Effect(kind, row).errors = row.errors
           /\ Effect(kind, row).status = row.status
<1> DEFINE b == (kind = "lock")
<1>1. b \in BOOLEAN /\ 0 \in 0..StaleAfter
  BY SchedulerAssumption
<1> HIDE DEF b
<1>2. /\ [row EXCEPT !.running = b, !.age = 0] \in Row
      /\ [row EXCEPT !.running = b, !.age = 0].running = b
      /\ [row EXCEPT !.running = b, !.age = 0].age = 0
      /\ [row EXCEPT !.running = b, !.age = 0].wait = row.wait
      /\ [row EXCEPT !.running = b, !.age = 0].errors = row.errors
      /\ [row EXCEPT !.running = b, !.age = 0].status = row.status
  BY <1>1 DEF Row
<1> QED BY <1>2 DEF Effect, b

LEMMA EffectIs ==
    ASSUME NEW row \in Row
    PROVE  /\ [row EXCEPT !.running = FALSE, !.age = 0] = Effect("reset", row)
           /\ [row EXCEPT !.running = TRUE, !.age = 0] = Effect("lock", row)
<1>1. ("reset" = "lock") = FALSE /\ ("lock" = "lock") = TRUE
  OBVIOUS
<1> QED BY <1>1 DEF Effect

LEMMA OlderTyped ==
    ASSUME NEW row \in Row
    PROVE  /\ Older(row) \in Row
           /\ Older(row).running = row.running
           /\ Older(row).age \in {row.age, row.age + 1}
           /\ Older(row).errors = row.errors /\ Older(row).status = row.status
<1> DEFINE age == IF row.running /\ row.age < StaleAfter THEN row.age + 1 ELSE row.age
           wait == IF row.wait > 0 THEN row.wait - 1 ELSE 0
<1>1. /\ age \in 0..StaleAfter /\ age \in {row.age, row.age + 1} /\ wait \in 0..LongestWait
  BY RowTyped, SchedulerAssumption
<1>2. Older(row) = [row EXCEPT !.age = age, !.wait = wait]
  BY DEF Older
<1> HIDE DEF age, wait
<1> QED BY <1>1, <1>2 DEF Row

\* The row a fetch leaves behind: the count is that of the row the tick read.
LEMMA OutcomeTyped ==
    ASSUME NEW row \in Row, NotPausedYet(row), NEW count \in 1..3, NEW wait \in 0..LongestWait,
           NEW outcome \in {"success", "deferred", "error"}
    PROVE  /\ Outcome(row, outcome, count, wait) \in Row
           /\ ~Outcome(row, outcome, count, wait).running
           /\ NotPausedYet(Outcome(row, outcome, count, wait))
           /\ Outcome(row, outcome, count, wait).errors \in {0, row.errors, count}
           /\ Outcome(row, outcome, count, wait).status = "paused" =>
                row.status = "paused" \/ count = 3
<1>1. row.running \in BOOLEAN /\ row.errors \in 0..3 /\ row.status \in Statuses
      /\ 0 \in 0..StaleAfter /\ 0 \in 0..3 /\ count \in 0..3
  BY RowTyped, SchedulerAssumption
<1>2. CASE outcome = "success"
  <2>1. Outcome(row, outcome, count, wait) =
          [running |-> FALSE, age |-> 0, wait |-> wait, errors |-> 0, status |-> "active"]
    BY <1>2 DEF Outcome
  <2> QED BY <1>1, <2>1 DEF Row, Statuses, NotPausedYet
<1>3. CASE outcome = "deferred"
  <2>1. Outcome(row, outcome, count, wait) =
          [row EXCEPT !.running = FALSE, !.age = 0, !.wait = wait]
    BY <1>3 DEF Outcome
  <2> QED BY <1>1, <2>1 DEF Row, NotPausedYet
<1>4. CASE outcome = "error"
  <2> DEFINE status == IF count >= 3 THEN "paused" ELSE "error"
  <2>1. Outcome(row, outcome, count, wait) =
          [running |-> FALSE, age |-> 0, wait |-> wait, errors |-> count, status |-> status]
    BY <1>4 DEF Outcome
  <2>2. status \in Statuses /\ (status = "paused" => count = 3) /\ (status # "paused" => count <= 2)
    BY DEF Statuses
  <2> HIDE DEF status
  <2> QED BY <1>1, <2>1, <2>2 DEF Row, NotPausedYet
<1> QED BY <1>2, <1>3, <1>4

LEMMA WaitTyped ==
    ASSUME NEW t \in Targets, NEW count \in 1..3, NEW outcome \in {"success", "deferred", "error"},
           NEW wait \in Waits(t, CASE outcome = "success"  -> Frequency
                                   [] outcome = "deferred" -> 1
                                   [] outcome = "error"    -> Frequency * Doubling[count])
    PROVE  wait \in 0..LongestWait
<1> DEFINE base == CASE outcome = "success"  -> Frequency
                     [] outcome = "deferred" -> 1
                     [] outcome = "error"    -> Frequency * Doubling[count]
<1>1. Doubling[count] \in Nat
  BY DEF Doubling
<1>2. base \in Nat
  <2>1. Frequency * Doubling[count] \in Nat
    <3> DEFINE d == Doubling[count]
    <3>1. d \in Nat
      BY <1>1
    <3> HIDE DEF d
    <3>2. Frequency * d \in Nat
      BY <3>1, SchedulerAssumption
    <3> QED BY <3>2 DEF d
  <2> QED BY <2>1, SchedulerAssumption
<1> HIDE DEF base
<1>3. Capped(base) \in 0..LongestWait
  BY <1>2, SchedulerAssumption DEF Capped
<1>4. wait \in Waits(t, base)
  BY DEF base
<1> QED BY <1>3, <1>4, SchedulerAssumption DEF Waits

---------------------------------------------------------------------------
(* What a commit does to the store *)

LEMMA CurrentTyped ==
    ASSUME SchedTypeOK, NEW k \in Ticks, NEW t \in Targets
    PROVE  Current(k, t) \in Row
BY DEF SchedTypeOK, Current

\* The private copy of a tick that commits is the row.
LEMMA CurrentIsRow ==
    ASSUME SchedIInv, NEW k \in Ticks, NEW t \in todo[k],
           backend = "postgres" => behind[k][t] = 0
    PROVE  Current(k, t) = sched[t]
BY SchedulerAssumption DEF SchedIInv, SchedTypeOK, CopyInv, Current

\* What becomes of the copy of the row, and of every other one.
LEMMA KeepStep ==
    ASSUME SchedTypeOK, NEW k \in Ticks, NEW t \in Targets, NEW kind, NEW row \in Row,
           Keep(k, t, kind, row)
    PROVE  /\ seen' \in [Ticks -> [Targets -> Row]]
           /\ \A j \in Ticks, u \in Targets : j # k \/ u # t => seen'[j][u] = seen[j][u]
           /\ kind \notin {"reset", "lock"} => seen'[k][t] = FreshRow
           /\ kind \in {"reset", "lock"} =>
                seen'[k][t] = IF backend = "sqlite" THEN seen[k][t] ELSE row
<1> DEFINE new == IF kind \notin {"reset", "lock"} THEN FreshRow
                  ELSE IF backend = "sqlite" THEN seen[k][t] ELSE row
<1>1. seen \in [Ticks -> [Targets -> Row]] /\ new \in Row
  BY FreshRowTyped DEF SchedTypeOK
<1>2. seen' = [seen EXCEPT ![k] = [seen[k] EXCEPT ![t] = new]]
  BY DEF Keep
<1>3. seen'[k][t] = new /\ seen' \in [Ticks -> [Targets -> Row]]
      /\ \A j \in Ticks, u \in Targets : j # k \/ u # t => seen'[j][u] = seen[j][u]
  <2> HIDE DEF new
  <2> QED BY <1>1, <1>2
<1> QED BY <1>3

\* A foreign batch equals no batch of a target.
LEMMA ForeignIsNone ==
    ASSUME NEW t \in Targets, NEW kind
    PROVE  /\ Foreign # [target |-> t, kind |-> kind]
           /\ Foreign.target \notin Targets /\ Foreign \in Batch
           /\ [target |-> t, kind |-> kind].target = t
           /\ [target |-> t, kind |-> kind].kind = kind
           /\ kind \in Kinds => [target |-> t, kind |-> kind] \in Batch
<1>1. Foreign.target = None
  BY DEF Foreign
<1> QED BY <1>1, SchedulerAssumption DEF Batch

LEMMA OvertakeStep ==
    ASSUME SchedTypeOK, NEW k \in Ticks, NEW t \in Targets, NEW kind \in Kinds,
           Overtake(k, t, kind)
    PROVE  /\ behind' \in [Ticks -> [Targets -> Nat]]
           /\ ahead' \in [Ticks -> Seq(Batch)]
           /\ used' \in BOOLEAN /\ (used => used') /\ (born[k] = window => used')
           /\ \A j \in Ticks, u \in Targets :
                behind'[j][u] = IF j # k /\ t \in todo[j] /\ u = t THEN behind[j][u] + 1
                                ELSE behind[j][u]
           /\ ahead'[k] = ahead[k]
           /\ \A j \in Ticks \ {k} :
                IF Alive(j) /\ born[j] = born[k]
                THEN \E e \in Batch :
                       /\ ahead'[j] = Append(ahead[j], e)
                       /\ \/ e = Foreign
                          \/ /\ e = [target |-> t, kind |-> kind]
                             /\ t \in todo[j] /\ behind[j][t] = 0
                ELSE ahead'[j] = ahead[j]
<1> USE DEF SchedTypeOK
<1>1. ASSUME NEW j \in Ticks
      PROVE  /\ behind'[j] \in [Targets -> Nat]
             /\ \A u \in Targets :
                  behind'[j][u] = IF j # k /\ t \in todo[j] /\ u = t THEN behind[j][u] + 1
                                  ELSE behind[j][u]
  <2>1. behind'[j] = IF j # k /\ t \in todo[j] THEN [behind[j] EXCEPT ![t] = behind[j][t] + 1]
                     ELSE behind[j]
    BY DEF Overtake
  <2>2. behind[j] \in [Targets -> Nat]
    OBVIOUS
  <2> QED BY <2>1, <2>2
<1>2. behind' \in [Ticks -> [Targets -> Nat]]
  BY <1>1 DEF Overtake
<1>3. ahead'[k] = ahead[k]
  BY DEF Overtake
<1>4. ASSUME NEW j \in Ticks \ {k}, Alive(j), born[j] = born[k]
      PROVE  \E e \in Batch :
               /\ ahead'[j] = Append(ahead[j], e)
               /\ \/ e = Foreign
                  \/ /\ e = [target |-> t, kind |-> kind]
                     /\ t \in todo[j] /\ behind[j][t] = 0
  <2> DEFINE e == IF t \in todo[j] /\ behind[j][t] = 0
                  THEN [target |-> t, kind |-> kind] ELSE Foreign
  <2>1. ahead'[j] = Append(ahead[j], e)
    BY <1>4 DEF Overtake
  <2>2. e \in Batch
    BY ForeignIsNone
  <2> QED BY <2>1, <2>2
<1>5. ASSUME NEW j \in Ticks \ {k}, ~(Alive(j) /\ born[j] = born[k])
      PROVE  ahead'[j] = ahead[j]
  BY <1>5 DEF Overtake
<1>6. ASSUME NEW j \in Ticks PROVE ahead'[j] \in Seq(Batch)
  <2>1. ahead[j] \in Seq(Batch)
    OBVIOUS
  <2>2. CASE j # k /\ Alive(j) /\ born[j] = born[k]
    <3>1. PICK e \in Batch : ahead'[j] = Append(ahead[j], e)
      BY <1>4, <2>2
    <3> QED BY <2>1, <3>1
  <2>3. CASE ~(j # k /\ Alive(j) /\ born[j] = born[k])
    BY <1>3, <1>5, <2>1, <2>3
  <2> QED BY <2>2, <2>3
<1>7. ahead' \in [Ticks -> Seq(Batch)]
  BY <1>6 DEF Overtake
<1>8. used' \in BOOLEAN /\ (used => used') /\ (born[k] = window => used')
  BY DEF Overtake
<1> QED BY <1>1, <1>2, <1>3, <1>4, <1>5, <1>7, <1>8

LEMMA AppendAt ==
    ASSUME NEW s \in Seq(Batch), NEW e \in Batch
    PROVE  /\ Len(s) \in Nat /\ Append(s, e) \in Seq(Batch)
           /\ Len(Append(s, e)) = Len(s) + 1
           /\ \A i \in 1..Len(s) : Append(s, e)[i] = s[i]
           /\ Append(s, e)[Len(s) + 1] = e
OBVIOUS

LEMMA TailAt ==
    ASSUME NEW s \in Seq(Batch), s # <<>>
    PROVE  /\ Len(s) \in Nat /\ Len(s) > 0 /\ Head(s) = s[1] /\ Tail(s) \in Seq(Batch)
           /\ Len(Tail(s)) = Len(s) - 1
           /\ \A i \in 1..Len(Tail(s)) : Tail(s)[i] = s[i + 1] /\ i + 1 \in 1..Len(s)
OBVIOUS

LEMMA ReplayStep ==
    ASSUME SchedIInv, NEW k \in Ticks, NEW t \in todo[k], NEW kind \in Kinds, NEW row,
           Replay(k, t, kind, row)
    PROVE  /\ backend = "postgres" /\ ahead[k] # <<>>
           /\ 1 \in 1..Len(ahead[k])
           /\ ahead[k][1] = [target |-> t, kind |-> kind]
           /\ behind[k][t] >= 1 /\ behind[k][t] \in Nat
           /\ ahead' \in [Ticks -> Seq(Batch)] /\ ahead'[k] = Tail(ahead[k])
           /\ \A j \in Ticks \ {k} : ahead'[j] = ahead[j]
           /\ behind' \in [Ticks -> [Targets -> Nat]]
           /\ \A j \in Ticks, u \in Targets :
                j # k \/ u # t => behind'[j][u] = behind[j][u]
           /\ kind \in {"reset", "lock"} => behind'[k][t] = behind[k][t] - 1
           /\ sched' = sched /\ used' = used
<1> USE DEF SchedIInv, SchedTypeOK
<1>1. /\ backend = "postgres" /\ ahead[k] # <<>> /\ Head(ahead[k]) = [target |-> t, kind |-> kind]
      /\ ahead' = [ahead EXCEPT ![k] = Tail(ahead[k])]
      /\ sched' = sched /\ used' = used
  BY DEF Replay, Replayable
<1>2. ahead[k] \in Seq(Batch) /\ t \in Targets
  OBVIOUS
<1>3. /\ 1 \in 1..Len(ahead[k]) /\ ahead[k][1] = [target |-> t, kind |-> kind]
      /\ Tail(ahead[k]) \in Seq(Batch)
  BY <1>1, <1>2, TailAt
<1>4. behind[k][t] \in Nat /\ behind[k][t] >= 1
  <2>1. ahead[k][1].target = t
    BY <1>3
  <2> QED BY <1>1, <1>2, <1>3, <2>1 DEF CopyInv
<1> DEFINE new == IF kind \in {"reset", "lock"} THEN behind[k][t] - 1 ELSE 0
<1>5. behind' = [behind EXCEPT ![k] = [behind[k] EXCEPT ![t] = new]]
  BY DEF Replay
<1>6. new \in Nat
  BY <1>4
<1>7. /\ behind' \in [Ticks -> [Targets -> Nat]] /\ behind'[k][t] = new
      /\ \A j \in Ticks, u \in Targets : j # k \/ u # t => behind'[j][u] = behind[j][u]
  <2> HIDE DEF new
  <2> QED BY <1>2, <1>5, <1>6
<1> QED BY <1>1, <1>3, <1>4, <1>7

\* What the three actions that write have in common.
Turning(k, t, kind, row) ==
    /\ t \in todo[k] /\ Alive(k) /\ kind \in Kinds /\ row \in Row
    /\ Write(k, t, kind, row)
    /\ kind \in {"reset", "lock"} => row = Effect(kind, Current(k, t)) /\ todo' = todo
    /\ kind \notin {"reset", "lock"} => todo' = [todo EXCEPT ![k] = todo[k] \ {t}]
    /\ \A j \in Ticks \ {k} : phase'[j] = phase[j] /\ at'[j] = at[j] /\ elapsed'[j] = elapsed[j]
    /\ UNCHANGED <<backend, window, born, started, crashes>>

\* The commit reaches the row, or is a replay.
Stores(k, t, kind, row) ==
    \/ WriteLive(k, t, kind, row)
    \/ WriteBatch(k, t, kind, row)

LEMMA StoreStep ==
    ASSUME SchedIInv, NEW k \in Ticks, NEW t \in Targets, NEW kind, NEW row,
           Turning(k, t, kind, row)
    PROVE  \/ Replay(k, t, kind, row) /\ sched' = sched
           \/ /\ Stores(k, t, kind, row)
              /\ Current(k, t) = sched[t] /\ ~Replayable(k, t, kind)
              /\ sched' \in [Targets -> Row] /\ sched'[t] = row
              /\ \A u \in Targets \ {t} : sched'[u] = sched[u]
<1> USE DEF SchedIInv, SchedTypeOK
<1>1. CASE Replay(k, t, kind, row)
  BY <1>1 DEF Replay
<1>2. CASE Stores(k, t, kind, row)
  <2>1. /\ sched' = [sched EXCEPT ![t] = row] /\ ~Replayable(k, t, kind)
        /\ backend = "postgres" => behind[k][t] = 0
    BY <1>2 DEF Stores, WriteLive, WriteBatch, Replayable
  <2>2. Current(k, t) = sched[t]
    BY <2>1, CurrentIsRow DEF Turning
  <2> QED BY <1>2, <2>1, <2>2 DEF Turning
<1> QED BY <1>1, <1>2 DEF Turning, Write, Stores

\* The conjunct of CopyInv for one copy.
Copy(k, t) ==
    /\ behind[k][t] = 0 => seen[k][t] = sched[t]
    /\ \A i \in 1..Len(ahead[k]) : ahead[k][i].target = t =>
         /\ behind[k][t] >= 1
         /\ \A j \in 1..Len(ahead[k]) : ahead[k][j].target = t => j = i
         /\ behind[k][t] = 1 /\ ahead[k][i].kind \in {"reset", "lock"} =>
              sched[t] = Effect(ahead[k][i].kind, seen[k][t])

LEMMA BatchCopies ==
    ASSUME SchedIInv, NEW k \in Ticks, NEW t \in Targets, NEW kind, NEW row,
           Turning(k, t, kind, row), WriteBatch(k, t, kind, row)
    PROVE  CopyInv'
<1> USE DEF SchedIInv, SchedTypeOK
<1>1. /\ kind \in Kinds /\ row \in Row /\ t \in todo[k] /\ backend = "postgres" /\ backend' = backend
      /\ ahead[k] = <<>> /\ behind[k][t] = 0 /\ Keep(k, t, kind, row) /\ Overtake(k, t, kind)
  BY DEF Turning, WriteBatch
<1>2. Current(k, t) = sched[t] /\ sched'[t] = row
      /\ \A u \in Targets \ {t} : sched'[u] = sched[u]
  BY <1>1, CurrentIsRow DEF WriteBatch
<1>3. \A j \in Ticks : \A u \in todo[j] : Copy(j, u)
  BY <1>1 DEF CopyInv, Copy
<1>4. \A j \in Ticks, u \in Targets :
        behind'[j][u] = IF j # k /\ t \in todo[j] /\ u = t THEN behind[j][u] + 1 ELSE behind[j][u]
  BY <1>1, OvertakeStep
<1>5. ahead'[k] = <<>>
  BY <1>1, OvertakeStep
<1>6. /\ \A j \in Ticks, u \in Targets : j # k \/ u # t => seen'[j][u] = seen[j][u]
      /\ kind \in {"reset", "lock"} => seen'[k][t] = row
  BY <1>1, KeepStep
<1>7. ASSUME NEW u \in todo'[k] PROVE Copy(k, u)'
  <2>1. u \in Targets /\ u \in todo[k] /\ Len(ahead'[k]) = 0
    BY <1>5, <1>7 DEF Turning
  <2>2. CASE u = t
    <3>1. kind \in {"reset", "lock"}
      BY <1>7, <2>2 DEF Turning
    <3> QED BY <1>2, <1>6, <2>1, <2>2, <3>1 DEF Copy
  <2>3. CASE u # t
    <3>1. behind'[k][u] = behind[k][u] /\ seen'[k][u] = seen[k][u] /\ sched'[u] = sched[u]
      BY <1>2, <1>4, <1>6, <2>1, <2>3
    <3> QED BY <1>3, <2>1, <3>1 DEF Copy
  <2> QED BY <2>2, <2>3
<1>8. ASSUME NEW j \in Ticks \ {k}, NEW u \in todo'[j] PROVE Copy(j, u)'
  <2>1. u \in Targets /\ u \in todo[j] /\ seen'[j][u] = seen[j][u]
    BY <1>6, <1>8 DEF Turning
  <2>2. ahead[j] \in Seq(Batch) /\ behind[j][u] \in Nat /\ Copy(j, u)
    BY <1>3, <2>1
  <2>3. CASE u # t
    <3>1. behind'[j][u] = behind[j][u] /\ sched'[u] = sched[u]
      BY <1>2, <1>4, <2>1, <2>3
    <3>2. \A i \in 1..Len(ahead'[j]) : ahead'[j][i].target = u =>
            i \in 1..Len(ahead[j]) /\ ahead'[j][i] = ahead[j][i]
      <4>1. ASSUME NEW e \in Batch, ahead'[j] = Append(ahead[j], e), e.target # u,
                   NEW i \in 1..Len(ahead'[j]), ahead'[j][i].target = u
            PROVE  i \in 1..Len(ahead[j]) /\ ahead'[j][i] = ahead[j][i]
        BY <2>2, <4>1, AppendAt
      <4>2. Foreign \in Batch /\ Foreign.target # u
        BY <1>1, <2>1, ForeignIsNone
      <4>3. [target |-> t, kind |-> kind] \in Batch /\ [target |-> t, kind |-> kind].target # u
        BY <1>1, <2>3, ForeignIsNone
      <4>4. CASE ahead'[j] = ahead[j]
        BY <4>4
      <4>5. CASE ahead'[j] = Append(ahead[j], Foreign)
        BY <4>1, <4>2, <4>5
      <4>6. CASE ahead'[j] = Append(ahead[j], [target |-> t, kind |-> kind])
        BY <4>1, <4>3, <4>6
      <4>7. \/ ahead'[j] = ahead[j] \/ ahead'[j] = Append(ahead[j], Foreign)
            \/ ahead'[j] = Append(ahead[j], [target |-> t, kind |-> kind])
        BY <1>1, OvertakeStep
      <4> QED BY <4>4, <4>5, <4>6, <4>7
    <3> QED BY <2>1, <2>2, <3>1, <3>2 DEF Copy
  <2>4. CASE u = t
    <3>1. behind'[j][t] = behind[j][t] + 1
      BY <1>4, <2>1, <2>4
    <3>2. CASE ahead'[j] = ahead[j]
      BY <2>2, <2>4, <3>1, <3>2 DEF Copy
    <3>3. ASSUME ahead'[j] = Append(ahead[j], Foreign) PROVE Copy(j, u)'
      <4>1. \A i \in 1..Len(ahead'[j]) : ahead'[j][i].target = u =>
              i \in 1..Len(ahead[j]) /\ ahead'[j][i] = ahead[j][i]
        <5> DEFINE e == Foreign
        <5>1. e \in Batch /\ e.target # u
          BY <1>1, <2>1, ForeignIsNone
        <5>2. ahead'[j] = Append(ahead[j], e)
          BY <3>3
        <5> HIDE DEF e
        <5>3. /\ Len(ahead[j]) \in Nat /\ Len(ahead'[j]) = Len(ahead[j]) + 1
              /\ \A i \in 1..Len(ahead[j]) : ahead'[j][i] = ahead[j][i]
              /\ ahead'[j][Len(ahead[j]) + 1] = e
          BY <2>2, <5>1, <5>2, AppendAt
        <5> QED BY <5>1, <5>3
      <4>2. \A i \in 1..Len(ahead[j]) : ahead[j][i].target = u => behind[j][u] >= 1
        BY <2>2 DEF Copy
      <4>3. behind'[j][u] >= 2 \/ \A i \in 1..Len(ahead[j]) : ahead[j][i].target # u
        <5>1. behind[j][t] >= 1 => behind[j][t] + 1 >= 2
          BY <2>2, <2>4
        <5> QED BY <2>4, <3>1, <4>2, <5>1
      <4>4. behind'[j][u] # 0
        BY <2>2, <2>4, <3>1
      <4>5. ASSUME NEW i \in 1..Len(ahead'[j]), ahead'[j][i].target = u
            PROVE  /\ behind'[j][u] >= 2
                   /\ \A m \in 1..Len(ahead'[j]) : ahead'[j][m].target = u => m = i
        BY <2>2, <4>1, <4>3, <4>5 DEF Copy
      <4>6. behind'[j][u] >= 2 => behind'[j][u] >= 1 /\ behind'[j][u] # 1
        BY <2>1, <2>2, <2>4, <3>1
      <4> DEFINE b == behind'[j][u]
      <4>7. /\ b = 0 => seen'[j][u] = sched'[u]
            /\ \A i \in 1..Len(ahead'[j]) : ahead'[j][i].target = u =>
                 /\ b >= 1
                 /\ \A m \in 1..Len(ahead'[j]) : ahead'[j][m].target = u => m = i
                 /\ b = 1 /\ ahead'[j][i].kind \in {"reset", "lock"} =>
                      sched'[u] = Effect(ahead'[j][i].kind, seen'[j][u])
        BY <4>4, <4>5, <4>6
      <4> QED BY <4>7 DEF Copy
    <3>4. ASSUME ahead'[j] = Append(ahead[j], [target |-> t, kind |-> kind]), behind[j][t] = 0
          PROVE  Copy(j, u)'
      <4> DEFINE e == [target |-> t, kind |-> kind]
      <4>1. e \in Batch /\ e.target = t /\ e.kind = kind
        BY <1>1, ForeignIsNone
      <4>2. ahead'[j] = Append(ahead[j], e)
        BY <3>4
      <4> HIDE DEF e
      <4>3. \A i \in 1..Len(ahead[j]) : ahead[j][i].target # t
        BY <2>2, <2>4, <3>4 DEF Copy
      <4>4. \A i \in 1..Len(ahead'[j]) : ahead'[j][i].target = t =>
              i = Len(ahead[j]) + 1 /\ ahead'[j][i] = e
        BY <2>2, <4>1, <4>2, <4>3, AppendAt
      <4>5. kind \in {"reset", "lock"} => sched'[t] = Effect(kind, seen[j][t])
        BY <1>2, <2>2, <2>4, <3>4 DEF Copy, Turning
      <4> QED BY <2>1, <2>4, <3>1, <3>4, <4>1, <4>4, <4>5 DEF Copy
    <3>5. \/ ahead'[j] = ahead[j] \/ ahead'[j] = Append(ahead[j], Foreign)
          \/ ahead'[j] = Append(ahead[j], [target |-> t, kind |-> kind]) /\ behind[j][t] = 0
      BY <1>1, OvertakeStep
    <3> QED BY <3>2, <3>3, <3>4, <3>5
  <2> QED BY <2>3, <2>4
<1>9. \A j \in Ticks : \A u \in todo'[j] : Copy(j, u)'
  BY <1>7, <1>8
<1> QED BY <1>9 DEF CopyInv, Copy

LEMMA ReplayCopies ==
    ASSUME SchedIInv, NEW k \in Ticks, NEW t \in Targets, NEW kind, NEW row,
           Turning(k, t, kind, row), Replay(k, t, kind, row)
    PROVE  CopyInv'
<1> USE DEF SchedIInv, SchedTypeOK
<1>1. kind \in Kinds /\ row \in Row /\ t \in todo[k] /\ Keep(k, t, kind, row) /\ backend' = backend
  BY DEF Turning, Replay
<1>2. /\ backend = "postgres" /\ ahead[k] # <<>>
      /\ 1 \in 1..Len(ahead[k]) /\ ahead[k][1] = [target |-> t, kind |-> kind]
      /\ behind[k][t] >= 1 /\ behind[k][t] \in Nat /\ ahead'[k] = Tail(ahead[k])
      /\ \A j \in Ticks \ {k} : ahead'[j] = ahead[j]
      /\ \A j \in Ticks, u \in Targets : j # k \/ u # t => behind'[j][u] = behind[j][u]
      /\ kind \in {"reset", "lock"} => behind'[k][t] = behind[k][t] - 1
      /\ sched' = sched
  BY <1>1, ReplayStep
<1>3. \A j \in Ticks : \A u \in todo[j] : Copy(j, u)
  BY <1>2 DEF CopyInv, Copy
<1>4. /\ \A j \in Ticks, u \in Targets : j # k \/ u # t => seen'[j][u] = seen[j][u]
      /\ kind \in {"reset", "lock"} => seen'[k][t] = row
  BY <1>1, <1>2, KeepStep
<1>5. ASSUME NEW j \in Ticks \ {k}, NEW u \in todo'[j] PROVE Copy(j, u)'
  <2>1. u \in Targets /\ u \in todo[j]
    BY <1>5 DEF Turning
  <2>2. seen'[j][u] = seen[j][u] /\ behind'[j][u] = behind[j][u] /\ ahead'[j] = ahead[j]
    BY <1>2, <1>4, <2>1
  <2> QED BY <1>2, <1>3, <2>1, <2>2 DEF Copy
<1>6. /\ Len(ahead[k]) \in Nat /\ Len(ahead'[k]) = Len(ahead[k]) - 1
      /\ \A i \in 1..Len(ahead'[k]) :
           ahead'[k][i] = ahead[k][i + 1] /\ i + 1 \in 1..Len(ahead[k]) /\ i + 1 # 1
  <2>1. ahead[k] \in Seq(Batch)
    OBVIOUS
  <2> QED BY <1>2, <2>1, TailAt
<1>7. ASSUME NEW u \in todo'[k] PROVE Copy(k, u)'
  <2>1. u \in Targets /\ u \in todo[k] /\ Copy(k, u)
    BY <1>3, <1>7 DEF Turning
  <2>2. CASE u = t
    <3>1. kind \in {"reset", "lock"}
      BY <1>7, <2>2 DEF Turning
    <3>2. ahead[k][1].target = t /\ ahead[k][1].kind = kind
      BY <1>2
    <3>3. /\ \A m \in 1..Len(ahead[k]) : ahead[k][m].target = t => m = 1
          /\ behind[k][t] = 1 => sched[t] = Effect(kind, seen[k][t])
      BY <1>2, <2>1, <2>2, <3>1, <3>2 DEF Copy
    <3>4. \A i \in 1..Len(ahead'[k]) : ahead'[k][i].target # t
      BY <1>6, <3>3
    <3>5. behind'[k][t] = behind[k][t] - 1
      BY <1>2, <3>1
    <3>6. behind'[k][t] = 0 => behind[k][t] = 1
      BY <1>2, <3>5
    <3>7. seen'[k][t] = Effect(kind, seen[k][t])
      BY <1>2, <1>4, <3>1 DEF Turning, Current
    <3> QED BY <1>2, <2>2, <3>3, <3>4, <3>6, <3>7 DEF Copy
  <2>3. CASE u # t
    <3>1. behind'[k][u] = behind[k][u] /\ seen'[k][u] = seen[k][u] /\ sched'[u] = sched[u]
      BY <1>2, <1>4, <2>1, <2>3
    <3>2. ASSUME NEW i \in 1..Len(ahead'[k]), ahead'[k][i].target = u
          PROVE  /\ behind[k][u] >= 1
                 /\ \A m \in 1..Len(ahead'[k]) : ahead'[k][m].target = u => m = i
                 /\ behind[k][u] = 1 /\ ahead'[k][i].kind \in {"reset", "lock"} =>
                      sched[u] = Effect(ahead'[k][i].kind, seen[k][u])
      <4>1. i + 1 \in 1..Len(ahead[k]) /\ ahead'[k][i] = ahead[k][i + 1]
        BY <1>6
      <4>2. ASSUME NEW m \in 1..Len(ahead'[k]), ahead'[k][m].target = u PROVE m = i
        <5>1. m + 1 \in 1..Len(ahead[k]) /\ ahead'[k][m] = ahead[k][m + 1]
          BY <1>6
        <5>2. m + 1 = i + 1
          BY <2>1, <3>2, <4>1, <4>2, <5>1 DEF Copy
        <5> QED BY <5>2
      <4>3. /\ behind[k][u] >= 1
            /\ behind[k][u] = 1 /\ ahead[k][i + 1].kind \in {"reset", "lock"} =>
                 sched[u] = Effect(ahead[k][i + 1].kind, seen[k][u])
        BY <2>1, <3>2, <4>1 DEF Copy
      <4> QED BY <4>1, <4>2, <4>3
    <3>3. behind[k][u] = 0 => seen[k][u] = sched[u]
      BY <2>1 DEF Copy
    <3> QED BY <3>1, <3>2, <3>3 DEF Copy
  <2> QED BY <2>2, <2>3
<1>8. \A j \in Ticks : \A u \in todo'[j] : Copy(j, u)'
  BY <1>5, <1>7
<1> QED BY <1>8 DEF CopyInv, Copy

LEMMA TurningCopies ==
    ASSUME SchedIInv, NEW k \in Ticks, NEW t \in Targets, NEW kind, NEW row,
           Turning(k, t, kind, row)
    PROVE  CopyInv'
<1>1. CASE WriteLive(k, t, kind, row)
  BY <1>1 DEF WriteLive, Turning, CopyInv
<1>2. CASE WriteBatch(k, t, kind, row)
  BY <1>2, BatchCopies
<1>3. CASE Replay(k, t, kind, row)
  BY <1>3, ReplayCopies
<1> QED BY <1>1, <1>2, <1>3 DEF Turning, Write

---------------------------------------------------------------------------
(* The actions of a tick that write *)

LEMMA TurnsTheTarget ==
    ASSUME SchedTypeOK, TurnInv, NEW k \in Ticks, NEW t \in Targets,
           Turn(k, t) \/ (phase[k] \in {"reset", "fetch"} /\ at[k] = t)
    PROVE  t \in todo[k] /\ Alive(k)
BY DEF TurnInv, Turn, Alive, SchedTypeOK

LEMMA ResetTurns ==
    ASSUME SchedIInv, NEW k \in Ticks, NEW t \in Targets, ResetStale(k, t)
    PROVE  Turning(k, t, "reset", Effect("reset", Current(k, t)))
<1> DEFINE row == Effect("reset", Current(k, t))
<1>1. t \in todo[k] /\ Alive(k) /\ Current(k, t) \in Row
  BY TurnsTheTarget, CurrentTyped DEF SchedIInv, ResetStale, LooksStale
<1>2. row \in Row /\ Write(k, t, "reset", row)
  BY <1>1, EffectIs, EffectTyped DEF ResetStale
<1>3. \A j \in Ticks \ {k} : phase'[j] = phase[j] /\ at'[j] = at[j] /\ elapsed'[j] = elapsed[j]
  BY DEF ResetStale, SchedIInv, SchedTypeOK
<1>4. "reset" \in Kinds /\ "reset" \in {"reset", "lock"}
  BY DEF Kinds
<1>5. UNCHANGED <<backend, window, born, started, crashes, todo>>
  BY DEF ResetStale
<1> QED BY <1>1, <1>2, <1>3, <1>4, <1>5 DEF Turning

LEMMA LockTurns ==
    ASSUME SchedIInv, NEW k \in Ticks, NEW t \in Targets, Lock(k, t)
    PROVE  Turning(k, t, "lock", Effect("lock", Current(k, t)))
<1> DEFINE row == Effect("lock", Current(k, t))
<1>1. t \in todo[k] /\ Alive(k) /\ Current(k, t) \in Row
  BY TurnsTheTarget, CurrentTyped DEF SchedIInv, Lock, CanLock
<1>2. row \in Row /\ Write(k, t, "lock", row)
  BY <1>1, EffectIs, EffectTyped DEF Lock
<1>3. \A j \in Ticks \ {k} : phase'[j] = phase[j] /\ at'[j] = at[j] /\ elapsed'[j] = elapsed[j]
  BY DEF Lock, SchedIInv, SchedTypeOK
<1>4. "lock" \in Kinds /\ "lock" \in {"reset", "lock"}
  BY DEF Kinds
<1>5. UNCHANGED <<backend, window, born, started, crashes, todo>>
  BY DEF Lock
<1> QED BY <1>1, <1>2, <1>3, <1>4, <1>5 DEF Turning

LEMMA FinishTurns ==
    ASSUME SchedIInv, NEW k \in Ticks, NEW t \in Targets,
           NEW outcome \in {"success", "deferred", "error"}, Finish(k, t, outcome)
    PROVE  \E count \in 1..3, wait \in 0..LongestWait :
             /\ count = seen[k][t].errors + 1
             /\ Turning(k, t, outcome, Outcome(Current(k, t), outcome, count, wait))
<1> DEFINE count == seen[k][t].errors + 1
           base == CASE outcome = "success"  -> Frequency
                     [] outcome = "deferred" -> 1
                     [] outcome = "error"    -> Frequency * Doubling[count]
<1>1. t \in todo[k] /\ Alive(k) /\ Current(k, t) \in Row /\ NotPausedYet(Current(k, t))
  BY TurnsTheTarget, CurrentTyped
     DEF SchedIInv, Finish, Fetching, CountInv, Current, SchedTypeOK
<1>2. count \in 1..3
  <2>1. seen[k][t] \in Row /\ seen[k][t].errors <= 2
    BY DEF SchedIInv, SchedTypeOK, CountInv, NotPausedYet, Finish
  <2> QED BY <2>1, RowTyped
<1>3. PICK wait \in Waits(t, base) : Write(k, t, outcome, Outcome(Current(k, t), outcome, count, wait))
  BY DEF Finish
<1> HIDE DEF count
<1>4. wait \in 0..LongestWait
  BY <1>2, <1>3, WaitTyped
<1> DEFINE row == Outcome(Current(k, t), outcome, count, wait)
<1>5. row \in Row
  BY <1>1, <1>2, <1>4, OutcomeTyped
<1>6. outcome \in Kinds /\ outcome \notin {"reset", "lock"}
  BY DEF Kinds
<1>7. /\ \A j \in Ticks \ {k} : phase'[j] = phase[j] /\ at'[j] = at[j] /\ elapsed'[j] = elapsed[j]
      /\ todo' = [todo EXCEPT ![k] = todo[k] \ {t}]
      /\ UNCHANGED <<backend, window, born, started, crashes>>
  BY DEF Finish, Done, SchedIInv, SchedTypeOK
<1>8. Write(k, t, outcome, row)
  BY <1>3
<1> HIDE DEF row
<1>9. Turning(k, t, outcome, row)
  BY <1>1, <1>5, <1>6, <1>7, <1>8 DEF Turning
<1> QED BY <1>2, <1>4, <1>9 DEF row, count

---------------------------------------------------------------------------
(* The steps of the types *)

\* What the three actions do to the variables of the store.
LEMMA TurningTyped ==
    ASSUME SchedIInv, NEW k \in Ticks, NEW t \in Targets, NEW kind, NEW row,
           Turning(k, t, kind, row)
    PROVE  /\ backend' \in Backends /\ sched' \in [Targets -> Row] /\ window' \in Windows
           /\ used' \in BOOLEAN /\ started' \in 0..MaxStarts
           /\ todo' \in [Ticks -> SUBSET Targets] /\ seen' \in [Ticks -> [Targets -> Row]]
           /\ born' \in [Ticks -> Windows] /\ behind' \in [Ticks -> [Targets -> Nat]]
           /\ ahead' \in [Ticks -> Seq(Batch)] /\ crashes' \in 0..MaxCrashes
<1> USE DEF SchedIInv, SchedTypeOK
<1>1. UNCHANGED <<backend, window, born, started, crashes>> /\ todo' \in [Ticks -> SUBSET Targets]
      /\ kind \in Kinds /\ row \in Row
  BY DEF Turning
<1>2. sched' \in [Targets -> Row]
  BY StoreStep
<1>3. seen' \in [Ticks -> [Targets -> Row]]
  <2>1. Keep(k, t, kind, row)
    BY DEF Turning, Write, WriteLive, WriteBatch, Replay
  <2> QED BY <1>1, <2>1, KeepStep
<1>4. /\ used' \in BOOLEAN /\ behind' \in [Ticks -> [Targets -> Nat]]
      /\ ahead' \in [Ticks -> Seq(Batch)]
  <2>1. CASE WriteLive(k, t, kind, row)
    BY <2>1 DEF WriteLive
  <2>2. CASE WriteBatch(k, t, kind, row)
    BY <1>1, <2>2, OvertakeStep DEF WriteBatch
  <2>3. CASE Replay(k, t, kind, row)
    BY <1>1, <2>3, ReplayStep DEF Turning
  <2> QED BY <2>1, <2>2, <2>3 DEF Turning, Write
<1> QED BY <1>1, <1>2, <1>3, <1>4

LEMMA WindowsTyped ==
    /\ Cardinality(Ticks) \in Nat /\ 0 \in Windows /\ Windows \subseteq Nat
    /\ Foreign \in Batch
BY SchedulerAssumption, FS_CardinalityType DEF Windows, Batch

\* There is one window more than there are ticks that could have begun in it.
LEMMA FreshWindow ==
    ASSUME SchedTypeOK
    PROVE  \E w \in Windows : \A k \in Ticks : Alive(k) => born[k] # w
<1> DEFINE n == Cardinality(Ticks)
<1> SUFFICES ASSUME \A w \in Windows : \E k \in Ticks : born[k] = w
             PROVE  FALSE
  OBVIOUS
<1>1. IsFiniteSet(Ticks) /\ n \in Nat
  BY SchedulerAssumption, FS_CardinalityType
<1>2. born \in Surjection(Ticks, Windows)
  BY DEF SchedTypeOK, Surjection
<1>3. Cardinality(Windows) <= n
  BY <1>1, <1>2, FS_Surjection
<1>4. Cardinality(Windows) = n + 1
  BY <1>1, FS_Interval DEF Windows
<1> QED BY <1>1, <1>3, <1>4

LEMMA WindowIsFresh ==
    ASSUME SchedTypeOK, Pass
    PROVE  /\ window' \in Windows
           /\ backend = "postgres" => \A k \in Ticks : Alive(k) => born[k] # window'
<1>1. CASE backend = "sqlite"
  BY <1>1, WindowsTyped DEF Pass
<1>2. CASE backend # "sqlite"
  <2> DEFINE w == CHOOSE w \in Windows : \A k \in Ticks : Alive(k) => born[k] # w
  <2>1. w \in Windows /\ \A k \in Ticks : Alive(k) => born[k] # w
    BY FreshWindow
  <2> QED BY <1>2, <2>1 DEF Pass
<1> QED BY <1>1, <1>2

\* One period makes the rows and copies older and every batch foreign.
LEMMA PassStep ==
    ASSUME SchedTypeOK, Pass
    PROVE  /\ sched' \in [Targets -> Row] /\ seen' \in [Ticks -> [Targets -> Row]]
           /\ elapsed' \in [Ticks -> 0..LongestFetch] /\ ahead' \in [Ticks -> Seq(Batch)]
           /\ \A t \in Targets : sched'[t] = Older(sched[t])
           /\ \A k \in Ticks, t \in Targets : seen'[k][t] = Older(seen[k][t])
           /\ \A k \in Ticks : phase[k] = "fetch" => elapsed'[k] = elapsed[k] + 1
           /\ \A k \in Ticks : /\ Len(ahead[k]) \in Nat /\ Len(ahead'[k]) = Len(ahead[k])
                               /\ \A i \in 1..Len(ahead[k]) : ahead'[k][i] = Foreign
                               /\ ahead[k] = <<>> => ahead'[k] = <<>>
<1> USE DEF SchedTypeOK
<1>1. sched' \in [Targets -> Row] /\ \A t \in Targets : sched'[t] = Older(sched[t])
  BY OlderTyped DEF Pass
<1>2. ASSUME NEW k \in Ticks
      PROVE  /\ [t \in Targets |-> Older(seen[k][t])] \in [Targets -> Row]
             /\ \A t \in Targets : seen'[k][t] = Older(seen[k][t])
  BY OlderTyped DEF Pass
<1>3. seen' \in [Ticks -> [Targets -> Row]]
  BY <1>2 DEF Pass
<1>4. ASSUME NEW k \in Ticks
      PROVE  (IF phase[k] = "fetch" THEN elapsed[k] + 1 ELSE 0) \in 0..LongestFetch
  BY SchedulerAssumption DEF Pass
<1>5. elapsed' \in [Ticks -> 0..LongestFetch]
      /\ \A k \in Ticks : phase[k] = "fetch" => elapsed'[k] = elapsed[k] + 1
  BY <1>4 DEF Pass
<1>6. ASSUME NEW k \in Ticks
      PROVE  /\ [i \in DOMAIN ahead[k] |-> Foreign] \in Seq(Batch)
             /\ ahead'[k] = [i \in DOMAIN ahead[k] |-> Foreign]
             /\ Len(ahead[k]) \in Nat /\ Len(ahead'[k]) = Len(ahead[k])
             /\ \A i \in 1..Len(ahead[k]) : ahead'[k][i] = Foreign
             /\ ahead[k] = <<>> => ahead'[k] = <<>>
  <2> DEFINE s == ahead[k]
             e == Foreign
             r == [i \in DOMAIN s |-> e]
  <2>1. s \in Seq(Batch) /\ e \in Batch
    BY WindowsTyped
  <2>2. ahead'[k] = r
    BY DEF Pass
  <2> HIDE DEF s, e
  <2>3. DOMAIN s = 1..Len(s) /\ Len(s) \in Nat
    BY <2>1
  <2>4. r \in [1..Len(s) -> Batch]
    BY <2>1, <2>3
  <2>5. r \in Seq(Batch)
    BY <2>3, <2>4
  <2>6. Len(r) = Len(s) /\ \A i \in 1..Len(s) : r[i] = e
    BY <2>3, <2>5
  <2>7. s = <<>> => r = <<>>
    <3>1. s = <<>> => Len(r) = 0
      BY <2>6
    <3> QED BY <2>5, <3>1
  <2> QED BY <2>2, <2>3, <2>5, <2>6, <2>7 DEF s, e
<1>7. ahead' \in [Ticks -> Seq(Batch)]
  BY <1>6 DEF Pass
<1> QED BY <1>1, <1>2, <1>3, <1>5, <1>6, <1>7

\* A process that ends, or dies, has nothing left; the others are as before.
LEMMA LeaveStep ==
    ASSUME SchedTypeOK, NEW k \in Ticks, Leave(k)
    PROVE  /\ phase' \in [Ticks -> {"idle", "scan", "reset", "fetch"}]
           /\ at' \in [Ticks -> Targets \cup {None}] /\ todo' \in [Ticks -> SUBSET Targets]
           /\ seen' \in [Ticks -> [Targets -> Row]] /\ elapsed' \in [Ticks -> 0..LongestFetch]
           /\ born' \in [Ticks -> Windows] /\ behind' \in [Ticks -> [Targets -> Nat]]
           /\ ahead' \in [Ticks -> Seq(Batch)]
           /\ phase'[k] = "idle" /\ todo'[k] = {}
           /\ \A t \in Targets : seen'[k][t] = FreshRow
           /\ \A j \in Ticks \ {k} :
                /\ phase'[j] = phase[j] /\ at'[j] = at[j] /\ todo'[j] = todo[j]
                /\ seen'[j] = seen[j] /\ elapsed'[j] = elapsed[j] /\ born'[j] = born[j]
                /\ behind'[j] = behind[j] /\ ahead'[j] = ahead[j]
<1> USE DEF SchedTypeOK, Leave
<1>1. [t \in Targets |-> FreshRow] \in [Targets -> Row] /\ 0 \in 0..LongestFetch /\ 0 \in Windows
      /\ [t \in Targets |-> 0] \in [Targets -> Nat] /\ <<>> \in Seq(Batch)
  BY FreshRowTyped, WindowsTyped, SchedulerAssumption
<1>2. /\ phase' \in [Ticks -> {"idle", "scan", "reset", "fetch"}]
      /\ at' \in [Ticks -> Targets \cup {None}] /\ todo' \in [Ticks -> SUBSET Targets]
      /\ phase'[k] = "idle" /\ todo'[k] = {}
      /\ \A j \in Ticks \ {k} : phase'[j] = phase[j] /\ at'[j] = at[j] /\ todo'[j] = todo[j]
  OBVIOUS
<1>3. /\ seen' \in [Ticks -> [Targets -> Row]] /\ \A t \in Targets : seen'[k][t] = FreshRow
      /\ \A j \in Ticks \ {k} : seen'[j] = seen[j]
  BY <1>1
<1>4. /\ elapsed' \in [Ticks -> 0..LongestFetch] /\ born' \in [Ticks -> Windows]
      /\ behind' \in [Ticks -> [Targets -> Nat]]
      /\ \A j \in Ticks \ {k} :
           elapsed'[j] = elapsed[j] /\ born'[j] = born[j] /\ behind'[j] = behind[j]
  BY <1>1
<1>5. ahead' \in [Ticks -> Seq(Batch)] /\ \A j \in Ticks \ {k} : ahead'[j] = ahead[j]
  BY <1>1
<1> QED BY <1>2, <1>3, <1>4, <1>5

LEMMA BeginStep ==
    ASSUME SchedTypeOK, NEW k \in Ticks, Begin(k)
    PROVE  /\ phase' \in [Ticks -> {"idle", "scan", "reset", "fetch"}]
           /\ todo' \in [Ticks -> SUBSET Targets] /\ seen' \in [Ticks -> [Targets -> Row]]
           /\ born' \in [Ticks -> Windows] /\ ahead' \in [Ticks -> Seq(Batch)]
           /\ started' \in 0..MaxStarts
           /\ phase'[k] = "scan" /\ todo'[k] = Targets /\ seen'[k] = sched
           /\ backend = "postgres" => born'[k] = window
           /\ ahead'[k] = IF backend = "postgres" /\ used THEN <<Foreign>> ELSE <<>>
           /\ \A j \in Ticks \ {k} :
                /\ phase'[j] = phase[j] /\ todo'[j] = todo[j] /\ seen'[j] = seen[j]
                /\ born'[j] = born[j] /\ ahead'[j] = ahead[j]
           /\ phase[k] = "idle"
           /\ UNCHANGED <<backend, sched, window, used, at, elapsed, behind, crashes, overlap>>
<1> USE DEF SchedTypeOK, Begin
<1> DEFINE w == IF backend = "postgres" THEN window ELSE 0
           a == IF backend = "postgres" /\ used THEN <<Foreign>> ELSE <<>>
<1>1. w \in Windows /\ a \in Seq(Batch)
  BY WindowsTyped
<1>2. /\ phase' \in [Ticks -> {"idle", "scan", "reset", "fetch"}]
      /\ todo' \in [Ticks -> SUBSET Targets] /\ seen' \in [Ticks -> [Targets -> Row]]
      /\ phase'[k] = "scan" /\ todo'[k] = Targets /\ seen'[k] = sched
      /\ \A j \in Ticks \ {k} :
           phase'[j] = phase[j] /\ todo'[j] = todo[j] /\ seen'[j] = seen[j]
  OBVIOUS
<1>3. born' = [born EXCEPT ![k] = w] /\ ahead' = [ahead EXCEPT ![k] = a]
  OBVIOUS
<1>4. /\ born' \in [Ticks -> Windows] /\ ahead' \in [Ticks -> Seq(Batch)]
      /\ born'[k] = w /\ ahead'[k] = a
      /\ \A j \in Ticks \ {k} : born'[j] = born[j] /\ ahead'[j] = ahead[j]
  <2> HIDE DEF w, a, Begin
  <2>1. born \in [Ticks -> Windows] /\ ahead \in [Ticks -> Seq(Batch)]
    OBVIOUS
  <2>2. /\ born' \in [Ticks -> Windows] /\ born'[k] = w
        /\ \A j \in Ticks \ {k} : born'[j] = born[j]
    BY <1>1, <1>3, <2>1
  <2>3. /\ ahead' \in [Ticks -> Seq(Batch)] /\ ahead'[k] = a
        /\ \A j \in Ticks \ {k} : ahead'[j] = ahead[j]
    BY <1>1, <1>3, <2>1
  <2> QED BY <2>2, <2>3
<1>5. started' \in 0..MaxStarts
  BY SchedulerAssumption
<1> QED BY <1>2, <1>4, <1>5

LEMMA SkipStep ==
    ASSUME SchedTypeOK, NEW k \in Ticks, NEW t \in Targets, Skip(k, t)
    PROVE  /\ phase' \in [Ticks -> {"idle", "scan", "reset", "fetch"}]
           /\ at' \in [Ticks -> Targets \cup {None}] /\ todo' \in [Ticks -> SUBSET Targets]
           /\ seen' \in [Ticks -> [Targets -> Row]] /\ elapsed' \in [Ticks -> 0..LongestFetch]
           /\ behind' \in [Ticks -> [Targets -> Nat]]
           /\ phase'[k] = "scan" /\ todo'[k] = todo[k] \ {t} /\ seen'[k][t] = FreshRow
           /\ phase[k] \in {"scan", "reset"}
           /\ \A u \in Targets \ {t} : seen'[k][u] = seen[k][u] /\ behind'[k][u] = behind[k][u]
           /\ \A j \in Ticks \ {k} :
                /\ phase'[j] = phase[j] /\ at'[j] = at[j] /\ todo'[j] = todo[j]
                /\ seen'[j] = seen[j] /\ elapsed'[j] = elapsed[j] /\ behind'[j] = behind[j]
           /\ UNCHANGED <<backend, sched, window, used, started, born, ahead, crashes, overlap>>
<1> USE DEF SchedTypeOK, Skip, Done, Forget
<1>1. 0 \in 0..LongestFetch /\ FreshRow \in Row
  BY FreshRowTyped, SchedulerAssumption
<1>2. /\ phase' \in [Ticks -> {"idle", "scan", "reset", "fetch"}]
      /\ at' \in [Ticks -> Targets \cup {None}] /\ todo' \in [Ticks -> SUBSET Targets]
      /\ elapsed' \in [Ticks -> 0..LongestFetch]
      /\ phase'[k] = "scan" /\ todo'[k] = todo[k] \ {t}
      /\ \A j \in Ticks \ {k} : /\ phase'[j] = phase[j] /\ at'[j] = at[j]
                                /\ todo'[j] = todo[j] /\ elapsed'[j] = elapsed[j]
  BY <1>1
<1>3. /\ seen' = [seen EXCEPT ![k] = [seen[k] EXCEPT ![t] = FreshRow]]
      /\ behind' = [behind EXCEPT ![k] = [behind[k] EXCEPT ![t] = 0]]
  OBVIOUS
<1>4. /\ seen' \in [Ticks -> [Targets -> Row]] /\ seen'[k][t] = FreshRow
      /\ \A u \in Targets \ {t} : seen'[k][u] = seen[k][u]
      /\ \A j \in Ticks \ {k} : seen'[j] = seen[j]
  BY <1>1, <1>3
<1>5. /\ behind' \in [Ticks -> [Targets -> Nat]]
      /\ \A u \in Targets \ {t} : behind'[k][u] = behind[k][u]
      /\ \A j \in Ticks \ {k} : behind'[j] = behind[j]
  BY <1>3
<1>6. phase[k] \in {"scan", "reset"}
  BY DEF Turn
<1> QED BY <1>2, <1>4, <1>5, <1>6

\* Three ways to end a tick.
Leaving(k) == Refused(k) \/ End(k) \/ Crash(k)

LEMMA LeavingStep ==
    ASSUME SchedTypeOK, NEW k \in Ticks, Leaving(k)
    PROVE  /\ Leave(k) /\ crashes' \in 0..MaxCrashes /\ overlap' \subseteq overlap
           /\ \A t \in overlap : t \notin overlap' => \A j \in Ticks \ {k} : ~Fetching(j, t)
           /\ UNCHANGED <<backend, sched, window, used, started>>
<1> USE DEF SchedTypeOK
<1>1. CASE Refused(k)
  BY <1>1 DEF Refused
<1>2. CASE End(k)
  BY <1>2 DEF End
<1>3. CASE Crash(k)
  <2>1. crashes' \in 0..MaxCrashes
    BY <1>3, SchedulerAssumption DEF Crash
  <2> QED BY <1>3, <2>1 DEF Crash
<1> QED BY <1>1, <1>2, <1>3 DEF Leaving

\* Every step is one of these.
LEMMA Steps ==
    ASSUME SchedNext
    PROVE  \/ \E k \in Ticks : Begin(k) \/ Leaving(k)
           \/ \E k \in Ticks, t \in Targets : Skip(k, t) \/ ResetStale(k, t) \/ Lock(k, t)
           \/ \E k \in Ticks, t \in Targets, outcome \in {"success", "deferred", "error"} :
                Finish(k, t, outcome)
           \/ Pass
BY DEF SchedNext, Leaving

LEMMA TypeStep ==
    ASSUME SchedIInv, [SchedNext]_schvars
    PROVE  SchedTypeOK'
<1> SUFFICES ASSUME SchedNext PROVE SchedTypeOK'
  BY DEF schvars, local, SchedIInv, SchedTypeOK
<1> USE DEF SchedIInv, SchedTypeOK
<1>1. ASSUME NEW k \in Ticks, Begin(k) PROVE SchedTypeOK'
  BY <1>1, BeginStep
<1>2. ASSUME NEW k \in Ticks, Leaving(k) PROVE SchedTypeOK'
  BY <1>2, LeavingStep, LeaveStep
<1>3. ASSUME NEW k \in Ticks, NEW t \in Targets, Skip(k, t) PROVE SchedTypeOK'
  BY <1>3, SkipStep
<1>4. ASSUME NEW k \in Ticks, NEW t \in Targets, ResetStale(k, t) PROVE SchedTypeOK'
  <2>1. Turning(k, t, "reset", Effect("reset", Current(k, t)))
    BY <1>4, ResetTurns
  <2>2. /\ phase' \in [Ticks -> {"idle", "scan", "reset", "fetch"}]
        /\ at' \in [Ticks -> Targets \cup {None}] /\ elapsed' \in [Ticks -> 0..LongestFetch]
        /\ overlap' \subseteq Targets
    BY <1>4 DEF ResetStale
  <2> QED BY <2>1, <2>2, TurningTyped
<1>5. ASSUME NEW k \in Ticks, NEW t \in Targets, Lock(k, t) PROVE SchedTypeOK'
  <2>1. Turning(k, t, "lock", Effect("lock", Current(k, t)))
    BY <1>5, LockTurns
  <2>2. 0 \in 0..LongestFetch
    BY SchedulerAssumption
  <2>3. /\ phase' \in [Ticks -> {"idle", "scan", "reset", "fetch"}]
        /\ at' \in [Ticks -> Targets \cup {None}] /\ elapsed' \in [Ticks -> 0..LongestFetch]
        /\ overlap' \subseteq Targets
    BY <1>5, <2>2 DEF Lock
  <2> QED BY <2>1, <2>3, TurningTyped
<1>6. ASSUME NEW k \in Ticks, NEW t \in Targets,
             NEW outcome \in {"success", "deferred", "error"}, Finish(k, t, outcome)
      PROVE  SchedTypeOK'
  <2>1. PICK row : Turning(k, t, outcome, row)
    BY <1>6, FinishTurns
  <2>2. 0 \in 0..LongestFetch
    BY SchedulerAssumption
  <2>3. /\ phase' \in [Ticks -> {"idle", "scan", "reset", "fetch"}]
        /\ at' \in [Ticks -> Targets \cup {None}] /\ elapsed' \in [Ticks -> 0..LongestFetch]
        /\ overlap' \subseteq Targets
    BY <1>6, <2>2 DEF Finish, Done
  <2> QED BY <2>1, <2>3, TurningTyped
<1>7. ASSUME Pass PROVE SchedTypeOK'
  <2>1. used' \in BOOLEAN /\ started' \in 0..MaxStarts
        /\ UNCHANGED <<backend, phase, at, todo, born, behind, crashes, overlap>>
    <3>1. 0 \in 0..MaxStarts
      BY SchedulerAssumption
    <3>2. used' = FALSE /\ started' = 0
          /\ UNCHANGED <<backend, phase, at, todo, born, behind, crashes, overlap>>
      BY <1>7 DEF Pass
    <3> QED BY <3>1, <3>2
  <2> QED BY <1>7, <2>1, PassStep, WindowIsFresh
<1> HIDE DEF SchedIInv, SchedTypeOK
<1> QED BY <1>1, <1>2, <1>3, <1>4, <1>5, <1>6, <1>7, Steps

---------------------------------------------------------------------------
(* Where a tick is and how often a target has failed *)

\* After a commit with the lock, or the reset, the tick has the row as it was
\* apart from them; afterwards it has none.
LEMMA TurningSeen ==
    ASSUME SchedIInv, NEW k \in Ticks, NEW t \in Targets, NEW kind, NEW row,
           Turning(k, t, kind, row)
    PROVE  /\ \A j \in Ticks, u \in Targets : j # k \/ u # t => seen'[j][u] = seen[j][u]
           /\ kind \notin {"reset", "lock"} => seen'[k][t] = FreshRow
           /\ kind \in {"reset", "lock"} =>
                seen'[k][t] = IF backend = "sqlite" THEN seen[k][t] ELSE Effect(kind, seen[k][t])
<1>1. Keep(k, t, kind, row) /\ row \in Row
  BY DEF Turning, Write, WriteLive, WriteBatch, Replay
<1> QED BY <1>1, KeepStep DEF SchedIInv, Turning, Current

LEMMA TurningCounts ==
    ASSUME SchedIInv, NEW k \in Ticks, NEW t \in Targets, NEW kind, NEW row,
           Turning(k, t, kind, row), NotPausedYet(row)
    PROVE  /\ \A u \in Targets : NotPausedYet(sched'[u])
           /\ \A j \in Ticks, u \in Targets : NotPausedYet(seen'[j][u])
<1> USE DEF SchedIInv
<1>1. \A u \in Targets : NotPausedYet(sched'[u])
  BY StoreStep DEF CountInv
<1>2. ASSUME NEW j \in Ticks, NEW u \in Targets PROVE NotPausedYet(seen'[j][u])
  <2>1. NotPausedYet(seen[j][u]) /\ seen[j][u] \in Row
    BY DEF CountInv, SchedTypeOK
  <2>2. NotPausedYet(Effect(kind, seen[j][u]))
    BY <2>1, EffectTyped DEF NotPausedYet
  <2> QED BY <2>1, <2>2, TurningSeen, FreshRowTyped
<1> QED BY <1>1, <1>2

LEMMA CountStep ==
    ASSUME SchedIInv, [SchedNext]_schvars
    PROVE  CountInv'
<1> SUFFICES ASSUME SchedNext PROVE CountInv'
  BY DEF schvars, local, SchedIInv, CountInv, Fetching
<1> USE DEF SchedIInv
<1>0. /\ \A t \in Targets : NotPausedYet(sched[t]) /\ sched[t] \in Row
      /\ \A k \in Ticks, t \in Targets :
           /\ NotPausedYet(seen[k][t]) /\ seen[k][t] \in Row
           /\ Fetching(k, t) => seen[k][t].status # "paused"
  BY DEF CountInv, SchedTypeOK
<1>1. ASSUME NEW k \in Ticks, Begin(k) PROVE CountInv'
  BY <1>0, <1>1, BeginStep DEF CountInv, Fetching
<1>2. ASSUME NEW k \in Ticks, Leaving(k) PROVE CountInv'
  <2>1. ASSUME NEW j \in Ticks, NEW u \in Targets
        PROVE  NotPausedYet(seen'[j][u]) /\ (Fetching(j, u)' => seen'[j][u].status # "paused")
    <3>1. CASE j = k
      BY <1>2, <3>1, LeavingStep, LeaveStep, FreshRowTyped
    <3>2. CASE j # k
      <4>1. phase'[j] = phase[j] /\ at'[j] = at[j] /\ seen'[j] = seen[j]
        BY <1>2, <3>2, LeavingStep, LeaveStep
      <4> QED BY <1>0, <4>1 DEF Fetching
    <3> QED BY <3>1, <3>2
  <2> QED BY <1>0, <1>2, <2>1, LeavingStep DEF CountInv
<1>3. ASSUME NEW k \in Ticks, NEW t \in Targets, Skip(k, t) PROVE CountInv'
  <2>1. ASSUME NEW j \in Ticks, NEW u \in Targets
        PROVE  NotPausedYet(seen'[j][u]) /\ (Fetching(j, u)' => seen'[j][u].status # "paused")
    <3>1. CASE j = k
      <4>1. ~Fetching(j, u)' /\ (seen'[j][u] = FreshRow \/ seen'[j][u] = seen[j][u])
        BY <1>3, <3>1, SkipStep DEF Fetching
      <4> QED BY <1>0, <4>1, FreshRowTyped
    <3>2. CASE j # k
      <4>1. phase'[j] = phase[j] /\ at'[j] = at[j] /\ seen'[j] = seen[j]
        BY <1>3, <3>2, SkipStep
      <4> QED BY <1>0, <4>1 DEF Fetching
    <3> QED BY <3>1, <3>2
  <2> QED BY <1>0, <1>3, <2>1, SkipStep DEF CountInv
<1>4. ASSUME NEW k \in Ticks, NEW t \in Targets, ResetStale(k, t) PROVE CountInv'
  <2> DEFINE row == Effect("reset", Current(k, t))
  <2>1. Turning(k, t, "reset", row)
    BY <1>4, ResetTurns
  <2>2. NotPausedYet(row)
    <3>1. NotPausedYet(Current(k, t))
      BY <1>0 DEF Current
    <3> QED BY <3>1, CurrentTyped, EffectTyped DEF NotPausedYet
  <2>3. ASSUME NEW j \in Ticks, NEW u \in Targets, Fetching(j, u)'
        PROVE  seen'[j][u].status # "paused"
    <3>1. j # k /\ phase'[j] = phase[j] /\ at'[j] = at[j]
      BY <1>4, <2>1, <2>3 DEF ResetStale, Turning, Fetching, SchedTypeOK
    <3> QED BY <1>0, <2>1, <2>3, <3>1, TurningSeen DEF Fetching
  <2> QED BY <2>1, <2>2, <2>3, TurningCounts DEF CountInv
<1>5. ASSUME NEW k \in Ticks, NEW t \in Targets, Lock(k, t) PROVE CountInv'
  <2> DEFINE row == Effect("lock", Current(k, t))
  <2>1. Turning(k, t, "lock", row)
    BY <1>5, LockTurns
  <2>2. NotPausedYet(row)
    <3>1. NotPausedYet(Current(k, t))
      BY <1>0 DEF Current
    <3> QED BY <3>1, CurrentTyped, EffectTyped DEF NotPausedYet
  <2>3. ASSUME NEW j \in Ticks, NEW u \in Targets, Fetching(j, u)'
        PROVE  seen'[j][u].status # "paused"
    <3>1. CASE j # k
      <4>1. phase'[j] = phase[j] /\ at'[j] = at[j]
        BY <2>1, <3>1 DEF Turning
      <4> QED BY <1>0, <2>1, <2>3, <3>1, <4>1, TurningSeen DEF Fetching
    <3>2. CASE j = k
      <4>1. u = t
        BY <1>5, <2>3, <3>2 DEF Lock, Fetching, SchedTypeOK
      <4>2. seen[k][t].status # "paused" /\ Effect("lock", seen[k][t]).status = seen[k][t].status
        BY <1>0, <1>5, EffectTyped DEF Lock, CanLock
      <4> QED BY <2>1, <3>2, <4>1, <4>2, TurningSeen
    <3> QED BY <3>1, <3>2
  <2> QED BY <2>1, <2>2, <2>3, TurningCounts DEF CountInv
<1>6. ASSUME NEW k \in Ticks, NEW t \in Targets,
             NEW outcome \in {"success", "deferred", "error"}, Finish(k, t, outcome)
      PROVE  CountInv'
  <2>1. PICK count \in 1..3, wait \in 0..LongestWait :
          Turning(k, t, outcome, Outcome(Current(k, t), outcome, count, wait))
    BY <1>6, FinishTurns
  <2> DEFINE row == Outcome(Current(k, t), outcome, count, wait)
  <2>2. NotPausedYet(row)
    <3>1. NotPausedYet(Current(k, t))
      BY <1>0 DEF Current
    <3> QED BY <3>1, CurrentTyped, OutcomeTyped
  <2>3. Turning(k, t, outcome, row)
    BY <2>1
  <2> HIDE DEF row
  <2>4. ASSUME NEW j \in Ticks, NEW u \in Targets, Fetching(j, u)'
        PROVE  seen'[j][u].status # "paused"
    <3>1. j # k /\ phase'[j] = phase[j] /\ at'[j] = at[j]
      BY <1>6, <2>3, <2>4 DEF Finish, Done, Turning, Fetching, SchedTypeOK
    <3> QED BY <1>0, <2>3, <2>4, <3>1, TurningSeen DEF Fetching
  <2> QED BY <2>2, <2>3, <2>4, TurningCounts DEF CountInv
<1>7. ASSUME Pass PROVE CountInv'
  <2>1. \A r \in Row : NotPausedYet(r) => NotPausedYet(Older(r))
    BY OlderTyped DEF NotPausedYet
  <2>2. \A r \in Row : Older(r).status = r.status
    BY OlderTyped
  <2>3. phase' = phase /\ at' = at
    BY <1>7 DEF Pass
  <2>4. \A t \in Targets : NotPausedYet(sched'[t])
    BY <1>0, <1>7, <2>1, PassStep
  <2>5. ASSUME NEW k \in Ticks, NEW t \in Targets
        PROVE  NotPausedYet(seen'[k][t]) /\ (Fetching(k, t)' => seen'[k][t].status # "paused")
    <3>1. seen'[k][t] = Older(seen[k][t])
      BY <1>7, PassStep
    <3> QED BY <1>0, <2>1, <2>2, <2>3, <3>1 DEF Fetching
  <2> QED BY <2>4, <2>5 DEF CountInv
<1> QED BY <1>1, <1>2, <1>3, <1>4, <1>5, <1>6, <1>7, Steps

LEMMA TurnStep ==
    ASSUME SchedIInv, [SchedNext]_schvars
    PROVE  TurnInv'
<1> SUFFICES ASSUME SchedNext PROVE TurnInv'
  BY DEF schvars, local, SchedIInv, TurnInv
<1> USE DEF SchedIInv
<1>1. ASSUME NEW k \in Ticks, Begin(k) PROVE TurnInv'
  BY <1>1, BeginStep DEF TurnInv
<1>2. ASSUME NEW k \in Ticks, Leaving(k) PROVE TurnInv'
  <2>1. phase'[k] = "idle" /\ todo'[k] = {}
        /\ \A j \in Ticks \ {k} : phase'[j] = phase[j] /\ at'[j] = at[j] /\ todo'[j] = todo[j]
    BY <1>2, LeavingStep, LeaveStep
  <2> QED BY <2>1 DEF TurnInv
<1>3. ASSUME NEW k \in Ticks, NEW t \in Targets, Skip(k, t) PROVE TurnInv'
  <2>1. phase'[k] = "scan"
        /\ \A j \in Ticks \ {k} : phase'[j] = phase[j] /\ at'[j] = at[j] /\ todo'[j] = todo[j]
    BY <1>3, SkipStep
  <2> QED BY <2>1 DEF TurnInv
<1>4. ASSUME NEW k \in Ticks, NEW t \in Targets, ResetStale(k, t) PROVE TurnInv'
  <2>1. Turning(k, t, "reset", Effect("reset", Current(k, t)))
    BY <1>4, ResetTurns
  <2>2. t \in todo[k] /\ todo' = todo
        /\ \A j \in Ticks \ {k} : phase'[j] = phase[j] /\ at'[j] = at[j]
    BY <2>1 DEF Turning
  <2>3. phase'[k] = "reset" /\ at'[k] = t
    BY <1>4 DEF ResetStale, SchedTypeOK
  <2> QED BY <2>2, <2>3 DEF TurnInv
<1>5. ASSUME NEW k \in Ticks, NEW t \in Targets, Lock(k, t) PROVE TurnInv'
  <2>1. Turning(k, t, "lock", Effect("lock", Current(k, t)))
    BY <1>5, LockTurns
  <2>2. t \in todo[k] /\ todo' = todo
        /\ \A j \in Ticks \ {k} : phase'[j] = phase[j] /\ at'[j] = at[j]
    BY <2>1 DEF Turning
  <2>3. phase'[k] = "fetch" /\ at'[k] = t
    BY <1>5 DEF Lock, SchedTypeOK
  <2> QED BY <2>2, <2>3 DEF TurnInv
<1>6. ASSUME NEW k \in Ticks, NEW t \in Targets,
             NEW outcome \in {"success", "deferred", "error"}, Finish(k, t, outcome)
      PROVE  TurnInv'
  <2>1. /\ phase'[k] = "scan" /\ todo' = [todo EXCEPT ![k] = todo[k] \ {t}]
        /\ \A j \in Ticks \ {k} : phase'[j] = phase[j] /\ at'[j] = at[j]
    BY <1>6 DEF Finish, Done, SchedTypeOK
  <2>2. todo \in [Ticks -> SUBSET Targets]
    BY DEF SchedTypeOK
  <2>3. \A j \in Ticks \ {k} : todo'[j] = todo[j]
    BY <2>1, <2>2
  <2> QED BY <2>1, <2>3 DEF TurnInv
<1>7. ASSUME Pass PROVE TurnInv'
  BY <1>7 DEF Pass, TurnInv
<1> QED BY <1>1, <1>2, <1>3, <1>4, <1>5, <1>6, <1>7, Steps

LEMMA CopyStep ==
    ASSUME SchedIInv, [SchedNext]_schvars
    PROVE  CopyInv'
<1> SUFFICES ASSUME SchedNext PROVE CopyInv'
  BY DEF schvars, local, SchedIInv, CopyInv
<1> USE DEF SchedIInv
<1>0. backend' = backend /\ (backend = "postgres" => \A j \in Ticks : \A u \in todo[j] : Copy(j, u))
  <2>1. backend' = backend
    BY Steps DEF Leaving, Begin, Refused, End, Crash, Skip, ResetStale, Lock, Finish, Pass
  <2>2. backend = "postgres" => \A j \in Ticks : \A u \in todo[j] : Copy(j, u)
    BY DEF CopyInv, Copy
  <2> QED BY <2>1, <2>2
<1>1. ASSUME NEW k \in Ticks, Begin(k) PROVE CopyInv'
  <2> SUFFICES ASSUME backend = "postgres", NEW j \in Ticks, NEW u \in todo'[j]
               PROVE  Copy(j, u)'
    BY <1>0 DEF CopyInv, Copy
  <2>1. CASE j = k
    <3>1. u \in Targets /\ seen'[k] = sched /\ sched' = sched
          /\ (ahead'[k] = <<Foreign>> \/ ahead'[k] = <<>>)
      BY <1>1, <2>1, BeginStep
    <3>2. <<Foreign>>[1] = Foreign /\ Len(<<Foreign>>) = 1
      OBVIOUS
    <3>3. \A i \in 1..Len(ahead'[k]) : ahead'[k][i].target # u
      <4>1. Foreign.target # u
        BY <3>1, ForeignIsNone
      <4> QED BY <3>1, <3>2, <4>1
    <3> QED BY <2>1, <3>1, <3>3 DEF Copy
  <2>2. CASE j # k
    <3>1. /\ u \in todo[j] /\ seen'[j] = seen[j] /\ ahead'[j] = ahead[j] /\ behind' = behind
          /\ sched' = sched
      BY <1>1, <2>2, BeginStep
    <3> QED BY <1>0, <3>1 DEF Copy
  <2> QED BY <2>1, <2>2
<1>2. ASSUME NEW k \in Ticks, Leaving(k) PROVE CopyInv'
  <2> SUFFICES ASSUME backend = "postgres", NEW j \in Ticks, NEW u \in todo'[j]
               PROVE  Copy(j, u)'
    BY <1>0 DEF CopyInv, Copy
  <2>1. /\ j # k /\ u \in todo[j] /\ seen'[j] = seen[j] /\ ahead'[j] = ahead[j]
        /\ behind'[j] = behind[j] /\ sched' = sched
    BY <1>2, LeavingStep, LeaveStep
  <2> QED BY <1>0, <2>1 DEF Copy
<1>3. ASSUME NEW k \in Ticks, NEW t \in Targets, Skip(k, t) PROVE CopyInv'
  <2> SUFFICES ASSUME backend = "postgres", NEW j \in Ticks, NEW u \in todo'[j]
               PROVE  Copy(j, u)'
    BY <1>0 DEF CopyInv, Copy
  <2>1. u \in Targets
    BY <1>3, SkipStep
  <2>2. /\ u \in todo[j] /\ seen'[j][u] = seen[j][u] /\ ahead' = ahead
        /\ behind'[j][u] = behind[j][u] /\ sched' = sched
    BY <1>3, <2>1, SkipStep
  <2> QED BY <1>0, <2>2 DEF Copy
<1>4. ASSUME NEW k \in Ticks, NEW t \in Targets, ResetStale(k, t) PROVE CopyInv'
  BY <1>4, ResetTurns, TurningCopies
<1>5. ASSUME NEW k \in Ticks, NEW t \in Targets, Lock(k, t) PROVE CopyInv'
  BY <1>5, LockTurns, TurningCopies
<1>6. ASSUME NEW k \in Ticks, NEW t \in Targets,
             NEW outcome \in {"success", "deferred", "error"}, Finish(k, t, outcome)
      PROVE  CopyInv'
  <2>1. PICK row : Turning(k, t, outcome, row)
    BY <1>6, FinishTurns
  <2> QED BY <2>1, TurningCopies
<1>7. ASSUME Pass PROVE CopyInv'
  <2> SUFFICES ASSUME backend = "postgres", NEW j \in Ticks, NEW u \in todo'[j]
               PROVE  Copy(j, u)'
    BY <1>0 DEF CopyInv, Copy
  <2>1. todo' = todo /\ behind' = behind /\ u \in Targets
    BY <1>7 DEF Pass, SchedTypeOK
  <2>2. behind'[j][u] = 0 => seen'[j][u] = sched'[u]
    BY <1>0, <1>7, <2>1, PassStep DEF Copy
  <2>3. \A i \in 1..Len(ahead'[j]) : ahead'[j][i].target # u
    <3>1. Foreign.target # u
      BY <2>1, ForeignIsNone
    <3>2. \A i \in 1..Len(ahead'[j]) : ahead'[j][i] = Foreign
      BY <1>7, PassStep
    <3> QED BY <3>1, <3>2
  <2> QED BY <2>2, <2>3 DEF Copy
<1> QED BY <1>1, <1>2, <1>3, <1>4, <1>5, <1>6, <1>7, Steps

---------------------------------------------------------------------------
(* The lock, and the tick that is alone with it *)

LEMMA HoldsStep ==
    ASSUME SchedIInv, [SchedNext]_schvars
    PROVE  FetchHoldsLock'
<1> SUFFICES ASSUME SchedNext PROVE FetchHoldsLock'
  BY DEF schvars, local, SchedIInv, FetchHoldsLock, Fetching
<1> USE DEF SchedIInv
<1>0. ASSUME NEW k \in Ticks, NEW t \in Targets \ overlap, Fetching(k, t)
      PROVE  sched[t].running /\ \A j \in Ticks \ {k} : ~Fetching(j, t)
  BY <1>0 DEF FetchHoldsLock
\* Enough that whoever fetches t afterwards did so before, alone, under a lock
\* that stays.
<1> DEFINE Kept(t) == /\ \A i \in Ticks : Fetching(i, t)' => Fetching(i, t)
                      /\ t \notin overlap
                      /\ sched'[t].running = sched[t].running
           Nobody(t) == \A i \in Ticks : ~Fetching(i, t)'
<1>a. ASSUME \A t \in Targets : t \notin overlap' => Kept(t) \/ Nobody(t)
      PROVE  FetchHoldsLock'
  BY <1>0, <1>a DEF FetchHoldsLock
<1> HIDE DEF Kept, Nobody
<1>1. ASSUME NEW k \in Ticks, Begin(k) PROVE FetchHoldsLock'
  <2>1. \A t \in Targets : t \notin overlap' => Kept(t)
    BY <1>1, BeginStep DEF Kept, Fetching
  <2> QED BY <1>a, <2>1
<1>2. ASSUME NEW k \in Ticks, Leaving(k) PROVE FetchHoldsLock'
  <2>1. /\ phase'[k] = "idle" /\ sched' = sched /\ overlap' \subseteq overlap
        /\ \A j \in Ticks \ {k} : phase'[j] = phase[j] /\ at'[j] = at[j]
        /\ \A t \in overlap : t \notin overlap' => \A j \in Ticks \ {k} : ~Fetching(j, t)
    BY <1>2, LeavingStep, LeaveStep
  <2>2. ASSUME NEW t \in Targets, t \notin overlap' PROVE Kept(t) \/ Nobody(t)
    <3>1. CASE t \in overlap
      BY <2>1, <2>2, <3>1 DEF Nobody, Fetching
    <3>2. CASE t \notin overlap
      BY <2>1, <3>2 DEF Kept, Fetching
    <3> QED BY <3>1, <3>2
  <2> QED BY <1>a, <2>2
<1>3. ASSUME NEW k \in Ticks, NEW t \in Targets, Skip(k, t) PROVE FetchHoldsLock'
  <2>1. /\ phase'[k] = "scan" /\ sched' = sched /\ overlap' = overlap
        /\ \A j \in Ticks \ {k} : phase'[j] = phase[j] /\ at'[j] = at[j]
    BY <1>3, SkipStep
  <2>2. \A u \in Targets : u \notin overlap' => Kept(u)
    BY <2>1 DEF Kept, Fetching
  <2> QED BY <1>a, <2>2
<1>4. ASSUME NEW k \in Ticks, NEW t \in Targets, ResetStale(k, t) PROVE FetchHoldsLock'
  <2>1. Turning(k, t, "reset", Effect("reset", Current(k, t)))
    BY <1>4, ResetTurns
  <2>2. /\ \A j \in Ticks \ {k} : phase'[j] = phase[j] /\ at'[j] = at[j]
        /\ \A u \in Targets \ {t} : sched'[u] = sched[u]
    BY <2>1, StoreStep DEF Turning
  <2>3. phase'[k] = "reset" /\ overlap \subseteq overlap'
        /\ overlap' = IF \E j \in Ticks : Fetching(j, t) THEN overlap \cup {t} ELSE overlap
    BY <1>4 DEF ResetStale, SchedTypeOK
  <2>4. ASSUME NEW u \in Targets, u \notin overlap' PROVE Kept(u) \/ Nobody(u)
    <3>1. CASE u = t
      BY <2>2, <2>3, <2>4, <3>1 DEF Nobody, Fetching
    <3>2. CASE u # t
      BY <2>2, <2>3, <2>4, <3>2 DEF Kept, Fetching
    <3> QED BY <3>1, <3>2
  <2> QED BY <1>a, <2>4
<1>5. ASSUME NEW k \in Ticks, NEW t \in Targets, Lock(k, t) PROVE FetchHoldsLock'
  <2> DEFINE row == Effect("lock", Current(k, t))
  <2>1. Turning(k, t, "lock", row)
    BY <1>5, LockTurns
  <2>2. /\ \A j \in Ticks \ {k} : phase'[j] = phase[j] /\ at'[j] = at[j]
        /\ \A u \in Targets \ {t} : sched'[u] = sched[u]
    BY <2>1, StoreStep DEF Turning
  <2>3. phase'[k] = "fetch" /\ at'[k] = t /\ overlap \subseteq overlap'
    BY <1>5 DEF Lock, SchedTypeOK
  <2>4. row.running = TRUE
    BY CurrentTyped, EffectTyped
  <2>5. ASSUME t \notin overlap'
        PROVE  sched'[t].running /\ \A j \in Ticks \ {k} : ~Fetching(j, t)'
    <3>1. ~Replay(k, t, "lock", row)
      BY <1>5, <2>5 DEF Replay, Lock
    <3>2. Current(k, t) = sched[t] /\ sched'[t] = row
      BY <2>1, <3>1, StoreStep
    <3>3. ~sched[t].running
      BY <1>5, <3>2 DEF Lock, CanLock, MayLock
    <3>4. \A j \in Ticks : ~Fetching(j, t)
      BY <1>0, <2>3, <2>5, <3>3
    <3> QED BY <2>2, <2>4, <3>2, <3>4 DEF Fetching
  <2>6. ASSUME NEW u \in Targets \ {t}, u \notin overlap', NEW i \in Ticks, Fetching(i, u)'
        PROVE  sched'[u].running /\ \A j \in Ticks \ {i} : ~Fetching(j, u)'
    <3>1. \A j \in Ticks : Fetching(j, u)' => Fetching(j, u)
      BY <2>2, <2>3 DEF Fetching
    <3> QED BY <1>0, <2>2, <2>3, <2>6, <3>1
  <2>7. ASSUME NEW i \in Ticks, Fetching(i, t)', t \notin overlap' PROVE i = k
    BY <2>5, <2>7
  <2> QED BY <2>5, <2>6, <2>7 DEF FetchHoldsLock
<1>6. ASSUME NEW k \in Ticks, NEW t \in Targets,
             NEW outcome \in {"success", "deferred", "error"}, Finish(k, t, outcome)
      PROVE  FetchHoldsLock'
  <2>1. PICK row : Turning(k, t, outcome, row)
    BY <1>6, FinishTurns
  <2>2. /\ \A j \in Ticks \ {k} : phase'[j] = phase[j] /\ at'[j] = at[j]
        /\ \A u \in Targets \ {t} : sched'[u] = sched[u]
    BY <2>1, StoreStep DEF Turning
  <2>3. /\ phase'[k] = "scan" /\ Fetching(k, t)
        /\ overlap' = IF \E j \in Ticks \ {k} : Fetching(j, t) THEN overlap ELSE overlap \ {t}
    BY <1>6 DEF Finish, Done, SchedTypeOK
  <2>4. ASSUME NEW u \in Targets, u \notin overlap' PROVE Kept(u) \/ Nobody(u)
    <3>1. CASE u = t
      <4>1. \A j \in Ticks \ {k} : ~Fetching(j, t)
        BY <1>0, <2>3, <2>4, <3>1
      <4> QED BY <2>2, <2>3, <3>1, <4>1 DEF Nobody, Fetching
    <3>2. CASE u # t
      BY <2>2, <2>3, <2>4, <3>2 DEF Kept, Fetching
    <3> QED BY <3>1, <3>2
  <2> QED BY <1>a, <2>4
<1>7. ASSUME Pass PROVE FetchHoldsLock'
  <2>1. phase' = phase /\ at' = at /\ overlap' = overlap
    BY <1>7 DEF Pass
  <2>2. ASSUME NEW t \in Targets PROVE sched'[t].running = sched[t].running
    <3>1. sched[t] \in Row /\ sched'[t] = Older(sched[t])
      BY <1>7, PassStep DEF SchedTypeOK
    <3> QED BY <3>1, OlderTyped
  <2>3. \A t \in Targets : t \notin overlap' => Kept(t)
    BY <2>1, <2>2 DEF Kept, Fetching
  <2> QED BY <1>a, <2>3
<1> QED BY <1>1, <1>2, <1>3, <1>4, <1>5, <1>6, <1>7, Steps

LEMMA BarredIsNotEmpty ==
    ASSUME SchedTypeOK, NEW j \in Ticks, NEW t \in Targets, Barred(j, t)
    PROVE  ahead[j] # <<>>
BY DEF Barred, SchedTypeOK

\* A write of another tick to another target leaves the lead: that tick is of
\* another window, or it replays a batch and is still behind the lock.
LEMMA OthersKeepLead ==
    ASSUME SchedIInv, backend = "postgres",
           NEW j \in Ticks, NEW u \in Targets, NEW kind, NEW row, Turning(j, u, kind, row),
           \A i \in Ticks : Alive(i)' => Alive(i),
           NEW k \in Ticks \ {j}, NEW t \in Targets \ {u}, Alone(k, t)
    PROVE  Leads(k, t)'
<1> USE DEF SchedIInv, SchedTypeOK
<1>1. /\ ahead[k] = <<>> /\ behind[k][t] = 0 /\ sched[t].age <= elapsed[k]
      /\ born[k] = window => used
      /\ \A i \in Ticks \ {k} : Alive(i) /\ born[i] = born[k] => Barred(i, t)
  BY DEF LeadInv, Leads
<1>2. /\ kind \in Kinds /\ Alive(j) /\ u \in todo[j] /\ elapsed'[k] = elapsed[k]
      /\ born' = born /\ window' = window
  BY DEF Turning
<1>3. sched'[t] = sched[t]
  BY StoreStep
<1>4. CASE WriteBatch(j, u, kind, row)
  <2>1. ahead[j] = <<>> /\ Overtake(j, u, kind)
    BY <1>4 DEF WriteBatch
  <2>2. born[j] # born[k]
    BY <1>1, <1>2, <2>1, BarredIsNotEmpty
  <2>3. /\ used => used'
        /\ \A i \in Ticks : born[i] = born[k] => ahead'[i] = ahead[i]
        /\ behind'[k][t] = behind[k][t]
    BY <1>2, <2>1, <2>2, OvertakeStep
  <2>4. ASSUME NEW i \in Ticks \ {k}, Alive(i)', born[i] = born[k] PROVE Barred(i, t)'
    <3>1. Barred(i, t) /\ ahead'[i] = ahead[i]
      BY <1>1, <2>3, <2>4
    <3> QED BY <3>1 DEF Barred
  <2> QED BY <1>1, <1>2, <1>3, <2>3, <2>4 DEF Leads
<1>5. CASE Replay(j, u, kind, row)
  <2>1. /\ ahead[j] # <<>> /\ ahead[j][1] = [target |-> u, kind |-> kind]
        /\ ahead'[j] = Tail(ahead[j]) /\ used' = used
        /\ \A i \in Ticks \ {j} : ahead'[i] = ahead[i]
        /\ behind'[k][t] = behind[k][t]
    BY <1>2, <1>5, ReplayStep
  <2>2. ASSUME NEW i \in Ticks \ {k}, Alive(i)', born[i] = born[k] PROVE Barred(i, t)'
    <3>1. Barred(i, t)
      BY <1>1, <2>2
    <3>2. CASE i # j
      <4>1. ahead'[i] = ahead[i]
        BY <2>1, <3>2
      <4> QED BY <3>1, <4>1 DEF Barred
    <3>3. CASE i = j
      <4> DEFINE s == ahead[j]
      <4>1. s \in Seq(Batch) /\ s # <<>>
        BY <2>1
      <4>2. s[Len(s)] \in {Foreign, [target |-> t, kind |-> "lock"]}
        BY <3>1, <3>3 DEF Barred
      <4>3. s[1] # Foreign /\ s[1] # [target |-> t, kind |-> "lock"]
        <5>1. s[1].target = u /\ Foreign.target # u /\ [target |-> t, kind |-> "lock"].target # u
          BY <2>1, ForeignIsNone
        <5> QED BY <5>1
      <4>4. Len(s) \in Nat /\ Len(s) # 1 /\ Len(s) > 0
        BY <4>1, <4>2, <4>3, TailAt
      <4>5. Len(Tail(s)) > 0 /\ Tail(s)[Len(Tail(s))] = s[Len(s)]
        <5>1. /\ Len(Tail(s)) = Len(s) - 1
              /\ \A m \in 1..Len(Tail(s)) : Tail(s)[m] = s[m + 1]
          BY <4>1, TailAt
        <5> DEFINE n == Len(Tail(s))
        <5>2. n \in 1..n /\ n + 1 = Len(s) /\ n > 0
          <6> DEFINE l == Len(s)
          <6>1. l \in Nat /\ l # 1 /\ l > 0 /\ n = l - 1
            BY <4>4, <5>1
          <6> HIDE DEF n, l
          <6>2. n \in Nat /\ n > 0 /\ n + 1 = l
            BY <6>1
          <6>3. n \in 1..n
            BY <6>2
          <6> QED BY <6>2, <6>3 DEF l
        <5>3. Tail(s)[n] = s[n + 1]
          BY <5>1, <5>2
        <5> QED BY <5>2, <5>3
      <4>6. ahead'[i] = Tail(s)
        BY <2>1, <3>3
      <4> QED BY <4>2, <4>5, <4>6 DEF Barred
    <3> QED BY <3>2, <3>3
  <2>3. ahead'[k] = ahead[k]
    BY <2>1
  <2> QED BY <1>1, <1>2, <1>3, <2>1, <2>2, <2>3 DEF Leads
<1> QED BY <1>4, <1>5, SchedulerAssumption DEF Turning, Write, WriteLive

\* Who takes the lock, and not by a replay, takes the lead.
LEMMA LockLeads ==
    ASSUME SchedIInv, backend = "postgres", NEW k \in Ticks, NEW t \in Targets, Lock(k, t),
           t \notin overlap'
    PROVE  Leads(k, t)'
<1> USE DEF SchedIInv, SchedTypeOK
<1> DEFINE row == Effect("lock", Current(k, t))
<1>1. Turning(k, t, "lock", row)
  BY LockTurns
<1>2. WriteBatch(k, t, "lock", row)
  BY <1>1 DEF Lock, Turning, Write, WriteLive, Replay
<1>3. /\ ahead[k] = <<>> /\ behind[k][t] = 0 /\ Overtake(k, t, "lock")
      /\ "lock" \in Kinds /\ born' = born /\ window' = window
  BY <1>1, <1>2 DEF WriteBatch, Turning
<1>4. /\ ahead'[k] = <<>> /\ behind'[k][t] = 0 /\ (born[k] = window => used')
  BY <1>3, OvertakeStep
<1>5. sched'[t] = row /\ row.age = 0 /\ elapsed'[k] = 0
  <2>1. sched'[t] = row
    BY <1>2 DEF WriteBatch
  <2>2. row.age = 0
    BY CurrentTyped, EffectTyped
  <2> QED BY <2>1, <2>2 DEF Lock
<1>6. ASSUME NEW j \in Ticks \ {k}, Alive(j)', born[j] = born[k] PROVE Barred(j, t)'
  <2>1. Alive(j)
    BY <1>1, <1>6 DEF Turning, Alive
  <2>2. PICK e \in Batch : /\ ahead'[j] = Append(ahead[j], e)
                           /\ e \in {Foreign, [target |-> t, kind |-> "lock"]}
    <3>1. \E e \in Batch :
            /\ ahead'[j] = Append(ahead[j], e)
            /\ e = Foreign \/ (e = [target |-> t, kind |-> "lock"] /\ t \in todo[j]
                                /\ behind[j][t] = 0)
      BY <1>3, <1>6, <2>1, OvertakeStep
    <3> QED BY <3>1
  <2>3. ahead[j] \in Seq(Batch)
    OBVIOUS
  <2>4. Len(ahead'[j]) > 0 /\ ahead'[j][Len(ahead'[j])] = e
    BY <2>2, <2>3, AppendAt
  <2> QED BY <2>2, <2>4 DEF Barred
<1> QED BY <1>3, <1>4, <1>5, <1>6 DEF Leads

LEMMA LeadStep ==
    ASSUME SchedIInv, [SchedNext]_schvars
    PROVE  LeadInv'
<1> SUFFICES ASSUME SchedNext PROVE LeadInv'
  BY DEF schvars, local, SchedIInv, LeadInv, Leads, Barred, Alone, Alive, Fetching
<1> USE DEF SchedIInv
<1>0. ASSUME NEW k \in Ticks, NEW t \in Targets, Alone(k, t)
      PROVE  /\ Leads(k, t) /\ Alive(k)
             /\ \A j \in Ticks \ {k} : ~Fetching(j, t)
  BY <1>0 DEF LeadInv, FetchHoldsLock, Alone, Alive, Fetching
<1>1. ASSUME NEW j \in Ticks, Begin(j) PROVE LeadInv'
  <2> SUFFICES ASSUME NEW k \in Ticks, NEW t \in Targets, Alone(k, t)' PROVE Leads(k, t)'
    BY DEF LeadInv
  <2>1. /\ phase'[j] = "scan" /\ backend' = backend /\ sched' = sched /\ window' = window
        /\ used' = used /\ at' = at /\ elapsed' = elapsed /\ behind' = behind /\ overlap' = overlap
        /\ backend = "postgres" => born'[j] = window
        /\ ahead'[j] = IF backend = "postgres" /\ used THEN <<Foreign>> ELSE <<>>
        /\ \A i \in Ticks \ {j} : phase'[i] = phase[i] /\ born'[i] = born[i] /\ ahead'[i] = ahead[i]
    BY <1>1, BeginStep
  <2>2. k # j /\ Alone(k, t) /\ backend = "postgres"
    BY <2>1 DEF Alone, Fetching
  <2>3. Leads(k, t)
    BY <1>0, <2>2
  <2>4. ASSUME NEW i \in Ticks \ {k}, Alive(i)', born'[i] = born'[k] PROVE Barred(i, t)'
    <3>1. CASE i # j
      BY <2>1, <2>2, <2>3, <2>4, <3>1 DEF Leads, Barred, Alive
    <3>2. CASE i = j
      <4>1. ahead'[j] = <<Foreign>>
        BY <2>1, <2>2, <2>3, <2>4, <3>2 DEF Leads
      <4>2. Len(<<Foreign>>) = 1 /\ <<Foreign>>[1] = Foreign
        OBVIOUS
      <4> QED BY <3>2, <4>1, <4>2 DEF Barred
    <3> QED BY <3>1, <3>2
  <2> QED BY <2>1, <2>2, <2>3, <2>4 DEF Leads
<1>2. ASSUME NEW j \in Ticks, Leaving(j) PROVE LeadInv'
  <2> SUFFICES ASSUME NEW k \in Ticks, NEW t \in Targets, Alone(k, t)' PROVE Leads(k, t)'
    BY DEF LeadInv
  <2>1. /\ phase'[j] = "idle" /\ UNCHANGED <<backend, sched, window, used>>
        /\ overlap' \subseteq overlap
        /\ \A u \in overlap : u \notin overlap' => \A i \in Ticks \ {j} : ~Fetching(i, u)
        /\ \A i \in Ticks \ {j} :
             /\ phase'[i] = phase[i] /\ at'[i] = at[i] /\ elapsed'[i] = elapsed[i]
             /\ born'[i] = born[i] /\ behind'[i] = behind[i] /\ ahead'[i] = ahead[i]
    BY <1>2, LeavingStep, LeaveStep
  <2>2. k # j /\ Alone(k, t)
    BY <2>1 DEF Alone, Fetching
  <2>3. Leads(k, t)
    BY <1>0, <2>2
  <2>4. ASSUME NEW i \in Ticks \ {k}, Alive(i)', born'[i] = born'[k] PROVE Barred(i, t)'
    <3>1. i # j /\ Alive(i)
      BY <2>1, <2>4 DEF Alive
    <3> QED BY <2>1, <2>2, <2>3, <2>4, <3>1 DEF Leads, Barred
  <2> QED BY <2>1, <2>2, <2>3, <2>4 DEF Leads
<1>3. ASSUME NEW j \in Ticks, NEW u \in Targets, Skip(j, u) PROVE LeadInv'
  <2> SUFFICES ASSUME NEW k \in Ticks, NEW t \in Targets, Alone(k, t)' PROVE Leads(k, t)'
    BY DEF LeadInv
  <2>1. /\ phase'[j] = "scan" /\ phase[j] \in {"scan", "reset"}
        /\ UNCHANGED <<backend, sched, window, used, born, ahead, overlap>>
        /\ \A i \in Ticks \ {j} : /\ phase'[i] = phase[i] /\ at'[i] = at[i]
                                  /\ elapsed'[i] = elapsed[i] /\ behind'[i] = behind[i]
    BY <1>3, SkipStep
  <2>2. k # j /\ Alone(k, t)
    BY <2>1 DEF Alone, Fetching
  <2>3. Leads(k, t)
    BY <1>0, <2>2
  <2>4. ASSUME NEW i \in Ticks \ {k}, Alive(i)', born'[i] = born'[k] PROVE Barred(i, t)'
    <3>1. Alive(i)
      BY <2>1, <2>4 DEF Alive
    <3> QED BY <2>1, <2>2, <2>3, <2>4, <3>1 DEF Leads, Barred
  <2> QED BY <2>1, <2>2, <2>3, <2>4 DEF Leads
<1>4. ASSUME NEW j \in Ticks, NEW u \in Targets, ResetStale(j, u) PROVE LeadInv'
  <2> SUFFICES ASSUME NEW k \in Ticks, NEW t \in Targets, Alone(k, t)' PROVE Leads(k, t)'
    BY DEF LeadInv
  <2>1. Turning(j, u, "reset", Effect("reset", Current(j, u)))
    BY <1>4, ResetTurns
  <2>2. /\ backend' = backend /\ Alive(j)
        /\ \A i \in Ticks \ {j} : phase'[i] = phase[i] /\ at'[i] = at[i]
    BY <2>1 DEF Turning
  <2>3. /\ phase'[j] = "reset" /\ overlap \subseteq overlap'
        /\ (\E i \in Ticks : Fetching(i, u)) => u \in overlap'
    BY <1>4 DEF ResetStale, SchedTypeOK
  <2>4. k # j /\ Alone(k, t) /\ t # u /\ backend = "postgres"
    BY <2>2, <2>3 DEF Alone, Fetching
  <2>5. \A i \in Ticks : Alive(i)' => Alive(i)
    BY <2>2 DEF Alive
  <2> QED BY <2>1, <2>4, <2>5, OthersKeepLead
<1>5. ASSUME NEW j \in Ticks, NEW u \in Targets, Lock(j, u) PROVE LeadInv'
  <2> SUFFICES ASSUME NEW k \in Ticks, NEW t \in Targets, Alone(k, t)' PROVE Leads(k, t)'
    BY DEF LeadInv
  <2>1. Turning(j, u, "lock", Effect("lock", Current(j, u)))
    BY <1>5, LockTurns
  <2>2. /\ backend' = backend /\ Alive(j)
        /\ \A i \in Ticks \ {j} : phase'[i] = phase[i] /\ at'[i] = at[i]
    BY <2>1 DEF Turning
  <2>3. phase'[j] = "fetch" /\ at'[j] = u /\ overlap \subseteq overlap'
    BY <1>5 DEF Lock, SchedTypeOK
  <2>4. backend = "postgres" /\ t \notin overlap'
    BY <2>2 DEF Alone
  <2>5. CASE k = j
    <3>1. t = u
      BY <2>3, <2>5 DEF Alone, Fetching
    <3> QED BY <1>5, <2>4, <2>5, <3>1, LockLeads
  <2>6. CASE k # j
    <3>1. Alone(k, t)
      BY <2>2, <2>3, <2>6 DEF Alone, Fetching
    <3>2. Fetching(j, u)'
      BY <2>3 DEF Fetching
    <3>3. FetchHoldsLock'
      BY HoldsStep
    <3>4. t # u
      BY <2>4, <2>6, <3>2, <3>3 DEF FetchHoldsLock, Alone
    <3>5. \A i \in Ticks : Alive(i)' => Alive(i)
      BY <2>2 DEF Alive
    <3> QED BY <2>1, <2>4, <2>6, <3>1, <3>4, <3>5, OthersKeepLead
  <2> QED BY <2>5, <2>6
<1>6. ASSUME NEW j \in Ticks, NEW u \in Targets,
             NEW outcome \in {"success", "deferred", "error"}, Finish(j, u, outcome)
      PROVE  LeadInv'
  <2> SUFFICES ASSUME NEW k \in Ticks, NEW t \in Targets, Alone(k, t)' PROVE Leads(k, t)'
    BY DEF LeadInv
  <2>1. PICK row : Turning(j, u, outcome, row)
    BY <1>6, FinishTurns
  <2>2. /\ backend' = backend /\ Alive(j)
        /\ \A i \in Ticks \ {j} : phase'[i] = phase[i] /\ at'[i] = at[i]
    BY <2>1 DEF Turning
  <2>3. /\ phase'[j] = "scan" /\ Fetching(j, u)
        /\ overlap' = IF \E i \in Ticks \ {j} : Fetching(i, u) THEN overlap ELSE overlap \ {u}
    BY <1>6 DEF Finish, Done, SchedTypeOK
  <2>4. k # j /\ Fetching(k, t) /\ backend = "postgres" /\ t \notin overlap'
    BY <2>2, <2>3 DEF Alone, Fetching
  <2>5. t # u /\ Alone(k, t)
    <3>1. t \notin overlap
      BY <2>3, <2>4
    <3> QED BY <1>0, <2>3, <2>4, <3>1 DEF Alone
  <2>6. \A i \in Ticks : Alive(i)' => Alive(i)
    BY <2>2 DEF Alive
  <2> QED BY <2>1, <2>4, <2>5, <2>6, OthersKeepLead
<1>7. ASSUME Pass PROVE LeadInv'
  <2> SUFFICES ASSUME NEW k \in Ticks, NEW t \in Targets, Alone(k, t)' PROVE Leads(k, t)'
    BY DEF LeadInv
  <2>1. UNCHANGED <<backend, phase, at, born, behind, overlap>>
    BY <1>7 DEF Pass
  <2>2. Alone(k, t) /\ phase[k] = "fetch" /\ backend = "postgres"
    BY <2>1 DEF Alone, Fetching
  <2>3. Leads(k, t) /\ Alive(k)
    BY <1>0, <2>2
  <2>4. ahead'[k] = <<>> /\ behind'[k][t] = 0
    BY <1>7, <2>1, <2>3, PassStep DEF Leads
  <2>5. sched'[t].age <= elapsed'[k]
    <3>1. sched[t] \in Row /\ elapsed[k] \in Nat /\ sched[t].age <= elapsed[k]
      BY <2>3, SchedulerAssumption DEF SchedTypeOK, Leads
    <3>2. sched'[t].age \in {sched[t].age, sched[t].age + 1}
      BY <1>7, <3>1, PassStep, OlderTyped
    <3>3. elapsed'[k] = elapsed[k] + 1
      BY <1>7, <2>2, PassStep
    <3> QED BY <3>1, <3>2, <3>3, RowTyped
  <2>6. born'[k] # window'
    BY <1>7, <2>1, <2>2, <2>3, WindowIsFresh
  <2>7. ASSUME NEW i \in Ticks \ {k}, Alive(i)', born'[i] = born'[k] PROVE Barred(i, t)'
    <3>1. Barred(i, t)
      BY <2>1, <2>3, <2>7 DEF Leads, Alive
    <3>2. /\ Len(ahead[i]) \in Nat /\ Len(ahead'[i]) = Len(ahead[i])
          /\ \A m \in 1..Len(ahead[i]) : ahead'[i][m] = Foreign
      BY <1>7, PassStep
    <3>3. Len(ahead[i]) > 0
      BY <3>1 DEF Barred
    <3>4. Len(ahead[i]) \in 1..Len(ahead[i])
      BY <3>2, <3>3
    <3> QED BY <3>2, <3>3, <3>4 DEF Barred
  <2> QED BY <2>4, <2>5, <2>6, <2>7 DEF Leads
<1> QED BY <1>1, <1>2, <1>3, <1>4, <1>5, <1>6, <1>7, Steps

---------------------------------------------------------------------------
(* The theorems *)

LEMMA SchedIInit ==
    ASSUME SchedInit
    PROVE  SchedIInv
<1>1. FreshRow \in Row /\ NotPausedYet(FreshRow) /\ FreshRow.status # "paused"
  BY FreshRowTyped
<1>2. SchedTypeOK
  <2>1. 0 \in Windows /\ 0 \in 0..MaxStarts /\ 0 \in 0..LongestFetch /\ 0 \in 0..MaxCrashes
        /\ <<>> \in Seq(Batch)
    BY WindowsTyped, SchedulerAssumption
  <2>2. /\ sched \in [Targets -> Row] /\ seen \in [Ticks -> [Targets -> Row]]
        /\ phase \in [Ticks -> {"idle", "scan", "reset", "fetch"}]
        /\ at \in [Ticks -> Targets \cup {None}] /\ todo \in [Ticks -> SUBSET Targets]
    BY <1>1 DEF SchedInit
  <2>3. /\ elapsed \in [Ticks -> 0..LongestFetch] /\ born \in [Ticks -> Windows]
        /\ behind \in [Ticks -> [Targets -> Nat]] /\ ahead \in [Ticks -> Seq(Batch)]
    BY <2>1 DEF SchedInit
  <2> QED BY <2>1, <2>2, <2>3 DEF SchedInit, SchedTypeOK
<1>3. \A k \in Ticks : phase[k] = "idle" /\ todo[k] = {}
  BY DEF SchedInit
<1>4. CountInv
  BY <1>1, <1>3 DEF CountInv, Fetching, SchedInit
<1>5. TurnInv /\ CopyInv /\ LeadInv /\ FetchHoldsLock
  BY <1>3 DEF TurnInv, CopyInv, LeadInv, FetchHoldsLock, Alone, Fetching
<1> QED BY <1>2, <1>4, <1>5 DEF SchedIInv

LEMMA SchedIStep ==
    ASSUME SchedIInv, [SchedNext]_schvars
    PROVE  SchedIInv'
BY TypeStep, CountStep, TurnStep, CopyStep, LeadStep, HoldsStep DEF SchedIInv

\* The inductive invariant holds: where the ticks are, what their copies of the
\* rows lack, and what keeps the others of a window from a target being fetched.
THEOREM SchedInductive == SchedSpec => []SchedIInv
BY SchedIInit, SchedIStep, PTL DEF SchedSpec

\* The types, and: a fetch has the lock of its target, alone, unless the lock
\* was reset from a row read too early or granted twice by a replay.
THEOREM HoldsLock == SchedSpec => []SchedInv
<1>1. SchedIInv => SchedInv
  BY DEF SchedIInv, SchedInv
<1> QED BY <1>1, SchedInductive, PTL

\* On PostgreSQL the outcome of a fetch that is alone is not refused.
THEOREM OutcomeAccepted == SchedSpec => []OutcomeIsAccepted
<1>1. SchedIInv => OutcomeIsAccepted
  BY DEF SchedIInv, OutcomeIsAccepted, LeadInv, Leads, Alone, Refusable, SchedTypeOK
<1> QED BY <1>1, SchedInductive, PTL

\* What the steps do to a row of the table.
LEMMA RowStep ==
    ASSUME SchedIInv, SchedNext, NEW t \in Targets
    PROVE  \/ sched'[t] = sched[t]
           \/ sched'[t] = Older(sched[t])
           \/ \E k \in Ticks :
                /\ backend = "postgres" => seen[k][t] = sched[t]
                /\ \/ /\ ResetStale(k, t) /\ sched'[t] = Effect("reset", sched[t])
                   \/ /\ Lock(k, t) /\ sched'[t] = Effect("lock", sched[t])
                      /\ MayLock(sched[t])
                   \/ \E outcome \in {"success", "deferred", "error"}, count \in 1..3,
                         wait \in 0..LongestWait :
                        /\ Finish(k, t, outcome) /\ count = seen[k][t].errors + 1
                        /\ sched'[t] = Outcome(sched[t], outcome, count, wait)
<1>1. ASSUME NEW k \in Ticks, Begin(k) \/ Leaving(k) PROVE sched'[t] = sched[t]
  BY <1>1 DEF Leaving, Begin, Refused, End, Crash
<1>2. ASSUME NEW k \in Ticks, NEW u \in Targets, Skip(k, u) PROVE sched'[t] = sched[t]
  BY <1>2 DEF Skip
<1>3. ASSUME NEW k \in Ticks, NEW u \in Targets, NEW kind, NEW row, Turning(k, u, kind, row)
      PROVE  \/ sched'[t] = sched[t]
             \/ /\ u = t /\ sched'[t] = row /\ Current(k, t) = sched[t]
                /\ backend = "postgres" => seen[k][t] = sched[t]
  BY <1>3, StoreStep DEF Current
<1>4. ASSUME NEW k \in Ticks, NEW u \in Targets, ResetStale(k, u)
      PROVE  \/ sched'[t] = sched[t]
             \/ /\ backend = "postgres" => seen[k][t] = sched[t]
                /\ ResetStale(k, t) /\ sched'[t] = Effect("reset", sched[t])
  BY <1>3, <1>4, ResetTurns
<1>5. ASSUME NEW k \in Ticks, NEW u \in Targets, Lock(k, u)
      PROVE  \/ sched'[t] = sched[t]
             \/ /\ backend = "postgres" => seen[k][t] = sched[t]
                /\ Lock(k, t) /\ sched'[t] = Effect("lock", sched[t]) /\ MayLock(sched[t])
  <2>1. Turning(k, u, "lock", Effect("lock", Current(k, u))) /\ MayLock(Current(k, u))
    BY <1>5, LockTurns DEF Lock, CanLock
  <2> DEFINE row == Effect("lock", Current(k, u))
  <2>2. Turning(k, u, "lock", row)
    BY <2>1
  <2>3. \/ sched'[t] = sched[t]
        \/ /\ u = t /\ sched'[t] = row /\ Current(k, t) = sched[t]
           /\ backend = "postgres" => seen[k][t] = sched[t]
    <3> HIDE DEF row
    <3> QED BY <1>3, <2>2
  <2> QED BY <1>5, <2>1, <2>3
<1>6. ASSUME NEW k \in Ticks, NEW u \in Targets,
             NEW outcome \in {"success", "deferred", "error"}, Finish(k, u, outcome)
      PROVE  \/ sched'[t] = sched[t]
             \/ /\ backend = "postgres" => seen[k][t] = sched[t]
                /\ \E count \in 1..3, wait \in 0..LongestWait :
                     /\ Finish(k, t, outcome) /\ count = seen[k][t].errors + 1
                     /\ sched'[t] = Outcome(sched[t], outcome, count, wait)
  <2>1. PICK count \in 1..3, wait \in 0..LongestWait :
          /\ count = seen[k][u].errors + 1
          /\ Turning(k, u, outcome, Outcome(Current(k, u), outcome, count, wait))
    BY <1>6, FinishTurns
  <2> QED BY <1>3, <1>6, <2>1
<1>7. ASSUME Pass PROVE sched'[t] = Older(sched[t])
  BY <1>7 DEF Pass
<1> QED BY <1>1, <1>2, <1>4, <1>5, <1>6, <1>7, Steps

\* On PostgreSQL failures are counted one by one, and the third pauses.
THEOREM FailuresCounted == SchedSpec => FailuresAreCounted
<1> DEFINE Counted(t) ==
             /\ sched'[t].errors \in {0, sched[t].errors, sched[t].errors + 1}
             /\ sched'[t].status = "paused" /\ sched[t].status # "paused"
                  => sched[t].errors = 2
<1>1. ASSUME SchedIInv, SchedNext, backend = "postgres", NEW t \in Targets PROVE Counted(t)
  <2>0. sched[t] \in Row /\ NotPausedYet(sched[t])
    BY <1>1 DEF SchedIInv, SchedTypeOK, CountInv
  <2>1. CASE sched'[t] = sched[t]
    BY <2>1
  <2>2. CASE sched'[t] = Older(sched[t])
    BY <2>0, <2>2, OlderTyped
  <2>3. CASE sched'[t] = Effect("reset", sched[t]) \/ sched'[t] = Effect("lock", sched[t])
    BY <2>0, <2>3, EffectTyped
  <2>4. ASSUME NEW k \in Ticks, NEW outcome \in {"success", "deferred", "error"},
               NEW count \in 1..3, NEW wait \in 0..LongestWait, count = sched[t].errors + 1,
               sched'[t] = Outcome(sched[t], outcome, count, wait)
        PROVE  Counted(t)
    <3>1. /\ sched'[t].errors \in {0, sched[t].errors, count}
          /\ sched'[t].status = "paused" => sched[t].status = "paused" \/ count = 3
      <4> DEFINE o == Outcome(sched[t], outcome, count, wait)
      <4>1. o.errors \in {0, sched[t].errors, count}
            /\ (o.status = "paused" => sched[t].status = "paused" \/ count = 3)
        BY <2>0, OutcomeTyped
      <4> HIDE DEF o
      <4>2. sched'[t] = o
        BY <2>4 DEF o
      <4> QED BY <4>1, <4>2
    <3>2. count = 3 => sched[t].errors = 2
      BY <2>0, <2>4, RowTyped
    <3> QED BY <2>4, <3>1, <3>2
  <2> HIDE DEF Counted
  <2> QED BY <1>1, <2>1, <2>2, <2>3, <2>4, RowStep
<1>2. SchedIInv /\ [SchedNext]_schvars =>
        [backend = "postgres" => \A t \in Targets : Counted(t)]_schvars
  BY <1>1
<1> QED BY <1>2, SchedInductive, PTL DEF SchedSpec, FailuresAreCounted

\* No lock is taken of a target that is locked, paused or not due.
THEOREM LockJustified == SchedSpec => LockIsJustified
<1> DEFINE Justified(t) ==
             sched'[t].running /\ (~sched[t].running \/ sched'[t].age < sched[t].age)
               => ~sched[t].running /\ sched[t].status # "paused" /\ sched[t].wait = 0
<1>1. ASSUME SchedIInv, SchedNext, NEW t \in Targets PROVE Justified(t)
  <2>0. sched[t] \in Row /\ sched[t].age \in Nat /\ NotPausedYet(sched[t])
    BY <1>1, RowTyped DEF SchedIInv, SchedTypeOK, CountInv
  <2>1. CASE sched'[t] = sched[t]
    BY <2>0, <2>1
  <2>2. CASE sched'[t] = Older(sched[t])
    <3>1. sched'[t].running = sched[t].running
          /\ sched'[t].age \in {sched[t].age, sched[t].age + 1}
      BY <2>0, <2>2, OlderTyped
    <3>2. ~(sched'[t].age < sched[t].age)
      BY <2>0, <3>1
    <3> QED BY <3>1, <3>2
  <2>3. CASE sched'[t] = Effect("reset", sched[t])
    <3>1. Effect("reset", sched[t]) = [sched[t] EXCEPT !.running = FALSE, !.age = 0]
      BY <2>0, EffectIs
    <3>2. ~sched'[t].running
      BY <2>0, <2>3, <3>1 DEF Row
    <3> QED BY <3>2
  <2>4. CASE MayLock(sched[t])
    BY <2>4 DEF MayLock
  <2>5. ASSUME NEW outcome \in {"success", "deferred", "error"},
               NEW count \in 1..3, NEW wait \in 0..LongestWait,
               sched'[t] = Outcome(sched[t], outcome, count, wait)
        PROVE  Justified(t)
    <3>1. ~Outcome(sched[t], outcome, count, wait).running
      BY <2>0, OutcomeTyped
    <3> QED BY <2>5, <3>1
  <2> HIDE DEF Justified
  <2> QED BY <1>1, <2>1, <2>2, <2>3, <2>4, <2>5, RowStep
<1>2. SchedIInv /\ [SchedNext]_schvars => [\A t \in Targets : Justified(t)]_schvars
  BY <1>1
<1> QED BY <1>2, SchedInductive, PTL DEF SchedSpec, LockIsJustified

\* STALE_MIN is longer than a fetch may take: on PostgreSQL the lock under which
\* one tick fetches a target stays until that fetch has ended.
LockOutlivesFetch ==
    [][backend = "postgres" => \A k \in Ticks, t \in Targets \ overlap :
         Fetching(k, t) /\ Fetching(k, t)' => sched'[t].running]_schvars

\* A reset from an old row cannot reach it: the copy would not be the row, or
\* the row would be older than the fetch.
THEOREM LockKept == SchedSpec => LockOutlivesFetch
<1>1. ASSUME SchedIInv, SchedNext, backend = "postgres", NEW k \in Ticks,
             NEW t \in Targets \ overlap, Fetching(k, t), Fetching(k, t)'
      PROVE  sched'[t].running
  <2>0. /\ sched[t] \in Row /\ sched[t].running /\ sched[t].age <= elapsed[k]
        /\ elapsed[k] \in 0..LongestFetch /\ \A j \in Ticks \ {k} : ~Fetching(j, t)
    BY <1>1 DEF SchedIInv, SchedTypeOK, FetchHoldsLock, LeadInv, Leads, Alone
  <2>1. CASE sched'[t] = sched[t]
    BY <2>0, <2>1
  <2>2. CASE sched'[t] = Older(sched[t])
    BY <2>0, <2>2, OlderTyped
  <2>3. ASSUME NEW j \in Ticks, seen[j][t] = sched[t], ResetStale(j, t)
        PROVE  FALSE
    <3>1. sched[t].age = StaleAfter
      BY <2>3 DEF ResetStale, LooksStale
    <3> QED BY <2>0, <3>1, SchedulerAssumption
  <2>4. CASE MayLock(sched[t])
    BY <2>0, <2>4 DEF MayLock
  <2>5. ASSUME NEW j \in Ticks, NEW outcome \in {"success", "deferred", "error"},
               Finish(j, t, outcome)
        PROVE  FALSE
    <3>1. j = k
      BY <2>0, <2>5 DEF Finish
    <3>2. phase'[k] = "scan"
      BY <1>1, <2>5, <3>1 DEF Finish, Done, SchedIInv, SchedTypeOK
    <3> QED BY <1>1, <3>2 DEF Fetching
  <2> QED BY <1>1, <2>1, <2>2, <2>3, <2>4, <2>5, RowStep
<1> DEFINE Kept == \A k \in Ticks, t \in Targets \ overlap :
                     Fetching(k, t) /\ Fetching(k, t)' => sched'[t].running
<1>2. SchedIInv /\ [SchedNext]_schvars => [backend = "postgres" => Kept]_schvars
  BY <1>1
<1> QED BY <1>2, SchedInductive, PTL DEF SchedSpec, LockOutlivesFetch
=============================================================================
