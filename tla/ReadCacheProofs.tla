-------------------------- MODULE ReadCacheProofs --------------------------
(***************************************************************************)
(* Theorems about ReadCache, for any number of threads and mutations.       *)
(***************************************************************************)
EXTENDS ReadCache, TLAPS

(* Who holds the lock, and what a thread holds at each place *)

Loading(t) == pc[t] \in {"check", "load", "build"}

Held ==
    /\ \A t \in Threads : Loading(t) => lock = t
    /\ \A t \in Threads : pc[t] \in {"load", "build"} => seen[t] \in Token
    /\ \A t \in Threads : pc[t] \in {"build", "told", "reading"} => version[t] \in Version

CacheShape == CacheTypeOK /\ Held

LEMMA DesignStays ==
    ASSUME [CacheNext]_cvars
    PROVE  design' = design
BY DEF CacheNext, Step, Mutate, Advance, Close, Enter, Reuse, ReadAuthority, ReadRows,
       Unavailable, Build, Open, Finish, Raise, Return, cvars

LEMMA FingerprintTyped ==
    ASSUME CacheTypeOK
    PROVE  Fingerprint \in Token
BY CacheAssumption DEF CacheTypeOK, Fingerprint, Token

LEMMA ShapeStep ==
    ASSUME CacheShape, [CacheNext]_cvars
    PROVE  CacheShape'
<1>0. design' = design
  BY DesignStays
<1> USE <1>0, CacheAssumption DEF CacheShape, CacheTypeOK, Held, Loading
<1>1. CASE UNCHANGED cvars
  BY <1>1 DEF cvars, cache, threads, Token, Version
<1>2. CASE Mutate
  BY <1>2 DEF Mutate, cache, threads
<1>3. CASE Advance
  BY <1>3 DEF Advance, cache, threads
<1>4. CASE Close
  BY <1>4 DEF Close, threads
<1>5. ASSUME NEW t \in Threads, Enter(t) PROVE CacheShape'
  BY <1>5, NoneAssumption DEF Enter, cache
<1>6. ASSUME NEW t \in Threads, Reuse(t) PROVE CacheShape'
  BY <1>6 DEF Reuse, Return, Read, cache, Version
<1>7. ASSUME NEW t \in Threads, ReadAuthority(t) PROVE CacheShape'
  BY <1>7, FingerprintTyped DEF ReadAuthority, Raise, Return, Read, Unchanged, cache, Version
<1>8. ASSUME NEW t \in Threads, ReadRows(t) PROVE CacheShape'
  BY <1>8 DEF ReadRows, Raise, cache, Version
<1>9. ASSUME NEW t \in Threads, Unavailable(t) PROVE CacheShape'
  BY <1>9 DEF Unavailable, Raise, cache
<1>10. ASSUME NEW t \in Threads, Build(t) PROVE CacheShape'
  BY <1>10 DEF Build, Raise, Return, Read, Without, Version
<1>11. ASSUME NEW t \in Threads, Open(t) PROVE CacheShape'
  BY <1>11 DEF Open, Read, cache, Version
<1>12. ASSUME NEW t \in Threads, Finish(t) PROVE CacheShape'
  BY <1>12 DEF Finish, Without
<1> QED
  BY <1>1, <1>2, <1>3, <1>4, <1>5, <1>6, <1>7, <1>8, <1>9, <1>10, <1>11, <1>12
  DEF CacheNext, Step

\* Every variable has its type in every reachable state, and a thread that
\* loads is the one that holds the lock.
THEOREM CacheShapeCorrect == CacheSpec => []CacheShape
<1>1. CacheInit => CacheShape
  BY CacheAssumption DEF CacheInit, CacheShape, CacheTypeOK, Held, Loading
<1> QED BY <1>1, ShapeStep, PTL DEF CacheSpec

(* The copy never claims more than it shows *)

\* The fingerprint is read before the rows, so that it can only be older.
Older(v) == v.token.commits <= v.rows /\ v.rows <= commits

OlderTokens ==
    /\ keeper # None => Older(keeper)
    /\ \A t \in Threads : pc[t] = "load" => seen[t].commits <= commits
    /\ \A t \in Threads : pc[t] = "build" => Older(version[t])

LEMMA OlderStep ==
    ASSUME CacheShape, OlderTokens, [CacheNext]_cvars
    PROVE  OlderTokens'
<1>0. design' = design
  BY DesignStays
<1> USE <1>0, CacheAssumption DEF CacheShape, CacheTypeOK, Held, OlderTokens, Older
<1>1. CASE UNCHANGED cvars
  BY <1>1 DEF cvars, cache, threads
<1>2. CASE Mutate
  BY <1>2 DEF Mutate, cache, threads, Version, Token
<1>3. CASE Advance
  BY <1>3 DEF Advance, cache, threads
<1>4. CASE Close
  BY <1>4 DEF Close, threads
<1>5. ASSUME NEW t \in Threads, Enter(t) PROVE OlderTokens'
  BY <1>5 DEF Enter, cache
<1>6. ASSUME NEW t \in Threads, Reuse(t) PROVE OlderTokens'
  BY <1>6 DEF Reuse, Return, Read, cache
<1>7. ASSUME NEW t \in Threads, ReadAuthority(t) PROVE OlderTokens'
  BY <1>7 DEF ReadAuthority, Raise, Return, Read, Unchanged, Fingerprint, cache
<1>8. ASSUME NEW t \in Threads, ReadRows(t) PROVE OlderTokens'
  BY <1>8 DEF ReadRows, Raise, cache, Version, Token
<1>9. ASSUME NEW t \in Threads, Unavailable(t) PROVE OlderTokens'
  BY <1>9 DEF Unavailable, Raise, cache
<1>10. ASSUME NEW t \in Threads, Build(t) PROVE OlderTokens'
  BY <1>10 DEF Build, Raise, Return, Read
<1>11. ASSUME NEW t \in Threads, Open(t) PROVE OlderTokens'
  BY <1>11 DEF Open, Read, cache
<1>12. ASSUME NEW t \in Threads, Finish(t) PROVE OlderTokens'
  BY <1>12 DEF Finish
<1> QED
  BY <1>1, <1>2, <1>3, <1>4, <1>5, <1>6, <1>7, <1>8, <1>9, <1>10, <1>11, <1>12
  DEF CacheNext, Step

\* A copy that passes the check of _load shows the rows of this moment.  The
\* financial cache is excepted: its fingerprint does not cover the rows of
\* shared_identity.
THEOREM CacheHonest == CacheSpec => []CacheIsHonest
<1>1. CacheInit => OlderTokens
  BY DEF CacheInit, OlderTokens
<1>2. CacheShape /\ OlderTokens => CacheIsHonest
  BY DEF CacheShape, CacheTypeOK, OlderTokens, Older, CacheIsHonest, Fingerprint,
         Version, Token
<1> QED BY <1>1, <1>2, OlderStep, CacheShapeCorrect, PTL DEF CacheSpec

(* Reads go forward *)

\* No thread has seen, or is about to see, more than `n` mutations.
Floor(n) ==
    \A t \in Threads :
      /\ last[t] <= n
      /\ pc[t] \in {"told", "reading"} => version[t].rows <= n

Forward ==
    /\ Floor(commits)
    /\ keeper # None => Floor(keeper.rows) /\ keeper.rows <= commits
    /\ \A t \in Threads : pc[t] = "told" => last[t] <= version[t].rows
    /\ \A b \in Threads : pc[b] = "build" =>
         /\ Floor(version[b].rows)
         /\ version[b].rows <= commits
         /\ keeper # None => keeper.rows <= version[b].rows

LEMMA ForwardStep ==
    ASSUME CacheShape, Forward, [CacheNext]_cvars
    PROVE  Forward' /\ \A t \in Threads : last'[t] >= last[t]
<1>0. design' = design
  BY DesignStays
<1> USE <1>0, CacheAssumption, NoneAssumption
        DEF CacheShape, CacheTypeOK, Held, Loading, Forward, Floor, Version
<1> DEFINE Goal == Forward' /\ \A t \in Threads : last'[t] >= last[t]
<1>1. CASE UNCHANGED cvars
  BY <1>1 DEF cvars, cache, threads
<1>2. CASE Mutate
  BY <1>2 DEF Mutate, cache, threads
<1>3. CASE Advance
  BY <1>3 DEF Advance, cache, threads
<1>4. CASE Close
  BY <1>4 DEF Close, threads
<1>5. ASSUME NEW t \in Threads, Enter(t) PROVE Goal
  BY <1>5 DEF Enter, cache
<1>6. ASSUME NEW t \in Threads, Reuse(t) PROVE Goal
  BY <1>6 DEF Reuse, Return, Read, cache
<1>7. ASSUME NEW t \in Threads, ReadAuthority(t) PROVE Goal
  BY <1>7 DEF ReadAuthority, Raise, Return, Read, Unchanged, cache
<1>8. ASSUME NEW t \in Threads, ReadRows(t) PROVE Goal
  BY <1>8 DEF ReadRows, Raise, cache
<1>9. ASSUME NEW t \in Threads, Unavailable(t) PROVE Goal
  BY <1>9 DEF Unavailable, Raise, cache
<1>10. ASSUME NEW t \in Threads, Build(t) PROVE Goal
  BY <1>10 DEF Build, Raise, Return, Read
<1>11. ASSUME NEW t \in Threads, Open(t) PROVE Goal
  BY <1>11 DEF Open, Read, cache
<1>12. ASSUME NEW t \in Threads, Finish(t) PROVE Goal
  BY <1>12 DEF Finish
<1> QED
  BY <1>1, <1>2, <1>3, <1>4, <1>5, <1>6, <1>7, <1>8, <1>9, <1>10, <1>11, <1>12
  DEF CacheNext, Step

\* Successive connections of one thread never go back in time, in any of the
\* three caches.
THEOREM CacheReadsAdvance == CacheSpec => ReadsAdvance
<1>1. CacheInit => Forward
  BY CacheAssumption DEF CacheInit, Forward, Floor
<1>2. CacheShape /\ Forward /\ [CacheNext]_cvars => Forward'
  BY ForwardStep
<1>3. CacheShape /\ Forward /\ [CacheNext]_cvars
        => [\A t \in Threads : last'[t] >= last[t]]_cvars
  BY ForwardStep
<1> QED BY <1>1, <1>2, <1>3, CacheShapeCorrect, PTL DEF CacheSpec, ReadsAdvance

(* A name is built once *)

UpTo(a, b) == a.authority <= b.authority /\ a.commits <= b.commits

\* The databases alive have fingerprints up to the copy's, and a load is for a
\* later one.  A reader that opens a name late does not add to them.
NewNames ==
    design # "financial" /\ closes = 0 =>
      /\ keeper = None => built = {}
      /\ keeper # None => /\ UpTo(keeper.token, Fingerprint)
                          /\ \A w \in built : UpTo(w.token, keeper.token)
      /\ \A t \in Threads : pc[t] \in {"load", "build"} =>
           /\ UpTo(seen[t], Fingerprint)
           /\ keeper # None => UpTo(keeper.token, seen[t]) /\ keeper.token # seen[t]
      /\ \A t \in Threads : pc[t] = "build" => version[t].token = seen[t]
      /\ \A t \in Threads : pc[t] # "failed"

LEMMA NewNamesStep ==
    ASSUME CacheShape, NewNames, [CacheNext]_cvars
    PROVE  NewNames'
<1>0. design' = design
  BY DesignStays
<1> USE <1>0, CacheAssumption, NoneAssumption
        DEF CacheShape, CacheTypeOK, Held, Loading, NewNames, UpTo, Fingerprint,
            Version, Token
<1>1. CASE UNCHANGED cvars
  BY <1>1 DEF cvars, cache, threads
<1>2. CASE Mutate
  BY <1>2 DEF Mutate, cache, threads
<1>3. CASE Advance
  BY <1>3 DEF Advance, cache, threads
<1>4. CASE Close
  BY <1>4 DEF Close, threads
<1>5. ASSUME NEW t \in Threads, Enter(t) PROVE NewNames'
  BY <1>5 DEF Enter, cache
<1>6. ASSUME NEW t \in Threads, Reuse(t) PROVE NewNames'
  BY <1>6 DEF Reuse, Return, Read, cache
<1>7. ASSUME NEW t \in Threads, ReadAuthority(t) PROVE NewNames'
  BY <1>7 DEF ReadAuthority, Raise, Return, Read, Unchanged, cache
<1>8. ASSUME NEW t \in Threads, ReadRows(t) PROVE NewNames'
  BY <1>8 DEF ReadRows, Raise, cache
<1>9. ASSUME NEW t \in Threads, Unavailable(t) PROVE NewNames'
  BY <1>9 DEF Unavailable, Raise, cache
<1>10. ASSUME NEW t \in Threads, Build(t) PROVE NewNames'
  BY <1>10 DEF Build, Raise, Return, Read, Without
<1>11. ASSUME NEW t \in Threads, Open(t) PROVE NewNames'
  BY <1>11 DEF Open, Read, cache
<1>12. ASSUME NEW t \in Threads, Finish(t) PROVE NewNames'
  BY <1>12 DEF Finish, Without
<1> QED
  BY <1>1, <1>2, <1>3, <1>4, <1>5, <1>6, <1>7, <1>8, <1>9, <1>10, <1>11, <1>12
  DEF CacheNext, Step

\* In the caches that keep the fingerprint apart, a check or a load fails only
\* when PostgreSQL does.
THEOREM CacheBuildsSucceed == CacheSpec => []BuildsSucceed
<1>1. CacheInit => NewNames
  BY DEF CacheInit, NewNames
<1>2. NewNames => BuildsSucceed
  BY DEF NewNames, BuildsSucceed, NoFailure
<1> QED BY <1>1, <1>2, NewNamesStep, CacheShapeCorrect, PTL DEF CacheSpec

(* Opening a name under the lock *)

Alive ==
    design = "financial" =>
      /\ keeper # None => keeper \in built
      /\ \A t \in Threads : pc[t] # "told"
      /\ HasTables

LEMMA AliveStep ==
    ASSUME CacheShape, Alive, [CacheNext]_cvars
    PROVE  Alive'
<1>0. design' = design
  BY DesignStays
<1> USE <1>0, NoneAssumption DEF CacheShape, CacheTypeOK, Held, Loading, Alive, HasTables
<1>1. CASE UNCHANGED cvars
  BY <1>1 DEF cvars, cache, threads
<1>2. CASE Mutate
  BY <1>2 DEF Mutate, cache, threads
<1>3. CASE Advance
  BY <1>3 DEF Advance, cache, threads
<1>4. CASE Close
  BY <1>4 DEF Close, threads
<1>5. ASSUME NEW t \in Threads, Enter(t) PROVE Alive'
  BY <1>5 DEF Enter, cache
<1>6. ASSUME NEW t \in Threads, Reuse(t) PROVE Alive'
  BY <1>6 DEF Reuse, Return, Read, cache
<1>7. ASSUME NEW t \in Threads, ReadAuthority(t) PROVE Alive'
  BY <1>7 DEF ReadAuthority, Raise, Return, Read, Unchanged, cache
<1>8. ASSUME NEW t \in Threads, ReadRows(t) PROVE Alive'
  BY <1>8 DEF ReadRows, Raise, cache
<1>9. ASSUME NEW t \in Threads, Unavailable(t) PROVE Alive'
  BY <1>9 DEF Unavailable, Raise, cache
<1>10. ASSUME NEW t \in Threads, Build(t) PROVE Alive'
  BY <1>10 DEF Build, Raise, Return, Read, Without
<1>11. ASSUME NEW t \in Threads, Open(t) PROVE Alive'
  BY <1>11 DEF Open, Read, cache
<1>12. ASSUME NEW t \in Threads, Finish(t) PROVE Alive'
  BY <1>12 DEF Finish, Without
<1> QED
  BY <1>1, <1>2, <1>3, <1>4, <1>5, <1>6, <1>7, <1>8, <1>9, <1>10, <1>11, <1>12
  DEF CacheNext, Step

\* The cache that opens the name before it releases the lock never hands out an
\* empty database.
THEOREM CacheReadersHaveTables == CacheSpec => []ReaderHasTables
<1>1. CacheInit => Alive
  BY DEF CacheInit, Alive, HasTables
<1>2. Alive => ReaderHasTables
  BY DEF Alive, ReaderHasTables
<1> QED BY <1>1, <1>2, AliveStep, CacheShapeCorrect, PTL DEF CacheSpec
===========================================================================
