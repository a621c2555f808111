------------------------- MODULE UnitCutoverProofs -------------------------
(***************************************************************************)
(* Proofs about UnitCutover, for any number of operators, legacy writers,   *)
(* epochs, crashes and reversals.                                           *)
(***************************************************************************)
EXTENDS UnitCutover, TLAPS

\* The row: published exactly in S3, and under the epoch of its fence.
RowInv ==
    /\ state = "S1" <=> epoch = None
    /\ state = "S3" <=> published # None
    /\ state = "S3" => published = epoch

\* Once somebody is about to move the row, the fence file is there to stay.
FencedRun ==
    /\ \A o \in Operators : pc[o] \in {"transition", "await_transition"} => fence # None
    /\ \A t \in txs : t.kind = "transition" => fence # None

\* The transaction a running process sent is the one it waits for.
AwaitedInv ==
    /\ \A o \in Operators : pc[o] # "start" => mine[o] \in Epochs
    /\ \A t \in txs : t.by # None =>
         /\ pc[t.by] = IF t.kind = "transition" THEN "await_transition"
                                               ELSE "await_activation"
         /\ t.epoch = mine[t.by] /\ t.revision = seen[t.by]

\* Whoever read S2 at revision r under epoch e: S2 at that revision has no other.
ReadUnder(r, e) == r <= revision /\ (state = "S2" /\ revision = r => epoch = e)

\* An activation is sent under the epoch the row had at its revision, and
\* stays so while it is under way, also after its process died.
ActivationInv ==
    /\ \A o \in Operators : pc[o] \in {"activate", "await_activation"} =>
         ReadUnder(seen[o], mine[o])
    /\ \A t \in txs : t.kind = "activation" => ReadUnder(t.revision, t.epoch)

UCIInv == UCInv /\ RowInv /\ FencedRun /\ AwaitedInv /\ ActivationInv /\ EvidenceIsTrue

---------------------------------------------------------------------------
(* The types *)

LEMMA CrashedTx ==
    ASSUME NEW t \in Transaction
    PROVE  /\ [t EXCEPT !.by = None] \in Transaction
           /\ [t EXCEPT !.by = None].by = None
           /\ [t EXCEPT !.by = None].kind = t.kind
           /\ [t EXCEPT !.by = None].revision = t.revision
           /\ [t EXCEPT !.by = None].epoch = t.epoch
  BY DEF Transaction

\* A transaction left by a crash is that of another process, or of nobody.
LEMMA CrashedTxs ==
    ASSUME UCTypeOK, NEW o \in Operators, Crash(o), NEW t \in txs'
    PROVE  \E x \in txs : /\ t.kind = x.kind /\ t.revision = x.revision /\ t.epoch = x.epoch
                          /\ t.by = None \/ (t = x /\ t.by # o)
<1>1. CASE t \in txs /\ t.by # o
  BY <1>1
<1>2. CASE \E x \in txs : t = [x EXCEPT !.by = None]
  <2>1. PICK x \in txs : t = [x EXCEPT !.by = None]
    BY <1>2
  <2>2. x \in Transaction
    BY DEF UCTypeOK
  <2> QED BY <2>1, <2>2, CrashedTx
<1> QED BY <1>1, <1>2 DEF Crash

LEMMA SentTx ==
    ASSUME UCTypeOK, AwaitedInv, NEW o \in Operators, pc[o] # "start",
           NEW kind \in {"transition", "activation"}
    PROVE  [kind |-> kind, by |-> o, revision |-> seen[o], epoch |-> mine[o]] \in Transaction
  BY DEF UCTypeOK, AwaitedInv, Transaction

LEMMA TypeStep ==
    ASSUME UCTypeOK, AwaitedInv, [UCNext]_uvars
    PROVE  UCTypeOK'
<1> USE CutoverAssumption DEF database, files, process, legacy, Goto
<1>1. ASSUME NEW o \in Operators, LoadIntent(o) PROVE UCTypeOK'
  BY <1>1 DEF UCTypeOK, LoadIntent, Steps
<1>2. ASSUME NEW o \in Operators, PersistIntent(o) PROVE UCTypeOK'
  BY <1>2 DEF UCTypeOK, PersistIntent, Steps
<1>3. ASSUME NEW o \in Operators, ReadBefore(o) PROVE UCTypeOK'
  BY <1>3 DEF UCTypeOK, ReadBefore, Steps
<1>4. ASSUME NEW o \in Operators, WritePendingFence(o) PROVE UCTypeOK'
  BY <1>4 DEF UCTypeOK, AwaitedInv, WritePendingFence, Steps
<1>5. ASSUME NEW o \in Operators, SendTransition(o) PROVE UCTypeOK'
  BY <1>5, SentTx DEF UCTypeOK, SendTransition, Send, Steps
<1>6. ASSUME NEW o \in Operators, Recheck(o) PROVE UCTypeOK'
  BY <1>6 DEF UCTypeOK, Recheck, Steps
<1>7. ASSUME NEW o \in Operators, SendActivation(o) PROVE UCTypeOK'
  BY <1>7, SentTx DEF UCTypeOK, SendActivation, Send, Steps
<1>8. ASSUME NEW o \in Operators, FinalRead(o) \/ Rerun(o) PROVE UCTypeOK'
  BY <1>8 DEF UCTypeOK, FinalRead, Rerun, Steps
<1>9. ASSUME NEW o \in Operators, SealFence(o) PROVE UCTypeOK'
  BY <1>9 DEF UCTypeOK, AwaitedInv, SealFence, Steps
<1>10. ASSUME NEW o \in Operators, Crash(o) PROVE UCTypeOK'
  <2>1. txs' \subseteq Transaction
    BY <1>10, CrashedTx DEF UCTypeOK, Crash
  <2> QED BY <1>10, <2>1 DEF UCTypeOK, Crash, Steps
<1>11. ASSUME NEW t \in txs, ExecuteTransition(t) \/ ExecuteActivation(t) PROVE UCTypeOK'
  <2>1. t \in Transaction
    BY DEF UCTypeOK
  <2>2. t.epoch \in Epochs /\ (t.by = None \/ t.by \in Operators)
    BY <2>1 DEF Transaction
  <2>3. ASSUME NEW next \in Steps, Respond(t, next)
        PROVE  txs' \subseteq Transaction /\ pc' \in [Operators -> Steps]
    BY <2>2, <2>3 DEF UCTypeOK, Respond
  <2>4. {"recheck", "mismatch", "final"} \subseteq Steps
    BY DEF Steps
  <2>5. txs' \subseteq Transaction /\ pc' \in [Operators -> Steps]
    BY <1>11, <2>3, <2>4 DEF ExecuteTransition, ExecuteActivation
  <2> QED BY <1>11, <2>2, <2>5 DEF UCTypeOK, ExecuteTransition, ExecuteActivation
<1>12. ASSUME NEW t \in txs, Vanish(t) PROVE UCTypeOK'
  BY <1>12 DEF UCTypeOK, Vanish
<1>13. CASE Reverse
  BY <1>13 DEF UCTypeOK, Reverse
<1>14. ASSUME NEW w \in SqliteWriters,
             CheckFence(w) \/ Connect(w) \/ SqliteCommit(w) \/ Close(w)
       PROVE  UCTypeOK'
  BY <1>14 DEF UCTypeOK, CheckFence, Connect, SqliteCommit, Close
<1>15. CASE UNCHANGED uvars
  BY <1>15 DEF UCTypeOK, uvars
<1> QED
  BY <1>1, <1>2, <1>3, <1>4, <1>5, <1>6, <1>7, <1>8, <1>9, <1>10, <1>11, <1>12, <1>13,
     <1>14, <1>15 DEF UCNext, Advance, Execute

---------------------------------------------------------------------------
(* What a step does to the row, and to the processes *)

\* The row moves by the transition from S1, by hand from S2 to S1, or by the
\* activation from S2, and else stays.
LEMMA RowMoves ==
    ASSUME UCTypeOK, ActivationInv, [UCNext]_uvars
    PROVE  \/ UNCHANGED database
           \/ \E t \in txs :
                /\ ExecuteTransition(t) /\ t.kind = "transition" /\ t.epoch \in Epochs
                /\ state = "S1" /\ state' = "S2" /\ epoch' = t.epoch
                /\ revision' = revision + 1 /\ UNCHANGED published
           \/ /\ Reverse /\ state = "S2" /\ state' = "S1" /\ epoch' = None
              /\ revision' = revision + 1 /\ UNCHANGED published
           \/ \E t \in txs :
                /\ ExecuteActivation(t) /\ t.kind = "activation"
                /\ t.epoch = epoch /\ epoch \in Epochs
                /\ state = "S2" /\ state' = "S3" /\ published' = epoch
                /\ revision' = revision + 1 /\ UNCHANGED epoch
<1> USE DEF database, files, process, legacy, Transaction
<1>1. ASSUME NEW o \in Operators, Advance(o) PROVE UNCHANGED database
  BY <1>1 DEF Advance, LoadIntent, PersistIntent, ReadBefore, WritePendingFence,
     SendTransition, Recheck, SendActivation, FinalRead, SealFence, Rerun
<1>2. ASSUME NEW o \in Operators, Crash(o) PROVE UNCHANGED database
  BY <1>2 DEF Crash
<1>3. ASSUME NEW t \in txs, ExecuteTransition(t)
      PROVE  \/ UNCHANGED database
             \/ /\ t.kind = "transition" /\ t.epoch \in Epochs
                /\ state = "S1" /\ state' = "S2" /\ epoch' = t.epoch
                /\ revision' = revision + 1 /\ UNCHANGED published
  BY <1>3 DEF ExecuteTransition, UCTypeOK
<1>4. ASSUME NEW t \in txs, ExecuteActivation(t)
      PROVE  \/ UNCHANGED database
             \/ /\ t.kind = "activation" /\ t.epoch = epoch /\ epoch \in Epochs
                /\ state = "S2" /\ state' = "S3" /\ published' = epoch
                /\ revision' = revision + 1 /\ UNCHANGED epoch
  <2>1. t.kind = "activation" /\ t.epoch \in Epochs /\ ReadUnder(t.revision, t.epoch)
    BY <1>4 DEF ExecuteActivation, UCTypeOK, ActivationInv
  <2> QED BY <1>4, <2>1 DEF ExecuteActivation, ReadUnder
<1>5. ASSUME NEW t \in txs, Vanish(t) PROVE UNCHANGED database
  BY <1>5 DEF Vanish
<1>6. ASSUME NEW w \in SqliteWriters,
             CheckFence(w) \/ Connect(w) \/ SqliteCommit(w) \/ Close(w)
      PROVE  UNCHANGED database
  BY <1>6 DEF CheckFence, Connect, SqliteCommit, Close
<1> QED
  BY <1>1, <1>2, <1>3, <1>4, <1>5, <1>6 DEF UCNext, Execute, Reverse, uvars

LEMMA RowStep ==
    ASSUME UCTypeOK, RowInv, ActivationInv, [UCNext]_uvars
    PROVE  RowInv'
  BY RowMoves, CutoverAssumption DEF RowInv, database

LEMMA FencedStep ==
    ASSUME UCTypeOK, FencedBeforeAuthority, FencedRun, AwaitedInv, ActivationInv,
           [UCNext]_uvars
    PROVE  /\ fence # None => fence' # None
           /\ FencedBeforeAuthority' /\ FencedRun'
<1> USE CutoverAssumption DEF database, files, process, legacy, Goto
<1>1. fence # None => fence' # None
  <2>1. ASSUME NEW o \in Operators, WritePendingFence(o) \/ SealFence(o)
        PROVE  fence' # None
    BY <2>1 DEF WritePendingFence, SealFence, AwaitedInv
  <2>2. ASSUME NEW o \in Operators, Advance(o), ~WritePendingFence(o), ~SealFence(o)
        PROVE  UNCHANGED fence
    BY <2>2 DEF Advance, LoadIntent, PersistIntent, ReadBefore, SendTransition, Recheck,
       SendActivation, FinalRead, Rerun
  <2> QED
    BY <2>1, <2>2 DEF UCNext, Crash, Execute, ExecuteTransition, ExecuteActivation,
       Vanish, Reverse, CheckFence, Connect, SqliteCommit, Close, uvars
<1>2. FencedBeforeAuthority'
  BY <1>1, RowMoves DEF FencedBeforeAuthority, FencedRun
<1>3. FencedRun'
  <2>1. ASSUME NEW o \in Operators, LoadIntent(o) \/ PersistIntent(o) \/ ReadBefore(o)
        PROVE  FencedRun'
    BY <1>1, <2>1 DEF FencedRun, UCTypeOK, LoadIntent, PersistIntent, ReadBefore
  <2>2. ASSUME NEW o \in Operators, WritePendingFence(o) PROVE FencedRun'
    BY <2>2 DEF FencedRun, UCTypeOK, WritePendingFence, AwaitedInv
  <2>3. ASSUME NEW o \in Operators, SendTransition(o) PROVE FencedRun'
    BY <2>3 DEF FencedRun, UCTypeOK, SendTransition, Send
  <2>4. ASSUME NEW o \in Operators, SendActivation(o) PROVE FencedRun'
    BY <2>4 DEF FencedRun, UCTypeOK, SendActivation, Send
  <2>5. ASSUME NEW o \in Operators, Recheck(o) \/ FinalRead(o) \/ SealFence(o) \/ Rerun(o)
        PROVE  FencedRun'
    BY <1>1, <2>5 DEF FencedRun, UCTypeOK, Recheck, FinalRead, SealFence, Rerun
  <2>6. ASSUME NEW o \in Operators, Crash(o) PROVE FencedRun'
    <3>1. \A t \in txs' : \E x \in txs : t.kind = x.kind
      BY <2>6, CrashedTxs
    <3> QED BY <2>6, <3>1 DEF FencedRun, UCTypeOK, Crash
  <2>7. ASSUME NEW t \in txs, Execute(t) PROVE FencedRun'
    BY <2>7 DEF FencedRun, UCTypeOK, Execute, ExecuteTransition, ExecuteActivation, Respond
  <2>8. ASSUME NEW t \in txs, Vanish(t) PROVE FencedRun'
    BY <2>8 DEF FencedRun, Vanish
  <2>9. CASE Reverse
    BY <2>9 DEF FencedRun, Reverse
  <2>10. ASSUME NEW w \in SqliteWriters,
                CheckFence(w) \/ Connect(w) \/ SqliteCommit(w) \/ Close(w)
         PROVE  FencedRun'
    BY <2>10 DEF FencedRun, CheckFence, Connect, SqliteCommit, Close
  <2> QED
    BY <2>1, <2>2, <2>3, <2>4, <2>5, <2>6, <2>7, <2>8, <2>9, <2>10
    DEF UCNext, Advance, FencedRun, uvars
<1> QED BY <1>1, <1>2, <1>3

\* One process has one transaction under way.
LEMMA OneAwaited ==
    ASSUME UCTypeOK, AwaitedInv, NEW t \in txs, NEW x \in txs, t.by = x.by, t.by # None
    PROVE  t = x
<1>1. t \in Transaction /\ x \in Transaction
  BY DEF UCTypeOK
<1>2. t.kind = x.kind
  BY <1>1 DEF AwaitedInv, Transaction
<1>3. t.epoch = x.epoch /\ t.revision = x.revision
  BY DEF AwaitedInv
<1> QED BY <1>1, <1>2, <1>3 DEF Transaction

\* The answer moves the process that waits for it, and no other.
LEMMA Answered ==
    ASSUME UCTypeOK, AwaitedInv, NEW t \in txs, NEW next \in Steps, Respond(t, next)
    PROVE  /\ txs' = txs \ {t}
           /\ \A x \in txs' : x.by # None => pc'[x.by] = pc[x.by]
           /\ \A o \in Operators : pc'[o] = pc[o] \/ (t.by = o /\ pc'[o] = next)
<1>1. txs' = txs \ {t}
  BY DEF Respond
<1>2. ASSUME NEW x \in txs', x.by # None PROVE x.by \in Operators /\ x.by # t.by
  BY <1>1, <1>2, OneAwaited DEF UCTypeOK, Transaction
<1>3. t.by = None \/ t.by \in Operators
  BY DEF UCTypeOK, Transaction
<1> QED BY <1>1, <1>2, <1>3 DEF Respond, Goto, UCTypeOK

LEMMA AwaitedStep ==
    ASSUME UCTypeOK, AwaitedInv, [UCNext]_uvars
    PROVE  AwaitedInv'
<1> USE CutoverAssumption DEF database, files, process, legacy, Goto
<1>1. \A t \in txs : t.by = None \/ t.by \in Operators
  BY DEF UCTypeOK, Transaction
<1>2. ASSUME NEW o \in Operators, pc[o] \notin {"await_transition", "await_activation"},
             UNCHANGED txs,
             \E s \in Steps : pc' = [pc EXCEPT ![o] = s],
             \A p \in Operators \ {o} : mine'[p] = mine[p] /\ seen'[p] = seen[p],
             pc'[o] # "start" => mine'[o] \in Epochs
      PROVE  AwaitedInv'
  <2>1. \A t \in txs : t.by # o
    BY <1>2 DEF AwaitedInv
  <2> QED BY <1>1, <1>2, <2>1 DEF AwaitedInv, UCTypeOK
<1>3. ASSUME NEW o \in Operators,
             LoadIntent(o) \/ PersistIntent(o) \/ ReadBefore(o) \/ WritePendingFence(o)
      PROVE  AwaitedInv'
  <2>1. mine'[o] \in Epochs
    BY <1>3 DEF UCTypeOK, AwaitedInv, LoadIntent, PersistIntent, ReadBefore,
       WritePendingFence
  <2> QED
    BY <1>2, <1>3, <2>1 DEF UCTypeOK, LoadIntent, PersistIntent, ReadBefore,
       WritePendingFence, Steps
<1>4. ASSUME NEW o \in Operators, Recheck(o) \/ FinalRead(o) \/ SealFence(o) \/ Rerun(o)
      PROVE  AwaitedInv'
  <2>1. mine'[o] \in Epochs
    BY <1>4 DEF UCTypeOK, AwaitedInv, Recheck, FinalRead, SealFence, Rerun
  <2> QED
    BY <1>2, <1>4, <2>1 DEF UCTypeOK, Recheck, FinalRead, SealFence, Rerun, Steps
<1>5. ASSUME NEW o \in Operators, NEW kind \in {"transition", "activation"},
             pc[o] = IF kind = "transition" THEN "transition" ELSE "activate", Send(o, kind),
             Goto(o, IF kind = "transition" THEN "await_transition" ELSE "await_activation"),
             UNCHANGED <<mine, seen>>
      PROVE  AwaitedInv'
  <2>1. \A t \in txs : t.by # o
    BY <1>5 DEF AwaitedInv
  <2> QED BY <1>1, <1>5, <2>1 DEF AwaitedInv, UCTypeOK, Send
<1>6. ASSUME NEW o \in Operators, SendTransition(o) \/ SendActivation(o) PROVE AwaitedInv'
  BY <1>5, <1>6 DEF SendTransition, SendActivation
<1>7. ASSUME NEW o \in Operators, Crash(o) PROVE AwaitedInv'
  <2>1. ASSUME NEW t \in txs', t.by # None PROVE t \in txs /\ t.by # o
    BY <1>7, <2>1, CrashedTxs
  <2>2. ASSUME NEW p \in Operators, p # o
        PROVE  pc'[p] = pc[p] /\ mine'[p] = mine[p] /\ seen'[p] = seen[p]
    BY <1>7, <2>2 DEF Crash, UCTypeOK
  <2>3. pc'[o] = "start"
    BY <1>7 DEF Crash, UCTypeOK
  <2> QED BY <1>1, <2>1, <2>2, <2>3 DEF AwaitedInv
<1>8. ASSUME NEW t \in txs, Execute(t) PROVE AwaitedInv'
  <2>1. \E next \in Steps : Respond(t, next)
    BY <1>8 DEF Execute, ExecuteTransition, ExecuteActivation, Steps
  <2>2. UNCHANGED <<mine, seen>>
    BY <1>8 DEF Execute, ExecuteTransition, ExecuteActivation
  <2>3. /\ txs' \subseteq txs
        /\ \A x \in txs' : x.by # None => pc'[x.by] = pc[x.by]
        /\ \A o \in Operators : pc'[o] = pc[o] \/ t.by = o
    BY <2>1, Answered
  <2>4. \A o \in Operators : t.by = o => mine[o] \in Epochs
    BY DEF AwaitedInv
  <2> QED BY <2>2, <2>3, <2>4 DEF AwaitedInv
<1>9. ASSUME NEW t \in txs, Vanish(t) PROVE AwaitedInv'
  BY <1>9 DEF AwaitedInv, Vanish
<1>10. CASE Reverse
  BY <1>10 DEF AwaitedInv, Reverse
<1>11. ASSUME NEW w \in SqliteWriters,
             CheckFence(w) \/ Connect(w) \/ SqliteCommit(w) \/ Close(w)
       PROVE  AwaitedInv'
  BY <1>11 DEF AwaitedInv, CheckFence, Connect, SqliteCommit, Close
<1>12. CASE UNCHANGED uvars
  BY <1>12 DEF AwaitedInv, uvars
<1> QED
  BY <1>3, <1>4, <1>6, <1>7, <1>8, <1>9, <1>10, <1>11, <1>12 DEF UCNext, Advance

LEMMA ActivationStep ==
    ASSUME UCTypeOK, AwaitedInv, ActivationInv, [UCNext]_uvars
    PROVE  ActivationInv'
<1> USE CutoverAssumption DEF database, files, process, legacy, Goto
<1>1. /\ \A o \in Operators : seen[o] \in Nat
      /\ \A t \in txs : t.revision \in Nat
  BY DEF UCTypeOK, Transaction
\* A step that sends nothing and leads no process to an activation.
<1>2. ASSUME \A t \in txs' : t.kind = "activation" =>
               \E x \in txs : x.kind = "activation" /\ t.revision = x.revision /\ t.epoch = x.epoch,
             \A o \in Operators : pc'[o] \in {"activate", "await_activation"} =>
               /\ pc[o] \in {"activate", "await_activation"}
               /\ seen'[o] = seen[o] /\ mine'[o] = mine[o]
      PROVE  ActivationInv'
  <2>1. ASSUME NEW o \in Operators, pc'[o] \in {"activate", "await_activation"}
        PROVE  ReadUnder(seen[o], mine[o])'
    <3>1. ReadUnder(seen[o], mine[o])
      BY <1>2, <2>1 DEF ActivationInv
    <3> QED BY <1>1, <1>2, <2>1, <3>1, RowMoves, UCTypeOK DEF ReadUnder, UCTypeOK
  <2>2. ASSUME NEW t \in txs', t.kind = "activation"
        PROVE  ReadUnder(t.revision, t.epoch)'
    <3>1. PICK x \in txs : x.kind = "activation" /\ t.revision = x.revision /\ t.epoch = x.epoch
      BY <1>2, <2>2
    <3>2. ReadUnder(x.revision, x.epoch)
      BY <3>1 DEF ActivationInv
    <3> QED BY <1>1, <3>1, <3>2, RowMoves DEF ReadUnder, UCTypeOK
  <2> QED BY <2>1, <2>2 DEF ActivationInv
<1>3. ASSUME NEW o \in Operators, LoadIntent(o) \/ PersistIntent(o) \/ ReadBefore(o)
             \/ WritePendingFence(o) \/ FinalRead(o) \/ SealFence(o) \/ Rerun(o)
      PROVE  ActivationInv'
  BY <1>2, <1>3 DEF UCTypeOK, LoadIntent, PersistIntent, ReadBefore, WritePendingFence,
     FinalRead, SealFence, Rerun
<1>4. ASSUME NEW o \in Operators, SendTransition(o) PROVE ActivationInv'
  BY <1>2, <1>4 DEF UCTypeOK, SendTransition, Send
<1>5. ASSUME NEW o \in Operators, Recheck(o) PROVE ActivationInv'
  <2>1. UNCHANGED <<database, txs, mine>>
    BY <1>5 DEF Recheck
  <2>2. ASSUME NEW p \in Operators, p # o PROVE pc'[p] = pc[p] /\ seen'[p] = seen[p]
    BY <1>5, <2>2 DEF Recheck, UCTypeOK
  <2>3. pc'[o] = "activate" => ReadUnder(revision, mine[o]) /\ seen'[o] = revision
    <3>1. revision \in Nat /\ seen'[o] = revision
      BY <1>5 DEF Recheck, UCTypeOK
    <3>2. pc'[o] = "activate" => AuthorityMatches(o)
      BY <1>5 DEF Recheck, UCTypeOK
    <3> QED BY <3>1, <3>2 DEF AuthorityMatches, ReadUnder
  <2>4. pc'[o] # "await_activation"
    BY <1>5 DEF Recheck, UCTypeOK
  <2> QED BY <2>1, <2>2, <2>3, <2>4 DEF ActivationInv, ReadUnder
<1>6. ASSUME NEW o \in Operators, SendActivation(o) PROVE ActivationInv'
  <2>1. ReadUnder(seen[o], mine[o]) /\ UNCHANGED <<database, seen, mine>>
    BY <1>6 DEF SendActivation, ActivationInv
  <2>2. \A p \in Operators : p # o => pc'[p] = pc[p]
    BY <1>6 DEF SendActivation, UCTypeOK
  <2>3. txs' = txs \cup {[kind |-> "activation", by |-> o, revision |-> seen[o],
                          epoch |-> mine[o]]}
    BY <1>6 DEF SendActivation, Send
  <2> QED BY <2>1, <2>2, <2>3 DEF ActivationInv, ReadUnder
<1>7. ASSUME NEW o \in Operators, Crash(o) PROVE ActivationInv'
  <2>1. \A t \in txs' : t.kind = "activation" =>
          \E x \in txs : x.kind = "activation" /\ t.revision = x.revision /\ t.epoch = x.epoch
    BY <1>7, CrashedTxs
  <2>2. \A p \in Operators : pc'[p] # "start" =>
          pc'[p] = pc[p] /\ seen'[p] = seen[p] /\ mine'[p] = mine[p]
    BY <1>7 DEF Crash, UCTypeOK
  <2> QED BY <1>2, <2>1, <2>2
<1>8. ASSUME NEW t \in txs, Execute(t) PROVE ActivationInv'
  <2>1. \E next \in Steps \ {"activate", "await_activation"} : Respond(t, next)
    BY <1>8 DEF Execute, ExecuteTransition, ExecuteActivation, Steps
  <2>2. UNCHANGED <<mine, seen>>
    BY <1>8 DEF Execute, ExecuteTransition, ExecuteActivation
  <2>3. /\ txs' \subseteq txs
        /\ \A o \in Operators : pc'[o] \in {"activate", "await_activation"} => pc'[o] = pc[o]
    BY <2>1, Answered
  <2> QED BY <1>2, <2>2, <2>3
<1>9. ASSUME NEW t \in txs, Vanish(t) PROVE ActivationInv'
  BY <1>2, <1>9 DEF Vanish
<1>10. CASE Reverse
  BY <1>2, <1>10 DEF Reverse
<1>11. ASSUME NEW w \in SqliteWriters,
             CheckFence(w) \/ Connect(w) \/ SqliteCommit(w) \/ Close(w)
       PROVE  ActivationInv'
  BY <1>2, <1>11 DEF CheckFence, Connect, SqliteCommit, Close
<1>12. CASE UNCHANGED uvars
  BY <1>2, <1>12 DEF uvars
<1> QED
  BY <1>3, <1>4, <1>5, <1>6, <1>7, <1>8, <1>9, <1>10, <1>11, <1>12 DEF UCNext, Advance

LEMMA EvidenceStep ==
    ASSUME UCTypeOK, RowInv, AwaitedInv, ActivationInv, EvidenceIsTrue, [UCNext]_uvars
    PROVE  EvidenceIsTrue'
<1> USE CutoverAssumption DEF database, files, process, legacy, Goto
<1>1. state = "S3" => UNCHANGED <<state, epoch, published>>
  BY RowMoves
<1>2. ASSUME NEW o \in Operators, pc'[o] \in {"seal", "done"}
      PROVE  /\ state' = "S3" /\ epoch' = mine'[o] /\ published' = mine'[o]
  <2>1. CASE pc[o] \in {"seal", "done"} /\ mine'[o] = mine[o]
    BY <1>1, <2>1 DEF EvidenceIsTrue
  <2>2. ASSUME FinalRead(o)
        PROVE  state = "S3" /\ epoch = mine[o] /\ published = mine[o] /\ mine' = mine
    BY <1>2, <2>2 DEF FinalRead, AuthorityMatches, RowInv, UCTypeOK
  <2>3. ASSUME NEW p \in Operators, Advance(p), ~FinalRead(o)
        PROVE  pc[o] \in {"seal", "done"} /\ mine'[o] = mine[o]
    BY <1>2, <2>3 DEF Advance, UCTypeOK, LoadIntent, PersistIntent, ReadBefore,
       WritePendingFence, SendTransition, Recheck, SendActivation, FinalRead, SealFence,
       Rerun
  <2>4. ASSUME NEW p \in Operators, Crash(p)
        PROVE  pc[o] \in {"seal", "done"} /\ mine'[o] = mine[o]
    BY <1>2, <2>4 DEF Crash, UCTypeOK
  <2>5. ASSUME NEW t \in txs, Execute(t)
        PROVE  pc[o] \in {"seal", "done"} /\ mine'[o] = mine[o]
    <3>1. \E next \in Steps \ {"seal", "done"} : Respond(t, next)
      BY <2>5 DEF Execute, ExecuteTransition, ExecuteActivation, Steps
    <3>2. pc'[o] = pc[o]
      BY <1>2, <3>1, Answered
    <3> QED BY <1>2, <2>5, <3>2 DEF Execute, ExecuteTransition, ExecuteActivation
  <2>6. ASSUME UNCHANGED process PROVE pc[o] \in {"seal", "done"} /\ mine'[o] = mine[o]
    BY <1>2, <2>6
  <2> QED
    BY <1>1, <2>1, <2>2, <2>3, <2>4, <2>5, <2>6 DEF UCNext, Vanish, Reverse, CheckFence, Connect,
       SqliteCommit, Close, uvars
<1>3. fence' # None /\ fence'.state = "S3" => state' = "S3" /\ epoch' = fence'.epoch
  <2>1. CASE UNCHANGED fence
    BY <1>1, <2>1 DEF EvidenceIsTrue
  <2>2. ASSUME NEW o \in Operators, WritePendingFence(o)
        PROVE  fence'.state # "S3"
    BY <2>2 DEF WritePendingFence
  <2>3. ASSUME NEW o \in Operators, SealFence(o)
        PROVE  state = "S3" /\ epoch = fence'.epoch
    BY <2>3 DEF SealFence, EvidenceIsTrue
  <2>4. ASSUME NEW o \in Operators, Advance(o), ~WritePendingFence(o), ~SealFence(o)
        PROVE  UNCHANGED fence
    BY <2>4 DEF Advance, LoadIntent, PersistIntent, ReadBefore, SendTransition, Recheck,
       SendActivation, FinalRead, Rerun
  <2> QED
    BY <1>1, <2>1, <2>2, <2>3, <2>4 DEF UCNext, Crash, Execute, ExecuteTransition,
       ExecuteActivation, Vanish, Reverse, CheckFence, Connect, SqliteCommit, Close, uvars
<1> QED BY <1>2, <1>3 DEF EvidenceIsTrue

---------------------------------------------------------------------------
(* The theorems *)

LEMMA Inductive == UCSpec => []UCIInv
<1> USE DEF UCIInv, UCInv
<1>1. UCInit => UCIInv
  <2> SUFFICES ASSUME UCInit PROVE UCIInv
    OBVIOUS
  <2>1. UCTypeOK
    BY CutoverAssumption DEF UCInit, UCTypeOK, Steps
  <2>2. FencedBeforeAuthority /\ RowInv /\ EvidenceIsTrue
    BY CutoverAssumption DEF UCInit, FencedBeforeAuthority, RowInv, EvidenceIsTrue
  <2>3. FencedRun /\ AwaitedInv /\ ActivationInv
    BY DEF UCInit, FencedRun, AwaitedInv, ActivationInv
  <2> QED BY <2>1, <2>2, <2>3
<1>2. UCIInv /\ [UCNext]_uvars => UCIInv'
  BY TypeStep, RowStep, FencedStep, AwaitedStep, ActivationStep, EvidenceStep
<1> QED BY <1>1, <1>2, PTL DEF UCSpec

\* The types, and: PostgreSQL never holds the unit while the local fence is open,
\* whichever run, or transaction of a dead run, moves the row.
THEOREM FenceAhead == UCSpec => []UCInv
  BY Inductive, PTL DEF UCIInv

\* What the controller returns as evidence is so in the authority row and in the
\* formal snapshot, and stays so.
THEOREM EvidenceTrue == UCSpec => []EvidenceIsTrue
  BY Inductive, PTL DEF UCIInv

\* A process joins those that can write to the SQLite file by finding no fence, and
\* then the row is in S1 (FenceAhead); the rest of them can only leave.
THEOREM WritersDrain == UCSpec => LegacyWritersDrain
<1>1. UCIInv /\ [UCNext]_uvars =>
        [state # "S1" \/ state' # "S1" =>
           checked' \cup writing' \subseteq checked \cup writing]_uvars
  <2> SUFFICES ASSUME UCIInv, [UCNext]_uvars, state # "S1" \/ state' # "S1"
               PROVE  checked' \cup writing' \subseteq checked \cup writing
    OBVIOUS
  <2>1. CASE \E w \in SqliteWriters : CheckFence(w)
    <3>1. fence = None /\ UNCHANGED state
      BY <2>1 DEF CheckFence, database
    <3> QED BY <3>1 DEF UCIInv, UCInv, UCTypeOK, FencedBeforeAuthority
  <2>2. CASE \E w \in SqliteWriters : Connect(w) \/ SqliteCommit(w) \/ Close(w)
    BY <2>2 DEF Connect, SqliteCommit, Close
  <2>3. CASE UNCHANGED legacy
    BY <2>3 DEF legacy
  <2> QED
    BY <2>1, <2>2, <2>3 DEF UCNext, uvars, Advance, LoadIntent, PersistIntent, ReadBefore,
       WritePendingFence, SendTransition, Recheck, SendActivation, FinalRead, SealFence,
       Rerun, Crash, Execute, ExecuteTransition, ExecuteActivation, Vanish, Reverse
<1> QED BY <1>1, Inductive, PTL DEF UCSpec, LegacyWritersDrain

\* Every step of the procedure is a fence, an unfence or the one commit of the
\* promised unit, or leaves what its readers and writers see alone.
THEOREM KeepsUnitPromise == UCSpec => KeepsPromise
<1>1. UCInit => Promise!Init
  BY DEF UCInit, Promise!Init, Owner
<1>2. UCIInv /\ [UCNext]_uvars => [Promise!Next]_(Promise!vars)
  <2> SUFFICES ASSUME UCIInv, [UCNext]_uvars PROVE [Promise!Next]_(Promise!vars)
    OBVIOUS
  <2>1. CASE UNCHANGED database
    BY <2>1 DEF Promise!vars, Owner, database
  <2>2. CASE state = "S1" /\ state' = "S2" /\ UNCHANGED published
    <3>1. Promise!Fence("unit")
      BY <2>2 DEF Promise!Fence, Owner
    <3> QED BY <3>1 DEF Promise!Next
  <2>3. CASE state = "S2" /\ state' = "S1" /\ UNCHANGED published
    <3>1. Promise!Unfence("unit")
      BY <2>3 DEF Promise!Unfence, Owner
    <3> QED BY <3>1 DEF Promise!Next
  <2>4. CASE state = "S2" /\ state' = "S3" /\ published' = epoch /\ epoch \in Epochs
    <3>1. published = None /\ published' # None
      BY <2>4, CutoverAssumption DEF UCIInv, RowInv
    <3>2. Promise!Commit("unit", epoch)
      BY <2>4, <3>1 DEF Promise!Commit, Owner
    <3> QED BY <2>4, <3>2 DEF Promise!Next
  <2> QED BY <2>1, <2>2, <2>3, <2>4, RowMoves DEF UCIInv, UCInv
<1> QED BY <1>1, <1>2, Inductive, PTL DEF UCSpec, KeepsPromise, Promise!Spec
=============================================================================
