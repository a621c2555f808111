---------------------------- MODULE UnitCutover ----------------------------
(***************************************************************************)
(* One run of stage4_remaining_unit_cutover after another: the operator's   *)
(* process drives a unit from S1 over S2 to S3 through three stores that    *)
(* share no transaction, the intent file, the local fence file and the      *)
(* PostgreSQL authority row, while legacy processes open and write the      *)
(* unit's SQLite file.                                                      *)
(*                                                                         *)
(* A transaction the process sent may commit after the process gave up on   *)
(* it: the connection breaks, or the process dies.                          *)
(***************************************************************************)
EXTENDS Naturals

CONSTANTS
    Operators,      \* processes running the controller
    SqliteWriters,  \* legacy processes that write the SQLite file
    Epochs,         \* uuid4 cutover epochs
    None,
    MaxCrashes, MaxReversals, MaxWrites   \* bounds on a behaviour

ASSUME CutoverAssumption ==
    /\ None \notin Epochs \cup Operators
    /\ None \notin [state : {"S2_PENDING", "S3"}, epoch : Epochs]
    /\ MaxCrashes \in Nat /\ MaxReversals \in Nat /\ MaxWrites \in Nat

VARIABLES
    state, epoch, revision,   \* the authority row of the unit
    published,                \* formal_unit_snapshot and the activation result, by epoch
    intent,                   \* the intent file: its epoch, or None
    fence,                    \* the local fence file, or None
    txs,                      \* transactions sent and not yet executed
    pc, mine, seen,           \* the controller process: program counter, the epoch
                              \* of its intent, the revision it read last
    checked,                  \* SQLite writers that passed the fence check and have
                              \* not opened the file yet
    writing,                  \* SQLite writers with an open connection
    sqlite,                   \* commits in the SQLite file since the S1 evidence
    crashes, reversals

database == <<state, epoch, revision, published>>
files    == <<intent, fence>>
process  == <<pc, mine, seen>>
legacy   == <<checked, writing, sqlite>>
uvars    == <<database, files, txs, process, legacy, crashes, reversals>>

Steps == {"start", "persist", "read", "fence", "transition", "await_transition",
          "recheck", "activate", "await_activation", "final", "seal", "done",
          "mismatch"}
Transaction == [kind : {"transition", "activation"}, by : Operators \cup {None},
                revision : Nat, epoch : Epochs]

UCTypeOK ==
    /\ state \in {"S1", "S2", "S3"}
    /\ epoch \in Epochs \cup {None}
    /\ revision \in Nat
    /\ published \in Epochs \cup {None}
    /\ intent \in Epochs \cup {None}
    /\ fence = None \/ fence \in [state : {"S2_PENDING", "S3"}, epoch : Epochs]
    /\ txs \subseteq Transaction
    /\ pc \in [Operators -> Steps]
    /\ mine \in [Operators -> Epochs \cup {None}]
    /\ seen \in [Operators -> Nat]
    /\ checked \subseteq SqliteWriters
    /\ writing \subseteq SqliteWriters
    /\ sqlite \in 0..MaxWrites
    /\ crashes \in 0..MaxCrashes /\ reversals \in 0..MaxReversals

\* S1 is the third revision of the row: S0, then S1.
UCInit ==
    /\ state = "S1" /\ epoch = None /\ revision = 2 /\ published = None
    /\ intent = None /\ fence = None
    /\ txs = {}
    /\ pc = [o \in Operators |-> "start"]
    /\ mine = [o \in Operators |-> None]
    /\ seen = [o \in Operators |-> 0]
    /\ checked = {}
    /\ writing \in SUBSET SqliteWriters
    /\ sqlite = 0
    /\ crashes = 0 /\ reversals = 0

---------------------------------------------------------------------------
(* The controller *)

Goto(o, step) == pc' = [pc EXCEPT ![o] = step]

\* build_or_load_intent: the persisted intent, or a new one to persist.
LoadIntent(o) ==
    /\ pc[o] = "start"
    /\ IF intent # None
       THEN mine' = [mine EXCEPT ![o] = intent] /\ Goto(o, "read")
       ELSE \E e \in Epochs : mine' = [mine EXCEPT ![o] = e] /\ Goto(o, "persist")
    /\ UNCHANGED <<database, files, txs, seen, legacy, crashes, reversals>>

\* _write: temporary file, then replace.
PersistIntent(o) ==
    /\ pc[o] = "persist"
    /\ intent' = mine[o]
    /\ Goto(o, "read")
    /\ UNCHANGED <<database, fence, txs, mine, seen, legacy, crashes, reversals>>

\* Faulty variant: the transition comes before the fence.
ReadBeforeUnfenced(o) ==
    /\ pc[o] = "read"
    /\ seen' = [seen EXCEPT ![o] = revision]
    /\ Goto(o, IF state = "S1" THEN "transition" ELSE "recheck")
    /\ UNCHANGED <<database, files, txs, mine, legacy, crashes, reversals>>

\* Faulty variant: the procedure starts from S1 only.
ReadBeforeStrict(o) ==
    /\ pc[o] = "read"
    /\ seen' = [seen EXCEPT ![o] = revision]
    /\ Goto(o, IF state = "S1" THEN "fence" ELSE "mismatch")
    /\ UNCHANGED <<database, files, txs, mine, legacy, crashes, reversals>>

\* S1 is fenced; S2 and S3 are where an earlier run came to.
ReadBefore(o) ==
    /\ pc[o] = "read"
    /\ seen' = [seen EXCEPT ![o] = revision]
    /\ Goto(o, IF state = "S1" THEN "fence" ELSE "recheck")
    /\ UNCHANGED <<database, files, txs, mine, legacy, crashes, reversals>>

WritePendingFence(o) ==
    /\ pc[o] = "fence"
    /\ fence' = [state |-> "S2_PENDING", epoch |-> mine[o]]
    /\ Goto(o, "transition")
    /\ UNCHANGED <<database, intent, txs, mine, seen, legacy, crashes, reversals>>

Send(o, kind) ==
    txs' = txs \cup {[kind |-> kind, by |-> o, revision |-> seen[o], epoch |-> mine[o]]}

SendTransition(o) ==
    /\ pc[o] = "transition"
    /\ Send(o, "transition")
    /\ Goto(o, "await_transition")
    /\ UNCHANGED <<database, files, mine, seen, legacy, crashes, reversals>>

\* Faulty variant: the authority is compared by its backend only.
BackendMatches(o) == state \in {"S2", "S3"}

\* The row carries the epoch of the persisted intent.
AuthorityMatches(o) == state \in {"S2", "S3"} /\ epoch = mine[o]

\* A mismatch is an error: the process ends.
Recheck(o) ==
    /\ pc[o] = "recheck"
    /\ seen' = [seen EXCEPT ![o] = revision]
    /\ Goto(o, IF ~AuthorityMatches(o) THEN "mismatch"
               ELSE IF state = "S2" THEN "activate" ELSE "final")
    /\ UNCHANGED <<database, files, txs, mine, legacy, crashes, reversals>>

SendActivation(o) ==
    /\ pc[o] = "activate"
    /\ Send(o, "activation")
    /\ Goto(o, "await_activation")
    /\ UNCHANGED <<database, files, mine, seen, legacy, crashes, reversals>>

\* The final read of the authority and of the formal snapshot.
FinalRead(o) ==
    /\ pc[o] = "final"
    /\ Goto(o, IF AuthorityMatches(o) /\ state = "S3" /\ published # None
               THEN "seal" ELSE "mismatch")
    /\ UNCHANGED <<database, files, txs, mine, seen, legacy, crashes, reversals>>

\* The fence becomes S3; the evidence is returned.
SealFence(o) ==
    /\ pc[o] = "seal"
    /\ fence' = [state |-> "S3", epoch |-> mine[o]]
    /\ Goto(o, "done")
    /\ UNCHANGED <<database, intent, txs, mine, seen, legacy, crashes, reversals>>

\* The command is run again after it ended in an error.
Rerun(o) ==
    /\ pc[o] = "mismatch"
    /\ Goto(o, "start")
    /\ UNCHANGED <<database, files, txs, mine, seen, legacy, crashes, reversals>>

\* The process dies, or its connection does: what it sent may still commit.
Crash(o) ==
    /\ pc[o] \notin {"start", "done"}
    /\ crashes < MaxCrashes
    /\ crashes' = crashes + 1
    /\ Goto(o, "start")
    /\ mine' = [mine EXCEPT ![o] = None]
    /\ seen' = [seen EXCEPT ![o] = 0]
    /\ txs' = {t \in txs : t.by # o} \cup
                {[t EXCEPT !.by = None] : t \in {x \in txs : x.by = o}}
    /\ UNCHANGED <<database, files, legacy, reversals>>

---------------------------------------------------------------------------
(* The database *)

\* The response goes to the process that waits for it.
Respond(t, next) ==
    /\ txs' = txs \ {t}
    /\ IF t.by = None THEN UNCHANGED pc ELSE Goto(t.by, next)

\* transition_remaining_unit S1 -> S2 and its compare-and-set.
ExecuteTransition(t) ==
    /\ t.kind = "transition"
    /\ IF state = "S1" /\ revision = t.revision
       THEN /\ state' = "S2" /\ epoch' = t.epoch /\ revision' = revision + 1
            /\ Respond(t, "recheck")
            /\ UNCHANGED published
       ELSE /\ Respond(t, "mismatch")
            /\ UNCHANGED database
    /\ UNCHANGED <<files, mine, seen, legacy, crashes, reversals>>

\* Faulty variant: the activation does not look at the authority row.
ExecuteActivationUnfenced(t) ==
    /\ t.kind = "activation"
    /\ IF published # None /\ published # t.epoch
       THEN /\ Respond(t, "mismatch")
            /\ UNCHANGED database
       ELSE /\ state' = "S3" /\ published' = t.epoch /\ revision' = revision + 1
            /\ Respond(t, "final")
            /\ UNCHANGED epoch
    /\ UNCHANGED <<files, mine, seen, legacy, crashes, reversals>>

\* activate_unit_snapshot_v1: its key belongs to the intent, as the epoch does.
ExecuteActivation(t) ==
    /\ t.kind = "activation"
    /\ \/ /\ published = t.epoch
          /\ Respond(t, "final")
          /\ UNCHANGED database
       \/ /\ published # t.epoch
          /\ state = "S2" /\ revision = t.revision
          /\ state' = "S3" /\ published' = t.epoch /\ revision' = revision + 1
          /\ Respond(t, "final")
          /\ UNCHANGED epoch
       \/ /\ published # t.epoch
          /\ state # "S2" \/ revision # t.revision
          /\ Respond(t, "mismatch")
          /\ UNCHANGED database
    /\ UNCHANGED <<files, mine, seen, legacy, crashes, reversals>>

\* A transaction whose connection broke before the server had it.
Vanish(t) ==
    /\ t.by = None
    /\ txs' = txs \ {t}
    /\ UNCHANGED <<database, files, process, legacy, crashes, reversals>>

\* A controller session reverses the fence by hand: S2 -> S1.
Reverse ==
    /\ state = "S2"
    /\ reversals < MaxReversals
    /\ reversals' = reversals + 1
    /\ state' = "S1" /\ epoch' = None /\ revision' = revision + 1
    /\ UNCHANGED <<published, files, txs, process, legacy, crashes>>

---------------------------------------------------------------------------
(* Legacy SQLite writers *)

\* Faulty variant: S2_PENDING does not block.
CheckFencePending(w) ==
    /\ w \notin checked \cup writing
    /\ fence # None => fence.state = "S2_PENDING"
    /\ checked' = checked \cup {w}
    /\ UNCHANGED <<database, files, txs, process, writing, sqlite, crashes, reversals>>

\* connect_domain_database, assert_sqlite_write_allowed: a fence file, pending or
\* sealed, is an error.
CheckFence(w) ==
    /\ w \notin checked \cup writing
    /\ fence = None
    /\ checked' = checked \cup {w}
    /\ UNCHANGED <<database, files, txs, process, writing, sqlite, crashes, reversals>>

\* Then sqlite3.connect; no lock is held in between.
Connect(w) ==
    /\ w \in checked
    /\ checked' = checked \ {w}
    /\ writing' = writing \cup {w}
    /\ UNCHANGED <<database, files, txs, process, sqlite, crashes, reversals>>

\* A commit on the open connection; nothing looks at the fence again.
SqliteCommit(w) ==
    /\ w \in writing
    /\ sqlite < MaxWrites
    /\ sqlite' = sqlite + 1
    /\ UNCHANGED <<database, files, txs, process, checked, writing, crashes, reversals>>

Close(w) ==
    /\ w \in writing
    /\ writing' = writing \ {w}
    /\ UNCHANGED <<database, files, txs, process, checked, sqlite, crashes, reversals>>

---------------------------------------------------------------------------

Advance(o) ==
    \/ LoadIntent(o) \/ PersistIntent(o) \/ ReadBefore(o) \/ WritePendingFence(o)
    \/ SendTransition(o) \/ Recheck(o) \/ SendActivation(o) \/ FinalRead(o)
    \/ SealFence(o) \/ Rerun(o)

Execute(t) == ExecuteTransition(t) \/ ExecuteActivation(t)

UCNext ==
    \/ \E o \in Operators : Advance(o) \/ Crash(o)
    \/ \E t \in txs : Execute(t) \/ Vanish(t)
    \/ Reverse
    \/ \E w \in SqliteWriters : CheckFence(w) \/ Connect(w) \/ SqliteCommit(w) \/ Close(w)

UCSpec == UCInit /\ [][UCNext]_uvars

\* The operator runs the command again until it ends, and a server executes
\* what it was sent over a connection that holds.  Nothing is assumed of the
\* legacy processes, of crashes or of reversals.
UCFairness ==
    /\ \A o \in Operators : WF_uvars(Advance(o))
    /\ WF_uvars(\E t \in txs : t.by # None /\ Execute(t))

UCFairSpec == UCSpec /\ UCFairness

---------------------------------------------------------------------------
(* Properties *)

\* PostgreSQL never holds the unit while the local fence is open: the file is
\* written before the row moves, by whichever run moves it.
FencedBeforeAuthority == state \in {"S2", "S3"} => fence # None

\* The types, and the fence ahead of the row.
UCInv == UCTypeOK /\ FencedBeforeAuthority

\* Once the unit left SQLite, no process joins those that can still write to the
\* file: the ones that have it open, and the ones that had passed the fence check
\* before the fence was written and open it later.
LegacyWritersDrain ==
    [][state # "S1" \/ state' # "S1" =>
         checked' \cup writing' \subseteq checked \cup writing]_uvars

\* The evidence of a finished run is the truth: S3, under its own epoch, and
\* published by the activation of that very epoch.  A sealed fence names the
\* epoch of the authority row.
EvidenceIsTrue ==
    /\ \A o \in Operators : pc[o] \in {"seal", "done"} =>
         state = "S3" /\ epoch = mine[o] /\ published = mine[o]
    /\ fence # None /\ fence.state = "S3" => state = "S3" /\ epoch = fence.epoch

\* However often an operator's process dies, whatever committed unseen, and
\* though the fence may be reversed, rerunning the command ends in S3; unless
\* the unit is fenced or published under an intent that the intent of another
\* operator, who looked for the file at the same time, replaced.
CutoverCompletes ==
    \A o \in Operators :
      <>(pc[o] = "done" /\ state = "S3") \/ <>[](state # "S1" /\ intent # epoch)

Owner == CASE state = "S3" -> "postgresql"
           [] state = "S2" -> "fenced"
           [] OTHER -> "sqlite"

Promise == INSTANCE AuthorityPromise
           WITH Units <- {"unit"}, Dependencies <- [u \in {"unit"} |-> {}],
                Keys <- Epochs,
                owner <- [u \in {"unit"} |-> Owner],
                committed <- [u \in {"unit"} |-> IF published = None THEN {} ELSE {published}]

\* The procedure, with its crashes, orphaned transactions and reversals, still
\* shows the unit's readers and writers the promised sequence of owners.
KeepsPromise == Promise!Spec
===========================================================================
