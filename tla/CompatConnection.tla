------------------------- MODULE CompatConnection -------------------------
(***************************************************************************)
(* PostgresDomainCompatibilityConnection: legacy code runs its SQLite       *)
(* transactions against a private copy of the unit; commit sends the row    *)
(* differences to PostgreSQL as one idempotent batch and keeps the batch    *)
(* pending until it learns that it committed.                               *)
(*                                                                         *)
(* A client runs the program of an operation, transaction by transaction,   *)
(* on one connection.  Calls and answers are lost, processes crash, and the *)
(* same operation is run again, possibly while its predecessor's call is    *)
(* still executing in the server.                                           *)
(***************************************************************************)
EXTENDS DomainMutation, Sequences

CONSTANTS
    Operations,   \* the logical runs of the callers
    Identity,     \* [Operations -> Identities]: the operation id each installs
    Program,      \* [Operations -> Seq of assignments [some rows -> values]]
    MaxCrashes, MaxLosses   \* bounds on the faults of a behaviour

ASSUME ProgramAssumption ==
    /\ None \notin Operations
    /\ Identity \in [Operations -> Identities]
    /\ \A o \in Operations :
         /\ Len(Program[o]) \in 1..MaxIndex
         /\ \A i \in 1..Len(Program[o]) :
              /\ DOMAIN Program[o][i] \subseteq Rows
              /\ \A r \in DOMAIN Program[o][i] : Program[o][i][r] \in Values \cup {None}
    /\ MaxCrashes \in Nat /\ MaxLosses \in Nat

VARIABLES
    op,        \* the operation a client runs, None when it holds no connection
    step,      \* the transaction of the program it is in
    index,     \* _transaction_index
    before,    \* _before: the payloads the connection believes current
    known,     \* _revisions
    pending,   \* _pending_batch_key and _pending_mutations, or None
    done,      \* operations that ran to the end
    crashes, losses

connection == <<op, step, index, before, known, pending>>
cvars == <<server, calls, connection, done, crashes, losses>>

Pending == [key : Key, batch : SUBSET Mutation]

ASSUME PendingAssumption == None \notin Pending

CompatTypeOK ==
    /\ ServerTypeOK
    /\ op \in [Clients -> Operations \cup {None}]
    /\ step \in [Clients -> 1..(MaxIndex + 1)]
    /\ index \in [Clients -> 0..MaxIndex]
    /\ before \in [Clients -> [Rows -> Values \cup {None}]]
    /\ known \in [Clients -> [Rows -> Nat]]
    /\ pending \in [Clients -> Pending \cup {None}]
    /\ done \subseteq Operations
    /\ crashes \in 0..MaxCrashes /\ losses \in 0..MaxLosses

CompatInit ==
    /\ ServerInit
    /\ op = [c \in Clients |-> None]
    /\ step = [c \in Clients |-> 1]
    /\ index = [c \in Clients |-> 0]
    /\ before = [c \in Clients |-> BaseValue]
    /\ known = [c \in Clients |-> [r \in Rows |-> 0]]
    /\ pending = [c \in Clients |-> None]
    /\ done = {}
    /\ crashes = 0 /\ losses = 0

---------------------------------------------------------------------------

\* __init__ and _load: one statement reads the records of the unit.
Open(c, o) ==
    /\ op[c] = None
    /\ o \notin done
    /\ op' = [op EXCEPT ![c] = o]
    /\ step' = [step EXCEPT ![c] = 1]
    /\ index' = [index EXCEPT ![c] = 0]
    /\ before' = [before EXCEPT ![c] = value]
    /\ known' = [known EXCEPT ![c] = version]
    /\ pending' = [pending EXCEPT ![c] = None]
    /\ UNCHANGED <<server, calls, done, crashes, losses>>

Running(c) == op[c] # None /\ step[c] <= Len(Program[op[c]])

\* The private copy after the transaction's own statements.
After(c) ==
    LET assigned == Program[op[c]][step[c]] IN
    [r \in Rows |-> IF r \in DOMAIN assigned THEN assigned[r] ELSE before[c][r]]

\* _mutations: the rows that differ, each with the revision believed current.
Mutations(c) ==
    LET after == After(c) IN
    {[row |-> r, value |-> after[r], expected |-> known[c][r]] :
       r \in {q \in Rows : after[q] # before[c][q]}}

Waiting(c) == \E k \in calls : k.client = c

Send(c, key, batch) ==
    calls' = calls \cup {[key |-> key, batch |-> batch, tx |-> step[c],
                          client |-> c, phase |-> "sent"]}

\* commit without differences is local.
CommitNothing(c) ==
    /\ Running(c)
    /\ pending[c] = None
    /\ Mutations(c) = {}
    /\ step' = [step EXCEPT ![c] = @ + 1]
    /\ UNCHANGED <<server, calls, op, index, before, known, pending, done, crashes, losses>>

\* Faulty variant: any unused key, not the next of the connection's own.
CommitFreshKey(c) ==
    /\ Running(c)
    /\ pending[c] = None
    /\ Mutations(c) # {}
    /\ \E key \in [id : {Identity[op[c]]}, index : (index[c] + 1)..MaxIndex] :
         /\ \A x \in results : x.key # key
         /\ index' = [index EXCEPT ![c] = key.index]
         /\ pending' = [pending EXCEPT ![c] = [key |-> key, batch |-> Mutations(c)]]
         /\ Send(c, key, Mutations(c))
    /\ UNCHANGED <<server, op, step, before, known, done, crashes, losses>>

\* commit with differences: the connection's next key, and the batch pending
\* before it is sent.
Commit(c) ==
    LET batch == Mutations(c)
        key   == [id |-> Identity[op[c]], index |-> index[c] + 1] IN
    /\ Running(c)
    /\ pending[c] = None
    /\ batch # {}
    /\ index' = [index EXCEPT ![c] = @ + 1]
    /\ pending' = [pending EXCEPT ![c] = [key |-> key, batch |-> batch]]
    /\ Send(c, key, batch)
    /\ UNCHANGED <<server, op, step, before, known, done, crashes, losses>>

\* Faulty variant: a retry takes a new key.
RetryFreshKey(c) ==
    LET key == [id |-> Identity[op[c]], index |-> index[c] + 1] IN
    /\ Running(c)
    /\ pending[c] # None
    /\ index[c] < MaxIndex
    /\ ~Waiting(c)
    /\ index' = [index EXCEPT ![c] = @ + 1]
    /\ pending' = [pending EXCEPT ![c].key = key]
    /\ Send(c, key, pending[c].batch)
    /\ UNCHANGED <<server, op, step, before, known, done, crashes, losses>>

\* commit again on the same connection: same key, same mutations.
Retry(c) ==
    /\ Running(c)
    /\ pending[c] # None
    /\ ~Waiting(c)
    /\ Send(c, pending[c].key, pending[c].batch)
    /\ UNCHANGED <<server, connection, done, crashes, losses>>

\* Faulty variant: an error ends the transaction like a commit.
AcknowledgeAnything(k) ==
    LET c == k.client IN
    /\ k.phase \in {"ok", "error"}
    /\ calls' = calls \ {k}
    /\ before' = [before EXCEPT ![c] = After(c)]
    /\ known' = [known EXCEPT ![c] =
         [r \in Rows |-> IF \E m \in k.batch : m.row = r
                         THEN @[r] + 1 ELSE @[r]]]
    /\ pending' = [pending EXCEPT ![c] = None]
    /\ step' = [step EXCEPT ![c] = @ + 1]
    /\ UNCHANGED <<server, op, index, done, crashes, losses>>

\* The answer arrives and the local transaction commits.
Acknowledge(k) ==
    LET c == k.client IN
    /\ k.phase = "ok"
    /\ calls' = calls \ {k}
    /\ before' = [before EXCEPT ![c] = After(c)]
    /\ known' = [known EXCEPT ![c] =
         [r \in Rows |-> IF \E m \in k.batch : m.row = r
                         THEN @[r] + 1 ELSE @[r]]]
    /\ pending' = [pending EXCEPT ![c] = None]
    /\ step' = [step EXCEPT ![c] = @ + 1]
    /\ UNCHANGED <<server, op, index, done, crashes, losses>>

\* A refusal arrives: the caller sees "result is uncertain", and the batch
\* stays pending.
Disappoint(k) ==
    /\ k.client # None
    /\ k.phase \in {"error", "conflict", "rejected"}
    /\ calls' = calls \ {k}
    /\ UNCHANGED <<server, connection, done, crashes, losses>>

\* The connection breaks: the caller gives up, the server may go on.
Lose(k) ==
    /\ k.client # None
    /\ losses < MaxLosses
    /\ losses' = losses + 1
    /\ calls' = (calls \ {k}) \cup
         (IF k.phase \in {"sent", "locking"} THEN {[k EXCEPT !.client = None]} ELSE {})
    /\ UNCHANGED <<server, connection, done, crashes>>

\* The server never executes a call nobody waits for: it died on the way.
Vanish(k) ==
    /\ k.client = None
    /\ calls' = calls \ {k}
    /\ UNCHANGED <<server, connection, done, crashes, losses>>

Forget(c) ==
    /\ op' = [op EXCEPT ![c] = None]
    /\ step' = [step EXCEPT ![c] = 1]
    /\ index' = [index EXCEPT ![c] = 0]
    /\ before' = [before EXCEPT ![c] = BaseValue]
    /\ known' = [known EXCEPT ![c] = [r \in Rows |-> 0]]
    /\ pending' = [pending EXCEPT ![c] = None]

\* The process dies; so does everything the connection knew.
Crash(c) ==
    /\ op[c] # None
    /\ crashes < MaxCrashes
    /\ crashes' = crashes + 1
    /\ Forget(c)
    /\ calls' = {k \in calls : k.client # c} \cup
         {[k EXCEPT !.client = None] :
            k \in {j \in calls : j.client = c /\ j.phase \in {"sent", "locking"}}}
    /\ UNCHANGED <<server, done, losses>>

Finish(c) ==
    /\ op[c] # None
    /\ step[c] > Len(Program[op[c]])
    /\ done' = done \cup {op[c]}
    /\ Forget(c)
    /\ UNCHANGED <<server, calls, crashes, losses>>

CompatServe(k) ==
    /\ Serve(k)
    /\ UNCHANGED <<connection, done, crashes, losses>>

CompatNext ==
    \/ \E c \in Clients :
         \/ \E o \in Operations : Open(c, o)
         \/ CommitNothing(c)
         \/ Commit(c)
         \/ Retry(c)
         \/ Crash(c)
         \/ Finish(c)
    \/ \E k \in calls :
         \/ CompatServe(k)
         \/ Acknowledge(k)
         \/ Disappoint(k)
         \/ Lose(k)
         \/ Vanish(k)

CompatSpec == CompatInit /\ [][CompatNext]_cvars

\* A caller that keeps running, retrying and reading answers, a supervisor
\* that runs a crashed operation again, and a server that executes the calls
\* of every caller that waits.
CompatFairness ==
    /\ \A c \in Clients : WF_cvars(\/ \E o \in Operations : Open(c, o)
                                   \/ CommitNothing(c) \/ Commit(c)
                                   \/ Retry(c) \/ Finish(c))
    /\ \A c \in Clients :
         WF_cvars(\E k \in calls :
                    k.client = c /\ (CompatServe(k) \/ Acknowledge(k) \/ Disappoint(k)))

CompatFairSpec == CompatSpec /\ CompatFairness

---------------------------------------------------------------------------
(* Properties *)

\* What a connection believes of a row is a version the row really had: its
\* compare-and-set can be stale, never wrong.
BeliefIsHistory ==
    \A c \in Clients : op[c] # None => \A r \in Rows :
      /\ known[c][r] <= version[r]
      /\ IF known[c][r] = BaseVersion(r)
         THEN before[c][r] = BaseValue[r]
         ELSE \E e \in ledger :
                e.row = r /\ e.to = known[c][r] /\ e.value = before[c][r]

\* A transaction the program went past is stored, or found stored: for each
\* of its rows some version holds the value it assigned.
PassedTransactionsAreStored ==
    \A c \in Clients : op[c] # None =>
      \A i \in 1..(step[c] - 1) : \A r \in DOMAIN Program[op[c]][i] :
        LET v == Program[op[c]][i][r] IN
        \/ BaseValue[r] = v
        \/ \E e \in ledger : e.row = r /\ e.value = v

\* A transaction of an operation takes effect at most once, although the
\* operation is retried, crashes and is run again, next to other operations
\* that overwrite what it wrote.
TransactionAppliedOnce ==
    \A x, y \in results : x.key.id = y.key.id /\ x.tx = y.tx => x = y

\* However its calls were lost or repeated, a transaction a program passed took
\* effect, and no transaction took effect twice.
TransactionsTakeEffectOnce == PassedTransactionsAreStored /\ TransactionAppliedOnce

\* What a row has had: its payload in the snapshot, and those of the ledger.
Had(r) == {BaseValue[r]} \cup {e.value : e \in {f \in ledger : f.row = r}}

Promise == INSTANCE OperationPromise WITH
    had   <- [r \in Rows |-> Had(r)],
    taken <- {[id |-> x.key.id, tx |-> x.tx] : x \in results}

\* Whatever is lost, repeated or left behind by a process that died, the rows
\* change as if the transactions of each identity ran one by one, whole, in order.
KeepsOperations == Promise!Spec

\* While its outcome is unknown, a connection has nothing but the pending
\* batch under way, and under no other key.
OneBatchInDoubt ==
    \A k \in calls : k.client # None =>
      /\ pending[k.client] # None
      /\ pending[k.client].key = k.key
      /\ pending[k.client].batch = k.batch

\* The pending batch can never be stored: it holds a row the overlay rejects, its
\* key stands for another batch, or another transaction moved on one of its rows.
\* The caller is told "uncertain" all the same, and keeps the batch pending.
Hopeless(c) ==
    \/ ~Storable(pending[c].batch)
    \/ \E x \in results : x.key = pending[c].key /\ x.batch # pending[c].batch
    \/ \E x \in results : \E n \in x.batch, m \in pending[c].batch :
         /\ ~(x.key.id = Identity[op[c]] /\ x.tx = step[c])
         /\ n.row = m.row /\ n.expected = m.expected

\* Retrying ends the doubt of a commit, whoever crashed and whatever was lost: also
\* when the first call commits after the retry was sent, or when other transactions
\* have changed its rows since it committed.  Only a batch that is Hopeless stays.
DoubtEnds ==
    \A c \in Clients : pending[c] # None ~> (pending[c] = None \/ Hopeless(c))

\* "Every logical transaction requires a stable operation identity supplied by
\* its trusted caller", which a crash or retry of the same logical run reuses:
\* no call finds its key taken by another transaction.
KeyIsOneTransaction == \A k \in calls : k.phase # "conflict"
===========================================================================
