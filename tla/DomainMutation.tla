-------------------------- MODULE DomainMutation --------------------------
(***************************************************************************)
(* The PostgreSQL side of a formal business write on a published unit:      *)
(* domain_data.apply_mutation_batch_v1 and the mutate_record_v1 it calls    *)
(* for every row, over the copy-on-write overlay, the idempotency results   *)
(* and the record ledger.                                                   *)
(*                                                                         *)
(* A call looks its key up first, holding no lock; then it locks the unit's *)
(* authority row and does everything else, as one transaction.  Other       *)
(* calls, of the same key too, run between the two.                         *)
(***************************************************************************)
EXTENDS Naturals

CONSTANTS
    Rows,         \* record identities (source_database, source_table, source_key)
    BaseValue,    \* [Rows -> values]: None for a row that is not in the snapshot
    Values,       \* row payloads
    Identities,   \* operation ids: HONGHU_OPERATION_ID, or the caller's
    Clients,      \* processes holding a compatibility connection
    MaxIndex,     \* bound on the transaction index of a connection
    None

ASSUME MutationAssumption ==
    /\ None \notin Values \cup Clients
    /\ BaseValue \in [Rows -> Values \cup {None}]
    /\ MaxIndex \in Nat

VARIABLES
    version,   \* revision of every row: 0 absent, 1 as in the snapshot
    value,     \* payload of every row, None when absent or deleted
    results,   \* domain_data.mutation_result, one per committed batch
    ledger,    \* audit.domain_record_revision
    calls      \* calls of apply_mutation_batch_v1 under way

server == <<version, value, results, ledger>>

Key      == [id : Identities, index : 1..MaxIndex]
Mutation == [row : Rows, value : Values \cup {None}, expected : Nat]
Entry    == [row : Rows, to : Nat, value : Values \cup {None}, key : Key]

\* `tx` only names the transaction of the program the batch came from; the
\* request hash covers the batch alone.
Result == [key : Key, batch : SUBSET Mutation, tx : Nat]

\* `client` is None once the caller stopped waiting.
Call == [key : Key, batch : SUBSET Mutation, tx : Nat, client : Clients \cup {None},
         phase : {"sent", "locking", "ok", "error", "conflict", "rejected"}]

ServerTypeOK ==
    /\ version \in [Rows -> Nat]
    /\ value   \in [Rows -> Values \cup {None}]
    /\ results \subseteq Result
    /\ ledger  \subseteq Entry
    /\ calls   \subseteq Call

BaseVersion(r) == IF BaseValue[r] = None THEN 0 ELSE 1

ServerInit ==
    /\ version = [r \in Rows |-> BaseVersion(r)]
    /\ value = BaseValue
    /\ results = {}
    /\ ledger = {}
    /\ calls = {}

---------------------------------------------------------------------------

\* The answer to an abandoned call goes nowhere.
Answer(c, phase) ==
    calls' = (calls \ {c}) \cup
               (IF c.client = None THEN {} ELSE {[c EXCEPT !.phase = phase]})

\* SELECT * INTO v_existing: a known key replays its result, or conflicts.
Lookup(c) ==
    /\ c.phase = "sent"
    /\ \/ /\ \E x \in results : x.key = c.key /\ x.batch = c.batch
          /\ Answer(c, "ok")
       \/ /\ \E x \in results : x.key = c.key /\ x.batch # c.batch
          /\ Answer(c, "conflict")
       \/ /\ \A x \in results : x.key # c.key
          /\ calls' = (calls \ {c}) \cup {[c EXCEPT !.phase = "locking"]}
    /\ UNCHANGED server

\* Faulty variant: a lost compare-and-set.
CurrentAlways(batch) == \A m \in batch : version[m.row] >= m.expected

\* Every row of the batch is at the revision the caller read.
Current(batch) == \A m \in batch : version[m.row] = m.expected

\* CHECK (revision > 1) of record_overlay: the row a mutation stores carries
\* revision expected + 1.
Storable(batch) == \A m \in batch : m.expected + 1 > 1

\* Faulty variant: each row commits on its own, so that a stale row leaves
\* the others of its batch behind.
ApplyRowByRow(c) ==
    LET fresh == {m \in c.batch : version[m.row] = m.expected} IN
    /\ c.phase = "locking"
    /\ \A x \in results : x.key # c.key
    /\ Storable(c.batch)
    /\ version' = [r \in Rows |-> IF \E m \in fresh : m.row = r
                                  THEN version[r] + 1 ELSE version[r]]
    /\ value' = [r \in Rows |-> IF \E m \in fresh : m.row = r
                                THEN (CHOOSE m \in fresh : m.row = r).value
                                ELSE value[r]]
    /\ ledger' = ledger \cup {[row |-> m.row, to |-> m.expected + 1,
                               value |-> m.value, key |-> c.key] : m \in fresh}
    /\ results' = IF fresh = c.batch
                  THEN results \cup {[key |-> c.key, batch |-> c.batch, tx |-> c.tx]}
                  ELSE results
    /\ Answer(c, IF fresh = c.batch THEN "ok" ELSE "error")

\* The rows of the batch, their ledger entries and the result, all at once.
Apply(c) ==
    /\ c.phase = "locking"
    /\ \A x \in results : x.key # c.key
    /\ Current(c.batch)
    /\ Storable(c.batch)
    /\ version' = [r \in Rows |-> IF \E m \in c.batch : m.row = r
                                  THEN version[r] + 1 ELSE version[r]]
    /\ value' = [r \in Rows |-> IF \E m \in c.batch : m.row = r
                                THEN (CHOOSE m \in c.batch : m.row = r).value
                                ELSE value[r]]
    /\ ledger' = ledger \cup {[row |-> m.row, to |-> m.expected + 1,
                               value |-> m.value, key |-> c.key] : m \in c.batch}
    /\ results' = results \cup {[key |-> c.key, batch |-> c.batch, tx |-> c.tx]}
    /\ Answer(c, "ok")

\* The transaction is rolled back: its key committed since the lookup, or a
\* row moved on.
Refuse(c) ==
    /\ c.phase = "locking"
    /\ \/ \E x \in results : x.key = c.key
       \/ ~Current(c.batch)
    /\ Answer(c, "error")
    /\ UNCHANGED server

\* The overlay's own constraint rolls it back.
Reject(c) ==
    /\ c.phase = "locking"
    /\ \A x \in results : x.key # c.key
    /\ Current(c.batch)
    /\ ~Storable(c.batch)
    /\ Answer(c, "rejected")
    /\ UNCHANGED server

Serve(c) == Lookup(c) \/ Apply(c) \/ Refuse(c) \/ Reject(c)

---------------------------------------------------------------------------
(* Properties *)

\* A batch leaves all of its rows in the ledger or none, whatever was lost,
\* retried or replayed, and each key stands for one batch.
BatchIsAtomic ==
    /\ \A x, y \in results : x.key = y.key => x = y
    /\ ledger = UNION {{[row |-> m.row, to |-> m.expected + 1, value |-> m.value,
                         key |-> x.key] : m \in x.batch} : x \in results}

\* Every version of a row has exactly one author, from the snapshot to now,
\* and the current payload is the last author's: no update is lost.
EveryVersionHasOneAuthor ==
    /\ \A e, f \in ledger : e.row = f.row /\ e.to = f.to => e = f
    /\ \A r \in Rows :
         /\ \A n \in (BaseVersion(r) + 1)..version[r] :
              \E e \in ledger : e.row = r /\ e.to = n
         /\ \A e \in ledger : e.row = r =>
              /\ e.to \in (BaseVersion(r) + 1)..version[r]
              /\ e.to = version[r] => e.value = value[r]
         /\ version[r] = BaseVersion(r) => value[r] = BaseValue[r]

\* The ledger is the history of the rows, and its batches are whole.
HistoryIsWhole == BatchIsAtomic /\ EveryVersionHasOneAuthor
===========================================================================
