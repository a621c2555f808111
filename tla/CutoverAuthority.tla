------------------------- MODULE CutoverAuthority -------------------------
(***************************************************************************)
(* The PostgreSQL cutover control plane: operations.cutover_unit_authority, *)
(* its audit ledger and the stored functions that move one data unit from   *)
(* the SQLite files (S0, S1) through the write fence (S2) to PostgreSQL     *)
(* (S3, S4).                                                                *)
(*                                                                         *)
(* Every action but ReadAuthority, CheckDependencies, ReadFence and Abandon *)
(* is one database transaction holding the unit's authority row FOR UPDATE. *)
(* What a session read in an earlier statement travels in `inflight`.       *)
(***************************************************************************)
EXTENDS Naturals

CONSTANTS
    Units,          \* routing.PRODUCTION_CUTOVER_UNITS
    SnapshotUnits,  \* units published by activating a reconciled snapshot
    Dependencies,   \* domain_data.unit_dependency
    RoleOf,         \* the database role that owns a unit's writes
    Sessions,       \* operator sessions calling the stored functions
    Writers, Epochs, Watermarks, Approvals,
    Keys,           \* idempotency keys of formal mutations
    Hashes,         \* request hashes of verification writes
    None,           \* SQL NULL
    MaxRevision     \* bound on state_revision

AuthorityStates == {"ABSENT", "S0", "S1", "S2", "S3", "S4"}
PostgresStates  == {"S3", "S4"}

ASSUME ConstantsAssumption ==
    /\ SnapshotUnits \subseteq Units
    /\ Dependencies \in [Units -> SUBSET Units]
    /\ RoleOf \in [Units -> Writers]
    /\ None \notin Writers \cup Epochs \cup Watermarks \cup Approvals \cup Keys
    /\ MaxRevision \in Nat

VARIABLES
    state, writer, epoch, watermark, formal, approval, revision, \* the row
    audit,          \* audit.cutover_unit_authority_revision
    verification,   \* operations.cutover_verification_write
    results,        \* committed formal mutations, by idempotency key
    snapshot,       \* units with a row in formal_unit_snapshot
    inflight        \* calls whose earlier statements were already answered

row  == <<state, writer, epoch, watermark, formal, approval, revision>>
vars == <<row, audit, verification, results, snapshot, inflight>>

AuditRow == [unit : Units, revision : Nat, from : AuthorityStates,
             to : AuthorityStates, writer : Writers \cup {None},
             epoch : Epochs \cup {None}, formal : Keys \cup {None},
             approval : Approvals]
Request  == [by : Sessions, unit : Units, to : AuthorityStates,
             state : AuthorityStates, revision : Nat,
             phase : {"read", "checked", "fenced"}]

TypeOK ==
    /\ state     \in [Units -> AuthorityStates]
    /\ writer    \in [Units -> Writers \cup {None}]
    /\ epoch     \in [Units -> Epochs \cup {None}]
    /\ watermark \in [Units -> Watermarks \cup {None}]
    /\ formal    \in [Units -> Keys \cup {None}]
    /\ approval  \in [Units -> Approvals \cup {None}]
    /\ revision  \in [Units -> Nat]
    /\ audit \subseteq AuditRow
    /\ verification \subseteq [unit : Units, epoch : Epochs, key : Keys, hash : Hashes]
    /\ results \subseteq [unit : Units, key : Keys]
    /\ snapshot \subseteq SnapshotUnits
    /\ inflight \subseteq Request

Init ==
    /\ state     = [u \in Units |-> "ABSENT"]
    /\ writer    = [u \in Units |-> None]
    /\ epoch     = [u \in Units |-> None]
    /\ watermark = [u \in Units |-> None]
    /\ formal    = [u \in Units |-> None]
    /\ approval  = [u \in Units |-> None]
    /\ revision  = [u \in Units |-> 0]
    /\ audit = {}
    /\ verification = {}
    /\ results = {}
    /\ snapshot = {}
    /\ inflight = {}

---------------------------------------------------------------------------
(* operations.transition_cutover_unit and its wrapper *)

\* Faulty variant: a published unit may return to SQLite.
AllowedWithRollback == {<<"ABSENT", "S0">>, <<"S0", "S1">>, <<"S1", "S0">>,
                        <<"S1", "S2">>, <<"S2", "S1">>, <<"S3", "S4">>, <<"S3", "S1">>}

Allowed == {<<"ABSENT", "S0">>, <<"S0", "S1">>, <<"S1", "S0">>,
            <<"S1", "S2">>, <<"S2", "S1">>, <<"S3", "S4">>}

Free(s) == \A r \in inflight : r.by # s

\* A controller reads the authority row and decides on a transition.  Only
\* pairs the function can accept are enumerated: any other one is refused
\* without effect.
ReadAuthority(s, u, to) ==
    /\ Free(s)
    /\ <<state[u], to>> \in Allowed
    /\ inflight' = inflight \cup
         {[by |-> s, unit |-> u, to |-> to, state |-> state[u],
           revision |-> revision[u],
           phase |-> IF to = "S2" THEN "read" ELSE "checked"]}
    /\ UNCHANGED <<row, audit, verification, results, snapshot>>

\* Faulty variant: a fenced dependency counts as a published one.
CheckDependenciesFenced(r) ==
    /\ r.phase = "read"
    /\ \A d \in Dependencies[r.unit] : state[d] \in {"S2", "S3", "S4"}
    /\ inflight' = (inflight \ {r}) \cup {[r EXCEPT !.phase = "checked"]}
    /\ UNCHANGED <<row, audit, verification, results, snapshot>>

\* transition_remaining_unit looks at the dependencies first, in a statement
\* that locks none of their rows; a unit without dependencies passes.
CheckDependencies(r) ==
    /\ r.phase = "read"
    /\ \A d \in Dependencies[r.unit] : state[d] \in PostgresStates
    /\ inflight' = (inflight \ {r}) \cup {[r EXCEPT !.phase = "checked"]}
    /\ UNCHANGED <<row, audit, verification, results, snapshot>>

\* The compare-and-set both the state and the revision must pass.
Fresh(r) == state[r.unit] = r.state /\ revision[r.unit] = r.revision

\* Faulty variant: the ledger takes the old revision.
AuditOldRevision(u, from, to, w, e, f, a) ==
    [unit |-> u, revision |-> revision[u], from |-> from, to |-> to,
     writer |-> w, epoch |-> e, formal |-> f, approval |-> a]

AuditEntry(u, from, to, w, e, f, a) ==
    [unit |-> u, revision |-> revision[u] + 1, from |-> from, to |-> to,
     writer |-> w, epoch |-> e, formal |-> f, approval |-> a]

\* The UPDATE of the row and the INSERT into the ledger.
WriteAuthority(u, from, to, w, e, m, f, a) ==
    /\ revision[u] < MaxRevision
    /\ state'     = [state EXCEPT ![u] = to]
    /\ writer'    = [writer EXCEPT ![u] = w]
    /\ epoch'     = [epoch EXCEPT ![u] = e]
    /\ watermark' = [watermark EXCEPT ![u] = m]
    /\ formal'    = [formal EXCEPT ![u] = f]
    /\ approval'  = [approval EXCEPT ![u] = a]
    /\ revision'  = [revision EXCEPT ![u] = @ + 1]
    /\ audit' = audit \cup {AuditEntry(u, from, to, w, e, f, a)}

\* S0 and S1 carry neither writer, epoch nor watermark.
TransitionToSqlite(r, a) ==
    /\ r.phase = "checked"
    /\ r.to \in {"S0", "S1"}
    /\ <<r.state, r.to>> \in Allowed
    /\ Fresh(r)
    /\ r.state = "S2" => formal[r.unit] = None
    /\ WriteAuthority(r.unit, r.state, r.to, None, None, None, None, a)
    /\ inflight' = inflight \ {r}
    /\ UNCHANGED <<verification, results, snapshot>>

\* Faulty variant: the fence does not wait for the dependency check.
TransitionToFenceUnchecked(r, w, e, m, a) ==
    /\ r.to = "S2"
    /\ <<r.state, r.to>> \in Allowed
    /\ Fresh(r)
    /\ WriteAuthority(r.unit, r.state, "S2", w, e, m, None, a)
    /\ inflight' = inflight \ {r}
    /\ UNCHANGED <<verification, results, snapshot>>

TransitionToFence(r, w, e, m, a) ==
    /\ r.phase = "checked"
    /\ r.to = "S2"
    /\ <<r.state, r.to>> \in Allowed
    /\ Fresh(r)
    /\ WriteAuthority(r.unit, r.state, "S2", w, e, m, None, a)
    /\ inflight' = inflight \ {r}
    /\ UNCHANGED <<verification, results, snapshot>>

\* S3 -> S4 keeps the authority identity and takes an approval other than S3's.
TransitionToStable(r, a) ==
    LET u == r.unit IN
    /\ r.phase = "checked"
    /\ r.to = "S4"
    /\ <<r.state, r.to>> \in Allowed
    /\ Fresh(r)
    /\ a # approval[u]
    /\ WriteAuthority(u, r.state, "S4", writer[u], epoch[u], watermark[u], formal[u], a)
    /\ inflight' = inflight \ {r}
    /\ UNCHANGED <<verification, results, snapshot>>

\* A refused call, a failed statement or a session that died.
Abandon(r) ==
    /\ inflight' = inflight \ {r}
    /\ UNCHANGED <<row, audit, verification, results, snapshot>>

---------------------------------------------------------------------------
(* Writes under the fence and formal mutations *)

\* Faulty variant: the epoch is the caller's, not the row's.
RecordVerificationAnyEpoch(u, k, h) ==
    /\ state[u] = "S2"
    /\ \E e \in Epochs :
         verification' = verification \cup
           {[unit |-> u, epoch |-> e, key |-> k, hash |-> h]}
    /\ UNCHANGED <<row, audit, results, snapshot, inflight>>

\* operations.record_cutover_verification: one row per epoch and key.  The
\* controller passes the writer of the row; a wrong one, a replay and a
\* conflicting hash change nothing.
RecordVerification(u, k, h) ==
    /\ state[u] = "S2"
    /\ ~\E v \in verification : v.unit = u /\ v.epoch = epoch[u] /\ v.key = k
    /\ verification' = verification \cup
         {[unit |-> u, epoch |-> epoch[u], key |-> k, hash |-> h]}
    /\ UNCHANGED <<row, audit, results, snapshot, inflight>>

\* Faulty variant: the evidence of some fence of the ledger, not of the row.
PromoteAnyFence(u, k) ==
    /\ state[u] \in {"S2", "S3", "S4"}
    /\ writer[u] = RoleOf[u]
    /\ IF state[u] = "S2"
       THEN \E x \in audit :
              /\ x.unit = u /\ x.to = "S2"
              /\ WriteAuthority(u, "S2", "S3", x.writer, x.epoch, watermark[u], k, x.approval)
       ELSE UNCHANGED <<row, audit>>

\* promote_cutover_unit_on_first_formal_mutation, called inside the
\* transaction of a formal mutation: only S2 moves.
Promote(u, k) ==
    /\ state[u] \in {"S2", "S3", "S4"}
    /\ writer[u] = RoleOf[u]
    /\ IF state[u] = "S2"
       THEN WriteAuthority(u, "S2", "S3", writer[u], epoch[u], watermark[u], k, approval[u])
       ELSE UNCHANGED <<row, audit>>

\* The publisher reads the fenced row before it asks for the activation.
ReadFence(s, u) ==
    /\ Free(s)
    /\ state[u] = "S2"
    /\ inflight' = inflight \cup
         {[by |-> s, unit |-> u, to |-> "S3", state |-> "S2",
           revision |-> revision[u], phase |-> "fenced"]}
    /\ UNCHANGED <<row, audit, verification, results, snapshot>>

\* activate_unit_snapshot_v1 / activate_snapshot_v1, first execution; a
\* replay of a recorded key returns the recorded result and is no step.
ActivateSnapshot(r, k) ==
    LET u == r.unit IN
    /\ r.phase = "fenced"
    /\ u \in SnapshotUnits
    /\ [unit |-> u, key |-> k] \notin results
    /\ Fresh(r)
    /\ u \notin snapshot            \* PRIMARY KEY(cutover_unit)
    /\ Promote(u, k)
    /\ snapshot' = snapshot \cup {u}
    /\ results' = results \cup {[unit |-> u, key |-> k]}
    /\ inflight' = inflight \ {r}
    /\ UNCHANGED verification

\* Faulty variant: a note is stored under the fence without a promotion.
NoteMutationUnpromoted(u, k) ==
    /\ u \notin SnapshotUnits
    /\ state[u] \in {"S2", "S3", "S4"}
    /\ [unit |-> u, key |-> k] \notin results
    /\ results' = results \cup {[unit |-> u, key |-> k]}
    /\ UNCHANGED <<row, audit, verification, snapshot, inflight>>

\* put_analyst_note_v2 and soft_delete_analyst_note_v2 as the control plane
\* sees them: the first one that commits also promotes the unit.
NoteMutation(u, k) ==
    /\ u \notin SnapshotUnits
    /\ [unit |-> u, key |-> k] \notin results
    /\ Promote(u, k)
    /\ results' = results \cup {[unit |-> u, key |-> k]}
    /\ UNCHANGED <<verification, snapshot, inflight>>

\* mutate_record_v1 on a published unit.
RecordMutation(u, k) ==
    /\ u \in snapshot
    /\ [unit |-> u, key |-> k] \notin results
    /\ state[u] \in PostgresStates
    /\ writer[u] = RoleOf[u]
    /\ results' = results \cup {[unit |-> u, key |-> k]}
    /\ UNCHANGED <<row, audit, verification, snapshot, inflight>>

---------------------------------------------------------------------------

Next ==
    \/ \E s \in Sessions, u \in Units :
         \/ \E to \in AuthorityStates : ReadAuthority(s, u, to)
         \/ ReadFence(s, u)
    \/ \E r \in inflight :
         \/ CheckDependencies(r)
         \/ \E a \in Approvals :
              \/ TransitionToSqlite(r, a)
              \/ TransitionToStable(r, a)
              \/ \E w \in Writers, e \in Epochs, m \in Watermarks :
                   TransitionToFence(r, w, e, m, a)
         \/ \E k \in Keys : ActivateSnapshot(r, k)
         \/ Abandon(r)
    \/ \E u \in Units, k \in Keys :
         \/ \E h \in Hashes : RecordVerification(u, k, h)
         \/ NoteMutation(u, k)
         \/ RecordMutation(u, k)

Spec == Init /\ [][Next]_vars

---------------------------------------------------------------------------
(* Properties *)

\* The CHECK constraints of the table as one statement: the formal commit is
\* recorded exactly in S3 and S4, a writer, an epoch and a watermark exactly
\* from the fence on, an approval from the first revision on.
RowShape ==
    \A u \in Units :
      /\ formal[u] # None <=> state[u] \in PostgresStates
      /\ writer[u] # None <=> state[u] \in {"S2", "S3", "S4"}
      /\ epoch[u]  # None <=> state[u] \in {"S2", "S3", "S4"}
      /\ watermark[u] # None <=> state[u] \in {"S2", "S3", "S4"}
      /\ approval[u] # None <=> state[u] # "ABSENT"
      /\ revision[u] = 0 <=> state[u] = "ABSENT"

\* A unit is never fenced or published while one of its dependencies is
\* still on SQLite, although transition_remaining_unit looks at the
\* dependencies without locking them.
DependencyClosed ==
    \A u \in Units : state[u] \in {"S2", "S3", "S4"} =>
      \A d \in Dependencies[u] : state[d] \in PostgresStates

\* The ledger is a gapless history of the row: one entry per revision, each
\* starting where the one before it ended, the last one equal to the row.
LedgerIsHistory ==
    /\ \A x, y \in audit :
         x.unit = y.unit /\ x.revision = y.revision => x = y
    /\ \A x, y \in audit :
         x.unit = y.unit /\ y.revision = x.revision + 1 => y.from = x.to
    /\ \A u \in Units : \A n \in 1..revision[u] :
         \E x \in audit : x.unit = u /\ x.revision = n
    /\ \A x \in audit :
         /\ x.revision \in 1..revision[x.unit]
         /\ x.revision = revision[x.unit] =>
              /\ x.to = state[x.unit]
              /\ x.writer = writer[x.unit]
              /\ x.epoch = epoch[x.unit]
              /\ x.formal = formal[x.unit]
              /\ x.approval = approval[x.unit]

\* A formal result exists only for a unit PostgreSQL owns, the recorded first
\* formal commit is one of them, and a published unit has its snapshot: the
\* promotion and the mutation that caused it commit together or not at all.
FormalCommitIsAtomic ==
    /\ \A x \in results : state[x.unit] \in PostgresStates
    /\ \A u \in Units : formal[u] # None => [unit |-> u, key |-> formal[u]] \in results
    /\ \A u \in SnapshotUnits : u \in snapshot <=> state[u] \in PostgresStates

\* The entries of one attempt belong together: a unit is published under the
\* writer, the epoch and the approval of the fence in force, which may not be the
\* one its publisher looked at, and S4 continues that S3 under another approval.
\* No more is asked of S4: the approval of a reversed attempt will do.
AttemptIsWhole ==
    \A x, y \in audit :
      (x.unit = y.unit /\ y.revision = x.revision + 1 /\ y.to \in PostgresStates) =>
        /\ y.writer = x.writer /\ y.epoch = x.epoch
        /\ y.to = "S3" => x.to = "S2" /\ y.approval = x.approval
        /\ y.to = "S4" => x.to = "S3" /\ y.approval # x.approval /\ y.formal = x.formal

\* Every verification write belongs to an audited fence of its unit: an entry
\* of the ledger put the unit in S2 under that very epoch.  An operator who gives
\* the epoch of a reversed attempt again takes its verification writes along.
VerificationWasFenced ==
    \A v \in verification :
      \E x \in audit : x.unit = v.unit /\ x.to = "S2" /\ x.epoch = v.epoch

\* What is published, made stable or verified carries the evidence of a fence:
\* of the one in force for S3 and S4, of one with that epoch for a verification.
EvidenceIsOfItsAttempt == AttemptIsWhole /\ VerificationWasFenced

\* Once a formal mutation committed, SQLite never owns the unit again and the
\* writer, the epoch, the watermark and the first commit never change.
AuthorityIsDurable ==
    [][\A u \in Units : formal[u] # None =>
         /\ state'[u] \in PostgresStates
         /\ formal'[u] = formal[u]
         /\ writer'[u] = writer[u]
         /\ epoch'[u] = epoch[u]
         /\ watermark'[u] = watermark[u]]_vars

---------------------------------------------------------------------------
(* The promise this control plane keeps *)

Owner(u) == CASE state[u] \in PostgresStates -> "postgresql"
              [] state[u] = "S2" -> "fenced"
              [] OTHER -> "sqlite"

Committed(u) == {k \in Keys : [unit |-> u, key |-> k] \in results}

Promise == INSTANCE AuthorityPromise
           WITH owner <- [u \in Units |-> Owner(u)],
                committed <- [u \in Units |-> Committed(u)]

\* The control plane implements AuthorityPromise: every transaction is a
\* Fence, an Unfence or a Commit of the abstract owner, or invisible to it.
KeepsPromise == Promise!Spec
===========================================================================
