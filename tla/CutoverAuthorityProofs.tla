---------------------- MODULE CutoverAuthorityProofs ----------------------
(***************************************************************************)
(* Proofs about CutoverAuthority, for every set of units, every dependency *)
(* relation, every number of sessions and every bound on the revision.      *)
(***************************************************************************)
EXTENDS CutoverAuthority, TLAPS

\* Every allowed transition starts outside S2, S3, S4 or is one of two moves.
LEMMA AllowedCases ==
    ASSUME NEW f, NEW t, <<f, t>> \in Allowed
    PROVE  /\ f \in AuthorityStates /\ t \in AuthorityStates
           /\ f \in PostgresStates => t = "S4"
           /\ t = "S2" => f = "S1"
           /\ t = "S4" => f = "S3"
           /\ t # "S3"
BY DEF Allowed, AuthorityStates, PostgresStates

\* One write of the authority row keeps the types of the row and the ledger.
LEMMA WriteTyped ==
    ASSUME TypeOK,
           NEW u \in Units, NEW from \in AuthorityStates, NEW to \in AuthorityStates,
           NEW w \in Writers \cup {None}, NEW e \in Epochs \cup {None},
           NEW m \in Watermarks \cup {None}, NEW f \in Keys \cup {None},
           NEW a \in Approvals,
           WriteAuthority(u, from, to, w, e, m, f, a)
    PROVE  /\ state'     \in [Units -> AuthorityStates]
           /\ writer'    \in [Units -> Writers \cup {None}]
           /\ epoch'     \in [Units -> Epochs \cup {None}]
           /\ watermark' \in [Units -> Watermarks \cup {None}]
           /\ formal'    \in [Units -> Keys \cup {None}]
           /\ approval'  \in [Units -> Approvals \cup {None}]
           /\ revision'  \in [Units -> Nat]
           /\ audit' \subseteq AuditRow
BY DEF WriteAuthority, AuditEntry, TypeOK, AuditRow

---------------------------------------------------------------------------

\* A promotion finds the row of a fenced unit complete.
ShapeInv == TypeOK /\ RowShape

\* Init, one step: the type invariant together with the CHECK constraints of
\* the authority table.
THEOREM ShapeCorrect == Spec => [](TypeOK /\ RowShape)
<1>1. Init => ShapeInv
  BY ConstantsAssumption DEF Init, ShapeInv, TypeOK, RowShape, AuthorityStates, PostgresStates
<1>2. ShapeInv /\ [Next]_vars => ShapeInv'
  <2> SUFFICES ASSUME ShapeInv, [Next]_vars PROVE ShapeInv'
    OBVIOUS
  <2> USE DEF ShapeInv
  <2>1. ASSUME NEW s \in Sessions, NEW u \in Units, NEW to \in AuthorityStates,
               ReadAuthority(s, u, to)
        PROVE  ShapeInv'
    BY <2>1 DEF ReadAuthority, TypeOK, RowShape, Request, row
  <2>2. ASSUME NEW s \in Sessions, NEW u \in Units, ReadFence(s, u)
        PROVE  ShapeInv'
    BY <2>2 DEF ReadFence, TypeOK, RowShape, Request, row, AuthorityStates
  <2>3. ASSUME NEW r \in inflight, CheckDependencies(r)
        PROVE  ShapeInv'
    BY <2>3 DEF CheckDependencies, TypeOK, RowShape, Request, row
  <2>4. ASSUME NEW r \in inflight, NEW a \in Approvals, TransitionToSqlite(r, a)
        PROVE  ShapeInv'
    <3>1. r \in Request
      BY DEF TypeOK
    <3>2. TypeOK'
      BY <2>4, <3>1, WriteTyped DEF TransitionToSqlite, TypeOK, Request
    <3>3. RowShape'
      BY <2>4, <3>1, ConstantsAssumption DEF TransitionToSqlite, WriteAuthority, RowShape,
         TypeOK, Request, PostgresStates
    <3> QED BY <3>2, <3>3
  <2>5. ASSUME NEW r \in inflight, NEW a \in Approvals, TransitionToStable(r, a)
        PROVE  ShapeInv'
    <3>1. r \in Request /\ state[r.unit] = "S3"
      BY <2>5, AllowedCases DEF TypeOK, TransitionToStable, Fresh
    <3>2. TypeOK'
      BY <2>5, <3>1, WriteTyped DEF TransitionToStable, TypeOK, Request
    <3>3. RowShape'
      BY <2>5, <3>1, ConstantsAssumption DEF TransitionToStable, WriteAuthority, RowShape,
         TypeOK, Request, PostgresStates
    <3> QED BY <3>2, <3>3
  <2>6. ASSUME NEW r \in inflight, NEW a \in Approvals, NEW w \in Writers,
               NEW e \in Epochs, NEW m \in Watermarks, TransitionToFence(r, w, e, m, a)
        PROVE  ShapeInv'
    <3>1. r \in Request /\ state[r.unit] = "S1"
      BY <2>6, AllowedCases DEF TypeOK, TransitionToFence, Fresh
    <3>2. WriteAuthority(r.unit, "S1", "S2", w, e, m, None, a)
      BY <2>6, <3>1 DEF TransitionToFence, Fresh
    <3>3. TypeOK'
      <4>1. r.unit \in Units /\ "S1" \in AuthorityStates /\ "S2" \in AuthorityStates
        BY <3>1 DEF Request, AuthorityStates
      <4>2. /\ w \in Writers \cup {None} /\ e \in Epochs \cup {None}
            /\ m \in Watermarks \cup {None} /\ None \in Keys \cup {None}
        OBVIOUS
      <4>3. /\ state'     \in [Units -> AuthorityStates]
            /\ writer'    \in [Units -> Writers \cup {None}]
            /\ epoch'     \in [Units -> Epochs \cup {None}]
            /\ watermark' \in [Units -> Watermarks \cup {None}]
            /\ formal'    \in [Units -> Keys \cup {None}]
            /\ approval'  \in [Units -> Approvals \cup {None}]
            /\ revision'  \in [Units -> Nat]
            /\ audit' \subseteq AuditRow
        BY <4>1, <4>2, <3>2, WriteTyped
      <4>4. /\ inflight' \subseteq inflight
            /\ UNCHANGED <<verification, results, snapshot>>
        BY <2>6 DEF TransitionToFence
      <4> QED BY <4>3, <4>4 DEF TypeOK
    <3>4. w # None /\ e # None /\ m # None /\ a # None
      BY ConstantsAssumption
    <3>5. RowShape'
      BY <3>1, <3>2, <3>4 DEF WriteAuthority, RowShape, TypeOK, Request, PostgresStates
    <3> QED BY <3>3, <3>5
  <2>7. ASSUME NEW u \in Units, NEW k \in Keys, Promote(u, k)
        PROVE  /\ state'     \in [Units -> AuthorityStates]
               /\ writer'    \in [Units -> Writers \cup {None}]
               /\ epoch'     \in [Units -> Epochs \cup {None}]
               /\ watermark' \in [Units -> Watermarks \cup {None}]
               /\ formal'    \in [Units -> Keys \cup {None}]
               /\ approval'  \in [Units -> Approvals \cup {None}]
               /\ revision'  \in [Units -> Nat]
               /\ audit' \subseteq AuditRow
               /\ RowShape'
    <3>1. CASE state[u] = "S2"
      <4>1. /\ writer[u] \in Writers \cup {None} /\ epoch[u] \in Epochs \cup {None}
            /\ watermark[u] \in Watermarks \cup {None} /\ approval[u] \in Approvals
        BY <3>1 DEF TypeOK, RowShape
      <4>2. WriteAuthority(u, "S2", "S3", writer[u], epoch[u], watermark[u], k, approval[u])
        BY <2>7, <3>1 DEF Promote
      <4>3. RowShape'
        BY <3>1, <4>2, ConstantsAssumption DEF WriteAuthority, RowShape, TypeOK,
           PostgresStates, AuthorityStates
      <4> QED
        BY <4>1, <4>2, <4>3, WriteTyped DEF AuthorityStates
    <3>2. CASE state[u] # "S2"
      BY <2>7, <3>2 DEF Promote, TypeOK, RowShape, row
    <3> QED BY <3>1, <3>2
  <2>8. ASSUME NEW r \in inflight, NEW k \in Keys, ActivateSnapshot(r, k)
        PROVE  ShapeInv'
    <3>1. r.unit \in Units
      BY DEF TypeOK, Request
    <3>2. Promote(r.unit, k)
      BY <2>8 DEF ActivateSnapshot
    <3>3. /\ verification' = verification
          /\ results' \subseteq [unit : Units, key : Keys]
          /\ snapshot' \subseteq SnapshotUnits
          /\ inflight' \subseteq Request
      BY <2>8, <3>1 DEF ActivateSnapshot, TypeOK
    <3> QED
      BY <2>7, <3>1, <3>2, <3>3 DEF TypeOK
  <2>9. ASSUME NEW u \in Units, NEW k \in Keys, NoteMutation(u, k)
        PROVE  ShapeInv'
    BY <2>7, <2>9 DEF NoteMutation, TypeOK
  <2>10. CASE UNCHANGED vars
    BY <2>10 DEF vars, row, TypeOK, RowShape
  <2>11. ASSUME NEW r \in inflight, Abandon(r)
         PROVE  ShapeInv'
    BY <2>11 DEF Abandon, TypeOK, RowShape, row
  <2>12. ASSUME NEW u \in Units, NEW k \in Keys, NEW h \in Hashes, RecordVerification(u, k, h)
         PROVE  ShapeInv'
    <3>1. epoch[u] \in Epochs
      BY <2>12 DEF RecordVerification, TypeOK, RowShape
    <3> QED
      BY <2>12, <3>1 DEF RecordVerification, TypeOK, RowShape, row
  <2>13. ASSUME NEW u \in Units, NEW k \in Keys, RecordMutation(u, k)
         PROVE  ShapeInv'
    BY <2>13 DEF RecordMutation, TypeOK, RowShape, row
  <2> QED
    BY <2>1, <2>2, <2>3, <2>4, <2>5, <2>6, <2>8, <2>9, <2>10, <2>11, <2>12, <2>13 DEF Next
<1>3. ShapeInv => TypeOK /\ RowShape
  BY DEF ShapeInv
<1> QED BY <1>1, <1>2, <1>3, PTL DEF Spec

---------------------------------------------------------------------------
(* What one step can do to the row *)

\* The unit that moves, if one does, makes an allowed transition or the
\* promotion; a published unit keeps its identity and the others all they have.
Moves(u, to) ==
    /\ <<state[u], to>> \in Allowed \cup {<<"S2", "S3">>}
    /\ state' = [state EXCEPT ![u] = to]
    /\ \A v \in Units : v # u \/ state[u] = "S3" =>
         /\ writer'[v] = writer[v]
         /\ epoch'[v] = epoch[v]
         /\ watermark'[v] = watermark[v]
         /\ formal'[v] = formal[v]

LEMMA PromoteMoves ==
    ASSUME TypeOK, NEW u \in Units, NEW k \in Keys, Promote(u, k)
    PROVE  \/ UNCHANGED row /\ state[u] \in PostgresStates
           \/ Moves(u, "S3") /\ state[u] = "S2" /\ formal' = [formal EXCEPT ![u] = k]
<1>1. CASE state[u] = "S2"
  <2>1. WriteAuthority(u, "S2", "S3", writer[u], epoch[u], watermark[u], k, approval[u])
    BY <1>1 DEF Promote
  <2>2. /\ state' = [state EXCEPT ![u] = "S3"]
        /\ formal' = [formal EXCEPT ![u] = k]
        /\ \A v \in Units : v # u =>
             /\ writer'[v] = writer[v]
             /\ epoch'[v] = epoch[v]
             /\ watermark'[v] = watermark[v]
             /\ formal'[v] = formal[v]
    BY <2>1 DEF WriteAuthority, TypeOK
  <2> QED BY <1>1, <2>2 DEF Moves
<1>2. CASE state[u] # "S2"
  BY <1>2 DEF Promote, PostgresStates
<1> QED BY <1>1, <1>2

LEMMA SqliteMoves ==
    ASSUME TypeOK, NEW r \in inflight, NEW a \in Approvals, TransitionToSqlite(r, a)
    PROVE  /\ r.unit \in Units /\ r.to \in {"S0", "S1"} /\ Moves(r.unit, r.to)
           /\ state[r.unit] \notin PostgresStates
           /\ formal' = [formal EXCEPT ![r.unit] = None]
<1>1. r.unit \in Units
  BY DEF TypeOK, Request
<1>2. /\ <<state[r.unit], r.to>> \in Allowed
      /\ WriteAuthority(r.unit, state[r.unit], r.to, None, None, None, None, a)
      /\ r.to \in {"S0", "S1"}
  BY DEF TransitionToSqlite, Fresh
<1>3. state[r.unit] \notin PostgresStates
  BY <1>2, AllowedCases
<1>4. /\ state' = [state EXCEPT ![r.unit] = r.to]
      /\ formal' = [formal EXCEPT ![r.unit] = None]
      /\ \A v \in Units : v # r.unit =>
           /\ writer'[v] = writer[v]
           /\ epoch'[v] = epoch[v]
           /\ watermark'[v] = watermark[v]
           /\ formal'[v] = formal[v]
  BY <1>2 DEF WriteAuthority, TypeOK
<1> QED BY <1>1, <1>2, <1>3, <1>4 DEF Moves, PostgresStates

LEMMA FenceMoves ==
    ASSUME TypeOK, NEW r \in inflight, NEW a \in Approvals, NEW w \in Writers,
           NEW e \in Epochs, NEW m \in Watermarks, TransitionToFence(r, w, e, m, a)
    PROVE  /\ r.unit \in Units /\ r.to = "S2" /\ r.phase = "checked"
           /\ Moves(r.unit, "S2")
           /\ state[r.unit] = "S1"
           /\ formal' = [formal EXCEPT ![r.unit] = None]
<1>1. r.unit \in Units
  BY DEF TypeOK, Request
<1>2. /\ <<state[r.unit], "S2">> \in Allowed
      /\ WriteAuthority(r.unit, state[r.unit], "S2", w, e, m, None, a)
      /\ r.to = "S2" /\ r.phase = "checked"
  BY DEF TransitionToFence, Fresh
<1>3. state[r.unit] = "S1"
  BY <1>2, AllowedCases
<1>4. /\ state' = [state EXCEPT ![r.unit] = "S2"]
      /\ formal' = [formal EXCEPT ![r.unit] = None]
      /\ \A v \in Units : v # r.unit =>
           /\ writer'[v] = writer[v]
           /\ epoch'[v] = epoch[v]
           /\ watermark'[v] = watermark[v]
           /\ formal'[v] = formal[v]
  BY <1>2 DEF WriteAuthority, TypeOK
<1> QED BY <1>1, <1>2, <1>3, <1>4 DEF Moves

LEMMA StableMoves ==
    ASSUME TypeOK, NEW r \in inflight, NEW a \in Approvals, TransitionToStable(r, a)
    PROVE  /\ r.unit \in Units /\ Moves(r.unit, "S4")
           /\ state[r.unit] = "S3"
           /\ formal' = formal
<1>1. r.unit \in Units
  BY DEF TypeOK, Request
<1>2. /\ <<state[r.unit], "S4">> \in Allowed
      /\ WriteAuthority(r.unit, state[r.unit], "S4", writer[r.unit], epoch[r.unit],
                        watermark[r.unit], formal[r.unit], a)
  BY DEF TransitionToStable, Fresh
<1>3. state[r.unit] = "S3"
  BY <1>2, AllowedCases
<1>4. /\ state' = [state EXCEPT ![r.unit] = "S4"]
      /\ writer' = writer /\ epoch' = epoch /\ watermark' = watermark /\ formal' = formal
  BY <1>1, <1>2 DEF WriteAuthority, TypeOK
<1> QED BY <1>1, <1>2, <1>3, <1>4 DEF Moves

\* A step leaves every row alone or moves one unit.
LEMMA StepMoves ==
    ASSUME TypeOK, [Next]_vars
    PROVE  UNCHANGED row \/ \E u \in Units, to \in AuthorityStates : Moves(u, to)
<1> USE DEF AuthorityStates
<1>1. ASSUME NEW u \in Units, NEW k \in Keys, Promote(u, k)
      PROVE  UNCHANGED row \/ Moves(u, "S3")
  BY <1>1, PromoteMoves
<1>2. ASSUME NEW r \in inflight, NEW k \in Keys, ActivateSnapshot(r, k)
      PROVE  UNCHANGED row \/ \E u \in Units, to \in AuthorityStates : Moves(u, to)
  <2>1. r.unit \in Units /\ Promote(r.unit, k)
    BY <1>2 DEF TypeOK, Request, ActivateSnapshot
  <2> QED BY <1>1, <2>1
<1>3. ASSUME NEW u \in Units, NEW k \in Keys, NoteMutation(u, k)
      PROVE  UNCHANGED row \/ Moves(u, "S3")
  BY <1>1, <1>3 DEF NoteMutation
<1>4. ASSUME NEW r \in inflight, NEW a \in Approvals,
             \/ TransitionToSqlite(r, a)
             \/ TransitionToStable(r, a)
             \/ \E w \in Writers, e \in Epochs, m \in Watermarks :
                  TransitionToFence(r, w, e, m, a)
      PROVE  \E u \in Units, to \in AuthorityStates : Moves(u, to)
  BY <1>4, SqliteMoves, StableMoves, FenceMoves
<1>5. CASE UNCHANGED vars
  BY <1>5 DEF vars
<1>6. ASSUME NEW s \in Sessions, NEW u \in Units,
             \/ \E to \in AuthorityStates : ReadAuthority(s, u, to)
             \/ ReadFence(s, u)
      PROVE  UNCHANGED row
  BY <1>6 DEF ReadAuthority, ReadFence
<1>7. ASSUME NEW r \in inflight, CheckDependencies(r) \/ Abandon(r)
      PROVE  UNCHANGED row
  BY <1>7 DEF CheckDependencies, Abandon
<1>8. ASSUME NEW u \in Units, NEW k \in Keys,
             RecordMutation(u, k) \/ \E h \in Hashes : RecordVerification(u, k, h)
      PROVE  UNCHANGED row
  BY <1>8 DEF RecordMutation, RecordVerification
<1> QED
  BY <1>2, <1>3, <1>4, <1>5, <1>6, <1>7, <1>8 DEF Next

\* PostgreSQL never gives a unit back.
LEMMA PostgresStays ==
    ASSUME TypeOK, [Next]_vars, NEW v \in Units, state[v] \in PostgresStates
    PROVE  state'[v] \in PostgresStates
<1>1. CASE UNCHANGED row
  BY <1>1 DEF row
<1>2. ASSUME NEW u \in Units, NEW to \in AuthorityStates, Moves(u, to)
      PROVE  state'[v] \in PostgresStates
  <2>1. CASE u = v
    BY <1>2, <2>1 DEF Moves, Allowed, PostgresStates, TypeOK
  <2>2. CASE u # v
    BY <1>2, <2>2 DEF Moves, TypeOK
  <2> QED BY <2>1, <2>2
<1> QED BY <1>1, <1>2, StepMoves

\* A unit with a formal commit keeps its owner, its writer, its epoch, its
\* watermark and that commit, whatever the sessions do.
THEOREM DurableAuthority == Spec => AuthorityIsDurable
<1>1. ASSUME TypeOK, RowShape, [Next]_vars, NEW v \in Units, formal[v] # None
      PROVE  /\ state'[v] \in PostgresStates
             /\ formal'[v] = formal[v]
             /\ writer'[v] = writer[v]
             /\ epoch'[v] = epoch[v]
             /\ watermark'[v] = watermark[v]
  <2>1. state[v] \in PostgresStates
    BY <1>1 DEF RowShape
  <2>2. state'[v] \in PostgresStates
    BY <1>1, <2>1, PostgresStays
  <2>3. CASE UNCHANGED row
    BY <2>2, <2>3 DEF row
  <2>4. ASSUME NEW u \in Units, NEW to \in AuthorityStates, Moves(u, to)
        PROVE  /\ formal'[v] = formal[v]
               /\ writer'[v] = writer[v]
               /\ epoch'[v] = epoch[v]
               /\ watermark'[v] = watermark[v]
    <3>1. v = u => state[u] = "S3"
      BY <2>1, <2>4 DEF Moves, Allowed, PostgresStates
    <3> QED BY <2>4, <3>1 DEF Moves
  <2> QED BY <1>1, <2>2, <2>3, <2>4, StepMoves
<1>2. TypeOK /\ RowShape /\ [Next]_vars =>
        [\A u \in Units : formal[u] # None =>
           /\ state'[u] \in PostgresStates
           /\ formal'[u] = formal[u]
           /\ writer'[u] = writer[u]
           /\ epoch'[u] = epoch[u]
           /\ watermark'[u] = watermark[u]]_vars
  BY <1>1
<1> QED BY <1>2, ShapeCorrect, PTL DEF Spec, AuthorityIsDurable

---------------------------------------------------------------------------
(* Dependencies first *)

\* DependencyClosed is not inductive: between the look at the dependencies and
\* the fence, the fact that they are published travels with the call.  It
\* stays true because PostgreSQL never gives a unit back.
CheckedClosed ==
    \A r \in inflight : r.phase = "checked" /\ r.to = "S2" =>
      \A d \in Dependencies[r.unit] : state[d] \in PostgresStates

LEMMA CheckedClosedStep ==
    ASSUME TypeOK, CheckedClosed, [Next]_vars
    PROVE  CheckedClosed'
<1>1. \A r \in inflight : r.unit \in Units
  BY DEF TypeOK, Request
<1>2. \A u \in Units : \A d \in Dependencies[u] : d \in Units
  BY ConstantsAssumption
<1>3. \A d \in Units : state[d] \in PostgresStates => state'[d] \in PostgresStates
  BY PostgresStays
<1>4. CASE inflight' \subseteq inflight
  BY <1>1, <1>2, <1>3, <1>4 DEF CheckedClosed
<1>5. ASSUME NEW s \in Sessions, NEW u \in Units, NEW to \in AuthorityStates,
             ReadAuthority(s, u, to)
      PROVE  CheckedClosed'
  <2> DEFINE new == [by |-> s, unit |-> u, to |-> to, state |-> state[u],
                     revision |-> revision[u],
                     phase |-> IF to = "S2" THEN "read" ELSE "checked"]
  <2>1. inflight' = inflight \cup {new}
    BY <1>5 DEF ReadAuthority
  <2>2. ~(new.phase = "checked" /\ new.to = "S2")
    OBVIOUS
  <2> QED BY <1>1, <1>2, <1>3, <2>1, <2>2 DEF CheckedClosed
<1>6. ASSUME NEW s \in Sessions, NEW u \in Units, ReadFence(s, u)
      PROVE  CheckedClosed'
  <2> DEFINE new == [by |-> s, unit |-> u, to |-> "S3", state |-> "S2",
                     revision |-> revision[u], phase |-> "fenced"]
  <2>1. inflight' = inflight \cup {new}
    BY <1>6 DEF ReadFence
  <2>2. new.phase # "checked"
    OBVIOUS
  <2> QED BY <1>1, <1>2, <1>3, <2>1, <2>2 DEF CheckedClosed
<1>7. ASSUME NEW r \in inflight, CheckDependencies(r)
      PROVE  CheckedClosed'
  <2> DEFINE new == [r EXCEPT !.phase = "checked"]
  <2>1. inflight' \subseteq inflight \cup {new}
    BY <1>7 DEF CheckDependencies
  <2>2. new.unit = r.unit
    BY DEF TypeOK, Request
  <2>3. \A d \in Dependencies[r.unit] : state[d] \in PostgresStates
    BY <1>7 DEF CheckDependencies
  <2> QED BY <1>1, <1>2, <1>3, <2>1, <2>2, <2>3 DEF CheckedClosed
<1>8. ASSUME NEW r \in inflight,
             \/ Abandon(r)
             \/ \E k \in Keys : ActivateSnapshot(r, k)
             \/ \E a \in Approvals : \/ TransitionToSqlite(r, a)
                                     \/ TransitionToStable(r, a)
             \/ \E a \in Approvals, w \in Writers, e \in Epochs, m \in Watermarks :
                  TransitionToFence(r, w, e, m, a)
      PROVE  inflight' \subseteq inflight
  BY <1>8 DEF Abandon, ActivateSnapshot, TransitionToSqlite, TransitionToStable,
     TransitionToFence
<1>9. ASSUME NEW u \in Units, NEW k \in Keys,
             \/ \E h \in Hashes : RecordVerification(u, k, h)
             \/ NoteMutation(u, k)
             \/ RecordMutation(u, k)
      PROVE  inflight' \subseteq inflight
  BY <1>9 DEF RecordVerification, NoteMutation, RecordMutation
<1>10. CASE UNCHANGED vars
  BY <1>4, <1>10 DEF vars
<1> QED
  BY <1>4, <1>5, <1>6, <1>7, <1>8, <1>9, <1>10 DEF Next

LEMMA DependencyStep ==
    ASSUME TypeOK, CheckedClosed, DependencyClosed, [Next]_vars
    PROVE  DependencyClosed'
<1> DEFINE Closed(u) == \A d \in Dependencies[u] : state[d] \in PostgresStates
<1> DEFINE Pg == {"S2", "S3", "S4"}
<1>1. \A u \in Units : \A d \in Dependencies[u] : d \in Units
  BY ConstantsAssumption
<1>2. \A d \in Units : state[d] \in PostgresStates => state'[d] \in PostgresStates
  BY PostgresStays
<1>3. \A u \in Units : Closed(u) => \A d \in Dependencies[u] : state'[d] \in PostgresStates
  BY <1>1, <1>2
<1>4. SUFFICES ASSUME NEW v \in Units, state'[v] \in Pg
               PROVE  Closed(v)
  BY <1>3 DEF DependencyClosed
<1>5. CASE state[v] \in Pg
  BY <1>5 DEF DependencyClosed
<1>6. CASE state[v] \notin Pg
  <2>1. ASSUME NEW u \in Units, NEW to, Moves(u, to), state[u] \in Pg \/ to \notin Pg
        PROVE  FALSE
    BY <1>4, <1>6, <2>1 DEF Moves, TypeOK
  <2>2. ~UNCHANGED row
    BY <1>4, <1>6 DEF row
  <2>3. ASSUME NEW r \in inflight, NEW a \in Approvals, NEW w \in Writers,
               NEW e \in Epochs, NEW m \in Watermarks, TransitionToFence(r, w, e, m, a)
        PROVE  Closed(v)
    <3>1. Closed(r.unit)
      BY <2>3, FenceMoves DEF CheckedClosed
    <3>2. r.unit = v
      BY <1>4, <1>6, <2>3, FenceMoves DEF Moves, TypeOK
    <3> QED BY <3>1, <3>2
  <2>4. ASSUME NEW u \in Units, NEW k \in Keys, Promote(u, k)
        PROVE  FALSE
    BY <2>1, <2>2, <2>4, PromoteMoves
  <2>5. ASSUME NEW r \in inflight, NEW k \in Keys, ActivateSnapshot(r, k)
        PROVE  FALSE
    <3>1. r.unit \in Units /\ Promote(r.unit, k)
      BY <2>5 DEF TypeOK, Request, ActivateSnapshot
    <3> QED BY <2>4, <3>1
  <2>6. ASSUME NEW u \in Units, NEW k \in Keys, NoteMutation(u, k)
        PROVE  FALSE
    BY <2>4, <2>6 DEF NoteMutation
  <2>7. ASSUME NEW r \in inflight, NEW a \in Approvals,
               TransitionToSqlite(r, a) \/ TransitionToStable(r, a)
        PROVE  FALSE
    <3>1. CASE TransitionToSqlite(r, a)
      BY <2>1, <3>1, SqliteMoves
    <3>2. CASE TransitionToStable(r, a)
      BY <2>1, <3>2, StableMoves
    <3> QED BY <2>7, <3>1, <3>2
  <2>8. ASSUME NEW s \in Sessions, NEW u \in Units,
               \/ \E to \in AuthorityStates : ReadAuthority(s, u, to)
               \/ ReadFence(s, u)
        PROVE  FALSE
    BY <2>2, <2>8 DEF ReadAuthority, ReadFence
  <2>9. ASSUME NEW r \in inflight, CheckDependencies(r) \/ Abandon(r)
        PROVE  FALSE
    BY <2>2, <2>9 DEF CheckDependencies, Abandon
  <2>10. ASSUME NEW u \in Units, NEW k \in Keys,
                RecordMutation(u, k) \/ \E h \in Hashes : RecordVerification(u, k, h)
         PROVE  FALSE
    BY <2>2, <2>10 DEF RecordMutation, RecordVerification
  <2>11. Next
    BY <2>2 DEF vars
  <2> QED
    BY <2>3, <2>5, <2>6, <2>7, <2>8, <2>9, <2>10, <2>11 DEF Next
<1> QED BY <1>5, <1>6

\* No unit is ever fenced or published before everything it depends on is,
\* although the dependencies are looked at in an earlier, unlocked statement.
THEOREM DependenciesFirst == Spec => []DependencyClosed
<1>1. Init => CheckedClosed /\ DependencyClosed
  BY DEF Init, CheckedClosed, DependencyClosed, AuthorityStates
<1>2. TypeOK /\ CheckedClosed /\ DependencyClosed /\ [Next]_vars
        => (CheckedClosed /\ DependencyClosed)'
  BY CheckedClosedStep, DependencyStep
<1> QED BY <1>1, <1>2, ShapeCorrect, PTL DEF Spec

---------------------------------------------------------------------------
(* Promotion and formal mutation are one transaction *)

LEMMA FormalStep ==
    ASSUME TypeOK, RowShape, FormalCommitIsAtomic, [Next]_vars
    PROVE  FormalCommitIsAtomic'
<1>1. \A u \in Units : formal[u] # None <=> state[u] \in PostgresStates
  BY DEF RowShape
<1>2. CASE UNCHANGED <<row, results, snapshot>>
  BY <1>2 DEF FormalCommitIsAtomic, row
\* A move between states of SQLite, into the fence or out of it.
<1>3. ASSUME NEW u \in Units, NEW to \in {"S0", "S1", "S2"}, Moves(u, to),
             formal' = [formal EXCEPT ![u] = None],
             state[u] \notin PostgresStates, UNCHANGED <<results, snapshot>>
      PROVE  FormalCommitIsAtomic'
  BY <1>3 DEF Moves, FormalCommitIsAtomic, TypeOK, PostgresStates
<1>4. ASSUME NEW r \in inflight, NEW a \in Approvals, TransitionToSqlite(r, a)
      PROVE  FormalCommitIsAtomic'
  <2>1. UNCHANGED <<results, snapshot>>
    BY <1>4 DEF TransitionToSqlite
  <2> QED BY <1>3, <1>4, <2>1, SqliteMoves
<1>5. ASSUME NEW r \in inflight, NEW a \in Approvals, NEW w \in Writers,
             NEW e \in Epochs, NEW m \in Watermarks, TransitionToFence(r, w, e, m, a)
      PROVE  FormalCommitIsAtomic'
  <2>1. UNCHANGED <<results, snapshot>>
    BY <1>5 DEF TransitionToFence
  <2> QED BY <1>3, <1>5, <2>1, FenceMoves DEF PostgresStates
<1>6. ASSUME NEW r \in inflight, NEW a \in Approvals, TransitionToStable(r, a)
      PROVE  FormalCommitIsAtomic'
  <2>1. UNCHANGED <<results, snapshot>>
    BY <1>6 DEF TransitionToStable
  <2>2. /\ r.unit \in Units /\ state[r.unit] = "S3"
        /\ state' = [state EXCEPT ![r.unit] = "S4"] /\ formal' = formal
    BY <1>6, StableMoves DEF Moves
  <2>3. \A v \in Units : state'[v] \in PostgresStates <=> state[v] \in PostgresStates
    BY <2>2 DEF TypeOK, PostgresStates
  <2>4. \A x \in results : x.unit \in Units
    BY DEF TypeOK
  <2> QED BY <2>1, <2>2, <2>3, <2>4, ConstantsAssumption DEF FormalCommitIsAtomic
\* A formal mutation of u under key k, with or without its snapshot.
<1>7. ASSUME NEW u \in Units, NEW k \in Keys, Promote(u, k),
             results' = results \cup {[unit |-> u, key |-> k]},
             \/ u \in SnapshotUnits /\ snapshot' = snapshot \cup {u}
             \/ u \notin SnapshotUnits /\ snapshot' = snapshot
      PROVE  FormalCommitIsAtomic'
  <2>1. CASE UNCHANGED row /\ state[u] \in PostgresStates
    BY <1>7, <2>1 DEF FormalCommitIsAtomic, row
  <2>2. CASE Moves(u, "S3") /\ formal' = [formal EXCEPT ![u] = k]
    BY <1>7, <2>2 DEF Moves, FormalCommitIsAtomic, TypeOK, PostgresStates
  <2> QED BY <1>7, <2>1, <2>2, PromoteMoves
<1>8. ASSUME NEW r \in inflight, NEW k \in Keys, ActivateSnapshot(r, k)
      PROVE  FormalCommitIsAtomic'
  <2>1. r.unit \in Units
    BY DEF TypeOK, Request
  <2> QED BY <1>7, <1>8, <2>1 DEF ActivateSnapshot
<1>9. ASSUME NEW u \in Units, NEW k \in Keys, NoteMutation(u, k)
      PROVE  FormalCommitIsAtomic'
  BY <1>7, <1>9 DEF NoteMutation
<1>10. ASSUME NEW u \in Units, NEW k \in Keys, RecordMutation(u, k)
       PROVE  FormalCommitIsAtomic'
  BY <1>10 DEF RecordMutation, FormalCommitIsAtomic, row
<1>11. ASSUME NEW s \in Sessions, NEW u \in Units,
              \/ \E to \in AuthorityStates : ReadAuthority(s, u, to)
              \/ ReadFence(s, u)
       PROVE  UNCHANGED <<row, results, snapshot>>
  BY <1>11 DEF ReadAuthority, ReadFence
<1>12. ASSUME NEW r \in inflight, CheckDependencies(r) \/ Abandon(r)
       PROVE  UNCHANGED <<row, results, snapshot>>
  BY <1>12 DEF CheckDependencies, Abandon
<1>13. ASSUME NEW u \in Units, NEW k \in Keys, NEW h \in Hashes, RecordVerification(u, k, h)
       PROVE  UNCHANGED <<row, results, snapshot>>
  BY <1>13 DEF RecordVerification
<1>14. CASE UNCHANGED vars
  BY <1>2, <1>14 DEF vars
<1> QED
  BY <1>2, <1>4, <1>5, <1>6, <1>8, <1>9, <1>10, <1>11, <1>12, <1>13, <1>14 DEF Next

\* Formal results exist only where PostgreSQL owns the unit, the recorded
\* first commit is one of them, and a published unit has its snapshot.
THEOREM FormalAtomic == Spec => []FormalCommitIsAtomic
<1>1. Init => FormalCommitIsAtomic
  BY ConstantsAssumption DEF Init, FormalCommitIsAtomic, PostgresStates
<1>2. TypeOK /\ RowShape /\ FormalCommitIsAtomic /\ [Next]_vars => FormalCommitIsAtomic'
  BY FormalStep
<1> QED BY <1>1, <1>2, ShapeCorrect, PTL DEF Spec

---------------------------------------------------------------------------
(* The control plane implements AuthorityPromise *)

absOwner     == [u \in Units |-> Owner(u)]
absCommitted == [u \in Units |-> Committed(u)]

LEMMA OwnerValues ==
    ASSUME TypeOK, NEW u \in Units
    PROVE  /\ Owner(u) = "postgresql" <=> state[u] \in PostgresStates
           /\ Owner(u) = "fenced" <=> state[u] = "S2"
           /\ Owner(u) = "sqlite" <=> state[u] \in {"ABSENT", "S0", "S1"}
BY DEF Owner, TypeOK, AuthorityStates, PostgresStates

\* One unit moves and no formal result is added.
LEMMA QuietMove ==
    ASSUME TypeOK, TypeOK', NEW u \in Units, NEW to \in AuthorityStates, Moves(u, to),
           to # "S3", UNCHANGED results,
           to = "S2" => \A d \in Dependencies[u] : state[d] \in PostgresStates
    PROVE  Promise!Next \/ UNCHANGED Promise!vars
<1>1. absCommitted' = absCommitted
  BY DEF absCommitted, Committed
<1>2. \A v \in Units : v # u => state'[v] = state[v]
  BY DEF Moves, TypeOK
<1>3. \A v \in Units : v # u => Owner(v)' = Owner(v)
  BY <1>2 DEF Owner
<1>4. state'[u] = to /\ <<state[u], to>> \in Allowed
  BY DEF Moves, TypeOK
<1>5. CASE to = "S2"
  <2>1. state[u] = "S1" /\ Owner(u) = "sqlite" /\ Owner(u)' = "fenced"
    BY <1>4, <1>5, AllowedCases DEF Owner, PostgresStates
  <2>2. \A d \in Dependencies[u] : d \in Units /\ Owner(d) = "postgresql"
    BY <1>5, ConstantsAssumption, OwnerValues
  <2>3. absOwner' = [absOwner EXCEPT ![u] = "fenced"]
    BY <1>3, <2>1 DEF absOwner
  <2>4. Promise!Fence(u)
    BY <1>1, <2>1, <2>2, <2>3 DEF Promise!Fence, absOwner, absCommitted
  <2> QED BY <2>4 DEF Promise!Next
<1>6. CASE state[u] = "S2"
  <2>1. to \in {"S0", "S1"}
    BY <1>4, <1>6 DEF Allowed
  <2>2. Owner(u) = "fenced" /\ Owner(u)' = "sqlite"
    BY <1>4, <1>6, <2>1 DEF Owner, PostgresStates
  <2>3. absOwner' = [absOwner EXCEPT ![u] = "sqlite"]
    BY <1>3, <2>2 DEF absOwner
  <2>4. Promise!Unfence(u)
    BY <1>1, <2>2, <2>3 DEF Promise!Unfence, absOwner, absCommitted
  <2> QED BY <2>4 DEF Promise!Next
<1>7. CASE to # "S2" /\ state[u] # "S2"
  <2>1. Owner(u)' = Owner(u)
    BY <1>4, <1>7 DEF Allowed, Owner, PostgresStates
  <2>2. absOwner' = absOwner
    BY <1>3, <2>1 DEF absOwner
  <2> QED BY <1>1, <2>2 DEF Promise!vars, absOwner, absCommitted
<1> QED BY <1>5, <1>6, <1>7

\* A formal mutation under a fresh key, promoting or not.
LEMMA CommitMove ==
    ASSUME TypeOK, TypeOK', NEW u \in Units, NEW k \in Keys,
           [unit |-> u, key |-> k] \notin results,
           results' = results \cup {[unit |-> u, key |-> k]},
           \/ UNCHANGED row /\ state[u] \in PostgresStates
           \/ Moves(u, "S3") /\ state[u] = "S2"
    PROVE  Promise!Next
<1>1. \A v \in Units : v # u => Owner(v)' = Owner(v)
  BY DEF Moves, TypeOK, Owner, row
<1>2. Owner(u) \in {"fenced", "postgresql"}
  BY DEF Owner, PostgresStates
<1>3. Owner(u)' = "postgresql"
  BY DEF Moves, TypeOK, Owner, PostgresStates, row
<1>4. absOwner' = [absOwner EXCEPT ![u] = "postgresql"]
  BY <1>1, <1>3 DEF absOwner
<1>5. \A v \in Units, j \in Keys :
        [unit |-> v, key |-> j] = [unit |-> u, key |-> k] <=> v = u /\ j = k
  OBVIOUS
<1>6. \A v \in Units : v # u => Committed(v)' = Committed(v)
  BY <1>5 DEF Committed
<1>7. Committed(u)' = Committed(u) \cup {k}
  BY <1>5 DEF Committed
<1>8. k \notin Committed(u)
  BY DEF Committed
<1>9. absCommitted' = [absCommitted EXCEPT ![u] = @ \cup {k}]
  BY <1>6, <1>7 DEF absCommitted
<1>10. Promise!Commit(u, k)
  BY <1>2, <1>4, <1>8, <1>9 DEF Promise!Commit, absOwner, absCommitted
<1> QED BY <1>10 DEF Promise!Next

LEMMA PromiseStep ==
    ASSUME TypeOK, TypeOK', CheckedClosed, FormalCommitIsAtomic, [Next]_vars
    PROVE  Promise!Next \/ UNCHANGED Promise!vars
<1>1. CASE UNCHANGED <<row, results>>
  <2>1. absOwner' = absOwner
    BY <1>1 DEF absOwner, Owner, row
  <2>2. absCommitted' = absCommitted
    BY <1>1 DEF absCommitted, Committed
  <2> QED BY <2>1, <2>2 DEF Promise!vars, absOwner, absCommitted
<1>2. ASSUME NEW r \in inflight, NEW a \in Approvals, TransitionToSqlite(r, a)
      PROVE  Promise!Next \/ UNCHANGED Promise!vars
  <2>1. UNCHANGED results
    BY <1>2 DEF TransitionToSqlite
  <2>2. r.unit \in Units /\ r.to \in {"S0", "S1"} /\ Moves(r.unit, r.to)
    BY <1>2, SqliteMoves
  <2>3. r.to \in AuthorityStates
    BY <2>2 DEF AuthorityStates
  <2> QED BY <2>1, <2>2, <2>3, QuietMove
<1>3. ASSUME NEW r \in inflight, NEW a \in Approvals, NEW w \in Writers,
             NEW e \in Epochs, NEW m \in Watermarks, TransitionToFence(r, w, e, m, a)
      PROVE  Promise!Next \/ UNCHANGED Promise!vars
  <2>1. UNCHANGED results
    BY <1>3 DEF TransitionToFence
  <2>2. r.unit \in Units /\ Moves(r.unit, "S2")
    BY <1>3, FenceMoves
  <2>3. \A d \in Dependencies[r.unit] : state[d] \in PostgresStates
    BY <1>3, FenceMoves DEF CheckedClosed
  <2> QED BY <2>1, <2>2, <2>3, QuietMove DEF AuthorityStates
<1>4. ASSUME NEW r \in inflight, NEW a \in Approvals, TransitionToStable(r, a)
      PROVE  Promise!Next \/ UNCHANGED Promise!vars
  <2>1. UNCHANGED results
    BY <1>4 DEF TransitionToStable
  <2>2. r.unit \in Units /\ Moves(r.unit, "S4")
    BY <1>4, StableMoves
  <2> QED BY <2>1, <2>2, QuietMove DEF AuthorityStates
<1>5. ASSUME NEW r \in inflight, NEW k \in Keys, ActivateSnapshot(r, k)
      PROVE  Promise!Next
  <2>1. r.unit \in Units
    BY DEF TypeOK, Request
  <2>2. /\ Promote(r.unit, k)
        /\ [unit |-> r.unit, key |-> k] \notin results
        /\ results' = results \cup {[unit |-> r.unit, key |-> k]}
    BY <1>5 DEF ActivateSnapshot
  <2> QED BY <2>1, <2>2, PromoteMoves, CommitMove
<1>6. ASSUME NEW u \in Units, NEW k \in Keys, NoteMutation(u, k)
      PROVE  Promise!Next
  <2>1. /\ Promote(u, k)
        /\ [unit |-> u, key |-> k] \notin results
        /\ results' = results \cup {[unit |-> u, key |-> k]}
    BY <1>6 DEF NoteMutation
  <2> QED BY <2>1, PromoteMoves, CommitMove
<1>7. ASSUME NEW u \in Units, NEW k \in Keys, RecordMutation(u, k)
      PROVE  Promise!Next
  BY <1>7, CommitMove DEF RecordMutation
<1>8. ASSUME NEW s \in Sessions, NEW u \in Units,
             \/ \E to \in AuthorityStates : ReadAuthority(s, u, to)
             \/ ReadFence(s, u)
      PROVE  UNCHANGED <<row, results>>
  BY <1>8 DEF ReadAuthority, ReadFence
<1>9. ASSUME NEW r \in inflight, CheckDependencies(r) \/ Abandon(r)
      PROVE  UNCHANGED <<row, results>>
  BY <1>9 DEF CheckDependencies, Abandon
<1>10. ASSUME NEW u \in Units, NEW k \in Keys, NEW h \in Hashes, RecordVerification(u, k, h)
       PROVE  UNCHANGED <<row, results>>
  BY <1>10 DEF RecordVerification
<1>11. CASE UNCHANGED vars
  BY <1>1, <1>11 DEF vars
<1> QED
  BY <1>1, <1>2, <1>3, <1>4, <1>5, <1>6, <1>7, <1>8, <1>9, <1>10, <1>11 DEF Next

\* Every behaviour of the control plane is one of AuthorityPromise: one owner
\* at a time, a fence between the two, dependencies first, no way back.
THEOREM ImplementsPromise == Spec => KeepsPromise
<1>1. Init => Promise!Init
  BY DEF Init, Promise!Init, Owner, Committed, PostgresStates
<1>2. Init => CheckedClosed
  BY DEF Init, CheckedClosed
<1>3. TypeOK /\ CheckedClosed /\ [Next]_vars => CheckedClosed'
  BY CheckedClosedStep
<1>4. TypeOK /\ TypeOK' /\ CheckedClosed /\ FormalCommitIsAtomic /\ [Next]_vars
        => [Promise!Next]_(Promise!vars)
  BY PromiseStep
<1> QED
  BY <1>1, <1>2, <1>3, <1>4, ShapeCorrect, FormalAtomic, PTL
     DEF Spec, KeepsPromise, Promise!Spec

---------------------------------------------------------------------------
(* The ledger *)

\* A write of the row starts at the state the row has, is an allowed transition
\* or the promotion, and publishes or makes stable what the row carries, under its
\* approval or another one.
Write(u, to, w, e, m, f, a) ==
    /\ WriteAuthority(u, state[u], to, w, e, m, f, a)
    /\ <<state[u], to>> \in Allowed \cup {<<"S2", "S3">>}
    /\ to \in PostgresStates => w = writer[u] /\ e = epoch[u]
    /\ to = "S3" => a = approval[u]
    /\ to = "S4" => a # approval[u] /\ f = formal[u]

Writes == \E u \in Units, to \in AuthorityStates, w \in Writers \cup {None},
             e \in Epochs \cup {None}, m \in Watermarks \cup {None},
             f \in Keys \cup {None}, a \in Approvals : Write(u, to, w, e, m, f, a)

LEMMA PromoteWrites ==
    ASSUME TypeOK, RowShape, NEW u \in Units, NEW k \in Keys, Promote(u, k)
    PROVE  UNCHANGED <<row, audit>> \/ Writes
<1>1. CASE state[u] = "S2"
  <2>1. Write(u, "S3", writer[u], epoch[u], watermark[u], k, approval[u])
    BY <1>1 DEF Promote, Write
  <2>2. approval[u] \in Approvals
    BY <1>1 DEF TypeOK, RowShape
  <2> QED BY <2>1, <2>2 DEF Writes, TypeOK, AuthorityStates
<1> QED BY <1>1 DEF Promote

LEMMA StepWrites ==
    ASSUME TypeOK, RowShape, [Next]_vars
    PROVE  UNCHANGED <<row, audit>> \/ Writes
<1>1. ASSUME NEW r \in inflight, NEW a \in Approvals, TransitionToSqlite(r, a)
      PROVE  Writes
  <2>1. r.unit \in Units /\ r.to \in AuthorityStates /\ r.to # "S4"
    BY <1>1 DEF TypeOK, Request, TransitionToSqlite
  <2>2. Write(r.unit, r.to, None, None, None, None, a)
    BY <1>1, <2>1 DEF TransitionToSqlite, Fresh, Write, PostgresStates
  <2> QED BY <2>1, <2>2 DEF Writes
<1>2. ASSUME NEW r \in inflight, NEW a \in Approvals, NEW w \in Writers,
             NEW e \in Epochs, NEW m \in Watermarks, TransitionToFence(r, w, e, m, a)
      PROVE  Writes
  <2>1. r.unit \in Units
    BY DEF TypeOK, Request
  <2>2. Write(r.unit, "S2", w, e, m, None, a)
    BY <1>2 DEF TransitionToFence, Fresh, Write, PostgresStates
  <2> QED BY <2>1, <2>2 DEF Writes, AuthorityStates
<1>3. ASSUME NEW r \in inflight, NEW a \in Approvals, TransitionToStable(r, a)
      PROVE  Writes
  <2>1. r.unit \in Units
    BY DEF TypeOK, Request
  <2>2. Write(r.unit, "S4", writer[r.unit], epoch[r.unit], watermark[r.unit],
              formal[r.unit], a)
    BY <1>3 DEF TransitionToStable, Fresh, Write
  <2> QED BY <2>1, <2>2 DEF Writes, AuthorityStates, TypeOK
<1>4. ASSUME NEW r \in inflight, NEW k \in Keys, ActivateSnapshot(r, k)
      PROVE  UNCHANGED <<row, audit>> \/ Writes
  <2>1. r.unit \in Units /\ Promote(r.unit, k)
    BY <1>4 DEF TypeOK, Request, ActivateSnapshot
  <2> QED BY <2>1, PromoteWrites
<1>5. ASSUME NEW u \in Units, NEW k \in Keys, NoteMutation(u, k)
      PROVE  UNCHANGED <<row, audit>> \/ Writes
  BY <1>5, PromoteWrites DEF NoteMutation
<1>6. ASSUME NEW s \in Sessions, NEW u \in Units,
             \/ \E to \in AuthorityStates : ReadAuthority(s, u, to)
             \/ ReadFence(s, u)
      PROVE  UNCHANGED <<row, audit>>
  BY <1>6 DEF ReadAuthority, ReadFence
<1>7. ASSUME NEW r \in inflight, CheckDependencies(r) \/ Abandon(r)
      PROVE  UNCHANGED <<row, audit>>
  BY <1>7 DEF CheckDependencies, Abandon
<1>8. ASSUME NEW u \in Units, NEW k \in Keys,
             RecordMutation(u, k) \/ \E h \in Hashes : RecordVerification(u, k, h)
      PROVE  UNCHANGED <<row, audit>>
  BY <1>8 DEF RecordMutation, RecordVerification
<1>9. CASE UNCHANGED vars
  BY <1>9 DEF vars
<1> QED
  BY <1>1, <1>2, <1>3, <1>4, <1>5, <1>6, <1>7, <1>8, <1>9 DEF Next

\* The new entry continues the ledger: its revision is the next one, and it
\* starts where the row, hence the last entry, was.
LEMMA LedgerStep ==
    ASSUME TypeOK, RowShape, LedgerIsHistory, [Next]_vars
    PROVE  LedgerIsHistory'
<1>1. CASE UNCHANGED <<row, audit>>
  BY <1>1 DEF LedgerIsHistory, row
<1>2. ASSUME NEW u \in Units, NEW to \in AuthorityStates, NEW w \in Writers \cup {None},
             NEW e \in Epochs \cup {None}, NEW m \in Watermarks \cup {None},
             NEW f \in Keys \cup {None}, NEW a \in Approvals,
             Write(u, to, w, e, m, f, a)
      PROVE  LedgerIsHistory'
  <2> DEFINE n == AuditEntry(u, state[u], to, w, e, f, a)
  <2>1. /\ audit' = audit \cup {n}
        /\ n.unit = u /\ n.revision = revision[u] + 1 /\ n.from = state[u] /\ n.to = to
        /\ n.writer = w /\ n.epoch = e /\ n.formal = f /\ n.approval = a
    BY <1>2 DEF Write, WriteAuthority, AuditEntry
  <2>2. /\ revision'[u] = revision[u] + 1 /\ state'[u] = to /\ writer'[u] = w
        /\ epoch'[u] = e /\ formal'[u] = f /\ approval'[u] = a
        /\ \A v \in Units : v # u =>
             /\ revision'[v] = revision[v] /\ state'[v] = state[v]
             /\ writer'[v] = writer[v] /\ epoch'[v] = epoch[v]
             /\ formal'[v] = formal[v] /\ approval'[v] = approval[v]
    BY <1>2 DEF Write, WriteAuthority, TypeOK
  <2>3. /\ \A v \in Units : revision[v] \in Nat
        /\ \A x \in audit : x.unit \in Units /\ x.revision \in Nat
    BY DEF TypeOK, AuditRow
  <2>4. \A x \in audit : x.revision \in 1..revision[x.unit]
    BY DEF LedgerIsHistory
  <2> HIDE DEF n
  <2>5. \A x, y \in audit' : x.unit = y.unit /\ x.revision = y.revision => x = y
    <3>1. \A x \in audit : ~(x.unit = u /\ x.revision = revision[u] + 1)
      BY <2>3, <2>4
    <3> QED BY <2>1, <3>1 DEF LedgerIsHistory
  <2>6. \A x, y \in audit' :
          x.unit = y.unit /\ y.revision = x.revision + 1 => y.from = x.to
    <3> SUFFICES ASSUME NEW x \in audit', NEW y \in audit',
                        x.unit = y.unit, y.revision = x.revision + 1
                 PROVE  y.from = x.to
      OBVIOUS
    <3>1. CASE x \in audit /\ y \in audit
      BY <3>1 DEF LedgerIsHistory
    <3>2. CASE x \in audit /\ y = n
      <4>1. x.unit = u /\ x.revision = revision[u]
        BY <2>1, <2>3, <3>2
      <4> QED BY <2>1, <3>2, <4>1 DEF LedgerIsHistory
    <3>3. CASE x = n
      <4>1. y \in audit => y.revision \in 1..revision[u]
        BY <2>1, <2>4, <3>3
      <4> QED BY <2>1, <2>3, <3>3, <4>1
    <3> QED BY <2>1, <3>1, <3>2, <3>3
  <2>7. \A v \in Units : \A i \in 1..revision'[v] :
          \E x \in audit' : x.unit = v /\ x.revision = i
    <3> SUFFICES ASSUME NEW v \in Units, NEW i \in 1..revision'[v]
                 PROVE  \E x \in audit' : x.unit = v /\ x.revision = i
      OBVIOUS
    <3>1. CASE i \in 1..revision[v]
      BY <2>1, <3>1 DEF LedgerIsHistory
    <3>2. CASE i \notin 1..revision[v]
      <4>1. v = u /\ i = revision[u] + 1
        BY <2>2, <2>3, <3>2
      <4> QED BY <2>1, <4>1
    <3> QED BY <3>1, <3>2
  <2>8. \A x \in audit' :
          /\ x.revision \in 1..revision'[x.unit]
          /\ x.revision = revision'[x.unit] =>
               /\ x.to = state'[x.unit] /\ x.writer = writer'[x.unit]
               /\ x.epoch = epoch'[x.unit] /\ x.formal = formal'[x.unit]
               /\ x.approval = approval'[x.unit]
    <3> SUFFICES ASSUME NEW x \in audit'
                 PROVE  /\ x.revision \in 1..revision'[x.unit]
                        /\ x.revision = revision'[x.unit] =>
                             /\ x.to = state'[x.unit] /\ x.writer = writer'[x.unit]
                             /\ x.epoch = epoch'[x.unit] /\ x.formal = formal'[x.unit]
                             /\ x.approval = approval'[x.unit]
      OBVIOUS
    <3>1. CASE x = n
      BY <2>1, <2>2, <2>3, <3>1
    <3>2. CASE x \in audit /\ x.unit = u
      BY <2>2, <2>3, <2>4, <3>2
    <3>3. CASE x \in audit /\ x.unit # u
      BY <2>2, <2>3, <3>3 DEF LedgerIsHistory
    <3> QED BY <2>1, <3>1, <3>2, <3>3
  <2> QED BY <2>5, <2>6, <2>7, <2>8 DEF LedgerIsHistory
<1> QED BY <1>1, <1>2, StepWrites DEF Writes

\* The ledger is a gapless history of the row that ends at the row.
THEOREM LedgerFaithful == Spec => []LedgerIsHistory
<1>1. Init => LedgerIsHistory
  BY DEF Init, LedgerIsHistory
<1>2. TypeOK /\ RowShape /\ LedgerIsHistory /\ [Next]_vars => LedgerIsHistory'
  BY LedgerStep
<1> QED BY <1>1, <1>2, ShapeCorrect, PTL DEF Spec

---------------------------------------------------------------------------
(* Evidence belongs to its attempt *)

\* The entry before a new one is the last of the ledger, hence the row, and the
\* row is what a promotion and a step to S4 go on from.
LEMMA AttemptStep ==
    ASSUME TypeOK, RowShape, LedgerIsHistory, AttemptIsWhole, [Next]_vars
    PROVE  AttemptIsWhole'
<1>1. CASE UNCHANGED <<row, audit>>
  BY <1>1 DEF AttemptIsWhole, row
<1>2. ASSUME NEW u \in Units, NEW to \in AuthorityStates, NEW w \in Writers \cup {None},
             NEW e \in Epochs \cup {None}, NEW m \in Watermarks \cup {None},
             NEW f \in Keys \cup {None}, NEW a \in Approvals,
             Write(u, to, w, e, m, f, a)
      PROVE  AttemptIsWhole'
  <2> DEFINE n == AuditEntry(u, state[u], to, w, e, f, a)
  <2>1. /\ audit' = audit \cup {n}
        /\ n.unit = u /\ n.revision = revision[u] + 1 /\ n.to = to
        /\ n.writer = w /\ n.epoch = e /\ n.formal = f /\ n.approval = a
    BY <1>2 DEF Write, WriteAuthority, AuditEntry
  <2>2. to \in PostgresStates =>
          /\ w = writer[u] /\ e = epoch[u]
          /\ to = "S3" => state[u] = "S2" /\ a = approval[u]
          /\ to = "S4" => state[u] = "S3" /\ a # approval[u] /\ f = formal[u]
    BY <1>2 DEF Write, Allowed, PostgresStates
  <2>3. /\ \A v \in Units : revision[v] \in Nat
        /\ \A x \in audit : x.unit \in Units /\ x.revision \in Nat
    BY DEF TypeOK, AuditRow
  <2>4. \A x \in audit : x.revision \in 1..revision[x.unit]
    BY DEF LedgerIsHistory
  <2> HIDE DEF n
  <2> SUFFICES ASSUME NEW x \in audit', NEW y \in audit', x.unit = y.unit,
                      y.revision = x.revision + 1, y.to \in PostgresStates
               PROVE  /\ y.writer = x.writer /\ y.epoch = x.epoch
                      /\ y.to = "S3" => x.to = "S2" /\ y.approval = x.approval
                      /\ y.to = "S4" =>
                           x.to = "S3" /\ y.approval # x.approval /\ y.formal = x.formal
    BY DEF AttemptIsWhole
  <2>5. CASE x \in audit /\ y \in audit
    BY <2>5 DEF AttemptIsWhole
  <2>6. CASE x \in audit /\ y = n
    <3>1. x.unit = u /\ x.revision = revision[u]
      BY <2>1, <2>3, <2>6
    <3>2. /\ x.to = state[u] /\ x.writer = writer[u] /\ x.epoch = epoch[u]
          /\ x.formal = formal[u] /\ x.approval = approval[u]
      BY <2>6, <3>1 DEF LedgerIsHistory
    <3> QED BY <2>1, <2>2, <2>6, <3>2
  <2>7. CASE x = n
    <3>1. y \in audit => y.revision \in 1..revision[u]
      BY <2>1, <2>4, <2>7
    <3> QED BY <2>1, <2>3, <2>7, <3>1
  <2> QED BY <2>1, <2>5, <2>6, <2>7
<1> QED BY <1>1, <1>2, StepWrites DEF Writes

\* The entry that fenced a unit is the last of its ledger while it is in S2.
LEMMA VerificationStep ==
    ASSUME TypeOK, RowShape, LedgerIsHistory, VerificationWasFenced, [Next]_vars
    PROVE  VerificationWasFenced'
<1>1. audit \subseteq audit'
  <2>1. ASSUME NEW u, NEW to, NEW w, NEW e, NEW m, NEW f, NEW a, Write(u, to, w, e, m, f, a)
        PROVE  audit \subseteq audit'
    BY <2>1 DEF Write, WriteAuthority
  <2> QED BY <2>1, StepWrites DEF Writes
<1>2. CASE UNCHANGED verification
  BY <1>1, <1>2 DEF VerificationWasFenced
<1>3. ASSUME NEW u \in Units, NEW k \in Keys, NEW h \in Hashes, RecordVerification(u, k, h)
      PROVE  VerificationWasFenced'
  <2>1. state[u] = "S2" /\ revision[u] \in 1..revision[u]
    BY <1>3 DEF RecordVerification, TypeOK, RowShape
  <2>2. PICK x \in audit : x.unit = u /\ x.revision = revision[u]
    BY <2>1 DEF LedgerIsHistory
  <2>3. x.to = "S2" /\ x.epoch = epoch[u]
    BY <2>1, <2>2 DEF LedgerIsHistory
  <2>4. verification' =
          verification \cup {[unit |-> u, epoch |-> epoch[u], key |-> k, hash |-> h]}
    BY <1>3 DEF RecordVerification
  <2> QED BY <1>1, <2>2, <2>3, <2>4 DEF VerificationWasFenced
<1>4. ASSUME NEW s \in Sessions, NEW u \in Units,
             \/ \E to \in AuthorityStates : ReadAuthority(s, u, to)
             \/ ReadFence(s, u)
      PROVE  UNCHANGED verification
  BY <1>4 DEF ReadAuthority, ReadFence
<1>5. ASSUME NEW r \in inflight,
             \/ CheckDependencies(r) \/ Abandon(r)
             \/ \E a \in Approvals :
                  \/ TransitionToSqlite(r, a) \/ TransitionToStable(r, a)
                  \/ \E w \in Writers, e \in Epochs, m \in Watermarks :
                       TransitionToFence(r, w, e, m, a)
             \/ \E k \in Keys : ActivateSnapshot(r, k)
      PROVE  UNCHANGED verification
  BY <1>5 DEF CheckDependencies, Abandon, TransitionToSqlite, TransitionToStable,
     TransitionToFence, ActivateSnapshot
<1>6. ASSUME NEW u \in Units, NEW k \in Keys, NoteMutation(u, k) \/ RecordMutation(u, k)
      PROVE  UNCHANGED verification
  BY <1>6 DEF NoteMutation, RecordMutation
<1>7. CASE UNCHANGED vars
  BY <1>2, <1>7 DEF vars
<1> QED BY <1>2, <1>3, <1>4, <1>5, <1>6, <1>7 DEF Next

\* A unit is published under the evidence of the fence in force, becomes stable
\* under an approval other than S3's, and is verified under an audited epoch.
THEOREM EvidenceOfAttempt == Spec => []EvidenceIsOfItsAttempt
<1>1. Init => EvidenceIsOfItsAttempt
  BY DEF Init, EvidenceIsOfItsAttempt, AttemptIsWhole, VerificationWasFenced
<1>2. TypeOK /\ RowShape /\ LedgerIsHistory /\ EvidenceIsOfItsAttempt /\ [Next]_vars
        => EvidenceIsOfItsAttempt'
  BY AttemptStep, VerificationStep DEF EvidenceIsOfItsAttempt
<1> QED BY <1>1, <1>2, ShapeCorrect, LedgerFaithful, PTL DEF Spec
===========================================================================
