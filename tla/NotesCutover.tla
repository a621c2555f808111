---------------------------- MODULE NotesCutover ----------------------------
(***************************************************************************)
(* The first cutover: analyst notes move from SQLite to PostgreSQL.         *)
(*                                                                         *)
(* A script prepares the unit (snapshot, load, S1), fences the legacy       *)
(* Viewer, enters S2, writes the route file, is to disable the legacy       *)
(* service, starts the production Viewer and, after the first note,         *)
(* publishes S3.                                                            *)
(* Every step may fail, which runs the script's catch block, or be cut off, *)
(* which does not; the host may reboot, and a transaction may commit after  *)
(* its caller gave up on it.  Operators may take S2 back and start either   *)
(* Viewer by hand.                                                          *)
(*                                                                         *)
(* The production Viewer serves clients under the route it loaded at its    *)
(* start; they repeat requests that were not answered.  S4 and the common   *)
(* authority matrix come after this script.                                 *)
(***************************************************************************)
EXTENDS Naturals, FiniteSets

CONSTANTS
    LegacyNotes,    \* rows the legacy Viewer may insert into SQLite
    NewNotes,       \* note keys clients may invent
    Requests,       \* what clients may ask for
    None,
    MaxEpochs,      \* bound on the attempts to enter S2
    MaxFailures,    \* bound on failed or cut off steps and reboots
    MaxLosses       \* bound on answers clients do not wait for

Notes == LegacyNotes \cup NewNotes

ASSUME NotesAssumption ==
    /\ LegacyNotes \cap NewNotes = {}
    /\ \A rows \in SUBSET LegacyNotes : rows # None
    /\ \A q \in Requests :
         q.kind \in {"put", "delete"} /\ q.note \in Notes /\ q.expected \in Nat
    /\ MaxEpochs \in Nat /\ MaxFailures \in Nat /\ MaxLosses \in Nat

VARIABLES
    lite,       \* analyst_note in SQLite
    legacy,     \* the legacy Viewer
    service,    \* it is a Windows service that starts with the host; never changes
    state, revision, epoch, watermark,   \* the authority row
    orphan,     \* a transition in flight whose caller gave up, or None
    notes,      \* user_content.analyst_note: revision, 0 if absent, and deleted_at
    results,    \* operations.idempotency_record
    ledger,     \* audit.user_content_revision
    step,       \* the last step of the script, or "idle"
    attempt,    \* how many epochs were drawn
    staged, s1, before, fence, s2,   \* the snapshot and the evidence files
    route,      \* user_content_runtime_route.json
    viewer,     \* the route of the production Viewer, or None
    calls,      \* requests the Viewer is serving
    answered,   \* requests whose success reached the client
    failures, losses

authority == <<state, revision, epoch, watermark, orphan>>
database == <<notes, results, ledger>>
files == <<staged, s1, before, fence, s2, route>>
script == <<step, attempt, failures>>
web == <<viewer, calls, answered, losses>>
sqlite == <<lite, legacy, service>>
nvars == <<sqlite, authority, database, files, script, web>>

Scope(q) == <<q.kind, q.key>>
Published == state \in {"S2", "S3"}

Route == [state : {"S2", "S3"}, epoch : 1..MaxEpochs]
Transition == [revision : Nat, epoch : 1..MaxEpochs, watermark : SUBSET LegacyNotes]
Call == [req : Requests, asserted : BOOLEAN, awaited : BOOLEAN]
Steps == {"idle", "staged", "before", "stopped", "fenced", "entered", "routed", "evident",
          "disabled", "started", "mutated", "reconciled", "restarting", "failed"}

\* by is the epoch of the writing Viewer's route; both are 0 for the load.
Entry == [note : Notes, revision : Nat, author : Requests \cup {None},
          epoch : 0..MaxEpochs, by : 0..MaxEpochs]

\* The types, and the columns of the authority row that go with its state.
NotesTypeOK ==
    /\ lite \subseteq LegacyNotes
    /\ legacy \in {"running", "stopped"} /\ service \in BOOLEAN
    /\ state \in {"ABSENT", "S0", "S1", "S2", "S3"}
    /\ revision \in Nat /\ epoch \in 0..MaxEpochs
    /\ watermark \in (SUBSET LegacyNotes) \cup {None}
    /\ IF Published THEN epoch # 0 /\ watermark # None ELSE epoch = 0 /\ watermark = None
    /\ orphan \in Transition \cup {None}
    /\ notes \in [Notes -> [revision : Nat, deleted : BOOLEAN]]
    /\ results \subseteq Requests /\ ledger \subseteq Entry
    /\ step \in Steps /\ attempt \in 0..MaxEpochs /\ failures \in 0..MaxFailures
    /\ staged \subseteq LegacyNotes /\ before \subseteq LegacyNotes
    /\ fence \subseteq LegacyNotes
    /\ s1 \in Nat /\ s2 \in 0..MaxEpochs
    /\ route \in Route \cup {None} /\ viewer \in Route \cup {None}
    /\ calls \subseteq Call /\ answered \subseteq Requests /\ losses \in 0..MaxLosses

NotesInit ==
    /\ lite = {} /\ legacy = "running" /\ service \in BOOLEAN
    /\ state = "ABSENT" /\ revision = 0 /\ epoch = 0 /\ watermark = None /\ orphan = None
    /\ notes = [n \in Notes |-> [revision |-> 0, deleted |-> FALSE]]
    /\ results = {} /\ ledger = {}
    /\ step = "idle" /\ attempt = 0 /\ failures = 0
    /\ staged = {} /\ s1 = 0 /\ before = {} /\ fence = {} /\ s2 = 0 /\ route = None
    /\ viewer = None /\ calls = {} /\ answered = {} /\ losses = 0

Go(from, to) == step = from /\ step' = to /\ UNCHANGED <<attempt, failures>>

---------------------------------------------------------------------------
(* SQLite and the preparation *)

\* SQLiteAnalystNoteRepository.put; nothing is changed or deleted there.
LegacyPut(l) ==
    /\ legacy = "running"
    /\ lite' = lite \cup {l}
    /\ UNCHANGED <<legacy, service, authority, database, files, script, web>>

\* The preflight needs a healthy legacy Viewer; then the rows are staged.
Stage ==
    /\ Go("idle", "staged")
    /\ legacy = "running"
    /\ staged' = lite
    /\ UNCHANGED <<sqlite, authority, database, s1, before, fence, s2, route, web>>

\* promote_user_content_to_s1, one transaction: the row climbs to S1, and
\* notes not loaded before are inserted at revision 1.  Then the evidence.
PromoteS1 ==
    LET climb == [ABSENT |-> 2, S0 |-> 1, S1 |-> 0]
        fresh == {l \in staged : notes[l].revision = 0}
    IN
    /\ Go("staged", "idle")
    /\ state \in DOMAIN climb
    /\ state' = "S1"
    /\ revision' = revision + climb[state]
    /\ notes' = [n \in Notes |-> IF n \in fresh THEN [revision |-> 1, deleted |-> FALSE]
                                 ELSE notes[n]]
    /\ ledger' = ledger \cup {[note |-> l, revision |-> 1, author |-> None, epoch |-> 0,
                               by |-> 0] : l \in fresh}
    /\ s1' = revision'
    /\ staged' = {}
    /\ UNCHANGED <<sqlite, epoch, watermark, orphan, results, before, fence, s2, route, web>>

PreparationFails ==
    /\ step = "staged"
    /\ step' = "idle"
    /\ staged' = {}
    /\ UNCHANGED <<sqlite, authority, database, s1, before, fence, s2, route, attempt,
                   failures, web>>

---------------------------------------------------------------------------
(* The writer fence *)

CaptureBefore ==
    /\ Go("idle", "before")
    /\ s1 # 0 /\ attempt < MaxEpochs
    /\ legacy = "running"
    /\ before' = lite
    /\ UNCHANGED <<sqlite, authority, database, staged, s1, fence, s2, route, web>>

StopLegacy ==
    /\ Go("before", "stopped")
    /\ legacy' = "stopped"
    /\ UNCHANGED <<lite, service, authority, database, files, web>>

SealFence(rows) ==
    /\ Go("stopped", "fenced")
    /\ fence' = rows
    /\ before' = {}
    /\ UNCHANGED <<sqlite, authority, database, staged, s1, s2, route, web>>

\* Faulty variant: the rows before the stop are taken for the final ones.
CompileFenceBefore == SealFence(before)

\* compile_writer_fence: the rows before and after the stop are the same.
CompileFence == lite = before /\ SealFence(lite)

\* The fence script's catch block starts the service it stopped, if it can; a
\* process without a service is not started again.
FenceFails ==
    /\ step \in {"before", "stopped"}
    /\ step' = "idle"
    /\ IF step = "stopped" /\ lite # before THEN UNCHANGED failures
       ELSE failures < MaxFailures /\ failures' = failures + 1
    /\ before' = {}
    /\ \/ step = "stopped" /\ service /\ legacy' = "running"
       \/ UNCHANGED legacy
    /\ UNCHANGED <<lite, service, authority, database, staged, s1, fence, s2, route, attempt,
                   web>>

---------------------------------------------------------------------------
(* The transition *)

\* transition_user_content_notes with the revision of the S1 evidence.
MayEnter(t) == state = "S1" /\ revision = t.revision

CommitS2(t) ==
    /\ state' = "S2"
    /\ revision' = revision + 1
    /\ epoch' = t.epoch
    /\ watermark' = t.watermark

Proposal == [revision |-> s1, epoch |-> attempt + 1, watermark |-> fence]

\* enter_s2 up to its commit: refused, or committed and answered, or committed
\* without an answer, or still in flight when the caller gives up.
EnterS2 ==
    /\ step = "fenced"
    /\ attempt' = attempt + 1
    /\ \/ /\ MayEnter(Proposal)
          /\ CommitS2(Proposal)
          /\ step' = "entered"
          /\ UNCHANGED <<orphan, failures>>
       \/ /\ MayEnter(Proposal)
          /\ CommitS2(Proposal)
          /\ step' = "failed"
          /\ failures < MaxFailures /\ failures' = failures + 1
          /\ UNCHANGED orphan
       \/ /\ MayEnter(Proposal)
          /\ orphan = None
          /\ orphan' = Proposal
          /\ step' = "failed"
          /\ failures < MaxFailures /\ failures' = failures + 1
          /\ UNCHANGED <<state, revision, epoch, watermark>>
       \/ /\ ~MayEnter(Proposal)
          /\ step' = "failed"
          /\ UNCHANGED <<state, revision, epoch, watermark, orphan, failures>>
    /\ UNCHANGED <<sqlite, database, files, web>>

\* The transition whose caller gave up commits after all, or is rolled back.
OrphanEnds ==
    /\ orphan # None
    /\ orphan' = None
    /\ \/ MayEnter(orphan) /\ CommitS2(orphan)
       \/ UNCHANGED <<state, revision, epoch, watermark>>
    /\ UNCHANGED <<sqlite, database, files, script, web>>

\* _write_atomic of the route, then of the S2 evidence.
WriteRoute ==
    /\ Go("entered", "routed")
    /\ route' = [state |-> "S2", epoch |-> attempt]
    /\ UNCHANGED <<sqlite, authority, database, staged, s1, before, fence, s2, web>>

WriteEvidence ==
    /\ Go("routed", "evident")
    /\ s2' = attempt
    /\ UNCHANGED <<sqlite, authority, database, staged, s1, before, fence, route, web>>

\* Set-HonghuLegacyServiceLifecycle -Mode Disable.  The fence hashed the JSON form
\* of the service path, and here the path itself is hashed: with a service the two
\* differ and the step throws.  Without one it has nothing to do.
DisableLegacy ==
    /\ Go("evident", IF service THEN "failed" ELSE "disabled")
    /\ UNCHANGED <<sqlite, authority, database, files, web>>

---------------------------------------------------------------------------
(* The production Viewer and its publication *)

\* Start-UserContentProductionViewer.ps1: the ports are free, the route is read.
ViewerStarts ==
    /\ viewer = None
    /\ legacy # "running"
    /\ route # None
    /\ viewer' = route
    /\ UNCHANGED <<sqlite, authority, database, files, calls, answered, losses>>

StartViewer ==
    /\ Go("disabled", "started") \/ Go("restarting", "idle")
    /\ ViewerStarts

\* The script goes on when a put of its own was answered.
FirstMutation ==
    /\ Go("started", "mutated")
    /\ answered # {}
    /\ UNCHANGED <<sqlite, authority, database, files, web>>

\* reconcile_s3: the row is in S3 with the epoch of the S2 evidence.
Reconcile ==
    /\ Go("mutated", "reconciled")
    /\ state = "S3"
    /\ epoch = s2
    /\ route' = [state |-> "S3", epoch |-> epoch]
    /\ UNCHANGED <<sqlite, authority, database, staged, s1, before, fence, s2, web>>

ViewerStops == viewer' = None /\ calls' = {} /\ UNCHANGED <<answered, losses>>

StopViewer ==
    /\ Go("reconciled", "restarting")
    /\ ViewerStops
    /\ UNCHANGED <<sqlite, authority, database, files>>

---------------------------------------------------------------------------
(* Failures *)

\* A step of the script fails: its catch block is next.
Fail ==
    /\ step \notin {"idle", "staged", "before", "stopped", "failed"}
    /\ failures < MaxFailures
    /\ failures' = failures + 1
    /\ step' = "failed"
    /\ UNCHANGED <<sqlite, authority, database, files, attempt, web>>

\* The catch block restores or disables the service, as inspect-authority reads the
\* row, with the same procedure: it throws too, or has nothing to do.
Catch ==
    /\ Go("failed", "idle")
    /\ UNCHANGED <<sqlite, authority, database, files, web>>

\* The script is killed, and no catch block runs.
Kill ==
    /\ step # "idle"
    /\ failures < MaxFailures
    /\ failures' = failures + 1
    /\ step' = "idle"
    /\ staged' = {} /\ before' = {}
    /\ UNCHANGED <<sqlite, authority, database, s1, fence, s2, route, attempt, web>>

\* The service starts with the host; a process without one does not.
Reboot ==
    /\ failures < MaxFailures
    /\ failures' = failures + 1
    /\ step' = "idle"
    /\ staged' = {} /\ before' = {}
    /\ legacy' = IF service THEN "running" ELSE "stopped"
    /\ ViewerStops
    /\ orphan' = None
    /\ UNCHANGED <<lite, service, state, revision, epoch, watermark, database, s1, fence, s2,
                   route, attempt>>

---------------------------------------------------------------------------
(* What operators do by hand *)

\* transition_user_content_notes from S2 back to S1, without a formal commit.
Reverse ==
    /\ step = "idle"
    /\ state = "S2"
    /\ state' = "S1"
    /\ revision' = revision + 1
    /\ epoch' = 0
    /\ watermark' = None
    /\ UNCHANGED <<sqlite, orphan, database, files, script, web>>

\* An operator who reads S1 starts what no script starts again.
StartLegacyByHand ==
    /\ step = "idle"
    /\ state = "S1"
    /\ legacy # "running"
    /\ viewer = None
    /\ legacy' = "running"
    /\ UNCHANGED <<lite, service, authority, database, files, script, web>>

StartViewerByHand == step = "idle" /\ ViewerStarts /\ UNCHANGED script

StopViewerByHand ==
    /\ step = "idle"
    /\ viewer # None
    /\ ViewerStops
    /\ UNCHANGED <<sqlite, authority, database, files, script>>
---------------------------------------------------------------------------
(* Clients of the production Viewer *)

Waiting(q) == \E c \in calls : c.req = q /\ c.awaited

\* A client asks, and asks again until it is answered.
Send(q) ==
    /\ viewer # None
    /\ q \notin answered /\ ~Waiting(q)
    /\ calls' = calls \cup {[req |-> q, asserted |-> FALSE, awaited |-> TRUE]}
    /\ UNCHANGED <<sqlite, authority, database, files, script, viewer, answered, losses>>

\* The client stops waiting; the request goes on.
GiveUp(c) ==
    /\ c.awaited
    /\ losses < MaxLosses
    /\ losses' = losses + 1
    /\ calls' = (calls \ {c}) \cup {[c EXCEPT !.awaited = FALSE]}
    /\ UNCHANGED <<sqlite, authority, database, files, script, viewer, answered>>

\* Faulty variant: the epoch is not compared.
RouteMatchesState == viewer.state = state \/ (viewer.state = "S2" /\ state = "S3")

\* Faulty variant: the handoff from S2 to S3 is not accepted.
RouteMatchesExactly == viewer.state = state /\ viewer.epoch = epoch

\* _assert_authority; an S2 route accepts the S3 its own first write made.
RouteMatches ==
    /\ viewer.state = state \/ (viewer.state = "S2" /\ state = "S3")
    /\ viewer.epoch = epoch

AssertAuthority(c) ==
    /\ ~c.asserted
    /\ calls' = (calls \ {c}) \cup IF RouteMatches THEN {[c EXCEPT !.asserted = TRUE]} ELSE {}
    /\ UNCHANGED <<sqlite, authority, database, files, script, viewer, answered, losses>>

Stored(q) == {r \in results : Scope(r) = Scope(q)}

\* Faulty variant: a put does not compare the revision.
RevisionMatchesDelete(q) == q.kind = "delete" => notes[q.note].revision = q.expected /\ q.expected > 0

\* A put may create a note or revive a deleted one; a delete needs a note.
RevisionMatches(q) ==
    /\ notes[q.note].revision = q.expected
    /\ q.kind = "delete" => q.expected > 0

\* Faulty variant: only a put is a formal mutation.
PromotePut(q) ==
    IF state = "S2" /\ q.kind = "put" THEN state' = "S3" /\ revision' = revision + 1
    ELSE UNCHANGED <<state, revision>>

\* promote_user_content_notes_on_first_formal_mutation.
Promote(q) ==
    IF state = "S2" THEN state' = "S3" /\ revision' = revision + 1
    ELSE UNCHANGED <<state, revision>>

Apply(q) ==
    LET r == notes[q.note].revision + 1
    IN  /\ notes' = [notes EXCEPT ![q.note] = [revision |-> r, deleted |-> q.kind = "delete"]]
        /\ ledger' = ledger \cup {[note |-> q.note, revision |-> r, author |-> q,
                                   epoch |-> epoch, by |-> viewer.epoch]}
        /\ results' = results \cup {q}
        /\ Promote(q)

\* Faulty variant: whatever the key is stored for is the answer.
ReplaysKey(q) == Stored(q) # {}

\* A stored result answers the same request; another one is a conflict.
Replays(q) == q \in results

\* put_analyst_note_v2 and soft_delete_analyst_note_v2; the row lock on the
\* authority makes them one after the other.
Execute(c) ==
    LET q == c.req
        succeeds == Published /\ (Replays(q) \/ (Stored(q) = {} /\ RevisionMatches(q)))
    IN
    /\ c.asserted
    /\ calls' = calls \ {c}
    /\ IF succeeds /\ ~Replays(q) THEN Apply(q)
       ELSE UNCHANGED <<database, state, revision>>
    /\ answered' = IF succeeds /\ c.awaited THEN answered \cup {q} ELSE answered
    /\ UNCHANGED <<sqlite, epoch, watermark, orphan, files, script, viewer, losses>>

---------------------------------------------------------------------------

Prepare == Stage \/ PromoteS1 \/ PreparationFails
Fence == CaptureBefore \/ StopLegacy \/ CompileFence \/ FenceFails
Cutover == EnterS2 \/ WriteRoute \/ WriteEvidence \/ DisableLegacy \/ StartViewer
           \/ FirstMutation \/ Reconcile \/ StopViewer \/ Catch
ByHand == Reverse \/ StartLegacyByHand \/ StartViewerByHand \/ StopViewerByHand
Client == \/ \E q \in Requests : Send(q)
          \/ \E c \in calls : GiveUp(c) \/ AssertAuthority(c) \/ Execute(c)

NotesNext ==
    \/ \E l \in LegacyNotes : LegacyPut(l)
    \/ Prepare \/ Fence \/ Cutover \/ OrphanEnds
    \/ Fail \/ Kill \/ Reboot \/ ByHand \/ Client

NotesSpec == NotesInit /\ [][NotesNext]_nvars

\* Clients repeat their requests, and the Viewer serves what it was sent.
NotesFairSpec ==
    /\ NotesSpec
    /\ \A q \in Requests :
         /\ WF_nvars(Send(q))
         /\ WF_nvars(\E c \in calls : c.req = q /\ (AssertAuthority(c) \/ Execute(c)))

---------------------------------------------------------------------------
(* Properties *)

\* The steps at which the script knows that the unit is in S2, or S3.
Entered == {"entered", "routed", "evident", "disabled", "started", "mutated", "reconciled",
            "restarting"}

\* The route file, which a Viewer loads, is that of the row.
RouteIsCurrent == route # None /\ route.epoch = epoch

\* Two writers with the same expected revision, repeated requests and keys used
\* twice never lose an update: every note went through revisions 1, 2, ... with
\* one author each, who had seen the one before, and a key has one result.
UpdatesAreSerial ==
    /\ \A n \in Notes :
         LET past == {x \in ledger : x.note = n}
         IN  /\ {x.revision : x \in past} = 1..notes[n].revision
             /\ Cardinality(past) = notes[n].revision
    /\ \A x \in ledger : x.author # None =>
         x.author \in results /\ x.revision = x.author.expected + 1
    /\ \A q, r \in results : Scope(q) = Scope(r) => q = r

\* S3 is the first formal write: while no client wrote, S2 can be taken back,
\* and from then on it cannot.
FirstWritePublishes == state = "S3" <=> results # {}

\* The types, and the first write as the moment of publication.
NotesInv == NotesTypeOK /\ FirstWritePublishes

\* SQLite has no writer and holds what the authority row says it ended with: from
\* the commit of S2 to the end of the script, whichever attempt it is and whatever an
\* earlier one left in flight; and after that, or after a crash, as long as a Viewer
\* can serve the row's epoch, where the legacy Viewer is no service.
WatermarkIsFinal ==
    Published /\ (step \in Entered \/ (~service /\ RouteIsCurrent)) =>
        legacy # "running" /\ lite = watermark

\* What the script's authors say of every host: "Once durable authority is S2, the old
\* auto-start service must never revive the SQLite writer after a reboot."
LegacyStaysRetired == Published => legacy # "running"

\* A formal write was made by a Viewer started under the epoch of the row, though
\* the functions compare only state and writer: a Viewer of an earlier attempt
\* does not write under a later one.
WritesUnderOwnEpoch == \A x \in ledger : x.by = x.epoch

\* What a client was told to be stored is stored, for that request.
AnswersAreTrue == answered \subseteq results

\* A client that lost the answer to a stored write and repeats the request gets it
\* from a Viewer that stays up, also when the write itself moved the row to S3.
RetryIsAnswered ==
    \A q \in Requests :
        [](q \in results =>
             <>(q \in answered \/ viewer = None \/ viewer.epoch # epoch))
=============================================================================
