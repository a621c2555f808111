------------------------ MODULE NotesCutoverProofs ------------------------
(***************************************************************************)
(* Proofs about NotesCutover, for any set of notes and of requests and any  *)
(* number of attempts, failures and lost answers.                           *)
(***************************************************************************)
EXTENDS NotesCutover, FiniteSetTheorems, TLAPS

\* What the place of the script implies: between the fence and the transition
\* nobody writes, neither the legacy Viewer nor the production Viewer.
ScriptInv ==
    /\ step \in {"before", "stopped", "fenced"} => attempt < MaxEpochs
    /\ step \in Entered => Published /\ attempt # 0 /\ legacy # "running" /\ lite = watermark
    /\ step \in {"staged", "before", "stopped", "fenced"} => viewer = None
    /\ step = "failed" /\ ~Published => viewer = None
    /\ step \in {"stopped", "fenced"} => legacy = "stopped"
    /\ step = "fenced" => fence = lite
    /\ viewer # None => legacy # "running"
    /\ viewer = None => calls = {}

\* A transition in flight carries the revision of a state that may have passed, and an
\* epoch that no route names.
OrphanInv ==
    /\ epoch <= attempt
    /\ route # None => route.epoch <= attempt
    /\ orphan # None =>
         /\ orphan.revision <= revision
         /\ orphan.epoch <= attempt /\ orphan.epoch # epoch
         /\ route # None => route.epoch # orphan.epoch
         /\ step = "entered" => orphan.epoch # attempt

\* A call that passed the assertion runs under the epoch it was asserted for, or
\* under none that will ever be published again while its Viewer runs.
CallInv ==
    \A c \in calls : c.asserted =>
      \/ Published /\ viewer.epoch = epoch
      \/ state = "S1" /\ (orphan # None => orphan.revision < revision)

NotesIInv == NotesInv /\ ScriptInv /\ OrphanInv /\ CallInv /\ WatermarkIsFinal

---------------------------------------------------------------------------
(* The types *)

LEMMA TypeStep ==
    ASSUME NotesTypeOK, ScriptInv, [NotesNext]_nvars
    PROVE  NotesTypeOK'
<1> USE NotesAssumption DEF NotesTypeOK, Published, sqlite, authority, database, files,
        script, web, Go
<1>1. ASSUME NEW l \in LegacyNotes, LegacyPut(l) PROVE NotesTypeOK'
  BY <1>1 DEF LegacyPut
<1>2. CASE Stage
  BY <1>2 DEF Stage, Steps
<1>3. CASE PromoteS1
  <2>1. DOMAIN [ABSENT |-> 2, S0 |-> 1, S1 |-> 0] = {"ABSENT", "S0", "S1"}
    OBVIOUS
  <2>2. state \in {"ABSENT", "S0", "S1"} /\ state' = "S1" /\ ~Published
    BY <1>3, <2>1 DEF PromoteS1
  <2>3. \A s \in {"ABSENT", "S0", "S1"} : [ABSENT |-> 2, S0 |-> 1, S1 |-> 0][s] \in Nat
    OBVIOUS
  <2>4. revision' \in Nat
    BY <1>3, <2>2, <2>3 DEF PromoteS1
  <2>5. notes' \in [Notes -> [revision : Nat, deleted : BOOLEAN]]
    BY <1>3 DEF PromoteS1
  <2>6. ledger' \subseteq Entry
    BY <1>3 DEF PromoteS1, Entry, Notes
  <2> QED BY <1>3, <2>2, <2>4, <2>5, <2>6 DEF PromoteS1, Steps
<1>4. CASE PreparationFails
  BY <1>4 DEF PreparationFails, Steps
<1>5. CASE CaptureBefore
  BY <1>5 DEF CaptureBefore, Steps
<1>6. CASE StopLegacy
  BY <1>6 DEF StopLegacy, Steps
<1>7. CASE CompileFence
  BY <1>7 DEF CompileFence, SealFence, Steps
<1>8. CASE FenceFails
  <2>1. legacy' \in {"running", "stopped"} /\ service' \in BOOLEAN
    BY <1>8 DEF FenceFails
  <2>2. failures' \in 0..MaxFailures
    BY <1>8 DEF FenceFails
  <2> QED BY <1>8, <2>1, <2>2 DEF FenceFails, Steps
<1>9. CASE EnterS2
  BY <1>9 DEF EnterS2, CommitS2, Proposal, MayEnter, Transition, Steps, ScriptInv
<1>10. CASE OrphanEnds
  BY <1>10 DEF OrphanEnds, CommitS2, MayEnter, Transition
<1>11. CASE WriteRoute
  BY <1>11 DEF WriteRoute, Route, Steps, ScriptInv, Entered
<1>12. CASE WriteEvidence
  BY <1>12 DEF WriteEvidence, Steps
<1>13. CASE DisableLegacy
  BY <1>13 DEF DisableLegacy, Steps
<1>14. CASE StartViewer
  BY <1>14 DEF StartViewer, ViewerStarts, Steps
<1>15. CASE FirstMutation
  BY <1>15 DEF FirstMutation, Steps
<1>16. CASE Reconcile
  BY <1>16 DEF Reconcile, Route, Steps
<1>17. CASE StopViewer
  BY <1>17 DEF StopViewer, ViewerStops, Steps
<1>18. CASE Fail
  BY <1>18 DEF Fail, Steps
<1>19. CASE Catch
  BY <1>19 DEF Catch, Steps
<1>20. CASE Kill
  BY <1>20 DEF Kill, Steps
<1>21. CASE Reboot
  <2>1. legacy' \in {"running", "stopped"} /\ service' \in BOOLEAN
    BY <1>21 DEF Reboot
  <2>2. failures' \in 0..MaxFailures
    BY <1>21 DEF Reboot
  <2> QED BY <1>21, <2>1, <2>2 DEF Reboot, ViewerStops, Steps
<1>22. CASE Reverse
  BY <1>22 DEF Reverse
<1>23. CASE StartLegacyByHand
  BY <1>23 DEF StartLegacyByHand
<1>24. CASE StartViewerByHand
  BY <1>24 DEF StartViewerByHand, ViewerStarts
<1>25. CASE StopViewerByHand
  BY <1>25 DEF StopViewerByHand, ViewerStops
<1>26. ASSUME NEW q \in Requests, Send(q) PROVE NotesTypeOK'
  <2>1. [req |-> q, asserted |-> FALSE, awaited |-> TRUE] \in Call
    BY DEF Call
  <2> QED BY <1>26, <2>1 DEF Send
<1>27. ASSUME NEW c \in calls, GiveUp(c) PROVE NotesTypeOK'
  <2>1. c \in Call
    OBVIOUS
  <2>2. [c EXCEPT !.awaited = FALSE] \in Call
    BY <2>1 DEF Call
  <2>3. calls' \subseteq Call
    BY <1>27, <2>2 DEF GiveUp
  <2> QED BY <1>27, <2>3 DEF GiveUp
<1>28. ASSUME NEW c \in calls, AssertAuthority(c) PROVE NotesTypeOK'
  <2>1. c \in Call
    OBVIOUS
  <2>2. [c EXCEPT !.asserted = TRUE] \in Call
    BY <2>1 DEF Call
  <2> QED BY <1>28, <2>2 DEF AssertAuthority
<1>29. ASSUME NEW c \in calls, Execute(c) PROVE NotesTypeOK'
  <2>1. c.req \in Requests
    BY DEF Call
  <2>2. CASE UNCHANGED <<database, state, revision>>
    BY <1>29, <2>1, <2>2 DEF Execute
  <2>3. CASE Published /\ Apply(c.req)
    <3>1. viewer \in Route
      BY <1>29 DEF ScriptInv
    <3> QED BY <1>29, <2>1, <2>3, <3>1 DEF Execute, Apply, Promote, Entry, Route
  <2> QED BY <1>29, <2>2, <2>3 DEF Execute
<1>30. CASE UNCHANGED nvars
  BY <1>30 DEF nvars
<1> QED
  BY <1>1, <1>2, <1>3, <1>4, <1>5, <1>6, <1>7, <1>8, <1>9, <1>10, <1>11, <1>12, <1>13,
     <1>14, <1>15, <1>16, <1>17, <1>18, <1>19, <1>20, <1>21, <1>22, <1>23, <1>24, <1>25,
     <1>26, <1>27, <1>28, <1>29, <1>30
  DEF NotesNext, Prepare, Fence, Cutover, ByHand, Client

---------------------------------------------------------------------------
(* The script *)

\* S2 is entered at the fence or by a transition in flight, left by hand or by
\* the first write, and only the preparation makes S1.
LEMMA PublishedStep ==
    ASSUME NotesTypeOK, [NotesNext]_nvars
    PROVE  \/ UNCHANGED <<state, revision, epoch, watermark>>
           \/ /\ state' = "S1" /\ ~Published /\ PromoteS1
              /\ UNCHANGED <<epoch, watermark>> /\ revision' >= revision
           \/ /\ state = "S1" /\ state' = "S2" /\ revision' = revision + 1
              /\ EnterS2 \/ OrphanEnds
           \/ state = "S2" /\ state' = "S1" /\ revision' = revision + 1 /\ Reverse
           \/ /\ state = "S2" /\ state' = "S3" /\ revision' = revision + 1
              /\ UNCHANGED <<epoch, watermark>>
              /\ \E c \in calls : Execute(c) /\ Apply(c.req)
<1> USE DEF sqlite, authority, database, files, script, web
<1>1. CASE PromoteS1
  <2>1. DOMAIN [ABSENT |-> 2, S0 |-> 1, S1 |-> 0] = {"ABSENT", "S0", "S1"}
    OBVIOUS
  <2>2. \A s \in {"ABSENT", "S0", "S1"} : [ABSENT |-> 2, S0 |-> 1, S1 |-> 0][s] \in Nat
    OBVIOUS
  <2>3. revision \in Nat
    BY DEF NotesTypeOK
  <2> QED BY <1>1, <2>1, <2>2, <2>3 DEF PromoteS1, Published
<1>2. CASE EnterS2
  BY <1>2 DEF EnterS2, MayEnter, CommitS2
<1>3. CASE OrphanEnds
  BY <1>3 DEF OrphanEnds, MayEnter, CommitS2
<1>4. CASE Reverse
  BY <1>4 DEF Reverse
<1>5. ASSUME NEW c \in calls, Execute(c)
      PROVE  \/ UNCHANGED <<state, revision, epoch, watermark>>
             \/ /\ state = "S2" /\ state' = "S3" /\ revision' = revision + 1
                /\ UNCHANGED <<epoch, watermark>> /\ Apply(c.req)
  BY <1>5 DEF Execute, Apply, Promote
<1>6. CASE \/ \E l \in LegacyNotes : LegacyPut(l)
           \/ Stage \/ PreparationFails
  BY <1>6 DEF LegacyPut, Stage, PreparationFails
<1>7. CASE Fence
  BY <1>7 DEF Fence, CaptureBefore, StopLegacy, CompileFence, SealFence, FenceFails
<1>8. CASE WriteRoute \/ WriteEvidence \/ DisableLegacy \/ StartViewer \/ FirstMutation
           \/ Reconcile \/ StopViewer \/ Catch
  BY <1>8 DEF WriteRoute, WriteEvidence, DisableLegacy, StartViewer, ViewerStarts,
     FirstMutation, Reconcile, StopViewer, Catch
<1>9. CASE Fail \/ Kill \/ Reboot
  BY <1>9 DEF Fail, Kill, Reboot
<1>10. CASE StartLegacyByHand \/ StartViewerByHand \/ StopViewerByHand
  BY <1>10 DEF StartLegacyByHand, StartViewerByHand, ViewerStarts, StopViewerByHand
<1>11. CASE \/ \E q \in Requests : Send(q)
            \/ \E c \in calls : GiveUp(c) \/ AssertAuthority(c)
  BY <1>11 DEF Send, GiveUp, AssertAuthority
<1>12. CASE UNCHANGED nvars
  BY <1>12 DEF nvars
<1> QED
  BY <1>1, <1>2, <1>3, <1>4, <1>5, <1>6, <1>7, <1>8, <1>9, <1>10, <1>11, <1>12
  DEF NotesNext, Prepare, Cutover, ByHand, Client

LEMMA ScriptStep ==
    ASSUME NotesTypeOK, ScriptInv, [NotesNext]_nvars
    PROVE  ScriptInv'
<1> USE NotesAssumption
    DEF ScriptInv, Entered, Published, sqlite, authority, database, files, script, web, Go
<1>1. ASSUME NEW l \in LegacyNotes, LegacyPut(l) PROVE ScriptInv'
  BY <1>1 DEF LegacyPut
<1>2. CASE Stage \/ PreparationFails
  BY <1>2 DEF Stage, PreparationFails
<1>3. CASE PromoteS1
  <2>1. viewer' = None /\ calls' = {} /\ step' = "idle"
    BY <1>3 DEF PromoteS1
  <2> QED BY <2>1
<1>4. CASE CaptureBefore \/ StopLegacy \/ CompileFence
  BY <1>4 DEF CaptureBefore, StopLegacy, CompileFence, SealFence
<1>5. CASE FenceFails
  BY <1>5 DEF FenceFails
<1>6. CASE EnterS2
  <2>1. viewer' = None /\ calls' = {} /\ legacy' = legacy /\ lite' = lite /\ step' \in {"entered", "failed"}
        /\ attempt' # 0
    BY <1>6 DEF EnterS2, NotesTypeOK
  <2>2. step' = "entered" => state' = "S2" /\ watermark' = lite /\ legacy = "stopped"
    BY <1>6 DEF EnterS2, CommitS2, Proposal
  <2> QED BY <2>1, <2>2
<1>7. CASE OrphanEnds
  BY <1>7 DEF OrphanEnds, CommitS2, MayEnter
<1>8. CASE WriteRoute \/ WriteEvidence \/ DisableLegacy
  BY <1>8 DEF WriteRoute, WriteEvidence, DisableLegacy
<1>9. CASE StartViewer
  BY <1>9 DEF StartViewer, ViewerStarts
<1>10. CASE FirstMutation \/ Reconcile
  BY <1>10 DEF FirstMutation, Reconcile
<1>11. CASE StopViewer
  BY <1>11 DEF StopViewer, ViewerStops
<1>12. CASE Fail
  BY <1>12 DEF Fail, NotesTypeOK, Steps
<1>13. CASE Catch
  BY <1>13 DEF Catch
<1>14. CASE Kill
  BY <1>14 DEF Kill
<1>15. CASE Reboot
  BY <1>15 DEF Reboot, ViewerStops
<1>16. CASE Reverse
  BY <1>16 DEF Reverse
<1>17. CASE StartLegacyByHand
  BY <1>17 DEF StartLegacyByHand
<1>18. CASE StartViewerByHand
  BY <1>18 DEF StartViewerByHand, ViewerStarts
<1>19. CASE StopViewerByHand
  BY <1>19 DEF StopViewerByHand, ViewerStops
<1>20. ASSUME NEW q \in Requests, Send(q) PROVE ScriptInv'
  BY <1>20 DEF Send
<1>21. ASSUME NEW c \in calls, GiveUp(c) \/ AssertAuthority(c) PROVE ScriptInv'
  BY <1>21 DEF GiveUp, AssertAuthority
<1>22. ASSUME NEW c \in calls, Execute(c) PROVE ScriptInv'
  <2>1. UNCHANGED <<lite, legacy, watermark, step, attempt, fence, viewer>> /\ viewer # None
    BY <1>22 DEF Execute
  <2>2. Published => Published'
    BY <1>22 DEF Execute, Apply, Promote
  <2> QED BY <2>1, <2>2
<1>23. CASE UNCHANGED nvars
  BY <1>23 DEF nvars
<1> QED
  BY <1>1, <1>2, <1>3, <1>4, <1>5, <1>6, <1>7, <1>8, <1>9, <1>10, <1>11, <1>12, <1>13,
     <1>14, <1>15, <1>16, <1>17, <1>18, <1>19, <1>20, <1>21, <1>22, <1>23
  DEF NotesNext, Prepare, Fence, Cutover, ByHand, Client

---------------------------------------------------------------------------
(* SQLite, the legacy Viewer and the transition in flight *)

\* Where rows, Viewer, route and transition in flight can change at all.
LEMMA SqliteStep ==
    ASSUME NotesTypeOK, ScriptInv, [NotesNext]_nvars
    PROVE  /\ service' = service
           /\ \/ UNCHANGED <<lite, orphan>> /\ legacy' # "running"
              \/ UNCHANGED <<lite, legacy, orphan>>
              \/ UNCHANGED <<legacy, orphan>> /\ legacy = "running"
              \/ /\ UNCHANGED lite /\ orphan' \in {orphan, None}
                 /\ service \/ ~Published' \/ legacy' # "running"
                 /\ step' \notin Entered
              \/ UNCHANGED <<lite, legacy>> /\ (EnterS2 \/ OrphanEnds)
<1> USE DEF sqlite, authority, database, files, script, web, Go, Entered
<1>1. ASSUME NEW l \in LegacyNotes, LegacyPut(l)
      PROVE  UNCHANGED <<legacy, service, orphan>> /\ legacy = "running"
  BY <1>1 DEF LegacyPut
<1>2. CASE Prepare \/ CaptureBefore \/ CompileFence
  BY <1>2 DEF Prepare, Stage, PromoteS1, PreparationFails, CaptureBefore, CompileFence,
     SealFence
<1>3. CASE StopLegacy
  BY <1>3 DEF StopLegacy
<1>4. CASE FenceFails
  BY <1>4 DEF FenceFails
<1>5. CASE StartLegacyByHand
  BY <1>5 DEF StartLegacyByHand, Published
<1>6. CASE EnterS2 \/ OrphanEnds
  BY <1>6 DEF EnterS2, OrphanEnds
<1>7. CASE WriteRoute \/ WriteEvidence \/ DisableLegacy \/ StartViewer \/ FirstMutation
           \/ Reconcile \/ StopViewer \/ Catch
  BY <1>7 DEF WriteRoute, WriteEvidence, DisableLegacy, StartViewer, ViewerStarts,
     FirstMutation, Reconcile, StopViewer, Catch
<1>8. CASE Reboot
  BY <1>8 DEF Reboot
<1>9. CASE Fail \/ Kill \/ Reverse \/ StartViewerByHand \/ StopViewerByHand
  BY <1>9 DEF Fail, Kill, Reverse, StartViewerByHand, ViewerStarts, StopViewerByHand
<1>10. CASE Client
  BY <1>10 DEF Client, Send, GiveUp, AssertAuthority, Execute
<1>11. CASE UNCHANGED nvars
  BY <1>11 DEF nvars
<1> QED
  BY <1>1, <1>2, <1>3, <1>4, <1>5, <1>6, <1>7, <1>8, <1>9, <1>10, <1>11
  DEF NotesNext, Fence, Cutover, ByHand

\* The route file is written by the script alone, for the epoch it entered.
LEMMA RouteStep ==
    ASSUME NotesTypeOK, [NotesNext]_nvars
    PROVE  /\ attempt' = attempt \/ EnterS2
           /\ \/ UNCHANGED route /\ (step' = "entered" => step = "entered" \/ EnterS2)
              \/ step = "entered" /\ step' = "routed" /\ route'.epoch = attempt
              \/ step = "mutated" /\ step' = "reconciled" /\ route'.epoch = epoch
<1> USE DEF sqlite, authority, database, files, script, web, Go
<1>1. CASE (\E l \in LegacyNotes : LegacyPut(l)) \/ Prepare \/ Fence
  BY <1>1 DEF LegacyPut, Prepare, Stage, PromoteS1, PreparationFails, Fence, CaptureBefore,
     StopLegacy, CompileFence, SealFence, FenceFails
<1>2. CASE WriteRoute \/ Reconcile
  BY <1>2 DEF WriteRoute, Reconcile
<1>3. CASE EnterS2 \/ OrphanEnds
  BY <1>3 DEF EnterS2, OrphanEnds
<1>4. CASE WriteEvidence \/ DisableLegacy \/ StartViewer \/ FirstMutation \/ StopViewer
           \/ Catch
  BY <1>4 DEF WriteEvidence, DisableLegacy, StartViewer, ViewerStarts, FirstMutation,
     StopViewer, Catch
<1>5. CASE Fail \/ Kill \/ Reboot
  BY <1>5 DEF Fail, Kill, Reboot
<1>6. CASE ByHand
  BY <1>6 DEF ByHand, Reverse, StartLegacyByHand, StartViewerByHand, ViewerStarts,
     StopViewerByHand
<1>7. CASE Client
  BY <1>7 DEF Client, Send, GiveUp, AssertAuthority, Execute
<1>8. CASE UNCHANGED nvars
  BY <1>8 DEF nvars
<1> QED
  BY <1>1, <1>2, <1>3, <1>4, <1>5, <1>6, <1>7, <1>8 DEF NotesNext, Cutover

\* Every attempt draws an epoch of its own, and the revision of the authority row
\* never decreases: what an earlier attempt left in flight is told apart by both.
LEMMA OrphanStep ==
    ASSUME NotesTypeOK, ScriptInv, OrphanInv, [NotesNext]_nvars
    PROVE  OrphanInv'
<1>1. /\ revision \in Nat /\ attempt \in Nat /\ epoch \in Nat
      /\ orphan # None => orphan.revision \in Nat /\ orphan.epoch \in Nat
      /\ route # None => route.epoch \in Nat
  BY DEF NotesTypeOK, Transition, Route
<1>2. revision' >= revision /\ revision' \in Nat
  BY <1>1, PublishedStep, TypeStep DEF NotesTypeOK
<1>3. CASE EnterS2
  <2>1. attempt' = attempt + 1 /\ route' = route /\ epoch' \in {epoch, attempt + 1}
    BY <1>1, <1>3 DEF EnterS2, CommitS2, Proposal, files
  <2>2. CASE UNCHANGED orphan
    BY <1>1, <1>2, <2>1, <2>2 DEF OrphanInv
  <2>3. CASE orphan' = Proposal /\ MayEnter(Proposal) /\ epoch' = epoch /\ step' = "failed"
    BY <1>1, <1>2, <2>1, <2>3 DEF OrphanInv, Proposal, MayEnter
  <2> QED BY <1>3, <2>2, <2>3 DEF EnterS2
<1>4. CASE OrphanEnds
  <2>1. /\ orphan' = None /\ UNCHANGED <<route, attempt>>
        /\ epoch' = epoch \/ (orphan # None /\ epoch' = orphan.epoch)
    BY <1>4 DEF OrphanEnds, CommitS2, files, script
  <2> QED BY <1>1, <2>1 DEF OrphanInv
<1>5. CASE ~EnterS2 /\ ~OrphanEnds
  <2>1. orphan' \in {orphan, None} /\ attempt' = attempt
    BY <1>5, SqliteStep, RouteStep
  <2>2. epoch' \in {epoch, 0}
    BY <1>5, PublishedStep DEF Reverse
  <2>3. orphan # None => orphan.epoch # 0
    BY DEF NotesTypeOK, Transition
  <2> QED BY <1>1, <1>2, <1>5, <2>1, <2>2, <2>3, RouteStep DEF OrphanInv
<1> QED BY <1>3, <1>4, <1>5

\* A route names the epoch of the row only when the script wrote it after the commit,
\* when SQLite was final; and then only the start of the host starts a legacy Viewer.
LEMMA WatermarkStep ==
    ASSUME NotesTypeOK, ScriptInv, OrphanInv, WatermarkIsFinal, [NotesNext]_nvars
    PROVE  WatermarkIsFinal'
<1>1. step' \in Entered => legacy' # "running" /\ lite' = watermark'
  BY ScriptStep DEF ScriptInv
<1> SUFFICES ASSUME Published', ~service', RouteIsCurrent', step' \notin Entered
             PROVE  legacy' # "running" /\ lite' = watermark'
  BY <1>1 DEF WatermarkIsFinal
<1>2. UNCHANGED route
  BY RouteStep DEF Entered
<1>3. /\ attempt \in Nat /\ route # None /\ route.epoch = epoch' /\ epoch' # attempt + 1
      /\ orphan # None => epoch' # orphan.epoch
  BY <1>2 DEF RouteIsCurrent, OrphanInv, NotesTypeOK, Route
<1>4. ~(EnterS2 /\ CommitS2(Proposal)) /\ ~(OrphanEnds /\ CommitS2(orphan))
  BY <1>3 DEF OrphanEnds, CommitS2, Proposal
<1>5. Published /\ UNCHANGED <<epoch, watermark>>
  BY <1>4, PublishedStep DEF Published, EnterS2, OrphanEnds
<1>6. legacy # "running" /\ lite = watermark
  BY <1>2, <1>3, <1>5, SqliteStep DEF WatermarkIsFinal, RouteIsCurrent
<1> QED BY <1>5, <1>6, SqliteStep

---------------------------------------------------------------------------
(* The calls of the production Viewer *)

\* An asserted call of the next state was asserted before, or just now.
LEMMA CallsStep ==
    ASSUME NotesTypeOK, ScriptInv, [NotesNext]_nvars, NEW c \in calls'
    PROVE  /\ viewer # None /\ viewer' = viewer
           /\ c.asserted => (\E d \in calls : d.asserted) \/ (RouteMatches /\ UNCHANGED authority)
<1> USE DEF sqlite, database, files, script, web
<1>1. CASE Client
  <2>1. viewer # None /\ viewer' = viewer
    BY <1>1 DEF Client, Send, GiveUp, AssertAuthority, Execute, ScriptInv
  <2>2. ASSUME NEW q \in Requests, Send(q), c.asserted
        PROVE  \E d \in calls : d.asserted
    BY <2>2 DEF Send
  <2>3. ASSUME NEW k \in calls, GiveUp(k), c.asserted
        PROVE  \E d \in calls : d.asserted
    <3>1. k \in Call
      BY DEF NotesTypeOK
    <3>2. [k EXCEPT !.awaited = FALSE].asserted = k.asserted
      BY <3>1 DEF Call
    <3> QED BY <2>3, <3>2 DEF GiveUp
  <2>4. ASSUME NEW k \in calls, AssertAuthority(k), c.asserted
        PROVE  (\E d \in calls : d.asserted) \/ (RouteMatches /\ UNCHANGED authority)
    BY <2>4 DEF AssertAuthority
  <2>5. ASSUME NEW k \in calls, Execute(k), c.asserted
        PROVE  \E d \in calls : d.asserted
    BY <2>5 DEF Execute
  <2> QED BY <1>1, <2>1, <2>2, <2>3, <2>4, <2>5 DEF Client
<1>2. CASE UNCHANGED web
  <2>1. c \in calls
    BY <1>2
  <2> QED BY <1>2, <2>1 DEF ScriptInv
<1>3. CASE StartViewer \/ StartViewerByHand
  BY <1>3 DEF StartViewer, StartViewerByHand, ViewerStarts, ScriptInv
<1>4. CASE StopViewer \/ StopViewerByHand \/ Reboot
  BY <1>4 DEF StopViewer, StopViewerByHand, Reboot, ViewerStops
<1>5. CASE (\E l \in LegacyNotes : LegacyPut(l)) \/ Prepare \/ Fence
  BY <1>2, <1>5 DEF LegacyPut, Prepare, Stage, PromoteS1, PreparationFails, Fence,
     CaptureBefore, StopLegacy, CompileFence, SealFence, FenceFails
<1>6. CASE EnterS2 \/ WriteRoute \/ WriteEvidence \/ DisableLegacy \/ FirstMutation
           \/ Reconcile \/ Catch \/ OrphanEnds
  BY <1>2, <1>6 DEF EnterS2, WriteRoute, WriteEvidence, DisableLegacy, FirstMutation,
     Reconcile, Catch, OrphanEnds
<1>7. CASE Fail \/ Kill \/ Reverse \/ StartLegacyByHand
  BY <1>2, <1>7 DEF Fail, Kill, Reverse, StartLegacyByHand
<1>8. CASE UNCHANGED nvars
  BY <1>2, <1>8 DEF nvars
<1> QED
  BY <1>1, <1>3, <1>4, <1>5, <1>6, <1>7, <1>8 DEF NotesNext, Cutover, ByHand

\* A call is asserted for the epoch of the row; if S2 is taken back before it is
\* executed, its Viewer must stop before anything can be fenced again, and what is
\* still in flight then is out of date.
LEMMA CallStep ==
    ASSUME NotesTypeOK, ScriptInv, OrphanInv, CallInv, [NotesNext]_nvars
    PROVE  CallInv'
<1> SUFFICES ASSUME NEW c \in calls', c.asserted
             PROVE  (\/ Published /\ viewer.epoch = epoch
                     \/ state = "S1" /\ (orphan # None => orphan.revision < revision))'
  BY DEF CallInv
<1>1. viewer # None /\ viewer' = viewer
  BY CallsStep
<1>2. viewer \in Route
  BY <1>1 DEF NotesTypeOK
<1>3. CASE RouteMatches /\ UNCHANGED authority
  BY <1>1, <1>2, <1>3 DEF RouteMatches, Route, Published, authority
<1>4. CASE \E d \in calls : d.asserted
  <2>1. CASE Published /\ viewer.epoch = epoch
    <3>1. CASE Reverse
      <4>1. revision' = revision + 1 /\ orphan' = orphan /\ state' = "S1"
        BY <3>1 DEF Reverse
      <4>2. revision \in Nat /\ (orphan # None => orphan.revision \in Nat)
        BY DEF NotesTypeOK, Transition
      <4> QED BY <4>1, <4>2 DEF OrphanInv
    <3>2. CASE ~Reverse
      BY <1>1, <2>1, <3>2, PublishedStep DEF Published
    <3> QED BY <3>1, <3>2
  <2>2. CASE state = "S1" /\ (orphan # None => orphan.revision < revision)
    <3>1. ~EnterS2 /\ ~PromoteS1
      BY <1>1 DEF EnterS2, PromoteS1, ScriptInv, Go
    <3>2. UNCHANGED <<state, revision, epoch, watermark>>
      <4>1. revision \in Nat /\ (orphan # None => orphan.revision \in Nat)
        BY DEF NotesTypeOK, Transition
      <4>2. OrphanEnds => state' = state
        BY <2>2, <4>1 DEF OrphanEnds, MayEnter
      <4> QED BY <2>2, <3>1, <4>2, PublishedStep
    <3>3. orphan' \in {orphan, None}
      BY <3>1, SqliteStep DEF OrphanEnds
    <3> QED BY <2>2, <3>2, <3>3
  <2> QED BY <1>4, <2>1, <2>2 DEF CallInv
<1> QED BY <1>3, <1>4, CallsStep

---------------------------------------------------------------------------
(* The stored results *)

\* Who writes notes, results, ledger and the answers of clients.
LEMMA ResultsStep ==
    ASSUME NotesTypeOK, [NotesNext]_nvars
    PROVE  \/ UNCHANGED <<notes, results, ledger, answered>>
           \/ PromoteS1 /\ UNCHANGED <<results, answered>>
           \/ \E c \in calls :
                /\ Execute(c)
                /\ answered' \in {answered, answered \cup {c.req}}
                /\ \/ /\ UNCHANGED <<notes, results, ledger>>
                      /\ answered' = answered \/ c.req \in results
                   \/ /\ Published /\ c.asserted /\ c.req \in Requests
                      /\ Stored(c.req) = {} /\ RevisionMatches(c.req)
                      /\ Apply(c.req)
<1> USE DEF sqlite, authority, database, files, script, web
<1>1. ASSUME NEW c \in calls, Execute(c)
      PROVE  /\ answered' \in {answered, answered \cup {c.req}}
             /\ \/ /\ UNCHANGED <<notes, results, ledger>>
                   /\ answered' = answered \/ c.req \in results
                \/ /\ Published /\ c.asserted /\ c.req \in Requests
                   /\ Stored(c.req) = {} /\ RevisionMatches(c.req)
                   /\ Apply(c.req)
  BY <1>1 DEF Execute, Replays, NotesTypeOK, Call
<1>2. CASE (\E l \in LegacyNotes : LegacyPut(l)) \/ Stage \/ PreparationFails \/ Fence
  BY <1>2 DEF LegacyPut, Stage, PreparationFails, Fence, CaptureBefore, StopLegacy,
     CompileFence, SealFence, FenceFails
<1>3. CASE PromoteS1
  BY <1>3 DEF PromoteS1
<1>4. CASE Cutover \/ OrphanEnds
  BY <1>4 DEF Cutover, EnterS2, WriteRoute, WriteEvidence, DisableLegacy, StartViewer,
     ViewerStarts, FirstMutation, Reconcile, StopViewer, ViewerStops, Catch, OrphanEnds
<1>5. CASE Fail \/ Kill \/ Reboot \/ ByHand
  BY <1>5 DEF Fail, Kill, Reboot, ByHand, Reverse, StartLegacyByHand, StartViewerByHand,
     ViewerStarts, StopViewerByHand, ViewerStops
<1>6. CASE \/ \E q \in Requests : Send(q)
           \/ \E c \in calls : GiveUp(c) \/ AssertAuthority(c)
  BY <1>6 DEF Send, GiveUp, AssertAuthority
<1>7. CASE UNCHANGED nvars
  BY <1>7 DEF nvars
<1> QED BY <1>1, <1>2, <1>3, <1>4, <1>5, <1>6, <1>7 DEF NotesNext, Prepare, Client

LEMMA FirstWriteStep ==
    ASSUME NotesTypeOK, FirstWritePublishes, [NotesNext]_nvars
    PROVE  FirstWritePublishes'
<1> USE DEF FirstWritePublishes
<1>1. ASSUME NEW c \in calls, Published, Apply(c.req)
      PROVE  FirstWritePublishes'
  <2>1. c.req \in results'
    BY <1>1 DEF Apply
  <2>2. state' = "S3"
    BY <1>1 DEF Apply, Promote, Published
  <2> QED BY <2>1, <2>2
<1>2. CASE UNCHANGED results
  <2>1. ASSUME NEW c \in calls, Apply(c.req), state = "S2" PROVE FirstWritePublishes'
    BY <1>1, <2>1 DEF Published
  <2> QED BY <1>2, <2>1, PublishedStep DEF Published
<1> QED BY <1>1, <1>2, ResultsStep

LEMMA AnswersStep ==
    ASSUME NotesTypeOK, AnswersAreTrue, [NotesNext]_nvars
    PROVE  AnswersAreTrue'
BY ResultsStep DEF AnswersAreTrue, Apply

LEMMA EpochsStep ==
    ASSUME NotesTypeOK, ScriptInv, CallInv, WritesUnderOwnEpoch, [NotesNext]_nvars
    PROVE  WritesUnderOwnEpoch'
<1> USE DEF WritesUnderOwnEpoch
<1>1. CASE PromoteS1
  BY <1>1 DEF PromoteS1
<1>2. ASSUME NEW c \in calls, Published, c.asserted, Apply(c.req)
      PROVE  WritesUnderOwnEpoch'
  <2>1. viewer.epoch = epoch
    BY <1>2 DEF CallInv, Published
  <2> QED BY <1>2, <2>1 DEF Apply
<1> QED BY <1>1, <1>2, ResultsStep

---------------------------------------------------------------------------
(* Theorems *)

LEMMA NotesInvariant == NotesSpec => []NotesIInv
<1>1. NotesInit => NotesIInv
  <2>1. NotesInit => NotesTypeOK
    <3> SUFFICES ASSUME NotesInit PROVE NotesTypeOK
      OBVIOUS
    <3>1. notes \in [Notes -> [revision : Nat, deleted : BOOLEAN]]
      BY DEF NotesInit
    <3>2. 0 \in 0..MaxEpochs /\ 0 \in 0..MaxFailures /\ 0 \in 0..MaxLosses
      BY NotesAssumption
    <3> QED BY <3>1, <3>2 DEF NotesInit, NotesTypeOK, Published, Steps
  <2>2. NotesInit => FirstWritePublishes /\ OrphanInv /\ CallInv /\ WatermarkIsFinal
    BY DEF NotesInit, FirstWritePublishes, OrphanInv, CallInv, WatermarkIsFinal, Published
  <2>3. NotesInit => ScriptInv
    BY DEF NotesInit, ScriptInv, Entered
  <2> QED BY <2>1, <2>2, <2>3 DEF NotesIInv, NotesInv
<1>2. NotesIInv /\ [NotesNext]_nvars => NotesIInv'
  BY TypeStep, FirstWriteStep, ScriptStep, OrphanStep, CallStep, WatermarkStep
  DEF NotesIInv, NotesInv
<1> QED BY <1>1, <1>2, PTL DEF NotesSpec

\* The types, and the first stored result as the moment S2 becomes S3: while no
\* client wrote, the cutover can be taken back, and from then on it cannot.
THEOREM FirstWrite == NotesSpec => []NotesInv
<1>1. NotesIInv => NotesInv
  BY DEF NotesIInv
<1> QED BY <1>1, NotesInvariant, PTL

\* From the commit of S2 to the end of the script, and while a Viewer can serve the
\* row's epoch where the legacy Viewer is no service, SQLite has no writer and the rows
\* of the watermark, also when the transition committed after its caller gave up.
THEOREM WatermarkFinal == NotesSpec => []WatermarkIsFinal
<1>1. NotesIInv => WatermarkIsFinal
  BY DEF NotesIInv
<1> QED BY <1>1, NotesInvariant, PTL

\* A Viewer started for one attempt never writes under the epoch of another.
THEOREM OwnEpoch == NotesSpec => []WritesUnderOwnEpoch
<1>1. NotesInit => WritesUnderOwnEpoch
  BY DEF NotesInit, WritesUnderOwnEpoch
<1>2. NotesIInv /\ WritesUnderOwnEpoch /\ [NotesNext]_nvars => WritesUnderOwnEpoch'
  BY EpochsStep DEF NotesIInv, NotesInv
<1> QED BY <1>1, <1>2, NotesInvariant, PTL DEF NotesSpec

\* A success that reached a client is stored.
THEOREM AnswersTrue == NotesSpec => []AnswersAreTrue
<1>1. NotesInit => AnswersAreTrue
  BY DEF NotesInit, AnswersAreTrue
<1>2. NotesIInv /\ AnswersAreTrue /\ [NotesNext]_nvars => AnswersAreTrue'
  BY AnswersStep DEF NotesIInv, NotesInv
<1> QED BY <1>1, <1>2, NotesInvariant, PTL DEF NotesSpec

---------------------------------------------------------------------------
(* Updates are serial *)

Past(n) == {x \in ledger : x.note = n}

\* A note's entries are as many as its revisions, one for each.
NoteIsSerial(n) ==
    /\ IsFiniteSet(Past(n))
    /\ {x.revision : x \in Past(n)} = 1..notes[n].revision
    /\ Cardinality(Past(n)) = notes[n].revision

SerialInv == UpdatesAreSerial /\ \A n \in Notes : NoteIsSerial(n)

LEMMA OneMore ==
    ASSUME NEW P, NEW k \in Nat, NEW e, e.revision = k + 1,
           IsFiniteSet(P), {x.revision : x \in P} = 1..k, Cardinality(P) = k
    PROVE  /\ IsFiniteSet(P \cup {e})
           /\ {x.revision : x \in P \cup {e}} = 1..(k + 1)
           /\ Cardinality(P \cup {e}) = k + 1
<1>1. e \notin P
  <2>1. k + 1 \notin 1..k
    OBVIOUS
  <2> QED BY <2>1
<1>2. IsFiniteSet(P \cup {e}) /\ Cardinality(P \cup {e}) = k + 1
  BY <1>1, FS_AddElement
<1>3. {x.revision : x \in P \cup {e}} = {x.revision : x \in P} \cup {k + 1}
  OBVIOUS
<1>4. (1..k) \cup {k + 1} = 1..(k + 1)
  OBVIOUS
<1> QED BY <1>2, <1>3, <1>4

LEMMA SerialApply ==
    ASSUME NotesTypeOK, SerialInv, NEW q \in Requests, Apply(q),
           Stored(q) = {}, RevisionMatches(q)
    PROVE  SerialInv'
<1> DEFINE e == [note |-> q.note, revision |-> notes[q.note].revision + 1, author |-> q,
                 epoch |-> epoch, by |-> viewer.epoch]
<1>1. /\ ledger' = ledger \cup {e} /\ results' = results \cup {q}
      /\ notes' = [notes EXCEPT ![q.note] = [revision |-> notes[q.note].revision + 1,
                                             deleted |-> q.kind = "delete"]]
  BY DEF Apply
<1>2. q.note \in Notes /\ q.expected = notes[q.note].revision
  BY NotesAssumption DEF RevisionMatches
<1>3. ASSUME NEW n \in Notes PROVE NoteIsSerial(n)'
  <2>1. CASE n = q.note
    <3>1. Past(n)' = Past(n) \cup {e} /\ e.revision = notes[n].revision + 1
      BY <1>1, <2>1 DEF Past
    <3>2. notes[n].revision \in Nat /\ notes'[n].revision = notes[n].revision + 1
      BY <1>1, <2>1 DEF NotesTypeOK
    <3>3. NoteIsSerial(n)
      BY DEF SerialInv
    <3> HIDE DEF e
    <3>4. /\ IsFiniteSet(Past(n) \cup {e})
          /\ {x.revision : x \in Past(n) \cup {e}} = 1..(notes[n].revision + 1)
          /\ Cardinality(Past(n) \cup {e}) = notes[n].revision + 1
      BY <3>1, <3>2, <3>3, OneMore DEF NoteIsSerial
    <3> QED BY <3>1, <3>2, <3>4 DEF NoteIsSerial
  <2>2. CASE n # q.note
    <3>1. Past(n)' = Past(n) /\ notes'[n] = notes[n]
      BY <1>1, <2>2 DEF Past, NotesTypeOK
    <3> QED BY <3>1 DEF SerialInv, NoteIsSerial
  <2> QED BY <2>1, <2>2
<1>4. \A x \in ledger' : x.author # None =>
        x.author \in results' /\ x.revision = x.author.expected + 1
  BY <1>1, <1>2 DEF SerialInv, UpdatesAreSerial
<1>5. \A a, b \in results' : Scope(a) = Scope(b) => a = b
  BY <1>1 DEF SerialInv, UpdatesAreSerial, Stored
<1> QED BY <1>3, <1>4, <1>5 DEF SerialInv, UpdatesAreSerial, NoteIsSerial, Past

\* The load inserts only notes that are not there, whose history is empty.
LEMMA SerialLoad ==
    ASSUME NotesTypeOK, SerialInv, PromoteS1
    PROVE  SerialInv'
<1> DEFINE fresh == {l \in staged : notes[l].revision = 0}
           loaded(l) == [note |-> l, revision |-> 1, author |-> None, epoch |-> 0, by |-> 0]
<1>1. /\ ledger' = ledger \cup {loaded(l) : l \in fresh} /\ results' = results
      /\ notes' = [n \in Notes |-> IF n \in fresh THEN [revision |-> 1, deleted |-> FALSE]
                                   ELSE notes[n]]
  BY DEF PromoteS1, database
<1>2. ASSUME NEW n \in Notes PROVE NoteIsSerial(n)'
  <2>1. CASE n \in fresh
    <3>1. Past(n)' = Past(n) \cup {loaded(n)}
      BY <1>1, <2>1 DEF Past
    <3>2. notes[n].revision = 0 /\ notes'[n].revision = 1
      BY <1>1, <2>1
    <3>3. {x.revision : x \in Past(n)} = {}
      BY <3>2 DEF SerialInv, NoteIsSerial
    <3>4. Past(n)' = {loaded(n)}
      BY <3>1, <3>3
    <3>5. {x.revision : x \in {loaded(n)}} = 1..1
      OBVIOUS
    <3>6. IsFiniteSet({loaded(n)}) /\ Cardinality({loaded(n)}) = 1
      BY FS_Singleton
    <3> QED BY <3>2, <3>4, <3>5, <3>6 DEF NoteIsSerial
  <2>2. CASE n \notin fresh
    <3>1. Past(n)' = Past(n) /\ notes'[n] = notes[n]
      BY <1>1, <2>2 DEF Past
    <3> QED BY <3>1 DEF SerialInv, NoteIsSerial
  <2> QED BY <2>1, <2>2
<1>3. \A x \in ledger' : x.author # None =>
        x.author \in results' /\ x.revision = x.author.expected + 1
  BY <1>1 DEF SerialInv, UpdatesAreSerial
<1> QED BY <1>1, <1>2, <1>3 DEF SerialInv, UpdatesAreSerial, NoteIsSerial, Past

LEMMA SerialStep ==
    ASSUME NotesTypeOK, SerialInv, [NotesNext]_nvars
    PROVE  SerialInv'
<1>1. CASE UNCHANGED <<notes, results, ledger>>
  BY <1>1 DEF SerialInv, UpdatesAreSerial, NoteIsSerial, Past
<1> QED BY <1>1, SerialApply, SerialLoad, ResultsStep

\* Concurrent writers of one note never lose an update: its revisions are 1, 2, ...
\* with one author each, who had seen the one before; a key has one result.
THEOREM SerialUpdates == NotesSpec => []UpdatesAreSerial
<1>1. NotesInit => SerialInv
  <2> SUFFICES ASSUME NotesInit PROVE SerialInv
    OBVIOUS
  <2>1. ledger = {} /\ results = {} /\ \A n \in Notes : notes[n].revision = 0
    BY DEF NotesInit
  <2>2. \A n \in Notes : Past(n) = {}
    BY <2>1 DEF Past
  <2>3. 1..0 = {} /\ {x.revision : x \in {}} = {}
    OBVIOUS
  <2>4. \A n \in Notes : NoteIsSerial(n)
    BY <2>1, <2>2, <2>3, FS_EmptySet DEF NoteIsSerial
  <2> QED BY <2>1, <2>4 DEF SerialInv, UpdatesAreSerial, NoteIsSerial, Past
<1>2. NotesIInv /\ SerialInv /\ [NotesNext]_nvars => SerialInv'
  BY SerialStep DEF NotesIInv, NotesInv
<1>3. SerialInv => UpdatesAreSerial
  BY DEF SerialInv
<1> QED BY <1>1, <1>2, <1>3, NotesInvariant, PTL DEF NotesSpec
===========================================================================
