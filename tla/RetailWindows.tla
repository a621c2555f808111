--------------------------- MODULE RetailWindows ---------------------------
(***************************************************************************)
(* retail_window_tick.py for one market window: a tick, under a project-    *)
(* wide lock, closes what dead ticks left, then runs one child process per  *)
(* source (guba posts, xinghan pages, score), maps the rows they stored     *)
(* into the window and derives the window's status from what it finds.      *)
(* The kline fetch that comes last does not touch the window: whether it    *)
(* succeeded only decides whether a complete window is gone through again.  *)
(* The 21:00 retention job seals windows and purges their rows under the    *)
(* same lock.                                                               *)
(*                                                                         *)
(* The lock dies with its process, the child does not: a child whose tick   *)
(* was killed is an orphan that goes on paging and committing next to       *)
(* whatever the next tick starts.                                           *)
(*                                                                         *)
(* A xinghan request is one subject over one segment of the window; its     *)
(* pages and the checkpoint after them are committed together.  A guba      *)
(* crawl stores one post, or renews its heat, or finds none; the scorer     *)
(* labels it, and facts are made of label and heat.  The --force option, a  *)
(* publish-time continuation for windows older than the checkpoints, the    *)
(* snapshot time a checkpoint carries, and the sample that spares some posts *)
(* a label are left out.                                                    *)
(***************************************************************************)
EXTENDS Naturals, FiniteSets

CONSTANTS
    Ticks,        \* processes that run the tick
    Orphans,      \* places for children that outlive their tick
    NumRequests,  \* xinghan requests of the window
    LastPage,     \* the terminal page of each
    MaxCrashes,   \* bound on the ticks that are killed
    Weights,      \* what a labelled post adds to the facts: its heat, under its label
    FirstWeight,  \* how the first is called; they are only compared with each other
    None

ASSUME RetailAssumption ==
    /\ Ticks \cap Orphans = {} /\ None \notin Ticks
    /\ None \notin Weights /\ FirstWeight \in Weights
    /\ NumRequests \in Nat \ {0} /\ LastPage \in Nat /\ MaxCrashes \in Nat

Requests == 1 .. NumRequests
Pages == Requests \X (0 .. LastPage)
Guba == <<0, 0>>
Rows == Pages \cup {Guba}
Sources == {"guba", "xinghan", "score"}   \* SENTIMENT_REQUIRED_SOURCES
FetchSuccess == {"complete", "empty"}
Kids == Ticks \cup Orphans

VARIABLES
    lock,       \* the holder of the tick lock
    pc,         \* of a tick: where it is
    kid,        \* the child of a tick, or an orphan
    crashes,
    status,     \* retail_window_ledger.status
    retention,  \* retail_window_ledger.retention_state
    src,        \* retail_window_source_run.status
    recheck,    \* successful guba runs without a row, on record
    seg, cp,    \* yuqing_fetch_segment_run, yuqing_fetch_checkpoint.next_offset
    fresh,      \* either table has a row written in the last ten minutes
    stored,     \* rows of senti_raw and yuqing_feed_raw
    mapped,     \* rows of senti_raw_window
    weight,     \* of the post, None while it has no attitude
    facts       \* senti_retail_window: the rows and the weight it was made from

tick == <<lock, pc, crashes>>
ledger == <<status, retention>>
paging == <<seg, cp, fresh>>
data == <<stored, mapped, weight, facts>>
rwvars == <<tick, kid, ledger, src, recheck, paging, data>>

NoKid == [source |-> None, at |-> None, request |-> 0, offset |-> 0, clean |-> TRUE]
NewKid(s) == [source |-> s, at |-> "start", request |-> 1, offset |-> 0, clean |-> TRUE]

ASSUME NoKidAssumption ==
    None \notin Sources \cup {"start", "checkpoint", "page", "chosen", "ended", "mapped"}

\* Some windows have a guba run from before empty runs were counted.
RetailInit ==
    /\ lock = None /\ pc = [t \in Ticks |-> "out"]
    /\ kid = [k \in Kids |-> NoKid] /\ crashes = 0
    /\ retention = "live" /\ recheck = 0
    /\ \E before \in {"absent", "empty"} :
         /\ src = [s \in Sources |-> IF s = "guba" THEN before ELSE "absent"]
         /\ status = IF before = "absent" THEN "pending" ELSE "partial"
    /\ seg = [r \in Requests |-> "absent"] /\ cp = [r \in Requests |-> None]
    /\ fresh = FALSE
    /\ stored = {} /\ mapped = {} /\ weight = None
    /\ facts = [raw |-> {}, weight |-> None]

----------------------------------------------------------------------------
(* What the tables say *)

AllComplete == \A r \in Requests : seg[r] = "complete"

\* _xinghan_segment_requests_complete: a window without any audit row counts.
RequestsComplete ==
    \/ \A r \in Requests : seg[r] = "absent" /\ cp[r] = None
    \/ AllComplete

FreshOrphan == src["xinghan"] = "running" /\ ~RequestsComplete /\ fresh

HasRows(s) ==
    \/ s = "guba" /\ Guba \in mapped
    \/ s = "xinghan" /\ stored \cap Pages # {}

Unscored == Guba \in mapped /\ weight = None

\* Faulty variant of Satisfied: one successful run is enough.
SatisfiedByStatus(s) ==
    CASE s = "xinghan" -> src[s] \in FetchSuccess /\ RequestsComplete
      [] s = "score"   -> src[s] = "complete" /\ ~Unscored
      [] OTHER         -> src[s] \in FetchSuccess

Satisfied(s) ==
    CASE s = "guba"    -> src[s] \in FetchSuccess /\ (HasRows(s) \/ recheck = 2)
      [] s = "xinghan" -> src[s] \in FetchSuccess /\ RequestsComplete
      [] s = "score"   -> src[s] = "complete" /\ ~Unscored

NeedsEmptyRecheck ==
    /\ recheck < 2
    /\ src["guba"] = "empty" \/ (status = "complete" /\ facts.raw = {})

\* aggregate_window
Aggregate == [raw |-> mapped, weight |-> IF Guba \in mapped THEN weight ELSE None]

ActiveWork ==
    \/ \E r \in Requests : cp[r] # None \/ seg[r] = "running"
    \/ \E s \in Sources : src[s] = "running"

----------------------------------------------------------------------------
(* The tick *)

Go(t, place) == pc' = [pc EXCEPT ![t] = place]
Leave(t) == Go(t, "out") /\ lock' = None

Acquire(t) ==
    /\ pc[t] = "out" /\ lock = None
    /\ lock' = t /\ Go(t, "orphans")
    /\ UNCHANGED <<kid, crashes, ledger, src, recheck, paging, data>>

\* wait_for_fresh_orphaned_xinghan gives up: exit code 75.
GiveUp(t) ==
    /\ pc[t] = "orphans" /\ FreshOrphan
    /\ Leave(t)
    /\ UNCHANGED <<kid, crashes, ledger, src, recheck, paging, data>>

\* Faulty variant of Recover: a window with a checkpoint is left alone.
RecoverIdle(t) ==
    /\ pc[t] = "orphans" /\ ~FreshOrphan
    /\ Go(t, "window")
    /\ IF status = "running" /\ \A r \in Requests : cp[r] = None
       THEN /\ src' = [s \in Sources |-> IF src[s] = "running" THEN "failed" ELSE src[s]]
            /\ status' = IF mapped # {} THEN "partial" ELSE "failed"
            /\ facts' = Aggregate
       ELSE UNCHANGED <<src, status, facts>>
    /\ UNCHANGED <<lock, kid, crashes, retention, recheck, paging, stored, mapped, weight>>

\* recover_stale_windows, once no orphan is seen.
Recover(t) ==
    /\ pc[t] = "orphans" /\ ~FreshOrphan
    /\ Go(t, "window")
    /\ IF status = "running"
       THEN /\ src' = [s \in Sources |-> IF src[s] = "running" THEN "failed" ELSE src[s]]
            /\ seg' = [r \in Requests |-> IF seg[r] = "running" THEN "partial" ELSE seg[r]]
            /\ fresh' = (fresh \/ \E r \in Requests : seg[r] = "running")
            /\ status' = IF mapped # {} THEN "partial" ELSE "failed"
            /\ facts' = Aggregate
       ELSE UNCHANGED <<src, seg, fresh, status, facts>>
    /\ UNCHANGED <<lock, kid, crashes, retention, recheck, cp, stored, mapped, weight>>

\* The window is not the tick's, or execute_window has nothing to do.
Skip(t) ==
    /\ pc[t] = "window"
    /\ Leave(t)
    /\ UNCHANGED <<kid, crashes, ledger, src, recheck, paging, data>>

\* Faulty variant of Begin: whether the window is sealed is not asked.
BeginSealed(t, kline) ==
    /\ pc[t] = "window"
    /\ ~ /\ status = "complete" /\ ~NeedsEmptyRecheck
         /\ kline /\ \A s \in Sources : Satisfied(s)
    /\ status' = "running" /\ Go(t, "guba")
    /\ UNCHANGED <<lock, kid, crashes, retention, src, recheck, paging, data>>

\* kline: its last fetch succeeded.
Begin(t, kline) ==
    /\ pc[t] = "window"
    /\ retention = "live"
    /\ ~ /\ status = "complete" /\ ~NeedsEmptyRecheck
         /\ kline /\ \A s \in Sources : Satisfied(s)
    /\ status' = "running" /\ Go(t, "guba")
    /\ UNCHANGED <<lock, kid, crashes, retention, src, recheck, paging, data>>

After(s) ==
    CASE s = "guba" -> "xinghan" [] s = "xinghan" -> "score" [] s = "score" -> "reconcile"

SkipSource(t) ==
    /\ pc[t] \in Sources /\ kid[t] = NoKid /\ Satisfied(pc[t])
    /\ Go(t, After(pc[t]))
    /\ UNCHANGED <<lock, kid, crashes, ledger, src, recheck, paging, data>>

\* A successful run without a row and without a count is counted now, before
\* its status is overwritten.
StartSource(t) ==
    /\ pc[t] \in Sources /\ kid[t] = NoKid /\ ~Satisfied(pc[t])
    /\ src' = [src EXCEPT ![pc[t]] = "running"]
    /\ recheck' = IF pc[t] = "guba" /\ src["guba"] \in FetchSuccess
                        /\ ~HasRows("guba") /\ recheck = 0
                  THEN 1 ELSE recheck
    /\ kid' = [kid EXCEPT ![t] = NewKid(pc[t])]
    /\ UNCHANGED <<tick, ledger, paging, data>>

\* map_retail_raw_rows, after each of the two crawlers.
MapRows(t) ==
    /\ kid[t].at = "ended" /\ kid[t].source \in {"guba", "xinghan"}
    /\ mapped' = mapped \cup stored
    /\ kid' = [kid EXCEPT ![t].at = "mapped"]
    /\ UNCHANGED <<tick, ledger, src, recheck, paging, stored, weight, facts>>

Outcome(s, clean) ==
    IF ~clean THEN "failed"
    ELSE IF s \in {"guba", "xinghan"} /\ ~HasRows(s) THEN "empty" ELSE "complete"

CountEmpty(s, outcome) ==
    IF s = "guba" /\ outcome = "empty" THEN (IF recheck = 0 THEN 1 ELSE 2)
    ELSE IF s = "guba" /\ outcome = "complete" THEN 0 ELSE recheck

Reap(t) ==
    LET s == kid[t].source IN
    /\ kid[t].at = (IF s \in {"guba", "xinghan"} THEN "mapped" ELSE "ended")
    /\ src' = [src EXCEPT ![s] = Outcome(s, kid[t].clean)]
    /\ recheck' = CountEmpty(s, Outcome(s, kid[t].clean))
    /\ kid' = [kid EXCEPT ![t] = NoKid]
    /\ Go(t, After(s))
    /\ UNCHANGED <<lock, crashes, ledger, paging, data>>

\* reconcile_window: status first, then the facts.
Reconcile(t) ==
    /\ pc[t] = "reconcile"
    /\ src' = [src EXCEPT !["score"] = IF @ = "complete" /\ Unscored THEN "partial" ELSE @]
    /\ status' = IF \A s \in Sources : Satisfied(s) THEN "complete"
                 ELSE IF mapped # {} \/ \E s \in Sources : src'[s] \in FetchSuccess
                      THEN "partial" ELSE "failed"
    /\ facts' = Aggregate
    /\ Leave(t)
    /\ UNCHANGED <<kid, crashes, retention, recheck, paging, stored, mapped, weight>>

\* The transaction fails and is rolled back; only the status is written.
ReconcileFails(t) ==
    /\ pc[t] = "reconcile"
    /\ status' = "failed"
    /\ Leave(t)
    /\ UNCHANGED <<kid, crashes, retention, src, recheck, paging, data>>

\* The tick is killed, with or without its child; nobody asks how an
\* orphan ends.
Crash(t) ==
    /\ pc[t] # "out" /\ crashes < MaxCrashes
    /\ crashes' = crashes + 1
    /\ Leave(t)
    /\ \/ kid' = [kid EXCEPT ![t] = NoKid]
       \/ \E o \in Orphans :
            /\ kid[t].at \notin {None, "ended", "mapped"} /\ kid[o] = NoKid
            /\ kid' = [kid EXCEPT ![o] = [kid[t] EXCEPT !.clean = TRUE], ![t] = NoKid]
    /\ UNCHANGED <<ledger, src, recheck, paging, data>>

----------------------------------------------------------------------------
(* The children *)

\* An exit: run_child has the code, nobody has an orphan's.
End(k, clean) ==
    kid' = [kid EXCEPT ![k] = IF k \in Orphans THEN NoKid
                              ELSE [NewKid(@.source) EXCEPT !.at = "ended",
                                                            !.clean = clean]]

Working(k, s) == kid[k].source = s /\ kid[k].at \notin {"ended", "mapped"}

\* write_raw: the post is inserted, or its heat is renewed if it is there; a post
\* that is not there to be read yet is not found.
CrawlGuba(k) ==
    /\ Working(k, "guba")
    /\ \/ /\ stored' = stored \cup {Guba}
          /\ weight' \in IF weight = None THEN {None} ELSE Weights
       \/ UNCHANGED <<stored, weight>>
    /\ \E clean \in BOOLEAN : End(k, clean)
    /\ UNCHANGED <<tick, ledger, src, recheck, paging, mapped, facts>>

\* fair_score_candidate_ids, read once.
ChooseRows(k) ==
    /\ Working(k, "score") /\ kid[k].at = "start"
    /\ Unscored
    /\ kid' = [kid EXCEPT ![k].at = "chosen"]
    /\ UNCHANGED <<tick, ledger, src, recheck, paging, data>>

\* UPDATE by id: a label another scorer has set since is overwritten, and a row that
\* was purged since is none.
Labels ==
    IF Guba \notin mapped THEN {weight}
    ELSE IF weight = None THEN {FirstWeight} ELSE Weights

\* --require-complete: a nonzero code while something is unscored.
Score(k) ==
    /\ Working(k, "score")
    /\ \/ kid[k].at = "chosen" /\ weight' \in Labels
       \/ UNCHANGED weight
    /\ UNCHANGED <<tick, ledger, src, recheck, paging, stored, mapped, facts>>
    /\ \E clean \in {FALSE, ~Unscored'} : End(k, clean)

Crawling(k, place) == kid[k].source = "xinghan" /\ kid[k].at = place

NextRequest(k, clean) ==
    kid' = [kid EXCEPT ![k] = [NewKid("xinghan") EXCEPT
                                 !.request = kid[k].request + 1,
                                 !.clean = k \in Orphans \/ (kid[k].clean /\ clean)]]

Look(k) ==
    LET r == kid[k].request IN
    /\ Crawling(k, "start")
    /\ IF r \notin Requests THEN End(k, kid[k].clean /\ AllComplete)
       ELSE IF seg[r] = "complete" THEN NextRequest(k, TRUE)
       ELSE kid' = [kid EXCEPT ![k].at = "checkpoint"]
    /\ UNCHANGED <<tick, ledger, src, recheck, paging, data>>

\* _start_or_resume_checkpoint, committed before the first call.
OpenCheckpoint(k) ==
    LET r == kid[k].request
        from == IF cp[r] = None THEN 0 ELSE cp[r] IN
    /\ Crawling(k, "checkpoint")
    /\ cp' = [cp EXCEPT ![r] = from]
    /\ seg' = [seg EXCEPT ![r] = "running"]
    /\ fresh' = TRUE
    /\ kid' = [kid EXCEPT ![k] = [@ EXCEPT !.at = "page", !.offset = from]]
    /\ UNCHANGED <<tick, ledger, src, recheck, data>>

\* Faulty variant of CommitPage: the offset on record is counted up.
CommitPageCounting(k) ==
    LET r == kid[k].request
        o == kid[k].offset IN
    /\ Crawling(k, "page") /\ cp[r] # None
    /\ stored' = stored \cup {<<r, o>>}
    /\ fresh' = TRUE
    /\ IF o = LastPage
       THEN /\ seg' = [seg EXCEPT ![r] = "complete"]
            /\ cp' = [cp EXCEPT ![r] = None]
            /\ NextRequest(k, TRUE)
       ELSE /\ seg' = [seg EXCEPT ![r] = "running"]
            /\ cp' = [cp EXCEPT ![r] = IF @ = LastPage THEN @ ELSE @ + 1]
            /\ kid' = [kid EXCEPT ![k].offset = o + 1]
    /\ UNCHANGED <<tick, ledger, src, recheck, mapped, weight, facts>>

\* A page, its records and the offset after it, or the end of the segment.
CommitPage(k) ==
    LET r == kid[k].request
        o == kid[k].offset IN
    /\ Crawling(k, "page") /\ cp[r] # None
    /\ stored' = stored \cup {<<r, o>>}
    /\ fresh' = TRUE
    /\ IF o = LastPage
       THEN /\ seg' = [seg EXCEPT ![r] = "complete"]
            /\ cp' = [cp EXCEPT ![r] = None]
            /\ NextRequest(k, TRUE)
       ELSE /\ seg' = [seg EXCEPT ![r] = "running"]
            /\ cp' = [cp EXCEPT ![r] = o + 1]
            /\ kid' = [kid EXCEPT ![k].offset = o + 1]
    /\ UNCHANGED <<tick, ledger, src, recheck, mapped, weight, facts>>

\* Another crawler has finished the segment: the page is rolled back and the
\* process ends with an exception.
CheckpointGone(k) ==
    /\ Crawling(k, "page") /\ cp[kid[k].request] = None
    /\ End(k, FALSE)
    /\ UNCHANGED <<tick, ledger, src, recheck, paging, data>>

\* _interrupt_segment: the supplier stops answering.
Interrupt(k) ==
    LET r == kid[k].request IN
    /\ Crawling(k, "page")
    /\ seg' = [seg EXCEPT ![r] = IF cp[r] \notin {None, 0} THEN "partial" ELSE "failed"]
    /\ fresh' = TRUE
    /\ NextRequest(k, FALSE)
    /\ UNCHANGED <<tick, ledger, src, recheck, cp, data>>

\* run_child kills a child at its timeout; an orphan may die of anything.
Kill(k) ==
    /\ kid[k].at \notin {None, "ended", "mapped"}
    /\ End(k, FALSE)
    /\ UNCHANGED <<tick, ledger, src, recheck, paging, data>>

KidStep(k) ==
    \/ CrawlGuba(k) \/ ChooseRows(k) \/ Score(k)
    \/ Look(k) \/ OpenCheckpoint(k) \/ CommitPage(k) \/ CheckpointGone(k)
    \/ Interrupt(k)

----------------------------------------------------------------------------
(* Retention, and time *)

SealableComplete ==
    /\ status = "complete" /\ retention \in {"live", "sealed_complete"}
    /\ ~ActiveWork /\ (mapped # {} \/ facts.raw = {})

\* _terminal_checkpoint_evidence: every source and segment has ended.
SealableIncomplete ==
    /\ status \in {"partial", "failed"} /\ retention = "live"
    /\ \A s \in Sources : src[s] # "running"
    /\ \E s \in Sources : src[s] # "absent"
    /\ \A r \in Requests : seg[r] # "running" /\ (cp[r] # None => seg[r] # "absent")
    /\ mapped # {} \/ facts.raw = {}

\* apply_retention, one transaction under the tick lock: seal, then purge what
\* is sealed and past its grace.  Whether unfinished windows are included, and
\* old enough, and whether the grace is over, is open.
Retain(incomplete, expired) ==
    LET retire == incomplete /\ SealableIncomplete
        seal   == SealableComplete \/ retire
        sealed == IF SealableComplete THEN "sealed_complete"
                  ELSE IF retire THEN "sealed_incomplete" ELSE retention
        purge  == expired /\ (retire \/ ~ActiveWork)
                  /\ \/ sealed = "sealed_complete"
                     \/ sealed = "sealed_incomplete" /\ incomplete IN
    /\ lock = None
    /\ cp' = IF retire THEN [r \in Requests |-> None] ELSE cp
    /\ facts' = IF seal THEN Aggregate ELSE facts
    /\ retention' = IF ~purge THEN sealed
                    ELSE IF sealed = "sealed_complete" THEN "purged" ELSE "purged_incomplete"
    /\ stored' = IF purge THEN stored \ (Pages \cup mapped) ELSE stored
    /\ weight' = IF Guba \in stored' THEN weight ELSE None
    /\ mapped' = IF purge THEN {} ELSE mapped
    /\ UNCHANGED <<tick, kid, status, src, recheck, seg, fresh>>

\* Ten minutes pass without a write to the paging tables.
GoStale ==
    /\ fresh /\ fresh' = FALSE
    /\ UNCHANGED <<tick, kid, ledger, src, recheck, seg, cp, data>>

TickStep(t) ==
    \/ Acquire(t) \/ Recover(t) \/ Skip(t) \/ (\E kline \in BOOLEAN : Begin(t, kline))
    \/ SkipSource(t) \/ StartSource(t) \/ MapRows(t) \/ Reap(t)
    \/ Reconcile(t) \/ ReconcileFails(t)

RetailNext ==
    \/ \E t \in Ticks : TickStep(t) \/ GiveUp(t) \/ Crash(t)
    \/ \E k \in Kids : KidStep(k) \/ Kill(k)
    \/ \E incomplete, expired \in BOOLEAN : Retain(incomplete, expired)
    \/ GoStale

RetailSpec == RetailInit /\ [][RetailNext]_rwvars

\* Task Scheduler starts ticks every session, processes run, and a heartbeat
\* nobody renews grows old.
RetailFairSpec ==
    /\ RetailSpec
    /\ \A t \in Ticks : WF_rwvars(TickStep(t))
    /\ \A k \in Kids : WF_rwvars(KidStep(k))
    /\ WF_rwvars(GoStale)

----------------------------------------------------------------------------
(* Properties *)

RetailTypeOK ==
    /\ lock \in Ticks \cup {None} /\ crashes \in 0 .. MaxCrashes
    /\ pc \in [Ticks -> {"out", "orphans", "window", "reconcile"} \cup Sources]
    /\ kid \in [Kids -> [source : Sources \cup {None}, offset : 0 .. LastPage,
                         at : {None, "start", "checkpoint", "page", "chosen", "ended", "mapped"},
                         request : 0 .. NumRequests + 1, clean : BOOLEAN]]
    /\ status \in {"pending", "running", "partial", "complete", "failed"}
    /\ retention \in {"live", "sealed_complete", "sealed_incomplete",
                      "purged", "purged_incomplete"}
    /\ src \in [Sources -> {"absent", "running", "partial", "complete", "empty", "failed"}]
    /\ recheck \in 0 .. 2
    /\ seg \in [Requests -> {"absent", "running", "partial", "failed", "complete"}]
    /\ cp \in [Requests -> (0 .. LastPage) \cup {None}] /\ fresh \in BOOLEAN
    /\ mapped \subseteq stored /\ stored \subseteq Rows /\ weight \in Weights \cup {None}
    /\ facts \in [raw : SUBSET Rows, weight : Weights \cup {None}]

\* What the facts count: the rows, and the labels.
Counts(f) == [raw |-> f.raw, scored |-> f.weight # None]

\* "The window ledger is complete only when guba, xinghan and the fair scoring
\* have succeeded" (AUTOMATION_SETUP.md), and it is still true later, while an
\* orphan writes on: every page is there, the posts are there or two runs found
\* none, no post lacks its label, and the facts count the mapped rows and labels.
\* What the labels and the heat are may change under them.
CompleteIsComplete ==
    status = "complete" /\ retention \in {"live", "sealed_complete"} =>
      /\ Pages \subseteq stored
      /\ Guba \in mapped \/ recheck = 2
      /\ ~Unscored
      /\ Counts(facts) = Counts(Aggregate)

RetailInv == RetailTypeOK /\ CompleteIsComplete

\* Two crawlers may share a checkpoint, and each writes its own offset over the
\* other's; still no page before the recorded offset is missing, and none of a
\* complete segment, as long as the rows are kept.
PagesHaveNoGap ==
    retention \notin {"purged", "purged_incomplete"} =>
      \A r \in Requests, o \in 0 .. LastPage :
        (seg[r] = "complete" \/ (cp[r] # None /\ o < cp[r])) => <<r, o>> \in stored

\* Facts outlive their raw rows.  Once sealed, a window is never live again, its
\* status is final, and its facts count the same rows and labels for ever, whatever
\* orphans and ticks do; what they weigh changes only while a complete window keeps
\* its rows, and when those are purged, the facts are those of the rows that go.
SealedStaysSealed ==
    [][retention # "live" =>
         /\ retention' \in {retention, "purged", "purged_incomplete"}
         /\ status' = status
         /\ Counts(facts') = Counts(facts)
         /\ IF retention = "sealed_complete" THEN facts' \in {facts, Aggregate}
            ELSE facts' = facts
         /\ retention = "sealed_complete" /\ retention' # retention =>
              retention' = "purged" /\ facts' = Aggregate]_rwvars

\* A killed tick does not leave its window "running" for ever.
RunningEnds == status = "running" ~> status # "running"
=============================================================================
