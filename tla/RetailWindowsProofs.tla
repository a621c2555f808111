------------------------ MODULE RetailWindowsProofs ------------------------
(***************************************************************************)
(* Proofs about RetailWindows, for any number of ticks, orphans, requests,  *)
(* pages and killed ticks.                                                  *)
(***************************************************************************)
EXTENDS RetailWindows, TLAPS

Kept == retention \notin {"purged", "purged_incomplete"}

\* Who holds the lock is the tick that runs; while one is past the choice of the
\* window, the window is live and running, and so nothing seals it.
TickInv ==
    /\ \A t \in Ticks : pc[t] # "out" <=> lock = t
    /\ \A t \in Ticks : pc[t] \in Sources \cup {"reconcile"} =>
         retention = "live" /\ status = "running"
    /\ \A t \in Ticks : kid[t] # NoKid => pc[t] \in Sources /\ kid[t].source = pc[t]
    /\ retention # "live" => status # "running"
    /\ retention = "sealed_complete" => status = "complete"

\* A child `n` at the place `k`, while `rows` are stored: a crawler is at a request,
\* and has the pages before its offset behind it; one that ended cleanly, and is
\* waited for, left no page out.
Fits(k, n, rows) ==
    /\ n.at = "start" => n.request # 0
    /\ n.at \in {"checkpoint", "page"} => n.request \in Requests
    /\ n.at = "page" /\ Kept =>
         \A o \in 0 .. LastPage : o < n.offset => <<n.request, o>> \in rows
    /\ k \notin Orphans /\ n.at \in {"ended", "mapped"} /\ n.source = "xinghan" /\ n.clean =>
         Pages \subseteq rows

KidInv == \A k \in Kids : Fits(k, kid[k], stored)

\* A success of xinghan on record left no page out.
SuccessInv == Kept /\ src["xinghan"] \in FetchSuccess => Pages \subseteq stored

RetailIInv ==
    RetailTypeOK /\ TickInv /\ KidInv /\ SuccessInv /\ PagesHaveNoGap /\ CompleteIsComplete

---------------------------------------------------------------------------
(* What a child does *)

Kid == [source : Sources \cup {None}, offset : 0 .. LastPage,
        at : {None, "start", "checkpoint", "page", "chosen", "ended", "mapped"},
        request : 0 .. NumRequests + 1, clean : BOOLEAN]

LEMMA KidTyped ==
    /\ NoKid \in Kid
    /\ \A s \in Sources \cup {None} : NewKid(s) \in Kid /\ NewKid(s).source = s
    /\ \A s \in Sources : NewKid(s) # NoKid
    /\ \A k \in Kid : k.source # None \/ k.at # None => k # NoKid
<1> USE RetailAssumption, NoKidAssumption
<1>1. NoKid \in Kid
  BY DEF NoKid, Kid
<1>2. \A s \in Sources \cup {None} : NewKid(s) \in Kid /\ NewKid(s).source = s
  BY DEF NewKid, Kid
<1>3. NoKid.source = None /\ NoKid.at = None
  BY DEF NoKid
<1> QED BY <1>1, <1>2, <1>3

\* `k` is the only child that moves, as the child `n`.
Becomes(k, n) ==
    /\ kid' = [kid EXCEPT ![k] = n] /\ n \in Kid
    /\ kid'[k] = n /\ \A j \in Kids \ {k} : kid'[j] = kid[j]

LEMMA Ended ==
    ASSUME RetailTypeOK, NEW k \in Kids, NEW clean \in BOOLEAN, End(k, clean)
    PROVE  \E n : /\ Becomes(k, n)
                  /\ \/ n = NoKid
                     \/ /\ k \notin Orphans /\ n.source = kid[k].source
                        /\ n.at = "ended" /\ n.clean = clean
<1> DEFINE new == NewKid(kid[k].source)
           e == [new EXCEPT !.at = "ended", !.clean = clean]
<1>1. kid \in [Kids -> Kid] /\ kid[k] \in Kid
  BY DEF RetailTypeOK, Kid
<1>5. kid[k].source \in Sources \cup {None}
  BY <1>1 DEF Kid
<1>6. new \in Kid /\ new.source = kid[k].source
  BY <1>5, KidTyped
<1>2. e \in Kid /\ e.source = kid[k].source /\ e.at = "ended" /\ e.clean = clean
  <2> HIDE DEF new
  <2> QED BY <1>6 DEF Kid
<1> HIDE DEF e
<1>3. CASE k \in Orphans
  <2>1. kid' = [kid EXCEPT ![k] = NoKid]
    BY <1>3 DEF End
  <2>2. Becomes(k, NoKid)
    BY <1>1, <2>1, KidTyped DEF Becomes
  <2> QED BY <2>2
<1>4. CASE k \notin Orphans
  <2>1. kid' = [kid EXCEPT ![k] = e]
    BY <1>1, <1>4, Zenon DEF End, e
  <2>2. Becomes(k, e)
    BY <1>1, <1>2, <2>1 DEF Becomes
  <2> QED BY <1>2, <1>4, <2>2
<1> QED BY <1>3, <1>4

LEMMA Advanced ==
    ASSUME RetailTypeOK, NEW k \in Kids, NEW clean \in BOOLEAN, kid[k].request \in Requests,
           kid[k].source = "xinghan", NextRequest(k, clean)
    PROVE  \E n : /\ Becomes(k, n)
                  /\ n.source = kid[k].source /\ n.at = "start" /\ n.request # 0
<1> DEFINE new == NewKid("xinghan")
           e == [new EXCEPT !.request = kid[k].request + 1,
                            !.clean = k \in Orphans \/ (kid[k].clean /\ clean)]
<1>1. kid \in [Kids -> Kid] /\ kid[k] \in Kid
  BY DEF RetailTypeOK, Kid
<1>2. (k \in Orphans \/ (kid[k].clean /\ clean)) \in BOOLEAN
  BY <1>1 DEF Kid
<1>3. kid[k].request + 1 \in 1 .. NumRequests + 1
  BY RetailAssumption DEF Requests
<1>4. e \in Kid /\ e.source = kid[k].source /\ e.at = "start" /\ e.request # 0
  <2> DEFINE c == k \in Orphans \/ (kid[k].clean /\ clean)
  <2>1. e = [new EXCEPT !.request = kid[k].request + 1, !.clean = c]
    OBVIOUS
  <2>6. new \in Kid /\ new.source = kid[k].source /\ new.at = "start"
    BY KidTyped DEF NewKid, Sources
  <2>2. c \in BOOLEAN
    BY <1>2
  <2> HIDE DEF c, e, new
  <2>3. kid[k].request + 1 \in 0 .. NumRequests + 1 /\ kid[k].request + 1 # 0
    BY <1>3, RetailAssumption
  <2>4. e \in Kid
    BY <2>1, <2>2, <2>3, <2>6 DEF Kid
  <2>5. /\ e.source = kid[k].source /\ e.at = "start"
        /\ e.request = kid[k].request + 1
    BY <2>1, <2>6 DEF Kid
  <2> QED BY <2>3, <2>4, <2>5
<1>5. kid' = [kid EXCEPT ![k] = e]
  BY Zenon DEF NextRequest
<1> HIDE DEF e
<1>6. Becomes(k, e)
  BY <1>1, <1>4, <1>5 DEF Becomes
<1> QED BY <1>4, <1>6

LEMMA Complete ==
    ASSUME PagesHaveNoGap, Kept, AllComplete
    PROVE  Pages \subseteq stored
  BY DEF PagesHaveNoGap, Kept, AllComplete, Pages

\* A child moves alone, for itself, and only adds to what is stored.
LEMMA KidMoves ==
    ASSUME RetailTypeOK, TickInv, KidInv, PagesHaveNoGap,
           NEW k \in Kids, KidStep(k) \/ Kill(k)
    PROVE  /\ UNCHANGED <<tick, ledger, src, recheck, mapped, facts>>
           /\ stored \subseteq stored' /\ stored' \subseteq Rows
           /\ kid[k] # NoKid
           /\ \/ kid' = kid
              \/ \E n : /\ Becomes(k, n) /\ Fits(k, n, stored')
                        /\ n = NoKid \/ n.source = kid[k].source
<1> USE RetailAssumption
<1>1. kid \in [Kids -> Kid] /\ kid[k] \in Kid
  BY DEF RetailTypeOK, Kid
<1>2. kid[k] # NoKid
  BY <1>1, KidTyped, NoKidAssumption
  DEF KidStep, CrawlGuba, ChooseRows, Score, Working, Look, OpenCheckpoint, CommitPage,
      CheckpointGone, Interrupt, Crawling, Kill, Sources
<1>3. stored \subseteq stored' /\ stored' \subseteq Rows
  <2>1. CASE CommitPage(k)
    <3>1. kid[k].request \in Requests /\ kid[k].offset \in 0 .. LastPage
      BY <1>1, <2>1 DEF CommitPage, Crawling, KidInv, Fits, Kid
    <3>2. <<kid[k].request, kid[k].offset>> \in Rows
      BY <3>1 DEF Rows, Pages
    <3> QED BY <2>1, <3>2 DEF CommitPage, RetailTypeOK
  <2> QED BY <2>1 DEF KidStep, CrawlGuba, ChooseRows, Score, Look, OpenCheckpoint, CheckpointGone,
       Interrupt, Kill, RetailTypeOK, Rows, data
<1>4. UNCHANGED <<tick, ledger, src, recheck, mapped, facts>>
  BY DEF KidStep, CrawlGuba, ChooseRows, Score, Look, OpenCheckpoint, CommitPage,
     CheckpointGone, Interrupt, Kill, data
<1>5. NoKid.at = None /\ Fits(k, NoKid, stored')
  BY NoKidAssumption DEF NoKid, Fits
<1>6. ASSUME NEW clean \in BOOLEAN, End(k, clean),
             kid[k].source = "xinghan" /\ clean => Pages \subseteq stored
      PROVE  \E n : Becomes(k, n) /\ Fits(k, n, stored') /\ (n = NoKid \/ n.source = kid[k].source)
  <2>1. PICK n : /\ Becomes(k, n)
                 /\ \/ n = NoKid
                    \/ /\ k \notin Orphans /\ n.source = kid[k].source
                       /\ n.at = "ended" /\ n.clean = clean
    BY <1>6, Ended
  <2>2. n # NoKid => Fits(k, n, stored')
    BY <1>3, <1>6, <2>1 DEF Fits
  <2> QED BY <1>5, <2>1, <2>2
<1>7. ASSUME NEW clean \in BOOLEAN, kid[k].request \in Requests, kid[k].source = "xinghan",
             NextRequest(k, clean)
      PROVE  \E n : Becomes(k, n) /\ Fits(k, n, stored') /\ (n = NoKid \/ n.source = kid[k].source)
  <2>1. PICK n : /\ Becomes(k, n)
                 /\ n.source = kid[k].source /\ n.at = "start" /\ n.request # 0
    BY <1>7, Advanced
  <2>2. Fits(k, n, stored')
    BY <2>1 DEF Fits
  <2> QED BY <2>1, <2>2
<1>14. CASE ChooseRows(k)
  <2> DEFINE n == [kid[k] EXCEPT !.at = "chosen"]
  <2>1. n \in Kid /\ n.at = "chosen" /\ n.source = kid[k].source
    BY <1>1 DEF Kid
  <2>2. kid' = [kid EXCEPT ![k] = n]
    BY <1>14 DEF ChooseRows
  <2> HIDE DEF n
  <2>3. Becomes(k, n) /\ Fits(k, n, stored')
    BY <1>1, <2>1, <2>2 DEF Becomes, Fits
  <2> QED BY <1>2, <1>3, <1>4, <2>1, <2>3
<1>8. CASE CrawlGuba(k) \/ Score(k)
  <2>1. kid[k].source # "xinghan"
    BY <1>8 DEF CrawlGuba, Score, Working
  <2>2. \E clean \in BOOLEAN : End(k, clean)
    BY <1>8 DEF CrawlGuba, Score
  <2> QED BY <1>2, <1>3, <1>4, <1>6, <2>1, <2>2
<1>9. CASE Look(k)
  <2> DEFINE r == kid[k].request
  <2>1. kid[k].source = "xinghan" /\ kid[k].at = "start"
    BY <1>9 DEF Look, Crawling
  <2>2. CASE r \notin Requests
    <3>1. End(k, kid[k].clean /\ AllComplete)
      BY <1>9, <2>2 DEF Look
    <3>2. (kid[k].clean /\ AllComplete) \in BOOLEAN
      BY <1>1 DEF Kid, AllComplete
    <3>3. CASE k \in Ticks
      <4>1. retention = "live"
        BY <1>2, <3>3 DEF TickInv
      <4>2. AllComplete => Pages \subseteq stored
        BY <4>1, Complete DEF Kept
      <4>3. kid[k].clean /\ AllComplete => Pages \subseteq stored
        BY <4>2
      <4> QED BY <1>2, <1>3, <1>4, <1>6, <3>1, <3>2, <4>3
    <3>4. CASE k \in Orphans
      <4>1. PICK n : Becomes(k, n) /\ n = NoKid
        BY <3>1, <3>2, <3>4, Ended
      <4> QED BY <1>2, <1>3, <1>4, <1>5, <4>1
    <3> QED BY <3>3, <3>4 DEF Kids
  <2>3. CASE r \in Requests /\ seg[r] = "complete"
    <3>1. NextRequest(k, TRUE)
      BY <1>9, <2>3 DEF Look
    <3> QED BY <1>2, <1>3, <1>4, <1>7, <2>1, <2>3, <3>1
  <2>4. CASE r \in Requests /\ seg[r] # "complete"
    <3> DEFINE n == [kid[k] EXCEPT !.at = "checkpoint"]
    <3>1. n \in Kid /\ n.at = "checkpoint" /\ n.request = r /\ n.source = kid[k].source
      BY <1>1 DEF Kid
    <3>2. kid' = [kid EXCEPT ![k] = n]
      BY <1>9, <2>4 DEF Look
    <3> HIDE DEF n
    <3>3. Becomes(k, n) /\ Fits(k, n, stored')
      BY <1>1, <2>4, <3>1, <3>2 DEF Becomes, Fits
    <3> QED BY <1>2, <1>3, <1>4, <3>1, <3>3
  <2> QED BY <2>2, <2>3, <2>4
<1>10. CASE OpenCheckpoint(k)
  <2> DEFINE r == kid[k].request
             from == IF cp[r] = None THEN 0 ELSE cp[r]
             n == [kid[k] EXCEPT !.at = "page", !.offset = from]
  <2>1. r \in Requests /\ kid[k].source = "xinghan"
    BY <1>10 DEF OpenCheckpoint, Crawling, KidInv, Fits
  <2>2. from \in 0 .. LastPage
    BY <2>1 DEF RetailTypeOK
  <2>3. n \in Kid /\ n.at = "page" /\ n.request = r /\ n.source = kid[k].source /\ n.offset = from
    BY <1>1, <2>2 DEF Kid
  <2>4. Kept => \A o \in 0 .. LastPage : o < from => <<r, o>> \in stored
    BY <2>1 DEF PagesHaveNoGap, Kept
  <2>5. kid' = [kid EXCEPT ![k] = n]
    BY <1>10 DEF OpenCheckpoint
  <2> HIDE DEF n, from
  <2>6. Becomes(k, n) /\ Fits(k, n, stored')
    BY <1>1, <1>3, <2>1, <2>3, <2>4, <2>5 DEF Becomes, Fits
  <2> QED BY <1>2, <1>3, <1>4, <2>3, <2>6
<1>11. CASE CommitPage(k)
  <2> DEFINE r == kid[k].request
             o == kid[k].offset
  <2>1. /\ kid[k].at = "page" /\ r \in Requests /\ o \in 0 .. LastPage
        /\ stored' = stored \cup {<<r, o>>} /\ kid[k].source = "xinghan"
    BY <1>1, <1>11 DEF CommitPage, Crawling, KidInv, Fits, Kid
  <2>2. CASE o = LastPage
    <3>1. NextRequest(k, TRUE)
      BY <1>11, <2>2 DEF CommitPage
    <3> QED BY <1>2, <1>3, <1>4, <1>7, <2>1, <3>1
  <2>3. CASE o # LastPage
    <3> DEFINE n == [kid[k] EXCEPT !.offset = o + 1]
    <3>1. n \in Kid /\ n.at = "page" /\ n.request = r /\ n.source = kid[k].source
          /\ n.offset = o + 1
      BY <1>1, <2>1, <2>3 DEF Kid
    <3>2. kid' = [kid EXCEPT ![k] = n]
      BY <1>11, <2>3 DEF CommitPage
    <3> HIDE DEF n
    <3>3. Kept => \A q \in 0 .. LastPage : q < o + 1 => <<r, q>> \in stored'
      BY <2>1 DEF KidInv, Fits
    <3>4. Becomes(k, n) /\ Fits(k, n, stored')
      BY <1>1, <2>1, <3>1, <3>2, <3>3 DEF Becomes, Fits
    <3> QED BY <1>2, <1>3, <1>4, <3>1, <3>4
  <2> QED BY <2>2, <2>3
<1>12. CASE CheckpointGone(k) \/ Kill(k)
  <2>1. End(k, FALSE)
    BY <1>12 DEF CheckpointGone, Kill
  <2> QED BY <1>2, <1>3, <1>4, <1>6, <2>1
<1>13. CASE Interrupt(k)
  <2>1. NextRequest(k, FALSE) /\ kid[k].request \in Requests /\ kid[k].source = "xinghan"
    BY <1>13 DEF Interrupt, Crawling, KidInv, Fits
  <2> QED BY <1>2, <1>3, <1>4, <1>7, <2>1
<1> QED BY <1>8, <1>9, <1>10, <1>11, <1>12, <1>13, <1>14 DEF KidStep

---------------------------------------------------------------------------
(* The types *)

LEMMA NextOffset == \A o \in 0 .. LastPage : o # LastPage => o + 1 \in 0 .. LastPage
  BY RetailAssumption

LEMMA KidTypeStep ==
    ASSUME RetailTypeOK, TickInv, KidInv, PagesHaveNoGap,
           NEW k \in Kids, KidStep(k) \/ Kill(k)
    PROVE  RetailTypeOK'
<1> USE RetailAssumption DEF RetailTypeOK, tick, ledger, data
<1>1. /\ UNCHANGED <<tick, ledger, src, recheck, mapped, facts>>
      /\ stored \subseteq stored' /\ stored' \subseteq Rows
  BY KidMoves
<1>2. kid \in [Kids -> Kid]
  BY DEF Kid
<1>3. kid' \in [Kids -> Kid]
  BY <1>2, KidMoves DEF Becomes
<1>4. weight' \in Weights \cup {None}
  BY DEF Labels, KidStep, CrawlGuba, ChooseRows, Score, Look, OpenCheckpoint, CommitPage,
     CheckpointGone, Interrupt, Kill
<1>5. CASE CrawlGuba(k) \/ ChooseRows(k) \/ Score(k) \/ Look(k) \/ CheckpointGone(k) \/ Kill(k)
  <2>1. UNCHANGED <<seg, cp, fresh>>
    BY <1>5 DEF CrawlGuba, ChooseRows, Score, Look, CheckpointGone, Kill, paging
  <2> QED BY <1>1, <1>3, <1>4, <2>1 DEF Kid
<1>6. CASE OpenCheckpoint(k) \/ CommitPage(k) \/ Interrupt(k)
  <2>1. kid[k].request \in Requests /\ kid[k].offset \in 0 .. LastPage
    BY <1>2, <1>6 DEF OpenCheckpoint, CommitPage, Interrupt, Crawling, KidInv, Fits, Kid
  <2>2. /\ seg' \in [Requests -> {"absent", "running", "partial", "failed", "complete"}]
        /\ cp' \in [Requests -> (0 .. LastPage) \cup {None}] /\ fresh' \in BOOLEAN
    <3>1. CASE OpenCheckpoint(k)
      BY <2>1, <3>1 DEF OpenCheckpoint
    <3>2. CASE CommitPage(k)
      <4>1. kid[k].offset # LastPage => kid[k].offset + 1 \in 0 .. LastPage
        BY <2>1, NextOffset, Zenon
      <4>2. fresh' = TRUE /\ cp \in [Requests -> (0 .. LastPage) \cup {None}]
        BY <3>2 DEF CommitPage
      <4>3. CASE kid[k].offset = LastPage
        BY <2>1, <3>2, <4>2, <4>3 DEF CommitPage
      <4>4. CASE kid[k].offset # LastPage
        BY <2>1, <3>2, <4>1, <4>2, <4>4 DEF CommitPage
      <4> QED BY <4>3, <4>4
    <3>3. CASE Interrupt(k)
      BY <2>1, <3>3 DEF Interrupt
    <3> QED BY <1>6, <3>1, <3>2, <3>3
  <2> QED BY <1>1, <1>3, <1>4, <2>2 DEF Kid
<1> QED BY <1>5, <1>6 DEF KidStep

\* The one child a tick's own step may touch is its own, or the orphan it leaves.
LEMMA TickKid ==
    ASSUME RetailTypeOK, TickInv, KidInv, NEW t \in Ticks, TickStep(t) \/ GiveUp(t) \/ Crash(t)
    PROVE  \/ kid' = kid
           \/ /\ StartSource(t) /\ pc[t] \in Sources /\ Becomes(t, NewKid(pc[t]))
           \/ /\ MapRows(t) /\ \E n : /\ Becomes(t, n) /\ n.at = "mapped" /\ kid[t].at = "ended"
                                      /\ n.source = kid[t].source /\ n.clean = kid[t].clean
                                      /\ kid[t] # NoKid
           \/ Reap(t) /\ Becomes(t, NoKid)
           \/ /\ Crash(t)
              /\ \/ Becomes(t, NoKid)
                 \/ \E o \in Orphans, n \in Kid :
                      /\ kid' = [kid EXCEPT ![o] = n, ![t] = NoKid]
                      /\ kid'[t] = NoKid /\ kid'[o] = n
                      /\ \A j \in Kids \ {o, t} : kid'[j] = kid[j]
                      /\ n.at = kid[t].at /\ n.at \notin {"ended", "mapped"}
                      /\ n.request = kid[t].request /\ n.offset = kid[t].offset
<1> USE RetailAssumption, NoKidAssumption, KidTyped
<1>1. kid \in [Kids -> Kid] /\ kid[t] \in Kid /\ t \in Kids
  BY DEF RetailTypeOK, Kid, Kids
<1>2. CASE StartSource(t)
  <2>1. pc[t] \in Sources /\ kid' = [kid EXCEPT ![t] = NewKid(pc[t])]
    BY <1>2 DEF StartSource
  <2> QED BY <1>1, <1>2, <2>1 DEF Becomes
<1>3. CASE MapRows(t)
  <2> DEFINE n == [kid[t] EXCEPT !.at = "mapped"]
  <2>1. n \in Kid /\ n.at = "mapped" /\ n.source = kid[t].source /\ n.clean = kid[t].clean
    BY <1>1 DEF Kid
  <2>2. kid' = [kid EXCEPT ![t] = n] /\ kid[t].at = "ended" /\ kid[t] # NoKid
    BY <1>1, <1>3 DEF MapRows
  <2> HIDE DEF n
  <2>3. Becomes(t, n)
    BY <1>1, <2>1, <2>2 DEF Becomes
  <2> QED BY <1>3, <2>1, <2>2, <2>3
<1>4. CASE Reap(t)
  <2>1. kid' = [kid EXCEPT ![t] = NoKid]
    BY <1>4 DEF Reap
  <2> QED BY <1>1, <1>4, <2>1 DEF Becomes
<1>5. CASE Crash(t)
  <2>1. CASE kid' = [kid EXCEPT ![t] = NoKid]
    BY <1>1, <1>5, <2>1 DEF Becomes
  <2>2. ASSUME NEW o \in Orphans, kid[t].at \notin {None, "ended", "mapped"},
               kid' = [kid EXCEPT ![o] = [kid[t] EXCEPT !.clean = TRUE], ![t] = NoKid]
        PROVE  \E n \in Kid :
                  /\ kid' = [kid EXCEPT ![o] = n, ![t] = NoKid]
                  /\ kid'[t] = NoKid /\ kid'[o] = n
                  /\ \A j \in Kids \ {o, t} : kid'[j] = kid[j]
                  /\ n.at = kid[t].at /\ n.at \notin {"ended", "mapped"}
                  /\ n.request = kid[t].request /\ n.offset = kid[t].offset
    <3> DEFINE n == [kid[t] EXCEPT !.clean = TRUE]
    <3>1. n \in Kid /\ n.at = kid[t].at /\ n.request = kid[t].request
          /\ n.offset = kid[t].offset
      BY <1>1 DEF Kid
    <3>2. kid' = [kid EXCEPT ![o] = n, ![t] = NoKid]
      BY <2>2
    <3> HIDE DEF n
    <3>3. o \in Kids /\ o # t
      BY DEF Kids
    <3> QED BY <1>1, <2>2, <3>1, <3>2, <3>3
  <2> QED BY <1>5, <2>1, <2>2 DEF Crash
<1>6. CASE ~StartSource(t) /\ ~MapRows(t) /\ ~Reap(t) /\ ~Crash(t)
  BY <1>6 DEF TickStep, Acquire, Recover, Skip, Begin, SkipSource, Reconcile, ReconcileFails,
     GiveUp
<1> QED BY <1>2, <1>3, <1>4, <1>5, <1>6

LEMMA TickKidType ==
    ASSUME RetailTypeOK, TickInv, KidInv, NEW t \in Ticks, TickStep(t) \/ GiveUp(t) \/ Crash(t)
    PROVE  kid' \in [Kids -> Kid]
<1>1. kid \in [Kids -> Kid] /\ t \in Kids /\ Orphans \subseteq Kids
  BY DEF RetailTypeOK, Kid, Kids
<1> QED BY <1>1, TickKid, KidTyped DEF Becomes

LEMMA AggregateTyped ==
    ASSUME RetailTypeOK
    PROVE  /\ Aggregate \in [raw : SUBSET Rows, weight : Weights \cup {None}]
           /\ Aggregate.raw = mapped
<1> DEFINE w == IF Guba \in mapped THEN weight ELSE None
<1>1. w \in Weights \cup {None} /\ mapped \in SUBSET Rows
  BY DEF RetailTypeOK
<1>2. Aggregate = [raw |-> mapped, weight |-> w]
  BY DEF Aggregate
<1> HIDE DEF w
<1> QED BY <1>1, <1>2

LEMMA TickTypeStep ==
    ASSUME RetailTypeOK, TickInv, KidInv, NEW t \in Ticks, TickStep(t) \/ GiveUp(t) \/ Crash(t)
    PROVE  RetailTypeOK'
<1> USE RetailAssumption DEF RetailTypeOK, tick, ledger, paging, data, Go, Leave
<1>1. kid' \in [Kids -> [source : Sources \cup {None}, offset : 0 .. LastPage,
                         at : {None, "start", "checkpoint", "page", "chosen", "ended", "mapped"},
                         request : 0 .. NumRequests + 1, clean : BOOLEAN]]
  BY TickKidType DEF Kid
<1>2. Aggregate \in [raw : SUBSET Rows, weight : Weights \cup {None}]
  BY AggregateTyped
<1>3. CASE Acquire(t) \/ GiveUp(t) \/ Skip(t) \/ SkipSource(t)
  BY <1>1, <1>3 DEF Acquire, GiveUp, Skip, SkipSource, After, Sources
<1>4. CASE Recover(t)
  <2>1. fresh' \in BOOLEAN
    BY <1>4 DEF Recover
  <2>2. facts' \in [raw : SUBSET Rows, weight : Weights \cup {None}]
    BY <1>2, <1>4 DEF Recover
  <2>3. /\ src' \in [Sources -> {"absent", "running", "partial", "complete", "empty", "failed"}]
        /\ seg' \in [Requests -> {"absent", "running", "partial", "failed", "complete"}]
    BY <1>4 DEF Recover
  <2> QED BY <1>1, <1>4, <2>1, <2>2, <2>3 DEF Recover
<1>5. ASSUME NEW kline \in BOOLEAN, Begin(t, kline) PROVE RetailTypeOK'
  BY <1>1, <1>5 DEF Begin, Sources
<1>6. CASE StartSource(t)
  BY <1>1, <1>6 DEF StartSource
<1>7. CASE MapRows(t)
  BY <1>1, <1>7 DEF MapRows
<1>8. CASE Reap(t)
  <2>1. kid[t].source \in Sources /\ pc[t] \in Sources
    <3>1. kid[t] # NoKid
      BY <1>8, NoKidAssumption DEF Reap, NoKid
    <3> QED BY <3>1 DEF TickInv
  <2>2. After(kid[t].source) \in Sources \cup {"reconcile"}
    BY <2>1 DEF After, Sources
  <2>3. Outcome(kid[t].source, kid[t].clean) \in {"failed", "empty", "complete"}
    BY DEF Outcome
  <2>4. recheck' \in 0 .. 2
    BY <1>8 DEF Reap, CountEmpty
  <2> QED BY <1>1, <1>8, <2>1, <2>2, <2>3, <2>4 DEF Reap
<1>9. CASE Reconcile(t)
  <2>1. status' \in {"complete", "partial", "failed"}
    BY <1>9 DEF Reconcile
  <2> QED BY <1>1, <1>2, <1>9, <2>1 DEF Reconcile
<1>10. CASE ReconcileFails(t)
  BY <1>1, <1>10 DEF ReconcileFails
<1>11. CASE Crash(t)
  BY <1>1, <1>11 DEF Crash
<1> QED
  BY <1>3, <1>4, <1>5, <1>6, <1>7, <1>8, <1>9, <1>10, <1>11 DEF TickStep

\* What retention does, case by case.
LEMMA Retained ==
    ASSUME RetailTypeOK, TickInv, CompleteIsComplete,
           NEW incomplete \in BOOLEAN, NEW expired \in BOOLEAN, Retain(incomplete, expired)
    PROVE  /\ lock = None /\ UNCHANGED <<tick, kid, status, src, recheck, seg, fresh>>
           /\ retention' \in {"live", "sealed_complete", "sealed_incomplete",
                              "purged", "purged_incomplete"}
           /\ retention \in {"live", "sealed_complete"} \/ facts' = facts
           /\ retention = "sealed_complete" /\ retention' # retention =>
                retention' = "purged" /\ facts' = Aggregate
           /\ retention # "live" => retention' \in {retention, "purged", "purged_incomplete"}
           /\ retention' # "live" => retention # "live" \/ status \in {"complete", "partial", "failed"}
           /\ retention' = "sealed_complete" => status = "complete"
           /\ ~Kept => ~Kept'
           /\ Kept' => stored' = stored /\ mapped' = mapped
           /\ mapped' \subseteq stored' /\ stored' \subseteq stored
           /\ weight' = (IF Guba \in stored' THEN weight ELSE None)
           /\ \A r \in Requests : cp'[r] = cp[r] \/ cp'[r] = None
           /\ cp' \in [Requests -> (0 .. LastPage) \cup {None}]
           /\ facts' = facts \/ facts' = Aggregate
<1> USE DEF RetailTypeOK
<1>1. UNCHANGED <<tick, kid, status, src, recheck, seg, fresh>> /\ lock = None
  BY DEF Retain
<1>2. /\ SealableComplete => status = "complete" /\ retention \in {"live", "sealed_complete"}
      /\ SealableIncomplete => status \in {"partial", "failed"} /\ retention = "live"
  BY DEF SealableComplete, SealableIncomplete
<1>3. retention = "sealed_complete" /\ ~ActiveWork => SealableComplete
  <2> SUFFICES ASSUME retention = "sealed_complete", ~ActiveWork PROVE SealableComplete
    OBVIOUS
  <2>1. status = "complete"
    BY DEF TickInv
  <2>2. Counts(facts) = Counts(Aggregate)
    BY <2>1 DEF CompleteIsComplete
  <2>3. facts.raw = mapped
    BY <2>2, AggregateTyped DEF Counts
  <2> QED BY <2>1, <2>3 DEF SealableComplete
<1>4. \A r \in Requests : cp'[r] = cp[r] \/ cp'[r] = None
  BY DEF Retain
<1>5. cp' \in [Requests -> (0 .. LastPage) \cup {None}]
  BY DEF Retain
<1>6. /\ retention' \in {"live", "sealed_complete", "sealed_incomplete",
                         "purged", "purged_incomplete"}
      /\ retention # "live" => retention' \in {retention, "purged", "purged_incomplete"}
      /\ retention' # "live" => retention # "live" \/ status \in {"complete", "partial", "failed"}
      /\ ~Kept => ~Kept'
  BY <1>2 DEF Retain, Kept
<1>7. Kept' => stored' = stored /\ mapped' = mapped
  BY <1>2 DEF Retain, Kept
<1>8. /\ mapped' \subseteq stored' /\ stored' \subseteq stored
      /\ weight' = (IF Guba \in stored' THEN weight ELSE None)
  BY DEF Retain
<1>9. /\ facts' = facts \/ facts' = Aggregate
      /\ retention \in {"live", "sealed_complete"} \/ facts' = facts
  BY <1>2 DEF Retain
<1>10. retention = "sealed_complete" /\ retention' # retention =>
         retention' = "purged" /\ facts' = Aggregate
  BY <1>2, <1>3 DEF Retain
<1>11. retention' = "sealed_complete" => status = "complete"
  BY <1>2 DEF Retain, TickInv
<1> QED BY <1>1, <1>4, <1>5, <1>6, <1>7, <1>8, <1>9, <1>10, <1>11

LEMMA TypeStep ==
    ASSUME RetailIInv, [RetailNext]_rwvars
    PROVE  RetailTypeOK'
<1> USE DEF RetailIInv
<1>1. ASSUME NEW incomplete \in BOOLEAN, NEW expired \in BOOLEAN, Retain(incomplete, expired)
      PROVE  RetailTypeOK'
  <2>2. facts' \in [raw : SUBSET Rows, weight : Weights \cup {None}]
    BY <1>1, AggregateTyped, Retained DEF RetailTypeOK
  <2>3. weight' \in Weights \cup {None}
    BY <1>1, Retained DEF RetailTypeOK
  <2>4. /\ UNCHANGED <<tick, kid, status, src, recheck, seg, fresh>>
        /\ cp' \in [Requests -> (0 .. LastPage) \cup {None}]
        /\ mapped' \subseteq stored' /\ stored' \subseteq stored
        /\ retention' \in {"live", "sealed_complete", "sealed_incomplete",
                           "purged", "purged_incomplete"}
    BY <1>1, Retained
  <2> QED BY <2>2, <2>3, <2>4 DEF RetailTypeOK, tick
<1>2. CASE GoStale
  BY <1>2 DEF GoStale, RetailTypeOK, tick, ledger, data
<1>3. CASE UNCHANGED rwvars
  BY <1>3 DEF RetailTypeOK, rwvars, tick, ledger, paging, data
<1> QED BY <1>1, <1>2, <1>3, KidTypeStep, TickTypeStep DEF RetailNext

---------------------------------------------------------------------------
(* The lock and the window *)

LEMMA TickStays ==
    ASSUME RetailIInv, [RetailNext]_rwvars
    PROVE  TickInv'
<1> USE RetailAssumption, NoKidAssumption DEF RetailIInv, Go, Leave
<1>1. ASSUME NEW k \in Kids, KidStep(k) \/ Kill(k) PROVE TickInv'
  <2>1. UNCHANGED <<lock, pc, retention, status>>
    BY <1>1, KidMoves DEF tick, ledger
  <2>2. ASSUME NEW t \in Ticks, kid'[t] # NoKid
        PROVE  kid[t] # NoKid /\ kid'[t].source = kid[t].source
    <3>1. t \in Kids
      BY DEF Kids
    <3> QED BY <1>1, <2>2, <3>1, KidMoves DEF Becomes
  <2> QED BY <2>1, <2>2 DEF TickInv
<1>2. ASSUME NEW t \in Ticks, TickStep(t) \/ GiveUp(t) \/ Crash(t) PROVE TickInv'
  <2>1. /\ retention' = retention
        /\ pc' \in [Ticks -> {"out", "orphans", "window", "reconcile"} \cup Sources]
    <3>1. pc' \in [Ticks -> {"out", "orphans", "window", "reconcile"} \cup Sources]
      BY <1>2, TickTypeStep DEF RetailTypeOK
    <3> QED
      BY <1>2, <3>1 DEF TickStep, Acquire, Recover, Skip, Begin, SkipSource, StartSource,
         MapRows, Reap, Reconcile, ReconcileFails, GiveUp, Crash, ledger
  <2>2. \A u \in Ticks \ {t} : pc[u] = "out" /\ pc'[u] = "out" /\ kid[u] = NoKid
    <3>1. \A u \in Ticks \ {t} : lock # u
      BY <1>2, <2>1 DEF TickInv, TickStep, Acquire, Recover, Skip, Begin, SkipSource,
         StartSource, MapRows, Reap, Reconcile, ReconcileFails, GiveUp, Crash, NoKid, Sources
    <3>2. \A u \in Ticks \ {t} : pc'[u] = pc[u]
      BY <1>2 DEF RetailTypeOK, TickStep, Acquire, Recover, Skip, Begin, SkipSource,
         StartSource, MapRows, Reap, Reconcile, ReconcileFails, GiveUp, Crash, tick
    <3> QED BY <3>1, <3>2 DEF TickInv, Sources
  <2>3. \/ lock' = t /\ pc'[t] # "out"
        \/ lock' = None /\ pc'[t] = "out"
    <3>1. kid[t].at \in {"ended", "mapped"} => pc[t] \in Sources /\ kid[t].source = pc[t]
      BY DEF TickInv, NoKid
    <3>2. \A s \in Sources : After(s) # "out"
      BY DEF After, Sources
    <3>3. pc[t] # "out" => lock = t
      BY DEF TickInv
    <3> QED
      BY <1>2, <3>1, <3>2, <3>3 DEF RetailTypeOK, TickStep, Acquire, Recover, Skip, Begin,
         SkipSource, StartSource, MapRows, Reap, Reconcile, ReconcileFails, GiveUp, Crash,
         tick, Sources
  <2>4. kid'[t] # NoKid => pc'[t] \in Sources /\ kid'[t].source = pc'[t]
    <3>1. CASE StartSource(t)
      BY <3>1, TickKid DEF StartSource, Becomes, NewKid, tick, RetailTypeOK
    <3>2. CASE MapRows(t)
      <4>1. kid \in [Kids -> Kid] /\ t \in Kids /\ kid[t] \in Kid
        BY DEF RetailTypeOK, Kid, Kids
      <4>2. kid[t] # NoKid
        BY <3>2, <4>1, KidTyped DEF MapRows
      <4>3. kid'[t].source = kid[t].source
        BY <3>2, <4>1 DEF MapRows, Kid
      <4> QED BY <3>2, <4>2, <4>3 DEF MapRows, TickInv, tick
    <3>3. CASE Reap(t) \/ Crash(t)
      <4>1. kid \in [Kids -> Kid] /\ t \in Kids
        BY DEF RetailTypeOK, Kid, Kids
      <4>2. kid'[t] = NoKid
        BY <3>3, <4>1 DEF Reap, Crash
      <4> QED BY <4>2
    <3>4. CASE kid[t] = NoKid /\ kid' = kid
      BY <3>4
    <3>5. CASE ~StartSource(t) /\ ~MapRows(t) /\ ~Reap(t) /\ ~Crash(t)
      BY <1>2, <3>5 DEF TickInv, TickStep, Acquire, Recover, Skip, Begin, SkipSource,
         Reconcile, ReconcileFails, GiveUp, Sources
    <3> QED BY <3>1, <3>2, <3>3, <3>5
  <2>5. pc'[t] \in Sources \cup {"reconcile"} => retention' = "live" /\ status' = "running"
    <3>1. pc[t] \in Sources \cup {"reconcile"} => retention = "live" /\ status = "running"
      BY DEF TickInv
    <3>2. kid[t].at \in {"ended", "mapped"} => pc[t] \in Sources
      BY DEF TickInv, NoKid
    <3> QED
      BY <1>2, <2>1, <3>1, <3>2 DEF RetailTypeOK, TickStep, Acquire, Recover, Skip, Begin,
         SkipSource, StartSource, MapRows, Reap, Reconcile, ReconcileFails, GiveUp, Crash,
         tick, ledger, Sources
  <2>6. retention' # "live" => status' # "running"
    BY <1>2, <2>1 DEF TickInv, TickStep, Acquire, Recover, Skip, Begin, SkipSource,
       StartSource, MapRows, Reap, Reconcile, ReconcileFails, GiveUp, Crash, ledger
  <2>7. \A u \in Ticks \ {t} : kid'[u] = NoKid
    <3>1. \A u \in Ticks : u \in Kids /\ u \notin Orphans
      BY DEF Kids
    <3>2. kid \in [Kids -> Kid]
      BY DEF RetailTypeOK, Kid
    <3> QED BY <1>2, <2>2, <3>1, <3>2, TickKid DEF Becomes
  <2>9. retention' = "sealed_complete" => status' = "complete"
    <3>1. retention # "live" => pc[t] \notin Sources \cup {"reconcile"} /\ status # "running"
      BY DEF TickInv
    <3>2. kid[t].at \in {"ended", "mapped"} => pc[t] \in Sources
      BY DEF TickInv, NoKid
    <3> QED
      BY <1>2, <2>1, <3>1, <3>2 DEF TickInv, TickStep, Acquire, Recover, Skip, Begin,
         SkipSource, StartSource, MapRows, Reap, Reconcile, ReconcileFails, GiveUp, Crash, ledger
  <2>8. lock' \in Ticks \cup {None}
    BY <2>3
  <2> QED BY <2>2, <2>3, <2>4, <2>5, <2>6, <2>7, <2>9 DEF TickInv, Sources
<1>3. ASSUME NEW incomplete \in BOOLEAN, NEW expired \in BOOLEAN, Retain(incomplete, expired)
      PROVE  TickInv'
  <2>1. /\ lock = None /\ UNCHANGED <<tick, kid, status>>
        /\ retention' # "live" => retention # "live" \/ status \in {"complete", "partial", "failed"}
        /\ retention' = "sealed_complete" => status = "complete"
    BY <1>3, Retained
  <2> QED BY <2>1 DEF TickInv, tick, Sources
<1>4. CASE GoStale \/ UNCHANGED rwvars
  BY <1>4 DEF GoStale, TickInv, rwvars, tick, ledger
<1> QED BY <1>1, <1>2, <1>3, <1>4 DEF RetailNext

---------------------------------------------------------------------------
(* The pages *)

\* As long as a tick is past the choice of the window its rows are kept.
LEMMA StoredGrows ==
    ASSUME RetailIInv, [RetailNext]_rwvars, Kept'
    PROVE  Kept /\ stored \subseteq stored'
<1> USE DEF RetailIInv
<1>1. ASSUME NEW k \in Kids, KidStep(k) \/ Kill(k) PROVE Kept /\ stored \subseteq stored'
  BY <1>1, KidMoves DEF Kept, ledger
<1>2. ASSUME NEW t \in Ticks, TickStep(t) \/ GiveUp(t) \/ Crash(t)
      PROVE  Kept /\ stored \subseteq stored'
  BY <1>2 DEF Kept, TickStep, Acquire, Recover, Skip, Begin, SkipSource, StartSource,
     MapRows, Reap, Reconcile, ReconcileFails, GiveUp, Crash, ledger, data
<1>3. ASSUME NEW incomplete \in BOOLEAN, NEW expired \in BOOLEAN, Retain(incomplete, expired)
      PROVE  Kept /\ stored \subseteq stored'
  BY <1>3, Retained
<1>4. CASE GoStale \/ UNCHANGED rwvars
  BY <1>4 DEF GoStale, Kept, rwvars, ledger, data
<1> QED BY <1>1, <1>2, <1>3, <1>4 DEF RetailNext

LEMMA KidStays ==
    ASSUME RetailIInv, [RetailNext]_rwvars
    PROVE  KidInv'
<1> USE NoKidAssumption, RetailAssumption DEF RetailIInv
<1>1. Kept' => Kept /\ stored \subseteq stored'
  BY StoredGrows
<1>2. ASSUME NEW t \in Ticks, kid'[t].at \in {"ended", "mapped"} PROVE Kept'
  <2>1. NoKid.at = None /\ kid'[t] # NoKid
    BY <1>2 DEF NoKid
  <2>2. pc'[t] \in Sources /\ TickInv'
    BY <2>1, TickStays DEF TickInv
  <2>3. retention' = "live"
    BY <2>2 DEF TickInv
  <2> QED BY <2>3 DEF Kept
<1>3. ASSUME NEW k \in Kids, kid'[k] = kid[k] PROVE Fits(k, kid[k], stored)'
  BY <1>1, <1>2, <1>3 DEF KidInv, Fits, Kids
<1>4. ASSUME NEW k \in Kids, kid'[k] = NoKid PROVE Fits(k, kid[k], stored)'
  BY <1>4 DEF Fits, NoKid
<1>5. ASSUME NEW k \in Kids, KidStep(k) \/ Kill(k) PROVE KidInv'
  <2>1. Kept' = Kept
    BY <1>5, KidMoves DEF Kept, ledger
  <2>2. \/ kid' = kid
        \/ Fits(k, kid'[k], stored') /\ \A j \in Kids \ {k} : kid'[j] = kid[j]
    BY <1>5, KidMoves DEF Becomes
  <2>3. Fits(k, kid'[k], stored') => Fits(k, kid[k], stored)'
    BY <2>1 DEF Fits
  <2> QED BY <1>3, <2>2, <2>3 DEF KidInv
<1>6. ASSUME NEW t \in Ticks, TickStep(t) \/ GiveUp(t) \/ Crash(t) PROVE KidInv'
  <2>1. t \in Kids /\ t \notin Orphans
    BY DEF Kids
  <2>2. CASE kid' = kid
    BY <1>3, <2>2 DEF KidInv
  <2>3. ASSUME NEW n, Becomes(t, n), Fits(t, kid[t], stored)' PROVE KidInv'
    BY <1>3, <2>3 DEF KidInv, Becomes
  <2>4. CASE Becomes(t, NewKid(pc[t]))
    <3>1. Fits(t, kid[t], stored)'
      BY <2>4 DEF Becomes, Fits, NewKid
    <3> QED BY <2>3, <2>4, <3>1
  <2>5. ASSUME NEW n, Becomes(t, n), n.at = "mapped", kid[t].at = "ended",
               n.source = kid[t].source, n.clean = kid[t].clean
        PROVE  KidInv'
    <3>1. kid'[t] = n
      BY <2>5 DEF Becomes
    <3>2. stored \subseteq stored'
      BY <1>1, <1>2, <2>5, <3>1
    <3>3. Fits(t, kid[t], stored)
      BY <2>1 DEF KidInv
    <3>4. Fits(t, kid[t], stored)'
      BY <2>5, <3>1, <3>2, <3>3 DEF Fits
    <3> QED BY <2>3, <2>5, <3>4
  <2>6. CASE Becomes(t, NoKid)
    BY <1>4, <2>1, <2>3, <2>6 DEF Becomes
  <2>7. ASSUME NEW o \in Orphans, NEW n \in Kid,
               kid'[t] = NoKid, kid'[o] = n, \A j \in Kids \ {o, t} : kid'[j] = kid[j],
               n.at = kid[t].at, n.at \notin {"ended", "mapped"},
               n.request = kid[t].request, n.offset = kid[t].offset
        PROVE  KidInv'
    <3>1. Fits(t, kid[t], stored)
      BY <2>1 DEF KidInv
    <3>2. Fits(o, kid[o], stored)'
      BY <1>1, <2>7, <3>1 DEF Fits
    <3> QED BY <1>3, <1>4, <2>1, <2>7, <3>2 DEF KidInv
  <2> QED BY <1>6, <2>2, <2>4, <2>5, <2>6, <2>7, TickKid
<1>7. CASE kid' = kid
  BY <1>3, <1>7 DEF KidInv
<1> QED
  BY <1>5, <1>6, <1>7, Retained DEF RetailNext, GoStale, Retain, rwvars

LEMMA PagesStep ==
    ASSUME RetailIInv, [RetailNext]_rwvars
    PROVE  PagesHaveNoGap'
<1> USE RetailAssumption DEF RetailIInv
<1>1. Kept' => Kept /\ stored \subseteq stored'
  BY StoredGrows
<1>2. ASSUME \A r \in Requests : /\ seg'[r] = "complete" => seg[r] = "complete"
                                 /\ cp'[r] = None \/ cp'[r] = cp[r]
      PROVE  PagesHaveNoGap'
  BY <1>1, <1>2 DEF PagesHaveNoGap, Kept
<1>3. ASSUME NEW k \in Kids, OpenCheckpoint(k) PROVE PagesHaveNoGap'
  <2>1. kid[k].request \in Requests
    BY <1>3 DEF OpenCheckpoint, Crawling, KidInv, Fits
  <2>2. \A r \in Requests : /\ seg'[r] = "complete" => seg[r] = "complete"
                            /\ cp'[r] = cp[r] \/ (cp[r] = None /\ cp'[r] = 0)
    BY <1>3, <2>1 DEF OpenCheckpoint, RetailTypeOK
  <2> QED BY <1>1, <2>2 DEF PagesHaveNoGap, Kept
<1>4. ASSUME NEW k \in Kids, CommitPage(k) PROVE PagesHaveNoGap'
  <2> DEFINE r == kid[k].request
             o == kid[k].offset
  <2>1. /\ kid[k].at = "page" /\ r \in Requests /\ o \in 0 .. LastPage
        /\ stored' = stored \cup {<<r, o>>} /\ Kept' = Kept
    BY <1>4 DEF CommitPage, Crawling, KidInv, Fits, RetailTypeOK, Kept, ledger
  <2>2. Kept => \A q \in 0 .. LastPage : q <= o => <<r, q>> \in stored'
    <3>1. ASSUME Kept, NEW q \in 0 .. LastPage, q < o PROVE <<r, q>> \in stored
      BY <2>1, <3>1 DEF KidInv, Fits
    <3> QED BY <2>1, <3>1
  <2>3. \A q \in Requests \ {r} : seg'[q] = seg[q] /\ cp'[q] = cp[q]
    BY <1>4 DEF CommitPage, RetailTypeOK
  <2>4. CASE o = LastPage
    <3>1. cp'[r] = None
      BY <1>4, <2>1, <2>4 DEF CommitPage, RetailTypeOK
    <3>2. Kept => \A q \in 0 .. LastPage : <<r, q>> \in stored'
      BY <2>2, <2>4
    <3> QED BY <1>1, <2>1, <2>3, <3>1, <3>2 DEF PagesHaveNoGap, Kept
  <2>5. CASE o # LastPage
    <3>1. cp'[r] = o + 1 /\ seg'[r] = "running"
      BY <1>4, <2>1, <2>5 DEF CommitPage, RetailTypeOK
    <3>2. Kept => \A q \in 0 .. LastPage : q < o + 1 => <<r, q>> \in stored'
      BY <2>1, <2>2
    <3> QED BY <1>1, <2>1, <2>3, <3>1, <3>2 DEF PagesHaveNoGap, Kept
  <2> QED BY <2>4, <2>5
<1>5. ASSUME NEW k \in Kids, Interrupt(k) PROVE PagesHaveNoGap'
  <2>1. \A r \in Requests : seg'[r] = "complete" => seg[r] = "complete"
    BY <1>5 DEF Interrupt, RetailTypeOK
  <2>2. cp' = cp
    BY <1>5 DEF Interrupt
  <2> QED BY <1>2, <2>1, <2>2
<1>6. ASSUME NEW k \in Kids,
             CrawlGuba(k) \/ ChooseRows(k) \/ Score(k) \/ Look(k) \/ CheckpointGone(k) \/ Kill(k)
      PROVE  PagesHaveNoGap'
  BY <1>2, <1>6 DEF CrawlGuba, ChooseRows, Score, Look, CheckpointGone, Kill, paging
<1>7. ASSUME NEW t \in Ticks, TickStep(t) \/ GiveUp(t) \/ Crash(t) PROVE PagesHaveNoGap'
  <2>1. CASE Recover(t)
    <3>1. \A r \in Requests : seg'[r] = "complete" => seg[r] = "complete"
      BY <2>1 DEF Recover, RetailTypeOK
    <3>2. cp' = cp
      BY <2>1 DEF Recover
    <3> QED BY <1>2, <3>1, <3>2
  <2>2. CASE UNCHANGED <<seg, cp>>
    BY <1>2, <2>2
  <2> QED
    BY <1>7, <2>1, <2>2 DEF TickStep, Acquire, Skip, Begin, SkipSource, StartSource, MapRows,
       Reap, Reconcile, ReconcileFails, GiveUp, Crash, paging
<1>8. ASSUME NEW incomplete \in BOOLEAN, NEW expired \in BOOLEAN, Retain(incomplete, expired)
      PROVE  PagesHaveNoGap'
  <2>1. seg' = seg /\ \A r \in Requests : cp'[r] = cp[r] \/ cp'[r] = None
    BY <1>8, Retained
  <2> QED BY <1>2, <2>1
<1>9. CASE GoStale \/ UNCHANGED rwvars
  BY <1>2, <1>9 DEF GoStale, rwvars, paging
<1> QED
  BY <1>3, <1>4, <1>5, <1>6, <1>7, <1>8, <1>9 DEF RetailNext, KidStep

LEMMA SuccessStep ==
    ASSUME RetailIInv, [RetailNext]_rwvars
    PROVE  SuccessInv'
<1> USE NoKidAssumption DEF RetailIInv
<1>1. Kept' => Kept /\ stored \subseteq stored'
  BY StoredGrows
<1>2. ASSUME src'["xinghan"] \in FetchSuccess => src["xinghan"] \in FetchSuccess
      PROVE  SuccessInv'
  BY <1>1, <1>2 DEF SuccessInv
<1>3. ASSUME NEW t \in Ticks, Reap(t) PROVE SuccessInv'
  <2>1. stored' = stored /\ t \in Kids /\ t \notin Orphans
    BY <1>3, RetailAssumption DEF Reap, data, Kids
  <2>2. CASE kid[t].source = "xinghan" /\ kid[t].clean
    <3>1. Fits(t, kid[t], stored) /\ kid[t].at = "mapped"
      BY <1>3, <2>1, <2>2 DEF Reap, KidInv
    <3> QED BY <2>1, <2>2, <3>1 DEF Fits, SuccessInv
  <2>3. CASE kid[t].source = "xinghan" /\ ~kid[t].clean
    <3>1. src'["xinghan"] = "failed"
      BY <1>3, <2>3 DEF Reap, Outcome, RetailTypeOK, Sources
    <3> QED BY <3>1 DEF SuccessInv, FetchSuccess
  <2>4. CASE kid[t].source # "xinghan"
    <3>1. src'["xinghan"] = src["xinghan"]
      BY <1>3, <2>4 DEF Reap, RetailTypeOK, Sources
    <3> QED BY <1>2, <3>1
  <2> QED BY <2>2, <2>3, <2>4
<1>4. ASSUME NEW t \in Ticks, Recover(t) \/ StartSource(t) \/ Reconcile(t) PROVE SuccessInv'
  BY <1>2, <1>4 DEF Recover, StartSource, Reconcile, RetailTypeOK, Sources, FetchSuccess
<1>5. CASE src' = src
  BY <1>2, <1>5
<1> QED
  BY <1>3, <1>4, <1>5, KidMoves, Retained DEF RetailNext, TickStep, Acquire, Skip, Begin,
     SkipSource, MapRows, ReconcileFails, GiveUp, Crash, GoStale, rwvars

---------------------------------------------------------------------------
(* The status of the window *)

\* What the facts would count stays as long as the mapped rows stay, and the post's
\* having a label.
LEMMA CountsStay ==
    ASSUME RetailTypeOK, RetailTypeOK', mapped' = mapped,
           Guba \in mapped => (weight' = None <=> weight = None)
    PROVE  Counts(Aggregate)' = Counts(Aggregate)
<1> DEFINE w == IF Guba \in mapped THEN weight ELSE None
           v == IF Guba \in mapped' THEN weight' ELSE None
<1>1. Aggregate = [raw |-> mapped, weight |-> w] /\ Aggregate' = [raw |-> mapped', weight |-> v]
  BY Zenon DEF Aggregate
<1>2. (w # None) = (v # None)
  OBVIOUS
<1> HIDE DEF w, v
<1>3. Counts(Aggregate) = [raw |-> mapped, scored |-> w # None]
  BY <1>1 DEF Counts
<1>4. Counts(Aggregate)' = [raw |-> mapped', scored |-> v # None]
  BY <1>1 DEF Counts
<1> QED BY <1>2, <1>3, <1>4, Zenon

LEMMA CompleteStep ==
    ASSUME RetailIInv, [RetailNext]_rwvars
    PROVE  CompleteIsComplete'
<1> USE DEF RetailIInv
<1> SUFFICES ASSUME status' = "complete", retention' \in {"live", "sealed_complete"}
             PROVE  /\ Pages \subseteq stored'
                    /\ Guba \in mapped' \/ recheck' = 2
                    /\ ~Unscored'
                    /\ Counts(facts)' = Counts(Aggregate)'
  BY DEF CompleteIsComplete
<1>0. RetailTypeOK'
  BY TypeStep
<1>1. Kept /\ stored \subseteq stored'
  BY StoredGrows DEF Kept
<1>2. ASSUME status = "complete", retention \in {"live", "sealed_complete"},
             mapped' = mapped, recheck' = recheck,
             Guba \in mapped /\ weight # None => weight' # None,
             facts' = facts \/ facts' = Aggregate
      PROVE  /\ Pages \subseteq stored'
             /\ Guba \in mapped' \/ recheck' = 2
             /\ ~Unscored'
             /\ Counts(facts)' = Counts(Aggregate)'
  <2>1. /\ Pages \subseteq stored /\ (Guba \in mapped \/ recheck = 2)
        /\ ~Unscored /\ Counts(facts) = Counts(Aggregate)
    BY <1>2 DEF CompleteIsComplete
  <2>2. Guba \in mapped => weight # None /\ weight' # None
    BY <1>2, <2>1 DEF Unscored
  <2>3. Counts(Aggregate)' = Counts(Aggregate)
    BY <1>0, <1>2, <2>2, CountsStay
  <2>4. Counts(facts)' = Counts(facts) \/ Counts(facts)' = Counts(Aggregate)
    BY <1>2, Zenon DEF Counts
  <2> QED BY <1>1, <1>2, <2>1, <2>2, <2>3, <2>4 DEF Unscored
<1>3. ASSUME NEW k \in Kids, KidStep(k) \/ Kill(k)
      PROVE  /\ status = "complete" /\ retention \in {"live", "sealed_complete"}
             /\ mapped' = mapped /\ recheck' = recheck /\ facts' = facts
             /\ Guba \in mapped /\ weight # None => weight' # None
  <2>1. UNCHANGED <<ledger, recheck, mapped, facts>>
    BY <1>3, KidMoves
  <2>2. status = "complete" /\ retention \in {"live", "sealed_complete"}
    BY <2>1 DEF ledger
  <2>3. Guba \in mapped /\ weight # None => weight' # None
    BY <1>3, RetailAssumption DEF KidStep, CrawlGuba, ChooseRows, Score, Labels, Look,
       OpenCheckpoint, CommitPage, CheckpointGone, Interrupt, Kill, data
  <2> QED BY <2>1, <2>2, <2>3
<1>4. ASSUME NEW t \in Ticks, Reconcile(t)
      PROVE  /\ Pages \subseteq stored'
             /\ Guba \in mapped' \/ recheck' = 2
             /\ ~Unscored'
             /\ Counts(facts)' = Counts(Aggregate)'
  <2>1. /\ \A s \in Sources : Satisfied(s)
        /\ facts' = Aggregate /\ UNCHANGED <<stored, mapped, weight, recheck>>
    BY <1>4 DEF Reconcile
  <2>2. Satisfied("guba") /\ Satisfied("xinghan") /\ Satisfied("score")
    BY <2>1 DEF Sources
  <2>3. Guba \in mapped \/ recheck = 2
    BY <2>2 DEF Satisfied, HasRows
  <2>4. src["xinghan"] \in FetchSuccess
    BY <2>2 DEF Satisfied
  <2>5. ~Unscored
    BY <2>2 DEF Satisfied
  <2>6. Counts(Aggregate)' = Counts(Aggregate)
    BY <1>0, <2>1, CountsStay
  <2>7. Counts(facts)' = Counts(Aggregate)
    BY <2>1, Zenon DEF Counts
  <2> QED BY <1>1, <2>1, <2>3, <2>4, <2>5, <2>6, <2>7 DEF SuccessInv, Unscored
<1>5. ASSUME NEW t \in Ticks, TickStep(t) \/ GiveUp(t) \/ Crash(t), ~Reconcile(t)
      PROVE  /\ status = "complete" /\ retention \in {"live", "sealed_complete"}
             /\ mapped' = mapped /\ recheck' = recheck /\ weight' = weight /\ facts' = facts
  <2>1. retention' = retention
    BY <1>5 DEF TickStep, Acquire, Recover, Skip, Begin, SkipSource, StartSource, MapRows,
       Reap, ReconcileFails, GiveUp, Crash, ledger
  <2>2. ~StartSource(t) /\ ~MapRows(t) /\ ~Reap(t)
    <3>1. ASSUME StartSource(t) \/ MapRows(t) \/ Reap(t)
          PROVE  pc[t] \in Sources /\ status' = status
      <4>1. kid[t].at \in {"ended", "mapped"} => pc[t] \in Sources
        BY NoKidAssumption DEF TickInv, NoKid
      <4> QED BY <3>1, <4>1 DEF StartSource, MapRows, Reap, ledger
    <3> QED BY <3>1 DEF TickInv
  <2> QED
    BY <1>5, <2>1, <2>2 DEF TickStep, Acquire, Recover, Skip, Begin, SkipSource,
       ReconcileFails, GiveUp, Crash, ledger, data
<1>6. ASSUME NEW incomplete \in BOOLEAN, NEW expired \in BOOLEAN, Retain(incomplete, expired)
      PROVE  /\ status = "complete" /\ retention \in {"live", "sealed_complete"}
             /\ mapped' = mapped /\ recheck' = recheck
             /\ Guba \in mapped => weight' = weight
             /\ facts' = facts \/ facts' = Aggregate
  <2>1. /\ UNCHANGED <<status, recheck>>
        /\ retention # "live" => retention' \in {retention, "purged", "purged_incomplete"}
        /\ Kept' => stored' = stored /\ mapped' = mapped
        /\ weight' = (IF Guba \in stored' THEN weight ELSE None)
        /\ facts' = facts \/ facts' = Aggregate
    BY <1>6, Retained
  <2>2. stored' = stored /\ mapped' = mapped
    BY <2>1 DEF Kept
  <2>3. mapped \subseteq stored
    BY DEF RetailTypeOK
  <2>4. retention \in {"live", "sealed_complete"}
    BY <2>1 DEF RetailTypeOK
  <2> QED BY <2>1, <2>2, <2>3, <2>4
<1>7. CASE GoStale \/ UNCHANGED rwvars
  BY <1>2, <1>7 DEF GoStale, rwvars, ledger, data
<1> QED BY <1>2, <1>3, <1>4, <1>5, <1>6, <1>7 DEF RetailNext

---------------------------------------------------------------------------
(* The theorems *)

LEMMA RetailInvariant == RetailSpec => []RetailIInv
<1>1. RetailInit => RetailIInv
  <2> SUFFICES ASSUME RetailInit PROVE RetailIInv
    OBVIOUS
  <2> USE RetailAssumption, NoKidAssumption
  <2>1. RetailTypeOK
    <3>1. kid \in [Kids -> Kid]
      BY KidTyped DEF RetailInit
    <3>2. /\ src \in [Sources -> {"absent", "running", "partial", "complete", "empty", "failed"}]
          /\ status \in {"pending", "running", "partial", "complete", "failed"}
      BY DEF RetailInit
    <3>3. facts \in [raw : SUBSET Rows, weight : Weights \cup {None}]
      BY DEF RetailInit
    <3>4. /\ lock \in Ticks \cup {None} /\ crashes \in 0 .. MaxCrashes
          /\ pc \in [Ticks -> {"out", "orphans", "window", "reconcile"} \cup Sources]
      BY DEF RetailInit
    <3>5. /\ seg \in [Requests -> {"absent", "running", "partial", "failed", "complete"}]
          /\ cp \in [Requests -> (0 .. LastPage) \cup {None}]
      BY DEF RetailInit
    <3>6. /\ retention = "live" /\ recheck = 0 /\ fresh = FALSE
          /\ stored = {} /\ mapped = {} /\ weight = None
      BY DEF RetailInit
    <3>7. /\ retention \in {"live", "sealed_complete", "sealed_incomplete",
                            "purged", "purged_incomplete"}
          /\ recheck \in 0 .. 2
      BY <3>6
    <3>9. /\ mapped \subseteq stored /\ stored \subseteq Rows
          /\ fresh \in BOOLEAN /\ weight \in Weights \cup {None}
      BY <3>6, Zenon
    <3>8. kid \in [Kids -> [source : Sources \cup {None}, offset : 0 .. LastPage,
                            at : {None, "start", "checkpoint", "page", "chosen", "ended", "mapped"},
                            request : 0 .. NumRequests + 1, clean : BOOLEAN]]
      BY <3>1 DEF Kid
    <3> HIDE RetailAssumption, NoKidAssumption
    <3> QED BY <3>2, <3>3, <3>4, <3>5, <3>7, <3>8, <3>9, Zenon DEF RetailTypeOK
  <2>2. TickInv
    BY DEF RetailInit, TickInv, Kids, Sources
  <2>3. KidInv
    BY DEF RetailInit, KidInv, Fits, NoKid
  <2>4. SuccessInv /\ PagesHaveNoGap /\ CompleteIsComplete
    BY DEF RetailInit, SuccessInv, FetchSuccess, PagesHaveNoGap, CompleteIsComplete, Sources
  <2> QED BY <2>1, <2>2, <2>3, <2>4 DEF RetailIInv
<1>2. RetailIInv /\ [RetailNext]_rwvars => RetailIInv'
  BY TypeStep, TickStays, KidStays, SuccessStep, PagesStep, CompleteStep DEF RetailIInv
<1> QED BY <1>1, <1>2, PTL DEF RetailSpec

\* A window on record as complete has every page, the posts or two runs without
\* one, no post unscored, and facts that count just these rows and labels, although
\* orphans go on renewing heat and labels.
THEOREM CompleteTrue == RetailSpec => []RetailInv
<1>1. RetailIInv => RetailInv
  BY DEF RetailIInv, RetailInv
<1> QED BY <1>1, RetailInvariant, PTL

\* However many crawlers share a checkpoint, no page before it is missing.
THEOREM NoGap == RetailSpec => []PagesHaveNoGap
<1>1. RetailIInv => PagesHaveNoGap
  BY DEF RetailIInv
<1> QED BY <1>1, RetailInvariant, PTL

\* A sealed window keeps its status and what its facts count, and is never live
\* again; its facts are weighed anew only from its own rows, for the last time in the
\* transaction that purges them.
THEOREM SealedFinal == RetailSpec => SealedStaysSealed
<1> DEFINE Sealed ==
      /\ retention' \in {retention, "purged", "purged_incomplete"}
      /\ status' = status
      /\ Counts(facts') = Counts(facts)
      /\ IF retention = "sealed_complete" THEN facts' \in {facts, Aggregate}
         ELSE facts' = facts
      /\ retention = "sealed_complete" /\ retention' # retention =>
           retention' = "purged" /\ facts' = Aggregate
<1>1. RetailIInv /\ [RetailNext]_rwvars => [retention # "live" => Sealed]_rwvars
  <2> SUFFICES ASSUME RetailIInv, [RetailNext]_rwvars, retention # "live"
               PROVE  Sealed
    OBVIOUS
  <2> USE DEF RetailIInv
  <2>1. status # "running" /\ \A t \in Ticks : pc[t] \notin Sources \cup {"reconcile"}
    BY DEF TickInv
  <2>2. ASSUME NEW t \in Ticks, TickStep(t) \/ GiveUp(t) \/ Crash(t)
        PROVE  UNCHANGED <<retention, status, facts>>
    <3>1. kid[t].at \notin {"ended", "mapped"}
      BY <2>1, NoKidAssumption DEF TickInv, NoKid
    <3> QED
      BY <2>1, <2>2, <3>1 DEF TickStep, Acquire, Recover, Skip, Begin, SkipSource, StartSource,
         MapRows, Reap, Reconcile, ReconcileFails, GiveUp, Crash, ledger, data
  <2>3. ASSUME NEW k \in Kids, KidStep(k) \/ Kill(k) PROVE UNCHANGED <<retention, status, facts>>
    BY <2>3, KidMoves DEF ledger
  <2>4. ASSUME GoStale \/ UNCHANGED rwvars PROVE UNCHANGED <<retention, status, facts>>
    BY <2>4 DEF GoStale, rwvars, ledger, data
  <2>5. ASSUME UNCHANGED <<retention, status, facts>> PROVE Sealed
    BY <2>5
  <2>6. ASSUME NEW incomplete \in BOOLEAN, NEW expired \in BOOLEAN, Retain(incomplete, expired)
        PROVE  Sealed
    <3>1. retention = "sealed_complete" => Counts(facts) = Counts(Aggregate)
      BY DEF TickInv, CompleteIsComplete
    <3>2. /\ retention' \in {retention, "purged", "purged_incomplete"} /\ status' = status
          /\ facts' \in {facts, Aggregate}
          /\ retention = "sealed_complete" \/ facts' = facts
          /\ retention = "sealed_complete" /\ retention' # retention =>
               retention' = "purged" /\ facts' = Aggregate
      BY <2>6, Retained
    <3>3. Counts(facts') = Counts(facts)
      BY <3>1, <3>2
    <3> QED BY <3>2, <3>3
  <2> QED BY <2>2, <2>3, <2>4, <2>5, <2>6 DEF RetailNext
<1> QED BY <1>1, RetailInvariant, PTL DEF RetailSpec, SealedStaysSealed
=============================================================================
