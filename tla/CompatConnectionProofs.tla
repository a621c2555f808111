---------------------- MODULE CompatConnectionProofs ----------------------
(***************************************************************************)
(* Theorems about CompatConnection and the DomainMutation it composes, for  *)
(* any rows, programs, clients, crashes and losses.                         *)
(***************************************************************************)
EXTENDS CompatConnection, TLAPS

(* What a commit sends *)

Functional(batch) == \A m, n \in batch : m.row = n.row => m = n

LEMMA MutationsTyped ==
    ASSUME CompatTypeOK, NEW c \in Clients, Running(c)
    PROVE  /\ After(c) \in [Rows -> Values \cup {None}]
           /\ Mutations(c) \subseteq Mutation
           /\ Functional(Mutations(c))
           /\ step[c] \in 1..MaxIndex
<1>1. op[c] \in Operations /\ step[c] \in 1..Len(Program[op[c]])
  BY ProgramAssumption, MutationAssumption DEF CompatTypeOK, Running
<1>2. step[c] \in 1..MaxIndex
  BY <1>1, ProgramAssumption, MutationAssumption
<1>3. After(c) \in [Rows -> Values \cup {None}]
  BY <1>1, ProgramAssumption DEF After, CompatTypeOK
<1>4. Mutations(c) \subseteq Mutation
  BY <1>3 DEF Mutations, Mutation, CompatTypeOK
<1>5. Functional(Mutations(c))
  BY DEF Mutations, Functional
<1> QED BY <1>2, <1>3, <1>4, <1>5

(* What the server makes of a call *)

\* The call goes on to its lock or is answered; only a stored batch is
\* answered "ok".
LEMMA ServeCalls ==
    ASSUME CompatTypeOK, NEW k \in calls, Serve(k)
    PROVE  \A j \in calls' : \/ j \in calls
                             \/ /\ j \in Call
                                /\ j.key = k.key /\ j.batch = k.batch
                                /\ j.client = k.client
                                /\ j.phase # "locking" => k.client # None
                                /\ j.phase = "ok" => \E x \in results' :
                                     x.key = k.key /\ x.batch = k.batch
<1>1. k \in Call
  BY DEF CompatTypeOK, ServerTypeOK
<1>2. ASSUME NEW p \in {"ok", "error", "conflict", "rejected"}, Answer(k, p), NEW j \in calls'
      PROVE  \/ j \in calls
             \/ /\ j \in Call
                /\ j.key = k.key /\ j.batch = k.batch
                /\ j.client = k.client /\ k.client # None /\ j.phase = p
  BY <1>1, <1>2 DEF Answer, Call
<1>3. CASE Lookup(k)
  <2>1. CASE (\E x \in results : x.key = k.key /\ x.batch = k.batch) /\ Answer(k, "ok")
    <3>1. \E x \in results' : x.key = k.key /\ x.batch = k.batch
      BY <1>3, <2>1 DEF Lookup, server
    <3>2. Answer(k, "ok")
      BY <2>1
    <3> QED BY <1>2, <3>1, <3>2
  <2>2. CASE Answer(k, "conflict")
    BY <1>2, <2>2
  <2>3. CASE calls' = (calls \ {k}) \cup {[k EXCEPT !.phase = "locking"]}
    BY <1>1, <2>3 DEF Call
  <2> QED BY <1>3, <2>1, <2>2, <2>3 DEF Lookup
<1>4. CASE Apply(k)
  <2>1. Answer(k, "ok")
    BY <1>4, Zenon DEF Apply
  <2>2. [key |-> k.key, batch |-> k.batch, tx |-> k.tx] \in results'
    BY <1>4, Zenon DEF Apply
  <2>3. \E x \in results' : x.key = k.key /\ x.batch = k.batch
    BY <2>2
  <2> QED BY <1>2, <2>1, <2>3
<1>5. CASE Refuse(k)
  BY <1>2, <1>5 DEF Refuse
<1>6. CASE Reject(k)
  BY <1>2, <1>6 DEF Reject
<1> QED BY <1>3, <1>4, <1>5, <1>6 DEF Serve

(* Types, and what a connection in doubt waits for *)

InDoubt ==
    /\ \A k \in calls : k.phase \notin {"sent", "locking"} => k.client # None
    /\ \A c \in Clients : pending[c] # None =>
         Running(c) /\ pending[c].batch = Mutations(c)
    /\ \A c \in Clients : index[c] <= step[c] /\ (pending[c] = None => index[c] < step[c])

ConnectionShape == CompatTypeOK /\ InDoubt /\ OneBatchInDoubt

\* One client moves, and the calls waited for are its own pending batch or
\* were there before.
OnlyMoves(c) ==
    \A d \in Clients \ {c} :
      /\ op'[d] = op[d] /\ step'[d] = step[d] /\ index'[d] = index[d]
      /\ before'[d] = before[d] /\ known'[d] = known[d] /\ pending'[d] = pending[d]

CallsFollow(c) ==
    \A j \in calls' :
      /\ j.phase \notin {"sent", "locking"} => j.client # None
      /\ j.client # None =>
           \/ /\ j.client # c
              /\ \E k \in calls : k.client = j.client /\ k.key = j.key /\ k.batch = j.batch
           \/ /\ pending'[j.client] # None
              /\ pending'[j.client].key = j.key /\ pending'[j.client].batch = j.batch

ClientFollows(c) ==
    /\ pending'[c] # None => Running(c)' /\ pending'[c].batch = Mutations(c)'
    /\ index'[c] <= step'[c]
    /\ pending'[c] = None => index'[c] < step'[c]

LEMMA ShapeFollows ==
    ASSUME ConnectionShape, CompatTypeOK', NEW c \in Clients,
           OnlyMoves(c), ClientFollows(c), CallsFollow(c)
    PROVE  ConnectionShape'
<1>1. \A d \in Clients \ {c} : Running(d)' = Running(d) /\ Mutations(d)' = Mutations(d)
  BY DEF OnlyMoves, Running, Mutations, After
<1>2. InDoubt'
  BY <1>1 DEF ConnectionShape, InDoubt, OnlyMoves, ClientFollows, CallsFollow
<1>3. \A j \in calls' : j.client # None => j.client \in Clients
  BY DEF CompatTypeOK, ServerTypeOK, Call
<1>4. OneBatchInDoubt'
  BY <1>3 DEF ConnectionShape, OneBatchInDoubt, OnlyMoves, CallsFollow
<1> QED BY <1>2, <1>4 DEF ConnectionShape

\* The same when no client moves.
LEMMA ShapeStays ==
    ASSUME ConnectionShape, CompatTypeOK', UNCHANGED connection,
           \A j \in calls' :
             /\ j.phase \notin {"sent", "locking"} => j.client # None
             /\ j.client # None =>
                  \E k \in calls : k.client = j.client /\ k.key = j.key /\ k.batch = j.batch
    PROVE  ConnectionShape'
<1>1. UNCHANGED <<op, step, index, before, known, pending>>
  BY DEF connection
<1>2. \A d \in Clients : Running(d)' = Running(d) /\ Mutations(d)' = Mutations(d)
  BY <1>1 DEF Running, Mutations, After
<1>3. InDoubt'
  BY <1>1, <1>2 DEF ConnectionShape, InDoubt
<1>4. OneBatchInDoubt'
  BY <1>1 DEF ConnectionShape, OneBatchInDoubt
<1> QED BY <1>3, <1>4 DEF ConnectionShape

(* The actions keep the shape, one lemma each where it takes more than a step *)

LEMMA ApplyTyped ==
    ASSUME CompatTypeOK, NEW k \in calls, Apply(k), calls' \subseteq Call
    PROVE  ServerTypeOK'
<1>1. k.batch \subseteq Mutation /\ k.key \in Key /\ k.tx \in Nat
  BY DEF CompatTypeOK, ServerTypeOK, Call
<1>2. version' \in [Rows -> Nat]
  BY <1>1 DEF Apply, CompatTypeOK, ServerTypeOK
<1>3. \A r \in Rows : (\E m \in k.batch : m.row = r) =>
        (CHOOSE m \in k.batch : m.row = r) \in k.batch
  OBVIOUS
<1>4. \A m \in k.batch : m.value \in Values \cup {None} /\ m.row \in Rows /\ m.expected \in Nat
  BY <1>1 DEF Mutation
<1>5. value' \in [Rows -> Values \cup {None}]
  BY <1>3, <1>4 DEF Apply, CompatTypeOK, ServerTypeOK
<1>6. ledger' \subseteq Entry
  BY <1>1, <1>4 DEF Apply, CompatTypeOK, ServerTypeOK, Entry
<1>7. results' \subseteq Result
  <2>1. [key |-> k.key, batch |-> k.batch, tx |-> k.tx] \in Result
    BY <1>1 DEF Result
  <2>2. results' = results \cup {[key |-> k.key, batch |-> k.batch, tx |-> k.tx]}
    BY DEF Apply
  <2> QED BY <2>1, <2>2 DEF CompatTypeOK, ServerTypeOK
<1> QED BY <1>2, <1>5, <1>6, <1>7 DEF ServerTypeOK

LEMMA ServeShape ==
    ASSUME ConnectionShape, NEW k \in calls, CompatServe(k)
    PROVE  ConnectionShape'
<1>1. CompatTypeOK /\ Serve(k) /\ UNCHANGED <<connection, done, crashes, losses>>
  BY DEF ConnectionShape, CompatServe
<1>2. \A j \in calls' :
        \/ j \in calls
        \/ /\ j \in Call
           /\ j.client = k.client /\ j.key = k.key /\ j.batch = k.batch
           /\ j.phase # "locking" => k.client # None
  BY <1>1, ServeCalls
<1>3. calls' \subseteq Call
  <2>1. calls \subseteq Call
    BY <1>1 DEF CompatTypeOK, ServerTypeOK
  <2> QED BY <1>2, <2>1
<1>4. ServerTypeOK'
  <2>1. CASE Apply(k)
    BY <1>1, <1>3, <2>1, ApplyTyped
  <2>2. CASE UNCHANGED server
    BY <1>1, <1>3, <2>2 DEF CompatTypeOK, ServerTypeOK, server
  <2> QED BY <1>1, <2>1, <2>2 DEF Serve, Lookup, Refuse, Reject
<1>5. CompatTypeOK'
  BY <1>1, <1>4 DEF CompatTypeOK, connection
<1>6. \A j \in calls' :
        /\ j.phase \notin {"sent", "locking"} => j.client # None
        /\ j.client # None =>
             \E i \in calls : i.client = j.client /\ i.key = j.key /\ i.batch = j.batch
  <2>1. \A i \in calls : i.phase \notin {"sent", "locking"} => i.client # None
    BY DEF ConnectionShape, InDoubt
  <2> QED BY <1>2, <2>1
<1> QED BY <1>1, <1>5, <1>6, ShapeStays

LEMMA CommitShape ==
    ASSUME ConnectionShape, NEW c \in Clients, Commit(c) \/ Retry(c) \/ CommitNothing(c)
    PROVE  ConnectionShape'
<1> USE DEF ConnectionShape
<1>1. Running(c) /\ op[c] \in Operations /\ step[c] \in 1..MaxIndex
      /\ Mutations(c) \subseteq Mutation /\ index[c] <= step[c]
  BY MutationsTyped DEF Commit, Retry, CommitNothing, Running, CompatTypeOK, InDoubt
<1>2. op[c] # None /\ Identity[op[c]] \in Identities /\ index[c] \in Nat /\ MaxIndex \in Nat
  BY <1>1, ProgramAssumption, MutationAssumption DEF CompatTypeOK
<1>3. CASE CommitNothing(c)
  <2>1. CompatTypeOK'
    BY <1>1, <1>3, MutationAssumption DEF CommitNothing, CompatTypeOK, ServerTypeOK, server
  <2>2. OnlyMoves(c)
    BY <1>3 DEF CommitNothing, OnlyMoves, CompatTypeOK
  <2>3. ClientFollows(c)
    BY <1>3 DEF CommitNothing, ClientFollows, CompatTypeOK, InDoubt
  <2>4. CallsFollow(c)
    BY <1>3 DEF CommitNothing, CallsFollow, CompatTypeOK, InDoubt, OneBatchInDoubt
  <2> QED BY <2>1, <2>2, <2>3, <2>4, ShapeFollows
<1>4. CASE Commit(c)
  <2> DEFINE key == [id |-> Identity[op[c]], index |-> index[c] + 1]
             new == [key |-> key, batch |-> Mutations(c)]
             call == [key |-> key, batch |-> Mutations(c), tx |-> step[c],
                      client |-> c, phase |-> "sent"]
  <2>1. pending[c] = None /\ index[c] < step[c]
    BY <1>4 DEF Commit, InDoubt
  <2>2. key \in Key
    BY <1>1, <1>2, <2>1 DEF Key
  <2>3. new \in Pending /\ call \in Call
    BY <1>1, <2>2 DEF Pending, Call
  <2>4. /\ calls' = calls \cup {call}
        /\ pending' = [pending EXCEPT ![c] = new]
        /\ index' = [index EXCEPT ![c] = index[c] + 1]
        /\ UNCHANGED <<server, op, step, before, known, done, crashes, losses>>
    BY <1>4 DEF Commit, Send
  <2> HIDE DEF key, new, call
  <2>5. index' \in [Clients -> 0..MaxIndex] /\ pending' \in [Clients -> Pending \cup {None}]
    BY <1>1, <1>2, <2>1, <2>3, <2>4 DEF CompatTypeOK
  <2>6. CompatTypeOK'
    BY <2>3, <2>4, <2>5 DEF CompatTypeOK, ServerTypeOK, server
  <2>7. OnlyMoves(c)
    BY <2>4 DEF OnlyMoves, CompatTypeOK
  <2>8. pending'[c] = new /\ pending'[c] # None /\ new.batch = Mutations(c) /\ new.key = key
    BY <2>3, <2>4, PendingAssumption DEF CompatTypeOK, new
  <2>9. Running(c)' /\ Mutations(c)' = Mutations(c)
    BY <1>1, <2>4 DEF Running, Mutations, After
  <2>10. ClientFollows(c)
    BY <2>1, <2>4, <2>8, <2>9 DEF ClientFollows, CompatTypeOK
  <2>11. CallsFollow(c)
    BY <2>1, <2>4, <2>8 DEF CallsFollow, InDoubt, OneBatchInDoubt, call
  <2> QED BY <2>6, <2>7, <2>10, <2>11, ShapeFollows
<1>5. CASE Retry(c)
  <2> DEFINE call == [key |-> pending[c].key, batch |-> pending[c].batch, tx |-> step[c],
                      client |-> c, phase |-> "sent"]
  <2>1. calls' = calls \cup {call} /\ UNCHANGED <<server, connection, done, crashes, losses>>
    BY <1>5 DEF Retry, Send
  <2>2. pending[c] \in Pending /\ pending[c] # None
    BY <1>5 DEF Retry, CompatTypeOK
  <2>3. call \in Call
    BY <1>1, <2>2 DEF Call, Pending
  <2>4. CompatTypeOK'
    BY <2>1, <2>3 DEF CompatTypeOK, ServerTypeOK, server, connection
  <2>5. OnlyMoves(c) /\ ClientFollows(c)
    BY <2>1 DEF OnlyMoves, ClientFollows, connection, InDoubt, Running, Mutations, After
  <2>6. CallsFollow(c)
    BY <2>1, <2>2 DEF CallsFollow, connection, InDoubt, OneBatchInDoubt
  <2> QED BY <2>4, <2>5, <2>6, ShapeFollows
<1> QED BY <1>3, <1>4, <1>5

\* The connection is opened, finished with, or dies: nothing is in doubt.
LEMMA FreshShape ==
    ASSUME ConnectionShape, NEW c \in Clients,
           (\E o \in Operations : Open(c, o)) \/ Crash(c) \/ Finish(c)
    PROVE  ConnectionShape'
<1> USE DEF ConnectionShape
<1>1. CASE \E o \in Operations : Open(c, o)
  <2>1. PICK o \in Operations : Open(c, o)
    BY <1>1
  <2>2. CompatTypeOK'
    BY <2>1, MutationAssumption DEF Open, CompatTypeOK, ServerTypeOK, server
  <2>3. OnlyMoves(c) /\ pending'[c] = None /\ index'[c] = 0 /\ step'[c] = 1
    BY <2>1 DEF Open, OnlyMoves, CompatTypeOK
  <2>4. pending[c] = None
    BY <2>1 DEF Open, InDoubt, Running
  <2>5. calls' = calls
    BY <2>1 DEF Open
  <2>6. ClientFollows(c)
    BY <2>3 DEF ClientFollows
  <2>7. CallsFollow(c)
    BY <2>4, <2>5 DEF CallsFollow, InDoubt, OneBatchInDoubt
  <2> QED BY <2>2, <2>3, <2>6, <2>7, ShapeFollows
<1>2. CASE Finish(c)
  <2>1. pending[c] = None
    BY <1>2, ProgramAssumption, MutationAssumption
    DEF Finish, InDoubt, Running, CompatTypeOK
  <2>2. CompatTypeOK'
    BY <1>2, MutationAssumption DEF Finish, Forget, CompatTypeOK, ServerTypeOK, server
  <2>3. OnlyMoves(c) /\ pending'[c] = None /\ index'[c] = 0 /\ step'[c] = 1
    BY <1>2 DEF Finish, Forget, OnlyMoves, CompatTypeOK
  <2>4. ClientFollows(c)
    BY <2>3 DEF ClientFollows
  <2>5. CallsFollow(c)
    BY <1>2, <2>1 DEF Finish, CallsFollow, InDoubt, OneBatchInDoubt
  <2> QED BY <2>2, <2>3, <2>4, <2>5, ShapeFollows
<1>3. CASE Crash(c)
  <2>1. \A j \in calls' :
          \/ j \in calls /\ j.client # c
          \/ j \in Call /\ j.client = None /\ j.phase \in {"sent", "locking"}
    <3>1. calls \subseteq Call
      BY DEF CompatTypeOK, ServerTypeOK
    <3>2. \A j \in calls' :
            \/ j \in calls /\ j.client # c
            \/ \E k \in calls : k.phase \in {"sent", "locking"} /\ j = [k EXCEPT !.client = None]
      BY <1>3 DEF Crash
    <3> QED BY <3>1, <3>2 DEF Call
  <2>2. calls' \subseteq Call
    BY <2>1 DEF CompatTypeOK, ServerTypeOK
  <2>3. CompatTypeOK'
    <3>1. crashes' \in 0..MaxCrashes
      BY <1>3, ProgramAssumption DEF Crash, CompatTypeOK
    <3>2. ServerTypeOK'
      BY <1>3, <2>2 DEF Crash, CompatTypeOK, ServerTypeOK, server
    <3> QED
      BY <1>3, <3>1, <3>2, MutationAssumption DEF Crash, Forget, CompatTypeOK
  <2>4. OnlyMoves(c) /\ pending'[c] = None /\ index'[c] = 0 /\ step'[c] = 1
    BY <1>3 DEF Crash, Forget, OnlyMoves, CompatTypeOK
  <2>5. ClientFollows(c)
    BY <2>4 DEF ClientFollows
  <2>6. CallsFollow(c)
    BY <2>1 DEF CallsFollow, InDoubt
  <2> QED BY <2>3, <2>4, <2>5, <2>6, ShapeFollows
<1> QED BY <1>1, <1>2, <1>3

\* A connection waits for one call at a time.
OneCall ==
    \A j, k \in calls : j.client # None /\ j.client = k.client => j = k

LEMMA AnswerShape ==
    ASSUME ConnectionShape, OneCall, NEW k \in calls,
           Acknowledge(k) \/ Disappoint(k) \/ Lose(k) \/ Vanish(k)
    PROVE  ConnectionShape'
<1> USE DEF ConnectionShape
<1>1. k \in Call /\ calls \subseteq Call
  BY DEF CompatTypeOK, ServerTypeOK
<1>2. CASE Acknowledge(k)
  <2> DEFINE c == k.client
  <2>1. c \in Clients /\ pending[c] # None /\ Running(c) /\ index[c] <= step[c]
    BY <1>1, <1>2 DEF Acknowledge, InDoubt, OneBatchInDoubt, Call
  <2>2. After(c) \in [Rows -> Values \cup {None}] /\ step[c] \in 1..MaxIndex
    BY <2>1, MutationsTyped
  <2>3. CompatTypeOK'
    <3>1. before' \in [Clients -> [Rows -> Values \cup {None}]]
      BY <1>2, <2>1, <2>2 DEF Acknowledge, CompatTypeOK
    <3>2. known' \in [Clients -> [Rows -> Nat]]
      BY <1>2, <2>1 DEF Acknowledge, CompatTypeOK
    <3>3. step' \in [Clients -> 1..(MaxIndex + 1)] /\ pending' \in [Clients -> Pending \cup {None}]
      BY <1>2, <2>1, <2>2, MutationAssumption DEF Acknowledge, CompatTypeOK
    <3>4. ServerTypeOK'
      BY <1>1, <1>2 DEF Acknowledge, CompatTypeOK, ServerTypeOK, server
    <3> QED BY <1>2, <3>1, <3>2, <3>3, <3>4 DEF Acknowledge, CompatTypeOK
  <2>4. OnlyMoves(c)
    BY <1>2, <2>1 DEF Acknowledge, OnlyMoves, CompatTypeOK
  <2>5. pending'[c] = None /\ step'[c] = step[c] + 1 /\ index'[c] = index[c]
    BY <1>2, <2>1 DEF Acknowledge, CompatTypeOK
  <2>6. ClientFollows(c)
    BY <2>1, <2>2, <2>5 DEF ClientFollows, CompatTypeOK
  <2>7. CallsFollow(c)
    <3>1. \A j \in calls : j.client = c => j = k
      BY <2>1, MutationAssumption DEF OneCall
    <3> QED BY <1>2, <3>1 DEF Acknowledge, CallsFollow, InDoubt, OneBatchInDoubt
  <2> QED BY <2>1, <2>3, <2>4, <2>6, <2>7, ShapeFollows
<1>3. CASE Disappoint(k) \/ Vanish(k)
  <2>1. calls' \subseteq calls /\ UNCHANGED <<server, connection, done, crashes, losses>>
    BY <1>3 DEF Disappoint, Vanish
  <2>2. CompatTypeOK'
    BY <2>1, <1>1 DEF CompatTypeOK, ServerTypeOK, server, connection
  <2> QED BY <2>1, <2>2, ShapeStays DEF InDoubt
<1>4. CASE Lose(k)
  <2>1. \A j \in calls' :
          \/ j \in calls
          \/ j \in Call /\ j.client = None /\ j.phase \in {"sent", "locking"}
    BY <1>1, <1>4 DEF Lose, Call
  <2>2. CompatTypeOK'
    <3>1. calls' \subseteq Call
      BY <1>1, <2>1
    <3>2. losses' \in 0..MaxLosses
      BY <1>4, ProgramAssumption DEF Lose, CompatTypeOK
    <3> QED BY <1>4, <3>1, <3>2 DEF Lose, CompatTypeOK, ServerTypeOK, server, connection
  <2>3. UNCHANGED connection
    BY <1>4 DEF Lose
  <2> QED BY <2>1, <2>2, <2>3, ShapeStays DEF InDoubt
<1> QED BY <1>2, <1>3, <1>4

LEMMA OneCallStep ==
    ASSUME ConnectionShape, OneCall, [CompatNext]_cvars
    PROVE  OneCall'
<1>1. CASE \E k \in calls : \E n : /\ calls' \subseteq (calls \ {k}) \cup {n}
                                   /\ n.client \in {None, k.client}
  BY <1>1 DEF OneCall
<1>2. ASSUME NEW c \in Clients, Commit(c) \/ Retry(c) PROVE OneCall'
  <2>1. \A j \in calls : j.client # c
    BY <1>2, MutationAssumption DEF Commit, Retry, Waiting, ConnectionShape, OneBatchInDoubt
  <2>2. \E n : calls' = calls \cup {n} /\ n.client = c
    <3>1. ASSUME NEW key, NEW batch, Send(c, key, batch)
          PROVE  \E n : calls' = calls \cup {n} /\ n.client = c
      <4> DEFINE n == [key |-> key, batch |-> batch, tx |-> step[c],
                       client |-> c, phase |-> "sent"]
      <4>1. calls' = calls \cup {n} /\ n.client = c
        BY <3>1 DEF Send
      <4> QED BY <4>1
    <3> QED BY <1>2, <3>1, Zenon DEF Commit, Retry
  <2> QED BY <2>1, <2>2 DEF OneCall
<1>3. ASSUME NEW c \in Clients, Crash(c) PROVE OneCall'
  <2>1. \A j \in calls : j \in Call
    BY DEF ConnectionShape, CompatTypeOK, ServerTypeOK
  <2>2. \A j \in calls' : j \in calls \/ j.client = None
    BY <1>3, <2>1 DEF Crash, Call
  <2> QED BY <2>2 DEF OneCall
<1>4. CASE calls' \subseteq calls
  BY <1>4 DEF OneCall
<1>5. ASSUME NEW k \in calls, Serve(k) PROVE OneCall'
  <2>1. k \in Call
    BY DEF ConnectionShape, CompatTypeOK, ServerTypeOK
  <2>2. ASSUME NEW p, calls' \subseteq (calls \ {k}) \cup {[k EXCEPT !.phase = p]}
        PROVE  OneCall'
    <3>1. [k EXCEPT !.phase = p].client = k.client
      BY <2>1 DEF Call
    <3> QED BY <1>1, <2>2, <3>1
  <2>3. ASSUME NEW p, Answer(k, p) PROVE OneCall'
    BY <2>2, <2>3 DEF Answer
  <2> QED BY <1>5, <2>2, <2>3 DEF Serve, Lookup, Apply, Refuse, Reject
<1>6. ASSUME NEW k \in calls, Lose(k) PROVE OneCall'
  <2>1. k \in Call
    BY DEF ConnectionShape, CompatTypeOK, ServerTypeOK
  <2>2. [k EXCEPT !.client = None].client = None
    BY <2>1 DEF Call
  <2>3. calls' \subseteq (calls \ {k}) \cup {[k EXCEPT !.client = None]}
    BY <1>6 DEF Lose
  <2> QED BY <1>1, <2>2, <2>3
<1> QED
  BY <1>2, <1>3, <1>4, <1>5, <1>6
  DEF CompatNext, CompatServe, Open, CommitNothing, Finish, Acknowledge, Disappoint,
      Vanish, cvars

LEMMA ConnectionShapeStep ==
    ASSUME ConnectionShape, OneCall, [CompatNext]_cvars
    PROVE  ConnectionShape'
<1>1. CASE UNCHANGED cvars
  <2>1. CompatTypeOK'
    BY <1>1 DEF cvars, connection, server, ConnectionShape, CompatTypeOK, ServerTypeOK
  <2> QED BY <1>1, <2>1, ShapeStays DEF cvars, ConnectionShape, InDoubt
<1> QED BY <1>1, ServeShape, CommitShape, FreshShape, AnswerShape DEF CompatNext

\* Types, and one batch in doubt: while its outcome is unknown, a connection
\* has nothing but its pending batch under way.
THEOREM OneInDoubt == CompatSpec => [](CompatTypeOK /\ OneBatchInDoubt)
<1>1. CompatInit => ConnectionShape /\ OneCall
  BY ProgramAssumption, MutationAssumption
  DEF CompatInit, ServerInit, BaseVersion, ConnectionShape, CompatTypeOK, ServerTypeOK,
      InDoubt, OneBatchInDoubt, OneCall
<1>2. ConnectionShape => CompatTypeOK /\ OneBatchInDoubt
  BY DEF ConnectionShape
<1> QED BY <1>1, <1>2, OneCallStep, ConnectionShapeStep, PTL DEF CompatSpec

(* Batches are atomic, versions have one author *)

Entries(key, batch) ==
    {[row |-> m.row, to |-> m.expected + 1, value |-> m.value, key |-> key] : m \in batch}

LEMMA AtomicStep ==
    ASSUME BatchIsAtomic, [CompatNext]_cvars
    PROVE  BatchIsAtomic'
<1>1. CASE UNCHANGED server
  BY <1>1 DEF server, BatchIsAtomic
<1>2. ASSUME NEW k \in calls, Apply(k) PROVE BatchIsAtomic'
  <2> DEFINE new == [key |-> k.key, batch |-> k.batch, tx |-> k.tx]
  <2>1. results' = results \cup {new} /\ \A x \in results : x.key # k.key
    BY <1>2 DEF Apply
  <2>2. ledger' = ledger \cup Entries(k.key, k.batch)
    BY <1>2 DEF Apply, Entries
  <2>3. ledger = UNION {Entries(x.key, x.batch) : x \in results}
    BY DEF BatchIsAtomic, Entries
  <2>4. new.key = k.key /\ new.batch = k.batch
    OBVIOUS
  <2> HIDE DEF new
  <2>5. ledger' = UNION {Entries(x.key, x.batch) : x \in results'}
    BY <2>1, <2>2, <2>3, <2>4
  <2>6. \A x, y \in results' : x.key = y.key => x = y
    BY <2>1, <2>4 DEF BatchIsAtomic
  <2> QED BY <2>5, <2>6 DEF BatchIsAtomic, Entries
<1> QED
  BY <1>1, <1>2
  DEF CompatNext, CompatServe, Serve, Lookup, Refuse, Reject, Open, CommitNothing, Commit,
      Retry, Crash, Finish, Acknowledge, Disappoint, Lose, Vanish, cvars

\* The strengthening of EveryVersionHasOneAuthor: no row is under its base
\* version, and no batch names a row twice.
History ==
    /\ EveryVersionHasOneAuthor
    /\ \A r \in Rows : BaseVersion(r) <= version[r]
    /\ \A k \in calls : Functional(k.batch)

LEMMA ApplyHistory ==
    ASSUME CompatTypeOK, History, NEW k \in calls, Apply(k)
    PROVE  EveryVersionHasOneAuthor' /\ \A r \in Rows : BaseVersion(r) <= version'[r]
<1>1. /\ version \in [Rows -> Nat] /\ ledger \subseteq Entry
      /\ k.batch \subseteq Mutation /\ Functional(k.batch)
  BY DEF CompatTypeOK, ServerTypeOK, Call, History
<1>2. \A r \in Rows : BaseVersion(r) \in Nat /\ BaseVersion(r)' = BaseVersion(r)
  BY DEF BaseVersion
<1>3. \A m \in k.batch : m.row \in Rows /\ m.expected = version[m.row]
  BY <1>1 DEF Apply, Current, Mutation
<1>4. ledger' = ledger \cup Entries(k.key, k.batch)
  BY DEF Apply, Entries
<1>5. ASSUME NEW m \in k.batch
      PROVE  version'[m.row] = version[m.row] + 1 /\ value'[m.row] = m.value
  <2>1. \A n \in k.batch : n.row = m.row => n = m
    BY <1>1 DEF Functional
  <2>2. (CHOOSE n \in k.batch : n.row = m.row) = m
    BY <2>1
  <2> QED BY <1>3, <2>2 DEF Apply
<1>6. ASSUME NEW r \in Rows, \A m \in k.batch : m.row # r
      PROVE  version'[r] = version[r] /\ value'[r] = value[r]
  BY <1>6 DEF Apply
<1>7. \A e \in Entries(k.key, k.batch) :
        \E m \in k.batch : e = [row |-> m.row, to |-> version[m.row] + 1,
                                value |-> m.value, key |-> k.key]
  BY <1>3 DEF Entries
<1>8. \A e \in ledger : e.row \in Rows /\ e.to \in (BaseVersion(e.row) + 1)..version[e.row]
  BY <1>1 DEF History, EveryVersionHasOneAuthor, Entry
<1>9. ASSUME NEW e \in ledger', NEW f \in ledger', e.row = f.row, e.to = f.to PROVE e = f
  <2>1. CASE e \in ledger /\ f \in ledger
    BY <1>9, <2>1 DEF History, EveryVersionHasOneAuthor
  <2>2. CASE e \in Entries(k.key, k.batch) /\ f \in Entries(k.key, k.batch)
    BY <1>1, <1>7, <1>9, <2>2 DEF Functional
  <2>3. ASSUME NEW a \in ledger, NEW b \in Entries(k.key, k.batch), a.row = b.row, a.to = b.to
        PROVE  FALSE
    <3>1. b.row \in Rows /\ b.to = version[b.row] + 1
      BY <1>3, <1>7
    <3>2. a.to <= version[b.row] /\ version[b.row] \in Nat /\ a.to \in Nat
      BY <1>1, <1>2, <1>8, <2>3, <3>1
    <3> QED BY <2>3, <3>1, <3>2
  <2> QED BY <1>4, <1>9, <2>1, <2>2, <2>3
<1> DEFINE Written(r) ==
             /\ BaseVersion(r) <= version'[r]
             /\ \A n \in (BaseVersion(r) + 1)..version'[r] :
                  \E e \in ledger' : e.row = r /\ e.to = n
             /\ \A e \in ledger' : e.row = r =>
                  /\ e.to \in (BaseVersion(r) + 1)..version'[r]
                  /\ e.to = version'[r] => e.value = value'[r]
             /\ version'[r] = BaseVersion(r) => value'[r] = BaseValue[r]
<1>10. ASSUME NEW r \in Rows
       PROVE  Written(r)
  <2> USE <1>1, <1>2 DEF History, EveryVersionHasOneAuthor
  <2>1. CASE \A m \in k.batch : m.row # r
    <3>1. \A e \in Entries(k.key, k.batch) : e.row # r
      BY <1>7, <2>1
    <3> QED BY <1>4, <1>6, <2>1, <3>1
  <2>2. ASSUME NEW m \in k.batch, m.row = r
        PROVE  Written(r)
    <3> DEFINE new == [row |-> r, to |-> version[r] + 1, value |-> m.value, key |-> k.key]
    <3>1. version'[r] = version[r] + 1 /\ value'[r] = m.value
      BY <1>5, <2>2
    <3>2. new \in ledger'
      BY <1>3, <1>4, <2>2 DEF Entries
    <3>3. \A e \in Entries(k.key, k.batch) : e.row = r => e = new
      BY <1>7, <2>2 DEF Functional
    <3>4. new.row = r /\ new.to = version[r] + 1 /\ new.value = m.value
      OBVIOUS
    <3> HIDE DEF new
    <3>5. version[r] \in Nat /\ BaseVersion(r) \in Nat /\ BaseVersion(r) <= version[r]
      OBVIOUS
    <3>6. \A n \in (BaseVersion(r) + 1)..version'[r] : \E e \in ledger' : e.row = r /\ e.to = n
      <4>1. \A n \in (BaseVersion(r) + 1)..version'[r] :
              n = version[r] + 1 \/ n \in (BaseVersion(r) + 1)..version[r]
        BY <3>1, <3>5
      <4> QED BY <1>4, <3>2, <3>4, <4>1
    <3>7. \A e \in ledger : e.row = r =>
            e.to \in (BaseVersion(r) + 1)..version'[r] /\ e.to # version'[r]
      BY <3>1, <3>5
    <3>8. \A e \in ledger' : e.row = r =>
            /\ e.to \in (BaseVersion(r) + 1)..version'[r]
            /\ e.to = version'[r] => e.value = value'[r]
      BY <1>4, <3>1, <3>3, <3>4, <3>5, <3>7
    <3> QED BY <3>1, <3>5, <3>6, <3>8
  <2> QED BY <2>1, <2>2
<1> QED BY <1>2, <1>9, <1>10 DEF EveryVersionHasOneAuthor

LEMMA FunctionalStep ==
    ASSUME ConnectionShape, \A k \in calls : Functional(k.batch), [CompatNext]_cvars
    PROVE  \A j \in calls' : Functional(j.batch)
<1> USE DEF ConnectionShape
<1>1. \A k \in calls : k \in Call
  BY DEF CompatTypeOK, ServerTypeOK
<1>2. ASSUME NEW k \in calls, Serve(k), NEW j \in calls' PROVE Functional(j.batch)
  <2>1. j \in calls \/ j.batch = k.batch
    BY <1>2, ServeCalls
  <2> QED BY <2>1
<1>3. ASSUME NEW c \in Clients, Commit(c) \/ Retry(c), NEW j \in calls' PROVE Functional(j.batch)
  <2>1. Running(c)
    BY <1>3 DEF Commit, Retry
  <2>2. Functional(Mutations(c))
    BY <2>1, MutationsTyped
  <2>3. j \in calls \/ j.batch = Mutations(c)
    BY <1>3 DEF Commit, Retry, Send, InDoubt
  <2> QED BY <2>2, <2>3
<1>4. ASSUME NEW c \in Clients, Crash(c), NEW j \in calls' PROVE Functional(j.batch)
  <2>1. j \in calls \/ \E k \in calls : j = [k EXCEPT !.client = None]
    BY <1>4 DEF Crash
  <2>2. j \in calls \/ \E k \in calls : j.batch = k.batch
    BY <1>1, <2>1 DEF Call
  <2> QED BY <2>2
<1>5. ASSUME NEW k \in calls, Lose(k), NEW j \in calls' PROVE Functional(j.batch)
  <2>1. j \in calls \/ j = [k EXCEPT !.client = None]
    BY <1>5 DEF Lose
  <2>2. j \in calls \/ j.batch = k.batch
    BY <1>1, <2>1 DEF Call
  <2> QED BY <2>2
<1>6. CASE calls' \subseteq calls
  BY <1>6
<1> QED
  BY <1>2, <1>3, <1>4, <1>5, <1>6
  DEF CompatNext, CompatServe, Open, CommitNothing, Finish, Acknowledge, Disappoint,
      Vanish, cvars

LEMMA HistoryStep ==
    ASSUME ConnectionShape, History, [CompatNext]_cvars
    PROVE  History'
<1>1. \A j \in calls' : Functional(j.batch)
  BY FunctionalStep DEF History
<1>2. CASE UNCHANGED server
  BY <1>1, <1>2 DEF server, History, EveryVersionHasOneAuthor, BaseVersion
<1>3. ASSUME NEW k \in calls, Apply(k) PROVE History'
  BY <1>1, <1>3, ApplyHistory DEF ConnectionShape, History, BaseVersion
<1> QED
  BY <1>2, <1>3
  DEF CompatNext, CompatServe, Serve, Lookup, Refuse, Reject, Open, CommitNothing, Commit,
      Retry, Crash, Finish, Acknowledge, Disappoint, Lose, Vanish, cvars

\* Everything the proofs below start from.
ConnectionInv == ConnectionShape /\ OneCall /\ History /\ BatchIsAtomic

LEMMA ConnectionInvariant == CompatSpec => []ConnectionInv
<1>1. CompatInit => ConnectionInv
  BY ProgramAssumption, MutationAssumption
  DEF CompatInit, ServerInit, BaseVersion, ConnectionShape, CompatTypeOK, ServerTypeOK,
      InDoubt, OneBatchInDoubt, OneCall, ConnectionInv, History, EveryVersionHasOneAuthor,
      BatchIsAtomic
<1>2. ConnectionInv /\ [CompatNext]_cvars => ConnectionInv'
  BY ConnectionShapeStep, OneCallStep, HistoryStep, AtomicStep DEF ConnectionInv
<1> QED BY <1>1, <1>2, PTL DEF CompatSpec

\* Whatever is lost, retried or replayed, a batch leaves all of its rows in the
\* ledger or none, and no update is lost: every version of a row, from the
\* snapshot's to the current one, was written by exactly one mutation, and the
\* payload is the last one's.
THEOREM WholeHistory == CompatSpec => []HistoryIsWhole
<1>1. ConnectionInv => HistoryIsWhole
  BY DEF ConnectionInv, History, HistoryIsWhole
<1> QED BY <1>1, ConnectionInvariant, PTL

(* Beliefs *)

\* Only a stored batch is answered "ok".
OkIsStored ==
    \A k \in calls : k.phase = "ok" =>
      \E x \in results : x.key = k.key /\ x.batch = k.batch

LEMMA OkStep ==
    ASSUME ConnectionShape, OkIsStored, [CompatNext]_cvars
    PROVE  OkIsStored'
<1> USE DEF ConnectionShape
<1>1. \A k \in calls : k \in Call
  BY DEF CompatTypeOK, ServerTypeOK
<1>2. results \subseteq results'
  BY DEF CompatNext, CompatServe, Serve, Lookup, Apply, Refuse, Reject, Open, CommitNothing,
      Commit, Retry, Crash, Finish, Acknowledge, Disappoint, Lose, Vanish, cvars, server
<1>3. ASSUME NEW j \in calls', j \in calls \/ j.phase # "ok" \/
               \E x \in results' : x.key = j.key /\ x.batch = j.batch
      PROVE  j.phase = "ok" => \E x \in results' : x.key = j.key /\ x.batch = j.batch
  BY <1>2, <1>3 DEF OkIsStored
<1>4. ASSUME NEW k \in calls, Serve(k) PROVE OkIsStored'
  <2>1. \A j \in calls' : \/ j \in calls \/ j.phase # "ok"
                          \/ \E x \in results' : x.key = j.key /\ x.batch = j.batch
    BY <1>4, ServeCalls
  <2> QED BY <1>3, <2>1 DEF OkIsStored
<1>5. ASSUME NEW c \in Clients, Commit(c) \/ Retry(c) PROVE OkIsStored'
  <2>1. \A j \in calls' : j \in calls \/ j.phase = "sent"
    BY <1>5 DEF Commit, Retry, Send
  <2> QED BY <1>3, <2>1 DEF OkIsStored
<1>6. ASSUME NEW c \in Clients, Crash(c) PROVE OkIsStored'
  <2>1. \A j \in calls' : j \in calls \/ j.phase # "ok"
    BY <1>1, <1>6 DEF Crash, Call
  <2> QED BY <1>3, <2>1 DEF OkIsStored
<1>7. ASSUME NEW k \in calls, Lose(k) PROVE OkIsStored'
  <2>1. \A j \in calls' : j \in calls \/ j.phase # "ok"
    BY <1>1, <1>7 DEF Lose, Call
  <2> QED BY <1>3, <2>1 DEF OkIsStored
<1>8. CASE calls' \subseteq calls
  BY <1>3, <1>8 DEF OkIsStored
<1> QED
  BY <1>4, <1>5, <1>6, <1>7, <1>8
  DEF CompatNext, CompatServe, Open, CommitNothing, Finish, Acknowledge, Disappoint,
      Vanish, cvars

\* `v` is the payload row `r` had at revision `n`.
Was(r, n, v) ==
    /\ n <= version[r]
    /\ IF n = BaseVersion(r) THEN v = BaseValue[r]
       ELSE \E e \in ledger : e.row = r /\ e.to = n /\ e.value = v

\* What was stays so: versions grow and the ledger is only added to.
LEMMA WasStays ==
    ASSUME CompatTypeOK, [CompatNext]_cvars, NEW r \in Rows, NEW n \in Nat, NEW v, Was(r, n, v)
    PROVE  Was(r, n, v)'
<1>1. ledger \subseteq ledger'
  BY DEF CompatNext, CompatServe, Serve, Lookup, Apply, Refuse, Reject, Open, CommitNothing,
      Commit, Retry, Crash, Finish, Acknowledge, Disappoint, Lose, Vanish, cvars, server
<1>2. version[r] \in Nat /\ (version'[r] = version[r] \/ version'[r] = version[r] + 1)
  <2>1. CASE UNCHANGED server
    BY <2>1 DEF server, CompatTypeOK, ServerTypeOK
  <2>2. ASSUME NEW k \in calls, Apply(k)
        PROVE  version[r] \in Nat /\ (version'[r] = version[r] \/ version'[r] = version[r] + 1)
    BY <2>2 DEF Apply, CompatTypeOK, ServerTypeOK
  <2> QED
    BY <2>1, <2>2
    DEF CompatNext, CompatServe, Serve, Lookup, Refuse, Reject, Open, CommitNothing, Commit,
        Retry, Crash, Finish, Acknowledge, Disappoint, Lose, Vanish, cvars
<1>3. n <= version'[r]
  BY <1>2 DEF Was
<1> QED BY <1>1, <1>3 DEF Was, BaseVersion

\* The current payload of a row is what its version says.
LEMMA CurrentWas ==
    ASSUME CompatTypeOK, History, NEW r \in Rows
    PROVE  Was(r, version[r], value[r])
<1>1. version[r] \in Nat /\ BaseVersion(r) \in Nat /\ BaseVersion(r) <= version[r]
  BY DEF CompatTypeOK, ServerTypeOK, History, BaseVersion
<1>2. CASE version[r] = BaseVersion(r)
  BY <1>1, <1>2 DEF Was, History, EveryVersionHasOneAuthor
<1>3. CASE version[r] # BaseVersion(r)
  <2>1. version[r] \in (BaseVersion(r) + 1)..version[r]
    BY <1>1, <1>3
  <2>2. \E e \in ledger : e.row = r /\ e.to = version[r]
    BY <2>1 DEF History, EveryVersionHasOneAuthor
  <2> QED BY <1>1, <1>3, <2>2 DEF Was, History, EveryVersionHasOneAuthor
<1> QED BY <1>2, <1>3

Belief == \A c \in Clients : op[c] # None => \A r \in Rows : Was(r, known[c][r], before[c][r])

\* An answer "ok" makes the private copy's own transaction part of history.
LEMMA AcknowledgedWas ==
    ASSUME ConnectionInv, OkIsStored, Belief, NEW k \in calls, Acknowledge(k), NEW r \in Rows
    PROVE  Was(r, known'[k.client][r], before'[k.client][r])
<1> DEFINE c == k.client
<1> USE DEF ConnectionInv, ConnectionShape
<1>1. c \in Clients /\ pending[c] # None /\ Running(c) /\ op[c] # None
      /\ k.batch = Mutations(c)
  <2>1. k \in Call
    BY DEF CompatTypeOK, ServerTypeOK
  <2> QED BY <2>1 DEF Acknowledge, InDoubt, OneBatchInDoubt, Call, Running
<1>2. before'[c] = After(c)
  BY <1>1 DEF Acknowledge, CompatTypeOK
<1>3. known'[c][r] = IF \E m \in Mutations(c) : m.row = r THEN known[c][r] + 1 ELSE known[c][r]
  BY <1>1 DEF Acknowledge, CompatTypeOK
<1>4. CASE After(c)[r] = before[c][r]
  <2>1. \A m \in Mutations(c) : m.row # r
    BY <1>4 DEF Mutations
  <2> QED BY <1>1, <1>2, <1>3, <1>4, <2>1 DEF Belief
<1>5. CASE After(c)[r] # before[c][r]
  <2> DEFINE m == [row |-> r, value |-> After(c)[r], expected |-> known[c][r]]
  <2>1. m \in Mutations(c)
    BY <1>5 DEF Mutations
  <2>2. known'[c][r] = known[c][r] + 1
    BY <1>3, <2>1
  <2>3. PICK x \in results : x.batch = Mutations(c)
    BY <1>1 DEF Acknowledge, OkIsStored
  <2> DEFINE e == [row |-> m.row, to |-> m.expected + 1, value |-> m.value, key |-> x.key]
  <2>4. e \in Entries(x.key, x.batch)
    BY <2>1, <2>3 DEF Entries
  <2>5. ledger = UNION {Entries(y.key, y.batch) : y \in results}
    BY DEF BatchIsAtomic, Entries
  <2>6. e \in ledger
    BY <2>4, <2>5
  <2>7. e.row = r /\ e.to = known[c][r] + 1 /\ e.value = After(c)[r]
    OBVIOUS
  <2> HIDE DEF e, m
  <2>8. known[c][r] + 1 \in (BaseVersion(r) + 1)..version[r]
    BY <2>6, <2>7 DEF History, EveryVersionHasOneAuthor
  <2>9. BaseVersion(r) \in Nat /\ version[r] \in Nat
    BY DEF BaseVersion, CompatTypeOK, ServerTypeOK
  <2> QED BY <1>2, <2>2, <2>6, <2>7, <2>8, <2>9 DEF Was
<1> QED BY <1>4, <1>5

LEMMA BeliefStep ==
    ASSUME ConnectionInv, OkIsStored, Belief, [CompatNext]_cvars
    PROVE  Belief'
<1> USE DEF ConnectionInv, ConnectionShape
<1>1. ASSUME NEW c \in Clients, op[c] # None, NEW r \in Rows
      PROVE  Was(r, known[c][r], before[c][r])'
                \/ known'[c] # known[c] \/ before'[c] # before[c]
  <2>1. known[c][r] \in Nat /\ Was(r, known[c][r], before[c][r])
    BY <1>1 DEF Belief, CompatTypeOK
  <2>2. \A v : Was(r, known[c][r], v) => (known'[c] = known[c] /\ before'[c] = before[c] /\ v = before[c][r]
                 => Was(r, known[c][r], before[c][r])')
    BY <2>1, WasStays DEF Was, BaseVersion
  <2> QED BY <2>1, <2>2
<1>2. ASSUME NEW k \in calls, Acknowledge(k) PROVE Belief'
  <2>1. \A d \in Clients \ {k.client} : known'[d] = known[d] /\ before'[d] = before[d]
    BY <1>2 DEF Acknowledge, CompatTypeOK
  <2>2. UNCHANGED <<op, version, ledger>>
    BY <1>2 DEF Acknowledge, server
  <2>3. \A r \in Rows : Was(r, known[k.client][r], before[k.client][r])'
    BY <1>2, <2>2, AcknowledgedWas DEF Was, BaseVersion
  <2> QED BY <1>1, <2>1, <2>2, <2>3 DEF Belief
<1>3. ASSUME NEW c \in Clients, NEW o \in Operations, Open(c, o) PROVE Belief'
  <2>1. \A d \in Clients \ {c} : op'[d] = op[d] /\ known'[d] = known[d] /\ before'[d] = before[d]
    BY <1>3 DEF Open, CompatTypeOK
  <2>2. known'[c] = version /\ before'[c] = value /\ UNCHANGED <<version, ledger>>
    BY <1>3 DEF Open, CompatTypeOK, server
  <2>3. \A r \in Rows : Was(r, known[c][r], before[c][r])'
    BY <2>2, CurrentWas DEF Was, BaseVersion
  <2> QED BY <1>1, <2>1, <2>3 DEF Belief
<1>4. ASSUME NEW c \in Clients, Crash(c) \/ Finish(c) PROVE Belief'
  <2>1. \A d \in Clients \ {c} : op'[d] = op[d] /\ known'[d] = known[d] /\ before'[d] = before[d]
    BY <1>4 DEF Crash, Finish, Forget, CompatTypeOK
  <2>2. op'[c] = None
    BY <1>4 DEF Crash, Finish, Forget, CompatTypeOK
  <2> QED BY <1>1, <2>1, <2>2 DEF Belief
<1>5. CASE UNCHANGED <<op, known, before>>
  BY <1>1, <1>5 DEF Belief
<1> QED
  BY <1>2, <1>3, <1>4, <1>5
  DEF CompatNext, CompatServe, CommitNothing, Commit, Retry, Disappoint, Lose, Vanish,
      connection, cvars

\* What a connection believes of a row is a version the row really had: a
\* commit of it can be refused as stale, and is never wrong.
THEOREM BeliefCorrect == CompatSpec => []BeliefIsHistory
<1>1. CompatInit => OkIsStored /\ Belief
  BY MutationAssumption DEF CompatInit, ServerInit, OkIsStored, Belief
<1>2. ConnectionInv /\ OkIsStored /\ Belief /\ [CompatNext]_cvars => OkIsStored' /\ Belief'
  BY OkStep, BeliefStep DEF ConnectionInv
<1>3. Belief => BeliefIsHistory
  BY DEF Belief, Was, BeliefIsHistory
<1> QED BY <1>1, <1>2, <1>3, ConnectionInvariant, PTL DEF CompatSpec

---------------------------------------------------------------------------
(* Transactions and their keys *)

\* The batch is part of what transaction `t` of `o` assigns, and not empty.
Assigns(o, t, batch) ==
    /\ t \in 1..Len(Program[o]) /\ batch # {}
    /\ \A m \in batch : m.row \in DOMAIN Program[o][t] /\ Program[o][t][m.row] = m.value

\* The first `n` keys of the identity are taken, by transactions before `t`.
Taken(id, n, t) ==
    \A i \in 1..n : \E y \in results : y.key.id = id /\ y.key.index = i /\ y.tx < t

\* One of the first `n` keys is taken by transaction `s` or a later one.
Reached(id, n, s) ==
    \E y \in results : y.key.id = id /\ y.key.index <= n /\ y.tx >= s

\* A call, and the result it leaves: its key is the next one of its identity, and
\* a transaction between the previous key's and its own had nothing to send,
\* since the rows had its values.
Derived(x) ==
    \E o \in Operations :
      /\ Identity[o] = x.key.id
      /\ Assigns(o, x.tx, x.batch)
      /\ Taken(x.key.id, x.key.index - 1, x.tx)
      /\ \A s \in 1..(x.tx - 1) :
           \/ Reached(x.key.id, x.key.index - 1, s)
           \/ \A m \in x.batch : m.row \in DOMAIN Program[o][s] =>
                Was(m.row, m.expected, Program[o][s][m.row])

\* The keys of a connection known to be taken.
Settled(c) == IF pending[c] = None THEN index[c] ELSE index[c] - 1

\* The same of a connection, for the batch it may send next.
FollowsProgram(c) ==
    LET id == Identity[op[c]] IN
    /\ pending[c] # None => /\ pending[c].key.id = id /\ pending[c].key.index = index[c]
                            /\ pending[c].batch # {} /\ index[c] # 0
    /\ Taken(id, Settled(c), step[c])
    /\ \A s \in 1..(step[c] - 1) :
         \/ Reached(id, Settled(c), s)
         \/ \A r \in DOMAIN Program[op[c]][s] : before[c][r] = Program[op[c]][s][r]

ProgramInv ==
    /\ \A x \in results : Derived(x)
    /\ \A k \in calls : Derived(k)
    /\ \A c \in Clients : op[c] # None => FollowsProgram(c)

\* The operations that share an identity are runs of one program.
StableIdentities ==
    \A o, p \in Operations : Identity[o] = Identity[p] => Program[o] = Program[p]

LEMMA WasOnce ==
    ASSUME CompatTypeOK, History, NEW r \in Rows, NEW n, NEW v, NEW w,
           Was(r, n, v), Was(r, n, w)
    PROVE  v = w
<1>1. CASE n = BaseVersion(r)
  BY <1>1 DEF Was
<1>2. CASE n # BaseVersion(r)
  BY <1>2 DEF Was, History, EveryVersionHasOneAuthor
<1> QED BY <1>1, <1>2

LEMMA ResultsGrow ==
    ASSUME [CompatNext]_cvars
    PROVE  results \subseteq results'
  BY DEF CompatNext, CompatServe, Serve, Lookup, Apply, Refuse, Reject, Open, CommitNothing,
      Commit, Retry, Crash, Finish, Acknowledge, Disappoint, Lose, Vanish, cvars, server

LEMMA DerivedStays ==
    ASSUME CompatTypeOK, [CompatNext]_cvars, NEW x, x.batch \subseteq Mutation, Derived(x)
    PROVE  Derived(x)'
<1>1. PICK o \in Operations :
        /\ Identity[o] = x.key.id
        /\ Assigns(o, x.tx, x.batch)
        /\ Taken(x.key.id, x.key.index - 1, x.tx)
        /\ \A s \in 1..(x.tx - 1) :
             \/ Reached(x.key.id, x.key.index - 1, s)
             \/ \A m \in x.batch : m.row \in DOMAIN Program[o][s] =>
                  Was(m.row, m.expected, Program[o][s][m.row])
  BY DEF Derived
<1>2. Taken(x.key.id, x.key.index - 1, x.tx)'
  BY <1>1, ResultsGrow DEF Taken
<1>3. ASSUME NEW s \in 1..(x.tx - 1)
      PROVE  \/ Reached(x.key.id, x.key.index - 1, s)'
             \/ \A m \in x.batch : m.row \in DOMAIN Program[o][s] =>
                  Was(m.row, m.expected, Program[o][s][m.row])'
  <2>1. CASE Reached(x.key.id, x.key.index - 1, s)
    BY <2>1, ResultsGrow DEF Reached
  <2>2. ASSUME NEW m \in x.batch, Was(m.row, m.expected, Program[o][s][m.row])
        PROVE  Was(m.row, m.expected, Program[o][s][m.row])'
    <3>1. m.row \in Rows /\ m.expected \in Nat
      BY DEF Mutation
    <3> QED BY <2>2, <3>1, WasStays
  <2> QED BY <1>1, <2>1, <2>2
<1> QED BY <1>1, <1>2, <1>3 DEF Derived, Assigns

LEMMA DerivedAlike ==
    ASSUME NEW x, NEW y, x.key = y.key, x.batch = y.batch, x.tx = y.tx, Derived(x)
    PROVE  Derived(y)
  BY DEF Derived

\* What Running and the types give about the transaction a client is in.
LEMMA RunningProgram ==
    ASSUME CompatTypeOK, NEW c \in Clients, Running(c)
    PROVE  /\ op[c] \in Operations /\ op[c] # None
           /\ step[c] \in 1..Len(Program[op[c]]) /\ Len(Program[op[c]]) \in Nat
           /\ index[c] \in Nat /\ step[c] \in Nat
           /\ \A i \in 1..Len(Program[op[c]]) : DOMAIN Program[op[c]][i] \subseteq Rows
  BY ProgramAssumption, MutationAssumption DEF CompatTypeOK, Running

\* A mutation changes a row the transaction assigns, from what is believed.
LEMMA MutationsAssign ==
    ASSUME CompatTypeOK, Belief, NEW c \in Clients, Running(c), NEW m \in Mutations(c)
    PROVE  /\ m.row \in Rows /\ m.row \in DOMAIN Program[op[c]][step[c]]
           /\ m.value = Program[op[c]][step[c]][m.row]
           /\ m.value # before[c][m.row]
           /\ Was(m.row, m.expected, before[c][m.row])
<1>1. PICK r \in Rows :
        /\ After(c)[r] # before[c][r]
        /\ m = [row |-> r, value |-> After(c)[r], expected |-> known[c][r]]
  BY DEF Mutations
<1>2. r \in DOMAIN Program[op[c]][step[c]] /\ After(c)[r] = Program[op[c]][step[c]][r]
  BY <1>1 DEF After
<1>3. Was(r, known[c][r], before[c][r])
  BY DEF Belief, Running
<1> QED BY <1>1, <1>2, <1>3

\* What a connection sends is derived.
LEMMA SentDerived ==
    ASSUME CompatTypeOK, Belief, NEW c \in Clients, Running(c), FollowsProgram(c), Mutations(c) # {},
           NEW x, x.key.id = Identity[op[c]], x.key.index = Settled(c) + 1,
           x.batch = Mutations(c), x.tx = step[c]
    PROVE  Derived(x)
<1>1. op[c] \in Operations /\ step[c] \in 1..Len(Program[op[c]]) /\ index[c] \in Nat
  BY RunningProgram
<1>2. Settled(c) = x.key.index - 1
  BY <1>1 DEF Settled
<1>3. Assigns(op[c], x.tx, x.batch)
  BY <1>1, MutationsAssign DEF Assigns
<1>4. Taken(x.key.id, x.key.index - 1, x.tx)
  BY <1>2 DEF FollowsProgram
<1>5. ASSUME NEW s \in 1..(x.tx - 1)
      PROVE  \/ Reached(x.key.id, x.key.index - 1, s)
             \/ \A m \in x.batch : m.row \in DOMAIN Program[op[c]][s] =>
                  Was(m.row, m.expected, Program[op[c]][s][m.row])
  <2>1. CASE Reached(Identity[op[c]], Settled(c), s)
    BY <1>2, <2>1
  <2>2. ASSUME \A r \in DOMAIN Program[op[c]][s] : before[c][r] = Program[op[c]][s][r],
               NEW m \in x.batch, m.row \in DOMAIN Program[op[c]][s]
        PROVE  Was(m.row, m.expected, Program[op[c]][s][m.row])
    <3>1. Was(m.row, m.expected, before[c][m.row])
      BY MutationsAssign
    <3>2. before[c][m.row] = Program[op[c]][s][m.row]
      BY <2>2
    <3> QED BY <3>1, <3>2
  <2> QED BY <2>1, <2>2 DEF FollowsProgram
<1> QED BY <1>1, <1>3, <1>4, <1>5 DEF Derived

\* A result found under the pending key, with the pending batch, is that of the
\* very transaction the connection is in, whichever run stored it.
LEMMA SameTransaction ==
    ASSUME StableIdentities, ConnectionInv, Belief, NEW c \in Clients, Running(c),
           FollowsProgram(c), pending[c] # None,
           NEW x \in results, Derived(x), x.key = pending[c].key, x.batch = pending[c].batch
    PROVE  x.tx = step[c]
<1> USE DEF ConnectionInv, ConnectionShape
<1>1. x \in Result
  BY DEF CompatTypeOK, ServerTypeOK
<1>2. x.tx \in Nat /\ x.key \in Key /\ x.batch \subseteq Mutation
  BY <1>1 DEF Result
<1>3. /\ x.key.id = Identity[op[c]] /\ x.key.index = index[c]
      /\ Settled(c) = index[c] - 1 /\ x.batch = Mutations(c)
  BY DEF FollowsProgram, Settled, InDoubt
<1>4. /\ op[c] \in Operations /\ step[c] \in 1..Len(Program[op[c]])
      /\ index[c] \in Nat /\ step[c] \in Nat
  BY RunningProgram
<1>5. PICK o \in Operations :
        /\ Identity[o] = x.key.id
        /\ Assigns(o, x.tx, x.batch)
        /\ Taken(x.key.id, x.key.index - 1, x.tx)
        /\ \A s \in 1..(x.tx - 1) :
             \/ Reached(x.key.id, x.key.index - 1, s)
             \/ \A m \in x.batch : m.row \in DOMAIN Program[o][s] =>
                  Was(m.row, m.expected, Program[o][s][m.row])
  BY DEF Derived
<1>6. Program[o] = Program[op[c]]
  BY <1>3, <1>4, <1>5 DEF StableIdentities
<1>7. PICK m \in x.batch : TRUE
  BY <1>5 DEF Assigns
<1>8. /\ m.row \in Rows /\ m.row \in DOMAIN Program[op[c]][step[c]]
      /\ m.value = Program[op[c]][step[c]][m.row]
      /\ m.value # before[c][m.row] /\ Was(m.row, m.expected, before[c][m.row])
  BY <1>3, <1>7, MutationsAssign
\* No earlier key of the identity is at or after a transaction both are past.
<1>9. ASSUME NEW s \in Nat, NEW t \in Nat, s >= t, Taken(x.key.id, x.key.index - 1, t)
      PROVE  ~Reached(x.key.id, x.key.index - 1, s)
  <2>1. ASSUME NEW y \in results, y.key.id = x.key.id, y.key.index <= x.key.index - 1
        PROVE  y.tx < t
    <3>1. y \in Result /\ y.key \in Key /\ y.tx \in Nat
      BY DEF CompatTypeOK, ServerTypeOK, Result
    <3>2. y.key.index \in 1..(x.key.index - 1)
      BY <1>2, <2>1, <3>1 DEF Key
    <3>3. PICK z \in results : z.key.id = x.key.id /\ z.key.index = y.key.index /\ z.tx < t
      BY <1>9, <3>2 DEF Taken
    <3>4. z \in Result /\ z.key \in Key
      BY DEF CompatTypeOK, ServerTypeOK, Result
    <3>5. z.key = y.key
      BY <2>1, <3>1, <3>3, <3>4 DEF Key
    <3> QED BY <3>3, <3>5 DEF BatchIsAtomic
  <2>2. \A y \in results : y.tx \in Nat
    BY DEF CompatTypeOK, ServerTypeOK, Result
  <2> QED BY <1>9, <2>1, <2>2 DEF Reached
<1>10. CASE x.tx > step[c]
  <2>1. step[c] \in 1..(x.tx - 1)
    BY <1>2, <1>4, <1>10
  <2>2. ~Reached(x.key.id, x.key.index - 1, step[c])
    <3>1. Taken(x.key.id, x.key.index - 1, step[c])
      BY <1>3 DEF FollowsProgram
    <3> QED BY <1>4, <1>9, <3>1
  <2>3. Was(m.row, m.expected, Program[o][step[c]][m.row])
    BY <1>5, <1>6, <1>8, <2>1, <2>2
  <2> QED BY <1>6, <1>8, <2>3, WasOnce
<1>11. CASE x.tx < step[c]
  <2>1. x.tx \in 1..(step[c] - 1)
    BY <1>2, <1>4, <1>5, <1>11 DEF Assigns
  <2>2. ~Reached(x.key.id, x.key.index - 1, x.tx)
    BY <1>2, <1>5, <1>9
  <2>3. \A r \in DOMAIN Program[op[c]][x.tx] : before[c][r] = Program[op[c]][x.tx][r]
    BY <1>3, <2>1, <2>2 DEF FollowsProgram
  <2>4. m.row \in DOMAIN Program[op[c]][x.tx] /\ Program[op[c]][x.tx][m.row] = m.value
    BY <1>5, <1>6, <1>7 DEF Assigns
  <2> QED BY <1>8, <2>3, <2>4
<1> QED BY <1>2, <1>4, <1>10, <1>11

LEMMA CallsDerived ==
    ASSUME ConnectionInv, Belief, ProgramInv, [CompatNext]_cvars
    PROVE  \A j \in calls' : Derived(j)'
<1> USE DEF ConnectionInv, ConnectionShape
<1>1. \A k \in calls : k \in Call
  BY DEF CompatTypeOK, ServerTypeOK
<1>2. ASSUME NEW k \in calls PROVE Derived(k)'
  <2>1. k.batch \subseteq Mutation /\ Derived(k)
    BY <1>1 DEF Call, ProgramInv
  <2> QED BY <2>1, DerivedStays
<1>3. ASSUME NEW j \in calls',
             \E k \in calls : j.key = k.key /\ j.batch = k.batch /\ j.tx = k.tx
      PROVE  Derived(j)'
  BY <1>2, <1>3 DEF Derived
<1>4. ASSUME NEW c \in Clients, Commit(c) \/ Retry(c), NEW j \in calls' \ calls
      PROVE  Derived(j)'
  <2>1. Running(c) /\ op[c] # None /\ FollowsProgram(c)
    BY <1>4 DEF Commit, Retry, Running, ProgramInv
  <2>2. index[c] \in Nat
    BY <2>1, RunningProgram
  <2>3. Mutations(c) # {} /\ j.key.id = Identity[op[c]] /\ j.key.index = Settled(c) + 1
        /\ j.batch = Mutations(c) /\ j.tx = step[c]
    <3>1. CASE Commit(c)
      BY <1>4, <3>1 DEF Commit, Send, Settled
    <3>2. CASE Retry(c)
      <4>1. /\ pending[c] # None /\ pending[c].batch = Mutations(c)
            /\ pending[c].key.id = Identity[op[c]] /\ pending[c].key.index = index[c]
            /\ Mutations(c) # {}
        BY <3>2, <2>1 DEF Retry, InDoubt, FollowsProgram
      <4>2. j = [key |-> pending[c].key, batch |-> pending[c].batch, tx |-> step[c],
                 client |-> c, phase |-> "sent"]
        BY <1>4, <3>2 DEF Retry, Send
      <4> QED BY <2>2, <4>1, <4>2 DEF Settled
    <3> QED BY <1>4, <3>1, <3>2
  <2>4. Derived(j)
    BY <2>1, <2>3, SentDerived
  <2>5. j.batch \subseteq Mutation
    BY <2>1, <2>3, MutationsTyped
  <2> QED BY <2>4, <2>5, DerivedStays
<1>5. ASSUME NEW k \in calls, Serve(k), NEW j \in calls' \ calls PROVE Derived(j)'
  <2>1. \E p : j = [k EXCEPT !.phase = p]
    BY <1>5 DEF Serve, Lookup, Apply, Refuse, Reject, Answer
  <2> QED BY <1>1, <1>3, <1>5, <2>1 DEF Call
<1>6. ASSUME NEW j \in calls', \E k \in calls : j = [k EXCEPT !.client = None]
      PROVE  Derived(j)'
  BY <1>1, <1>3, <1>6 DEF Call
<1>7. ASSUME NEW c \in Clients, Crash(c), NEW j \in calls' \ calls PROVE Derived(j)'
  <2>1. \E k \in calls : j = [k EXCEPT !.client = None]
    BY <1>7 DEF Crash
  <2> QED BY <1>6, <1>7, <2>1
<1>8. ASSUME NEW k \in calls, Lose(k), NEW j \in calls' \ calls PROVE Derived(j)'
  <2>1. j = [k EXCEPT !.client = None]
    BY <1>8 DEF Lose
  <2> QED BY <1>6, <1>8, <2>1
<1>9. CASE calls' \subseteq calls
  BY <1>2, <1>9
<1> QED
  BY <1>2, <1>4, <1>5, <1>7, <1>8, <1>9
  DEF CompatNext, CompatServe, Open, CommitNothing, Finish, Acknowledge, Disappoint,
      Vanish, cvars

LEMMA ResultsDerived ==
    ASSUME ConnectionInv, ProgramInv, [CompatNext]_cvars
    PROVE  \A x \in results' : Derived(x)'
<1> USE DEF ConnectionInv, ConnectionShape
<1>1. ASSUME NEW x \in results PROVE Derived(x)'
  <2>1. x.batch \subseteq Mutation /\ Derived(x)
    BY DEF ProgramInv, CompatTypeOK, ServerTypeOK, Result
  <2> QED BY <2>1, DerivedStays
<1>2. ASSUME NEW k \in calls, Apply(k), NEW x \in results' \ results PROVE Derived(x)'
  <2>1. x = [key |-> k.key, batch |-> k.batch, tx |-> k.tx]
    BY <1>2 DEF Apply
  <2>2. Derived(k) /\ x.batch \subseteq Mutation
    BY <2>1 DEF ProgramInv, CompatTypeOK, ServerTypeOK, Call
  <2>3. x.key = k.key /\ x.batch = k.batch /\ x.tx = k.tx
    BY <2>1
  <2>4. Derived(x)
    BY <2>2, <2>3, DerivedAlike
  <2> QED BY <2>2, <2>4, DerivedStays
<1>3. CASE results' = results
  BY <1>1, <1>3
<1> QED
  BY <1>1, <1>2, <1>3
  DEF CompatNext, CompatServe, Serve, Lookup, Refuse, Reject, Open, CommitNothing, Commit,
      Retry, Crash, Finish, Acknowledge, Disappoint, Lose, Vanish, cvars, server

LEMMA ClientsFollow ==
    ASSUME StableIdentities, ConnectionInv, OkIsStored, Belief, ProgramInv, [CompatNext]_cvars
    PROVE  \A c \in Clients : op'[c] # None => FollowsProgram(c)'
<1> USE DEF ConnectionInv, ConnectionShape
<1>1. ASSUME NEW c \in Clients, op[c] # None, op'[c] = op[c], step'[c] = step[c],
             index'[c] = index[c], before'[c] = before[c], pending'[c] = pending[c]
      PROVE  FollowsProgram(c)'
  BY <1>1, ResultsGrow DEF ProgramInv, FollowsProgram, Taken, Reached, Settled
<1>2. ASSUME NEW c \in Clients, OnlyMoves(c), op'[c] # None => FollowsProgram(c)'
      PROVE  \A d \in Clients : op'[d] # None => FollowsProgram(d)'
  BY <1>1, <1>2 DEF OnlyMoves
<1>3. ASSUME NEW c \in Clients, NEW o \in Operations, Open(c, o)
      PROVE  FollowsProgram(c)' /\ OnlyMoves(c)
  <2>1. pending'[c] = None /\ index'[c] = 0 /\ step'[c] = 1
    BY <1>3 DEF Open, CompatTypeOK
  <2>2. FollowsProgram(c)'
    BY <2>1 DEF FollowsProgram, Taken, Settled
  <2> QED BY <1>3, <2>2 DEF Open, OnlyMoves, CompatTypeOK
<1>4. ASSUME NEW c \in Clients, CommitNothing(c) PROVE FollowsProgram(c)' /\ OnlyMoves(c)
  <2>1. Running(c) /\ FollowsProgram(c)
    BY <1>4 DEF CommitNothing, Running, ProgramInv
  <2>2. /\ op[c] \in Operations /\ step[c] \in 1..Len(Program[op[c]])
        /\ step[c] \in Nat /\ DOMAIN Program[op[c]][step[c]] \subseteq Rows
    BY <2>1, RunningProgram
  <2>3. /\ op' = op /\ index' = index /\ before' = before /\ pending' = pending
        /\ results' = results /\ step'[c] = step[c] + 1 /\ pending[c] = None
    BY <1>4 DEF CommitNothing, CompatTypeOK, server
  <2>4. \A r \in DOMAIN Program[op[c]][step[c]] : before[c][r] = Program[op[c]][step[c]][r]
    BY <1>4, <2>2 DEF CommitNothing, Mutations, After
  <2>5. Taken(Identity[op[c]], Settled(c), step[c])'
    <3>1. \A y \in results : y.tx \in Nat
      BY DEF CompatTypeOK, ServerTypeOK, Result
    <3> QED BY <2>1, <2>2, <2>3, <3>1 DEF FollowsProgram, Taken, Settled
  <2>6. \A s \in 1..(step'[c] - 1) : s \in 1..(step[c] - 1) \/ s = step[c]
    BY <2>2, <2>3
  <2>7. FollowsProgram(c)'
    BY <2>1, <2>3, <2>4, <2>5, <2>6 DEF FollowsProgram, Reached, Settled
  <2> QED BY <1>4, <2>7 DEF CommitNothing, OnlyMoves, CompatTypeOK
<1>5. ASSUME NEW c \in Clients, Commit(c) PROVE FollowsProgram(c)' /\ OnlyMoves(c)
  <2>1. Running(c) /\ FollowsProgram(c) /\ index[c] \in Nat
    BY <1>5, RunningProgram DEF Commit, Running, ProgramInv
  <2> DEFINE new == [key |-> [id |-> Identity[op[c]], index |-> index[c] + 1],
                     batch |-> Mutations(c)]
  <2>2. /\ op' = op /\ step' = step /\ before' = before /\ results' = results
        /\ pending[c] = None /\ index'[c] = index[c] + 1 /\ pending'[c] = new
        /\ Mutations(c) # {}
    BY <1>5 DEF Commit, CompatTypeOK, server
  <2>3. new.key.id = Identity[op[c]] /\ new.key.index = index[c] + 1 /\ new.batch = Mutations(c)
    OBVIOUS
  <2> HIDE DEF new
  <2>4. new # None
    <3>1. /\ index[c] + 1 \in 1..MaxIndex /\ Identity[op[c]] \in Identities
          /\ Mutations(c) \subseteq Mutation
      BY <2>1, <2>2, MutationsTyped, RunningProgram, ProgramAssumption, MutationAssumption
      DEF InDoubt
    <3>2. new \in Pending
      BY <3>1 DEF new, Pending, Key
    <3> QED BY <3>2, PendingAssumption
  <2>5. Settled(c)' = Settled(c)
    BY <2>1, <2>2, <2>4 DEF Settled
  <2>6. FollowsProgram(c)'
    BY <2>1, <2>2, <2>3, <2>5 DEF FollowsProgram, Taken, Reached
  <2> QED BY <1>5, <2>6 DEF Commit, OnlyMoves, CompatTypeOK
<1>6. ASSUME NEW k \in calls, Acknowledge(k)
      PROVE  k.client \in Clients /\ FollowsProgram(k.client)' /\ OnlyMoves(k.client)
  <2> DEFINE c == k.client
  <2>1. k \in Call
    BY DEF CompatTypeOK, ServerTypeOK
  <2>2. c \in Clients /\ pending[c] # None /\ Running(c)
        /\ k.key = pending[c].key /\ k.batch = pending[c].batch
    BY <1>6, <2>1 DEF Acknowledge, InDoubt, OneBatchInDoubt, Call
  <2>3. FollowsProgram(c) /\ step[c] \in Nat /\ index[c] \in Nat
    BY <2>2, RunningProgram DEF ProgramInv
  <2>4. PICK x \in results : x.key = k.key /\ x.batch = k.batch
    BY <1>6 DEF Acknowledge, OkIsStored
  <2>5. x.tx = step[c]
    BY <2>2, <2>3, <2>4, SameTransaction DEF ProgramInv
  <2>6. x.key.id = Identity[op[c]] /\ x.key.index = index[c] /\ index[c] # 0
        /\ Settled(c) = index[c] - 1
    BY <2>2, <2>3, <2>4 DEF FollowsProgram, Settled
  <2>7. /\ op' = op /\ index' = index /\ results' = results
        /\ step'[c] = step[c] + 1 /\ pending'[c] = None
    BY <1>6, <2>2 DEF Acknowledge, CompatTypeOK, server
  <2>8. Settled(c)' = index[c]
    BY <2>7 DEF Settled
  <2>9. Taken(Identity[op[c]], index[c], step[c] + 1)
    <3>1. ASSUME NEW i \in 1..index[c]
          PROVE  \E y \in results : y.key.id = Identity[op[c]] /\ y.key.index = i
                                    /\ y.tx < step[c] + 1
      <4>1. CASE i = index[c]
        BY <2>3, <2>5, <2>6, <4>1
      <4>2. CASE i # index[c]
        <5>1. i \in 1..Settled(c)
          BY <2>3, <2>6, <4>2
        <5>2. \A y \in results : y.tx \in Nat
          BY DEF CompatTypeOK, ServerTypeOK, Result
        <5> QED BY <2>3, <5>1, <5>2 DEF FollowsProgram, Taken
      <4> QED BY <4>1, <4>2
    <3> QED BY <3>1 DEF Taken
  <2>10. \A s \in 1..step[c] : Reached(Identity[op[c]], index[c], s)
    BY <2>3, <2>5, <2>6 DEF Reached
  <2>11. Taken(Identity[op[c]], Settled(c), step[c])'
    BY <2>7, <2>8, <2>9 DEF Taken
  <2>12. \A s \in 1..(step'[c] - 1) : s \in 1..step[c]
    BY <2>3, <2>7
  <2>13. \A s \in 1..(step'[c] - 1) : Reached(Identity[op[c]], Settled(c), s)'
    BY <2>7, <2>8, <2>10, <2>12 DEF Reached
  <2>14. FollowsProgram(c)'
    BY <2>7, <2>11, <2>13 DEF FollowsProgram
  <2> QED BY <1>6, <2>2, <2>14 DEF Acknowledge, OnlyMoves, CompatTypeOK
<1>7. ASSUME NEW c \in Clients, Crash(c) \/ Finish(c) PROVE op'[c] = None /\ OnlyMoves(c)
  BY <1>7 DEF Crash, Finish, Forget, OnlyMoves, CompatTypeOK
<1>8. CASE UNCHANGED connection
  BY <1>1, <1>8 DEF connection
<1> QED
  BY <1>2, <1>3, <1>4, <1>5, <1>6, <1>7, <1>8
  DEF CompatNext, CompatServe, Retry, Disappoint, Lose, Vanish, cvars

\* A transaction that the program passed had its rows' values, or gave them.
PassedStep(c) ==
    \A i \in 1..(step[c] - 1) : \A r \in DOMAIN Program[op[c]][i] :
      LET v == Program[op[c]][i][r] IN
      \/ BaseValue[r] = v
      \/ \E e \in ledger : e.row = r /\ e.value = v

LEMMA PassedKept ==
    ASSUME ConnectionInv, OkIsStored, Belief, PassedTransactionsAreStored, [CompatNext]_cvars
    PROVE  PassedTransactionsAreStored'
<1> USE DEF ConnectionInv, ConnectionShape
<1>1. ledger \subseteq ledger'
  BY DEF CompatNext, CompatServe, Serve, Lookup, Apply, Refuse, Reject, Open, CommitNothing,
      Commit, Retry, Crash, Finish, Acknowledge, Disappoint, Lose, Vanish, cvars, server
<1>2. ASSUME NEW c \in Clients, op[c] # None, op'[c] = op[c], step'[c] = step[c]
      PROVE  PassedStep(c)'
  BY <1>1, <1>2 DEF PassedTransactionsAreStored, PassedStep
<1>3. ASSUME NEW c \in Clients, Running(c), op'[c] = op[c], step'[c] = step[c] + 1,
             \A r \in DOMAIN Program[op[c]][step[c]] :
               LET v == Program[op[c]][step[c]][r] IN
               BaseValue[r] = v \/ \E e \in ledger : e.row = r /\ e.value = v
      PROVE  PassedStep(c)'
  <2>1. step[c] \in Nat /\ op[c] # None
    BY <1>3, RunningProgram
  <2>2. \A i \in 1..(step'[c] - 1) : i \in 1..(step[c] - 1) \/ i = step[c]
    BY <1>3, <2>1
  <2> QED BY <1>1, <1>3, <2>1, <2>2 DEF PassedTransactionsAreStored, PassedStep
<1>4. ASSUME NEW c \in Clients, OnlyMoves(c), op'[c] # None => PassedStep(c)'
      PROVE  PassedTransactionsAreStored'
  BY <1>2, <1>4 DEF OnlyMoves, PassedTransactionsAreStored, PassedStep
<1>5. ASSUME NEW c \in Clients, NEW o \in Operations, Open(c, o)
      PROVE  PassedTransactionsAreStored'
  <2>1. step'[c] = 1 /\ OnlyMoves(c)
    BY <1>5 DEF Open, OnlyMoves, CompatTypeOK
  <2> QED BY <1>4, <2>1 DEF PassedStep
<1>6. ASSUME NEW c \in Clients, CommitNothing(c) PROVE PassedTransactionsAreStored'
  <2>1. Running(c) /\ OnlyMoves(c) /\ op'[c] = op[c] /\ step'[c] = step[c] + 1
    BY <1>6 DEF CommitNothing, OnlyMoves, CompatTypeOK
  <2>2. DOMAIN Program[op[c]][step[c]] \subseteq Rows /\ op[c] # None
    BY <2>1, RunningProgram
  <2>3. ASSUME NEW r \in DOMAIN Program[op[c]][step[c]]
        PROVE  LET v == Program[op[c]][step[c]][r] IN
               BaseValue[r] = v \/ \E e \in ledger : e.row = r /\ e.value = v
    <3>1. before[c][r] = Program[op[c]][step[c]][r]
      BY <1>6, <2>2 DEF CommitNothing, Mutations, After
    <3>2. Was(r, known[c][r], before[c][r])
      BY <2>2 DEF Belief
    <3> QED BY <3>1, <3>2 DEF Was
  <2> QED BY <1>3, <1>4, <2>1, <2>3
<1>7. ASSUME NEW k \in calls, Acknowledge(k) PROVE PassedTransactionsAreStored'
  <2> DEFINE c == k.client
  <2>1. c \in Clients /\ Running(c)
    BY <1>7 DEF Acknowledge, InDoubt, OneBatchInDoubt, CompatTypeOK, ServerTypeOK, Call
  <2>2. OnlyMoves(c) /\ op'[c] = op[c] /\ step'[c] = step[c] + 1 /\ before'[c] = After(c)
    BY <1>7, <2>1 DEF Acknowledge, OnlyMoves, CompatTypeOK
  <2>3. DOMAIN Program[op[c]][step[c]] \subseteq Rows
    BY <2>1, RunningProgram
  <2>4. ASSUME NEW r \in DOMAIN Program[op[c]][step[c]]
        PROVE  LET v == Program[op[c]][step[c]][r] IN
               BaseValue[r] = v \/ \E e \in ledger : e.row = r /\ e.value = v
    <3>1. After(c)[r] = Program[op[c]][step[c]][r] /\ r \in Rows
      BY <2>3 DEF After
    <3>2. Was(r, known'[c][r], After(c)[r])
      BY <1>7, <2>2, <3>1, AcknowledgedWas
    <3> QED BY <3>1, <3>2 DEF Was
  <2> QED BY <1>3, <1>4, <2>1, <2>2, <2>4
<1>8. ASSUME NEW c \in Clients, Crash(c) \/ Finish(c) PROVE PassedTransactionsAreStored'
  <2>1. op'[c] = None /\ OnlyMoves(c)
    BY <1>8 DEF Crash, Finish, Forget, OnlyMoves, CompatTypeOK
  <2> QED BY <1>4, <2>1
<1>9. CASE UNCHANGED <<op, step>>
  BY <1>2, <1>9 DEF PassedTransactionsAreStored, PassedStep
<1> QED
  BY <1>5, <1>6, <1>7, <1>8, <1>9
  DEF CompatNext, CompatServe, Commit, Retry, Disappoint, Lose, Vanish, connection, cvars

\* However calls are lost and repeated, and processes die and run again: what a
\* program went past is stored, and no transaction of an operation is stored
\* twice, though each run of it numbers its keys by what it finds to change.
THEOREM EffectOnce ==
    ASSUME StableIdentities
    PROVE  CompatSpec => []TransactionsTakeEffectOnce
<1>1. CompatInit => OkIsStored /\ Belief /\ ProgramInv /\ PassedTransactionsAreStored
  BY MutationAssumption
  DEF CompatInit, ServerInit, OkIsStored, Belief, ProgramInv, PassedTransactionsAreStored
<1>2. ConnectionInv /\ OkIsStored /\ Belief /\ ProgramInv /\ PassedTransactionsAreStored
        /\ [CompatNext]_cvars
      => OkIsStored' /\ Belief' /\ ProgramInv' /\ PassedTransactionsAreStored'
  <2> SUFFICES ASSUME ConnectionInv, OkIsStored, Belief, ProgramInv,
                      PassedTransactionsAreStored, [CompatNext]_cvars
               PROVE  OkIsStored' /\ Belief' /\ ProgramInv' /\ PassedTransactionsAreStored'
    OBVIOUS
  <2>1. ProgramInv'
    BY CallsDerived, ResultsDerived, ClientsFollow DEF ProgramInv
  <2> QED BY <2>1, OkStep, BeliefStep, PassedKept DEF ConnectionInv
<1>3. ConnectionInv /\ ProgramInv => TransactionAppliedOnce
  <2> SUFFICES ASSUME ConnectionInv, ProgramInv, NEW x \in results, NEW y \in results,
                      x.key.id = y.key.id, x.tx = y.tx
               PROVE  x = y
    BY DEF TransactionAppliedOnce
  <2> USE DEF ConnectionInv, ConnectionShape
  <2>1. \A z \in results : z.key \in Key /\ z.tx \in Nat
    BY DEF CompatTypeOK, ServerTypeOK, Result
  <2>2. ASSUME NEW a \in results, NEW b \in results, a.key.id = b.key.id,
               a.key.index < b.key.index
        PROVE  a.tx < b.tx
    <3>1. Taken(b.key.id, b.key.index - 1, b.tx)
      BY DEF ProgramInv, Derived
    <3>2. a.key.index \in 1..(b.key.index - 1)
      BY <2>1, <2>2 DEF Key
    <3>3. PICK z \in results : z.key.id = a.key.id /\ z.key.index = a.key.index /\ z.tx < b.tx
      BY <2>2, <3>1, <3>2 DEF Taken
    <3>4. z = a
      BY <2>1, <3>3 DEF Key, BatchIsAtomic
    <3> QED BY <3>3, <3>4
  <2>3. x.key.index = y.key.index
    BY <2>1, <2>2 DEF Key
  <2> QED BY <2>1, <2>3 DEF Key, BatchIsAtomic
<1> QED
  BY <1>1, <1>2, <1>3, ConnectionInvariant, PTL
  DEF CompatSpec, TransactionsTakeEffectOnce

---------------------------------------------------------------------------
(* The program runs transaction by transaction *)

\* A row that the transaction assigns and the batch leaves out has had its value.
Whole(x) ==
    \E o \in Operations :
      /\ Identity[o] = x.key.id
      /\ Assigns(o, x.tx, x.batch)
      /\ \A r \in DOMAIN Program[o][x.tx] :
           (\E m \in x.batch : m.row = r) \/ Program[o][x.tx][r] \in Had(r)

LEMMA WholeStays ==
    ASSUME [CompatNext]_cvars, NEW x, NEW y, Whole(x),
           y.key = x.key, y.batch = x.batch, y.tx = x.tx
    PROVE  Whole(y)'
<1>1. ledger \subseteq ledger'
  BY DEF CompatNext, CompatServe, Serve, Lookup, Apply, Refuse, Reject, Open, CommitNothing,
      Commit, Retry, Crash, Finish, Acknowledge, Disappoint, Lose, Vanish, cvars, server
<1>2. \A r : Had(r) \subseteq Had(r)'
  BY <1>1 DEF Had
<1> QED BY <1>2 DEF Whole, Assigns

\* What a connection sends is whole: what it leaves out, it believes stored.
LEMMA SentWhole ==
    ASSUME CompatTypeOK, Belief, NEW c \in Clients, Running(c), Mutations(c) # {},
           NEW x, x.key.id = Identity[op[c]], x.batch = Mutations(c), x.tx = step[c]
    PROVE  Whole(x)
<1>1. op[c] \in Operations /\ op[c] # None /\ step[c] \in 1..Len(Program[op[c]])
      /\ DOMAIN Program[op[c]][step[c]] \subseteq Rows
  BY RunningProgram
<1>2. Assigns(op[c], x.tx, x.batch)
  BY <1>1, MutationsAssign DEF Assigns
<1>3. ASSUME NEW r \in DOMAIN Program[op[c]][step[c]]
      PROVE  (\E m \in x.batch : m.row = r) \/ Program[op[c]][step[c]][r] \in Had(r)
  <2>1. r \in Rows /\ After(c)[r] = Program[op[c]][step[c]][r]
    BY <1>1 DEF After
  <2>2. CASE After(c)[r] # before[c][r]
    <3> DEFINE m == [row |-> r, value |-> After(c)[r], expected |-> known[c][r]]
    <3>1. m \in Mutations(c) /\ m.row = r
      BY <2>1, <2>2 DEF Mutations
    <3> QED BY <3>1
  <2>3. CASE After(c)[r] = before[c][r]
    <3>1. Was(r, known[c][r], before[c][r])
      BY <1>1, <2>1 DEF Belief
    <3> QED BY <2>1, <2>3, <3>1 DEF Was, Had
  <2> QED BY <2>2, <2>3
<1> QED BY <1>1, <1>2, <1>3 DEF Whole

LEMMA CallsWhole ==
    ASSUME ConnectionInv, Belief, ProgramInv, \A k \in calls : Whole(k), [CompatNext]_cvars
    PROVE  \A j \in calls' : Whole(j)'
<1> USE DEF ConnectionInv, ConnectionShape
<1>1. \A k \in calls : k \in Call
  BY DEF CompatTypeOK, ServerTypeOK
<1>2. ASSUME NEW j \in calls',
             \E k \in calls : j.key = k.key /\ j.batch = k.batch /\ j.tx = k.tx
      PROVE  Whole(j)'
  BY <1>2, WholeStays
<1>3. ASSUME NEW c \in Clients, Commit(c) \/ Retry(c), NEW j \in calls' \ calls
      PROVE  Whole(j)'
  <2>1. Running(c) /\ FollowsProgram(c)
    BY <1>3 DEF Commit, Retry, Running, ProgramInv
  <2>2. Mutations(c) # {} /\ j.key.id = Identity[op[c]]
        /\ j.batch = Mutations(c) /\ j.tx = step[c]
    <3>1. CASE Commit(c)
      BY <1>3, <3>1 DEF Commit, Send
    <3>2. CASE Retry(c)
      <4>1. /\ pending[c].batch = Mutations(c) /\ Mutations(c) # {}
            /\ pending[c].key.id = Identity[op[c]]
        BY <3>2, <2>1 DEF Retry, InDoubt, FollowsProgram
      <4>2. j = [key |-> pending[c].key, batch |-> pending[c].batch, tx |-> step[c],
                 client |-> c, phase |-> "sent"]
        BY <1>3, <3>2 DEF Retry, Send
      <4> QED BY <4>1, <4>2
    <3> QED BY <1>3, <3>1, <3>2
  <2>3. Whole(j)
    BY <2>1, <2>2, SentWhole
  <2> QED BY <2>3, WholeStays
<1>4. ASSUME NEW k \in calls, Serve(k), NEW j \in calls' \ calls PROVE Whole(j)'
  <2>1. \E p : j = [k EXCEPT !.phase = p]
    BY <1>4 DEF Serve, Lookup, Apply, Refuse, Reject, Answer
  <2> QED BY <1>1, <1>2, <1>4, <2>1 DEF Call
<1>5. ASSUME NEW j \in calls', \E k \in calls : j = [k EXCEPT !.client = None]
      PROVE  Whole(j)'
  BY <1>1, <1>2, <1>5 DEF Call
<1>6. ASSUME NEW c \in Clients, Crash(c), NEW j \in calls' \ calls PROVE Whole(j)'
  <2>1. \E k \in calls : j = [k EXCEPT !.client = None]
    BY <1>6 DEF Crash
  <2> QED BY <1>5, <1>6, <2>1
<1>7. ASSUME NEW k \in calls, Lose(k), NEW j \in calls' \ calls PROVE Whole(j)'
  <2>1. j = [k EXCEPT !.client = None]
    BY <1>7 DEF Lose
  <2> QED BY <1>5, <1>7, <2>1
<1>8. CASE calls' \subseteq calls
  BY <1>2, <1>8
<1>9. ASSUME NEW j \in calls', j \in calls PROVE Whole(j)'
  BY <1>2, <1>9
<1> QED
  BY <1>3, <1>4, <1>6, <1>7, <1>8, <1>9
  DEF CompatNext, CompatServe, Open, CommitNothing, Finish, Acknowledge, Disappoint,
      Vanish, cvars

\* The transactions of an identity are stored in the order of the program.
LEMMA ApplyInOrder ==
    ASSUME ConnectionInv, ProgramInv, NEW k \in calls, Apply(k),
           NEW x \in results, x.key.id = k.key.id
    PROVE  x.tx < k.tx
<1> USE DEF ConnectionInv, ConnectionShape
<1>1. x.key \in Key /\ k.key \in Key /\ x.key # k.key
  BY DEF Apply, CompatTypeOK, ServerTypeOK, Result, Call
<1>2. \A z \in results : z.key \in Key
  BY DEF CompatTypeOK, ServerTypeOK, Result
<1>3. x.key.index \in 1..MaxIndex /\ k.key.index \in 1..MaxIndex /\ MaxIndex \in Nat
  BY <1>1, MutationAssumption DEF Key
<1>4. x.key.index # k.key.index
  BY <1>1 DEF Key
<1>5. CASE x.key.index < k.key.index
  <2>1. x.key.index \in 1..(k.key.index - 1)
    BY <1>3, <1>5
  <2>2. Taken(k.key.id, k.key.index - 1, k.tx)
    BY DEF ProgramInv, Derived
  <2>3. PICK z \in results : z.key.id = k.key.id /\ z.key.index = x.key.index /\ z.tx < k.tx
    BY <2>1, <2>2 DEF Taken
  <2>4. z = x
    BY <1>1, <1>2, <2>3 DEF Key, BatchIsAtomic
  <2> QED BY <2>3, <2>4
<1>6. CASE k.key.index < x.key.index
  <2>1. k.key.index \in 1..(x.key.index - 1)
    BY <1>3, <1>6
  <2>2. Taken(x.key.id, x.key.index - 1, x.tx)
    BY DEF ProgramInv, Derived
  <2>3. PICK z \in results : z.key.id = k.key.id /\ z.key.index = k.key.index
    BY <2>1, <2>2 DEF Taken
  <2>4. z.key = k.key
    BY <1>1, <1>2, <2>3 DEF Key
  <2> QED BY <2>4 DEF Apply
<1> QED BY <1>3, <1>4, <1>5, <1>6

LEMMA ApplyTakesEffect ==
    ASSUME ConnectionInv, ProgramInv, NEW k \in calls, Whole(k), Apply(k)
    PROVE  Promise!Next
<1> USE DEF ConnectionInv, ConnectionShape
<1>1. PICK o \in Operations :
        /\ Identity[o] = k.key.id
        /\ Assigns(o, k.tx, k.batch)
        /\ \A r \in DOMAIN Program[o][k.tx] :
             (\E m \in k.batch : m.row = r) \/ Program[o][k.tx][r] \in Had(r)
  BY DEF Whole
<1> DEFINE W == {m.row : m \in k.batch}
           new == [key |-> k.key, batch |-> k.batch, tx |-> k.tx]
<1>2. k.tx \in 1..Len(Program[o]) /\ W # {} /\ W \subseteq DOMAIN Program[o][k.tx]
  BY <1>1 DEF Assigns
<1>3. \A m \in k.batch : Program[o][k.tx][m.row] = m.value
  BY <1>1 DEF Assigns
<1>4. value' = [r \in Rows |-> IF r \in W THEN Program[o][k.tx][r] ELSE value[r]]
  <2>1. ASSUME NEW r \in Rows, r \in W
        PROVE  (CHOOSE m \in k.batch : m.row = r).value = Program[o][k.tx][r]
    <3>1. (CHOOSE m \in k.batch : m.row = r) \in k.batch
          /\ (CHOOSE m \in k.batch : m.row = r).row = r
      BY <2>1
    <3> QED BY <1>3, <3>1
  <2> QED BY <2>1 DEF Apply
<1>5. ledger' = ledger \cup Entries(k.key, k.batch)
  BY DEF Apply, Entries
<1>6. ASSUME NEW r \in Rows
      PROVE  Had(r)' = IF r \in W THEN Had(r) \cup {Program[o][k.tx][r]} ELSE Had(r)
  <2>1. \A e \in Entries(k.key, k.batch) : e.row = r => r \in W /\ e.value = Program[o][k.tx][r]
    BY <1>3 DEF Entries
  <2>2. ASSUME r \in W
        PROVE  \E e \in Entries(k.key, k.batch) : e.row = r /\ e.value = Program[o][k.tx][r]
    <3>1. PICK m \in k.batch : m.row = r
      BY <2>2
    <3> DEFINE e == [row |-> m.row, to |-> m.expected + 1, value |-> m.value, key |-> k.key]
    <3>2. e \in Entries(k.key, k.batch) /\ e.row = r /\ e.value = Program[o][k.tx][r]
      BY <1>3, <3>1 DEF Entries
    <3> QED BY <3>2
  <2> HIDE DEF W
  <2>3. CASE r \in W
    BY <1>5, <2>1, <2>2, <2>3 DEF Had
  <2>4. CASE r \notin W
    BY <1>5, <2>1, <2>4 DEF Had
  <2> QED BY <2>3, <2>4
<1>7. results' = results \cup {new} /\ new.key.id = Identity[o] /\ new.tx = k.tx
  BY <1>1 DEF Apply
<1> HIDE DEF W, new
<1>8. {[id |-> x.key.id, tx |-> x.tx] : x \in results'}
        = {[id |-> x.key.id, tx |-> x.tx] : x \in results} \cup {[id |-> Identity[o], tx |-> k.tx]}
  BY <1>7
<1>9. \A e \in {[id |-> x.key.id, tx |-> x.tx] : x \in results} : e.id = Identity[o] => e.tx < k.tx
  BY <1>1, ApplyInOrder
<1>10. \A r \in DOMAIN Program[o][k.tx] \ W : Program[o][k.tx][r] \in [q \in Rows |-> Had(q)][r]
  <2>1. DOMAIN Program[o][k.tx] \subseteq Rows
    BY <1>2, ProgramAssumption
  <2> QED BY <1>1, <2>1 DEF W
<1>11. [r \in Rows |-> Had(r)'] =
        [r \in Rows |-> IF r \in W THEN [q \in Rows |-> Had(q)][r] \cup {Program[o][k.tx][r]}
                        ELSE [q \in Rows |-> Had(q)][r]]
  BY <1>6
<1>12. Promise!TakeEffect(o, k.tx, W)
  BY <1>2, <1>4, <1>8, <1>9, <1>10, <1>11 DEF Promise!TakeEffect
<1> QED BY <1>2, <1>12 DEF Promise!Next

\* Whatever is lost, repeated or left behind by a process that died, the rows
\* change as if the transactions of each identity ran one by one, whole, in order.
THEOREM KeepsOperationsPromise ==
    ASSUME StableIdentities
    PROVE  CompatSpec => KeepsOperations
<1> DEFINE CallsAreWhole == \A k \in calls : Whole(k)
           PInv == OkIsStored /\ Belief /\ ProgramInv /\ CallsAreWhole
<1>1. CompatInit => PInv /\ Promise!Init
  <2> SUFFICES ASSUME CompatInit PROVE PInv /\ Promise!Init
    OBVIOUS
  <2>1. calls = {} /\ results = {} /\ ledger = {} /\ value = BaseValue
        /\ \A c \in Clients : op[c] = None
    BY DEF CompatInit, ServerInit
  <2>2. \A r \in Rows : Had(r) = {BaseValue[r]}
    BY <2>1 DEF Had
  <2> QED BY <2>1, <2>2 DEF OkIsStored, Belief, ProgramInv, Promise!Init
<1>2. ConnectionInv /\ PInv /\ [CompatNext]_cvars => PInv'
  <2> SUFFICES ASSUME ConnectionInv, PInv, [CompatNext]_cvars PROVE PInv'
    OBVIOUS
  <2>1. ProgramInv'
    BY CallsDerived, ResultsDerived, ClientsFollow DEF ProgramInv
  <2>2. CallsAreWhole'
    BY CallsWhole
  <2> QED BY <2>1, <2>2, OkStep, BeliefStep DEF ConnectionInv
<1>3. ConnectionInv /\ PInv /\ [CompatNext]_cvars => [Promise!Next]_(Promise!vars)
  <2> SUFFICES ASSUME ConnectionInv, PInv, [CompatNext]_cvars
               PROVE  Promise!Next \/ UNCHANGED Promise!vars
    OBVIOUS
  <2>1. CASE UNCHANGED server
    <3>1. \A r : Had(r)' = Had(r)
      BY <2>1 DEF server, Had
    <3> QED BY <2>1, <3>1 DEF server, Promise!vars
  <2>2. ASSUME NEW k \in calls, Apply(k) PROVE Promise!Next
    BY <2>2, ApplyTakesEffect
  <2> QED
    BY <2>1, <2>2
    DEF CompatNext, CompatServe, Serve, Lookup, Refuse, Reject, Open, CommitNothing, Commit,
        Retry, Crash, Finish, Acknowledge, Disappoint, Lose, Vanish, cvars
<1> QED
  BY <1>1, <1>2, <1>3, ConnectionInvariant, PTL DEF CompatSpec, KeepsOperations, Promise!Spec
===========================================================================
