------------------------ MODULE SessionSummariesProofs ------------------------
(***************************************************************************)
(* The observation queue and the store of summaries keep their promises    *)
(* for any sessions, forks, reasons, capacity and queue limit.             *)
(*                                                                         *)
(* The argument: what a queued job is about, and what the walk of the      *)
(* running one has still to visit, is in the log in memory, which only a   *)
(* crash shortens, and a crash forgets jobs and walks.  A walk reaches the *)
(* put of a turn only when the turn is on disk, and what is on disk stays. *)
(* So a summary agrees with its source when it is made, and ever after.    *)
(* A turn end that is not summarised has a waiter: a job in the queue, the *)
(* walk under way or the reconcile; whoever drops one notes it, so silence *)
(* means that nothing is lost.  What a summary says of the route of its    *)
(* turn is told from the log alone (ActivitySummary).                      *)
(***************************************************************************)
EXTENDS SessionSummaries, ActivitySummary, FunctionTheorems, FiniteSetTheorems, TLAPS

USE SummaryAssumptions

----------------------------------------------------------------------------
(* The inductive invariant *)

\* What a queued job is about has been in the log.
QueueOK ==
  \A i \in DOMAIN jobs : jobs[i].kind = "observe" => jobs[i].through <= Len(log[jobs[i].session])

\* A walk is in a turn of its session's own, of those it found there.
Walks(w) ==
  /\ w.session \in Sessions
  /\ FirstOwnTurn(w.session) <= w.turn /\ w.turn <= w.last /\ w.last <= Len(log[w.session])
  /\ w.at = "put" => w.turn <= durable[w.session]
WalkOK(w) == w.at \in {"flush", "verify", "put"} => Walks(w)
LoopOK == (loop.at # "idle" => jobs # <<>>) /\ WalkOK(loop)

\* A mount starts with an empty chain.
DownIsEmpty == mounted = "down" => jobs = <<>>

IndicesOf(q, s) == {i \in DOMAIN q : q[i].session = s}
Holders(p) == {s \in Sessions : p[s] > 0}
Counted(q, p) ==
  /\ \A s \in Sessions : p[s] = Cardinality(IndicesOf(q, s))
  /\ IsFiniteSet(Holders(p)) /\ Cardinality(Holders(p)) <= MaxPending
Queue(q, p) == q \in Seq(Job) /\ p \in [Sessions -> Nat] /\ Counted(q, p)

Sources == SummaryHasSource /\ InheritedNotCounted
Inv ==
  /\ TypeOK /\ QueueOK /\ LoopOK /\ DownIsEmpty /\ Counted(jobs, pending)
  /\ Sources /\ NoIdentityConflict

----------------------------------------------------------------------------
(* The queue *)

\* The walks a loop may be in.
Loops ==
  [at : {"idle", "next", "flush", "verify", "put"}, session : Sessions \cup {NoSession},
   turn : Nat, last : Nat, cold : BOOLEAN, pass : {"none", "cold", "live"},
   todo : SUBSET Sessions, complete : BOOLEAN]

\* What a step of the queue that adds no job leaves behind.
Shortens(q, p, r, o) ==
  /\ Queue(r, o)
  /\ \A i \in DOMAIN r : \E k \in DOMAIN q : r[i] = q[k]

(* The job at the head is about a session, or is a reconcile. *)
LEMMA Heads ==
  ASSUME NEW q \in Seq(Job), q # <<>>
  PROVE  /\ Head(q) = q[1] /\ Head(q) \in Job /\ 1 \in DOMAIN q
         /\ Head(q).kind = "observe" => Head(q).session \in Sessions
         /\ Head(q).kind # "observe" => Head(q).session = NoSession
BY DEF Job

(* The indices of a session's jobs are finitely many. *)
LEMMA IndicesFinite ==
  ASSUME NEW q \in Seq(Job), NEW s
  PROVE  IsFiniteSet(IndicesOf(q, s)) /\ Cardinality(IndicesOf(q, s)) \in Nat
<1>1. DOMAIN q = 1..Len(q) /\ Len(q) \in Nat
  OBVIOUS
<1>2. IsFiniteSet(1..Len(q))
  BY <1>1, FS_Interval
<1> QED
  BY <1>1, <1>2, FS_Subset, FS_CardinalityType DEF IndicesOf

(* Without its head a queue holds its other jobs, moved up by one. *)
LEMMA Tails ==
  ASSUME NEW q \in Seq(Job), q # <<>>
  PROVE  /\ Tail(q) \in Seq(Job)
         /\ DOMAIN q = 1..Len(q) /\ Len(q) \in Nat \ {0}
         /\ DOMAIN Tail(q) = 1..(Len(q) - 1)
         /\ \A i \in DOMAIN Tail(q) : Tail(q)[i] = q[i + 1]
OBVIOUS

(* Without its head, a session has as many jobs, or one less when it is its. *)
LEMMA IndicesOfTail ==
  ASSUME NEW q \in Seq(Job), q # <<>>, NEW s
  PROVE  Cardinality(IndicesOf(Tail(q), s)) =
           IF Head(q).session = s THEN Cardinality(IndicesOf(q, s)) - 1
                                  ELSE Cardinality(IndicesOf(q, s))
<1> DEFINE later == IndicesOf(q, s) \ {1}
           rest == IndicesOf(Tail(q), s)
           f == [i \in later |-> i - 1]
<1>1. rest = {i \in 1..(Len(q) - 1) : q[i + 1].session = s}
  BY Tails DEF IndicesOf
<1>2. later = {i \in 2..Len(q) : q[i].session = s}
  BY Tails DEF IndicesOf
<1>3. f \in Bijection(later, rest)
  <2>1. \A i \in later : f[i] \in rest
    BY <1>1, <1>2, Tails
  <2>2. \A i, j \in later : f[i] = f[j] => i = j
    BY <1>2
  <2>3. ASSUME NEW j \in rest PROVE j + 1 \in later /\ f[j + 1] = j
    <3>1. j \in Int /\ j + 1 \in later
      BY <1>1, <1>2, Tails
    <3>2. f[j + 1] = (j + 1) - 1
      BY <3>1
    <3> QED
      BY <3>1, <3>2
  <2> QED
    BY <2>1, <2>2, <2>3 DEF Bijection, Injection, Surjection, IsInjective
<1>4. /\ IsFiniteSet(later)
      /\ Cardinality(later) = IF 1 \in IndicesOf(q, s) THEN Cardinality(IndicesOf(q, s)) - 1
                              ELSE Cardinality(IndicesOf(q, s))
  BY IndicesFinite, FS_RemoveElement
<1>5. Cardinality(rest) = Cardinality(later)
  BY <1>3, <1>4, FS_Bijection DEF ExistsBijection
<1>6. 1 \in IndicesOf(q, s) <=> Head(q).session = s
  BY Heads DEF IndicesOf
<1> QED
  BY <1>4, <1>5, <1>6

(* Another job of a session is one more of its jobs, and of no other's. *)
LEMMA IndicesOfAppend ==
  ASSUME NEW q \in Seq(Job), NEW j \in Job, NEW s
  PROVE  Cardinality(IndicesOf(Append(q, j), s)) =
           IF j.session = s THEN Cardinality(IndicesOf(q, s)) + 1
                            ELSE Cardinality(IndicesOf(q, s))
<1> DEFINE r == Append(q, j)
<1>1. /\ DOMAIN q = 1..Len(q) /\ Len(q) \in Nat
      /\ DOMAIN r = 1..(Len(q) + 1) /\ r[Len(q) + 1] = j
      /\ \A i \in DOMAIN q : r[i] = q[i]
  OBVIOUS
<1>2. IndicesOf(r, s) = IF j.session = s THEN IndicesOf(q, s) \cup {Len(q) + 1} ELSE IndicesOf(q, s)
  BY <1>1 DEF IndicesOf
<1>3. Len(q) + 1 \notin IndicesOf(q, s)
  BY <1>1 DEF IndicesOf
<1> QED
  BY <1>2, <1>3, IndicesFinite, FS_AddElement

(* The job that ends gives its place back. *)
LEMMA EndJobShortens ==
  ASSUME Queue(jobs, pending), jobs # <<>>, EndJob
  PROVE  Shortens(jobs, pending, jobs', pending')
<1> DEFINE r == Tail(jobs)
           o == IF Head(jobs).kind = "observe"
                THEN [pending EXCEPT ![Head(jobs).session] = @ - 1] ELSE pending
<1>0. jobs' = r /\ pending' = o
  BY DEF EndJob
<1> USE DEF Queue, Counted
<1>1. r \in Seq(Job) /\ \A i \in DOMAIN r : \E k \in DOMAIN jobs : r[i] = jobs[k]
  BY Tails
<1>2. DOMAIN o = Sessions
      /\ \A s \in Sessions : o[s] = IF Head(jobs).session = s THEN pending[s] - 1 ELSE pending[s]
  BY Heads DEF NoSession
<1>3. ASSUME NEW s \in Sessions PROVE o[s] = Cardinality(IndicesOf(r, s)) /\ o[s] \in Nat
  <2>1. o[s] = Cardinality(IndicesOf(r, s))
    <3> HIDE DEF o
    <3> QED
      BY <1>2, IndicesOfTail
  <2>2. Cardinality(IndicesOf(r, s)) \in Nat
    BY <1>1, IndicesFinite
  <2> QED
    BY <2>1, <2>2
<1>4. o \in [Sessions -> Nat]
  <2>1. o = [s \in Sessions |-> o[s]]
    BY <1>2
  <2> QED
    BY <1>3, <2>1
<1>5. Holders(o) \subseteq Holders(pending)
  BY <1>2, <1>3 DEF Holders
<1>6. IsFiniteSet(Holders(o)) /\ Cardinality(Holders(o)) <= Cardinality(Holders(pending))
  BY <1>5, FS_Subset
<1>7. Cardinality(Holders(o)) <= MaxPending
  BY <1>6, FS_CardinalityType
<1> QED
  BY <1>0, <1>1, <1>3, <1>4, <1>6, <1>7 DEF Shortens
\* What a notification that is not accepted is noted as.
Refusals == {"QUEUE_FULL", "OBSERVATION_FAILED"}

(* A notification that is accepted is one more job of its session, which may *)
(* take a place that is free.                                                *)
LEMMA ScheduleQueues ==
  ASSUME NEW s \in Sessions, NEW n \in Nat, Queue(jobs, pending), Schedule(s, n)
  PROVE  /\ Queue(jobs', pending')
         /\ jobs # <<>> => jobs' # <<>>
         /\ \A i \in DOMAIN jobs' :
              \/ \E k \in DOMAIN jobs : jobs'[i] = jobs[k]
              \/ jobs'[i] = [kind |-> "observe", session |-> s, through |-> n]
         /\ failures' \subseteq failures \cup Refusals
         /\ {recoveryComplete, refused} \subseteq BOOLEAN
              => {recoveryComplete', refused'} \subseteq BOOLEAN
<1>1. CASE UNCHANGED <<jobs, pending>>
  <2>1. UNCHANGED health \/ Refuses("QUEUE_FULL") \/ Refuses("OBSERVATION_FAILED")
    BY <1>1 DEF Schedule
  <2> QED
    BY <1>1, <2>1 DEF Refuses, Refusals, health
<1>2. CASE ~UNCHANGED <<jobs, pending>>
  <2> DEFINE j == [kind |-> "observe", session |-> s, through |-> n]
             r == Append(jobs, j)
             o == [pending EXCEPT ![s] = @ + 1]
  <2>1. /\ jobs' = r /\ pending' = o /\ UNCHANGED health
        /\ pending[s] = 0 => ~(Cardinality(Holders(pending)) >= MaxPending)
    BY <1>2 DEF Schedule, Refuses, Holders
  <2> USE DEF Queue, Counted
  <2>2. j \in Job /\ j.session = s
    BY DEF Job
  <2>3. /\ r \in Seq(Job) /\ r # <<>>
        /\ \A i \in DOMAIN r : (\E k \in DOMAIN jobs : r[i] = jobs[k]) \/ r[i] = j
    <3> HIDE DEF j
    <3>1. /\ DOMAIN jobs = 1..Len(jobs) /\ Len(jobs) \in Nat
          /\ DOMAIN r = 1..(Len(jobs) + 1) /\ r[Len(jobs) + 1] = j
          /\ \A i \in DOMAIN jobs : r[i] = jobs[i]
      BY <2>2
    <3>2. ASSUME NEW i \in DOMAIN r, i # Len(jobs) + 1 PROVE i \in DOMAIN jobs /\ r[i] = jobs[i]
      BY <3>1, <3>2
    <3> QED
      BY <2>2, <3>1, <3>2, SMTT(30)
  <2>4. o \in [Sessions -> Nat]
        /\ \A x \in Sessions : o[x] = IF j.session = x THEN pending[x] + 1 ELSE pending[x]
    BY <2>2
  <2>5. \A x \in Sessions : o[x] = Cardinality(IndicesOf(r, x))
    <3> HIDE DEF o, j
    <3> QED
      BY <2>2, <2>4, IndicesOfAppend, SMTT(30)
  <2>6. Holders(o) = Holders(pending) \cup {s}
    BY <2>2, <2>4 DEF Holders
  <2>7. /\ IsFiniteSet(Holders(o))
        /\ Cardinality(Holders(o)) = IF s \in Holders(pending) THEN Cardinality(Holders(pending))
                                     ELSE Cardinality(Holders(pending)) + 1
    <3> HIDE DEF o
    <3>1. IsFiniteSet(Holders(pending))
      OBVIOUS
    <3>2. /\ IsFiniteSet(Holders(pending) \cup {s})
          /\ Cardinality(Holders(pending) \cup {s}) =
               IF s \in Holders(pending) THEN Cardinality(Holders(pending))
                                        ELSE Cardinality(Holders(pending)) + 1
      BY <3>1, FS_AddElement
    <3> QED
      BY <2>6, <3>2
  <2>8. Cardinality(Holders(o)) <= MaxPending
    <3>1. Cardinality(Holders(pending)) \in Nat
      BY FS_CardinalityType
    <3>2. s \notin Holders(pending) => pending[s] = 0
      BY DEF Holders
    <3> QED
      BY <2>1, <2>7, <3>1, <3>2
  <2> QED
    BY <2>1, <2>3, <2>4, <2>5, <2>7, <2>8 DEF health, Refusals
<1> QED
  BY <1>1, <1>2

----------------------------------------------------------------------------
(* The walk *)

\* A step of the running job that leaves the logs alone.
Moves ==
  /\ Shortens(jobs, pending, jobs', pending')
  /\ loop' \in Loops /\ (loop'.at # "idle" => jobs' # <<>>) /\ WalkOK(loop')

(* Where no job runs, or a reconcile looks for its next session. *)
LEMMA Rests ==
  /\ Idle \in Loops /\ WalkOK(Idle) /\ Idle.at = "idle"
  /\ \A w \in Loops : w.at = "next" => WalkOK(w)
BY DEF Idle, Loops, WalkOK, NoSession

LEMMA EndJobMoves ==
  ASSUME Queue(jobs, pending), jobs # <<>>, EndJob
  PROVE  Moves
<1>1. loop' = Idle
  BY DEF EndJob
<1> QED
  BY <1>1, EndJobShortens, Rests DEF Moves

LEMMA StaysMoves ==
  ASSUME Queue(jobs, pending), jobs # <<>>, UNCHANGED <<jobs, pending>>,
         loop' \in Loops, WalkOK(loop')
  PROVE  Moves
BY DEF Moves, Shortens

(* Over or not, the walk of one session leaves a queue of the same jobs. *)
LEMMA LeaveSessionMoves ==
  ASSUME Queue(jobs, pending), jobs # <<>>, loop \in Loops,
         NEW complete \in BOOLEAN, LeaveSession(complete)
  PROVE  Moves
<1>1. CASE Head(jobs).kind = "observe"
  BY <1>1, EndJobMoves DEF LeaveSession
<1>2. CASE Head(jobs).kind # "observe"
  <2>1. /\ loop' = [Idle EXCEPT !.at = "next", !.pass = loop.pass, !.todo = loop.todo,
                                !.complete = loop.complete /\ complete]
        /\ UNCHANGED <<jobs, pending>>
    BY <1>2 DEF LeaveSession
  <2>2. loop' \in Loops /\ loop'.at = "next"
    BY <2>1 DEF Loops, Idle
  <2> QED
    BY <2>1, <2>2, StaysMoves, Rests
<1> QED
  BY <1>1, <1>2

LEMMA FailsMoves ==
  ASSUME Queue(jobs, pending), jobs # <<>>, loop \in Loops,
         {recoveryComplete, refused} \subseteq BOOLEAN,
         NEW code, Fails(code)
  PROVE  /\ Moves /\ failures' = failures \cup {code}
         /\ {recoveryComplete', refused'} \subseteq BOOLEAN
BY LeaveSessionMoves DEF Fails

(* A walk starts at the first turn of its own, if there is one. *)
LEMMA WalkStarts ==
  ASSUME NEW from \in Loops, WalkOK(from), NEW s \in Sessions, NEW cold \in BOOLEAN,
         NEW last \in Nat, last <= Len(log[s])
  PROVE  Walk(from, s, cold, last) \in Loops /\ WalkOK(Walk(from, s, cold, last))
<1>1. FirstOwnTurn(s) \in Nat
  BY DEF FirstOwnTurn
<1>2. CASE last < FirstOwnTurn(s)
  BY <1>2 DEF Walk
<1>3. CASE ~(last < FirstOwnTurn(s))
  <2> DEFINE w == Walk(from, s, cold, last)
  <2>1. w = [from EXCEPT !.at = "flush", !.session = s, !.cold = cold,
                         !.turn = FirstOwnTurn(s), !.last = last]
    BY <1>3 DEF Walk
  <2>2. w \in Loops
    BY <1>1, <2>1 DEF Loops
  <2>3. w.at = "flush" /\ w.session = s /\ w.turn = FirstOwnTurn(s) /\ w.last = last
    BY <2>1 DEF Loops
  <2>4. Walks(w)
    <3> HIDE DEF w
    <3> QED
      BY <1>1, <1>3, <2>3 DEF Walks
  <2> QED
    BY <2>2, <2>4 DEF WalkOK
<1> QED
  BY <1>2, <1>3

(* From the put of a turn the walk goes on to the next, or is over. *)
LEMMA NextTurnMoves ==
  ASSUME Queue(jobs, pending), jobs # <<>>, loop \in Loops, WalkOK(loop), loop.at = "put",
         NextTurn
  PROVE  Moves
<1>1. CASE loop.turn = loop.last
  BY <1>1, LeaveSessionMoves DEF NextTurn
<1>2. CASE loop.turn # loop.last
  <2>1. /\ loop' = [loop EXCEPT !.turn = @ + 1, !.at = IF loop.cold THEN "flush" ELSE "verify"]
        /\ UNCHANGED <<jobs, pending>>
    BY <1>2 DEF NextTurn
  <2>2. loop' \in Loops
    <3>1. loop.turn \in Nat /\ loop.turn + 1 \in Nat
      BY DEF Loops
    <3>2. PICK at \in {"flush", "verify"} : loop' = [loop EXCEPT !.turn = loop.turn + 1, !.at = at]
      BY <2>1
    <3> QED
      BY <3>1, <3>2 DEF Loops
  <2>3. WalkOK(loop')
    <3>1. Walks(loop) /\ loop.session \in Sessions /\ loop.turn \in Nat /\ loop.last \in Nat
      BY DEF WalkOK, Walks, Loops
    <3>2. FirstOwnTurn(loop.session) \in Nat
      BY <3>1 DEF FirstOwnTurn
    <3>3. /\ loop'.session = loop.session /\ loop'.turn = loop.turn + 1 /\ loop'.last = loop.last
          /\ loop'.at # "put"
      BY <2>1, <3>1 DEF Loops
    <3> QED
      BY <1>2, <3>1, <3>2, <3>3 DEF WalkOK, Walks
  <2> QED
    BY <2>1, <2>2, <2>3, StaysMoves
<1> QED
  BY <1>1, <1>2
----------------------------------------------------------------------------
(* The steps *)

\* What the running job starts from.
LEMMA Running ==
  ASSUME Inv, loop.at # "idle" \/ jobs # <<>>
  PROVE  /\ Queue(jobs, pending) /\ jobs # <<>> /\ loop \in Loops /\ WalkOK(loop)
         /\ {recoveryComplete, refused} \subseteq BOOLEAN /\ failures \subseteq Codes
         /\ "SOURCE_IDENTITY_CONFLICT" \notin failures /\ records \subseteq Declaration
BY DEF Inv, TypeOK, LoopOK, Queue, Loops, NoIdentityConflict

LEMMA NoneLeft ==
  ASSUME NEW q \in Seq(Job), DOMAIN q = {}
  PROVE  q = <<>>
<1>1. DOMAIN q = 1..Len(q) /\ Len(q) \in Nat
  OBVIOUS
<1>2. Len(q) = 0
  BY <1>1
<1> QED
  BY <1>2

(* A step of the running job that leaves the logs alone. *)
LEMMA Settles ==
  ASSUME Inv, Moves, UNCHANGED <<external, mounted>>,
         records' \subseteq Declaration, Sources',
         failures' \subseteq Codes, "SOURCE_IDENTITY_CONFLICT" \notin failures',
         {recoveryComplete', refused'} \subseteq BOOLEAN
  PROVE  Inv'
<1>1. TypeOK'
  BY DEF Inv, TypeOK, Moves, Shortens, Queue, Loops, external
<1>2. QueueOK'
  BY DEF Inv, QueueOK, Moves, Shortens, Queue, external
<1>3. LoopOK'
  BY DEF Moves, LoopOK, WalkOK, Walks, external
<1>4. Counted(jobs, pending)'
  BY DEF Moves, Shortens, Queue, Counted, Holders, IndicesOf
<1>5. DownIsEmpty'
  <2>1. /\ jobs' \in Seq(Job) /\ \A i \in DOMAIN jobs' : \E k \in DOMAIN jobs : TRUE
        /\ UNCHANGED mounted
    BY DEF Moves, Shortens, Queue
  <2>2. ASSUME jobs = <<>> PROVE jobs' = <<>>
    <3>1. DOMAIN jobs = {}
      BY <2>2
    <3>2. ASSUME NEW i \in DOMAIN jobs' PROVE FALSE
      BY <2>1, <3>1, <3>2
    <3>3. DOMAIN jobs' = {}
      BY <3>2
    <3> QED
      BY <2>1, <3>3, NoneLeft
  <2> QED
    BY <2>1, <2>2 DEF Inv, DownIsEmpty
<1> QED
  BY <1>1, <1>2, <1>3, <1>4, <1>5 DEF Inv, NoIdentityConflict

(* The sources of the same summaries are still on disk. *)
LEMMA SourcesStay ==
  ASSUME Inv, UNCHANGED records,
         \A s \in Sessions : /\ durable[s] <= durable'[s] /\ durable'[s] \in Nat
                             /\ \A t \in 1..durable[s] : log'[s][t] = log[s][t]
  PROVE  Sources'
<1>1. ASSUME NEW r \in records
      PROVE  /\ r.session \in Sessions /\ r.turn \in Nat /\ r.turn > Inherited[r.session]
             /\ r.turn <= durable[r.session] /\ log[r.session][r.turn] = r.reason
             /\ Inherited[r.session] \in Nat /\ durable[r.session] \in Nat
  BY DEF Inv, TypeOK, Declaration, Sources, SummaryHasSource, InheritedNotCounted
<1>2. ASSUME NEW r \in records
      PROVE  r.turn <= durable'[r.session] /\ log'[r.session][r.turn] = r.reason
  <2>1. r.turn \in 1..durable[r.session]
    BY <1>1
  <2> QED
    BY <1>1, <2>1
<1> QED
  BY <1>1, <1>2 DEF Sources, SummaryHasSource, InheritedNotCounted

(* ... in particular while the logs stay as they are. *)
LEMMA SourcesSame ==
  ASSUME Inv, UNCHANGED <<records, log, durable>>
  PROVE  Sources'
BY SourcesStay DEF Inv, TypeOK

LEMMA FailsKeeps ==
  ASSUME Inv, loop.at # "idle" \/ jobs # <<>>, UNCHANGED <<external, records, mounted>>,
         NEW code \in Codes \ {"SOURCE_IDENTITY_CONFLICT"}, Fails(code)
  PROVE  Inv'
BY Running, FailsMoves, Settles, SourcesSame DEF external

(* The summary a put inserts is of its session's own turn, and that is on disk. *)
LEMMA PutKeeps ==
  ASSUME Inv, PutInserts
  PROVE  Inv'
<1>1. Moves
  BY Running, NextTurnMoves DEF PutInserts
<1>2. Walks(loop) /\ loop.at = "put"
  BY Running DEF PutInserts, WalkOK
<1>3. /\ loop.session \in Sessions /\ loop.turn \in Nat /\ loop.turn > Inherited[loop.session]
      /\ loop.turn <= durable[loop.session]
      /\ log[loop.session] \in Seq(Reasons) /\ durable[loop.session] <= Len(log[loop.session])
      /\ durable[loop.session] \in Nat /\ Inherited[loop.session] \in Nat
  BY <1>2, Running DEF Walks, Inv, TypeOK, Loops, FirstOwnTurn
<1>4. Summary \in Declaration
  <2>1. log[loop.session][loop.turn] \in Reasons
    BY <1>3
  <2> QED
    BY <1>3, <2>1 DEF Summary, Declaration
<1>5. UNCHANGED <<external, mounted, health>> /\ records' = records \cup {Summary}
  BY DEF PutInserts
<1>6. Sources'
  <2>1. ASSUME NEW r \in records'
        PROVE  /\ r.turn <= durable'[r.session] /\ log'[r.session][r.turn] = r.reason
               /\ r.turn > Inherited[r.session]
    <3>1. CASE r \in records
      BY <1>5, <3>1 DEF external, Inv, Sources, SummaryHasSource, InheritedNotCounted
    <3>2. CASE r = Summary
      BY <1>3, <1>5, <3>2 DEF external, Summary
    <3> QED
      BY <1>5, <2>1, <3>1, <3>2
  <2> QED
    BY <2>1 DEF Sources, SummaryHasSource, InheritedNotCounted
<1> QED
  BY <1>1, <1>4, <1>5, <1>6, Running, Settles DEF health, PutInserts

(* What was recorded first agrees with what is put again: both are what the *)
(* log on disk has of that turn.                                            *)
LEMMA PutAgrees ==
  ASSUME Inv, PutMeetsDuplicate
  PROVE  Summary \in records
<1>1. PICK r \in records : r.session = loop.session /\ r.turn = loop.turn
  BY DEF PutMeetsDuplicate, Recorded
<1>2. r \in Declaration /\ log[r.session][r.turn] = r.reason
  BY <1>1 DEF Inv, TypeOK, Sources, SummaryHasSource
<1> QED
  BY <1>1, <1>2 DEF Declaration, Summary

(* Logs that grow, in memory or on disk, keep what a walk relies on. *)
LEMMA WalkStays ==
  ASSUME NEW w \in Loops, WalkOK(w), NEW l \in [Sessions -> Seq(Reasons)],
         NEW d \in [Sessions -> Nat], durable \in [Sessions -> Nat],
         log \in [Sessions -> Seq(Reasons)], loop' = w, log' = l, durable' = d,
         \A s \in Sessions : Len(log[s]) <= Len(l[s]) /\ durable[s] <= d[s]
  PROVE  WalkOK(loop)'
<1>1. w.session \in Sessions \cup {NoSession} /\ w.turn \in Nat /\ w.last \in Nat
  BY DEF Loops
<1>2. ASSUME Walks(w)
      PROVE  /\ w.session \in Sessions /\ w.last <= Len(l[w.session])
             /\ w.at = "put" => w.turn <= d[w.session]
  <2>1. /\ w.session \in Sessions /\ w.last <= Len(log[w.session])
        /\ w.at = "put" => w.turn <= durable[w.session]
    BY <1>2 DEF Walks
  <2>2. /\ Len(log[w.session]) \in Nat /\ Len(l[w.session]) \in Nat
        /\ durable[w.session] \in Nat /\ d[w.session] \in Nat
    BY <2>1
  <2> QED
    BY <1>1, <2>1, <2>2
<1> QED
  BY <1>2 DEF WalkOK, Walks, FirstOwnTurn

LEMMA Grows ==
  ASSUME Inv, NEW l \in [Sessions -> Seq(Reasons)], NEW d \in [Sessions -> Nat],
         log' = l, durable' = d, live' \subseteq Sessions, UNCHANGED <<records, mounted>>,
         \A s \in Sessions : /\ Len(log[s]) <= Len(l[s])
                             /\ durable[s] <= d[s] /\ d[s] <= Len(l[s])
                             /\ \A t \in 1..Len(log[s]) : l[s][t] = log[s][t],
         Queue(jobs', pending'), QueueOK', DownIsEmpty', loop' \in Loops, LoopOK',
         failures' \subseteq failures \cup Refusals, {recoveryComplete', refused'} \subseteq BOOLEAN
  PROVE  Inv'
<1>1. TypeOK'
  BY DEF Inv, TypeOK, Queue, Loops, Codes, Refusals
<1>2. Sources'
  <2>1. ASSUME NEW s \in Sessions, NEW t \in 1..durable[s] PROVE t \in 1..Len(log[s])
    BY <2>1 DEF Inv, TypeOK
  <2> QED
    BY <2>1, SourcesStay DEF Inv, TypeOK
<1>3. Counted(jobs, pending)'
  BY DEF Queue, Counted, Holders, IndicesOf
<1>4. NoIdentityConflict'
  BY DEF Inv, NoIdentityConflict, Refusals
<1> QED
  BY <1>1, <1>2, <1>3, <1>4 DEF Inv

(* A notification, about turns that are in the log by then. *)
LEMMA Notified ==
  ASSUME Inv, NEW s \in Sessions, NEW n \in Nat, NEW l \in [Sessions -> Seq(Reasons)],
         log' = l, n <= Len(l[s]), \A x \in Sessions : Len(log[x]) <= Len(l[x]),
         Schedule(s, n), UNCHANGED mounted
  PROVE  /\ Queue(jobs', pending') /\ QueueOK' /\ DownIsEmpty'
         /\ jobs # <<>> => jobs' # <<>>
         /\ failures' \subseteq failures \cup Refusals
         /\ {recoveryComplete', refused'} \subseteq BOOLEAN
<1>1. Queue(jobs, pending) /\ {recoveryComplete, refused} \subseteq BOOLEAN
      /\ log \in [Sessions -> Seq(Reasons)]
  BY DEF Inv, TypeOK, Queue
<1>2. /\ Queue(jobs', pending')
      /\ jobs # <<>> => jobs' # <<>>
      /\ \A i \in DOMAIN jobs' :
           \/ \E k \in DOMAIN jobs : jobs'[i] = jobs[k]
           \/ jobs'[i] = [kind |-> "observe", session |-> s, through |-> n]
      /\ failures' \subseteq failures \cup Refusals
      /\ {recoveryComplete', refused'} \subseteq BOOLEAN
  BY <1>1, ScheduleQueues
<1>3. QueueOK'
  <2>1. ASSUME NEW i \in DOMAIN jobs', jobs'[i].kind = "observe"
        PROVE  jobs'[i].through <= Len(l[jobs'[i].session])
    <3>1. CASE jobs'[i] = [kind |-> "observe", session |-> s, through |-> n]
      BY <3>1
    <3>2. ASSUME NEW k \in DOMAIN jobs, jobs'[i] = jobs[k]
          PROVE  jobs[k].through <= Len(l[jobs[k].session])
      <4>1. jobs[k] \in Job /\ jobs[k].kind = "observe"
        BY <1>1, <2>1, <3>2 DEF Queue
      <4>2. jobs[k].session \in Sessions /\ jobs[k].through \in Nat
        BY <4>1 DEF Job
      <4>3. jobs[k].through <= Len(log[jobs[k].session])
        BY <4>1 DEF Inv, QueueOK
      <4>4. Len(log[jobs[k].session]) \in Nat /\ Len(l[jobs[k].session]) \in Nat
        BY <1>1, <4>2
      <4> QED
        BY <4>2, <4>3, <4>4
    <3> QED
      BY <1>2, <3>1, <3>2
  <2> QED
    BY <2>1 DEF QueueOK
<1>4. DownIsEmpty'
  BY DEF Inv, DownIsEmpty, Schedule
<1> QED
  BY <1>2, <1>3, <1>4

(* The environment's steps keep the invariant. *)
LEMMA CreatedKeeps ==
  ASSUME Inv, NEW s \in Sessions, Created(s)
  PROVE  Inv'
<1>1. /\ log \in [Sessions -> Seq(Reasons)] /\ durable \in [Sessions -> Nat]
      /\ loop \in Loops /\ LoopOK /\ live \subseteq Sessions
      /\ \A x \in Sessions : durable[x] <= Len(log[x])
  BY DEF Inv, TypeOK, Loops
<1>2. /\ UNCHANGED <<log, durable, records, mounted, loop>>
      /\ live' = live \cup {s} /\ Schedule(s, Len(log[s]))
  BY DEF Created
<1>3. Len(log[s]) \in Nat /\ \A x \in Sessions : Len(log[x]) \in Nat
  BY <1>1
<1>4. /\ Queue(jobs', pending') /\ QueueOK' /\ DownIsEmpty'
      /\ (jobs # <<>> => jobs' # <<>>)
      /\ failures' \subseteq failures \cup Refusals
      /\ {recoveryComplete', refused'} \subseteq BOOLEAN
  BY <1>1, <1>2, <1>3, Notified
<1>5. LoopOK'
  BY <1>1, <1>2, <1>4 DEF LoopOK, WalkOK, Walks
<1>6. live' \subseteq Sessions /\ loop' \in Loops
  BY <1>1, <1>2
<1>7. \A x \in Sessions : Len(log[x]) <= Len(log[x]) /\ durable[x] <= durable[x]
  BY <1>1, <1>3
<1> QED
  BY <1>1, <1>2, <1>4, <1>5, <1>6, <1>7, Grows

LEMMA TurnEndsKeeps ==
  ASSUME Inv, NEW s \in Sessions, TurnEnds(s)
  PROVE  Inv'
<1>1. /\ log \in [Sessions -> Seq(Reasons)] /\ durable \in [Sessions -> Nat]
      /\ loop \in Loops /\ LoopOK /\ live \subseteq Sessions
      /\ \A x \in Sessions : durable[x] <= Len(log[x])
  BY DEF Inv, TypeOK, Loops
<1>2. PICK r \in Reasons : log' = [log EXCEPT ![s] = Append(@, r)]
  BY DEF TurnEnds
<1> DEFINE l == [log EXCEPT ![s] = Append(log[s], r)]
<1>3. UNCHANGED <<durable, live, records, mounted, loop>> /\ Schedule(s, Len(log[s]) + 1)
  BY DEF TurnEnds
<1>4. /\ Append(log[s], r) \in Seq(Reasons) /\ Len(Append(log[s], r)) = Len(log[s]) + 1
      /\ Len(log[s]) \in Nat
      /\ \A t \in 1..Len(log[s]) : Append(log[s], r)[t] = log[s][t]
  BY <1>1
<1>5. l \in [Sessions -> Seq(Reasons)] /\ l[s] = Append(log[s], r)
  BY <1>1, <1>4
<1>6. ASSUME NEW x \in Sessions
      PROVE  /\ Len(log[x]) \in Nat /\ Len(log[x]) <= Len(l[x])
             /\ durable[x] <= durable[x] /\ durable[x] <= Len(l[x])
             /\ \A t \in 1..Len(log[x]) : l[x][t] = log[x][t]
  <2>1. CASE x = s
    BY <1>1, <1>4, <1>5, <2>1
  <2>2. CASE x # s
    <3>1. l[x] = log[x]
      BY <1>1, <2>2
    <3> QED
      BY <1>1, <3>1
  <2> QED
    BY <2>1, <2>2
<1>7. log' = l /\ Len(log[s]) + 1 <= Len(l[s]) /\ Len(log[s]) + 1 \in Nat
  BY <1>2, <1>4, <1>5
<1> HIDE DEF l
<1>8. /\ Queue(jobs', pending') /\ QueueOK' /\ DownIsEmpty'
      /\ (jobs # <<>> => jobs' # <<>>)
      /\ failures' \subseteq failures \cup Refusals
      /\ {recoveryComplete', refused'} \subseteq BOOLEAN
  BY <1>3, <1>5, <1>6, <1>7, Notified
<1>9. LoopOK'
  <2>1. WalkOK(loop)'
    BY <1>1, <1>3, <1>5, <1>6, <1>7, WalkStays DEF LoopOK
  <2> QED
    BY <1>1, <1>3, <1>8, <2>1 DEF LoopOK
<1>10. live' \subseteq Sessions /\ loop' \in Loops
  BY <1>1, <1>3
<1> QED
  BY <1>1, <1>3, <1>5, <1>6, <1>7, <1>8, <1>9, <1>10, Grows

(* More of a log reaches the disk. *)
LEMMA WritesKeeps ==
  ASSUME Inv, NEW s \in Sessions, NEW n \in durable[s]..Len(log[s]),
         durable' = [durable EXCEPT ![s] = n],
         UNCHANGED <<log, live, records, mounted, jobs, pending, health>>,
         loop' \in Loops, (loop'.at # "idle" => jobs # <<>>), WalkOK(loop')
  PROVE  Inv'
<1>1. /\ log \in [Sessions -> Seq(Reasons)] /\ durable \in [Sessions -> Nat]
      /\ live \subseteq Sessions /\ Queue(jobs, pending) /\ QueueOK /\ DownIsEmpty
      /\ {recoveryComplete, refused} \subseteq BOOLEAN
      /\ \A x \in Sessions : durable[x] <= Len(log[x])
  BY DEF Inv, TypeOK, Queue
<1>2. /\ n \in Nat /\ durable[s] <= n /\ n <= Len(log[s])
      /\ \A x \in Sessions : Len(log[x]) \in Nat
  BY <1>1
<1>3. durable' \in [Sessions -> Nat]
      /\ \A x \in Sessions : durable'[x] = IF x = s THEN n ELSE durable[x]
  BY <1>1, <1>2
<1>4. ASSUME NEW x \in Sessions
      PROVE  /\ Len(log[x]) <= Len(log[x])
             /\ durable[x] <= durable'[x] /\ durable'[x] <= Len(log[x])
  BY <1>1, <1>2, <1>3
<1>5. LoopOK'
  <2>1. WalkOK(loop)'
    BY <1>1, <1>3, <1>4, WalkStays
  <2> QED
    BY <2>1 DEF LoopOK
<1>6. Queue(jobs', pending') /\ QueueOK' /\ DownIsEmpty'
  BY <1>1 DEF QueueOK, DownIsEmpty, Queue, Counted, IndicesOf, Holders
<1>7. log' = log /\ live' \subseteq Sessions /\ {recoveryComplete', refused'} \subseteq BOOLEAN
      /\ failures' \subseteq failures \cup Refusals
  BY <1>1 DEF health
<1> QED
  BY <1>1, <1>3, <1>4, <1>5, <1>6, <1>7, Grows

LEMMA PersistsKeeps ==
  ASSUME Inv, NEW s \in Sessions, Persists(s)
  PROVE  Inv'
<1>1. PICK n \in (durable[s] + 1)..Len(log[s]) : durable' = [durable EXCEPT ![s] = n]
  BY DEF Persists
<1>2. n \in durable[s]..Len(log[s])
  BY DEF Inv, TypeOK
<1>3. /\ UNCHANGED <<log, live, records, mounted, jobs, pending, loop, health>>
      /\ loop \in Loops /\ LoopOK
  BY DEF Persists, Inv, TypeOK, Loops
<1> QED
  BY <1>1, <1>2, <1>3, WritesKeeps DEF LoopOK

(* A chain that is empty takes a reconcile, which has no place to hold. *)
LEMMA ReconcileQueues ==
  ASSUME Queue(jobs, pending), jobs = <<>>
  PROVE  Queue(<<ReconcileJob>>, pending)
<1>1. <<ReconcileJob>> \in Seq(Job)
  BY DEF ReconcileJob, Job
<1>2. ASSUME NEW s \in Sessions
      PROVE  IndicesOf(<<ReconcileJob>>, s) = IndicesOf(jobs, s)
  BY DEF IndicesOf, ReconcileJob, NoSession
<1> QED
  BY <1>1, <1>2 DEF Queue, Counted

LEMMA ReconcileKeeps ==
  ASSUME Inv, jobs = <<>>, jobs' = <<ReconcileJob>>, mounted' = "up",
         UNCHANGED <<external, records, pending, loop, health>>
  PROVE  Inv'
<1>1. Queue(jobs', pending')
  BY ReconcileQueues DEF Inv, TypeOK, Queue
<1>2. TypeOK'
  BY <1>1 DEF Inv, TypeOK, Queue, external, health
<1>3. QueueOK' /\ LoopOK' /\ DownIsEmpty'
  BY DEF Inv, QueueOK, LoopOK, WalkOK, Walks, DownIsEmpty, external, ReconcileJob
<1>4. Counted(jobs, pending)'
  BY <1>1 DEF Queue, Counted, Holders, IndicesOf
<1>5. Sources' /\ NoIdentityConflict'
  BY SourcesSame DEF Inv, NoIdentityConflict, external, health
<1> QED
  BY <1>2, <1>3, <1>4, <1>5 DEF Inv

(* What touches neither the chain nor the logs. *)
LEMMA MountedKeeps ==
  ASSUME Inv, UNCHANGED <<external, records, jobs, pending, loop>>,
         mounted' \in {"up", "closing", "down"}, mounted' = "down" => jobs = <<>>,
         failures' \subseteq failures, {recoveryComplete', refused'} \subseteq BOOLEAN
  PROVE  Inv'
<1>1. TypeOK'
  BY DEF Inv, TypeOK, external
<1>2. QueueOK' /\ LoopOK' /\ DownIsEmpty'
  BY DEF Inv, QueueOK, LoopOK, WalkOK, Walks, DownIsEmpty, external
<1>3. Counted(jobs, pending)'
  BY DEF Inv, Counted, Holders, IndicesOf
<1>4. Sources' /\ NoIdentityConflict'
  BY SourcesSame DEF Inv, NoIdentityConflict, external
<1> QED
  BY <1>1, <1>2, <1>3, <1>4 DEF Inv

(* Nobody holds a place of an empty chain. *)
LEMMA EmptyCounted ==
  ASSUME NEW q, NEW o, q = <<>>, o = [s \in Sessions |-> 0]
  PROVE  Counted(q, o) /\ q \in Seq(Job) /\ o \in [Sessions -> Nat]
<1>1. \A s \in Sessions : IndicesOf(q, s) = {}
  BY DEF IndicesOf
<1>2. Holders(o) = {}
  BY DEF Holders
<1>3. IsFiniteSet({}) /\ Cardinality({}) = 0
  BY FS_EmptySet
<1>4. q \in Seq(Job) /\ o \in [Sessions -> Nat] /\ \A s \in Sessions : o[s] = 0
  OBVIOUS
<1>5. 0 <= MaxPending
  OBVIOUS
<1> QED
  BY <1>1, <1>2, <1>3, <1>4, <1>5 DEF Counted

(* A crash forgets the chain, and of the logs what was not on disk. *)
LEMMA CrashKeeps ==
  ASSUME Inv, Crash
  PROVE  Inv'
<1>1. /\ log \in [Sessions -> Seq(Reasons)] /\ durable \in [Sessions -> Nat]
      /\ records \subseteq Declaration
      /\ \A s \in Sessions : durable[s] <= Len(log[s])
  BY DEF Inv, TypeOK
<1> DEFINE l == [s \in Sessions |-> SubSeq(log[s], 1, durable[s])]
<1>2. /\ log' = l /\ UNCHANGED <<durable, records>> /\ mounted' = "down" /\ live' = {}
      /\ jobs' = <<>> /\ pending' = [s \in Sessions |-> 0] /\ loop' = Idle
      /\ recoveryComplete' = FALSE /\ failures' = {} /\ refused' = FALSE
  BY DEF Crash, Forget
<1>3. ASSUME NEW s \in Sessions
      PROVE  /\ l[s] \in Seq(Reasons) /\ Len(l[s]) = durable[s]
             /\ \A t \in 1..durable[s] : l[s][t] = log[s][t]
  <2>1. log[s] \in Seq(Reasons) /\ durable[s] \in Nat /\ durable[s] <= Len(log[s])
    BY <1>1
  <2>2. l[s] = SubSeq(log[s], 1, durable[s])
    OBVIOUS
  <2> QED
    BY <2>1, <2>2
<1>4. l \in [Sessions -> Seq(Reasons)]
  BY <1>3
<1> HIDE DEF l
<1>5. Counted(jobs, pending)' /\ jobs' \in Seq(Job) /\ pending' \in [Sessions -> Nat]
  <2>1. /\ Counted(jobs', pending') /\ jobs' \in Seq(Job) /\ pending' \in [Sessions -> Nat]
    BY <1>2, EmptyCounted
  <2> QED
    BY <2>1 DEF Counted, Holders, IndicesOf
<1>6. TypeOK'
  <2>1. \A s \in Sessions : durable[s] <= Len(l[s])
    BY <1>1, <1>3
  <2> QED
    BY <1>1, <1>2, <1>4, <1>5, <2>1, Rests DEF TypeOK, Loops
<1>7. QueueOK' /\ LoopOK' /\ DownIsEmpty' /\ NoIdentityConflict'
  BY <1>2 DEF QueueOK, LoopOK, WalkOK, Idle, DownIsEmpty, NoIdentityConflict
<1>8. Sources'
  BY <1>1, <1>2, <1>3, SourcesStay
<1> QED
  BY <1>5, <1>6, <1>7, <1>8 DEF Inv

LEMMA EnvironmentKeeps ==
  ASSUME Inv, Environment
  PROVE  Inv'
<1>1. CASE Mount
  BY <1>1, ReconcileKeeps DEF Mount, Inv, DownIsEmpty
<1>2. CASE Close
  BY <1>2, MountedKeeps DEF Close, Inv, TypeOK, health
<1>3. CASE Closed
  BY <1>3, MountedKeeps DEF Closed, Forget
<1>4. CASE RequestReconcile
  BY <1>4, ReconcileKeeps DEF RequestReconcile
<1> QED
  BY <1>1, <1>2, <1>3, <1>4, CrashKeeps, CreatedKeeps, TurnEndsKeeps, PersistsKeeps DEF Environment

(* The steps of the running job keep it, too. *)
LEMMA MovesKeeps ==
  ASSUME Inv, Moves, UNCHANGED <<external, records, mounted>>,
         failures' \subseteq failures \cup {"OBSERVATION_FAILED"},
         {recoveryComplete', refused'} \subseteq BOOLEAN
  PROVE  Inv'
<1>1. /\ failures \subseteq Codes /\ "SOURCE_IDENTITY_CONFLICT" \notin failures
      /\ records \subseteq Declaration
  BY DEF Inv, TypeOK, NoIdentityConflict
<1>2. failures' \subseteq Codes /\ "SOURCE_IDENTITY_CONFLICT" \notin failures'
  BY <1>1 DEF Codes
<1>3. Sources'
  BY SourcesSame DEF external
<1> QED
  BY <1>1, <1>2, <1>3, Settles

LEMMA ObserveStartsKeeps ==
  ASSUME Inv, ObserveStarts
  PROVE  Inv'
<1> DEFINE j == Head(jobs)
           walk == Walk(Idle, j.session, FALSE, j.through)
<1>1. /\ jobs # <<>> /\ j.kind = "observe" /\ UNCHANGED <<external, records, mounted, health>>
      /\ EndJob \/ (loop' = walk /\ UNCHANGED <<jobs, pending>>)
  BY DEF ObserveStarts
<1>2. Queue(jobs, pending) /\ {recoveryComplete, refused} \subseteq BOOLEAN
  BY <1>1, Running
<1>3. j \in Job /\ j.session \in Sessions /\ j = jobs[1] /\ 1 \in DOMAIN jobs
  BY <1>1, <1>2, Heads DEF Queue
<1>4. j.through \in Nat /\ j.through <= Len(log[j.session])
  BY <1>1, <1>3 DEF Job, Inv, QueueOK
<1>5. walk \in Loops /\ WalkOK(walk)
  BY <1>3, <1>4, Rests, WalkStarts
<1> HIDE DEF walk
<1>6. Moves
  BY <1>1, <1>2, <1>5, EndJobMoves, StaysMoves
<1> QED
  BY <1>1, <1>2, <1>6, MovesKeeps DEF health

\* A step of a reconcile between two sessions.
LEMMA LooksKeeps ==
  ASSUME Inv, jobs # <<>>, loop' \in Loops, WalkOK(loop'),
         UNCHANGED <<external, records, mounted, jobs, pending, health>>
  PROVE  Inv'
<1>1. Queue(jobs, pending) /\ {recoveryComplete, refused} \subseteq BOOLEAN
  BY Running
<1>2. Moves
  BY <1>1, StaysMoves
<1> QED
  BY <1>1, <1>2, MovesKeeps DEF health

LEMMA ReconcileStartsKeeps ==
  ASSUME Inv, ReconcileStarts
  PROVE  Inv'
<1>1. loop' \in Loops /\ loop'.at = "next"
  BY DEF ReconcileStarts, Idle, Loops
<1>2. /\ jobs # <<>> /\ UNCHANGED <<external, records, mounted, jobs, pending, failures>>
      /\ recoveryComplete' = recoveryComplete /\ refused' = FALSE
  BY DEF ReconcileStarts
<1>3. Queue(jobs, pending) /\ {recoveryComplete', refused'} \subseteq BOOLEAN
  BY <1>2, Running
<1>4. Moves
  BY <1>1, <1>2, <1>3, Rests, StaysMoves
<1> QED
  BY <1>2, <1>3, <1>4, MovesKeeps

LEMMA ReconcileVisitsKeeps ==
  ASSUME Inv, ReconcileVisits
  PROVE  Inv'
<1>1. /\ jobs # <<>> /\ loop \in Loops /\ loop.at = "next"
      /\ UNCHANGED <<external, records, mounted, jobs, pending, health>>
  BY Running DEF ReconcileVisits
<1>2. PICK s \in loop.todo :
        LET cold == loop.pass = "cold" /\ s \notin live
        IN loop' = Walk([loop EXCEPT !.todo = @ \ {s}], s, cold,
                        IF cold THEN durable[s] ELSE Len(log[s]))
  BY DEF ReconcileVisits
<1> DEFINE rest == [loop EXCEPT !.todo = @ \ {s}]
<1>3. s \in Sessions /\ rest \in Loops /\ rest.at = "next"
  BY <1>1 DEF Loops
<1>4. durable[s] \in Nat /\ durable[s] <= Len(log[s]) /\ Len(log[s]) \in Nat
  BY <1>3 DEF Inv, TypeOK
<1>5. PICK cold \in BOOLEAN, last \in {durable[s], Len(log[s])} : loop' = Walk(rest, s, cold, last)
  BY <1>2
<1> HIDE DEF rest
<1>6. loop' \in Loops /\ WalkOK(loop')
  BY <1>3, <1>4, <1>5, Rests, WalkStarts
<1> QED
  BY <1>1, <1>6, LooksKeeps

LEMMA ReconcileGoesOnKeeps ==
  ASSUME Inv, ReconcileGivesUp \/ ReconcileTurnsToLive
  PROVE  Inv'
<1>1. /\ jobs # <<>> /\ loop \in Loops /\ live \subseteq Sessions
      /\ UNCHANGED <<external, records, mounted, jobs, pending, health>>
  BY Running DEF ReconcileGivesUp, ReconcileTurnsToLive, Inv, TypeOK
<1>2. loop' \in Loops /\ loop'.at = "next"
  BY <1>1 DEF ReconcileGivesUp, ReconcileTurnsToLive, Loops
<1> QED
  BY <1>1, <1>2, Rests, LooksKeeps

LEMMA ReconcileStopsKeeps ==
  ASSUME Inv, ReconcileFails \/ ReconcileEnds
  PROVE  Inv'
<1>1. /\ jobs # <<>> /\ Queue(jobs, pending) /\ loop \in Loops
      /\ {recoveryComplete, refused} \subseteq BOOLEAN
  BY Running DEF ReconcileFails, ReconcileEnds
<1>2. /\ EndJob /\ UNCHANGED <<external, records, mounted>>
      /\ failures' \subseteq failures \cup {"OBSERVATION_FAILED"} /\ refused' = refused
  BY DEF ReconcileFails, ReconcileEnds
<1>3. recoveryComplete' \in {FALSE, loop.complete} /\ loop.complete \in BOOLEAN
  BY <1>1 DEF ReconcileFails, ReconcileEnds, Loops
<1>4. {recoveryComplete', refused'} \subseteq BOOLEAN
  BY <1>1, <1>2, <1>3
<1> QED
  BY <1>1, <1>2, <1>4, EndJobMoves, MovesKeeps

LEMMA FlushKeeps ==
  ASSUME Inv, Flush
  PROVE  Inv'
<1>1. /\ jobs # <<>> /\ loop \in Loops /\ Walks(loop)
      /\ UNCHANGED <<log, live, records, mounted, jobs, pending, health>>
      /\ loop' = [loop EXCEPT !.at = "verify"]
  BY Running DEF Flush, WalkOK
<1>2. PICK n \in durable[loop.session]..Len(log[loop.session]) :
        durable' = [durable EXCEPT ![loop.session] = n]
  BY DEF Flush
<1>3. loop' \in Loops /\ loop'.session = loop.session /\ loop'.turn = loop.turn
      /\ loop'.last = loop.last /\ loop'.at = "verify"
  BY <1>1 DEF Loops
<1>4. loop.session \in Sessions /\ WalkOK(loop')
  BY <1>1, <1>3 DEF WalkOK, Walks
<1> QED
  BY <1>1, <1>2, <1>3, <1>4, WritesKeeps

LEMMA FlushFailsKeeps ==
  ASSUME Inv, FlushFails
  PROVE  Inv'
<1>1. \/ Fails("NO_DURABILITY_LISTENER") \/ Fails("OBSERVATION_FAILED")
  BY DEF FlushFails
<1> QED
  BY <1>1, FailsKeeps DEF FlushFails, Codes

(* The walk comes to a put only when the turn is on disk. *)
LEMMA VerifyKeeps ==
  ASSUME Inv, Verify
  PROVE  Inv'
<1>1. /\ jobs # <<>> /\ loop \in Loops /\ Walks(loop) /\ loop.at = "verify"
      /\ UNCHANGED <<external, records, mounted>>
  BY Running DEF Verify, WalkOK
<1>2. CASE Verified(loop.session, loop.turn)
  <2>1. loop' = [loop EXCEPT !.at = "put"] /\ UNCHANGED <<jobs, pending, health>>
    BY <1>2 DEF Verify
  <2>2. /\ loop' \in Loops /\ loop'.session = loop.session /\ loop'.turn = loop.turn
        /\ loop'.last = loop.last
    BY <1>1, <2>1 DEF Loops
  <2>3. WalkOK(loop')
    BY <1>1, <1>2, <2>2 DEF WalkOK, Walks, Verified
  <2> QED
    BY <1>1, <2>1, <2>2, <2>3, LooksKeeps
<1>3. CASE ~Verified(loop.session, loop.turn)
  <2>1. Fails("SOURCE_NOT_DURABLE")
    BY <1>3 DEF Verify
  <2> QED
    BY <1>1, <2>1, FailsKeeps DEF Codes
<1> QED
  BY <1>2, <1>3

LEMMA DuplicateKeeps ==
  ASSUME Inv, PutMeetsDuplicate
  PROVE  Inv'
<1>1. NextTurn /\ UNCHANGED <<external, records, mounted, health>>
  BY PutAgrees DEF PutMeetsDuplicate
<1>2. Moves /\ {recoveryComplete, refused} \subseteq BOOLEAN
  BY <1>1, Running, NextTurnMoves DEF PutMeetsDuplicate
<1> QED
  BY <1>1, <1>2, MovesKeeps DEF health

LEMMA PutFailsKeeps ==
  ASSUME Inv, PutFails
  PROVE  Inv'
<1>1. Fails("CAPACITY_REACHED") \/ Fails("OBSERVATION_FAILED")
  BY DEF PutFails
<1> QED
  BY <1>1, FailsKeeps DEF PutFails, Codes

----------------------------------------------------------------------------
(* The theorems *)

LEMMA InitInv == Init => Inv
<1> SUFFICES ASSUME Init PROVE Inv
  OBVIOUS
<1> DEFINE first == CHOOSE r \in Reasons : TRUE
           turns(s) == [i \in 1..Inherited[s] |-> first]
<1>1. ASSUME NEW s \in Sessions PROVE turns(s) \in Seq(Reasons) /\ Len(turns(s)) = Inherited[s]
  <2>1. Inherited[s] \in Nat /\ first \in Reasons
    OBVIOUS
  <2> HIDE DEF first
  <2> QED
    BY <2>1
<1>2. log = [s \in Sessions |-> turns(s)] /\ durable = Inherited
  BY DEF Init
<1> HIDE DEF turns
<1>3. log \in [Sessions -> Seq(Reasons)] /\ \A s \in Sessions : durable[s] <= Len(log[s])
  BY <1>1, <1>2
<1>4. Counted(jobs, pending) /\ jobs \in Seq(Job) /\ pending \in [Sessions -> Nat]
  BY EmptyCounted DEF Init
<1>5. TypeOK
  BY <1>2, <1>3, <1>4, Rests DEF Init, TypeOK, Loops
<1>6. QueueOK /\ LoopOK /\ DownIsEmpty /\ Sources /\ NoIdentityConflict
  BY Rests DEF Init, QueueOK, LoopOK, DownIsEmpty, Sources, SummaryHasSource, InheritedNotCounted,
     NoIdentityConflict
<1> QED
  BY <1>4, <1>5, <1>6 DEF Inv

LEMMA StepInv == Inv /\ [Next]_vars => Inv'
<1> SUFFICES ASSUME Inv, [Next]_vars PROVE Inv'
  OBVIOUS
<1>1. CASE UNCHANGED vars
  <2>1. UNCHANGED <<external, records, mounted, jobs, pending, loop, health>>
    BY <1>1 DEF vars
  <2> QED
    BY <2>1, MountedKeeps DEF Inv, TypeOK, DownIsEmpty, health
<1>2. CASE Next
  BY <1>2, EnvironmentKeeps, ObserveStartsKeeps, ReconcileStartsKeeps, ReconcileVisitsKeeps,
     ReconcileGoesOnKeeps, ReconcileStopsKeeps, FlushKeeps, FlushFailsKeeps, VerifyKeeps,
     PutKeeps, DuplicateKeeps, PutFailsKeeps DEF Next, JobStep
<1> QED
  BY <1>1, <1>2

\* The inductive invariant holds in every reachable state.
THEOREM Invariance == Spec => []Inv
<1> QED
  BY InitInv, StepInv, PTL DEF Spec

\* Logs, summaries, queue and walk are of their types.
THEOREM TypeCorrect == Spec => []TypeOK
<1>1. Inv => TypeOK
  BY DEF Inv
<1> QED
  BY <1>1, Invariance, PTL

\* Every summary has its source in the log on disk, with the same reason,
\* through any crashes and turns that end again (boundary.ts).
THEOREM SummariesHaveSources == Spec => []SummaryHasSource
<1>1. Inv => SummaryHasSource
  BY DEF Inv, Sources
<1> QED
  BY <1>1, Invariance, PTL

\* No turn a fork copied from its parent is counted for the fork.
THEOREM ForksDoNotCount == Spec => []InheritedNotCounted
<1>1. Inv => InheritedNotCounted
  BY DEF Inv, Sources
<1> QED
  BY <1>1, Invariance, PTL

\* A replay never disagrees with what was recorded first (store.ts put).
THEOREM ReplaysAgree == Spec => []NoIdentityConflict
<1>1. Inv => NoIdentityConflict
  BY DEF Inv
<1> QED
  BY <1>1, Invariance, PTL

\* The places of the queue are those of the queued jobs, and are never more
\* than maxPending (mount.js schedule).
THEOREM PlacesAreCounted == Spec => []PendingCountsJobs
<1>1. Inv => PendingCountsJobs
  BY DEF Inv, Counted, IndicesOf, Holders, PendingCountsJobs
<1> QED
  BY <1>1, Invariance, PTL

----------------------------------------------------------------------------
(* No turn is lost *)

(* A turn end without its summary is still to be visited: by a queued job,  *)
(* by the walk under way, or by the reconcile that this walk is a part of.  *)
(* That is so as long as no failure was noted, or as long as the claim of   *)
(* recoveryComplete stands and no notification was refused since the last    *)
(* reconcile started.                                                        *)

\* Sessions that are not in memory have nothing that is not on disk.
RestIsDurable == \A s \in Sessions \ live : durable[s] = Len(log[s])

\* A reconcile is the first job of its chain, and a walk between two sessions is its.
Reconciling == jobs # <<>> /\ Head(jobs).kind = "reconcile"
ReconcileLeads ==
  /\ \A i \in DOMAIN jobs : jobs[i].kind = "reconcile" => i = 1
  /\ loop.at = "next" => Reconciling

Covers(j, s, t) == j.kind = "observe" => j.session = s /\ t <= j.through
Awaited(s, t) == \E i \in DOMAIN jobs : (i > 1 \/ loop.at = "idle") /\ Covers(jobs[i], s, t)
Walked(s, t) ==
  loop.at \in {"flush", "verify", "put"} /\ loop.session = s /\ loop.turn <= t /\ t <= loop.last
Ahead(s) ==
  loop.at # "idle" /\ Reconciling /\ (s \in loop.todo \/ (loop.pass = "cold" /\ s \in live))
Kept(s, t) == Recorded(s, t) \/ Awaited(s, t) \/ Walked(s, t) \/ Ahead(s)

Turns(s) == FirstOwnTurn(s)..Len(log[s])
AllKept == \A s \in Sessions : \A t \in Turns(s) : Kept(s, t)

\* The flag claims it, or the reconcile under way is going to.
Claims == IF Reconciling THEN loop.at = "idle" \/ loop.complete ELSE recoveryComplete
Trusted == mounted = "up" /\ (failures = {} \/ (~refused /\ Claims))

KeptInv == RestIsDurable /\ ReconcileLeads /\ (Trusted => AllKept)

\* What a step of the chain leaves to be done, turn by turn.
Passes == \A s \in Sessions : \A t \in Turns(s) : Kept(s, t) => Kept(s, t)'

(* What the steps rely on. *)
LEMMA Base ==
  ASSUME Inv
  PROVE  /\ jobs \in Seq(Job) /\ loop \in Loops /\ (loop.at # "idle" => jobs # <<>>)
         /\ log \in [Sessions -> Seq(Reasons)] /\ durable \in [Sessions -> Nat]
         /\ \A s \in Sessions : /\ durable[s] <= Len(log[s]) /\ Len(log[s]) \in Nat
                                /\ FirstOwnTurn(s) \in Nat \ {0}
         /\ live \subseteq Sessions /\ failures \subseteq Codes
         /\ {recoveryComplete, refused} \subseteq BOOLEAN
BY DEF Inv, TypeOK, LoopOK, Loops, FirstOwnTurn

(* A step of the chain that leaves the logs alone keeps the invariant when it *)
(* hands on what is to be done and trusts no more than before.                *)
LEMMA HandsOn ==
  ASSUME Inv, KeptInv, UNCHANGED external, ReconcileLeads', Trusted' => Trusted /\ Passes
  PROVE  KeptInv'
<1>1. RestIsDurable'
  BY DEF KeptInv, RestIsDurable, external
<1>2. ASSUME Trusted' PROVE AllKept'
  <2>1. AllKept /\ Passes /\ UNCHANGED external
    BY <1>2 DEF KeptInv
  <2>2. ASSUME NEW s \in Sessions, NEW t \in Turns(s)' PROVE Kept(s, t)'
    <3>1. t \in Turns(s)
      BY <2>1, <2>2 DEF Turns, FirstOwnTurn, external
    <3> QED
      BY <2>1, <3>1 DEF AllKept, Passes
  <2> QED
    BY <2>2 DEF AllKept
<1> QED
  BY <1>1, <1>2 DEF KeptInv

(* When a job is over, the others are in front of an idle loop. *)
LEMMA EndJobHands ==
  ASSUME Inv, KeptInv, jobs # <<>>, EndJob, UNCHANGED <<external, records>>
  PROVE  /\ ReconcileLeads' /\ loop'.at = "idle" /\ ~Reconciling'
         /\ \A s \in Sessions : \A t \in Turns(s) :
              \/ Recorded(s, t)
              \/ \E i \in DOMAIN jobs : i > 1 /\ Covers(jobs[i], s, t)
              => Kept(s, t)'
<1>1. jobs \in Seq(Job) /\ jobs' = Tail(jobs) /\ loop'.at = "idle"
  BY Base DEF EndJob, Idle
<1>2. /\ DOMAIN jobs = 1..Len(jobs) /\ Len(jobs) \in Nat \ {0}
      /\ DOMAIN jobs' = 1..(Len(jobs) - 1)
      /\ \A i \in DOMAIN jobs' : jobs'[i] = jobs[i + 1]
  BY <1>1, Tails
<1>3. ASSUME NEW i \in DOMAIN jobs' PROVE jobs'[i].kind # "reconcile"
  BY <1>2 DEF KeptInv, ReconcileLeads
<1>4. ~Reconciling'
  <2>1. ASSUME jobs' # <<>> PROVE Head(jobs') = jobs'[1] /\ 1 \in DOMAIN jobs'
    <3>1. jobs' \in Seq(Job)
      BY <1>1, Tails
    <3> QED
      BY <2>1, <3>1, Heads
  <2> QED
    BY <1>3, <2>1 DEF Reconciling
<1>5. ReconcileLeads'
  BY <1>1, <1>3 DEF ReconcileLeads
<1>6. ASSUME NEW s \in Sessions, NEW t \in Turns(s),
             NEW i \in DOMAIN jobs, i > 1, Covers(jobs[i], s, t)
      PROVE  Kept(s, t)'
  <2>1. i - 1 \in DOMAIN jobs' /\ jobs'[i - 1] = jobs[i]
    BY <1>2, <1>6
  <2>2. \E k \in DOMAIN jobs' : Covers(jobs'[k], s, t)
    BY <1>6, <2>1
  <2>3. Awaited(s, t)'
    BY <1>1, <2>2 DEF Awaited, Covers
  <2> QED
    BY <2>3 DEF Kept
<1>7. ASSUME NEW s \in Sessions, NEW t \in Turns(s), Recorded(s, t)
      PROVE  Kept(s, t)'
  BY <1>7 DEF Kept, Recorded
<1> QED
  BY <1>1, <1>4, <1>5, <1>6, <1>7

(* A failure ends what could be trusted, until the next reconcile. *)
LEMMA FailsHands ==
  ASSUME Inv, KeptInv, jobs # <<>>, NEW code, Fails(code), UNCHANGED <<external, records, mounted>>
  PROVE  KeptInv'
<1>1. failures' # {}
  BY DEF Fails
<1>2. CASE Head(jobs).kind = "observe"
  <2>1. EndJob /\ recoveryComplete' = FALSE
    BY <1>2 DEF Fails, LeaveSession
  <2>2. ReconcileLeads' /\ ~Reconciling'
    BY <2>1, EndJobHands
  <2>3. ~Trusted'
    BY <1>1, <2>1, <2>2 DEF Trusted, Claims
  <2> QED
    BY <2>2, <2>3, HandsOn
<1>3. CASE Head(jobs).kind # "observe"
  <2>1. /\ loop' = [Idle EXCEPT !.at = "next", !.pass = loop.pass, !.todo = loop.todo,
                                !.complete = loop.complete /\ FALSE]
        /\ UNCHANGED <<jobs, pending>>
    BY <1>3 DEF Fails, LeaveSession
  <2>2. loop'.at = "next" /\ loop'.complete = FALSE
    BY <2>1 DEF Idle
  <2>3. Head(jobs).kind = "reconcile"
    BY <1>3, Base, Heads DEF Job
  <2>4. ReconcileLeads' /\ Reconciling'
    BY <2>1, <2>3 DEF KeptInv, ReconcileLeads, Reconciling
  <2>5. ~Trusted'
    BY <1>1, <2>2, <2>4 DEF Trusted, Claims
  <2> QED
    BY <2>4, <2>5, HandsOn
<1> QED
  BY <1>2, <1>3

(* The walk went through a turn that has its summary now: on to the next one. *)
LEMMA NextTurnHands ==
  ASSUME Inv, KeptInv, jobs # <<>>, loop.at = "put", NextTurn,
         UNCHANGED <<external, mounted, health>>, records \subseteq records',
         \E r \in records' : r.session = loop.session /\ r.turn = loop.turn
  PROVE  KeptInv'
<1>1. /\ loop \in Loops /\ loop.turn \in Nat /\ loop.last \in Nat
      /\ \A s, t : Recorded(s, t) => Recorded(s, t)'
  BY Base DEF Loops, Recorded
<1>2. CASE loop.turn = loop.last /\ Head(jobs).kind = "observe"
  <2>1. EndJob
    BY <1>2 DEF NextTurn, LeaveSession
  <2>2. jobs \in Seq(Job) /\ jobs' = Tail(jobs) /\ loop'.at = "idle"
    BY <2>1, Base DEF EndJob, Idle
  <2>3. /\ DOMAIN jobs = 1..Len(jobs) /\ Len(jobs) \in Nat \ {0}
        /\ DOMAIN jobs' = 1..(Len(jobs) - 1)
        /\ \A i \in DOMAIN jobs' : jobs'[i] = jobs[i + 1]
    BY <2>2, Tails
  <2>4. ASSUME NEW i \in DOMAIN jobs' PROVE jobs'[i].kind # "reconcile"
    BY <2>3 DEF KeptInv, ReconcileLeads
  <2>5. ~Reconciling'
    <3>1. ASSUME jobs' # <<>> PROVE Head(jobs') = jobs'[1] /\ 1 \in DOMAIN jobs'
      <4>1. jobs' \in Seq(Job)
        BY <2>2, Tails
      <4> QED
        BY <3>1, <4>1, Heads
    <3> QED
      BY <2>4, <3>1 DEF Reconciling
  <2>6. ReconcileLeads'
    BY <2>2, <2>4 DEF ReconcileLeads
  <2>7. ~Reconciling /\ (Trusted' => Trusted)
    BY <1>2, <2>5 DEF Reconciling, Trusted, Claims, health
  <2>8. Passes
    <3> SUFFICES ASSUME NEW s \in Sessions, NEW t \in Turns(s), Kept(s, t)
                 PROVE  Kept(s, t)'
      BY DEF Passes
    <3>1. CASE Recorded(s, t)
      BY <1>1, <3>1 DEF Kept
    <3>2. CASE Walked(s, t)
      <4>1. s = loop.session /\ t = loop.turn
        BY <1>1, <1>2, <3>2, Base DEF Walked, Turns
      <4> QED
        BY <4>1 DEF Kept, Recorded
    <3>3. ASSUME NEW i \in DOMAIN jobs, i > 1 \/ loop.at = "idle", Covers(jobs[i], s, t)
          PROVE  Kept(s, t)'
      <4>1. i - 1 \in DOMAIN jobs' /\ jobs'[i - 1] = jobs[i]
        BY <2>3, <3>3
      <4>2. \E k \in DOMAIN jobs' : Covers(jobs'[k], s, t)
        BY <3>3, <4>1
      <4>3. Awaited(s, t)'
        BY <2>2, <4>2 DEF Awaited, Covers
      <4> QED
        BY <4>3 DEF Kept
    <3>4. ~Ahead(s)
      BY <2>7 DEF Ahead
    <3> QED
      BY <3>1, <3>2, <3>3, <3>4 DEF Kept, Awaited
  <2> QED
    BY <2>6, <2>7, <2>8, HandsOn
<1>3. CASE ~(loop.turn = loop.last /\ Head(jobs).kind = "observe")
  <2>1. UNCHANGED jobs /\ loop' \in Loops /\ loop'.at # "idle"
    <3>1. UNCHANGED jobs /\ loop'.at # "idle"
      BY <1>1, <1>3 DEF NextTurn, LeaveSession, Idle, Loops
    <3>2. Moves
      BY Running, NextTurnMoves
    <3> QED
      BY <3>1, <3>2 DEF Moves
  <2>2. /\ loop'.todo = loop.todo /\ loop'.pass = loop.pass /\ loop'.complete = loop.complete
        /\ loop'.at = "next" => Head(jobs).kind # "observe"
    BY <1>1, <1>3 DEF NextTurn, LeaveSession, Idle, Loops
  <2>3. loop'.at = "next" => Reconciling
    BY <2>2, Base, Heads DEF Job, Reconciling
  <2>4. ReconcileLeads'
    BY <2>1, <2>3 DEF KeptInv, ReconcileLeads, Reconciling
  <2>5. Trusted' => Trusted
    BY <2>1, <2>2 DEF Trusted, Claims, Reconciling, health
  <2>6. Passes
    <3> SUFFICES ASSUME NEW s \in Sessions, NEW t \in Turns(s), Kept(s, t)
                 PROVE  Kept(s, t)'
      BY DEF Passes
    <3>1. CASE Recorded(s, t)
      BY <1>1, <3>1 DEF Kept
    <3>2. CASE Awaited(s, t)
      <4>1. Awaited(s, t)'
        BY <2>1, <3>2 DEF Awaited, Covers
      <4> QED
        BY <4>1 DEF Kept
    <3>3. CASE Ahead(s)
      <4>1. Ahead(s)'
        BY <2>1, <2>2, <3>3 DEF Ahead, Reconciling, external
      <4> QED
        BY <4>1 DEF Kept
    <3>4. CASE Walked(s, t)
      <4>1. s = loop.session /\ t \in Int /\ loop.turn <= t /\ t <= loop.last
        BY <3>4, Base DEF Walked, Turns
      <4>2. CASE t = loop.turn
        BY <4>1, <4>2 DEF Kept, Recorded
      <4>3. CASE t # loop.turn
        <5>0. loop.turn # loop.last
          BY <1>1, <4>1, <4>3
        <5>1. loop' = [loop EXCEPT !.turn = @ + 1, !.at = IF loop.cold THEN "flush" ELSE "verify"]
          BY <5>0 DEF NextTurn
        <5>2. /\ loop'.session = loop.session /\ loop'.turn = loop.turn + 1 /\ loop'.last = loop.last
              /\ loop'.at \in {"flush", "verify"}
          BY <1>1, <5>1 DEF Loops
        <5>3. Walked(s, t)'
          BY <1>1, <4>1, <4>3, <5>2 DEF Walked
        <5> QED
          BY <5>3 DEF Kept
      <4> QED
        BY <4>2, <4>3
    <3> QED
      BY <3>1, <3>2, <3>3, <3>4 DEF Kept
  <2> QED
    BY <2>4, <2>5, <2>6, HandsOn
<1> QED
  BY <1>2, <1>3

(* The walk moves within a turn. *)
LEMMA WalkingHands ==
  ASSUME Inv, KeptInv, loop.at \in {"flush", "verify", "put"},
         NEW at \in {"flush", "verify", "put"}, loop' = [loop EXCEPT !.at = at],
         UNCHANGED <<log, live, jobs, records, mounted, health>>, RestIsDurable'
  PROVE  KeptInv'
<1>1. /\ loop \in Loops /\ loop'.at = at /\ loop'.session = loop.session /\ loop'.turn = loop.turn
      /\ loop'.last = loop.last /\ loop'.todo = loop.todo /\ loop'.pass = loop.pass
      /\ loop'.complete = loop.complete
  BY Base DEF Loops
<1>2. ReconcileLeads' /\ (Trusted' => Trusted)
  BY <1>1 DEF KeptInv, ReconcileLeads, Reconciling, Trusted, Claims, health
<1>3. ASSUME NEW s \in Sessions, NEW t, Kept(s, t) PROVE Kept(s, t)'
  BY <1>1, <1>3 DEF Kept, Recorded, Awaited, Covers, Walked, Ahead, Reconciling
<1>4. Trusted' => AllKept'
  BY <1>2, <1>3 DEF KeptInv, AllKept, Turns, FirstOwnTurn
<1> QED
  BY <1>2, <1>4 DEF KeptInv

(* A walk over all turns of a session visits each of them. *)
LEMMA WalkCovers ==
  ASSUME Inv, NEW from \in Loops, NEW s \in Sessions, NEW cold \in BOOLEAN, NEW last \in Nat,
         loop' = Walk(from, s, cold, last)
  PROVE  /\ loop'.todo = from.todo /\ loop'.pass = from.pass /\ loop'.complete = from.complete
         /\ loop'.at \in {"flush", from.at}
         /\ \A t \in Turns(s) : t <= last => Walked(s, t)'
<1>1. FirstOwnTurn(s) \in Nat /\ Len(log[s]) \in Nat
  BY Base
<1>2. CASE last < FirstOwnTurn(s)
  BY <1>1, <1>2 DEF Walk, Turns
<1>3. CASE ~(last < FirstOwnTurn(s))
  <2>1. loop' = [from EXCEPT !.at = "flush", !.session = s, !.cold = cold,
                             !.turn = FirstOwnTurn(s), !.last = last]
    BY <1>3 DEF Walk
  <2>2. /\ loop'.at = "flush" /\ loop'.session = s /\ loop'.turn = FirstOwnTurn(s)
        /\ loop'.last = last /\ loop'.todo = from.todo /\ loop'.pass = from.pass
        /\ loop'.complete = from.complete
    BY <2>1 DEF Loops
  <2> QED
    BY <1>1, <2>2 DEF Walked, Turns
<1> QED
  BY <1>2, <1>3

(* Another job is one more that waits; the jobs that waited do. *)
LEMMA ScheduleKeepsWaiting ==
  ASSUME Inv, KeptInv, NEW s \in Sessions, NEW n \in Nat, Schedule(s, n), UNCHANGED <<mounted, loop>>
  PROVE  /\ ReconcileLeads' /\ (Trusted' => Trusted) /\ (Reconciling => Reconciling')
         /\ \A x \in Sessions : \A t : Awaited(x, t) => Awaited(x, t)'
         /\ Trusted' => \A t \in 1..n : Awaited(s, t)'
<1> DEFINE j == [kind |-> "observe", session |-> s, through |-> n]
<1>1. jobs \in Seq(Job) /\ j \in Job /\ (loop.at # "idle" => jobs # <<>>)
  BY Base DEF Job
<1>2. CASE UNCHANGED jobs
  <2>1. Append(jobs, j) # jobs
    <3> HIDE DEF j
    <3>1. Len(Append(jobs, j)) = Len(jobs) + 1 /\ Len(jobs) \in Nat
      BY <1>1
    <3> QED
      BY <3>1
  <2>2. UNCHANGED jobs /\ ~Trusted'
    BY <1>2, <2>1 DEF Schedule, Refuses, Trusted, health, KeptInv
  <2> QED
    BY <2>2 DEF KeptInv, ReconcileLeads, Reconciling, Awaited, Covers
<1>3. CASE ~UNCHANGED jobs
  <2>1. jobs' = Append(jobs, j) /\ UNCHANGED health
    BY <1>3 DEF Schedule, Refuses
  <2>2. /\ DOMAIN jobs = 1..Len(jobs) /\ Len(jobs) \in Nat
        /\ DOMAIN jobs' = 1..(Len(jobs) + 1) /\ jobs'[Len(jobs) + 1] = j
        /\ \A i \in DOMAIN jobs : jobs'[i] = jobs[i]
        /\ jobs' \in Seq(Job) /\ jobs' # <<>>
    <3> HIDE DEF j
    <3> QED
      BY <1>1, <2>1
  <2>3. Reconciling' <=> Reconciling
    <3>1. CASE jobs = <<>>
      <4>1. Head(jobs') = j
        BY <2>2, <3>1, Heads
      <4> QED
        BY <3>1, <4>1 DEF Reconciling
    <3>2. CASE jobs # <<>>
      <4>1. Head(jobs') = Head(jobs)
        BY <1>1, <2>2, <3>2, Heads
      <4> QED
        BY <2>2, <3>2, <4>1 DEF Reconciling
    <3> QED
      BY <3>1, <3>2
  <2>4. ReconcileLeads'
    <3>1. ASSUME NEW i \in DOMAIN jobs', jobs'[i].kind = "reconcile" PROVE i = 1
      <4>1. i # Len(jobs) + 1
        BY <2>2, <3>1
      <4>2. i \in DOMAIN jobs
        BY <2>2, <4>1
      <4> QED
        BY <2>2, <3>1, <4>2 DEF KeptInv, ReconcileLeads
    <3> QED
      BY <2>3, <3>1 DEF KeptInv, ReconcileLeads
  <2>5. Trusted' => Trusted
    BY <2>1, <2>3 DEF Trusted, Claims, health
  <2>6. ASSUME NEW x \in Sessions, NEW t, NEW i \in DOMAIN jobs,
               i > 1 \/ loop.at = "idle", Covers(jobs[i], x, t)
        PROVE  Awaited(x, t)'
    <3>1. i \in DOMAIN jobs' /\ jobs'[i] = jobs[i]
      BY <2>2, <2>6
    <3>2. \E k \in DOMAIN jobs' : (k > 1 \/ loop.at = "idle") /\ Covers(jobs'[k], x, t)
      BY <2>6, <3>1
    <3> QED
      BY <3>2 DEF Awaited, Covers
  <2>7. ASSUME NEW t \in 1..n PROVE Awaited(s, t)'
    <3>1. Len(jobs) + 1 \in DOMAIN jobs' /\ (Len(jobs) + 1 > 1 \/ loop.at = "idle")
      BY <1>1, <2>2
    <3>2. Covers(jobs'[Len(jobs) + 1], s, t)
      BY <2>2, <2>7 DEF Covers
    <3>3. \E k \in DOMAIN jobs' : (k > 1 \/ loop.at = "idle") /\ Covers(jobs'[k], s, t)
      BY <3>1, <3>2
    <3> QED
      BY <3>3 DEF Awaited, Covers
  <2> QED
    BY <2>3, <2>4, <2>5, <2>6, <2>7 DEF Awaited
<1> QED
  BY <1>2, <1>3

LEMMA CreatedHands ==
  ASSUME Inv, KeptInv, NEW s \in Sessions, Created(s)
  PROVE  KeptInv'
<1>1. UNCHANGED <<log, durable, records, mounted, loop>> /\ live' = live \cup {s}
      /\ Schedule(s, Len(log[s])) /\ Len(log[s]) \in Nat
  BY Base DEF Created
<1>2. /\ ReconcileLeads' /\ (Trusted' => Trusted) /\ (Reconciling => Reconciling')
      /\ \A x \in Sessions : \A t : Awaited(x, t) => Awaited(x, t)'
  BY <1>1, ScheduleKeepsWaiting
<1>3. RestIsDurable'
  BY <1>1 DEF KeptInv, RestIsDurable
<1>4. ASSUME NEW x \in Sessions, NEW t, Kept(x, t) PROVE Kept(x, t)'
  BY <1>1, <1>2, <1>4 DEF Kept, Recorded, Walked, Ahead
<1>5. Trusted' => AllKept'
  BY <1>1, <1>2, <1>4 DEF KeptInv, AllKept, Turns, FirstOwnTurn
<1> QED
  BY <1>2, <1>3, <1>5 DEF KeptInv

LEMMA TurnEndsHands ==
  ASSUME Inv, KeptInv, NEW s \in Sessions, TurnEnds(s)
  PROVE  KeptInv'
<1>1. /\ UNCHANGED <<durable, live, records, mounted, loop>> /\ s \in live
      /\ Schedule(s, Len(log[s]) + 1)
  BY DEF TurnEnds
<1>2. PICK r \in Reasons : log' = [log EXCEPT ![s] = Append(@, r)]
  BY DEF TurnEnds
<1>3. /\ \A x \in Sessions \ {s} : log'[x] = log[x]
      /\ Len(log'[s]) = Len(log[s]) + 1 /\ Len(log[s]) \in Nat
  <2>1. log[s] \in Seq(Reasons) /\ log' \in [Sessions -> Seq(Reasons)]
        /\ log'[s] = Append(log[s], r)
    <3>1. Append(log[s], r) \in Seq(Reasons) /\ log[s] \in Seq(Reasons)
      BY Base
    <3> QED
      BY <1>2, <3>1, Base
  <2> QED
    BY <1>2, <2>1, Base
<1>4. /\ ReconcileLeads' /\ (Trusted' => Trusted) /\ (Reconciling => Reconciling')
      /\ \A x \in Sessions : \A t : Awaited(x, t) => Awaited(x, t)'
      /\ Trusted' => \A t \in 1..(Len(log[s]) + 1) : Awaited(s, t)'
  BY <1>1, <1>3, ScheduleKeepsWaiting
<1>5. RestIsDurable'
  BY <1>1, <1>3 DEF KeptInv, RestIsDurable
<1>6. ASSUME NEW x \in Sessions, NEW t, Kept(x, t) PROVE Kept(x, t)'
  BY <1>1, <1>4, <1>6 DEF Kept, Recorded, Walked, Ahead
<1>7. ASSUME Trusted', NEW x \in Sessions, NEW t \in Turns(x)' PROVE Kept(x, t)'
  <2>1. CASE x = s
    <3>1. t \in 1..(Len(log[s]) + 1)
      BY <1>3, <1>7, <2>1, Base DEF Turns, FirstOwnTurn
    <3> QED
      BY <1>4, <1>7, <2>1, <3>1 DEF Kept
  <2>2. CASE x # s
    <3>1. t \in Turns(x)
      BY <1>3, <1>7, <2>2 DEF Turns, FirstOwnTurn
    <3> QED
      BY <1>4, <1>6, <1>7, <3>1 DEF KeptInv, AllKept
  <2> QED
    BY <2>1, <2>2
<1>8. Trusted' => AllKept'
  BY <1>7 DEF AllKept
<1> QED
  BY <1>4, <1>5, <1>8 DEF KeptInv

(* With a reconcile about to start, everything is still to be visited. *)
LEMMA ReconcileHands ==
  ASSUME Inv, KeptInv, jobs = <<>>, jobs' = <<ReconcileJob>>, UNCHANGED <<external, loop>>
  PROVE  KeptInv'
<1>1. loop.at = "idle"
  BY Base
<1>2. /\ DOMAIN jobs' = {1} /\ jobs'[1] = ReconcileJob /\ Head(jobs') = ReconcileJob
      /\ jobs' # <<>>
  OBVIOUS
<1>3. ReconcileLeads'
  BY <1>1, <1>2 DEF ReconcileLeads
<1>4. ASSUME NEW s, NEW t PROVE Awaited(s, t)'
  BY <1>1, <1>2 DEF Awaited, Covers, ReconcileJob
<1>5. RestIsDurable'
  BY DEF KeptInv, RestIsDurable, external
<1> QED
  BY <1>3, <1>4, <1>5 DEF KeptInv, AllKept, Kept

LEMMA EnvironmentHands ==
  ASSUME Inv, KeptInv, Environment
  PROVE  KeptInv'
<1>1. ASSUME NEW s \in Sessions, Persists(s) PROVE KeptInv'
  <2>1. /\ s \in live /\ UNCHANGED <<log, live, records, mounted, jobs, pending, loop, health>>
        /\ \A x \in Sessions \ {s} : durable'[x] = durable[x]
    BY <1>1, Base DEF Persists
  <2>2. RestIsDurable'
    BY <2>1 DEF KeptInv, RestIsDurable
  <2>3. ReconcileLeads' /\ (Trusted' => Trusted)
    BY <2>1 DEF KeptInv, ReconcileLeads, Reconciling, Trusted, Claims, health
  <2>4. ASSUME NEW x \in Sessions, NEW t, Kept(x, t) PROVE Kept(x, t)'
    BY <2>1, <2>4 DEF Kept, Recorded, Awaited, Covers, Walked, Ahead, Reconciling
  <2>5. Trusted' => AllKept'
    BY <2>1, <2>3, <2>4 DEF KeptInv, AllKept, Turns, FirstOwnTurn
  <2> QED
    BY <2>2, <2>3, <2>5 DEF KeptInv
<1>2. CASE Mount \/ RequestReconcile
  BY <1>2, ReconcileHands DEF Mount, RequestReconcile, Inv, DownIsEmpty
<1>3. CASE Close \/ Closed
  <2>1. ~Trusted' /\ UNCHANGED <<external, jobs, loop>>
    BY <1>3 DEF Close, Closed, Trusted
  <2>2. ReconcileLeads'
    BY <2>1 DEF KeptInv, ReconcileLeads, Reconciling
  <2> QED
    BY <2>1, <2>2, HandsOn
<1>4. CASE Crash
  <2>1. /\ ~Trusted' /\ jobs' = <<>> /\ loop'.at = "idle" /\ UNCHANGED durable
        /\ log' = [s \in Sessions |-> SubSeq(log[s], 1, durable[s])]
    BY <1>4 DEF Crash, Trusted, Idle
  <2>2. ReconcileLeads'
    BY <2>1 DEF ReconcileLeads
  <2>3. ASSUME NEW s \in Sessions PROVE durable'[s] = Len(log'[s])
    <3>1. log[s] \in Seq(Reasons) /\ durable[s] \in Nat /\ durable[s] <= Len(log[s])
          /\ log'[s] = SubSeq(log[s], 1, durable[s])
      BY <2>1, Base
    <3> QED
      BY <2>1, <3>1
  <2> QED
    BY <2>1, <2>2, <2>3 DEF KeptInv, RestIsDurable
<1> QED
  BY <1>1, <1>2, <1>3, <1>4, CreatedHands, TurnEndsHands DEF Environment

LEMMA ObserveStartsHands ==
  ASSUME Inv, KeptInv, ObserveStarts
  PROVE  KeptInv'
<1> DEFINE j == Head(jobs)
           walk == Walk(Idle, j.session, FALSE, j.through)
<1>1. /\ jobs # <<>> /\ j.kind = "observe" /\ loop.at = "idle"
      /\ UNCHANGED <<external, records, mounted, health>>
      /\ \/ (mounted = "closing" \/ walk = Idle) /\ EndJob
         \/ loop' = walk /\ walk # Idle /\ UNCHANGED <<jobs, pending>>
  BY DEF ObserveStarts
<1>2. j \in Job /\ j.session \in Sessions /\ j = jobs[1] /\ j.through \in Nat
  BY <1>1, Base, Heads DEF Job
<1>3. ~Reconciling
  BY <1>1 DEF Reconciling
<1>4. FirstOwnTurn(j.session) \in Nat /\ \A s \in Sessions : FirstOwnTurn(s) \in Nat
  BY <1>2, Base
<1>5. CASE EndJob
  <2>1. /\ ReconcileLeads' /\ ~Reconciling'
        /\ \A s \in Sessions : \A t \in Turns(s) :
             \/ Recorded(s, t)
             \/ \E i \in DOMAIN jobs : i > 1 /\ Covers(jobs[i], s, t)
             => Kept(s, t)'
    BY <1>1, <1>5, EndJobHands
  <2>2. ASSUME Trusted' PROVE Trusted /\ Passes
    <3>1. Trusted /\ mounted = "up"
      BY <1>1, <1>3, <2>1, <2>2 DEF Trusted, Claims, health
    <3>2. j.through < FirstOwnTurn(j.session)
      <4>1. ASSUME ~(j.through < FirstOwnTurn(j.session)) PROVE FALSE
        <5>1. walk.at = "flush"
          BY <4>1 DEF Walk, Idle
        <5>2. walk # Idle
          <6> HIDE DEF walk
          <6> QED
            BY <5>1, Rests
        <5>3. loop' = walk
          BY <1>1, <3>1, <5>2
        <5>4. loop'.at = "idle"
          BY <1>1, <1>5, EndJobHands
        <5> QED
          BY <5>1, <5>3, <5>4
      <4> QED
        BY <4>1
    <3>3. ASSUME NEW s \in Sessions, NEW t \in Turns(s), Kept(s, t) PROVE Kept(s, t)'
      <4>1. Recorded(s, t) \/ Awaited(s, t)
        BY <1>1, <3>3 DEF Kept, Walked, Ahead
      <4>2. t \in Int /\ FirstOwnTurn(s) <= t
        BY <3>3, Base DEF Turns
      <4>3. ~Covers(jobs[1], s, t)
        BY <1>1, <1>2, <1>4, <3>2, <4>2 DEF Covers
      <4>4. DOMAIN jobs = 1..Len(jobs) /\ Len(jobs) \in Nat
        BY Base
      <4>5. Recorded(s, t) \/ \E i \in DOMAIN jobs : i > 1 /\ Covers(jobs[i], s, t)
        <5> HIDE DEF j
        <5> QED
          BY <4>1, <4>3, <4>4 DEF Awaited
      <4> QED
        BY <2>1, <4>5
    <3> QED
      BY <3>1, <3>3 DEF Passes
  <2> QED
    BY <1>1, <2>1, <2>2, HandsOn
<1>6. CASE loop' = walk /\ walk # Idle /\ UNCHANGED <<jobs, pending>>
  <2>0. PICK x \in Sessions, n \in Nat : x = j.session /\ n = j.through
    BY <1>2
  <2>1. /\ loop'.at \in {"flush", "idle"}
        /\ \A t \in Turns(x) : t <= n => Walked(x, t)'
    <3>1. Idle \in Loops /\ Idle.at = "idle" /\ loop' = Walk(Idle, x, FALSE, n)
      BY <1>6, <2>0, Rests
    <3> QED
      BY <3>1, WalkCovers
  <2>2. loop'.at = "flush"
    BY <1>6, <2>1 DEF Walk, Idle
  <2>3. ReconcileLeads' /\ (Trusted' => Trusted)
    BY <1>1, <1>3, <1>6, <2>2 DEF KeptInv, ReconcileLeads, Reconciling, Trusted, Claims, health
  <2>4. ASSUME NEW s \in Sessions, NEW t \in Turns(s), Kept(s, t) PROVE Kept(s, t)'
    <3>1. CASE Recorded(s, t)
      BY <1>1, <3>1 DEF Kept, Recorded
    <3>2. ASSUME NEW i \in DOMAIN jobs, Covers(jobs[i], s, t) PROVE Kept(s, t)'
      <4>1. CASE i = 1
        <5>1. s = x /\ t <= n
          BY <1>1, <1>2, <2>0, <3>2, <4>1 DEF Covers
        <5>2. Walked(s, t)'
          BY <2>1, <2>4, <5>1
        <5> QED
          BY <5>2 DEF Kept
      <4>2. CASE i # 1
        <5>1. i > 1
          <6>1. DOMAIN jobs = 1..Len(jobs) /\ Len(jobs) \in Nat
            BY Base
          <6> QED
            BY <4>2, <6>1
        <5>2. Awaited(s, t)'
          BY <1>6, <3>2, <5>1 DEF Awaited, Covers
        <5> QED
          BY <5>2 DEF Kept
      <4> QED
        BY <4>1, <4>2
    <3>3. ~Walked(s, t) /\ ~Ahead(s)
      BY <1>1 DEF Walked, Ahead
    <3> QED
      BY <2>4, <3>1, <3>2, <3>3 DEF Kept, Awaited
  <2> QED
    BY <1>1, <2>3, <2>4, HandsOn DEF Passes
<1> QED
  BY <1>1, <1>5, <1>6

(* A reconcile visits the sessions on disk, then those in memory: all there are. *)
LEMMA ReconcileStartsHands ==
  ASSUME Inv, KeptInv, ReconcileStarts
  PROVE  KeptInv'
<1>1. /\ Reconciling /\ loop.at = "idle" /\ UNCHANGED <<external, records, mounted, jobs>>
      /\ loop'.at = "next" /\ loop'.pass = "cold" /\ loop'.todo = {s \in Sessions : durable[s] > 0}
  BY DEF ReconcileStarts, Reconciling, Idle
<1>2. ReconcileLeads' /\ RestIsDurable'
  BY <1>1 DEF KeptInv, ReconcileLeads, RestIsDurable, Reconciling, external
<1>3. ASSUME NEW s \in Sessions, NEW t \in Turns(s) PROVE Kept(s, t)'
  <2>1. s \notin live => durable[s] > 0
    BY Base DEF KeptInv, RestIsDurable, Turns
  <2>2. Ahead(s)'
    BY <1>1, <2>1 DEF Ahead, Reconciling, external
  <2> QED
    BY <2>2 DEF Kept
<1>4. AllKept'
  BY <1>1, <1>3 DEF AllKept, Turns, FirstOwnTurn, external
<1> QED
  BY <1>2, <1>4 DEF KeptInv

LEMMA ReconcileVisitsHands ==
  ASSUME Inv, KeptInv, ReconcileVisits
  PROVE  KeptInv'
<1>1. /\ loop.at = "next" /\ UNCHANGED <<external, records, mounted, jobs, pending, health>>
      /\ loop \in Loops /\ Reconciling
  BY Base DEF ReconcileVisits, KeptInv, ReconcileLeads
<1>2. PICK s \in loop.todo :
        LET cold == loop.pass = "cold" /\ s \notin live
        IN loop' = Walk([loop EXCEPT !.todo = @ \ {s}], s, cold,
                        IF cold THEN durable[s] ELSE Len(log[s]))
  BY DEF ReconcileVisits
<1> DEFINE rest == [loop EXCEPT !.todo = @ \ {s}]
<1>3. /\ s \in Sessions /\ rest \in Loops /\ rest.at = "next" /\ rest.todo = loop.todo \ {s}
      /\ rest.pass = loop.pass /\ rest.complete = loop.complete
  BY <1>1 DEF Loops
<1>4. PICK cold \in BOOLEAN, last \in {durable[s], Len(log[s])} :
        loop' = Walk(rest, s, cold, last) /\ last = Len(log[s])
  BY <1>2, <1>3 DEF KeptInv, RestIsDurable
<1> HIDE DEF rest
<1>5. /\ loop'.todo = loop.todo \ {s} /\ loop'.pass = loop.pass /\ loop'.complete = loop.complete
      /\ loop'.at \in {"flush", "next"}
      /\ \A t \in Turns(s) : t <= Len(log[s]) => Walked(s, t)'
  <2>1. last \in Nat
    BY <1>3, <1>4, Base
  <2> QED
    BY <1>3, <1>4, <2>1, WalkCovers
<1>6. ReconcileLeads' /\ (Trusted' => Trusted)
  BY <1>1, <1>5 DEF KeptInv, ReconcileLeads, Reconciling, Trusted, Claims, health
<1>7. ASSUME NEW x \in Sessions, NEW t \in Turns(x), Kept(x, t) PROVE Kept(x, t)'
  <2>1. CASE Recorded(x, t)
    BY <1>1, <2>1 DEF Kept, Recorded
  <2>2. CASE Awaited(x, t)
    <3>1. Awaited(x, t)'
      BY <1>1, <2>2 DEF Awaited, Covers
    <3> QED
      BY <3>1 DEF Kept
  <2>3. CASE Ahead(x) /\ x # s
    <3>1. Ahead(x)'
      BY <1>1, <1>5, <2>3 DEF Ahead, Reconciling, external
    <3> QED
      BY <3>1 DEF Kept
  <2>4. CASE x = s
    <3>1. t \in Int /\ t <= Len(log[s])
      BY <1>7, <2>4, Base DEF Turns
    <3>2. Walked(x, t)'
      BY <1>5, <1>7, <2>4, <3>1
    <3> QED
      BY <3>2 DEF Kept
  <2>5. ~Walked(x, t)
    BY <1>1 DEF Walked
  <2> QED
    BY <1>7, <2>1, <2>2, <2>3, <2>4, <2>5 DEF Kept
<1> QED
  BY <1>1, <1>6, <1>7, HandsOn DEF Passes

LEMMA ReconcileTurnsHands ==
  ASSUME Inv, KeptInv, ReconcileTurnsToLive
  PROVE  KeptInv'
<1>1. /\ loop.at = "next" /\ loop.pass = "cold" /\ loop.todo = {} /\ Reconciling
      /\ UNCHANGED <<external, records, mounted, jobs, health>>
      /\ loop' = [loop EXCEPT !.pass = "live", !.todo = live] /\ loop \in Loops
  BY Base DEF ReconcileTurnsToLive, KeptInv, ReconcileLeads
<1>2. loop'.at = "next" /\ loop'.todo = live /\ loop'.complete = loop.complete
  BY <1>1 DEF Loops
<1>3. ReconcileLeads' /\ (Trusted' => Trusted)
  BY <1>1, <1>2 DEF KeptInv, ReconcileLeads, Reconciling, Trusted, Claims, health
<1>4. ASSUME NEW s \in Sessions, NEW t, Kept(s, t) PROVE Kept(s, t)'
  BY <1>1, <1>2, <1>4 DEF Kept, Recorded, Awaited, Covers, Walked, Ahead, Reconciling, external
<1> QED
  BY <1>1, <1>3, <1>4, HandsOn DEF Passes

LEMMA ReconcileStopsHands ==
  ASSUME Inv, KeptInv, ReconcileFails \/ ReconcileGivesUp \/ ReconcileEnds
  PROVE  KeptInv'
<1>1. CASE ReconcileFails
  <2>1. /\ jobs # <<>> /\ EndJob /\ UNCHANGED <<external, records>>
        /\ failures' # {} /\ recoveryComplete' = FALSE
    BY <1>1 DEF ReconcileFails
  <2>2. ReconcileLeads' /\ ~Reconciling'
    BY <2>1, EndJobHands
  <2>3. ~Trusted'
    BY <2>1, <2>2 DEF Trusted, Claims
  <2> QED
    BY <2>1, <2>2, <2>3, HandsOn
<1>2. CASE ReconcileGivesUp
  <2>1. /\ ~Trusted' /\ UNCHANGED <<external, jobs>> /\ loop'.at = "next" /\ Reconciling
    BY <1>2, Base DEF ReconcileGivesUp, Trusted, Loops, KeptInv, ReconcileLeads
  <2>2. ReconcileLeads'
    BY <2>1 DEF KeptInv, ReconcileLeads, Reconciling
  <2> QED
    BY <2>1, <2>2, HandsOn
<1>3. CASE ReconcileEnds
  <2>1. /\ loop.at = "next" /\ loop.pass = "live" /\ loop.todo = {} /\ Reconciling
        /\ EndJob /\ UNCHANGED <<external, records, mounted, failures, refused>>
        /\ recoveryComplete' = loop.complete
    BY <1>3 DEF ReconcileEnds, KeptInv, ReconcileLeads
  <2>2. jobs # <<>>
    BY <2>1 DEF Reconciling
  <2>3. /\ ReconcileLeads' /\ ~Reconciling'
        /\ \A s \in Sessions : \A t \in Turns(s) :
             \/ Recorded(s, t)
             \/ \E i \in DOMAIN jobs : i > 1 /\ Covers(jobs[i], s, t)
             => Kept(s, t)'
    BY <2>1, <2>2, EndJobHands
  <2>4. Trusted' => Trusted
    BY <2>1, <2>3 DEF Trusted, Claims
  <2>5. Passes
    BY <2>1, <2>3 DEF Passes, Kept, Awaited, Walked, Ahead
  <2> QED
    BY <2>1, <2>3, <2>4, <2>5, HandsOn
<1> QED
  BY <1>1, <1>2, <1>3

LEMMA StepKept == Inv /\ KeptInv /\ [Next]_vars => KeptInv'
<1> SUFFICES ASSUME Inv, KeptInv, [Next]_vars PROVE KeptInv'
  OBVIOUS
<1>1. CASE UNCHANGED vars
  <2>1. ReconcileLeads' /\ (Trusted' => Trusted) /\ UNCHANGED external
    BY <1>1 DEF KeptInv, ReconcileLeads, Reconciling, Trusted, Claims, vars, health
  <2>2. ASSUME NEW s \in Sessions, NEW t, Kept(s, t) PROVE Kept(s, t)'
    BY <1>1, <2>2 DEF vars, external, Kept, Recorded, Awaited, Covers, Walked, Ahead, Reconciling
  <2> QED
    BY <2>1, <2>2, HandsOn DEF Passes
<1>2. ASSUME Flush \/ Verify \/ FlushFails PROVE KeptInv'
  <2>1. /\ jobs # <<>> /\ loop.at \in {"flush", "verify"} /\ UNCHANGED <<log, live, records, mounted>>
    BY <1>2, Base DEF Flush, Verify, FlushFails, external
  <2>2. loop.session \in Sessions
    BY <2>1, Running DEF WalkOK, Walks
  <2>3. CASE Flush
    <3>1. PICK n \in durable[loop.session]..Len(log[loop.session]) :
            durable' = [durable EXCEPT ![loop.session] = n]
      BY <2>3 DEF Flush
    <3>2. RestIsDurable'
      <4>1. ASSUME NEW s \in Sessions \ live PROVE durable'[s] = Len(log[s])
        <5>1. durable[s] = Len(log[s]) /\ Len(log[s]) \in Nat
          BY Base DEF KeptInv, RestIsDurable
        <5>2. CASE s = loop.session
          BY <3>1, <5>1, <5>2, Base
        <5>3. CASE s # loop.session
          BY <3>1, <5>1, <5>3, Base
        <5> QED
          BY <5>2, <5>3
      <4> QED
        BY <2>1, <4>1 DEF RestIsDurable
    <3> QED
      BY <2>1, <2>3, <3>2, WalkingHands DEF Flush
  <2>4. CASE Verify
    <3>1. CASE Verified(loop.session, loop.turn)
      <4>1. loop' = [loop EXCEPT !.at = "put"] /\ UNCHANGED <<jobs, health>> /\ RestIsDurable'
        BY <2>4, <3>1 DEF Verify, KeptInv, RestIsDurable, external
      <4> QED
        BY <2>1, <4>1, WalkingHands
    <3>2. CASE ~Verified(loop.session, loop.turn)
      BY <2>1, <2>4, <3>2, FailsHands DEF Verify
    <3> QED
      BY <3>1, <3>2
  <2>5. CASE FlushFails
    BY <2>1, <2>5, FailsHands DEF FlushFails
  <2> QED
    BY <1>2, <2>3, <2>4, <2>5
<1>3. ASSUME PutInserts \/ PutMeetsDuplicate \/ PutFails PROVE KeptInv'
  <2>1. jobs # <<>> /\ loop.at = "put"
    BY <1>3, Base DEF PutInserts, PutMeetsDuplicate, PutFails
  <2>2. CASE PutInserts
    <3>1. /\ records' = records \cup {Summary} /\ NextTurn /\ UNCHANGED <<external, mounted, health>>
          /\ Summary.session = loop.session /\ Summary.turn = loop.turn
      BY <2>2 DEF PutInserts, Summary
    <3>2. records \subseteq records' /\ \E r \in records' : r.session = loop.session /\ r.turn = loop.turn
      BY <3>1
    <3> QED
      BY <2>1, <3>1, <3>2, NextTurnHands
  <2>3. CASE PutMeetsDuplicate
    <3>1. /\ NextTurn /\ UNCHANGED <<external, records, mounted, health>>
          /\ \E r \in records : r.session = loop.session /\ r.turn = loop.turn
      BY <2>3, PutAgrees DEF PutMeetsDuplicate, Recorded
    <3> QED
      BY <2>1, <3>1, NextTurnHands
  <2>4. CASE PutFails
    BY <2>1, <2>4, FailsHands DEF PutFails
  <2> QED
    BY <1>3, <2>2, <2>3, <2>4
<1> QED
  BY <1>1, <1>2, <1>3, EnvironmentHands, ObserveStartsHands, ReconcileStartsHands,
     ReconcileVisitsHands, ReconcileTurnsHands, ReconcileStopsHands DEF Next, JobStep

LEMMA InitKept == Init => KeptInv
<1> SUFFICES ASSUME Init PROVE KeptInv
  OBVIOUS
<1>1. ReconcileLeads /\ ~Trusted
  BY DEF Init, ReconcileLeads, Trusted, Idle
<1>2. RestIsDurable
  <2>1. ASSUME NEW s \in Sessions PROVE Len(log[s]) = Inherited[s]
    <3>1. log[s] = [i \in 1..Inherited[s] |-> CHOOSE r \in Reasons : TRUE] /\ Inherited[s] \in Nat
      BY DEF Init
    <3> QED
      BY <3>1
  <2> QED
    BY <2>1 DEF Init, RestIsDurable
<1> QED
  BY <1>1, <1>2 DEF KeptInv

(* When the chain is empty nothing is to come: what is kept is recorded. *)
LEMMA NothingToCome ==
  ASSUME Inv, KeptInv, jobs = <<>>, Trusted
  PROVE  AllRecorded
<1>1. ASSUME NEW s \in Sessions, NEW t \in Observable(s) PROVE Recorded(s, t)
  <2>1. t \in Turns(s)
    BY <1>1, Base DEF KeptInv, RestIsDurable, Observable, Turns
  <2>2. ~Awaited(s, t) /\ ~Walked(s, t) /\ ~Ahead(s)
    BY Base DEF Awaited, Walked, Ahead
  <2> QED
    BY <2>1, <2>2 DEF KeptInv, AllKept, Kept
<1> QED
  BY <1>1 DEF AllRecorded

\* Whoever waits for a turn's summary waits for a queued job, the walk under way
\* or a reconcile, unless a failure was noted (mount.js schedule and reconcile).
THEOREM TurnsAreKept == Spec => [](Inv /\ KeptInv)
<1> QED
  BY InitInv, InitKept, StepInv, StepKept, PTL DEF Spec

\* An empty queue without a noted failure has lost no turn end, through any
\* notifications, refusals, reconciles and crashes (mount.js).
THEOREM NothingIsLostInSilence == Spec => []NoSilentLoss
<1>1. Inv /\ KeptInv => NoSilentLoss
  BY NothingToCome DEF NoSilentLoss, Quiet, Trusted
<1> QED
  BY <1>1, TurnsAreKept, PTL

\* recoveryComplete is claimed only of a complete store, when no notification
\* was refused since the last reconcile started (mount.js reconcile).
THEOREM RecoveryClaimIsTrue == Spec => []RecoveryIsComplete
<1>1. Inv /\ KeptInv => RecoveryIsComplete
  BY NothingToCome DEF RecoveryIsComplete, Quiet, Trusted, Claims, Reconciling
<1> QED
  BY <1>1, TurnsAreKept, PTL

----------------------------------------------------------------------------
(* What a summary says of its turn, for logs of any length *)

\* The contexts of a turn are those in effect at some moment of it: the one
\* set before it counts, an earlier one never does (project.ts, route).
LEMMA ContextsInEffect ==
  ASSUME NEW events, NEW start \in Nat \ {0}, NEW end \in Nat, start <= end, ~IsContext(events[start])
  PROVE  Contexts(events, start, end) = {i \in 1..end : \E at \in start..end : InEffect(events, i, at)}
<1> DEFINE active(i) == IsContext(events[i]) /\ \A j \in (i + 1)..(start - 1) : ~IsContext(events[j])
<1>1. ASSUME NEW i \in 1..end, active(i)
      PROVE  \E at \in start..end : InEffect(events, i, at)
  <2>1. CASE i >= start
    <3>1. InEffect(events, i, i) BY <1>1 DEF InEffect
    <3> QED BY <2>1, <3>1
  <2>2. CASE i < start
    <3>1. \A j \in (i + 1)..start : ~IsContext(events[j]) BY <1>1
    <3>2. InEffect(events, i, start) BY <1>1, <2>2, <3>1 DEF InEffect
    <3> QED BY <3>2
  <2> QED BY <2>1, <2>2
<1>2. ASSUME NEW i \in 1..end, NEW at \in start..end, InEffect(events, i, at)
      PROVE  active(i)
  BY <1>2 DEF InEffect
<1> QED BY <1>1, <1>2 DEF Contexts

\* The routes a summary chooses from are the routes of those contexts.
LEMMA RoutesOfTurn ==
  ASSUME NEW events, NEW start \in Nat \ {0}, NEW end \in Nat, start <= end, ~IsContext(events[start])
  PROVE  Routes(events, start, end) = RoutesInEffect(events, start, end)
BY ContextsInEffect DEF Routes, RoutesInEffect

\* They are finitely many, so that they can be counted.
LEMMA RoutesFinite ==
  ASSUME NEW events, NEW start, NEW end \in Nat
  PROVE  IsFiniteSet(Routes(events, start, end))
<1> DEFINE active == Contexts(events, start, end)
           route == [i \in active |-> events[i].route]
<1>1. IsFiniteSet(active)
  <2>1. IsFiniteSet(1..end) BY FS_Interval
  <2>2. active \in SUBSET (1..end) BY DEF Contexts
  <2> QED BY <2>1, <2>2, FS_Subset
<1>2. route \in Surjection(active, Routes(events, start, end))
  BY DEF Surjection, Routes
<1> QED BY <1>1, <1>2, FS_Surjection

\* A summary names a provider and a model only when one route was seen.
LEMMA OneRoute ==
  ASSUME NEW events, NEW start, NEW end \in Nat, NEW part \in {"provider", "model"},
         ~IsMissing(Route(events, start, end)[part])
  PROVE  \E route : /\ Routes(events, start, end) = {route}
                    /\ Route(events, start, end)[part] = Text(route[part], "not_provided")
<1> DEFINE routes == Routes(events, start, end)
           both(o) == [provider |-> o, model |-> o]
<1>1. routes # {}
  <2> SUFFICES ASSUME routes = {} PROVE FALSE
    OBVIOUS
  <2>1. Cardinality(routes) = 0 BY FS_EmptySet
  <2>2. Route(events, start, end) = both(Missing("route_not_observed")) BY <2>1 DEF Route
  <2> QED BY <2>2 DEF IsMissing, Missing
<1>2. ~(Cardinality(routes) > 1)
  <2> SUFFICES ASSUME Cardinality(routes) > 1 PROVE FALSE
    OBVIOUS
  <2>1. Route(events, start, end) = both(Missing("multiple_routes")) BY <1>1 DEF Route
  <2> QED BY <2>1 DEF IsMissing, Missing
<1>3. PICK route : routes = {route}
  <2>1. IsFiniteSet(routes) BY RoutesFinite
  <2>2. Cardinality(routes) \in Nat BY <2>1, FS_CardinalityType
  <2>3. Cardinality(routes) # 0 BY <1>1, <2>1, FS_EmptySet
  <2>4. Cardinality(routes) = 1 BY <1>2, <2>2, <2>3
  <2> QED BY <2>1, <2>4, FS_Singleton
<1>4. (CHOOSE r \in routes : TRUE) = route BY <1>3
<1>5. Route(events, start, end) =
        [provider |-> Text(route.provider, "not_provided"), model |-> Text(route.model, "not_provided")]
  BY <1>1, <1>2, <1>4 DEF Route
<1> QED BY <1>3, <1>5

\* A summary that names a provider or a model names the one that was in effect
\* at every moment of its turn that had a route, and there was such a moment:
\* a turn that changed its route, or had none, is shown without one.
THEOREM NamedRouteWasInEffect ==
  ASSUME NEW events, NEW start \in Nat \ {0}, NEW end \in Nat, start <= end, ~IsContext(events[start]),
         NEW part \in {"provider", "model"}, ~IsMissing(Route(events, start, end)[part])
  PROVE  /\ \E at \in start..end : \E i \in 1..end : InEffect(events, i, at)
         /\ \A at \in start..end : \A i \in 1..end :
              InEffect(events, i, at) =>
                Route(events, start, end)[part] = Text(events[i].route[part], "not_provided")
<1>1. PICK route : /\ Routes(events, start, end) = {route}
                   /\ Route(events, start, end)[part] = Text(route[part], "not_provided")
  BY OneRoute
<1>2. RoutesInEffect(events, start, end) = {route} BY <1>1, RoutesOfTurn
<1>3. \E at \in start..end : \E i \in 1..end : InEffect(events, i, at) BY <1>2 DEF RoutesInEffect
<1>4. ASSUME NEW at \in start..end, NEW i \in 1..end, InEffect(events, i, at)
      PROVE  events[i].route = route
  BY <1>2, <1>4 DEF RoutesInEffect
<1> QED BY <1>1, <1>3, <1>4
=============================================================================
