------------------------- MODULE SessionSummaries -------------------------
(***************************************************************************)
(* The local summaries of chat turns: the observation queue of             *)
(* src/host/mount.js (schedule, observeLive, observeCold, reconcile), the  *)
(* durability barrier of src/core/boundary.ts and the single-writer store  *)
(* of src/core/store.ts.                                                   *)
(*                                                                         *)
(* A session is the sequence of its turn ends.  log[s] is what the host    *)
(* has in memory, of which the first durable[s] are in the session log on  *)
(* disk; a crash keeps only those, and a resumed session may then end the  *)
(* same turn in another way.  A fork starts with Inherited[s] turns of its *)
(* parent, on disk with it and not its own.  Of a turn only its terminal   *)
(* reason is kept, which is what the store compares: ActivitySummary has   *)
(* the rest.  global.set is one step: nothing reads the store between its  *)
(* call and its completion.                                                *)
(***************************************************************************)
EXTENDS Integers, Sequences, FiniteSets

CONSTANTS
  Sessions,     \* session ids
  Reasons,      \* terminal reasons of a turn
  Inherited,    \* [Sessions -> Nat]: turns a session copied from its parent
  MaxTurns,     \* bound: turn ends of all sessions together
  MaxRecords,   \* config.maxRecords
  MaxPending,   \* config.maxPending
  MaxFaults     \* bound: services fail while fewer codes than this are noted

ASSUME SummaryAssumptions ==
  /\ Inherited \in [Sessions -> Nat] /\ "none" \notin Sessions /\ Reasons # {}
  /\ MaxTurns \in Nat /\ MaxRecords \in Nat \ {0} /\ MaxPending \in Nat \ {0}
  /\ MaxFaults \in Nat

VARIABLES
  log,              \* [Sessions -> Seq(Reasons)]: turn ends, in memory
  durable,          \* [Sessions -> Nat]: how many of them are on disk
  live,             \* sessions the host has in memory
  records,          \* summaries in the usage domain, durable
  mounted,          \* "up", "closing" (close() runs) or "down"
  jobs,             \* the promise chain: queued jobs, the head is running
  pending,          \* [Sessions -> Nat]: jobs of a session, 0 when absent
  loop,             \* where the running job is
  recoveryComplete, \* health flag
  failures,         \* codes noted since the mount
  refused           \* history: a notification was refused since the last reconcile started

external == <<log, durable, live>>
health == <<recoveryComplete, failures, refused>>
vars == <<external, records, mounted, jobs, pending, loop, health>>

-----------------------------------------------------------------------------
NoSession == "none"
Codes == {"QUEUE_FULL", "NO_DURABILITY_LISTENER", "SOURCE_NOT_DURABLE",
          "CAPACITY_REACHED", "SOURCE_IDENTITY_CONFLICT", "OBSERVATION_FAILED"}

\* A summary; session and turn are its eventRef.
Declaration == [session : Sessions, turn : Nat, reason : Reasons]

\* Jobs of the chain: a notified session, up to the turn seen at that time, and a reconcile.
Job == [kind : {"observe"}, session : Sessions, through : Nat]
         \cup [kind : {"reconcile"}, session : {NoSession}, through : {0}]
ReconcileJob == [kind |-> "reconcile", session |-> NoSession, through |-> 0]

\* No job runs.  pass is the list a reconcile walks, todo what is left of it.
Idle == [at |-> "idle", session |-> NoSession, turn |-> 0, last |-> 0,
         cold |-> FALSE, pass |-> "none", todo |-> {}, complete |-> TRUE]

Active == mounted \in {"up", "closing"}

\* session.isOwnSeq, and the NOT_OWN_TERMINAL check of projectTerminal.
FirstOwnTurn(s) == Inherited[s] + 1
Recorded(s, t) == \E r \in records : r.session = s /\ r.turn = t

TypeOK ==
  /\ log \in [Sessions -> Seq(Reasons)]
  /\ durable \in [Sessions -> Nat]
  /\ \A s \in Sessions : durable[s] <= Len(log[s])
  /\ live \subseteq Sessions
  /\ records \subseteq Declaration
  /\ mounted \in {"up", "closing", "down"}
  /\ jobs \in Seq(Job)
  /\ pending \in [Sessions -> Nat]
  /\ loop \in [at : {"idle", "next", "flush", "verify", "put"},
               session : Sessions \cup {NoSession}, turn : Nat, last : Nat,
               cold : BOOLEAN, pass : {"none", "cold", "live"},
               todo : SUBSET Sessions, complete : BOOLEAN]
  /\ recoveryComplete \in BOOLEAN
  /\ failures \subseteq Codes
  /\ refused \in BOOLEAN

Init ==
  /\ log = [s \in Sessions |-> [i \in 1..Inherited[s] |-> CHOOSE r \in Reasons : TRUE]]
  /\ durable = Inherited
  /\ live = {}
  /\ records = {}
  /\ mounted = "down"
  /\ jobs = <<>>
  /\ pending = [s \in Sessions |-> 0]
  /\ loop = Idle
  /\ recoveryComplete = FALSE
  /\ failures = {}
  /\ refused = FALSE

-----------------------------------------------------------------------------
(* The host process: sessions, turns, their log, crashes.                  *)

FaultLeft == Cardinality(failures) < MaxFaults

\* A notification that is not queued is noted, and the flag is taken back.
Refuses(code) ==
  /\ failures' = failures \cup {code}
  /\ recoveryComplete' = FALSE
  /\ refused' = TRUE
  /\ UNCHANGED <<jobs, pending>>

\* Mutant: a notification is dropped when its session has a job already.
Schedule_Coalesced(s, through) ==
  IF mounted # "up" \/ pending[s] > 0 THEN UNCHANGED <<jobs, pending, health>>
  ELSE IF Cardinality({x \in Sessions : pending[x] > 0}) >= MaxPending THEN Refuses("QUEUE_FULL")
  ELSE \/ FaultLeft /\ Refuses("OBSERVATION_FAILED")
       \/ /\ pending' = [pending EXCEPT ![s] = 1]
          /\ jobs' = Append(jobs, [kind |-> "observe", session |-> s, through |-> through])
          /\ UNCHANGED health

\* schedule(session): one job per accepted notification, bounded by the
\* number of sessions that have one; session.snapshotEvents() may throw.
Schedule(s, through) ==
  IF mounted # "up" THEN UNCHANGED <<jobs, pending, health>>
  ELSE IF pending[s] = 0 /\ Cardinality({x \in Sessions : pending[x] > 0}) >= MaxPending
  THEN Refuses("QUEUE_FULL")
  ELSE \/ FaultLeft /\ Refuses("OBSERVATION_FAILED")
       \/ /\ pending' = [pending EXCEPT ![s] = @ + 1]
          /\ jobs' = Append(jobs, [kind |-> "observe", session |-> s, through |-> through])
          /\ UNCHANGED health

\* agent/created: a new or a resumed session.
Created(s) ==
  /\ s \notin live
  /\ live' = live \cup {s}
  /\ Schedule(s, Len(log[s]))
  /\ UNCHANGED <<log, durable, records, mounted, loop>>

\* session/event with turn/end.
TurnEnds(s) ==
  /\ s \in live /\ Cardinality(UNION {{x} \X DOMAIN log[x] : x \in Sessions}) < MaxTurns
  /\ \E r \in Reasons : log' = [log EXCEPT ![s] = Append(@, r)]
  /\ Schedule(s, Len(log[s]) + 1)
  /\ UNCHANGED <<durable, live, records, mounted, loop>>

\* The session persistence writes on its own schedule.
Persists(s) ==
  /\ s \in live
  /\ \E n \in (durable[s] + 1)..Len(log[s]) : durable' = [durable EXCEPT ![s] = n]
  /\ UNCHANGED <<log, live, records, mounted, jobs, pending, loop, health>>

\* The health of a mount goes with it.
Forget == recoveryComplete' = FALSE /\ failures' = {} /\ refused' = FALSE

\* Mutant: a mount only waits for notifications.
Mount_WithoutReconcile ==
  /\ mounted = "down"
  /\ mounted' = "up"
  /\ UNCHANGED <<external, records, jobs, pending, loop, health>>

\* mountUsage: reconcile is the first observation job.
Mount ==
  /\ mounted = "down"
  /\ mounted' = "up"
  /\ jobs' = <<ReconcileJob>>
  /\ UNCHANGED <<external, records, pending, loop, health>>

\* close(): no further notifications; the queued jobs are awaited.
Close ==
  /\ mounted = "up"
  /\ mounted' = "closing"
  /\ UNCHANGED <<external, records, jobs, pending, loop, health>>

Closed ==
  /\ mounted = "closing" /\ jobs = <<>>
  /\ mounted' = "down"
  /\ Forget
  /\ UNCHANGED <<external, records, jobs, pending, loop>>

\* The process dies: the sessions keep what is on disk.
Crash ==
  /\ mounted' = "down"
  /\ live' = {}
  /\ log' = [s \in Sessions |-> SubSeq(log[s], 1, durable[s])]
  /\ jobs' = <<>> /\ pending' = [s \in Sessions |-> 0] /\ loop' = Idle
  /\ Forget
  /\ UNCHANGED <<durable, records>>

\* api.reconcile().  Bound: asked for when no job is queued; Mount has the
\* reconcile that others queue behind.
RequestReconcile ==
  /\ mounted = "up" /\ jobs = <<>>
  /\ jobs' = <<ReconcileJob>>
  /\ UNCHANGED <<external, records, mounted, pending, loop, health>>

-----------------------------------------------------------------------------
(* The job at the head of the chain.                                       *)

\* The job ends; finally() gives its session's place back.
EndJob ==
  /\ jobs' = Tail(jobs)
  /\ pending' = IF Head(jobs).kind = "observe"
                THEN [pending EXCEPT ![Head(jobs).session] = @ - 1] ELSE pending
  /\ loop' = Idle

\* The walk over one session is over: the job ends, or a reconcile goes on.
LeaveSession(complete) ==
  IF Head(jobs).kind = "observe" THEN EndJob
  ELSE /\ loop' = [Idle EXCEPT !.at = "next", !.pass = loop.pass, !.todo = loop.todo,
                               !.complete = loop.complete /\ complete]
       /\ UNCHANGED <<jobs, pending>>

\* Mutant: only reconcile clears the flag.
Fails_KeepsFlag(code) ==
  /\ failures' = failures \cup {code}
  /\ UNCHANGED <<recoveryComplete, refused>>
  /\ LeaveSession(FALSE)

\* An error ends the walk over the session and is noted.
Fails(code) ==
  /\ failures' = failures \cup {code}
  /\ recoveryComplete' = (recoveryComplete /\ Head(jobs).kind # "observe")
  /\ UNCHANGED refused
  /\ LeaveSession(FALSE)

\* Mutant: the summary is committed before its source.
Walk_SummaryFirst(from, s, cold, last) ==
  IF last < FirstOwnTurn(s) THEN from
  ELSE [from EXCEPT !.at = "put", !.session = s, !.cold = cold,
                    !.turn = FirstOwnTurn(s), !.last = last]

\* The walk reads the session once and goes through its own turn ends.
Walk(from, s, cold, last) ==
  IF last < FirstOwnTurn(s) THEN from
  ELSE [from EXCEPT !.at = "flush", !.session = s, !.cold = cold,
                    !.turn = FirstOwnTurn(s), !.last = last]

\* observeLive(session, through) from schedule; a closing host skips it.
ObserveStarts ==
  /\ Active /\ jobs # <<>> /\ loop.at = "idle" /\ Head(jobs).kind = "observe"
  /\ LET j == Head(jobs)
         walk == Walk(Idle, j.session, FALSE, j.through)
     IN IF mounted = "closing" \/ walk = Idle
        THEN EndJob
        ELSE loop' = walk /\ UNCHANGED <<jobs, pending>>
  /\ UNCHANGED <<external, records, mounted, health>>

\* reconcile: `await sessionPersistence.list()` names the sessions on disk.
ReconcileStarts ==
  /\ Active /\ jobs # <<>> /\ loop.at = "idle" /\ Head(jobs).kind = "reconcile"
  /\ loop' = [Idle EXCEPT !.at = "next", !.pass = "cold",
                          !.todo = {s \in Sessions : durable[s] > 0}]
  /\ refused' = FALSE
  /\ UNCHANGED <<external, records, mounted, jobs, pending, recoveryComplete, failures>>

\* list() throws.
ReconcileFails ==
  /\ Active /\ jobs # <<>> /\ loop.at = "idle" /\ Head(jobs).kind = "reconcile"
  /\ FaultLeft
  /\ failures' = failures \cup {"OBSERVATION_FAILED"}
  /\ recoveryComplete' = FALSE
  /\ EndJob
  /\ UNCHANGED <<external, records, mounted, refused>>

\* observeCold: a session in memory is observed live, with all its turns;
\* another one as its log on disk is now.
ReconcileVisits ==
  /\ Active /\ loop.at = "next" /\ mounted # "closing"
  /\ \E s \in loop.todo :
       LET cold == loop.pass = "cold" /\ s \notin live
           rest == [loop EXCEPT !.todo = @ \ {s}]
       IN loop' = Walk(rest, s, cold, IF cold THEN durable[s] ELSE Len(log[s]))
  /\ UNCHANGED <<external, records, mounted, jobs, pending, health>>

\* A closing host leaves both loops at once.
ReconcileGivesUp ==
  /\ loop.at = "next" /\ mounted = "closing" /\ loop.todo # {}
  /\ loop' = [loop EXCEPT !.todo = {}, !.complete = FALSE]
  /\ UNCHANGED <<external, records, mounted, jobs, pending, health>>

\* The sessions on disk are done: those in memory follow.
ReconcileTurnsToLive ==
  /\ Active /\ loop.at = "next" /\ loop.pass = "cold" /\ loop.todo = {}
  /\ loop' = [loop EXCEPT !.pass = "live", !.todo = live]
  /\ UNCHANGED <<external, records, mounted, jobs, pending, health>>

\* recoveryComplete = complete
ReconcileEnds ==
  /\ Active /\ loop.at = "next" /\ loop.pass = "live" /\ loop.todo = {}
  /\ recoveryComplete' = loop.complete
  /\ EndJob
  /\ UNCHANGED <<external, records, mounted, failures, refused>>

-----------------------------------------------------------------------------
(* commitAfterSource: flush, verify, then the summary.                     *)

\* sessions.flush(session), once per observeLive, or sessionPersistence.flush()
\* for every turn of a cold session.  A listener that took part may still
\* have written only a part.
Flush ==
  /\ Active /\ loop.at = "flush"
  /\ \E n \in durable[loop.session]..Len(log[loop.session]) :
       durable' = [durable EXCEPT ![loop.session] = n]
  /\ loop' = [loop EXCEPT !.at = "verify"]
  /\ UNCHANGED <<log, live, records, mounted, jobs, pending, health>>

\* No listener wrote the session, or the flush throws.
FlushFails ==
  /\ Active /\ loop.at = "flush" /\ FaultLeft
  /\ \/ ~loop.cold /\ Fails("NO_DURABILITY_LISTENER")
     \/ Fails("OBSERVATION_FAILED")
  /\ UNCHANGED <<external, records, mounted>>

\* Mutant: a flush that a listener took part in is trusted.
Verified_ByFlush(s, t) == TRUE

\* verifyTerminal: read the turn back from the log on disk.
Verified(s, t) == t <= durable[s]

Verify ==
  /\ Active /\ loop.at = "verify"
  /\ IF Verified(loop.session, loop.turn)
     THEN /\ loop' = [loop EXCEPT !.at = "put"]
          /\ UNCHANGED <<jobs, pending, health>>
     ELSE Fails("SOURCE_NOT_DURABLE")
  /\ UNCHANGED <<external, records, mounted>>

\* The next own turn, under the flush of the session when it is live.
NextTurn ==
  IF loop.turn = loop.last THEN LeaveSession(TRUE)
  ELSE /\ loop' = [loop EXCEPT !.turn = @ + 1, !.at = IF loop.cold THEN "flush" ELSE "verify"]
       /\ UNCHANGED <<jobs, pending>>

\* UsageStore.put of the turn the walk is at.
Summary == [session |-> loop.session, turn |-> loop.turn,
            reason |-> log[loop.session][loop.turn]]

PutInserts ==
  /\ Active /\ loop.at = "put"
  /\ ~Recorded(loop.session, loop.turn)
  /\ Cardinality(records) < MaxRecords
  /\ records' = records \cup {Summary}
  /\ NextTurn
  /\ UNCHANGED <<external, mounted, health>>

\* The first observation stays; a replay must agree with it.
PutMeetsDuplicate ==
  /\ Active /\ loop.at = "put"
  /\ Recorded(loop.session, loop.turn)
  /\ IF Summary \in records THEN NextTurn /\ UNCHANGED health
     ELSE Fails("SOURCE_IDENTITY_CONFLICT")
  /\ UNCHANGED <<external, records, mounted>>

\* The store is full, the summary is not valid, or the domain cannot write.
PutFails ==
  /\ Active /\ loop.at = "put"
  /\ ~Recorded(loop.session, loop.turn)
  /\ IF Cardinality(records) >= MaxRecords THEN Fails("CAPACITY_REACHED")
     ELSE FaultLeft /\ Fails("OBSERVATION_FAILED")
  /\ UNCHANGED <<external, records, mounted>>

-----------------------------------------------------------------------------
JobStep ==
  \/ ObserveStarts \/ ReconcileStarts \/ ReconcileFails
  \/ ReconcileVisits \/ ReconcileGivesUp \/ ReconcileTurnsToLive \/ ReconcileEnds
  \/ Flush \/ FlushFails \/ Verify
  \/ PutInserts \/ PutMeetsDuplicate \/ PutFails

Environment ==
  \/ \E s \in Sessions : Created(s) \/ TurnEnds(s) \/ Persists(s)
  \/ Mount \/ Close \/ Closed \/ Crash \/ RequestReconcile

Next == JobStep \/ Environment

\* The calls of the running job return: the chain goes on.
Spec == Init /\ [][Next]_vars /\ WF_vars(JobStep)

-----------------------------------------------------------------------------
(* Properties.                                                             *)

\* Every summary is about a turn end that is in the session log on disk, with
\* the reason it has there: a crash between the barrier and the commit, or a
\* turn that ends again after one, never leaves a summary without its source.
SummaryHasSource ==
  \A r \in records : r.turn <= durable[r.session] /\ log[r.session][r.turn] = r.reason

\* A turn copied into a fork is the parent's: it is not counted again.
InheritedNotCounted == \A r \in records : r.turn > Inherited[r.session]

\* Because of the barrier a replay always agrees with what was recorded first.
NoIdentityConflict == "SOURCE_IDENTITY_CONFLICT" \notin failures

\* A session holds a place of the queue for each of its jobs, until the last
\* one ended, and no more than maxPending sessions hold one.
PendingCountsJobs ==
  /\ \A s \in Sessions :
       pending[s] = Cardinality({i \in DOMAIN jobs : jobs[i].session = s})
  /\ Cardinality({s \in Sessions : pending[s] > 0}) <= MaxPending

\* Turns the host could observe, of sessions in memory and on disk.
Observable(s) == FirstOwnTurn(s)..(IF s \in live THEN Len(log[s]) ELSE durable[s])
AllRecorded == \A s \in Sessions : \A t \in Observable(s) : Recorded(s, t)

Quiet == mounted = "up" /\ jobs = <<>>

\* When nothing is queued, every turn end has its summary or health names a
\* failure: no way through the queue loses one in silence.
NoSilentLoss == Quiet /\ failures = {} => AllRecorded

\* recoveryComplete is not claimed while a turn end lacks its summary.  What was
\* refused after the last reconcile had started is left out: that reconcile
\* overwrites the flag when it ends.
RecoveryIsComplete == Quiet /\ recoveryComplete /\ ~refused => AllRecorded

\* While the host stays up, the turn ends on disk get their summaries or a
\* failure is noted, through any number of crashes before.
DurableRecorded == \A s \in Sessions : \A t \in FirstOwnTurn(s)..durable[s] : Recorded(s, t)
TurnsSettle ==
  <>[](mounted = "up") => []<>(DurableRecorded \/ failures # {})

=============================================================================
