-------------------------- MODULE ReporterProperties --------------------------
(***************************************************************************)
(* What the reporter, the job queue and the event buffer keep true         *)
(* together, and the specifications they implement.                        *)
(***************************************************************************)
EXTENDS UsageReporter

\* While a request that carries events can be under way, the disk says so for
\* each of them: a crash at that moment is found out by the next process
\* (markUploadIntent and markResendIntent before signRequest and fetch).
IntentIsDurable ==
  run.pc \in {"post", "answered"} /\ Head(tail).kind \in {"run", "resend"} =>
    \A id \in run.batch :
      id \in Pending(disk) /\ disk.rows[id].code \in Markers

\* An event whose outcome the server could not tell, or whose request a crash
\* cut off, is not sent again by the automatic sender: only the person's own
\* selection may.
UnknownNeverAutoResent == At("run", "post") => run.batch \cap server.doubt = {}

\* No event is shown as sent or duplicate that the server did not take, in any
\* answer, miscounted or unreadable ones included.
SentWasIngested ==
  \A id \in Held(disk) : disk.rows[id].state \in {"sent", "duplicate"} => id \in server.ingested

\* A withdrawal recorded as sent has left none of this device's events on the
\* server: no request that was under way can have added one after the deletion.
WithdrawnIsErased == disk.withdrawal = "sent" => server.stored = {}

\* When the queued work is over and consent is withheld, no event is left here.
WithheldLeavesNothing ==
  jobs = <<>> /\ core.linked /\ core.consent = "withheld" => Held(memory) = {}

\* The job that handles a withdrawal of consent ends with an empty buffer
\* (withdraw, "local records are deleted at once").
WithdrawalJobErases ==
  [][jobs # <<>> /\ Head(jobs).kind = "withheld" /\ jobs' = Tail(jobs) => Held(memory) = {}]_jobs

\* Nothing is reported without consent: a request with events leaves only while
\* Core is attached and consent is granted.
ReportsUnderConsent == [][run.pc # "post" /\ run'.pc = "post" => Granted]_run

----------------------------------------------------------------------------
(* Refinement *)

\* A step that leaves the mapped variables alone is looked at first: it is a
\* stutter, and TLC need not look for an action of the abstract module.

\* The buffer, driven by the reporter, the jobs and the scans, is an EventStore.
Buffer == INSTANCE EventStore WITH MaxClock <- SessionTime, clock <- SessionTime
ImplementsEventStore ==
  Buffer!Init /\ [][UNCHANGED Buffer!vars \/ Buffer!Next]_(Buffer!vars)

StageOf(id) ==
  IF id \notin Held(disk) THEN "absent"
  ELSE LET row == disk.rows[id] IN
    CASE row.state = "pending" ->
           (IF row.code = Unknown THEN "unknown"
            ELSE IF row.code = Intent THEN "attempting" ELSE "waiting")
      [] row.state = "rejected" -> "refused"
      [] OTHER -> "delivered"

\* Each recorded fact is delivered as EventDelivery says, across crashes.
Delivery == INSTANCE EventDelivery WITH
  Facts <- EventIds, stage <- [id \in EventIds |-> StageOf(id)], received <- server.ingested
ImplementsDelivery ==
  Delivery!Init /\ [][UNCHANGED Delivery!vars \/ Delivery!Next]_(Delivery!vars)

----------------------------------------------------------------------------
(* Liveness *)

Settled == Pending(memory) = {} \/ Blocked(reporter)

\* What stops the automatic sender behind its back: a resend (upload.js:184), and
\* the stop() of an attempt that lost Core (upload.js:128), which may come after
\* Core is back and the sender has started again.
Undisturbed ==
  /\ \A i \in DOMAIN jobs : jobs[i].kind # "resend"
  /\ run.pc \in {"intent", "undo"} => core.linked

\* With consent, Core and an origin for good, every event reaches a final state,
\* across crashes, unless an outcome is unknown: then the sender waits for the
\* person.
EventsSettle == <>[](Granted /\ core.origin) /\ []Undisturbed => <>[]Settled

\* Once consent is gone for good, the buffer is emptied and the deletion is
\* asked for until the server confirms it, or cannot tell.
WithdrawalCompletes ==
  <>[](core.consent = "withheld" /\ core.linked /\ core.origin) =>
    <>[](Held(memory) = {} /\ (server.stored = {} \/ memory.withdrawal = "unconfirmed"))

\* No job waits for ever: jobs await the reporter's tail, whose tasks await the
\* store's, whose calls always end, in an error too.
JobsDrain == []<>(jobs = <<>> /\ jpc = "idle")
=============================================================================
