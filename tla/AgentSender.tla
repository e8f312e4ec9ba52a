----------------------------- MODULE AgentSender -----------------------------
(***************************************************************************)
(* The standalone agent (src/agent): hooks, the background tick, and the   *)
(* `withdraw` and `resend` commands are separate operating-system          *)
(* processes that share files and two locks, `collection` and `sender`.    *)
(* A process may be killed at any point; the locks it holds are released   *)
(* by the operating system, its request may still arrive.                  *)
(*                                                                         *)
(* One action is one stretch between two awaits, or several that only read *)
(* what cannot change in between.  A method of AgentStore that writes runs *)
(* under the `events` lock: one action.                                    *)
(*                                                                         *)
(* External: Core (consent and its generation, the consentId), the usage   *)
(* server, the coding hosts that call the hooks.                           *)
(* Abstractions: every fact belongs to one listed Hana and counts with an  *)
(* unknown outcome too (countUnconfirmedCalls); nothing expires; the three *)
(* terminal deliveries are one; `observedSuccess`, which nothing reads, is *)
(* left out; a preparation record has an unknown outcome.                  *)
(***************************************************************************)
EXTENDS Naturals, FiniteSets

CONSTANTS
  Facts,     \* tool calls
  Install,   \* the install event of the Hana
  Procs,     \* processes that may run at one time
  Budgets    \* how often the environment may act, by kind: bounds every run

\* "session" and "other" are entries of the bootstrap, see NodeRuntime.
BudgetKinds == {"hook", "prepare", "tick", "withdraw", "resend", "crash", "network", "grant",
                "session", "other"}
ASSUME BudgetAssumption == Budgets \subseteq [BudgetKinds -> Nat]
ASSUME EventAssumption == Install \notin Facts /\ IsFiniteSet(Facts)
ASSUME ProcAssumption == "free" \notin Procs

VARIABLES
  core,        \* [consent, gen]: Core's answer to `state`; gen 0 is no consentId
  left,        \* what remains of the budget
  events,      \* events/<factId>.json
  install,     \* installs/<eventId>.json: [gen, delivery], gen 0 is no wire
  prepared,    \* preparation/: facts the Node-free hook retained
  inflight,    \* inflight/: events whose request may be unanswered
  withdrawal,  \* withdrawal.json: [state, gen]
  lock,        \* holder of each lock
  proc,        \* what each process has at hand, see Idle
  server,      \* [stored, tombstones, late]: events held and generations ended
               \* at the server, requests without a client that may still arrive
  open,        \* history: [event, gen] posted, with no outcome recorded since
  asked        \* history: resends the person asked for, not made yet

local == <<events, install, prepared>>
files == <<local, inflight, withdrawal>>
history == <<open, asked>>
vars == <<core, left, files, lock, proc, server, history>>

EventIds == Facts \union {Install}
NoFact == "none"
Locks == {"collection", "sender"}
Free == "free"

NoWire == [gen |-> 0, success |-> "unknown"]
NoInstall == [gen |-> 0, delivery |-> "none"]
NoEvents == [f \in {} |-> 0]
NoRow == [fact |-> NoFact, success |-> "unknown"]

\* item and outcome are the event at hand, queue the names or rows read before,
\* row the row being drained or the one an install is signed for, consent and
\* gen what Core (or withdrawal.json) said when it was read, wire the
\* generation the request (or the withdrawal) is for, answer Core's answer.
Idle == [pc |-> "idle", program |-> "none", item |-> NoFact, outcome |-> "unknown",
         queue |-> {}, row |-> NoRow, consent |-> "unset", gen |-> 0, wire |-> 0,
         answer |-> [barrier |-> "none", gen |-> 0]]

Spend(kind) == left[kind] > 0 /\ left' = [left EXCEPT ![kind] = @ - 1]

At(p, pc) == proc[p].pc = pc
Become(p, r) == proc' = [proc EXCEPT ![p] = r]
GoTo(p, pc) == Become(p, [proc[p] EXCEPT !.pc = pc])

Take(p, name) == lock[name] = Free /\ lock' = [lock EXCEPT ![name] = p]
Drop(p, names) ==
  lock' = [n \in Locks |-> IF n \in names /\ lock[n] = p THEN Free ELSE lock[n]]

\* The program is over, or throws: every `finally` releases its lock.
Stop(p) == Become(p, Idle) /\ Drop(p, Locks)

\* Waits requestTimeoutMs for the collection lock, then throws.
AcquireCollection(p, pc) ==
  \/ Take(p, "collection") /\ GoTo(p, pc)
  \/ lock["collection"] # Free /\ Stop(p)

\* localRecordingEnabled: an unfinished withdrawal, or one not followed by a
\* grant, stops collection; before any decision it is on.
Enabled(consent) ==
  /\ withdrawal.state = "none" \/ (withdrawal.state = "sent" /\ consent = "granted")
  /\ consent # "withheld"

----------------------------------------------------------------------------
(* AgentStore *)

\* observe: a new call, or the outcome of a call whose bytes are not signed yet.
Observed(f, outcome) ==
  IF f \notin DOMAIN events
    THEN [g \in DOMAIN events \union {f} |->
            IF g = f THEN [success |-> outcome, wire |-> NoWire, delivery |-> "none"]
            ELSE events[g]]
  ELSE IF events[f].success = "unknown" /\ events[f].wire = NoWire
    THEN [events EXCEPT ![f].success = outcome]
  ELSE events

\* Mutant: a row is taken again whatever its delivery.
Unsent_Any == DOMAIN events

\* pending: rows without a delivery.
Unsent == {f \in DOMAIN events : events[f].delivery = "none"}

\* mark, which skips a row that is gone, and markInstall.
Mark(e, delivery) ==
  /\ events' = IF e \in DOMAIN events
               THEN [events EXCEPT ![e].delivery = delivery] ELSE events
  /\ install' = IF e # Install THEN install
                ELSE IF delivery = "done" THEN [gen |-> 0, delivery |-> "done"]
                ELSE [install EXCEPT !.delivery = delivery]

\* AGENT_FACT_CHANGED: the entry of the install event is gone.
Markable(e) == e = Install => install # NoInstall

Erase == events' = NoEvents /\ install' = NoInstall

----------------------------------------------------------------------------
(* The Node-free hook and the hook *)

Launch(p, kind, r) == At(p, "idle") /\ Spend(kind) /\ Become(p, [r EXCEPT !.program = kind])

\* retain_preparing_hook looks for withdrawal.json, then writes its record.
PrepareStarts(p) ==
  /\ withdrawal.state = "none"
  /\ \E f \in Facts : Launch(p, "prepare", [Idle EXCEPT !.pc = "retain", !.item = f])
  /\ UNCHANGED <<core, files, lock, server, history>>

PrepareRetains(p) ==
  /\ At(p, "retain")
  /\ prepared' = prepared \union {proc[p].item}
  /\ Stop(p)
  /\ UNCHANGED <<core, left, events, install, inflight, withdrawal, server, history>>

HookStarts(p) ==
  /\ \E f \in Facts, outcome \in {"unknown", "known"} :
       Launch(p, "hook", [Idle EXCEPT !.pc = "drain", !.item = f, !.outcome = outcome])
  /\ UNCHANGED <<core, files, lock, server, history>>

\* Consent is looked at before the inventory is read, without the lock ...
HookLooks(p) ==
  /\ At(p, "look")
  /\ IF Enabled(core.consent) THEN GoTo(p, "collect") /\ UNCHANGED lock ELSE Stop(p)
  /\ UNCHANGED <<core, left, files, server, history>>

HookLocks(p) ==
  /\ At(p, "collect")
  /\ AcquireCollection(p, "observe")
  /\ UNCHANGED <<core, left, files, server, history>>

\* Mutant: ... and not again under the lock.
HookObserves_Unasked(p) ==
  /\ At(p, "observe")
  /\ events' = Observed(proc[p].item, proc[p].outcome)
  /\ Stop(p)
  /\ UNCHANGED <<core, left, install, prepared, inflight, withdrawal, server, history>>

\* ... and again under it.
HookObserves(p) ==
  /\ At(p, "observe")
  /\ events' = IF Enabled(core.consent) THEN Observed(proc[p].item, proc[p].outcome) ELSE events
  /\ Stop(p)
  /\ UNCHANGED <<core, left, install, prepared, inflight, withdrawal, server, history>>

----------------------------------------------------------------------------
(* drainPreparation: part of a hook and of a tick, and a program of its own *)

AfterDrain(p) ==
  CASE proc[p].program = "hook" -> [proc[p] EXCEPT !.pc = "look", !.queue = {}, !.row = NoRow]
    [] proc[p].program = "tick" -> [proc[p] EXCEPT !.pc = "upload", !.queue = {}, !.row = NoRow]
    [] OTHER -> Idle

\* The directory is read before the lock is taken.
DrainReads(p) ==
  /\ At(p, "drain")
  /\ IF prepared = {} \/ ~Enabled(core.consent) THEN Become(p, AfterDrain(p))
     ELSE Become(p, [proc[p] EXCEPT !.pc = "drain-lock", !.queue = prepared])
  /\ UNCHANGED <<core, left, files, lock, server, history>>

DrainLocks(p) ==
  /\ At(p, "drain-lock")
  /\ AcquireCollection(p, "drain-check")
  /\ UNCHANGED <<core, left, files, server, history>>

\* A record another process has drained meanwhile reads as null, and throws.
DrainChecks(p) ==
  /\ At(p, "drain-check")
  /\ IF ~Enabled(core.consent) THEN Become(p, AfterDrain(p)) /\ Drop(p, {"collection"})
     ELSE IF ~(proc[p].queue \subseteq prepared) THEN Stop(p)
     ELSE GoTo(p, "drain-record") /\ UNCHANGED lock
  /\ UNCHANGED <<core, left, files, server, history>>

DrainRecords(p) ==
  /\ At(p, "drain-record")
  /\ \E f \in proc[p].queue :
       /\ events' = Observed(f, "unknown")
       /\ Become(p, [proc[p] EXCEPT !.pc = "drain-remove",
                                   !.row = [fact |-> f, success |-> "unknown"]])
  /\ UNCHANGED <<core, left, install, prepared, inflight, withdrawal, lock, server, history>>

DrainRemoves(p) ==
  LET rest == proc[p].queue \ {proc[p].row.fact} IN
  /\ At(p, "drain-remove")
  /\ prepared' = prepared \ {proc[p].row.fact}
  /\ IF rest = {} THEN Become(p, AfterDrain(p)) /\ Drop(p, {"collection"})
     ELSE Become(p, [proc[p] EXCEPT !.pc = "drain-record", !.queue = rest]) /\ UNCHANGED lock
  /\ UNCHANGED <<core, left, events, install, inflight, withdrawal, server, history>>

CollectionStep(p) ==
  \/ HookLooks(p) \/ HookLocks(p) \/ HookObserves(p) \/ DrainReads(p) \/ DrainLocks(p) \/ DrainChecks(p)
  \/ DrainRecords(p) \/ DrainRemoves(p)

----------------------------------------------------------------------------
(* A tick of the background process: it finishes a pending withdrawal, then
   records and sends under the sender lock. *)

TickStarts(p) ==
  /\ Launch(p, "tick", [Idle EXCEPT !.pc = "finish", !.consent = core.consent])
  /\ UNCHANGED <<core, files, lock, server, history>>

\* Consent is the answer read before the withdrawal was finished.
TickEnabled(p) ==
  /\ At(p, "enabled")
  /\ IF Enabled(proc[p].consent) /\ lock["sender"] = Free
       THEN Take(p, "sender") /\ GoTo(p, "drain") ELSE Stop(p)
  /\ UNCHANGED <<core, left, files, server, history>>

\* uploadOnce up to its loops: the consentId, the rows to send, the row an
\* install would be signed for.
TickUploads(p) ==
  /\ At(p, "upload")
  /\ IF core.consent # "granted" \/ events = NoEvents THEN Stop(p)
     ELSE /\ \E f \in DOMAIN events :
               Become(p, [proc[p] EXCEPT
                 !.pc = "next", !.gen = core.gen, !.queue = Unsent,
                 !.row = [fact |-> f, success |-> events[f].success]])
          /\ UNCHANGED lock
  /\ UNCHANGED <<core, left, files, server, history>>

\* active: consent still stands, and is the same consent.
Active(p) == core.consent = "granted" /\ core.gen = proc[p].gen

Sends(p, e, gen) ==
  Become(p, [proc[p] EXCEPT !.pc = "sign", !.item = e, !.wire = gen, !.queue = @ \ {e}])
Signs(p, e, success) ==
  Become(p, [proc[p] EXCEPT !.pc = "freeze", !.item = e, !.outcome = success, !.queue = @ \ {e}])

\* A row that is gone, or signed under another consent, ends the tick.
NextRow(p) ==
  /\ At(p, "next")
  /\ \E f \in proc[p].queue :
       IF \/ ~Active(p) \/ f \notin DOMAIN events
          \/ events[f].wire.gen \notin {0, proc[p].gen}
         THEN Stop(p)
         ELSE /\ IF events[f].wire = NoWire THEN Signs(p, f, events[f].success)
                                           ELSE Sends(p, f, proc[p].gen)
              /\ UNCHANGED lock
  /\ UNCHANGED <<core, left, files, server, history>>

\* The install event is sent after the rows, once; the consent its bytes were
\* signed under is not compared.
NextInstall(p) ==
  /\ At(p, "next") /\ proc[p].queue = {}
  /\ IF ~Active(p) \/ install.delivery # "none" THEN Stop(p)
     ELSE /\ IF install.gen = 0 THEN Signs(p, Install, proc[p].row.success)
                                ELSE Sends(p, Install, install.gen)
          /\ UNCHANGED lock
  /\ UNCHANGED <<core, left, files, server, history>>

\* Whose row the signed bytes must still agree with.
SignedRow(p) == IF proc[p].item = Install THEN proc[p].row.fact ELSE proc[p].item

FreezeAs(p) ==
  LET wire == [gen |-> proc[p].gen, success |-> proc[p].outcome] IN
  /\ IF proc[p].item = Install
       THEN install' = [gen |-> wire.gen, delivery |-> "none"] /\ UNCHANGED events
       ELSE events' = [events EXCEPT ![proc[p].item].wire = wire] /\ UNCHANGED install
  /\ Become(p, [proc[p] EXCEPT !.pc = "sign", !.wire = wire.gen])
  /\ UNCHANGED lock

\* Mutant: the bytes signed outside the lock are kept whatever the row says now.
Freeze_Unchecked(p) ==
  /\ At(p, "freeze")
  /\ IF SignedRow(p) \in DOMAIN events THEN FreezeAs(p)
                                       ELSE Stop(p) /\ UNCHANGED <<events, install>>
  /\ UNCHANGED <<core, left, prepared, inflight, withdrawal, server, history>>

\* freezeWire and freezeInstall; only the holder of the sender lock gets here.
Freeze(p) ==
  /\ At(p, "freeze")
  /\ IF SignedRow(p) \in DOMAIN events /\ events[SignedRow(p)].success = proc[p].outcome
       THEN FreezeAs(p)
       ELSE Stop(p) /\ UNCHANGED <<events, install>>
  /\ UNCHANGED <<core, left, prepared, inflight, withdrawal, server, history>>

\* signRequest, which may fail, then active.
Sign(p) ==
  /\ At(p, "sign")
  /\ \/ UNCHANGED left /\ IF Active(p) THEN GoTo(p, "mark") /\ UNCHANGED lock ELSE Stop(p)
     \/ Spend("network") /\ Stop(p)
  /\ UNCHANGED <<core, files, server, history>>

MarkUnconfirmed(p) ==
  /\ At(p, "mark")
  /\ IF Markable(proc[p].item)
       THEN Mark(proc[p].item, "unconfirmed") /\ GoTo(p, "flight") /\ UNCHANGED lock
       ELSE Stop(p) /\ UNCHANGED <<events, install>>
  /\ UNCHANGED <<core, left, prepared, inflight, withdrawal, server, history>>

\* inflight/<key>.json is durable before the request leaves.
WriteMarker(p) ==
  /\ At(p, "flight")
  /\ inflight' = inflight \union {proc[p].item}
  /\ GoTo(p, "post")
  /\ UNCHANGED <<core, left, local, withdrawal, lock, server, history>>

Request(p) == [event |-> proc[p].item, gen |-> proc[p].wire]

Post(p) ==
  /\ At(p, "post")
  /\ open' = open \union {Request(p)}
  /\ asked' = IF Request(p) \in open /\ asked[proc[p].item] > 0
              THEN [asked EXCEPT ![proc[p].item] = @ - 1] ELSE asked
  /\ GoTo(p, "posted")
  /\ UNCHANGED <<core, left, files, lock, server>>

----------------------------------------------------------------------------
(* The usage server (external) *)

\* Ingest refuses what was signed under a withdrawn consent.
Accepted(request) ==
  IF request.gen \in server.tombstones THEN server
  ELSE [server EXCEPT !.stored = @ \union {request}]

\* Accepted (or a duplicate), or refused: either way an outcome.
ServerAnswers(p) ==
  /\ At(p, "posted")
  /\ server' \in {server, Accepted(Request(p))}
  /\ GoTo(p, "outcome")
  /\ UNCHANGED <<core, left, files, lock, history>>

\* Lost, taken, or still under way when the client has given up.
Abandoned(p) ==
  IF At(p, "posted")
    THEN server' \in {server, Accepted(Request(p)), [server EXCEPT !.late = @ \union {Request(p)}]}
  ELSE UNCHANGED server

\* Mutant: a failed request takes its marker back.
RequestFails_Cleans(p) ==
  /\ At(p, "posted") /\ Spend("network")
  /\ Abandoned(p)
  /\ inflight' = inflight \ {proc[p].item}
  /\ Stop(p)
  /\ UNCHANGED <<core, local, withdrawal, history>>

\* A timeout, a dropped connection or an unreadable answer ends the tick; the
\* event stays unconfirmed and its marker stays.
RequestFails(p) ==
  /\ At(p, "posted") /\ Spend("network")
  /\ Abandoned(p)
  /\ Stop(p)
  /\ UNCHANGED <<core, files, history>>

LateRequestArrives ==
  /\ \E request \in server.late :
       server' = [Accepted(request) EXCEPT !.late = @ \ {request}]
  /\ UNCHANGED <<core, left, files, lock, proc, history>>

RecordOutcome(p) ==
  /\ At(p, "outcome")
  /\ open' = open \ {Request(p)}
  /\ IF Markable(proc[p].item)
       THEN Mark(proc[p].item, "done") /\ GoTo(p, "unflight") /\ UNCHANGED lock
       ELSE Stop(p) /\ UNCHANGED <<events, install>>
  /\ UNCHANGED <<core, left, prepared, inflight, withdrawal, server, asked>>

RemoveMarker(p) ==
  /\ At(p, "unflight")
  /\ inflight' = inflight \ {proc[p].item}
  /\ IF proc[p].item = Install THEN Stop(p) ELSE GoTo(p, "next") /\ UNCHANGED lock
  /\ UNCHANGED <<core, left, local, withdrawal, server, history>>

SenderStep(p) ==
  \/ TickEnabled(p) \/ TickUploads(p) \/ NextRow(p) \/ NextInstall(p)
  \/ Freeze(p) \/ Sign(p) \/ MarkUnconfirmed(p) \/ WriteMarker(p) \/ Post(p)
  \/ ServerAnswers(p) \/ RequestFails(p) \/ RecordOutcome(p) \/ RemoveMarker(p)

----------------------------------------------------------------------------
(* Withdrawal: beginWithdrawal, then finishWithdrawal; a tick may run the
   second half alone. *)

WithdrawStarts(p) ==
  /\ Launch(p, "withdraw", [Idle EXCEPT !.pc = "begin"])
  /\ UNCHANGED <<core, files, lock, server, history>>

BeginLocks(p) ==
  /\ At(p, "begin")
  /\ AcquireCollection(p, "withhold")
  /\ UNCHANGED <<core, left, files, server, history>>

BeginWithholds(p) ==
  /\ At(p, "withhold")
  /\ core' = [core EXCEPT !.consent = "withheld"]
  /\ Become(p, [proc[p] EXCEPT !.pc = "declare", !.gen = core.gen])
  /\ UNCHANGED <<left, files, lock, server, history>>

BeginDeclares(p) ==
  /\ At(p, "declare")
  /\ withdrawal' = [state |-> "pending", gen |-> proc[p].gen]
  /\ GoTo(p, "wipe")
  /\ UNCHANGED <<core, left, local, inflight, lock, server, history>>

BeginErases(p) ==
  /\ At(p, "wipe")
  /\ Erase
  /\ GoTo(p, "clear")
  /\ UNCHANGED <<core, left, prepared, inflight, withdrawal, lock, server, history>>

BeginClears(p) ==
  /\ At(p, "clear")
  /\ prepared' = {}
  /\ GoTo(p, "finish") /\ Drop(p, {"collection"})
  /\ UNCHANGED <<core, left, events, install, inflight, withdrawal, server, history>>

\* finishWithdrawal returns: a tick goes on, the command is over.
Return(p) ==
  IF proc[p].program = "tick"
    THEN /\ Become(p, [Idle EXCEPT !.pc = "enabled", !.program = "tick",
                                  !.consent = proc[p].consent])
         /\ Drop(p, Locks)
    ELSE Stop(p)

\* `current`; a tick looks itself whether it is pending before it calls.
FinishReads(p) ==
  /\ At(p, "finish")
  /\ IF withdrawal.state # "pending" THEN Return(p)
     ELSE Become(p, [proc[p] EXCEPT !.pc = "erase-lock", !.gen = withdrawal.gen]) /\ UNCHANGED lock
  /\ UNCHANGED <<core, left, files, server, history>>

FinishLocks(p) ==
  /\ At(p, "erase-lock")
  /\ AcquireCollection(p, "erase")
  /\ UNCHANGED <<core, left, files, server, history>>

\* `live`.
FinishErases(p) ==
  /\ At(p, "erase")
  /\ IF withdrawal.state = "pending"
       THEN Erase /\ GoTo(p, "barrier") /\ Drop(p, {"collection"})
       ELSE Return(p) /\ UNCHANGED <<events, install>>
  /\ UNCHANGED <<core, left, prepared, inflight, withdrawal, server, history>>

\* Mutant: a sender under way is not waited for.
FinishBars_Regardless(p) ==
  /\ At(p, "barrier")
  /\ GoTo(p, "latest")
  /\ UNCHANGED <<core, left, files, lock, server, history>>

\* UPLOAD_IN_PROGRESS leaves the rest to a later tick.
FinishBars(p) ==
  /\ At(p, "barrier")
  /\ IF lock["sender"] = Free THEN Take(p, "sender") /\ GoTo(p, "latest") ELSE Return(p)
  /\ UNCHANGED <<core, left, files, server, history>>

\* `latest`.
FinishRereads(p) ==
  /\ At(p, "latest")
  /\ IF withdrawal.state # "pending" THEN Return(p)
     ELSE Become(p, [proc[p] EXCEPT !.pc = "call", !.wire = withdrawal.gen]) /\ UNCHANGED lock
  /\ UNCHANGED <<core, left, files, server, history>>

\* Core (external) ends its withheld consent at the server, in one step there
\* with the deletion; without a consentId there is no device to withdraw.
Withdrawn ==
  IF core.gen = 0 THEN server
  ELSE [server EXCEPT !.tombstones = @ \union {core.gen},
                      !.stored = {x \in @ : x.gen # core.gen}]

CoreAnswers(p, barrier) ==
  Become(p, [proc[p] EXCEPT !.pc = "decide", !.answer = [barrier |-> barrier, gen |-> core.gen]])

CoreWithdraws(p) ==
  /\ At(p, "call") /\ core.consent = "withheld"
  /\ server' = Withdrawn
  /\ CoreAnswers(p, IF core.gen = 0 THEN "no-device" ELSE "committed")
  /\ UNCHANGED <<core, left, files, lock, history>>

\* No answer, whether the server took it or not; or nothing to withdraw.
CoreFails(p) ==
  /\ At(p, "call")
  /\ \/ core.consent # "withheld" /\ UNCHANGED <<left, server>>
     \/ core.consent = "withheld" /\ Spend("network") /\ server' \in {server, Withdrawn}
  /\ CoreAnswers(p, "failed")
  /\ UNCHANGED <<core, files, lock, history>>

\* Mutant: any answer is a barrier.
Confirmed_Always(p) == TRUE

Confirmed(p) ==
  /\ proc[p].answer.gen = proc[p].wire
  /\ \/ proc[p].answer.barrier = "committed"
     \/ /\ proc[p].answer.barrier = "no-device" /\ inflight = {}
        /\ core = [consent |-> "withheld", gen |-> proc[p].wire]

\* The error path writes the consentId of `current` back, not of `latest`.
FinishDecides(p) ==
  /\ At(p, "decide")
  /\ IF Confirmed(p)
       THEN inflight' = {} /\ GoTo(p, "record") /\ UNCHANGED <<withdrawal, lock>>
       ELSE /\ withdrawal' = [state |-> "pending", gen |-> proc[p].gen]
            /\ Return(p) /\ UNCHANGED inflight
  /\ UNCHANGED <<core, left, local, server, history>>

FinishRecords(p) ==
  /\ At(p, "record")
  /\ withdrawal' = [state |-> "sent", gen |-> proc[p].answer.gen]
  /\ Return(p)
  /\ UNCHANGED <<core, left, local, inflight, server, history>>

WithdrawStep(p) ==
  \/ BeginLocks(p) \/ BeginWithholds(p) \/ BeginDeclares(p)
  \/ BeginErases(p) \/ BeginClears(p) \/ FinishReads(p) \/ FinishLocks(p) \/ FinishErases(p)
  \/ FinishBars(p) \/ FinishRereads(p) \/ CoreWithdraws(p) \/ CoreFails(p)
  \/ FinishDecides(p) \/ FinishRecords(p)

----------------------------------------------------------------------------
(* The resend command, and the environment *)

ResendReads(p) ==
  /\ \E f \in DOMAIN events :
       /\ events[f].delivery = "unconfirmed"
       /\ Launch(p, "resend", [Idle EXCEPT !.pc = "reopen", !.item = f])
  /\ UNCHANGED <<core, files, lock, server, history>>

\* The delivery is taken off whatever it has become meanwhile.
ResendReopens(p) ==
  /\ At(p, "reopen")
  /\ Mark(proc[p].item, "none")
  /\ asked' = [asked EXCEPT ![proc[p].item] = @ + 1]
  /\ Stop(p)
  /\ UNCHANGED <<core, left, prepared, inflight, withdrawal, server, open>>

\* The person agrees on the website: a new consentId.  Not before the
\* withdrawal of the last one is through (status.mjs:20).
Grant ==
  /\ core.consent # "granted" /\ core.gen \in server.tombstones \union {0}
  /\ Spend("grant")
  /\ core' = [consent |-> "granted", gen |-> core.gen + 1]
  /\ UNCHANGED <<files, lock, proc, server, history>>

\* A process is killed: its locks are released, its request may arrive.
Crash(p) ==
  /\ ~At(p, "idle") /\ Spend("crash")
  /\ Abandoned(p)
  /\ Stop(p)
  /\ UNCHANGED <<core, files, history>>

\* A fresh machine, or one with a website consent, or after a withdrawal.
Init ==
  /\ \/ /\ core \in {[consent |-> "unset", gen |-> 0], [consent |-> "granted", gen |-> 1]}
        /\ withdrawal = [state |-> "none", gen |-> 0]
        /\ server = [stored |-> {}, tombstones |-> {}, late |-> {}]
     \/ /\ core = [consent |-> "withheld", gen |-> 1]
        /\ withdrawal = [state |-> "sent", gen |-> 1]
        /\ server = [stored |-> {}, tombstones |-> {1}, late |-> {}]
  /\ left \in Budgets
  /\ events = NoEvents /\ install = NoInstall /\ prepared = {} /\ inflight = {}
  /\ lock = [n \in Locks |-> Free]
  /\ proc = [p \in Procs |-> Idle]
  /\ open = {} /\ asked = [e \in EventIds |-> 0]

\* A Node program starts; a Node program that runs goes on.
Starts(p) == HookStarts(p) \/ TickStarts(p) \/ WithdrawStarts(p) \/ ResendReads(p)
Continues(p) == CollectionStep(p) \/ SenderStep(p) \/ WithdrawStep(p) \/ ResendReopens(p)

Next ==
  \/ \E p \in Procs :
       PrepareStarts(p) \/ PrepareRetains(p) \/ Starts(p) \/ Continues(p) \/ Crash(p)
  \/ LateRequestArrives \/ Grant

Spec == Init /\ [][Next]_vars

----------------------------------------------------------------------------
(* Properties *)

\* A row and its signed bytes tell the same outcome: an outcome that arrives
\* while the sender signs is not overwritten, one that arrives later does not
\* change the row (freezeWire, observe).
SignedOutcomeKept ==
  \A f \in DOMAIN events : events[f].wire # NoWire => events[f].wire.success = events[f].success

\* An event whose last request has no known outcome leaves again only when the
\* person asked for it, whatever process was killed in between (upload.mjs:28,
\* store.mjs:75, cli.mjs:81).  One withdrawal at a time: a finisher that ends a
\* second one leaves rows that the new consent sends and a late erasure forgets.
UnknownNotReplayed ==
  \A p \in Procs : At(p, "post") => Request(p) \notin open \/ asked[proc[p].item] > 0

\* As long as its consent is not ended at the server, a request that may be
\* unanswered has its file in inflight/, which a withdrawal reads.
UnansweredHasMarker ==
  \A x \in open : x.gen \in server.tombstones \/ x.event \in inflight

\* Once the server has ended a consent, no process is about to send under it,
\* and no row signed under it: the sender lock makes a withdrawal wait for the
\* sender (withdraw.mjs:16).  The bytes of an install event may be older.
NothingSentAfterBarrier ==
  \A p \in Procs : proc[p].pc \in {"sign", "mark", "flight", "post"} =>
    /\ proc[p].gen \notin server.tombstones
    /\ proc[p].item # Install => proc[p].wire = proc[p].gen

\* The withdrawal of the consent that Core has withheld is done.
WithdrawalDone ==
  core.consent = "withheld" /\ withdrawal = [state |-> "sent", gen |-> core.gen]

\* A finished withdrawal leaves no row and no install event on this machine, and
\* a hook that was waiting for the lock adds none (hook.mjs:31).  One withdrawal
\* at a time: a finisher that waits between its two locks while a second one
\* begins can end the second before its rows are gone (withdraw.mjs:16).
WithdrawnLeavesNothing == WithdrawalDone => events = NoEvents /\ install = NoInstall

\* A finished withdrawal leaves no event of that consent at the server, late
\* requests included.
WithdrawnIsErasedAtServer ==
  WithdrawalDone => \A x \in server.stored : x.gen # withdrawal.gen

\* Documented: withdrawing removes the activity of this machine (agent/README.md:5),
\* so a finished withdrawal leaves no preparation record either.
WithdrawnLeavesNoPreparation == WithdrawalDone => prepared = {}

\* Documented: after a withdrawal the committed barrier of the corresponding
\* consentId is obtained (docs/acceptance/session-g-20261015.md:16): when the
\* command is over and says `sent`, the server has ended the withheld consent.
SentMeansCommitted ==
  /\ core.consent = "withheld" /\ withdrawal.state = "sent" /\ withdrawal.gen # 0
  /\ \A p \in Procs : proc[p].program # "withdraw"
  => core.gen \in server.tombstones \union {0}
=============================================================================
