# hanamesh-usage in TLA+

A verification development kept beside the code of `hanamesh-usage`. The package has two halves that share
`src/src/core`: the **Host** half runs inside a Cordis host process and records plugin facts into a durable buffer which a
consent-gated reporter sends to the usage server; the **agent** half runs as short-lived processes beside coding hosts
(Claude Code, Codex) and keeps its own files, locks and sender. Paths below are relative to the repository (`src/...` in
`PROJECT.json`).

- [Inventory](#inventory)
- [Modules](#modules)
- [Runs](#runs)
- [Fairness](#fairness)
- [Proofs](#proofs)
- [Where the code and its documents disagree](#where-the-code-and-its-documents-disagree)
- [Observations](#observations)
- [What is not modelled](#what-is-not-modelled)
- [Plan](#plan)

## Inventory

### Host

| Component | State | Operations | Interacts with |
|---|---|---|---|
| Event buffer `src/core/event-store.ts`, `events.ts` | one JSON snapshot (events, inventory, presence, withdrawal), in memory and in a storage domain | `put`, `signPending`, `updateInventory`, `applyUpload`, `reopenHostRejected`, `markUploadIntent`, `markAttempts`, `markResendIntent`, `markResendFailure`, `withdrawLocal`, `markWithdrawal`, `clearWithdrawal`; serialised on a promise `tail`, each ends in `commit` = `await global.set(next)`, then the in-memory swap | everything below |
| Reporter `src/host/upload.js` | `active`, one timer, the set of events whose outcome is unknown, settings, its own `tail` | `start`, `stop`, `runOnce`, `resend`, `withdraw`, `retryWithdrawal`, `readRemote`, timer callbacks | buffer, Core (consent, signing), usage server |
| Job queue `src/host/mount.js` | a promise chain `jobs`, a bounded queue of sessions | jobs for consent changes, Core attach, record, resend, pages, commands, session summaries | reporter, buffer, inventory, summaries |
| Event seat `src/host/record.js` | none | `recordEvent`: consent at job time, validation, one `put` | jobs, buffer |
| Inventory `src/host/inventory.js`, `bundle-compat.js` | the scan under way | scan of the plugin manager's bundles, comparison with the last inventory, install / uninstall events, retraction of unsent ones | plugin manager, buffer |
| Core link `src/host/core-link.js` | the attached C-CORE service or none | attach, detach, consent and origin reads, event signing | Core |
| Session summaries `src/core/store.ts`, `boundary.ts`, `project.ts`, `query.ts`, `validate.ts`, `privacy.ts` | bounded list of chat-turn summaries | projection of a turn, validation, `commitAfterSource` behind a durability barrier, `reconcile` after a restart, queries, exports | jobs, source log |
| Command facts `src/host/command-facts.js`, `command-source.js` | bounded tables of commands under way and a counter | run / done edges, one success fact each | job queue |
| Page facts `src/host/page-facts.js`, `page-source.js`, `pages-remote.js` | credentials issued to pages | issue, present, release, revoke, expire | job queue, consent |
| Browser client `src/client/index.ts`, routes `panel.js`, `transport.js`, `resend-input.js` | the settings panel, the list of records, an observer per presented page | load, refresh, resend, check of the server, claim and present a page | reporter, buffer, page facts |
| Identity and canonical form `src/core/identity.ts`, `canonical.ts`, `policy.ts`, `agent-event.ts` | none | ids, canonical bytes, batch policy | all |
| Entry `src/host/index.js` | none | retire legacy rows, mount | buffer, reporter |

### Agent

| Component | State | Operations |
|---|---|---|
| Store `src/agent/store.mjs` | `events/`, `installs/`: one file per call and per install event | `observe`, `pending`, `freezeWire`, `mark`, `freezeInstall`, `markInstall`, `withdraw`, `prune`; writes under the `events` lock |
| Sender `src/agent/upload.mjs`, tick in `cli.mjs` | `inflight/`, `catalog.json`, `sender.json` | finish a pending withdrawal, drain, send rows, send the install event; under the `sender` lock |
| Withdrawal `src/agent/withdraw.mjs` | `withdrawal.json` | `beginWithdrawal` (collection lock), `finishWithdrawal` (collection, then sender lock) |
| Hooks `src/agent/hook.mjs`, `preparation.mjs`, `onboarding.mjs` | `preparation/` | record one call; drain what was retained before Node was ready |
| Bootstrap `agent/bin/runtime-bootstrap.pl`, `hm-agent` | a Node runtime in a cache directory, `prepare-state.json`, `sessions/`, `prepare.lock` | look for Node, note a session, fork one detached producer, download and publish, repair and take over |
| Catalogs, projection, status, trust | caches | read and report |

External to both: Core (consent and its generation), the usage server, the storage domain, the plugin manager, React, the
coding hosts.

### What is hard, and what correctness is

1. **Consent is read at one point and used at another.** Between the two lie a signature, a file write, a lock, a job
   queue. Correct: nothing is recorded or sent after consent went; a finished withdrawal leaves nothing, here or there.
2. **The outcome of a request may be unknown**: an answer that says so, a crash, or a failed local write of the outcome. A lost or
   unreadable answer and `pending-host-commit` are retried automatically, since the server recognises what it has; of
   the first three kinds none is. Correct: an event whose outcome is unknown in such a way is never sent again unless the person
   asks, and then once per asking; what is shown as sent is at the server; the intent to send is durable before the request.
3. **Three promise chains in one process** (buffer, reporter, jobs) await one another, and a browser asks in between.
   Correct: no update is lost, readers see durable values, answers say what happened, nobody waits for ever.
4. **Several processes in the agent**, killed at any time, share files under two locks that are taken separately. Correct:
   signed bytes and the row agree, a withdrawal waits for a sender, and its record is about its own consent; one process
   at a time downloads Node, and what it publishes is whole.
5. **The world is observed through others' answers**: a plugin manager that may be away or from before a change, a session
   log of which a crash may take the tail, an effect that React replays. Correct: no removal is reported that was none, no
   summary without its source, no page counted twice; and what could not be observed is said so or caught up.
6. **Bounds**: the buffer's capacity, retention, the batch size, tables and queues; a row that can never be sent must not
   stop the queue, and a counter kept beside a table must not drift.

The hazards, each at its line and with the properties that catch it (or why none does), are in `PROJECT.json`.

## Modules

| Module | Models | Source |
|---|---|---|
| `EventSnapshot` | the snapshot and, for every method of `EventStore`, when it writes (`...Writes`) and what (`Put`, `ApplyUpload`, ...) | `event-store.ts`, `events.ts` |
| `EventStore` | the store as a state machine under arbitrary callers: `memory`, `disk`, `next`, `phase` (the two steps of `commit`), clock, crashes and restarts | `event-store.ts`, `index.js` |
| `UsageReporter` | reporter, job queue, event seat, Core link, and the buffer they share (using the operators of `EventSnapshot`) | `upload.js`, `mount.js`, `record.js`, `core-link.js` |
| `EventDelivery` | abstract: what is promised about each recorded fact | |
| `ReporterProperties` | properties of `UsageReporter`, its refinements of `EventStore` and of `EventDelivery` | |
| `UsagePanel` | the resend controls of the settings panel, composed with the whole of `UsageReporter` | `client/index.ts`, `panel.js`, `transport.js`, `mount.js` |
| `UsageRecords` | the list of records and its check of the server, composed with `UsagePanel` | `client/index.ts`, `upload.js` (`readRemote`) |
| `PluginInventory` | the scans, on top of `EventStore` | `inventory.js`, `bundle-compat.js` |
| `SessionSummaries` | the observation queue, `observeLive` / `observeCold`, `reconcile`, the barrier, `UsageStore.put` | `mount.js`, `boundary.ts`, `store.ts` |
| `ActivitySummary` | pure: what a summary says of a turn, which summaries are accepted, what is exported, what a query returns | `project.ts`, `validate.ts`, `privacy.ts`, `query.ts` |
| `ActivityCheck` | reference definitions of `ActivitySummary` on bounded inputs | |
| `FactSources` | page credentials, command tables and the jobs that record their facts | `page-facts.js`, `command-facts.js`, `mount.js`, `pages-remote.js` |
| `PageClient` | the client's observer of presented pages, composed with `FactSources` | `client/index.ts`, `page-source.js` |
| `AgentSender` | the agent's processes, files and locks | `src/agent/*.mjs`, `runtime-bootstrap.pl` |
| `NodeRuntime` | the entry of every agent command, composed with the programs of `AgentSender` it starts | `runtime-bootstrap.pl`, `hm-agent` |
| `EventSnapshotProofs`, `EventStoreProofs`, `ReporterProofs`, `DeliveryProofs`, `SessionSummariesProofs`, `FactSourcesProofs`, `PluginInventoryProofs`, `AgentProofs` | lemmas, inductive invariants and theorems | |
| `MC_EventStore`, `MC_UsageReporter`, `MC_UsageRecords`, `MC_PluginInventory`, `MC_SessionSummaries`, `MC_PageClient`, `MC_AgentSender`, `MC_NodeRuntime` | model values and the budgets of the runs | |

`PROJECT.json` maps each definition to its lines.

**`EventSnapshot` / `EventStore`.** An event id stands for the canonical id and a *content* for the facts under it, so a put
of the same id with other facts (`USAGE_EVENT_CONFLICT`) is a real case. `LegacyIds` are rows whose stored nonce the wire
cannot carry. A row is `[content, signed, state, code, tried, sentAt]`; `code` distinguishes the in-flight markers
(`UPLOAD_ATTEMPT_UNCONFIRMED`, the server's unknown outcome), the host rejections that may be reopened, and everything else.
`commit` is three actions: the call of `global.set` (`Begin`), its publication (`Publish`), and its return (`Resolve`, or
`Reject`, after which the old value stays). A crash may fall on either side of the publication. The callers are
arbitrary, which makes the theorems independent of how the Host calls the store; only a scan is restricted to ids not in
the buffer, which is how `inventory.js` calls it.

**`UsageReporter`.** One action per stretch between two awaits. `tail` and `jobs` are the two promise chains as sequences,
`run.pc` / `jpc` the await their head is at, `calls` the buffer's own chain, `answer` the settled promise whose
continuation has not run. Continuations run before the event loop takes another completion or timer (`NewTurn`). Core and
the server are external: consent and its events, the server origin, and a server that deduplicates by event id
and may accept, refuse, answer uncertainly (`pending-host-commit`), unreadably, with counts that do not add up, or not at all.
The background scan adds a loader event here; how a scan decides is `PluginInventory`.

**`EventDelivery`.** Each fact is absent, waiting, attempting, unknown, delivered or refused. The refinement reads the stage
from the *disk*, so it says what a restart would find: the server receives a fact only while the stage says a request may be
out, `delivered` implies received, and facts are erased only all at once.

**`UsagePanel` / `UsageRecords`.** `view` and `list` are the two components of the settings section: what is mounted, the request
under way, what is shown. A request and its answer are separate steps, an answer may be lost, a component may go while its
request reaches the Host. Behind the routes stands the whole reporter, unchanged. `owed` is history: explicit attempts
the person has asked for, less those made. The listing is read in pages of `ListLimit`, each signed anew, with the
reporter's chain free to move in between; which events a page holds is the server's choice. The client checks the server by
itself when the Host's `outbox.state` is not `offline` (`client/index.ts:299`); the model looks at whether Core has an origin
instead, which the state follows with the sender's next step.

**`PluginInventory`.** `scan` is the scan under way: its await of the plugin manager, the answer (`listed`), and the
`updateInventory` call it queues on the buffer, which runs later and may fail. `profile` is what is installed; `api` the
shape the manager answers in (rc.2 and alpha say differently whether a bundle is the profile's). An inventory entry with
`bundle = FALSE` is what the loader-based scan of an earlier release left. `removed` is history.

**`SessionSummaries`.** A session is its sequence of turn ends, `log[s]`, of which `durable[s]` are on disk; a crash keeps
those, and a resumed session may then end the same turn in another way. `jobs` is the part of mount's promise chain that
observes sessions (the jobs of `UsageReporter` touch nothing here), `loop` is where its head is: each `await` of the barrier
(`flush`, `verifyTerminal`) and of the store is a step. A flush in which a listener took part may still have written only a
part, which is why the code reads the turn back. A notification is refused when the queue is full or `snapshotEvents` throws
(`Refuses`). `recoveryComplete` and `failures` are what `health()` shows; `refused` is history: a notification was refused
since the last reconcile started.

**`ActivitySummary`.** A log is a sequence of records `turn/start`, `request/context`, `assistant/message`, `turn/end`; texts are names, some
of which must not leave the machine. `ProjectTerminal` is the projection of one turn, `ValidDeclaration` what the store
accepts, `ExportProjection` the privacy filter, `QueryRecords` filters, order, pages and aggregates.

**`FactSources` / `PageClient`.** A page needs two calls, `issue` and `presented`, each with an `await` on the plugin manager; `calls`
are those under way. Consent, Core, time and the peers change meanwhile. The bundle a page or command is of is any answer of
the plugin manager (`Owned`). The buffer is the set `facts` and the flag `marker`, that a withdrawal is recorded in it. The job
of a withdrawal empties it and sets the flag, or leaves the rows: because a withdrawal is recorded already, because no device id
is known, or because the write fails (`JobWithdraws`, `upload.js:286`). The job of a grant clears the flag, or fails to
(`JobGrants`). A choice made while Core is away gets no job, and a closing Host hears of choices until it has let go of
Core (`LetsGo`). `era`, `erased` and `lapsed` are history variables that no action reads as a guard: the number of withdrawals
heard of, stamped on each act of the person; the last one that emptied the buffer; and whether a withdrawal was not written, or
one stayed recorded under consent. In `PageClient` a page's claim and its flag of what it sent outlive its effects, as the refs
of `presentedPage` do; other clients of the Host go on as in `FactSources` alone.

**`AgentSender`.** `proc[p]` is one operating-system process running one program (hook, Node-free hook, tick, withdraw,
resend); every stretch between two awaits is an action, a kill (`Crash`) may come at each, its locks are released by the
operating system (they are SQLite transactions) and its request may still arrive (`server.late`). The state is the files.
Generations number the consentIds; 0 is "none". The history variables `open` and `asked` remember which requests have no
recorded outcome and which resends the person asked for; no action reads them.

**`NodeRuntime`.** `published` are the files of the cache directory, written in `Order`, Node last; `state` is
`prepare-state.json`; `owner` is who holds `prepare.lock` through any copy of its descriptor, so the producer keeps it over the
fork. `boot[p]` is an entry, or the producer it became. Whether Node is missing is looked at when an entry starts, and the lock taken
later, with what was read before. Once Node is there an entry becomes one of the programs of `AgentSender`; until then a
hook entry retains its selectors, which are the preparation records `AgentSender` drains.

## Runs

Every run bounds the environment with `Budgets` (or an equivalent bound): how many times consent may change, a request fail,
a process be killed, and so on. Within a budget all interleavings are explored; a set of budgets explores combinations
without their product. `CHECK_DEADLOCK FALSE` is used where an exhausted budget ends the run; `EventStore` never ends and is
checked for deadlock.

| Run | Shows | Bounds |
|---|---|---|
| `event_store` | types; readers see durable values; legacy rows never pending; facts, outcomes and attempted rows never rewritten or dropped | one ordinary and one legacy id, two contents, one inventory entry, capacity 1, retention 1, clock to 3: enough for a full buffer, a conflict, an expired row and an unexpired one, and every method on every state of a row |
| `reporter_restart` | the panel, the list, the reporter and the buffer together: `WithdrawnIsErased`, `WithheldLeavesNothing`, `IntentIsDurable`, `UnknownNeverAutoResent`, `SentWasIngested`, `TriesWereAsked`, `AnswerIsHonest`, `ListingAgrees`, refinement of `EventStore` and of `EventDelivery` | two events (one recorded, one from scans), batches of up to 2, listings of 1 per page, so that a listing takes several. Fifteen budgets of two to four disturbances out of: two consent changes, one change of origin, one loss of Core, one crash, one failed local write, one failing or uncertain request, one record, one resend, one or two openings and clicks. A crash restarts from the disk, so a second one adds no new kind of state |
| `reporter_liveness` | `EventsSettle`, `WithdrawalCompletes`, `JobsDrain` | batches of 1 so that a second batch follows the first; seven budgets: consent changes with failing requests; an origin that goes; a crash; a loss of Core; a failed local write; explicit resends |
| `reporter_marker`, `reporter_offline`, `reporter_sign` | a disagreement each, see below | the smallest budget that shows it |
| `plugin_inventory` | `NoFalseUninstall`, `InstallsCatchUp` | two bundles in two versions, capacity 3 (fewer than the events they can make), retention 1, both shapes of the manager's answers, an empty snapshot or one of an older release; three changes of profile, consent or manager, or two with a failed write or restart, or two with an upload and two ticks (one row expires) |
| `session_summaries` | `SummaryHasSource`, `NoIdentityConflict`, `NoSilentLoss`, `RecoveryIsComplete`, `TurnsSettle`; and the assumptions of `ActivityCheck`, below | a session and a fork with one inherited turn, two more turns in either, two terminal reasons, a store of 2 (a third turn can only come after a crash took one, so both a full store and its absence occur), a queue of 1 (the other session is refused), any number of crashes, closes and mounts; services fail, and `snapshotEvents` throws, while no failure is noted yet (`MaxFaults`), so that a failure and a recovery after it occur |
| `fact_sources` | `CountsPending`, `SingleUse`, `PermitsFollowConsent`, `NothingFromBeforeWithdrawal`, `OneOpenPerPage` | one connection with one component, and other calls on the same connection; tables of 2, and two changes of consent or Core; five starts: two credentials or three commands under consent (withdrawn and given again); three credentials, or one of each and a withdrawal still recorded, without consent (given and withdrawn, and given while Core is away); one credential under consent with a withdrawal that stayed recorded. So both limits are met, and a withdrawal erases, fails, or finds a marker; credentials expire after one tick. Credentials and commands are interchangeable (symmetry; no liveness is checked) |
| `agent_sender` | `SignedOutcomeKept`, `UnknownNotReplayed`, `UnansweredHasMarker`, `NothingSentAfterBarrier`, `WithdrawnLeavesNothing`, `WithdrawnIsErasedAtServer`, `OneProducer`, `PublishedWhole`, `OneAttemptPerSession` | two processes at a time, two calls, one install event, two sessions; five budgets: sending with a kill, a failure and a resend; two hooks, a tick and a withdrawal; two preparation records (two drains may collide); a withdrawal, a new consent, two ticks, a kill and a failure; entries that download Node, with a kill and a failure. Two processes are enough for every pair of programs; a third would wait for the same locks |
| `agent_prepared`, `agent_barrier` | a disagreement each, see below | |

Each property of a passing run has a mutant in `PROJECT.json`: a definition with the kind of mistake that the property is
there for (a dropped check under a lock, a marker cleaned on failure, an outcome not read back after a restart, ...), under
which the same run fails.

`ActivityCheck` states five facts as `ASSUME`s, which TLC evaluates when `session_summaries` starts, over every log of up to
five records, every usage of up to three messages, and every query over small stores:

- `RouteWasInEffect`: a turn names a route exactly when that one was in effect at every moment of it;
- `UsageIsExact`: a sum is reported exactly when each call reported the field and the sum is exact, never of a part;
- `ProjectionIsValid`: the store accepts what the projection makes of any log, except of a turn that ended before it began;
- `ExportShowsNames`: an export withholds nothing more of an accepted summary, and makes any other fit to be shown;
- `PagesPartition`: pages of any size show each match once, in order, under one total and one aggregate; a sum that is not
  exact refuses them all.

Properties worth reading twice:

- `UnknownNeverAutoResent` and `UnknownNotReplayed` are stated with history (`server.doubt`, `open`, `asked`), which follows what
  the network and the person did and not what the sender believes; they do not follow from its own bookkeeping.
- `WithheldLeavesNothing` is checked in budgets that pair a withdrawal with no storage failure, crash or loss of Core: if the
  local erasure itself fails, the code reports it and keeps the rows, and a new attachment does not ask for it again.
- `TriesWereAsked` and `AnswerIsHonest` cross the whole stack: a click, a lost answer, a job behind others, a batch that fails.
- `ListingAgrees` excuses what the server took or deleted after the rows were read, and nothing else.
- `NothingFromBeforeWithdrawal` is about facts, not guards: three places ask for the permit's epoch, and the property says
  what they are for. What one withdrawal erased is never recorded again, with no condition; that nothing is left from before the
  last one is stated unless `lapsed`: the same failures that `WithheldLeavesNothing` leaves out, and the stale marker of
  `reporter_marker`. Who withdraws while Core is away is not heard at all, and counts as no withdrawal here.
- `RecoveryIsComplete` leaves out what was refused after the last reconcile had started, see the
  [observations](#observations).
- `NoIdentityConflict` follows from the barrier alone: the store would refuse a replay that differs, and the run shows that no
  order of crashes brings one about.
- `NoFalseUninstall` is stated with `removed`, what the person did to the profile; a manager whose answer was overtaken by a
  reinstall may still lead to an uninstall, of something that was removed.

## Fairness

`reporter_liveness` and `reporter_offline` use `FairSpec` of `UsageReporter`. There weak fairness is assumed of

- the buffer's steps, the reporter's and the jobs' continuations: they are promise continuations, which the event loop
  runs once their promise has settled, and `global.set` settles;
- the server's answers: every request ends, in an error if not in an answer. Only the `fetch` of the settings is called with a
  time limit (`upload.js:79`); for the others (`POST`, `DELETE` and `GET`, lines 131, 222, 264, 312) this is an assumption about
  the server and the network, since the code would wait for them without end;
- armed timers;
- Core's attachment: Cordis calls `attachCore` when the service is there.

The environment (consent, origin, crashes, failures, records) is not fair: it may stop at any point and its budgets are
finite, which is what "from some time on" in the properties needs. `WithdrawalCompletes` additionally assumes an origin for
good, and is checked with crashes and withdrawals apart (see the hazard at `upload.js:289`). `EventsSettle` assumes
`Undisturbed` again and again: no resend is queued and no late `stop` is to come. What stops the sender in these cases is an
[observation](#observations) and no document says that it must not.

`session_summaries` assumes weak fairness of the job at the head of the chain: the calls it awaits return or fail. The
claim, `TurnsSettle`, is only about hosts that stay up from some time on.

`plugin_inventory` assumes weak fairness of a scan's start (the interval goes on while the plugin manager can be read), of the
manager's answer, of the comparison, the queued update and its write. Nothing is assumed of the person, of consent or of
failures; `InstallsCatchUp` is about inventories that can be scanned from some time on.

## Proofs

Eight modules hold proofs. *Assumptions*: those of the constants, named in the module that declares them, which TLC evaluates in
each run; none bounds a set but `EventIds` and `Facts`, which are finite. Three hypotheses on the budgets occur
(`OneAttachment`, `ErasuresPersist`, `OneWithdrawal`), because without them the code breaks what the theorems state; no other
proof uses a budget.

**`EventStoreProofs`**, for every set of ids and contents, every capacity, retention and clock bound:

| Theorem | Property |
|---|---|
| `Invariance` | `Spec => []Inv` |
| `TypeCorrect`, `DurableReads`, `LegacyNeverPending` | the invariants of `event_store` |
| `CapacityBound` | the buffer never holds more than `MaxEvents` rows |
| `FactsNeverChange`, `OutcomesNeverChange`, `AttemptedNeverDropped` | its three action properties |

None of the properties is inductive. `memory` is replaced by `next` in one step and `disk` by `next` in another, so a
statement about what readers see says nothing about the next step unless the write under way is as good. `Inv` therefore
states that `memory`, `disk` and `next` are each *good* (typed, within capacity, no legacy row pending), together with the
commit protocol: the disk holds `memory` until the publication and `next` after it, and `next` follows `memory` throughout.
"Follows" is the relation the three action properties share: every row that stays keeps its facts and its outcome unless it
is reopened, and attempted pending rows stay unless all rows go. One lemma per method (`PutIsGood`, `ApplyUploadIsGood`,
..., in `EventSnapshotProofs`, which `ReporterProofs` uses too) shows that a good snapshot goes to a good snapshot that
follows it; `CallInv` and `StepInv` lift them to actions; `InitInv` needs that `Retire` makes any old snapshot good.

**`ReporterProofs`**, over `RecordsSpec`, the whole composition of reporter, jobs, buffer, panel and list, for any events,
batch size, page size and budgets:

| Theorem | Property |
|---|---|
| `StrandsKeepTheirProtocol` | `RecordsSpec => [](Inv /\ ViewOK)` |
| `MarkedBeforeSent`, `ShownAsSentWasTaken` | `IntentIsDurable`, `SentWasIngested` |
| `BufferIsAnEventStore` | `RecordsSpec => ImplementsEventStore` |
| `TriesAreAsked` | `TriesWereAsked` |
| `SilenceIsKept` | `RecordsSpec /\ []AttachedClear => []Silence` |
| `SilentWithdrawalErases`, `SilentSenderResendsNothing`, `SilentAnswersAreHonest` | `WithdrawnIsErased`, `UnknownNeverAutoResent`, `AnswerIsHonest`, as long as `AttachedClear` |
| `AttachedWithoutWithdrawal` | `OneAttachment` gives `[]AttachedClear` and `[]Silence` |
| `WithdrawalErases`, `UnknownWaits`, `AnswersAreHonest` | the same three, of every environment in `OneAttachment` |

`IntentIsDurable` speaks of the disk, which five kinds of callers change while a request is out. `Inv` says why none of them
touches what is sent: a strand has at most one call in the queue or its answer, never both (`Waiting`), so the sender itself
asks for nothing while its request is out; the jobs' calls leave pending rows as they are (`Effects`), except for
`withdrawLocal`, which its job asks for only after it has stopped the sender and seen its tail empty (`TailOK`). The marker is
on disk when its write has returned, and what is in memory, on disk or being written stays marked (`MarkedOK`). For
`SentWasIngested`, the counts of an answer travel with the call that applies it (`Honest`, `Vouched`): if they add up, the
server has taken what they count, and if they do not, `applyUpload` refuses them. The steps are classed by what they touch
(`Outside`, `SenderGoes`, `SenderLeaves`, `JobGoes`), each class keeps `Inv`, and each action belongs to one. The refinement
needs the invariant: that a call names the events the method allows, that a scan offers none that the buffer holds (no other
caller adds loader events while it waits, `ScansOK`), and that a restart finds nothing to retire. With it, what is proved of
`EventStore` (capacity, facts, outcomes, attempted rows) holds of the buffer in the running Host.

`TriesWereAsked` says that `owed` never goes below zero. It is not inductive: the post happens long after the click. `Tries`
states that `owed` covers what may still be tried: the click that was not taken yet and the queued jobs that name the event,
less one once the resend under way has tried it or given it up. A resend job waits for a task of its own, which takes an event
into one batch only (`TaskOK`, `RunOK`), so each post is covered.

`Silence` says what a withdrawal and an unknown outcome mean to the sender. While a withdrawal is recorded, the sender is not
active, no attempt is armed or queued, no resend is under way and nothing is in doubt; once the server has confirmed the
deletion, nothing is put back. An event in doubt is held and marked wherever it is held (in memory, on disk, in the
write), and this process counts it as unconfirmed, up to the answer it has not read yet; a call that takes a marker away
names no such event (`ForgetsNothing`), and a batch of the automatic sender has none. The start of the sender by an `attach`
job is the one step that looks at no recorded withdrawal, so all this holds *as long as* Core is attached beside none
(`AttachedClear`). That hypothesis cannot be dropped: TLC violates `WithdrawnIsErased` without it
(see [observations](#observations)). `OneAttachment` is the set of environments in which it is met: consent never changes, or
neither a crash nor a loss of Core ends the first attachment. Every budget of `reporter_restart` is one; so are unboundedly
many records, failures, resends, clicks, and changes of consent (or else crashes and losses of Core).

**`DeliveryProofs`**, over the same composition: that the detailed reporter implements `EventDelivery`, step by step; that the
list of records agrees with the server; and that a withdrawal of consent leaves nothing here.

| Theorem | Property |
|---|---|
| `KnowingIsKept` | `RecordsSpec /\ []AttachedClear => []Knowing` |
| `SilentDelivery` | `ImplementsDelivery`, as long as `AttachedClear` |
| `FactsAreDelivered` | `ImplementsDelivery`, of every environment in `OneAttachment` |
| `SilentListing`, `ListingsAgree` | `ListingAgrees`, as long as `AttachedClear`, and of every environment in `OneAttachment` |
| `LandedErasuresLeaveNothing` | `WithheldLeavesNothing`, of the environments in `OneAttachment`, as long as `ErasuresLand` |
| `WithheldHoldsNothing` | `WithheldLeavesNothing`, of every environment in `ErasuresPersist` |

The refinement mapping reads the stage of an event from its row on disk, so the steps that count are the publication of a write,
the receipt by the server and a crash in which a request arrives. A write that is published must move its events as
`EventDelivery` allows, and it was asked for some steps earlier by a strand that looked at something else: the batch it had
taken, an answer, the unknown outcomes it remembers. `Knowing` keeps these in agreement with the rows. The call that the sender
waits for is that of its place, about the batch it has (`ExpectedOK`). Until the outcome is known, the batch is pending and its
rows carry the intent, or the doubt the explicit sender found there and put aside (`OpenOK`, `CodedOK`). A row says that its
outcome is unknown only if this process holds it to be so, and says it then, except where the write that was to say it failed:
there the failure is noted, and the batch held back (`HeldOK`, `AgreesOK`, `ListedOK`). While a withdrawal is recorded no
row's outcome is unknown, so that this process may forget its own list of them with the erasure (`SettledOK`). `Knowing` needs the condition of `Silence`, because an attachment
beside a recorded withdrawal starts a sender whose requests the erasure would meet. `Knowing` was model-checked on the budgets
of `reporter_restart` before it was proved.

`ListingAgrees` relates rows that were read, a listing read page by page some steps later, and what the server did in between.
`ReceivedOK` says that what the rows in memory show as received the server holds, and that nothing is shown as received while
a withdrawal is recorded or its deletion under way: what an answer vouches for travels with the call that applies it, so a row
becomes received only for what the server took. What the list was told is *rows that stand* (`StandsFor`): what they call
received is stored, what they call deleted is not. `HistoryOK` says that the rows on the way, those shown and those of the
listing under way each stand, what the server deletes or takes from then on struck out of them (`Since`), and that the pages
read so far hold nothing the rows call deleted. The last page then completes a listing of all that is stored, and a page that
fails makes it unknown.

`WithheldLeavesNothing` is a promise over the whole job queue. Consent may come back and go again while an earlier withdrawal's
job still waits for the sender or for the store, and a job that finds a withdrawal recorded leaves the rows to it. `Promised`
says why the rows go all the same. Withdrawals and grants alternate in the queue, and while consent is there each withdrawal
has its grant behind it (`Alternates`). A withdrawal that is recorded is cleared by a grant's job before the next one is
reached (`Cleared`), so no withdrawal's job finds an earlier one still recorded. Without consent, this device holds nothing and no call
is to add anything, or a queued job will still erase; and behind the erasure of the last such job nothing is asked for that
adds rows (`Erases`): records and scans look at consent before they ask. Without Core no row, no withdrawal and no job of one
is there (`Unlinked`). `PlaceOK` ties each place of the job strand to the kind of the job at the head. These were
model-checked, with up to three changes of consent, before they were proved.

Its hypotheses are needed. `ErasuresLand` says that neither the write that erases the rows nor the one that clears a withdrawal
is lost; `ErasuresPersist` is the set of environments in which consent never changes, or the process, Core and the local writes
do not fail, and every budget of `reporter_restart` is in it. With one withdrawal of consent and one failed write, one crash, or
one loss of Core, TLC violates the invariant: the code reports the failure, or starts anew with Core, and keeps the rows. Nothing is assumed of requests,
and writes that fail elsewhere are allowed by `LandedErasuresLeaveNothing`.

**`SessionSummariesProofs`**, for any sessions, forks, reasons, number of turns, capacity and queue limit:

| Theorem | Property |
|---|---|
| `Invariance`, `TypeCorrect` | `Spec => []Inv`, `TypeOK` |
| `SummariesHaveSources`, `ReplaysAgree` | `SummaryHasSource`, `NoIdentityConflict` |
| `ForksDoNotCount` | no turn a fork copied is summarised for the fork |
| `PlacesAreCounted` | the places taken in the queue are those of its jobs, at most `MaxPending` |
| `TurnsAreKept` | `Spec => [](Inv /\ KeptInv)` |
| `NothingIsLostInSilence`, `RecoveryClaimIsTrue` | `NoSilentLoss`, `RecoveryIsComplete` |

What a queued job is about, and what the walk of the running one has still to visit, is in the log in memory (`QueueOK`,
`Walks`), which only a crash shortens, and a crash forgets jobs and walks. A walk is at `put` only when its turn is on disk,
and what is on disk stays. So a summary agrees with its source when it is made and ever after.

That nothing is lost is about what has *no* summary. `KeptInv` gives each turn of the logs someone who will visit it: a queued
job that reaches as far, the walk under way, or the reconcile that the walk is part of (`Kept`). A job or a walk ends only when it
has recorded its turns or noted a failure, and a reconcile that takes a session off its list walks through it to the end or gives
up its claim. When the queue is empty nobody is left to wait for, so each turn is recorded.

`NamedRouteWasInEffect` is about the pure functions of `ActivitySummary`: a summary that names a provider or a model names the
route in effect at every moment of its turn, for logs of any length. What `ActivityCheck` shows of sums, queries and exports stays there: it would need
induction over sequences.

**`FactSourcesProofs`**, over `FactSources` and its composition `PageClient`, for any peers, components, credentials, commands, limits and number of consent
changes:

| Theorem | Property |
|---|---|
| `Invariance`, `TypeCorrect` | `Spec => []Inv`, `TypeOK` |
| `PermitsEndWithConsent`, `WithdrawalForgets` | `PermitsFollowConsent`, `NothingFromBeforeWithdrawal` |
| `CounterIsExact`, `CredentialsCountOnce` | `CountsPending`, `SingleUse` |
| `ClientDrivesHost` | `PageSpec => Spec`: the composition implements the Host's specification, so all of the above hold of it |
| `PagesOpenOnce` | `OneOpenPerPage` |

A permit carries the epoch it was given under, and every withdrawal is also a revocation, so whatever still passes the gate
belongs to the time after the last withdrawal; what was done before it and is recorded all the same is recorded by a job in
front of the withdrawal's own (`Fresh`), so no fact is older than what a withdrawal last erased, and no job behind a withdrawal
is older than it (`Stamped`). That a withdrawal does erase needs more: unless the history has `lapsed`,
between two withdrawals in the queue, and between a recorded one and the next, there is the job of a grant (`Alternates`), so a
withdrawal at the head finds no marker; and when no withdrawal is queued, no fact is from before the last one (`Kept`). With
`lapsed` neither is claimed, and TLC finds what is then left behind. A drawn token is that of one permit, call, job or
fact (`HeldOnce`); the one claim of a component draws one token.

**`PluginInventoryProofs`**: `RemovalsAreReal`, that `InventorySpec => []NoFalseUninstall`, for any bundles and versions, any
capacity, and any number of scans, changes, failed writes and restarts. What is removed from the profile stays in the history
`removed`, so a bundle that an inventory names (in memory, on disk or being written) is declared by the profile or has been
removed since (`Named`). Hence one that a listing does not declare, and that an inventory named when the listing was made, has
been removed (`Explains`); and until the comparison no inventory changes but to one of the other two, because scans come one
after another. That an older inventory named the bundle under another version, or that its uninstall is held already, is no
part of the argument.

**`AgentProofs`**, for any processes, calls and sessions, over the composition `RuntimeSpec`:

| Theorem | Property |
|---|---|
| `AgentInvariant` | `RuntimeSpec => [](AgentInv /\ RuntimeInv)` |
| `SignedOutcome`, `Unanswered` | `SignedOutcomeKept`, `UnansweredHasMarker` |
| `Barrier`, `ErasedAtServer` | `NothingSentAfterBarrier`, `WithdrawnIsErasedAtServer` |
| `SingleProducer`, `WholeRuntime`, `FewAttempts` | `OneProducer`, `PublishedWhole`, `OneAttemptPerSession` |
| `NothingReplayedApart`, `NothingStaysApart` | `UnknownNotReplayed`, `WithdrawnLeavesNothing`, as long as `Apart` |
| `OneWithdrawalKeepsApart` | `OneWithdrawal` gives `[]Apart` |
| `NothingReplayed`, `NothingStays` | the same two, of every environment with one withdrawal |

Whoever sends, and whoever ends a consent at the server, holds the sender lock (`NeedsSender`). So the consent a sender works
under is neither ended nor replaced while it works; a new consent is given only after the old one is ended, so all
generations but the current one have a tombstone (`GensOK`); and a request that may be unanswered has its marker or belongs
to an ended consent (`OpenOK`), which is what makes a late request harmless. `RuntimeInv` says that the lock is held from before
the fork until the producer ends, that files are published in order, and that an attempt that is being decided has its
session noted and not counted yet. Both invariants were model-checked on the instance of `agent_sender` as well.

What the rows say needs more. `ReplayInv`: the row of a request that may be unanswered is marked, and stays so until the answer,
the person or the erasure of its consent takes the mark away; whoever is about to post has read the row under the lock it
still holds. `CleanInv`: once a withdrawal is declared, only a process that had already looked at consent may still write a row, and
the erasure waits for the lock that it holds; after the erasure none is left. Both arguments need that a finisher which is past
its erasure is not overtaken by another declaration or erasure (`Apart`), since the two locks of `finishWithdrawal` are taken one
after the other. With two withdrawals that is false, and both properties are violated (the stalled finisher in
[observations](#observations)); with one withdrawal (`OneWithdrawal`, in all of whose environments any number of grants,
ticks, hooks, kills and failures may occur) `Apart` is proved, and the properties follow.

**What stays with TLC.** All liveness properties, and what the code does outside the hypotheses above: the environments in which consent
changes and Core is attached again, and those with several withdrawals of the agent's consent. Every invariant and every other action property of a passing run is stated by a theorem. Liveness under fairness,
`ENABLED` and induction over data are beyond the prover used here, and no module that declares a `RECURSIVE` operator can
be proved about; the models use folds and recursive functions where they need recursion.

## Where the code and its documents disagree

Each has a run whose counterexample is the scenario.

1. `reporter_marker` (`upload.js:287`). A withdrawal finished as `sent`; Core goes away; the person grants again (unheard);
   Core returns and `attachCore` starts the sender without clearing the marker; the person withdraws again. `withdraw` sees
   the old marker and returns: nothing is erased. The client says records are deleted at once (`src/client/index.ts:324`).
2. `reporter_offline` (`upload.js:276`). A withdrawal without a server origin is marked `offline` and is never
   retried. `README.md:56` says that it is kept in a state that can be retried.
3. `reporter_sign` (`upload.js:131`). Consent withheld while `signRequest` is awaited does not stop the automatic POST; the
   explicit resend does look again (`upload.js:220`). `README.md:54` says nothing is reported without consent.
4. `agent_prepared` (`runtime-bootstrap.pl:50`). The Node-free hook looks for `withdrawal.json`, then reads and writes with no
   lock. A withdrawal in between leaves its record in `preparation/`, and a later grant turns it into a row.
   `agent/README.md:5` says a withdrawal clears the activity of the machine.
5. `agent_barrier` (`withdraw.mjs:29`). `finishWithdrawal` of a first consent is between the server's barrier and its write of
   `withdrawal.json`; the person agrees anew and withdraws anew; the first one then writes `sent` over the new pending entry,
   and the second command reports `sent` although the server was never told. The error path (`withdraw.mjs:31`) has the same
   shape with the `consentId` of `current`. `docs/acceptance/session-g-20261015.md:16` requires the committed barrier of the
   corresponding consentId.

## Observations

Behaviour met while modelling, mostly where no document speaks of it; the properties say where they leave it out.

- *The sender may stand still.* An explicit resend stops the automatic sender until consent or Core changes (`upload.js:184`);
  the `stop` of an attempt that lost Core (`upload.js:128`) may come after Core is back and stop the sender that has just
  started; `start` without a server origin arms no timer (`upload.js:57`), and no event tells of an origin that appears. `EventsSettle`
  shows that nothing else stops it.
- *What else a marker left behind does.* After the grant of finding 1 the marker of the old withdrawal stays while events are
  recorded and sent. If a crash cuts a request off, the next process holds the event as uncertain; a withdrawal and a grant
  then find the marker, erase nothing, but clear the uncertain outcomes (`upload.js:287-290`), and the automatic sender sends
  the event again. TLC finds it with four changes of consent, a detached Core, a deletion of unknown outcome and a crash.
- *An attach beside a recorded withdrawal.* A crash takes the job of a grant with it, or the job is still queued; Core is attached
  again while the withdrawal is recorded, and the attach job starts the sender (`mount.js:171`), which looks at consent and
  not at the stored withdrawal (`upload.js:113`). Events go to the server while the buffer still says that the withdrawal is
  `sent`. `UnknownNeverAutoResent` and `WithdrawnIsErased` are checked under budgets in which consent changes, or Core goes and the
  process crashes, never both, and proved for all such environments (`OneAttachment`).
- *A crash before the erasure is durable.* After consent went and before `withdrawLocal` is written, a crash leaves the rows
  (`upload.js:289`); at the next start nothing compares consent with the stored marker.
- *`recoveryComplete`.* A `reconcile` that ends overwrites the flag (`mount.js:239`) that a refused notification had cleared while
  it was running: `QUEUE_FULL` (`mount.js:112`), or a `snapshotEvents` that throws (`mount.js:116`). `RecoveryIsComplete` leaves
  such refusals out until the next reconcile starts; `NoSilentLoss` covers them, through `failures`.
- *A clock set back.* A turn that ends before its own start makes a summary that the store refuses (`validate.ts:41`), at every
  attempt; the turns after it in the same walk are not observed either. `ProjectionIsValid` names the exception.
- *A stalled finisher.* `finishWithdrawal` erases under the collection lock and rereads the withdrawal under the sender lock
  (`withdraw.mjs:16`). A tick that waits between the two while the person grants and withdraws again ends the second withdrawal
  before its rows are erased; if the second command is then killed, they stay. If the person grants once more, such a row is posted
  under the new consent; when its outcome stays unknown, the second command's late erasure may take it away, the hook records
  the call again, and the next tick sends it unasked. TLC finds both with two withdrawals; `WithdrawnLeavesNothing` and
  `UnknownNotReplayed` are checked, and proved, with one. `agent/README.md:5` says that a withdrawal clears the activity of the
  machine and waits for the remote barrier; the rows that stay here do so under a withdrawal that says `sent`.
- *A consent of an install event.* The frozen bytes of an install event are not compared with the current consent
  (`NothingSentAfterBarrier` leaves them out); the server refuses them by their tombstone.
- *A finished download seen late.* An entry that saw no Node takes the lock after the producer ended
  (`runtime-bootstrap.pl:117`), and a new session then repeats the attempt; an MCP server waits for a `READY` that a producer
  killed after publishing never wrote, until some entry repairs it.

## What is not modelled

- Reporter: cutting a batch by body size, device changes, the admission stop for rows the wire cannot carry
  (`UPLOAD_EVENT_INVALID`), orderly close, the link budget of one signature; expiry and `signPending` inside `UsageReporter`
  (both are in `EventStore`). `observeCollection` in the job queue is a read.
- Session summaries: a session that is disposed while its Host stays up; `view.ts`, which only displays.
- Identity, canonical form, the syntax of fields: pure functions on strings; an event id is a model value, and what the
  regular expressions accept is a set of names.
- Client: wording, HTML, syntax checks of responses, the proxy of `slots` that `apply` installs, two tabs at once (the
  panel and the list are opened one at a time in a run; other clients of the Host are in the model).
- Agent: `prune` and expiry, the onboarding link and notices, catalogs and attribution (every call belongs to one listed
  plugin and an unknown outcome counts), `sender.json`, `observedSuccess`, setup. Of the download, checksum, extraction and
  version check are one step that succeeds or fails.
- Server: after a `DELETE` of the Host's device, a request sent before it is taken to arrive before it, as the reporter's
  chain orders them; for the agent late arrivals are modelled, because the server's tombstones are there to refuse them.
- Core refuses a new agent consent until the last withdrawal is through (`status.mjs:20` says so); this is an assumption
  about Core, the guard of `Grant`. The website's authorization is taken to come with the grant.
- Catalogs, projection and status of the agent (discovery, parsing, read-only reports) and the development tools under
  `tools/`, which start a Host and drive it in acceptance sessions.

## Plan

In order:

1. `AgentSender`: `prune`; liveness of a pending withdrawal under repeated ticks.
2. `UsagePanel`: two tabs of the same Host.
