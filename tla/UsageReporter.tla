---------------------------- MODULE UsageReporter ----------------------------
(***************************************************************************)
(* The consent-gated sender of the Host: the reporter                      *)
(* (src/host/upload.js), the job queue that drives it on consent, Core and *)
(* user events (src/host/mount.js), the event seat (src/host/record.js)    *)
(* and the event buffer they share, one action per stretch of code between *)
(* two awaits.                                                             *)
(*                                                                         *)
(* Three strands interleave: the store's commit, the reporter's `tail` and *)
(* mount's `jobs`.  A strand that awaits the store or the network is at a  *)
(* program counter and goes on when the answer is there; meanwhile the     *)
(* person, Core, a timer, the network or a crash may move.                 *)
(*                                                                         *)
(* External: Core (consent, link, server origin) and the usage server.     *)
(* Abstractions: one device; every row is signed at creation (signPending  *)
(* is in EventStore); no row expires (idem); a batch is any admissible     *)
(* subset (order and byte size, which cut it, are not modelled); of the    *)
(* reporter's displayed state only what a decision reads is kept.          *)
(***************************************************************************)
EXTENDS EventSnapshot, Sequences

CONSTANTS
  BatchSize,   \* uploadBatchSize
  Budgets      \* how often the environment may act, by kind: bounds every run

ASSUME BatchAssumption == BatchSize \in Nat \ {0}

\* What the environment may do; "view" and "click" are those of UsagePanel, "list" of UsageRecords.
BudgetKinds == {"consent", "link", "origin", "record", "resend", "crash", "network", "storage", "view", "click", "list"}
ASSUME BudgetAssumption == Budgets \subseteq [BudgetKinds -> Nat]

VARIABLES
  core,      \* [consent, linked, origin]: the person's choice, C-CORE, serverOrigin # null
  left,      \* what remains of the budget
  memory, disk, phase, next,  \* EventStore (see that module)
  calls,     \* EventStore.tail: the calls not yet over
  answer,    \* what the last call of each strand ended with
  reporter,  \* [active, timer, unconfirmed, failed, settings]: upload.js
  tail,      \* the reporter's tail: tasks not yet over
  run,       \* progress of its head: [pc, batch, selected, previous, response]
  jobs, jpc, \* mount's chain of jobs, and the progress of its head
  server     \* [stored] and two history sets: events it ever took [ingested],
             \* events still held whose outcome no answer told this device [doubt]

outside == <<core, left, server>>
storage == <<memory, disk, phase, next>>
store == <<storage, calls, answer>>
strands == <<tail, run, jobs, jpc>>
vars == <<outside, store, reporter, strands>>

Spend(kind) == left[kind] > 0 /\ left' = [left EXCEPT ![kind] = @ - 1]

Fact == CHOOSE c \in Contents : TRUE
SessionTime == 1
NoMarkers == [id \in {} |-> Unknown]
NoResponse == [kind |-> "none", accepted |-> 0, duplicates |-> 0, rejected |-> NoMarkers]
NoRun == [pc |-> "idle", batch |-> {}, selected |-> {}, previous |-> NoMarkers,
          response |-> NoResponse]

Granted == core.linked /\ core.consent = "granted"

\* pruneObservations(): the outcomes still unknown after a look at the buffer.
Pruned == LET known == DOMAIN reporter.unconfirmed \cap Pending(memory) IN
  [reporter EXCEPT !.unconfirmed = [id \in known |-> @[id]]]

\* Mutant: only the server's own uncertainty is read back.
Recovered_UnknownOnly(s) ==
  [id \in {x \in Pending(s) : s.rows[x].code = Unknown} |-> Unknown]

\* What a new process reads back from the stored rows.
Recovered(s) ==
  [id \in {x \in Pending(s) : s.rows[x].code \in Markers} |-> s.rows[id].code]

FreshReporter(s) == [active |-> FALSE, timer |-> "none", unconfirmed |-> Recovered(s),
                     failed |-> FALSE, settings |-> FALSE]

NewEvents == LoaderIds \ (LegacyIds \union Held(memory))

Task(kind, by, ids) == [kind |-> kind, by |-> by, ids |-> ids]
Job(kind, ids) == [kind |-> kind, ids |-> ids]

----------------------------------------------------------------------------
(* The event buffer *)

Call(by, op, ids) ==
  [by |-> by, op |-> op, ids |-> ids, code |-> "none", marks |-> NoMarkers,
   accepted |-> 0, duplicates |-> 0]

Ask(call) == calls' = Append(calls, call) /\ UNCHANGED <<storage, answer>>

\* A strand takes the answer to its call, and may make the next one at once.
Takes(by, outcomes) ==
  answer[by] \in outcomes /\ answer' = [answer EXCEPT ![by] = "none"]
Hears(by, outcomes) == Takes(by, outcomes) /\ UNCHANGED <<storage, calls>>
HearsAndAsks(by, outcomes, call) ==
  Takes(by, outcomes) /\ calls' = Append(calls, call) /\ UNCHANGED storage
Errors == {"invalid", "failed"}

\* Continuations run before the event loop takes the next completion or timer.
NewTurn ==
  /\ \A by \in DOMAIN answer : answer[by] = "none"
  /\ ~(jpc = "tail" /\ tail = <<>>)

\* The method returns or commits; otherwise it throws a UsageError.
Admitted(c, s) ==
  CASE c.op = "put" -> c.ids \subseteq Held(s) \/ \A id \in c.ids : PutWrites(s, id, SessionTime)
    [] c.op = "scan" -> UpdateInventoryWrites(s, [id \in c.ids |-> Fact], {}, SessionTime)
    [] c.op \in {"intent", "undoIntent"} -> UploadIntentWrites(s, c.ids)
    [] c.op = "attempts" -> AttemptsWrites(s, c.ids)
    [] c.op = "apply" -> ApplyUploadWrites(s, c.ids, c.accepted, c.duplicates, c.marks)
    [] c.op = "resendIntent" -> ResendIntentWrites(s, c.ids)
    [] c.op = "resendFailure" -> ResendFailureWrites(s, c.ids)
    [] c.op = "markWithdrawal" -> MarkWithdrawalWrites(s)
    [] OTHER -> TRUE

\* It commits a new value.
Changes(c, s) ==
  CASE c.op = "put" -> ~(c.ids \subseteq Held(s))
    [] c.op = "reopen" -> ReopenWrites(s, c.ids)
    [] c.op = "clearWithdrawal" -> ClearWithdrawalWrites(s)
    [] OTHER -> TRUE

Result(c, s) ==
  CASE c.op = "put" -> Put(s, CHOOSE id \in c.ids : TRUE, Fact, TRUE, SessionTime)
    [] c.op = "scan" -> UpdateInventory(s, {}, [id \in c.ids |-> Fact], {}, SessionTime)
    [] c.op = "reopen" -> Reopen(s, c.ids)
    [] c.op = "intent" -> UploadIntent(s, c.ids, TRUE)
    [] c.op = "undoIntent" -> UploadIntent(s, c.ids, FALSE)
    [] c.op = "attempts" -> Attempts(s, c.ids, c.code)
    [] c.op = "apply" -> ApplyUpload(s, c.ids, c.accepted, c.marks, SessionTime)
    [] c.op = "resendIntent" -> ResendIntent(s, c.ids)
    [] c.op = "resendFailure" -> ResendFailure(s, c.ids, c.marks)
    [] c.op = "withdrawLocal" -> WithdrawLocal(s)
    [] c.op = "markWithdrawal" -> MarkWithdrawal(s, c.code)
    [] c.op = "clearWithdrawal" -> ClearWithdrawal(s)

\* The oldest call is over; a background scan has nobody waiting for it.
Conclude(outcome) ==
  /\ calls' = Tail(calls)
  /\ answer' = IF Head(calls).by = "scan" THEN answer
               ELSE [answer EXCEPT ![Head(calls).by] = outcome]

\* Mutant: the next call does not wait for the write under way.
StoreRun_Overlapping ==
  /\ calls # <<>>
  /\ Admitted(Head(calls), memory) /\ Changes(Head(calls), memory)
  /\ phase' = "writing" /\ next' = Result(Head(calls), memory)
  /\ UNCHANGED <<outside, memory, disk, calls, answer, reporter, strands>>

\* The head of EventStore.tail runs up to `await this.global.set`.
StoreRun ==
  /\ calls # <<>> /\ phase = "idle"
  /\ LET c == Head(calls) IN
     \/ /\ Admitted(c, memory) /\ Changes(c, memory)
        /\ phase' = "writing" /\ next' = Result(c, memory)
        /\ UNCHANGED <<calls, answer>>
     \/ /\ ~(Admitted(c, memory) /\ Changes(c, memory))
        /\ Conclude(IF Admitted(c, memory) THEN "ok" ELSE "invalid")
        /\ UNCHANGED <<phase, next>>
  /\ UNCHANGED <<outside, memory, disk, reporter, strands>>

StorePublish ==
  /\ phase = "writing"
  /\ disk' = next /\ phase' = "written"
  /\ UNCHANGED <<outside, memory, next, calls, answer, reporter, strands>>

StoreResolve ==
  /\ phase = "written" /\ NewTurn
  /\ memory' = next /\ phase' = "idle"
  /\ Conclude("ok")
  /\ server' = [server EXCEPT !.doubt = @ \cap Held(next)]
  /\ UNCHANGED <<core, left, disk, next, reporter, strands>>

StoreReject ==
  /\ phase = "writing" /\ NewTurn /\ Spend("storage")
  /\ phase' = "idle" /\ next' = memory
  /\ Conclude("failed")
  /\ UNCHANGED <<core, server, memory, disk, reporter, strands>>

----------------------------------------------------------------------------
(* The reporter: start, stop, timers, its tail *)

Stopped(r) == [r EXCEPT !.active = FALSE, !.timer = "none"]
Armed(r) == [r EXCEPT !.timer = IF r.active THEN "run" ELSE "none"]  \* schedule()

Blocked(r) == r.failed \/ DOMAIN r.unconfirmed # {}

\* start(): an unknown outcome or a lost write keeps the sender stopped.
Started(r) ==
  IF Blocked(r) THEN r
  ELSE IF Granted /\ core.origin THEN Armed([r EXCEPT !.active = TRUE])
  ELSE [r EXCEPT !.active = TRUE]

TimerFires ==
  /\ reporter.timer # "none" /\ NewTurn
  /\ reporter' = [reporter EXCEPT !.timer = "none"]
  /\ tail' = Append(tail, Task(reporter.timer, "timer", {}))
  /\ UNCHANGED <<outside, store, run, jobs, jpc>>

At(kind, pc) == tail # <<>> /\ Head(tail).kind = kind /\ run.pc = pc
Sending(pc) == At("run", pc) \/ At("resend", pc)

GoOn(r) == run' = r /\ UNCHANGED <<tail, jobs, jpc>>
GoTo(pc) == GoOn([run EXCEPT !.pc = pc])

EndJob == jobs' = Tail(jobs) /\ jpc' = "idle"

\* Mutant: the job is not told.
LeaveTask_Silently ==
  tail' = Tail(tail) /\ run' = NoRun /\ UNCHANGED <<jobs, jpc>>

\* The head of the tail is over, and with it the job that awaited it.
LeaveTask ==
  /\ tail' = Tail(tail) /\ run' = NoRun
  /\ IF Head(tail).by = "job" THEN EndJob ELSE UNCHANGED <<jobs, jpc>>

\* Mutant: a failed attempt is not tried again.
EndRunBackoff_Unarmed(r) == LeaveTask /\ reporter' = r

\* runOnce().finally: an active sender that knows the shared settings arms its
\* next interval; after a backoff it is armed already.
EndRun(r) ==
  LeaveTask /\ reporter' = IF r.active /\ r.settings THEN Armed(r) ELSE r
EndRunBackoff(r) == LeaveTask /\ reporter' = Armed(r)

\* holdUnknown(ids, code): no automatic sending until these are resolved.
Holding(r, ids, code) ==
  [Stopped(r) EXCEPT !.unconfirmed =
     [id \in DOMAIN @ \union ids |-> IF id \in ids THEN code ELSE @[id]]]

----------------------------------------------------------------------------
(* runOnceRaw: the automatic sender *)

Batches(S) == {b \in SUBSET S : b # {} /\ Cardinality(b) <= BatchSize}

\* The gates before anything is prepared.
RunGated ==
  /\ At("run", "idle")
  /\ Blocked(Pruned) \/ ~Granted \/ ~core.origin
  /\ EndRun(Pruned)
  /\ UNCHANGED <<outside, store>>

\* Core reports no usable registration (or no session): wait, visibly.
RunUnregistered ==
  /\ At("run", "idle")
  /\ ~Blocked(Pruned) /\ Granted /\ core.origin /\ Pending(memory) # {}
  /\ Spend("network")
  /\ EndRunBackoff(Pruned)
  /\ UNCHANGED <<core, server, store>>

RunBegin ==
  /\ At("run", "idle")
  /\ ~Blocked(Pruned) /\ Granted /\ core.origin
  /\ reporter' = Pruned
  /\ \E b \in IF Pending(memory) = {} THEN {{}} ELSE Batches(Pending(memory)) :
       GoOn([NoRun EXCEPT !.pc = "settings", !.batch = b])
  /\ UNCHANGED <<outside, store>>

RunSettingsFail ==
  /\ At("run", "settings") /\ Spend("network")
  /\ EndRunBackoff([reporter EXCEPT !.settings = FALSE])
  /\ UNCHANGED <<core, server, store>>

\* Settings are cached or fetched; consent is read again.
RunSettingsOk ==
  LET r == [reporter EXCEPT !.settings = TRUE] IN
  /\ At("run", "settings")
  /\ \/ ~Granted /\ EndRun(Stopped(r)) /\ UNCHANGED store
     \/ Granted /\ run.batch = {} /\ EndRun(r) /\ UNCHANGED store
     \/ /\ Granted /\ run.batch # {}
        /\ Ask(Call("sender", "intent", run.batch)) /\ GoTo("intent") /\ reporter' = r
  /\ UNCHANGED outside

RunIntentLost ==
  /\ At("run", "intent")
  /\ Hears("sender", Errors)
  /\ EndRun([Stopped(reporter) EXCEPT !.failed = TRUE])
  /\ UNCHANGED outside

\* Mutant: the intent counts as kept although its write failed.
RunIntentKept_Unsaved ==
  /\ At("run", "intent") /\ Granted /\ core.origin
  /\ Hears("sender", {"ok", "failed"})
  /\ GoTo("sign")
  /\ UNCHANGED <<outside, reporter>>

\* The await may have crossed a withdrawal of consent or a change of origin.
RunIntentKept ==
  /\ At("run", "intent") /\ Granted /\ core.origin
  /\ Hears("sender", {"ok"})
  /\ GoTo("sign")
  /\ UNCHANGED <<outside, reporter>>

RunIntentTakenBack ==
  /\ At("run", "intent") /\ ~(Granted /\ core.origin)
  /\ HearsAndAsks("sender", {"ok"}, Call("sender", "undoIntent", run.batch))
  /\ GoTo("undo")
  /\ UNCHANGED <<outside, reporter>>

RunUndone ==
  /\ At("run", "undo")
  /\ Hears("sender", {"ok"})
  /\ EndRun(Stopped(reporter))
  /\ UNCHANGED outside

\* persistenceFailure(ids): hold the batch, and send nothing more.
RunPersistenceFailure ==
  /\ \/ (At("run", "undo") \/ At("run", "fail")) /\ Hears("sender", Errors)
     \/ At("run", "apply") /\ Hears("sender", {"failed"})
  /\ EndRun([Holding(reporter, run.batch, Intent) EXCEPT !.failed = TRUE])
  /\ UNCHANGED outside

\* signRequest resolves and fetch is called in the same turn.
RunPost ==
  /\ At("run", "sign")
  /\ GoTo("post")
  /\ UNCHANGED <<outside, store, reporter>>

RunApplied ==
  /\ At("run", "apply")
  /\ Hears("sender", {"ok"})
  /\ EndRun(Pruned)
  /\ UNCHANGED outside

RunFailed ==
  /\ At("run", "fail")
  /\ Hears("sender", {"ok"})
  /\ EndRunBackoff(reporter)
  /\ UNCHANGED outside

RunHeldUnknown ==
  /\ At("run", "hold")
  /\ EndRun([reporter EXCEPT !.failed = @ \/ answer["sender"] \in Errors])
  /\ Hears("sender", {"ok"} \union Errors)
  /\ UNCHANGED outside

AutomaticStep ==
  \/ RunGated \/ RunUnregistered \/ RunBegin \/ RunSettingsFail \/ RunSettingsOk
  \/ RunIntentLost \/ RunIntentKept \/ RunIntentTakenBack \/ RunUndone
  \/ RunPersistenceFailure \/ RunPost \/ RunApplied \/ RunFailed \/ RunHeldUnknown

----------------------------------------------------------------------------
(* The answer to a request, the same for the automatic and the explicit sender *)

Unusable == {"refused", "lost", "unreadable", "pending-host-commit"}

\* The attempt failed: its marker is cleared, unless (explicit sender) the
\* outcome of an earlier request is unknown.
FailureCall ==
  IF Head(tail).kind = "run" THEN Call("sender", "attempts", run.batch)
  ELSE [Call("sender", "resendFailure", run.batch) EXCEPT !.marks = run.previous]

SignFails ==
  /\ Sending("sign") /\ Spend("network")
  /\ Ask(FailureCall) /\ GoTo("fail")
  /\ UNCHANGED <<core, server, reporter>>

AnswerCommitted ==
  /\ Sending("answered") /\ run.response.kind = "committed"
  /\ Ask([Call("sender", "apply", run.batch) EXCEPT
            !.accepted = run.response.accepted, !.duplicates = run.response.duplicates,
            !.marks = run.response.rejected])
  /\ GoTo("apply")
  /\ UNCHANGED <<outside, reporter>>

AnswerUnknown ==
  /\ Sending("answered") /\ run.response.kind = "unknown"
  /\ reporter' = Holding(reporter, run.batch, Unknown)
  /\ Ask([Call("sender", "attempts", run.batch) EXCEPT !.code = Unknown])
  /\ GoTo("hold")
  /\ UNCHANGED outside

AnswerUnusable ==
  /\ Sending("answered") /\ run.response.kind \in Unusable
  /\ Ask(FailureCall) /\ GoTo("fail")
  /\ UNCHANGED <<outside, reporter>>

\* INVALID_UPLOAD_RESULT: the counts do not describe this batch.
AnswerMiscounted ==
  /\ Sending("apply")
  /\ HearsAndAsks("sender", {"invalid"}, FailureCall)
  /\ GoTo("fail")
  /\ UNCHANGED <<outside, reporter>>

AnswerStep ==
  SignFails \/ AnswerCommitted \/ AnswerUnknown \/ AnswerUnusable \/ AnswerMiscounted

----------------------------------------------------------------------------
(* resendRaw: the one-shot sender of a user's selection *)

Ready == Granted /\ core.origin /\ memory.withdrawal = "none"

Resendable(ids) == memory.withdrawal = "none" /\ ids \subseteq Pending(memory)

ResendRefused ==
  /\ At("resend", "idle")
  /\ reporter.failed \/ ~Granted \/ ~Resendable(Head(tail).ids)
  /\ reporter' = Pruned
  /\ LeaveTask
  /\ UNCHANGED <<outside, store>>

\* The whole selection is admitted; the automatic sender stops.
ResendAccepted ==
  /\ At("resend", "idle")
  /\ ~reporter.failed /\ Granted /\ Resendable(Head(tail).ids)
  /\ reporter' = Stopped(Pruned)
  /\ IF core.origin THEN GoOn([NoRun EXCEPT !.pc = "next", !.selected = Head(tail).ids])
     ELSE LeaveTask
  /\ UNCHANGED <<outside, store>>

\* The loop: what remains of the selection, read again from the buffer.
ResendOver ==
  /\ At("resend", "next")
  /\ run.selected = {} \/ ~Ready \/ ~(run.selected \subseteq Pending(memory))
  /\ LeaveTask
  /\ UNCHANGED <<outside, store, reporter>>

ResendBatch ==
  /\ At("resend", "next") /\ Ready
  /\ \E b \in Batches(run.selected \cap Pending(memory)) :
       /\ Ask(Call("sender", "resendIntent", b))
       /\ GoOn([run EXCEPT !.pc = "intent", !.batch = b,
                  !.previous = [id \in b \cap DOMAIN reporter.unconfirmed |->
                                  reporter.unconfirmed[id]]])
  /\ UNCHANGED <<outside, reporter>>

\* A local write that fails ends the selection and every later send.
ResendPersistenceFailure ==
  /\ \/ \E pc \in {"intent", "fail", "hold"} : At("resend", pc) /\ Hears("sender", Errors)
     \/ At("resend", "apply") /\ Hears("sender", {"failed"})
  /\ reporter' = [reporter EXCEPT !.failed = TRUE]
  /\ LeaveTask
  /\ UNCHANGED outside

\* The batch counts as unknown from now on; consent is read again.
ResendIntentKept ==
  /\ At("resend", "intent")
  /\ Hears("sender", {"ok"})
  /\ reporter' = [reporter EXCEPT !.unconfirmed =
                    [id \in DOMAIN @ \union run.batch |-> IF id \in DOMAIN @ THEN @[id] ELSE Intent]]
  /\ IF Ready THEN GoTo("sign") ELSE LeaveTask
  /\ UNCHANGED outside

\* After signRequest the explicit path looks at consent once more.
ResendPost ==
  /\ At("resend", "sign")
  /\ IF Ready THEN GoTo("post") ELSE LeaveTask
  /\ UNCHANGED <<outside, store, reporter>>

\* Mutant: what failed is tried again.
ResendNext_Again(r) ==
  /\ reporter' = r
  /\ GoOn([NoRun EXCEPT !.pc = "next", !.selected = run.selected])
  /\ UNCHANGED outside

\* A batch is over, one way or another: on to the rest of the selection.
ResendNext(r) ==
  /\ reporter' = r
  /\ GoOn([NoRun EXCEPT !.pc = "next", !.selected = run.selected \ run.batch])
  /\ UNCHANGED outside

ResendApplied ==
  At("resend", "apply") /\ Hears("sender", {"ok"}) /\ ResendNext(Pruned)

\* Mutant: the attempt that failed clears what was unknown before it, too.
ResendFailed_Forgets ==
  /\ At("resend", "fail") /\ Hears("sender", {"ok"})
  /\ ResendNext([reporter EXCEPT !.unconfirmed = [id \in DOMAIN @ \ run.batch |-> @[id]]])

\* Only what was already unknown before this attempt stays unknown.
ResendFailed ==
  /\ At("resend", "fail") /\ Hears("sender", {"ok"})
  /\ LET rest == DOMAIN reporter.unconfirmed \ (run.batch \ DOMAIN run.previous) IN
       ResendNext([reporter EXCEPT !.unconfirmed = [id \in rest |-> @[id]]])

ResendHeldUnknown ==
  At("resend", "hold") /\ Hears("sender", {"ok"}) /\ ResendNext(reporter)

ResendStep ==
  \/ ResendRefused \/ ResendAccepted \/ ResendOver \/ ResendBatch
  \/ ResendPersistenceFailure \/ ResendIntentKept \/ ResendPost
  \/ ResendApplied \/ ResendFailed \/ ResendHeldUnknown

----------------------------------------------------------------------------
(* retryWithdrawalRaw: the deletion request *)

\* No withdrawal, or one that is not retried: sent, offline, unconfirmed.
WithdrawalSettled ==
  /\ At("withdrawal", "idle") /\ memory.withdrawal # "pending"
  /\ LeaveTask
  /\ UNCHANGED <<outside, store, reporter>>

MarkWithdrawalCall(outcome) == [Call("sender", "markWithdrawal", {}) EXCEPT !.code = outcome]

WithdrawalOffline ==
  /\ At("withdrawal", "idle") /\ memory.withdrawal = "pending"
  /\ ~core.linked \/ ~core.origin
  /\ Ask(MarkWithdrawalCall("offline"))
  /\ GoOn([run EXCEPT !.pc = "mark", !.response.kind = "offline"])
  /\ UNCHANGED <<outside, reporter>>

WithdrawalSend ==
  /\ At("withdrawal", "idle") /\ memory.withdrawal = "pending"
  /\ core.linked /\ core.origin
  /\ GoTo("delete")
  /\ UNCHANGED <<outside, store, reporter>>

\* Mutant: any answer to the deletion counts as done.
WithdrawalAnswered_Hopeful ==
  /\ At("withdrawal", "answered")
  /\ Ask(MarkWithdrawalCall(IF run.response.kind = "unknown" THEN "unconfirmed" ELSE "sent"))
  /\ GoTo("mark")
  /\ UNCHANGED <<outside, reporter>>

WithdrawalAnswered ==
  /\ At("withdrawal", "answered")
  /\ Ask(MarkWithdrawalCall(CASE run.response.kind = "deleted" -> "sent"
                               [] run.response.kind = "unknown" -> "unconfirmed"
                               [] OTHER -> "pending"))
  /\ GoTo("mark")
  /\ UNCHANGED <<outside, reporter>>

\* Mutant: a deletion that failed is not tried again.
WithdrawalMarked_GivesUp ==
  /\ At("withdrawal", "mark")
  /\ Hears("sender", {"ok"})
  /\ reporter' = [reporter EXCEPT !.timer = "none"]
  /\ LeaveTask
  /\ UNCHANGED outside

\* A deletion that failed is tried again after a pause, with or without consent.
WithdrawalMarked ==
  /\ At("withdrawal", "mark")
  /\ Hears("sender", {"ok"})
  /\ reporter' = CASE run.response.kind = "unknown" -> Stopped(reporter)
                   [] run.response.kind \in {"deleted", "offline"} ->
                        [reporter EXCEPT !.timer = "none"]
                   [] OTHER -> [reporter EXCEPT !.timer = "withdrawal"]
  /\ LeaveTask
  /\ UNCHANGED outside

\* markWithdrawal throws: the withdrawal was cleared meanwhile, or not saved.
WithdrawalUnmarked ==
  /\ At("withdrawal", "mark")
  /\ Hears("sender", Errors)
  /\ LeaveTask
  /\ UNCHANGED <<outside, reporter>>

WithdrawalStep ==
  \/ WithdrawalSettled \/ WithdrawalOffline \/ WithdrawalSend
  \/ WithdrawalAnswered \/ WithdrawalMarked \/ WithdrawalUnmarked

SenderStep == AutomaticStep \/ AnswerStep \/ ResendStep \/ WithdrawalStep

----------------------------------------------------------------------------
(* The usage server (external): idempotent by event id *)

Responds(response, taken, doubt) ==
  /\ run' = [run EXCEPT !.pc = "answered", !.response = response]
  /\ server' = [stored |-> server.stored \union taken,
                ingested |-> server.ingested \union taken, doubt |-> doubt]
  /\ UNCHANGED <<core, store, reporter, tail, jobs, jpc>>

\* 2xx, committed: every event not refused per item is held from now on.
ServerIngests ==
  /\ run.pc = "post"
  /\ \E refused \in SUBSET run.batch, code \in {HostRejection, "ITEM_REFUSED"} :
       LET kept == run.batch \ refused IN
       /\ IF refused = {} THEN UNCHANGED left ELSE Spend("network")
       /\ Responds([kind |-> "committed", accepted |-> Cardinality(kept \ server.stored),
                     duplicates |-> Cardinality(kept \cap server.stored),
                     rejected |-> [id \in refused |-> code]],
                    kept, server.doubt \ run.batch)

\* Any other end of the request.  Unless the server refuses it, the batch may
\* have been ingested all the same.
ServerTroubles ==
  /\ run.pc = "post" /\ Spend("network")
  /\ \E kind \in Unusable \union {"unknown"}, taken \in {{}, run.batch} :
       /\ kind = "refused" => taken = {}
       /\ Responds([NoResponse EXCEPT !.kind = kind], taken,
                   server.doubt \union (IF kind = "unknown" THEN run.batch ELSE {}))

\* A 2xx whose counts do not fit the batch.
ServerMiscounts ==
  /\ run.pc = "post" /\ Spend("network")
  /\ \E taken \in {{}, run.batch} :
       Responds([NoResponse EXCEPT !.kind = "committed",
                                   !.accepted = Cardinality(run.batch) + 1], taken, server.doubt)

ServerDeletes ==
  /\ run.pc = "delete"
  /\ \E kind \in {"deleted", "refused", "lost", "unknown"}, done \in BOOLEAN :
       /\ IF kind = "deleted" THEN UNCHANGED left ELSE Spend("network")
       /\ kind = "deleted" => done
       /\ kind = "refused" => ~done
       /\ run' = [run EXCEPT !.pc = "answered", !.response.kind = kind]
       /\ server' = IF done THEN [server EXCEPT !.stored = {}] ELSE server
  /\ UNCHANGED <<core, store, reporter, tail, jobs, jpc>>

ServerStep == ServerIngests \/ ServerTroubles \/ ServerMiscounts \/ ServerDeletes

----------------------------------------------------------------------------
(* mount's jobs chain *)

NextJob(kind) == jobs # <<>> /\ jpc = "idle" /\ Head(jobs).kind = kind
Await(pc) == jpc' = pc /\ UNCHANGED jobs

\* reporter.withdraw: stop, then wait for what the tail still holds.
JobWithheld ==
  /\ NextJob("withheld")
  /\ reporter' = Stopped(reporter)
  /\ Await("tail")
  /\ UNCHANGED <<outside, store, tail, run>>

\* The unknown outcomes are forgotten with the rows; deletion joins the tail.
RequestDeletion ==
  /\ reporter' = [reporter EXCEPT !.unconfirmed = NoMarkers, !.failed = FALSE]
  /\ tail' = Append(tail, Task("withdrawal", "job", {}))
  /\ Await("task")
  /\ UNCHANGED run

JobWithdraw ==
  /\ jpc = "tail" /\ tail = <<>>
  /\ \/ /\ memory.withdrawal \in {"sent", "offline"}
        /\ EndJob /\ UNCHANGED <<store, reporter, tail, run>>
     \/ /\ memory.withdrawal = "none"
        /\ Ask(Call("job", "withdrawLocal", {}))
        /\ Await("local") /\ UNCHANGED <<reporter, tail, run>>
     \/ /\ memory.withdrawal \in {"pending", "unconfirmed"}
        /\ RequestDeletion /\ UNCHANGED store
  /\ UNCHANGED outside

JobWithdrawn ==
  /\ jpc = "local"
  /\ \/ Hears("job", {"ok"}) /\ RequestDeletion
     \/ Hears("job", Errors) /\ EndJob /\ UNCHANGED <<reporter, tail, run>>
  /\ UNCHANGED outside

\* Scans are serialised on inventory's own tail, and only add events while Core
\* is there and consents.
NoScanUnderWay == jpc # "scan" /\ \A i \in DOMAIN calls : calls[i].op # "scan"
MayAddInstalls == Granted /\ NewEvents # {}

JobScans ==
  /\ NextJob("attach") \/ NextJob("granted")
  /\ NoScanUnderWay /\ MayAddInstalls
  /\ Ask(Call("job", "scan", NewEvents))
  /\ Await("scan")
  /\ UNCHANGED <<outside, reporter, tail, run>>

\* The scan is over, or had nothing to add.  A failed one does not stop the job.
ScanOver(kind) ==
  \/ NextJob(kind) /\ NoScanUnderWay /\ ~MayAddInstalls /\ UNCHANGED answer
  \/ jpc = "scan" /\ Head(jobs).kind = kind /\ Takes("job", {"ok"} \union Errors)

JobStarts ==
  /\ ScanOver("attach")
  /\ reporter' = Started(Pruned)
  /\ EndJob
  /\ UNCHANGED <<outside, storage, calls, tail, run>>

\* reporter.grant: start only after the withdrawal is cleared.
JobClears ==
  /\ ScanOver("granted")
  /\ calls' = Append(calls, Call("job", "clearWithdrawal", {}))
  /\ Await("clear")
  /\ UNCHANGED <<outside, storage, reporter, tail, run>>

JobCleared ==
  /\ jpc = "clear"
  /\ \/ Hears("job", {"ok"}) /\ reporter' = Started(Pruned)
     \/ Hears("job", Errors) /\ UNCHANGED reporter
  /\ EndJob
  /\ UNCHANGED <<outside, tail, run>>

\* Mutant: consent was read when record() was called.
JobRecords_Unasked ==
  LET ids == Head(jobs).ids IN
  /\ NextJob("record")
  /\ IF ~(ids \subseteq Held(memory))
       THEN Ask(Call("job", "put", ids)) /\ Await("put")
       ELSE EndJob /\ UNCHANGED store
  /\ UNCHANGED <<outside, reporter, tail, run>>

\* recordSeat: consent is read when the job runs, the put follows at once.
JobRecords ==
  LET ids == Head(jobs).ids IN
  /\ NextJob("record")
  /\ IF Granted /\ ~(ids \subseteq Held(memory))
       THEN Ask(Call("job", "put", ids)) /\ Await("put")
       ELSE EndJob /\ UNCHANGED store
  /\ UNCHANGED <<outside, reporter, tail, run>>

JobRecorded ==
  /\ jpc = "put"
  /\ Hears("job", {"ok"} \union Errors)
  /\ EndJob
  /\ UNCHANGED <<outside, reporter, tail, run>>

\* resendEvents: host rejections are reopened first, then the selection goes
\* to the reporter's tail.
JobReopens ==
  /\ NextJob("resend")
  /\ Ask(Call("job", "reopen", Head(jobs).ids))
  /\ Await("reopen")
  /\ UNCHANGED <<outside, reporter, tail, run>>

JobResends ==
  /\ jpc = "reopen"
  /\ \/ /\ Hears("job", {"ok"})
        /\ tail' = Append(tail, Task("resend", "job", Head(jobs).ids))
        /\ Await("task")
     \/ Hears("job", Errors) /\ EndJob /\ UNCHANGED tail
  /\ UNCHANGED <<outside, reporter, run>>

JobStep ==
  \/ JobWithheld \/ JobWithdraw \/ JobWithdrawn \/ JobScans \/ JobStarts
  \/ JobClears \/ JobCleared \/ JobRecords \/ JobRecorded \/ JobReopens \/ JobResends

----------------------------------------------------------------------------
(* Core, the person, the Host *)

Enqueue(job) == jobs' = Append(jobs, job) /\ UNCHANGED <<store, tail, run, jpc, server>>

\* The consent listener: stop at once when consent goes, queue the rest.
Withhold ==
  /\ core.consent = "granted" /\ Spend("consent")
  /\ core' = [core EXCEPT !.consent = "withheld"]
  /\ IF core.linked THEN Enqueue(Job("withheld", {})) /\ reporter' = Stopped(reporter)
     ELSE UNCHANGED <<store, reporter, strands, server>>

Grant ==
  /\ core.consent = "withheld" /\ Spend("consent")
  /\ core' = [core EXCEPT !.consent = "granted"]
  /\ IF core.linked THEN Enqueue(Job("granted", {})) ELSE UNCHANGED <<store, strands, server>>
  /\ UNCHANGED reporter

\* attachCore: the Core service disappears, or is there (again).
CoreDetached ==
  /\ core.linked /\ Spend("link")
  /\ core' = [core EXCEPT !.linked = FALSE]
  /\ reporter' = Stopped(reporter)
  /\ UNCHANGED <<store, strands, server>>

CoreAttached ==
  /\ ~core.linked
  /\ core' = [core EXCEPT !.linked = TRUE]
  /\ Enqueue(Job("attach", {}))
  /\ UNCHANGED <<left, reporter>>

OriginChanges ==
  /\ Spend("origin")
  /\ core' = [core EXCEPT !.origin = ~@]
  /\ UNCHANGED <<store, reporter, strands, server>>

RecordCalled ==
  /\ Spend("record")
  /\ \E id \in EventIds \ (LoaderIds \union LegacyIds) : Enqueue(Job("record", {id}))
  /\ UNCHANGED <<core, reporter>>

\* resendEventIds: a request names some events, each once.
Selections(ids) == (SUBSET ids) \ {{}}

ResendCalled ==
  /\ Spend("resend")
  /\ \E ids \in Selections(Held(memory)) : Enqueue(Job("resend", ids))
  /\ UNCHANGED <<core, reporter>>

\* inventory.js scans on its own timer and on Host notifications.
BackgroundScan ==
  /\ NoScanUnderWay /\ MayAddInstalls
  /\ Ask(Call("scan", "scan", NewEvents))
  /\ UNCHANGED <<outside, reporter, strands>>

\* The Host process ends and starts again: everything but the disk and the
\* server is new; Core is attached by the CoreAttached step that follows.  A
\* request under way may have been ingested.
Crash ==
  /\ Spend("crash")
  /\ memory' = disk /\ next' = disk /\ phase' = "idle"
  /\ calls' = <<>> /\ answer' = [by \in DOMAIN answer |-> "none"]
  /\ reporter' = FreshReporter(disk)
  /\ tail' = <<>> /\ run' = NoRun /\ jobs' = <<>> /\ jpc' = "idle"
  /\ core' = [core EXCEPT !.linked = FALSE]
  /\ \E taken \in IF run.pc = "post" THEN {{}, run.batch} ELSE {{}} :
       server' = [stored |-> server.stored \union taken,
                  ingested |-> server.ingested \union taken,
                  doubt |-> (server.doubt \union
                               (IF run.pc \in {"post", "answered"} THEN run.batch ELSE {})) \cap Held(disk)]
  /\ UNCHANGED disk

Environment ==
  \/ Withhold \/ Grant \/ CoreDetached \/ OriginChanges
  \/ RecordCalled \/ ResendCalled \/ BackgroundScan \/ Crash

----------------------------------------------------------------------------
Init ==
  /\ core \in [consent : {"granted", "withheld"}, linked : {FALSE}, origin : {TRUE}]
  /\ left \in Budgets
  /\ memory = EmptySnapshot /\ disk = EmptySnapshot /\ next = EmptySnapshot
  /\ phase = "idle" /\ calls = <<>> /\ answer = [by \in {"job", "sender"} |-> "none"]
  /\ reporter = FreshReporter(EmptySnapshot)
  /\ tail = <<>> /\ run = NoRun /\ jobs = <<>> /\ jpc = "idle"
  /\ server = [stored |-> {}, ingested |-> {}, doubt |-> {}]

StoreStep == StoreRun \/ StorePublish \/ StoreResolve \/ StoreReject

Next ==
  \/ StoreStep \/ TimerFires \/ SenderStep \/ ServerStep \/ JobStep
  \/ CoreAttached \/ Environment

Spec == Init /\ [][Next]_vars

\* Every await is answered, a timer that is armed fires, and a queued job or
\* task is run: the event loop and the external services make progress.
Fairness ==
  /\ WF_vars(StoreStep) /\ WF_vars(SenderStep) /\ WF_vars(ServerStep)
  /\ WF_vars(JobStep) /\ WF_vars(TimerFires) /\ WF_vars(CoreAttached)

FairSpec == Spec /\ Fairness
=============================================================================
