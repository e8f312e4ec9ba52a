----------------------------- MODULE AgentProofs -----------------------------
(***************************************************************************)
(* Of the agent's processes, what holds for any number of them, any facts  *)
(* and any number of calls, kills, failed requests, withdrawals and        *)
(* consents: nothing here depends on the budgets.                          *)
(*                                                                         *)
(* The argument: whoever sends, and whoever ends a consent at the server,  *)
(* holds the sender lock.  So the consent a sender works under is neither  *)
(* ended nor replaced while it works, and what may be unanswered while a   *)
(* withdrawal is confirmed belongs to ended consents.                      *)
(*                                                                         *)
(* What leaves twice, and what a withdrawal leaves behind, is about the    *)
(* rows, and these are erased under the other lock.  As long as the two    *)
(* halves of different withdrawals stay apart (Apart; one withdrawal keeps *)
(* them apart by itself), an event that may be unanswered has a row that   *)
(* says so, unless all is gone and collection is stopped: then nothing is  *)
(* written until its consent has ended.                                    *)
(***************************************************************************)
EXTENDS NodeRuntime, FiniteSetTheorems, TLAPS

USE EventAssumption, ProcAssumption

----------------------------------------------------------------------------
(* The inductive invariant *)

Outcomes == {"unknown", "known"}
Deliveries == {"none", "unconfirmed", "done"}
RequestSet == [event : EventIds, gen : Nat]
Wire == [gen : Nat, success : Outcomes]
EventRow == [success : Outcomes, wire : Wire, delivery : Deliveries]
Pcs ==
  {"idle", "retain", "look", "collect", "observe", "drain", "drain-lock", "drain-check",
   "drain-record", "drain-remove", "finish", "enabled", "upload", "next", "freeze", "sign",
   "mark", "flight", "post", "posted", "outcome", "unflight", "begin", "withhold", "declare",
   "wipe", "clear", "erase-lock", "erase", "barrier", "latest", "call", "decide", "record", "reopen"}
Programs == {"none", "hook", "prepare", "tick", "withdraw", "resend", "drain"}
Consents == {"unset", "granted", "withheld"}
Barriers == {"none", "committed", "no-device", "failed"}
Record ==
  [pc : Pcs, program : Programs, item : EventIds \cup {NoFact}, outcome : Outcomes,
   queue : SUBSET Facts, row : [fact : Facts \cup {NoFact}, success : Outcomes],
   consent : Consents, gen : Nat, wire : Nat, answer : [barrier : Barriers, gen : Nat]]
HasFact(r) == r.program = "hook" \/ r.pc \in {"retain", "look", "collect", "observe"}
Program == {r \in Record : HasFact(r) => r.item \in Facts}

CoreTypes ==
  /\ core \in [consent : Consents, gen : Nat]
  /\ withdrawal \in [state : {"none", "pending", "sent"}, gen : Nat]
  /\ server \in [stored : SUBSET RequestSet, tombstones : SUBSET Nat, late : SUBSET RequestSet]
  /\ open \subseteq RequestSet
FileTypes ==
  /\ DOMAIN events \subseteq Facts /\ events \in [DOMAIN events -> EventRow]
  /\ install \in [gen : Nat, delivery : Deliveries]
  /\ prepared \subseteq Facts /\ inflight \subseteq EventIds
ProcTypes == lock \in [Locks -> Procs \cup {Free}] /\ proc \in [Procs -> Program]

\* Core never takes a consent back that the server has ended, and gives a new
\* one only after that.
GensOK ==
  /\ core.consent = "granted" => core.gen \in Nat \ {0} /\ core.gen \notin server.tombstones
  /\ server.tombstones \subseteq 1..core.gen
  /\ \A g \in 1..core.gen : g = core.gen \/ g \in server.tombstones
  /\ install.gen <= core.gen

\* What may be unanswered has its marker, or belongs to an ended consent.
OpenOK ==
  \A x \in open :
    /\ x.gen >= 1 /\ x.gen <= core.gen
    /\ x.gen \in server.tombstones \/ x.event \in inflight
    /\ x.event = Install /\ install.gen # 0 => x.gen <= install.gen

\* The server holds nothing of a consent it has ended.
ServerOK ==
  /\ \A x \in server.stored : x.gen >= 1 /\ x.gen \notin server.tombstones
  /\ \A x \in server.late : x.gen >= 1
WithdrawalOK == withdrawal.state = "sent" => withdrawal.gen \in server.tombstones \cup {0}

Globals == CoreTypes /\ FileTypes /\ GensOK /\ OpenOK /\ ServerOK /\ WithdrawalOK /\ SignedOutcomeKept

Sending(r) == r.pc \in {"next", "freeze", "sign", "mark", "flight", "post", "posted", "outcome", "unflight"}
HasWire(r) == r.pc \in {"sign", "mark", "flight", "post", "posted", "outcome", "unflight"}
Draining(r) == r.pc \in {"drain", "drain-lock", "drain-check", "drain-record", "drain-remove"}
NeedsSender(r) ==
  \/ Sending(r) \/ r.pc \in {"upload", "latest", "call", "decide", "record"}
  \/ r.program = "tick" /\ Draining(r)

SenderOK(r) ==
  /\ Sending(r) \/ r.pc = "upload" => r.program = "tick"
  /\ Sending(r) => r.gen = core.gen /\ r.gen >= 1 /\ r.gen \notin server.tombstones
  /\ HasWire(r) \/ r.pc = "freeze" => r.item \in EventIds
  /\ HasWire(r) /\ r.item # Install => r.wire = r.gen
  /\ HasWire(r) /\ r.item = Install =>
       /\ r.wire >= 1 /\ r.wire <= r.gen /\ install.gen \in {0, r.wire}
       /\ \A x \in open : x.event = Install => x.gen <= r.wire
  /\ r.pc \in {"post", "posted", "outcome"} => r.item \in inflight
  /\ r.pc = "unflight" => \A x \in open : x.event = r.item => x.gen < r.wire

BarrierOK(r) ==
  /\ r.pc = "decide" /\ r.answer.barrier = "committed" =>
       r.answer.gen \in server.tombstones /\ \A x \in open : x.gen <= r.answer.gen
  /\ r.pc = "decide" /\ r.answer.barrier = "no-device" => r.answer.gen = 0
  /\ r.pc = "record" => r.answer.gen \in server.tombstones \cup {0}

Exclusive == \A p \in Procs : NeedsSender(proc[p]) => lock["sender"] = p
ProcsOK == \A p \in Procs : SenderOK(proc[p]) /\ BarrierOK(proc[p])

AgentInv == ProcTypes /\ Globals /\ Exclusive /\ ProcsOK

----------------------------------------------------------------------------
(* A step of one process *)

\* It takes the sender lock when it is free, and gives back only its own.
LockStep(p, r) ==
  /\ lock' \in [Locks -> Procs \cup {Free}]
  /\ lock["sender"] = lock'["sender"] \/ lock["sender"] \in {Free, p}
  /\ NeedsSender(r) => lock'["sender"] = p

\* What the others rely on stays, or they rely on nothing: p has the lock.
Others(p) ==
  \/ /\ UNCHANGED <<open, inflight>> /\ server'.tombstones = server.tombstones
     /\ core'.gen = core.gen /\ install'.gen \in {0, install.gen}
  \/ lock["sender"] = p

LEMMA Step ==
  ASSUME AgentInv, NEW p \in Procs, NEW r \in Program, proc' = [proc EXCEPT ![p] = r],
         LockStep(p, r), Others(p), Globals', SenderOK(r)', BarrierOK(r)'
  PROVE  AgentInv'
<1>1. ProcTypes'
  BY DEF AgentInv, ProcTypes, LockStep
<1>2. proc'[p] = r /\ \A q \in Procs : q # p => proc'[q] = proc[q]
  BY DEF AgentInv, ProcTypes
<1>3. Exclusive'
  BY <1>2 DEF AgentInv, Exclusive, LockStep, ProcTypes, Free
<1>4. ASSUME NEW q \in Procs, q # p
      PROVE  SenderOK(proc[q])' /\ BarrierOK(proc[q])'
  <2>1. SenderOK(proc[q]) /\ BarrierOK(proc[q]) /\ proc'[q] = proc[q]
    BY <1>2, <1>4 DEF AgentInv, ProcsOK
  <2>2. CASE lock["sender"] = p
    <3>1. ~NeedsSender(proc[q])
      BY <2>2, <1>4 DEF AgentInv, Exclusive
    <3> QED
      BY <2>1, <3>1 DEF NeedsSender, Sending, HasWire, SenderOK, BarrierOK
  <2>3. CASE /\ UNCHANGED <<open, inflight>> /\ server'.tombstones = server.tombstones
             /\ core'.gen = core.gen /\ install'.gen \in {0, install.gen}
    BY <2>1, <2>3 DEF SenderOK, BarrierOK, Sending, HasWire
  <2> QED
    BY <2>2, <2>3 DEF Others
<1>5. ProcsOK'
  BY <1>2, <1>4 DEF ProcsOK
<1> QED
  BY <1>1, <1>3, <1>5 DEF AgentInv

Quiets == UNCHANGED <<core, files, server, open>>

\* A step that only moves the process itself.
LEMMA QuietStep ==
  ASSUME AgentInv, NEW p \in Procs, NEW r \in Program, proc' = [proc EXCEPT ![p] = r],
         LockStep(p, r), Quiets, SenderOK(r), BarrierOK(r)
  PROVE  AgentInv'
<1>1. Others(p)
  BY DEF Quiets, Others, files, local, AgentInv, Globals, FileTypes
<1>2. Globals'
  BY DEF Quiets, files, local, AgentInv, Globals, CoreTypes, FileTypes, GensOK, OpenOK, ServerOK,
         WithdrawalOK, SignedOutcomeKept
<1>3. SenderOK(r)' /\ BarrierOK(r)'
  BY DEF Quiets, files, local, SenderOK, BarrierOK
<1> QED
  BY <1>1, <1>2, <1>3, Step

LEMMA IdleOK ==
  Idle \in Program /\ ~NeedsSender(Idle) /\ SenderOK(Idle) /\ BarrierOK(Idle)
<1>1. Idle.pc = "idle" /\ Idle.program = "none"
  BY DEF Idle
<1>2. Idle \in Program
  BY DEF Idle, NoRow, NoFact, Program, Record, HasFact, Outcomes, Pcs, Programs, Consents, Barriers
<1> QED
  BY <1>1, <1>2 DEF NeedsSender, Sending, HasWire, Draining, SenderOK, BarrierOK

\* Dropping its own locks, a process keeps the protocol if it needs none.
LEMMA Drops ==
  ASSUME AgentInv, NEW p \in Procs, NEW r, NEW names, Drop(p, names),
         NeedsSender(r) => "sender" \notin names /\ lock["sender"] = p
  PROVE  LockStep(p, r)
BY DEF AgentInv, ProcTypes, Drop, LockStep, Locks, Free

LEMMA Keeps ==
  ASSUME AgentInv, NEW p \in Procs, NEW r, UNCHANGED lock, NeedsSender(r) => lock["sender"] = p
  PROVE  LockStep(p, r)
BY DEF AgentInv, ProcTypes, LockStep

LEMMA Takes ==
  ASSUME AgentInv, NEW p \in Procs, NEW r, NEW name \in Locks, Take(p, name),
         NeedsSender(r) => name = "sender"
  PROVE  LockStep(p, r)
BY DEF AgentInv, ProcTypes, Take, LockStep, Locks, Free

\* A program that is over, or throws, is idle without locks.
LEMMA Stops ==
  ASSUME AgentInv, NEW p \in Procs, Stop(p)
  PROVE  proc' = [proc EXCEPT ![p] = Idle] /\ LockStep(p, Idle)
BY IdleOK, Drops DEF Stop, Become

LEMMA QuietStop ==
  ASSUME AgentInv, NEW p \in Procs, Stop(p), Quiets
  PROVE  AgentInv'
BY Stops, IdleOK, QuietStep

\* A process that goes somewhere where nothing is asked of it.
LEMMA FreeOK ==
  ASSUME NEW r, ~NeedsSender(r)
  PROVE  SenderOK(r) /\ BarrierOK(r)
BY DEF NeedsSender, Sending, HasWire, SenderOK, BarrierOK

LEMMA FreeStep ==
  ASSUME AgentInv, NEW p \in Procs, NEW r \in Program, proc' = [proc EXCEPT ![p] = r],
         LockStep(p, r), Quiets, ~NeedsSender(r)
  PROVE  AgentInv'
BY QuietStep, FreeOK

----------------------------------------------------------------------------
(* Steps that only move the process *)

\* A program starts.
LEMMA LaunchKeeps ==
  ASSUME AgentInv, NEW p \in Procs, NEW kind \in Programs, NEW r \in Program,
         Launch(p, kind, r), Quiets, UNCHANGED lock,
         r.pc \in {"retain", "begin", "finish", "reopen"} \/ (r.pc = "drain" /\ kind # "tick"),
         kind = "hook" => r.item \in Facts
  PROVE  AgentInv'
<1> DEFINE s == [r EXCEPT !.program = kind]
<1>1. s \in Record /\ s.pc = r.pc /\ s.program = kind /\ s.item = r.item
  BY DEF Program, Record
<1>4. s \in Program
  BY <1>1 DEF Program, HasFact
<1>2. ~NeedsSender(s)
  BY <1>1 DEF NeedsSender, Sending, Draining
<1>3. proc' = [proc EXCEPT ![p] = s]
  BY DEF Launch, Become
<1> HIDE DEF s
<1> QED
  BY <1>2, <1>3, <1>4, Keeps, FreeStep

LEMMA StartsKeep ==
  ASSUME AgentInv, NEW p \in Procs, Starts(p) \/ PrepareStarts(p)
  PROVE  AgentInv'
<1> USE IdleOK
<1>1. ASSUME HookStarts(p) PROVE AgentInv'
  <2>1. PICK f \in Facts, outcome \in {"unknown", "known"} :
          Launch(p, "hook", [Idle EXCEPT !.pc = "drain", !.item = f, !.outcome = outcome])
    BY <1>1 DEF HookStarts
  <2> DEFINE r == [Idle EXCEPT !.pc = "drain", !.item = f, !.outcome = outcome]
  <2>2. r \in Program /\ r.pc = "drain" /\ r.item \in Facts
    BY DEF Program, Record, HasFact, Pcs, EventIds, Outcomes
  <2>3. Quiets /\ UNCHANGED lock
    BY <1>1 DEF HookStarts, Quiets, history
  <2> HIDE DEF r
  <2> QED
    BY <2>1, <2>2, <2>3, LaunchKeeps DEF r, Programs
<1>2. ASSUME TickStarts(p) PROVE AgentInv'
  <2> DEFINE r == [Idle EXCEPT !.pc = "finish", !.consent = core.consent]
  <2>1. r \in Program /\ r.pc = "finish"
    BY DEF Program, Record, HasFact, Pcs, AgentInv, Globals, CoreTypes
  <2>2. Quiets /\ UNCHANGED lock /\ Launch(p, "tick", r)
    BY <1>2 DEF TickStarts, Quiets, history
  <2> HIDE DEF r
  <2> QED
    BY <2>1, <2>2, LaunchKeeps DEF Programs
<1>3. ASSUME WithdrawStarts(p) PROVE AgentInv'
  <2> DEFINE r == [Idle EXCEPT !.pc = "begin"]
  <2>1. r \in Program /\ r.pc = "begin"
    BY DEF Program, Record, HasFact, Pcs
  <2>2. Quiets /\ UNCHANGED lock /\ Launch(p, "withdraw", r)
    BY <1>3 DEF WithdrawStarts, Quiets, history
  <2> HIDE DEF r
  <2> QED
    BY <2>1, <2>2, LaunchKeeps DEF Programs
<1>4. ASSUME ResendReads(p) PROVE AgentInv'
  <2>1. PICK f \in DOMAIN events : Launch(p, "resend", [Idle EXCEPT !.pc = "reopen", !.item = f])
    BY <1>4 DEF ResendReads
  <2> DEFINE r == [Idle EXCEPT !.pc = "reopen", !.item = f]
  <2>2. r \in Program /\ r.pc = "reopen"
    <3>1. f \in EventIds
      BY DEF AgentInv, Globals, FileTypes, EventIds
    <3>2. r \in Record /\ r.pc = "reopen" /\ r.program = "none"
      BY <3>1 DEF Program, Record, Pcs, Idle
    <3> HIDE DEF r
    <3> QED
      BY <3>2 DEF Program, HasFact
  <2>3. Quiets /\ UNCHANGED lock
    BY <1>4 DEF ResendReads, Quiets, history
  <2> HIDE DEF r
  <2> QED
    BY <2>1, <2>2, <2>3, LaunchKeeps DEF r, Programs
<1>5. ASSUME PrepareStarts(p) PROVE AgentInv'
  <2>1. PICK f \in Facts : Launch(p, "prepare", [Idle EXCEPT !.pc = "retain", !.item = f])
    BY <1>5 DEF PrepareStarts
  <2> DEFINE r == [Idle EXCEPT !.pc = "retain", !.item = f]
  <2>2. r \in Program /\ r.pc = "retain"
    BY DEF Program, Record, HasFact, Pcs, EventIds
  <2>3. Quiets /\ UNCHANGED lock
    BY <1>5 DEF PrepareStarts, Quiets, history
  <2> HIDE DEF r
  <2> QED
    BY <2>1, <2>2, <2>3, LaunchKeeps DEF r, Programs
<1> QED
  BY <1>1, <1>2, <1>3, <1>4, <1>5 DEF Starts

\* A process goes on to pc, with its fact if it needs one there.
LEMMA Moves ==
  ASSUME AgentInv, NEW p \in Procs, NEW pc \in Pcs,
         HasFact([proc[p] EXCEPT !.pc = pc]) => HasFact(proc[p])
  PROVE  [proc[p] EXCEPT !.pc = pc] \in Program
<1> DEFINE r == [proc[p] EXCEPT !.pc = pc]
<1>1. proc[p] \in Record /\ (HasFact(proc[p]) => proc[p].item \in Facts)
  BY DEF AgentInv, ProcTypes, Program
<1>2. r \in Record /\ r.item = proc[p].item
  BY <1>1 DEF Record
<1> HIDE DEF r
<1> QED
  BY <1>1, <1>2 DEF Program, r

\* A process goes on to pc, and nothing is asked of it there.
LEMMA GoesTo ==
  ASSUME AgentInv, NEW p \in Procs, NEW pc \in Pcs, GoTo(p, pc), Quiets,
         LockStep(p, [proc[p] EXCEPT !.pc = pc]), ~NeedsSender([proc[p] EXCEPT !.pc = pc]),
         HasFact([proc[p] EXCEPT !.pc = pc]) => HasFact(proc[p])
  PROVE  AgentInv'
BY Moves, FreeStep DEF GoTo, Become

\* What waits for the collection lock gets it, waits, or throws.
LEMMA Acquires ==
  ASSUME AgentInv, NEW p \in Procs, NEW pc \in Pcs, AcquireCollection(p, pc), Quiets,
         ~NeedsSender([proc[p] EXCEPT !.pc = pc]),
         HasFact([proc[p] EXCEPT !.pc = pc]) => HasFact(proc[p])
  PROVE  AgentInv'
<1>1. CASE Take(p, "collection") /\ GoTo(p, pc)
  <2>1. LockStep(p, [proc[p] EXCEPT !.pc = pc])
    BY <1>1, Takes DEF Locks
  <2> QED
    BY <1>1, <2>1, GoesTo
<1>2. CASE Stop(p)
  BY <1>2, QuietStop
<1> QED
  BY <1>1, <1>2 DEF AcquireCollection

----------------------------------------------------------------------------
(* Hooks and drains *)

LEMMA AfterDrainOK ==
  ASSUME AgentInv, NEW p \in Procs, Draining(proc[p])
  PROVE  /\ AfterDrain(p) \in Program /\ SenderOK(AfterDrain(p)) /\ BarrierOK(AfterDrain(p))
         /\ NeedsSender(AfterDrain(p)) => lock["sender"] = p
<1> DEFINE hook == [proc[p] EXCEPT !.pc = "look", !.queue = {}, !.row = NoRow]
           tick == [proc[p] EXCEPT !.pc = "upload", !.queue = {}, !.row = NoRow]
<1>1. proc[p] \in Program
  BY DEF AgentInv, ProcTypes
<1>2. /\ hook.pc = "look" /\ tick.pc = "upload" /\ tick \in Program
      /\ proc[p].program = "hook" => hook \in Program
  <2>1. NoRow \in [fact : Facts \cup {NoFact}, success : Outcomes] /\ {} \in SUBSET Facts
    BY DEF NoRow, NoFact, Outcomes
  <2>2. proc[p] \in Record /\ (HasFact(proc[p]) => proc[p].item \in Facts)
    BY <1>1 DEF Program
  <2>3. /\ hook \in Record /\ hook.pc = "look" /\ hook.program = proc[p].program /\ hook.item = proc[p].item
        /\ tick \in Record /\ tick.pc = "upload" /\ tick.program = proc[p].program /\ tick.item = proc[p].item
    BY <2>1, <2>2 DEF Record, Pcs
  <2> HIDE DEF hook, tick
  <2> QED
    BY <2>2, <2>3 DEF Program, HasFact
<1>4. CASE proc[p].program = "hook"
  <2>1. AfterDrain(p) = hook
    BY <1>4 DEF AfterDrain
  <2>2. ~NeedsSender(hook)
    BY <1>2 DEF NeedsSender, Sending, Draining
  <2> HIDE DEF hook
  <2> QED
    BY <1>2, <1>4, <2>1, <2>2, FreeOK
<1>5. CASE proc[p].program = "tick"
  <2>1. AfterDrain(p) = tick
    BY <1>5 DEF AfterDrain
  <2>2. lock["sender"] = p
    BY <1>5 DEF AgentInv, Exclusive, NeedsSender
  <2>3. SenderOK(tick) /\ BarrierOK(tick)
    BY <1>1, <1>2, <1>5 DEF SenderOK, BarrierOK, Sending, HasWire, Program, Record
  <2> HIDE DEF tick
  <2> QED
    BY <1>2, <2>1, <2>2, <2>3
<1>6. CASE proc[p].program \notin {"hook", "tick"}
  <2>1. AfterDrain(p) = Idle
    BY <1>6 DEF AfterDrain
  <2> QED
    BY <2>1, IdleOK
<1> QED
  BY <1>4, <1>5, <1>6

\* A drain is over: its collection lock goes, the sender lock of a tick stays.
LEMMA DrainEnds ==
  ASSUME AgentInv, NEW p \in Procs, Draining(proc[p]), Become(p, AfterDrain(p)), Quiets,
         UNCHANGED lock \/ Drop(p, {"collection"})
  PROVE  AgentInv'
<1>1. LockStep(p, AfterDrain(p))
  BY AfterDrainOK, Drops, Keeps
<1> QED
  BY <1>1, AfterDrainOK, QuietStep DEF Become

\* Within a drain.
LEMMA DrainGoesOn ==
  ASSUME AgentInv, NEW p \in Procs, Draining(proc[p]), NEW r \in Program, Draining(r),
         r.program = proc[p].program
  PROVE  SenderOK(r) /\ BarrierOK(r) /\ (NeedsSender(r) => lock["sender"] = p)
BY DEF AgentInv, Exclusive, NeedsSender, Draining, Sending, HasWire, SenderOK, BarrierOK

LEMMA HookLooksKeeps ==
  ASSUME AgentInv, NEW p \in Procs, HookLooks(p)
  PROVE  AgentInv'
<1>1. Quiets
  BY DEF HookLooks, Quiets, history
<1>2. CASE GoTo(p, "collect") /\ UNCHANGED lock
  <2> DEFINE r == [proc[p] EXCEPT !.pc = "collect"]
  <2>1. ~NeedsSender(r)
    BY DEF NeedsSender, Sending, Draining, AgentInv, ProcTypes, Program, Record
  <2>2. HasFact(proc[p])
    BY DEF HookLooks, At, HasFact
  <2> QED
    BY <1>1, <1>2, <2>1, <2>2, Keeps, GoesTo DEF Pcs
<1> QED
  BY <1>1, <1>2, QuietStop DEF HookLooks

LEMMA HookLocksKeeps ==
  ASSUME AgentInv, NEW p \in Procs, HookLocks(p)
  PROVE  AgentInv'
<1>1. Quiets
  BY DEF HookLocks, Quiets, history
<1>2. ~NeedsSender([proc[p] EXCEPT !.pc = "observe"])
  BY DEF NeedsSender, Sending, Draining, AgentInv, ProcTypes, Program, Record
<1>3. HasFact(proc[p])
  BY DEF HookLocks, At, HasFact
<1> QED
  BY <1>1, <1>2, <1>3, Acquires DEF HookLocks, Pcs

LEMMA DrainReadsKeeps ==
  ASSUME AgentInv, NEW p \in Procs, DrainReads(p)
  PROVE  AgentInv'
<1>1. Quiets /\ UNCHANGED lock /\ Draining(proc[p])
  BY DEF DrainReads, At, Quiets, history, Draining
<1>2. CASE Become(p, AfterDrain(p))
  BY <1>1, <1>2, DrainEnds
<1>3. CASE Become(p, [proc[p] EXCEPT !.pc = "drain-lock", !.queue = prepared])
  <2> DEFINE r == [proc[p] EXCEPT !.pc = "drain-lock", !.queue = prepared]
  <2>1. r \in Program /\ Draining(r) /\ r.program = proc[p].program
    <3>1. prepared \in SUBSET Facts /\ proc[p] \in Record /\ (HasFact(proc[p]) => proc[p].item \in Facts)
      BY DEF AgentInv, ProcTypes, Program, Globals, FileTypes
    <3>2. r \in Record /\ r.pc = "drain-lock" /\ r.program = proc[p].program /\ r.item = proc[p].item
      BY <3>1 DEF Record, Pcs
    <3> HIDE DEF r
    <3> QED
      BY <3>1, <3>2 DEF Program, HasFact, Draining
  <2> HIDE DEF r
  <2>2. SenderOK(r) /\ BarrierOK(r) /\ LockStep(p, r)
    BY <1>1, <2>1, DrainGoesOn, Keeps
  <2> QED
    BY <1>1, <1>3, <2>1, <2>2, QuietStep DEF Become, r
<1> QED
  BY <1>2, <1>3 DEF DrainReads

LEMMA DrainLocksKeeps ==
  ASSUME AgentInv, NEW p \in Procs, DrainLocks(p)
  PROVE  AgentInv'
<1> DEFINE r == [proc[p] EXCEPT !.pc = "drain-check"]
<1>1. Quiets /\ Draining(proc[p])
  BY DEF DrainLocks, At, Quiets, history, Draining
<1>2. r \in Program /\ Draining(r) /\ r.program = proc[p].program
  BY DEF AgentInv, ProcTypes, Program, Record, HasFact, Pcs, Draining
<1> HIDE DEF r
<1>3. SenderOK(r) /\ BarrierOK(r) /\ (NeedsSender(r) => lock["sender"] = p)
  BY <1>1, <1>2, DrainGoesOn
<1>4. CASE Take(p, "collection") /\ GoTo(p, "drain-check")
  <2>1. LockStep(p, r)
    BY <1>3, <1>4 DEF AgentInv, ProcTypes, Take, LockStep, Locks, Free
  <2> QED
    BY <1>1, <1>2, <1>3, <1>4, <2>1, QuietStep DEF GoTo, Become, r
<1>5. CASE Stop(p)
  BY <1>1, <1>5, QuietStop
<1> QED
  BY <1>4, <1>5 DEF DrainLocks, AcquireCollection

LEMMA DrainChecksKeeps ==
  ASSUME AgentInv, NEW p \in Procs, DrainChecks(p)
  PROVE  AgentInv'
<1> DEFINE r == [proc[p] EXCEPT !.pc = "drain-record"]
<1>1. Quiets /\ Draining(proc[p])
  BY DEF DrainChecks, At, Quiets, history, Draining
<1>2. CASE Become(p, AfterDrain(p)) /\ Drop(p, {"collection"})
  BY <1>1, <1>2, DrainEnds
<1>3. CASE Stop(p)
  BY <1>1, <1>3, QuietStop
<1>4. CASE GoTo(p, "drain-record") /\ UNCHANGED lock
  <2>1. r \in Program /\ Draining(r) /\ r.program = proc[p].program
    BY DEF AgentInv, ProcTypes, Program, Record, HasFact, Pcs, Draining
  <2> HIDE DEF r
  <2>2. SenderOK(r) /\ BarrierOK(r) /\ LockStep(p, r)
    BY <1>1, <1>4, <2>1, DrainGoesOn, Keeps
  <2> QED
    BY <1>1, <1>4, <2>1, <2>2, QuietStep DEF GoTo, Become, r
<1> QED
  BY <1>2, <1>3, <1>4 DEF DrainChecks

----------------------------------------------------------------------------
(* What the store does with a row *)

\* The rows stay rows, and signed bytes keep their outcome.
RowsOK(E) ==
  /\ DOMAIN E \subseteq Facts /\ E \in [DOMAIN E -> EventRow]
  /\ \A f \in DOMAIN E : E[f].wire # NoWire => E[f].wire.success = E[f].success

LEMMA ObservedOK ==
  ASSUME RowsOK(events), NEW f \in Facts, NEW outcome \in Outcomes
  PROVE  RowsOK(Observed(f, outcome))
<1> DEFINE new == [g \in DOMAIN events \cup {f} |->
                     IF g = f THEN [success |-> outcome, wire |-> NoWire, delivery |-> "none"]
                     ELSE events[g]]
           known == [events EXCEPT ![f].success = outcome]
<1>1. CASE f \notin DOMAIN events
  <2>1. RowsOK(new)
    BY <1>1 DEF RowsOK, EventRow, Wire, NoWire, Deliveries, Outcomes
  <2> QED
    BY <1>1, <2>1 DEF Observed
<1>2. CASE f \in DOMAIN events /\ events[f].success = "unknown" /\ events[f].wire = NoWire
  <2>1. DOMAIN known = DOMAIN events /\ \A g \in DOMAIN events :
          known[g] = IF g = f THEN [events[f] EXCEPT !.success = outcome] ELSE events[g]
    BY <1>2
  <2>2. [events[f] EXCEPT !.success = outcome] \in EventRow
    BY <1>2 DEF RowsOK, EventRow
  <2>3. known \in [DOMAIN events -> EventRow]
    BY <1>2, <2>2 DEF RowsOK
  <2> HIDE DEF known
  <2>4. RowsOK(known)
    BY <1>2, <2>1, <2>3 DEF RowsOK, EventRow
  <2> QED
    BY <1>2, <2>4 DEF Observed, known
<1>3. CASE f \in DOMAIN events /\ ~(events[f].success = "unknown" /\ events[f].wire = NoWire)
  BY <1>3 DEF Observed
<1> QED
  BY <1>1, <1>2, <1>3

LEMMA MarkOK ==
  ASSUME RowsOK(events), install \in [gen : Nat, delivery : Deliveries],
         NEW e, NEW delivery \in Deliveries, Mark(e, delivery)
  PROVE  /\ RowsOK(events') /\ install' \in [gen : Nat, delivery : Deliveries]
         /\ install'.gen \in {0, install.gen}
<1>1. RowsOK(events')
  <2>1. CASE e \in DOMAIN events
    <3>1. DOMAIN events' = DOMAIN events /\ \A g \in DOMAIN events :
            events'[g] = IF g = e THEN [events[e] EXCEPT !.delivery = delivery] ELSE events[g]
      BY <2>1 DEF Mark
    <3>2. [events[e] EXCEPT !.delivery = delivery] \in EventRow
      BY <2>1 DEF RowsOK, EventRow
    <3>3. events' \in [DOMAIN events -> EventRow]
      BY <2>1, <3>2 DEF Mark, RowsOK
    <3> QED
      BY <2>1, <3>1, <3>3 DEF RowsOK, EventRow
  <2>2. CASE e \notin DOMAIN events
    BY <2>2 DEF Mark
  <2> QED
    BY <2>1, <2>2
<1>2. install' \in [gen : Nat, delivery : Deliveries] /\ install'.gen \in {0, install.gen}
  BY DEF Mark
<1> QED
  BY <1>1, <1>2

\* What a step of the files must show of the rest.
FilesOK ==
  /\ install \in [gen : Nat, delivery : Deliveries]
  /\ prepared \subseteq Facts /\ inflight \subseteq EventIds

LEMMA FileParts ==
  ASSUME AgentInv
  PROVE  RowsOK(events) /\ FilesOK
BY DEF AgentInv, Globals, FileTypes, RowsOK, FilesOK, SignedOutcomeKept

\* Rows are written, and the install event's bytes stay or go: nothing that is
\* open, and no other process, is affected.
LEMMA RowsStep ==
  ASSUME AgentInv, NEW p \in Procs, NEW r \in Program, proc' = [proc EXCEPT ![p] = r],
         LockStep(p, r), UNCHANGED <<core, withdrawal, server, inflight, open>>,
         RowsOK(events'), install' \in [gen : Nat, delivery : Deliveries],
         install'.gen \in {0, install.gen}, prepared' \subseteq Facts,
         SenderOK(r), BarrierOK(r)
  PROVE  AgentInv'
<1>1. Others(p)
  BY DEF Others
<1>2. Globals'
  <2>1. CoreTypes' /\ ServerOK' /\ WithdrawalOK'
    BY DEF AgentInv, Globals, CoreTypes, ServerOK, WithdrawalOK
  <2>2. FileTypes' /\ SignedOutcomeKept'
    BY DEF AgentInv, Globals, FileTypes, RowsOK, SignedOutcomeKept
  <2>3. GensOK' /\ OpenOK'
    <3>1. install.gen \in Nat /\ core.gen \in Nat
      BY DEF AgentInv, Globals, FileTypes, CoreTypes
    <3> QED
      BY <3>1 DEF AgentInv, Globals, GensOK, OpenOK
  <2> QED
    BY <2>1, <2>2, <2>3 DEF Globals
<1>3. SenderOK(r)' /\ BarrierOK(r)'
  BY DEF SenderOK, BarrierOK
<1> QED
  BY <1>1, <1>2, <1>3, Step

LEMMA RowsStop ==
  ASSUME AgentInv, NEW p \in Procs, Stop(p),
         UNCHANGED <<core, withdrawal, server, inflight, open>>,
         RowsOK(events'), install' \in [gen : Nat, delivery : Deliveries],
         install'.gen \in {0, install.gen}, prepared' \subseteq Facts
  PROVE  AgentInv'
BY Stops, IdleOK, RowsStep

LEMMA HookObservesKeeps ==
  ASSUME AgentInv, NEW p \in Procs, HookObserves(p)
  PROVE  AgentInv'
<1>1. RowsOK(events) /\ FilesOK
  BY FileParts
<1>2. proc[p].outcome \in Outcomes /\ proc[p].item \in Facts
  BY DEF HookObserves, At, AgentInv, ProcTypes, Program, Record, HasFact
<1>3. RowsOK(events')
  BY <1>1, <1>2, ObservedOK DEF HookObserves
<1>4. Stop(p) /\ UNCHANGED <<core, install, prepared, withdrawal, server, inflight, open>>
  BY DEF HookObserves, history
<1> QED
  BY <1>1, <1>3, <1>4, RowsStop DEF FilesOK

\* Where a drain goes on, with this queue and this row.
LEMMA DrainMoves ==
  ASSUME AgentInv, NEW p \in Procs, Draining(proc[p]),
         NEW pc \in {"drain-lock", "drain-check", "drain-record", "drain-remove"},
         NEW queue \in SUBSET Facts, NEW row \in [fact : Facts \cup {NoFact}, success : Outcomes]
  PROVE  LET r == [proc[p] EXCEPT !.pc = pc, !.queue = queue, !.row = row] IN
         /\ r \in Program /\ SenderOK(r) /\ BarrierOK(r)
         /\ NeedsSender(r) => lock["sender"] = p
<1> DEFINE r == [proc[p] EXCEPT !.pc = pc, !.queue = queue, !.row = row]
<1>1. proc[p] \in Record /\ (HasFact(proc[p]) => proc[p].item \in Facts)
  BY DEF AgentInv, ProcTypes, Program
<1>2. r \in Record /\ r.pc = pc /\ r.program = proc[p].program /\ r.item = proc[p].item
  BY <1>1, ZenonT(60) DEF Record, Pcs
<1> HIDE DEF r
<1>3. r \in Program /\ Draining(r)
  BY <1>1, <1>2 DEF Program, HasFact, Draining
<1>4. SenderOK(r) /\ BarrierOK(r) /\ (NeedsSender(r) => lock["sender"] = p)
  BY <1>2, <1>3, DrainGoesOn
<1> QED
  BY <1>3, <1>4 DEF r

LEMMA DrainRecordsKeeps ==
  ASSUME AgentInv, NEW p \in Procs, DrainRecords(p)
  PROVE  AgentInv'
<1>1. proc[p] \in Record /\ Draining(proc[p])
  BY DEF AgentInv, ProcTypes, Program, DrainRecords, At, Draining
<1>2. PICK f \in proc[p].queue :
        /\ events' = Observed(f, "unknown")
        /\ Become(p, [proc[p] EXCEPT !.pc = "drain-remove", !.row = [fact |-> f, success |-> "unknown"]])
  BY DEF DrainRecords
<1> DEFINE row == [fact |-> f, success |-> "unknown"]
           r == [proc[p] EXCEPT !.pc = "drain-remove", !.queue = proc[p].queue, !.row = row]
<1>3. f \in Facts /\ proc[p].queue \in SUBSET Facts /\ row \in [fact : Facts \cup {NoFact}, success : Outcomes]
  BY <1>1 DEF Record, Outcomes
<1>4. r \in Program /\ SenderOK(r) /\ BarrierOK(r) /\ (NeedsSender(r) => lock["sender"] = p)
  BY <1>1, <1>3, DrainMoves
<1>5. proc' = [proc EXCEPT ![p] = r]
  BY <1>1, <1>2 DEF Become, Record
<1> HIDE DEF r, row
<1>6. LockStep(p, r)
  BY <1>4, Keeps DEF DrainRecords
<1>7. RowsOK(events')
  BY <1>2, <1>3, FileParts, ObservedOK DEF Outcomes
<1>8. UNCHANGED <<core, install, prepared, withdrawal, server, inflight, open>>
  BY DEF DrainRecords, history
<1> QED
  BY <1>4, <1>5, <1>6, <1>7, <1>8, FileParts, RowsStep DEF FilesOK

LEMMA DrainRemovesKeeps ==
  ASSUME AgentInv, NEW p \in Procs, DrainRemoves(p)
  PROVE  AgentInv'
<1> DEFINE rest == proc[p].queue \ {proc[p].row.fact}
           r == [proc[p] EXCEPT !.pc = "drain-record", !.queue = rest, !.row = proc[p].row]
<1>1. proc[p] \in Record /\ Draining(proc[p])
  BY DEF AgentInv, ProcTypes, Program, DrainRemoves, At, Draining
<1>2. /\ UNCHANGED <<core, events, install, withdrawal, server, inflight, open>>
      /\ prepared' = prepared \ {proc[p].row.fact}
  BY DEF DrainRemoves, history
<1>3. RowsOK(events') /\ FilesOK'
  BY <1>2, FileParts DEF FilesOK, RowsOK
<1>4. CASE Become(p, AfterDrain(p)) /\ Drop(p, {"collection"})
  <2>1. LockStep(p, AfterDrain(p))
    BY <1>1, <1>4, AfterDrainOK, Drops
  <2> QED
    BY <1>1, <1>2, <1>3, <1>4, <2>1, AfterDrainOK, RowsStep DEF Become, FilesOK, AgentInv, Globals, FileTypes
<1>5. CASE Become(p, [proc[p] EXCEPT !.pc = "drain-record", !.queue = rest]) /\ UNCHANGED lock
  <2>1. rest \in SUBSET Facts /\ proc[p].row \in [fact : Facts \cup {NoFact}, success : Outcomes]
    BY <1>1 DEF Record
  <2>2. r \in Program /\ SenderOK(r) /\ BarrierOK(r) /\ (NeedsSender(r) => lock["sender"] = p)
    BY <1>1, <2>1, DrainMoves
  <2>3. proc' = [proc EXCEPT ![p] = r]
    BY <1>1, <1>5 DEF Become, Record
  <2> HIDE DEF r
  <2>4. LockStep(p, r)
    BY <1>5, <2>2, Keeps
  <2> QED
    BY <1>2, <1>3, <2>2, <2>3, <2>4, RowsStep DEF FilesOK, AgentInv, Globals, FileTypes
<1> QED
  BY <1>4, <1>5 DEF DrainRemoves

LEMMA PrepareRetainsKeeps ==
  ASSUME AgentInv, NEW p \in Procs, PrepareRetains(p)
  PROVE  AgentInv'
<1>1. proc[p].item \in Facts
  BY DEF PrepareRetains, At, AgentInv, ProcTypes, Program, HasFact
<1>2. Stop(p) /\ UNCHANGED <<core, events, install, withdrawal, server, inflight, open>>
  BY DEF PrepareRetains, history
<1>3. RowsOK(events') /\ FilesOK'
  BY <1>1, <1>2, FileParts DEF FilesOK, RowsOK, PrepareRetains
<1> QED
  BY <1>2, <1>3, FileParts, RowsStop DEF FilesOK

----------------------------------------------------------------------------
(* The sender *)

\* Whoever sends has the lock, and its consent stands.
LEMMA Holds ==
  ASSUME AgentInv, NEW p \in Procs, NeedsSender(proc[p])
  PROVE  /\ lock["sender"] = p /\ Others(p) /\ SenderOK(proc[p]) /\ BarrierOK(proc[p])
         /\ proc[p] \in Record /\ (HasFact(proc[p]) => proc[p].item \in Facts)
         /\ core.gen \in Nat /\ install.gen \in Nat
BY DEF AgentInv, Exclusive, ProcsOK, ProcTypes, Program, Others, Globals, CoreTypes, FileTypes

LEMMA TickEnabledKeeps ==
  ASSUME AgentInv, NEW p \in Procs, TickEnabled(p)
  PROVE  AgentInv'
<1> DEFINE r == [proc[p] EXCEPT !.pc = "drain"]
<1>1. Quiets
  BY DEF TickEnabled, Quiets, history
<1>2. CASE Take(p, "sender") /\ GoTo(p, "drain")
  <2>1. r \in Program /\ r.pc = "drain"
    <3>1. proc[p] \in Record
      BY DEF AgentInv, ProcTypes, Program
    <3>2. r.pc = "drain" /\ r.program = proc[p].program
      BY <3>1 DEF Record
    <3>3. HasFact(r) => HasFact(proc[p])
      BY <3>2 DEF HasFact
    <3> QED
      BY <3>2, <3>3, Moves DEF Pcs
  <2> HIDE DEF r
  <2>2. SenderOK(r) /\ BarrierOK(r)
    BY <2>1 DEF SenderOK, BarrierOK, Sending, HasWire
  <2>3. LockStep(p, r)
    BY <1>2, Takes DEF Locks
  <2> QED
    BY <1>1, <1>2, <2>1, <2>2, <2>3, QuietStep DEF GoTo, Become, r
<1> QED
  BY <1>1, <1>2, QuietStop DEF TickEnabled

LEMMA TickUploadsKeeps ==
  ASSUME AgentInv, NEW p \in Procs, TickUploads(p)
  PROVE  AgentInv'
<1>1. Quiets /\ NeedsSender(proc[p])
  BY DEF TickUploads, At, Quiets, history, NeedsSender
<1>2. CASE /\ core.consent = "granted" /\ UNCHANGED lock
           /\ \E f \in DOMAIN events :
               Become(p, [proc[p] EXCEPT
                 !.pc = "next", !.gen = core.gen, !.queue = Unsent,
                 !.row = [fact |-> f, success |-> events[f].success]])
  <2>1. PICK f \in DOMAIN events :
          Become(p, [proc[p] EXCEPT !.pc = "next", !.gen = core.gen, !.queue = Unsent,
                                    !.row = [fact |-> f, success |-> events[f].success]])
    BY <1>2
  <2> DEFINE row == [fact |-> f, success |-> events[f].success]
             r == [proc[p] EXCEPT !.pc = "next", !.gen = core.gen, !.queue = Unsent, !.row = row]
  <2>2. Unsent \in SUBSET Facts /\ row \in [fact : Facts \cup {NoFact}, success : Outcomes]
    BY DEF Unsent, AgentInv, Globals, FileTypes, EventRow
  <2>3. r \in Record /\ r.pc = "next" /\ r.gen = core.gen /\ r.item = proc[p].item /\ r.program = proc[p].program
    <3>1. proc[p] \in Record /\ core.gen \in Nat
      BY <1>1, Holds
    <3> QED
      BY <2>2, <3>1 DEF Record, Pcs
  <2> HIDE DEF r, row
  <2>4. r \in Program
    BY <1>1, <2>3, Holds DEF Program, HasFact
  <2>7. proc[p].program = "tick"
    BY <1>1, Holds DEF SenderOK, TickUploads, At
  <2>5. SenderOK(r) /\ BarrierOK(r)
    BY <1>2, <2>3, <2>7 DEF SenderOK, BarrierOK, HasWire, AgentInv, Globals, GensOK
  <2>6. LockStep(p, r)
    BY <1>1, <1>2, Holds, Keeps
  <2> QED
    BY <1>1, <2>1, <2>4, <2>5, <2>6, QuietStep DEF Become, r, row
<1> QED
  BY <1>1, <1>2, QuietStop DEF TickUploads

\* The sender goes on with an event, to sign it or to send it.
LEMMA SendsOn ==
  ASSUME AgentInv, NEW p \in Procs, Sending(proc[p]),
         NEW pc \in {"freeze", "sign"}, NEW e \in EventIds, NEW outcome \in Outcomes,
         NEW wire \in Nat, NEW queue \in SUBSET Facts,
         pc = "sign" /\ e # Install => wire = proc[p].gen,
         pc = "sign" /\ e = Install =>
           /\ wire >= 1 /\ wire <= proc[p].gen /\ install.gen \in {0, wire}
           /\ \A x \in open : x.event = Install => x.gen <= wire
  PROVE  LET r == [proc[p] EXCEPT !.pc = pc, !.item = e, !.outcome = outcome, !.wire = wire, !.queue = queue] IN
         r \in Program /\ SenderOK(r) /\ BarrierOK(r)
<1> DEFINE r == [proc[p] EXCEPT !.pc = pc, !.item = e, !.outcome = outcome, !.wire = wire, !.queue = queue]
<1>1. NeedsSender(proc[p])
  BY DEF NeedsSender
<1>2. /\ r \in Record /\ r.pc = pc /\ r.program = proc[p].program /\ r.item = e /\ r.wire = wire
      /\ r.gen = proc[p].gen
  <2>1. proc[p] \in Record
    BY <1>1, Holds
  <2> QED
    BY <2>1 DEF Record, Pcs
<1> HIDE DEF r
<1>4. SenderOK(proc[p])
  BY <1>1, Holds
<1>3. r \in Program
  BY <1>2, <1>4 DEF Program, HasFact, SenderOK
<1>5. SenderOK(r) /\ BarrierOK(r)
  BY <1>2, <1>4 DEF SenderOK, BarrierOK, HasWire, Sending
<1> QED
  BY <1>3, <1>5 DEF r

LEMMA NextRowKeeps ==
  ASSUME AgentInv, NEW p \in Procs, NextRow(p)
  PROVE  AgentInv'
<1>1. Quiets /\ Sending(proc[p]) /\ proc[p].pc = "next" /\ NeedsSender(proc[p])
  BY DEF NextRow, At, Quiets, history, Sending, NeedsSender
<1>2. proc[p] \in Record /\ proc[p].gen \in Nat
  BY <1>1, Holds DEF Record
<1>3. PICK f \in proc[p].queue :
        \/ Stop(p)
        \/ f \in DOMAIN events /\ UNCHANGED lock
           /\ (Signs(p, f, events[f].success) \/ Sends(p, f, proc[p].gen))
  BY DEF NextRow
<1> DEFINE queue == proc[p].queue \ {f}
<1>4. f \in Facts /\ f \in EventIds /\ f # Install /\ queue \in SUBSET Facts
  BY <1>2 DEF Record, EventIds
<1> HIDE DEF queue
<1>5. ASSUME NEW pc \in {"freeze", "sign"}, NEW outcome \in Outcomes, NEW wire \in Nat,
             pc = "sign" => wire = proc[p].gen, UNCHANGED lock,
             Become(p, [proc[p] EXCEPT !.pc = pc, !.item = f, !.outcome = outcome, !.wire = wire,
                                       !.queue = queue])
      PROVE  AgentInv'
  <2> DEFINE r == [proc[p] EXCEPT !.pc = pc, !.item = f, !.outcome = outcome, !.wire = wire,
                                  !.queue = queue]
  <2>1. r \in Program /\ SenderOK(r) /\ BarrierOK(r)
    <3>1. ~(pc = "sign" /\ f = Install)
      BY <1>4
    <3> QED
      BY <1>1, <1>4, <1>5, <3>1, SendsOn
  <2> HIDE DEF r
  <2>2. LockStep(p, r)
    BY <1>1, <1>5, Holds, Keeps
  <2> QED
    BY <1>1, <1>5, <2>1, <2>2, QuietStep DEF Become, r
<1>6. CASE f \in DOMAIN events /\ UNCHANGED lock /\ Signs(p, f, events[f].success)
  <2>1. events[f].success \in Outcomes /\ proc[p].wire \in Nat
    BY <1>2, <1>6 DEF AgentInv, Globals, FileTypes, EventRow, Record
  <2>2. Become(p, [proc[p] EXCEPT !.pc = "freeze", !.item = f, !.outcome = events[f].success,
                                  !.wire = proc[p].wire, !.queue = queue])
    BY <1>2, <1>6 DEF Signs, Become, Record, queue
  <2> QED
    BY <1>5, <1>6, <2>1, <2>2
<1>7. CASE UNCHANGED lock /\ Sends(p, f, proc[p].gen)
  <2>1. proc[p].outcome \in Outcomes
    BY <1>2 DEF Record
  <2>2. Become(p, [proc[p] EXCEPT !.pc = "sign", !.item = f, !.outcome = proc[p].outcome,
                                  !.wire = proc[p].gen, !.queue = queue])
    BY <1>2, <1>7 DEF Sends, Become, Record, queue
  <2> QED
    BY <1>2, <1>5, <1>7, <2>1, <2>2
<1> QED
  BY <1>1, <1>3, <1>6, <1>7, QuietStop

LEMMA NextInstallKeeps ==
  ASSUME AgentInv, NEW p \in Procs, NextInstall(p)
  PROVE  AgentInv'
<1>1. Quiets /\ Sending(proc[p]) /\ proc[p].pc = "next" /\ NeedsSender(proc[p])
  BY DEF NextInstall, At, Quiets, history, Sending, NeedsSender
<1>2. /\ proc[p] \in Record /\ proc[p].gen = core.gen /\ SenderOK(proc[p]) /\ core.gen \in Nat
      /\ install.gen \in Nat
  BY <1>1, Holds DEF SenderOK
<1>3. Install \in EventIds /\ proc[p].queue \ {Install} \in SUBSET Facts
  BY <1>2 DEF Record, EventIds
<1>4. ASSUME NEW pc \in {"freeze", "sign"}, NEW outcome \in Outcomes, NEW wire \in Nat,
             pc = "sign" => wire = install.gen /\ wire # 0, UNCHANGED lock,
             Become(p, [proc[p] EXCEPT !.pc = pc, !.item = Install, !.outcome = outcome, !.wire = wire,
                                       !.queue = proc[p].queue \ {Install}])
      PROVE  AgentInv'
  <2> DEFINE r == [proc[p] EXCEPT !.pc = pc, !.item = Install, !.outcome = outcome, !.wire = wire,
                                  !.queue = proc[p].queue \ {Install}]
  <2>1. pc = "sign" => /\ wire >= 1 /\ wire <= proc[p].gen /\ install.gen \in {0, wire}
                       /\ \A x \in open : x.event = Install => x.gen <= wire
    BY <1>2, <1>4 DEF AgentInv, Globals, OpenOK, GensOK
  <2>2. r \in Program /\ SenderOK(r) /\ BarrierOK(r)
    BY <1>1, <1>2, <1>3, <1>4, <2>1, SendsOn, ZenonT(60)
  <2> HIDE DEF r
  <2>3. LockStep(p, r)
    BY <1>1, <1>4, Holds, Keeps
  <2> QED
    BY <1>1, <1>4, <2>2, <2>3, QuietStep DEF Become, r
<1>5. CASE UNCHANGED lock /\ Signs(p, Install, proc[p].row.success)
  <2>1. proc[p].row.success \in Outcomes /\ proc[p].wire \in Nat
    BY <1>2 DEF Record
  <2>2. Become(p, [proc[p] EXCEPT !.pc = "freeze", !.item = Install, !.outcome = proc[p].row.success,
                                  !.wire = proc[p].wire, !.queue = proc[p].queue \ {Install}])
    BY <1>2, <1>5 DEF Signs, Become, Record
  <2> QED
    BY <1>4, <1>5, <2>1, <2>2
<1>6. CASE UNCHANGED lock /\ install.gen # 0 /\ Sends(p, Install, install.gen)
  <2>1. proc[p].outcome \in Outcomes
    BY <1>2 DEF Record
  <2>2. Become(p, [proc[p] EXCEPT !.pc = "sign", !.item = Install, !.outcome = proc[p].outcome,
                                  !.wire = install.gen, !.queue = proc[p].queue \ {Install}])
    BY <1>2, <1>6 DEF Sends, Become, Record
  <2> QED
    BY <1>2, <1>4, <1>6, <2>1, <2>2
<1> QED
  BY <1>1, <1>5, <1>6, QuietStop DEF NextInstall

\* The wire is frozen for the row that was picked.
LEMMA FreezeKeeps ==
  ASSUME AgentInv, NEW p \in Procs, Freeze(p)
  PROVE  AgentInv'
<1> DEFINE f == proc[p].item
           gen == proc[p].gen
           r == [proc[p] EXCEPT !.pc = "sign", !.wire = gen]
<1>1. /\ NeedsSender(proc[p]) /\ Sending(proc[p]) /\ proc[p].pc = "freeze"
      /\ UNCHANGED <<core, prepared, inflight, withdrawal, server, open>>
  BY DEF Freeze, At, NeedsSender, Sending, history
<1>2. /\ proc[p] \in Record /\ lock["sender"] = p /\ Others(p) /\ SenderOK(proc[p])
      /\ core.gen \in Nat /\ install.gen \in Nat
  BY <1>1, Holds
<1>3. gen = core.gen /\ gen >= 1 /\ gen \in Nat /\ f \in EventIds
  BY <1>1, <1>2 DEF SenderOK
<1>4. CASE Stop(p) /\ UNCHANGED <<events, install>>
  BY <1>1, <1>4, FileParts, RowsStop DEF FilesOK, AgentInv, Globals, FileTypes
<1>5. CASE SignedRow(p) \in DOMAIN events /\ events[SignedRow(p)].success = proc[p].outcome /\ FreezeAs(p)
  <2>1. proc' = [proc EXCEPT ![p] = r] /\ UNCHANGED lock
    BY <1>5 DEF FreezeAs, Become
  <2>2. r \in Record /\ r.pc = "sign" /\ r.item = f /\ r.wire = gen /\ r.gen = gen /\ r.program = proc[p].program
    BY <1>2, <1>3, ZenonT(60) DEF Record, Pcs
  <2> HIDE DEF r
  <2>3. r \in Program
    BY <1>1, <1>2, <2>2 DEF Program, HasFact, SenderOK
  <2>4. LockStep(p, r)
    BY <1>2, <2>1, Keeps
  <2>5. CASE f = Install
    <3>1. install' = [gen |-> gen, delivery |-> "none"] /\ UNCHANGED events
      BY <1>5, <2>5 DEF FreezeAs
    <3>2. Globals'
      <4>1. FileTypes' /\ CoreTypes'
        BY <1>1, <1>3, <3>1 DEF AgentInv, Globals, FileTypes, CoreTypes, Deliveries
      <4>2. GensOK' /\ OpenOK'
        BY <1>1, <1>2, <1>3, <3>1 DEF AgentInv, Globals, GensOK, OpenOK
      <4>3. ServerOK' /\ WithdrawalOK' /\ SignedOutcomeKept'
        BY <1>1, <3>1 DEF AgentInv, Globals, ServerOK, WithdrawalOK, SignedOutcomeKept
      <4> QED
        BY <4>1, <4>2, <4>3 DEF Globals
    <3>3. PICK s : s = r
      OBVIOUS
    <3>4. SenderOK(s)' /\ BarrierOK(s)'
      <4>1. \A x \in open : x.gen <= gen
        BY <1>3 DEF AgentInv, Globals, OpenOK
      <4> QED
        BY <1>1, <1>2, <1>3, <2>2, <2>5, <3>1, <3>3, <4>1 DEF SenderOK, BarrierOK, Sending, HasWire
    <3> QED
      BY <1>2, <2>1, <2>3, <2>4, <3>2, <3>3, <3>4, Step
  <2>6. CASE f # Install
    <3> DEFINE wire == [gen |-> gen, success |-> proc[p].outcome]
    <3>1. /\ f \in DOMAIN events /\ events[f].success = proc[p].outcome
          /\ events' = [events EXCEPT ![f].wire = wire] /\ UNCHANGED install
      BY <1>5, <2>6 DEF FreezeAs, SignedRow
    <3>2. RowsOK(events')
      <4>1. wire \in Wire /\ wire.success = events[f].success
        BY <1>2, <1>3, <3>1 DEF Wire, Record
      <4> HIDE DEF wire
      <4>2. /\ DOMAIN events' = DOMAIN events
            /\ \A g \in DOMAIN events :
                 events'[g] = IF g = f THEN [events[f] EXCEPT !.wire = wire] ELSE events[g]
        BY <3>1
      <4>3. [events[f] EXCEPT !.wire = wire] \in EventRow
        BY <3>1, <4>1, FileParts DEF RowsOK, EventRow
      <4>4. events' \in [DOMAIN events -> EventRow]
        BY <3>1, <4>3, FileParts DEF RowsOK
      <4> QED
        BY <3>1, <4>1, <4>2, <4>4, FileParts DEF RowsOK, EventRow
    <3>3. SenderOK(r) /\ BarrierOK(r)
      BY <1>1, <1>2, <1>3, <2>2, <2>6 DEF SenderOK, BarrierOK, Sending, HasWire
    <3> QED
      BY <1>1, <2>1, <2>3, <2>4, <3>1, <3>2, <3>3, FileParts, RowsStep DEF FilesOK
  <2> QED
    BY <2>5, <2>6
<1> QED
  BY <1>4, <1>5 DEF Freeze

\* The event is signed, or marked: the same consent, one step further.
LEMMA SendsFurther ==
  ASSUME AgentInv, NEW p \in Procs, proc[p].pc \in {"sign", "mark"}, NEW pc \in {"mark", "flight"}
  PROVE  LET r == [proc[p] EXCEPT !.pc = pc] IN
         r \in Program /\ SenderOK(r) /\ BarrierOK(r)
<1> DEFINE r == [proc[p] EXCEPT !.pc = pc]
<1>1. NeedsSender(proc[p])
  BY DEF NeedsSender, Sending
<1>2. proc[p] \in Record /\ SenderOK(proc[p])
  BY <1>1, Holds
<1>3. /\ r \in Record /\ r.pc = pc /\ r.program = proc[p].program /\ r.item = proc[p].item
      /\ r.wire = proc[p].wire /\ r.gen = proc[p].gen
  BY <1>2 DEF Record, Pcs
<1> HIDE DEF r
<1>4. r \in Program /\ SenderOK(r) /\ BarrierOK(r)
  BY <1>2, <1>3 DEF Program, HasFact, SenderOK, BarrierOK, Sending, HasWire
<1> QED
  BY <1>4 DEF r

LEMMA SignKeeps ==
  ASSUME AgentInv, NEW p \in Procs, Sign(p)
  PROVE  AgentInv'
<1>1. Quiets /\ proc[p].pc = "sign" /\ NeedsSender(proc[p])
  BY DEF Sign, At, Quiets, history, NeedsSender, Sending
<1>2. CASE GoTo(p, "mark") /\ UNCHANGED lock
  <2> DEFINE r == [proc[p] EXCEPT !.pc = "mark"]
  <2>1. r \in Program /\ SenderOK(r) /\ BarrierOK(r)
    BY <1>1, SendsFurther
  <2> HIDE DEF r
  <2>2. LockStep(p, r)
    BY <1>1, <1>2, Holds, Keeps
  <2> QED
    BY <1>1, <1>2, <2>1, <2>2, QuietStep DEF GoTo, Become, r
<1> QED
  BY <1>1, <1>2, QuietStop DEF Sign

LEMMA MarkUnconfirmedKeeps ==
  ASSUME AgentInv, NEW p \in Procs, MarkUnconfirmed(p)
  PROVE  AgentInv'
<1>1. /\ proc[p].pc = "mark" /\ NeedsSender(proc[p])
      /\ UNCHANGED <<core, prepared, inflight, withdrawal, server, open>>
  BY DEF MarkUnconfirmed, At, NeedsSender, Sending, history
<1>2. CASE Mark(proc[p].item, "unconfirmed") /\ GoTo(p, "flight") /\ UNCHANGED lock
  <2> DEFINE r == [proc[p] EXCEPT !.pc = "flight"]
  <2>1. r \in Program /\ SenderOK(r) /\ BarrierOK(r)
    BY <1>1, SendsFurther
  <2>2. proc' = [proc EXCEPT ![p] = r]
    BY <1>2 DEF GoTo, Become
  <2> HIDE DEF r
  <2>3. LockStep(p, r)
    BY <1>1, <1>2, Holds, Keeps
  <2>4. RowsOK(events') /\ install' \in [gen : Nat, delivery : Deliveries] /\ install'.gen \in {0, install.gen}
    BY <1>2, FileParts, MarkOK DEF FilesOK, Deliveries
  <2> QED
    BY <1>1, <2>1, <2>2, <2>3, <2>4, FileParts, RowsStep DEF FilesOK
<1>3. CASE Stop(p) /\ UNCHANGED <<events, install>>
  BY <1>1, <1>3, FileParts, RowsStop DEF FilesOK, AgentInv, Globals, FileTypes
<1> QED
  BY <1>2, <1>3 DEF MarkUnconfirmed

LEMMA WriteMarkerKeeps ==
  ASSUME AgentInv, NEW p \in Procs, WriteMarker(p)
  PROVE  AgentInv'
<1>1. /\ proc[p].pc = "flight" /\ NeedsSender(proc[p])
      /\ UNCHANGED <<core, events, install, prepared, withdrawal, lock, server, open>>
      /\ inflight' = inflight \cup {proc[p].item} /\ GoTo(p, "post")
  BY DEF WriteMarker, At, NeedsSender, Sending, local, history
<1>2. lock["sender"] = p /\ Others(p) /\ SenderOK(proc[p]) /\ proc[p] \in Record
  BY <1>1, Holds
<1>3. PICK r : r = [proc[p] EXCEPT !.pc = "post"]
  OBVIOUS
<1>4. /\ r \in Record /\ r.pc = "post" /\ r.program = proc[p].program /\ r.item = proc[p].item
      /\ r.wire = proc[p].wire /\ r.gen = proc[p].gen /\ r.item \in EventIds
  BY <1>1, <1>2, <1>3 DEF Record, Pcs, SenderOK, HasWire
<1>5. r \in Program
  BY <1>1, <1>2, <1>4 DEF Program, HasFact, SenderOK, Sending
<1>6. SenderOK(r)' /\ BarrierOK(r)'
  BY <1>1, <1>2, <1>4 DEF SenderOK, BarrierOK, Sending, HasWire
<1>7. Globals'
  BY <1>1, <1>4 DEF AgentInv, Globals, CoreTypes, FileTypes, GensOK, OpenOK, ServerOK, WithdrawalOK,
                    SignedOutcomeKept
<1>8. LockStep(p, r) /\ proc' = [proc EXCEPT ![p] = r]
  BY <1>1, <1>2, <1>3, Keeps DEF GoTo, Become
<1> QED
  BY <1>2, <1>5, <1>6, <1>7, <1>8, Step

LEMMA PostKeeps ==
  ASSUME AgentInv, NEW p \in Procs, Post(p)
  PROVE  AgentInv'
<1>1. /\ proc[p].pc = "post" /\ NeedsSender(proc[p])
      /\ UNCHANGED <<core, events, install, prepared, inflight, withdrawal, lock, server>>
      /\ open' = open \cup {[event |-> proc[p].item, gen |-> proc[p].wire]} /\ GoTo(p, "posted")
  BY DEF Post, Request, At, NeedsSender, Sending, files, local
<1>2. lock["sender"] = p /\ Others(p) /\ SenderOK(proc[p]) /\ proc[p] \in Record /\ core.gen \in Nat
  BY <1>1, Holds
<1>3. PICK r : r = [proc[p] EXCEPT !.pc = "posted"]
  OBVIOUS
<1>4. /\ r \in Record /\ r.pc = "posted" /\ r.program = proc[p].program /\ r.item = proc[p].item
      /\ r.wire = proc[p].wire /\ r.gen = proc[p].gen
  BY <1>2, <1>3 DEF Record, Pcs
<1>5. /\ r.item \in EventIds /\ r.wire \in Nat /\ r.wire >= 1 /\ r.wire <= core.gen /\ r.item \in inflight
      /\ r.item = Install => install.gen \in {0, r.wire}
  BY <1>1, <1>2, <1>4 DEF Record, SenderOK, Sending, HasWire
<1>6. r \in Program
  BY <1>1, <1>2, <1>4 DEF Program, HasFact, SenderOK, Sending
<1>7. open' = open \cup {[event |-> r.item, gen |-> r.wire]}
  BY <1>1, <1>4
<1>8. SenderOK(r)' /\ BarrierOK(r)'
  <2>1. r.item = Install => \A x \in open' : x.event = Install => x.gen <= r.wire
    BY <1>1, <1>2, <1>4, <1>5, <1>7 DEF SenderOK, HasWire
  <2> QED
    BY <1>1, <1>2, <1>4, <1>5, <2>1 DEF SenderOK, BarrierOK, Sending, HasWire
<1>9. Globals'
  <2>1. CoreTypes' /\ FileTypes' /\ GensOK' /\ ServerOK' /\ WithdrawalOK' /\ SignedOutcomeKept'
    BY <1>1, <1>5, <1>7 DEF AgentInv, Globals, CoreTypes, FileTypes, GensOK, ServerOK, WithdrawalOK,
                            SignedOutcomeKept, RequestSet
  <2>2. OpenOK'
    BY <1>1, <1>5, <1>7 DEF AgentInv, Globals, OpenOK
  <2> QED
    BY <2>1, <2>2 DEF Globals
<1>10. LockStep(p, r) /\ proc' = [proc EXCEPT ![p] = r]
  BY <1>1, <1>2, <1>3, Keeps DEF GoTo, Become
<1> QED
  BY <1>2, <1>6, <1>8, <1>9, <1>10, Step

----------------------------------------------------------------------------
(* The server *)

\* What a server holds after an answer, or a request taken or left on its way.
LEMMA ServerTakes ==
  ASSUME AgentInv, NEW request \in RequestSet, request.gen >= 1,
         UNCHANGED <<core, files, open>>,
         server' \in {server, Accepted(request), [server EXCEPT !.late = @ \cup {request}]}
  PROVE  Globals' /\ server'.tombstones = server.tombstones
<1>1. server \in [stored : SUBSET RequestSet, tombstones : SUBSET Nat, late : SUBSET RequestSet] /\ ServerOK
  BY DEF AgentInv, Globals, CoreTypes
<1>2. /\ server' \in [stored : SUBSET RequestSet, tombstones : SUBSET Nat, late : SUBSET RequestSet]
      /\ server'.tombstones = server.tombstones
      /\ server'.stored \subseteq server.stored \cup {request}
      /\ request \in server'.stored => request \in server.stored \/ request.gen \notin server.tombstones
      /\ server'.late \subseteq server.late \cup {request}
  BY <1>1 DEF Accepted
<1>3. ServerOK'
  BY <1>1, <1>2 DEF ServerOK
<1>4. CoreTypes' /\ FileTypes' /\ GensOK' /\ OpenOK' /\ WithdrawalOK' /\ SignedOutcomeKept'
  BY <1>2 DEF AgentInv, Globals, CoreTypes, FileTypes, GensOK, OpenOK, WithdrawalOK,
                    SignedOutcomeKept, files, local
<1> QED
  BY <1>2, <1>3, <1>4 DEF Globals

LEMMA RequestOK ==
  ASSUME AgentInv, NEW p \in Procs, proc[p].pc \in {"posted", "outcome"}
  PROVE  Request(p) \in RequestSet /\ Request(p).gen >= 1
<1>1. NeedsSender(proc[p])
  BY DEF NeedsSender, Sending
<1>2. proc[p] \in Record /\ SenderOK(proc[p])
  BY <1>1, Holds
<1> QED
  BY <1>2 DEF Request, RequestSet, Record, SenderOK, HasWire, Sending

LEMMA ServerAnswersKeeps ==
  ASSUME AgentInv, NEW p \in Procs, ServerAnswers(p)
  PROVE  AgentInv'
<1>1. /\ proc[p].pc = "posted" /\ NeedsSender(proc[p]) /\ GoTo(p, "outcome")
      /\ UNCHANGED <<core, files, lock, open>> /\ server' \in {server, Accepted(Request(p))}
  BY DEF ServerAnswers, At, NeedsSender, Sending, history
<1>2. Globals' /\ server'.tombstones = server.tombstones
  BY <1>1, RequestOK, ServerTakes
<1>3. lock["sender"] = p /\ Others(p) /\ SenderOK(proc[p]) /\ proc[p] \in Record
  BY <1>1, Holds
<1>4. PICK r : r = [proc[p] EXCEPT !.pc = "outcome"]
  OBVIOUS
<1>5. /\ r \in Record /\ r.pc = "outcome" /\ r.program = proc[p].program /\ r.item = proc[p].item
      /\ r.wire = proc[p].wire /\ r.gen = proc[p].gen
  BY <1>3, <1>4 DEF Record, Pcs
<1>6. r \in Program
  BY <1>1, <1>3, <1>5 DEF Program, HasFact, SenderOK, Sending
<1>7. SenderOK(r)' /\ BarrierOK(r)'
  BY <1>1, <1>2, <1>3, <1>5 DEF SenderOK, BarrierOK, Sending, HasWire, files, local
<1>8. LockStep(p, r) /\ proc' = [proc EXCEPT ![p] = r]
  BY <1>1, <1>3, <1>4, Keeps DEF GoTo, Become
<1> QED
  BY <1>2, <1>3, <1>6, <1>7, <1>8, Step

\* A request that fails, or whose process is killed.
LEMMA AbandonedStops ==
  ASSUME AgentInv, NEW p \in Procs, Abandoned(p), Stop(p), UNCHANGED <<core, files, open>>
  PROVE  AgentInv'
<1>1. CASE UNCHANGED server
  BY <1>1, QuietStop DEF Quiets
<1>2. CASE At(p, "posted")
  <2>1. Globals' /\ server'.tombstones = server.tombstones
    BY <1>2, RequestOK, ServerTakes DEF Abandoned, At
  <2>2. Others(p)
    BY <2>1 DEF Others, files, local, AgentInv, Globals, FileTypes
  <2>3. PICK r : r = Idle
    OBVIOUS
  <2>4. r \in Program /\ SenderOK(r)' /\ BarrierOK(r)'
    <3>1. r \in Program /\ ~NeedsSender(r)
      BY <2>3, IdleOK
    <3> QED
      BY <3>1 DEF NeedsSender, Sending, HasWire, SenderOK, BarrierOK
  <2>5. proc' = [proc EXCEPT ![p] = r] /\ LockStep(p, r)
    BY <2>3, Stops
  <2> QED
    BY <2>1, <2>2, <2>4, <2>5, Step
<1> QED
  BY <1>1, <1>2 DEF Abandoned

LEMMA RequestFailsKeeps ==
  ASSUME AgentInv, NEW p \in Procs, RequestFails(p)
  PROVE  AgentInv'
BY AbandonedStops DEF RequestFails, history

LEMMA CrashKeeps ==
  ASSUME AgentInv, NEW p \in Procs, Crash(p)
  PROVE  AgentInv'
BY AbandonedStops DEF Crash, history

\* A step of the environment, whatever the processes are doing.
LEMMA EnvironmentStep ==
  ASSUME AgentInv, UNCHANGED <<proc, lock, inflight, install, open>>, Globals',
         server'.tombstones = server.tombstones,
         core'.gen = core.gen \/ \A p \in Procs : ~Sending(proc[p])
  PROVE  AgentInv'
<1>1. ProcTypes' /\ Exclusive'
  BY DEF AgentInv, ProcTypes, Exclusive
<1>2. ASSUME NEW q \in Procs
      PROVE  SenderOK(proc[q])' /\ BarrierOK(proc[q])'
  BY DEF AgentInv, ProcsOK, SenderOK, BarrierOK, Sending, HasWire
<1> QED
  BY <1>1, <1>2 DEF AgentInv, ProcsOK

LEMMA LateRequestArrivesKeeps ==
  ASSUME AgentInv, LateRequestArrives
  PROVE  AgentInv'
<1>1. PICK request \in server.late : server' = [Accepted(request) EXCEPT !.late = @ \ {request}]
  BY DEF LateRequestArrives
<1>2. UNCHANGED <<core, events, install, prepared, inflight, withdrawal, lock, proc, open>>
  BY DEF LateRequestArrives, files, local, history
<1>3. server \in [stored : SUBSET RequestSet, tombstones : SUBSET Nat, late : SUBSET RequestSet] /\ ServerOK
  BY DEF AgentInv, Globals, CoreTypes
<1>4. /\ server' \in [stored : SUBSET RequestSet, tombstones : SUBSET Nat, late : SUBSET RequestSet]
      /\ server'.tombstones = server.tombstones /\ server'.late \subseteq server.late
      /\ server'.stored \subseteq server.stored \cup {request}
      /\ request \in server'.stored => request \in server.stored \/ request.gen \notin server.tombstones
  BY <1>1, <1>3 DEF Accepted
<1>5. ServerOK'
  BY <1>1, <1>3, <1>4 DEF ServerOK
<1>6. CoreTypes' /\ FileTypes' /\ GensOK' /\ OpenOK' /\ WithdrawalOK' /\ SignedOutcomeKept'
  BY <1>2, <1>4 DEF AgentInv, Globals, CoreTypes, FileTypes, GensOK, OpenOK, WithdrawalOK, SignedOutcomeKept
<1> QED
  BY <1>2, <1>4, <1>5, <1>6, EnvironmentStep DEF Globals

\* A new consent: the last one is ended, so nobody works under it.
LEMMA GrantKeeps ==
  ASSUME AgentInv, Grant
  PROVE  AgentInv'
<1>1. /\ core.gen \in server.tombstones \cup {0} /\ core' = [consent |-> "granted", gen |-> core.gen + 1]
      /\ UNCHANGED <<events, install, prepared, inflight, withdrawal, lock, proc, server, open>>
  BY DEF Grant, files, local, history
<1>2. core.gen \in Nat /\ install.gen \in Nat
  BY DEF AgentInv, Globals, CoreTypes, FileTypes
<1>3. \A p \in Procs : ~Sending(proc[p])
  BY <1>1 DEF AgentInv, ProcsOK, SenderOK
<1>4. GensOK'
  <2>1. core'.gen = core.gen + 1 /\ core'.gen \in Nat \ {0}
    BY <1>1, <1>2
  <2>2. server.tombstones \subseteq 1..core.gen /\ \A g \in 1..core.gen : g = core.gen \/ g \in server.tombstones
    BY DEF AgentInv, Globals, GensOK
  <2>3. core'.gen \notin server.tombstones
    BY <1>2, <2>1, <2>2
  <2>4. \A g \in 1..core'.gen : g = core'.gen \/ g \in server.tombstones
    BY <1>1, <1>2, <2>1, <2>2
  <2>5. server.tombstones \subseteq 1..core'.gen /\ install.gen <= core'.gen
    BY <1>2, <2>1, <2>2 DEF AgentInv, Globals, GensOK
  <2> QED
    BY <1>1, <2>1, <2>3, <2>4, <2>5 DEF GensOK
<1>5. OpenOK'
  BY <1>1, <1>2 DEF AgentInv, Globals, OpenOK, CoreTypes, RequestSet
<1>6. CoreTypes' /\ FileTypes' /\ ServerOK' /\ WithdrawalOK' /\ SignedOutcomeKept'
  BY <1>1, <1>2 DEF AgentInv, Globals, CoreTypes, FileTypes, ServerOK, WithdrawalOK, SignedOutcomeKept, Consents
<1> QED
  BY <1>1, <1>3, <1>4, <1>5, <1>6, EnvironmentStep DEF Globals

\* The outcome is recorded: what is still open of this event is older.
LEMMA RecordOutcomeKeeps ==
  ASSUME AgentInv, NEW p \in Procs, RecordOutcome(p)
  PROVE  AgentInv'
<1>1. /\ proc[p].pc = "outcome" /\ NeedsSender(proc[p]) /\ open' = open \ {Request(p)}
      /\ UNCHANGED <<core, prepared, inflight, withdrawal, server>>
  BY DEF RecordOutcome, At, NeedsSender, Sending
<1>2. lock["sender"] = p /\ Others(p) /\ SenderOK(proc[p]) /\ proc[p] \in Record /\ core.gen \in Nat
  BY <1>1, Holds
<1>3. ASSUME RowsOK(events'), install' \in [gen : Nat, delivery : Deliveries],
             install'.gen \in {0, install.gen}
      PROVE  Globals'
  <2>1. CoreTypes' /\ FileTypes' /\ ServerOK' /\ WithdrawalOK' /\ SignedOutcomeKept'
    BY <1>1, <1>3 DEF AgentInv, Globals, CoreTypes, FileTypes, ServerOK, WithdrawalOK, SignedOutcomeKept, RowsOK
  <2>2. install.gen \in Nat
    BY DEF AgentInv, Globals, FileTypes
  <2>3. GensOK' /\ OpenOK'
    BY <1>1, <1>2, <1>3, <2>2 DEF AgentInv, Globals, GensOK, OpenOK
  <2> QED
    BY <2>1, <2>3 DEF Globals
<1>4. CASE Mark(proc[p].item, "done") /\ GoTo(p, "unflight") /\ UNCHANGED lock
  <2>1. Globals'
    BY <1>3, <1>4, FileParts, MarkOK DEF FilesOK, Deliveries
  <2>2. PICK r : r = [proc[p] EXCEPT !.pc = "unflight"]
    OBVIOUS
  <2>3. /\ r \in Record /\ r.pc = "unflight" /\ r.program = proc[p].program /\ r.item = proc[p].item
        /\ r.wire = proc[p].wire /\ r.gen = proc[p].gen /\ r.wire \in Nat
    BY <1>2, <2>2 DEF Record, Pcs
  <2>4. r \in Program
    BY <1>1, <1>2, <2>3 DEF Program, HasFact, SenderOK, Sending
  <2>5. install'.gen \in {0, install.gen}
    BY <1>4, FileParts, MarkOK DEF FilesOK, Deliveries
  <2>6. \A x \in open' : x.event = r.item => x.gen < r.wire
    <3> SUFFICES ASSUME NEW x \in open', x.event = r.item
                 PROVE  x.gen < r.wire
      OBVIOUS
    <3>1. x \in open /\ x \in RequestSet /\ x # [event |-> r.item, gen |-> r.wire] /\ x.gen <= core.gen
      BY <1>1, <2>3 DEF Request, AgentInv, Globals, CoreTypes, OpenOK
    <3>2. x.gen # r.wire /\ x.gen \in Nat
      BY <3>1 DEF RequestSet
    <3>3. x.gen <= r.wire
      BY <1>1, <1>2, <2>3, <3>1 DEF SenderOK, Sending, HasWire
    <3> QED
      BY <2>3, <3>2, <3>3
  <2>7. SenderOK(r)' /\ BarrierOK(r)'
    <3>1. r.item = Install => \A x \in open' : x.event = Install => x.gen <= r.wire
      BY <1>1, <1>2, <2>3 DEF SenderOK, HasWire
    <3> QED
      BY <1>1, <1>2, <2>3, <2>5, <2>6, <3>1 DEF SenderOK, BarrierOK, Sending, HasWire
  <2>8. LockStep(p, r) /\ proc' = [proc EXCEPT ![p] = r]
    BY <1>2, <1>4, <2>2, Keeps DEF GoTo, Become
  <2> QED
    BY <1>2, <2>1, <2>4, <2>7, <2>8, Step
<1>5. CASE Stop(p) /\ UNCHANGED <<events, install>>
  <2>1. Globals'
    BY <1>3, <1>5, FileParts DEF FilesOK, RowsOK
  <2>2. PICK r : r = Idle
    OBVIOUS
  <2>3. r \in Program /\ SenderOK(r)' /\ BarrierOK(r)'
    <3>1. r \in Program /\ ~NeedsSender(r)
      BY <2>2, IdleOK
    <3> QED
      BY <3>1 DEF NeedsSender, Sending, HasWire, SenderOK, BarrierOK
  <2> QED
    BY <1>2, <1>5, <2>1, <2>2, <2>3, Stops, Step
<1> QED
  BY <1>4, <1>5 DEF RecordOutcome

LEMMA RemoveMarkerKeeps ==
  ASSUME AgentInv, NEW p \in Procs, RemoveMarker(p)
  PROVE  AgentInv'
<1>1. /\ proc[p].pc = "unflight" /\ NeedsSender(proc[p]) /\ inflight' = inflight \ {proc[p].item}
      /\ UNCHANGED <<core, events, install, prepared, withdrawal, server, open>>
  BY DEF RemoveMarker, At, NeedsSender, Sending, local, history
<1>2. lock["sender"] = p /\ Others(p) /\ SenderOK(proc[p]) /\ proc[p] \in Record /\ core.gen \in Nat
  BY <1>1, Holds
<1>3. Globals'
  <2>1. OpenOK'
    <3>1. ASSUME NEW x \in open, x.event = proc[p].item
          PROVE  x.gen \in server.tombstones
      <4>1. x.gen \in Nat /\ x.gen >= 1 /\ x.gen <= core.gen
        BY DEF AgentInv, Globals, OpenOK, CoreTypes, RequestSet
      <4>2. x.gen < proc[p].wire /\ proc[p].wire <= core.gen /\ proc[p].wire \in Nat
        BY <1>1, <1>2, <3>1 DEF SenderOK, Sending, HasWire, Record
      <4>3. x.gen \in 1..core.gen /\ x.gen # core.gen
        BY <1>2, <4>1, <4>2
      <4> QED
        BY <4>3 DEF AgentInv, Globals, GensOK
    <3> QED
      BY <1>1, <3>1 DEF AgentInv, Globals, OpenOK
  <2>2. CoreTypes' /\ FileTypes' /\ GensOK' /\ ServerOK' /\ WithdrawalOK' /\ SignedOutcomeKept'
    BY <1>1 DEF AgentInv, Globals, CoreTypes, FileTypes, GensOK, ServerOK, WithdrawalOK, SignedOutcomeKept
  <2> QED
    BY <2>1, <2>2 DEF Globals
<1>4. CASE Stop(p)
  <2>1. PICK r : r = Idle
    OBVIOUS
  <2>2. r \in Program /\ ~NeedsSender(r)
    BY <2>1, IdleOK
  <2>3. SenderOK(r)' /\ BarrierOK(r)'
    BY <2>2 DEF NeedsSender, Sending, HasWire, SenderOK, BarrierOK
  <2> QED
    BY <1>2, <1>3, <1>4, <2>1, <2>2, <2>3, Stops, Step
<1>5. CASE GoTo(p, "next") /\ UNCHANGED lock
  <2>1. PICK r : r = [proc[p] EXCEPT !.pc = "next"]
    OBVIOUS
  <2>2. /\ r \in Record /\ r.pc = "next" /\ r.program = proc[p].program /\ r.gen = proc[p].gen
        /\ r.item = proc[p].item
    BY <1>2, <2>1 DEF Record, Pcs
  <2>3. r \in Program
    BY <1>1, <1>2, <2>2 DEF Program, HasFact, SenderOK, Sending
  <2>4. SenderOK(r)' /\ BarrierOK(r)'
    BY <1>1, <1>2, <2>2 DEF SenderOK, BarrierOK, Sending, HasWire
  <2>5. LockStep(p, r) /\ proc' = [proc EXCEPT ![p] = r]
    BY <1>2, <1>5, <2>1, Keeps DEF GoTo, Become
  <2> QED
    BY <1>2, <1>3, <2>3, <2>4, <2>5, Step
<1> QED
  BY <1>4, <1>5 DEF RemoveMarker

LEMMA ResendReopensKeeps ==
  ASSUME AgentInv, NEW p \in Procs, ResendReopens(p)
  PROVE  AgentInv'
<1>1. /\ Mark(proc[p].item, "none") /\ Stop(p)
      /\ UNCHANGED <<core, prepared, inflight, withdrawal, server, open>>
  BY DEF ResendReopens
<1>2. RowsOK(events') /\ install' \in [gen : Nat, delivery : Deliveries] /\ install'.gen \in {0, install.gen}
  BY <1>1, FileParts, MarkOK DEF FilesOK, Deliveries
<1> QED
  BY <1>1, <1>2, FileParts, RowsStop DEF FilesOK

----------------------------------------------------------------------------
(* Withdrawals *)

\* Only withdrawal.json is written.
LEMMA WithdrawalStep ==
  ASSUME AgentInv, NEW p \in Procs, NEW r \in Program, proc' = [proc EXCEPT ![p] = r],
         LockStep(p, r), ~NeedsSender(r),
         UNCHANGED <<core, events, install, prepared, inflight, server, open>>,
         withdrawal' \in [state : {"none", "pending", "sent"}, gen : Nat],
         withdrawal'.state = "sent" => withdrawal'.gen \in server.tombstones \cup {0}
  PROVE  AgentInv'
<1>1. Globals'
  BY DEF AgentInv, Globals, CoreTypes, FileTypes, GensOK, OpenOK, ServerOK, WithdrawalOK, SignedOutcomeKept
<1>2. Others(p)
  BY DEF Others
<1>3. SenderOK(r)' /\ BarrierOK(r)'
  BY DEF NeedsSender, Sending, HasWire, SenderOK, BarrierOK
<1> QED
  BY <1>1, <1>2, <1>3, Step

\* finishWithdrawal returns, to a tick or to the command, which is over.
LEMMA Returns ==
  ASSUME AgentInv, NEW p \in Procs, Return(p)
  PROVE  \E r \in Program : proc' = [proc EXCEPT ![p] = r] /\ LockStep(p, r) /\ ~NeedsSender(r)
<1>1. CASE Stop(p)
  BY <1>1, Stops, IdleOK
<1>2. CASE /\ Become(p, [Idle EXCEPT !.pc = "enabled", !.program = "tick", !.consent = proc[p].consent])
           /\ Drop(p, Locks)
  <2> DEFINE r == [Idle EXCEPT !.pc = "enabled", !.program = "tick", !.consent = proc[p].consent]
  <2>1. proc[p].consent \in Consents
    BY DEF AgentInv, ProcTypes, Program, Record
  <2>2. r \in Record /\ r.pc = "enabled" /\ r.program = "tick"
    BY <2>1, IdleOK DEF Program, Record, Pcs, Programs
  <2> HIDE DEF r
  <2>3. r \in Program /\ ~NeedsSender(r)
    BY <2>2 DEF Program, HasFact, NeedsSender, Sending, Draining
  <2>4. LockStep(p, r)
    BY <1>2, <2>3, Drops
  <2> QED
    BY <1>2, <2>3, <2>4 DEF Become, r
<1> QED
  BY <1>1, <1>2 DEF Return

LEMMA QuietReturn ==
  ASSUME AgentInv, NEW p \in Procs, Return(p), Quiets
  PROVE  AgentInv'
BY Returns, FreeStep

\* Of the same program, at the same event, with something else at hand.
LEMMA SameProgram ==
  ASSUME NEW s \in Program, NEW r \in Record, r.program = s.program, r.item = s.item,
         r.pc \notin {"retain", "look", "collect", "observe"}
  PROVE  r \in Program
BY DEF Program, HasFact

LEMMA WithdrawRests ==
  ASSUME NEW r,
         r.pc \in {"withhold", "declare", "wipe", "clear", "finish", "erase-lock", "erase", "barrier"}
  PROVE  ~NeedsSender(r)
BY DEF NeedsSender, Sending, Draining

\* A withdrawal goes on to pc.
LEMMA WithdrawGoes ==
  ASSUME AgentInv, NEW p \in Procs, NEW pc \in Pcs \ {"retain", "look", "collect", "observe"}
  PROVE  LET r == [proc[p] EXCEPT !.pc = pc] IN
         /\ r \in Program /\ r.pc = pc
         /\ pc \in {"withhold", "declare", "wipe", "clear", "finish", "erase-lock", "erase", "barrier"} => ~NeedsSender(r)
         /\ pc \in {"latest", "call"} => SenderOK(r) /\ BarrierOK(r)
<1> DEFINE r == [proc[p] EXCEPT !.pc = pc]
<1>1. proc[p] \in Record
  BY DEF AgentInv, ProcTypes, Program
<1>2. r.pc = pc /\ r.program = proc[p].program
  BY <1>1 DEF Record
<1>3. HasFact(r) => HasFact(proc[p])
  BY <1>2 DEF HasFact
<1>4. r \in Program
  BY <1>3, Moves
<1> HIDE DEF r
<1>5. pc \in {"withhold", "declare", "wipe", "clear", "finish", "erase-lock", "erase", "barrier"} => ~NeedsSender(r)
  BY <1>2 DEF NeedsSender, Sending, Draining
<1>6. pc \in {"latest", "call"} => SenderOK(r) /\ BarrierOK(r)
  BY <1>2 DEF SenderOK, BarrierOK, Sending, HasWire
<1> QED
  BY <1>2, <1>4, <1>5, <1>6 DEF r

LEMMA BeginLocksKeeps ==
  ASSUME AgentInv, NEW p \in Procs, BeginLocks(p)
  PROVE  AgentInv'
<1> DEFINE r == [proc[p] EXCEPT !.pc = "withhold"]
<1>1. Quiets /\ AcquireCollection(p, "withhold")
  BY DEF BeginLocks, Quiets, history
<1>2. proc[p] \in Record
  BY DEF AgentInv, ProcTypes, Program
<1>3. r.pc = "withhold" /\ r.program = proc[p].program
  BY <1>2 DEF Record
<1>4. ~NeedsSender(r) /\ (HasFact(r) => HasFact(proc[p]))
  BY <1>3 DEF NeedsSender, Sending, Draining, HasFact
<1> QED
  BY <1>1, <1>4, Acquires DEF Pcs

LEMMA BeginWithholdsKeeps ==
  ASSUME AgentInv, NEW p \in Procs, BeginWithholds(p)
  PROVE  AgentInv'
<1>1. /\ core' = [core EXCEPT !.consent = "withheld"] /\ UNCHANGED lock
      /\ UNCHANGED <<events, install, prepared, inflight, withdrawal, server, open>>
  BY DEF BeginWithholds, files, local, history
<1>2. PICK r : r = [proc[p] EXCEPT !.pc = "declare", !.gen = core.gen]
  OBVIOUS
<1>3. proc[p] \in Record /\ proc[p] \in Program /\ core \in [consent : Consents, gen : Nat]
  BY DEF AgentInv, ProcTypes, Program, Globals, CoreTypes
<1>4. r \in Record /\ r.pc = "declare" /\ r.program = proc[p].program /\ r.item = proc[p].item
  BY <1>2, <1>3 DEF Record, Pcs
<1>5. r \in Program /\ ~NeedsSender(r)
  BY <1>3, <1>4, SameProgram, WithdrawRests
<1>6. SenderOK(r)' /\ BarrierOK(r)'
  BY <1>5 DEF NeedsSender, Sending, HasWire, SenderOK, BarrierOK
<1>7. core' \in [consent : Consents, gen : Nat] /\ core'.gen = core.gen /\ core'.consent = "withheld"
  BY <1>1, <1>3 DEF Consents
<1>8. Globals'
  BY <1>1, <1>7 DEF AgentInv, Globals, CoreTypes, FileTypes, GensOK, OpenOK, ServerOK, WithdrawalOK,
                    SignedOutcomeKept
<1>9. Others(p)
  BY <1>1, <1>7 DEF Others
<1>10. LockStep(p, r) /\ proc' = [proc EXCEPT ![p] = r]
  BY <1>1, <1>2, <1>5, Keeps DEF BeginWithholds, Become
<1> QED
  BY <1>5, <1>6, <1>8, <1>9, <1>10, Step

LEMMA BeginDeclaresKeeps ==
  ASSUME AgentInv, NEW p \in Procs, BeginDeclares(p)
  PROVE  AgentInv'
<1> DEFINE r == [proc[p] EXCEPT !.pc = "wipe"]
<1>1. /\ withdrawal' = [state |-> "pending", gen |-> proc[p].gen] /\ GoTo(p, "wipe") /\ UNCHANGED lock
      /\ UNCHANGED <<core, events, install, prepared, inflight, server, open>>
  BY DEF BeginDeclares, local, history
<1>2. proc[p].gen \in Nat
  BY DEF AgentInv, ProcTypes, Program, Record
<1>3. r \in Program /\ ~NeedsSender(r)
  BY WithdrawGoes DEF Pcs
<1> HIDE DEF r
<1>4. LockStep(p, r)
  BY <1>1, <1>3, Keeps
<1> QED
  BY <1>1, <1>2, <1>3, <1>4, WithdrawalStep DEF GoTo, Become, r

LEMMA ErasedOK ==
  Erase => /\ RowsOK(events') /\ install' \in [gen : Nat, delivery : Deliveries]
           /\ install'.gen = 0
BY DEF Erase, NoEvents, NoInstall, RowsOK, Deliveries

LEMMA BeginErasesKeeps ==
  ASSUME AgentInv, NEW p \in Procs, BeginErases(p)
  PROVE  AgentInv'
<1> DEFINE r == [proc[p] EXCEPT !.pc = "clear"]
<1>1. /\ Erase /\ GoTo(p, "clear") /\ UNCHANGED lock
      /\ UNCHANGED <<core, prepared, inflight, withdrawal, server, open>>
  BY DEF BeginErases, history
<1>2. r \in Program /\ ~NeedsSender(r)
  BY WithdrawGoes DEF Pcs
<1> HIDE DEF r
<1>3. LockStep(p, r)
  BY <1>1, <1>2, Keeps
<1> QED
  BY <1>1, <1>2, <1>3, ErasedOK, FreeOK, FileParts, RowsStep DEF GoTo, Become, r, FilesOK

LEMMA BeginClearsKeeps ==
  ASSUME AgentInv, NEW p \in Procs, BeginClears(p)
  PROVE  AgentInv'
<1> DEFINE r == [proc[p] EXCEPT !.pc = "finish"]
<1>1. /\ prepared' = {} /\ GoTo(p, "finish") /\ Drop(p, {"collection"})
      /\ UNCHANGED <<core, events, install, inflight, withdrawal, server, open>>
  BY DEF BeginClears, history
<1>2. r \in Program /\ ~NeedsSender(r)
  BY WithdrawGoes DEF Pcs
<1> HIDE DEF r
<1>3. LockStep(p, r)
  BY <1>1, <1>2, Drops
<1>4. RowsOK(events') /\ FilesOK'
  BY <1>1, FileParts DEF RowsOK, FilesOK
<1> QED
  BY <1>1, <1>2, <1>3, <1>4, FreeOK, FileParts, RowsStep DEF GoTo, Become, r, FilesOK

LEMMA FinishReadsKeeps ==
  ASSUME AgentInv, NEW p \in Procs, FinishReads(p)
  PROVE  AgentInv'
<1>1. Quiets
  BY DEF FinishReads, Quiets, history
<1>2. CASE Become(p, [proc[p] EXCEPT !.pc = "erase-lock", !.gen = withdrawal.gen]) /\ UNCHANGED lock
  <2> DEFINE r == [proc[p] EXCEPT !.pc = "erase-lock", !.gen = withdrawal.gen]
  <2>1. proc[p] \in Record /\ proc[p] \in Program /\ withdrawal.gen \in Nat
    BY DEF AgentInv, ProcTypes, Program, Globals, CoreTypes
  <2>2. r \in Record /\ r.pc = "erase-lock" /\ r.program = proc[p].program /\ r.item = proc[p].item
    BY <2>1 DEF Record, Pcs
  <2> HIDE DEF r
  <2>3. r \in Program /\ ~NeedsSender(r)
    BY <2>1, <2>2, SameProgram, WithdrawRests
  <2>4. LockStep(p, r)
    BY <1>2, <2>3, Keeps
  <2> QED
    BY <1>1, <1>2, <2>3, <2>4, FreeStep DEF Become, r
<1> QED
  BY <1>1, <1>2, QuietReturn DEF FinishReads

LEMMA FinishLocksKeeps ==
  ASSUME AgentInv, NEW p \in Procs, FinishLocks(p)
  PROVE  AgentInv'
<1> DEFINE r == [proc[p] EXCEPT !.pc = "erase"]
<1>1. Quiets /\ AcquireCollection(p, "erase")
  BY DEF FinishLocks, Quiets, history
<1>2. proc[p] \in Record
  BY DEF AgentInv, ProcTypes, Program
<1>3. r.pc = "erase" /\ r.program = proc[p].program
  BY <1>2 DEF Record
<1>4. ~NeedsSender(r) /\ (HasFact(r) => HasFact(proc[p]))
  BY <1>3 DEF NeedsSender, Sending, Draining, HasFact
<1> QED
  BY <1>1, <1>4, Acquires DEF Pcs

LEMMA FinishErasesKeeps ==
  ASSUME AgentInv, NEW p \in Procs, FinishErases(p)
  PROVE  AgentInv'
<1>1. UNCHANGED <<core, prepared, inflight, withdrawal, server, open>>
  BY DEF FinishErases, history
<1>2. CASE Erase /\ GoTo(p, "barrier") /\ Drop(p, {"collection"})
  <2> DEFINE r == [proc[p] EXCEPT !.pc = "barrier"]
  <2>1. r \in Program /\ ~NeedsSender(r)
    BY WithdrawGoes DEF Pcs
  <2> HIDE DEF r
  <2>2. LockStep(p, r)
    BY <1>2, <2>1, Drops
  <2> QED
    BY <1>1, <1>2, <2>1, <2>2, ErasedOK, FreeOK, FileParts, RowsStep DEF GoTo, Become, r, FilesOK
<1>3. CASE Return(p) /\ UNCHANGED <<events, install>>
  <2>1. Quiets
    BY <1>1, <1>3 DEF Quiets, files, local
  <2> QED
    BY <1>3, <2>1, QuietReturn
<1> QED
  BY <1>2, <1>3 DEF FinishErases

LEMMA FinishBarsKeeps ==
  ASSUME AgentInv, NEW p \in Procs, FinishBars(p)
  PROVE  AgentInv'
<1>1. Quiets
  BY DEF FinishBars, Quiets, history
<1>2. CASE Take(p, "sender") /\ GoTo(p, "latest")
  <2> DEFINE r == [proc[p] EXCEPT !.pc = "latest"]
  <2>1. r \in Program /\ SenderOK(r) /\ BarrierOK(r)
    BY WithdrawGoes DEF Pcs
  <2> HIDE DEF r
  <2>2. LockStep(p, r)
    BY <1>2, Takes DEF Locks
  <2> QED
    BY <1>1, <1>2, <2>1, <2>2, QuietStep DEF GoTo, Become, r
<1> QED
  BY <1>1, <1>2, QuietReturn DEF FinishBars

LEMMA FinishRereadsKeeps ==
  ASSUME AgentInv, NEW p \in Procs, FinishRereads(p)
  PROVE  AgentInv'
<1>1. Quiets /\ NeedsSender(proc[p])
  BY DEF FinishRereads, At, NeedsSender, Quiets, history
<1>2. CASE Become(p, [proc[p] EXCEPT !.pc = "call", !.wire = withdrawal.gen]) /\ UNCHANGED lock
  <2> DEFINE r == [proc[p] EXCEPT !.pc = "call", !.wire = withdrawal.gen]
  <2>1. proc[p] \in Record /\ proc[p] \in Program /\ withdrawal.gen \in Nat
    BY DEF AgentInv, ProcTypes, Program, Globals, CoreTypes
  <2>2. r \in Record /\ r.pc = "call" /\ r.program = proc[p].program /\ r.item = proc[p].item
    BY <2>1 DEF Record, Pcs
  <2> HIDE DEF r
  <2>3. r \in Program /\ SenderOK(r) /\ BarrierOK(r)
    BY <2>1, <2>2, SameProgram DEF SenderOK, BarrierOK, Sending, HasWire
  <2>4. LockStep(p, r)
    BY <1>1, <1>2, Holds, Keeps
  <2> QED
    BY <1>1, <1>2, <2>3, <2>4, QuietStep DEF Become, r
<1> QED
  BY <1>1, <1>2, QuietReturn DEF FinishRereads

\* What Core ends at the server, with the deletion there.
LEMMA EndsConsent ==
  ASSUME AgentInv, core.consent = "withheld", UNCHANGED <<core, files, open>>,
         server' \in {server, Withdrawn}
  PROVE  Globals' /\ server.tombstones \subseteq server'.tombstones
<1>1. /\ server \in [stored : SUBSET RequestSet, tombstones : SUBSET Nat, late : SUBSET RequestSet]
      /\ ServerOK /\ core.gen \in Nat /\ server.tombstones \subseteq 1..core.gen
  BY DEF AgentInv, Globals, CoreTypes, GensOK
<1>2. /\ server' \in [stored : SUBSET RequestSet, tombstones : SUBSET Nat, late : SUBSET RequestSet]
      /\ server.tombstones \subseteq server'.tombstones
      /\ server'.tombstones \subseteq server.tombstones \cup {core.gen}
      /\ server'.tombstones \subseteq 1..core.gen
      /\ server'.stored \subseteq server.stored /\ server'.late = server.late
      /\ \A x \in server'.stored : x.gen = core.gen => core.gen \notin server'.tombstones
  <2>1. CASE server' = server
    BY <1>1, <2>1 DEF ServerOK
  <2>2. CASE core.gen # 0 /\ server' = [server EXCEPT !.tombstones = @ \cup {core.gen},
                                                      !.stored = {x \in @ : x.gen # core.gen}]
    <3>1. /\ server'.tombstones = server.tombstones \cup {core.gen}
          /\ server'.stored = {x \in server.stored : x.gen # core.gen} /\ server'.late = server.late
      BY <1>1, <2>2
    <3>2. server' = [stored |-> server'.stored, tombstones |-> server'.tombstones, late |-> server'.late]
      BY <1>1, <2>2
    <3>3. core.gen \in 1..core.gen
      BY <1>1, <2>2
    <3>4. server' \in [stored : SUBSET RequestSet, tombstones : SUBSET Nat, late : SUBSET RequestSet]
      BY <1>1, <3>1, <3>2
    <3> QED
      BY <1>1, <3>1, <3>3, <3>4
  <2> QED
    BY <2>1, <2>2 DEF Withdrawn
<1>3. ServerOK'
  BY <1>1, <1>2 DEF ServerOK
<1>4. GensOK' /\ OpenOK' /\ WithdrawalOK'
  BY <1>2 DEF AgentInv, Globals, GensOK, OpenOK, WithdrawalOK, files, local
<1>5. CoreTypes' /\ FileTypes' /\ SignedOutcomeKept'
  BY <1>2 DEF AgentInv, Globals, CoreTypes, FileTypes, SignedOutcomeKept, files, local
<1> QED
  BY <1>2, <1>3, <1>4, <1>5 DEF Globals

\* Core has answered: a consent it has committed is ended, and is the latest.
LEMMA AnswerOK ==
  ASSUME AgentInv, NEW p \in Procs, proc[p].pc = "call", NEW barrier \in Barriers,
         CoreAnswers(p, barrier), Globals', UNCHANGED <<core, files, lock, open>>,
         barrier = "committed" => core.gen \in server'.tombstones,
         barrier = "no-device" => core.gen = 0
  PROVE  AgentInv'
<1> DEFINE answer == [barrier |-> barrier, gen |-> core.gen]
<1>1. NeedsSender(proc[p])
  BY DEF NeedsSender
<1>2. lock["sender"] = p /\ Others(p) /\ proc[p] \in Record /\ proc[p] \in Program /\ core.gen \in Nat
  BY <1>1, Holds DEF AgentInv, ProcTypes
<1>3. PICK r : r = [proc[p] EXCEPT !.pc = "decide", !.answer = answer]
  OBVIOUS
<1>4. /\ r \in Record /\ r.pc = "decide" /\ r.program = proc[p].program /\ r.item = proc[p].item
      /\ r.answer.barrier = barrier /\ r.answer.gen = core.gen
  BY <1>2, <1>3 DEF Record, Pcs
<1>5. r \in Program
  BY <1>2, <1>4, SameProgram
<1>6. \A x \in open : x.gen <= core.gen
  BY DEF AgentInv, Globals, OpenOK
<1>7. SenderOK(r)' /\ BarrierOK(r)'
  BY <1>4, <1>6 DEF SenderOK, BarrierOK, Sending, HasWire
<1>8. LockStep(p, r) /\ proc' = [proc EXCEPT ![p] = r]
  BY <1>2, <1>3, Keeps DEF CoreAnswers, Become
<1> QED
  BY <1>2, <1>5, <1>7, <1>8, Step

LEMMA CoreWithdrawsKeeps ==
  ASSUME AgentInv, NEW p \in Procs, CoreWithdraws(p)
  PROVE  AgentInv'
<1>1. /\ proc[p].pc = "call" /\ core.consent = "withheld" /\ server' = Withdrawn
      /\ CoreAnswers(p, IF core.gen = 0 THEN "no-device" ELSE "committed")
      /\ UNCHANGED <<core, files, lock, open>>
  BY DEF CoreWithdraws, At, history
<1>2. Globals'
  BY <1>1, EndsConsent
<1>3. core.gen # 0 => core.gen \in server'.tombstones
  BY <1>1 DEF Withdrawn, AgentInv, Globals, CoreTypes
<1> QED
  BY <1>1, <1>2, <1>3, AnswerOK DEF Barriers

LEMMA CoreFailsKeeps ==
  ASSUME AgentInv, NEW p \in Procs, CoreFails(p)
  PROVE  AgentInv'
<1>1. proc[p].pc = "call" /\ CoreAnswers(p, "failed") /\ UNCHANGED <<core, files, lock, open>>
  BY DEF CoreFails, At, history
<1>2. CASE UNCHANGED server
  <2>1. Globals'
    BY <1>1, <1>2 DEF AgentInv, Globals, CoreTypes, FileTypes, GensOK, OpenOK, ServerOK, WithdrawalOK,
                      SignedOutcomeKept, files, local
  <2> QED
    BY <1>1, <2>1, AnswerOK DEF Barriers
<1>3. CASE core.consent = "withheld" /\ server' \in {server, Withdrawn}
  BY <1>1, <1>3, EndsConsent, AnswerOK DEF Barriers
<1> QED
  BY <1>2, <1>3 DEF CoreFails

LEMMA FinishDecidesKeeps ==
  ASSUME AgentInv, NEW p \in Procs, FinishDecides(p)
  PROVE  AgentInv'
<1>1. /\ proc[p].pc = "decide" /\ NeedsSender(proc[p])
      /\ UNCHANGED <<core, events, install, prepared, server, open>>
  BY DEF FinishDecides, At, NeedsSender, local, history
<1>2. /\ lock["sender"] = p /\ Others(p) /\ BarrierOK(proc[p]) /\ proc[p] \in Record
      /\ proc[p] \in Program /\ core.gen \in Nat
  BY <1>1, Holds DEF AgentInv, ProcTypes
<1>3. CASE Confirmed(p) /\ inflight' = {} /\ GoTo(p, "record") /\ UNCHANGED <<withdrawal, lock>>
  <2>1. PICK r : r = [proc[p] EXCEPT !.pc = "record"]
    OBVIOUS
  <2>2. /\ r \in Record /\ r.pc = "record" /\ r.program = proc[p].program /\ r.item = proc[p].item
        /\ r.answer = proc[p].answer /\ r.answer.gen \in Nat
    BY <1>2, <2>1 DEF Record, Pcs
  <2>3. r \in Program
    BY <1>2, <2>2, SameProgram
  <2>6. (\A x \in open : x.gen \in server.tombstones) /\ r.answer.gen \in server.tombstones \cup {0}
    <3>1. CASE proc[p].answer.barrier = "committed"
      <4>1. r.answer.gen \in server.tombstones /\ \A x \in open : x.gen <= r.answer.gen
        BY <1>1, <1>2, <2>2, <3>1 DEF BarrierOK
      <4>2. ASSUME NEW x \in open
            PROVE  x.gen \in server.tombstones
        <5>1. x.gen \in 1..core.gen /\ x.gen <= r.answer.gen /\ r.answer.gen \in 1..core.gen
          BY <4>1 DEF AgentInv, Globals, OpenOK, GensOK, CoreTypes, RequestSet
        <5> QED
          BY <1>2, <4>1, <5>1 DEF AgentInv, Globals, GensOK
      <4> QED
        BY <4>1, <4>2
    <3>2. CASE proc[p].answer.barrier = "no-device" /\ inflight = {}
      BY <1>1, <1>2, <2>2, <3>2 DEF BarrierOK, AgentInv, Globals, OpenOK
    <3> QED
      BY <1>3, <3>1, <3>2 DEF Confirmed
  <2>7. Globals'
    BY <1>1, <1>3, <2>6 DEF AgentInv, Globals, CoreTypes, FileTypes, GensOK, OpenOK, ServerOK,
                            WithdrawalOK, SignedOutcomeKept
  <2>8. SenderOK(r)' /\ BarrierOK(r)'
    BY <1>1, <2>2, <2>6 DEF SenderOK, BarrierOK, Sending, HasWire
  <2>9. LockStep(p, r) /\ proc' = [proc EXCEPT ![p] = r]
    BY <1>2, <1>3, <2>1, Keeps DEF GoTo, Become
  <2> QED
    BY <1>2, <2>3, <2>7, <2>8, <2>9, Step
<1>4. CASE /\ withdrawal' = [state |-> "pending", gen |-> proc[p].gen]
           /\ Return(p) /\ UNCHANGED inflight
  <2>1. PICK r \in Program : proc' = [proc EXCEPT ![p] = r] /\ LockStep(p, r) /\ ~NeedsSender(r)
    BY <1>4, Returns
  <2>2. proc[p].gen \in Nat
    BY <1>2 DEF Record
  <2> QED
    BY <1>1, <1>4, <2>1, <2>2, WithdrawalStep
<1> QED
  BY <1>3, <1>4 DEF FinishDecides

LEMMA FinishRecordsKeeps ==
  ASSUME AgentInv, NEW p \in Procs, FinishRecords(p)
  PROVE  AgentInv'
<1>1. /\ proc[p].pc = "record" /\ NeedsSender(proc[p])
      /\ UNCHANGED <<core, events, install, prepared, inflight, server, open>>
      /\ withdrawal' = [state |-> "sent", gen |-> proc[p].answer.gen] /\ Return(p)
  BY DEF FinishRecords, At, NeedsSender, local, history
<1>2. proc[p].answer.gen \in Nat /\ proc[p].answer.gen \in server.tombstones \cup {0}
  BY <1>1, Holds DEF Record, BarrierOK
<1>3. PICK r \in Program : proc' = [proc EXCEPT ![p] = r] /\ LockStep(p, r) /\ ~NeedsSender(r)
  BY <1>1, Returns
<1> QED
  BY <1>1, <1>2, <1>3, WithdrawalStep

----------------------------------------------------------------------------
(* The bootstrap *)

BootPcs ==
  {"idle", "retain", "note", "note-initial", "lock", "start", "fork", "download", "publish", "finish", "drain"}
Entry ==
  [pc : BootPcs, session : Sessions \cup {NoSession}, new : BOOLEAN, first : BOOLEAN, mcp : BOOLEAN]
States ==
  [code : {"none", "PREPARING", "INTERRUPTED", "FAILED", "READY"},
   entry : {"none", "session", "non-session"}, attempts : Nat]

\* Holds the lock, as an entry that starts an attempt or as the producer.
Producing(b) == b.pc \in {"start", "fork", "download", "publish", "finish", "drain"}
\* Has noted a new session, for which it has not yet made an attempt.
Pending(b) == b.new /\ b.pc \in {"note-initial", "lock", "start"}
PendingSessions == {boot[p].session : p \in {q \in Procs : Pending(boot[q])}}

RuntimeTypes ==
  /\ published \subseteq Parts /\ IsFiniteSet(sessions) /\ initial \in BOOLEAN
  /\ state \in States /\ owner \in Procs \cup {Free} /\ boot \in [Procs -> Entry]
Owned == \A p \in Procs : Producing(boot[p]) => owner = p
Prefixed == \A i, j \in DOMAIN Order : i < j /\ Order[j] \in published => Order[i] \in published
EntriesOK ==
  \A p \in Procs :
    /\ boot[p].pc \in {"idle", "retain"} => ~boot[p].new
    /\ boot[p].pc = "start" => state.code = "none" \/ boot[p].new
    /\ boot[p].pc \in {"fork", "download", "publish", "finish", "drain"} => state.code # "none"
    /\ Pending(boot[p]) => boot[p].session \in sessions
    /\ \A q \in Procs : Pending(boot[p]) /\ Pending(boot[q]) /\ p # q => boot[p].session # boot[q].session
\* Every attempt but the first belongs to a session of its own.
AttemptsOK ==
  state.attempts <= Cardinality(sessions \ PendingSessions) + (IF state.code = "none" THEN 0 ELSE 1)

RuntimeInv == RuntimeTypes /\ Owned /\ Prefixed /\ EntriesOK /\ AttemptsOK

\* The attempts are as many, and no session more is pending.
LEMMA AttemptsKept ==
  ASSUME RuntimeInv, UNCHANGED sessions, PendingSessions' \subseteq PendingSessions,
         state' \in States, state'.attempts = state.attempts, state'.code = "none" <=> state.code = "none"
  PROVE  AttemptsOK'
<1> DEFINE done == sessions \ PendingSessions
           done2 == sessions \ PendingSessions'
<1>1. IsFiniteSet(sessions) /\ done \subseteq done2 /\ done2 \subseteq sessions
  BY DEF RuntimeInv, RuntimeTypes
<1>2. IsFiniteSet(done2) /\ IsFiniteSet(done)
  BY <1>1, FS_Subset
<1>3. Cardinality(done) <= Cardinality(done2) /\ Cardinality(done) \in Nat /\ Cardinality(done2) \in Nat
  BY <1>1, <1>2, FS_Subset, FS_CardinalityType
<1>4. state.attempts \in Nat /\ state.attempts <= Cardinality(done) + (IF state.code = "none" THEN 0 ELSE 1)
  BY DEF RuntimeInv, RuntimeTypes, States, AttemptsOK
<1>5. AttemptsOK' <=> state'.attempts <= Cardinality(done2) + (IF state'.code = "none" THEN 0 ELSE 1)
  BY DEF AttemptsOK
<1> HIDE DEF done, done2
<1> QED
  BY <1>3, <1>4, <1>5

\* An entry moves, without a session that it had not noted before.
LEMMA BootStep ==
  ASSUME RuntimeInv, NEW p \in Procs, NEW r \in Entry, boot' = [boot EXCEPT ![p] = r],
         UNCHANGED sessions, initial' \in BOOLEAN, published' \subseteq Parts, Prefixed',
         state' \in States, state'.attempts = state.attempts, state'.code = "none" <=> state.code = "none",
         owner' \in Procs \cup {Free}, owner' = owner \/ owner \in {Free, p},
         Producing(r) => owner' = p,
         Pending(r) => Pending(boot[p]) /\ r.session = boot[p].session,
         r.pc \in {"idle", "retain"} => ~r.new,
         r.pc = "start" => state'.code = "none" \/ r.new,
         r.pc \in {"fork", "download", "publish", "finish", "drain"} => state'.code # "none"
  PROVE  RuntimeInv'
<1>1. boot'[p] = r /\ \A q \in Procs : q # p => boot'[q] = boot[q]
  BY DEF RuntimeInv, RuntimeTypes
<1>2. RuntimeTypes'
  BY DEF RuntimeInv, RuntimeTypes
<1>3. Owned'
  BY <1>1 DEF RuntimeInv, RuntimeTypes, Owned, Free
<1>4. EntriesOK'
  <2>1. ASSUME NEW q \in Procs
        PROVE  /\ boot'[q].pc \in {"idle", "retain"} => ~boot'[q].new
               /\ boot'[q].pc = "start" => state'.code = "none" \/ boot'[q].new
               /\ boot'[q].pc \in {"fork", "download", "publish", "finish", "drain"} => state'.code # "none"
               /\ Pending(boot'[q]) => boot'[q].session \in sessions'
    BY <1>1 DEF RuntimeInv, EntriesOK
  <2>2. ASSUME NEW q \in Procs, NEW o \in Procs, Pending(boot'[q]), Pending(boot'[o]), q # o
        PROVE  boot'[q].session # boot'[o].session
    BY <1>1, <2>2 DEF RuntimeInv, EntriesOK
  <2> QED
    BY <2>1, <2>2 DEF EntriesOK
<1>5. PendingSessions' \subseteq PendingSessions
  BY <1>1 DEF PendingSessions
<1> QED
  BY <1>2, <1>3, <1>4, <1>5, AttemptsKept DEF RuntimeInv

\* Only the state file changes.
LEMMA StateStep ==
  ASSUME RuntimeInv, UNCHANGED <<published, sessions, initial, owner, boot>>,
         state' \in States, state'.attempts = state.attempts, state'.code = "none" <=> state.code = "none"
  PROVE  RuntimeInv'
<1>1. RuntimeTypes' /\ Owned' /\ Prefixed' /\ EntriesOK'
  BY DEF RuntimeInv, RuntimeTypes, Owned, Prefixed, EntriesOK
<1>2. PendingSessions' \subseteq PendingSessions
  BY DEF PendingSessions
<1> QED
  BY <1>1, <1>2, AttemptsKept DEF RuntimeInv

LEMMA RepairedOK ==
  ASSUME RuntimeInv
  PROVE  /\ Repaired \in States /\ Repaired.attempts = state.attempts
         /\ Repaired.code = "none" <=> state.code = "none"
BY DEF RuntimeInv, RuntimeTypes, States, Repaired

LEMMA EntryTypes ==
  ASSUME RuntimeInv, NEW p \in Procs
  PROVE  /\ boot[p] \in Entry /\ state \in States /\ initial \in BOOLEAN
         /\ NoEntry \in Entry /\ NoEntry.pc = "idle" /\ NoEntry.new = FALSE
         /\ boot[p].pc \in {"idle", "retain"} => ~boot[p].new
BY DEF RuntimeInv, RuntimeTypes, EntriesOK, NoEntry, Entry, BootPcs

\* An entry moves without the lock, and leaves the caches and the state file.
LEMMA UnlockedStep ==
  ASSUME RuntimeInv, NEW p \in Procs, NEW r \in Entry, BootTo(p, r), ~Producing(r),
         UNCHANGED <<published, sessions, state, owner>>, initial' \in BOOLEAN,
         Pending(r) => Pending(boot[p]) /\ r.session = boot[p].session,
         r.pc \in {"idle", "retain"} => ~r.new
  PROVE  RuntimeInv'
<1>1. published' \subseteq Parts /\ Prefixed' /\ state' \in States /\ owner' \in Procs \cup {Free}
  BY DEF RuntimeInv, RuntimeTypes, Prefixed
<1>2. r.pc \notin {"start", "fork", "download", "publish", "finish", "drain"}
  BY DEF Producing
<1> QED
  BY <1>1, <1>2, BootStep DEF BootTo

LEMMA EntersRuntime ==
  ASSUME RuntimeInv, NEW p \in Procs, CallEnters(p) \/ CallRetained(p) \/ Enters(p)
  PROVE  RuntimeInv'
<1>1. UNCHANGED <<published, sessions, state, owner>> /\ initial' \in BOOLEAN
  BY EntryTypes DEF CallEnters, CallRetained, Enters, cache
<1>2. boot[p] \in Entry /\ boot[p].pc \in BootPcs
  BY EntryTypes DEF Entry
<1>3. ASSUME NEW pc \in {"retain", "lock"}, boot[p].pc \in {"idle", "retain"}, BootGoTo(p, pc)
      PROVE  RuntimeInv'
  <2> DEFINE r == [boot[p] EXCEPT !.pc = pc]
  <2>1. r \in Entry /\ r.pc = pc /\ r.new = boot[p].new
    BY <1>2 DEF Entry, BootPcs
  <2> HIDE DEF r
  <2>2. ~Producing(r) /\ ~Pending(r) /\ ~r.new
    BY <1>3, <2>1, EntryTypes DEF Producing, Pending
  <2> QED
    BY <1>1, <1>3, <2>1, <2>2, UnlockedStep DEF BootGoTo, r
<1>4. ASSUME NEW r \in Entry, r.pc \in {"note", "lock"}, ~r.new, BootTo(p, r)
      PROVE  RuntimeInv'
  <2>1. ~Producing(r) /\ ~Pending(r)
    BY <1>4 DEF Producing, Pending
  <2> QED
    BY <1>1, <1>4, <2>1, UnlockedStep
<1>5. ASSUME NEW s \in Sessions \cup {NoSession}, NEW pc \in {"note", "lock"},
             BootTo(p, [NoEntry EXCEPT !.pc = pc, !.session = s])
      PROVE  RuntimeInv'
  <2> DEFINE r == [NoEntry EXCEPT !.pc = pc, !.session = s]
  <2>1. r \in Entry /\ r.pc = pc /\ r.new = FALSE
    BY DEF Entry, BootPcs, NoEntry
  <2> QED
    BY <1>4, <1>5, <2>1
<1>6. ASSUME NEW m \in BOOLEAN, BootTo(p, [NoEntry EXCEPT !.pc = "lock", !.mcp = m])
      PROVE  RuntimeInv'
  <2> DEFINE r == [NoEntry EXCEPT !.pc = "lock", !.mcp = m]
  <2>1. r \in Entry /\ r.pc = "lock" /\ r.new = FALSE
    BY DEF Entry, BootPcs, NoEntry
  <2> QED
    BY <1>4, <1>6, <2>1
<1>7. CASE CallEnters(p)
  BY <1>3, <1>7 DEF CallEnters, BootAt
<1>8. CASE CallRetained(p)
  BY <1>3, <1>8 DEF CallRetained, BootAt
<1>9. CASE Enters(p)
  <2>1. CASE \E s \in Sessions \cup {NoSession} :
               BootTo(p, [NoEntry EXCEPT !.pc = IF s = NoSession THEN "lock" ELSE "note", !.session = s])
    <3>1. PICK s \in Sessions \cup {NoSession} :
            BootTo(p, [NoEntry EXCEPT !.pc = IF s = NoSession THEN "lock" ELSE "note", !.session = s])
      BY <2>1
    <3>2. CASE s = NoSession
      BY <1>5, <3>1, <3>2
    <3>3. CASE s # NoSession
      BY <1>5, <3>1, <3>3
    <3> QED
      BY <3>2, <3>3
  <2>2. CASE \E m \in BOOLEAN : BootTo(p, [NoEntry EXCEPT !.pc = "lock", !.mcp = m])
    BY <1>6, <2>2
  <2> QED
    BY <1>9, <2>1, <2>2 DEF Enters
<1> QED
  BY <1>7, <1>8, <1>9

\* A session noted for the first time is pending; nothing else is.
LEMMA NotesSessionRuntime ==
  ASSUME RuntimeInv, NEW p \in Procs, NotesSession(p)
  PROVE  RuntimeInv'
<1> DEFINE s == boot[p].session
           r == [boot[p] EXCEPT !.pc = "note-initial", !.new = s \notin sessions]
<1>1. /\ boot[p].pc = "note" /\ sessions' = sessions \cup {s} /\ boot' = [boot EXCEPT ![p] = r]
      /\ UNCHANGED <<published, initial, state, owner>>
  BY DEF NotesSession, BootAt, BootTo
<1>2. r \in Entry /\ r.pc = "note-initial" /\ r.new = (s \notin sessions) /\ r.session = s
  BY EntryTypes DEF Entry, BootPcs
<1> HIDE DEF r
<1>3. boot'[p] = r /\ \A q \in Procs : q # p => boot'[q] = boot[q]
  BY <1>1 DEF RuntimeInv, RuntimeTypes
<1>4. RuntimeTypes' /\ Owned' /\ Prefixed'
  <2>1. IsFiniteSet(sessions')
    BY <1>1, FS_AddElement DEF RuntimeInv, RuntimeTypes
  <2>2. ~Producing(r)
    BY <1>2 DEF Producing
  <2> QED
    BY <1>1, <1>2, <1>3, <2>1, <2>2 DEF RuntimeInv, RuntimeTypes, Owned, Prefixed
<1>5. EntriesOK'
  <2>1. \A q \in Procs : Pending(boot[q]) => boot[q].session \in sessions
    BY DEF RuntimeInv, EntriesOK
  <2>2. Pending(r) => s \notin sessions
    BY <1>2 DEF Pending
  <2>3. ASSUME NEW q \in Procs
        PROVE  /\ boot'[q].pc \in {"idle", "retain"} => ~boot'[q].new
               /\ boot'[q].pc = "start" => state'.code = "none" \/ boot'[q].new
               /\ boot'[q].pc \in {"fork", "download", "publish", "finish", "drain"} => state'.code # "none"
               /\ Pending(boot'[q]) => boot'[q].session \in sessions'
    BY <1>1, <1>2, <1>3, <2>1 DEF RuntimeInv, EntriesOK
  <2>4. ASSUME NEW q \in Procs, NEW o \in Procs, Pending(boot'[q]), Pending(boot'[o]), q # o
        PROVE  boot'[q].session # boot'[o].session
    <3>1. CASE q # p /\ o # p
      BY <1>3, <2>4, <3>1 DEF RuntimeInv, EntriesOK
    <3>2. CASE q = p
      BY <1>2, <1>3, <2>1, <2>2, <2>4, <3>2
    <3>3. CASE o = p
      BY <1>2, <1>3, <2>1, <2>2, <2>4, <3>3
    <3> QED
      BY <3>1, <3>2, <3>3
  <2> QED
    BY <2>3, <2>4 DEF EntriesOK
<1>6. ~Pending(boot[p])
  BY <1>1 DEF Pending
<1>7. sessions \ PendingSessions \subseteq sessions' \ PendingSessions'
  <2> SUFFICES ASSUME NEW x \in sessions, x \notin PendingSessions
               PROVE  x \in sessions' /\ x \notin PendingSessions'
    OBVIOUS
  <2>1. ASSUME NEW q \in Procs, Pending(boot'[q])
        PROVE  boot'[q].session # x
    <3>1. CASE q = p
      BY <1>2, <1>3, <2>1, <3>1 DEF Pending
    <3>2. CASE q # p
      BY <1>3, <2>1, <3>2 DEF PendingSessions
    <3> QED
      BY <3>1, <3>2
  <2> QED
    BY <1>1, <2>1 DEF PendingSessions
<1>8. AttemptsOK'
  <2> DEFINE done == sessions \ PendingSessions
             done2 == sessions' \ PendingSessions'
  <2>1. IsFiniteSet(sessions') /\ done2 \subseteq sessions'
    BY <1>4 DEF RuntimeTypes
  <2>2. IsFiniteSet(done2) /\ done \subseteq done2
    BY <1>7, <2>1, FS_Subset
  <2>3. Cardinality(done) <= Cardinality(done2) /\ Cardinality(done) \in Nat /\ Cardinality(done2) \in Nat
    BY <2>2, FS_Subset, FS_CardinalityType
  <2>4. state.attempts \in Nat /\ state.attempts <= Cardinality(done) + (IF state.code = "none" THEN 0 ELSE 1)
    BY DEF RuntimeInv, RuntimeTypes, States, AttemptsOK
  <2>5. AttemptsOK' <=> state.attempts <= Cardinality(done2) + (IF state.code = "none" THEN 0 ELSE 1)
    BY <1>1 DEF AttemptsOK
  <2> HIDE DEF done, done2
  <2> QED
    BY <2>3, <2>4, <2>5
<1> QED
  BY <1>4, <1>5, <1>8 DEF RuntimeInv

LEMMA NotesInitialRuntime ==
  ASSUME RuntimeInv, NEW p \in Procs, NotesInitial(p)
  PROVE  RuntimeInv'
<1> DEFINE r == [boot[p] EXCEPT !.pc = "lock", !.first = ~initial]
<1>1. /\ boot[p].pc = "note-initial" /\ initial' = TRUE /\ BootTo(p, r)
      /\ UNCHANGED <<published, sessions, state, owner>>
  BY DEF NotesInitial, BootAt
<1>2. r \in Entry /\ r.pc = "lock" /\ r.new = boot[p].new /\ r.session = boot[p].session
  BY EntryTypes DEF Entry, BootPcs
<1> HIDE DEF r
<1>3. ~Producing(r) /\ (Pending(r) => Pending(boot[p]))
  BY <1>1, <1>2 DEF Producing, Pending
<1> QED
  BY <1>1, <1>2, <1>3, UnlockedStep

LEMMA TriesLockRuntime ==
  ASSUME RuntimeInv, NEW p \in Procs, TriesLock(p)
  PROVE  RuntimeInv'
<1>1. boot[p].pc = "lock" /\ UNCHANGED <<published, sessions, initial>>
  BY DEF TriesLock, BootAt, cache
<1>2. /\ boot[p] \in Entry /\ state \in States /\ initial \in BOOLEAN
      /\ NoEntry \in Entry /\ NoEntry.pc = "idle" /\ NoEntry.new = FALSE
  BY EntryTypes
<1>3. ~Producing(NoEntry) /\ ~Pending(NoEntry)
  BY <1>2 DEF Producing, Pending
<1>4. /\ state' \in States /\ state'.attempts = state.attempts
      /\ state'.code = "none" <=> state.code = "none"
  BY <1>2 DEF TriesLock, States
<1>5. published' \subseteq Parts /\ Prefixed' /\ initial' \in BOOLEAN
  BY <1>1 DEF RuntimeInv, RuntimeTypes, Prefixed
<1>6. CASE BootTo(p, NoEntry) /\ UNCHANGED owner
  <2>1. owner' \in Procs \cup {Free}
    BY <1>6 DEF RuntimeInv, RuntimeTypes
  <2> QED
    BY <1>1, <1>2, <1>3, <1>4, <1>5, <1>6, <2>1, BootStep DEF BootTo
<1>7. CASE owner = Free /\ MayStart(p) /\ owner' = p /\ BootGoTo(p, "start")
  <2> DEFINE r == [boot[p] EXCEPT !.pc = "start"]
  <2>1. r \in Entry /\ r.pc = "start" /\ r.new = boot[p].new /\ r.session = boot[p].session
    BY <1>2 DEF Entry, BootPcs
  <2>2. boot' = [boot EXCEPT ![p] = r]
    BY <1>7 DEF BootGoTo, BootTo
  <2> HIDE DEF r
  <2>3. state'.code = "none" \/ r.new
    BY <1>4, <1>7, <2>1 DEF MayStart
  <2>4. Pending(r) => Pending(boot[p])
    BY <1>1, <2>1 DEF Pending
  <2>5. owner' \in Procs \cup {Free} /\ owner \in {Free, p} /\ (Producing(r) => owner' = p)
    BY <1>7
  <2>6. r.pc \in {"idle", "retain"} => ~r.new
    BY <2>1
  <2> QED
    BY <1>1, <1>4, <1>5, <2>1, <2>2, <2>3, <2>4, <2>5, <2>6, BootStep
<1> QED
  BY <1>6, <1>7 DEF TriesLock, Leaves

\* The attempt is that of the first entry, or of the session that was pending.
LEMMA StartsAttemptRuntime ==
  ASSUME RuntimeInv, NEW p \in Procs, StartsAttempt(p)
  PROVE  RuntimeInv'
<1> DEFINE r == [boot[p] EXCEPT !.pc = "fork"]
           s == boot[p].session
           done == sessions \ PendingSessions
           done2 == sessions \ PendingSessions'
<1>1. /\ boot[p].pc = "start" /\ boot' = [boot EXCEPT ![p] = r]
      /\ UNCHANGED <<published, sessions, initial, owner>>
  BY DEF StartsAttempt, BootAt, BootGoTo, BootTo, cache
<1>2. r \in Entry /\ r.pc = "fork" /\ state \in States
  BY EntryTypes DEF Entry, BootPcs
<1> HIDE DEF r
<1>3. boot'[p] = r /\ \A q \in Procs : q # p => boot'[q] = boot[q]
  BY <1>1 DEF RuntimeInv, RuntimeTypes
<1>4. state' \in States /\ state'.code = "PREPARING" /\ state'.attempts = state.attempts + 1
  BY <1>2 DEF StartsAttempt, States
<1>5. ~Pending(r)
  BY <1>2 DEF Pending
<1>6. owner = p
  BY <1>1 DEF RuntimeInv, Owned, Producing
<1>7. RuntimeTypes' /\ Owned' /\ Prefixed' /\ EntriesOK'
  <2>1. RuntimeTypes' /\ Owned' /\ Prefixed'
    BY <1>1, <1>2, <1>3, <1>4, <1>6 DEF RuntimeInv, RuntimeTypes, Owned, Prefixed
  <2>2. \A q \in Procs : q # p => boot[q].pc # "start"
    BY <1>6 DEF RuntimeInv, Owned, Producing
  <2>3. EntriesOK'
    <3>1. ASSUME NEW q \in Procs
          PROVE  /\ boot'[q].pc \in {"idle", "retain"} => ~boot'[q].new
                 /\ boot'[q].pc # "start" /\ state'.code # "none"
                 /\ Pending(boot'[q]) => boot'[q].session \in sessions'
      BY <1>1, <1>2, <1>3, <1>4, <1>5, <2>2 DEF RuntimeInv, EntriesOK
    <3>2. ASSUME NEW q \in Procs, NEW o \in Procs, Pending(boot'[q]), Pending(boot'[o]), q # o
          PROVE  boot'[q].session # boot'[o].session
      BY <1>3, <1>5, <3>2 DEF RuntimeInv, EntriesOK
    <3> QED
      BY <3>1, <3>2 DEF EntriesOK
  <2> QED
    BY <2>1, <2>3
<1>8. done \subseteq done2
  BY <1>3, <1>5 DEF PendingSessions
<1>9. IsFiniteSet(done2) /\ IsFiniteSet(done)
  <2>1. IsFiniteSet(sessions) /\ done2 \subseteq sessions /\ done \subseteq sessions
    BY DEF RuntimeInv, RuntimeTypes
  <2> QED
    BY <2>1, FS_Subset
<1>10. Cardinality(done) <= Cardinality(done2) /\ Cardinality(done) \in Nat /\ Cardinality(done2) \in Nat
  BY <1>8, <1>9, FS_Subset, FS_CardinalityType
<1>11. state.attempts \in Nat /\ state.attempts <= Cardinality(done) + (IF state.code = "none" THEN 0 ELSE 1)
  BY DEF RuntimeInv, RuntimeTypes, States, AttemptsOK
<1>12. state.code # "none" => Cardinality(done) + 1 <= Cardinality(done2)
  <2> SUFFICES ASSUME state.code # "none"
               PROVE  Cardinality(done) + 1 <= Cardinality(done2)
    OBVIOUS
  <2>1. Pending(boot[p]) /\ s \in sessions
    BY <1>1 DEF RuntimeInv, EntriesOK, Pending
  <2>2. s \in PendingSessions
    BY <2>1 DEF PendingSessions
  <2>3. \A q \in Procs : Pending(boot'[q]) => boot'[q].session # s
    BY <1>3, <1>5, <2>1 DEF RuntimeInv, EntriesOK
  <2>4. s \notin PendingSessions'
    BY <2>3 DEF PendingSessions
  <2>5. done \cup {s} \subseteq done2 /\ s \notin done
    BY <1>8, <2>1, <2>2, <2>4
  <2> HIDE DEF done, done2, s
  <2>6. Cardinality(done \cup {s}) = Cardinality(done) + 1
    BY <1>9, <2>5, FS_AddElement
  <2>7. Cardinality(done \cup {s}) <= Cardinality(done2)
    BY <1>9, <2>5, FS_Subset
  <2> QED
    BY <2>6, <2>7
<1>13. AttemptsOK' <=> state.attempts + 1 <= Cardinality(done2) + 1
  BY <1>1, <1>4 DEF AttemptsOK
<1> HIDE DEF done, done2
<1>14. AttemptsOK'
  <2>1. CASE state.code = "none"
    BY <1>10, <1>11, <1>13, <2>1
  <2>2. CASE state.code # "none"
    BY <1>10, <1>11, <1>12, <1>13, <2>2
  <2> QED
    BY <2>1, <2>2
<1> QED
  BY <1>7, <1>14 DEF RuntimeInv

\* The producer goes on, or is over: it has no session of its own any more.
LEMMA ProducerStep ==
  ASSUME RuntimeInv, NEW p \in Procs, NEW r \in Entry, BootTo(p, r), ~Pending(r),
         r.pc \in {"idle", "retain"} => ~r.new, r.pc # "start",
         Producing(r) => Producing(boot[p]) /\ boot[p].pc # "start" /\ UNCHANGED owner,
         UNCHANGED owner \/ owner' = (IF owner = p THEN Free ELSE owner),
         UNCHANGED <<sessions, initial>>, published' \subseteq Parts, Prefixed',
         state' \in States, state'.attempts = state.attempts, state'.code = "none" <=> state.code = "none"
  PROVE  RuntimeInv'
<1>1. Producing(r) => owner' = p
  BY DEF RuntimeInv, Owned
<1>2. r.pc \in {"fork", "download", "publish", "finish", "drain"} => state'.code # "none"
  BY DEF RuntimeInv, EntriesOK, Producing
<1>3. owner' \in Procs \cup {Free} /\ (owner' = owner \/ owner \in {Free, p}) /\ initial' \in BOOLEAN
  BY DEF RuntimeInv, RuntimeTypes
<1> QED
  BY <1>1, <1>2, <1>3, BootStep DEF BootTo

LEMMA ExitsRuntime ==
  ASSUME RuntimeInv, NEW p \in Procs, Exits(p), UNCHANGED <<sessions, initial, published>>,
         state' \in States, state'.attempts = state.attempts, state'.code = "none" <=> state.code = "none"
  PROVE  RuntimeInv'
<1>1. NoEntry \in Entry /\ NoEntry.pc = "idle" /\ NoEntry.new = FALSE
  BY EntryTypes
<1>2. ~Producing(NoEntry) /\ ~Pending(NoEntry)
  BY <1>1 DEF Producing, Pending
<1>3. published' \subseteq Parts /\ Prefixed'
  BY DEF RuntimeInv, RuntimeTypes, Prefixed
<1> QED
  BY <1>1, <1>2, <1>3, ProducerStep DEF Exits

LEMMA ForksRuntime ==
  ASSUME RuntimeInv, NEW p \in Procs, Forks(p)
  PROVE  RuntimeInv'
<1> DEFINE r == [NoEntry EXCEPT !.pc = "download"]
<1>1. boot[p].pc = "fork" /\ BootTo(p, r) /\ UNCHANGED <<published, sessions, initial, state, owner>>
  BY DEF Forks, BootAt, cache
<1>2. r \in Entry /\ r.pc = "download" /\ r.new = FALSE
  BY DEF Entry, BootPcs, NoEntry
<1> HIDE DEF r
<1>3. Producing(boot[p]) /\ ~Pending(r) /\ published' \subseteq Parts /\ Prefixed' /\ state' \in States
  BY <1>1, <1>2 DEF Producing, Pending, RuntimeInv, RuntimeTypes, Prefixed
<1> QED
  BY <1>1, <1>2, <1>3, ProducerStep

\* A producer at one of its steps goes on to the next.
LEMMA ProducerGoes ==
  ASSUME RuntimeInv, NEW p \in Procs, boot[p].pc \in {"download", "publish", "finish"},
         NEW pc \in {"publish", "finish", "drain"}, BootGoTo(p, pc),
         UNCHANGED <<published, sessions, initial, owner>>,
         state' \in States, state'.attempts = state.attempts, state'.code = "none" <=> state.code = "none"
  PROVE  RuntimeInv'
<1> DEFINE r == [boot[p] EXCEPT !.pc = pc]
<1>1. r \in Entry /\ r.pc = pc
  BY EntryTypes DEF Entry, BootPcs
<1>2. BootTo(p, r)
  BY DEF BootGoTo
<1> HIDE DEF r
<1>3. Producing(boot[p]) /\ ~Pending(r) /\ published' \subseteq Parts /\ Prefixed'
  BY <1>1 DEF Producing, Pending, RuntimeInv, RuntimeTypes, Prefixed
<1> QED
  BY <1>1, <1>2, <1>3, ProducerStep

LEMMA DownloadsRuntime ==
  ASSUME RuntimeInv, NEW p \in Procs, Downloads(p)
  PROVE  RuntimeInv'
<1>1. boot[p].pc = "download" /\ UNCHANGED <<published, sessions, initial>>
  BY DEF Downloads, BootAt, cache
<1>2. state \in States /\ state.code # "none"
  <2>1. state \in States
    BY EntryTypes
  <2> QED
    BY <2>1, <1>1 DEF RuntimeInv, EntriesOK
<1>3. CASE BootGoTo(p, "publish") /\ UNCHANGED <<state, owner>>
  BY <1>1, <1>2, <1>3, ProducerGoes
<1>4. CASE state' = [state EXCEPT !.code = "FAILED"] /\ Exits(p)
  <2>1. state' \in States /\ state'.attempts = state.attempts /\ state'.code = "FAILED"
    BY <1>2, <1>4 DEF States
  <2> QED
    BY <1>1, <1>2, <1>4, <2>1, ExitsRuntime
<1> QED
  BY <1>3, <1>4 DEF Downloads

LEMMA PublishesRuntime ==
  ASSUME RuntimeInv, NEW p \in Procs, Publishes(p)
  PROVE  RuntimeInv'
<1>1. boot[p].pc = "publish" /\ UNCHANGED <<sessions, initial, state, owner>>
  BY DEF Publishes, BootAt
<1>2. state' \in States
  BY <1>1, EntryTypes
<1>3. CASE BootGoTo(p, "finish") /\ UNCHANGED published
  BY <1>1, <1>2, <1>3, ProducerGoes
<1>4. CASE /\ ~Visible /\ UNCHANGED boot
           /\ published' = published \cup {Order[CHOOSE i \in Missing : \A j \in Missing : i <= j]}
  <2>1. DOMAIN Order = 1..4 /\ Order[4] = "node"
    BY DEF Order
  <2>2. Missing \subseteq 1..4 /\ 4 \in Missing
    BY <1>4, <2>1 DEF Missing, Visible
  <2>3. \E i \in Missing : \A j \in Missing : i <= j
    <3>1. CASE 1 \in Missing
      BY <2>2, <3>1
    <3>2. CASE 1 \notin Missing /\ 2 \in Missing
      BY <2>2, <3>2
    <3>3. CASE 1 \notin Missing /\ 2 \notin Missing /\ 3 \in Missing
      BY <2>2, <3>3
    <3>4. CASE 1 \notin Missing /\ 2 \notin Missing /\ 3 \notin Missing
      BY <2>2, <3>4
    <3> QED
      BY <3>1, <3>2, <3>3, <3>4
  <2> DEFINE first == CHOOSE i \in Missing : \A j \in Missing : i <= j
  <2>4. first \in Missing /\ \A j \in Missing : first <= j
    BY <2>3
  <2>5. published' = published \cup {Order[first]}
    BY <1>4
  <2> HIDE DEF first
  <2>6. first \in 1..4 /\ \A j \in 1..4 : j < first => Order[j] \in published
    BY <2>1, <2>2, <2>4 DEF Missing
  <2>7. published' \subseteq Parts
    BY <2>1, <2>5, <2>6 DEF RuntimeInv, RuntimeTypes, Parts
  <2>8. \A i, j \in 1..4 : i # j => Order[i] # Order[j]
    BY DEF Order
  <2>9. Prefixed'
    <3> SUFFICES ASSUME NEW i \in 1..4, NEW j \in 1..4, i < j, Order[j] \in published'
                 PROVE  Order[i] \in published'
      BY <2>1 DEF Prefixed
    <3>1. CASE Order[j] \in published
      BY <2>1, <2>5, <3>1 DEF RuntimeInv, Prefixed
    <3>2. CASE Order[j] = Order[first]
      BY <2>5, <2>6, <2>8, <3>2
    <3> QED
      BY <2>5, <3>1, <3>2
  <2>10. RuntimeTypes' /\ Owned' /\ EntriesOK'
    BY <1>1, <1>2, <1>4, <2>7 DEF RuntimeInv, RuntimeTypes, Owned, EntriesOK
  <2>11. PendingSessions' \subseteq PendingSessions
    BY <1>4 DEF PendingSessions
  <2> QED
    BY <1>1, <1>2, <2>9, <2>10, <2>11, AttemptsKept DEF RuntimeInv
<1> QED
  BY <1>3, <1>4 DEF Publishes

LEMMA FinishesRuntime ==
  ASSUME RuntimeInv, NEW p \in Procs, Finishes(p)
  PROVE  RuntimeInv'
<1>1. /\ boot[p].pc = "finish" /\ BootGoTo(p, "drain") /\ state' = [state EXCEPT !.code = "READY"]
      /\ UNCHANGED <<published, sessions, initial, owner>>
  BY DEF Finishes, BootAt, cache
<1>2. state \in States /\ state.code # "none"
  <2>1. state \in States
    BY EntryTypes
  <2> QED
    BY <2>1, <1>1 DEF RuntimeInv, EntriesOK
<1>3. state' \in States /\ state'.attempts = state.attempts /\ state'.code = "READY"
  BY <1>1, <1>2 DEF States
<1> QED
  BY <1>1, <1>2, <1>3, ProducerGoes

LEMMA ProducerEndsRuntime ==
  ASSUME RuntimeInv, NEW p \in Procs, ProducerEnds(p)
  PROVE  RuntimeInv'
BY ExitsRuntime, EntryTypes DEF ProducerEnds, cache

LEMMA KilledRuntime ==
  ASSUME RuntimeInv, NEW p \in Procs, Killed(p)
  PROVE  RuntimeInv'
<1>1. UNCHANGED <<published, sessions, initial, state>> /\ state \in States
  BY EntryTypes DEF Killed, cache
<1>2. CASE Exits(p)
  BY <1>1, <1>2, ExitsRuntime
<1>3. CASE BootTo(p, NoEntry) /\ UNCHANGED owner
  <2>1. NoEntry \in Entry /\ NoEntry.pc = "idle" /\ NoEntry.new = FALSE /\ initial \in BOOLEAN
    BY EntryTypes
  <2>2. ~Producing(NoEntry) /\ ~Pending(NoEntry)
    BY <2>1 DEF Producing, Pending
  <2> QED
    BY <1>1, <1>3, <2>1, <2>2, UnlockedStep
<1>4. CASE UNCHANGED <<boot, owner>>
  BY <1>1, <1>4, StateStep
<1> QED
  BY <1>2, <1>3, <1>4 DEF Killed

LEMMA RunsNodeRuntime ==
  ASSUME RuntimeInv, NEW p \in Procs, RunsNode(p) \/ Repairs
  PROVE  RuntimeInv'
<1>1. UNCHANGED <<published, sessions, initial, owner, boot>> /\ state' \in {state, Repaired}
  BY DEF RunsNode, Repairs, cache
<1>2. state \in States
  BY EntryTypes
<1> QED
  BY <1>1, <1>2, RepairedOK, StateStep

----------------------------------------------------------------------------
(* The invariants *)

LEMMA ContinuesKeeps ==
  ASSUME AgentInv, NEW p \in Procs, Continues(p)
  PROVE  AgentInv'
<1>1. CASE CollectionStep(p)
  BY <1>1, HookLooksKeeps, HookLocksKeeps, HookObservesKeeps, DrainReadsKeeps, DrainLocksKeeps,
     DrainChecksKeeps, DrainRecordsKeeps, DrainRemovesKeeps DEF CollectionStep
<1>2. CASE SenderStep(p)
  BY <1>2, TickEnabledKeeps, TickUploadsKeeps, NextRowKeeps, NextInstallKeeps, FreezeKeeps, SignKeeps,
     MarkUnconfirmedKeeps, WriteMarkerKeeps, PostKeeps, ServerAnswersKeeps, RequestFailsKeeps,
     RecordOutcomeKeeps, RemoveMarkerKeeps DEF SenderStep
<1>3. CASE WithdrawStep(p)
  BY <1>3, BeginLocksKeeps, BeginWithholdsKeeps, BeginDeclaresKeeps, BeginErasesKeeps, BeginClearsKeeps,
     FinishReadsKeeps, FinishLocksKeeps, FinishErasesKeeps, FinishBarsKeeps, FinishRereadsKeeps,
     CoreWithdrawsKeeps, CoreFailsKeeps, FinishDecidesKeeps, FinishRecordsKeeps DEF WithdrawStep
<1>4. CASE ResendReopens(p)
  BY <1>4, ResendReopensKeeps
<1> QED
  BY <1>1, <1>2, <1>3, <1>4 DEF Continues

LEMMA Unmoved ==
  ASSUME AgentInv, UNCHANGED <<core, files, lock, proc, server, open>>
  PROVE  AgentInv'
BY DEF AgentInv, ProcTypes, Globals, CoreTypes, FileTypes, GensOK, OpenOK, ServerOK, WithdrawalOK,
       SignedOutcomeKept, Exclusive, ProcsOK, SenderOK, BarrierOK, files, local

LEMMA FinishesKeeps ==
  ASSUME AgentInv, NEW p \in Procs, Finishes(p)
  PROVE  AgentInv'
<1> DEFINE r == [Idle EXCEPT !.pc = "drain", !.program = "drain"]
<1>1. r \in Record /\ r.pc = "drain" /\ r.program = "drain"
  BY IdleOK DEF Program, Record, Pcs, Programs
<1>2. Quiets /\ UNCHANGED lock /\ proc' = [proc EXCEPT ![p] = r]
  BY DEF Finishes, Quiets, Become, history
<1> HIDE DEF r
<1>3. r \in Program /\ ~NeedsSender(r)
  BY <1>1 DEF Program, HasFact, NeedsSender, Sending
<1> QED
  BY <1>2, <1>3, Keeps, FreeStep

LEMMA InitInv == RuntimeInit => AgentInv /\ RuntimeInv
<1> SUFFICES ASSUME RuntimeInit PROVE AgentInv /\ RuntimeInv
  OBVIOUS
<1>1. /\ events = NoEvents /\ install = NoInstall /\ prepared = {} /\ inflight = {} /\ open = {}
      /\ lock = [n \in Locks |-> Free] /\ proc = [p \in Procs |-> Idle]
      /\ server.stored = {} /\ server.late = {}
  BY DEF RuntimeInit, Init
<1>2. CoreTypes /\ GensOK /\ WithdrawalOK
  <2>1. CASE /\ core = [consent |-> "unset", gen |-> 0] /\ withdrawal = [state |-> "none", gen |-> 0]
             /\ server = [stored |-> {}, tombstones |-> {}, late |-> {}]
    BY <1>1, <2>1 DEF CoreTypes, GensOK, WithdrawalOK, Consents, NoInstall
  <2>2. CASE /\ core = [consent |-> "granted", gen |-> 1] /\ withdrawal = [state |-> "none", gen |-> 0]
             /\ server = [stored |-> {}, tombstones |-> {}, late |-> {}]
    BY <1>1, <2>2 DEF CoreTypes, GensOK, WithdrawalOK, Consents, NoInstall
  <2>3. CASE /\ core = [consent |-> "withheld", gen |-> 1] /\ withdrawal = [state |-> "sent", gen |-> 1]
             /\ server = [stored |-> {}, tombstones |-> {1}, late |-> {}]
    BY <1>1, <2>3 DEF CoreTypes, GensOK, WithdrawalOK, Consents, NoInstall
  <2> QED
    BY <2>1, <2>2, <2>3 DEF RuntimeInit, Init
<1>3. FileTypes /\ SignedOutcomeKept /\ OpenOK /\ ServerOK
  BY <1>1 DEF FileTypes, SignedOutcomeKept, OpenOK, ServerOK, NoEvents, NoInstall, Deliveries
<1>4. ProcTypes
  BY <1>1, IdleOK DEF ProcTypes, Free
<1>5. Exclusive /\ ProcsOK
  BY <1>1, IdleOK DEF Exclusive, ProcsOK
<1>6. /\ sessions = {} /\ initial = FALSE /\ owner = Free /\ boot = [p \in Procs |-> NoEntry]
      /\ published \in {{}, Parts} /\ state \in States
      /\ state.attempts <= IF state.code = "none" THEN 0 ELSE 1
  BY DEF RuntimeInit, States
<1>7. NoEntry \in Entry /\ NoEntry.pc = "idle" /\ NoEntry.new = FALSE
  BY DEF NoEntry, Entry, BootPcs
<1>8. ~Producing(NoEntry) /\ ~Pending(NoEntry)
  BY <1>7 DEF Producing, Pending
<1>9. RuntimeTypes /\ Owned /\ EntriesOK
  BY <1>6, <1>7, <1>8, FS_EmptySet DEF RuntimeTypes, Owned, EntriesOK
<1>10. Prefixed
  BY <1>6 DEF Prefixed, Parts
<1>11. AttemptsOK
  <2>1. Cardinality(sessions \ PendingSessions) = 0
    <3>1. sessions \ PendingSessions = {}
      BY <1>6
    <3> QED
      BY <3>1, FS_EmptySet
  <2> QED
    BY <1>6, <2>1 DEF AttemptsOK, States
<1> QED
  BY <1>2, <1>3, <1>4, <1>5, <1>9, <1>10, <1>11 DEF AgentInv, Globals, RuntimeInv

LEMMA NextInv ==
  ASSUME AgentInv, RuntimeInv, [RuntimeNext]_<<vars, runtime>>
  PROVE  AgentInv' /\ RuntimeInv'
<1>1. ASSUME UNCHANGED vars
      PROVE  AgentInv'
  BY <1>1, Unmoved DEF vars, history
<1>2. ASSUME UNCHANGED runtime
      PROVE  RuntimeInv'
  BY <1>2, EntryTypes, StateStep DEF runtime, cache, RuntimeInv, RuntimeTypes
<1>3. ASSUME NEW p \in Procs, EntryStep(p)
      PROVE  AgentInv' /\ RuntimeInv'
  <2>1. CASE RunsNode(p)
    BY <2>1, StartsKeep, RunsNodeRuntime DEF RunsNode, Starts
  <2>2. CASE CallEnters(p)
    <3>1. AgentInv'
      BY <2>2, StartsKeep, Unmoved DEF CallEnters, history
    <3> QED
      BY <2>2, <3>1, EntersRuntime
  <2>3. CASE CallRetained(p)
    BY <2>3, PrepareRetainsKeeps, EntersRuntime DEF CallRetained
  <2>4. CASE Enters(p)
    <3>1. AgentInv'
      BY <2>4, Unmoved DEF Enters, history
    <3> QED
      BY <2>4, <3>1, EntersRuntime
  <2>5. CASE NotesSession(p)
    BY <1>1, <2>5, NotesSessionRuntime DEF NotesSession
  <2>6. CASE NotesInitial(p)
    BY <1>1, <2>6, NotesInitialRuntime DEF NotesInitial
  <2>7. CASE TriesLock(p)
    BY <1>1, <2>7, TriesLockRuntime DEF TriesLock
  <2>8. CASE StartsAttempt(p)
    BY <1>1, <2>8, StartsAttemptRuntime DEF StartsAttempt
  <2>9. CASE Forks(p)
    BY <1>1, <2>9, ForksRuntime DEF Forks
  <2>10. CASE Downloads(p)
    <3>1. AgentInv'
      BY <2>10, Unmoved DEF Downloads, history
    <3> QED
      BY <2>10, <3>1, DownloadsRuntime
  <2>11. CASE Publishes(p)
    BY <1>1, <2>11, PublishesRuntime DEF Publishes
  <2>12. CASE Finishes(p)
    BY <2>12, FinishesKeeps, FinishesRuntime
  <2>13. CASE ProducerEnds(p)
    BY <1>1, <2>13, ProducerEndsRuntime DEF ProducerEnds
  <2> QED
    BY <1>3, <2>1, <2>2, <2>3, <2>4, <2>5, <2>6, <2>7, <2>8, <2>9, <2>10, <2>11, <2>12, <2>13
       DEF EntryStep
<1>4. ASSUME NEW p \in Procs, Killed(p)
      PROVE  AgentInv' /\ RuntimeInv'
  <2>1. AgentInv'
    BY <1>4, CrashKeeps, Unmoved DEF Killed, history
  <2> QED
    BY <1>4, <2>1, KilledRuntime
<1>5. ASSUME NEW p \in Procs, Continues(p), UNCHANGED runtime
      PROVE  AgentInv' /\ RuntimeInv'
  BY <1>2, <1>5, ContinuesKeeps
<1>6. ASSUME Repairs
      PROVE  AgentInv' /\ RuntimeInv'
  <2>1. UNCHANGED <<published, sessions, initial, owner, boot>> /\ state' = Repaired
    BY <1>6 DEF Repairs, cache
  <2>2. RuntimeInv'
    BY <2>1, RepairedOK, StateStep
  <2> QED
    BY <1>1, <1>6, <2>2 DEF Repairs
<1>7. ASSUME TakesOver
      PROVE  AgentInv' /\ RuntimeInv'
  <2>1. UNCHANGED <<published, sessions, initial, owner, boot, state>> /\ state \in States
    BY <1>7 DEF TakesOver, cache, RuntimeInv, RuntimeTypes
  <2>2. RuntimeInv'
    BY <2>1, StateStep
  <2> QED
    BY <1>1, <1>7, <2>2 DEF TakesOver
<1>8. ASSUME LateRequestArrives \/ Grant, UNCHANGED runtime
      PROVE  AgentInv' /\ RuntimeInv'
  BY <1>2, <1>8, LateRequestArrivesKeeps, GrantKeeps
<1>9. ASSUME UNCHANGED <<vars, runtime>>
      PROVE  AgentInv' /\ RuntimeInv'
  BY <1>1, <1>2, <1>9
<1> QED
  BY <1>3, <1>4, <1>5, <1>6, <1>7, <1>8, <1>9 DEF RuntimeNext

\* Whoever sends, or ends a consent, holds the sender lock, and what follows
\* from it; at every state, for any number of processes.
THEOREM AgentInvariant == RuntimeSpec => [](AgentInv /\ RuntimeInv)
<1>1. AgentInv /\ RuntimeInv /\ [RuntimeNext]_<<vars, runtime>> => (AgentInv /\ RuntimeInv)'
  BY NextInv
<1> QED
  BY InitInv, <1>1, PTL DEF RuntimeSpec

----------------------------------------------------------------------------
(* What follows *)

\* A row and its signed bytes tell the same outcome (freezeWire, observe).
THEOREM SignedOutcome == RuntimeSpec => []SignedOutcomeKept
<1>1. AgentInv => SignedOutcomeKept
  BY DEF AgentInv, Globals
<1> QED
  BY AgentInvariant, <1>1, PTL

\* A request that may be unanswered has its file in inflight/, unless its
\* consent is ended (upload.mjs:36).
THEOREM Unanswered == RuntimeSpec => []UnansweredHasMarker
<1>1. AgentInv => UnansweredHasMarker
  BY DEF AgentInv, Globals, OpenOK, UnansweredHasMarker
<1> QED
  BY AgentInvariant, <1>1, PTL

\* Nothing is sent under a consent that the server has ended (withdraw.mjs:16).
THEOREM Barrier == RuntimeSpec => []NothingSentAfterBarrier
<1>1. AgentInv => NothingSentAfterBarrier
  BY DEF AgentInv, ProcsOK, SenderOK, Sending, HasWire, NothingSentAfterBarrier, At
<1> QED
  BY AgentInvariant, <1>1, PTL

\* A finished withdrawal leaves nothing of that consent at the server.
THEOREM ErasedAtServer == RuntimeSpec => []WithdrawnIsErasedAtServer
<1>1. AgentInv => WithdrawnIsErasedAtServer
  <2> SUFFICES ASSUME AgentInv, WithdrawalDone, NEW x \in server.stored
               PROVE  x.gen # withdrawal.gen
    BY DEF WithdrawnIsErasedAtServer
  <2>1. withdrawal.gen \in server.tombstones \cup {0}
    BY DEF AgentInv, Globals, WithdrawalOK, WithdrawalDone
  <2>2. x.gen >= 1 /\ x.gen \notin server.tombstones
    BY DEF AgentInv, Globals, ServerOK
  <2> QED
    BY <2>1, <2>2
<1> QED
  BY AgentInvariant, <1>1, PTL

\* At most one producer downloads (runtime-bootstrap.pl:126).
THEOREM SingleProducer == RuntimeSpec => []OneProducer
<1>1. RuntimeInv => OneProducer
  <2> SUFFICES ASSUME RuntimeInv PROVE OneProducer
    OBVIOUS
  <2> DEFINE producers == {p \in Procs : boot[p].pc \in {"download", "publish", "finish", "drain"}}
  <2>1. producers \subseteq {owner}
    BY DEF RuntimeInv, Owned, Producing
  <2>2. IsFiniteSet({owner}) /\ Cardinality({owner}) = 1
    BY FS_Singleton
  <2>3. IsFiniteSet(producers) /\ Cardinality(producers) <= 1
    BY <2>1, <2>2, FS_Subset
  <2> QED
    BY <2>3 DEF OneProducer
<1> QED
  BY AgentInvariant, <1>1, PTL

\* Node is published last (runtime-bootstrap.pl:109).
THEOREM WholeRuntime == RuntimeSpec => []PublishedWhole
<1>1. RuntimeInv => PublishedWhole
  <2> SUFFICES ASSUME RuntimeInv, Visible PROVE published = Parts
    BY DEF PublishedWhole
  <2>1. DOMAIN Order = 1..4 /\ Order[4] = "node"
    BY DEF Order
  <2>2. \A i \in 1..4 : Order[i] \in published
    BY <2>1 DEF RuntimeInv, Prefixed, Visible
  <2> QED
    BY <2>1, <2>2 DEF Parts, RuntimeInv, RuntimeTypes
<1> QED
  BY AgentInvariant, <1>1, PTL

\* The first attempt, then one per session (runtime-bootstrap.pl:120).
THEOREM FewAttempts == RuntimeSpec => []OneAttemptPerSession
<1>1. RuntimeInv => OneAttemptPerSession
  <2> SUFFICES ASSUME RuntimeInv PROVE state.attempts <= 1 + Cardinality(sessions)
    BY DEF OneAttemptPerSession
  <2> DEFINE done == sessions \ PendingSessions
  <2>1. IsFiniteSet(sessions) /\ done \subseteq sessions
    BY DEF RuntimeInv, RuntimeTypes
  <2>2. IsFiniteSet(done) /\ Cardinality(done) <= Cardinality(sessions)
    BY <2>1, FS_Subset
  <2>3. Cardinality(done) \in Nat /\ Cardinality(sessions) \in Nat
    BY <2>1, <2>2, FS_CardinalityType
  <2>4. state.attempts \in Nat /\ state.attempts <= Cardinality(done) + (IF state.code = "none" THEN 0 ELSE 1)
    BY DEF RuntimeInv, RuntimeTypes, States, AttemptsOK
  <2> HIDE DEF done
  <2> QED
    BY <2>2, <2>3, <2>4
<1> QED
  BY AgentInvariant, <1>1, PTL

----------------------------------------------------------------------------
(* No event leaves twice unasked, and a finished withdrawal leaves nothing *)
(* The erasure of withdraw.mjs:16 and what it waits for are under two      *)
(* locks, so both need that no finisher is past its erasure while another  *)
(* process declares a withdrawal and erases.                               *)

Past == {"barrier", "latest", "call", "decide", "record"}
Apart == \A p, q \in Procs : proc[p].pc \in {"declare", "wipe"} => proc[q].pc \notin Past

\* Collection is stopped, and no drain that saw it go on still writes.
Stopped == core.consent = "withheld" \/ withdrawal.state = "pending"
Recording(r) == r.pc \in {"drain-record", "drain-remove"}
Halted == Stopped /\ \A p \in Procs : ~Recording(proc[p])
Gone == events = NoEvents /\ install = NoInstall /\ Halted

\* What has the collection lock.
Holding(r) ==
  Recording(r) \/ r.pc \in {"observe", "drain-check", "withhold", "declare", "wipe", "clear", "erase"}
Collecting == \A p \in Procs : Holding(proc[p]) => lock["collection"] = p

\* An event that may be unanswered under the consent of now: its row still says
\* so, unless the person asked for it; or it is gone, and stays so as long as
\* this consent is not ended.
Live(e) == core.gen \notin server.tombstones /\ [event |-> e, gen |-> core.gen] \in open
RowOK(f) == IF f \in DOMAIN events THEN events[f].wire.gen = core.gen ELSE Halted
FactsOK ==
  \A f \in Facts : Live(f) =>
    RowOK(f) /\ (f \in DOMAIN events => events[f].delivery # "none" \/ asked[f] > 0)
InstallOK ==
  /\ install.gen # 0 /\ install.delivery = "none" => [event |-> Install, gen |-> install.gen] \notin open
  /\ Live(Install) => (install.gen = core.gen /\ install.delivery # "none") \/ Gone

\* The same of what a sender has in its hands.
Before(r) == r.pc \in {"sign", "mark", "flight", "post"}
Marked(r) == r.pc \in {"flight", "post"}
SendOK(r) ==
  /\ Sending(r) => \A f \in r.queue : Live(f) => asked[f] > 0
  /\ Sending(r) /\ r.pc # "next" => r.item \notin r.queue
  /\ r.pc = "freeze" /\ r.item \in Facts => ~Live(r.item)
  /\ r.pc = "freeze" /\ r.item = Install => install = NoInstall
  /\ Before(r) /\ r.item \in Facts => RowOK(r.item) /\ (Live(r.item) => asked[r.item] > 0)
  /\ Marked(r) /\ r.item \in DOMAIN events /\ events[r.item].delivery = "none" =>
       asked[r.item] > IF Live(r.item) THEN 1 ELSE 0
  /\ Before(r) /\ r.item = Install =>
       [event |-> Install, gen |-> r.wire] \notin open /\ (install.gen = r.wire \/ Gone)
  /\ Marked(r) /\ r.item = Install => install.delivery # "none" \/ install = NoInstall

\* A finisher that is about to say `sent` has nothing open; one that is about to
\* erase has declared it.
EndOK(r) ==
  /\ r.pc = "reopen" => r.item \in Facts
  /\ r.pc = "record" => \A x \in open : x.gen \in server.tombstones
  /\ r.pc = "wipe" => withdrawal.state = "pending"

\* Resends are counted; bytes signed for no consent are no bytes.
ReplayTypes ==
  /\ asked \in [EventIds -> Nat]
  /\ \A f \in DOMAIN events : events[f].wire.gen = 0 => events[f].wire = NoWire
ReplayInv ==
  /\ ReplayTypes /\ Collecting /\ FactsOK /\ InstallOK
  /\ \A p \in Procs : SendOK(proc[p]) /\ EndOK(proc[p])

----------------------------------------------------------------------------
(* The collection lock *)

CollectStep(p, r) ==
  /\ Holding(r) => lock'["collection"] = p
  /\ lock'["collection"] = lock["collection"] \/ lock["collection"] \in {Free, p}

LEMMA CollectingStays ==
  ASSUME ProcTypes, Collecting, NEW p \in Procs, NEW r, proc' = [proc EXCEPT ![p] = r], CollectStep(p, r)
  PROVE  Collecting'
<1>1. proc'[p] = r /\ \A q \in Procs : q # p => proc'[q] = proc[q]
  BY DEF ProcTypes
<1> SUFFICES ASSUME NEW q \in Procs, Holding(proc'[q]) PROVE lock'["collection"] = q
  BY DEF Collecting, Holding, Recording
<1> QED
  BY <1>1 DEF Collecting, CollectStep, Free

\* What does not take the lock has it already, and keeps it.
LEMMA CollectKeeps ==
  ASSUME Collecting, NEW p \in Procs, NEW r, UNCHANGED lock, Holding(r) => Holding(proc[p])
  PROVE  CollectStep(p, r)
BY DEF Collecting, CollectStep

LEMMA CollectDrops ==
  ASSUME ProcTypes, Collecting, NEW p \in Procs, NEW r, NEW names, Drop(p, names), ~Holding(r)
  PROVE  CollectStep(p, r)
BY DEF CollectStep, Drop, Locks, ProcTypes

LEMMA CollectTakes ==
  ASSUME ProcTypes, Collecting, NEW p \in Procs, NEW r, NEW name \in Locks, Take(p, name),
         Holding(r) => name = "collection"
  PROVE  CollectStep(p, r)
BY DEF CollectStep, Take, Locks, ProcTypes

LEMMA StopsCollect ==
  ASSUME ProcTypes, Collecting, NEW p \in Procs, Stop(p)
  PROVE  proc' = [proc EXCEPT ![p] = Idle] /\ CollectStep(p, Idle)
<1>1. ~Holding(Idle)
  BY DEF Holding, Recording, Idle
<1> QED
  BY <1>1, CollectDrops DEF Stop, Become

----------------------------------------------------------------------------
(* Steps that leave what a sender relies on *)

\* A process nothing is asked of.
Calm(r) == ~Sending(r) /\ r.pc \notin {"reopen", "record", "wipe"}

LEMMA CalmOK ==
  ASSUME NEW r, Calm(r)
  PROVE  SendOK(r) /\ EndOK(r) /\ SendOK(r)' /\ EndOK(r)'
BY DEF Calm, SendOK, EndOK, Sending, Before, Marked

LEMMA Others2 ==
  ASSUME AgentInv, NEW p \in Procs, NEW r, proc' = [proc EXCEPT ![p] = r]
  PROVE  proc'[p] = r /\ \A q \in Procs : q # p => proc'[q] = proc[q]
BY DEF AgentInv, ProcTypes

\* The files a sender reads, and the rest of what it relies on.
Same ==
  /\ core'.gen = core.gen /\ server'.tombstones = server.tombstones
  /\ UNCHANGED <<open, asked, events, install>>
Goes(p, r) ==
  /\ core.consent = "withheld" => core'.consent = "withheld"
  /\ withdrawal.state = "pending" => withdrawal'.state = "pending"
  /\ Recording(r) => Recording(proc[p]) \/ ~Stopped'

LEMMA HaltedStays ==
  ASSUME AgentInv, NEW p \in Procs, NEW r, proc' = [proc EXCEPT ![p] = r], Goes(p, r)
  PROVE  Halted => Halted'
<1>1. proc'[p] = r /\ \A q \in Procs : q # p => proc'[q] = proc[q]
  BY Others2
<1> SUFFICES ASSUME Halted PROVE Halted'
  OBVIOUS
<1>2. Stopped'
  BY DEF Halted, Stopped, Goes
<1>3. \A q \in Procs : ~Recording(proc'[q])
  BY <1>1, <1>2 DEF Halted, Goes
<1> QED
  BY <1>2, <1>3 DEF Halted, Recording

LEMMA SameOK ==
  ASSUME Same, Halted => Halted'
  PROVE  /\ FactsOK => FactsOK'
         /\ InstallOK => InstallOK'
         /\ ReplayTypes => ReplayTypes'
         /\ \A r : SendOK(r) => SendOK(r)'
<1>1. \A e : Live(e)' <=> Live(e)
  BY DEF Same, Live
<1>2. \A f : RowOK(f) => RowOK(f)'
  BY DEF Same, RowOK
<1>3. Gone => Gone'
  BY DEF Same, Gone
<1>4. ASSUME NEW r, SendOK(r) PROVE SendOK(r)'
  BY <1>1, <1>2, <1>3, <1>4 DEF SendOK, Same, Sending, Before, Marked
<1>5. FactsOK => FactsOK'
  BY <1>1, <1>2 DEF FactsOK, Same
<1>6. InstallOK => InstallOK'
  BY <1>1, <1>3 DEF InstallOK, Same
<1>7. ReplayTypes => ReplayTypes'
  BY DEF ReplayTypes, Same
<1> QED
  BY <1>4, <1>5, <1>6, <1>7

LEMMA SameStep ==
  ASSUME AgentInv, ReplayInv, NEW p \in Procs, NEW r, proc' = [proc EXCEPT ![p] = r],
         CollectStep(p, r), Same, Goes(p, r), SendOK(r), EndOK(r)'
  PROVE  ReplayInv'
<1>1. proc'[p] = r /\ \A q \in Procs : q # p => proc'[q] = proc[q]
  BY Others2
<1>2. Collecting'
  BY CollectingStays DEF AgentInv, ReplayInv
<1>3. ReplayTypes' /\ FactsOK' /\ InstallOK' /\ SendOK(r)' /\ \A q \in Procs : SendOK(proc[q]) => q = p \/ SendOK(proc[q])'
  <2>1. Halted => Halted'
    BY HaltedStays
  <2>2. ReplayTypes' /\ FactsOK' /\ InstallOK' /\ SendOK(r)'
    BY <2>1, SameOK DEF ReplayInv
  <2>3. ASSUME NEW q \in Procs, SendOK(proc[q]), q # p PROVE SendOK(proc[q])'
    <3>1. PICK s : s = proc[q]
      OBVIOUS
    <3>2. SendOK(s)'
      BY <2>1, <2>3, <3>1, SameOK
    <3> QED
      BY <1>1, <2>3, <3>1, <3>2
  <2> QED
    BY <2>2, <2>3
<1>4. ASSUME NEW q \in Procs PROVE SendOK(proc[q])' /\ EndOK(proc[q])'
  <2>1. CASE q = p
    BY <1>1, <1>3, <2>1
  <2>2. CASE q # p
    <3>1. SendOK(proc[q]) /\ EndOK(proc[q])
      BY DEF ReplayInv
    <3> QED
      BY <1>1, <1>3, <2>2, <3>1 DEF EndOK, Same, Goes
  <2> QED
    BY <2>1, <2>2
<1> QED
  BY <1>2, <1>3, <1>4 DEF ReplayInv

LEMMA CalmStep ==
  ASSUME AgentInv, ReplayInv, NEW p \in Procs, NEW r, proc' = [proc EXCEPT ![p] = r],
         CollectStep(p, r), Same, Goes(p, r), Calm(r)
  PROVE  ReplayInv'
BY CalmOK, SameStep

LEMMA StopStep ==
  ASSUME AgentInv, ReplayInv, NEW p \in Procs, Stop(p), Same,
         core.consent = "withheld" => core'.consent = "withheld",
         withdrawal.state = "pending" => withdrawal'.state = "pending"
  PROVE  ReplayInv'
<1>1. proc' = [proc EXCEPT ![p] = Idle] /\ CollectStep(p, Idle)
  BY StopsCollect DEF AgentInv, ReplayInv
<1>2. Calm(Idle) /\ ~Recording(Idle)
  BY DEF Calm, Recording, Idle, Sending
<1> QED
  BY <1>1, <1>2, CalmStep DEF Goes

----------------------------------------------------------------------------
(* Hooks, drains, and the rest that is calm *)

Unmoving == UNCHANGED <<core, files, server, history>>

LEMMA UnmovingSame ==
  ASSUME Unmoving, NEW p \in Procs, NEW r, Recording(r) => Recording(proc[p]) \/ ~Stopped
  PROVE  Same /\ Goes(p, r)
BY DEF Unmoving, Same, Goes, files, local, history, Stopped

\* A step to a calm place, by what it does to the collection lock.
LEMMA CalmMove ==
  ASSUME AgentInv, ReplayInv, NEW p \in Procs, NEW r, Become(p, r), Same,
         core.consent = "withheld" => core'.consent = "withheld",
         withdrawal.state = "pending" => withdrawal'.state = "pending",
         Calm(r), Recording(r) => Recording(proc[p]),
         \/ UNCHANGED lock /\ (Holding(r) => Holding(proc[p]))
         \/ ~Holding(r) /\ \E names : Drop(p, names)
         \/ Take(p, "collection")
         \/ Take(p, "sender") /\ ~Holding(r)
  PROVE  ReplayInv'
<1>1. CollectStep(p, r)
  BY CollectKeeps, CollectDrops, CollectTakes DEF AgentInv, ReplayInv, Locks
<1> QED
  BY <1>1, CalmStep DEF Become, Goes

\* A process goes to pc: the shape of most steps.
LEMMA Goto ==
  ASSUME AgentInv, ReplayInv, NEW p \in Procs, NEW pc, GoTo(p, pc), Unmoving,
         Calm([proc[p] EXCEPT !.pc = pc]), pc \notin {"drain-record", "drain-remove"},
         \/ UNCHANGED lock /\ (Holding([proc[p] EXCEPT !.pc = pc]) => Holding(proc[p]))
         \/ ~Holding([proc[p] EXCEPT !.pc = pc]) /\ \E names : Drop(p, names)
         \/ Take(p, "collection")
         \/ Take(p, "sender") /\ ~Holding([proc[p] EXCEPT !.pc = pc])
  PROVE  ReplayInv'
<1>1. PICK r : r = [proc[p] EXCEPT !.pc = pc]
  OBVIOUS
<1>2. r.pc = pc
  BY <1>1 DEF AgentInv, ProcTypes, Program, Record
<1> QED
  BY <1>1, <1>2, UnmovingSame, CalmMove DEF GoTo, Recording, Goes

LEMMA PcOf ==
  ASSUME AgentInv, NEW p \in Procs, NEW pc
  PROVE  [proc[p] EXCEPT !.pc = pc].pc = pc
BY DEF AgentInv, ProcTypes, Program, Record

LEMMA AcquireReplay ==
  ASSUME AgentInv, ReplayInv, NEW p \in Procs,
         NEW pc \in {"observe", "drain-check", "withhold", "erase"}, AcquireCollection(p, pc), Unmoving
  PROVE  ReplayInv'
<1>1. CASE Take(p, "collection") /\ GoTo(p, pc)
  BY <1>1, Goto, PcOf DEF Calm, Sending
<1>2. CASE Stop(p)
  BY <1>2, StopStep DEF Unmoving, Same, files, local, history
<1> QED
  BY <1>1, <1>2 DEF AcquireCollection

LEMMA UnmovingStop ==
  ASSUME AgentInv, ReplayInv, NEW p \in Procs, Stop(p), Unmoving
  PROVE  ReplayInv'
BY StopStep DEF Unmoving, Same, files, local, history

\* A program starts; a resend is for a row.
LEMMA LaunchReplay ==
  ASSUME AgentInv, ReplayInv, NEW p \in Procs, NEW kind, NEW r, NEW s, Launch(p, kind, r), Unmoving,
         UNCHANGED lock, s = [r EXCEPT !.program = kind], s.pc = r.pc, s.item = r.item,
         r.pc \in {"retain", "drain", "finish", "begin", "reopen"}, r.pc = "reopen" => r.item \in Facts
  PROVE  ReplayInv'
<1>1. proc' = [proc EXCEPT ![p] = s] /\ ~Holding(s) /\ ~Recording(s)
  BY DEF Launch, Become, Holding, Recording
<1>2. CollectStep(p, s) /\ Same /\ Goes(p, s)
  BY <1>1, CollectKeeps, UnmovingSame DEF ReplayInv
<1>3. SendOK(s) /\ EndOK(s)'
  BY DEF SendOK, EndOK, Sending, Before, Marked
<1> QED
  BY <1>1, <1>2, <1>3, SameStep

LEMMA StartsReplay ==
  ASSUME AgentInv, ReplayInv, NEW p \in Procs, Starts(p) \/ PrepareStarts(p)
  PROVE  ReplayInv'
<1>1. ASSUME NEW kind, NEW r, Launch(p, kind, r), Unmoving, UNCHANGED lock,
             r.pc \in {"retain", "drain", "finish", "begin", "reopen"}, r.pc = "reopen" => r.item \in Facts,
             [r EXCEPT !.program = kind].pc = r.pc, [r EXCEPT !.program = kind].item = r.item
      PROVE  ReplayInv'
  <2>1. PICK s : s = [r EXCEPT !.program = kind]
    OBVIOUS
  <2> QED
    BY <1>1, <2>1, LaunchReplay
<1>2. CASE HookStarts(p)
  <2>1. PICK f \in Facts, outcome \in {"unknown", "known"} :
          Launch(p, "hook", [Idle EXCEPT !.pc = "drain", !.item = f, !.outcome = outcome])
    BY <1>2 DEF HookStarts
  <2> QED
    BY <1>1, <1>2, <2>1 DEF HookStarts, Unmoving, Idle
<1>3. CASE TickStarts(p)
  BY <1>1, <1>3 DEF TickStarts, Unmoving, Idle
<1>4. CASE WithdrawStarts(p)
  BY <1>1, <1>4 DEF WithdrawStarts, Unmoving, Idle
<1>5. CASE ResendReads(p)
  <2>1. PICK f \in DOMAIN events : Launch(p, "resend", [Idle EXCEPT !.pc = "reopen", !.item = f])
    BY <1>5 DEF ResendReads
  <2>2. f \in Facts
    BY DEF AgentInv, Globals, FileTypes
  <2> QED
    BY <1>1, <1>5, <2>1, <2>2 DEF ResendReads, Unmoving, Idle
<1>6. CASE PrepareStarts(p)
  <2>1. PICK f \in Facts : Launch(p, "prepare", [Idle EXCEPT !.pc = "retain", !.item = f])
    BY <1>6 DEF PrepareStarts
  <2> QED
    BY <1>1, <1>6, <2>1 DEF PrepareStarts, Unmoving, Idle
<1> QED
  BY <1>2, <1>3, <1>4, <1>5, <1>6 DEF Starts

LEMMA PrepareRetainsReplay ==
  ASSUME AgentInv, ReplayInv, NEW p \in Procs, PrepareRetains(p)
  PROVE  ReplayInv'
BY StopStep DEF PrepareRetains, Same, history

LEMMA HookLooksReplay ==
  ASSUME AgentInv, ReplayInv, NEW p \in Procs, HookLooks(p)
  PROVE  ReplayInv'
<1>1. Unmoving
  BY DEF HookLooks, Unmoving
<1>2. CASE GoTo(p, "collect") /\ UNCHANGED lock
  BY <1>1, <1>2, Goto, PcOf DEF Calm, Sending, Holding, Recording
<1> QED
  BY <1>1, <1>2, UnmovingStop DEF HookLooks

LEMMA AfterDrainCalm ==
  ASSUME AgentInv, NEW p \in Procs
  PROVE  Calm(AfterDrain(p)) /\ ~Holding(AfterDrain(p)) /\ ~Recording(AfterDrain(p))
<1>1. AfterDrain(p).pc \in {"look", "upload", "idle"}
  BY DEF AfterDrain, AgentInv, ProcTypes, Program, Record, Idle
<1> QED
  BY <1>1 DEF Calm, Holding, Recording, Sending

LEMMA DrainEndsReplay ==
  ASSUME AgentInv, ReplayInv, NEW p \in Procs, Become(p, AfterDrain(p)), Same, UNCHANGED <<core, withdrawal>>,
         UNCHANGED lock \/ Drop(p, {"collection"})
  PROVE  ReplayInv'
<1>1. PICK r : r = AfterDrain(p)
  OBVIOUS
<1> QED
  BY <1>1, AfterDrainCalm, CalmMove

LEMMA DrainReadsReplay ==
  ASSUME AgentInv, ReplayInv, NEW p \in Procs, DrainReads(p)
  PROVE  ReplayInv'
<1>1. Unmoving /\ UNCHANGED lock
  BY DEF DrainReads, Unmoving
<1>2. CASE Become(p, AfterDrain(p))
  BY <1>1, <1>2, DrainEndsReplay DEF Unmoving, Same, files, local, history
<1>3. CASE Become(p, [proc[p] EXCEPT !.pc = "drain-lock", !.queue = prepared])
  <2>1. PICK r : r = [proc[p] EXCEPT !.pc = "drain-lock", !.queue = prepared]
    OBVIOUS
  <2>2. r.pc = "drain-lock"
    BY <2>1 DEF AgentInv, ProcTypes, Program, Record
  <2>3. Same /\ UNCHANGED <<core, withdrawal>>
    BY <1>1 DEF Unmoving, Same, files, local, history
  <2> QED
    BY <1>1, <1>3, <2>1, <2>2, <2>3, CalmMove DEF Calm, Sending, Holding, Recording
<1> QED
  BY <1>2, <1>3 DEF DrainReads

\* It goes on to record only while collection is not stopped.
LEMMA DrainChecksReplay ==
  ASSUME AgentInv, ReplayInv, NEW p \in Procs, DrainChecks(p)
  PROVE  ReplayInv'
<1>1. Unmoving /\ proc[p].pc = "drain-check"
  BY DEF DrainChecks, Unmoving, At
<1>2. CASE Become(p, AfterDrain(p)) /\ Drop(p, {"collection"})
  BY <1>1, <1>2, DrainEndsReplay DEF Unmoving, Same, files, local, history
<1>3. CASE Enabled(core.consent) /\ GoTo(p, "drain-record") /\ UNCHANGED lock
  <2>1. PICK r : r = [proc[p] EXCEPT !.pc = "drain-record"]
    OBVIOUS
  <2>2. r.pc = "drain-record" /\ proc' = [proc EXCEPT ![p] = r]
    BY <1>3, <2>1, PcOf DEF GoTo, Become
  <2>3. ~Stopped
    BY <1>3 DEF Stopped, Enabled
  <2>4. CollectStep(p, r) /\ Same /\ Goes(p, r)
    BY <1>1, <1>3, <2>3, CollectKeeps, UnmovingSame DEF ReplayInv, Holding
  <2>5. Calm(r)
    BY <2>2 DEF Calm, Sending
  <2> QED
    BY <2>2, <2>4, <2>5, CalmStep
<1> QED
  BY <1>1, <1>2, <1>3, UnmovingStop DEF DrainChecks

LEMMA DrainRemovesReplay ==
  ASSUME AgentInv, ReplayInv, NEW p \in Procs, DrainRemoves(p)
  PROVE  ReplayInv'
<1>1. Same /\ UNCHANGED <<core, withdrawal>> /\ proc[p].pc = "drain-remove"
  BY DEF DrainRemoves, Same, history, At
<1>2. CASE Become(p, AfterDrain(p)) /\ Drop(p, {"collection"})
  BY <1>1, <1>2, DrainEndsReplay
<1>3. ASSUME NEW rest, Become(p, [proc[p] EXCEPT !.pc = "drain-record", !.queue = rest]), UNCHANGED lock
      PROVE  ReplayInv'
  <2>1. PICK r : r = [proc[p] EXCEPT !.pc = "drain-record", !.queue = rest]
    OBVIOUS
  <2>2. r.pc = "drain-record"
    BY <2>1 DEF AgentInv, ProcTypes, Program, Record
  <2> QED
    BY <1>1, <1>3, <2>1, <2>2, CalmMove DEF Calm, Sending, Holding, Recording
<1> QED
  BY <1>2, <1>3 DEF DrainRemoves

----------------------------------------------------------------------------
(* Rows come, go, and are reopened *)

\* A step of the rows, and what it must show for each part.
LEMMA ReplayStep ==
  ASSUME AgentInv, ReplayInv, NEW p \in Procs, NEW r, proc' = [proc EXCEPT ![p] = r],
         CollectStep(p, r), ReplayTypes', FactsOK', InstallOK', SendOK(r)', EndOK(r)',
         \A s : SendOK(s) /\ (Sending(s) => s.queue \subseteq Facts) => SendOK(s)',
         \A s : EndOK(s) => EndOK(s)'
  PROVE  ReplayInv'
<1>1. proc'[p] = r /\ \A q \in Procs : q # p => proc'[q] = proc[q]
  BY Others2
<1>2. Collecting'
  BY CollectingStays DEF AgentInv, ReplayInv
<1>3. ASSUME NEW q \in Procs PROVE SendOK(proc[q])' /\ EndOK(proc[q])'
  <2>1. CASE q = p
    BY <1>1, <2>1
  <2>2. CASE q # p
    <3>1. PICK s : s = proc[q]
      OBVIOUS
    <3>2. SendOK(s) /\ EndOK(s) /\ s.queue \subseteq Facts
      BY <3>1 DEF ReplayInv, AgentInv, ProcTypes, Program, Record
    <3>3. SendOK(s)' /\ EndOK(s)'
      BY <3>2
    <3> QED
      BY <1>1, <2>2, <3>1, <3>3
  <2> QED
    BY <2>1, <2>2
<1> QED
  BY <1>2, <1>3 DEF ReplayInv

\* A call is observed: its row is new only if nothing of it is unanswered.
LEMMA ObservedReplay ==
  ASSUME AgentInv, ReplayInv, NEW p \in Procs, NEW r, proc' = [proc EXCEPT ![p] = r], CollectStep(p, r),
         NEW f \in Facts, NEW outcome, events' = Observed(f, outcome),
         UNCHANGED <<core, install, withdrawal, server, open, asked>>, ~Halted, Calm(r)
  PROVE  ReplayInv'
<1>1. DOMAIN events \subseteq Facts /\ \A g \in DOMAIN events : events[g] \in EventRow
  BY DEF AgentInv, Globals, FileTypes
<1>2. /\ DOMAIN events \subseteq DOMAIN events' /\ DOMAIN events' \subseteq Facts
      /\ \A g \in DOMAIN events :
           events'[g].wire = events[g].wire /\ events'[g].delivery = events[g].delivery
      /\ \A g \in DOMAIN events' : g \in DOMAIN events \/ events'[g].wire = NoWire
  <2>1. CASE f \notin DOMAIN events
    BY <1>1, <2>1 DEF Observed
  <2>2. CASE f \in DOMAIN events
    BY <1>1, <2>2 DEF Observed, EventRow
  <2> QED
    BY <2>1, <2>2
<1>3. \A e : Live(e)' <=> Live(e)
  BY DEF Live
<1>4. ASSUME NEW g, RowOK(g) PROVE RowOK(g)' /\ g \in DOMAIN events
  BY <1>2, <1>4 DEF RowOK
<1>5. ~Gone
  BY DEF Gone
<1>6. FactsOK'
  BY <1>2, <1>3, <1>4 DEF FactsOK, ReplayInv
<1>7. InstallOK' /\ ReplayTypes'
  BY <1>2, <1>3, <1>5 DEF InstallOK, ReplayTypes, ReplayInv
<1>8. ASSUME NEW s, SendOK(s) PROVE SendOK(s)'
  BY <1>2, <1>3, <1>4, <1>5, <1>8 DEF SendOK, Before, Marked, Sending
<1>9. \A s : EndOK(s) => EndOK(s)'
  BY DEF EndOK
<1> QED
  BY <1>6, <1>7, <1>8, <1>9, CalmOK, ReplayStep

LEMMA HookObservesReplay ==
  ASSUME AgentInv, ReplayInv, NEW p \in Procs, HookObserves(p)
  PROVE  ReplayInv'
<1>1. /\ Stop(p) /\ UNCHANGED <<core, install, withdrawal, server, open, asked>>
      /\ proc[p].item \in Facts
  BY DEF HookObserves, At, history, AgentInv, ProcTypes, Program, HasFact
<1>2. proc' = [proc EXCEPT ![p] = Idle] /\ CollectStep(p, Idle) /\ Calm(Idle)
  BY <1>1, StopsCollect DEF AgentInv, ReplayInv, Calm, Idle, Sending
<1>3. CASE Enabled(core.consent)
  BY <1>1, <1>2, <1>3, ObservedReplay DEF HookObserves, Enabled, Halted, Stopped
<1>4. CASE ~Enabled(core.consent)
  BY <1>1, <1>4, StopStep DEF HookObserves, Same
<1> QED
  BY <1>3, <1>4

LEMMA DrainRecordsReplay ==
  ASSUME AgentInv, ReplayInv, NEW p \in Procs, DrainRecords(p)
  PROVE  ReplayInv'
<1>1. proc[p] \in Record /\ proc[p].pc = "drain-record"
  BY DEF AgentInv, ProcTypes, Program, DrainRecords, At
<1>2. PICK f \in proc[p].queue :
        /\ events' = Observed(f, "unknown")
        /\ Become(p, [proc[p] EXCEPT !.pc = "drain-remove", !.row = [fact |-> f, success |-> "unknown"]])
  BY DEF DrainRecords
<1>3. PICK r : r = [proc[p] EXCEPT !.pc = "drain-remove", !.row = [fact |-> f, success |-> "unknown"]]
  OBVIOUS
<1>4. r.pc = "drain-remove" /\ f \in Facts
  BY <1>1, <1>3 DEF Record
<1>5. UNCHANGED <<core, install, withdrawal, server, open, asked, lock>> /\ ~Halted
  BY <1>1 DEF DrainRecords, history, Halted, Recording
<1>6. CollectStep(p, r) /\ Calm(r)
  BY <1>1, <1>4, <1>5, CollectKeeps DEF ReplayInv, Holding, Recording, Calm, Sending
<1> QED
  BY <1>2, <1>3, <1>4, <1>5, <1>6, ObservedReplay DEF Become

\* All is erased under the collection lock, while collection is stopped.
LEMMA ErasedReplay ==
  ASSUME AgentInv, ReplayInv, NEW p \in Procs, NEW r, proc' = [proc EXCEPT ![p] = r], CollectStep(p, r),
         Erase, UNCHANGED <<core, withdrawal, server, open, asked>>,
         Holding(proc[p]), ~Recording(r), Stopped, Calm(r)
  PROVE  ReplayInv'
<1>1. proc'[p] = r /\ \A q \in Procs : q # p => proc'[q] = proc[q]
  BY Others2
<1>2. Halted'
  BY <1>1 DEF Halted, Stopped, ReplayInv, Collecting, Holding, Recording
<1>3. events' = NoEvents /\ install' = NoInstall /\ DOMAIN events' = {} /\ install'.gen = 0 /\ Gone'
  BY <1>2 DEF Erase, NoEvents, NoInstall, Gone
<1>4. \A e : Live(e)' <=> Live(e)
  BY DEF Live
<1>5. \A f : RowOK(f)'
  BY <1>2, <1>3 DEF RowOK
<1>6. FactsOK' /\ InstallOK' /\ ReplayTypes'
  BY <1>3, <1>5 DEF FactsOK, InstallOK, ReplayTypes, ReplayInv
<1>7. ASSUME NEW s, SendOK(s) PROVE SendOK(s)'
  BY <1>3, <1>4, <1>5, <1>7 DEF SendOK, Before, Marked, Sending
<1>8. \A s : EndOK(s) => EndOK(s)'
  BY DEF EndOK
<1> QED
  BY <1>6, <1>7, <1>8, CalmOK, ReplayStep

LEMMA BeginErasesReplay ==
  ASSUME AgentInv, ReplayInv, NEW p \in Procs, BeginErases(p)
  PROVE  ReplayInv'
<1>1. PICK r : r = [proc[p] EXCEPT !.pc = "clear"]
  OBVIOUS
<1>2. proc' = [proc EXCEPT ![p] = r] /\ r.pc = "clear" /\ proc[p].pc = "wipe" /\ UNCHANGED lock
  BY <1>1, PcOf DEF BeginErases, GoTo, Become, At
<1>3. Holding(proc[p]) /\ Holding(r) /\ ~Recording(r) /\ Calm(r)
  BY <1>2 DEF Holding, Recording, Calm, Sending
<1>4. Erase /\ UNCHANGED <<core, withdrawal, server, open, asked>>
  BY DEF BeginErases, history
<1>5. Stopped
  BY <1>2 DEF ReplayInv, EndOK, Stopped
<1> QED
  BY <1>2, <1>3, <1>4, <1>5, CollectKeeps, ErasedReplay DEF ReplayInv

\* finishWithdrawal returns.
LEMMA ReturnReplay ==
  ASSUME AgentInv, ReplayInv, NEW p \in Procs, Return(p), Same,
         core.consent = "withheld" => core'.consent = "withheld",
         withdrawal.state = "pending" => withdrawal'.state = "pending"
  PROVE  ReplayInv'
<1>1. CASE Stop(p)
  BY <1>1, StopStep
<1>2. CASE /\ Become(p, [Idle EXCEPT !.pc = "enabled", !.program = "tick", !.consent = proc[p].consent])
           /\ Drop(p, Locks)
  <2>1. PICK r : r = [Idle EXCEPT !.pc = "enabled", !.program = "tick", !.consent = proc[p].consent]
    OBVIOUS
  <2>2. r.pc = "enabled"
    BY <2>1 DEF Idle
  <2> QED
    BY <1>2, <2>1, <2>2, CalmMove DEF Calm, Sending, Holding, Recording
<1> QED
  BY <1>1, <1>2 DEF Return

LEMMA FinishErasesReplay ==
  ASSUME AgentInv, ReplayInv, NEW p \in Procs, FinishErases(p)
  PROVE  ReplayInv'
<1>1. proc[p].pc = "erase" /\ UNCHANGED <<core, withdrawal, server, open, asked>>
  BY DEF FinishErases, At, history
<1>2. CASE withdrawal.state = "pending" /\ Erase /\ GoTo(p, "barrier") /\ Drop(p, {"collection"})
  <2>1. PICK r : r = [proc[p] EXCEPT !.pc = "barrier"]
    OBVIOUS
  <2>2. proc' = [proc EXCEPT ![p] = r] /\ r.pc = "barrier"
    BY <1>2, <2>1, PcOf DEF GoTo, Become
  <2>3. Holding(proc[p]) /\ ~Holding(r) /\ ~Recording(r) /\ Calm(r)
    BY <1>1, <2>2 DEF Holding, Recording, Calm, Sending
  <2>4. CollectStep(p, r)
    BY <1>2, <2>3, CollectDrops DEF AgentInv, ReplayInv
  <2> QED
    BY <1>1, <1>2, <2>2, <2>3, <2>4, ErasedReplay DEF Stopped
<1>3. CASE Return(p) /\ UNCHANGED <<events, install>>
  BY <1>1, <1>3, ReturnReplay DEF Same
<1> QED
  BY <1>2, <1>3 DEF FinishErases

\* The person asks: the row may leave once more.
LEMMA ResendReopensReplay ==
  ASSUME AgentInv, ReplayInv, NEW p \in Procs, ResendReopens(p)
  PROVE  ReplayInv'
<1> DEFINE f == proc[p].item
<1>1. /\ Mark(f, "none") /\ Stop(p) /\ UNCHANGED <<core, withdrawal, server, open>>
      /\ asked' = [asked EXCEPT ![f] = @ + 1]
  BY DEF ResendReopens
<1>2. f \in Facts /\ f # Install /\ f \in EventIds
  BY DEF ResendReopens, At, ReplayInv, EndOK, EventIds
<1>3. UNCHANGED install
  BY <1>1, <1>2 DEF Mark
<1>4. /\ DOMAIN events' = DOMAIN events
      /\ \A g \in DOMAIN events : events'[g].wire = events[g].wire
      /\ \A g \in DOMAIN events : g # f => events'[g].delivery = events[g].delivery
  <2>1. \A g \in DOMAIN events : events[g] \in EventRow
    BY DEF AgentInv, Globals, FileTypes
  <2> QED
    BY <1>1, <2>1 DEF Mark, EventRow
<1>5. /\ asked \in [EventIds -> Nat] /\ asked' \in [EventIds -> Nat] /\ asked'[f] = asked[f] + 1
      /\ \A e \in EventIds : asked'[e] >= asked[e]
  BY <1>1, <1>2 DEF ReplayInv, ReplayTypes
<1>6. proc' = [proc EXCEPT ![p] = Idle] /\ CollectStep(p, Idle) /\ Calm(Idle) /\ ~Recording(Idle)
  BY <1>1, StopsCollect DEF AgentInv, ReplayInv, Calm, Idle, Sending, Recording
<1>7. Halted => Halted'
  <2>1. proc'[p] = Idle /\ \A q \in Procs : q # p => proc'[q] = proc[q]
    BY <1>6 DEF AgentInv, ProcTypes
  <2> QED
    BY <1>1, <1>6, <2>1 DEF Halted, Stopped, Recording
<1>8. /\ \A e : Live(e)' <=> Live(e)
      /\ \A g : RowOK(g) => RowOK(g)'
  BY <1>1, <1>4, <1>7 DEF Live, RowOK
<1>9. Gone => Gone'
  <2>1. events = NoEvents => f \notin DOMAIN events
    BY DEF NoEvents
  <2> QED
    BY <1>1, <1>3, <1>7, <2>1 DEF Gone, Mark
<1>10. Facts \subseteq EventIds /\ DOMAIN events \subseteq Facts /\ \A e \in EventIds : asked[e] \in Nat /\ asked'[e] \in Nat
  BY <1>5 DEF EventIds, AgentInv, Globals, FileTypes
<1> HIDE DEF f
<1>11. FactsOK' /\ InstallOK' /\ ReplayTypes'
  <2>1. FactsOK /\ InstallOK
    BY DEF ReplayInv
  <2>2. FactsOK'
    <3> SUFFICES ASSUME NEW g \in Facts, Live(g)'
                 PROVE  RowOK(g)' /\ (g \in DOMAIN events' => events'[g].delivery # "none" \/ asked'[g] > 0)
      BY DEF FactsOK
    <3>1. RowOK(g) /\ (g \in DOMAIN events => events[g].delivery # "none" \/ asked[g] > 0)
      BY <1>8, <2>1 DEF FactsOK
    <3> QED
      BY <1>4, <1>5, <1>8, <1>10, <3>1
  <2> QED
    BY <1>1, <1>3, <1>4, <1>5, <1>8, <1>9, <2>1, <2>2 DEF InstallOK, ReplayTypes, ReplayInv
<1>12. ASSUME NEW s, SendOK(s), Sending(s) => s.queue \subseteq Facts PROVE SendOK(s)'
  <2>1. /\ Sending(s) => \A g \in s.queue : Live(g)' => asked'[g] > 0
        /\ Sending(s) /\ s.pc # "next" => s.item \notin s.queue
    BY <1>5, <1>8, <1>10, <1>12 DEF SendOK
  <2>2. s.pc = "freeze" /\ s.item \in Facts => ~Live(s.item)'
    BY <1>8, <1>12 DEF SendOK
  <2>3. s.pc = "freeze" /\ s.item = Install => install' = NoInstall
    BY <1>3, <1>12 DEF SendOK
  <2>4. Before(s) /\ s.item \in Facts => RowOK(s.item)' /\ (Live(s.item)' => asked'[s.item] > 0)
    BY <1>5, <1>8, <1>10, <1>12 DEF SendOK
  <2>5. Marked(s) /\ s.item \in DOMAIN events' /\ events'[s.item].delivery = "none" =>
          asked'[s.item] > IF Live(s.item)' THEN 1 ELSE 0
    <3>1. CASE s.item = f
      BY <1>2, <1>5, <1>8, <1>10, <1>12, <3>1 DEF SendOK, Marked, Before
    <3>2. CASE s.item # f
      BY <1>4, <1>5, <1>8, <1>10, <1>12, <3>2 DEF SendOK
    <3> QED
      BY <3>1, <3>2
  <2>6. Before(s) /\ s.item = Install =>
          [event |-> Install, gen |-> s.wire] \notin open' /\ (install'.gen = s.wire \/ Gone')
    BY <1>1, <1>3, <1>9, <1>12 DEF SendOK
  <2>7. Marked(s) /\ s.item = Install => install'.delivery # "none" \/ install' = NoInstall
    BY <1>3, <1>12 DEF SendOK
  <2> QED
    BY <2>1, <2>2, <2>3, <2>4, <2>5, <2>6, <2>7 DEF SendOK, Sending, Before, Marked
<1>13. \A s : EndOK(s) => EndOK(s)'
  BY <1>1 DEF EndOK
<1> QED
  BY <1>6, <1>11, <1>12, <1>13, CalmOK, ReplayStep

----------------------------------------------------------------------------
(* Withdrawals, Core and the environment *)

LEMMA TickEnabledReplay ==
  ASSUME AgentInv, ReplayInv, NEW p \in Procs, TickEnabled(p)
  PROVE  ReplayInv'
<1>1. Unmoving
  BY DEF TickEnabled, Unmoving
<1>2. CASE Take(p, "sender") /\ GoTo(p, "drain")
  BY <1>1, <1>2, Goto, PcOf DEF Calm, Sending, Holding, Recording
<1> QED
  BY <1>1, <1>2, UnmovingStop DEF TickEnabled

LEMMA BeginWithholdsReplay ==
  ASSUME AgentInv, ReplayInv, NEW p \in Procs, BeginWithholds(p)
  PROVE  ReplayInv'
<1>1. PICK r : r = [proc[p] EXCEPT !.pc = "declare", !.gen = core.gen]
  OBVIOUS
<1>2. r.pc = "declare" /\ Become(p, r) /\ proc[p].pc = "withhold" /\ UNCHANGED lock
  BY <1>1 DEF BeginWithholds, At, AgentInv, ProcTypes, Program, Record
<1>3. core' = [core EXCEPT !.consent = "withheld"] /\ core \in [consent : Consents, gen : Nat]
  BY DEF BeginWithholds, AgentInv, Globals, CoreTypes
<1>4. Same /\ core'.consent = "withheld" /\ UNCHANGED withdrawal
  BY <1>3 DEF BeginWithholds, Same, files, local, history
<1> QED
  BY <1>2, <1>4, CalmMove DEF Calm, Sending, Holding, Recording

LEMMA BeginDeclaresReplay ==
  ASSUME AgentInv, ReplayInv, NEW p \in Procs, BeginDeclares(p)
  PROVE  ReplayInv'
<1>1. PICK r : r = [proc[p] EXCEPT !.pc = "wipe"]
  OBVIOUS
<1>2. proc' = [proc EXCEPT ![p] = r] /\ r.pc = "wipe" /\ proc[p].pc = "declare"
  BY <1>1, PcOf DEF BeginDeclares, GoTo, Become, At
<1>3. Same /\ Goes(p, r) /\ withdrawal'.state = "pending"
  BY <1>2 DEF BeginDeclares, Same, Goes, local, history, Recording
<1>4. CollectStep(p, r)
  BY <1>2, CollectKeeps DEF BeginDeclares, ReplayInv, Holding
<1>5. SendOK(r) /\ EndOK(r)'
  BY <1>2, <1>3 DEF SendOK, EndOK, Sending, Before, Marked
<1> QED
  BY <1>2, <1>3, <1>4, <1>5, SameStep

LEMMA BeginClearsReplay ==
  ASSUME AgentInv, ReplayInv, NEW p \in Procs, BeginClears(p)
  PROVE  ReplayInv'
<1>1. PICK r : r = [proc[p] EXCEPT !.pc = "finish"]
  OBVIOUS
<1>2. Become(p, r) /\ r.pc = "finish" /\ Same /\ UNCHANGED <<core, withdrawal>> /\ Drop(p, {"collection"})
  BY <1>1, PcOf DEF BeginClears, GoTo, Same, history
<1> QED
  BY <1>2, CalmMove DEF Calm, Sending, Holding, Recording

LEMMA FinishReadsReplay ==
  ASSUME AgentInv, ReplayInv, NEW p \in Procs, FinishReads(p)
  PROVE  ReplayInv'
<1>1. Same /\ UNCHANGED <<core, withdrawal>>
  BY DEF FinishReads, Same, files, local, history
<1>2. CASE Return(p)
  BY <1>1, <1>2, ReturnReplay
<1>3. CASE Become(p, [proc[p] EXCEPT !.pc = "erase-lock", !.gen = withdrawal.gen]) /\ UNCHANGED lock
  <2>1. PICK r : r = [proc[p] EXCEPT !.pc = "erase-lock", !.gen = withdrawal.gen]
    OBVIOUS
  <2>2. r.pc = "erase-lock"
    BY <2>1 DEF AgentInv, ProcTypes, Program, Record
  <2> QED
    BY <1>1, <1>3, <2>1, <2>2, CalmMove DEF Calm, Sending, Holding, Recording
<1> QED
  BY <1>2, <1>3 DEF FinishReads

LEMMA FinishBarsReplay ==
  ASSUME AgentInv, ReplayInv, NEW p \in Procs, FinishBars(p)
  PROVE  ReplayInv'
<1>1. Unmoving
  BY DEF FinishBars, Unmoving
<1>2. CASE Take(p, "sender") /\ GoTo(p, "latest")
  BY <1>1, <1>2, Goto, PcOf DEF Calm, Sending, Holding, Recording
<1>3. CASE Return(p)
  BY <1>1, <1>3, ReturnReplay DEF Unmoving, Same, files, local, history
<1> QED
  BY <1>2, <1>3 DEF FinishBars

LEMMA FinishRereadsReplay ==
  ASSUME AgentInv, ReplayInv, NEW p \in Procs, FinishRereads(p)
  PROVE  ReplayInv'
<1>1. Same /\ UNCHANGED <<core, withdrawal>>
  BY DEF FinishRereads, Same, files, local, history
<1>2. CASE Return(p)
  BY <1>1, <1>2, ReturnReplay
<1>3. CASE Become(p, [proc[p] EXCEPT !.pc = "call", !.wire = withdrawal.gen]) /\ UNCHANGED lock
  <2>1. PICK r : r = [proc[p] EXCEPT !.pc = "call", !.wire = withdrawal.gen]
    OBVIOUS
  <2>2. r.pc = "call"
    BY <2>1 DEF AgentInv, ProcTypes, Program, Record
  <2> QED
    BY <1>1, <1>3, <2>1, <2>2, CalmMove DEF Calm, Sending, Holding, Recording
<1> QED
  BY <1>2, <1>3 DEF FinishRereads

\* More consents are ended: less is unanswered under the one of now.
LEMMA EndedReplay ==
  ASSUME AgentInv, ReplayInv, NEW p \in Procs, NEW barrier, CoreAnswers(p, barrier), UNCHANGED lock,
         UNCHANGED <<core, files, history>>, server.tombstones \subseteq server'.tombstones
  PROVE  ReplayInv'
<1>1. PICK r : r = [proc[p] EXCEPT !.pc = "decide", !.answer = [barrier |-> barrier, gen |-> core.gen]]
  OBVIOUS
<1>2. r.pc = "decide" /\ proc' = [proc EXCEPT ![p] = r]
  BY <1>1 DEF CoreAnswers, Become, AgentInv, ProcTypes, Program, Record
<1>3. Calm(r) /\ ~Recording(r) /\ ~Holding(r)
  BY <1>2 DEF Calm, Sending, Recording, Holding
<1>4. CollectStep(p, r)
  BY <1>3, CollectKeeps DEF ReplayInv
<1>5. Goes(p, r) /\ UNCHANGED <<core, events, install, withdrawal, open, asked>>
  BY <1>3 DEF Goes, files, local, history
<1>6. Halted => Halted'
  BY <1>2, <1>5, HaltedStays
<1>7. \A e : Live(e)' => Live(e)
  BY <1>5 DEF Live
<1>8. (\A f : RowOK(f) => RowOK(f)') /\ (Gone => Gone')
  BY <1>5, <1>6 DEF RowOK, Gone
<1>9. FactsOK' /\ InstallOK' /\ ReplayTypes'
  BY <1>5, <1>7, <1>8 DEF FactsOK, InstallOK, ReplayTypes, ReplayInv
<1>10. ASSUME NEW s, SendOK(s) PROVE SendOK(s)'
  <2>1. /\ Sending(s) => \A f \in s.queue : Live(f)' => asked'[f] > 0
        /\ Sending(s) /\ s.pc # "next" => s.item \notin s.queue
        /\ s.pc = "freeze" /\ s.item \in Facts => ~Live(s.item)'
        /\ s.pc = "freeze" /\ s.item = Install => install' = NoInstall
        /\ Before(s) /\ s.item \in Facts => RowOK(s.item)' /\ (Live(s.item)' => asked'[s.item] > 0)
        /\ Before(s) /\ s.item = Install =>
             [event |-> Install, gen |-> s.wire] \notin open' /\ (install'.gen = s.wire \/ Gone')
        /\ Marked(s) /\ s.item = Install => install'.delivery # "none" \/ install' = NoInstall
    BY <1>5, <1>7, <1>8, <1>10 DEF SendOK
  <2>2. Marked(s) /\ s.item \in DOMAIN events' /\ events'[s.item].delivery = "none" =>
          asked'[s.item] > IF Live(s.item)' THEN 1 ELSE 0
    <3> SUFFICES ASSUME Marked(s), s.item \in DOMAIN events, events[s.item].delivery = "none"
                 PROVE  asked[s.item] > IF Live(s.item)' THEN 1 ELSE 0
      BY <1>5
    <3>1. asked[s.item] > IF Live(s.item) THEN 1 ELSE 0
      BY <1>10 DEF SendOK
    <3>2. asked[s.item] \in Nat
      BY DEF ReplayInv, ReplayTypes, AgentInv, Globals, FileTypes, EventIds
    <3> QED
      BY <1>7, <3>1, <3>2
  <2> QED
    BY <2>1, <2>2 DEF SendOK, Sending, Before, Marked
<1>11. \A s : EndOK(s) => EndOK(s)'
  BY <1>5 DEF EndOK
<1> QED
  BY <1>2, <1>3, <1>4, <1>9, <1>10, <1>11, CalmOK, ReplayStep

LEMMA CoreAnswersReplay ==
  ASSUME AgentInv, ReplayInv, NEW p \in Procs, CoreWithdraws(p) \/ CoreFails(p)
  PROVE  ReplayInv'
<1>1. UNCHANGED <<core, files, lock, history>> /\ server' \in {server, Withdrawn}
  BY DEF CoreWithdraws, CoreFails
<1>2. \E barrier : CoreAnswers(p, barrier)
  BY DEF CoreWithdraws, CoreFails
<1>3. server.tombstones \subseteq server'.tombstones
  <2>1. server \in [stored : SUBSET RequestSet, tombstones : SUBSET Nat, late : SUBSET RequestSet]
    BY DEF AgentInv, Globals, CoreTypes
  <2>2. CASE server' = server
    BY <2>2
  <2>3. CASE server' = [server EXCEPT !.tombstones = @ \cup {core.gen},
                                      !.stored = {x \in @ : x.gen # core.gen}]
    BY <2>1, <2>3
  <2> QED
    BY <1>1, <2>2, <2>3 DEF Withdrawn
<1> QED
  BY <1>1, <1>2, <1>3, EndedReplay

\* While one process has the sender lock, the others send nothing.
LEMMA AloneStep ==
  ASSUME AgentInv, ReplayInv, NEW p \in Procs, NeedsSender(proc[p]), NEW r,
         proc' = [proc EXCEPT ![p] = r], CollectStep(p, r), ReplayTypes', FactsOK', InstallOK',
         SendOK(r)', EndOK(r)',
         UNCHANGED withdrawal \/ withdrawal'.state = "pending" \/ \A q \in Procs : proc[q].pc # "wipe"
  PROVE  ReplayInv'
<1>1. proc'[p] = r /\ \A q \in Procs : q # p => proc'[q] = proc[q]
  BY Others2
<1>2. Collecting'
  BY CollectingStays DEF AgentInv, ReplayInv
<1>3. ASSUME NEW q \in Procs PROVE SendOK(proc[q])' /\ EndOK(proc[q])'
  <2>1. CASE q = p
    BY <1>1, <2>1
  <2>2. CASE q # p
    <3>1. ~NeedsSender(proc[q])
      BY <2>2, Holds DEF AgentInv, Exclusive
    <3>2. EndOK(proc[q]) /\ proc'[q] = proc[q]
      BY <1>1, <2>2 DEF ReplayInv
    <3>3. SendOK(proc[q])'
      BY <3>1, <3>2 DEF SendOK, NeedsSender, Sending, Before, Marked
    <3>4. EndOK(proc[q])'
      BY <3>1, <3>2 DEF EndOK, NeedsSender
    <3> QED
      BY <3>3, <3>4
  <2> QED
    BY <2>1, <2>2
<1> QED
  BY <1>2, <1>3 DEF ReplayInv

LEMMA FinishDecidesReplay ==
  ASSUME AgentInv, ReplayInv, NEW p \in Procs, FinishDecides(p)
  PROVE  ReplayInv'
<1>1. /\ proc[p].pc = "decide" /\ NeedsSender(proc[p])
      /\ UNCHANGED <<core, events, install, server, open, asked>>
  BY DEF FinishDecides, At, NeedsSender, local, history
<1>2. Same
  BY <1>1 DEF Same
<1>3. CASE Confirmed(p) /\ GoTo(p, "record") /\ UNCHANGED <<withdrawal, lock>>
  <2>1. PICK r : r = [proc[p] EXCEPT !.pc = "record"]
    OBVIOUS
  <2>2. proc' = [proc EXCEPT ![p] = r] /\ r.pc = "record"
    BY <1>3, <2>1, PcOf DEF GoTo, Become
  <2>3. \A x \in open : x.gen \in server.tombstones
    <3>1. BarrierOK(proc[p])
      BY <1>1, Holds
    <3>2. CASE proc[p].answer.barrier = "committed"
      <4>1. proc[p].answer.gen \in server.tombstones /\ \A x \in open : x.gen <= proc[p].answer.gen
        BY <1>1, <3>1, <3>2 DEF BarrierOK
      <4> SUFFICES ASSUME NEW x \in open PROVE x.gen \in server.tombstones
        OBVIOUS
      <4>2. x.gen \in 1..core.gen /\ x.gen <= proc[p].answer.gen /\ proc[p].answer.gen \in 1..core.gen
        BY <4>1 DEF AgentInv, Globals, OpenOK, GensOK, CoreTypes, RequestSet
      <4>3. core.gen \in Nat /\ \A g \in 1..core.gen : g = core.gen \/ g \in server.tombstones
        BY DEF AgentInv, Globals, GensOK, CoreTypes
      <4> QED
        BY <4>1, <4>2, <4>3
    <3>3. CASE inflight = {}
      BY <3>3 DEF AgentInv, Globals, OpenOK
    <3> QED
      BY <1>3, <3>2, <3>3 DEF Confirmed
  <2>4. SendOK(r) /\ EndOK(r)'
    BY <1>1, <2>2, <2>3 DEF SendOK, EndOK, Sending, Before, Marked
  <2>5. CollectStep(p, r) /\ Goes(p, r)
    BY <1>1, <1>3, <2>2, CollectKeeps DEF ReplayInv, Holding, Recording, Goes
  <2> QED
    BY <1>2, <2>2, <2>4, <2>5, SameStep
<1>4. CASE withdrawal' = [state |-> "pending", gen |-> proc[p].gen] /\ Return(p)
  BY <1>1, <1>2, <1>4, ReturnReplay
<1> QED
  BY <1>3, <1>4 DEF FinishDecides

\* Where a return leads.
LEMMA ReturnsCalm ==
  ASSUME AgentInv, ReplayInv, NEW p \in Procs, Return(p)
  PROVE  \E r : /\ proc' = [proc EXCEPT ![p] = r] /\ CollectStep(p, r) /\ Calm(r)
                /\ r.pc \in {"idle", "enabled"}
<1>1. CASE Stop(p)
  <2>1. proc' = [proc EXCEPT ![p] = Idle] /\ CollectStep(p, Idle)
    BY <1>1, StopsCollect DEF AgentInv, ReplayInv
  <2>2. Calm(Idle) /\ Idle.pc = "idle"
    BY DEF Calm, Sending, Idle
  <2> QED
    BY <2>1, <2>2
<1>2. CASE /\ Become(p, [Idle EXCEPT !.pc = "enabled", !.program = "tick", !.consent = proc[p].consent])
           /\ Drop(p, Locks)
  <2>1. PICK r : r = [Idle EXCEPT !.pc = "enabled", !.program = "tick", !.consent = proc[p].consent]
    OBVIOUS
  <2>2. r.pc = "enabled" /\ proc' = [proc EXCEPT ![p] = r]
    BY <1>2, <2>1 DEF Idle, Become
  <2>3. CollectStep(p, r) /\ Calm(r)
    BY <1>2, <2>2, CollectDrops DEF AgentInv, ReplayInv, Calm, Sending, Holding, Recording
  <2> QED
    BY <2>2, <2>3
<1> QED
  BY <1>1, <1>2 DEF Return

\* Nothing is open under the consent of now, so collection may go on.
LEMMA FinishRecordsReplay ==
  ASSUME AgentInv, ReplayInv, Apart, NEW p \in Procs, FinishRecords(p)
  PROVE  ReplayInv'
<1>1. /\ proc[p].pc = "record" /\ NeedsSender(proc[p]) /\ Return(p)
      /\ UNCHANGED <<core, events, install, server, open, asked>>
  BY DEF FinishRecords, At, NeedsSender, local, history
<1>2. PICK r : proc' = [proc EXCEPT ![p] = r] /\ CollectStep(p, r) /\ Calm(r)
  BY <1>1, ReturnsCalm
<1>3. \A q \in Procs : proc[q].pc # "wipe"
  BY <1>1 DEF Apart, Past
<1>4. \A x \in open : x.gen \in server.tombstones
  BY <1>1 DEF ReplayInv, EndOK
<1>5. \A e : ~Live(e)'
  BY <1>1, <1>4 DEF Live
<1>6. FactsOK' /\ InstallOK' /\ ReplayTypes'
  BY <1>1, <1>5 DEF FactsOK, InstallOK, ReplayTypes, ReplayInv
<1> QED
  BY <1>1, <1>2, <1>3, <1>6, CalmOK, AloneStep

\* Under a new consent nothing is open yet.
LEMMA GrantReplay ==
  ASSUME AgentInv, ReplayInv, Grant
  PROVE  ReplayInv'
<1>1. /\ core.gen \in server.tombstones \cup {0} /\ core'.gen = core.gen + 1
      /\ UNCHANGED <<events, install, withdrawal, lock, proc, server, open, asked>>
  BY DEF Grant, files, local, history
<1>2. core.gen \in Nat /\ \A x \in open : x.gen <= core.gen
  BY DEF AgentInv, Globals, CoreTypes, OpenOK
<1>3. \A e : ~Live(e)'
  BY <1>1, <1>2 DEF Live
<1>4. \A q \in Procs : ~Sending(proc[q])
  BY <1>1, <1>2 DEF AgentInv, ProcsOK, SenderOK
<1>5. FactsOK' /\ InstallOK' /\ ReplayTypes' /\ Collecting'
  BY <1>1, <1>3 DEF FactsOK, InstallOK, ReplayTypes, Collecting, ReplayInv
<1>6. ASSUME NEW q \in Procs PROVE SendOK(proc[q])' /\ EndOK(proc[q])'
  <2>1. EndOK(proc[q]) /\ ~Sending(proc[q])
    BY <1>4 DEF ReplayInv
  <2> QED
    BY <1>1, <2>1 DEF SendOK, EndOK, Sending, Before, Marked
<1> QED
  BY <1>5, <1>6 DEF ReplayInv

\* Nothing of the argument moves.
LEMMA ReplayUnmoved ==
  ASSUME ReplayInv, UNCHANGED <<core, files, lock, proc, open, asked>>, server'.tombstones = server.tombstones
  PROVE  ReplayInv'
<1>1. UNCHANGED <<core, events, install, withdrawal, lock, proc, open, asked>>
  BY DEF files, local
<1>2. (\A e : Live(e)' <=> Live(e)) /\ (\A f : RowOK(f)' <=> RowOK(f)) /\ (Gone' <=> Gone)
  BY <1>1 DEF Live, RowOK, Gone, Halted, Stopped
<1>3. ReplayTypes' /\ Collecting' /\ FactsOK' /\ InstallOK'
  BY <1>1, <1>2 DEF ReplayInv, ReplayTypes, Collecting, FactsOK, InstallOK
<1>4. ASSUME NEW q \in Procs PROVE SendOK(proc[q])' /\ EndOK(proc[q])'
  <2>1. SendOK(proc[q]) /\ EndOK(proc[q])
    BY DEF ReplayInv
  <2> QED
    BY <1>1, <1>2, <2>1 DEF SendOK, EndOK
<1> QED
  BY <1>3, <1>4 DEF ReplayInv

\* What a lost request leaves at the server does not end a consent.
LEMMA AbandonedTombstones ==
  ASSUME AgentInv, NEW p \in Procs, Abandoned(p)
  PROVE  server'.tombstones = server.tombstones
BY DEF Abandoned, Accepted, AgentInv, Globals, CoreTypes

LEMMA StopsReplay ==
  ASSUME AgentInv, ReplayInv, NEW p \in Procs, Crash(p) \/ RequestFails(p)
  PROVE  ReplayInv'
<1>1. Stop(p) /\ Abandoned(p) /\ UNCHANGED <<core, files, history>>
  BY DEF Crash, RequestFails
<1> QED
  BY <1>1, AbandonedTombstones, StopStep DEF Same, files, local, history

LEMMA LateRequestArrivesReplay ==
  ASSUME AgentInv, ReplayInv, LateRequestArrives
  PROVE  ReplayInv'
<1>1. server'.tombstones = server.tombstones /\ UNCHANGED <<core, files, lock, proc, open, asked>>
  BY DEF LateRequestArrives, Accepted, history, AgentInv, Globals, CoreTypes
<1> QED
  BY <1>1, ReplayUnmoved

LEMMA FinishesReplay ==
  ASSUME AgentInv, ReplayInv, NEW p \in Procs, Finishes(p)
  PROVE  ReplayInv'
<1>1. PICK r : r = [Idle EXCEPT !.pc = "drain", !.program = "drain"]
  OBVIOUS
<1>2. r.pc = "drain" /\ Become(p, r) /\ UNCHANGED lock /\ Same /\ UNCHANGED <<core, withdrawal>>
  BY <1>1 DEF Finishes, Idle, Same, files, local, history
<1> QED
  BY <1>2, CalmMove DEF Calm, Sending, Holding, Recording

----------------------------------------------------------------------------
(* The sender *)

\* The rows a tick takes: one that may be unanswered was reopened.
LEMMA TickUploadsReplay ==
  ASSUME AgentInv, ReplayInv, NEW p \in Procs, TickUploads(p)
  PROVE  ReplayInv'
<1>1. proc[p].pc = "upload" /\ Unmoving
  BY DEF TickUploads, At, Unmoving
<1>2. ASSUME NEW f \in DOMAIN events, UNCHANGED lock,
             Become(p, [proc[p] EXCEPT !.pc = "next", !.gen = core.gen, !.queue = Unsent,
                                       !.row = [fact |-> f, success |-> events[f].success]])
      PROVE  ReplayInv'
  <2>1. PICK r : r = [proc[p] EXCEPT !.pc = "next", !.gen = core.gen, !.queue = Unsent,
                                     !.row = [fact |-> f, success |-> events[f].success]]
    OBVIOUS
  <2>2. r.pc = "next" /\ r.queue = Unsent /\ r.item = proc[p].item
    BY <2>1 DEF AgentInv, ProcTypes, Program, Record
  <2>3. \A g \in Unsent : g \in Facts /\ (Live(g) => asked[g] > 0)
    BY DEF Unsent, ReplayInv, FactsOK, AgentInv, Globals, FileTypes
  <2>4. SendOK(r) /\ EndOK(r)'
    BY <2>2, <2>3 DEF SendOK, EndOK, Sending, Before, Marked
  <2>5. CollectStep(p, r) /\ Same /\ Goes(p, r)
    BY <1>1, <1>2, <2>2, CollectKeeps, UnmovingSame DEF ReplayInv, Holding, Recording
  <2> QED
    BY <1>2, <2>1, <2>4, <2>5, SameStep DEF Become
<1> QED
  BY <1>1, <1>2, UnmovingStop DEF TickUploads

\* The sender goes on with this event.
LEMMA PicksReplay ==
  ASSUME AgentInv, ReplayInv, NEW p \in Procs, proc[p].pc = "next", Unmoving, UNCHANGED lock, NEW r,
         Become(p, r), r.pc \in {"freeze", "sign"}, r.queue = proc[p].queue \ {r.item},
         r.item \in EventIds,
         r.pc = "freeze" /\ r.item \in Facts => ~Live(r.item),
         r.pc = "freeze" /\ r.item = Install => install = NoInstall,
         r.pc = "sign" /\ r.item \in Facts => RowOK(r.item) /\ (Live(r.item) => asked[r.item] > 0),
         r.pc = "sign" /\ r.item = Install =>
           install.gen = r.wire /\ [event |-> Install, gen |-> r.wire] \notin open
  PROVE  ReplayInv'
<1>1. \A f \in proc[p].queue : Live(f) => asked[f] > 0
  BY DEF ReplayInv, SendOK, Sending
<1>2. SendOK(r) /\ EndOK(r)'
  BY <1>1 DEF SendOK, EndOK, Sending, Before, Marked
<1>3. CollectStep(p, r) /\ Same /\ Goes(p, r)
  BY CollectKeeps, UnmovingSame DEF ReplayInv, Holding, Recording
<1> QED
  BY <1>2, <1>3, SameStep DEF Become

LEMMA NextRowReplay ==
  ASSUME AgentInv, ReplayInv, NEW p \in Procs, NextRow(p)
  PROVE  ReplayInv'
<1>1. proc[p].pc = "next" /\ Unmoving /\ proc[p] \in Record
  BY DEF NextRow, At, Unmoving, AgentInv, ProcTypes, Program
<1>2. PICK f \in proc[p].queue :
        \/ Stop(p)
        \/ /\ f \in DOMAIN events /\ events[f].wire.gen \in {0, proc[p].gen} /\ UNCHANGED lock
           /\ proc[p].gen = core.gen
           /\ IF events[f].wire = NoWire THEN Signs(p, f, events[f].success) ELSE Sends(p, f, proc[p].gen)
  BY <1>1 DEF NextRow, Active
<1>3. f \in Facts /\ f \in EventIds /\ f # Install
  BY <1>1 DEF Record, EventIds
<1>4. Live(f) => asked[f] > 0
  BY <1>1 DEF ReplayInv, SendOK, Sending
<1>5. CASE f \in DOMAIN events /\ events[f].wire = NoWire /\ UNCHANGED lock /\ Signs(p, f, events[f].success)
  <2>1. PICK r : r = [proc[p] EXCEPT !.pc = "freeze", !.item = f, !.outcome = events[f].success, !.queue = @ \ {f}]
    OBVIOUS
  <2>2. r.pc = "freeze" /\ r.item = f /\ r.queue = proc[p].queue \ {f}
    BY <1>1, <2>1 DEF Record
  <2>3. ~Live(f)
    <3>1. Live(f) => core.gen = 0 /\ [event |-> f, gen |-> core.gen] \in open
      BY <1>3, <1>5 DEF ReplayInv, FactsOK, RowOK, NoWire, Live
    <3> QED
      BY <3>1 DEF AgentInv, Globals, OpenOK
  <2> QED
    BY <1>1, <1>3, <1>5, <2>1, <2>2, <2>3, PicksReplay DEF Signs
<1>6. CASE /\ f \in DOMAIN events /\ events[f].wire # NoWire /\ events[f].wire.gen \in {0, core.gen}
           /\ proc[p].gen = core.gen /\ UNCHANGED lock /\ Sends(p, f, proc[p].gen)
  <2>1. PICK r : r = [proc[p] EXCEPT !.pc = "sign", !.item = f, !.wire = proc[p].gen, !.queue = @ \ {f}]
    OBVIOUS
  <2>2. r.pc = "sign" /\ r.item = f /\ r.queue = proc[p].queue \ {f}
    BY <1>1, <2>1 DEF Record
  <2>3. RowOK(f)
    BY <1>6 DEF RowOK, ReplayInv, ReplayTypes
  <2> QED
    BY <1>1, <1>3, <1>4, <1>6, <2>1, <2>2, <2>3, PicksReplay DEF Sends
<1> QED
  BY <1>1, <1>2, <1>5, <1>6, UnmovingStop

LEMMA NextInstallReplay ==
  ASSUME AgentInv, ReplayInv, NEW p \in Procs, NextInstall(p)
  PROVE  ReplayInv'
<1>1. proc[p].pc = "next" /\ Unmoving /\ proc[p] \in Record
  BY DEF NextInstall, At, Unmoving, AgentInv, ProcTypes, Program
<1>2. Install \in EventIds /\ Install \notin Facts
  BY DEF EventIds
<1>3. install \in [gen : Nat, delivery : Deliveries]
  BY DEF AgentInv, Globals, FileTypes
<1>4. CASE /\ install.gen = 0 /\ install.delivery = "none" /\ UNCHANGED lock
           /\ Signs(p, Install, proc[p].row.success)
  <2>1. PICK r : r = [proc[p] EXCEPT !.pc = "freeze", !.item = Install, !.outcome = proc[p].row.success,
                                     !.queue = @ \ {Install}]
    OBVIOUS
  <2>2. r.pc = "freeze" /\ r.item = Install /\ r.queue = proc[p].queue \ {Install}
    BY <1>1, <2>1 DEF Record
  <2>3. install = NoInstall
    BY <1>3, <1>4 DEF NoInstall
  <2> QED
    BY <1>1, <1>2, <1>4, <2>1, <2>2, <2>3, PicksReplay DEF Signs
<1>5. CASE /\ install.gen # 0 /\ install.delivery = "none" /\ UNCHANGED lock
           /\ Sends(p, Install, install.gen)
  <2>1. PICK r : r = [proc[p] EXCEPT !.pc = "sign", !.item = Install, !.wire = install.gen,
                                     !.queue = @ \ {Install}]
    OBVIOUS
  <2>2. r.pc = "sign" /\ r.item = Install /\ r.wire = install.gen /\ r.queue = proc[p].queue \ {Install}
    BY <1>1, <2>1 DEF Record
  <2>3. [event |-> Install, gen |-> install.gen] \notin open
    BY <1>5 DEF ReplayInv, InstallOK
  <2> QED
    BY <1>1, <1>2, <1>5, <2>1, <2>2, <2>3, PicksReplay DEF Sends
<1> QED
  BY <1>1, <1>4, <1>5, UnmovingStop DEF NextInstall

\* The sender is at a place where its consent stands.
LEMMA Sender ==
  ASSUME AgentInv, ReplayInv, NEW p \in Procs, Sending(proc[p])
  PROVE  /\ NeedsSender(proc[p]) /\ lock["sender"] = p /\ proc[p] \in Record /\ SenderOK(proc[p])
         /\ proc[p].gen = core.gen /\ core.gen >= 1 /\ core.gen \in Nat /\ core.gen \notin server.tombstones
         /\ SendOK(proc[p]) /\ proc[p].queue \subseteq Facts
         /\ Install \notin Facts /\ Facts \subseteq EventIds /\ DOMAIN events \subseteq Facts
<1>1. NeedsSender(proc[p])
  BY DEF NeedsSender
<1> QED
  BY <1>1, Holds DEF SenderOK, ReplayInv, Record, EventIds, AgentInv, Globals, FileTypes

\* The bytes are signed: an event that is not open under this consent.
LEMMA FreezeReplay ==
  ASSUME AgentInv, ReplayInv, NEW p \in Procs, Freeze(p)
  PROVE  ReplayInv'
<1> DEFINE e == proc[p].item
           gen == proc[p].gen
<1>1. /\ proc[p].pc = "freeze" /\ Sending(proc[p])
      /\ UNCHANGED <<core, withdrawal, server, open, asked>>
  BY DEF Freeze, At, Sending, history
<1>2. /\ NeedsSender(proc[p]) /\ proc[p] \in Record /\ gen = core.gen /\ core.gen >= 1 /\ core.gen \in Nat
      /\ core.gen \notin server.tombstones /\ SendOK(proc[p]) /\ e \in EventIds
      /\ Install \notin Facts /\ DOMAIN events \subseteq Facts
  BY <1>1, Sender DEF SenderOK
<1>3. CASE Stop(p) /\ UNCHANGED <<events, install>>
  BY <1>1, <1>3, StopStep DEF Same
<1>4. CASE SignedRow(p) \in DOMAIN events /\ FreezeAs(p)
  <2>1. PICK r : r = [proc[p] EXCEPT !.pc = "sign", !.wire = gen]
    OBVIOUS
  <2>2. proc' = [proc EXCEPT ![p] = r] /\ UNCHANGED lock
    BY <1>4, <2>1 DEF FreezeAs, Become
  <2>3. r.pc = "sign" /\ r.item = e /\ r.wire = gen /\ r.queue = proc[p].queue
    BY <1>2, <2>1 DEF Record
  <2>4. CollectStep(p, r) /\ Goes(p, r)
    BY <1>1, <2>2, <2>3, CollectKeeps DEF ReplayInv, Holding, Recording, Goes
  <2>5. Halted => Halted'
    BY <2>2, <2>4, HaltedStays
  <2>6. \A x : Live(x)' <=> Live(x)
    BY <1>1 DEF Live
  <2>7. EndOK(r)'
    BY <2>3 DEF EndOK
  <2>8. \A f \in proc[p].queue : Live(f) => asked[f] > 0
    BY <1>1, <1>2 DEF SendOK
  <2>9. e \notin proc[p].queue
    BY <1>1, <1>2 DEF SendOK
  <2>10. CASE e = Install
    <3>1. install' = [gen |-> gen, delivery |-> "none"] /\ UNCHANGED events
      BY <1>4, <2>10 DEF FreezeAs
    <3>2. ~Gone /\ install = NoInstall
      <4>1. events # NoEvents
        BY <1>4 DEF NoEvents
      <4> QED
        BY <1>1, <1>2, <2>10, <4>1 DEF Gone, SendOK
    <3>3. ~Live(Install) /\ [event |-> Install, gen |-> gen] \notin open
      BY <1>2, <3>2 DEF ReplayInv, InstallOK, Live, NoInstall
    <3>4. InstallOK'
      BY <1>1, <2>6, <3>1, <3>3 DEF InstallOK
    <3>5. ReplayTypes' /\ FactsOK'
      BY <1>1, <2>5, <2>6, <3>1 DEF ReplayInv, ReplayTypes, FactsOK, RowOK
    <3>6. SendOK(r)'
      BY <1>1, <1>2, <2>3, <2>6, <2>8, <2>9, <2>10, <3>1, <3>3 DEF SendOK, Sending, Before, Marked
    <3> QED
      BY <1>1, <1>2, <2>2, <2>4, <2>7, <3>4, <3>5, <3>6, AloneStep
  <2>11. CASE e # Install
    <3>1. /\ e \in DOMAIN events /\ UNCHANGED install
          /\ events' = [events EXCEPT ![e].wire = [gen |-> gen, success |-> proc[p].outcome]]
      BY <1>4, <2>11 DEF FreezeAs, SignedRow
    <3>2. /\ DOMAIN events' = DOMAIN events /\ events'[e].wire.gen = gen
          /\ \A f \in DOMAIN events : f # e => events'[f] = events[f]
          /\ \A f \in DOMAIN events : events'[f].delivery = events[f].delivery
      <4>1. events[e] \in EventRow
        BY <3>1 DEF AgentInv, Globals, FileTypes
      <4> QED
        BY <3>1, <4>1 DEF EventRow
    <3>3. ~Live(e) /\ ~Gone
      <4>1. events # NoEvents
        BY <3>1 DEF NoEvents
      <4> QED
        BY <1>1, <1>2, <3>1, <4>1 DEF SendOK, Gone
    <3>4. \A f : RowOK(f) => RowOK(f)'
      BY <1>1, <1>2, <2>5, <3>2 DEF RowOK
    <3>5. RowOK(r.item)'
      BY <1>1, <1>2, <2>3, <3>1, <3>2 DEF RowOK
    <3>6. FactsOK' /\ InstallOK' /\ ReplayTypes'
      BY <1>1, <1>2, <2>6, <3>1, <3>2, <3>3, <3>4 DEF ReplayInv, FactsOK, InstallOK, ReplayTypes
    <3>7. SendOK(r)'
      BY <1>1, <2>3, <2>6, <2>8, <2>9, <2>11, <3>3, <3>5 DEF SendOK, Sending, Before, Marked
    <3> QED
      BY <1>1, <1>2, <2>2, <2>4, <2>7, <3>6, <3>7, AloneStep
  <2> QED
    BY <2>10, <2>11
<1> QED
  BY <1>3, <1>4 DEF Freeze

LEMMA SignReplay ==
  ASSUME AgentInv, ReplayInv, NEW p \in Procs, Sign(p)
  PROVE  ReplayInv'
<1>1. proc[p].pc = "sign" /\ Sending(proc[p]) /\ Same /\ UNCHANGED <<core, withdrawal>>
  BY DEF Sign, At, Same, files, local, history, Sending
<1>2. CASE GoTo(p, "mark") /\ UNCHANGED lock
  <2>1. PICK r : r = [proc[p] EXCEPT !.pc = "mark"]
    OBVIOUS
  <2>2. proc' = [proc EXCEPT ![p] = r]
    BY <1>2, <2>1 DEF GoTo, Become
  <2>3. r.pc = "mark" /\ r.item = proc[p].item /\ r.wire = proc[p].wire /\ r.queue = proc[p].queue
    BY <1>1, <2>1, Sender DEF Record
  <2>4. SendOK(r) /\ EndOK(r)'
    BY <1>1, <2>3, Sender DEF SendOK, EndOK, Sending, Before, Marked
  <2>5. CollectStep(p, r) /\ Goes(p, r)
    BY <1>1, <1>2, <2>3, CollectKeeps DEF ReplayInv, Holding, Recording, Goes
  <2> QED
    BY <1>1, <2>2, <2>4, <2>5, SameStep
<1> QED
  BY <1>1, <1>2, StopStep DEF Sign

\* The row of the event says so before its request leaves.
LEMMA MarkUnconfirmedReplay ==
  ASSUME AgentInv, ReplayInv, NEW p \in Procs, MarkUnconfirmed(p)
  PROVE  ReplayInv'
<1> DEFINE e == proc[p].item
<1>1. /\ proc[p].pc = "mark" /\ Sending(proc[p])
      /\ UNCHANGED <<core, withdrawal, server, open, asked>>
  BY DEF MarkUnconfirmed, At, Sending, history
<1>2. /\ NeedsSender(proc[p]) /\ proc[p] \in Record /\ SendOK(proc[p]) /\ e \in EventIds
      /\ Install \notin Facts /\ DOMAIN events \subseteq Facts
  BY <1>1, Sender DEF SenderOK, HasWire
<1>3. CASE Stop(p) /\ UNCHANGED <<events, install>>
  BY <1>1, <1>3, StopStep DEF Same
<1>4. CASE Markable(e) /\ Mark(e, "unconfirmed") /\ GoTo(p, "flight") /\ UNCHANGED lock
  <2>1. PICK r : r = [proc[p] EXCEPT !.pc = "flight"]
    OBVIOUS
  <2>2. proc' = [proc EXCEPT ![p] = r]
    BY <1>4, <2>1 DEF GoTo, Become
  <2>3. r.pc = "flight" /\ r.item = e /\ r.wire = proc[p].wire /\ r.queue = proc[p].queue
    BY <1>2, <2>1 DEF Record
  <2>4. CollectStep(p, r) /\ Goes(p, r)
    BY <1>1, <1>4, <2>3, CollectKeeps DEF ReplayInv, Holding, Recording, Goes
  <2>5. Halted => Halted'
    BY <2>2, <2>4, HaltedStays
  <2>6. \A x : Live(x)' <=> Live(x)
    BY <1>1 DEF Live
  <2>7. EndOK(r)'
    BY <2>3 DEF EndOK
  <2>8. /\ DOMAIN events' = DOMAIN events /\ \A f \in DOMAIN events : events'[f].wire = events[f].wire
        /\ \A f \in DOMAIN events : f # e => events'[f] = events[f]
        /\ e \in DOMAIN events => events'[e].delivery = "unconfirmed"
    <3>1. \A f \in DOMAIN events : events[f] \in EventRow
      BY DEF AgentInv, Globals, FileTypes
    <3> QED
      BY <1>4, <3>1 DEF Mark, EventRow
  <2>9. /\ install'.gen = install.gen /\ (install.delivery # "none" => install'.delivery # "none")
        /\ install = NoInstall => install' = install
        /\ e = Install => install'.delivery = "unconfirmed"
        /\ e # Install => install' = install
    <3>1. install \in [gen : Nat, delivery : Deliveries]
      BY DEF AgentInv, Globals, FileTypes
    <3> QED
      BY <1>4, <3>1 DEF Mark, Markable
  <2>10. (\A f : RowOK(f) => RowOK(f)') /\ (Gone => Gone')
    <3>1. Gone => Gone'
      <4>1. events = NoEvents => DOMAIN events = {}
        BY DEF NoEvents
      <4> QED
        BY <1>4, <2>5, <2>9, <4>1 DEF Gone, Mark
    <3> QED
      BY <1>1, <2>5, <2>8, <3>1 DEF RowOK
  <2> HIDE DEF e
  <2>11. FactsOK'
    BY <1>1, <2>6, <2>8, <2>10 DEF ReplayInv, FactsOK
  <2>12. InstallOK' /\ ReplayTypes'
    BY <1>1, <2>6, <2>8, <2>9, <2>10 DEF ReplayInv, InstallOK, ReplayTypes
  <2>13. SendOK(r)'
    <3>1. /\ \A f \in r.queue : Live(f)' => asked'[f] > 0
          /\ r.item \notin r.queue
      BY <1>1, <1>2, <2>3, <2>6 DEF SendOK, e
    <3>2. r.item \in Facts => RowOK(r.item)' /\ (Live(r.item)' => asked'[r.item] > 0)
      BY <1>1, <1>2, <2>3, <2>6, <2>10 DEF SendOK, Before, e
    <3>3. r.item = Install =>
            [event |-> Install, gen |-> r.wire] \notin open' /\ (install'.gen = r.wire \/ Gone')
      BY <1>1, <1>2, <2>3, <2>9, <2>10 DEF SendOK, Before, e
    <3>4. ~(r.item \in DOMAIN events' /\ events'[r.item].delivery = "none")
      BY <2>3, <2>8
    <3>5. r.item = Install => install'.delivery # "none" \/ install' = NoInstall
      BY <2>3, <2>9
    <3> QED
      BY <2>3, <3>1, <3>2, <3>3, <3>4, <3>5 DEF SendOK, Sending, Before, Marked
  <2> QED
    BY <1>1, <1>2, <2>2, <2>4, <2>7, <2>11, <2>12, <2>13, AloneStep
<1> QED
  BY <1>3, <1>4 DEF MarkUnconfirmed

LEMMA WriteMarkerReplay ==
  ASSUME AgentInv, ReplayInv, NEW p \in Procs, WriteMarker(p)
  PROVE  ReplayInv'
<1>1. /\ proc[p].pc = "flight" /\ Sending(proc[p]) /\ Same /\ UNCHANGED <<core, withdrawal, lock>>
      /\ GoTo(p, "post")
  BY DEF WriteMarker, At, Sending, Same, local, history
<1>2. PICK r : r = [proc[p] EXCEPT !.pc = "post"]
  OBVIOUS
<1>3. proc' = [proc EXCEPT ![p] = r]
  BY <1>1, <1>2 DEF GoTo, Become
<1>4. r.pc = "post" /\ r.item = proc[p].item /\ r.wire = proc[p].wire /\ r.queue = proc[p].queue
  BY <1>1, <1>2, Sender DEF Record
<1>5. SendOK(r) /\ EndOK(r)'
  BY <1>1, <1>4, Sender DEF SendOK, EndOK, Sending, Before, Marked
<1>6. CollectStep(p, r) /\ Goes(p, r)
  BY <1>1, <1>4, CollectKeeps DEF ReplayInv, Holding, Recording, Goes
<1> QED
  BY <1>1, <1>3, <1>5, <1>6, SameStep

\* The request leaves, and a resend that was asked for is made.
LEMMA PostReplay ==
  ASSUME AgentInv, ReplayInv, NEW p \in Procs, Post(p)
  PROVE  ReplayInv'
<1> DEFINE e == proc[p].item
           x == Request(p)
<1>1. /\ proc[p].pc = "post" /\ Sending(proc[p]) /\ GoTo(p, "posted") /\ open' = open \cup {x}
      /\ asked' = IF x \in open /\ asked[e] > 0 THEN [asked EXCEPT ![e] = @ - 1] ELSE asked
      /\ UNCHANGED <<core, events, install, withdrawal, lock, server>>
  BY DEF Post, At, Sending, files, local
<1>2. /\ NeedsSender(proc[p]) /\ proc[p] \in Record /\ SendOK(proc[p]) /\ e \in EventIds
      /\ core.gen \notin server.tombstones /\ core.gen \in Nat /\ proc[p].wire \in Nat
      /\ Install \notin Facts /\ DOMAIN events \subseteq Facts /\ Facts \subseteq EventIds
      /\ e # Install => proc[p].wire = core.gen
      /\ x = [event |-> e, gen |-> proc[p].wire]
  BY <1>1, Sender DEF SenderOK, HasWire, Record, Request
<1>3. PICK r : r = [proc[p] EXCEPT !.pc = "posted"]
  OBVIOUS
<1>4. proc' = [proc EXCEPT ![p] = r]
  BY <1>1, <1>3 DEF GoTo, Become
<1>5. r.pc = "posted" /\ r.item = e /\ r.queue = proc[p].queue
  BY <1>2, <1>3 DEF Record
<1>6. CollectStep(p, r) /\ Goes(p, r)
  BY <1>1, <1>5, CollectKeeps DEF ReplayInv, Holding, Recording, Goes
<1>7. Halted => Halted'
  BY <1>4, <1>6, HaltedStays
<1>8. EndOK(r)'
  BY <1>5 DEF EndOK
<1>9. (\A f : RowOK(f) => RowOK(f)') /\ (Gone => Gone')
  BY <1>1, <1>7 DEF RowOK, Gone
<1>10. /\ asked \in [EventIds -> Nat] /\ asked' \in [EventIds -> Nat]
       /\ \A f \in EventIds : f # e => asked'[f] = asked[f]
       /\ asked'[e] = IF x \in open /\ asked[e] > 0 THEN asked[e] - 1 ELSE asked[e]
       /\ asked[e] \in Nat
  BY <1>1, <1>2 DEF ReplayInv, ReplayTypes
<1>11. \A f : f # e => (Live(f)' <=> Live(f))
  BY <1>1, <1>2 DEF Live
<1>12. e \in Facts => (Live(e) <=> x \in open)
  BY <1>2 DEF Live
<1> HIDE DEF e, x
<1>13. ReplayTypes'
  BY <1>1, <1>10 DEF ReplayInv, ReplayTypes
<1>14. FactsOK'
  <2> SUFFICES ASSUME NEW f \in Facts, Live(f)'
               PROVE  RowOK(f)' /\ (f \in DOMAIN events => events[f].delivery # "none" \/ asked'[f] > 0)
    BY <1>1 DEF FactsOK
  <2>1. CASE f # e
    BY <1>2, <1>9, <1>10, <1>11, <2>1 DEF ReplayInv, FactsOK
  <2>2. CASE f = e
    <3>1. RowOK(f)'
      BY <1>1, <1>2, <1>9, <2>2 DEF SendOK, Before, e
    <3>2. e \in DOMAIN events /\ events[e].delivery = "none" => asked[e] > IF x \in open THEN 1 ELSE 0
      BY <1>1, <1>2, <1>12, <2>2 DEF SendOK, Marked, e
    <3> QED
      BY <1>10, <2>2, <3>1, <3>2
  <2> QED
    BY <2>1, <2>2
<1>15. InstallOK'
  <2>1. CASE e # Install
    <3>1. \A g : [event |-> Install, gen |-> g] \in open' => [event |-> Install, gen |-> g] \in open
      BY <1>1, <1>2, <2>1
    <3> QED
      BY <1>1, <1>9, <1>11, <2>1, <3>1 DEF ReplayInv, InstallOK
  <2>2. CASE e = Install
    <3>1. /\ install.gen = proc[p].wire \/ Gone
          /\ install.delivery # "none" \/ install = NoInstall
      BY <1>1, <1>2, <2>2 DEF SendOK, Before, Marked, e
    <3>2. install.gen # 0 => install.delivery # "none"
      BY <3>1 DEF NoInstall
    <3>3. Live(Install)' => (install.gen = core.gen /\ install.delivery # "none") \/ Gone
      <4>1. CASE Live(Install)
        BY <4>1 DEF ReplayInv, InstallOK
      <4>2. CASE Live(Install)' /\ ~Live(Install)
        <5>1. core.gen = proc[p].wire /\ core.gen # 0
          <6>1. core.gen = proc[p].wire
            BY <1>1, <1>2, <2>2, <4>2 DEF Live
          <6>2. core.gen >= 1
            BY <1>1, Sender
          <6> QED
            BY <6>1, <6>2
        <5> QED
          BY <3>1, <3>2, <5>1
      <4> QED
        BY <4>1, <4>2
    <3> QED
      BY <1>1, <1>9, <3>2, <3>3 DEF InstallOK
  <2> QED
    BY <2>1, <2>2
<1>16. SendOK(r)'
  <2>1. \A f \in r.queue : f # e /\ f \in Facts /\ (Live(f) => asked[f] > 0)
    BY <1>1, <1>2, <1>5, Sender DEF SendOK, e
  <2>2. \A f \in r.queue : Live(f)' => asked'[f] > 0
    BY <1>2, <1>10, <1>11, <2>1
  <2> QED
    BY <1>5, <2>1, <2>2 DEF SendOK, Sending, Before, Marked
<1> QED
  BY <1>1, <1>2, <1>4, <1>6, <1>8, <1>13, <1>14, <1>15, <1>16, AloneStep

LEMMA ServerAnswersReplay ==
  ASSUME AgentInv, ReplayInv, NEW p \in Procs, ServerAnswers(p)
  PROVE  ReplayInv'
<1>1. /\ proc[p].pc = "posted" /\ Sending(proc[p]) /\ GoTo(p, "outcome")
      /\ UNCHANGED <<core, events, install, withdrawal, lock, open, asked>>
  BY DEF ServerAnswers, At, Sending, files, local, history
<1>2. Same
  BY <1>1 DEF ServerAnswers, Accepted, Same, AgentInv, Globals, CoreTypes
<1>3. PICK r : r = [proc[p] EXCEPT !.pc = "outcome"]
  OBVIOUS
<1>4. proc' = [proc EXCEPT ![p] = r]
  BY <1>1, <1>3 DEF GoTo, Become
<1>5. r.pc = "outcome" /\ r.item = proc[p].item /\ r.queue = proc[p].queue
  BY <1>1, <1>3, Sender DEF Record
<1>6. SendOK(r) /\ EndOK(r)'
  BY <1>1, <1>5, Sender DEF SendOK, EndOK, Sending, Before, Marked
<1>7. CollectStep(p, r) /\ Goes(p, r)
  BY <1>1, <1>5, CollectKeeps DEF ReplayInv, Holding, Recording, Goes
<1> QED
  BY <1>2, <1>4, <1>6, <1>7, SameStep

\* The outcome is known: the request is not open any more.
LEMMA RecordOutcomeReplay ==
  ASSUME AgentInv, ReplayInv, NEW p \in Procs, RecordOutcome(p)
  PROVE  ReplayInv'
<1> DEFINE e == proc[p].item
           x == Request(p)
<1>1. /\ proc[p].pc = "outcome" /\ Sending(proc[p]) /\ open' = open \ {x}
      /\ UNCHANGED <<core, withdrawal, server, asked>>
  BY DEF RecordOutcome, At, Sending
<1>2. /\ NeedsSender(proc[p]) /\ proc[p] \in Record /\ SendOK(proc[p]) /\ e \in EventIds
      /\ Install \notin Facts /\ DOMAIN events \subseteq Facts
      /\ x = [event |-> e, gen |-> proc[p].wire]
  BY <1>1, Sender DEF SenderOK, HasWire, Request
<1>3. \A y : Live(y)' => Live(y)
  BY <1>1 DEF Live
<1>4. CASE Stop(p) /\ UNCHANGED <<events, install>>
  <2>1. PICK r : r = Idle
    OBVIOUS
  <2>2. proc' = [proc EXCEPT ![p] = r] /\ CollectStep(p, r)
    BY <1>4, <2>1, StopsCollect DEF AgentInv, ReplayInv
  <2>3. Calm(r) /\ Goes(p, r)
    BY <1>1, <2>1 DEF Calm, Sending, Idle, Goes, Recording
  <2>4. Halted => Halted'
    BY <2>2, <2>3, HaltedStays
  <2>5. (\A f : RowOK(f) => RowOK(f)') /\ (Gone => Gone')
    BY <1>1, <1>4, <2>4 DEF RowOK, Gone
  <2>6. FactsOK' /\ InstallOK' /\ ReplayTypes'
    BY <1>1, <1>3, <1>4, <2>5 DEF ReplayInv, FactsOK, InstallOK, ReplayTypes
  <2> QED
    BY <1>1, <1>2, <2>2, <2>3, <2>6, CalmOK, AloneStep
<1>5. CASE Markable(e) /\ Mark(e, "done") /\ GoTo(p, "unflight") /\ UNCHANGED lock
  <2>1. PICK r : r = [proc[p] EXCEPT !.pc = "unflight"]
    OBVIOUS
  <2>2. proc' = [proc EXCEPT ![p] = r]
    BY <1>5, <2>1 DEF GoTo, Become
  <2>3. r.pc = "unflight" /\ r.item = e /\ r.queue = proc[p].queue
    BY <1>2, <2>1 DEF Record
  <2>4. CollectStep(p, r) /\ Goes(p, r)
    BY <1>1, <1>5, <2>3, CollectKeeps DEF ReplayInv, Holding, Recording, Goes
  <2>5. Halted => Halted'
    BY <2>2, <2>4, HaltedStays
  <2>6. EndOK(r)'
    BY <2>3 DEF EndOK
  <2>7. /\ DOMAIN events' = DOMAIN events /\ \A f \in DOMAIN events : events'[f].wire = events[f].wire
        /\ \A f \in DOMAIN events : f # e => events'[f] = events[f]
        /\ e \in DOMAIN events => events'[e].delivery = "done"
    <3>1. \A f \in DOMAIN events : events[f] \in EventRow
      BY DEF AgentInv, Globals, FileTypes
    <3> QED
      BY <1>5, <3>1 DEF Mark, EventRow
  <2>8. \A f : RowOK(f) => RowOK(f)'
    BY <1>1, <2>5, <2>7 DEF RowOK
  <2>9. FactsOK' /\ ReplayTypes'
    BY <1>1, <1>3, <2>7, <2>8 DEF ReplayInv, FactsOK, ReplayTypes
  <2>10. InstallOK'
    <3>1. CASE e # Install
      <4>1. UNCHANGED install
        BY <1>5, <3>1 DEF Mark
      <4>2. Gone => Gone'
        <5>1. events = NoEvents => DOMAIN events = {}
          BY DEF NoEvents
        <5> QED
          BY <1>5, <2>5, <4>1, <5>1 DEF Gone, Mark
      <4> QED
        BY <1>1, <1>3, <4>1, <4>2 DEF ReplayInv, InstallOK
    <3>2. CASE e = Install
      <4>1. install' = [gen |-> 0, delivery |-> "done"]
        BY <1>5, <3>2 DEF Mark
      <4>2. ~Live(Install)'
        <5> SUFFICES ASSUME [event |-> Install, gen |-> core.gen] \in open, core.gen # proc[p].wire
                     PROVE  FALSE
          BY <1>1, <1>2, <3>2 DEF Live
        <5>1. /\ core.gen <= proc[p].wire /\ proc[p].wire <= proc[p].gen /\ proc[p].gen = core.gen
              /\ core.gen \in Nat /\ proc[p].wire \in Nat
          BY <1>1, <3>2, Sender DEF SenderOK, HasWire, Record
        <5> QED
          BY <5>1
      <4> QED
        BY <4>1, <4>2 DEF InstallOK
    <3> QED
      BY <3>1, <3>2
  <2>11. SendOK(r)'
    <3>1. \A f \in r.queue : f # e /\ (Live(f)' => asked'[f] > 0)
      BY <1>1, <1>2, <1>3, <2>3 DEF SendOK
    <3> QED
      BY <2>3, <3>1 DEF SendOK, Sending, Before, Marked
  <2> QED
    BY <1>1, <1>2, <2>2, <2>4, <2>6, <2>9, <2>10, <2>11, AloneStep
<1> QED
  BY <1>4, <1>5 DEF RecordOutcome

LEMMA RemoveMarkerReplay ==
  ASSUME AgentInv, ReplayInv, NEW p \in Procs, RemoveMarker(p)
  PROVE  ReplayInv'
<1>1. proc[p].pc = "unflight" /\ Sending(proc[p]) /\ Same /\ UNCHANGED <<core, withdrawal>>
  BY DEF RemoveMarker, At, Sending, Same, local, history
<1>2. CASE GoTo(p, "next") /\ UNCHANGED lock
  <2>1. PICK r : r = [proc[p] EXCEPT !.pc = "next"]
    OBVIOUS
  <2>2. proc' = [proc EXCEPT ![p] = r]
    BY <1>2, <2>1 DEF GoTo, Become
  <2>3. r.pc = "next" /\ r.item = proc[p].item /\ r.queue = proc[p].queue
    BY <1>1, <2>1, Sender DEF Record
  <2>4. SendOK(r) /\ EndOK(r)'
    BY <1>1, <2>3, Sender DEF SendOK, EndOK, Sending, Before, Marked
  <2>5. CollectStep(p, r) /\ Goes(p, r)
    BY <1>1, <1>2, <2>3, CollectKeeps DEF ReplayInv, Holding, Recording, Goes
  <2> QED
    BY <1>1, <2>2, <2>4, <2>5, SameStep
<1> QED
  BY <1>1, <1>2, StopStep DEF RemoveMarker

----------------------------------------------------------------------------
(* Every step *)

LEMMA ContinuesReplay ==
  ASSUME AgentInv, ReplayInv, Apart, NEW p \in Procs, Continues(p)
  PROVE  ReplayInv'
<1>1. CASE HookLocks(p) \/ DrainLocks(p) \/ BeginLocks(p) \/ FinishLocks(p)
  BY <1>1, AcquireReplay DEF HookLocks, DrainLocks, BeginLocks, FinishLocks, Unmoving
<1>2. CASE CollectionStep(p)
  BY <1>1, <1>2, HookLooksReplay, HookObservesReplay, DrainReadsReplay, DrainChecksReplay,
     DrainRecordsReplay, DrainRemovesReplay DEF CollectionStep
<1>3. CASE SenderStep(p)
  BY <1>3, TickEnabledReplay, TickUploadsReplay, NextRowReplay, NextInstallReplay, FreezeReplay, SignReplay,
     MarkUnconfirmedReplay, WriteMarkerReplay, PostReplay, ServerAnswersReplay, StopsReplay,
     RecordOutcomeReplay, RemoveMarkerReplay DEF SenderStep
<1>4. CASE WithdrawStep(p)
  BY <1>1, <1>4, BeginWithholdsReplay, BeginDeclaresReplay, BeginErasesReplay, BeginClearsReplay,
     FinishReadsReplay, FinishErasesReplay, FinishBarsReplay, FinishRereadsReplay, CoreAnswersReplay,
     FinishDecidesReplay, FinishRecordsReplay DEF WithdrawStep
<1>5. CASE ResendReopens(p)
  BY <1>5, ResendReopensReplay
<1> QED
  BY <1>2, <1>3, <1>4, <1>5 DEF Continues

LEMMA InitReplay == RuntimeInit => ReplayInv
<1> SUFFICES ASSUME RuntimeInit PROVE ReplayInv
  OBVIOUS
<1>1. /\ events = NoEvents /\ install = NoInstall /\ open = {} /\ asked = [e \in EventIds |-> 0]
      /\ proc = [p \in Procs |-> Idle]
  BY DEF RuntimeInit, Init
<1>2. \A e : ~Live(e)
  BY <1>1 DEF Live
<1>3. ReplayTypes /\ FactsOK /\ InstallOK
  BY <1>1, <1>2 DEF ReplayTypes, FactsOK, InstallOK, NoEvents, NoInstall
<1>4. \A p \in Procs : proc[p].pc = "idle"
  BY <1>1 DEF Idle
<1>5. Collecting /\ \A p \in Procs : SendOK(proc[p]) /\ EndOK(proc[p])
  BY <1>4 DEF Collecting, Holding, Recording, SendOK, EndOK, Sending, Before, Marked
<1> QED
  BY <1>3, <1>5 DEF ReplayInv

LEMMA NextReplay ==
  ASSUME AgentInv, ReplayInv, Apart, [RuntimeNext]_<<vars, runtime>>
  PROVE  ReplayInv'
<1>1. ASSUME UNCHANGED <<core, files, lock, proc, server, history>> PROVE ReplayInv'
  BY <1>1, ReplayUnmoved DEF history
<1>2. ASSUME NEW p \in Procs, EntryStep(p) PROVE ReplayInv'
  <2>1. CASE RunsNode(p)
    BY <2>1, StartsReplay DEF RunsNode, Starts
  <2>2. CASE CallRetained(p)
    BY <2>2, PrepareRetainsReplay DEF CallRetained
  <2>3. CASE Finishes(p)
    BY <2>3, FinishesReplay
  <2>4. CASE PrepareStarts(p) \/ Starts(p)
    BY <2>4, StartsReplay
  <2>5. CASE /\ \/ CallEnters(p) \/ Enters(p) \/ NotesSession(p) \/ NotesInitial(p) \/ TriesLock(p)
                \/ StartsAttempt(p) \/ Forks(p) \/ Downloads(p) \/ Publishes(p) \/ ProducerEnds(p)
             /\ ~PrepareStarts(p)
    <3>1. UNCHANGED <<core, files, lock, proc, server, history>>
      BY <2>5 DEF CallEnters, Enters, NotesSession, NotesInitial, TriesLock, StartsAttempt, Forks, Downloads,
                  Publishes, ProducerEnds, vars
    <3> QED
      BY <1>1, <3>1
  <2> QED
    BY <1>2, <2>1, <2>2, <2>3, <2>4, <2>5 DEF EntryStep
<1>3. ASSUME NEW p \in Procs, Killed(p) PROVE ReplayInv'
  BY <1>1, <1>3, StopsReplay DEF Killed
<1>4. ASSUME Repairs \/ TakesOver \/ UNCHANGED <<vars, runtime>> PROVE ReplayInv'
  BY <1>1, <1>4 DEF Repairs, TakesOver, vars
<1> QED
  BY <1>2, <1>3, <1>4, ContinuesReplay, LateRequestArrivesReplay, GrantReplay DEF RuntimeNext

\* What the rows say of every request that may be unanswered, as long as no
\* finisher is past its erasure while another process declares and erases.
THEOREM ReplayInvariant == RuntimeSpec /\ []Apart => []ReplayInv
<1>1. AgentInv /\ ReplayInv /\ Apart /\ [RuntimeNext]_<<vars, runtime>> => ReplayInv'
  BY NextReplay
<1> QED
  BY AgentInvariant, InitReplay, <1>1, PTL DEF RuntimeSpec

LEMMA ReplayedOnlyIfAsked == ASSUME AgentInv, ReplayInv PROVE UnknownNotReplayed
<1> SUFFICES ASSUME NEW p \in Procs, proc[p].pc = "post"
             PROVE  Request(p) \notin open \/ asked[proc[p].item] > 0
  BY DEF UnknownNotReplayed, At
<1>1. Sending(proc[p])
  BY DEF Sending
<1>2. proc[p].item \in EventIds /\ SendOK(proc[p]) /\ core.gen \notin server.tombstones
  BY <1>1, Sender DEF SenderOK, HasWire
<1>3. CASE proc[p].item = Install
  BY <1>2, <1>3 DEF SendOK, Before, Request
<1>4. CASE proc[p].item \in Facts
  <2>1. proc[p].wire = core.gen
    BY <1>1, <1>4, Sender DEF SenderOK, HasWire
  <2> QED
    BY <1>2, <1>4, <2>1 DEF SendOK, Before, Request, Live
<1> QED
  BY <1>2, <1>3, <1>4 DEF EventIds

\* An event whose last request has no known outcome leaves again only when the
\* person asked for it (upload.mjs:28, store.mjs:75, cli.mjs:81), as long as no
\* finisher is past its erasure while another withdrawal declares and erases.
THEOREM NothingReplayedApart == RuntimeSpec /\ []Apart => []UnknownNotReplayed
<1>1. AgentInv /\ ReplayInv => UnknownNotReplayed
  BY ReplayedOnlyIfAsked
<1> QED
  BY AgentInvariant, ReplayInvariant, <1>1, PTL

----------------------------------------------------------------------------
(* What a step does to the withdrawals under way *)

Declaring == {"begin", "withhold", "declare"}
Ending == {"call", "decide", "record"}
Withdrawing == Past \cup Declaring \cup {"wipe", "erase-lock", "erase"}

\* A process comes to a place, the others stay where they are.
Lands(p, pcs) ==
  (\A q \in Procs : q # p => proc'[q] = proc[q]) /\ proc'[p].pc \in pcs

\* Where a process on its way through a withdrawal comes from, and what it does
\* to the consent and to withdrawal.json.
Flow(p) ==
  /\ \A q \in Procs : q # p => proc'[q] = proc[q]
  /\ proc'[p].pc \in Past =>
       proc[p].pc \in Past \/ (proc[p].pc = "erase" /\ withdrawal.state = "pending" /\ Erase)
  /\ proc'[p].pc \in Ending => proc[p].pc \in Ending \/ withdrawal.state = "pending"
  /\ proc'[p].pc = "erase-lock" => withdrawal.state = "pending"
  /\ proc'[p].pc = "erase" => proc[p].pc = "erase-lock"
  /\ proc'[p].pc = "wipe" => proc[p].pc = "declare"
  /\ proc'[p].pc = "declare" => proc[p].pc = "withhold" /\ core'.consent = "withheld"
  /\ proc'[p].pc = "withhold" => proc[p].pc = "begin"
  /\ proc'[p].pc = "begin" => Spend("withdraw")
  /\ \/ UNCHANGED core
     \/ proc[p].pc = "withhold" /\ core' = [core EXCEPT !.consent = "withheld"]
  /\ \/ UNCHANGED withdrawal
     \/ proc[p].pc \in {"declare", "decide"} /\ withdrawal'.state = "pending"
     \/ proc[p].pc = "record" /\ withdrawal'.state = "sent" /\ proc'[p].pc \notin Past
  /\ Recording(proc'[p]) => Recording(proc[p]) \/ ~Stopped
Spends == left' = left \/ \E kind \in BudgetKinds : Spend(kind)

LEMMA BecomeLands ==
  ASSUME AgentInv, NEW p \in Procs, NEW r, Become(p, r), NEW pcs, r.pc \in pcs
  PROVE  Lands(p, pcs)
BY Others2 DEF Become, Lands

LEMMA StopLands ==
  ASSUME AgentInv, NEW p \in Procs, Stop(p)
  PROVE  Lands(p, {"idle"})
BY BecomeLands DEF Stop, Idle

LEMMA GoLands ==
  ASSUME AgentInv, NEW p \in Procs, NEW pc, GoTo(p, pc)
  PROVE  Lands(p, {pc})
<1>1. PICK r : r = [proc[p] EXCEPT !.pc = pc]
  OBVIOUS
<1> QED
  BY <1>1, PcOf, BecomeLands DEF GoTo

LEMMA AcquireLands ==
  ASSUME AgentInv, NEW p \in Procs, NEW pc, AcquireCollection(p, pc)
  PROVE  Lands(p, {pc, "idle"})
BY GoLands, StopLands DEF AcquireCollection, Lands

LEMMA ReturnLands ==
  ASSUME AgentInv, NEW p \in Procs, Return(p)
  PROVE  Lands(p, {"idle", "enabled"})
<1>1. PICK r : r = [Idle EXCEPT !.pc = "enabled", !.program = "tick", !.consent = proc[p].consent]
  OBVIOUS
<1>2. r.pc = "enabled"
  BY <1>1 DEF Idle
<1>3. CASE Become(p, r)
  BY <1>2, <1>3, BecomeLands
<1> QED
  BY <1>1, <1>3, StopLands DEF Return, Lands

LEMMA AfterDrainLands ==
  ASSUME AgentInv, NEW p \in Procs, Become(p, AfterDrain(p))
  PROVE  Lands(p, {"look", "upload", "idle"})
<1>1. AfterDrain(p).pc \in {"look", "upload", "idle"}
  BY DEF AfterDrain, AgentInv, ProcTypes, Program, Record, Idle
<1>2. PICK r : r = AfterDrain(p)
  OBVIOUS
<1> QED
  BY <1>1, <1>2, BecomeLands

LEMMA LaunchLands ==
  ASSUME AgentInv, NEW p \in Procs, NEW kind \in BudgetKinds, NEW r, Launch(p, kind, r),
         [r EXCEPT !.program = kind].pc = r.pc
  PROVE  Lands(p, {r.pc}) /\ Spend(kind)
<1>1. PICK s : s = [r EXCEPT !.program = kind]
  OBVIOUS
<1> QED
  BY <1>1, BecomeLands DEF Launch

LEMMA StartsLand ==
  ASSUME AgentInv, NEW p \in Procs, HookStarts(p) \/ TickStarts(p) \/ ResendReads(p) \/ PrepareStarts(p)
  PROVE  Lands(p, {"drain", "finish", "reopen", "retain"}) /\ Spends /\ UNCHANGED <<core, withdrawal>>
<1>1. ASSUME NEW kind \in BudgetKinds, NEW r, Launch(p, kind, r), [r EXCEPT !.program = kind].pc = r.pc,
             r.pc \in {"drain", "finish", "reopen", "retain"}
      PROVE  Lands(p, {"drain", "finish", "reopen", "retain"}) /\ Spends
  BY <1>1, LaunchLands DEF Lands, Spends
<1>2. {"hook", "tick", "resend", "prepare"} \subseteq BudgetKinds
  BY DEF BudgetKinds
<1>3. CASE HookStarts(p)
  <2>1. PICK f \in Facts, outcome \in {"unknown", "known"} :
          Launch(p, "hook", [Idle EXCEPT !.pc = "drain", !.item = f, !.outcome = outcome])
    BY <1>3 DEF HookStarts
  <2> QED
    BY <1>1, <1>2, <1>3, <2>1 DEF HookStarts, Idle, files
<1>4. CASE TickStarts(p)
  BY <1>1, <1>2, <1>4 DEF TickStarts, Idle, files
<1>5. CASE ResendReads(p)
  <2>1. PICK f \in DOMAIN events : Launch(p, "resend", [Idle EXCEPT !.pc = "reopen", !.item = f])
    BY <1>5 DEF ResendReads
  <2> QED
    BY <1>1, <1>2, <1>5, <2>1 DEF ResendReads, Idle, files
<1>6. CASE PrepareStarts(p)
  <2>1. PICK f \in Facts : Launch(p, "prepare", [Idle EXCEPT !.pc = "retain", !.item = f])
    BY <1>6 DEF PrepareStarts
  <2> QED
    BY <1>1, <1>2, <1>6, <2>1 DEF PrepareStarts, Idle, files
<1> QED
  BY <1>3, <1>4, <1>5, <1>6

LEMMA WithdrawStartsLand ==
  ASSUME AgentInv, NEW p \in Procs, WithdrawStarts(p)
  PROVE  Lands(p, {"begin"}) /\ Spend("withdraw") /\ UNCHANGED <<core, withdrawal>>
BY LaunchLands DEF WithdrawStarts, Idle, BudgetKinds, files

\* No step of a hook, a drain or a sender is part of a withdrawal.
Resting == Pcs \ (Withdrawing \cup {"drain-record", "drain-remove"})

LEMMA RestsFlow ==
  ASSUME NEW p \in Procs, Lands(p, Resting), UNCHANGED <<core, withdrawal>>
  PROVE  Flow(p)
BY DEF Lands, Flow, Resting, Withdrawing, Past, Ending, Declaring, Recording

LEMMA RecordsFlow ==
  ASSUME NEW p \in Procs, Lands(p, {"drain-record", "drain-remove"}), UNCHANGED <<core, withdrawal>>,
         Recording(proc[p]) \/ ~Stopped
  PROVE  Flow(p)
BY DEF Lands, Flow, Past, Ending, Recording

LEMMA CollectionFlow ==
  ASSUME AgentInv, NEW p \in Procs, CollectionStep(p)
  PROVE  Flow(p) /\ Spends
<1> DEFINE Calls == {"collect", "observe", "drain-check"}
           Recordings == {"drain-record", "drain-remove"}
<1>1. UNCHANGED <<core, left, withdrawal>>
  BY DEF CollectionStep, HookLooks, HookLocks, HookObserves, DrainReads, DrainLocks, DrainChecks,
         DrainRecords, DrainRemoves, files
<1> SUFFICES Flow(p)
  BY <1>1 DEF Spends
<1>2. Calls \cup {"idle", "look", "upload", "drain-lock"} \subseteq Resting
  BY DEF Resting, Pcs, Withdrawing, Past, Declaring
<1>3. ASSUME NEW pcs, Lands(p, pcs), pcs \subseteq Resting PROVE Flow(p)
  BY <1>1, <1>3, RestsFlow DEF Lands
<1>4. Stop(p) \/ Become(p, AfterDrain(p)) => Flow(p)
  BY <1>2, <1>3, StopLands, AfterDrainLands
<1>5. \A pc \in Calls : GoTo(p, pc) \/ AcquireCollection(p, pc) => Flow(p)
  <2> SUFFICES ASSUME NEW pc \in Calls, GoTo(p, pc) \/ AcquireCollection(p, pc) PROVE Flow(p)
    OBVIOUS
  <2>1. Lands(p, {pc}) \/ Lands(p, {pc, "idle"})
    BY GoLands, AcquireLands
  <2> QED
    BY <1>2, <1>3, <2>1
<1>6. CASE HookLooks(p) \/ HookLocks(p) \/ HookObserves(p) \/ DrainLocks(p)
  BY <1>4, <1>5, <1>6 DEF HookLooks, HookLocks, HookObserves, DrainLocks
<1>7. CASE DrainChecks(p)
  <2>1. CASE Enabled(core.consent) /\ GoTo(p, "drain-record")
    <3>1. Lands(p, Recordings) /\ ~Stopped
      BY <2>1, GoLands DEF Lands, Stopped, Enabled
    <3> QED
      BY <1>1, <3>1, RecordsFlow
  <2> QED
    BY <1>4, <1>7, <2>1 DEF DrainChecks
<1>8. CASE DrainReads(p)
  <2>1. PICK r : r = [proc[p] EXCEPT !.pc = "drain-lock", !.queue = prepared]
    OBVIOUS
  <2>2. r.pc = "drain-lock"
    BY <2>1 DEF AgentInv, ProcTypes, Program, Record
  <2>3. Become(p, r) => Lands(p, {"drain-lock"})
    BY <2>2, BecomeLands
  <2> QED
    BY <1>2, <1>3, <1>4, <1>8, <2>1, <2>3 DEF DrainReads
<1>9. CASE DrainRecords(p) \/ DrainRemoves(p)
  <2>1. Recording(proc[p])
    BY <1>9 DEF DrainRecords, DrainRemoves, At, Recording
  <2>2. ASSUME NEW r, Become(p, r), r.pc \in Recordings PROVE Flow(p)
    BY <1>1, <2>1, <2>2, BecomeLands, RecordsFlow
  <2>3. CASE DrainRecords(p)
    <3>1. PICK f : Become(p, [proc[p] EXCEPT !.pc = "drain-remove", !.row = [fact |-> f, success |-> "unknown"]])
      BY <2>3 DEF DrainRecords
    <3>2. PICK r : r = [proc[p] EXCEPT !.pc = "drain-remove", !.row = [fact |-> f, success |-> "unknown"]]
      OBVIOUS
    <3>3. r.pc = "drain-remove"
      BY <3>2 DEF AgentInv, ProcTypes, Program, Record
    <3> QED
      BY <2>2, <3>1, <3>2, <3>3
  <2>4. ASSUME NEW rest, Become(p, [proc[p] EXCEPT !.pc = "drain-record", !.queue = rest]) PROVE Flow(p)
    <3>1. PICK r : r = [proc[p] EXCEPT !.pc = "drain-record", !.queue = rest]
      OBVIOUS
    <3>2. r.pc = "drain-record"
      BY <3>1 DEF AgentInv, ProcTypes, Program, Record
    <3> QED
      BY <2>2, <2>4, <3>1, <3>2
  <2> QED
    BY <1>4, <1>9, <2>3, <2>4 DEF DrainRemoves
<1> QED
  BY <1>6, <1>7, <1>8, <1>9 DEF CollectionStep

LEMMA SenderRests ==
  ASSUME AgentInv, NEW p \in Procs, SenderStep(p)
  PROVE  Lands(p, Resting) /\ Spends /\ UNCHANGED <<core, withdrawal>>
<1> DEFINE Ends == {"drain", "mark", "flight", "post", "posted", "outcome", "unflight", "next"}
<1>1. UNCHANGED <<core, withdrawal>>
  BY DEF SenderStep, TickEnabled, TickUploads, NextRow, NextInstall, Freeze, Sign, MarkUnconfirmed, WriteMarker,
         Post, ServerAnswers, RequestFails, RecordOutcome, RemoveMarker, files
<1>2. Spends
  BY DEF SenderStep, TickEnabled, TickUploads, NextRow, NextInstall, Freeze, Sign, MarkUnconfirmed, WriteMarker,
         Post, ServerAnswers, RequestFails, RecordOutcome, RemoveMarker, Spends, BudgetKinds
<1>3. \A pc \in Ends \cup {"idle", "sign", "freeze"} : pc \in Resting
  BY DEF Resting, Pcs, Withdrawing, Past, Declaring
<1>4. Stop(p) => Lands(p, Resting)
  BY <1>3, StopLands DEF Lands
<1>5. \A pc \in Ends : GoTo(p, pc) => Lands(p, Resting)
  BY <1>3, GoLands DEF Lands
<1>6. ASSUME NEW r, Become(p, r), r.pc \in Ends \cup {"sign", "freeze"} PROVE Lands(p, Resting)
  BY <1>3, <1>6, BecomeLands
<1>7. proc[p] \in Record
  BY DEF AgentInv, ProcTypes, Program
<1>8. CASE \/ TickEnabled(p) \/ Sign(p) \/ MarkUnconfirmed(p) \/ WriteMarker(p) \/ Post(p)
           \/ ServerAnswers(p) \/ RequestFails(p) \/ RecordOutcome(p) \/ RemoveMarker(p)
  BY <1>1, <1>2, <1>4, <1>5, <1>8 DEF TickEnabled, Sign, MarkUnconfirmed, WriteMarker, Post, ServerAnswers,
     RequestFails, RecordOutcome, RemoveMarker
<1>9. CASE TickUploads(p)
  <2>1. ASSUME NEW f \in DOMAIN events,
               Become(p, [proc[p] EXCEPT !.pc = "next", !.gen = core.gen, !.queue = Unsent,
                                         !.row = [fact |-> f, success |-> events[f].success]])
        PROVE  Lands(p, Resting)
    <3>1. PICK r : r = [proc[p] EXCEPT !.pc = "next", !.gen = core.gen, !.queue = Unsent,
                                       !.row = [fact |-> f, success |-> events[f].success]]
      OBVIOUS
    <3>2. r.pc = "next"
      BY <1>7, <3>1 DEF Record
    <3> QED
      BY <1>6, <2>1, <3>1, <3>2
  <2> QED
    BY <1>1, <1>2, <1>4, <1>9, <2>1 DEF TickUploads
<1>10. ASSUME NEW e, NEW gen, Sends(p, e, gen) PROVE Lands(p, Resting)
  <2>1. PICK r : r = [proc[p] EXCEPT !.pc = "sign", !.item = e, !.wire = gen, !.queue = @ \ {e}]
    OBVIOUS
  <2>2. r.pc = "sign"
    BY <1>7, <2>1 DEF Record
  <2> QED
    BY <1>6, <1>10, <2>1, <2>2 DEF Sends
<1>11. ASSUME NEW e, NEW success, Signs(p, e, success) PROVE Lands(p, Resting)
  <2>1. PICK r : r = [proc[p] EXCEPT !.pc = "freeze", !.item = e, !.outcome = success, !.queue = @ \ {e}]
    OBVIOUS
  <2>2. r.pc = "freeze"
    BY <1>7, <2>1 DEF Record
  <2> QED
    BY <1>6, <1>11, <2>1, <2>2 DEF Signs
<1>12. CASE NextRow(p) \/ NextInstall(p)
  BY <1>1, <1>2, <1>4, <1>10, <1>11, <1>12 DEF NextRow, NextInstall
<1>13. CASE Freeze(p)
  <2>1. PICK wire : wire = [gen |-> proc[p].gen, success |-> proc[p].outcome]
    OBVIOUS
  <2>2. PICK r : r = [proc[p] EXCEPT !.pc = "sign", !.wire = wire.gen]
    OBVIOUS
  <2>3. r.pc = "sign"
    BY <1>7, <2>2 DEF Record
  <2>4. Stop(p) \/ Become(p, r)
    BY <1>13, <2>1, <2>2 DEF Freeze, FreezeAs
  <2> QED
    BY <1>1, <1>2, <1>4, <1>6, <2>3, <2>4
<1> QED
  BY <1>8, <1>9, <1>12, <1>13 DEF SenderStep

LEMMA WithdrawFlow ==
  ASSUME AgentInv, NEW p \in Procs, WithdrawStep(p)
  PROVE  Flow(p) /\ Spends
<1>1. Spends
  BY DEF WithdrawStep, BeginLocks, BeginWithholds, BeginDeclares, BeginErases, BeginClears, FinishReads,
         FinishLocks, FinishErases, FinishBars, FinishRereads, CoreWithdraws, CoreFails, FinishDecides,
         FinishRecords, Spends, BudgetKinds
<1> SUFFICES Flow(p)
  BY <1>1
<1>2. ASSUME NEW pcs, Lands(p, pcs), pcs \subseteq Resting, UNCHANGED <<core, withdrawal>> PROVE Flow(p)
  BY <1>2, RestsFlow DEF Lands
<1>3. {"idle", "enabled", "clear", "finish"} \subseteq Resting
  BY DEF Resting, Pcs, Withdrawing, Past, Declaring
<1>4. ASSUME Return(p) \/ Stop(p), UNCHANGED <<core, withdrawal>> PROVE Flow(p)
  BY <1>2, <1>3, <1>4, ReturnLands, StopLands
<1>5. CASE BeginLocks(p) \/ FinishLocks(p)
  <2>1. UNCHANGED <<core, withdrawal>>
    BY <1>5 DEF BeginLocks, FinishLocks, files
  <2>2. CASE BeginLocks(p)
    <3>1. Lands(p, {"withhold", "idle"}) /\ proc[p].pc = "begin"
      BY <2>2, AcquireLands DEF BeginLocks, At
    <3> QED
      BY <2>1, <3>1 DEF Lands, Flow, Past, Ending, Recording
  <2>3. CASE FinishLocks(p)
    <3>1. Lands(p, {"erase", "idle"}) /\ proc[p].pc = "erase-lock"
      BY <2>3, AcquireLands DEF FinishLocks, At
    <3> QED
      BY <2>1, <3>1 DEF Lands, Flow, Past, Ending, Recording
  <2> QED
    BY <1>5, <2>2, <2>3
<1>6. CASE BeginWithholds(p)
  <2>1. PICK r : r = [proc[p] EXCEPT !.pc = "declare", !.gen = core.gen]
    OBVIOUS
  <2>2. r.pc = "declare"
    BY <2>1 DEF AgentInv, ProcTypes, Program, Record
  <2>3. /\ Lands(p, {"declare"}) /\ proc[p].pc = "withhold" /\ UNCHANGED withdrawal
        /\ core' = [core EXCEPT !.consent = "withheld"] /\ core'.consent = "withheld"
    BY <1>6, <2>1, <2>2, BecomeLands DEF BeginWithholds, At, files, AgentInv, Globals, CoreTypes
  <2> QED
    BY <2>3 DEF Lands, Flow, Past, Ending, Recording
<1>7. CASE BeginDeclares(p)
  <2>1. Lands(p, {"wipe"}) /\ proc[p].pc = "declare" /\ withdrawal'.state = "pending" /\ UNCHANGED core
    BY <1>7, GoLands DEF BeginDeclares, At
  <2> QED
    BY <2>1 DEF Lands, Flow, Past, Ending, Recording
<1>8. CASE BeginErases(p) \/ BeginClears(p)
  <2>1. UNCHANGED <<core, withdrawal>>
    BY <1>8 DEF BeginErases, BeginClears, local
  <2>2. Lands(p, {"clear"}) \/ Lands(p, {"finish"})
    BY <1>8, GoLands DEF BeginErases, BeginClears
  <2> QED
    BY <1>2, <1>3, <2>1, <2>2
<1>9. CASE FinishReads(p) \/ FinishRereads(p)
  <2>1. UNCHANGED <<core, withdrawal>>
    BY <1>9 DEF FinishReads, FinishRereads, files
  <2>2. ASSUME FinishReads(p), withdrawal.state = "pending" PROVE Flow(p)
    <3>1. PICK r : r = [proc[p] EXCEPT !.pc = "erase-lock", !.gen = withdrawal.gen]
      OBVIOUS
    <3>2. r.pc = "erase-lock"
      BY <3>1 DEF AgentInv, ProcTypes, Program, Record
    <3>3. Lands(p, {"erase-lock"})
      BY <2>2, <3>1, <3>2, BecomeLands DEF FinishReads
    <3> QED
      BY <2>1, <2>2, <3>3 DEF Lands, Flow, Past, Ending, Recording
  <2>3. ASSUME FinishRereads(p), withdrawal.state = "pending" PROVE Flow(p)
    <3>1. PICK r : r = [proc[p] EXCEPT !.pc = "call", !.wire = withdrawal.gen]
      OBVIOUS
    <3>2. r.pc = "call"
      BY <3>1 DEF AgentInv, ProcTypes, Program, Record
    <3>3. Lands(p, {"call"}) /\ proc[p].pc = "latest"
      BY <2>3, <3>1, <3>2, BecomeLands DEF FinishRereads, At
    <3> QED
      BY <2>1, <2>3, <3>3 DEF Lands, Flow, Past, Ending, Recording
  <2>4. withdrawal.state # "pending" => Return(p)
    BY <1>9 DEF FinishReads, FinishRereads
  <2> QED
    BY <1>4, <1>9, <2>1, <2>2, <2>3, <2>4
<1>10. CASE FinishErases(p) \/ FinishBars(p)
  <2>1. UNCHANGED <<core, withdrawal>> /\ proc[p].pc \in {"erase", "barrier"}
    BY <1>10 DEF FinishErases, FinishBars, files, At
  <2>2. CASE \/ GoTo(p, "barrier") /\ Erase /\ withdrawal.state = "pending"
             \/ GoTo(p, "latest") /\ proc[p].pc = "barrier"
    <3>1. Lands(p, {"barrier", "latest"})
      BY <2>2, GoLands DEF Lands
    <3> QED
      BY <2>1, <2>2, <3>1 DEF Lands, Flow, Past, Ending, Recording
  <2> QED
    BY <1>4, <1>10, <2>1, <2>2 DEF FinishErases, FinishBars, At
<1>11. CASE CoreWithdraws(p) \/ CoreFails(p)
  <2>1. PICK barrier : CoreAnswers(p, barrier)
    BY <1>11 DEF CoreWithdraws, CoreFails
  <2>2. PICK r : r = [proc[p] EXCEPT !.pc = "decide", !.answer = [barrier |-> barrier, gen |-> core.gen]]
    OBVIOUS
  <2>3. r.pc = "decide"
    BY <2>2 DEF AgentInv, ProcTypes, Program, Record
  <2>4. Lands(p, {"decide"}) /\ proc[p].pc = "call" /\ UNCHANGED <<core, withdrawal>>
    BY <1>11, <2>1, <2>2, <2>3, BecomeLands DEF CoreWithdraws, CoreFails, CoreAnswers, At, files
  <2> QED
    BY <2>4 DEF Lands, Flow, Past, Ending, Recording
<1>12. CASE FinishDecides(p) \/ FinishRecords(p)
  <2>1. /\ proc[p].pc \in {"decide", "record"} /\ UNCHANGED core
        /\ proc[p].pc = "record" => withdrawal'.state = "sent"
        /\ proc[p].pc = "decide" => UNCHANGED withdrawal \/ withdrawal'.state = "pending"
    BY <1>12 DEF FinishDecides, FinishRecords, At
  <2>2. \/ Lands(p, {"record"}) /\ proc[p].pc = "decide"
        \/ Lands(p, {"idle", "enabled"})
    BY <1>12, GoLands, ReturnLands DEF FinishDecides, FinishRecords, At
  <2> QED
    BY <2>1, <2>2 DEF Lands, Flow, Past, Ending, Recording
<1> QED
  BY <1>5, <1>6, <1>7, <1>8, <1>9, <1>10, <1>11, <1>12 DEF WithdrawStep

\* A process of the agent makes a step, or the new Node of the bootstrap starts.
Walks(p) ==
  PrepareStarts(p) \/ PrepareRetains(p) \/ Starts(p) \/ Continues(p) \/ Crash(p) \/ Finishes(p)
Standing == UNCHANGED <<core, files, lock, proc, server, history>>

LEMMA WalksFlow ==
  ASSUME AgentInv, NEW p \in Procs, Walks(p)
  PROVE  Flow(p) /\ Spends
<1>1. {"drain", "finish", "reopen", "retain", "idle"} \subseteq Resting
  BY DEF Resting, Pcs, Withdrawing, Past, Declaring
<1>2. ASSUME NEW pcs, Lands(p, pcs), pcs \subseteq Resting, UNCHANGED <<core, withdrawal>> PROVE Flow(p)
  BY <1>2, RestsFlow DEF Lands
<1>3. CASE HookStarts(p) \/ TickStarts(p) \/ ResendReads(p) \/ PrepareStarts(p)
  BY <1>1, <1>2, <1>3, StartsLand
<1>4. CASE WithdrawStarts(p)
  BY <1>4, WithdrawStartsLand DEF Lands, Flow, Past, Ending, Spends, BudgetKinds, Recording
<1>5. CASE PrepareRetains(p) \/ Crash(p) \/ ResendReopens(p)
  <2>1. Stop(p) /\ UNCHANGED <<core, withdrawal>> /\ Spends
    BY <1>5 DEF PrepareRetains, Crash, ResendReopens, Spends, BudgetKinds, files
  <2> QED
    BY <1>1, <1>2, <2>1, StopLands
<1>6. CASE Finishes(p)
  <2>1. PICK r : r = [Idle EXCEPT !.pc = "drain", !.program = "drain"]
    OBVIOUS
  <2>2. r.pc = "drain"
    BY <2>1 DEF Idle
  <2>3. Lands(p, {"drain"}) /\ UNCHANGED <<core, left, withdrawal>>
    BY <1>6, <2>1, <2>2, BecomeLands DEF Finishes, files
  <2> QED
    BY <1>1, <1>2, <2>3 DEF Spends
<1>7. CASE CollectionStep(p) \/ SenderStep(p) \/ WithdrawStep(p)
  BY <1>7, CollectionFlow, SenderRests, RestsFlow, WithdrawFlow
<1> QED
  BY <1>3, <1>4, <1>5, <1>6, <1>7 DEF Walks, Starts, Continues

LEMMA RuntimeWalks ==
  ASSUME [RuntimeNext]_<<vars, runtime>>
  PROVE  \/ \E p \in Procs : Walks(p)
         \/ LateRequestArrives \/ Grant
         \/ Standing /\ Spends
<1>1. ASSUME NEW p \in Procs, EntryStep(p) PROVE Walks(p) \/ (Standing /\ Spends)
  <2>1. CASE RunsNode(p) \/ CallRetained(p) \/ Finishes(p) \/ PrepareStarts(p)
    BY <2>1 DEF RunsNode, CallRetained, Walks, Starts
  <2>2. CASE CallEnters(p) /\ ~PrepareStarts(p)
    BY <2>2 DEF CallEnters, Standing, Spends, BudgetKinds
  <2>3. CASE \/ Enters(p) \/ NotesSession(p) \/ NotesInitial(p) \/ TriesLock(p)
             \/ StartsAttempt(p) \/ Forks(p) \/ Downloads(p) \/ Publishes(p) \/ ProducerEnds(p)
    BY <2>3 DEF Enters, NotesSession, NotesInitial, TriesLock, StartsAttempt, Forks, Downloads,
                Publishes, ProducerEnds, vars, Standing, Spends, BudgetKinds
  <2> QED
    BY <1>1, <2>1, <2>2, <2>3 DEF EntryStep
<1>2. ASSUME NEW p \in Procs, Killed(p) PROVE Walks(p) \/ (Standing /\ Spends)
  BY <1>2 DEF Killed, Walks, Standing, Spends, BudgetKinds
<1>3. CASE Repairs \/ TakesOver \/ UNCHANGED <<vars, runtime>>
  BY <1>3 DEF Repairs, TakesOver, vars, Standing, Spends
<1> QED
  BY <1>1, <1>2, <1>3 DEF RuntimeNext, Walks

\* Nothing is written where all is gone: collection is stopped, and what would
\* be marked or reopened is not there.
LEMMA GoneStays ==
  ASSUME AgentInv, ReplayInv, NEW p \in Procs, Walks(p), Gone
  PROVE  events' = NoEvents /\ install' = NoInstall
<1>1. events = NoEvents /\ install = NoInstall /\ Halted /\ DOMAIN events = {}
  BY DEF Gone, NoEvents
<1> SUFFICES UNCHANGED <<events, install>> \/ Erase
  BY <1>1 DEF Erase
<1>2. CASE HookObserves(p) \/ DrainRecords(p)
  BY <1>1, <1>2 DEF HookObserves, DrainRecords, At, Halted, Stopped, Enabled, Recording
<1>3. CASE Freeze(p)
  BY <1>1, <1>3 DEF Freeze
<1>4. CASE MarkUnconfirmed(p) \/ RecordOutcome(p)
  BY <1>1, <1>4 DEF MarkUnconfirmed, RecordOutcome, Markable, Mark
<1>5. CASE ResendReopens(p)
  <2>1. proc[p].item # Install
    BY <1>5 DEF ResendReopens, At, ReplayInv, EndOK
  <2> QED
    BY <1>1, <1>5, <2>1 DEF ResendReopens, Mark
<1>6. CASE BeginErases(p) \/ FinishErases(p)
  BY <1>6 DEF BeginErases, FinishErases
<1>7. CASE \/ HookLooks(p) \/ HookLocks(p) \/ DrainReads(p) \/ DrainLocks(p) \/ DrainChecks(p) \/ DrainRemoves(p)
  BY <1>7 DEF HookLooks, HookLocks, DrainReads, DrainLocks, DrainChecks, DrainRemoves, files, local
<1>8. CASE \/ TickEnabled(p) \/ TickUploads(p) \/ NextRow(p) \/ NextInstall(p) \/ Sign(p) \/ WriteMarker(p)
           \/ Post(p) \/ ServerAnswers(p) \/ RequestFails(p) \/ RemoveMarker(p)
  BY <1>8 DEF TickEnabled, TickUploads, NextRow, NextInstall, Sign, WriteMarker, Post, ServerAnswers,
              RequestFails, RemoveMarker, files, local
<1>9. CASE \/ BeginLocks(p) \/ BeginWithholds(p) \/ BeginDeclares(p) \/ BeginClears(p) \/ FinishReads(p)
            \/ FinishLocks(p) \/ FinishBars(p) \/ FinishRereads(p) \/ CoreWithdraws(p) \/ CoreFails(p)
            \/ FinishDecides(p) \/ FinishRecords(p)
  BY <1>9 DEF BeginLocks, BeginWithholds, BeginDeclares, BeginClears, FinishReads, FinishLocks, FinishBars,
               FinishRereads, CoreWithdraws, CoreFails, FinishDecides, FinishRecords, files, local
<1>10. CASE PrepareStarts(p) \/ PrepareRetains(p) \/ Starts(p) \/ Crash(p) \/ Finishes(p)
  BY <1>10 DEF PrepareStarts, PrepareRetains, Starts, HookStarts, TickStarts, WithdrawStarts, ResendReads,
               Crash, Finishes, files, local
<1> QED
  BY <1>2, <1>3, <1>4, <1>5, <1>6, <1>7, <1>8, <1>9, <1>10
     DEF Walks, Continues, CollectionStep, SenderStep, WithdrawStep

----------------------------------------------------------------------------
(* A finished withdrawal leaves nothing *)

\* All is gone as long as a finisher that has erased may still end the
\* withdrawal, and once it has.
CleanInv ==
  /\ withdrawal.state = "pending" /\ (\E p \in Procs : proc[p].pc \in Past) => Gone
  /\ WithdrawalDone => Gone
  /\ \A p \in Procs : proc[p].pc \in Ending => withdrawal.state = "pending"
  /\ core.consent = "unset" => withdrawal.state = "none"
  /\ \A p \in Procs : proc[p].pc = "declare" => core.consent = "withheld" \/ core.consent = "granted"

LEMMA InitClean == RuntimeInit => CleanInv
<1> SUFFICES ASSUME RuntimeInit PROVE CleanInv
  OBVIOUS
<1>1. /\ events = NoEvents /\ install = NoInstall
      /\ core.consent = "unset" => withdrawal.state = "none"
      /\ proc = [p \in Procs |-> Idle]
  BY DEF RuntimeInit, Init
<1>2. \A p \in Procs : proc[p].pc = "idle"
  BY <1>1 DEF Idle
<1> QED
  BY <1>1, <1>2 DEF CleanInv, Gone, Halted, Stopped, Recording, WithdrawalDone, Past, Ending

LEMMA WalksClean ==
  ASSUME AgentInv, ReplayInv, CleanInv, Apart, NEW p \in Procs, Walks(p)
  PROVE  CleanInv'
<1>1. Flow(p)
  BY WalksFlow
<1>2. core \in [consent : Consents, gen : Nat] /\ withdrawal \in [state : {"none", "pending", "sent"}, gen : Nat]
  BY DEF AgentInv, Globals, CoreTypes
<1>3. core'.gen = core.gen /\ core'.consent \in {core.consent, "withheld"}
  BY <1>1, <1>2 DEF Flow
<1>4. ASSUME Gone, Stopped' PROVE Gone'
  <2>1. \A q \in Procs : ~Recording(proc'[q])
    <3>1. Stopped /\ \A q \in Procs : ~Recording(proc[q])
      BY <1>4 DEF Gone, Halted
    <3> QED
      BY <1>1, <3>1 DEF Flow, Recording
  <2> QED
    BY <1>4, <2>1, GoneStays DEF Gone, Halted, Recording
<1>5. \A q \in Procs : proc'[q].pc \in Ending => withdrawal.state = "pending"
  BY <1>1 DEF Flow, CleanInv
<1>6. ASSUME proc[p].pc = "erase", Erase, withdrawal'.state = "pending" PROVE Gone'
  <2>1. \A q \in Procs : ~Recording(proc[q])
    BY <1>6 DEF ReplayInv, Collecting, Holding, Recording
  <2>2. Stopped
    BY <1>1, <1>6 DEF Flow, Stopped
  <2>3. \A q \in Procs : ~Recording(proc'[q])
    BY <1>1, <2>1, <2>2 DEF Flow, Recording
  <2> QED
    BY <1>6, <2>3 DEF Gone, Halted, Stopped, Erase, Recording
<1>7. withdrawal'.state = "pending" /\ (\E q \in Procs : proc'[q].pc \in Past) => Gone'
  <2> SUFFICES ASSUME withdrawal'.state = "pending", NEW q \in Procs, proc'[q].pc \in Past PROVE Gone'
    OBVIOUS
  <2>1. CASE proc[p].pc = "erase" /\ Erase
    BY <1>6, <2>1
  <2>2. CASE proc[q].pc \in Past
    <3>1. proc[p].pc # "declare"
      BY <2>2 DEF Apart
    <3>2. withdrawal.state = "pending"
      BY <1>1, <3>1 DEF Flow, CleanInv, Ending
    <3> QED
      BY <1>4, <2>2, <3>2 DEF CleanInv, Stopped
  <2> QED
    BY <1>1, <2>1, <2>2 DEF Flow
<1>8. WithdrawalDone' => Gone'
  <2> SUFFICES ASSUME WithdrawalDone' PROVE Gone'
    OBVIOUS
  <2>1. Stopped'
    BY DEF WithdrawalDone, Stopped
  <2>2. CASE proc[p].pc = "record" /\ withdrawal'.state = "sent"
    BY <1>4, <2>1, <2>2 DEF CleanInv, Past, Ending
  <2>3. CASE UNCHANGED withdrawal
    <3>1. withdrawal = [state |-> "sent", gen |-> core.gen]
      BY <1>3, <2>3 DEF WithdrawalDone
    <3>2. core.gen \in server.tombstones \cup {0}
      BY <3>1 DEF AgentInv, Globals, WithdrawalOK
    <3>3. core.consent = "withheld"
      BY <1>2, <3>1, <3>2 DEF AgentInv, Globals, GensOK, CleanInv, Consents
    <3> QED
      BY <1>4, <2>1, <3>1, <3>3 DEF CleanInv, WithdrawalDone
  <2>4. withdrawal'.state = "sent"
    BY DEF WithdrawalDone
  <2> QED
    BY <1>1, <2>2, <2>3, <2>4 DEF Flow
<1>9. \A q \in Procs : proc'[q].pc \in Ending => withdrawal'.state = "pending"
  <2> SUFFICES ASSUME NEW q \in Procs, proc'[q].pc \in Ending, withdrawal'.state # "pending" PROVE FALSE
    OBVIOUS
  <2>1. proc[p].pc = "record" /\ proc'[p].pc \notin Past
    BY <1>1, <1>5 DEF Flow
  <2>2. NeedsSender(proc[p]) /\ q # p
    BY <2>1 DEF NeedsSender, Past, Ending
  <2>3. NeedsSender(proc[q])
    BY <1>1, <2>2 DEF Flow, NeedsSender, Ending
  <2> QED
    BY <2>2, <2>3 DEF AgentInv, Exclusive
<1>10. core'.consent = "unset" => withdrawal'.state = "none"
  BY <1>1, <1>2, <1>3 DEF Flow, CleanInv, Ending
<1>11. \A q \in Procs : proc'[q].pc = "declare" => core'.consent = "withheld" \/ core'.consent = "granted"
  BY <1>1, <1>3 DEF Flow, CleanInv
<1> QED
  BY <1>7, <1>8, <1>9, <1>10, <1>11 DEF CleanInv

LEMMA NextClean ==
  ASSUME AgentInv, ReplayInv, CleanInv, Apart, [RuntimeNext]_<<vars, runtime>>
  PROVE  CleanInv'
<1>1. CASE LateRequestArrives
  <2>1. UNCHANGED <<core, events, install, withdrawal, proc>>
    BY <1>1 DEF LateRequestArrives, files, local
  <2> QED
    BY <2>1 DEF CleanInv, Gone, Halted, Stopped, WithdrawalDone
<1>2. CASE Grant
  <2>1. UNCHANGED <<events, install, withdrawal, proc>> /\ core'.consent = "granted"
    BY <1>2 DEF Grant, files, local
  <2> QED
    BY <2>1 DEF CleanInv, Gone, Halted, Stopped, WithdrawalDone
<1>3. CASE Standing
  <2>1. UNCHANGED <<core, events, install, withdrawal, proc>>
    BY <1>3 DEF Standing, files, local
  <2> QED
    BY <2>1 DEF CleanInv, Gone, Halted, Stopped, WithdrawalDone
<1> QED
  BY <1>1, <1>2, <1>3, RuntimeWalks, WalksClean

THEOREM CleanInvariant == RuntimeSpec /\ []Apart => []CleanInv
<1>1. AgentInv /\ ReplayInv /\ CleanInv /\ Apart /\ [RuntimeNext]_<<vars, runtime>> => CleanInv'
  BY NextClean
<1> QED
  BY AgentInvariant, ReplayInvariant, InitClean, <1>1, PTL DEF RuntimeSpec

\* A finished withdrawal leaves no row and no install event on this machine, and
\* a hook that was waiting for the lock adds none (hook.mjs:31), as long as no
\* finisher is past its erasure while another withdrawal declares and erases.
THEOREM NothingStaysApart == RuntimeSpec /\ []Apart => []WithdrawnLeavesNothing
<1>1. CleanInv => WithdrawnLeavesNothing
  BY DEF CleanInv, Gone, WithdrawnLeavesNothing
<1> QED
  BY CleanInvariant, <1>1, PTL

----------------------------------------------------------------------------
(* One withdrawal keeps the finishers apart *)

OneWithdrawal == \A b \in Budgets : b["withdraw"] <= 1

\* Until the one withdrawal is declared nothing is pending, and no process is on
\* the way that only a pending one opens; then the collection lock keeps the
\* others from erasing before it has.
OneInv ==
  /\ left \in [BudgetKinds -> Nat] /\ left["withdraw"] <= 1
  /\ left["withdraw"] = 1 \/ (\E p \in Procs : proc[p].pc \in Declaring) =>
       /\ withdrawal.state # "pending"
       /\ \A p \in Procs : proc[p].pc \notin Past \cup {"erase-lock", "erase", "wipe"}
  /\ left["withdraw"] = 1 => \A p \in Procs : proc[p].pc \notin Declaring
  /\ \A p, q \in Procs : proc[p].pc \in Declaring /\ proc[q].pc \in Declaring => p = q
  /\ Apart

LEMMA SpendsOK ==
  ASSUME left \in [BudgetKinds -> Nat], Spends
  PROVE  left' \in [BudgetKinds -> Nat] /\ left'["withdraw"] <= left["withdraw"]
<1>1. left["withdraw"] \in Nat
  BY DEF BudgetKinds
<1>2. ASSUME NEW kind \in BudgetKinds, Spend(kind)
      PROVE  left' \in [BudgetKinds -> Nat] /\ left'["withdraw"] <= left["withdraw"]
  BY <1>1, <1>2 DEF Spend, BudgetKinds
<1> QED
  BY <1>1, <1>2 DEF Spends

LEMMA WalksOne ==
  ASSUME AgentInv, Collecting, OneInv, NEW p \in Procs, Walks(p)
  PROVE  OneInv'
<1>1. Flow(p) /\ left' \in [BudgetKinds -> Nat] /\ left'["withdraw"] <= left["withdraw"]
      /\ left["withdraw"] \in Nat /\ left'["withdraw"] \in Nat
  BY WalksFlow, SpendsOK DEF OneInv, BudgetKinds
<1> DEFINE Pre(P) == \E q \in Procs : P[q].pc \in Declaring
           Before1 == left["withdraw"] = 1 \/ Pre(proc)
<1>2. ASSUME proc'[p].pc \in Declaring
      PROVE  \/ proc[p].pc \in Declaring
             \/ left["withdraw"] = 1 /\ left'["withdraw"] = 0
  BY <1>1, <1>2 DEF Flow, Declaring, Spend, OneInv, BudgetKinds
<1>3. ASSUME left'["withdraw"] = 1 PROVE left["withdraw"] = 1 /\ proc'[p].pc \notin Declaring
  BY <1>1, <1>2, <1>3 DEF OneInv
<1>4. \A q \in Procs : q # p => proc'[q] = proc[q]
  BY <1>1 DEF Flow
<1>5. left'["withdraw"] = 1 => \A q \in Procs : proc'[q].pc \notin Declaring
  BY <1>3, <1>4 DEF OneInv
<1>6. \A q, s \in Procs : proc'[q].pc \in Declaring /\ proc'[s].pc \in Declaring => q = s
  BY <1>2, <1>4 DEF OneInv
<1>7. ASSUME left'["withdraw"] = 1 \/ \E q \in Procs : proc'[q].pc \in Declaring
      PROVE  /\ withdrawal'.state # "pending"
             /\ \A q \in Procs : proc'[q].pc \notin Past \cup {"erase-lock", "erase", "wipe"}
  <2>1. left["withdraw"] = 1 \/ \E q \in Procs : proc[q].pc \in Declaring
    BY <1>2, <1>3, <1>4, <1>7
  <2>2. /\ withdrawal.state # "pending"
        /\ \A q \in Procs : proc[q].pc \notin Past \cup {"erase-lock", "erase", "wipe"}
    BY <2>1 DEF OneInv
  <2>3. proc'[p].pc = "wipe" \/ withdrawal' # withdrawal => proc[p].pc = "declare"
    BY <1>1, <2>2 DEF Flow, Past
  <2>4. proc[p].pc # "declare"
    <3> SUFFICES ASSUME proc[p].pc = "declare" PROVE FALSE
      OBVIOUS
    <3>1. left["withdraw"] # 1 /\ left'["withdraw"] # 1
      BY <1>3 DEF OneInv, Declaring
    <3>2. proc'[p].pc \notin Declaring
      BY <1>1, <3>1 DEF Flow, Declaring, Spend, OneInv
    <3>3. \A q \in Procs : q # p => proc[q].pc \notin Declaring
      BY DEF OneInv, Declaring
    <3> QED
      BY <1>4, <1>7, <3>1, <3>2, <3>3
  <2>5. UNCHANGED withdrawal
    BY <1>1, <2>2, <2>4 DEF Flow, Past
  <2> QED
    BY <1>1, <1>4, <2>2, <2>4, <2>5 DEF Flow
<1>8. Apart'
  <2> SUFFICES ASSUME NEW q \in Procs, NEW s \in Procs, proc'[q].pc \in {"declare", "wipe"}, proc'[s].pc \in Past
               PROVE  FALSE
    BY DEF Apart
  <2>1. CASE proc'[q].pc = "declare"
    BY <1>7, <2>1 DEF Declaring
  <2>2. CASE proc'[q].pc = "wipe"
    <3>1. proc[q].pc \in {"declare", "wipe"}
      BY <1>1, <2>2 DEF Flow
    <3>2. proc[s].pc \notin Past
      BY <3>1 DEF OneInv, Apart
    <3>3. s = p /\ proc[p].pc = "erase"
      BY <1>1, <3>2 DEF Flow
    <3>4. proc[q].pc = "wipe"
      BY <3>1, <3>3 DEF OneInv, Declaring
    <3>5. Holding(proc[q]) /\ Holding(proc[p])
      BY <3>3, <3>4 DEF Holding
    <3> QED
      BY <3>3, <3>4, <3>5 DEF Collecting
  <2> QED
    BY <2>1, <2>2
<1> QED
  BY <1>1, <1>5, <1>6, <1>7, <1>8 DEF OneInv

LEMMA NextOne ==
  ASSUME AgentInv, Collecting, OneInv, [RuntimeNext]_<<vars, runtime>>
  PROVE  OneInv'
<1>1. ASSUME UNCHANGED <<withdrawal, proc>>, Spends PROVE OneInv'
  <2>1. left' \in [BudgetKinds -> Nat] /\ left'["withdraw"] <= left["withdraw"]
        /\ left["withdraw"] \in Nat /\ left'["withdraw"] \in Nat
    BY <1>1, SpendsOK DEF OneInv, BudgetKinds
  <2>2. left'["withdraw"] = 1 => left["withdraw"] = 1
    BY <2>1 DEF OneInv
  <2> QED
    BY <1>1, <2>1, <2>2 DEF OneInv, Apart
<1>2. CASE LateRequestArrives
  BY <1>1, <1>2 DEF LateRequestArrives, files, Spends
<1>3. CASE Grant
  BY <1>1, <1>3 DEF Grant, files, Spends, BudgetKinds
<1>4. CASE Standing /\ Spends
  BY <1>1, <1>4 DEF Standing, files
<1> QED
  BY <1>2, <1>3, <1>4, RuntimeWalks, WalksOne

LEMMA InitOne == ASSUME OneWithdrawal, RuntimeInit PROVE OneInv
<1>1. /\ left \in Budgets /\ withdrawal.state # "pending" /\ proc = [p \in Procs |-> Idle]
  BY DEF RuntimeInit, Init
<1>2. left \in [BudgetKinds -> Nat] /\ left["withdraw"] <= 1
  BY <1>1, BudgetAssumption DEF OneWithdrawal
<1>3. \A p \in Procs : proc[p].pc = "idle"
  BY <1>1 DEF Idle
<1> QED
  BY <1>1, <1>2, <1>3 DEF OneInv, Declaring, Past, Apart

\* The order of the two locks is enough when a person withdraws once.
THEOREM OneWithdrawalKeepsApart == ASSUME OneWithdrawal PROVE RuntimeSpec => [](ReplayInv /\ CleanInv /\ Apart)
<1>1. RuntimeInit => ReplayInv /\ CleanInv /\ OneInv
  BY InitReplay, InitClean, InitOne
<1>2. AgentInv /\ (ReplayInv /\ CleanInv /\ OneInv) /\ [RuntimeNext]_<<vars, runtime>>
        => (ReplayInv /\ CleanInv /\ OneInv)'
  <2>1. OneInv => Apart
    BY DEF OneInv
  <2>2. ReplayInv => Collecting
    BY DEF ReplayInv
  <2> QED
    BY <2>1, <2>2, NextReplay, NextClean, NextOne
<1>3. OneInv => Apart
  BY DEF OneInv
<1> QED
  BY AgentInvariant, <1>1, <1>2, <1>3, PTL DEF RuntimeSpec

\* With at most one withdrawal, an event whose last request has no known outcome
\* leaves again only when the person asked for it (upload.mjs:28, store.mjs:75,
\* cli.mjs:81), whatever hooks, ticks, kills, grants and late requests surround it.
THEOREM NothingReplayed == ASSUME OneWithdrawal PROVE RuntimeSpec => []UnknownNotReplayed
<1>1. AgentInv /\ ReplayInv => UnknownNotReplayed
  BY ReplayedOnlyIfAsked
<1> QED
  BY AgentInvariant, OneWithdrawalKeepsApart, <1>1, PTL

\* With at most one withdrawal, a finished one leaves no row and no install
\* event on this machine, and a hook that was waiting for the lock adds none
\* (hook.mjs:31).
THEOREM NothingStays == ASSUME OneWithdrawal PROVE RuntimeSpec => []WithdrawnLeavesNothing
<1>1. CleanInv => WithdrawnLeavesNothing
  BY DEF CleanInv, Gone, WithdrawnLeavesNothing
<1> QED
  BY OneWithdrawalKeepsApart, <1>1, PTL
=============================================================================
