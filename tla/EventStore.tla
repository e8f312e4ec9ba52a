------------------------------ MODULE EventStore ------------------------------
(***************************************************************************)
(* EventStore (src/core/event-store.ts): methods are serialised on `tail`; *)
(* a method reads the in-memory snapshot, computes the next one, awaits    *)
(* `global.set(next)` and only then replaces the in-memory snapshot.       *)
(* Readers (`query`, `getSnapshot`) never wait and see `memory`.           *)
(*                                                                         *)
(* The callers are arbitrary: any method, any ids, in any order, except    *)
(* that a scan offers new ids only (see ScanInventory).  The process may   *)
(* stop at any point; a restart loads the durable value and retires legacy *)
(* pending rows first (src/host/index.js `apply`).  The storage domain is  *)
(* external: a `set` that rejects has published nothing.                   *)
(***************************************************************************)
EXTENDS EventSnapshot

CONSTANT MaxClock  \* bound of the clock

ASSUME ClockAssumption == MaxClock \in Nat \ {0}

VARIABLES
  memory,   \* EventStore.snapshot
  disk,     \* the value the storage domain would load
  phase,    \* progress of commit(): "idle", "writing", "written" (published, not resolved)
  next,     \* the argument of the global.set under way (memory when idle)
  clock     \* this.now()

vars == <<memory, disk, phase, next, clock>>

\* What an earlier release may have left: legacy rows it never sent, or sent
\* and had refused by the host.
LegacyRow(content, state) ==
  [content |-> content, signed |-> TRUE, state |-> state,
   code |-> IF state = "rejected" THEN HostRejection ELSE "none",
   tried |-> state = "rejected", sentAt |-> IF state = "rejected" THEN 1 ELSE 0]

OldSnapshots ==
  {[EmptySnapshot EXCEPT !.rows = [id \in S |-> LegacyRow(content, state)]] :
     S \in {T \in SUBSET LegacyIds : Cardinality(T) <= MaxEvents},
     content \in Contents, state \in {"pending", "rejected"}}

Init ==
  \E old \in OldSnapshots \union {EmptySnapshot} :
    /\ disk = Retire(old)
    /\ memory = disk
    /\ next = disk
    /\ phase = "idle"
    /\ clock = 1

----------------------------------------------------------------------------
\* The head of `tail` has computed its next snapshot and calls global.set.
Begin(snapshot) ==
  /\ phase = "idle"
  /\ phase' = "writing"
  /\ next' = snapshot
  /\ UNCHANGED <<memory, disk, clock>>

\* Events are created with a current nonce: a new id is never a legacy one.
PutEvent(id, content) ==
  /\ id \notin LegacyIds
  /\ PutWrites(memory, id, clock)
  /\ \E signed \in BOOLEAN : Begin(Put(memory, id, content, signed, clock))

SignEvents == SignPendingWrites(memory) /\ Begin(SignPending(memory))

\* The only caller (src/host/inventory.js) offers ids the buffer does not hold,
\* and its scans are serialised: no other caller adds a loader id in between.
ScanInventory(items, ids, content, drop) ==
  LET inputs == [id \in ids |-> content] IN
  /\ ids \subseteq LoaderIds \ (LegacyIds \union Held(memory))
  /\ UpdateInventoryWrites(memory, inputs, drop, clock)
  /\ Begin(UpdateInventory(memory, items, inputs, drop, clock))

RecordAnswer(ids, accepted, duplicates, refused, code) ==
  LET rejected == [id \in refused |-> code] IN
  /\ ApplyUploadWrites(memory, ids, accepted, duplicates, rejected)
  /\ Begin(ApplyUpload(memory, ids, accepted, rejected, clock))

ReopenHostRejected(ids) == ReopenWrites(memory, ids) /\ Begin(Reopen(memory, ids))

MarkUploadIntent(ids, pending) ==
  UploadIntentWrites(memory, ids) /\ Begin(UploadIntent(memory, ids, pending))

MarkAttempts(ids, code) ==
  AttemptsWrites(memory, ids) /\ Begin(Attempts(memory, ids, code))

MarkResendIntent(ids) ==
  ResendIntentWrites(memory, ids) /\ Begin(ResendIntent(memory, ids))

\* The uncertain outcomes some of the ids had before.
Markings(ids) == UNION {[unknown -> Markers] : unknown \in SUBSET ids}

MarkResendFailure(ids, previous) ==
  ResendFailureWrites(memory, ids) /\ Begin(ResendFailure(memory, ids, previous))

Withdraw == Begin(WithdrawLocal(memory))

AnswerWithdrawal(state) ==
  MarkWithdrawalWrites(memory) /\ Begin(MarkWithdrawal(memory, state))

EndWithdrawal == ClearWithdrawalWrites(memory) /\ Begin(ClearWithdrawal(memory))

Call ==
  \/ \E id \in EventIds, content \in Contents : PutEvent(id, content)
  \/ SignEvents
  \/ \E items \in SUBSET Items, ids \in SUBSET LoaderIds, content \in Contents,
        drop \in SUBSET LoaderIds : ScanInventory(items, ids, content, drop)
  \/ \E ids \in SUBSET EventIds, refused \in SUBSET EventIds,
        accepted, duplicates \in 0..Cardinality(EventIds),
        code \in {HostRejection, "ITEM_REFUSED"} :
          RecordAnswer(ids, accepted, duplicates, refused, code)
  \/ \E ids \in SUBSET EventIds :
       \/ ReopenHostRejected(ids)
       \/ \E pending \in BOOLEAN : MarkUploadIntent(ids, pending)
       \/ \E code \in {"none", Unknown} : MarkAttempts(ids, code)
       \/ MarkResendIntent(ids)
       \/ \E previous \in Markings(ids) : MarkResendFailure(ids, previous)
  \/ Withdraw
  \/ \E state \in WithdrawalStates \ {"none"} : AnswerWithdrawal(state)
  \/ EndWithdrawal

----------------------------------------------------------------------------
\* commit(): global.set publishes, then its promise resolves, or it rejects.
Publish ==
  /\ phase = "writing"
  /\ disk' = next
  /\ phase' = "written"
  /\ UNCHANGED <<memory, next, clock>>

Resolve ==
  /\ phase = "written"
  /\ memory' = next
  /\ phase' = "idle"
  /\ UNCHANGED <<disk, next, clock>>

\* Mutant: readers are shown the value whose write failed.
Reject_Shown ==
  /\ phase = "writing"
  /\ phase' = "idle"
  /\ memory' = next
  /\ UNCHANGED <<disk, next, clock>>

Reject ==
  /\ phase = "writing"
  /\ phase' = "idle"
  /\ next' = memory
  /\ UNCHANGED <<memory, disk, clock>>

\* The process ends and the next one loads the domain.
Restart ==
  /\ disk' = Retire(disk)
  /\ memory' = disk'
  /\ next' = disk'
  /\ phase' = "idle"
  /\ UNCHANGED clock

Tick ==
  /\ clock < MaxClock
  /\ clock' = clock + 1
  /\ UNCHANGED <<memory, disk, phase, next>>

Next == Call \/ Publish \/ Resolve \/ Reject \/ Restart \/ Tick

Spec == Init /\ [][Next]_vars

----------------------------------------------------------------------------
TypeOK ==
  /\ IsSnapshot(memory)
  /\ IsSnapshot(disk)
  /\ IsSnapshot(next)
  /\ phase \in {"idle", "writing", "written"}
  /\ clock \in 1..MaxClock

\* What a reader sees is what a crash would load, except between the
\* publication of a write and its resolution, when the crash would load the
\* write under way and nothing else (`commit` never shows an unwritten value).
ReadersSeeDurableState ==
  disk = IF phase = "written" THEN next ELSE memory

\* A row whose nonce the wire refuses is never pending, so it can never stop
\* the sender's batch: neither a restart nor an explicit resend brings it back.
LegacyStaysRetired == LegacyRetired(memory)

\* The configured capacity bounds the buffer through every path that adds
\* rows: record, inventory scan, and rows kept after expiry.
CapacityRespected == WithinCapacity(memory)

\* A conflicting replay, a second scan or a late answer cannot overwrite a
\* stored event while it is held (put, updateInventory, signPending).
FactsImmutable == [][SameFacts(memory, memory')]_memory

\* An upload outcome is final: no late or repeated answer and no marker changes
\* it, whatever was called in between (applyUpload, reopenHostRejected).
OutcomesFinal == [][SameOutcomes(memory, memory')]_memory

\* A pending row the server may already have leaves the buffer only with a
\* withdrawal that empties it: neither capacity, nor expiry, nor the migration
\* of the inventory source takes it (put, updateInventory, withdrawLocal).
AttemptedRowsKept == [][KeepsAttempted(memory, memory')]_memory
=============================================================================
