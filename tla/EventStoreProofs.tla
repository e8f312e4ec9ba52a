--------------------------- MODULE EventStoreProofs ---------------------------
(***************************************************************************)
(* The event buffer keeps its promises for any ids, contents, capacity and *)
(* retention, whatever its callers do and wherever the process stops.      *)
(*                                                                         *)
(* The argument: every method maps a good snapshot to a good one that may  *)
(* follow it (one lemma per method); while a write is under way, `next` is *)
(* such a successor of `memory`, and `disk` is one of the two, so neither  *)
(* the resolution of the write nor a restart can show a reader anything    *)
(* else.                                                                   *)
(***************************************************************************)
EXTENDS EventStore, EventSnapshotProofs

USE EventIdsAssumption, ClassAssumption, LimitAssumption, ClockAssumption

----------------------------------------------------------------------------
(* The inductive invariant *)

\* While a write is under way the buffer is between memory and next, a good
\* snapshot that may follow it; otherwise the three agree.
Inv ==
  /\ TypeOK
  /\ ReadersSeeDurableState
  /\ Good(memory) /\ Good(disk) /\ Good(next)
  /\ Follows(memory, next)

(* What an earlier release left is a snapshot. *)
LEMMA OldSnapshotsAreSnapshots ==
  ASSUME NEW old \in OldSnapshots \union {EmptySnapshot}
  PROVE  IsSnapshot(old) /\ WithinCapacity(old)
<1>1. \A content \in Contents, state \in {"pending", "rejected"} : LegacyRow(content, state) \in Row
  <2>1. "pending" \in UploadStates /\ "rejected" \in UploadStates
    BY DEF UploadStates, Terminal
  <2> QED BY <2>1, RowTypes DEF LegacyRow, Row
<1>2. CASE old = EmptySnapshot
  <2>1. Held(old) = {}
    BY <1>2, EmptyRows DEF EmptySnapshot, Held
  <2> QED BY <1>2, <2>1, EmptyRows, FS_EmptySet
          DEF EmptySnapshot, IsSnapshot, WithdrawalStates, WithinCapacity
<1>3. CASE old \in OldSnapshots
  <2>1. PICK S \in {T \in SUBSET LegacyIds : Cardinality(T) <= MaxEvents},
             content \in Contents, state \in {"pending", "rejected"} :
               old = [EmptySnapshot EXCEPT !.rows = [id \in S |-> LegacyRow(content, state)]]
    BY <1>3 DEF OldSnapshots
  <2>2. old = [rows |-> [id \in S |-> LegacyRow(content, state)],
               withdrawal |-> "none", inventory |-> {}]
    BY <2>1 DEF EmptySnapshot
  <2>3. Held(old) = S /\ S \subseteq EventIds
    BY <2>1, <2>2 DEF Held
  <2>4. [id \in S |-> LegacyRow(content, state)] \in [S -> Row]
    BY <1>1
  <2>5. IsSnapshot(old)
    BY <2>2, <2>3, <2>4 DEF IsSnapshot, WithdrawalStates
  <2>6. WithinCapacity(old)
    BY <2>1, <2>3 DEF WithinCapacity
  <2> QED BY <2>5, <2>6
<1> QED BY <1>2, <1>3

(* The invariant holds when the store is loaded. *)
LEMMA InitInv ==
  ASSUME Init
  PROVE  Inv
<1>1. PICK old \in OldSnapshots \union {EmptySnapshot} : disk = Retire(old)
  BY DEF Init
<1>2. IsSnapshot(old) /\ WithinCapacity(old)
  BY OldSnapshotsAreSnapshots
<1>3. Good(disk)
  BY <1>1, <1>2, RetireIsGood
<1> QED BY <1>3, FollowsItself DEF Init, Inv, TypeOK, Good, ReadersSeeDurableState

(* A call leaves the readers alone and proposes a good successor. *)
LEMMA BeginInv ==
  ASSUME Inv, NEW snapshot, Good(snapshot), Follows(memory, snapshot), Begin(snapshot)
  PROVE  Inv' /\ UNCHANGED memory
BY DEF Inv, Begin, TypeOK, Good, ReadersSeeDurableState, Follows, SameFacts, SameOutcomes,
       KeepsAttempted, Held, IsSnapshot, LegacyRetired, WithinCapacity

\* Every call that begins a write keeps the invariant: one case per method.
LEMMA CallInv ==
  ASSUME Inv, Call
  PROVE  Inv' /\ UNCHANGED memory
<1>1. SUFFICES \E snapshot : Good(snapshot) /\ Follows(memory, snapshot) /\ Begin(snapshot)
  BY BeginInv
<1>2. Good(memory) /\ clock \in Nat
  BY DEF Inv, TypeOK
<1>3. CASE \E id \in EventIds, content \in Contents : PutEvent(id, content)
  BY <1>2, <1>3, PutIsGood DEF PutEvent
<1>4. CASE SignEvents
  BY <1>2, <1>4, SignPendingIsGood DEF SignEvents
<1>5. CASE \E items \in SUBSET Items, ids \in SUBSET LoaderIds, content \in Contents,
              drop \in SUBSET LoaderIds : ScanInventory(items, ids, content, drop)
  <2>1. PICK items \in SUBSET Items, ids \in SUBSET LoaderIds, content \in Contents,
             drop \in SUBSET LoaderIds : ScanInventory(items, ids, content, drop)
    BY <1>5
  <2> DEFINE inputs == [id \in ids |-> content]
  <2>2. /\ ids \cap LegacyIds = {} /\ ids \cap Held(memory) = {}
        /\ UpdateInventoryWrites(memory, inputs, drop, clock)
        /\ Begin(UpdateInventory(memory, items, inputs, drop, clock))
    BY <2>1 DEF ScanInventory
  <2>3. inputs = [id \in ids |-> content]
    OBVIOUS
  <2> HIDE DEF inputs
  <2> QED BY <1>2, <2>2, <2>3, UpdateInventoryIsGood
<1>6. CASE \E ids \in SUBSET EventIds, refused \in SUBSET EventIds,
              accepted, duplicates \in 0..Cardinality(EventIds),
              code \in {HostRejection, "ITEM_REFUSED"} :
                RecordAnswer(ids, accepted, duplicates, refused, code)
  <2>1. PICK ids \in SUBSET EventIds, refused \in SUBSET EventIds,
             accepted \in 0..Cardinality(EventIds), duplicates \in 0..Cardinality(EventIds),
             code \in {HostRejection, "ITEM_REFUSED"} :
               RecordAnswer(ids, accepted, duplicates, refused, code)
    BY <1>6
  <2> DEFINE rejected == [id \in refused |-> code]
  <2>2. /\ ApplyUploadWrites(memory, ids, accepted, duplicates, rejected)
        /\ Begin(ApplyUpload(memory, ids, accepted, rejected, clock))
    BY <2>1 DEF RecordAnswer
  <2>3. \A id \in DOMAIN rejected : rejected[id] \in {HostRejection, "ITEM_REFUSED"}
    OBVIOUS
  <2>4. accepted \in Nat /\ duplicates \in Nat
    BY FS_CardinalityType
  <2> HIDE DEF rejected
  <2> QED BY <1>2, <2>2, <2>3, <2>4, ApplyUploadIsGood
<1>7. CASE \E ids \in SUBSET EventIds : ReopenHostRejected(ids)
  BY <1>2, <1>7, ReopenIsGood DEF ReopenHostRejected
<1>8. CASE \E ids \in SUBSET EventIds, pending \in BOOLEAN : MarkUploadIntent(ids, pending)
  BY <1>2, <1>8, UploadIntentIsGood DEF MarkUploadIntent
<1>9. CASE \E ids \in SUBSET EventIds, code \in {"none", Unknown} : MarkAttempts(ids, code)
  BY <1>2, <1>9, AttemptsIsGood DEF MarkAttempts
<1>10. CASE \E ids \in SUBSET EventIds : MarkResendIntent(ids)
  BY <1>2, <1>10, ResendIntentIsGood DEF MarkResendIntent
<1>11. CASE \E ids \in SUBSET EventIds : \E previous \in Markings(ids) : MarkResendFailure(ids, previous)
  <2>1. PICK ids \in SUBSET EventIds : \E previous \in Markings(ids) : MarkResendFailure(ids, previous)
    BY <1>11
  <2>2. PICK previous \in Markings(ids) : MarkResendFailure(ids, previous)
    BY <2>1
  <2>3. \A id \in DOMAIN previous : previous[id] \in Markers
    BY DEF Markings
  <2> QED BY <1>2, <2>2, <2>3, ResendFailureIsGood DEF MarkResendFailure
<1>12. CASE Withdraw
  BY <1>2, <1>12, WithdrawLocalIsGood DEF Withdraw
<1>13. CASE \E state \in WithdrawalStates \ {"none"} : AnswerWithdrawal(state)
  BY <1>2, <1>13, SameRowsIsGood DEF AnswerWithdrawal, MarkWithdrawal
<1>14. CASE EndWithdrawal
  BY <1>2, <1>14, SameRowsIsGood DEF EndWithdrawal, ClearWithdrawal, WithdrawalStates
<1> QED BY <1>3, <1>4, <1>5, <1>6, <1>7, <1>8, <1>9, <1>10, <1>11, <1>12, <1>13, <1>14 DEF Call

\* What a reader may see of one step.
ReadersFollow == Follows(memory, memory')

(* Every step keeps the invariant and shows readers a permitted successor. *)
LEMMA StepInv ==
  ASSUME Inv, [Next]_vars
  PROVE  Inv' /\ ReadersFollow
<1> USE DEF ReadersFollow
<1>1. CASE Call
  BY <1>1, CallInv, FollowsItself
<1>2. CASE Publish
  BY <1>2, FollowsItself DEF Publish, Inv, TypeOK, Good, ReadersSeeDurableState
<1>3. CASE Resolve
  BY <1>3, FollowsItself DEF Resolve, Inv, TypeOK, Good, ReadersSeeDurableState
<1>4. CASE Reject
  BY <1>4, FollowsItself DEF Reject, Inv, TypeOK, Good, ReadersSeeDurableState
<1>5. CASE Restart
  <2>1. Retire(disk) = disk
    BY RetireChangesNothing DEF Inv
  <2>2. memory' = disk /\ next' = disk /\ disk' = disk /\ phase' = "idle" /\ clock' = clock
    BY <1>5, <2>1 DEF Restart
  <2>3. disk = memory \/ disk = next
    BY DEF Inv, ReadersSeeDurableState
  <2>4. Follows(memory, disk)
    BY <2>3, FollowsItself DEF Inv
  <2> QED BY <2>2, <2>4, FollowsItself DEF Inv, TypeOK, Good, ReadersSeeDurableState
<1>6. CASE Tick
  BY <1>6, FollowsItself DEF Tick, Inv, TypeOK, Good, ReadersSeeDurableState
<1>7. CASE UNCHANGED vars
  BY <1>7, FollowsItself DEF vars, Inv, TypeOK, Good, ReadersSeeDurableState
<1> QED BY <1>1, <1>2, <1>3, <1>4, <1>5, <1>6, <1>7 DEF Next

(* The invariant holds in every reachable state. *)
THEOREM Invariance == Spec => []Inv
<1>1. Init => Inv
  BY InitInv
<1>2. Inv /\ [Next]_vars => Inv'
  BY StepInv
<1> QED BY <1>1, <1>2, PTL DEF Spec

(* The buffer keeps its shape. *)
THEOREM TypeCorrect == Spec => []TypeOK
<1>1. Inv => TypeOK
  BY DEF Inv
<1> QED BY <1>1, Invariance, PTL

(* A crash at any point loads what the readers saw, or the write under way. *)
THEOREM DurableReads == Spec => []ReadersSeeDurableState
<1>1. Inv => ReadersSeeDurableState
  BY DEF Inv
<1> QED BY <1>1, Invariance, PTL

(* A row the wire cannot carry is never pending again. *)
THEOREM LegacyNeverPending == Spec => []LegacyStaysRetired
<1>1. Inv => LegacyStaysRetired
  BY DEF Inv, Good, LegacyStaysRetired
<1> QED BY <1>1, Invariance, PTL

(* The buffer never holds more rows than its configured capacity. *)
THEOREM CapacityBound == Spec => []CapacityRespected
<1>1. Inv => CapacityRespected
  BY DEF Inv, Good, CapacityRespected
<1> QED BY <1>1, Invariance, PTL

(* No step changes the fact behind a held id, or loses its signature. *)
THEOREM FactsNeverChange == Spec => FactsImmutable
<1>1. Inv /\ [Next]_vars => [SameFacts(memory, memory')]_memory
  BY StepInv DEF ReadersFollow, Follows
<1> QED BY <1>1, Invariance, PTL DEF Spec, FactsImmutable

(* No step revises an upload outcome, except the reopening of a host rejection. *)
THEOREM OutcomesNeverChange == Spec => OutcomesFinal
<1>1. Inv /\ [Next]_vars => [SameOutcomes(memory, memory')]_memory
  BY StepInv DEF ReadersFollow, Follows
<1> QED BY <1>1, Invariance, PTL DEF Spec, OutcomesFinal

(* No step drops a row the server may have, but a withdrawal that drops all. *)
THEOREM AttemptedNeverDropped == Spec => AttemptedRowsKept
<1>1. Inv /\ [Next]_vars => [KeepsAttempted(memory, memory')]_memory
  BY StepInv DEF ReadersFollow, Follows
<1> QED BY <1>1, Invariance, PTL DEF Spec, AttemptedRowsKept
=============================================================================
