---------------------------- MODULE EventSnapshot ----------------------------
(***************************************************************************)
(* The durable value of the local event buffer and the function that every *)
(* EventStore method applies to it (src/core/event-store.ts).  A method is *)
(* given as two operators: the condition under which it reaches            *)
(* `commit(next)`, and `next` itself.  A method whose condition is false   *)
(* throws, or returns without writing.                                     *)
(*                                                                         *)
(* Abstractions.  The event array is a function from event ids to rows:    *)
(* the buffer holds an id at most once (`validateEventSnapshot`), and its  *)
(* order is only read to page queries.  `content` stands for the tuple     *)
(* `identity()` compares.  `tried` is `attempts > 0`.  A time is a         *)
(* natural number, 0 stands for a null `sentAt`.  A withdrawal is its      *)
(* `state`, "none" when the field is null.                                 *)
(***************************************************************************)
EXTENDS Naturals, FiniteSets

CONSTANTS
  EventIds,     \* deterministic event ids
  Contents,     \* what identity() compares under one id
  LegacyIds,    \* ids whose stored nonce the wire no longer accepts
  LoaderIds,    \* ids of install / uninstall events (source "loader")
  Items,        \* inventory items a scan can report
  MaxEvents,    \* capacity of the buffer
  Retention     \* eventRetentionDays, in clock units

ASSUME ContentsAssumption == Contents # {}
ASSUME EventIdsAssumption == IsFiniteSet(EventIds)
ASSUME ClassAssumption == LegacyIds \subseteq EventIds /\ LoaderIds \subseteq EventIds
ASSUME LimitAssumption == MaxEvents \in Nat \ {0} /\ Retention \in Nat \ {0}

Terminal == {"sent", "duplicate", "rejected"}
UploadStates == Terminal \union {"pending"}

\* The values of upload.code that some decision reads; "ITEM_REFUSED" stands
\* for every per-item refusal that is not a host rejection.
Intent == "UPLOAD_ATTEMPT_UNCONFIRMED"
Unknown == "USAGE_STORAGE_UNAVAILABLE"
Markers == {Intent, Unknown}
HostRejection == "USAGE_EVENT_HOST_REJECTED"
Retired == "LEGACY_NONCE_UNSUPPORTED"
Codes == Markers \union {"none", HostRejection, "ITEM_REFUSED", Retired}

WithdrawalStates == {"none", "pending", "sent", "offline", "unconfirmed"}

Row == [content : Contents, signed : BOOLEAN, state : UploadStates,
        code : Codes, tried : BOOLEAN, sentAt : Nat]
Held(s) == DOMAIN s.rows

IsSnapshot(s) ==
  /\ s = [rows |-> s.rows, withdrawal |-> s.withdrawal, inventory |-> s.inventory]
  /\ Held(s) \subseteq EventIds /\ s.rows \in [Held(s) -> Row]
  /\ s.withdrawal \in WithdrawalStates
  /\ s.inventory \subseteq Items

NoRows == [id \in {} |-> 0]
EmptySnapshot == [rows |-> NoRows, withdrawal |-> "none", inventory |-> {}]

Pending(s) == {id \in Held(s) : s.rows[id].state = "pending"}

NewRow(content, signed) ==
  [content |-> content, signed |-> signed, state |-> "pending",
   code |-> "none", tried |-> FALSE, sentAt |-> 0]

\* The snapshot whose rows at DOMAIN changed are replaced.
Amend(s, changed) ==
  [s EXCEPT !.rows = [id \in Held(s) |-> IF id \in DOMAIN changed THEN changed[id]
                                         ELSE s.rows[id]]]

----------------------------------------------------------------------------
(* Startup *)

\* Old pending facts the wire cannot carry become a visible local refusal.
Retire(s) ==
  Amend(s, [id \in Pending(s) \cap LegacyIds |->
              [s.rows[id] EXCEPT !.state = "rejected", !.code = Retired]])

----------------------------------------------------------------------------
(* Recording *)

Expired(s, now) ==
  {id \in Held(s) : /\ s.rows[id].state \in Terminal
                    /\ s.rows[id].sentAt # 0
                    /\ s.rows[id].sentAt + Retention < now}

\* Mutant: a held id is written again.
PutWrites_OverHeld(s, id, now) == Cardinality(Held(s) \ Expired(s, now)) < MaxEvents

\* An id that is already held is a duplicate or an identity conflict: no write.
PutWrites(s, id, now) ==
  /\ id \notin Held(s)
  /\ Cardinality(Held(s) \ Expired(s, now)) < MaxEvents

Put(s, id, content, signed, now) ==
  [s EXCEPT !.rows = [x \in (Held(s) \ Expired(s, now)) \union {id} |->
                        IF x = id THEN NewRow(content, signed) ELSE s.rows[x]]]

Unsigned(s) == {id \in Pending(s) : ~s.rows[id].signed}
SignPendingWrites(s) == Unsigned(s) # {}
SignPending(s) ==
  Amend(s, [id \in Unsigned(s) |-> [s.rows[id] EXCEPT !.signed = TRUE]])

\* Mutant: an attempted event may be taken back.
Retractable_Attempted(s, drop) ==
  {id \in Pending(s) \cap LoaderIds \cap drop : s.rows[id].code = "none"}

\* Loader events a source migration may still take back: never attempted.
Retractable(s, drop) ==
  {id \in Pending(s) \cap LoaderIds \cap drop :
     ~s.rows[id].tried /\ s.rows[id].code = "none"}

Retained(s, drop, now) == (Held(s) \ Expired(s, now)) \ Retractable(s, drop)

\* `inputs` maps the ids of the scan's events to their content.
UpdateInventoryWrites(s, inputs, drop, now) ==
  LET kept == Retained(s, drop, now) IN
  /\ \A id \in DOMAIN inputs \cap kept : s.rows[id].content = inputs[id]
  /\ \/ DOMAIN inputs \subseteq kept
     \/ Cardinality(kept \union DOMAIN inputs) <= MaxEvents

UpdateInventory(s, items, inputs, drop, now) ==
  LET kept == Retained(s, drop, now) IN
  [s EXCEPT !.inventory = items,
            !.rows = [id \in kept \union DOMAIN inputs |->
                        IF id \in kept THEN s.rows[id] ELSE NewRow(inputs[id], TRUE)]]

----------------------------------------------------------------------------
(* Upload bookkeeping *)

\* Mutants: an answer is applied to events that are not pending any more; an
\* answer is applied whatever its counts.
ApplyUploadWrites_Held(s, ids, accepted, duplicates, rejected) ==
  /\ DOMAIN rejected \subseteq ids
  /\ accepted + duplicates = Cardinality(ids \ DOMAIN rejected)
  /\ ids \subseteq Held(s)
ApplyUploadWrites_Uncounted(s, ids, accepted, duplicates, rejected) ==
  DOMAIN rejected \subseteq ids /\ ids \subseteq Pending(s)

\* `rejected` maps the refused ids to their code; the two counts are the server's.
ApplyUploadWrites(s, ids, accepted, duplicates, rejected) ==
  /\ DOMAIN rejected \subseteq ids
  /\ accepted + duplicates = Cardinality(ids \ DOMAIN rejected)
  /\ ids \subseteq Pending(s)

ApplyUpload(s, ids, accepted, rejected, now) ==
  Amend(s, [id \in ids |->
    [s.rows[id] EXCEPT
       !.state = IF id \in DOMAIN rejected THEN "rejected"
                 ELSE IF accepted > 0 THEN "sent" ELSE "duplicate",
       !.code = IF id \in DOMAIN rejected THEN rejected[id] ELSE "none",
       !.tried = TRUE, !.sentAt = now]])

\* Mutant: a refused legacy row is reopened.
Reopenable_Legacy(s, ids) ==
  {id \in ids \cap Held(s) : s.rows[id].state = "rejected" /\ s.rows[id].code = HostRejection}

Reopenable(s, ids) ==
  {id \in (ids \cap Held(s)) \ LegacyIds :
     s.rows[id].state = "rejected" /\ s.rows[id].code = HostRejection}
ReopenWrites(s, ids) == s.withdrawal = "none" /\ Reopenable(s, ids) # {}
Reopen(s, ids) ==
  Amend(s, [id \in Reopenable(s, ids) |->
    [s.rows[id] EXCEPT !.state = "pending", !.code = "none", !.sentAt = 0]])

\* markUploadIntent(ids, pending): sets the write-ahead marker, or takes it back.
UploadIntentWrites(s, ids) ==
  /\ ids # {} /\ ids \subseteq Pending(s)
  /\ \A id \in ids : s.rows[id].code # Unknown
UploadIntent(s, ids, pending) ==
  Amend(s, [id \in ids |-> [s.rows[id] EXCEPT !.code = IF pending THEN Intent ELSE "none"]])

\* Mutant: a failed attempt gets an upload state of its own.
Attempts_NewState(s, ids, code) ==
  Amend(s, [id \in ids |-> [s.rows[id] EXCEPT !.state = "failed", !.code = code, !.tried = TRUE]])

\* markAttempts(ids, code): "none" is the call that clears the code.
AttemptsWrites(s, ids) == ids # {} /\ ids \subseteq Held(s)
Attempts(s, ids, code) ==
  Amend(s, [id \in ids |-> [s.rows[id] EXCEPT !.code = code, !.tried = TRUE]])

\* Mutant: a new attempt forgets that an earlier outcome is unknown.
ResendIntent_Forgets(s, ids) ==
  Amend(s, [id \in ids |-> [s.rows[id] EXCEPT !.code = Intent]])

ResendIntentWrites(s, ids) == s.withdrawal = "none" /\ ids \subseteq Pending(s)
ResendIntent(s, ids) ==
  Amend(s, [id \in ids |->
    [s.rows[id] EXCEPT !.code = IF @ = Unknown THEN Unknown ELSE Intent]])

\* `previous` maps the ids whose outcome was already unknown to that marker.
ResendFailureWrites(s, ids) == ids \subseteq Pending(s)
ResendFailure(s, ids, previous) ==
  Amend(s, [id \in ids |->
    [s.rows[id] EXCEPT !.code = IF id \in DOMAIN previous THEN previous[id] ELSE "none",
                       !.tried = TRUE]])

----------------------------------------------------------------------------
(* Withdrawal *)

WithdrawLocal(s) == [s EXCEPT !.rows = NoRows, !.withdrawal = "pending"]
MarkWithdrawalWrites(s) == s.withdrawal # "none"
MarkWithdrawal(s, state) == [s EXCEPT !.withdrawal = state]
ClearWithdrawalWrites(s) == s.withdrawal # "none"
ClearWithdrawal(s) == [s EXCEPT !.withdrawal = "none"]

----------------------------------------------------------------------------
(* What is asked of a snapshot and of its successors *)

LegacyRetired(s) == \A id \in LegacyIds \cap Held(s) : s.rows[id].state # "pending"
WithinCapacity(s) == Cardinality(Held(s)) <= MaxEvents

\* The signed fact behind an id never changes and a signature is never lost.
SameFacts(s, t) ==
  \A id \in Held(s) \cap Held(t) :
    /\ t.rows[id].content = s.rows[id].content
    /\ s.rows[id].signed => t.rows[id].signed

\* Only a host rejection returns to pending, and not while a withdrawal is recorded.
SameOutcomes(s, t) ==
  \A id \in Held(s) \cap Held(t) :
    s.rows[id].state \in Terminal /\ t.rows[id].state # s.rows[id].state =>
      /\ s.rows[id].state = "rejected" /\ s.rows[id].code = HostRejection
      /\ t.rows[id].state = "pending"
      /\ s.withdrawal = "none"

\* Attempted, or the attempt may be under way.
MayBeSent(row) == row.state = "pending" /\ (row.tried \/ row.code \in Markers)

KeepsAttempted(s, t) ==
  (\E id \in Held(s) \ Held(t) : MayBeSent(s.rows[id])) =>
    Held(t) = {} /\ t.withdrawal = "pending"
=============================================================================
