------------------------- MODULE EventSnapshotProofs -------------------------
(***************************************************************************)
(* Every method of the event buffer maps a good snapshot to a good one     *)
(* that may follow it: one lemma per method, for any ids, contents,        *)
(* capacity and retention.                                                 *)
(***************************************************************************)
EXTENDS EventSnapshot, FiniteSetTheorems, TLAPS

USE EventIdsAssumption, ClassAssumption, LimitAssumption

Good(s) == IsSnapshot(s) /\ LegacyRetired(s) /\ WithinCapacity(s)

Follows(s, t) == SameFacts(s, t) /\ SameOutcomes(s, t) /\ KeepsAttempted(s, t)

(* Codes and states are distinct constants. *)
LEMMA RowTypes ==
  /\ Terminal \subseteq UploadStates
  /\ "pending" \in UploadStates /\ "pending" \notin Terminal
  /\ {"none", HostRejection, "ITEM_REFUSED", Retired, Intent, Unknown} \subseteq Codes
BY DEF Terminal, UploadStates, Codes, Markers, HostRejection, Retired, Intent, Unknown

(* The rows of a snapshot, one by one. *)
LEMMA RowsOf ==
  ASSUME NEW s, IsSnapshot(s)
  PROVE  /\ Held(s) \subseteq EventIds
         /\ IsFiniteSet(Held(s))
         /\ Cardinality(Held(s)) \in Nat
         /\ \A id \in Held(s) : s.rows[id] \in Row
BY FS_Subset, FS_CardinalityType DEF IsSnapshot, Held

(* A snapshot made of other rows is one. *)
LEMMA WithRows ==
  ASSUME NEW s, IsSnapshot(s), NEW D \in SUBSET EventIds, NEW rows \in [D -> Row],
         NEW t, t = [s EXCEPT !.rows = rows]
  PROVE  /\ IsSnapshot(t) /\ t.rows = rows /\ Held(t) = D
         /\ t.withdrawal = s.withdrawal /\ t.inventory = s.inventory
BY DEF IsSnapshot, Held

(* Amend keeps the set of rows and replaces those it is given. *)
LEMMA AmendRows ==
  ASSUME NEW s, IsSnapshot(s), NEW D \in SUBSET Held(s), NEW changed \in [D -> Row],
         NEW t, t = Amend(s, changed)
  PROVE  /\ IsSnapshot(t) /\ Held(t) = Held(s)
         /\ t.withdrawal = s.withdrawal
         /\ \A id \in Held(s) : t.rows[id] = IF id \in D THEN changed[id] ELSE s.rows[id]
<1> DEFINE rows == [id \in Held(s) |-> IF id \in DOMAIN changed THEN changed[id] ELSE s.rows[id]]
<1>1. rows \in [Held(s) -> Row]
  BY RowsOf
<1>2. Held(s) \in SUBSET EventIds
  BY RowsOf
<1>3. t = [s EXCEPT !.rows = rows]
  BY DEF Amend
<1>4. \A id \in Held(s) : rows[id] = IF id \in D THEN changed[id] ELSE s.rows[id]
  OBVIOUS
<1> HIDE DEF rows
<1>5. IsSnapshot(t) /\ t.rows = rows /\ Held(t) = Held(s) /\ t.withdrawal = s.withdrawal
  BY <1>1, <1>2, <1>3, WithRows
<1> QED BY <1>4, <1>5

(* What a method that only amends pending rows must do to each of them. *)
LEMMA AmendedFollows ==
  ASSUME NEW s, Good(s), NEW D \in SUBSET Held(s), NEW changed \in [D -> Row],
         \A id \in D : /\ changed[id].content = s.rows[id].content
                       /\ changed[id].signed = s.rows[id].signed \/ changed[id].signed
                       /\ \/ changed[id].state = s.rows[id].state
                          \/ s.rows[id].state = "pending" /\ changed[id].state # "pending"
                          \/ /\ s.rows[id].state = "rejected" /\ changed[id].state = "pending"
                             /\ s.rows[id].code = HostRejection
                             /\ s.withdrawal = "none" /\ id \notin LegacyIds
  PROVE  Good(Amend(s, changed)) /\ Follows(s, Amend(s, changed))
<1> DEFINE t == Amend(s, changed)
<1>1. /\ IsSnapshot(t) /\ Held(t) = Held(s)
      /\ t.withdrawal = s.withdrawal
      /\ \A id \in Held(s) : t.rows[id] = IF id \in D THEN changed[id] ELSE s.rows[id]
  <2>1. IsSnapshot(s)
    BY DEF Good
  <2>2. t = Amend(s, changed)
    OBVIOUS
  <2> HIDE DEF t
  <2> QED BY <2>1, <2>2, AmendRows, SMTT(30)
<1> HIDE DEF t
<1>2. IsSnapshot(s) /\ \A id \in Held(s) : s.rows[id] \in Row
  BY RowsOf DEF Good
<1>3. WithinCapacity(t) 
  BY <1>1 DEF Good, WithinCapacity
<1>4. LegacyRetired(t)
  BY <1>1 DEF Good, LegacyRetired
<1>5. SameFacts(s, t)
  BY <1>1, <1>2 DEF SameFacts, Row
<1>6. SameOutcomes(s, t)
  BY <1>1, RowTypes DEF SameOutcomes
<1>7. KeepsAttempted(s, t)
  BY <1>1 DEF KeepsAttempted
<1> QED BY <1>1, <1>3, <1>4, <1>5, <1>6, <1>7 DEF Good, Follows, t

----------------------------------------------------------------------------
(* One lemma per method *)

(* Startup retires nothing twice: a good snapshot has no pending legacy row. *)
LEMMA RetireChangesNothing ==
  ASSUME NEW s, Good(s)
  PROVE  Retire(s) = s
<1>1. Pending(s) \cap LegacyIds = {}
  BY DEF Good, LegacyRetired, Pending
<1>2. \A changed : DOMAIN changed = {} => Amend(s, changed) = s
  BY DEF Amend, Good, IsSnapshot, Held
<1> QED BY <1>1, <1>2 DEF Retire

(* Startup makes any snapshot within capacity a good one. *)
LEMMA RetireIsGood ==
  ASSUME NEW s, IsSnapshot(s), WithinCapacity(s)
  PROVE  Good(Retire(s))
<1> DEFINE D == Pending(s) \cap LegacyIds
           changed == [id \in D |-> [s.rows[id] EXCEPT !.state = "rejected", !.code = Retired]]
           t == Retire(s)
<1>1. D \subseteq Held(s)
  BY DEF Pending
<1>2. changed \in [D -> Row]
  BY RowsOf, <1>1, RowTypes DEF Row, Terminal, UploadStates
<1>3. \A id \in D : changed[id].state = "rejected"
  BY RowsOf, <1>1 DEF Row
<1>4. \A id \in Held(s) \cap LegacyIds : id \notin D => s.rows[id].state # "pending"
  BY DEF Pending
<1>5. t = Amend(s, changed)
  BY DEF Retire
<1> HIDE DEF changed, D, t
<1>6. /\ IsSnapshot(t) /\ Held(t) = Held(s)
      /\ \A id \in Held(s) : t.rows[id] = IF id \in D THEN changed[id] ELSE s.rows[id]
  BY <1>1, <1>2, <1>5, AmendRows
<1>7. LegacyRetired(t)
  BY <1>3, <1>4, <1>6 DEF LegacyRetired
<1>8. Good(t)
  BY <1>6, <1>7 DEF Good, WithinCapacity
<1> QED BY <1>8 DEF t

(* put: one row more, expired rows out, within capacity. *)
LEMMA PutIsGood ==
  ASSUME NEW s, Good(s), NEW id \in EventIds, id \notin LegacyIds, NEW content \in Contents,
         NEW signed \in BOOLEAN, NEW now, PutWrites(s, id, now)
  PROVE  Good(Put(s, id, content, signed, now)) /\ Follows(s, Put(s, id, content, signed, now))
<1> DEFINE kept == Held(s) \ Expired(s, now)
           D == kept \union {id}
           rows == [x \in D |-> IF x = id THEN NewRow(content, signed) ELSE s.rows[x]]
           t == Put(s, id, content, signed, now)
<1>1. /\ IsSnapshot(s) /\ Held(s) \subseteq EventIds /\ IsFiniteSet(Held(s))
      /\ \A x \in Held(s) : s.rows[x] \in Row
  BY RowsOf DEF Good
<1>2. NewRow(content, signed) \in Row
  BY RowTypes DEF NewRow, Row
<1>3. rows \in [D -> Row] /\ D \subseteq EventIds
  BY <1>1, <1>2
<1>4. t = [s EXCEPT !.rows = rows]
  BY DEF Put
<1>41. \A x \in kept : x # id /\ rows[x] = s.rows[x]
  BY DEF PutWrites
<1> HIDE DEF t, rows
<1>5. IsSnapshot(t) /\ t.rows = rows /\ Held(t) = D /\ t.withdrawal = s.withdrawal
  BY <1>1, <1>3, <1>4, WithRows
<1>6. id \notin kept /\ Cardinality(kept) < MaxEvents
  BY DEF PutWrites
<1>7. IsFiniteSet(kept) /\ Cardinality(kept) \in Nat /\ Cardinality(D) = Cardinality(kept) + 1
  BY <1>1, <1>6, FS_Subset, FS_AddElement, FS_CardinalityType
<1>8. WithinCapacity(t)
  BY <1>5, <1>6, <1>7 DEF WithinCapacity
<1>9. \A x \in kept : t.rows[x] = s.rows[x]
  BY <1>5, <1>41
<1>10. LegacyRetired(t)
  BY <1>5, <1>9 DEF Good, LegacyRetired
<1>11. Held(s) \cap Held(t) = kept
  BY <1>5, <1>6 DEF PutWrites
<1>12. SameFacts(s, t) /\ SameOutcomes(s, t)
  BY <1>9, <1>11 DEF SameFacts, SameOutcomes
<1>13. \A x \in Held(s) \ Held(t) : s.rows[x].state # "pending"
  BY <1>5, RowTypes DEF Expired
<1>14. KeepsAttempted(s, t)
  BY <1>13 DEF KeepsAttempted, MayBeSent
<1> QED BY <1>5, <1>8, <1>10, <1>12, <1>14 DEF Good, Follows, t

(* signPending: only signatures are added. *)
LEMMA SignPendingIsGood ==
  ASSUME NEW s, Good(s)
  PROVE  Good(SignPending(s)) /\ Follows(s, SignPending(s))
<1> DEFINE D == Unsigned(s)
           changed == [id \in D |-> [s.rows[id] EXCEPT !.signed = TRUE]]
<1>1. IsSnapshot(s) /\ \A id \in Held(s) : s.rows[id] \in Row
  BY RowsOf DEF Good
<1>2. D \subseteq Held(s)
  BY DEF Unsigned, Pending
<1>3. changed \in [D -> Row]
  BY <1>1, <1>2 DEF Row
<1>4. \A id \in D : /\ changed[id].content = s.rows[id].content
                     /\ changed[id].signed
                     /\ changed[id].state = s.rows[id].state
  BY <1>1, <1>2 DEF Row
<1> HIDE DEF changed, D
<1>5. Good(Amend(s, changed)) /\ Follows(s, Amend(s, changed))
  BY <1>2, <1>3, <1>4, AmendedFollows
<1> QED BY <1>5 DEF SignPending, changed, D

(* updateInventory: only expired and never attempted rows leave. *)
LEMMA UpdateInventoryIsGood ==
  ASSUME NEW s, Good(s), NEW items \in SUBSET Items, NEW content \in Contents, NEW drop, NEW now,
         NEW ids \in SUBSET LoaderIds, ids \cap LegacyIds = {}, ids \cap Held(s) = {},
         NEW inputs, inputs = [id \in ids |-> content],
         UpdateInventoryWrites(s, inputs, drop, now)
  PROVE  /\ Good(UpdateInventory(s, items, inputs, drop, now))
         /\ Follows(s, UpdateInventory(s, items, inputs, drop, now))
<1> DEFINE kept == Retained(s, drop, now)
           D == kept \union ids
           rows == [id \in D |-> IF id \in kept THEN s.rows[id] ELSE NewRow(content, TRUE)]
           scanned == [s EXCEPT !.inventory = items]
           t == UpdateInventory(s, items, inputs, drop, now)
<1>1. /\ IsSnapshot(s) /\ Held(s) \subseteq EventIds /\ IsFiniteSet(Held(s))
      /\ \A x \in Held(s) : s.rows[x] \in Row
  BY RowsOf DEF Good
<1>2. NewRow(content, TRUE) \in Row
  BY RowTypes DEF NewRow, Row
<1>3. kept \subseteq Held(s)
  BY DEF Retained
<1>4. rows \in [D -> Row] /\ D \subseteq EventIds
  BY <1>1, <1>2, <1>3
<1>5. IsSnapshot(scanned)
  BY <1>1 DEF IsSnapshot, Held
<1>6. t = [scanned EXCEPT !.rows = rows]
  BY <1>1 DEF UpdateInventory, IsSnapshot
<1>7. /\ scanned.withdrawal = s.withdrawal
      /\ \A x \in kept : rows[x] = s.rows[x]
  BY <1>1 DEF IsSnapshot
<1>8. ids \subseteq kept \/ Cardinality(D) <= MaxEvents
  BY DEF UpdateInventoryWrites
<1>9. \A x \in Held(s) \ kept : ~MayBeSent(s.rows[x])
  BY RowTypes DEF Retained, Expired, Retractable, MayBeSent, Markers, Intent, Unknown
<1> HIDE DEF kept, rows, scanned, t
<1>10. IsSnapshot(t) /\ t.rows = rows /\ Held(t) = D /\ t.withdrawal = s.withdrawal
  BY <1>4, <1>5, <1>6, <1>7, WithRows
<1>11. Cardinality(kept) <= MaxEvents
  BY <1>1, <1>3, FS_Subset, FS_CardinalityType DEF Good, WithinCapacity
<1>12. WithinCapacity(t)
  <2>1. CASE ids \subseteq kept
    <3>1. D = kept
      BY <2>1
    <3> QED BY <3>1, <1>10, <1>11 DEF WithinCapacity
  <2>2. CASE Cardinality(D) <= MaxEvents
    BY <2>2, <1>10 DEF WithinCapacity
  <2> QED BY <1>8, <2>1, <2>2
<1>13. LegacyRetired(t)
  BY <1>3, <1>7, <1>10 DEF Good, LegacyRetired
<1>14. Held(s) \cap Held(t) = kept
  BY <1>3, <1>10
<1>15. SameFacts(s, t) /\ SameOutcomes(s, t)
  BY <1>7, <1>10, <1>14 DEF SameFacts, SameOutcomes
<1>16. KeepsAttempted(s, t)
  BY <1>9, <1>10 DEF KeepsAttempted
<1>17. Good(t) /\ Follows(s, t)
  BY <1>10, <1>12, <1>13, <1>15, <1>16 DEF Good, Follows
<1> QED BY <1>17 DEF t

(* applyUpload: pending rows get an outcome. *)
LEMMA ApplyUploadIsGood ==
  ASSUME NEW s, Good(s), NEW ids, NEW accepted \in Nat, NEW duplicates \in Nat, NEW now \in Nat,
         NEW rejected, \A id \in DOMAIN rejected : rejected[id] \in {HostRejection, "ITEM_REFUSED"},
         ApplyUploadWrites(s, ids, accepted, duplicates, rejected)
  PROVE  /\ Good(ApplyUpload(s, ids, accepted, rejected, now))
         /\ Follows(s, ApplyUpload(s, ids, accepted, rejected, now))
<1> DEFINE D == ids
           state(id) == IF id \in DOMAIN rejected THEN "rejected"
                        ELSE IF accepted > 0 THEN "sent" ELSE "duplicate"
           code(id) == IF id \in DOMAIN rejected THEN rejected[id] ELSE "none"
           changed == [id \in D |-> [s.rows[id] EXCEPT
                         !.state = state(id), !.code = code(id), !.tried = TRUE, !.sentAt = now]]
<1>1. IsSnapshot(s) /\ \A id \in Held(s) : s.rows[id] \in Row
  BY RowsOf DEF Good
<1>2. D \subseteq Held(s) /\ \A id \in D : s.rows[id].state = "pending"
  BY DEF ApplyUploadWrites, Pending
<1>3. \A id \in D : state(id) \in UploadStates /\ state(id) # "pending" /\ code(id) \in Codes
  BY RowTypes DEF Terminal, UploadStates
<1>4. ApplyUpload(s, ids, accepted, rejected, now) = Amend(s, changed)
  BY DEF ApplyUpload
<1> HIDE DEF state, code
<1>5. changed \in [D -> Row]
  BY <1>1, <1>2, <1>3 DEF Row
<1>6. \A id \in D : /\ changed[id].content = s.rows[id].content
                     /\ changed[id].signed = s.rows[id].signed
                     /\ s.rows[id].state = "pending" /\ changed[id].state # "pending"
  BY <1>1, <1>2, <1>3 DEF Row
<1> HIDE DEF changed, D
<1>7. Good(Amend(s, changed)) /\ Follows(s, Amend(s, changed))
  BY <1>2, <1>5, <1>6, AmendedFollows
<1> QED BY <1>4, <1>7

(* reopenHostRejected: only host rejections become pending again. *)
LEMMA ReopenIsGood ==
  ASSUME NEW s, Good(s), NEW ids, ReopenWrites(s, ids)
  PROVE  Good(Reopen(s, ids)) /\ Follows(s, Reopen(s, ids))
<1> DEFINE D == Reopenable(s, ids)
           changed == [id \in D |-> [s.rows[id] EXCEPT !.state = "pending", !.code = "none", !.sentAt = 0]]
<1>1. IsSnapshot(s) /\ \A id \in Held(s) : s.rows[id] \in Row
  BY RowsOf DEF Good
<1>2. D \subseteq Held(s)
  BY DEF Reopenable
<1>3. changed \in [D -> Row]
  BY <1>1, <1>2, RowTypes DEF Row
<1>4. \A id \in D : /\ changed[id].content = s.rows[id].content
                     /\ changed[id].signed = s.rows[id].signed
                     /\ s.rows[id].state = "rejected" /\ s.rows[id].code = HostRejection
                     /\ changed[id].state = "pending" /\ id \notin LegacyIds
                     /\ s.withdrawal = "none"
  BY <1>1, <1>2 DEF Row, Reopenable, ReopenWrites
<1> HIDE DEF changed, D
<1>5. Good(Amend(s, changed)) /\ Follows(s, Amend(s, changed))
  BY <1>2, <1>3, <1>4, AmendedFollows
<1> QED BY <1>5 DEF Reopen, changed, D

(* markUploadIntent: only markers of pending rows change. *)
LEMMA UploadIntentIsGood ==
  ASSUME NEW s, Good(s), NEW ids, NEW pending \in BOOLEAN, UploadIntentWrites(s, ids)
  PROVE  Good(UploadIntent(s, ids, pending)) /\ Follows(s, UploadIntent(s, ids, pending))
<1> DEFINE D == ids
           changed == [id \in D |-> [s.rows[id] EXCEPT !.code = IF pending THEN Intent ELSE "none"]]
<1>1. IsSnapshot(s) /\ \A id \in Held(s) : s.rows[id] \in Row
  BY RowsOf DEF Good
<1>2. D \subseteq Held(s)
  BY DEF UploadIntentWrites, Pending
<1>3. changed \in [D -> Row]
  BY <1>1, <1>2, RowTypes DEF Row
<1>4. \A id \in D : /\ changed[id].content = s.rows[id].content
                     /\ changed[id].signed = s.rows[id].signed
                     /\ changed[id].state = s.rows[id].state
  BY <1>1, <1>2, RowTypes DEF Row
<1> HIDE DEF changed, D
<1>5. Good(Amend(s, changed)) /\ Follows(s, Amend(s, changed))
  BY <1>2, <1>3, <1>4, AmendedFollows
<1> QED BY <1>5 DEF UploadIntent, changed, D

(* markAttempts: only markers change. *)
LEMMA AttemptsIsGood ==
  ASSUME NEW s, Good(s), NEW ids, NEW code \in {"none", Unknown}, AttemptsWrites(s, ids)
  PROVE  Good(Attempts(s, ids, code)) /\ Follows(s, Attempts(s, ids, code))
<1> DEFINE D == ids
           changed == [id \in D |-> [s.rows[id] EXCEPT !.code = code, !.tried = TRUE]]
<1>1. IsSnapshot(s) /\ \A id \in Held(s) : s.rows[id] \in Row
  BY RowsOf DEF Good
<1>2. D \subseteq Held(s)
  BY DEF AttemptsWrites
<1>3. changed \in [D -> Row]
  BY <1>1, <1>2, RowTypes DEF Row
<1>4. \A id \in D : /\ changed[id].content = s.rows[id].content
                     /\ changed[id].signed = s.rows[id].signed
                     /\ changed[id].state = s.rows[id].state
  BY <1>1, <1>2, RowTypes DEF Row
<1> HIDE DEF changed, D
<1>5. Good(Amend(s, changed)) /\ Follows(s, Amend(s, changed))
  BY <1>2, <1>3, <1>4, AmendedFollows
<1> QED BY <1>5 DEF Attempts, changed, D

(* markResendIntent: only markers of pending rows change. *)
LEMMA ResendIntentIsGood ==
  ASSUME NEW s, Good(s), NEW ids, ResendIntentWrites(s, ids)
  PROVE  Good(ResendIntent(s, ids)) /\ Follows(s, ResendIntent(s, ids))
<1> DEFINE D == ids
           changed == [id \in D |-> [s.rows[id] EXCEPT !.code = IF @ = Unknown THEN Unknown ELSE Intent]]
<1>1. IsSnapshot(s) /\ \A id \in Held(s) : s.rows[id] \in Row
  BY RowsOf DEF Good
<1>2. D \subseteq Held(s)
  BY DEF ResendIntentWrites, Pending
<1>3. changed \in [D -> Row]
  BY <1>1, <1>2, RowTypes DEF Row
<1>4. \A id \in D : /\ changed[id].content = s.rows[id].content
                     /\ changed[id].signed = s.rows[id].signed
                     /\ changed[id].state = s.rows[id].state
  BY <1>1, <1>2, RowTypes DEF Row
<1> HIDE DEF changed, D
<1>5. Good(Amend(s, changed)) /\ Follows(s, Amend(s, changed))
  BY <1>2, <1>3, <1>4, AmendedFollows
<1> QED BY <1>5 DEF ResendIntent, changed, D

(* markResendFailure: only markers of pending rows change. *)
LEMMA ResendFailureIsGood ==
  ASSUME NEW s, Good(s), NEW ids, NEW previous, \A id \in DOMAIN previous : previous[id] \in Markers,
         ResendFailureWrites(s, ids)
  PROVE  Good(ResendFailure(s, ids, previous)) /\ Follows(s, ResendFailure(s, ids, previous))
<1> DEFINE D == ids
           changed == [id \in D |-> [s.rows[id] EXCEPT
             !.code = IF id \in DOMAIN previous THEN previous[id] ELSE "none", !.tried = TRUE]]
<1>1. IsSnapshot(s) /\ \A id \in Held(s) : s.rows[id] \in Row
  BY RowsOf DEF Good
<1>2. D \subseteq Held(s)
  BY DEF ResendFailureWrites, Pending
<1>3. changed \in [D -> Row]
  BY <1>1, <1>2, RowTypes DEF Row, Markers
<1>4. \A id \in D : /\ changed[id].content = s.rows[id].content
                     /\ changed[id].signed = s.rows[id].signed
                     /\ changed[id].state = s.rows[id].state
  BY <1>1, <1>2, RowTypes DEF Row
<1> HIDE DEF changed, D
<1>5. Good(Amend(s, changed)) /\ Follows(s, Amend(s, changed))
  BY <1>2, <1>3, <1>4, AmendedFollows
<1> QED BY <1>5 DEF ResendFailure, changed, D

(* No rows at all. *)
LEMMA EmptyRows == NoRows \in [{} -> Row] /\ DOMAIN NoRows = {}
BY DEF NoRows

(* withdrawLocal: everything leaves at once, and a withdrawal is recorded. *)
LEMMA WithdrawLocalIsGood ==
  ASSUME NEW s, Good(s)
  PROVE  Good(WithdrawLocal(s)) /\ Follows(s, WithdrawLocal(s))
<1> DEFINE emptied == [s EXCEPT !.rows = NoRows]
           t == WithdrawLocal(s)
<1>1. t = [emptied EXCEPT !.withdrawal = "pending"]
  BY DEF Good, IsSnapshot, WithdrawLocal
<1>2. emptied = [s EXCEPT !.rows = NoRows] /\ IsSnapshot(s)
  BY DEF Good
<1> HIDE DEF emptied, t
<1>3. IsSnapshot(emptied) /\ Held(emptied) = {}
  BY <1>2, EmptyRows, WithRows
<1>4. IsSnapshot(t) /\ Held(t) = {} /\ t.withdrawal = "pending"
  BY <1>1, <1>3 DEF IsSnapshot, Held, WithdrawalStates
<1>5. Good(t)
  BY <1>4, FS_EmptySet DEF Good, LegacyRetired, WithinCapacity
<1>6. Follows(s, t)
  BY <1>4 DEF Follows, SameFacts, SameOutcomes, KeepsAttempted
<1> QED BY <1>5, <1>6 DEF t

(* markWithdrawal and clearWithdrawal: the rows stay as they are. *)
LEMMA SameRowsIsGood ==
  ASSUME NEW s, Good(s), NEW t, NEW state \in WithdrawalStates, t = [s EXCEPT !.withdrawal = state]
  PROVE  Good(t) /\ Follows(s, t)
<1>1. t.rows = s.rows /\ Held(t) = Held(s) /\ IsSnapshot(t)
  BY DEF Good, IsSnapshot, Held
<1>2. Good(t)
  BY <1>1 DEF Good, LegacyRetired, WithinCapacity
<1>3. Follows(s, t)
  BY <1>1 DEF Follows, SameFacts, SameOutcomes, KeepsAttempted
<1> QED BY <1>2, <1>3

(* A reader may see the same snapshot again. *)
LEMMA FollowsItself ==
  ASSUME NEW s
  PROVE  Follows(s, s)
BY DEF Follows, SameFacts, SameOutcomes, KeepsAttempted
=============================================================================
