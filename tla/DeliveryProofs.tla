---------------------------- MODULE DeliveryProofs ----------------------------
(***************************************************************************)
(* The detailed reporter implements EventDelivery: each of its steps is a  *)
(* step of the promised delivery of one event, or changes nothing of it,   *)
(* for any ids, contents, batch size and environment.                      *)
(*                                                                         *)
(* The argument: a call moves an event as EventDelivery allows only when   *)
(* the event's row is in the stage the call was made for, and it is made   *)
(* some steps before it is published.  So what this process knows of its   *)
(* requests (the batch it is at, the answer it has, the unknown outcomes   *)
(* it remembers) is kept in agreement with the rows (Knowing): an intent   *)
(* is asked for and taken back where nothing was sent, an answer is        *)
(* written on rows whose intent is durable, and a row forgets an unknown   *)
(* outcome only for an answer.                                             *)
(*                                                                         *)
(* Then the list of records: what it was told of the rows stands for what  *)
(* the server has, or had until it was told so (HistoryOK, ReceivedOK).    *)
(* Last, the withdrawal of consent: what this device holds without consent *)
(* is erased, or a queued job will erase it (Promised).                    *)
(***************************************************************************)
EXTENDS ReporterProofs

----------------------------------------------------------------------------
(* What a call makes of the rows *)

\* A put or a scan only adds: no row of this session has expired.
LEMMA RecordedRows ==
  ASSUME NEW s, Good(s), NEW c \in Calling, CallOK(c), c.op \in {"put", "scan"},
         c.op = "scan" => c.ids \cap Held(s) = {}, Admitted(c, s), Changes(c, s)
  PROVE  LET t == Result(c, s) IN
         /\ Held(s) \subseteq Held(t) /\ Held(t) \subseteq EventIds
         /\ \A id \in Held(s) : t.rows[id] = s.rows[id]
         /\ \A id \in Held(t) \ Held(s) : t.rows[id].state = "pending" /\ t.rows[id].code = "none"
<1>1. IsSnapshot(s) /\ \A id \in Held(s) : s.rows[id] \in Row
  BY RowsOf DEF Good
<1>2. Expired(s, SessionTime) = {}
  <2>1. ASSUME NEW id \in Held(s), s.rows[id].sentAt # 0 PROVE ~(s.rows[id].sentAt + Retention < SessionTime)
    <3>1. s.rows[id].sentAt \in Nat /\ Retention \in Nat /\ Retention > 0
      BY <1>1, LimitAssumption DEF Row
    <3> QED BY <2>1, <3>1 DEF SessionTime
  <2> QED BY <2>1 DEF Expired
<1>3. CASE c.op = "put"
  <2>1. PICK id \in EventIds : c.ids = {id}
    BY <1>3 DEF CallOK
  <2> DEFINE rows == [x \in Held(s) \cup {id} |-> IF x = id THEN NewRow(Fact, TRUE) ELSE s.rows[x]]
  <2>2. (CHOOSE x \in c.ids : TRUE) = id
    BY <2>1
  <2>3. Result(c, s) = [s EXCEPT !.rows = rows]
    BY <1>2, <1>3, <2>2 DEF Result, Put
  <2>4. id \notin Held(s)
    BY <1>3, <2>1 DEF Changes
  <2>5. /\ DOMAIN rows = Held(s) \cup {id} /\ \A x \in Held(s) : rows[x] = s.rows[x]
        /\ \A x \in {id} \ Held(s) : rows[x].state = "pending" /\ rows[x].code = "none"
    BY <2>4 DEF NewRow
  <2> HIDE DEF rows
  <2>6. PICK t : t = Result(c, s)
    OBVIOUS
  <2>7. t.rows = rows
    BY <1>1, <2>3, <2>6 DEF IsSnapshot
  <2>8. /\ Held(s) \subseteq Held(t) /\ Held(t) \subseteq EventIds
        /\ \A x \in Held(s) : t.rows[x] = s.rows[x]
        /\ \A x \in Held(t) \ Held(s) : t.rows[x].state = "pending" /\ t.rows[x].code = "none"
    BY <1>1, <2>5, <2>7 DEF Held, IsSnapshot
  <2> QED BY <2>6, <2>8
<1>4. CASE c.op = "scan"
  <2> DEFINE inputs == [id \in c.ids |-> Fact]
             kept == Retained(s, {}, SessionTime)
             rows == [x \in kept \cup DOMAIN inputs |-> IF x \in kept THEN s.rows[x] ELSE NewRow(inputs[x], TRUE)]
  <2>1. Result(c, s) = [s EXCEPT !.inventory = {}, !.rows = rows]
    BY <1>4 DEF Result, UpdateInventory
  <2>2. kept = Held(s)
    BY <1>2 DEF Retained, Retractable
  <2>3. c.ids \subseteq EventIds
    BY DEF Calling
  <2>4. /\ DOMAIN rows = Held(s) \cup c.ids /\ \A x \in Held(s) : rows[x] = s.rows[x]
        /\ \A x \in c.ids \ Held(s) : rows[x].state = "pending" /\ rows[x].code = "none"
    BY <2>2 DEF NewRow
  <2> HIDE DEF rows
  <2>5. PICK t : t = Result(c, s)
    OBVIOUS
  <2>6. t.rows = rows
    BY <1>1, <2>1, <2>5 DEF IsSnapshot
  <2>7. /\ Held(s) \subseteq Held(t) /\ Held(t) \subseteq EventIds
        /\ \A x \in Held(s) : t.rows[x] = s.rows[x]
        /\ \A x \in Held(t) \ Held(s) : t.rows[x].state = "pending" /\ t.rows[x].code = "none"
    BY <1>1, <2>3, <2>4, <2>6 DEF Held, IsSnapshot
  <2> QED BY <2>5, <2>7
<1> QED BY <1>3, <1>4

\* What a call of the sender makes of a row it names.
BatchOps == {"intent", "undoIntent", "attempts", "resendIntent", "resendFailure", "apply"}
StateAfter(c, id, row) ==
  IF c.op # "apply" THEN row.state
  ELSE IF id \in DOMAIN c.marks THEN "rejected" ELSE IF c.accepted > 0 THEN "sent" ELSE "duplicate"
CodeAfter(c, id, row) ==
  CASE c.op = "intent" -> Intent
    [] c.op = "attempts" -> c.code
    [] c.op = "resendIntent" -> (IF row.code = Unknown THEN Unknown ELSE Intent)
    [] c.op \in {"resendFailure", "apply"} -> (IF id \in DOMAIN c.marks THEN c.marks[id] ELSE "none")
    [] OTHER -> "none"

LEMMA BatchRows ==
  ASSUME NEW s, Good(s), NEW c \in Calling, c.op \in BatchOps, Admitted(c, s)
  PROVE  LET t == Result(c, s) IN
         /\ Held(t) = Held(s) /\ c.ids \subseteq Held(s) /\ Held(s) \subseteq EventIds
         /\ c.op # "attempts" => c.ids \subseteq Pending(s)
         /\ \A id \in Held(s) \ c.ids : t.rows[id] = s.rows[id]
         /\ \A id \in c.ids : /\ t.rows[id].state = StateAfter(c, id, s.rows[id])
                              /\ t.rows[id].code = CodeAfter(c, id, s.rows[id])
<1>1. IsSnapshot(s) /\ \A id \in Held(s) : s.rows[id] \in Row
  BY RowsOf DEF Good
<1>2. c.ids \subseteq Held(s) /\ (c.op # "attempts" => c.ids \subseteq Pending(s))
  BY DEF BatchOps, Admitted, UploadIntentWrites, AttemptsWrites, ResendIntentWrites, ResendFailureWrites,
         ApplyUploadWrites, Pending
<1>3. ASSUME NEW changed, Result(c, s) = Amend(s, changed), DOMAIN changed = c.ids,
             \A id \in c.ids : /\ changed[id].state = StateAfter(c, id, s.rows[id])
                               /\ changed[id].code = CodeAfter(c, id, s.rows[id])
      PROVE  LET t == Result(c, s) IN
             /\ Held(t) = Held(s)
             /\ \A id \in Held(s) \ c.ids : t.rows[id] = s.rows[id]
             /\ \A id \in c.ids : /\ t.rows[id].state = StateAfter(c, id, s.rows[id])
                                  /\ t.rows[id].code = CodeAfter(c, id, s.rows[id])
  <2> DEFINE t == Amend(s, changed)
  <2>1. /\ Held(t) = Held(s)
        /\ \A id \in Held(s) : t.rows[id] = IF id \in c.ids THEN changed[id] ELSE s.rows[id]
    BY <1>1, <1>3, AmendAt
  <2> HIDE DEF t
  <2>2. Result(c, s) = t
    BY <1>3 DEF t
  <2> QED BY <1>2, <1>3, <2>1, <2>2
<1>4. CASE c.op \in {"intent", "undoIntent"}
  <2> DEFINE pending == c.op = "intent"
             changed == [id \in c.ids |-> [s.rows[id] EXCEPT !.code = IF pending THEN Intent ELSE "none"]]
  <2>1. Result(c, s) = Amend(s, changed) /\ DOMAIN changed = c.ids
    BY <1>4 DEF Result, UploadIntent
  <2>2. \A id \in c.ids : /\ changed[id].state = StateAfter(c, id, s.rows[id])
                          /\ changed[id].code = CodeAfter(c, id, s.rows[id])
    BY <1>1, <1>2, <1>4 DEF StateAfter, CodeAfter, Row
  <2> HIDE DEF changed
  <2> QED BY <1>1, <1>2, <1>3, <2>1, <2>2 DEF IsSnapshot
<1>5. CASE c.op = "attempts"
  <2> DEFINE changed == [id \in c.ids |-> [s.rows[id] EXCEPT !.code = c.code, !.tried = TRUE]]
  <2>1. Result(c, s) = Amend(s, changed) /\ DOMAIN changed = c.ids
    BY <1>5 DEF Result, Attempts
  <2>2. \A id \in c.ids : /\ changed[id].state = StateAfter(c, id, s.rows[id])
                          /\ changed[id].code = CodeAfter(c, id, s.rows[id])
    BY <1>1, <1>2, <1>5 DEF StateAfter, CodeAfter, Row
  <2> HIDE DEF changed
  <2> QED BY <1>1, <1>2, <1>3, <2>1, <2>2 DEF IsSnapshot
<1>6. CASE c.op = "resendIntent"
  <2> DEFINE changed == [id \in c.ids |-> [s.rows[id] EXCEPT !.code = IF @ = Unknown THEN Unknown ELSE Intent]]
  <2>1. Result(c, s) = Amend(s, changed) /\ DOMAIN changed = c.ids
    BY <1>6 DEF Result, ResendIntent
  <2>2. \A id \in c.ids : /\ changed[id].state = StateAfter(c, id, s.rows[id])
                          /\ changed[id].code = CodeAfter(c, id, s.rows[id])
    BY <1>1, <1>2, <1>6 DEF StateAfter, CodeAfter, Row
  <2> HIDE DEF changed
  <2> QED BY <1>1, <1>2, <1>3, <2>1, <2>2 DEF IsSnapshot
<1>7. CASE c.op = "resendFailure"
  <2> DEFINE changed == [id \in c.ids |-> [s.rows[id] EXCEPT
               !.code = IF id \in DOMAIN c.marks THEN c.marks[id] ELSE "none", !.tried = TRUE]]
  <2>1. Result(c, s) = Amend(s, changed) /\ DOMAIN changed = c.ids
    BY <1>7 DEF Result, ResendFailure
  <2>2. \A id \in c.ids : /\ changed[id].state = StateAfter(c, id, s.rows[id])
                          /\ changed[id].code = CodeAfter(c, id, s.rows[id])
    BY <1>1, <1>2, <1>7 DEF StateAfter, CodeAfter, Row
  <2> HIDE DEF changed
  <2> QED BY <1>1, <1>2, <1>3, <2>1, <2>2 DEF IsSnapshot
<1>8. CASE c.op = "apply"
  <2> DEFINE changed == [id \in c.ids |->
               [s.rows[id] EXCEPT !.state = IF id \in DOMAIN c.marks THEN "rejected"
                                            ELSE IF c.accepted > 0 THEN "sent" ELSE "duplicate",
                                  !.code = IF id \in DOMAIN c.marks THEN c.marks[id] ELSE "none",
                                  !.tried = TRUE, !.sentAt = SessionTime]]
  <2>1. Result(c, s) = Amend(s, changed) /\ DOMAIN changed = c.ids
    BY <1>8 DEF Result, ApplyUpload
  <2>2. \A id \in c.ids : /\ changed[id].state = StateAfter(c, id, s.rows[id])
                          /\ changed[id].code = CodeAfter(c, id, s.rows[id])
    BY <1>1, <1>2, <1>8 DEF StateAfter, CodeAfter, Row
  <2> HIDE DEF changed
  <2> QED BY <1>1, <1>2, <1>3, <2>1, <2>2 DEF IsSnapshot
<1> QED BY <1>4, <1>5, <1>6, <1>7, <1>8 DEF BatchOps

LEMMA ReopenedRows ==
  ASSUME NEW s, Good(s), NEW c \in Calling, c.op = "reopen"
  PROVE  LET t == Result(c, s) IN
         /\ Held(t) = Held(s) /\ Held(s) \subseteq EventIds
         /\ \A id \in Held(s) :
              \/ t.rows[id] = s.rows[id]
              \/ s.rows[id].state = "rejected" /\ t.rows[id].state = "pending" /\ t.rows[id].code = "none"
<1> DEFINE D == Reopenable(s, c.ids)
           changed == [id \in D |-> [s.rows[id] EXCEPT !.state = "pending", !.code = "none", !.sentAt = 0]]
<1>1. IsSnapshot(s) /\ \A id \in Held(s) : s.rows[id] \in Row
  BY RowsOf DEF Good
<1>2. Result(c, s) = Amend(s, changed) /\ DOMAIN changed = D
  BY DEF Result, Reopen
<1>3. \A id \in D : /\ id \in Held(s) /\ s.rows[id].state = "rejected"
                    /\ changed[id].state = "pending" /\ changed[id].code = "none"
  BY <1>1 DEF Reopenable, Row
<1> HIDE DEF changed, D
<1>4. /\ Held(Amend(s, changed)) = Held(s)
      /\ \A id \in Held(s) : Amend(s, changed).rows[id] = IF id \in D THEN changed[id] ELSE s.rows[id]
  BY <1>1, <1>2, AmendAt
<1>5. PICK t : t = Result(c, s)
  OBVIOUS
<1> QED BY <1>1, <1>2, <1>3, <1>4, <1>5 DEF IsSnapshot

LEMMA WithdrawnRows ==
  ASSUME NEW s, Good(s), NEW c \in Calling, c.op \in {"withdrawLocal", "markWithdrawal", "clearWithdrawal"}
  PROVE  IF c.op = "withdrawLocal" THEN Held(Result(c, s)) = {} ELSE Result(c, s).rows = s.rows
<1>1. s = [rows |-> s.rows, withdrawal |-> s.withdrawal, inventory |-> s.inventory]
  BY DEF Good, IsSnapshot
<1>2. CASE c.op = "withdrawLocal"
  BY <1>1, <1>2, EmptyRows DEF Result, WithdrawLocal, Held
<1>3. CASE c.op \in {"markWithdrawal", "clearWithdrawal"}
  BY <1>1, <1>3 DEF Result, MarkWithdrawal, ClearWithdrawal
<1> QED BY <1>2, <1>3
----------------------------------------------------------------------------
(* What this process knows of its requests agrees with the rows *)

Automatic == Head(tail).kind = "run"
Applied == run.pc = "apply" /\ answer["sender"] = "ok"
Lost(id) == id \in DOMAIN reporter.unconfirmed /\ reporter.unconfirmed[id] = Unknown

\* What is known of an event of the batch before the request has an outcome.
Prior(id) == IF id \in DOMAIN run.previous THEN run.previous[id] ELSE Intent

\* The call the sender waits for is that of its place.
Expected(c) ==
  /\ run.pc # "mark" => Carries /\ c.ids = run.batch
  /\ \/ run.pc = "intent" /\ c.op = (IF Automatic THEN "intent" ELSE "resendIntent")
     \/ run.pc = "undo" /\ c.op = "undoIntent" /\ Automatic
     \/ run.pc = "fail" /\ Automatic /\ c.op = "attempts" /\ c.code = "none"
     \/ run.pc = "fail" /\ ~Automatic /\ c.op = "resendFailure" /\ c.marks = run.previous
     \/ run.pc = "hold" /\ c.op = "attempts" /\ c.code = Unknown
     \/ run.pc = "apply" /\ c.op = "apply"
     \/ run.pc = "mark" /\ c.op = "markWithdrawal"
ExpectedOK == \A i \in DOMAIN calls : calls[i].by = "sender" => Expected(calls[i])

\* Until its outcome is known, the batch is pending, and what was unknown of it
\* before is what the explicit sender set aside.
Open == Carries /\ run.pc \notin {"idle", "hold"} /\ ~Applied
AsBefore(id) ==
  /\ id \in DOMAIN run.previous => id \in DOMAIN reporter.unconfirmed
  /\ id \in DOMAIN reporter.unconfirmed => reporter.unconfirmed[id] = Prior(id)
OpenOK ==
  /\ Open => \A id \in run.batch : id \in Pending(memory) /\ AsBefore(id)
  /\ Carries /\ run.pc # "idle" => IF Automatic THEN DOMAIN run.previous = {} ELSE ~reporter.failed

\* From the intent on the rows say the same.
Coded == Sent \/ (run.pc \in {"fail", "hold", "apply"} /\ answer["sender"] # "ok")
CodedOK ==
  Carries /\ Coded => \A id \in run.batch : id \in Pending(memory) /\ memory.rows[id].code = Prior(id)

\* A batch of unknown outcome is held before its rows say so.
Holds(id) == Carries /\ run.pc = "hold" /\ id \in run.batch
HeldOK ==
  Carries /\ run.pc = "hold" => \A id \in run.batch :
    id \in Pending(memory) /\ Lost(id) /\ (answer["sender"] = "ok" => memory.rows[id].code = Unknown)

\* A row says that its outcome is unknown when this process holds it to be so,
\* unless the write that was to say it failed.
AgreesOK ==
  \A id \in Pending(memory) :
    /\ memory.rows[id].code = Unknown => Lost(id)
    /\ Lost(id) /\ ~reporter.failed /\ ~Holds(id) => memory.rows[id].code = Unknown

\* What counts as unconfirmed is pending, or about to be forgotten.
Erasing == jpc = "local" /\ answer["job"] = "ok"
ListedOK ==
  Erasing \/ DOMAIN reporter.unconfirmed \subseteq Pending(memory) \cup (IF Carries /\ Applied THEN run.batch ELSE {})

\* While a withdrawal is recorded no outcome is unknown.
Settles(s) == s.withdrawal # "none" => \A id \in Pending(s) : s.rows[id].code # Unknown
SettledOK == Settles(memory) /\ Settles(disk) /\ Settles(next)

Knowing == ExpectedOK /\ OpenOK /\ CodedOK /\ HeldOK /\ AgreesOK /\ ListedOK /\ SettledOK

----------------------------------------------------------------------------
(* The store's steps *)

\* Past its gates, and but for a deletion, a task carries events; no withdrawal
\* is recorded then.
LEMMA Carrying ==
  ASSUME Inv, Silence, run.pc # "idle"
  PROVE  /\ Carries \/ (Deleting /\ run.pc \in {"delete", "answered", "mark"})
         /\ Carries => memory.withdrawal = "none" /\ jpc # "local"
         /\ Carries => (Automatic <=> Head(tail).kind # "resend")
<1>1. tail # <<>> /\ Head(tail) \in Tasks /\ Head(tail) = tail[1] /\ 1 \in DOMAIN tail
  BY Dropped DEF Inv, TypesOK, TailOK
<1>2. Carries \/ (Deleting /\ run.pc \in {"delete", "answered", "mark"})
  BY <1>1 DEF Tasks, Carries, Deleting, Silence, PlacesOK
<1>3. ASSUME Carries PROVE memory.withdrawal = "none" /\ jpc # "local"
  BY <1>1, <1>3 DEF Silence, SilentOK, Resending, Carries, Inv, TailOK
<1> QED BY <1>2, <1>3 DEF Carries, Automatic

(* What the rows become when a call ends well. *)
LEMMA JobRows ==
  ASSUME Inv, Silence, calls # <<>>, NEW c, c = Head(calls), c.op \in JobOps,
         Admitted(c, memory), Changes(c, memory), NEW t, t = Result(c, memory)
  PROVE  \A id \in Pending(t) : IF id \in Pending(memory) THEN t.rows[id] = memory.rows[id]
                                 ELSE t.rows[id].code = "none"
<1>1. c \in Calling /\ CallOK(c) /\ (c.op = "scan" => c.ids \cap Held(memory) = {}) /\ Good(memory)
  BY OldestCall DEF Inv, GoodOK
<1>2. CASE c.op \in {"put", "scan"}
  <2>1. /\ \A id \in Held(memory) : t.rows[id] = memory.rows[id]
        /\ \A id \in Held(t) \ Held(memory) : t.rows[id].code = "none"
    BY <1>1, <1>2, RecordedRows
  <2> QED BY <2>1 DEF Pending
<1>3. CASE c.op = "reopen"
  <2>1. /\ Held(t) = Held(memory)
        /\ \A id \in Held(memory) :
              \/ t.rows[id] = memory.rows[id]
              \/ memory.rows[id].state = "rejected" /\ t.rows[id].state = "pending" /\ t.rows[id].code = "none"
    BY <1>1, <1>3, ReopenedRows
  <2> QED BY <2>1 DEF Pending
<1>4. CASE c.op = "clearWithdrawal"
  <2>1. t.rows = memory.rows
    BY <1>1, <1>4, WithdrawnRows
  <2> QED BY <2>1 DEF Pending, Held
<1> QED BY <1>2, <1>3, <1>4 DEF JobOps

(* A write that begins settles no less. *)
LEMMA NextSettles ==
  ASSUME Inv, Silence, Knowing, calls # <<>>, NEW c, c = Head(calls),
         Admitted(c, memory), Changes(c, memory)
  PROVE  Settles(Result(c, memory))
<1>1. /\ c \in Calling /\ Good(memory) /\ Settles(memory)
      /\ c.by # "sender" => c.op \in JobOps \cup {"withdrawLocal"}
      /\ c.by = "sender" => Expected(c)
  BY OldestCall DEF Inv, GoodOK, CallOK, Knowing, SettledOK, ExpectedOK
<1>2. PICK t : t = Result(c, memory)
  OBVIOUS
<1>3. CASE c.op \in {"withdrawLocal", "markWithdrawal", "clearWithdrawal"}
  <2>1. IF c.op = "withdrawLocal" THEN Held(t) = {} ELSE t.rows = memory.rows
    BY <1>1, <1>2, <1>3, WithdrawnRows
  <2>2. c.op = "clearWithdrawal" => t.withdrawal = "none"
    BY <1>1, <1>2, Withdrawing
  <2>3. c.op = "markWithdrawal" => memory.withdrawal # "none"
    BY <1>1, <1>2, Withdrawing
  <2> QED BY <1>1, <1>2, <1>3, <2>1, <2>2, <2>3 DEF Settles, Pending, Held
<1>4. CASE c.op \notin {"withdrawLocal", "markWithdrawal", "clearWithdrawal"}
  <2>1. t.withdrawal = memory.withdrawal
    BY <1>1, <1>2, <1>4, Withdrawing
  <2>2. CASE c.op \in JobOps
    <3>1. \A id \in Pending(t) : IF id \in Pending(memory) THEN t.rows[id] = memory.rows[id]
                                 ELSE t.rows[id].code = "none"
      BY <1>2, <2>2, JobRows
    <3> QED BY <1>1, <1>2, <2>1, <3>1 DEF Settles, Unknown
  <2>3. CASE c.op \notin JobOps
    <3>1. c.by = "sender" /\ Expected(c) /\ c.op # "markWithdrawal"
      BY <1>1, <1>4, <2>3
    <3>2. memory.withdrawal = "none"
      BY <3>1, Carrying DEF Expected
    <3> QED BY <1>2, <2>1, <3>2 DEF Settles
  <2> QED BY <2>2, <2>3
<1> QED BY <1>3, <1>4

(* Of the batch, what is unknown is what was so before. *)
LEMMA OpenLost ==
  ASSUME Inv, Silence, Knowing, Open
  PROVE  \A id \in run.batch :
           /\ id \in Pending(memory) /\ (Lost(id) <=> Prior(id) = Unknown) /\ Prior(id) \in Markers
           /\ memory.rows[id].code = Unknown => Lost(id)
           /\ ~reporter.failed /\ Lost(id) => memory.rows[id].code = Unknown
           /\ Automatic => Prior(id) = Intent
<1> TAKE id \in run.batch
<1>1. id \in Pending(memory) /\ AsBefore(id) /\ run.previous \in Uncertain
  BY TaskUnderWay DEF Knowing, OpenOK
<1>2. Prior(id) \in Markers /\ (id \notin DOMAIN run.previous => Prior(id) = Intent)
  BY <1>1 DEF Prior, Uncertain, Markers
<1>3. Lost(id) <=> Prior(id) = Unknown
  BY <1>1, <1>2 DEF Lost, AsBefore, Intent, Unknown
<1>4. /\ memory.rows[id].code = Unknown => Lost(id)
      /\ ~reporter.failed /\ Lost(id) => memory.rows[id].code = Unknown
  BY <1>1 DEF Knowing, AgreesOK, Holds, Open
<1>5. Automatic => Prior(id) = Intent
  BY <1>2 DEF Knowing, OpenOK, Open
<1> QED BY <1>1, <1>2, <1>3, <1>4, <1>5

(* A call of the sender ends well. *)
LEMMA SenderServed ==
  ASSUME Inv, Silence, Knowing, calls # <<>>, NEW c, c = Head(calls), c.by = "sender",
         Admitted(c, memory), Changes(c, memory), memory' = Result(c, memory),
         Conclude("ok"), UNCHANGED <<run, jpc, reporter, tail>>
  PROVE  OpenOK' /\ CodedOK' /\ HeldOK' /\ AgreesOK' /\ ListedOK'
<1>1. /\ c \in Calling /\ Good(memory) /\ Expected(c) /\ run.pc # "idle"
      /\ answer'["sender"] = "ok" /\ answer["sender"] = "none" /\ answer'["job"] = answer["job"]
  <2>1. c \in Calling /\ (\E k \in DOMAIN calls : c = calls[k]) /\ Good(memory)
    BY OldestCall DEF Inv, GoodOK
  <2>2. Expected(c)
    BY <2>1 DEF Knowing, ExpectedOK
  <2>3. answer["sender"] = "none"
    BY <2>1 DEF Inv, SenderOK, Waiting, No
  <2>4. answer'["sender"] = "ok" /\ answer'["job"] = answer["job"]
    BY DEF Conclude, Inv, TypesOK
  <2> QED BY <2>1, <2>2, <2>3, <2>4 DEF Expected
<1>2. PICK t : t = Result(c, memory)
  OBVIOUS
<1>3. memory' = t
  BY <1>2
<1>4. run.pc # "mark" => /\ Carries /\ c.ids = run.batch /\ ~Applied
                         /\ run.pc # "hold" => Open
  BY <1>1 DEF Expected, Applied, Open
<1>5. c.op \in BatchOps =>
        /\ Held(t) = Held(memory) /\ c.ids \subseteq Held(memory)
        /\ \A id \in Held(memory) \ c.ids : t.rows[id] = memory.rows[id]
        /\ \A id \in c.ids : /\ t.rows[id].state = StateAfter(c, id, memory.rows[id])
                             /\ t.rows[id].code = CodeAfter(c, id, memory.rows[id])
  BY <1>1, <1>2, BatchRows
<1>6. CASE run.pc = "mark"
  <2>1. c.op = "markWithdrawal"
    BY <1>1, <1>6 DEF Expected
  <2>2. t.rows = memory.rows
    BY <1>1, <1>2, <2>1, WithdrawnRows
  <2>3. Pending(t) = Pending(memory)
    BY <2>2 DEF Pending, Held
  <2>4. OpenOK' /\ CodedOK' /\ HeldOK' /\ AgreesOK' /\ ListedOK'
    BY <1>1, <1>3, <1>6, <2>2, <2>3 DEF Knowing, OpenOK, CodedOK, HeldOK, AgreesOK, ListedOK, Open, Applied,
       Carries, Automatic, AsBefore, Prior, Coded, Sent, Lost, Holds, Erasing
  <2> QED BY <2>4
<1>7. ASSUME run.pc # "mark",
             \A id \in run.batch : id \in Pending(memory) /\ (run.pc # "apply" => t.rows[id].state = "pending"),
             \A id \in run.batch : run.pc # "apply" => (t.rows[id].code = Unknown <=> Lost(id)),
             \A id \in run.batch : run.pc = "intent" => t.rows[id].code = Prior(id),
             \A id \in run.batch : run.pc = "apply" => t.rows[id].state # "pending",
             c.op \in BatchOps
      PROVE  OpenOK' /\ CodedOK' /\ HeldOK' /\ AgreesOK' /\ ListedOK'
  <2>1. \A id \in Pending(memory) \ run.batch : id \in Pending(t) /\ t.rows[id] = memory.rows[id]
    BY <1>4, <1>5, <1>7 DEF Pending
  <2>2. \A id \in Pending(t) \ run.batch : id \in Pending(memory)
    BY <1>4, <1>5, <1>7 DEF Pending
  <2>3. run.pc # "apply" => \A id \in run.batch : id \in Pending(t)
    BY <1>5, <1>7 DEF Pending
  <2>4. run.pc = "apply" => \A id \in run.batch : id \notin Pending(t)
    BY <1>7 DEF Pending
  <2>5. Carries /\ Carries' /\ (Applied' <=> run.pc = "apply")
    BY <1>1, <1>4, <1>7 DEF Carries, Applied
  <2>6. OpenOK'
    BY <1>3, <1>4, <1>7, <2>3, <2>5 DEF Knowing, OpenOK, Open, AsBefore, Prior, Automatic
  <2>7. CodedOK'
    BY <1>1, <1>3, <1>7, <2>3 DEF CodedOK, Coded, Sent, Prior, Expected
  <2>8. HeldOK'
    BY <1>3, <1>7, <2>3 DEF Knowing, HeldOK, Lost, Carries
  <2>9. AgreesOK'
    <3>1. ASSUME NEW id \in Pending(t)
          PROVE  /\ t.rows[id].code = Unknown => Lost(id)
                 /\ Lost(id) /\ ~reporter.failed /\ ~Holds(id) => t.rows[id].code = Unknown
      BY <1>7, <2>1, <2>2, <2>4 DEF Knowing, AgreesOK
    <3> QED BY <1>3, <3>1 DEF AgreesOK, Lost, Holds, Carries
  <2>10. ListedOK'
    <3>1. Erasing \/ DOMAIN reporter.unconfirmed \subseteq Pending(memory)
      BY <1>4, <1>7 DEF Knowing, ListedOK
    <3>2. Pending(memory) \subseteq Pending(t) \cup (IF run.pc = "apply" THEN run.batch ELSE {})
      BY <2>1, <2>3
    <3>3. Erasing' <=> Erasing
      BY <1>1 DEF Erasing
    <3>4. DOMAIN reporter'.unconfirmed = DOMAIN reporter.unconfirmed /\ Pending(memory') = Pending(t)
      BY <1>3
    <3>5. run' = run
      OBVIOUS
    <3> QED BY <2>5, <3>1, <3>2, <3>3, <3>4, <3>5 DEF ListedOK
  <2> QED BY <2>6, <2>7, <2>8, <2>9, <2>10
<1>8. CASE run.pc = "hold"
  <2>1. c.op = "attempts" /\ c.code = Unknown /\ c.ids = run.batch
    BY <1>1, <1>8 DEF Expected
  <2>2. \A id \in run.batch : id \in Pending(memory) /\ Lost(id)
    BY <1>4, <1>8 DEF Knowing, HeldOK
  <2>3. c.op \in BatchOps /\ \A id \in run.batch : t.rows[id].state = "pending" /\ t.rows[id].code = Unknown
    BY <1>5, <2>1, <2>2 DEF BatchOps, StateAfter, CodeAfter, Pending
  <2> QED BY <1>7, <1>8, <2>2, <2>3
<1>9. CASE run.pc \notin {"hold", "mark"}
  <2>1. \A id \in run.batch :
           /\ id \in Pending(memory) /\ (Lost(id) <=> Prior(id) = Unknown) /\ Prior(id) \in Markers
           /\ memory.rows[id].code = Unknown => Lost(id)
           /\ ~reporter.failed /\ Lost(id) => memory.rows[id].code = Unknown
           /\ Automatic => Prior(id) = Intent
    BY <1>4, <1>9, OpenLost
  <2>2. c.op \in BatchOps /\ (Automatic \/ ~reporter.failed)
    BY <1>1, <1>4, <1>9 DEF Expected, BatchOps, Knowing, OpenOK
  <2>3. CASE run.pc \in {"intent", "undo"}
    <3>1. \A id \in run.batch : t.rows[id].state = "pending"
      BY <1>1, <1>4, <1>5, <1>9, <2>1, <2>2, <2>3 DEF Expected, StateAfter, Pending
    <3>2. \A id \in run.batch : t.rows[id].code = Unknown <=> Lost(id)
      BY <1>1, <1>4, <1>5, <1>9, <2>1, <2>2, <2>3 DEF Expected, CodeAfter, Intent, Unknown
    <3>3. run.pc = "intent" => \A id \in run.batch : t.rows[id].code = Prior(id)
      BY <1>1, <1>4, <1>5, <1>9, <2>1, <2>2, <2>3 DEF Expected, CodeAfter, Intent, Unknown, Markers
    <3> QED BY <1>7, <1>9, <2>1, <2>2, <2>3, <3>1, <3>2, <3>3
  <2>4. CASE run.pc = "fail"
    <3>1. \A id \in run.batch : t.rows[id].state = "pending"
      BY <1>1, <1>4, <1>5, <1>9, <2>1, <2>2, <2>4 DEF Expected, StateAfter, Pending
    <3>2. \A id \in run.batch : t.rows[id].code = Unknown <=> Lost(id)
      BY <1>1, <1>4, <1>5, <1>9, <2>1, <2>2, <2>4 DEF Expected, CodeAfter, Intent, Unknown, Prior
    <3> QED BY <1>7, <1>9, <2>1, <2>2, <2>4, <3>1, <3>2
  <2>5. CASE run.pc = "apply"
    <3>1. \A id \in run.batch : t.rows[id].state # "pending"
      BY <1>1, <1>4, <1>5, <1>9, <2>1, <2>2, <2>5 DEF Expected, StateAfter
    <3> QED BY <1>7, <1>9, <2>1, <2>2, <2>5, <3>1
  <2> QED BY <1>1, <1>9, <2>3, <2>4, <2>5 DEF Expected
<1> QED BY <1>6, <1>8, <1>9

(* A call of a job, or of a scan, ends well, in a turn of its own. *)
LEMMA OthersServed ==
  ASSUME Inv, Silence, Knowing, calls # <<>>, NEW c, c = Head(calls), c.by # "sender",
         Admitted(c, memory), Changes(c, memory), memory' = Result(c, memory),
         answer = [b \in DOMAIN answer |-> "none"], Conclude("ok"), UNCHANGED <<run, jpc, reporter, tail>>
  PROVE  OpenOK' /\ CodedOK' /\ HeldOK' /\ AgreesOK' /\ ListedOK'
<1>1. /\ c \in Calling /\ CallOK(c) /\ Good(memory) /\ (c.op = "scan" => c.ids \cap Held(memory) = {})
      /\ c.op = "withdrawLocal" => jpc = "local" /\ c.by = "job"
      /\ answer'["sender"] = "none" /\ answer["sender"] = "none" /\ answer["job"] = "none"
      /\ c.by = "job" => answer'["job"] = "ok"
  <2>1. answer \in [{"job", "sender"} -> Outcomes]
    BY DEF Inv, TypesOK
  <2>2. answer["sender"] = "none" /\ answer["job"] = "none"
    BY <2>1
  <2>3. answer'["sender"] = "none" /\ (c.by = "job" => answer'["job"] = "ok")
    BY <2>1, <2>2 DEF Conclude
  <2> QED BY <2>2, <2>3, OldestCall DEF Inv, GoodOK
<1>2. PICK t : t = Result(c, memory)
  OBVIOUS
<1>3. memory' = t /\ DOMAIN reporter.unconfirmed \subseteq Pending(memory)
  BY <1>1, <1>2 DEF Knowing, ListedOK, Erasing, Applied
<1>4. CASE c.op = "withdrawLocal"
  <2>1. run.pc # "idle" => ~Carries
    BY <1>1, <1>4, Carrying
  <2>2. Pending(t) = {}
    BY <1>1, <1>2, <1>4, WithdrawnRows DEF Pending
  <2>3. OpenOK' /\ CodedOK' /\ HeldOK'
    BY <2>1 DEF OpenOK, CodedOK, HeldOK, Open, Coded, Sent, Carries
  <2>4. AgreesOK' /\ ListedOK'
    BY <1>1, <1>3, <1>4, <2>2 DEF AgreesOK, ListedOK, Erasing
  <2> QED BY <2>3, <2>4
<1>5. CASE c.op \in JobOps
  <2>1. \A id \in Pending(memory) : id \in Pending(t) /\ t.rows[id] = memory.rows[id]
    BY <1>1, <1>2, <1>5, CallResult DEF Shown, Effects, Pending
  <2>2. \A id \in Pending(t) \ Pending(memory) : t.rows[id].code = "none"
    BY <1>2, <1>5, JobRows
  <2>3. OpenOK' /\ CodedOK' /\ HeldOK'
    BY <1>1, <1>3, <2>1 DEF Knowing, OpenOK, CodedOK, HeldOK, Open, Applied, Carries, Automatic, AsBefore, Prior,
       Coded, Sent, Lost
  <2>4. ASSUME NEW id \in Pending(t)
        PROVE  /\ t.rows[id].code = Unknown => Lost(id)
               /\ Lost(id) /\ ~reporter.failed /\ ~Holds(id) => t.rows[id].code = Unknown
    BY <1>3, <2>1, <2>2 DEF Knowing, AgreesOK, Lost, Unknown
  <2>5. AgreesOK'
    BY <1>3, <2>4 DEF AgreesOK, Lost, Holds, Carries
  <2>6. ListedOK'
    BY <1>3, <2>1 DEF ListedOK
  <2> QED BY <2>3, <2>5, <2>6
<1> QED BY <1>1, <1>4, <1>5 DEF CallOK

(* A call ends and leaves the buffer as it was. *)
LEMMA NothingServed ==
  ASSUME Inv, Silence, Knowing, calls # <<>>, NEW c, c = Head(calls), memory' = memory,
         NEW outcome \in {"ok", "invalid", "failed"}, Conclude(outcome),
         outcome = "ok" => ~Changes(c, memory), UNCHANGED <<run, jpc, reporter, tail>>
  PROVE  OpenOK' /\ CodedOK' /\ HeldOK' /\ AgreesOK' /\ ListedOK'
<1>1. /\ c \in Calling /\ (\E k \in DOMAIN calls : c = calls[k]) /\ (c.by = "job" => answer["job"] = "none")
  BY OldestCall
<1>2. c.by = "sender" => answer["sender"] = "none" /\ outcome # "ok" /\ answer'["sender"] # "ok"
  <2>1. ASSUME c.by = "sender" PROVE Changes(c, memory)
    BY <1>1, <2>1 DEF Knowing, ExpectedOK, Expected, Changes
  <2> QED BY <1>1, <2>1 DEF Conclude, Inv, TypesOK, SenderOK, Waiting, No
<1>3. c.by # "sender" => answer'["sender"] = answer["sender"]
  BY <1>1 DEF Conclude, Inv, TypesOK, Calling
<1>4. Erasing => Erasing'
  BY <1>1 DEF Erasing, Conclude, Inv, TypesOK, Calling
<1>5. answer'["sender"] = "ok" <=> answer["sender"] = "ok"
  BY <1>2, <1>3
<1>6. (Applied' <=> Applied) /\ (Coded' <=> Coded)
  BY <1>5 DEF Applied, Coded, Sent
<1>7. OpenOK' /\ CodedOK' /\ HeldOK' /\ AgreesOK'
  BY <1>5, <1>6 DEF Knowing, OpenOK, CodedOK, HeldOK, AgreesOK, Open, Carries, Automatic, AsBefore, Prior, Lost, Holds
<1>8. ListedOK'
  BY <1>4, <1>6 DEF Knowing, ListedOK, Carries
<1> QED BY <1>7, <1>8

LEMMA StoreKnows ==
  ASSUME Inv, Silence, Knowing, StoreStep
  PROVE  Knowing'
<1> DEFINE c == Head(calls)
<1>1. ASSUME calls # <<>>, NEW outcome, Conclude(outcome), UNCHANGED <<run, tail>> PROVE ExpectedOK'
  <2>1. \A i \in DOMAIN calls' : \E k \in DOMAIN calls : calls'[i] = calls[k]
    BY <1>1, Entries DEF Conclude, Inv, TypesOK
  <2> QED BY <1>1, <2>1 DEF Knowing, ExpectedOK, Expected, Carries, Automatic
<1>2. CASE StoreRun
  <2>1. calls # <<>> /\ UNCHANGED <<memory, disk, reporter, tail, run, jpc>>
    BY <1>2 DEF StoreRun, strands
  <2>2. CASE /\ Admitted(c, memory) /\ Changes(c, memory) /\ next' = Result(c, memory) /\ UNCHANGED <<calls, answer>>
    <3>1. Settles(next')
      BY <2>1, <2>2, NextSettles
    <3>2. OpenOK' /\ CodedOK' /\ HeldOK' /\ AgreesOK' /\ ListedOK' /\ ExpectedOK'
      BY <2>1, <2>2 DEF Knowing, OpenOK, CodedOK, HeldOK, AgreesOK, ListedOK, ExpectedOK, Expected, Open, Applied, Coded,
         Sent, Erasing, Carries, Automatic, AsBefore, Prior, Lost, Holds
    <3>3. SettledOK'
      BY <2>1, <3>1 DEF Knowing, SettledOK
    <3> QED BY <3>2, <3>3 DEF Knowing
  <2>3. CASE /\ ~(Admitted(c, memory) /\ Changes(c, memory))
             /\ Conclude(IF Admitted(c, memory) THEN "ok" ELSE "invalid") /\ UNCHANGED <<phase, next>>
    <3> DEFINE outcome == IF Admitted(c, memory) THEN "ok" ELSE "invalid"
    <3>1. Conclude(outcome) /\ outcome \in {"ok", "invalid", "failed"} /\ (outcome = "ok" => ~Changes(c, memory))
      BY <2>3
    <3> HIDE DEF outcome
    <3>2. OpenOK' /\ CodedOK' /\ HeldOK' /\ AgreesOK' /\ ListedOK' /\ ExpectedOK'
      BY <1>1, <2>1, <3>1, NothingServed
    <3>3. SettledOK'
      BY <2>1, <2>3 DEF Knowing, SettledOK
    <3> QED BY <3>2, <3>3 DEF Knowing
  <2> QED BY <1>2, <2>2, <2>3 DEF StoreRun
<1>3. CASE StorePublish
  <2>1. disk' = next /\ UNCHANGED <<memory, next, calls, answer, reporter, tail, run, jpc>>
    BY <1>3 DEF StorePublish, strands
  <2>2. OpenOK' /\ CodedOK' /\ HeldOK' /\ AgreesOK' /\ ListedOK' /\ ExpectedOK'
    BY <2>1 DEF Knowing, OpenOK, CodedOK, HeldOK, AgreesOK, ListedOK, ExpectedOK, Expected, Open, Applied, Coded,
       Sent, Erasing, Carries, Automatic, AsBefore, Prior, Lost, Holds
  <2>3. SettledOK'
    BY <2>1 DEF Knowing, SettledOK
  <2> QED BY <2>2, <2>3 DEF Knowing
<1>4. CASE StoreResolve
  <2>1. /\ phase = "written" /\ memory' = next /\ Conclude("ok")
        /\ UNCHANGED <<disk, next, reporter, tail, run, jpc>> /\ \A b \in DOMAIN answer : answer[b] = "none"
    BY <1>4 DEF StoreResolve, strands, NewTurn
  <2>2. calls # <<>> /\ Admitted(c, memory) /\ Changes(c, memory) /\ next = Result(c, memory)
    BY <2>1 DEF Inv, WriteOK, Silence, StoredOK
  <2>3. answer = [b \in DOMAIN answer |-> "none"]
    BY <2>1 DEF Inv, TypesOK
  <2>4. OpenOK' /\ CodedOK' /\ HeldOK' /\ AgreesOK' /\ ListedOK'
    BY <2>1, <2>2, <2>3, SenderServed, OthersServed
  <2>5. ExpectedOK' /\ SettledOK'
    BY <1>1, <2>1, <2>2 DEF Knowing, SettledOK
  <2> QED BY <2>4, <2>5 DEF Knowing
<1>5. CASE StoreReject
  <2>1. /\ phase = "writing" /\ Conclude("failed") /\ next' = memory
        /\ UNCHANGED <<memory, disk, reporter, tail, run, jpc>>
    BY <1>5 DEF StoreReject, strands, Spend
  <2>2. calls # <<>>
    BY <2>1 DEF Inv, WriteOK
  <2>3. OpenOK' /\ CodedOK' /\ HeldOK' /\ AgreesOK' /\ ListedOK' /\ ExpectedOK'
    BY <1>1, <2>1, <2>2, NothingServed
  <2>4. SettledOK'
    BY <2>1 DEF Knowing, SettledOK
  <2> QED BY <2>3, <2>4 DEF Knowing
<1> QED BY <1>2, <1>3, <1>4, <1>5 DEF StoreStep

----------------------------------------------------------------------------
(* The timer, the jobs, the person, Core, and a crash *)

(* The sender's task stays where it is: outcomes may only be looked up again in
   the buffer. *)
LEMMA KnownStill ==
  ASSUME Inv, Silence, Knowing, UNCHANGED <<storage, run>>, answer'["sender"] = answer["sender"],
         run.pc # "idle" => tail' # <<>> /\ Head(tail') = Head(tail),
         reporter'.failed = reporter.failed, Erasing => Erasing',
         DOMAIN reporter'.unconfirmed \subseteq DOMAIN reporter.unconfirmed,
         \A id \in Pending(memory) \cap DOMAIN reporter.unconfirmed :
           id \in DOMAIN reporter'.unconfirmed /\ reporter'.unconfirmed[id] = reporter.unconfirmed[id],
         \A i \in DOMAIN calls' : calls'[i].by = "sender" => \E k \in DOMAIN calls : calls'[i] = calls[k]
  PROVE  Knowing'
<1>1. memory' = memory /\ SettledOK'
  BY DEF storage, Knowing, SettledOK
<1>2. run.pc # "idle" => (Carries' <=> Carries) /\ (Automatic' <=> Automatic)
  BY DEF Carries, Automatic, Inv, TailOK
<1>3. \A id \in Pending(memory) : (Lost(id)' <=> Lost(id)) /\ (AsBefore(id) => AsBefore(id)')
  BY DEF Lost, AsBefore, Prior
<1>4. ExpectedOK'
  <2>1. ASSUME NEW c, Expected(c) PROVE Expected(c)'
    BY <1>2, <2>1 DEF Expected
  <2> QED BY <2>1 DEF Knowing, ExpectedOK
<1>5. (Applied' <=> Applied) /\ (Coded' <=> Coded) /\ (Open' <=> Open)
  BY <1>2 DEF Applied, Coded, Sent, Open
<1>6. OpenOK' /\ CodedOK' /\ HeldOK'
  BY <1>1, <1>2, <1>3, <1>5 DEF Knowing, OpenOK, CodedOK, HeldOK, Prior, Open, Coded, Sent
<1>7. AgreesOK'
  BY <1>1, <1>2, <1>3 DEF Knowing, AgreesOK, Holds
<1>8. ListedOK'
  BY <1>1, <1>2, <1>5 DEF Knowing, ListedOK, Applied
<1> QED BY <1>1, <1>4, <1>6, <1>7, <1>8 DEF Knowing

(* No task is under way. *)
LEMMA KnownIdle ==
  ASSUME Inv', SettledOK', run'.pc = "idle", AgreesOK',
         Erasing' \/ DOMAIN reporter'.unconfirmed \subseteq Pending(memory')
  PROVE  Knowing'
<1>1. ExpectedOK'
  BY DEF ExpectedOK, Inv, SenderOK, Waiting, No, SenderWaits
<1>2. OpenOK' /\ CodedOK' /\ HeldOK'
  BY DEF OpenOK, CodedOK, HeldOK, Open, Coded, Sent
<1>3. ListedOK'
  BY DEF ListedOK
<1> QED BY <1>1, <1>2, <1>3 DEF Knowing

LEMMA RecoveredLost ==
  ASSUME NEW s
  PROVE  /\ DOMAIN Recovered(s) \subseteq Pending(s)
         /\ \A id \in Pending(s) : s.rows[id].code = Unknown <=>
              id \in DOMAIN Recovered(s) /\ Recovered(s)[id] = Unknown
BY DEF Recovered, Markers

LEMMA CrashKnows ==
  ASSUME Inv, Silence, Knowing, Inv', Crash
  PROVE  Knowing'
<1>1. /\ memory' = disk /\ next' = disk /\ disk' = disk /\ run' = NoRun /\ reporter' = FreshReporter(disk)
  BY DEF Crash
<1>2. reporter'.unconfirmed = Recovered(disk) /\ run'.pc = "idle"
  BY <1>1, NoRunTriesNothing DEF FreshReporter
<1>3. SettledOK'
  BY <1>1 DEF Knowing, SettledOK
<1>4. AgreesOK' /\ DOMAIN reporter'.unconfirmed \subseteq Pending(memory')
  BY <1>1, <1>2, RecoveredLost DEF AgreesOK, Lost
<1> QED BY <1>2, <1>3, <1>4, KnownIdle

(* What a look at the buffer leaves unknown. *)
LEMMA PrunedKnows ==
  ASSUME Inv
  PROVE  /\ Pruned \in Reporting /\ Pruned.failed = reporter.failed
         /\ DOMAIN Pruned.unconfirmed = DOMAIN reporter.unconfirmed \cap Pending(memory)
         /\ \A id \in DOMAIN Pruned.unconfirmed : Pruned.unconfirmed[id] = reporter.unconfirmed[id]
<1> DEFINE m == [id \in DOMAIN reporter.unconfirmed \cap Pending(memory) |-> reporter.unconfirmed[id]]
<1>1. Pruned = [reporter EXCEPT !.unconfirmed = m] /\ DOMAIN m = DOMAIN reporter.unconfirmed \cap Pending(memory)
      /\ \A id \in DOMAIN m : m[id] = reporter.unconfirmed[id]
  BY DEF Pruned
<1> HIDE DEF m
<1>2. Pruned.unconfirmed = m /\ Pruned.failed = reporter.failed
  BY <1>1 DEF Inv, TypesOK, Reporting
<1>3. Pruned \in Reporting
  BY TaskUnderWay, PrunedTyped
<1>4. /\ DOMAIN Pruned.unconfirmed = DOMAIN reporter.unconfirmed \cap Pending(memory)
      /\ \A id \in DOMAIN Pruned.unconfirmed : Pruned.unconfirmed[id] = reporter.unconfirmed[id]
  BY <1>1, <1>2
<1> QED BY <1>2, <1>3, <1>4

LEMMA SameFailed ==
  ASSUME NEW r \in Reporting
  PROVE  /\ Stopped(r).failed = r.failed /\ Armed(r).failed = r.failed /\ Started(r).failed = r.failed
         /\ \A b \in BOOLEAN : /\ [r EXCEPT !.failed = b].failed = b
                               /\ [r EXCEPT !.settings = b].failed = r.failed
         /\ \A b : [r EXCEPT !.timer = b].failed = r.failed
<1>1. Stopped(r).failed = r.failed /\ Armed(r).failed = r.failed
  BY DEF Stopped, Armed, Reporting
<1>2. Started(r).failed = r.failed
  <2>1. [r EXCEPT !.active = TRUE].failed = r.failed /\ [r EXCEPT !.active = TRUE] \in Reporting
    BY DEF Reporting
  <2>2. Armed([r EXCEPT !.active = TRUE]).failed = r.failed
    BY <2>1 DEF Armed, Reporting
  <2> QED BY <2>1, <2>2 DEF Started
<1> QED BY <1>1, <1>2 DEF Reporting

LEMMA OutsideKnows ==
  ASSUME Inv, Silence, Knowing, UNCHANGED <<storage, answer, run, jpc>>,
         reporter' \in {reporter, Stopped(reporter), [reporter EXCEPT !.timer = "none"]},
         tail' = tail \/ \E task \in Tasks : tail' = Append(tail, task),
         calls' = calls \/ \E c \in Calling : c.by # "sender" /\ calls' = Append(calls, c)
  PROVE  Knowing'
<1>1. reporter \in Reporting /\ tail \in Seq(Tasks) /\ calls \in Seq(Calling) /\ (run.pc # "idle" => tail # <<>>)
  BY DEF Inv, TypesOK, TailOK
<1>2. reporter'.unconfirmed = reporter.unconfirmed /\ reporter'.failed = reporter.failed
  <2>1. /\ Stopped(reporter).unconfirmed = reporter.unconfirmed /\ Stopped(reporter).failed = reporter.failed
        /\ [reporter EXCEPT !.timer = "none"].unconfirmed = reporter.unconfirmed
        /\ [reporter EXCEPT !.timer = "none"].failed = reporter.failed
    BY <1>1 DEF Stopped, Reporting
  <2> QED BY <2>1
<1>3. run.pc # "idle" => tail' # <<>> /\ Head(tail') = Head(tail)
  <2>1. \A task \in Tasks : Append(tail, task) # <<>> /\ (tail # <<>> => Head(Append(tail, task)) = Head(tail))
    BY <1>1, Appended
  <2> QED BY <1>1, <2>1
<1>4. \A i \in DOMAIN calls' : calls'[i].by = "sender" => \E k \in DOMAIN calls : calls'[i] = calls[k]
  <2>1. CASE calls' = calls
    BY <2>1
  <2>2. ASSUME NEW c \in Calling, c.by # "sender", calls' = Append(calls, c)
        PROVE  \A i \in DOMAIN calls' : calls'[i].by = "sender" => \E k \in DOMAIN calls : calls'[i] = calls[k]
    <3>1. \A i \in DOMAIN Append(calls, c) :
            Append(calls, c)[i] = c \/ \E k \in DOMAIN calls : Append(calls, c)[i] = calls[k]
      BY <1>1, Entries
    <3> QED BY ONLY <2>2, <3>1
  <2> QED BY <2>1, <2>2
<1>5. Erasing' <=> Erasing
  BY DEF Erasing
<1> QED BY <1>2, <1>3, <1>4, <1>5, KnownStill

LEMMA TimerKnows ==
  ASSUME Inv, Silence, Knowing, TimerFires
  PROVE  Knowing'
<1>1. Task(reporter.timer, "timer", {}) \in Tasks
  BY DEF TimerFires, Inv, TypesOK, Reporting, Task, Tasks
<1> QED BY <1>1, OutsideKnows DEF TimerFires, outside, store

LEMMA BackgroundScanKnows ==
  ASSUME Inv, Silence, Knowing, BackgroundScan
  PROVE  Knowing'
<1> DEFINE c == Call("scan", "scan", NewEvents)
<1>1. c \in Calling /\ c.by = "scan"
  BY CallTyped, NewEventsAreEvents DEF BufferOps
<1>2. calls' = Append(calls, c) /\ UNCHANGED <<storage, answer, run, jpc, reporter, tail>>
  BY DEF BackgroundScan, Ask, outside, strands
<1> HIDE DEF c
<1> QED BY <1>1, <1>2, OutsideKnows

(* A deletion is asked for: the rows are erased, or no outcome is unknown. *)
LEMMA DeletionKnows ==
  ASSUME Inv, Silence, Knowing, Inv', RequestDeletion, UNCHANGED <<storage, calls>>,
         memory.withdrawal # "none"
  PROVE  Knowing'
<1>1. memory' = memory /\ run' = run /\ SettledOK'
  BY DEF RequestDeletion, storage, Knowing, SettledOK
<1>2. reporter'.unconfirmed = NoMarkers /\ DOMAIN reporter'.unconfirmed = {}
  <2>1. PICK m : m = NoMarkers
    OBVIOUS
  <2>2. reporter' = [reporter EXCEPT !.unconfirmed = m, !.failed = FALSE]
    BY <2>1 DEF RequestDeletion
  <2> QED BY <2>1, <2>2, NoMarkersTyped DEF Inv, TypesOK, Reporting
<1>3. AgreesOK'
  BY <1>1, <1>2 DEF AgreesOK, Lost, Knowing, SettledOK, Settles
<1>4. CASE run.pc = "idle"
  BY <1>1, <1>2, <1>3, <1>4, KnownIdle
<1>5. CASE run.pc # "idle"
  <2>1. ~Carries /\ tail # <<>> /\ tail \in Seq(Tasks)
    BY <1>5, Carrying DEF Inv, TypesOK, TailOK
  <2>2. tail' = Append(tail, Task("withdrawal", "job", {})) /\ Task("withdrawal", "job", {}) \in Tasks
    BY DEF RequestDeletion, Task, Tasks
  <2>3. Head(tail') = Head(tail)
    BY <2>1, <2>2, Appended
  <2>4. ~Carries'
    BY <2>1, <2>3 DEF Carries
  <2>5. ExpectedOK'
    BY <1>1, <2>1, <2>4 DEF Knowing, ExpectedOK, Expected
  <2>6. OpenOK' /\ CodedOK' /\ HeldOK'
    BY <2>4 DEF OpenOK, CodedOK, HeldOK, Open
  <2>7. ListedOK'
    BY <1>2 DEF ListedOK
  <2> QED BY <1>1, <1>3, <2>5, <2>6, <2>7 DEF Knowing
<1> QED BY <1>4, <1>5

LEMMA JobStill ==
  ASSUME Inv, Silence, Knowing, JobGoes, ~Erasing,
         reporter' \in {reporter, Stopped(reporter), Started(Pruned)}
  PROVE  Knowing'
<1>1. /\ reporter \in Reporting /\ tail \in Seq(Tasks) /\ calls \in Seq(Calling) /\ (run.pc # "idle" => tail # <<>>)
      /\ UNCHANGED <<storage, run>> /\ answer' = [answer EXCEPT !["job"] = "none"]
  BY DEF Inv, TypesOK, TailOK, JobGoes, AnswerRead
<1>2. answer'["sender"] = answer["sender"]
  BY <1>1 DEF Inv, TypesOK
<1>3. run.pc # "idle" => tail' # <<>> /\ Head(tail') = Head(tail)
  BY <1>1, Appended DEF JobGoes
<1>4. \A i \in DOMAIN calls' : calls'[i].by = "sender" => \E k \in DOMAIN calls : calls'[i] = calls[k]
  <2>1. UNCHANGED calls \/ \E c \in Calling : c.by = "job" /\ calls' = Append(calls, c)
    BY DEF JobGoes, JobAsks
  <2>2. CASE UNCHANGED calls
    BY <2>2
  <2>3. CASE \E c \in Calling : c.by = "job" /\ calls' = Append(calls, c)
    <3>1. PICK c \in Calling : c.by = "job" /\ calls' = Append(calls, c)
      BY <2>3
    <3> QED BY <1>1, <3>1, Entries
  <2> QED BY <2>1, <2>2, <2>3
<1>5. /\ reporter'.failed = reporter.failed
      /\ DOMAIN reporter'.unconfirmed \subseteq DOMAIN reporter.unconfirmed
      /\ \A id \in Pending(memory) \cap DOMAIN reporter.unconfirmed :
           id \in DOMAIN reporter'.unconfirmed /\ reporter'.unconfirmed[id] = reporter.unconfirmed[id]
  <2>1. CASE reporter' = Started(Pruned)
    BY <2>1, PrunedKnows, StartedKnows, SameFailed
  <2>2. CASE reporter' \in {reporter, Stopped(reporter)}
    BY <1>1, <2>2, SameUnconfirmed, SameFailed
  <2> QED BY <2>1, <2>2
<1> QED BY <1>1, <1>2, <1>3, <1>4, <1>5, KnownStill

LEMMA JobKnows ==
  ASSUME Inv, Silence, Knowing, Inv', JobStep
  PROVE  Knowing'
<1> USE DEF outside, store, Ask, Await, EndJob, NextJob, Hears
<1>1. JobGoes
  BY JobsGo
<1>2. CASE JobWithdraw
  <2>1. jpc = "tail"
    BY <1>2 DEF JobWithdraw
  <2>2. CASE reporter' = reporter
    BY <1>1, <2>1, <2>2, JobStill DEF Erasing
  <2>3. CASE memory.withdrawal \in {"pending", "unconfirmed"} /\ RequestDeletion /\ UNCHANGED store
    BY <2>3, DeletionKnows
  <2> QED BY <1>2, <2>2, <2>3 DEF JobWithdraw
<1>3. CASE JobWithdrawn
  <2>1. CASE Hears("job", {"ok"}) /\ RequestDeletion
    <3>1. memory.withdrawal # "none"
      BY <1>3, <2>1 DEF JobWithdrawn, Takes, Silence, RecordedOK
    <3> QED BY <2>1, <3>1, DeletionKnows
  <2>2. CASE Hears("job", Errors) /\ EndJob /\ UNCHANGED <<reporter, tail, run>>
    <3>1. ~Erasing
      BY <2>2 DEF Erasing, Takes, Errors
    <3> QED BY <1>1, <2>2, <3>1, JobStill
  <2> QED BY <1>3, <2>1, <2>2 DEF JobWithdrawn
<1>4. CASE JobWithheld \/ JobScans \/ JobStarts \/ JobClears \/ JobCleared \/ JobRecords \/ JobRecorded
           \/ JobReopens \/ JobResends
  <2>1. jpc # "local" /\ reporter' \in {reporter, Stopped(reporter), Started(Pruned)}
    BY <1>4 DEF JobWithheld, JobScans, JobStarts, JobClears, JobCleared, JobRecords, JobRecorded, JobReopens,
       JobResends, ScanOver
  <2> QED BY <1>1, <2>1, JobStill DEF Erasing
<1> QED BY <1>2, <1>3, <1>4 DEF JobStep

----------------------------------------------------------------------------
(* The server and the sender *)

(* The server answers: nothing of the batch is known yet. *)
LEMMA ServerKnows ==
  ASSUME Inv, Silence, Knowing, ServerStep
  PROVE  Knowing'
<1>1. /\ UNCHANGED <<store, reporter, tail, jpc>>
      /\ run.pc \in {"post", "delete"} /\ (run.pc = "delete" => Deleting)
      /\ run'.pc = "answered" /\ run'.batch = run.batch /\ run'.previous = run.previous
  <2>1. /\ UNCHANGED <<store, reporter, tail, jpc>> /\ run.pc \in {"post", "delete"}
        /\ (run.pc = "delete" => Deleting) /\ run \in Progress
    BY TaskUnderWay DEF ServerStep, ServerIngests, ServerTroubles, ServerMiscounts, ServerDeletes, Responds,
       Deleting, Inv, TailOK
  <2>2. CASE ServerIngests \/ ServerTroubles \/ ServerMiscounts
    <3>1. PICK response : run' = [run EXCEPT !.pc = "answered", !.response = response]
      BY <2>2 DEF ServerIngests, ServerTroubles, ServerMiscounts, Responds
    <3> QED BY <2>1, <3>1 DEF Progress
  <2>3. CASE ServerDeletes
    <3>1. PICK kind : run' = [run EXCEPT !.pc = "answered", !.response.kind = kind]
      BY <2>3 DEF ServerDeletes
    <3> QED BY <2>1, <3>1 DEF Progress
  <2> QED BY <2>1, <2>2, <2>3 DEF ServerStep
<1>2. UNCHANGED <<memory, disk, next, calls, answer>>
  BY <1>1 DEF store, storage
<1>3. ExpectedOK'
  BY <1>1, <1>2 DEF Knowing, ExpectedOK, Expected
<1>4. Carries' => Carries /\ run.pc = "post"
  BY <1>1 DEF Carries, Deleting
<1>5. OpenOK'
  BY <1>1, <1>2, <1>4 DEF Knowing, OpenOK, Open, Applied, AsBefore, Prior, Automatic
<1>6. CodedOK' /\ HeldOK'
  BY <1>1, <1>2, <1>4 DEF Knowing, CodedOK, HeldOK, Coded, Sent, Prior
<1>7. AgreesOK' /\ ListedOK' /\ SettledOK'
  BY <1>1, <1>2 DEF Knowing, AgreesOK, ListedOK, SettledOK, Lost, Holds, Applied, Erasing
<1> QED BY <1>3, <1>5, <1>6, <1>7 DEF Knowing

\* The rows agree with what r says is unknown.
Agreeing(r) ==
  \A id \in Pending(memory) :
    /\ memory.rows[id].code = Unknown => id \in DOMAIN r.unconfirmed /\ r.unconfirmed[id] = Unknown
    /\ id \in DOMAIN r.unconfirmed /\ r.unconfirmed[id] = Unknown /\ ~r.failed => memory.rows[id].code = Unknown
Listed(r) == DOMAIN r.unconfirmed \subseteq Pending(memory)

LEMMA Agreed ==
  ASSUME Inv, Silence, Knowing
  PROVE  /\ ~Erasing /\ ~(Carries /\ Applied) => Listed(reporter)
         /\ Listed(Pruned)
         /\ (Carries /\ run.pc = "hold" => answer["sender"] = "ok") => Agreeing(reporter) /\ Agreeing(Pruned)
<1>1. ~Erasing /\ ~(Carries /\ Applied) => Listed(reporter)
  BY DEF Knowing, ListedOK, Listed
<1>2. Listed(Pruned)
  BY PrunedKnows DEF Listed
<1>3. ASSUME Carries /\ run.pc = "hold" => answer["sender"] = "ok", NEW id \in Pending(memory)
      PROVE  /\ memory.rows[id].code = Unknown => Lost(id)
             /\ Lost(id) /\ ~reporter.failed => memory.rows[id].code = Unknown
  BY <1>3 DEF Knowing, AgreesOK, HeldOK, Holds
<1>4. ASSUME Carries /\ run.pc = "hold" => answer["sender"] = "ok"
      PROVE  Agreeing(reporter) /\ Agreeing(Pruned)
  BY <1>3, <1>4, PrunedKnows DEF Agreeing, Lost
<1> QED BY <1>1, <1>2, <1>4

LEMMA AgreeingSame ==
  ASSUME NEW r, NEW q, q.unconfirmed = r.unconfirmed, r.failed => q.failed
  PROVE  (Agreeing(r) => Agreeing(q)) /\ (Listed(r) => Listed(q))
BY DEF Agreeing, Listed

(* A write failed: what the rows say of what is unknown may be out of date. *)
LEMMA AgreedFailed ==
  ASSUME Inv, Silence, Knowing, NEW r, r.unconfirmed = reporter.unconfirmed, r.failed
  PROVE  Agreeing(r)
BY DEF Knowing, AgreesOK, Lost, Agreeing

(* The task is over. *)
LEMMA TaskEnds ==
  ASSUME Inv, Silence, Knowing, Inv', SenderGoes \/ SenderLeaves, LeaveTask,
         Agreeing(reporter'), Erasing \/ Listed(reporter')
  PROVE  Knowing'
<1>1. tail # <<>> /\ tail \in Seq(Tasks) /\ tail' = Tail(tail) /\ run' = NoRun
  BY DEF SenderGoes, SenderLeaves, Inv, TypesOK, LeaveTask
<1>2. tail' # tail
  BY <1>1
<1>3. SenderLeaves
  BY <1>2 DEF SenderGoes
<1>4. UNCHANGED <<memory, disk, next>> /\ answer' = [answer EXCEPT !["sender"] = "none"] /\ run'.pc = "idle"
  BY <1>1, <1>3, NoRunTyped DEF SenderLeaves, AnswerRead, storage
<1>5. Erasing => Erasing'
  <2>1. Head(tail) = tail[1] /\ 1 \in DOMAIN tail
    BY <1>1, Dropped
  <2>2. ASSUME Erasing PROVE Head(tail).by # "job"
    BY <2>1, <2>2 DEF Erasing, Inv, TailOK, No
  <2> QED BY <1>4, <2>2 DEF Erasing, LeaveTask, Inv, TypesOK
<1>6. SettledOK' /\ AgreesOK'
  BY <1>4 DEF Knowing, SettledOK, Agreeing, AgreesOK, Lost
<1>7. Erasing' \/ DOMAIN reporter'.unconfirmed \subseteq Pending(memory')
  BY <1>4, <1>5 DEF Listed
<1> QED BY <1>4, <1>6, <1>7, KnownIdle

\* The sender makes no call, or the one that belongs to its place.
AsksRightly == calls' = calls \/ \E c \in Calling : calls' = Append(calls, c) /\ (c.by = "sender" => Expected(c)')

LEMMA ExpectedThen ==
  ASSUME Inv, SenderGoes, AsksRightly
  PROVE  /\ ExpectedOK' /\ UNCHANGED <<memory, disk, next, tail, jpc>>
         /\ answer'["sender"] = "none" /\ answer'["job"] = answer["job"]
<1>1. /\ calls \in Seq(Calling) /\ answer' = [answer EXCEPT !["sender"] = "none"]
      /\ UNCHANGED <<memory, disk, next, tail, jpc>> /\ No(calls, "sender")
  BY DEF Inv, TypesOK, SenderOK, Waiting, SenderGoes, Free, AnswerRead, storage
<1>2. ExpectedOK'
  <2>1. CASE calls' = calls
    BY <1>1, <2>1 DEF ExpectedOK, No
  <2>2. CASE calls' # calls
    <3>1. PICK c \in Calling : calls' = Append(calls, c) /\ (c.by = "sender" => Expected(c)')
      BY <2>2 DEF AsksRightly
    <3>2. \A i \in DOMAIN calls' : calls'[i] = c \/ \E k \in DOMAIN calls : calls'[i] = calls[k]
      BY <1>1, <3>1, Entries
    <3> QED BY <1>1, <3>1, <3>2 DEF ExpectedOK, No
  <2> QED BY <2>1, <2>2
<1> QED BY <1>1, <1>2 DEF Inv, TypesOK

(* A batch of the task begins, or its turn. *)
LEMMA TaskStarts ==
  ASSUME Inv, Silence, Knowing, SenderGoes, AsksRightly, Carries, run'.pc \in {"settings", "next", "intent"},
         Agreeing(reporter'), Listed(reporter'), run'.batch \subseteq Pending(memory),
         IF Automatic THEN DOMAIN run'.previous = {} ELSE ~reporter'.failed,
         \A id \in run'.batch : AsBefore(id)'
  PROVE  Knowing'
<1>1. ExpectedOK' /\ UNCHANGED <<memory, disk, next, tail, jpc>> /\ answer'["sender"] = "none"
  BY ExpectedThen
<1>2. ~Applied' /\ ~Coded' /\ (Automatic' <=> Automatic)
  BY <1>1 DEF Applied, Coded, Sent, Automatic
<1>3. OpenOK'
  BY <1>1, <1>2 DEF OpenOK
<1>4. CodedOK' /\ HeldOK' /\ SettledOK'
  BY <1>1, <1>2 DEF CodedOK, HeldOK, Knowing, SettledOK
<1>5. AgreesOK' /\ ListedOK'
  BY <1>1, <1>2 DEF AgreesOK, ListedOK, Agreeing, Listed, Lost
<1> QED BY <1>1, <1>3, <1>4, <1>5 DEF Knowing

(* The task goes on with its batch. *)
LEMMA TaskGoes ==
  ASSUME Inv, Silence, Knowing, SenderGoes, AsksRightly, Open, NEW pc \in SenderPlaces \ {"idle", "hold"}, GoTo(pc),
         reporter'.failed = reporter.failed,
         \A id \in DOMAIN reporter.unconfirmed :
           id \in DOMAIN reporter'.unconfirmed /\ reporter'.unconfirmed[id] = reporter.unconfirmed[id],
         \A id \in DOMAIN reporter'.unconfirmed \ DOMAIN reporter.unconfirmed :
           id \in run.batch /\ reporter'.unconfirmed[id] = Intent,
         pc \in {"sign", "post", "answered", "fail", "apply"} => Coded
  PROVE  Knowing'
<1>1. /\ ExpectedOK' /\ UNCHANGED <<memory, disk, next, tail, jpc>>
      /\ answer'["sender"] = "none" /\ answer'["job"] = answer["job"]
  BY ExpectedThen
<1>2. run'.pc = pc /\ run'.batch = run.batch /\ run'.previous = run.previous
  BY TaskUnderWay DEF GoTo, GoOn, Progress
<1>3. Carries' /\ Carries /\ ~Applied' /\ ~Applied /\ Open' /\ (Automatic' <=> Automatic) /\ (Coded' => Coded)
      /\ run.pc \notin {"idle", "hold"}
  BY <1>1, <1>2 DEF Carries, Applied, Open, Automatic, Coded, Sent
<1>4. \A id \in run.batch : id \in Pending(memory) /\ AsBefore(id)
  BY DEF Knowing, OpenOK
<1>5. \A id \in run.batch : AsBefore(id)'
  <2>1. ASSUME NEW id \in run.batch PROVE AsBefore(id)'
    BY <1>2, <1>4 DEF AsBefore, Prior
  <2> QED BY <2>1
<1>6. OpenOK'
  BY <1>1, <1>2, <1>3, <1>4, <1>5 DEF OpenOK, Knowing
<1>7. CodedOK'
  BY <1>1, <1>2, <1>3 DEF Knowing, CodedOK, Prior
<1>8. HeldOK' /\ SettledOK'
  BY <1>1, <1>2 DEF HeldOK, Knowing, SettledOK
<1>9. \A id : Lost(id)' <=> Lost(id)
  BY DEF Lost, Intent, Unknown
<1>10. AgreesOK'
  BY <1>1, <1>2, <1>3, <1>9 DEF Knowing, AgreesOK, Holds
<1>11. ListedOK'
  BY <1>1, <1>3, <1>4 DEF Knowing, ListedOK, Erasing
<1> QED BY <1>1, <1>6, <1>7, <1>8, <1>10, <1>11 DEF Knowing

(* An automatic attempt is over. *)
LEMMA RunKnows ==
  ASSUME Inv, Silence, Knowing, Inv', SenderGoes \/ SenderLeaves, NEW r \in Reporting, EndRun(r) \/ EndRunBackoff(r),
         Agreeing(r), Listed(r)
  PROVE  Knowing'
<1>1. LeaveTask /\ reporter'.unconfirmed = r.unconfirmed /\ reporter'.failed = r.failed
  BY SameUnconfirmed, SameFailed DEF EndRun, EndRunBackoff
<1>2. Agreeing(reporter') /\ Listed(reporter')
  BY <1>1, AgreeingSame
<1> QED BY <1>1, <1>2, TaskEnds

(* A call of the sender with its batch. *)
LEMMA BatchCall ==
  ASSUME Inv, Carries, tail' = tail, NEW op \in {"intent", "undoIntent", "resendIntent"},
         run'.pc = (IF op = "undoIntent" THEN "undo" ELSE "intent"), run'.batch \in SUBSET EventIds,
         Automatic <=> op # "resendIntent",
         calls' = Append(calls, Call("sender", op, run'.batch))
  PROVE  AsksRightly
<1>1. PICK c : c = Call("sender", op, run'.batch)
  OBVIOUS
<1>2. c \in Calling /\ c.op = op /\ c.ids = run'.batch
  BY <1>1, CallTyped DEF BufferOps
<1>3. Expected(c)'
  BY <1>2 DEF Expected, Carries, Automatic
<1> QED BY <1>1, <1>2, <1>3 DEF AsksRightly

LEMMA AutomaticKnows ==
  ASSUME Inv, Silence, Knowing, Inv', AutomaticStep
  PROVE  Knowing'
<1> USE DEF outside, store, At
<1>0. /\ SenderGoes \/ SenderLeaves
      /\ reporter \in Reporting /\ Pruned \in Reporting /\ run \in Progress /\ run.batch \in SUBSET EventIds
      /\ Stopped(reporter) \in Reporting
  BY AutomaticSteps, TaskUnderWay, PrunedTyped, StoppedTyped
<1>1. Carries /\ Automatic /\ jpc # "local"
  <2>1. tail # <<>> /\ Head(tail).kind = "run" /\ Head(tail) = tail[1] /\ 1 \in DOMAIN tail
    <3>1. tail # <<>> /\ Head(tail).kind = "run"
      BY DEF AutomaticStep, RunGated, RunUnregistered, RunBegin, RunSettingsFail, RunSettingsOk,
         RunIntentLost, RunIntentKept, RunIntentTakenBack, RunUndone, RunPersistenceFailure, RunPost,
         RunApplied, RunFailed, RunHeldUnknown
    <3> QED BY <3>1, Dropped DEF Inv, TypesOK
  <2> QED BY <2>1 DEF Carries, Automatic, Inv, TailOK
<1>2. /\ ~Applied => Listed(reporter)
      /\ Listed(Pruned)
      /\ (run.pc = "hold" => answer["sender"] = "ok") => Agreeing(reporter) /\ Agreeing(Pruned)
  BY <1>1, Agreed DEF Erasing
<1>3. CASE RunGated \/ RunUnregistered \/ RunApplied
  BY <1>0, <1>2, <1>3, RunKnows DEF RunGated, RunUnregistered, RunApplied
<1>4. CASE RunSettingsFail
  <2>1. PICK r : r = [reporter EXCEPT !.settings = FALSE]
    OBVIOUS
  <2>2. r \in Reporting /\ r.unconfirmed = reporter.unconfirmed /\ r.failed = reporter.failed
    BY <1>0, <2>1 DEF Reporting
  <2>3. Agreeing(r) /\ Listed(r)
    BY <1>2, <1>4, <2>2, AgreeingSame DEF RunSettingsFail, Applied
  <2> QED BY <1>0, <1>4, <2>1, <2>2, <2>3, RunKnows DEF RunSettingsFail
<1>5. CASE RunIntentLost
  <2>1. PICK r : r = [Stopped(reporter) EXCEPT !.failed = TRUE]
    OBVIOUS
  <2>2. r \in Reporting /\ r.unconfirmed = reporter.unconfirmed /\ r.failed
    BY <1>0, <2>1 DEF Stopped, Reporting
  <2>3. Agreeing(r) /\ Listed(r)
    BY <1>2, <1>5, <2>2, AgreedFailed DEF RunIntentLost, Applied, Listed
  <2> QED BY <1>0, <1>5, <2>1, <2>2, <2>3, RunKnows DEF RunIntentLost
<1>6. CASE RunUndone \/ RunFailed
  <2>1. ~Applied /\ run.pc # "hold"
    BY <1>6 DEF RunUndone, RunFailed, Applied
  <2>2. Agreeing(Stopped(reporter)) /\ Listed(Stopped(reporter))
    BY <1>0, <1>2, <2>1, SameUnconfirmed, SameFailed, AgreeingSame
  <2> QED BY <1>0, <1>2, <1>6, <2>1, <2>2, RunKnows DEF RunUndone, RunFailed
<1>7. CASE RunPersistenceFailure
  <2>1. PICK h : h = Holding(reporter, run.batch, Intent)
    OBVIOUS
  <2>2. h \in Reporting
    BY <1>0, <2>1, HoldingTyped DEF Markers
  <2>3. PICK m : m = [id \in DOMAIN reporter.unconfirmed \cup run.batch |->
                        IF id \in run.batch THEN Intent ELSE reporter.unconfirmed[id]]
    OBVIOUS
  <2>4. h.unconfirmed = m
    <3>1. Stopped(reporter).unconfirmed = reporter.unconfirmed
      BY <1>0, SameUnconfirmed
    <3>2. h = [Stopped(reporter) EXCEPT !.unconfirmed = m]
      BY <2>1, <2>3, <3>1 DEF Holding
    <3> QED BY <1>0, <3>2 DEF Reporting
  <2>5. PICK r : r = [h EXCEPT !.failed = TRUE]
    OBVIOUS
  <2>6. r \in Reporting /\ r.unconfirmed = m /\ r.failed
    BY <2>2, <2>4, <2>5 DEF Reporting
  <2>7. Open
    BY <1>1, <1>7 DEF RunPersistenceFailure, Open, Applied, Hears, Takes, Errors
  <2>8. \A id \in run.batch : id \in Pending(memory) /\ memory.rows[id].code # Unknown
    BY <1>1, <2>7, OpenLost DEF Intent, Unknown
  <2>9. Listed(r)
    BY <1>2, <2>3, <2>6, <2>7, <2>8 DEF Listed, Open
  <2>10. Agreeing(r)
    BY <2>3, <2>6, <2>8 DEF Knowing, AgreesOK, Lost, Agreeing
  <2>11. EndRun(r)
    BY <1>7, <2>1, <2>5 DEF RunPersistenceFailure
  <2> QED BY <1>0, <2>6, <2>9, <2>10, <2>11, RunKnows
<1>8. CASE RunHeldUnknown
  <2>1. PICK failed : failed = (reporter.failed \/ answer["sender"] \in Errors)
    OBVIOUS
  <2>2. PICK r : r = [reporter EXCEPT !.failed = failed]
    OBVIOUS
  <2>3. EndRun(r) /\ run.pc = "hold" /\ answer["sender"] \in {"ok"} \cup Errors
    BY <1>8, <2>1, <2>2 DEF RunHeldUnknown, Hears, Takes
  <2>4. r \in Reporting /\ r.unconfirmed = reporter.unconfirmed /\ r.failed = failed
    BY <1>0, <2>1, <2>2 DEF Reporting
  <2>5. Listed(r)
    BY <1>2, <2>3, <2>4 DEF Listed, Applied
  <2>6. Agreeing(r)
    <3>1. CASE answer["sender"] = "ok"
      BY <1>2, <2>1, <2>4, <3>1, AgreeingSame
    <3>2. CASE answer["sender"] \in Errors
      BY <2>1, <2>4, <3>2, AgreedFailed
    <3> QED BY <2>3, <3>1, <3>2
  <2> QED BY <1>0, <2>3, <2>4, <2>5, <2>6, RunKnows
<1>9. ASSUME tail' = tail PROVE SenderGoes
  <2>1. tail \in Seq(Tasks) /\ tail # <<>>
    BY <1>1 DEF Carries, Inv, TypesOK
  <2>2. Tail(tail) # tail
    BY <2>1
  <2> QED BY <1>0, <1>9, <2>2 DEF SenderLeaves, LeaveTask
<1>10. CASE RunBegin
  <2>1. PICK b : GoOn([NoRun EXCEPT !.pc = "settings", !.batch = b]) /\ b \subseteq Pending(memory)
    BY <1>10 DEF RunBegin, Batches
  <2>2. run'.pc = "settings" /\ run'.batch = b /\ run'.previous = NoMarkers /\ tail' = tail
        /\ calls' = calls /\ reporter' = Pruned
    BY <1>10, <2>1, NoRunTyped DEF GoOn, Progress, RunBegin
  <2>3. DOMAIN Pruned.unconfirmed = {} /\ run.pc # "hold"
    BY <1>10 DEF RunBegin, Blocked
  <2>4. \A id \in run'.batch : AsBefore(id)'
    BY <2>2, <2>3, NoMarkersTyped DEF AsBefore
  <2> QED BY <1>1, <1>2, <1>9, <2>1, <2>2, <2>3, <2>4, NoMarkersTyped, TaskStarts DEF AsksRightly
<1>11. CASE RunSettingsOk
  <2>1. PICK r : r = [reporter EXCEPT !.settings = TRUE]
    OBVIOUS
  <2>2. r \in Reporting /\ r.unconfirmed = reporter.unconfirmed /\ r.failed = reporter.failed
    BY <1>0, <2>1 DEF Reporting
  <2>3. run.pc = "settings"
    BY <1>11 DEF RunSettingsOk
  <2>4. CASE EndRun(r) \/ EndRun(Stopped(r))
    <3>1. Stopped(r) \in Reporting /\ Stopped(r).unconfirmed = r.unconfirmed /\ Stopped(r).failed = r.failed
      BY <2>2, StoppedTyped, SameUnconfirmed, SameFailed
    <3>2. Agreeing(r) /\ Listed(r)
      BY <1>2, <2>2, <2>3, AgreeingSame DEF Applied
    <3>3. Agreeing(Stopped(r)) /\ Listed(Stopped(r))
      BY <3>1, <3>2, AgreeingSame
    <3> QED BY <1>0, <2>2, <2>4, <3>1, <3>2, <3>3, RunKnows
  <2>5. CASE Ask(Call("sender", "intent", run.batch)) /\ GoTo("intent") /\ reporter' = r
    <3>1. run'.pc = "intent" /\ run'.batch = run.batch /\ tail' = tail
      BY <1>0, <2>5 DEF GoTo, GoOn, Progress
    <3>2. AsksRightly
      BY <1>0, <1>1, <2>5, <3>1, BatchCall DEF Ask
    <3>3. Open /\ "intent" \in SenderPlaces
      BY <1>1, <2>3 DEF Open, Applied, SenderPlaces, SenderWaits
    <3> QED BY <1>9, <2>2, <2>5, <3>1, <3>2, <3>3, TaskGoes
  <2> QED BY <1>11, <2>1, <2>4, <2>5 DEF RunSettingsOk
<1>12. CASE RunIntentKept \/ RunPost
  <2>1. PICK pc \in {"sign", "post"} : GoTo(pc)
    BY <1>12 DEF RunIntentKept, RunPost
  <2>2. pc \in SenderPlaces /\ reporter' = reporter /\ tail' = tail /\ calls' = calls
    BY <1>12, <2>1 DEF SenderPlaces, RunIntentKept, RunPost, Hears, GoTo, GoOn
  <2>3. Open /\ Coded
    BY <1>1, <1>12 DEF Open, Coded, Sent, Applied, RunIntentKept, RunPost, Hears, Takes
  <2> QED BY <1>9, <2>1, <2>2, <2>3, TaskGoes DEF AsksRightly
<1>13. CASE RunIntentTakenBack
  <2>1. GoTo("undo") /\ calls' = Append(calls, Call("sender", "undoIntent", run.batch)) /\ reporter' = reporter
        /\ run.pc = "intent"
    BY <1>13 DEF RunIntentTakenBack, HearsAndAsks
  <2>2. run'.pc = "undo" /\ run'.batch = run.batch /\ tail' = tail
    BY <1>0, <2>1 DEF GoTo, GoOn, Progress
  <2>3. AsksRightly
    BY <1>0, <1>1, <2>1, <2>2, BatchCall
  <2>4. Open /\ "undo" \in SenderPlaces
    BY <1>1, <2>1 DEF Open, Applied, SenderPlaces, SenderWaits
  <2> QED BY <1>9, <2>1, <2>2, <2>3, <2>4, TaskGoes
<1> QED BY <1>3, <1>4, <1>5, <1>6, <1>7, <1>8, <1>10, <1>11, <1>12, <1>13 DEF AutomaticStep

(* What the sender makes of an answer. *)
LEMMA FailureAsks ==
  ASSUME Inv, Carries, tail' = tail, run'.pc = "fail", run'.batch = run.batch, run'.previous = run.previous,
         calls' = Append(calls, FailureCall)
  PROVE  AsksRightly
<1>1. PICK c : c = FailureCall
  OBVIOUS
<1>2. c \in Calling
  BY <1>1, FailureCallSent DEF Sendable
<1>3. /\ c.ids = run.batch
      /\ Automatic => c.op = "attempts" /\ c.code = "none"
      /\ ~Automatic => c.op = "resendFailure" /\ c.marks = run.previous
  <2>1. CASE Automatic
    BY <1>1, <2>1, CallTyped, TaskUnderWay DEF FailureCall, Automatic, BufferOps
  <2>2. CASE ~Automatic
    <3>1. PICK plain : plain = Call("sender", "resendFailure", run.batch)
      OBVIOUS
    <3>2. plain \in Calling /\ plain.op = "resendFailure" /\ plain.ids = run.batch
      BY <3>1, TaskUnderWay, CallTyped DEF BufferOps
    <3>3. c = [plain EXCEPT !.marks = run.previous]
      BY <1>1, <2>2, <3>1 DEF FailureCall, Automatic
    <3> QED BY <2>2, <3>2, <3>3 DEF Calling
  <2> QED BY <2>1, <2>2
<1>4. Expected(c)'
  BY <1>3 DEF Expected, Carries, Automatic
<1> QED BY <1>1, <1>2, <1>4 DEF AsksRightly

(* The batch may have been taken: the person decides. *)
LEMMA HoldKnows ==
  ASSUME Inv, Silence, Knowing, AnswerUnknown, SenderGoes
  PROVE  Knowing'
<1>1. /\ Carries /\ run.pc = "answered" /\ reporter' = Holding(reporter, run.batch, Unknown) /\ GoTo("hold")
      /\ calls' = Append(calls, [Call("sender", "attempts", run.batch) EXCEPT !.code = Unknown])
  BY DEF AnswerUnknown, Ask, Sending, At, Carries
<1>2. run'.pc = "hold" /\ run'.batch = run.batch /\ run'.previous = run.previous /\ tail' = tail
  BY <1>1, TaskUnderWay DEF GoTo, GoOn, Progress
<1>3. PICK c : c = [Call("sender", "attempts", run.batch) EXCEPT !.code = Unknown]
  OBVIOUS
<1>4. c \in Calling /\ c.op = "attempts" /\ c.ids = run.batch /\ c.code = Unknown
  <2>1. PICK plain : plain = Call("sender", "attempts", run.batch)
    OBVIOUS
  <2>2. plain \in Calling /\ plain.op = "attempts" /\ plain.ids = run.batch
    BY <2>1, TaskUnderWay, CallTyped DEF BufferOps
  <2>3. c = [plain EXCEPT !.code = Unknown] /\ c \in Calling
    BY <1>3, <2>1, UnknownCallSent DEF Sendable
  <2> QED BY <2>2, <2>3 DEF Calling
<1>5. Expected(c)'
  BY <1>1, <1>2, <1>4 DEF Expected, Carries
<1>6. AsksRightly
  BY <1>1, <1>3, <1>4, <1>5 DEF AsksRightly
<1>7. ExpectedOK' /\ UNCHANGED <<memory, disk, next, tail, jpc>> /\ answer'["sender"] = "none"
  BY <1>6, ExpectedThen
<1>8. PICK m : m = [id \in DOMAIN reporter.unconfirmed \cup run.batch |->
                      IF id \in run.batch THEN Unknown ELSE reporter.unconfirmed[id]]
  OBVIOUS
<1>9. reporter'.unconfirmed = m /\ reporter'.failed = reporter.failed
  <2>1. /\ Stopped(reporter).unconfirmed = reporter.unconfirmed /\ Stopped(reporter).failed = reporter.failed
        /\ Stopped(reporter) \in Reporting
    BY TaskUnderWay, SameUnconfirmed, SameFailed, StoppedTyped
  <2>2. reporter' = [Stopped(reporter) EXCEPT !.unconfirmed = m]
    BY <1>1, <1>8, <2>1 DEF Holding
  <2> QED BY <2>1, <2>2 DEF Reporting
<1>10. \A id : Lost(id)' <=> id \in run.batch \/ Lost(id)
  BY <1>8, <1>9 DEF Lost
<1>11. \A id \in run.batch : id \in Pending(memory) /\ memory.rows[id].code = Prior(id)
  BY <1>1 DEF Knowing, CodedOK, Coded, Sent
<1>12. OpenOK'
  BY <1>1, <1>2, <1>9 DEF Knowing, OpenOK, Open, Automatic, Carries
<1>13. CodedOK' /\ HeldOK'
  BY <1>2, <1>7, <1>10, <1>11 DEF CodedOK, HeldOK, Prior
<1>14. AgreesOK'
  <2>1. ASSUME NEW id \in Pending(memory)
        PROVE  /\ memory.rows[id].code = Unknown => id \in run.batch \/ Lost(id)
               /\ id \in run.batch \/ Lost(id) => id \in run.batch \/ reporter.failed \/ memory.rows[id].code = Unknown
    BY <1>1 DEF Knowing, AgreesOK, Holds
  <2>2. \A id \in run.batch : Holds(id)'
    BY <1>1, <1>2 DEF Holds, Carries
  <2> QED BY <1>7, <1>9, <1>10, <2>1, <2>2 DEF AgreesOK
<1>15. ListedOK' /\ SettledOK'
  <2>1. Erasing \/ DOMAIN reporter.unconfirmed \subseteq Pending(memory)
    BY <1>1 DEF Knowing, ListedOK, Applied
  <2>2. jpc # "local"
    BY <1>1, Carrying
  <2> QED BY <1>7, <1>8, <1>9, <1>11, <2>1, <2>2 DEF ListedOK, Erasing, Knowing, SettledOK
<1> QED BY <1>7, <1>12, <1>13, <1>14, <1>15 DEF Knowing

LEMMA AnswerKnows ==
  ASSUME Inv, Silence, Knowing, AnswerStep
  PROVE  Knowing'
<1> USE DEF outside, store, At, Sending
<1>0. SenderGoes /\ Carries /\ run.pc \in {"sign", "answered", "apply"}
  BY AnswerSteps DEF AnswerStep, SignFails, AnswerCommitted, AnswerUnknown, AnswerUnusable,
     AnswerMiscounted, Carries
<1>1. CASE SignFails \/ AnswerUnusable \/ AnswerMiscounted
  <2>1. calls' = Append(calls, FailureCall) /\ GoTo("fail") /\ UNCHANGED reporter
    BY <1>1 DEF SignFails, AnswerUnusable, AnswerMiscounted, Ask, HearsAndAsks
  <2>2. run'.pc = "fail" /\ run'.batch = run.batch /\ run'.previous = run.previous /\ tail' = tail
    BY <2>1, TaskUnderWay DEF GoTo, GoOn, Progress
  <2>3. AsksRightly
    BY <1>0, <2>1, <2>2, FailureAsks
  <2>4. Open /\ Coded /\ "fail" \in SenderPlaces
    BY <1>0, <1>1 DEF Open, Coded, Sent, Applied, SenderPlaces, SenderWaits, SignFails, AnswerUnusable,
       AnswerMiscounted, HearsAndAsks, Takes
  <2> QED BY <1>0, <2>1, <2>3, <2>4, TaskGoes
<1>2. CASE AnswerCommitted
  <2>1. PICK c : c = [Call("sender", "apply", run.batch) EXCEPT
                        !.accepted = run.response.accepted, !.duplicates = run.response.duplicates,
                        !.marks = run.response.rejected]
    OBVIOUS
  <2>2. /\ calls' = Append(calls, c) /\ GoTo("apply") /\ UNCHANGED reporter
        /\ run.pc = "answered" /\ run.response.kind = "committed"
    BY <1>2, <2>1 DEF AnswerCommitted, Ask
  <2>3. c \in Calling
    BY <2>1, <2>2, ApplyCallSent DEF Sendable
  <2>4. c.op = "apply" /\ c.ids = run.batch
    <3>1. PICK plain : plain = Call("sender", "apply", run.batch)
      OBVIOUS
    <3>2. plain \in Calling /\ plain.op = "apply" /\ plain.ids = run.batch
      BY <3>1, TaskUnderWay, CallTyped DEF BufferOps
    <3>3. c = [plain EXCEPT !.accepted = run.response.accepted, !.duplicates = run.response.duplicates,
                            !.marks = run.response.rejected]
      BY <2>1, <3>1
    <3> QED BY <3>2, <3>3 DEF Calling
  <2>5. run'.pc = "apply" /\ run'.batch = run.batch /\ tail' = tail
    BY <2>2, TaskUnderWay DEF GoTo, GoOn, Progress
  <2>6. Expected(c)'
    BY <1>0, <2>4, <2>5 DEF Expected, Carries
  <2>7. AsksRightly
    BY <2>2, <2>3, <2>6 DEF AsksRightly
  <2>8. Open /\ Coded /\ "apply" \in SenderPlaces
    BY <1>0, <2>2 DEF Open, Coded, Sent, Applied, SenderPlaces, SenderWaits
  <2> QED BY <1>0, <2>2, <2>7, <2>8, TaskGoes
<1>3. CASE AnswerUnknown
  BY <1>0, <1>3, HoldKnows
<1> QED BY <1>1, <1>2, <1>3 DEF AnswerStep

LEMMA ResendKnows ==
  ASSUME Inv, Silence, Knowing, Inv', ResendStep
  PROVE  Knowing'
<1> USE DEF outside, store, At
<1>0. /\ SenderGoes \/ SenderLeaves
      /\ reporter \in Reporting /\ Pruned \in Reporting /\ run \in Progress /\ run.batch \in SUBSET EventIds
  BY ResendSteps, TaskUnderWay, PrunedTyped
<1>1. Carries /\ ~Automatic /\ jpc # "local" /\ run.pc # "answered"
  <2>1. tail # <<>> /\ Head(tail).kind = "resend" /\ run.pc # "answered"
    BY DEF ResendStep, ResendRefused, ResendAccepted, ResendOver, ResendBatch, ResendPersistenceFailure,
       ResendIntentKept, ResendPost, ResendApplied, ResendFailed, ResendHeldUnknown
  <2>2. Head(tail) = tail[1] /\ 1 \in DOMAIN tail
    BY <2>1, Dropped DEF Inv, TypesOK
  <2> QED BY <2>1, <2>2 DEF Carries, Automatic, Inv, TailOK
<1>2. /\ ~Applied => Listed(reporter)
      /\ Listed(Pruned)
      /\ (run.pc = "hold" => answer["sender"] = "ok") => Agreeing(reporter) /\ Agreeing(Pruned)
  BY <1>1, Agreed DEF Erasing
<1>3. run.pc # "idle" => ~reporter.failed
  BY <1>1 DEF Knowing, OpenOK
<1>4. ASSUME tail' = tail PROVE SenderGoes
  <2>1. tail \in Seq(Tasks) /\ tail # <<>>
    BY <1>1 DEF Carries, Inv, TypesOK
  <2>2. Tail(tail) # tail
    BY <2>1
  <2> QED BY <1>0, <1>4, <2>2 DEF SenderLeaves, LeaveTask
<1>5. ASSUME run'.pc = "next", run'.batch = {}, tail' = tail, calls' = calls,
             Agreeing(reporter'), Listed(reporter'), ~reporter'.failed
      PROVE  Knowing'
  BY <1>1, <1>4, <1>5, TaskStarts DEF AsksRightly
<1>6. CASE ResendRefused
  BY <1>0, <1>2, <1>6, TaskEnds DEF ResendRefused
<1>7. CASE ResendAccepted
  <2>1. reporter'.unconfirmed = Pruned.unconfirmed /\ reporter'.failed = Pruned.failed /\ ~Pruned.failed /\ run.pc = "idle"
    BY <1>0, <1>7, SameUnconfirmed, SameFailed, PrunedKnows DEF ResendAccepted
  <2>2. Agreeing(reporter') /\ Listed(reporter')
    BY <1>2, <2>1, AgreeingSame
  <2>3. CASE LeaveTask
    BY <1>0, <2>2, <2>3, TaskEnds
  <2>4. CASE GoOn([NoRun EXCEPT !.pc = "next", !.selected = Head(tail).ids])
    <3>1. run'.pc = "next" /\ run'.batch = {} /\ tail' = tail /\ calls' = calls
      BY <1>7, <2>4, NoRunTyped DEF GoOn, Progress, ResendAccepted
    <3> QED BY <1>5, <2>1, <2>2, <3>1
  <2> QED BY <1>7, <2>3, <2>4 DEF ResendAccepted
<1>8. CASE ResendOver
  BY <1>0, <1>2, <1>8, TaskEnds DEF ResendOver, Applied
<1>9. CASE ResendBatch
  <2>1. PICK b \in Batches(run.selected \cap Pending(memory)) :
          /\ Ask(Call("sender", "resendIntent", b))
          /\ GoOn([run EXCEPT !.pc = "intent", !.batch = b,
                     !.previous = [id \in b \cap DOMAIN reporter.unconfirmed |-> reporter.unconfirmed[id]]])
    BY <1>9 DEF ResendBatch
  <2>2. PICK previous : previous = [id \in b \cap DOMAIN reporter.unconfirmed |-> reporter.unconfirmed[id]]
    OBVIOUS
  <2>3. run' = [run EXCEPT !.pc = "intent", !.batch = b, !.previous = previous] /\ tail' = tail
    BY <2>1, <2>2 DEF GoOn
  <2>4. run'.pc = "intent" /\ run'.batch = b /\ run'.previous = previous
    BY <1>0, <2>3 DEF Progress
  <2>5. b \in SUBSET EventIds /\ b \subseteq Pending(memory)
    BY <1>0, <2>1 DEF Batches, Progress
  <2>6. AsksRightly
    BY <1>1, <2>1, <2>3, <2>4, <2>5, BatchCall DEF Ask
  <2>7. reporter' = reporter /\ run.pc = "next" /\ ~Applied
    BY <1>9 DEF ResendBatch, Applied
  <2>8. \A id \in run'.batch : AsBefore(id)'
    BY <2>2, <2>4, <2>7 DEF AsBefore, Prior
  <2> QED BY <1>1, <1>2, <1>3, <1>4, <2>3, <2>4, <2>5, <2>6, <2>7, <2>8, TaskStarts
<1>10. CASE ResendPersistenceFailure
  <2>1. reporter' = [reporter EXCEPT !.failed = TRUE] /\ LeaveTask /\ ~Applied
    BY <1>10 DEF ResendPersistenceFailure, Hears, Takes, Errors, Applied
  <2>2. reporter'.unconfirmed = reporter.unconfirmed /\ reporter'.failed
    BY <1>0, <2>1 DEF Reporting
  <2>3. Agreeing(reporter') /\ Listed(reporter')
    BY <1>2, <2>1, <2>2, AgreedFailed DEF Listed
  <2> QED BY <1>0, <2>1, <2>3, TaskEnds
<1>11. CASE ResendIntentKept
  <2>1. PICK m : m = [id \in DOMAIN reporter.unconfirmed \cup run.batch |->
                        IF id \in DOMAIN reporter.unconfirmed THEN reporter.unconfirmed[id] ELSE Intent]
    OBVIOUS
  <2>2. reporter' = [reporter EXCEPT !.unconfirmed = m] /\ calls' = calls /\ run.pc = "intent" /\ answer["sender"] = "ok"
    BY <1>11, <2>1 DEF ResendIntentKept, Hears, Takes
  <2>3. reporter'.unconfirmed = m /\ reporter'.failed = reporter.failed
    BY <1>0, <2>2 DEF Reporting
  <2>4. Open /\ Coded /\ ~Applied
    BY <1>1, <2>2 DEF Open, Coded, Sent, Applied
  <2>5. CASE LeaveTask
    <3>1. run.batch \subseteq Pending(memory)
      BY <2>4, OpenLost
    <3>2. Listed(reporter')
      BY <1>2, <2>1, <2>3, <2>4, <3>1 DEF Listed
    <3>3. Agreeing(reporter')
      BY <1>2, <2>1, <2>2, <2>3 DEF Agreeing, Intent, Unknown
    <3> QED BY <1>0, <2>5, <3>2, <3>3, TaskEnds
  <2>6. CASE GoTo("sign")
    <3>1. "sign" \in SenderPlaces /\ tail' = tail
      BY <2>6 DEF GoTo, GoOn, SenderPlaces
    <3> QED BY <1>4, <2>1, <2>2, <2>3, <2>4, <2>6, <3>1, TaskGoes DEF AsksRightly
  <2> QED BY <1>11, <2>5, <2>6 DEF ResendIntentKept
<1>12. CASE ResendPost
  <2>1. run.pc = "sign" /\ reporter' = reporter /\ calls' = calls
    BY <1>12 DEF ResendPost
  <2>2. Open /\ Coded /\ ~Applied
    BY <1>1, <2>1 DEF Open, Coded, Sent, Applied
  <2>3. CASE LeaveTask
    BY <1>0, <1>2, <2>1, <2>2, <2>3, TaskEnds
  <2>4. CASE GoTo("post")
    <3>1. "post" \in SenderPlaces /\ tail' = tail
      BY <2>4 DEF GoTo, GoOn, SenderPlaces
    <3> QED BY <1>4, <2>1, <2>2, <2>4, <3>1, TaskGoes DEF AsksRightly
  <2> QED BY <1>12, <2>3, <2>4 DEF ResendPost
<1>13. ASSUME NEW r, ResendNext(r), Hears("sender", {"ok"}), Agreeing(r), Listed(r), ~r.failed
       PROVE  Knowing'
  <2>1. run'.pc = "next" /\ run'.batch = {} /\ tail' = tail /\ calls' = calls /\ reporter' = r
    BY <1>13, NoRunTyped DEF ResendNext, GoOn, Progress, Hears
  <2> QED BY <1>5, <1>13, <2>1
<1>14. CASE ResendApplied
  BY <1>2, <1>3, <1>13, <1>14, PrunedKnows DEF ResendApplied
<1>15. CASE ResendFailed
  <2>1. PICK m : m = [id \in DOMAIN reporter.unconfirmed \ (run.batch \ DOMAIN run.previous) |-> reporter.unconfirmed[id]]
    OBVIOUS
  <2>2. PICK r : r = [reporter EXCEPT !.unconfirmed = m]
    OBVIOUS
  <2>3. r.unconfirmed = m /\ r.failed = reporter.failed
    BY <1>0, <2>2 DEF Reporting
  <2>4. ResendNext(r) /\ Hears("sender", {"ok"}) /\ run.pc = "fail"
    BY <1>15, <2>1, <2>2 DEF ResendFailed
  <2>5. Open /\ ~Applied
    BY <1>1, <2>4 DEF Open, Applied
  <2>6. \A id \in run.batch \ DOMAIN run.previous : ~Lost(id)
    BY <2>5, OpenLost DEF Prior, Intent, Unknown
  <2>7. Agreeing(r)
    BY <1>2, <2>1, <2>3, <2>4, <2>6 DEF Agreeing, Lost
  <2>8. Listed(r)
    BY <1>2, <2>1, <2>3, <2>5 DEF Listed
  <2> QED BY <1>3, <1>13, <2>3, <2>4, <2>7, <2>8
<1>16. CASE ResendHeldUnknown
  <2>1. ResendNext(reporter) /\ Hears("sender", {"ok"}) /\ answer["sender"] = "ok" /\ run.pc = "hold"
    BY <1>16 DEF ResendHeldUnknown, Hears, Takes
  <2> QED BY <1>2, <1>3, <1>13, <2>1 DEF Applied
<1> QED BY <1>6, <1>7, <1>8, <1>9, <1>10, <1>11, <1>12, <1>14, <1>15, <1>16 DEF ResendStep

LEMMA WithdrawalKnows ==
  ASSUME Inv, Silence, Knowing, Inv', WithdrawalStep
  PROVE  Knowing'
<1> USE DEF outside, store, At
<1>0. /\ SenderGoes \/ SenderLeaves
      /\ reporter \in Reporting /\ run \in Progress /\ run.response \in Responses
  BY WithdrawalSteps, TaskUnderWay
<1>1. tail # <<>> /\ ~Carries
  BY DEF WithdrawalStep, WithdrawalSettled, WithdrawalOffline, WithdrawalSend, WithdrawalAnswered, WithdrawalMarked,
         WithdrawalUnmarked, Carries
<1>2. Agreeing(reporter) /\ (Erasing \/ Listed(reporter))
  BY <1>1, Agreed
<1>3. reporter'.unconfirmed = reporter.unconfirmed /\ reporter'.failed = reporter.failed
  <2>1. CASE WithdrawalMarked
    <3>1. \/ reporter' = Stopped(reporter)
          \/ \E timer \in {"none", "withdrawal"} : reporter' = [reporter EXCEPT !.timer = timer]
      BY <2>1 DEF WithdrawalMarked
    <3> QED BY <1>0, <3>1 DEF Stopped, Reporting
  <2>2. CASE ~WithdrawalMarked
    BY <2>2 DEF WithdrawalStep, WithdrawalSettled, WithdrawalOffline, WithdrawalSend, WithdrawalAnswered, WithdrawalUnmarked
  <2> QED BY <2>1, <2>2
<1>4. Agreeing(reporter') /\ (Erasing \/ Listed(reporter'))
  BY <1>2, <1>3, AgreeingSame
<1>5. CASE LeaveTask
  BY <1>0, <1>4, <1>5, TaskEnds
<1>6. CASE tail' = tail
  <2>1. SenderGoes
    <3>1. tail \in Seq(Tasks)
      BY DEF Inv, TypesOK
    <3>2. Tail(tail) # tail
      BY <1>1, <3>1
    <3> QED BY <1>0, <1>6, <3>2 DEF SenderLeaves, LeaveTask
  <2>2. AsksRightly
    <3>1. ASSUME NEW outcome \in WithdrawalStates \ {"none"}, calls' = Append(calls, MarkWithdrawalCall(outcome)),
                 run'.pc = "mark"
          PROVE  AsksRightly
      <4>1. PICK c : c = MarkWithdrawalCall(outcome)
        OBVIOUS
      <4>2. c \in Calling
        BY <4>1, MarkCallSent DEF Sendable
      <4>3. c.op = "markWithdrawal"
        <5>1. PICK plain : plain = Call("sender", "markWithdrawal", {})
          OBVIOUS
        <5>2. plain \in Calling /\ plain.op = "markWithdrawal"
          BY <5>1, CallTyped DEF BufferOps
        <5>3. c = [plain EXCEPT !.code = outcome]
          BY <4>1, <5>1 DEF MarkWithdrawalCall
        <5> QED BY <5>2, <5>3 DEF Calling
      <4>4. Expected(c)'
        BY <3>1, <4>3 DEF Expected
      <4> QED BY <3>1, <4>1, <4>2, <4>4 DEF AsksRightly
    <3>2. CASE WithdrawalOffline
      <4>1. calls' = Append(calls, MarkWithdrawalCall("offline")) /\ run' = [run EXCEPT !.pc = "mark", !.response.kind = "offline"]
        BY <3>2 DEF WithdrawalOffline, Ask, GoOn
      <4>2. run'.pc = "mark"
        BY <1>0, <4>1 DEF Progress
      <4> QED BY <3>1, <4>1, <4>2 DEF WithdrawalStates
    <3>3. CASE WithdrawalAnswered
      <4>1. PICK outcome \in {"sent", "unconfirmed", "pending"} : Ask(MarkWithdrawalCall(outcome)) /\ GoTo("mark")
        BY <3>3 DEF WithdrawalAnswered
      <4>2. run'.pc = "mark"
        BY <1>0, <4>1 DEF GoTo, GoOn, Progress
      <4> QED BY <3>1, <4>1, <4>2 DEF WithdrawalStates, Ask
    <3>4. CASE ~(WithdrawalOffline \/ WithdrawalAnswered)
      BY <3>4 DEF WithdrawalStep, WithdrawalSettled, WithdrawalSend, WithdrawalMarked, WithdrawalUnmarked, Hears, AsksRightly
    <3> QED BY <3>2, <3>3, <3>4
  <2>3. /\ ExpectedOK' /\ UNCHANGED <<memory, disk, next, tail, jpc>>
        /\ answer'["sender"] = "none" /\ answer'["job"] = answer["job"]
    BY <2>1, <2>2, ExpectedThen
  <2>4. ~Carries'
    BY <1>1, <1>6 DEF Carries
  <2>5. OpenOK' /\ CodedOK' /\ HeldOK'
    BY <2>4 DEF OpenOK, CodedOK, HeldOK, Open
  <2>6. AgreesOK' /\ ListedOK' /\ SettledOK'
    BY <1>4, <2>3 DEF AgreesOK, ListedOK, Agreeing, Listed, Lost, Erasing, Knowing, SettledOK
  <2> QED BY <2>3, <2>5, <2>6 DEF Knowing
<1> QED BY <1>5, <1>6 DEF WithdrawalStep, WithdrawalSettled, WithdrawalOffline, WithdrawalSend, WithdrawalAnswered,
   WithdrawalMarked, WithdrawalUnmarked, GoTo, GoOn

----------------------------------------------------------------------------
(* Every step *)

LEMMA StartsKnowing ==
  ASSUME RecordsInit
  PROVE  Knowing
<1>1. /\ memory = EmptySnapshot /\ disk = EmptySnapshot /\ next = EmptySnapshot
      /\ calls = <<>> /\ reporter = FreshReporter(EmptySnapshot) /\ run = NoRun
  BY DEF RecordsInit, PanelInit, Init
<1>2. run.pc = "idle" /\ DOMAIN calls = {} /\ EmptySnapshot.withdrawal = "none"
      /\ reporter.unconfirmed = Recovered(EmptySnapshot)
  BY <1>1, NoRunTyped DEF EmptySnapshot, FreshReporter
<1>3. Pending(EmptySnapshot) = {}
  BY EmptyIsGood DEF Pending
<1>4. DOMAIN reporter.unconfirmed = {}
  BY <1>2, <1>3, RecoveredLost
<1>5. ExpectedOK /\ OpenOK /\ CodedOK /\ HeldOK
  BY <1>2 DEF ExpectedOK, OpenOK, CodedOK, HeldOK, Open, Coded, Sent
<1>6. AgreesOK /\ ListedOK /\ SettledOK
  BY <1>1, <1>2, <1>3, <1>4 DEF AgreesOK, ListedOK, SettledOK, Settles
<1> QED BY <1>5, <1>6 DEF Knowing

LEMMA KnowingKept ==
  ASSUME Inv, Silence, Knowing, UNCHANGED <<store, tail, run, jpc>>, reporter' \in {reporter, Stopped(reporter)}
  PROVE  Knowing'
BY OutsideKnows DEF store

LEMMA NextKnows ==
  ASSUME Inv, Silence, Knowing, Inv', Next
  PROVE  Knowing'
<1>1. CASE StoreStep
  BY <1>1, StoreKnows
<1>2. CASE TimerFires \/ BackgroundScan \/ Crash
  BY <1>2, TimerKnows, BackgroundScanKnows, CrashKnows
<1>3. CASE SenderStep
  BY <1>3, AutomaticKnows, AnswerKnows, ResendKnows, WithdrawalKnows DEF SenderStep
<1>4. CASE ServerStep
  BY <1>4, ServerKnows
<1>5. CASE JobStep
  BY <1>5, JobKnows
<1>6. CASE CoreAttached \/ Withhold \/ Grant \/ CoreDetached \/ OriginChanges
  BY <1>6, KnowingKept DEF CoreAttached, Withhold, Grant, CoreDetached, OriginChanges, Enqueue, store, strands
<1>7. CASE RecordCalled \/ ResendCalled
  BY <1>7, KnowingKept DEF RecordCalled, ResendCalled, Enqueue
<1> QED BY <1>1, <1>2, <1>3, <1>4, <1>5, <1>6, <1>7 DEF Next, Environment

LEMMA RecordsKnow ==
  ASSUME Inv, Silence, Knowing, Inv', [RecordsNext]_<<vars, panelVars, list>>
  PROVE  Knowing'
<1>1. CASE UNCHANGED <<store, reporter, strands>>
  BY <1>1, KnowingKept DEF strands
<1>2. CASE ListStep
  <2>1. UNCHANGED <<store, reporter, strands>>
    BY <1>2 DEF ListStep, ListOpens, ListRefreshes, ListCloses, CheckClicked, RowsArrive, RowsLost,
          RemoteArrives, RemoteLost, HostLists, HostReads, ServerLists, ReadFails,
          Acts, Loses, Shows, Others, vars, outside
  <2> QED BY <1>1, <2>1
<1>3. CASE ClientStep \/ HostShows
  <2>1. UNCHANGED <<store, reporter, strands>>
    BY <1>3 DEF ClientStep, Opens, Refreshes, Closes, LoadArrives, LoadFails, Clicks, PostFails, ReplyArrives,
           HostShows, Sees, vars, outside
  <2> QED BY <1>1, <2>1
<1>4. CASE HostTakes
  BY <1>4, KnowingKept DEF HostTakes, Enqueue
<1>5. CASE HostMoves
  BY <1>5, NextKnows DEF HostMoves, Next, Environment
<1>6. CASE OthersResend
  BY <1>6, NextKnows DEF OthersResend, Next, Environment
<1>7. CASE HostStops
  BY <1>7, NextKnows DEF HostStops, Next, Environment
<1> QED BY <1>1, <1>2, <1>3, <1>4, <1>5, <1>6, <1>7 DEF RecordsNext, vars, outside

\* While Core is attached only with no withdrawal recorded, what the process
\* holds of its requests and what the rows say of them agree, but for a write
\* that failed: the call it waits for is about its batch, and the rows of the
\* batch carry what was known before the request (upload.js, events.ts).
THEOREM KnowingIsKept == RecordsSpec /\ []AttachedClear => []Knowing
<1>1. RecordsInit => Knowing
  BY StartsKnowing
<1>2. Inv /\ Silence /\ Knowing /\ Inv' /\ [RecordsNext]_<<vars, panelVars, list>> => Knowing'
  BY RecordsKnow
<1> QED BY <1>1, <1>2, StrandsKeepTheirProtocol, SilenceIsKept, PTL DEF RecordsSpec

----------------------------------------------------------------------------
(* Each recorded fact is delivered as EventDelivery says *)

\* The stage of a fact in the rows of s.
StageIn(s, id) ==
  IF id \notin Held(s) THEN "absent"
  ELSE LET row == s.rows[id] IN
    CASE row.state = "pending" ->
           (IF row.code = Unknown THEN "unknown"
            ELSE IF row.code = Intent THEN "attempting" ELSE "waiting")
      [] row.state = "rejected" -> "refused"
      [] OTHER -> "delivered"

LEMMA StageOnDisk == \A id : StageOf(id) = StageIn(disk, id)
BY DEF StageOf, StageIn

LEMMA Stages ==
  ASSUME NEW s
  PROVE  /\ \A id : StageIn(s, id) \in Delivery!Stages
         /\ \A id : id \notin Held(s) => StageIn(s, id) = "absent"
         /\ \A id \in Pending(s) :
              /\ s.rows[id].code = Unknown => StageIn(s, id) = "unknown"
              /\ s.rows[id].code = Intent => StageIn(s, id) = "attempting"
              /\ s.rows[id].code \notin Markers => StageIn(s, id) = "waiting"
         /\ \A id \in Held(s) : /\ s.rows[id].state = "rejected" => StageIn(s, id) = "refused"
                                /\ s.rows[id].state \in {"sent", "duplicate"} => StageIn(s, id) = "delivered"
<1>1. \A id : StageIn(s, id) \in Delivery!Stages
  BY DEF StageIn, Delivery!Stages
<1>2. \A id : id \notin Held(s) => StageIn(s, id) = "absent"
  BY DEF StageIn
<1>3. \A id \in Pending(s) :
        /\ s.rows[id].code = Unknown => StageIn(s, id) = "unknown"
        /\ s.rows[id].code = Intent => StageIn(s, id) = "attempting"
        /\ s.rows[id].code \notin Markers => StageIn(s, id) = "waiting"
  BY DEF StageIn, Pending, Markers, Intent, Unknown
<1>4. \A id \in Held(s) : /\ s.rows[id].state = "rejected" => StageIn(s, id) = "refused"
                          /\ s.rows[id].state \in {"sent", "duplicate"} => StageIn(s, id) = "delivered"
  BY DEF StageIn
<1> QED BY <1>1, <1>2, <1>3, <1>4

\* A row that stays keeps its stage.
LEMMA SameStage ==
  ASSUME NEW s, NEW t, NEW id, id \in Held(s) <=> id \in Held(t), id \in Held(s) => t.rows[id] = s.rows[id]
  PROVE  StageIn(t, id) = StageIn(s, id)
BY DEF StageIn

LEMMA StagesMove ==
  ASSUME NEW S \in SUBSET EventIds, NEW from, NEW to, server'.ingested = server.ingested,
         \A id \in S : StageIn(disk, id) \in from /\ StageIn(disk', id) = to,
         \A id \in EventIds \ S : StageIn(disk', id) = StageIn(disk, id)
  PROVE  Delivery!Move(S, from, to)
<1>1. \A id : StageOf(id) = StageIn(disk, id) /\ StageOf(id)' = StageIn(disk', id)
  BY DEF StageOf, StageIn
<1>2. S \subseteq Delivery!In(from)
  BY <1>1 DEF Delivery!In
<1>3. [id \in EventIds |-> StageOf(id)]' =
        [f \in EventIds |-> IF f \in S THEN to ELSE [id \in EventIds |-> StageOf(id)][f]]
  BY <1>1
<1> QED BY <1>2, <1>3 DEF Delivery!Move

LEMMA StagesStay ==
  ASSUME server'.ingested = server.ingested, \A id \in EventIds : StageIn(disk', id) = StageIn(disk, id)
  PROVE  UNCHANGED Delivery!vars
<1>1. \A id : StageOf(id) = StageIn(disk, id) /\ StageOf(id)' = StageIn(disk', id)
  BY DEF StageOf, StageIn
<1> QED BY <1>1 DEF Delivery!vars

(* The write of a call is published: a job's, or a scan's. *)
LEMMA JobPublishes ==
  ASSUME Inv, Silence, Knowing, NEW c \in Calling, CallOK(c), Admitted(c, disk), Changes(c, disk), Good(disk),
         c.op = "scan" => c.ids \cap Held(disk) = {}, disk' = Result(c, disk), server' = server,
         c.op \in JobOps \cup {"withdrawLocal", "markWithdrawal"}
  PROVE  Delivery!Next \/ UNCHANGED Delivery!vars
<1>1. PICK s : s = disk
  OBVIOUS
<1>2. PICK t : t = Result(c, s)
  OBVIOUS
<1>3. disk' = t /\ disk = s /\ server'.ingested = server.ingested
  BY <1>1, <1>2
<1>4. CASE c.op \in {"put", "scan"}
  <2>1. /\ Held(s) \subseteq Held(t) /\ Held(t) \subseteq EventIds
        /\ \A id \in Held(s) : t.rows[id] = s.rows[id]
        /\ \A id \in Held(t) \ Held(s) : t.rows[id].state = "pending" /\ t.rows[id].code = "none"
    BY <1>1, <1>2, <1>4, RecordedRows
  <2> DEFINE S == Held(t) \ Held(s)
  <2>2. S \in SUBSET EventIds
    BY <2>1
  <2>3. \A id \in S : StageIn(s, id) \in {"absent"} /\ StageIn(t, id) = "waiting"
    BY <2>1, Stages DEF Pending, Markers, Intent, Unknown
  <2>4. \A id \in EventIds \ S : StageIn(t, id) = StageIn(s, id)
    BY <2>1, SameStage
  <2> HIDE DEF S
  <2>5. Delivery!Record(S)
    BY <1>3, <2>2, <2>3, <2>4, StagesMove DEF Delivery!Record
  <2> QED BY <2>2, <2>5 DEF Delivery!Next
<1>5. CASE c.op = "reopen"
  <2>1. /\ Held(t) = Held(s) /\ Held(s) \subseteq EventIds
        /\ \A id \in Held(s) :
             \/ t.rows[id] = s.rows[id]
             \/ s.rows[id].state = "rejected" /\ t.rows[id].state = "pending" /\ t.rows[id].code = "none"
    BY <1>1, <1>2, <1>5, ReopenedRows
  <2> DEFINE S == {id \in Held(s) : s.rows[id].state = "rejected" /\ t.rows[id].state = "pending"
                                    /\ t.rows[id].code = "none"}
  <2>2. S \in SUBSET EventIds
    BY <2>1
  <2>3. \A id \in S : StageIn(s, id) \in {"refused"} /\ StageIn(t, id) = "waiting"
    BY <2>1, Stages DEF Pending, Markers, Intent, Unknown
  <2>4. \A id \in EventIds \ S : StageIn(t, id) = StageIn(s, id)
    BY <2>1, SameStage
  <2> HIDE DEF S
  <2>5. Delivery!Reopen(S)
    BY <1>3, <2>2, <2>3, <2>4, StagesMove DEF Delivery!Reopen
  <2> QED BY <2>2, <2>5 DEF Delivery!Next
<1>6. CASE c.op \in {"clearWithdrawal", "markWithdrawal"}
  <2>1. t.rows = s.rows
    BY <1>1, <1>2, <1>6, WithdrawnRows
  <2>2. \A id \in EventIds : StageIn(t, id) = StageIn(s, id)
    BY <2>1, SameStage DEF Held
  <2> QED BY <1>3, <2>2, StagesStay
<1>7. CASE c.op = "withdrawLocal"
  <2>1. Held(t) = {}
    BY <1>1, <1>2, <1>7, WithdrawnRows
  <2>2. \A id \in EventIds : StageIn(s, id) \in Delivery!Stages /\ StageIn(t, id) = "absent"
    BY <2>1, Stages
  <2>3. Delivery!Move(EventIds, Delivery!Stages, "absent")
    BY <1>3, <2>2, StagesMove
  <2> QED BY <2>3 DEF Delivery!Next, Delivery!Erase
<1> QED BY <1>4, <1>5, <1>6, <1>7 DEF JobOps

(* The write of a call of the sender is published. *)
LEMMA BatchPublishes ==
  ASSUME Inv, Silence, Knowing, NEW c \in Calling, Admitted(c, disk), Good(disk), memory = disk,
         disk' = Result(c, disk), next = disk', server' = server, Expected(c), run.pc # "mark", answer["sender"] = "none"
  PROVE  Delivery!Next \/ UNCHANGED Delivery!vars
<1>1. PICK s : s = disk
  OBVIOUS
<1>2. PICK t : t = Result(c, s)
  OBVIOUS
<1>3. /\ disk' = t /\ disk = s /\ memory = s /\ server'.ingested = server.ingested
      /\ c.op \in BatchOps /\ Carries /\ c.ids = run.batch /\ run.pc # "idle" /\ ~Applied
  BY <1>1, <1>2 DEF Expected, BatchOps, Applied
<1>4. /\ Held(t) = Held(s) /\ c.ids \subseteq Held(s) /\ Held(s) \subseteq EventIds
      /\ \A id \in Held(s) \ c.ids : t.rows[id] = s.rows[id]
      /\ \A id \in c.ids : /\ t.rows[id].state = StateAfter(c, id, s.rows[id])
                           /\ t.rows[id].code = CodeAfter(c, id, s.rows[id])
  BY <1>1, <1>2, <1>3, BatchRows
<1>5. \A id \in EventIds \ c.ids : StageIn(t, id) = StageIn(s, id)
  BY <1>4, SameStage
<1>6. run.pc # "hold" => \A id \in c.ids :
         /\ id \in Pending(s) /\ Prior(id) \in Markers
         /\ Automatic => s.rows[id].code # Unknown /\ Prior(id) = Intent
  <2>1. ASSUME run.pc # "hold", NEW id \in c.ids
        PROVE  /\ id \in Pending(s) /\ Prior(id) \in Markers
               /\ Automatic => s.rows[id].code # Unknown /\ Prior(id) = Intent
    <3>1. Open
      BY <1>3, <2>1 DEF Open
    <3>2. /\ id \in Pending(memory) /\ (Lost(id) <=> Prior(id) = Unknown) /\ Prior(id) \in Markers
          /\ memory.rows[id].code = Unknown => Lost(id)
          /\ Automatic => Prior(id) = Intent
      BY <1>3, <2>1, <3>1, OpenLost
    <3> QED BY <1>3, <3>2 DEF Intent, Unknown
  <2> QED BY <2>1
<1>7. run.pc \in {"fail", "hold", "apply"} => \A id \in c.ids : id \in Pending(s) /\ s.rows[id].code = Prior(id)
  BY <1>3 DEF Knowing, CodedOK, Coded
<1>8. \A id \in Pending(s) : s.rows[id].code = Intent \/ s.rows[id].code = Unknown \/ s.rows[id].code \notin Markers
  BY DEF Markers
<1>9. \A id \in c.ids : id \in Held(t) /\ (t.rows[id].state = "pending" => id \in Pending(t))
  BY <1>4 DEF Pending
<1>10. CASE c.op \in {"intent", "resendIntent"}
  <2> DEFINE S == {id \in c.ids : StageIn(s, id) = "waiting"}
  <2>1. run.pc = "intent"
    BY <1>10 DEF Expected
  <2>2. S \in SUBSET EventIds
    BY <1>4
  <2>3. ASSUME NEW id \in c.ids
        PROVE  StageIn(t, id) = IF id \in S THEN "attempting" ELSE StageIn(s, id)
    <3>1. /\ id \in Pending(s) /\ id \in Pending(t)
          /\ t.rows[id].code = IF c.op = "resendIntent" /\ s.rows[id].code = Unknown THEN Unknown ELSE Intent
          /\ c.op = "intent" => s.rows[id].code # Unknown
      BY <1>4, <1>6, <1>9, <1>10, <2>1, <2>3 DEF StateAfter, CodeAfter, Expected, Pending
    <3>2. CASE s.rows[id].code = Intent
      BY <3>1, <3>2, Stages DEF Intent, Unknown
    <3>3. CASE s.rows[id].code = Unknown
      BY <1>10, <3>1, <3>3, Stages DEF Intent, Unknown
    <3>4. CASE s.rows[id].code \notin Markers
      <4>1. StageIn(s, id) = "waiting" /\ StageIn(t, id) = "attempting"
        BY <3>1, <3>4, Stages DEF Markers
      <4> QED BY <2>3, <4>1
    <3> QED BY <1>8, <3>1, <3>2, <3>3, <3>4
  <2>4. \A id \in S : StageIn(s, id) \in {"waiting"} /\ StageIn(t, id) = "attempting"
    BY <2>3
  <2>5. \A id \in EventIds \ S : StageIn(t, id) = StageIn(s, id)
    BY <1>5, <2>3
  <2> HIDE DEF S
  <2>6. Delivery!Attempt(S)
    BY <1>3, <2>2, <2>4, <2>5, StagesMove DEF Delivery!Attempt
  <2> QED BY <2>2, <2>6 DEF Delivery!Next
<1>11. ASSUME NEW S, S \subseteq c.ids, \A id \in S : StageIn(s, id) = "attempting" /\ StageIn(t, id) = "waiting",
              \A id \in c.ids \ S : StageIn(t, id) = StageIn(s, id)
       PROVE  Delivery!Next
  <2>1. S \in SUBSET EventIds /\ \A id \in EventIds \ S : StageIn(t, id) = StageIn(s, id)
    BY <1>4, <1>5, <1>11
  <2>2. Delivery!GiveUp(S)
    BY <1>3, <1>11, <2>1, StagesMove DEF Delivery!GiveUp
  <2> QED BY <2>1, <2>2 DEF Delivery!Next
<1>12. CASE c.op = "undoIntent" \/ (c.op = "attempts" /\ c.code = "none")
  <2> DEFINE S == {id \in c.ids : StageIn(s, id) = "attempting"}
  <2>1. run.pc \in {"undo", "fail"} /\ Automatic
    BY <1>12 DEF Expected, Unknown
  <2>2. ASSUME NEW id \in c.ids PROVE StageIn(t, id) = "waiting" /\ StageIn(s, id) \in {"attempting", "waiting"}
    <3>1. id \in Pending(s) /\ id \in Pending(t) /\ t.rows[id].code = "none" /\ s.rows[id].code # Unknown
      BY <1>4, <1>6, <1>9, <1>12, <2>1, <2>2 DEF StateAfter, CodeAfter, Pending
    <3> QED BY <1>8, <3>1, Stages DEF Intent, Unknown, Markers
  <2>3. S \subseteq c.ids
    OBVIOUS
  <2>4. \A id \in S : StageIn(s, id) = "attempting" /\ StageIn(t, id) = "waiting"
    BY <2>2
  <2>5. \A id \in c.ids \ S : StageIn(t, id) = StageIn(s, id)
    BY <2>2
  <2> HIDE DEF S
  <2> QED BY <1>11, <2>3, <2>4, <2>5
<1>13. CASE c.op = "resendFailure"
  <2> DEFINE S == {id \in c.ids : id \notin DOMAIN run.previous}
  <2>1. run.pc = "fail" /\ c.marks = run.previous
    BY <1>13 DEF Expected
  <2>2. ASSUME NEW id \in c.ids
        PROVE  /\ id \in S => StageIn(s, id) = "attempting" /\ StageIn(t, id) = "waiting"
               /\ id \notin S => StageIn(t, id) = StageIn(s, id)
    <3>1. /\ id \in Pending(s) /\ id \in Pending(t) /\ s.rows[id].code = Prior(id) /\ Prior(id) \in Markers
          /\ t.rows[id].code = IF id \in DOMAIN run.previous THEN run.previous[id] ELSE "none"
      BY <1>4, <1>6, <1>7, <1>9, <1>13, <2>1, <2>2 DEF StateAfter, CodeAfter, Pending
    <3>2. id \in S => s.rows[id].code = Intent /\ t.rows[id].code \notin Markers
      BY <3>1 DEF Prior, Markers, Intent, Unknown
    <3>3. id \notin S => t.rows[id].code = s.rows[id].code
      BY <2>2, <3>1 DEF Prior
    <3> HIDE DEF S
    <3> QED BY <1>8, <3>1, <3>2, <3>3, Stages
  <2> QED BY <1>11, <2>2
<1>14. CASE c.op = "attempts" /\ c.code = Unknown
  <2>1. run.pc = "hold" /\ run.previous \in Uncertain
    BY <1>14, TaskUnderWay DEF Expected, Unknown
  <2>2. ASSUME NEW id \in c.ids PROVE StageIn(s, id) \in {"attempting", "unknown"} /\ StageIn(t, id) = "unknown"
    <3>1. /\ id \in Pending(s) /\ id \in Pending(t) /\ s.rows[id].code = Prior(id)
          /\ t.rows[id].code = Unknown
      BY <1>4, <1>7, <1>9, <1>14, <2>1, <2>2 DEF StateAfter, CodeAfter, Pending
    <3>2. Prior(id) \in Markers
      BY <2>1 DEF Prior, Uncertain, Markers
    <3> QED BY <3>1, <3>2, Stages DEF Markers
  <2>3. c.ids \in SUBSET EventIds
    BY DEF Calling
  <2>4. Delivery!LoseTrack(c.ids)
    BY <1>3, <1>5, <2>2, <2>3, StagesMove DEF Delivery!LoseTrack
  <2> QED BY <2>3, <2>4 DEF Delivery!Next
<1>15. CASE c.op = "apply"
  <2> DEFINE kept == c.ids \ DOMAIN c.marks
             refused == c.ids \cap DOMAIN c.marks
  <2>1. run.pc = "apply"
    BY <1>15 DEF Expected
  <2>2. ASSUME NEW id \in c.ids
        PROVE  /\ StageIn(s, id) \in {"attempting", "unknown"}
               /\ id \in kept => StageIn(t, id) = "delivered" /\ id \in server.ingested
               /\ id \in refused => StageIn(t, id) = "refused"
    <3>1. id \in Pending(s) /\ s.rows[id].code \in Markers /\ id \in Held(t)
      BY <1>6, <1>7, <1>9, <2>1, <2>2
    <3>2. t.rows[id].state = IF id \in DOMAIN c.marks THEN "rejected" ELSE IF c.accepted > 0 THEN "sent" ELSE "duplicate"
      BY <1>4, <1>15, <2>2 DEF StateAfter
    <3>3. StageIn(s, id) \in {"attempting", "unknown"}
      BY <3>1, Stages DEF Markers
    <3>4. id \in kept => t.rows[id].state \in {"sent", "duplicate"}
      BY <3>2
    <3>5. id \in refused => t.rows[id].state = "rejected"
      BY <3>2
    <3>6. Taken(t, server.ingested)
      BY <1>3 DEF Inv, TakenOK
    <3> HIDE DEF kept, refused
    <3> QED BY <3>1, <3>3, <3>4, <3>5, <3>6, Stages DEF Taken
  <2>3. kept \in SUBSET EventIds /\ refused \in SUBSET EventIds /\ c.ids = kept \cup refused /\ kept \cap refused = {}
    BY DEF Calling
  <2> HIDE DEF kept, refused
  <2>4. \A id : StageOf(id) = StageIn(s, id) /\ StageOf(id)' = StageIn(t, id)
    BY <1>3 DEF StageOf, StageIn
  <2>5. kept \cup refused \subseteq Delivery!In({"attempting", "unknown"})
    BY <2>2, <2>3, <2>4 DEF Delivery!In
  <2>6. kept \subseteq server.ingested
    BY <2>2, <2>3
  <2>7. [id \in EventIds |-> StageOf(id)]' =
          [f \in EventIds |-> IF f \in kept THEN "delivered"
                              ELSE IF f \in refused THEN "refused" ELSE [id \in EventIds |-> StageOf(id)][f]]
    BY <1>5, <2>2, <2>3, <2>4
  <2>8. Delivery!Settle(kept, refused)
    BY <1>3, <2>5, <2>6, <2>7 DEF Delivery!Settle
  <2> QED BY <2>3, <2>8 DEF Delivery!Next
<1> QED BY <1>3, <1>10, <1>12, <1>13, <1>14, <1>15 DEF Expected

LEMMA PublishDelivers ==
  ASSUME Inv, Silence, Knowing, StorePublish
  PROVE  Delivery!Next \/ UNCHANGED Delivery!vars
<1>1. /\ phase = "writing" /\ calls # <<>> /\ memory = disk /\ disk' = next /\ next' = next /\ server' = server
      /\ Admitted(Head(calls), disk) /\ Changes(Head(calls), disk) /\ next = Result(Head(calls), disk)
      /\ Good(disk)
  BY DEF StorePublish, outside, Inv, WriteOK, GoodOK, Silence, StoredOK
<1>2. PICK c : c = Head(calls)
  OBVIOUS
<1>3. /\ c \in Calling /\ CallOK(c) /\ (\E k \in DOMAIN calls : c = calls[k])
      /\ c.op = "scan" => c.ids \cap Held(disk) = {}
  BY <1>1, <1>2, OldestCall
<1>4. c.by = "sender" => Expected(c) /\ answer["sender"] = "none"
  BY <1>3 DEF Knowing, ExpectedOK, Inv, SenderOK, Waiting, No
<1>5. CASE c.by # "sender" \/ run.pc = "mark"
  <2>1. c.op \in JobOps \cup {"withdrawLocal", "markWithdrawal"}
    BY <1>3, <1>4, <1>5 DEF CallOK, Expected
  <2> QED BY <1>1, <1>2, <1>3, <2>1, JobPublishes
<1>6. CASE c.by = "sender" /\ run.pc # "mark"
  BY <1>1, <1>2, <1>3, <1>4, <1>6, BatchPublishes
<1> QED BY <1>5, <1>6

(* The server takes what is out: the intent is on the disk. *)
LEMMA ReceiptDelivers ==
  ASSUME Inv, Silence, run.pc = "post", disk' = disk, NEW S, S \subseteq run.batch,
         server'.ingested = server.ingested \cup S
  PROVE  Delivery!Next
<1>1. Marked(disk, run.batch) /\ run.batch \in SUBSET EventIds
  BY RequestOut, TaskUnderWay DEF Inv, MarkedOK
<1>2. \A id \in S : StageIn(disk, id) \in {"attempting", "unknown"}
  BY <1>1, Stages DEF Marked, Markers
<1>3. \A id : StageOf(id) = StageIn(disk, id) /\ StageOf(id)' = StageIn(disk, id)
  BY DEF StageOf, StageIn
<1>4. S \in SUBSET EventIds /\ S \subseteq Delivery!In({"attempting", "unknown"})
  BY <1>1, <1>2, <1>3 DEF Delivery!In
<1>5. [id \in EventIds |-> StageOf(id)]' = [id \in EventIds |-> StageOf(id)]
  BY <1>3
<1>6. Delivery!Receive(S)
  BY <1>4, <1>5 DEF Delivery!Receive
<1> QED BY <1>4, <1>6 DEF Delivery!Next

Delivering == UNCHANGED Delivery!vars \/ Delivery!Next

LEMMA NothingDelivered ==
  ASSUME UNCHANGED disk, server'.ingested = server.ingested
  PROVE  Delivering
BY StagesStay DEF Delivering

LEMMA ServerDelivers ==
  ASSUME Inv, Silence, ServerStep
  PROVE  Delivering
<1>1. disk' = disk
  BY DEF ServerStep, ServerIngests, ServerTroubles, ServerMiscounts, ServerDeletes, Responds, store, storage
<1>2. CASE ServerIngests \/ ServerTroubles \/ ServerMiscounts
  <2>1. run.pc = "post" /\ \E S : S \subseteq run.batch /\ server'.ingested = server.ingested \cup S
    <3>1. CASE ServerIngests
      <4>1. PICK refused \in SUBSET run.batch, code \in {HostRejection, "ITEM_REFUSED"} :
              server'.ingested = server.ingested \cup (run.batch \ refused)
        BY <3>1 DEF ServerIngests, Responds
      <4> QED BY <3>1, <4>1 DEF ServerIngests
    <3>2. CASE ServerTroubles
      <4>1. PICK taken \in {{}, run.batch} : server'.ingested = server.ingested \cup taken
        BY <3>2 DEF ServerTroubles, Responds
      <4> QED BY <3>2, <4>1 DEF ServerTroubles
    <3>3. CASE ServerMiscounts
      <4>1. PICK taken \in SUBSET run.batch : server'.ingested = server.ingested \cup taken
        BY <3>3 DEF ServerMiscounts, Responds
      <4> QED BY <3>3, <4>1 DEF ServerMiscounts
    <3> QED BY <1>2, <3>1, <3>2, <3>3
  <2> QED BY <1>1, <2>1, ReceiptDelivers DEF Delivering
<1>3. CASE ServerDeletes
  BY <1>1, <1>3, NothingDelivered DEF ServerDeletes, Inv, TypesOK
<1> QED BY <1>2, <1>3 DEF ServerStep

LEMMA CrashDelivers ==
  ASSUME Inv, Silence, Crash
  PROVE  Delivering
<1>1. PICK taken : /\ taken \subseteq (IF run.pc = "post" THEN run.batch ELSE {})
                   /\ server'.ingested = server.ingested \cup taken /\ disk' = disk
  <2>1. PICK taken \in (IF run.pc = "post" THEN {{}, run.batch} ELSE {{}}) :
          server'.ingested = server.ingested \cup taken
    <3>1. PICK taken \in (IF run.pc = "post" THEN {{}, run.batch} ELSE {{}}) :
            server' = [stored |-> server.stored \cup taken, ingested |-> server.ingested \cup taken,
                       doubt |-> (server.doubt \cup
                                    (IF run.pc \in {"post", "answered"} THEN run.batch ELSE {})) \cap Held(disk)]
      BY Zenon DEF Crash
    <3>2. server'.ingested = server.ingested \cup taken
      BY ONLY <3>1
    <3> QED BY <3>1, <3>2
  <2>2. taken \subseteq (IF run.pc = "post" THEN run.batch ELSE {})
    BY ONLY <2>1
  <2> QED BY <2>1, <2>2 DEF Crash
<1>2. CASE run.pc = "post"
  BY <1>1, <1>2, ReceiptDelivers DEF Delivering
<1>3. CASE run.pc # "post"
  BY <1>1, <1>3, NothingDelivered
<1> QED BY <1>2, <1>3

LEMMA NextDelivers ==
  ASSUME Inv, Silence, Knowing, Next
  PROVE  Delivering
<1>1. CASE StorePublish
  BY <1>1, PublishDelivers DEF Delivering
<1>2. CASE StoreRun \/ StoreResolve \/ StoreReject
  BY <1>2, NothingDelivered DEF StoreRun, StoreResolve, StoreReject, outside, Inv, TypesOK
<1>3. CASE SenderStep
  <2>1. disk' = disk
    BY <1>3, AutomaticSteps, AnswerSteps, ResendSteps, WithdrawalSteps DEF SenderStep, SenderGoes, SenderLeaves, storage
  <2>2. server' = server
    BY <1>3 DEF SenderStep, AutomaticStep, AnswerStep, ResendStep, WithdrawalStep, outside,
       RunGated, RunUnregistered, RunBegin, RunSettingsFail, RunSettingsOk, RunIntentLost, RunIntentKept,
       RunIntentTakenBack, RunUndone, RunPersistenceFailure, RunPost, RunApplied, RunFailed, RunHeldUnknown,
       SignFails, AnswerCommitted, AnswerUnknown, AnswerUnusable, AnswerMiscounted,
       ResendRefused, ResendAccepted, ResendOver, ResendBatch, ResendPersistenceFailure, ResendIntentKept,
       ResendPost, ResendApplied, ResendFailed, ResendHeldUnknown, ResendNext,
       WithdrawalSettled, WithdrawalOffline, WithdrawalSend, WithdrawalAnswered, WithdrawalMarked, WithdrawalUnmarked
  <2> QED BY <2>1, <2>2, NothingDelivered
<1>4. CASE ServerStep \/ Crash
  BY <1>4, ServerDelivers, CrashDelivers
<1>5. CASE JobStep
  BY <1>5, JobsGo, NothingDelivered DEF JobGoes, storage
<1>6. CASE TimerFires \/ BackgroundScan
  BY <1>6, NothingDelivered DEF TimerFires, BackgroundScan, Ask, outside, store, storage
<1>7. CASE CoreAttached \/ Withhold \/ Grant \/ CoreDetached \/ OriginChanges \/ RecordCalled \/ ResendCalled
  BY <1>7, NothingDelivered DEF CoreAttached, Withhold, Grant, CoreDetached, OriginChanges, RecordCalled, ResendCalled,
     Enqueue, store, storage
<1> QED BY <1>1, <1>2, <1>3, <1>4, <1>5, <1>6, <1>7 DEF Next, Environment, StoreStep

LEMMA RecordsDeliver ==
  ASSUME Inv, Silence, Knowing, [RecordsNext]_<<vars, panelVars, list>>
  PROVE  Delivering
<1>1. CASE UNCHANGED <<server, store>>
  BY <1>1, NothingDelivered DEF store, storage
<1>2. CASE ListStep
  <2>1. UNCHANGED <<server, store>>
    BY <1>2 DEF ListStep, ListOpens, ListRefreshes, ListCloses, CheckClicked, RowsArrive, RowsLost,
          RemoteArrives, RemoteLost, HostLists, HostReads, ServerLists, ReadFails,
          Acts, Loses, Shows, Others, vars, outside
  <2> QED BY <1>1, <2>1
<1>3. CASE ClientStep \/ HostShows \/ HostTakes
  <2>1. UNCHANGED <<server, store>>
    BY <1>3 DEF ClientStep, Opens, Refreshes, Closes, LoadArrives, LoadFails, Clicks, PostFails, ReplyArrives,
           HostShows, HostTakes, Enqueue, Sees, vars, outside
  <2> QED BY <1>1, <2>1
<1>4. CASE HostMoves \/ OthersResend \/ HostStops
  BY <1>4, NextDelivers DEF HostMoves, OthersResend, HostStops, Next, Environment
<1> QED BY <1>1, <1>2, <1>3, <1>4 DEF RecordsNext, vars, outside

LEMMA StartsDelivering ==
  ASSUME RecordsInit
  PROVE  Delivery!Init
<1>1. disk = EmptySnapshot /\ server = [stored |-> {}, ingested |-> {}, doubt |-> {}]
  BY DEF RecordsInit, PanelInit, Init
<1>2. \A id : StageOf(id) = "absent"
  BY <1>1, EmptyIsGood DEF StageOf
<1> QED BY <1>1, <1>2 DEF Delivery!Init

\* While Core is attached only with no withdrawal recorded, each recorded fact
\* goes only through the stages of EventDelivery: it is marked before the server
\* may take it, `delivered` is never a guess, an unknown outcome is never taken
\* for a failure, and only a withdrawal erases (upload.js, events.ts, mount.js).
THEOREM SilentDelivery == RecordsSpec /\ []AttachedClear => ImplementsDelivery
<1>1. RecordsInit => Delivery!Init
  BY StartsDelivering
<1>2. Inv /\ Silence /\ Knowing /\ [RecordsNext]_<<vars, panelVars, list>> => [Delivering]_(Delivery!vars)
  BY RecordsDeliver
<1>3. RecordsSpec /\ []AttachedClear => Delivery!Init /\ [][Delivering]_(Delivery!vars)
  BY <1>1, <1>2, StrandsKeepTheirProtocol, SilenceIsKept, KnowingIsKept, PTL DEF RecordsSpec
<1> QED BY <1>3 DEF ImplementsDelivery, Delivering

\* Where consent changes or the Host restarts and Core comes back, but not both,
\* each recorded fact is delivered as EventDelivery says.
THEOREM FactsAreDelivered ==
  ASSUME OneAttachment
  PROVE  RecordsSpec => ImplementsDelivery
BY AttachedWithoutWithdrawal, SilentDelivery, PTL
----------------------------------------------------------------------------
(* What the server has of the rows, and what the list was told of it *)

\* What is shown as received the server still has, and what an answer, or a call
\* that applies it, vouches for; while a withdrawal is recorded, or its deletion
\* is under way, nothing is shown as received.
Trusts(ids, marks, accepted, duplicates) == Vouched(ids, marks, accepted, duplicates, server.stored)
ReceivedOK ==
  /\ Received(memory) \subseteq server.stored
  /\ memory.withdrawal # "none" \/ run.pc = "delete" => Received(memory) = {}
  /\ \A i \in DOMAIN calls : LET c == calls[i] IN
       c.op = "apply" => Trusts(c.ids, c.marks, c.accepted, c.duplicates)
  /\ run.pc = "answered" /\ run.response.kind = "committed" =>
       LET r == run.response IN Trusts(run.batch, r.rejected, r.accepted, r.duplicates)

(* Only an answer applied shows more as received. *)
LEMMA ReceivedRows ==
  ASSUME NEW s, Good(s), NEW c \in Calling, CallOK(c), c.op = "scan" => c.ids \cap Held(s) = {},
         Admitted(c, s), Changes(c, s)
  PROVE  /\ c.op # "apply" => Received(Result(c, s)) \subseteq Received(s)
         /\ c.op = "apply" => Received(Result(c, s)) \subseteq Received(s) \cup (c.ids \ DOMAIN c.marks)
<1>1. PICK t : t = Result(c, s)
  OBVIOUS
<1>2. CASE c.op \in {"put", "scan"}
  <2>1. /\ \A id \in Held(s) : t.rows[id] = s.rows[id]
        /\ \A id \in Held(t) \ Held(s) : t.rows[id].state = "pending"
    BY <1>1, <1>2, RecordedRows
  <2>2. Received(t) \subseteq Received(s)
    BY <2>1 DEF Received
  <2> QED BY <1>1, <1>2, <2>2
<1>3. CASE c.op = "reopen"
  <2>1. /\ Held(t) = Held(s)
        /\ \A id \in Held(s) :
             \/ t.rows[id] = s.rows[id]
             \/ s.rows[id].state = "rejected" /\ t.rows[id].state = "pending" /\ t.rows[id].code = "none"
    BY <1>1, <1>3, ReopenedRows
  <2>2. Received(t) \subseteq Received(s)
    BY <2>1 DEF Received
  <2> QED BY <1>1, <1>3, <2>2
<1>4. CASE c.op \in {"withdrawLocal", "markWithdrawal", "clearWithdrawal"}
  <2>1. IF c.op = "withdrawLocal" THEN Held(t) = {} ELSE t.rows = s.rows
    BY <1>1, <1>4, WithdrawnRows
  <2>2. Received(t) \subseteq Received(s)
    BY <2>1 DEF Received, Held
  <2> QED BY <1>1, <1>4, <2>2
<1>5. CASE c.op \in BatchOps
  <2>1. /\ Held(t) = Held(s)
        /\ \A id \in Held(s) \ c.ids : t.rows[id] = s.rows[id]
        /\ \A id \in c.ids : t.rows[id].state = StateAfter(c, id, s.rows[id])
    BY <1>1, <1>5, BatchRows
  <2>2. ASSUME c.op # "apply" PROVE Received(t) \subseteq Received(s)
    BY <2>1, <2>2 DEF Received, StateAfter
  <2>3. ASSUME c.op = "apply" PROVE Received(t) \subseteq Received(s) \cup (c.ids \ DOMAIN c.marks)
    <3>1. \A id \in c.ids \cap DOMAIN c.marks : t.rows[id].state = "rejected"
      BY <2>1, <2>3 DEF StateAfter
    <3> QED BY <2>1, <3>1 DEF Received
  <2> QED BY <1>1, <2>2, <2>3
<1> QED BY <1>2, <1>3, <1>4, <1>5 DEF Calling, BufferOps, BatchOps

(* Where the sender's steps lead. *)
LEMMA SenderArrives ==
  ASSUME Inv, SenderStep
  PROVE  /\ run'.pc = "apply" => AnswerCommitted
         /\ run'.pc = "delete" => WithdrawalSend
         /\ run'.pc # "answered"
<1>0. \A pc \in SenderPlaces : GoTo(pc) => run'.pc = pc
  BY WentTo
<1>1. /\ NoRun.pc = "idle" /\ \A pc : [NoRun EXCEPT !.pc = pc].pc = pc
      /\ \A ids : /\ [NoRun EXCEPT !.pc = "settings", !.batch = ids].pc = "settings"
                   /\ [NoRun EXCEPT !.pc = "next", !.selected = ids].pc = "next"
      /\ \A ids, known : [run EXCEPT !.pc = "intent", !.batch = ids, !.previous = known].pc = "intent"
      /\ [run EXCEPT !.pc = "mark", !.response.kind = "offline"].pc = "mark"
  BY NoRunTriesNothing, TaskUnderWay DEF NoRun, Progress
<1>2. LeaveTask => run'.pc = "idle"
  BY <1>1 DEF LeaveTask
<1>3. CASE AutomaticStep
  <2>1. CASE RunGated \/ RunUnregistered \/ RunBegin \/ RunSettingsFail
    BY <1>1, <1>2, <2>1 DEF RunGated, RunUnregistered, RunBegin, RunSettingsFail, EndRun, EndRunBackoff, GoOn
  <2>2. CASE RunSettingsOk \/ RunIntentLost \/ RunIntentKept \/ RunIntentTakenBack
    BY <1>0, <1>2, <2>2 DEF RunSettingsOk, RunIntentLost, RunIntentKept, RunIntentTakenBack, EndRun, SenderPlaces,
       SenderWaits
  <2>3. CASE RunUndone \/ RunPersistenceFailure \/ RunPost \/ RunApplied \/ RunFailed \/ RunHeldUnknown
    BY <1>0, <1>2, <2>3 DEF RunUndone, RunPersistenceFailure, RunPost, RunApplied, RunFailed, RunHeldUnknown,
       EndRun, EndRunBackoff, SenderPlaces
  <2> QED BY <1>3, <2>1, <2>2, <2>3 DEF AutomaticStep
<1>4. CASE AnswerStep
  BY <1>0, <1>4 DEF AnswerStep, SignFails, AnswerUnknown, AnswerUnusable, AnswerMiscounted, AnswerCommitted,
     SenderPlaces, SenderWaits
<1>5. CASE ResendStep
  <2>1. CASE ResendRefused \/ ResendAccepted \/ ResendOver
    <3>1. LeaveTask \/ \E ids : run' = [NoRun EXCEPT !.pc = "next", !.selected = ids]
      BY <2>1 DEF ResendRefused, ResendAccepted, ResendOver, GoOn
    <3>2. ASSUME NEW ids, run' = [NoRun EXCEPT !.pc = "next", !.selected = ids] PROVE run'.pc = "next"
      BY <1>1, <3>2
    <3> QED BY <1>2, <3>1, <3>2
  <2>2. CASE ResendPersistenceFailure \/ ResendIntentKept \/ ResendPost
    <3>1. run'.pc \in {"idle", "sign", "post"}
      BY <1>0, <1>2, <2>2 DEF ResendPersistenceFailure, ResendIntentKept, ResendPost, SenderPlaces
    <3> QED BY <3>1
  <2>3. CASE ResendApplied \/ ResendFailed \/ ResendHeldUnknown
    <3>1. \E ids : run' = [NoRun EXCEPT !.pc = "next", !.selected = ids]
      BY <2>3 DEF ResendApplied, ResendFailed, ResendHeldUnknown, ResendNext, GoOn
    <3>2. run'.pc = "next"
      BY <1>1, <3>1
    <3> QED BY <3>2
  <2>4. CASE ResendBatch
    <3>1. PICK ids, known : run' = [run EXCEPT !.pc = "intent", !.batch = ids, !.previous = known]
      BY <2>4 DEF ResendBatch, GoOn
    <3>2. run'.pc = "intent"
      BY <1>1, <3>1
    <3> QED BY <3>2
  <2> QED BY <1>5, <2>1, <2>2, <2>3, <2>4 DEF ResendStep
<1>6. CASE WithdrawalStep
  BY <1>0, <1>1, <1>2, <1>6 DEF WithdrawalStep, WithdrawalSettled, WithdrawalOffline, WithdrawalSend,
     WithdrawalAnswered, WithdrawalMarked, WithdrawalUnmarked, GoOn, SenderPlaces, SenderWaits
<1> QED BY <1>3, <1>4, <1>5, <1>6 DEF SenderStep

(* What the oldest call makes of the rows the server still vouches for. *)
LEMMA CallReceives ==
  ASSUME Inv, Silence, Knowing, ReceivedOK, calls # <<>>, NEW c, c = Head(calls), Admitted(c, memory),
         Changes(c, memory), NEW t, t = Result(c, memory)
  PROVE  Received(t) \subseteq server.stored /\ (t.withdrawal # "none" \/ run.pc = "delete" => Received(t) = {})
<1>1. /\ c \in Calling /\ CallOK(c) /\ (c.op = "scan" => c.ids \cap Held(memory) = {}) /\ Good(memory)
      /\ \E k \in DOMAIN calls : c = calls[k]
  BY OldestCall DEF Inv, GoodOK
<1>2. CASE c.op = "apply"
  <2>1. c.by = "sender" /\ run.pc = "apply" /\ Carries
    BY <1>1, <1>2 DEF CallOK, JobOps, Knowing, ExpectedOK, Expected
  <2>2. memory.withdrawal = "none" /\ t.withdrawal = "none"
    BY <1>1, <1>2, <2>1, Carrying, Withdrawing
  <2>3. c.ids \ DOMAIN c.marks \subseteq server.stored
    BY <1>1, <1>2 DEF ReceivedOK, Trusts, Vouched, Admitted, ApplyUploadWrites
  <2>4. Received(t) \subseteq Received(memory) \cup (c.ids \ DOMAIN c.marks)
    BY <1>1, <1>2, ReceivedRows
  <2> QED BY <2>1, <2>2, <2>3, <2>4 DEF ReceivedOK
<1>3. CASE c.op = "withdrawLocal"
  BY <1>1, <1>3, Withdrawing DEF Received
<1>4. CASE c.op \notin {"apply", "withdrawLocal"}
  <2>1. Received(t) \subseteq Received(memory)
    BY <1>1, <1>4, ReceivedRows
  <2>2. t.withdrawal # "none" => memory.withdrawal # "none"
    BY <1>1, <1>4, Withdrawing
  <2> QED BY <2>1, <2>2 DEF ReceivedOK
<1> QED BY <1>2, <1>3, <1>4

(* The rows, the server and the request stay; calls end, or others are made. *)
LEMMA ReceivedStays ==
  ASSUME ReceivedOK, UNCHANGED <<memory, run>>, server.stored' = server.stored,
         \A i \in DOMAIN calls' : calls'[i].op = "apply" => \E k \in DOMAIN calls : calls'[i] = calls[k]
  PROVE  ReceivedOK'
BY DEF ReceivedOK, Trusts, Received, Held

LEMMA StoreReceives ==
  ASSUME Inv, Silence, Knowing, ReceivedOK, StoreStep
  PROVE  ReceivedOK'
<1>1. server'.stored = server.stored /\ UNCHANGED <<run>>
  BY DEF StoreStep, StoreRun, StorePublish, StoreResolve, StoreReject, outside, strands, Inv, TypesOK
<1>2. (phase # "idle" => calls # <<>>) /\ calls \in Seq(Calling)
  BY DEF Inv, WriteOK, TypesOK
<1>3. calls' = calls \/ (calls # <<>> /\ calls' = Tail(calls))
  BY <1>2 DEF StoreStep, StoreRun, StorePublish, StoreResolve, StoreReject, Conclude
<1>4. \A i \in DOMAIN calls' : \E k \in DOMAIN calls : calls'[i] = calls[k]
  <2>1. CASE calls # <<>> /\ calls' = Tail(calls)
    BY <1>2, <2>1, Entries
  <2> QED BY <1>3, <2>1
<1>5. CASE memory' = memory
  BY <1>1, <1>4, <1>5, ReceivedStays
<1>6. CASE StoreResolve
  <2> DEFINE c == Head(calls)
  <2>1. calls # <<>> /\ Admitted(c, memory) /\ Changes(c, memory) /\ memory' = Result(c, memory)
    BY <1>2, <1>6 DEF StoreResolve, Silence, StoredOK
  <2>2. PICK t : t = Result(c, memory)
    OBVIOUS
  <2>3. Received(t) \subseteq server.stored /\ (t.withdrawal # "none" \/ run.pc = "delete" => Received(t) = {})
    BY <2>1, <2>2, CallReceives
  <2>4. memory' = t
    BY <2>1, <2>2
  <2> QED BY <1>1, <1>4, <2>3, <2>4 DEF ReceivedOK, Trusts
<1> QED BY <1>5, <1>6 DEF StoreStep, StoreRun, StorePublish, StoreReject

LEMMA SenderReceives ==
  ASSUME Inv, Silence, Knowing, Knowing', Inv', ReceivedOK, SenderStep
  PROVE  ReceivedOK'
<1>1. SenderGoes \/ SenderLeaves
  BY AutomaticSteps, AnswerSteps, ResendSteps, WithdrawalSteps DEF SenderStep
<1>2. UNCHANGED memory
  BY <1>1 DEF SenderGoes, SenderLeaves, storage
<1>3. server' = server
  BY DEF SenderStep, AutomaticStep, AnswerStep, ResendStep, WithdrawalStep, outside,
       RunGated, RunUnregistered, RunBegin, RunSettingsFail, RunSettingsOk, RunIntentLost, RunIntentKept,
       RunIntentTakenBack, RunUndone, RunPersistenceFailure, RunPost, RunApplied, RunFailed, RunHeldUnknown,
       SignFails, AnswerCommitted, AnswerUnknown, AnswerUnusable, AnswerMiscounted,
       ResendRefused, ResendAccepted, ResendOver, ResendBatch, ResendPersistenceFailure, ResendIntentKept,
       ResendPost, ResendApplied, ResendFailed, ResendHeldUnknown, ResendNext,
       WithdrawalSettled, WithdrawalOffline, WithdrawalSend, WithdrawalAnswered, WithdrawalMarked, WithdrawalUnmarked
<1>4. run'.pc # "answered" /\ (run'.pc = "delete" => memory.withdrawal # "none")
  BY SenderArrives DEF WithdrawalSend
<1>5. ASSUME NEW i \in DOMAIN calls', calls'[i].op = "apply"
      PROVE  Trusts(calls'[i].ids, calls'[i].marks, calls'[i].accepted, calls'[i].duplicates)
  <2>1. calls'[i].by = "sender" /\ run'.pc = "apply"
    BY <1>5 DEF Inv, CallsOK, CallOK, JobOps, Knowing, ExpectedOK, Expected
  <2>2. AnswerCommitted
    BY <2>1, SenderArrives
  <2> DEFINE plain == Call("sender", "apply", run.batch)
             c == [plain EXCEPT !.accepted = run.response.accepted, !.duplicates = run.response.duplicates,
                                !.marks = run.response.rejected]
  <2>3. plain \in Calling /\ plain.ids = run.batch /\ calls \in Seq(Calling)
    BY TaskUnderWay, CallTyped DEF BufferOps, Inv, TypesOK
  <2>4. calls' = Append(calls, c)
    BY <2>2 DEF AnswerCommitted, Ask
  <2> HIDE DEF plain
  <2>5. /\ c.ids = run.batch /\ c.accepted = run.response.accepted /\ c.duplicates = run.response.duplicates
        /\ c.marks = run.response.rejected
    BY <2>3 DEF Calling
  <2>6. run.pc = "answered" /\ run.response.kind = "committed"
    BY <2>2 DEF AnswerCommitted, Sending, At
  <2>7. Trusts(c.ids, c.marks, c.accepted, c.duplicates)
    BY <2>5, <2>6 DEF ReceivedOK
  <2>8. c \in Calling
    BY <2>2, <2>6, ApplyCallSent DEF Sendable, plain
  <2> HIDE DEF c
  <2>9. calls'[i] = c \/ \E k \in DOMAIN calls : calls'[i] = calls[k]
    BY <2>3, <2>4, <2>8, Entries
  <2> QED BY <1>5, <2>7, <2>9 DEF ReceivedOK
<1>6. \A i \in DOMAIN calls' : calls'[i].op = "apply" =>
        Vouched(calls'[i].ids, calls'[i].marks, calls'[i].accepted, calls'[i].duplicates, server'.stored)
  BY <1>3, <1>5 DEF Trusts
<1>7. Received(memory') \subseteq server'.stored /\ (memory'.withdrawal # "none" \/ run'.pc = "delete" => Received(memory') = {})
  BY <1>2, <1>3, <1>4 DEF ReceivedOK
<1> QED BY <1>4, <1>6, <1>7 DEF ReceivedOK, Trusts

(* The server's answer vouches for what it holds; a deletion leaves nothing. *)
LEMMA ServerReceives ==
  ASSUME Inv, Silence, Knowing, ReceivedOK, ServerStep
  PROVE  ReceivedOK'
<1>0. UNCHANGED <<memory, calls>> /\ run \in Progress /\ run.batch \in SUBSET EventIds
  BY TaskUnderWay DEF ServerStep, ServerIngests, ServerTroubles, ServerMiscounts, ServerDeletes, Responds, store, storage
<1>1. ASSUME run.pc = "post", NEW response, NEW taken, NEW doubt, Responds(response, taken, doubt),
             response.kind = "committed" =>
               Vouched(run.batch, response.rejected, response.accepted, response.duplicates, taken)
      PROVE  ReceivedOK'
  <2>1. /\ run' = [run EXCEPT !.pc = "answered", !.response = response]
        /\ server' = [stored |-> server.stored \cup taken, ingested |-> server.ingested \cup taken, doubt |-> doubt]
    BY <1>1 DEF Responds
  <2>2. /\ run'.pc = "answered" /\ run'.response = response /\ run'.batch = run.batch
        /\ server'.stored = server.stored \cup taken
    BY <1>0, <2>1 DEF Progress
  <2>3. response.kind = "committed" =>
          Vouched(run'.batch, response.rejected, response.accepted, response.duplicates, server'.stored)
    BY <1>1, <2>2 DEF Vouched
  <2>4. \A i \in DOMAIN calls' : calls'[i].op = "apply" =>
          Vouched(calls'[i].ids, calls'[i].marks, calls'[i].accepted, calls'[i].duplicates, server'.stored)
    BY <1>0, <2>2 DEF ReceivedOK, Trusts, Vouched
  <2>5. Received(memory') \subseteq server'.stored /\ (memory'.withdrawal # "none" \/ run'.pc = "delete" => Received(memory') = {})
    BY <1>0, <2>2 DEF ReceivedOK
  <2> QED BY <2>2, <2>3, <2>4, <2>5 DEF ReceivedOK, Trusts
<1>2. CASE ServerIngests
  <2>1. PICK refused \in SUBSET run.batch, code \in {HostRejection, "ITEM_REFUSED"} :
          Responds([kind |-> "committed", accepted |-> Cardinality((run.batch \ refused) \ server.stored),
                    duplicates |-> Cardinality((run.batch \ refused) \cap server.stored),
                    rejected |-> [id \in refused |-> code]],
                   run.batch \ refused, server.doubt \ run.batch)
    BY <1>2 DEF ServerIngests
  <2> DEFINE rejected == [id \in refused |-> code]
             kept == run.batch \ refused
             response == [kind |-> "committed", accepted |-> Cardinality(kept \ server.stored),
                          duplicates |-> Cardinality(kept \cap server.stored), rejected |-> rejected]
  <2>2. DOMAIN rejected = refused
    OBVIOUS
  <2>3. run.pc = "post" /\ Responds(response, kept, server.doubt \ run.batch)
    BY <1>2, <2>1 DEF ServerIngests
  <2>4. response.rejected = rejected
    OBVIOUS
  <2> HIDE DEF rejected
  <2>5. Vouched(run.batch, response.rejected, response.accepted, response.duplicates, kept)
    BY <2>2, <2>4 DEF Vouched
  <2> HIDE DEF response, kept
  <2> QED BY <1>1, <2>3, <2>5
<1>3. CASE ServerTroubles
  <2>1. PICK kind \in Unusable \cup {"unknown"}, taken \in {{}, run.batch} :
          Responds([NoResponse EXCEPT !.kind = kind], taken,
                   server.doubt \cup (IF kind = "unknown" THEN run.batch ELSE {}))
    BY <1>3 DEF ServerTroubles
  <2> DEFINE response == [NoResponse EXCEPT !.kind = kind]
  <2>2. response.kind # "committed"
    BY NoRunTyped DEF Responses, Unusable, NoResponse
  <2>3. run.pc = "post"
    BY <1>3 DEF ServerTroubles
  <2> HIDE DEF response
  <2> QED BY <1>1, <2>1, <2>2, <2>3 DEF response
<1>4. CASE ServerMiscounts
  <2>1. PICK taken \in {{}, run.batch} :
          Responds([NoResponse EXCEPT !.kind = "committed", !.accepted = Cardinality(run.batch) + 1],
                   taken, server.doubt)
    BY <1>4 DEF ServerMiscounts
  <2> DEFINE counted == Cardinality(run.batch) + 1
             response == [NoResponse EXCEPT !.kind = "committed", !.accepted = counted]
  <2>2. NoResponse.rejected = NoMarkers /\ NoResponse.duplicates = 0
    BY DEF NoResponse
  <2>3. response.rejected = NoMarkers /\ response.duplicates = 0 /\ response.accepted = counted
    <3> HIDE DEF counted
    <3>1. NoResponse = [kind |-> "none", accepted |-> 0, duplicates |-> 0, rejected |-> NoMarkers]
      BY DEF NoResponse
    <3> QED BY <3>1
  <2>4. Vouched(run.batch, response.rejected, response.accepted, response.duplicates, taken)
    <3>1. run.batch \ DOMAIN NoMarkers = run.batch
      BY NoMarkersTyped
    <3>2. IsFiniteSet(run.batch)
      BY <1>0, EventIdsAssumption, FS_Subset
    <3>4. Cardinality(run.batch) \in Nat /\ counted = Cardinality(run.batch) + 1
      BY <3>2, FS_CardinalityType
    <3> HIDE DEF response, counted
    <3>3. response.accepted + response.duplicates # Cardinality(run.batch)
      BY <2>3, <3>4
    <3> QED BY <2>3, <3>1, <3>3 DEF Vouched
  <2>5. run.pc = "post" /\ Responds(response, taken, server.doubt)
    BY <1>4, <2>1 DEF ServerMiscounts
  <2> HIDE DEF response
  <2> QED BY <1>1, <2>4, <2>5
<1>5. CASE ServerDeletes
  <2>1. PICK kind \in {"deleted", "refused", "lost", "unknown"} :
          run' = [run EXCEPT !.pc = "answered", !.response.kind = kind]
    BY <1>5 DEF ServerDeletes
  <2>2. run.pc = "delete" /\ (server' = [server EXCEPT !.stored = {}] \/ server' = server)
    BY <1>5 DEF ServerDeletes
  <2>3. run'.pc = "answered" /\ run'.response.kind # "committed"
    BY <1>0, <2>1 DEF Progress, Responses
  <2>4. Received(memory') = {}
    BY <1>0, <2>2 DEF ReceivedOK
  <2>5. \A i \in DOMAIN calls' : calls'[i].op # "apply"
    <3>1. \A i \in DOMAIN calls : calls[i].by # "sender"
      BY <2>2 DEF Inv, SenderOK, Waiting, No, SenderWaits
    <3> QED BY <1>0, <3>1 DEF Inv, CallsOK, CallOK, JobOps
  <2> QED BY <2>3, <2>4, <2>5 DEF ReceivedOK
<1> QED BY <1>2, <1>3, <1>4, <1>5 DEF ServerStep

LEMMA NextReceives ==
  ASSUME Inv, Silence, Knowing, Inv', Knowing', ReceivedOK, Next
  PROVE  ReceivedOK'
<1>0. calls \in Seq(Calling)
  BY DEF Inv, TypesOK
<1>1. CASE StoreStep \/ SenderStep \/ ServerStep
  BY <1>1, StoreReceives, SenderReceives, ServerReceives
<1>2. ASSUME UNCHANGED <<memory, run>>, server' = server,
             calls' = calls \/ \E c \in Calling : c.op # "apply" /\ calls' = Append(calls, c)
      PROVE  ReceivedOK'
  <2>1. \A i \in DOMAIN calls' : calls'[i].op = "apply" => \E k \in DOMAIN calls : calls'[i] = calls[k]
    <3>1. CASE calls' = calls
      BY <3>1
    <3>2. ASSUME NEW c \in Calling, c.op # "apply", calls' = Append(calls, c)
          PROVE  \A i \in DOMAIN calls' : calls'[i].op = "apply" => \E k \in DOMAIN calls : calls'[i] = calls[k]
      BY <1>0, <3>2, Entries
    <3> QED BY <1>2, <3>1, <3>2
  <2> QED BY <1>2, <2>1, ReceivedStays
<1>3. CASE JobStep
  BY <1>2, <1>3, JobsGo DEF JobGoes, JobAsks, JobOps, storage
<1>4. CASE BackgroundScan
  <2>1. Call("scan", "scan", NewEvents) \in Calling /\ Call("scan", "scan", NewEvents).op = "scan"
    BY NewEventsAreEvents, CallTyped DEF BufferOps
  <2> QED BY <1>2, <1>4, <2>1 DEF BackgroundScan, Ask, outside, storage, strands
<1>5. CASE TimerFires \/ CoreAttached \/ Withhold \/ Grant \/ CoreDetached \/ OriginChanges \/ RecordCalled \/ ResendCalled
  BY <1>2, <1>5 DEF TimerFires, CoreAttached, Withhold, Grant, CoreDetached, OriginChanges, RecordCalled, ResendCalled,
     Enqueue, outside, store, storage, strands
<1>6. CASE Crash
  <2>1. PICK taken : server'.stored = server.stored \cup taken
    <3>1. PICK taken : server' = [stored |-> server.stored \cup taken, ingested |-> server.ingested \cup taken,
                doubt |-> (server.doubt \cup
                             (IF run.pc \in {"post", "answered"} THEN run.batch ELSE {})) \cap Held(disk)]
      BY <1>6, Zenon DEF Crash
    <3> QED BY <3>1
  <2>2. /\ memory' = disk /\ calls' = <<>> /\ run'.pc = "idle"
    BY <1>6, NoRunTriesNothing DEF Crash
  <2>3. CASE phase # "written"
    BY <2>1, <2>2, <2>3 DEF Silence, StoredOK, ReceivedOK
  <2>4. CASE phase = "written"
    <3>1. /\ calls # <<>> /\ disk = Result(Head(calls), memory)
          /\ Admitted(Head(calls), memory) /\ Changes(Head(calls), memory)
      BY <2>4 DEF Inv, WriteOK, Silence, StoredOK
    <3>2. PICK t : t = Result(Head(calls), memory)
      OBVIOUS
    <3>3. Received(t) \subseteq server.stored /\ (t.withdrawal # "none" \/ run.pc = "delete" => Received(t) = {})
      BY <3>1, <3>2, CallReceives
    <3>4. memory' = t
      BY <2>2, <3>1, <3>2
    <3> QED BY <2>1, <2>2, <3>3, <3>4 DEF ReceivedOK
  <2> QED BY <2>3, <2>4
<1> QED BY <1>1, <1>3, <1>4, <1>5, <1>6 DEF Next, Environment

LEMMA RecordsReceive ==
  ASSUME Inv, Silence, Knowing, Inv', Knowing', ReceivedOK, [RecordsNext]_<<vars, panelVars, list>>
  PROVE  ReceivedOK'
<1>1. CASE UNCHANGED <<server, storage, calls, run>>
  BY <1>1, ReceivedStays DEF storage
<1>2. CASE ListStep
  <2>1. UNCHANGED <<server, storage, calls, run>>
    BY <1>2 DEF ListStep, ListOpens, ListRefreshes, ListCloses, CheckClicked, RowsArrive, RowsLost,
          RemoteArrives, RemoteLost, HostLists, HostReads, ServerLists, ReadFails,
          Acts, Loses, Shows, Others, vars, outside, store, strands
  <2> QED BY <1>1, <2>1
<1>3. CASE ClientStep \/ HostShows \/ HostTakes
  <2>1. UNCHANGED <<server, storage, calls, run>>
    BY <1>3 DEF ClientStep, Opens, Refreshes, Closes, LoadArrives, LoadFails, Clicks, PostFails, ReplyArrives,
           HostShows, HostTakes, Enqueue, Sees, vars, outside, store, strands
  <2> QED BY <1>1, <2>1
<1>4. CASE HostMoves \/ OthersResend \/ HostStops
  BY <1>4, NextReceives DEF HostMoves, OthersResend, HostStops, Next, Environment
<1> QED BY <1>1, <1>2, <1>3, <1>4 DEF RecordsNext, vars, outside, store, strands

----------------------------------------------------------------------------
(* The list's own history *)

\* What the rows said of the server still stands.
IsRows(r) == r = [shown |-> r.shown, asks |-> r.asks, has |-> r.has, lacks |-> r.lacks]
StandsFor(r, stored) == IsRows(r) /\ r.has \subseteq stored /\ r.lacks \cap stored = {}
IsList(l) ==
  /\ l = [mounted |-> l.mounted, load |-> l.load, rows |-> l.rows, check |-> l.check, remote |-> l.remote]
  /\ l.load = [pc |-> l.load.pc, rows |-> l.load.rows]
  /\ l.check = [pc |-> l.check.pc, rows |-> l.check.rows, listed |-> l.check.listed, answer |-> l.check.answer]

\* What a check has read names nothing its rows call deleted, and it ends once.
CheckOK(c) ==
  /\ c.listed \cap c.rows.lacks = {}
  /\ c.pc # "answered" => c.answer = "none"
HistoryOK(l, stored) ==
  /\ IsList(l) /\ CheckOK(l.check)
  /\ StandsFor(l.load.rows, stored) /\ StandsFor(l.rows, stored) /\ StandsFor(l.check.rows, stored)

LEMMA NothingShown ==
  ASSUME NEW stored
  PROVE  /\ StandsFor(Unlisted, stored) /\ IsList(NoList) /\ HistoryOK(NoList, stored)
         /\ CheckOK(NoCheck) /\ NoCheck.pc = "none" /\ NoCheck.answer = "none"
BY DEF StandsFor, IsRows, Unlisted, IsList, NoList, NoLoading, NoCheck, CheckOK, HistoryOK

LEMMA SinceStands ==
  ASSUME NEW r, StandsFor(r, server.stored)
  PROVE  /\ StandsFor(Since(r), server'.stored)
         /\ Since(r).lacks \subseteq r.lacks
<1> DEFINE gone == server.stored \ server'.stored
           new == server'.stored \ server.stored
<1>1. Since(r) = [r EXCEPT !.has = @ \ gone, !.lacks = @ \ new]
  BY DEF Since
<1>2. PICK h : h = r.has \ gone
  OBVIOUS
<1>3. PICK k : k = r.lacks \ new
  OBVIOUS
<1>4. Since(r) = [r EXCEPT !.has = h, !.lacks = k]
  BY <1>1, <1>2, <1>3
<1>5. h \subseteq server'.stored /\ k \cap server'.stored = {} /\ k \subseteq r.lacks
  BY <1>2, <1>3 DEF StandsFor
<1> HIDE DEF gone, new
<1>6. /\ Since(r).has = h /\ Since(r).lacks = k /\ IsRows(Since(r))
  BY <1>4 DEF StandsFor, IsRows
<1> QED BY <1>5, <1>6 DEF StandsFor

LEMMA HistorySince ==
  ASSUME NEW l, HistoryOK(l, server.stored)
  PROVE  HistoryOK(ServerSince(l), server'.stored) /\ ServerSince(l).check.answer = l.check.answer
<1>1. PICK a : a = Since(l.load.rows)
  OBVIOUS
<1>2. PICK b : b = Since(l.rows)
  OBVIOUS
<1>3. PICK c : c = Since(l.check.rows)
  OBVIOUS
<1>4. ServerSince(l) = [l EXCEPT !.load.rows = a, !.rows = b, !.check.rows = c]
  BY <1>1, <1>2, <1>3 DEF ServerSince
<1>5. /\ StandsFor(a, server'.stored) /\ StandsFor(b, server'.stored) /\ StandsFor(c, server'.stored)
      /\ c.lacks \subseteq l.check.rows.lacks
  BY <1>1, <1>2, <1>3, SinceStands DEF HistoryOK
<1>6. PICK m : m = [l EXCEPT !.load.rows = a, !.rows = b, !.check.rows = c]
  OBVIOUS
<1>7. m.load = [l.load EXCEPT !.rows = a] /\ m.rows = b /\ m.check = [l.check EXCEPT !.rows = c]
  BY <1>6 DEF HistoryOK, IsList
<1>8. m = [mounted |-> m.mounted, load |-> m.load, rows |-> m.rows, check |-> m.check, remote |-> m.remote]
  BY <1>6 DEF HistoryOK, IsList
<1>9. m.load = [pc |-> m.load.pc, rows |-> m.load.rows] /\ m.load.rows = a
  BY <1>7 DEF HistoryOK, IsList
<1>10. /\ m.check = [pc |-> m.check.pc, rows |-> m.check.rows, listed |-> m.check.listed, answer |-> m.check.answer]
       /\ m.check.rows = c /\ m.check.pc = l.check.pc /\ m.check.listed = l.check.listed
       /\ m.check.answer = l.check.answer
  BY <1>7 DEF HistoryOK, IsList
<1>11. CheckOK(m.check)
  BY <1>5, <1>10 DEF CheckOK, HistoryOK
<1>12. HistoryOK(m, server'.stored)
  BY <1>5, <1>7, <1>8, <1>9, <1>10, <1>11 DEF HistoryOK, IsList
<1> QED BY <1>4, <1>6, <1>10, <1>12

(* What the client and the Host do with the list, the server standing still. *)
LEMMA ListStands ==
  ASSUME NEW l, NEW stored, HistoryOK(l, stored)
  PROVE  /\ HistoryOK(Reloads(l), stored) /\ HistoryOK(Checked(l), stored)
         /\ HistoryOK(ListInterrupted(l), stored)
         /\ \A r : StandsFor(r, stored) =>
              /\ HistoryOK([l EXCEPT !.load = NoLoading, !.rows = r], stored)
              /\ HistoryOK([l EXCEPT !.load = [pc |-> "answered", rows |-> r]], stored)
         /\ \A remote : HistoryOK([l EXCEPT !.check = NoCheck, !.remote = remote], stored)
         /\ \A kind : HistoryOK(Answered(l, kind), stored) /\ Answered(l, kind).check.answer = kind
         /\ HistoryOK([l EXCEPT !.check.pc = "reading"], stored) \/ l.check.answer # "none"
<1>1. /\ l = [mounted |-> l.mounted, load |-> l.load, rows |-> l.rows, check |-> l.check, remote |-> l.remote]
      /\ l.load = [pc |-> l.load.pc, rows |-> l.load.rows]
      /\ l.check = [pc |-> l.check.pc, rows |-> l.check.rows, listed |-> l.check.listed, answer |-> l.check.answer]
      /\ CheckOK(l.check)
      /\ StandsFor(l.load.rows, stored) /\ StandsFor(l.rows, stored) /\ StandsFor(l.check.rows, stored)
  BY DEF HistoryOK, IsList
<1>0. PICK mo, lo, ro, ch, re : l = [mounted |-> mo, load |-> lo, rows |-> ro, check |-> ch, remote |-> re]
  BY <1>1
<1>00. PICK pc, rd, li, an : ch = [pc |-> pc, rows |-> rd, listed |-> li, answer |-> an]
  BY <1>0, <1>1
<1>2. ASSUME NEW m,
             m = [mounted |-> m.mounted, load |-> m.load, rows |-> m.rows, check |-> m.check, remote |-> m.remote],
             m.load = [pc |-> m.load.pc, rows |-> m.load.rows],
             m.check = [pc |-> m.check.pc, rows |-> m.check.rows, listed |-> m.check.listed, answer |-> m.check.answer],
             StandsFor(m.load.rows, stored), StandsFor(m.rows, stored), StandsFor(m.check.rows, stored),
             CheckOK(m.check)
      PROVE  HistoryOK(m, stored)
  BY <1>2 DEF HistoryOK, IsList
<1>3. /\ NoLoading = [pc |-> "none", rows |-> Unlisted] /\ StandsFor(Unlisted, stored)
      /\ NoCheck = [pc |-> "none", rows |-> Unlisted, listed |-> {}, answer |-> "none"] /\ CheckOK(NoCheck)
  BY NothingShown DEF NoLoading, NoCheck
<1>4. HistoryOK(Reloads(l), stored)
  <2>1. PICK load : load = [NoLoading EXCEPT !.pc = "asked"]
    OBVIOUS
  <2>2. load = [pc |-> "asked", rows |-> Unlisted]
    BY <1>3, <2>1
  <2>3. PICK m : m = [l EXCEPT !.mounted = TRUE, !.load = load, !.remote = "none"]
    OBVIOUS
  <2>4. /\ m = [mounted |-> m.mounted, load |-> m.load, rows |-> m.rows, check |-> m.check, remote |-> m.remote]
        /\ m.load = load /\ m.rows = ro /\ m.check = ch
    BY ONLY <1>0, <2>3
  <2>5. Reloads(l) = m
    BY <2>1, <2>3 DEF Reloads
  <2>6. m.load = [pc |-> m.load.pc, rows |-> m.load.rows] /\ m.load.rows = Unlisted
    BY <2>2, <2>4
  <2> QED BY <1>0, <1>1, <1>2, <1>3, <2>4, <2>5, <2>6
<1>5. HistoryOK(Checked(l), stored)
  <2>1. CASE l.check.pc # "none"
    BY <2>1 DEF Checked
  <2>2. CASE l.check.pc = "none"
    <3>1. PICK check : check = [NoCheck EXCEPT !.pc = "asked", !.rows = l.rows]
      OBVIOUS
    <3>2. check = [pc |-> "asked", rows |-> l.rows, listed |-> {}, answer |-> "none"]
      BY <1>3, <3>1
    <3>3. Checked(l) = [mounted |-> l.mounted, load |-> l.load, rows |-> l.rows, check |-> check, remote |-> l.remote]
      BY <1>1, <2>2, <3>1 DEF Checked
    <3>4. CheckOK(check)
      BY <3>2 DEF CheckOK
    <3> QED BY <1>1, <1>2, <3>2, <3>3, <3>4
  <2> QED BY <2>1, <2>2
<1>6. HistoryOK(ListInterrupted(l), stored)
  <2>1. PICK rows : rows = (IF l.load.pc = "none" THEN l.rows ELSE Unlisted)
    OBVIOUS
  <2>2. PICK remote : remote = (IF l.check.pc = "none" THEN l.remote ELSE "unknown")
    OBVIOUS
  <2>3. PICK load, check : load = NoLoading /\ check = NoCheck
    OBVIOUS
  <2>5. PICK m : m = [l EXCEPT !.load = load, !.rows = rows, !.check = check, !.remote = remote]
    OBVIOUS
  <2>6. /\ m = [mounted |-> m.mounted, load |-> m.load, rows |-> m.rows, check |-> m.check, remote |-> m.remote]
        /\ m.load = load /\ m.rows = rows /\ m.check = check
    BY ONLY <1>0, <2>5
  <2>7. ListInterrupted(l) = m
    BY <2>1, <2>2, <2>3, <2>5 DEF ListInterrupted
  <2>8. m.load = NoLoading /\ m.check = NoCheck
    BY <2>3, <2>6
  <2>4. StandsFor(rows, stored)
    BY <1>1, <1>3, <2>1
  <2>9. m.load = [pc |-> m.load.pc, rows |-> m.load.rows] /\ m.load.rows = Unlisted
    BY <1>3, <2>8
  <2>10. /\ m.check = [pc |-> m.check.pc, rows |-> m.check.rows, listed |-> m.check.listed, answer |-> m.check.answer]
         /\ m.check.rows = Unlisted
    BY <1>3, <2>8
  <2> QED BY <1>2, <1>3, <2>4, <2>6, <2>7, <2>8, <2>9, <2>10
<1>7. ASSUME NEW r, StandsFor(r, stored)
      PROVE  /\ HistoryOK([l EXCEPT !.load = NoLoading, !.rows = r], stored)
             /\ HistoryOK([l EXCEPT !.load = [pc |-> "answered", rows |-> r]], stored)
  <2>0. PICK none : none = NoLoading
    OBVIOUS
  <2>1. PICK m : m = [l EXCEPT !.load = none, !.rows = r]
    OBVIOUS
  <2>6. /\ m = [mounted |-> m.mounted, load |-> m.load, rows |-> m.rows, check |-> m.check, remote |-> m.remote]
        /\ m.load = none /\ m.rows = r /\ m.check = ch
    BY ONLY <1>0, <2>1
  <2>7. m.load = [pc |-> m.load.pc, rows |-> m.load.rows] /\ m.load.rows = Unlisted
    BY <1>3, <2>0, <2>6
  <2>2. PICK load : load = [pc |-> "answered", rows |-> r]
    OBVIOUS
  <2>3. [l EXCEPT !.load = load] =
          [mounted |-> l.mounted, load |-> load, rows |-> l.rows, check |-> l.check, remote |-> l.remote]
    BY ONLY <1>0
  <2>4. HistoryOK([l EXCEPT !.load = NoLoading, !.rows = r], stored)
    BY <1>0, <1>1, <1>2, <1>3, <1>7, <2>0, <2>1, <2>6, <2>7
  <2>5. HistoryOK([l EXCEPT !.load = load], stored)
    BY <1>1, <1>2, <1>7, <2>2, <2>3
  <2> QED BY <2>2, <2>4, <2>5
<1>8. ASSUME NEW remote PROVE HistoryOK([l EXCEPT !.check = NoCheck, !.remote = remote], stored)
  <2>0. PICK none : none = NoCheck
    OBVIOUS
  <2>1. PICK m : m = [l EXCEPT !.check = none, !.remote = remote]
    OBVIOUS
  <2>2. /\ m = [mounted |-> m.mounted, load |-> m.load, rows |-> m.rows, check |-> m.check, remote |-> m.remote]
        /\ m.load = lo /\ m.rows = ro /\ m.check = none
    BY ONLY <1>0, <2>1
  <2>3. /\ m.check = [pc |-> m.check.pc, rows |-> m.check.rows, listed |-> m.check.listed, answer |-> m.check.answer]
        /\ m.check.rows = Unlisted
    BY <1>3, <2>0, <2>2
  <2> QED BY <1>0, <1>1, <1>2, <1>3, <2>0, <2>1, <2>2, <2>3
<1>9. ASSUME NEW kind PROVE HistoryOK(Answered(l, kind), stored) /\ Answered(l, kind).check.answer = kind
  <2>1. PICK m : m = [l EXCEPT !.check.pc = "answered", !.check.answer = kind]
    OBVIOUS
  <2>2. /\ m = [mounted |-> m.mounted, load |-> m.load, rows |-> m.rows, check |-> m.check, remote |-> m.remote]
        /\ m.load = lo /\ m.rows = ro
        /\ m.check = [ch EXCEPT !.pc = "answered", !.answer = kind]
    BY ONLY <1>0, <1>00, <2>1
  <2>3. /\ m.check = [pc |-> m.check.pc, rows |-> m.check.rows, listed |-> m.check.listed, answer |-> m.check.answer]
        /\ m.check.rows = rd /\ m.check.listed = li /\ m.check.answer = kind /\ m.check.pc = "answered"
    BY <1>00, <2>2
  <2>4. ch.rows = rd /\ ch.listed = li
    BY <1>00
  <2>5. CheckOK(m.check)
    BY <1>0, <1>1, <2>3, <2>4 DEF CheckOK
  <2> QED BY <1>0, <1>1, <1>2, <2>1, <2>2, <2>3, <2>4, <2>5 DEF Answered
<1>10. ASSUME l.check.answer = "none" PROVE HistoryOK([l EXCEPT !.check.pc = "reading"], stored)
  <2>1. PICK check : check = [pc |-> "reading", rows |-> l.check.rows, listed |-> l.check.listed, answer |-> "none"]
    OBVIOUS
  <2>2. [l.check EXCEPT !.pc = "reading"] = check
    BY <1>1, <1>10, <2>1
  <2>3. [l EXCEPT !.check.pc = "reading"] =
          [mounted |-> l.mounted, load |-> l.load, rows |-> l.rows, check |-> check, remote |-> l.remote]
    BY <1>1, <2>2
  <2>4. CheckOK(check)
    BY <1>1, <2>1 DEF CheckOK
  <2> QED BY <1>1, <1>2, <2>1, <2>3, <2>4
<1> QED BY <1>4, <1>5, <1>6, <1>7, <1>8, <1>9, <1>10

(* A page names what the server has; the last one leaves nothing unnamed. *)
Reads(l, page) == [l EXCEPT !.check.listed = @ \cup page]

LEMMA PageStands ==
  ASSUME NEW l, NEW stored, HistoryOK(l, stored), l.check.pc = "reading", NEW page \in SUBSET stored,
         NEW read, read = Reads(l, page)
  PROVE  /\ HistoryOK(read, stored) /\ read.check.answer = "none"
         /\ Answered(read, "available").check.listed = read.check.listed
         /\ Answered(read, "available").check.rows = read.check.rows
<1>1. PICK mo, lo, ro, ch, re : l = [mounted |-> mo, load |-> lo, rows |-> ro, check |-> ch, remote |-> re]
  BY DEF HistoryOK, IsList
<1>2. PICK pc, rd, li, an : ch = [pc |-> pc, rows |-> rd, listed |-> li, answer |-> an]
  BY <1>1 DEF HistoryOK, IsList
<1>3. PICK listed : listed = li \cup page
  OBVIOUS
<1>4. read = [l EXCEPT !.check.listed = listed]
  BY <1>1, <1>2, <1>3 DEF Reads
<1>5. PICK check : check = [ch EXCEPT !.listed = listed]
  OBVIOUS
<1>6. /\ read = [mounted |-> mo, load |-> lo, rows |-> ro, check |-> check, remote |-> re]
      /\ check = [pc |-> pc, rows |-> rd, listed |-> listed, answer |-> an]
  BY ONLY <1>1, <1>2, <1>4, <1>5
<1>7. /\ l.load = lo /\ l.rows = ro /\ l.check = ch
      /\ ch.pc = pc /\ ch.rows = rd /\ ch.listed = li /\ ch.answer = an
  BY <1>1, <1>2
<1>8. /\ read.load = lo /\ read.rows = ro /\ read.check = check /\ read.mounted = mo /\ read.remote = re
      /\ check.pc = pc /\ check.rows = rd /\ check.listed = listed /\ check.answer = an
  BY <1>6
<1>9. an = "none" /\ rd.lacks \cap stored = {} /\ li \cap rd.lacks = {}
  BY <1>7 DEF HistoryOK, CheckOK, StandsFor
<1>10. CheckOK(check)
  BY <1>3, <1>8, <1>9 DEF CheckOK
<1>11. HistoryOK(read, stored)
  BY <1>6, <1>7, <1>8, <1>10 DEF HistoryOK, IsList
<1>12. PICK m : m = Answered(read, "available")
  OBVIOUS
<1>13. m.check = [check EXCEPT !.pc = "answered", !.answer = "available"]
  BY ONLY <1>6, <1>12 DEF Answered
<1>14. m.check.listed = listed /\ m.check.rows = rd
  BY ONLY <1>6, <1>13
<1> QED BY <1>8, <1>9, <1>11, <1>12, <1>14

(* What the Host tells the list the server bears out. *)
LEMMA RowsStand ==
  ASSUME Silence, ReceivedOK
  PROVE  StandsFor(Rows, server.stored)
<1>1. Rows.has = Received(memory) /\ Rows.lacks = Deleted(memory) /\ IsRows(Rows)
  BY DEF Rows, IsRows
<1>2. Deleted(memory) \cap server.stored = {}
  BY DEF Deleted, Silence, ErasedOK, Erased
<1> QED BY <1>1, <1>2 DEF StandsFor, ReceivedOK

\* A listing that ends holds what the rows call received, and nothing deleted.
ListAgreeing ==
  list.check.pc = "reading" /\ list'.check.answer = "available" =>
    LET check == list'.check IN
    check.rows.has \subseteq check.listed /\ check.listed \cap check.rows.lacks = {}

LEMMA ListSteps ==
  ASSUME Silence, ReceivedOK, HistoryOK(list, server.stored), ListStep
  PROVE  HistoryOK(list', server.stored) /\ ListAgreeing
<1>1. /\ StandsFor(list.load.rows, server.stored) /\ StandsFor(Unlisted, server.stored)
      /\ list.check.pc = "reading" => list.check.answer = "none"
      /\ list.check.pc # "answered" => list.check.answer = "none"
  BY NothingShown DEF HistoryOK, CheckOK
<1>2. ASSUME HistoryOK(list', server.stored), list'.check = list.check \/ list'.check.answer # "available"
      PROVE  ListAgreeing
  BY <1>1, <1>2 DEF ListAgreeing
<1>3. ASSUME NEW l, HistoryOK(l, server.stored)
      PROVE  /\ Reloads(l).check = l.check
             /\ Checked(l).check = l.check \/ Checked(l).check.answer = "none"
             /\ \A r : [l EXCEPT !.load = NoLoading, !.rows = r].check = l.check
             /\ \A r : [l EXCEPT !.load = [pc |-> "answered", rows |-> r]].check = l.check
             /\ [l EXCEPT !.check.pc = "reading"].check.answer = l.check.answer
  <2>1. PICK mo, lo, ro, ch, re : l = [mounted |-> mo, load |-> lo, rows |-> ro, check |-> ch, remote |-> re]
    BY <1>3 DEF HistoryOK, IsList
  <2>2. PICK pc, rd, li, an : ch = [pc |-> pc, rows |-> rd, listed |-> li, answer |-> an]
    BY <1>3, <2>1 DEF HistoryOK, IsList
  <2>3. Reloads(l).check = l.check
    BY ONLY <2>1 DEF Reloads
  <2>4. Checked(l).check = l.check \/ Checked(l).check.answer = "none"
    BY ONLY <2>1 DEF Checked, NoCheck
  <2>5. \A r : [l EXCEPT !.load = NoLoading, !.rows = r].check = l.check
    BY ONLY <2>1
  <2>6. \A r : [l EXCEPT !.load = [pc |-> "answered", rows |-> r]].check = l.check
    BY ONLY <2>1
  <2>7. [l EXCEPT !.check.pc = "reading"].check.answer = l.check.answer
    BY ONLY <2>1, <2>2
  <2> QED BY <2>3, <2>4, <2>5, <2>6, <2>7
<1>4. CASE ListOpens \/ ListRefreshes
  <2>1. list' = Reloads(list)
    BY <1>4 DEF ListOpens, ListRefreshes, Acts
  <2> QED BY <1>2, <1>3, <2>1, ListStands
<1>5. CASE ListCloses
  <2>1. list' = NoList /\ NoList.check = NoCheck
    BY <1>5 DEF ListCloses, Acts, NoList
  <2> QED BY <1>2, <2>1, NothingShown
<1>6. CASE CheckClicked
  <2>1. list' = Checked(list)
    BY <1>6 DEF CheckClicked, Acts
  <2>2. list'.check = list.check \/ list'.check.answer = "none"
    BY <1>3, <2>1
  <2>3. HistoryOK(list', server.stored)
    BY <2>1, ListStands
  <2> QED BY <1>2, <2>2, <2>3
<1>7. CASE RowsArrive
  <2>1. PICK shown : shown = [list EXCEPT !.load = NoLoading, !.rows = list.load.rows]
    OBVIOUS
  <2>2. HistoryOK(shown, server.stored) /\ shown.check = list.check
    BY <1>1, <1>3, <2>1, ListStands
  <2>3. list' = shown \/ list' = Checked(shown)
    BY <1>7, <2>1 DEF RowsArrive, Shows
  <2>4. HistoryOK(Checked(shown), server.stored) /\ (Checked(shown).check = list.check \/ Checked(shown).check.answer = "none")
    BY <1>3, <2>2, ListStands
  <2> QED BY <1>2, <2>2, <2>3, <2>4
<1>8. CASE RowsLost
  <2>1. list' = [list EXCEPT !.load = NoLoading, !.rows = Unlisted]
    BY <1>8 DEF RowsLost, Loses
  <2>2. HistoryOK(list', server.stored) /\ list'.check = list.check
    BY <1>1, <1>3, <2>1, ListStands
  <2> QED BY <1>2, <2>2
<1>9. CASE RemoteArrives \/ RemoteLost
  <2>1. PICK remote : list' = [list EXCEPT !.check = NoCheck, !.remote = remote]
    BY <1>9 DEF RemoteArrives, RemoteLost, Shows, Loses
  <2>2. HistoryOK(list', server.stored)
    BY <2>1, ListStands
  <2>3. PICK mo, lo, ro, ch, re : list = [mounted |-> mo, load |-> lo, rows |-> ro, check |-> ch, remote |-> re]
    BY DEF HistoryOK, IsList
  <2>4. list'.check = NoCheck
    BY ONLY <2>1, <2>3
  <2>5. list'.check.answer = "none"
    BY ONLY <2>4 DEF NoCheck
  <2> QED BY <1>2, <2>2, <2>5
<1>10. CASE HostLists
  <2>1. PICK r : StandsFor(r, server.stored) /\ list' = [list EXCEPT !.load = [pc |-> "answered", rows |-> r]]
    BY <1>10, RowsStand DEF HostLists, Shows
  <2>2. HistoryOK(list', server.stored)
    BY <2>1, ListStands
  <2>3. list'.check = list.check
    BY <1>3, <2>1
  <2> QED BY <1>2, <2>2, <2>3
<1>11. CASE HostReads
  <2>1. /\ list.check.pc = "asked"
        /\ \/ \E kind \in {"unknown", "offline"} : list' = Answered(list, kind)
           \/ list' = [list EXCEPT !.check.pc = "reading"]
    BY <1>11 DEF HostReads, Shows
  <2>2. ASSUME NEW kind \in {"unknown", "offline"}, list' = Answered(list, kind)
        PROVE  HistoryOK(list', server.stored) /\ list'.check.answer # "available"
    BY <2>2, ListStands
  <2>3. ASSUME list' = [list EXCEPT !.check.pc = "reading"]
        PROVE  HistoryOK(list', server.stored) /\ list'.check.answer # "available"
    <3>1. list.check.answer = "none"
      BY <1>1, <2>1
    <3>2. HistoryOK(list', server.stored)
      BY <2>3, <3>1, ListStands
    <3> QED BY <1>3, <2>3, <3>1, <3>2
  <2> QED BY <1>2, <2>1, <2>2, <2>3
<1>12. CASE ServerLists
  <2>1. PICK page \in SUBSET (server.stored \ list.check.listed) :
          LET read == [list EXCEPT !.check.listed = @ \cup page]
              over == server.stored \subseteq read.check.listed IN
          list' = (IF over THEN Answered(read, "available") ELSE read)
    BY <1>12, Zenon DEF ServerLists, Shows
  <2>2. PICK read : read = Reads(list, page)
    OBVIOUS
  <2>3. /\ list' = (IF server.stored \subseteq read.check.listed THEN Answered(read, "available") ELSE read)
        /\ list.check.pc = "reading" /\ page \in SUBSET server.stored
    BY <1>12, <2>1, <2>2 DEF ServerLists, Reads
  <2>4. /\ HistoryOK(read, server.stored) /\ read.check.answer = "none"
        /\ Answered(read, "available").check.listed = read.check.listed
        /\ Answered(read, "available").check.rows = read.check.rows
    BY <2>2, <2>3, PageStands
  <2>5. HistoryOK(list', server.stored)
    BY <2>3, <2>4, ListStands
  <2>6. CASE ~(server.stored \subseteq read.check.listed)
    BY <1>2, <2>3, <2>4, <2>5, <2>6
  <2>7. CASE server.stored \subseteq read.check.listed
    <3>1. list'.check.listed = read.check.listed /\ list'.check.rows = read.check.rows
      BY <2>3, <2>4, <2>7
    <3>2. read.check.rows.has \subseteq server.stored /\ read.check.listed \cap read.check.rows.lacks = {}
      BY <2>4 DEF HistoryOK, StandsFor, CheckOK
    <3> QED BY <2>5, <2>7, <3>1, <3>2 DEF ListAgreeing
  <2> QED BY <2>6, <2>7, <2>5
<1>13. CASE ReadFails
  <2>1. list' = Answered(list, "unknown")
    BY <1>13 DEF ReadFails, Loses
  <2>2. HistoryOK(list', server.stored) /\ list'.check.answer = "unknown"
    BY <2>1, ListStands
  <2> QED BY <1>2, <2>2
<1> QED BY <1>4, <1>5, <1>6, <1>7, <1>8, <1>9, <1>10, <1>11, <1>12, <1>13 DEF ListStep

LEMMA RecordsAgree ==
  ASSUME Silence, ReceivedOK, HistoryOK(list, server.stored), [RecordsNext]_<<vars, panelVars, list>>
  PROVE  HistoryOK(list', server'.stored) /\ ListAgreeing
<1>0. list.check.pc = "reading" => list.check.answer = "none"
  BY DEF HistoryOK, CheckOK
<1>1. CASE UNCHANGED <<vars, panelVars, list>>
  <2>1. list' = list /\ server' = server
    BY <1>1 DEF vars, outside
  <2> QED BY <1>0, <2>1 DEF ListAgreeing
<1>2. CASE ListStep
  <2>1. server' = server
    BY <1>2 DEF ListStep, ListOpens, ListRefreshes, ListCloses, CheckClicked, RowsArrive, RowsLost,
          RemoteArrives, RemoteLost, HostLists, HostReads, ServerLists, ReadFails,
          Acts, Loses, Shows, Others, vars, outside
  <2> QED BY <1>2, <2>1, ListSteps
<1>3. CASE list' = ServerSince(list)
  BY <1>0, <1>3, HistorySince DEF ListAgreeing
<1>4. CASE list' = ServerSince(ListInterrupted(list))
  <2>1. HistoryOK(ListInterrupted(list), server.stored)
    BY ListStands
  <2>2. ListInterrupted(list).check = NoCheck
    <3>1. PICK mo, lo, ro, ch, re : list = [mounted |-> mo, load |-> lo, rows |-> ro, check |-> ch, remote |-> re]
      BY DEF HistoryOK, IsList
    <3> QED BY ONLY <3>1 DEF ListInterrupted
  <2> QED BY <1>4, <2>1, <2>2, HistorySince, NothingShown DEF ListAgreeing
<1> QED BY <1>1, <1>2, <1>3, <1>4 DEF RecordsNext

LEMMA StartsReceiving ==
  ASSUME RecordsInit
  PROVE  ReceivedOK /\ HistoryOK(list, server.stored)
<1>1. /\ memory = EmptySnapshot /\ calls = <<>> /\ list = NoList /\ run = NoRun
  BY DEF RecordsInit, PanelInit, Init
<1>2. Received(memory) = {} /\ run.pc = "idle"
  BY <1>1, EmptyIsGood, NoRunTriesNothing DEF Received
<1> QED BY <1>1, <1>2, NothingShown DEF ReceivedOK

\* While Core is attached only with no withdrawal recorded, a listing read page
\* by page agrees with the rows it was asked for: it names every event they call
\* received and none they call deleted, but for what the server took or deleted
\* since; a page that fails makes it unknown, never shorter (readRemote in
\* upload.js, transport.js:64, client/index.ts:298).
THEOREM SilentListing == RecordsSpec /\ []AttachedClear => ListingAgrees
<1>1. RecordsInit => ReceivedOK /\ HistoryOK(list, server.stored)
  BY StartsReceiving
<1>2. Inv /\ Silence /\ Knowing /\ Inv' /\ Knowing' /\ ReceivedOK /\ [RecordsNext]_<<vars, panelVars, list>> => ReceivedOK'
  BY RecordsReceive
<1>3. Silence /\ ReceivedOK /\ HistoryOK(list, server.stored) /\ [RecordsNext]_<<vars, panelVars, list>>
        => HistoryOK(list, server.stored)' /\ ListAgreeing
  BY RecordsAgree
<1>4. RecordsSpec /\ []AttachedClear => [][ListAgreeing]_list
  BY <1>1, <1>2, <1>3, StrandsKeepTheirProtocol, SilenceIsKept, KnowingIsKept, PTL DEF RecordsSpec
<1> QED BY <1>4 DEF ListingAgrees, ListAgreeing

\* Where consent changes or the Host restarts and Core comes back, but not both,
\* every listing agrees with the rows it was asked for.
THEOREM ListingsAgree ==
  ASSUME OneAttachment
  PROVE  RecordsSpec => ListingAgrees
BY AttachedWithoutWithdrawal, SilentListing, PTL
----------------------------------------------------------------------------
(* What is withheld is erased, or a job will erase it *)

AddsRows(c) == c.op \in {"put", "scan"}
Nothing(s, cs) == Held(s) = {} /\ \A k \in DOMAIN cs : ~AddsRows(cs[k])

\* A job of a withdrawal that has not erased the rows: every one in the queue,
\* but the one under way that has.
Awaiting(q, landed, i) == i \in DOMAIN q /\ q[i].kind = "withheld" /\ ~(landed /\ i = 1)

\* Without Core, there is nothing to erase.
Unlinked(linked, q, s, cs) ==
  ~linked => /\ s.withdrawal = "none" /\ Nothing(s, cs)
             /\ \A i \in DOMAIN q : q[i].kind \notin Consents

\* Consent comes back before it goes again; while it is there, each withdrawal
\* has its grant behind it.
Alternates(consent, q) ==
  /\ \A i, j \in DOMAIN q : i < j /\ q[i].kind = "withheld" /\ q[j].kind = "withheld" =>
       \E k \in DOMAIN q : i < k /\ k < j /\ q[k].kind = "granted"
  /\ consent = "granted" => \A i \in DOMAIN q : q[i].kind = "withheld" =>
       \E k \in DOMAIN q : i < k /\ q[k].kind = "granted"

\* A withdrawal that is recorded is cleared before another is to be, and before
\* consent counts: no job finds it recorded and leaves the rows.
Cleared(consent, q, landed, s) ==
  s.withdrawal # "none" =>
    /\ \A i \in DOMAIN q : Awaiting(q, landed, i) => \E k \in DOMAIN q : k < i /\ q[k].kind = "granted"
    /\ consent = "granted" => \E k \in DOMAIN q : q[k].kind = "granted"

\* Without consent nothing is held, or is about to be, or a job will erase it;
\* the last of these jobs, once it asked, has nothing added after.
Erases(consent, q, landed, asked, s, cs) ==
  consent = "withheld" =>
    /\ Nothing(s, cs) \/ \E i \in DOMAIN q : Awaiting(q, landed, i)
    /\ asked /\ (\A i \in DOMAIN q : Awaiting(q, landed, i) => i = 1) =>
         \A k, m \in DOMAIN cs : k < m /\ cs[k].op = "withdrawLocal" => ~AddsRows(cs[m])

Promised(consent, linked, q, landed, asked, s, cs) ==
  /\ Unlinked(linked, q, s, cs) /\ Alternates(consent, q)
  /\ Cleared(consent, q, landed, s) /\ Erases(consent, q, landed, asked, s, cs)

(* A job that looks at no consent joins the queue, or Core is there. *)
LEMMA PromisedOthers ==
  ASSUME NEW consent, NEW linked, NEW linkedThen, NEW q \in Seq(JobKinds), NEW landed, NEW asked, NEW s, NEW cs,
         Promised(consent, linked, q, landed, asked, s, cs), linked => linkedThen,
         NEW job \in JobKinds, job.kind \notin Consents
  PROVE  Promised(consent, linkedThen, Append(q, job), landed, asked, s, cs)
<1> DEFINE r == Append(q, job)
<1>1. /\ \A i \in DOMAIN r : (i \in DOMAIN q /\ r[i] = q[i]) \/ (i = Len(q) + 1 /\ r[i] = job)
      /\ \A i \in DOMAIN q : i \in DOMAIN r /\ r[i] = q[i]
      /\ Len(q) \in Nat /\ DOMAIN q = 1..Len(q)
  BY Appended
<1> HIDE DEF r
<1>2. job.kind # "withheld" /\ job.kind # "granted"
  BY DEF Consents
<1>3. \A i \in DOMAIN r : r[i].kind \in Consents => i \in DOMAIN q /\ r[i] = q[i]
  BY <1>1
<1>4. /\ \A i \in DOMAIN r : r[i].kind = "withheld" => i \in DOMAIN q /\ r[i] = q[i]
      /\ \A i \in DOMAIN q : q[i].kind = "granted" => i \in DOMAIN r /\ r[i] = q[i]
      /\ \A i : Awaiting(r, landed, i) <=> Awaiting(q, landed, i)
  BY <1>1, <1>2 DEF Awaiting
<1>5. Unlinked(linkedThen, r, s, cs)
  BY <1>3 DEF Promised, Unlinked
<1>6. Alternates(consent, r)
  BY <1>4 DEF Promised, Alternates
<1>7. Cleared(consent, r, landed, s)
  <2>1. ASSUME s.withdrawal # "none", NEW i \in DOMAIN r, Awaiting(r, landed, i)
        PROVE  \E k \in DOMAIN r : k < i /\ r[k].kind = "granted"
    <3>1. PICK k \in DOMAIN q : k < i /\ q[k].kind = "granted"
      BY <1>4, <2>1 DEF Promised, Cleared, Awaiting
    <3> QED BY <1>4, <3>1
  <2>2. ASSUME s.withdrawal # "none", consent = "granted" PROVE \E k \in DOMAIN r : r[k].kind = "granted"
    BY <1>4, <2>2 DEF Promised, Cleared
  <2> QED BY <2>1, <2>2 DEF Cleared
<1>8. Erases(consent, r, landed, asked, s, cs)
  BY <1>1, <1>4 DEF Promised, Erases
<1> QED BY <1>5, <1>6, <1>7, <1>8 DEF Promised, r

(* Consent goes, or comes back: the job joins the queue. *)
LEMMA PromisedWithheld ==
  ASSUME NEW linked, linked, NEW q \in Seq(JobKinds), NEW landed, NEW asked, landed \/ asked => q # <<>>, NEW s, NEW cs,
         Promised("granted", linked, q, landed, asked, s, cs), NEW job \in JobKinds, job.kind = "withheld"
  PROVE  Promised("withheld", linked, Append(q, job), landed, asked, s, cs)
<1> DEFINE r == Append(q, job)
           n == Len(q) + 1
<1>1. /\ \A i \in DOMAIN r : (i \in DOMAIN q /\ r[i] = q[i] /\ i < n) \/ (i = n /\ r[i] = job)
      /\ \A i \in DOMAIN q : i \in DOMAIN r /\ r[i] = q[i] /\ i < n
      /\ n \in Nat /\ n \in DOMAIN r /\ r[n] = job /\ DOMAIN q \subseteq Nat /\ (q # <<>> => n # 1)
  BY Appended, Dropped
<1> HIDE DEF r, n
<1>2. /\ \A i : Awaiting(r, landed, i) => Awaiting(q, landed, i) \/ i = n
      /\ Awaiting(r, landed, n)
      /\ \A i \in DOMAIN q : q[i].kind = "granted" => i \in DOMAIN r /\ r[i] = q[i]
  BY <1>1 DEF Awaiting
<1>3. Unlinked(linked, r, s, cs)
  BY DEF Unlinked
<1>4. Alternates("withheld", r)
  <2>1. ASSUME NEW i \in DOMAIN r, NEW j \in DOMAIN r, i < j, r[i].kind = "withheld", r[j].kind = "withheld"
        PROVE  \E k \in DOMAIN r : i < k /\ k < j /\ r[k].kind = "granted"
    <3>1. i \in DOMAIN q /\ r[i] = q[i]
      BY <1>1, <2>1
    <3>2. CASE j \in DOMAIN q
      <4>1. PICK k \in DOMAIN q : i < k /\ k < j /\ q[k].kind = "granted"
        BY <1>1, <2>1, <3>1, <3>2 DEF Promised, Alternates
      <4> QED BY <1>1, <4>1
    <3>3. CASE j = n
      <4>1. PICK k \in DOMAIN q : i < k /\ q[k].kind = "granted"
        BY <2>1, <3>1 DEF Promised, Alternates
      <4> QED BY <1>1, <3>3, <4>1
    <3> QED BY <1>1, <3>2, <3>3
  <2> QED BY <2>1 DEF Alternates
<1>5. Cleared("withheld", r, landed, s)
  <2>1. ASSUME s.withdrawal # "none", NEW i \in DOMAIN r, Awaiting(r, landed, i)
        PROVE  \E k \in DOMAIN r : k < i /\ r[k].kind = "granted"
    <3>1. CASE i = n
      <4>1. PICK k \in DOMAIN q : q[k].kind = "granted"
        BY <2>1 DEF Promised, Cleared
      <4> QED BY <1>1, <3>1, <4>1
    <3>2. CASE Awaiting(q, landed, i)
      <4>1. PICK k \in DOMAIN q : k < i /\ q[k].kind = "granted"
        BY <2>1, <3>2 DEF Promised, Cleared, Awaiting
      <4> QED BY <1>1, <4>1
    <3> QED BY <1>2, <2>1, <3>1, <3>2
  <2> QED BY <2>1 DEF Cleared
<1>6. Erases("withheld", r, landed, asked, s, cs)
  <2>1. asked => n # 1
    BY <1>1
  <2> QED BY <1>1, <1>2, <2>1 DEF Erases
<1> QED BY <1>3, <1>4, <1>5, <1>6 DEF Promised, r

LEMMA PromisedGranted ==
  ASSUME NEW consent, NEW linked, linked, NEW q \in Seq(JobKinds), NEW landed, NEW asked, NEW s, NEW cs,
         Promised(consent, linked, q, landed, asked, s, cs), NEW job \in JobKinds, job.kind = "granted"
  PROVE  Promised("granted", linked, Append(q, job), landed, asked, s, cs)
<1> DEFINE r == Append(q, job)
           n == Len(q) + 1
<1>1. /\ \A i \in DOMAIN r : (i \in DOMAIN q /\ r[i] = q[i] /\ i < n) \/ (i = n /\ r[i] = job)
      /\ \A i \in DOMAIN q : i \in DOMAIN r /\ r[i] = q[i] /\ i < n
      /\ n \in Nat /\ n \in DOMAIN r /\ r[n] = job /\ DOMAIN q \subseteq Nat
  BY Appended
<1> HIDE DEF r, n
<1>2. \A i : Awaiting(r, landed, i) => Awaiting(q, landed, i)
  BY <1>1 DEF Awaiting
<1>3. \A i \in DOMAIN r : r[i].kind = "withheld" => i \in DOMAIN q /\ r[i] = q[i] /\ i < n
  BY <1>1
<1>4. Unlinked(linked, r, s, cs)
  BY DEF Unlinked
<1>5. Alternates("granted", r)
  <2>1. ASSUME NEW i \in DOMAIN r, NEW j \in DOMAIN r, i < j, r[i].kind = "withheld", r[j].kind = "withheld"
        PROVE  \E k \in DOMAIN r : i < k /\ k < j /\ r[k].kind = "granted"
    <3>1. PICK k \in DOMAIN q : i < k /\ k < j /\ q[k].kind = "granted"
      BY <1>3, <2>1 DEF Promised, Alternates
    <3> QED BY <1>1, <3>1
  <2>2. \A i \in DOMAIN r : r[i].kind = "withheld" => \E k \in DOMAIN r : i < k /\ r[k].kind = "granted"
    BY <1>1, <1>3
  <2> QED BY <2>1, <2>2 DEF Alternates
<1>6. Cleared("granted", r, landed, s)
  <2>1. ASSUME s.withdrawal # "none", NEW i \in DOMAIN r, Awaiting(r, landed, i)
        PROVE  \E k \in DOMAIN r : k < i /\ r[k].kind = "granted"
    <3>1. PICK k \in DOMAIN q : k < i /\ q[k].kind = "granted"
      BY <1>2, <2>1 DEF Promised, Cleared, Awaiting
    <3> QED BY <1>1, <3>1
  <2> QED BY <1>1, <2>1 DEF Cleared
<1>7. Erases("granted", r, landed, asked, s, cs)
  BY DEF Erases
<1> QED BY <1>4, <1>5, <1>6, <1>7 DEF Promised, r

(* Without Core no job tells. *)
LEMMA PromisedUnlinked ==
  ASSUME NEW consent, NEW consentThen, NEW linked, ~linked, NEW q, NEW landed, NEW asked, NEW s, NEW cs,
         Promised(consent, linked, q, landed, asked, s, cs)
  PROVE  Promised(consentThen, linked, q, landed, asked, s, cs)
<1>1. \A i \in DOMAIN q : q[i].kind # "withheld"
  BY DEF Promised, Unlinked, Consents
<1>2. Nothing(s, cs) /\ s.withdrawal = "none"
  BY DEF Promised, Unlinked
<1> QED BY <1>1, <1>2 DEF Promised, Unlinked, Alternates, Cleared, Erases, Nothing

(* The head of the queue is over. *)
LEMMA PromisedOver ==
  ASSUME NEW consent, NEW linked, NEW q \in Seq(JobKinds), q # <<>>, NEW landed, NEW asked, NEW s, NEW cs,
         Promised(consent, linked, q, landed, asked, s, cs),
         Head(q).kind = "withheld" => landed,
         Head(q).kind = "granted" => s.withdrawal = "none"
  PROVE  Promised(consent, linked, Tail(q), FALSE, FALSE, s, cs)
<1> DEFINE r == Tail(q)
<1>1. /\ \A i \in DOMAIN r : i + 1 \in DOMAIN q /\ r[i] = q[i + 1] /\ i \in Nat /\ i + 1 # 1
      /\ \A i \in DOMAIN q : i # 1 => i - 1 \in DOMAIN r /\ r[i - 1] = q[i] /\ i \in Nat
      /\ Head(q) = q[1] /\ 1 \in DOMAIN q /\ DOMAIN q \subseteq Nat \ {0}
  BY Dropped
<1> HIDE DEF r
<1>2. \A i \in DOMAIN q : Awaiting(q, landed, i) => i # 1 /\ Awaiting(r, FALSE, i - 1)
  BY <1>1 DEF Awaiting
<1>3. \A i \in DOMAIN r : Awaiting(r, FALSE, i) => Awaiting(q, landed, i + 1)
  BY <1>1 DEF Awaiting
<1>4. Unlinked(linked, r, s, cs)
  BY <1>1 DEF Promised, Unlinked
<1>5. Alternates(consent, r)
  <2>1. ASSUME NEW i \in DOMAIN r, NEW j \in DOMAIN r, i < j, r[i].kind = "withheld", r[j].kind = "withheld"
        PROVE  \E k \in DOMAIN r : i < k /\ k < j /\ r[k].kind = "granted"
    <3>1. /\ i + 1 \in DOMAIN q /\ q[i + 1].kind = "withheld" /\ i \in Nat
          /\ j + 1 \in DOMAIN q /\ q[j + 1].kind = "withheld" /\ j \in Nat
      BY <1>1, <2>1
    <3>2. i + 1 < j + 1
      BY <2>1, <3>1
    <3>3. PICK k \in DOMAIN q : i + 1 < k /\ k < j + 1 /\ q[k].kind = "granted"
      BY <3>1, <3>2 DEF Promised, Alternates
    <3>4. k \in Nat
      BY <1>1
    <3>5. i < k - 1 /\ k - 1 < j /\ k # 1
      BY <3>1, <3>3, <3>4
    <3>6. k - 1 \in DOMAIN r /\ r[k - 1] = q[k]
      BY <1>1, <3>5
    <3> QED BY <3>3, <3>5, <3>6
  <2>2. ASSUME consent = "granted", NEW i \in DOMAIN r, r[i].kind = "withheld"
        PROVE  \E k \in DOMAIN r : i < k /\ r[k].kind = "granted"
    <3>1. PICK k \in DOMAIN q : i + 1 < k /\ q[k].kind = "granted"
      BY <1>1, <2>2 DEF Promised, Alternates
    <3>2. i \in Nat /\ k \in Nat
      BY <1>1, <2>2, <3>1
    <3>3. i < k - 1 /\ k # 1
      BY <3>1, <3>2
    <3> QED BY <1>1, <3>1, <3>3
  <2> QED BY <2>1, <2>2 DEF Alternates
<1>6. Cleared(consent, r, FALSE, s)
  <2>1. ASSUME s.withdrawal # "none", NEW k \in DOMAIN q, q[k].kind = "granted" PROVE k # 1
    BY <1>1, <2>1
  <2>2. ASSUME s.withdrawal # "none", NEW i \in DOMAIN r, Awaiting(r, FALSE, i)
        PROVE  \E k \in DOMAIN r : k < i /\ r[k].kind = "granted"
    <3>1. PICK k \in DOMAIN q : k < i + 1 /\ q[k].kind = "granted"
      BY <1>1, <1>3, <2>2 DEF Promised, Cleared
    <3>2. k # 1 /\ k \in Nat /\ i \in Nat
      BY <1>1, <2>1, <2>2, <3>1
    <3>3. k - 1 < i
      BY <3>1, <3>2
    <3> QED BY <1>1, <3>1, <3>2, <3>3
  <2>3. ASSUME s.withdrawal # "none", consent = "granted" PROVE \E k \in DOMAIN r : r[k].kind = "granted"
    <3>1. PICK k \in DOMAIN q : q[k].kind = "granted"
      BY <2>3 DEF Promised, Cleared
    <3>2. k # 1
      BY <2>1, <2>3, <3>1
    <3>3. k - 1 \in DOMAIN r /\ r[k - 1] = q[k]
      BY <1>1, <3>2
    <3> QED BY <3>1, <3>3
  <2> QED BY <2>2, <2>3 DEF Cleared
<1>7. Erases(consent, r, FALSE, FALSE, s, cs)
  <2>1. ASSUME NEW i \in DOMAIN q, Awaiting(q, landed, i) PROVE \E j \in DOMAIN r : Awaiting(r, FALSE, j)
    BY <1>1, <1>2, <2>1
  <2> QED BY <2>1 DEF Promised, Erases
<1> QED BY <1>4, <1>5, <1>6, <1>7 DEF Promised, r

(* Calls: one more, and one less. *)
LEMMA PromisedCall ==
  ASSUME NEW consent, NEW linked, NEW q, NEW landed, NEW asked, NEW s, NEW cs \in Seq(Calling),
         Promised(consent, linked, q, landed, asked, s, cs), NEW c \in Calling, c.op # "withdrawLocal",
         AddsRows(c) => linked /\ consent = "granted"
  PROVE  Promised(consent, linked, q, landed, asked, s, Append(cs, c))
<1> DEFINE d == Append(cs, c)
           n == Len(cs) + 1
<1>1. /\ \A i \in DOMAIN d : (i \in DOMAIN cs /\ d[i] = cs[i] /\ i < n) \/ (i = n /\ d[i] = c)
      /\ DOMAIN cs \subseteq Nat /\ n \in Nat
  BY Appended
<1> HIDE DEF d, n
<1>2. ASSUME ~AddsRows(c) PROVE Nothing(s, cs) => Nothing(s, d)
  BY <1>1, <1>2 DEF Nothing
<1>3. Unlinked(linked, q, s, d)
  BY <1>2 DEF Promised, Unlinked
<1>4. Erases(consent, q, landed, asked, s, d)
  <2>1. CASE consent # "withheld"
    BY <2>1 DEF Erases
  <2>2. ASSUME consent = "withheld" PROVE Erases(consent, q, landed, asked, s, d)
    <3>1. ~AddsRows(c)
      BY <2>2
    <3>2. ASSUME asked, \A i \in DOMAIN q : Awaiting(q, landed, i) => i = 1,
                 NEW k \in DOMAIN d, NEW m \in DOMAIN d, k < m, d[k].op = "withdrawLocal"
          PROVE  ~AddsRows(d[m])
      <4>1. CASE m = n
        BY <1>1, <3>1, <4>1
      <4>2. CASE m \in DOMAIN cs /\ d[m] = cs[m]
        <5>1. k \in DOMAIN cs /\ d[k] = cs[k]
          BY <1>1, <3>2, <4>2
        <5> QED BY <2>2, <3>2, <4>2, <5>1 DEF Promised, Erases
      <4> QED BY <1>1, <4>1, <4>2
    <3> QED BY <1>2, <2>2, <3>1, <3>2 DEF Promised, Erases
  <2> QED BY <2>1, <2>2
<1> QED BY <1>3, <1>4 DEF Promised, d

LEMMA PromisedAnswer ==
  ASSUME NEW consent, NEW linked, NEW q, NEW landed, NEW asked, NEW s, NEW then, NEW cs \in Seq(Calling), cs # <<>>,
         Promised(consent, linked, q, landed, asked, s, cs),
         then.withdrawal # "none" => s.withdrawal # "none",
         Held(s) = {} /\ ~AddsRows(Head(cs)) => Held(then) = {}
  PROVE  Promised(consent, linked, q, landed, asked, then, Tail(cs))
<1> DEFINE d == Tail(cs)
<1>1. /\ \A i \in DOMAIN d : i + 1 \in DOMAIN cs /\ d[i] = cs[i + 1] /\ i \in Nat
      /\ Head(cs) = cs[1] /\ 1 \in DOMAIN cs
  BY Dropped
<1> HIDE DEF d
<1>2. Nothing(s, cs) => Nothing(then, d)
  BY <1>1 DEF Nothing
<1>3. Unlinked(linked, q, then, d)
  BY <1>2 DEF Promised, Unlinked
<1>4. Cleared(consent, q, landed, then)
  BY DEF Promised, Cleared
<1>5. Erases(consent, q, landed, asked, then, d)
  <2>1. ASSUME consent = "withheld", asked, \A i \in DOMAIN q : Awaiting(q, landed, i) => i = 1,
               NEW k \in DOMAIN d, NEW m \in DOMAIN d, k < m, d[k].op = "withdrawLocal"
        PROVE  ~AddsRows(d[m])
    <3>1. k + 1 < m + 1
      BY <1>1, <2>1
    <3> QED BY <1>1, <2>1, <3>1 DEF Promised, Erases
  <2> QED BY <1>2, <2>1 DEF Promised, Erases
<1> QED BY <1>3, <1>4, <1>5 DEF Promised, d

(* The job asks that the rows go, and they are gone. *)
LEMMA PromisedErasure ==
  ASSUME NEW consent, NEW linked, NEW q, NEW asked, NEW s, NEW cs \in Seq(Calling),
         Promised(consent, linked, q, FALSE, asked, s, cs), \A i \in DOMAIN cs : cs[i].op # "withdrawLocal",
         NEW c \in Calling, c.op = "withdrawLocal"
  PROVE  Promised(consent, linked, q, FALSE, TRUE, s, Append(cs, c))
<1> DEFINE d == Append(cs, c)
           n == Len(cs) + 1
<1>1. /\ \A i \in DOMAIN d : (i \in DOMAIN cs /\ d[i] = cs[i] /\ i < n) \/ (i = n /\ d[i] = c)
      /\ DOMAIN cs \subseteq Nat /\ n \in Nat
  BY Appended
<1> HIDE DEF d, n
<1>2. Nothing(s, cs) => Nothing(s, d)
  BY <1>1 DEF Nothing, AddsRows
<1>3. \A k, m \in DOMAIN d : ~(k < m /\ d[k].op = "withdrawLocal")
  BY <1>1
<1>4. Erases(consent, q, FALSE, TRUE, s, d)
  BY <1>2, <1>3 DEF Promised, Erases
<1>5. Unlinked(linked, q, s, d)
  BY <1>2 DEF Promised, Unlinked
<1> QED BY <1>4, <1>5 DEF Promised, d

LEMMA PromisedErased ==
  ASSUME NEW consent, NEW linked, NEW q \in Seq(JobKinds), q # <<>>, Head(q).kind = "withheld", NEW s, NEW then,
         NEW cs \in Seq(Calling), cs # <<>>, Head(cs).op = "withdrawLocal",
         Promised(consent, linked, q, FALSE, TRUE, s, cs), Held(then) = {}
  PROVE  Promised(consent, linked, q, TRUE, TRUE, then, Tail(cs))
<1> DEFINE d == Tail(cs)
<1>1. /\ \A i \in DOMAIN d : i + 1 \in DOMAIN cs /\ d[i] = cs[i + 1] /\ i \in Nat /\ 1 < i + 1
      /\ Head(cs) = cs[1] /\ 1 \in DOMAIN cs
  BY Dropped
<1>2. Head(q) = q[1] /\ 1 \in DOMAIN q /\ DOMAIN q \subseteq Nat \ {0}
  BY Dropped
<1> HIDE DEF d
<1>3. Awaiting(q, FALSE, 1) /\ \A i \in DOMAIN q : Awaiting(q, TRUE, i) <=> Awaiting(q, FALSE, i) /\ i # 1
  BY <1>2 DEF Awaiting
<1>4. linked
  BY <1>2 DEF Promised, Unlinked, Consents
<1>5. Cleared(consent, q, TRUE, then)
  <2>1. ASSUME NEW i \in DOMAIN q, Awaiting(q, TRUE, i) PROVE \E k \in DOMAIN q : k < i /\ q[k].kind = "granted"
    <3>1. 1 < i /\ q[i].kind = "withheld"
      BY <1>2, <1>3, <2>1 DEF Awaiting
    <3> QED BY <1>2, <3>1 DEF Promised, Alternates
  <2>2. consent = "granted" => \E k \in DOMAIN q : q[k].kind = "granted"
    BY <1>2 DEF Promised, Alternates
  <2> QED BY <2>1, <2>2 DEF Cleared
<1>6. Erases(consent, q, TRUE, TRUE, then, d)
  <2>1. ASSUME consent = "withheld", \A i \in DOMAIN q : ~Awaiting(q, TRUE, i) PROVE Nothing(then, d)
    <3>1. \A i \in DOMAIN q : Awaiting(q, FALSE, i) => i = 1
      BY <1>3, <2>1
    <3>2. \A k, m \in DOMAIN cs : k < m /\ cs[k].op = "withdrawLocal" => ~AddsRows(cs[m])
      BY <2>1, <3>1 DEF Promised, Erases
    <3> QED BY <1>1, <3>2 DEF Nothing
  <2>2. ASSUME consent = "withheld", \A i \in DOMAIN q : Awaiting(q, TRUE, i) => i = 1
        PROVE  \A k, m \in DOMAIN d : k < m /\ d[k].op = "withdrawLocal" => ~AddsRows(d[m])
    <3>1. Nothing(then, d)
      BY <1>3, <2>1, <2>2
    <3> QED BY <3>1 DEF Nothing
  <2> QED BY <2>1, <2>2 DEF Erases
<1> QED BY <1>4, <1>5, <1>6 DEF Promised, Unlinked, d

(* The head goes on, having erased no less. *)
LEMMA PromisedOn ==
  ASSUME NEW consent, NEW linked, NEW q \in Seq(JobKinds), q # <<>>, NEW landed, NEW asked, NEW landedThen, NEW s, NEW cs,
         Promised(consent, linked, q, landed, asked, s, cs), landedThen = landed \/ Head(q).kind # "withheld"
  PROVE  Promised(consent, linked, q, landedThen, FALSE, s, cs)
<1>1. Head(q) = q[1]
  BY Dropped
<1>2. \A i \in DOMAIN q : Awaiting(q, landedThen, i) <=> Awaiting(q, landed, i)
  BY <1>1 DEF Awaiting
<1> QED BY <1>2 DEF Promised, Cleared, Erases

(* The same, of the state *)

Landed == (jpc = "local" /\ answer["job"] = "ok") \/ jpc = "task"
PlaceOK ==
  /\ jpc \in {"tail", "local"} => Head(jobs).kind = "withheld"
  /\ jpc = "clear" => Head(jobs).kind = "granted"
  /\ jpc = "scan" => Head(jobs).kind \in {"granted", "attach"}
  /\ jpc = "put" => Head(jobs).kind = "record"
  /\ jpc = "reopen" => Head(jobs).kind = "resend"
  /\ jpc = "task" => Head(jobs).kind \in {"withheld", "resend"}
Promise == Promised(core.consent, core.linked, jobs, Landed, jpc = "local", memory, calls)

\* The rows go when a withdrawal asks, and a withdrawal is cleared when consent
\* comes back: neither write is lost.
ErasuresLand == jpc \in {"local", "clear"} => answer["job"] \notin Errors

\* What a step that is not a job's, nor of Core or the store, does to them.
SameConsent == core'.consent = core.consent /\ core'.linked = core.linked
Elsewhere ==
  /\ SameConsent /\ UNCHANGED <<jobs, jpc, memory, disk, phase, next>> /\ answer'["job"] = answer["job"]
  /\ calls' = calls \/ \E c \in Calling : c.op \notin {"put", "scan", "withdrawLocal"} /\ calls' = Append(calls, c)
HeadServed ==
  /\ SameConsent /\ UNCHANGED <<memory, disk, phase, next, calls>>
  /\ jpc = "task" /\ jobs # <<>> /\ jobs' = Tail(jobs) /\ jpc' = "idle"
OthersQueued ==
  /\ SameConsent /\ UNCHANGED <<jpc, store>>
  /\ \E job \in JobKinds : job.kind \in {"record", "resend"} /\ jobs' = Append(jobs, job)

LEMMA ReporterMoves ==
  ASSUME Inv, ViewOK, Setting, [RecordsNext]_<<vars, panelVars, list>>
  PROVE  \/ Elsewhere \/ HeadServed \/ OthersQueued
         \/ StoreStep \/ JobStep \/ BackgroundScan
         \/ CoreAttached \/ CoreDetached \/ Withhold \/ Grant \/ Crash
<1>1. CASE UNCHANGED <<core, store, jobs, jpc>>
  BY <1>1 DEF Elsewhere, SameConsent, store, storage
<1>2. CASE ListStep \/ ClientStep \/ HostShows
  <2>1. UNCHANGED <<core, store, jobs, jpc>>
    BY <1>2 DEF ListStep, ListOpens, ListRefreshes, ListCloses, CheckClicked, RowsArrive, RowsLost,
          RemoteArrives, RemoteLost, HostLists, HostReads, ServerLists, ReadFails,
          Acts, Loses, Shows, Others, ClientStep, Opens, Refreshes, Closes, LoadArrives, LoadFails, Clicks,
          PostFails, ReplyArrives, HostShows, Sees, vars, outside, strands
  <2> QED BY <1>1, <2>1
<1>3. CASE HostTakes
  <2>1. Job("resend", view.post.ids) \in JobKinds /\ Job("resend", view.post.ids).kind = "resend"
    BY DEF ViewOK, Job, JobKinds
  <2> QED BY <1>3, <2>1 DEF HostTakes, Enqueue, OthersQueued, SameConsent
<1>4. CASE TimerFires \/ ServerStep \/ OriginChanges
  <2>1. core'.consent = core.consent /\ core'.linked = core.linked
    BY <1>4 DEF TimerFires, ServerStep, ServerIngests, ServerTroubles, ServerMiscounts, ServerDeletes, Responds,
       OriginChanges, outside, Setting
  <2>2. UNCHANGED <<store, jobs, jpc>>
    BY <1>4 DEF TimerFires, ServerStep, ServerIngests, ServerTroubles, ServerMiscounts, ServerDeletes, Responds,
       OriginChanges, strands
  <2> QED BY <2>1, <2>2 DEF Elsewhere, SameConsent, store, storage
<1>5. CASE SenderStep
  <2>1. SenderGoes \/ SenderLeaves
    BY <1>5, AutomaticSteps, AnswerSteps, ResendSteps, WithdrawalSteps DEF SenderStep
  <2>2. core' = core
    BY <1>5, SenderOutside
  <2>3. CASE SenderGoes
    <3>1. answer'["job"] = answer["job"]
      BY <2>3 DEF SenderGoes, AnswerRead, Inv, TypesOK
    <3>2. calls' = calls \/ \E c \in Calling : c.op \notin {"put", "scan", "withdrawLocal"} /\ calls' = Append(calls, c)
      BY <2>3 DEF SenderGoes, SenderAsks, Sendable, SenderOps
    <3> QED BY <2>2, <2>3, <3>1, <3>2 DEF SenderGoes, Elsewhere, SameConsent, storage
  <2>4. CASE SenderLeaves
    <3>1. answer'["job"] = answer["job"]
      BY <2>4 DEF SenderLeaves, AnswerRead, Inv, TypesOK
    <3>2. Head(tail) = tail[1] /\ 1 \in DOMAIN tail
      BY <2>4, Dropped DEF SenderLeaves, Inv, TypesOK
    <3>3. Head(tail).by = "job" => jpc = "task" /\ jobs # <<>>
      BY <3>2 DEF Inv, TailOK, No, JobsOK
    <3> QED BY <2>2, <2>4, <3>1, <3>3 DEF SenderLeaves, LeaveTask, EndJob, Elsewhere, HeadServed, SameConsent, storage
  <2> QED BY <2>1, <2>3, <2>4
<1>6. CASE RecordCalled \/ ResendCalled
  <2>1. PICK ids \in SUBSET EventIds, kind \in {"record", "resend"} : jobs' = Append(jobs, Job(kind, ids))
    BY <1>6, HeldAreEvents DEF RecordCalled, ResendCalled, Enqueue, Selections
  <2>2. Job(kind, ids) \in JobKinds /\ Job(kind, ids).kind = kind
    BY DEF Job, JobKinds
  <2> QED BY <1>6, <2>1, <2>2 DEF RecordCalled, ResendCalled, Enqueue, OthersQueued, SameConsent
<1> QED BY <1>1, <1>2, <1>3, <1>4, <1>5, <1>6
        DEF RecordsNext, HostMoves, OthersResend, HostStops, vars, outside, strands

(* Nothing is held after a call that adds nothing to nothing. *)
LEMMA NothingAdded ==
  ASSUME NEW s, Good(s), Held(s) = {}, NEW c \in Calling, CallOK(c), ~AddsRows(c), Admitted(c, s), Changes(c, s)
  PROVE  Held(Result(c, s)) = {}
<1>1. CASE c.op = "reopen"
  BY <1>1, ReopenedRows
<1>2. CASE c.op \in {"withdrawLocal", "markWithdrawal", "clearWithdrawal"}
  BY <1>2, WithdrawnRows DEF Held
<1>3. CASE c.op \in BatchOps
  BY <1>3, BatchRows
<1> QED BY <1>1, <1>2, <1>3 DEF Calling, BufferOps, BatchOps, AddsRows

(* Consent that cannot change. *)
LEMMA NothingStays ==
  ASSUME Inv, Silence, core.consent = "withheld", core'.consent = "withheld", Nothing(memory, calls),
         Elsewhere \/ HeadServed \/ OthersQueued \/ StoreStep \/ JobStep \/ BackgroundScan
         \/ CoreAttached \/ CoreDetached \/ Crash
  PROVE  Nothing(memory', calls')
<1>0. calls \in Seq(Calling) /\ Good(memory) /\ ~Granted
  BY DEF Inv, TypesOK, GoodOK, Granted
<1>1. ASSUME calls' = calls \/ \E c \in Calling : ~AddsRows(c) /\ calls' = Append(calls, c), memory' = memory
      PROVE  Nothing(memory', calls')
  <2>1. ASSUME NEW c \in Calling, ~AddsRows(c), calls' = Append(calls, c) PROVE Nothing(memory', calls')
    BY <1>0, <1>1, <2>1, Entries DEF Nothing
  <2> QED BY <1>1, <2>1
<1>2. ASSUME calls # <<>>, Admitted(Head(calls), memory), Changes(Head(calls), memory)
      PROVE  Held(Result(Head(calls), memory)) = {}
  <2>1. Head(calls) \in Calling /\ CallOK(Head(calls)) /\ \E k \in DOMAIN calls : Head(calls) = calls[k]
    BY <1>2, OldestCall
  <2>2. ~AddsRows(Head(calls))
    BY <2>1 DEF Nothing
  <2> QED BY <1>0, <1>2, <2>1, <2>2, NothingAdded DEF Nothing
<1>3. ASSUME calls # <<>>, calls' = Tail(calls), Held(memory') = {} PROVE Nothing(memory', calls')
  BY <1>0, <1>3, Entries DEF Nothing
<1>4. CASE Elsewhere
  BY <1>1, <1>4 DEF Elsewhere, AddsRows
<1>5. CASE HeadServed \/ OthersQueued \/ CoreAttached \/ CoreDetached
  BY <1>1, <1>5 DEF HeadServed, OthersQueued, CoreAttached, CoreDetached, Enqueue, store, storage
<1>6. CASE BackgroundScan
  BY <1>0, <1>6 DEF BackgroundScan, MayAddInstalls
<1>7. CASE JobStep
  <2>1. UNCHANGED storage /\ (calls' = calls \/ \E c \in Calling : JobAsks(c))
    BY <1>7, JobsGo DEF JobGoes
  <2>2. calls' = calls \/ \E c \in Calling : ~AddsRows(c) /\ calls' = Append(calls, c)
    <3>1. CASE calls' = calls
      BY <3>1
    <3>2. CASE JobWithdraw
      <4>1. calls' = calls \/ calls' = Append(calls, Call("job", "withdrawLocal", {}))
        BY <3>2 DEF JobWithdraw, Ask, RequestDeletion, store, EndJob
      <4>2. Call("job", "withdrawLocal", {}) \in Calling /\ ~AddsRows(Call("job", "withdrawLocal", {}))
        BY CallTyped DEF AddsRows, BufferOps, Call
      <4> QED BY <4>1, <4>2
    <3>3. CASE JobClears
      <4>1. calls' = Append(calls, Call("job", "clearWithdrawal", {}))
        BY <3>3 DEF JobClears
      <4>2. Call("job", "clearWithdrawal", {}) \in Calling /\ ~AddsRows(Call("job", "clearWithdrawal", {}))
        BY CallTyped DEF AddsRows, BufferOps, Call
      <4> QED BY <4>1, <4>2
    <3>4. CASE JobReopens
      <4>1. calls' = Append(calls, Call("job", "reopen", Head(jobs).ids)) /\ Head(jobs).ids \in SUBSET EventIds
        BY <3>4, JobUnderWay DEF JobReopens, Ask, JobStep, NextJob, JobKinds
      <4>2. Call("job", "reopen", Head(jobs).ids) \in Calling /\ ~AddsRows(Call("job", "reopen", Head(jobs).ids))
        BY <4>1, CallTyped DEF AddsRows, BufferOps, Call
      <4> QED BY <4>1, <4>2
    <3>5. CASE JobWithheld \/ JobWithdrawn \/ JobScans \/ JobStarts \/ JobCleared \/ JobRecords \/ JobRecorded \/ JobResends
      BY <1>0, <3>5 DEF JobWithheld, JobWithdrawn, JobScans, JobStarts, JobCleared, JobRecords, JobRecorded, JobResends,
         MayAddInstalls, Hears, store
    <3> QED BY <1>7, <3>2, <3>3, <3>4, <3>5 DEF JobStep
  <2> QED BY <1>1, <2>1, <2>2 DEF storage
<1>8. CASE StoreStep
  <2>1. phase # "idle" => calls # <<>> /\ next = Result(Head(calls), memory) /\ Admitted(Head(calls), memory)
                          /\ Changes(Head(calls), memory)
    BY DEF Inv, WriteOK, Silence, StoredOK
  <2>2. \/ calls' = calls /\ memory' = memory
        \/ calls # <<>> /\ calls' = Tail(calls) /\ (memory' = memory \/ (phase # "idle" /\ memory' = next))
    BY <1>8, <2>1 DEF StoreStep, StoreRun, StorePublish, StoreResolve, StoreReject, Conclude
  <2> QED BY <1>1, <1>2, <1>3, <2>1, <2>2 DEF Nothing
<1>9. CASE Crash
  <2>1. memory' = disk /\ calls' = <<>>
    BY <1>9 DEF Crash
  <2>2. disk = memory \/ (calls # <<>> /\ disk = Result(Head(calls), memory) /\ Admitted(Head(calls), memory)
                          /\ Changes(Head(calls), memory))
    BY DEF Inv, WriteOK, Silence, StoredOK
  <2>3. Held(memory') = {}
    BY <1>2, <2>1, <2>2 DEF Nothing
  <2> QED BY <2>1, <2>3 DEF Nothing
<1> QED BY <1>4, <1>5, <1>6, <1>7, <1>8, <1>9

(* A job of the chain goes on, or ends, as Promised wants it. *)
LEMMA JobGoesOn ==
  ASSUME Inv, Promise, jobs # <<>>, UNCHANGED <<core, jobs, memory>>, jpc' # "local",
         (Landed' <=> Landed) \/ Head(jobs).kind # "withheld",
         calls' = calls \/ \E c \in Calling : c.op # "withdrawLocal" /\ (AddsRows(c) => Granted) /\ calls' = Append(calls, c)
  PROVE  Promise'
<1>0. jobs \in Seq(JobKinds) /\ calls \in Seq(Calling)
  BY DEF Inv, TypesOK
<1>1. PICK landed \in BOOLEAN : landed <=> Landed
  OBVIOUS
<1>2. PICK then \in BOOLEAN : then <=> Landed'
  OBVIOUS
<1>3. PICK asked \in BOOLEAN : asked <=> jpc = "local"
  OBVIOUS
<1>4. Promised(core.consent, core.linked, jobs, landed, asked, memory, calls)
  BY <1>1, <1>3 DEF Promise, Promised, Cleared, Erases, Awaiting
<1>5. Promised(core.consent, core.linked, jobs, landed, asked, memory, calls')
  BY <1>0, <1>4, PromisedCall DEF Granted
<1>6. Promised(core.consent, core.linked, jobs, then, FALSE, memory, calls')
  BY <1>0, <1>1, <1>2, <1>5, PromisedOn
<1>7. ~(jpc' = "local")
  OBVIOUS
<1>8. Promised(core'.consent, core'.linked, jobs', then, FALSE, memory', calls')
  BY <1>6
<1>9. Promised(core'.consent, core'.linked, jobs', Landed', jpc' = "local", memory', calls')
  BY ONLY <1>2, <1>7, <1>8 DEF Promised, Cleared, Erases, Awaiting
<1> QED BY <1>9 DEF Promise

LEMMA HeadEnds ==
  ASSUME Inv, Promise, jobs # <<>>, SameConsent, UNCHANGED <<memory, calls>>, jobs' = Tail(jobs), jpc' = "idle",
         Head(jobs).kind = "withheld" => Landed, Head(jobs).kind = "granted" => memory.withdrawal = "none"
  PROVE  Promise' /\ PlaceOK'
<1>0. jobs \in Seq(JobKinds)
  BY DEF Inv, TypesOK
<1>1. PICK landed \in BOOLEAN : landed <=> Landed
  OBVIOUS
<1>2. PICK asked \in BOOLEAN : asked <=> jpc = "local"
  OBVIOUS
<1>3. Promised(core.consent, core.linked, jobs, landed, asked, memory, calls)
  BY <1>1, <1>2 DEF Promise, Promised, Cleared, Erases, Awaiting
<1>4. Promised(core.consent, core.linked, Tail(jobs), FALSE, FALSE, memory, calls)
  BY <1>0, <1>1, <1>3, PromisedOver
<1>5. Promised(core'.consent, core'.linked, jobs', FALSE, FALSE, memory', calls')
  BY <1>4 DEF SameConsent
<1>6. ~Landed' /\ ~(jpc' = "local")
  BY DEF Landed
<1>7. Promised(core'.consent, core'.linked, jobs', Landed', jpc' = "local", memory', calls')
  BY ONLY <1>5, <1>6 DEF Promised, Cleared, Erases, Awaiting
<1>8. Promise'
  BY ONLY <1>7 DEF Promise
<1>9. PlaceOK'
  BY DEF PlaceOK
<1> QED BY <1>8, <1>9

LEMMA JobKeepsPromise ==
  ASSUME Inv, Silence, PlaceOK, Promise, ErasuresLand, JobStep
  PROVE  PlaceOK' /\ Promise'
<1>0. /\ jobs \in Seq(JobKinds) /\ calls \in Seq(Calling) /\ jobs # <<>> /\ answer \in [{"job", "sender"} -> Outcomes]
      /\ jpc \notin JobWaits => answer["job"] = "none"
      /\ jpc # "local" => \A i \in DOMAIN calls : calls[i].op # "withdrawLocal"
  BY JobsGo DEF JobGoes, Inv, TypesOK, JobOK, Waiting
<1>1. UNCHANGED <<core, memory>>
  BY JobsGo DEF JobGoes, JobStep, JobWithheld, JobWithdraw, JobWithdrawn, JobScans, JobStarts, JobClears, JobCleared,
     JobRecords, JobRecorded, JobReopens, JobResends, outside, storage
<1>2. SameConsent
  BY <1>1 DEF SameConsent
<1>3. ASSUME NEW op \in {"put", "scan", "reopen", "clearWithdrawal", "withdrawLocal"}, NEW ids \in SUBSET EventIds
      PROVE  Call("job", op, ids) \in Calling /\ Call("job", op, ids).op = op
  BY CallTyped DEF BufferOps
<1>4. CASE JobWithheld
  <2>1. /\ jpc = "idle" /\ jpc' = "tail" /\ Head(jobs).kind = "withheld" /\ UNCHANGED <<jobs, calls>>
    BY <1>4 DEF JobWithheld, NextJob, Await, store
  <2>2. Promise'
    <3>1. ~Landed /\ ~Landed'
      BY <2>1 DEF Landed
    <3> QED BY <1>0, <1>1, <2>1, <3>1, JobGoesOn
  <2> QED BY <2>1, <2>2 DEF PlaceOK
<1>5. CASE JobWithdraw
  <2>1. jpc = "tail" /\ Head(jobs).kind = "withheld" /\ ~Landed /\ ~(jpc = "local") /\ answer["job"] = "none"
    BY <1>0, <1>5 DEF JobWithdraw, PlaceOK, Landed, JobWaits
  <2>2. Promised(core.consent, core.linked, jobs, FALSE, FALSE, memory, calls)
    BY ONLY <2>1, Promise DEF Promise, Promised, Cleared, Erases, Awaiting
  <2>3. memory.withdrawal = "none"
    <3>1. Head(jobs) = jobs[1] /\ 1 \in DOMAIN jobs /\ DOMAIN jobs \subseteq Nat \ {0}
      BY <1>0, Dropped
    <3>2. Awaiting(jobs, FALSE, 1)
      BY <2>1, <3>1 DEF Awaiting
    <3>3. ~\E k \in DOMAIN jobs : k < 1
      BY <3>1
    <3> QED BY <2>2, <3>1, <3>2, <3>3 DEF Promised, Cleared
  <2>4. /\ calls' = Append(calls, Call("job", "withdrawLocal", {})) /\ jpc' = "local"
        /\ UNCHANGED <<jobs, answer>>
    BY <1>5, <2>3 DEF JobWithdraw, Ask, Await
  <2>5. Promised(core.consent, core.linked, jobs, FALSE, TRUE, memory, Append(calls, Call("job", "withdrawLocal", {})))
    BY <1>0, <1>3, <2>1, <2>2, PromisedErasure
  <2>6. Promised(core'.consent, core'.linked, jobs', FALSE, TRUE, memory', calls')
    BY <1>1, <2>4, <2>5
  <2>7. ~Landed' /\ jpc' = "local"
    BY <2>1, <2>4 DEF Landed
  <2>8. Promised(core'.consent, core'.linked, jobs', Landed', jpc' = "local", memory', calls')
    BY ONLY <2>6, <2>7 DEF Promised, Cleared, Erases, Awaiting
  <2>9. Promise'
    BY ONLY <2>8 DEF Promise
  <2> QED BY <2>1, <2>4, <2>9 DEF PlaceOK
<1>6. CASE JobWithdrawn
  <2>1. jpc = "local" /\ Head(jobs).kind = "withheld"
    BY <1>6 DEF JobWithdrawn, PlaceOK
  <2>2. answer["job"] = "ok" /\ jpc' = "task" /\ UNCHANGED <<jobs, calls>>
    BY <1>6, <2>1 DEF JobWithdrawn, ErasuresLand, Hears, Takes, RequestDeletion, Await
  <2>3. Landed /\ Landed'
    BY <2>1, <2>2 DEF Landed
  <2>4. Promise'
    BY <1>0, <1>1, <2>2, <2>3, JobGoesOn
  <2> QED BY <2>1, <2>2, <2>4 DEF PlaceOK
<1>7. CASE JobScans
  <2>1. /\ jpc = "idle" /\ jpc' = "scan" /\ Head(jobs).kind \in {"granted", "attach"} /\ UNCHANGED jobs
        /\ calls' = Append(calls, Call("job", "scan", NewEvents)) /\ Granted
    BY <1>7 DEF JobScans, NextJob, Await, Ask, MayAddInstalls
  <2>2. Promise'
    <3>1. ~Landed /\ ~Landed'
      BY <2>1 DEF Landed
    <3>2. Call("job", "scan", NewEvents) \in Calling /\ Call("job", "scan", NewEvents).op = "scan"
      BY <1>3, NewEventsAreEvents
    <3> QED BY <1>0, <1>1, <2>1, <3>1, <3>2, JobGoesOn
  <2> QED BY <2>1, <2>2 DEF PlaceOK
<1>8. CASE JobStarts
  <2>1. Head(jobs).kind = "attach" /\ jobs' = Tail(jobs) /\ jpc' = "idle" /\ UNCHANGED calls
    BY <1>8 DEF JobStarts, ScanOver, NextJob, EndJob
  <2> QED BY <1>0, <1>1, <1>2, <2>1, HeadEnds
<1>9. CASE JobClears
  <2>1. /\ jpc \in {"idle", "scan"} /\ jpc' = "clear" /\ Head(jobs).kind = "granted" /\ UNCHANGED jobs
        /\ calls' = Append(calls, Call("job", "clearWithdrawal", {}))
    BY <1>9 DEF JobClears, ScanOver, NextJob, Await
  <2>2. Promise'
    <3>1. ~Landed /\ ~Landed'
      BY <2>1 DEF Landed
    <3>2. /\ Call("job", "clearWithdrawal", {}) \in Calling /\ Call("job", "clearWithdrawal", {}).op = "clearWithdrawal"
          /\ ~AddsRows(Call("job", "clearWithdrawal", {}))
      BY <1>3 DEF AddsRows
    <3> QED BY <1>0, <1>1, <2>1, <3>1, <3>2, JobGoesOn
  <2> QED BY <2>1, <2>2 DEF PlaceOK
<1>10. CASE JobCleared
  <2>1. /\ jpc = "clear" /\ Head(jobs).kind = "granted" /\ jobs' = Tail(jobs) /\ jpc' = "idle"
        /\ answer["job"] = "ok" /\ UNCHANGED calls
    BY <1>10 DEF JobCleared, PlaceOK, ErasuresLand, Hears, Takes, EndJob
  <2>2. memory.withdrawal = "none"
    BY <2>1 DEF Silence, RecordedOK
  <2> QED BY <1>0, <1>1, <1>2, <2>1, <2>2, HeadEnds
<1>11. CASE JobRecords
  <2>1. jpc = "idle" /\ Head(jobs).kind = "record" /\ Head(jobs).ids \in SUBSET EventIds
    BY <1>0, <1>11, JobUnderWay DEF JobRecords, NextJob
  <2>2. CASE jobs' = Tail(jobs) /\ jpc' = "idle" /\ UNCHANGED calls
    BY <1>0, <1>1, <1>2, <2>1, <2>2, HeadEnds
  <2>3. CASE /\ calls' = Append(calls, Call("job", "put", Head(jobs).ids)) /\ jpc' = "put" /\ UNCHANGED jobs /\ Granted
    <3>1. ~Landed /\ ~Landed'
      BY <2>1, <2>3 DEF Landed
    <3>2. Call("job", "put", Head(jobs).ids) \in Calling /\ Call("job", "put", Head(jobs).ids).op = "put"
      BY <1>3, <2>1
    <3>3. Promise'
      BY <1>0, <1>1, <2>1, <2>3, <3>1, <3>2, JobGoesOn
    <3> QED BY <2>1, <2>3, <3>3 DEF PlaceOK
  <2> QED BY <1>11, <2>2, <2>3 DEF JobRecords, Ask, Await, EndJob, store
<1>12. CASE JobRecorded
  <2>1. Head(jobs).kind = "record" /\ jobs' = Tail(jobs) /\ jpc' = "idle" /\ UNCHANGED calls
    BY <1>12 DEF JobRecorded, PlaceOK, Hears, EndJob
  <2> QED BY <1>0, <1>1, <1>2, <2>1, HeadEnds
<1>13. CASE JobReopens
  <2>1. /\ jpc = "idle" /\ jpc' = "reopen" /\ Head(jobs).kind = "resend" /\ UNCHANGED jobs
        /\ calls' = Append(calls, Call("job", "reopen", Head(jobs).ids)) /\ Head(jobs).ids \in SUBSET EventIds
    BY <1>0, <1>13, JobUnderWay DEF JobReopens, NextJob, Await, Ask
  <2>2. Promise'
    <3>1. ~Landed /\ ~Landed'
      BY <2>1 DEF Landed
    <3>2. /\ Call("job", "reopen", Head(jobs).ids) \in Calling /\ Call("job", "reopen", Head(jobs).ids).op = "reopen"
          /\ ~AddsRows(Call("job", "reopen", Head(jobs).ids))
      BY <1>3, <2>1 DEF AddsRows
    <3> QED BY <1>0, <1>1, <2>1, <3>1, <3>2, JobGoesOn
  <2> QED BY <2>1, <2>2 DEF PlaceOK
<1>14. CASE JobResends
  <2>1. jpc = "reopen" /\ Head(jobs).kind = "resend" /\ UNCHANGED calls
    BY <1>14 DEF JobResends, PlaceOK, Hears
  <2>2. CASE jobs' = Tail(jobs) /\ jpc' = "idle"
    BY <1>0, <1>1, <1>2, <2>1, <2>2, HeadEnds
  <2>3. CASE jpc' = "task" /\ UNCHANGED jobs
    <3>1. Promise'
      BY <1>0, <1>1, <2>1, <2>3, JobGoesOn
    <3> QED BY <2>1, <2>3, <3>1 DEF PlaceOK
  <2> QED BY <1>14, <2>2, <2>3 DEF JobResends, Await, EndJob
<1> QED BY <1>4, <1>5, <1>6, <1>7, <1>8, <1>9, <1>10, <1>11, <1>12, <1>13, <1>14 DEF JobStep

LEMMA PromiseOf ==
  ASSUME Promise
  PROVE  \E landed, asked \in BOOLEAN :
           /\ landed <=> Landed
           /\ asked <=> jpc = "local"
           /\ Promised(core.consent, core.linked, jobs, landed, asked, memory, calls)
<1>1. PICK landed \in BOOLEAN : landed <=> Landed
  OBVIOUS
<1>2. PICK asked \in BOOLEAN : asked <=> jpc = "local"
  OBVIOUS
<1>3. Promised(core.consent, core.linked, jobs, landed, asked, memory, calls)
  BY <1>1, <1>2 DEF Promise, Promised, Cleared, Erases, Awaiting
<1> QED BY <1>1, <1>2, <1>3

LEMMA PromiseThen ==
  ASSUME NEW landed \in BOOLEAN, landed <=> Landed', NEW asked \in BOOLEAN, asked <=> jpc' = "local",
         Promised(core'.consent, core'.linked, jobs', landed, asked, memory', calls')
  PROVE  Promise'
<1>1. Promised(core'.consent, core'.linked, jobs', Landed', jpc' = "local", memory', calls')
  BY DEF Promised, Cleared, Erases, Awaiting
<1> QED BY ONLY <1>1 DEF Promise

LEMMA StoreKeepsPromise ==
  ASSUME Inv, Silence, PlaceOK, Promise, StoreStep
  PROVE  PlaceOK' /\ Promise'
<1>0. /\ jobs \in Seq(JobKinds) /\ calls \in Seq(Calling) /\ answer \in [{"job", "sender"} -> Outcomes]
      /\ phase # "idle" => calls # <<>> /\ next = Result(Head(calls), memory) /\ Admitted(Head(calls), memory)
                           /\ Changes(Head(calls), memory)
  BY DEF Inv, TypesOK, WriteOK, Silence, StoredOK
<1>1. UNCHANGED <<core, jobs, jpc>>
  BY DEF StoreStep, StoreRun, StorePublish, StoreResolve, StoreReject, strands, outside
<1>2. PlaceOK'
  BY <1>1 DEF PlaceOK
<1>3. PICK landed \in BOOLEAN, asked \in BOOLEAN :
        /\ landed <=> Landed
        /\ asked <=> jpc = "local"
        /\ Promised(core.consent, core.linked, jobs, landed, asked, memory, calls)
  BY PromiseOf
<1>4. CASE UNCHANGED <<calls, answer, memory>>
  <2>1. landed <=> Landed'
    BY <1>1, <1>3, <1>4 DEF Landed
  <2> QED BY <1>1, <1>2, <1>3, <1>4, <2>1, PromiseThen
<1>5. ASSUME calls # <<>>, NEW outcome \in Outcomes, Conclude(outcome),
             outcome = "ok" => Head(calls).op # "withdrawLocal",
             memory'.withdrawal # "none" => memory.withdrawal # "none",
             Held(memory) = {} /\ ~AddsRows(Head(calls)) => Held(memory') = {}
      PROVE  Promise'
  <2>1. Head(calls) \in Calling /\ (Head(calls).by = "job" => answer["job"] = "none")
        /\ (Head(calls).by = "job" /\ jpc = "local" => Head(calls).op = "withdrawLocal")
    BY <1>5, OldestCall
  <2>2. landed <=> Landed'
    <3>1. CASE Head(calls).by = "job"
      <4>1. answer'["job"] = outcome
        BY <1>0, <1>5, <3>1 DEF Conclude
      <4> QED BY <1>1, <1>3, <1>5, <2>1, <3>1, <4>1 DEF Landed
    <3>2. CASE Head(calls).by # "job"
      <4>1. answer'["job"] = answer["job"]
        BY <1>0, <1>5, <2>1, <3>2 DEF Conclude, Calling
      <4> QED BY <1>1, <1>3, <4>1 DEF Landed
    <3> QED BY <3>1, <3>2
  <2>3. calls' = Tail(calls)
    BY <1>5 DEF Conclude
  <2>4. Promised(core.consent, core.linked, jobs, landed, asked, memory', Tail(calls))
    BY <1>0, <1>3, <1>5, PromisedAnswer
  <2>5. Promised(core'.consent, core'.linked, jobs', landed, asked, memory', calls')
    BY <1>1, <2>3, <2>4
  <2> QED BY <1>1, <1>3, <2>2, <2>5, PromiseThen
<1>6. CASE StoreRun
  <2>1. ASSUME calls # <<>>, NEW c, c = Head(calls), ~(Admitted(c, memory) /\ Changes(c, memory)),
               Conclude(IF Admitted(c, memory) THEN "ok" ELSE "invalid"), memory' = memory
        PROVE  Promise'
    <3>1. c.op # "withdrawLocal"
      BY <2>1 DEF Admitted, Changes
    <3>2. PICK outcome \in {"ok", "invalid"} : Conclude(outcome)
      BY <2>1
    <3> QED BY <1>5, <2>1, <3>1, <3>2 DEF Outcomes
  <2>2. UNCHANGED <<calls, answer, memory>> \/
        LET c == Head(calls) IN
        calls # <<>> /\ ~(Admitted(c, memory) /\ Changes(c, memory)) /\ memory' = memory
        /\ Conclude(IF Admitted(c, memory) THEN "ok" ELSE "invalid")
    BY <1>6 DEF StoreRun
  <2>3. CASE UNCHANGED <<calls, answer, memory>>
    BY <1>2, <1>4, <2>3
  <2>4. PICK c : c = Head(calls)
    OBVIOUS
  <2> QED BY <1>2, <2>1, <2>2, <2>3, <2>4
<1>7. CASE StorePublish
  BY <1>2, <1>4, <1>7 DEF StorePublish
<1>8. CASE StoreReject
  <2>1. Conclude("failed") /\ memory' = memory /\ calls # <<>>
    BY <1>0, <1>8 DEF StoreReject
  <2> QED BY <1>2, <1>5, <2>1 DEF Outcomes
<1>9. CASE StoreResolve
  <2>1. PICK c : c = Head(calls)
    OBVIOUS
  <2>2. /\ calls # <<>> /\ memory' = Result(c, memory) /\ Admitted(c, memory) /\ Changes(c, memory)
        /\ Conclude("ok")
    BY <1>0, <1>9, <2>1 DEF StoreResolve
  <2>3. /\ c \in Calling /\ CallOK(c) /\ Good(memory) /\ (c.op = "withdrawLocal" => jpc = "local" /\ c.by = "job")
        /\ (c.by = "job" => answer["job"] = "none")
    BY <2>1, <2>2, OldestCall DEF Inv, GoodOK
  <2>4. CASE c.op = "withdrawLocal"
    <3>1. Held(memory') = {}
      BY <2>2, <2>3, <2>4, Withdrawing
    <3>2. jpc = "local" /\ c.by = "job" /\ ~Landed /\ Head(jobs).kind = "withheld" /\ jobs # <<>>
      BY <2>3, <2>4 DEF Landed, PlaceOK, Inv, JobsOK
    <3>3. landed = FALSE /\ asked = TRUE
      BY <1>3, <3>2
    <3>4. Promised(core.consent, core.linked, jobs, FALSE, TRUE, memory, calls)
      BY <1>3, <3>3
    <3>5. Promised(core.consent, core.linked, jobs, TRUE, TRUE, memory', Tail(calls))
      BY <1>0, <2>1, <2>2, <2>4, <3>1, <3>2, <3>4, PromisedErased
    <3>6. Landed' /\ jpc' = "local" /\ calls' = Tail(calls)
      <4>1. answer'["job"] = "ok" /\ calls' = Tail(calls)
        BY <1>0, <2>1, <2>2, <3>2 DEF Conclude
      <4> QED BY <1>1, <3>2, <4>1 DEF Landed
    <3>7. Promised(core'.consent, core'.linked, jobs', TRUE, TRUE, memory', calls')
      BY <1>1, <3>5, <3>6
    <3> QED BY <1>2, <3>6, <3>7, PromiseThen
  <2>5. CASE c.op # "withdrawLocal"
    <3>1. memory'.withdrawal # "none" => memory.withdrawal # "none"
      <4>1. CASE c.op = "markWithdrawal"
        BY <2>2, <2>3, <4>1, Withdrawing
      <4>2. CASE c.op = "clearWithdrawal"
        BY <2>2, <2>3, <4>2, Withdrawing
      <4>3. CASE c.op \notin {"withdrawLocal", "markWithdrawal", "clearWithdrawal"}
        BY <2>2, <2>3, <4>3, Withdrawing
      <4> QED BY <2>5, <4>1, <4>2, <4>3
    <3>2. Held(memory) = {} /\ ~AddsRows(c) => Held(memory') = {}
      BY <2>2, <2>3, NothingAdded
    <3> QED BY <1>2, <1>5, <2>1, <2>2, <2>5, <3>1, <3>2 DEF Outcomes
  <2> QED BY <2>4, <2>5
<1> QED BY <1>6, <1>7, <1>8, <1>9 DEF StoreStep

LEMMA HeadsStay ==
  ASSUME Inv, PlaceOK, jpc' = jpc, NEW job \in JobKinds, jobs' = jobs \/ jobs' = Append(jobs, job)
  PROVE  PlaceOK'
<1>1. jpc # "idle" => jobs # <<>> /\ Head(jobs') = Head(jobs)
  BY Appended DEF Inv, TypesOK, JobsOK
<1> QED BY <1>1 DEF PlaceOK

LEMMA OthersKeepPromise ==
  ASSUME Inv, Setting, PlaceOK, Promise,
         Elsewhere \/ HeadServed \/ OthersQueued \/ BackgroundScan \/ CoreAttached \/ Withhold \/ Grant
  PROVE  PlaceOK' /\ Promise'
<1>0. /\ jobs \in Seq(JobKinds) /\ calls \in Seq(Calling) /\ (Landed \/ jpc = "local" => jobs # <<>>)
      /\ core = [consent |-> core.consent, linked |-> core.linked, origin |-> core.origin]
      /\ core.linked \in BOOLEAN
  BY DEF Inv, TypesOK, JobsOK, Landed, Setting
<1>1. PICK landed \in BOOLEAN, asked \in BOOLEAN :
        /\ landed <=> Landed
        /\ asked <=> jpc = "local"
        /\ Promised(core.consent, core.linked, jobs, landed, asked, memory, calls)
  BY PromiseOf
<1>2. ASSUME UNCHANGED <<jpc>>, answer'["job"] = answer["job"]
      PROVE  (landed <=> Landed') /\ (asked <=> jpc' = "local")
  BY <1>1, <1>2 DEF Landed
<1>3. ASSUME NEW kind \in {"attach", "granted", "withheld"} PROVE Job(kind, {}) \in JobKinds /\ Job(kind, {}).kind = kind
  BY DEF Job, JobKinds
<1>4. CASE Elsewhere
  <2>1. PlaceOK'
    BY <1>4 DEF Elsewhere, PlaceOK
  <2>2. Promised(core.consent, core.linked, jobs, landed, asked, memory, calls')
    <3>1. ASSUME NEW c \in Calling, c.op \notin {"put", "scan", "withdrawLocal"}, calls' = Append(calls, c)
          PROVE  Promised(core.consent, core.linked, jobs, landed, asked, memory, calls')
      <4>1. Promised(core.consent, core.linked, jobs, landed, asked, memory, Append(calls, c))
        BY <1>0, <1>1, <3>1, PromisedCall DEF AddsRows
      <4> QED BY <3>1, <4>1
    <3>2. CASE calls' = calls
      BY <1>1, <3>2
    <3> QED BY <1>4, <3>1, <3>2 DEF Elsewhere
  <2>3. Promised(core'.consent, core'.linked, jobs', landed, asked, memory', calls')
    BY <1>4, <2>2 DEF Elsewhere, SameConsent
  <2> QED BY <1>2, <1>4, <2>1, <2>3, PromiseThen DEF Elsewhere
<1>5. CASE HeadServed
  <2>1. Head(jobs).kind # "granted" /\ Landed
    BY <1>5 DEF HeadServed, PlaceOK, Landed
  <2> QED BY <1>5, <2>1, HeadEnds DEF HeadServed
<1>6. CASE OthersQueued
  <2>1. PICK job \in JobKinds : job.kind \in {"record", "resend"} /\ jobs' = Append(jobs, job)
    BY <1>6 DEF OthersQueued
  <2>2. job.kind \notin Consents /\ SameConsent /\ UNCHANGED <<jpc, memory, calls, answer>>
    BY <1>6, <2>1 DEF Consents, OthersQueued, store, storage
  <2>3. Promised(core.consent, core.linked, Append(jobs, job), landed, asked, memory, calls)
    BY <1>0, <1>1, <2>2, PromisedOthers
  <2>4. Promised(core'.consent, core'.linked, jobs', landed, asked, memory', calls')
    BY <2>1, <2>2, <2>3 DEF SameConsent
  <2> QED BY <1>2, <2>1, <2>2, <2>4, HeadsStay, PromiseThen
<1>7. CASE BackgroundScan
  <2>1. /\ calls' = Append(calls, Call("scan", "scan", NewEvents)) /\ UNCHANGED <<core, memory, jobs, jpc, answer>>
        /\ core.linked /\ core.consent = "granted"
    BY <1>7 DEF BackgroundScan, Ask, MayAddInstalls, Granted, outside, storage, strands
  <2>2. Call("scan", "scan", NewEvents) \in Calling /\ Call("scan", "scan", NewEvents).op = "scan"
    BY NewEventsAreEvents, CallTyped DEF BufferOps
  <2>3. Promised(core.consent, core.linked, jobs, landed, asked, memory, Append(calls, Call("scan", "scan", NewEvents)))
    BY <1>0, <1>1, <2>1, <2>2, PromisedCall
  <2>4. Promised(core'.consent, core'.linked, jobs', landed, asked, memory', calls')
    BY <2>1, <2>3
  <2>5. PlaceOK'
    BY <2>1 DEF PlaceOK
  <2> QED BY <1>2, <2>1, <2>4, <2>5, PromiseThen
<1>8. CASE CoreAttached
  <2>1. /\ jobs' = Append(jobs, Job("attach", {})) /\ UNCHANGED <<memory, calls, answer, jpc>>
        /\ core'.consent = core.consent /\ core'.linked
    BY <1>0, <1>8 DEF CoreAttached, Enqueue, store, storage
  <2>2. Job("attach", {}) \in JobKinds /\ Job("attach", {}).kind \notin Consents
    BY <1>3 DEF Consents
  <2>3. Promised(core.consent, core'.linked, Append(jobs, Job("attach", {})), landed, asked, memory, calls)
    BY <1>0, <1>1, <2>1, <2>2, PromisedOthers
  <2>4. Promised(core'.consent, core'.linked, jobs', landed, asked, memory', calls')
    BY <2>1, <2>3
  <2> QED BY <1>2, <2>1, <2>2, <2>4, HeadsStay, PromiseThen
<1>9. CASE (Withhold \/ Grant) /\ ~core.linked
  <2>1. UNCHANGED <<memory, calls, answer, jobs, jpc>> /\ core'.linked = core.linked
    BY <1>0, <1>9 DEF Withhold, Grant, store, storage, strands
  <2>2. Promised(core'.consent, core.linked, jobs, landed, asked, memory, calls)
    BY <1>1, <1>9, PromisedUnlinked
  <2>3. Promised(core'.consent, core'.linked, jobs', landed, asked, memory', calls')
    BY <2>1, <2>2
  <2>4. PlaceOK'
    BY <2>1 DEF PlaceOK
  <2> QED BY <1>2, <2>1, <2>3, <2>4, PromiseThen
<1>10. CASE Withhold /\ core.linked
  <2>1. /\ jobs' = Append(jobs, Job("withheld", {})) /\ UNCHANGED <<memory, calls, answer, jpc>>
        /\ core.consent = "granted" /\ core'.consent = "withheld" /\ core'.linked = core.linked
    BY <1>0, <1>10 DEF Withhold, Enqueue, store, storage
  <2>2. Job("withheld", {}) \in JobKinds /\ Job("withheld", {}).kind = "withheld"
    BY <1>3
  <2>3. Promised("granted", core.linked, jobs, landed, asked, memory, calls) /\ (landed \/ asked => jobs # <<>>)
    BY <1>0, <1>1, <2>1
  <2>4. Promised("withheld", core.linked, Append(jobs, Job("withheld", {})), landed, asked, memory, calls)
    BY <1>0, <1>10, <2>2, <2>3, PromisedWithheld
  <2>5. Promised(core'.consent, core'.linked, jobs', landed, asked, memory', calls')
    BY <2>1, <2>4
  <2> QED BY <1>2, <2>1, <2>2, <2>5, HeadsStay, PromiseThen
<1>11. CASE Grant /\ core.linked
  <2>1. /\ jobs' = Append(jobs, Job("granted", {})) /\ UNCHANGED <<memory, calls, answer, jpc>>
        /\ core'.consent = "granted" /\ core'.linked = core.linked
    BY <1>0, <1>11 DEF Grant, Enqueue, store, storage
  <2>2. Job("granted", {}) \in JobKinds /\ Job("granted", {}).kind = "granted"
    BY <1>3
  <2>3. Promised("granted", core.linked, Append(jobs, Job("granted", {})), landed, asked, memory, calls)
    BY <1>0, <1>1, <1>11, <2>2, PromisedGranted
  <2>4. Promised(core'.consent, core'.linked, jobs', landed, asked, memory', calls')
    BY <2>1, <2>3
  <2> QED BY <1>2, <2>1, <2>2, <2>4, HeadsStay, PromiseThen
<1> QED BY <1>4, <1>5, <1>6, <1>7, <1>8, <1>9, <1>10, <1>11

\* Consent that cannot change never left anything; otherwise neither Core nor the
\* process goes, and what is promised is kept.
WithheldOK ==
  \/ left["consent"] = 0 /\ (core.consent = "withheld" => Nothing(memory, calls))
  \/ left["crash"] = 0 /\ left["link"] = 0 /\ PlaceOK /\ Promise

LEMMA WithheldKept ==
  ASSUME Inv, ViewOK, Silence, Setting, WithheldOK, ErasuresLand, [RecordsNext]_<<vars, panelVars, list>>
  PROVE  WithheldOK'
<1>0. /\ \A k \in BudgetKinds : left[k] = 0 => left'[k] = 0
      /\ {"consent", "link", "crash"} \subseteq BudgetKinds
      /\ core = [consent |-> core.consent, linked |-> core.linked, origin |-> core.origin]
  BY CoreMoves, Kinds DEF Setting
<1>1. \/ Elsewhere \/ HeadServed \/ OthersQueued \/ StoreStep \/ JobStep \/ BackgroundScan
      \/ CoreAttached \/ CoreDetached \/ Withhold \/ Grant \/ Crash
  BY ReporterMoves
<1>2. CASE left["consent"] = 0 /\ (core.consent = "withheld" => Nothing(memory, calls))
  <2>1. left'["consent"] = 0 /\ ~Withhold /\ ~Grant
    BY <1>0, <1>2 DEF Withhold, Grant, Spend
  <2>2. core'.consent = core.consent
    <3>1. CASE Elsewhere \/ HeadServed \/ OthersQueued
      BY <3>1 DEF Elsewhere, HeadServed, OthersQueued, SameConsent
    <3>2. CASE StoreStep
      BY <3>2 DEF StoreStep, StoreRun, StorePublish, StoreResolve, StoreReject, outside
    <3>3. CASE JobStep \/ BackgroundScan
      BY <3>3 DEF JobStep, JobWithheld, JobWithdraw, JobWithdrawn, JobScans, JobStarts, JobClears, JobCleared,
         JobRecords, JobRecorded, JobReopens, JobResends, BackgroundScan, outside
    <3>4. CASE CoreAttached \/ CoreDetached \/ Crash
      BY <1>0, <3>4 DEF CoreAttached, CoreDetached, Crash
    <3> QED BY <1>1, <2>1, <3>1, <3>2, <3>3, <3>4
  <2>3. core'.consent = "withheld" => Nothing(memory', calls')
    BY <1>1, <1>2, <2>1, <2>2, NothingStays
  <2> QED BY <2>1, <2>3 DEF WithheldOK
<1>3. CASE left["crash"] = 0 /\ left["link"] = 0 /\ PlaceOK /\ Promise
  <2>1. left'["crash"] = 0 /\ left'["link"] = 0 /\ ~Crash /\ ~CoreDetached
    BY <1>0, <1>3 DEF Crash, CoreDetached, Spend
  <2>2. PlaceOK' /\ Promise'
    BY <1>1, <1>3, <2>1, StoreKeepsPromise, JobKeepsPromise, OthersKeepPromise
  <2> QED BY <2>1, <2>2 DEF WithheldOK
<1> QED BY <1>2, <1>3 DEF WithheldOK

LEMMA StartsWithheld ==
  ASSUME OneAttachment, RecordsInit
  PROVE  WithheldOK
<1>1. /\ left \in Budgets /\ jobs = <<>> /\ jpc = "idle" /\ memory = EmptySnapshot /\ calls = <<>>
  BY DEF RecordsInit, PanelInit, Init
<1>2. Nothing(memory, calls) /\ memory.withdrawal = "none"
  <2>1. DOMAIN calls = {} /\ memory.withdrawal = "none"
    BY <1>1 DEF EmptySnapshot
  <2>2. Held(memory) = {}
    BY <1>1, EmptyIsGood
  <2> QED BY <2>1, <2>2 DEF Nothing
<1>3. PlaceOK /\ Promise
  BY <1>1, <1>2 DEF PlaceOK, Promise, Promised, Unlinked, Alternates, Cleared, Erases
<1> QED BY <1>1, <1>2, <1>3 DEF OneAttachment, WithheldOK

LEMMA WithheldNothing ==
  ASSUME WithheldOK
  PROVE  WithheldLeavesNothing
<1>1. CASE left["consent"] = 0 /\ (core.consent = "withheld" => Nothing(memory, calls))
  BY <1>1 DEF WithheldLeavesNothing, Nothing
<1>2. CASE PlaceOK /\ Promise
  <2>1. ASSUME jobs = <<>>, core.consent = "withheld" PROVE Nothing(memory, calls)
    <3>1. \A landed : ~\E i \in DOMAIN jobs : Awaiting(jobs, landed, i)
      BY <2>1
    <3> QED BY <1>2, <2>1, <3>1 DEF Promise, Promised, Erases
  <2> QED BY <2>1 DEF WithheldLeavesNothing, Nothing
<1> QED BY <1>1, <1>2 DEF WithheldOK

\* Where consent changes, or the Host restarts and Core comes back, but not both,
\* and the writes that erase the rows and clear the withdrawal are not lost: when
\* the queued jobs are over and consent is withheld, this device holds no event
\* (withdraw in upload.js, the consent listener of mount.js).  Consent may change
\* while a job runs: no job of a withdrawal finds an earlier one still recorded
\* and leaves the rows to it, and nothing is added behind the last of them.
THEOREM LandedErasuresLeaveNothing ==
  ASSUME OneAttachment
  PROVE  RecordsSpec /\ []ErasuresLand => []WithheldLeavesNothing
<1> DEFINE I == Inv /\ ViewOK /\ Setting /\ WithheldOK
<1>1. RecordsInit => I
  BY StartsOK, StartsAttachable, StartsWithheld
<1>2. I /\ Silence /\ ErasuresLand /\ [RecordsNext]_<<vars, panelVars, list>> => I'
  BY RecordsInv, CoreMoves, WithheldKept
<1>3. I => WithheldLeavesNothing
  BY WithheldNothing
<1> HIDE DEF I
<1> QED BY <1>1, <1>2, <1>3, AttachedWithoutWithdrawal, PTL DEF RecordsSpec

\* Consent is as it was, or neither the process nor Core nor a local write fails.
ErasuresPersist ==
  \A b \in Budgets : b["consent"] = 0 \/ (b["crash"] = 0 /\ b["link"] = 0 /\ b["storage"] = 0)

\* No job erases or clears, or none of these writes is lost.
Unasked == left["consent"] = 0 /\ Unwithdrawn /\ \A i \in DOMAIN jobs : jobs[i].kind \notin Consents
PersistOK == Unasked \/ (left["storage"] = 0 /\ ErasuresLand)

LEMMA UnaskedStays ==
  ASSUME Inv, ViewOK, Silence, Setting, Unasked, [RecordsNext]_<<vars, panelVars, list>>
  PROVE  Unasked'
<1>0. jobs \in Seq(JobKinds) /\ "consent" \in BudgetKinds /\ (jobs # <<>> => \E k \in DOMAIN jobs : Head(jobs) = jobs[k])
  BY Kinds, Entries DEF Inv, TypesOK
<1>1. left'["consent"] = 0 /\ Unwithdrawn' /\ JobsChange
  BY <1>0, CoreMoves, UnwithdrawnStays DEF Unasked
<1>2. ASSUME NEW job \in JobKinds, job.kind \notin Consents, jobs' = Append(jobs, job)
      PROVE  \A i \in DOMAIN jobs' : jobs'[i].kind \notin Consents
  BY <1>0, <1>2, Entries DEF Unasked
<1>3. CASE jobs' = Tail(jobs) /\ jobs # <<>>
  BY <1>0, <1>1, <1>3, Entries DEF Unasked
<1>4. CASE jobs' = jobs \/ jobs' = <<>>
  BY <1>1, <1>4 DEF Unasked
<1>5. CASE \E job \in JobKinds : job.kind \notin Consents /\ jobs' = Append(jobs, job)
  BY <1>1, <1>2, <1>5 DEF Unasked
<1>6. ~(left["consent"] > 0)
  BY DEF Unasked
<1> QED BY <1>1, <1>3, <1>4, <1>5, <1>6 DEF JobsChange, Linked, Consents

LEMMA PersistKept ==
  ASSUME Inv, ViewOK, Silence, Setting, PersistOK, [RecordsNext]_<<vars, panelVars, list>>
  PROVE  PersistOK'
<1>0. /\ answer \in [{"job", "sender"} -> Outcomes] /\ "storage" \in BudgetKinds
      /\ \A k \in BudgetKinds : left[k] = 0 => left'[k] = 0
  BY CoreMoves, Kinds DEF Inv, TypesOK
<1>1. CASE Unasked
  BY <1>1, UnaskedStays DEF PersistOK
<1>2. CASE left["storage"] = 0 /\ ErasuresLand
  <2>1. left'["storage"] = 0 /\ ~StoreReject
    BY <1>0, <1>2 DEF StoreReject, Spend
  <2> SUFFICES ErasuresLand'
    BY <2>1 DEF PersistOK
  <2>2. ASSUME jpc' = jpc, answer'["job"] = answer["job"] PROVE ErasuresLand'
    BY <1>2, <2>2 DEF ErasuresLand
  <2>3. CASE Elsewhere \/ OthersQueued \/ BackgroundScan \/ CoreAttached \/ CoreDetached \/ Withhold \/ Grant
    BY <2>2, <2>3 DEF Elsewhere, OthersQueued, BackgroundScan, CoreAttached, CoreDetached, Withhold, Grant,
       Enqueue, Ask, store, strands
  <2>4. CASE HeadServed \/ Crash
    BY <2>4 DEF HeadServed, Crash, ErasuresLand
  <2>5. CASE JobStep
    <3>1. answer' = [answer EXCEPT !["job"] = "none"]
      BY <2>5, JobsGo DEF JobGoes, AnswerRead
    <3> QED BY <1>0, <3>1 DEF ErasuresLand, Errors
  <2>6. CASE StoreStep
    <3>1. jpc' = jpc
      BY <2>6 DEF StoreStep, StoreRun, StorePublish, StoreResolve, StoreReject, strands
    <3>2. ASSUME calls # <<>>, NEW c, c = Head(calls), NEW outcome \in {"ok", "invalid"}, Conclude(outcome),
                 outcome = "invalid" => ~Admitted(c, memory)
          PROVE  ErasuresLand'
      <4>1. /\ c.by \in {"job", "sender", "scan"}
            /\ c.by = "job" /\ jpc = "clear" => c.op = "clearWithdrawal"
            /\ c.by = "job" /\ jpc = "local" => c.op = "withdrawLocal"
        BY <3>2, OldestCall DEF Calling
      <4>2. CASE c.by = "job" /\ jpc \in {"local", "clear"}
        <5>1. outcome = "ok"
          BY <3>2, <4>1, <4>2 DEF Admitted
        <5>2. answer'["job"] = "ok"
          BY <1>0, <3>2, <4>2, <5>1 DEF Conclude
        <5> QED BY <5>2 DEF ErasuresLand, Errors
      <4>3. CASE c.by # "job"
        <5>1. answer'["job"] = answer["job"]
          BY <1>0, <3>2, <4>1, <4>3 DEF Conclude
        <5> QED BY <2>2, <3>1, <5>1
      <4>4. CASE jpc \notin {"local", "clear"}
        BY <3>1, <4>4 DEF ErasuresLand
      <4> QED BY <4>2, <4>3, <4>4
    <3>3. PICK c : c = Head(calls)
      OBVIOUS
    <3>4. CASE UNCHANGED answer
      BY <2>2, <3>1, <3>4
    <3>5. CASE StoreRun
      <4>1. UNCHANGED answer \/ (calls # <<>> /\ Conclude(IF Admitted(c, memory) THEN "ok" ELSE "invalid"))
        BY <3>3, <3>5 DEF StoreRun
      <4> QED BY <3>2, <3>3, <3>4, <4>1
    <3>6. CASE StoreResolve
      <4>1. calls # <<>> /\ Conclude("ok")
        BY <3>6 DEF StoreResolve, Inv, WriteOK
      <4> QED BY <3>2, <3>3, <4>1
    <3> QED BY <2>1, <2>6, <3>4, <3>5, <3>6 DEF StoreStep, StorePublish
  <2> QED BY <2>1, <2>3, <2>4, <2>5, <2>6, ReporterMoves
<1> QED BY <1>1, <1>2 DEF PersistOK

\* Where consent changes and nothing of the Host fails, or consent is as it was:
\* when the queued jobs are over and consent is withheld, this device holds no
\* event (withdraw in upload.js, the consent listener of mount.js).
THEOREM WithheldHoldsNothing ==
  ASSUME ErasuresPersist
  PROVE  RecordsSpec => []WithheldLeavesNothing
<1> DEFINE I == Inv /\ ViewOK /\ Setting /\ PersistOK
<1>0. OneAttachment
  BY DEF ErasuresPersist, OneAttachment
<1>1. RecordsInit => I
  <2> SUFFICES ASSUME RecordsInit PROVE I
    OBVIOUS
  <2>1. /\ left \in Budgets /\ jobs = <<>> /\ jpc = "idle"
        /\ memory = EmptySnapshot /\ disk = EmptySnapshot /\ next = EmptySnapshot
    BY DEF RecordsInit, PanelInit, Init
  <2>2. Unwithdrawn /\ ErasuresLand
    BY <2>1 DEF Unwithdrawn, EmptySnapshot, ErasuresLand
  <2>3. PersistOK
    BY <2>1, <2>2 DEF PersistOK, Unasked, ErasuresPersist
  <2> QED BY <1>0, <2>3, StartsOK, StartsAttachable
<1>2. I /\ Silence /\ [RecordsNext]_<<vars, panelVars, list>> => I'
  BY RecordsInv, CoreMoves, PersistKept
<1>3. I => ErasuresLand
  BY DEF PersistOK, Unasked, Unwithdrawn, ErasuresLand
<1>4. RecordsSpec => []Silence
  BY <1>0, AttachedWithoutWithdrawal, PTL
<1>5. RecordsSpec /\ []ErasuresLand => []WithheldLeavesNothing
  BY <1>0, LandedErasuresLeaveNothing
<1> HIDE DEF I
<1> QED BY <1>1, <1>2, <1>3, <1>4, <1>5, PTL DEF RecordsSpec
=============================================================================
