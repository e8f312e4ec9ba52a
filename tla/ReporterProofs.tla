---------------------------- MODULE ReporterProofs ----------------------------
(***************************************************************************)
(* The reporter, its panel and its list: while a request may be under way  *)
(* the disk says so, what is shown as sent was taken by the server, and    *)
(* the buffer they share is an EventStore, for any ids, contents, batch    *)
(* size and environment.                                                   *)
(*                                                                         *)
(* The argument: each strand waits for one call at a time, so while events *)
(* are signed, posted or answered for, the only calls are those of jobs    *)
(* and scans, and these leave pending rows alone; the one that erases is   *)
(* asked for only when nothing is sent any more, because a withdrawal      *)
(* stops the sender and waits for its tail.  A call vouches for no more    *)
(* than the server took, and each writes what the EventStore method does.  *)
(* Every post is owed to a click or a resend, because a selection's task   *)
(* tries each of its events once.  While a withdrawal is recorded nothing  *)
(* is sent, and what is in doubt is marked and held back, as long as Core  *)
(* is attached only with no withdrawal recorded (Silence, AttachedClear).  *)
(***************************************************************************)
EXTENDS UsageRecords, EventSnapshotProofs

USE EventIdsAssumption, ClassAssumption, LimitAssumption

----------------------------------------------------------------------------
(* Types *)

SenderWaits == {"intent", "undo", "fail", "hold", "apply", "mark"}
JobWaits == {"put", "scan", "reopen", "local", "clear"}
SenderPlaces ==
  SenderWaits \cup {"idle", "settings", "sign", "post", "answered", "next", "delete"}
JobPlaces == JobWaits \cup {"idle", "tail", "task"}

Uncertain == UNION {[D -> Markers] : D \in SUBSET EventIds}
Refusals == UNION {[D -> {HostRejection, "ITEM_REFUSED"}] : D \in SUBSET EventIds}

BufferOps == {"put", "scan", "reopen", "withdrawLocal", "clearWithdrawal", "intent", "undoIntent",
              "attempts", "apply", "resendIntent", "resendFailure", "markWithdrawal"}
JobOps == {"put", "scan", "reopen", "clearWithdrawal"}

Calling == [by : {"job", "sender", "scan"}, op : BufferOps, ids : SUBSET EventIds,
            code : Codes \cup WithdrawalStates, marks : Uncertain \cup Refusals,
            accepted : Nat, duplicates : Nat]
Responses == [kind : {"none", "committed", "unknown", "deleted", "offline"} \cup Unusable,
              accepted : Nat, duplicates : Nat, rejected : Uncertain \cup Refusals]
Progress == [pc : SenderPlaces, batch : SUBSET EventIds, selected : SUBSET EventIds,
             previous : Uncertain, response : Responses]
Reporting == [active : BOOLEAN, timer : {"none", "run", "withdrawal"}, unconfirmed : Uncertain,
              failed : BOOLEAN, settings : BOOLEAN]
Tasks == [kind : {"run", "resend", "withdrawal"}, by : {"timer", "job"}, ids : SUBSET EventIds]
JobKinds == [kind : {"attach", "granted", "withheld", "record", "resend"}, ids : SUBSET EventIds]
Outcomes == {"none", "ok", "invalid", "failed"}

TypesOK ==
  /\ calls \in Seq(Calling) /\ answer \in [{"job", "sender"} -> Outcomes]
  /\ reporter \in Reporting /\ tail \in Seq(Tasks) /\ run \in Progress
  /\ jobs \in Seq(JobKinds) /\ jpc \in JobPlaces
  /\ phase \in {"idle", "writing", "written"}
  /\ server = [stored |-> server.stored, ingested |-> server.ingested, doubt |-> server.doubt]

----------------------------------------------------------------------------
(* The inductive invariant *)

\* Of one strand at most one is in a queue, or none.
One(q, b) == \A i, j \in DOMAIN q : q[i].by = b /\ q[j].by = b => i = j
No(q, b) == \A i \in DOMAIN q : q[i].by # b

\* What the counts of a response, or of a call that applies it, vouch for.
Vouched(ids, marks, accepted, duplicates, ingested) ==
  accepted + duplicates = Cardinality(ids \ DOMAIN marks) => ids \ DOMAIN marks \subseteq ingested
Uniform(marks) ==
  \E refused \in SUBSET EventIds, code \in {HostRejection, "ITEM_REFUSED"} : marks = [id \in refused |-> code]

CallOK(c) ==
  /\ c.by # "sender" => c.op \in JobOps \cup {"withdrawLocal"}
  /\ c.op = "withdrawLocal" => c.by = "job"
  /\ c.op = "put" => \E id \in EventIds \ (LegacyIds \cup LoaderIds) : c.ids = {id}
  /\ c.op = "scan" => c.ids \subseteq LoaderIds \ LegacyIds
  /\ c.op = "attempts" => c.code \in {"none", Unknown}
  /\ c.op = "markWithdrawal" => c.code \in WithdrawalStates \ {"none"}
  /\ c.op = "resendFailure" => c.marks \in Uncertain
  /\ c.op = "apply" => Uniform(c.marks)
Honest(c, ingested) == c.op = "apply" => Vouched(c.ids, c.marks, c.accepted, c.duplicates, ingested)
CallsOK == \A i \in DOMAIN calls : CallOK(calls[i]) /\ Honest(calls[i], server.ingested)

\* A strand waits for one call, or for its answer, or for neither.
Waiting(q, ans, b, pc, waits) ==
  /\ One(q, b)
  /\ pc \notin waits \/ ans # "none" => No(q, b)
  /\ pc \notin waits => ans = "none"

Marks(c, ids) == c.op \in {"intent", "resendIntent"} /\ c.ids = ids
SenderOK ==
  /\ Waiting(calls, answer["sender"], "sender", run.pc, SenderWaits)
  /\ run.pc = "intent" => \A i \in DOMAIN calls : calls[i].by = "sender" => Marks(calls[i], run.batch)
JobOK ==
  /\ Waiting(calls, answer["job"], "job", jpc, JobWaits)
  /\ jpc # "local" => \A i \in DOMAIN calls : calls[i].op # "withdrawLocal"

\* Nothing is sent when a withdrawal erases: the sender is stopped and the
\* tasks before it are over.
TailOK ==
  /\ run.pc # "idle" => tail # <<>>
  /\ run.pc = "delete" => Head(tail).kind = "withdrawal"
  /\ One(tail, "job") /\ (jpc # "task" => No(tail, "job"))
  /\ jpc = "local" => \A i \in DOMAIN tail : tail[i].kind = "withdrawal"
  /\ jpc \in {"tail", "local"} => ~reporter.active /\ reporter.timer # "run"
JobsOK ==
  /\ jpc # "idle" => jobs # <<>>
  /\ \A i \in DOMAIN jobs : jobs[i].kind = "record" =>
       \E id \in EventIds \ (LegacyIds \cup LoaderIds) : jobs[i].ids = {id}

Marked(s, ids) == \A id \in ids : id \in Pending(s) /\ s.rows[id].code \in Markers
WriteOK ==
  /\ phase # "idle" => calls # <<>>
  /\ phase = "written" => disk = next
  /\ phase # "idle" /\ Head(calls).op \in {"intent", "resendIntent"} => Marked(next, Head(calls).ids)
ScansOK ==
  /\ \A i, j \in DOMAIN calls : calls[i].op = "scan" /\ calls[j].op = "scan" => i = j
  /\ \A i \in DOMAIN calls : calls[i].op = "scan" => calls[i].ids \cap Held(memory) = {}
  /\ phase # "idle" /\ Head(calls).op # "scan" => Held(next) \cap LoaderIds \subseteq Held(memory)

Carries == tail # <<>> /\ Head(tail).kind \in {"run", "resend"}
Sent == run.pc \in {"sign", "post", "answered"} \/ (run.pc = "intent" /\ answer["sender"] = "ok")
MarkedOK ==
  Carries /\ Sent => Marked(memory, run.batch) /\ Marked(disk, run.batch) /\ Marked(next, run.batch)

Taken(s, ingested) ==
  \A id \in Held(s) : s.rows[id].state \in {"sent", "duplicate"} => id \in ingested
AnswerOK ==
  run.pc = "answered" /\ run.response.kind = "committed" =>
    LET r == run.response IN
    Uniform(r.rejected) /\ Vouched(run.batch, r.rejected, r.accepted, r.duplicates, server.ingested)
TakenOK ==
  Taken(memory, server.ingested) /\ Taken(disk, server.ingested) /\ Taken(next, server.ingested)

GoodOK == Good(memory) /\ Good(disk) /\ Good(next)

Inv ==
  /\ TypesOK /\ GoodOK /\ CallsOK /\ SenderOK /\ JobOK /\ TailOK /\ JobsOK
  /\ WriteOK /\ ScansOK /\ MarkedOK /\ AnswerOK /\ TakenOK

----------------------------------------------------------------------------
(* Queues *)

LEMMA Appended ==
  ASSUME NEW S, NEW q \in Seq(S), NEW e \in S
  PROVE  /\ Append(q, e) \in Seq(S) /\ Len(q) \in Nat /\ DOMAIN q = 1..Len(q)
         /\ DOMAIN Append(q, e) = 1..(Len(q) + 1) /\ Append(q, e)[Len(q) + 1] = e
         /\ \A i \in 1..Len(q) : Append(q, e)[i] = q[i]
         /\ Append(q, e) # <<>> /\ (q # <<>> => Head(Append(q, e)) = Head(q))
         /\ (q = <<>> => Head(Append(q, e)) = e)
  OBVIOUS

LEMMA Dropped ==
  ASSUME NEW S, NEW q \in Seq(S), q # <<>>
  PROVE  /\ Tail(q) \in Seq(S) /\ Head(q) \in S /\ Len(q) \in Nat /\ DOMAIN q = 1..Len(q)
         /\ DOMAIN Tail(q) = 1..(Len(q) - 1) /\ Head(q) = q[1] /\ 1 \in DOMAIN q
         /\ \A i \in 1..(Len(q) - 1) : Tail(q)[i] = q[i + 1]
  OBVIOUS

(* What every entry is, it stays; a new one and the oldest are entries. *)
LEMMA Entries ==
  ASSUME NEW S, NEW q \in Seq(S)
  PROVE  /\ \A e \in S : \A i \in DOMAIN Append(q, e) :
              Append(q, e)[i] = e \/ \E k \in DOMAIN q : Append(q, e)[i] = q[k]
         /\ q # <<>> => \A i \in DOMAIN Tail(q) : \E k \in DOMAIN q : Tail(q)[i] = q[k]
         /\ q # <<>> => \E k \in DOMAIN q : Head(q) = q[k]
<1>1. ASSUME NEW e \in S, NEW i \in DOMAIN Append(q, e)
      PROVE  Append(q, e)[i] = e \/ \E k \in DOMAIN q : Append(q, e)[i] = q[k]
  BY Appended
<1>2. ASSUME q # <<>>, NEW i \in DOMAIN Tail(q)
      PROVE  \E k \in DOMAIN q : Tail(q)[i] = q[k]
  <2>1. i + 1 \in DOMAIN q /\ Tail(q)[i] = q[i + 1]
    BY <1>2, Dropped
  <2> QED BY <2>1
<1>3. ASSUME q # <<>> PROVE \E k \in DOMAIN q : Head(q) = q[k]
  BY <1>3, Dropped
<1> QED BY <1>1, <1>2, <1>3

LEMMA OneAppend ==
  ASSUME NEW S, NEW q \in Seq(S), NEW e \in S, NEW b, One(q, b), e.by = b => No(q, b)
  PROVE  One(Append(q, e), b) /\ (e.by # b /\ No(q, b) => No(Append(q, e), b))
BY Appended DEF One, No

LEMMA OneTail ==
  ASSUME NEW S, NEW q \in Seq(S), q # <<>>, NEW b, One(q, b)
  PROVE  /\ One(Tail(q), b)
         /\ Head(q).by = b \/ No(q, b) => No(Tail(q), b)
<1>1. /\ Len(q) \in Nat /\ DOMAIN q = 1..Len(q) /\ DOMAIN Tail(q) = 1..(Len(q) - 1)
      /\ Head(q) = q[1] /\ 1 \in DOMAIN q
      /\ \A i \in 1..(Len(q) - 1) : Tail(q)[i] = q[i + 1]
  BY Dropped
<1>2. \A i \in DOMAIN Tail(q) : i + 1 \in DOMAIN q /\ i + 1 # 1 /\ Tail(q)[i] = q[i + 1]
  BY <1>1
<1>3. One(Tail(q), b)
  <2>1. ASSUME NEW i \in DOMAIN Tail(q), NEW j \in DOMAIN Tail(q), Tail(q)[i].by = b, Tail(q)[j].by = b
        PROVE  i = j
    <3>1. i + 1 = j + 1
      BY <1>2, <2>1 DEF One
    <3> QED BY <1>1, <3>1
  <2> QED BY <2>1 DEF One
<1>4. ASSUME Head(q).by = b \/ No(q, b)
      PROVE  No(Tail(q), b)
  BY <1>1, <1>2, <1>4 DEF One, No
<1> QED BY <1>3, <1>4

(* A strand that waits for nothing, or has its answer, may ask. *)
LEMMA WaitingAsks ==
  ASSUME NEW S, NEW q \in Seq(S), NEW e \in S, NEW b, NEW ans, NEW pc, NEW waits,
         Waiting(q, ans, b, pc, waits), pc \notin waits \/ ans # "none", e.by = b,
         NEW at \in waits
  PROVE  Waiting(Append(q, e), "none", b, at, waits)
BY OneAppend DEF Waiting

LEMMA WaitingHears ==
  ASSUME NEW q, NEW b, NEW ans, NEW pc, NEW waits, Waiting(q, ans, b, pc, waits),
         pc \notin waits \/ ans # "none", NEW at
  PROVE  Waiting(q, "none", b, at, waits)
BY DEF Waiting

LEMMA WaitingOthers ==
  ASSUME NEW S, NEW q \in Seq(S), NEW e \in S, NEW b, NEW ans, NEW pc, NEW waits,
         Waiting(q, ans, b, pc, waits), e.by # b
  PROVE  Waiting(Append(q, e), ans, b, pc, waits)
BY OneAppend DEF Waiting

(* A call is over: its strand has the answer, the other waits as before. *)
LEMMA WaitingEnds ==
  ASSUME NEW S, NEW q \in Seq(S), q # <<>>, NEW b, NEW ans, NEW pc, NEW waits,
         Waiting(q, ans, b, pc, waits), NEW o
  PROVE  /\ Head(q).by = b => pc \in waits /\ ans = "none" /\ Waiting(Tail(q), o, b, pc, waits)
         /\ Head(q).by # b => Waiting(Tail(q), ans, b, pc, waits)
<1>1. Head(q) = q[1] /\ 1 \in DOMAIN q
  BY Dropped
<1>2. CASE Head(q).by = b
  BY <1>1, <1>2, OneTail DEF Waiting, No
<1>3. CASE Head(q).by # b
  BY <1>3, OneTail DEF Waiting
<1> QED BY <1>2, <1>3
----------------------------------------------------------------------------
(* What a call does to the buffer *)

LEMMA FactIsContent == Fact \in Contents
BY ContentsAssumption DEF Fact

LEMMA AmendAt ==
  ASSUME NEW s, IsSnapshot(s), NEW changed
  PROVE  /\ Held(Amend(s, changed)) = Held(s)
         /\ \A id \in Held(s) : Amend(s, changed).rows[id] =
                                  IF id \in DOMAIN changed THEN changed[id] ELSE s.rows[id]
<1> DEFINE rows == [id \in Held(s) |-> IF id \in DOMAIN changed THEN changed[id] ELSE s.rows[id]]
           t == [s EXCEPT !.rows = rows]
<1>1. t = Amend(s, changed)
  BY DEF Amend
<1>2. DOMAIN rows = Held(s) /\ \A id \in Held(s) : rows[id] = IF id \in DOMAIN changed THEN changed[id] ELSE s.rows[id]
  OBVIOUS
<1> HIDE DEF rows
<1>3. t.rows = rows
  BY DEF IsSnapshot
<1> QED BY <1>1, <1>2, <1>3 DEF Held

(* What a put or a scan adds is pending and new; what is pending stays. *)
Adds(s, t, ids) ==
  /\ Held(t) \subseteq Held(s) \cup ids /\ Pending(s) \subseteq Held(t)
  /\ \A id \in Held(t) : IF id \in Held(s) THEN t.rows[id] = s.rows[id] ELSE t.rows[id].state = "pending"

LEMMA PutAdds ==
  ASSUME NEW s, IsSnapshot(s), NEW id, id \notin Held(s), NEW now
  PROVE  Adds(s, Put(s, id, Fact, TRUE, now), {id})
<1> DEFINE kept == Held(s) \ Expired(s, now)
           rows == [x \in kept \cup {id} |-> IF x = id THEN NewRow(Fact, TRUE) ELSE s.rows[x]]
           t == [s EXCEPT !.rows = rows]
<1>1. t = Put(s, id, Fact, TRUE, now)
  BY DEF Put
<1>2. /\ DOMAIN rows = kept \cup {id} /\ rows[id].state = "pending"
      /\ \A x \in kept : rows[x] = s.rows[x]
  BY DEF NewRow
<1>3. kept \subseteq Held(s) /\ Pending(s) \subseteq kept
  BY DEF Pending, Expired, Terminal
<1> HIDE DEF rows, kept
<1>4. t.rows = rows
  BY DEF IsSnapshot
<1> QED BY <1>1, <1>2, <1>3, <1>4 DEF Held, Adds

LEMMA ScanAdds ==
  ASSUME NEW s, IsSnapshot(s), NEW ids, ids \cap Held(s) = {}, NEW inputs, DOMAIN inputs = ids, NEW now
  PROVE  Adds(s, UpdateInventory(s, {}, inputs, {}, now), ids)
<1> DEFINE kept == Retained(s, {}, now)
           rows == [x \in kept \cup ids |-> IF x \in kept THEN s.rows[x] ELSE NewRow(inputs[x], TRUE)]
           t == UpdateInventory(s, {}, inputs, {}, now)
<1>1. t = [s EXCEPT !.inventory = {}, !.rows = rows]
  BY DEF UpdateInventory
<1>2. /\ DOMAIN rows = kept \cup ids
      /\ \A x \in kept : rows[x] = s.rows[x]
      /\ \A x \in ids \ kept : rows[x].state = "pending"
  BY DEF NewRow
<1>3. Retractable(s, {}) = {}
  BY DEF Retractable
<1>4. kept \subseteq Held(s) /\ Pending(s) \subseteq kept
  BY <1>3 DEF Pending, Expired, Terminal, Retained
<1> HIDE DEF rows, kept, t
<1>5. t.rows = rows
  BY <1>1 DEF IsSnapshot
<1>6. Held(t) = kept \cup ids /\ Held(s) = DOMAIN s.rows
  BY <1>2, <1>5 DEF Held
<1>7. Adds(s, t, ids)
  BY <1>2, <1>4, <1>5, <1>6 DEF Adds
<1> QED BY <1>7 DEF t

(* What a call leaves as it was, and what it vouches for. *)
Effects(c, s, t) ==
  /\ c.op \in JobOps => \A id \in Pending(s) : id \in Held(t) /\ t.rows[id] = s.rows[id]
  /\ c.op \in {"intent", "resendIntent"} => Marked(t, c.ids)
  /\ \A ingested : Taken(s, ingested) /\ Honest(c, ingested) => Taken(t, ingested)
  /\ c.op # "scan" => Held(t) \cap LoaderIds \subseteq Held(s)

(* A call that amends rows, by what it makes of each. *)
LEMMA AmendEffects ==
  ASSUME NEW s, IsSnapshot(s), NEW c, NEW D \in SUBSET Held(s), NEW changed, DOMAIN changed = D,
         c.op \in JobOps => D \cap Pending(s) = {},
         c.op \in {"intent", "resendIntent"} =>
           c.ids = D /\ \A id \in D : changed[id].state = "pending" /\ changed[id].code \in Markers,
         \A id \in D : changed[id].state \in {s.rows[id].state, "pending"}
  PROVE  Effects(c, s, Amend(s, changed))
<1> DEFINE t == Amend(s, changed)
<1>1. /\ Held(t) = Held(s)
      /\ \A id \in Held(s) : t.rows[id] = IF id \in D THEN changed[id] ELSE s.rows[id]
  BY AmendAt
<1> HIDE DEF t
<1>2. c.op \in JobOps => \A id \in Pending(s) : id \in Held(t) /\ t.rows[id] = s.rows[id]
  BY <1>1 DEF Pending
<1>3. c.op \in {"intent", "resendIntent"} => Marked(t, c.ids)
  BY <1>1 DEF Marked, Pending
<1>4. ASSUME NEW ingested, Taken(s, ingested), Honest(c, ingested)
      PROVE  Taken(t, ingested)
  <2>1. ASSUME NEW id \in Held(t), t.rows[id].state \in {"sent", "duplicate"}
        PROVE  id \in ingested
    BY <1>1, <1>4, <2>1 DEF Taken
  <2> QED BY <2>1 DEF Taken
<1>5. Effects(c, s, t)
  BY <1>1, <1>2, <1>3, <1>4 DEF Effects
<1> QED BY <1>5 DEF t

(* A call that adds rows. *)
LEMMA AddEffects ==
  ASSUME NEW s, IsSnapshot(s), NEW c, c.op \in {"put", "scan"}, NEW t, Adds(s, t, c.ids),
         c.ids \cap Held(s) = {}, c.op = "put" => c.ids \cap LoaderIds = {}
  PROVE  Effects(c, s, t)
<1>1. \A id \in Pending(s) : id \in Held(t) /\ t.rows[id] = s.rows[id]
  BY DEF Adds, Pending
<1>2. ASSUME NEW ingested, Taken(s, ingested) PROVE Taken(t, ingested)
  BY <1>2 DEF Taken, Adds
<1>3. c.op # "scan" => Held(t) \cap LoaderIds \subseteq Held(s)
  BY DEF Adds
<1> QED BY <1>1, <1>2, <1>3 DEF Effects

(* A call that has no effect on the rows, or removes them all. *)
LEMMA KeepEffects ==
  ASSUME NEW s, NEW c, c.op \in {"withdrawLocal", "markWithdrawal", "clearWithdrawal"}, NEW t,
         t.rows = s.rows \/ (c.op = "withdrawLocal" /\ Held(t) = {})
  PROVE  Effects(c, s, t)
BY DEF Effects, Held, Taken, Pending, JobOps

Shown(c, s) == Good(Result(c, s)) /\ Follows(s, Result(c, s)) /\ Effects(c, s, Result(c, s))

LEMMA PutResult ==
  ASSUME NEW s, Good(s), NEW c \in Calling, CallOK(c), c.op = "put", Admitted(c, s), Changes(c, s)
  PROVE  Shown(c, s)
<1>1. PICK id \in EventIds \ (LegacyIds \cup LoaderIds) : c.ids = {id}
  BY DEF CallOK
<1>2. Result(c, s) = Put(s, id, Fact, TRUE, SessionTime)
  <2>1. (CHOOSE x \in c.ids : TRUE) = id
    BY <1>1
  <2> QED BY <2>1 DEF Result
<1>3. id \notin Held(s) /\ PutWrites(s, id, SessionTime)
  BY <1>1 DEF Admitted, Changes
<1>4. Good(Result(c, s)) /\ Follows(s, Result(c, s))
  BY <1>2, <1>3, FactIsContent, PutIsGood
<1>5. IsSnapshot(s)
  BY DEF Good
<1>6. Adds(s, Put(s, id, Fact, TRUE, SessionTime), {id})
  BY <1>3, <1>5, PutAdds
<1>7. /\ c.op \in {"put", "scan"} /\ Adds(s, Result(c, s), c.ids)
      /\ c.ids \cap Held(s) = {} /\ c.ids \cap LoaderIds = {}
  BY <1>1, <1>2, <1>3, <1>6
<1>8. Effects(c, s, Result(c, s))
  BY <1>5, <1>7, AddEffects
<1> QED BY <1>4, <1>8 DEF Shown

LEMMA ScanResult ==
  ASSUME NEW s, Good(s), NEW c \in Calling, CallOK(c), c.op = "scan", c.ids \cap Held(s) = {},
         Admitted(c, s)
  PROVE  Shown(c, s)
<1> DEFINE inputs == [id \in c.ids |-> Fact]
<1>1. Result(c, s) = UpdateInventory(s, {}, inputs, {}, SessionTime)
  BY DEF Result
<1>2. UpdateInventoryWrites(s, inputs, {}, SessionTime)
  BY DEF Admitted
<1>3. inputs = [id \in c.ids |-> Fact] /\ DOMAIN inputs = c.ids
  OBVIOUS
<1>4. c.ids \in SUBSET LoaderIds /\ c.ids \cap LegacyIds = {}
  BY DEF CallOK
<1> HIDE DEF inputs
<1>5. Good(Result(c, s)) /\ Follows(s, Result(c, s))
  <2>1. {} \in SUBSET Items
    OBVIOUS
  <2>2. /\ Good(UpdateInventory(s, {}, inputs, {}, SessionTime))
        /\ Follows(s, UpdateInventory(s, {}, inputs, {}, SessionTime))
    BY <1>2, <1>3, <1>4, <2>1, FactIsContent, UpdateInventoryIsGood, Zenon
  <2> QED BY <1>1, <2>2
<1>6. Adds(s, Result(c, s), c.ids)
  BY <1>1, <1>3, ScanAdds DEF Good
<1>7. Effects(c, s, Result(c, s))
  BY <1>6, AddEffects DEF Good
<1> QED BY <1>5, <1>7 DEF Shown

LEMMA ReopenResult ==
  ASSUME NEW s, Good(s), NEW c \in Calling, c.op = "reopen", Changes(c, s)
  PROVE  Shown(c, s)
<1> DEFINE D == Reopenable(s, c.ids)
           changed == [id \in D |-> [s.rows[id] EXCEPT !.state = "pending", !.code = "none", !.sentAt = 0]]
<1>1. Result(c, s) = Amend(s, changed) /\ Result(c, s) = Reopen(s, c.ids)
  BY DEF Result, Reopen
<1>2. ReopenWrites(s, c.ids)
  BY DEF Changes
<1>3. D \subseteq Held(s) /\ D \cap Pending(s) = {} /\ DOMAIN changed = D
  BY DEF Reopenable, Pending
<1>4. \A id \in D : changed[id].state = "pending"
  BY <1>3, RowsOf DEF Row, Good
<1> HIDE DEF D, changed
<1>5. Effects(c, s, Amend(s, changed))
  BY <1>3, <1>4, AmendEffects DEF Good
<1> QED BY <1>1, <1>2, <1>5, ReopenIsGood DEF Shown

LEMMA ApplyResult ==
  ASSUME NEW s, Good(s), NEW c \in Calling, CallOK(c), c.op = "apply", Admitted(c, s)
  PROVE  Shown(c, s)
<1> DEFINE state(id) == IF id \in DOMAIN c.marks THEN "rejected"
                        ELSE IF c.accepted > 0 THEN "sent" ELSE "duplicate"
           changed == [id \in c.ids |->
             [s.rows[id] EXCEPT !.state = state(id),
                                !.code = IF id \in DOMAIN c.marks THEN c.marks[id] ELSE "none",
                                !.tried = TRUE, !.sentAt = SessionTime]]
<1>1. /\ Result(c, s) = Amend(s, changed)
      /\ Result(c, s) = ApplyUpload(s, c.ids, c.accepted, c.marks, SessionTime)
  BY DEF Result, ApplyUpload
<1>2. ApplyUploadWrites(s, c.ids, c.accepted, c.duplicates, c.marks)
  BY DEF Admitted
<1>3. \A id \in DOMAIN c.marks : c.marks[id] \in {HostRejection, "ITEM_REFUSED"}
  BY DEF CallOK, Uniform
<1>4. c.accepted \in Nat /\ c.duplicates \in Nat /\ SessionTime \in Nat
  BY DEF Calling, SessionTime
<1>5. Good(Result(c, s)) /\ Follows(s, Result(c, s))
  <2> HIDE DEF changed
  <2>1. /\ Good(ApplyUpload(s, c.ids, c.accepted, c.marks, SessionTime))
        /\ Follows(s, ApplyUpload(s, c.ids, c.accepted, c.marks, SessionTime))
    BY <1>2, <1>3, <1>4, ApplyUploadIsGood, Zenon
  <2> QED BY <1>1, <2>1
<1>6. c.ids \subseteq Held(s) /\ DOMAIN changed = c.ids
  BY <1>2 DEF ApplyUploadWrites, Pending
<1>7. \A id \in c.ids \ (c.ids \ DOMAIN c.marks) : changed[id].state = "rejected"
  BY <1>6, RowsOf DEF Row, Good
<1>8. \A ingested : Honest(c, ingested) => c.ids \ DOMAIN c.marks \subseteq ingested
  BY <1>2 DEF Honest, Vouched, ApplyUploadWrites
<1> HIDE DEF changed
<1>9. IsSnapshot(s) /\ c.op \notin JobOps /\ c.op \notin {"intent", "resendIntent"}
  BY DEF Good, JobOps
<1> DEFINE t == Amend(s, changed)
<1>10. /\ Held(t) = Held(s)
       /\ \A id \in Held(s) : t.rows[id] = IF id \in c.ids THEN changed[id] ELSE s.rows[id]
  BY <1>6, <1>9, AmendAt
<1> HIDE DEF t
<1>11. ASSUME NEW ingested, Taken(s, ingested), Honest(c, ingested)
       PROVE  Taken(t, ingested)
  <2>1. ASSUME NEW id \in Held(t), t.rows[id].state \in {"sent", "duplicate"}
        PROVE  id \in ingested
    <3>1. CASE id \in c.ids
      BY <1>7, <1>8, <1>10, <1>11, <2>1, <3>1
    <3>2. CASE id \notin c.ids
      BY <1>10, <1>11, <2>1, <3>2 DEF Taken
    <3> QED BY <3>1, <3>2
  <2> QED BY <2>1 DEF Taken
<1>12. Effects(c, s, t)
  BY <1>9, <1>10, <1>11 DEF Effects
<1> QED BY <1>1, <1>5, <1>12 DEF Shown, t

(* The markers of an attempt: only codes change, and whether it was tried. *)
LEMMA MarkResult ==
  ASSUME NEW s, Good(s), NEW c \in Calling, CallOK(c),
         c.op \in {"intent", "undoIntent", "attempts", "resendIntent", "resendFailure"}, Admitted(c, s)
  PROVE  Shown(c, s)
<1>1. IsSnapshot(s) /\ \A id \in Held(s) : s.rows[id] \in Row
  BY RowsOf DEF Good
<1>2. c.op \notin JobOps
  BY DEF JobOps
<1>3. CASE c.op \in {"intent", "undoIntent"}
  <2> DEFINE pending == c.op = "intent"
             changed == [id \in c.ids |-> [s.rows[id] EXCEPT !.code = IF pending THEN Intent ELSE "none"]]
  <2>1. Result(c, s) = Amend(s, changed) /\ Result(c, s) = UploadIntent(s, c.ids, pending)
    BY <1>3 DEF Result, UploadIntent
  <2>2. UploadIntentWrites(s, c.ids)
    BY <1>3 DEF Admitted
  <2>3. /\ c.ids \in SUBSET Held(s) /\ DOMAIN changed = c.ids
        /\ \A id \in c.ids : /\ changed[id].state = s.rows[id].state /\ s.rows[id].state = "pending"
                             /\ pending => changed[id].code = Intent
    BY <1>1, <2>2 DEF UploadIntentWrites, Pending, Row
  <2>4. Good(UploadIntent(s, c.ids, pending)) /\ Follows(s, UploadIntent(s, c.ids, pending))
    BY <2>2, UploadIntentIsGood
  <2> HIDE DEF changed
  <2>5. Effects(c, s, Amend(s, changed))
    BY <1>1, <1>2, <1>3, <2>3, AmendEffects DEF Markers
  <2> QED BY <2>1, <2>4, <2>5 DEF Shown
<1>4. CASE c.op = "attempts"
  <2> DEFINE changed == [id \in c.ids |-> [s.rows[id] EXCEPT !.code = c.code, !.tried = TRUE]]
  <2>1. Result(c, s) = Amend(s, changed) /\ Result(c, s) = Attempts(s, c.ids, c.code)
    BY <1>4 DEF Result, Attempts
  <2>2. AttemptsWrites(s, c.ids) /\ c.code \in {"none", Unknown}
    BY <1>4 DEF Admitted, CallOK
  <2>3. /\ c.ids \in SUBSET Held(s) /\ DOMAIN changed = c.ids
        /\ \A id \in c.ids : changed[id].state = s.rows[id].state
    BY <1>1, <2>2 DEF AttemptsWrites, Row
  <2>4. Good(Attempts(s, c.ids, c.code)) /\ Follows(s, Attempts(s, c.ids, c.code))
    BY <2>2, AttemptsIsGood
  <2> HIDE DEF changed
  <2>5. Effects(c, s, Amend(s, changed))
    BY <1>1, <1>2, <1>4, <2>3, AmendEffects
  <2> QED BY <2>1, <2>4, <2>5 DEF Shown
<1>5. CASE c.op = "resendIntent"
  <2> DEFINE changed == [id \in c.ids |-> [s.rows[id] EXCEPT !.code = IF @ = Unknown THEN Unknown ELSE Intent]]
  <2>1. Result(c, s) = Amend(s, changed) /\ Result(c, s) = ResendIntent(s, c.ids)
    BY <1>5 DEF Result, ResendIntent
  <2>2. ResendIntentWrites(s, c.ids)
    BY <1>5 DEF Admitted
  <2>3. /\ c.ids \in SUBSET Held(s) /\ DOMAIN changed = c.ids
        /\ \A id \in c.ids : /\ changed[id].state = s.rows[id].state /\ s.rows[id].state = "pending"
                             /\ changed[id].code \in Markers
    BY <1>1, <2>2 DEF ResendIntentWrites, Pending, Row, Markers
  <2>4. Good(ResendIntent(s, c.ids)) /\ Follows(s, ResendIntent(s, c.ids))
    BY <2>2, ResendIntentIsGood
  <2> HIDE DEF changed
  <2>5. Effects(c, s, Amend(s, changed))
    BY <1>1, <1>2, <1>5, <2>3, AmendEffects
  <2> QED BY <2>1, <2>4, <2>5 DEF Shown
<1>6. CASE c.op = "resendFailure"
  <2> DEFINE changed == [id \in c.ids |-> [s.rows[id] EXCEPT
               !.code = IF id \in DOMAIN c.marks THEN c.marks[id] ELSE "none", !.tried = TRUE]]
  <2>1. Result(c, s) = Amend(s, changed) /\ Result(c, s) = ResendFailure(s, c.ids, c.marks)
    BY <1>6 DEF Result, ResendFailure
  <2>2. ResendFailureWrites(s, c.ids) /\ \A id \in DOMAIN c.marks : c.marks[id] \in Markers
    BY <1>6 DEF Admitted, CallOK, Uncertain
  <2>3. /\ c.ids \in SUBSET Held(s) /\ DOMAIN changed = c.ids
        /\ \A id \in c.ids : changed[id].state = s.rows[id].state
    BY <1>1, <2>2 DEF ResendFailureWrites, Pending, Row
  <2>4. Good(ResendFailure(s, c.ids, c.marks)) /\ Follows(s, ResendFailure(s, c.ids, c.marks))
    BY <2>2, ResendFailureIsGood
  <2> HIDE DEF changed
  <2>5. Effects(c, s, Amend(s, changed))
    BY <1>1, <1>2, <1>6, <2>3, AmendEffects
  <2> QED BY <2>1, <2>4, <2>5 DEF Shown
<1> QED BY <1>3, <1>4, <1>5, <1>6

LEMMA WithdrawalResult ==
  ASSUME NEW s, Good(s), NEW c \in Calling, CallOK(c),
         c.op \in {"withdrawLocal", "markWithdrawal", "clearWithdrawal"}
  PROVE  Shown(c, s)
<1>1. CASE c.op = "withdrawLocal"
  <2>1. Result(c, s) = WithdrawLocal(s)
    BY <1>1 DEF Result
  <2>2. Held(WithdrawLocal(s)) = {}
    BY EmptyRows DEF WithdrawLocal, Held, Good, IsSnapshot
  <2> QED BY <1>1, <2>1, <2>2, WithdrawLocalIsGood, KeepEffects DEF Shown
<1>2. CASE c.op \in {"markWithdrawal", "clearWithdrawal"}
  <2>1. PICK state \in WithdrawalStates : Result(c, s) = [s EXCEPT !.withdrawal = state]
    BY <1>2 DEF Result, MarkWithdrawal, ClearWithdrawal, CallOK, WithdrawalStates
  <2>2. Result(c, s).rows = s.rows
    BY <2>1 DEF Good, IsSnapshot
  <2>3. Good(Result(c, s)) /\ Follows(s, Result(c, s))
    BY <2>1, SameRowsIsGood
  <2>4. Effects(c, s, Result(c, s))
    BY <1>2, <2>2, KeepEffects
  <2> QED BY <2>3, <2>4 DEF Shown
<1> QED BY <1>1, <1>2

(* A call that is admitted leads to a good snapshot that may follow. *)
LEMMA CallResult ==
  ASSUME NEW s, Good(s), NEW c \in Calling, CallOK(c), c.op = "scan" => c.ids \cap Held(s) = {},
         Admitted(c, s), Changes(c, s)
  PROVE  Shown(c, s)
<1>1. c.op \in BufferOps
  BY DEF Calling
<1>2. CASE c.op = "put" BY <1>2, PutResult
<1>3. CASE c.op = "scan" BY <1>3, ScanResult
<1>4. CASE c.op = "reopen" BY <1>4, ReopenResult
<1>5. CASE c.op = "apply" BY <1>5, ApplyResult
<1>6. CASE c.op \in {"intent", "undoIntent", "attempts", "resendIntent", "resendFailure"}
  BY <1>6, MarkResult
<1>7. CASE c.op \in {"withdrawLocal", "markWithdrawal", "clearWithdrawal"}
  BY <1>7, WithdrawalResult
<1> QED BY <1>1, <1>2, <1>3, <1>4, <1>5, <1>6, <1>7 DEF BufferOps

----------------------------------------------------------------------------
(* The store's steps *)

(* While something is sent, the only calls are those of jobs, and none erases. *)
LEMMA SentCalls ==
  ASSUME Inv, Carries, Sent, NEW i \in DOMAIN calls
  PROVE  calls[i].op \in JobOps
<1>1. calls[i].by # "sender"
  BY DEF Inv, SenderOK, Waiting, No, Sent, SenderWaits
<1>2. jpc # "local"
  <2>1. Head(tail) = tail[1] /\ 1 \in DOMAIN tail
    BY Dropped DEF Carries, Inv, TypesOK
  <2> QED BY <2>1 DEF Carries, Inv, TailOK
<1>3. calls[i].op # "withdrawLocal"
  BY <1>2 DEF Inv, JobOK
<1> QED BY <1>1, <1>3 DEF Inv, CallsOK, CallOK

(* The oldest call is over. *)
LEMMA Concluded ==
  ASSUME Inv, calls # <<>>, NEW outcome \in {"ok", "invalid", "failed"}, Conclude(outcome),
         UNCHANGED <<run, jpc>>
  PROVE  /\ calls' \in Seq(Calling) /\ answer' \in [{"job", "sender"} -> Outcomes]
         /\ \A i \in DOMAIN calls' : \E k \in DOMAIN calls : calls'[i] = calls[k]
         /\ \A i, j \in DOMAIN calls' : calls'[i].op = "scan" /\ calls'[j].op = "scan" => i = j
         /\ SenderOK' /\ JobOK'
         /\ Sent' => \/ Sent
                     \/ Head(calls).by = "sender" /\ outcome = "ok" /\ Marks(Head(calls), run.batch)
<1>1. /\ calls \in Seq(Calling) /\ answer \in [{"job", "sender"} -> Outcomes]
      /\ calls' = Tail(calls)
      /\ answer' = IF Head(calls).by = "scan" THEN answer
                   ELSE [answer EXCEPT ![Head(calls).by] = outcome]
  BY DEF Inv, TypesOK, Conclude
<1>2. Head(calls) \in Calling /\ Head(calls) = calls[1] /\ 1 \in DOMAIN calls
  BY <1>1, Dropped
<1>3. Head(calls).by \in {"job", "sender", "scan"}
  BY <1>2 DEF Calling
<1>4. calls' \in Seq(Calling) /\ answer' \in [{"job", "sender"} -> Outcomes]
  BY <1>1, <1>3, Dropped DEF Outcomes
<1>5. \A i \in DOMAIN calls' : \E k \in DOMAIN calls : calls'[i] = calls[k]
  BY <1>1, Entries
<1>6. ASSUME NEW i \in DOMAIN calls', NEW j \in DOMAIN calls',
             calls'[i].op = "scan", calls'[j].op = "scan"
      PROVE  i = j
  <2>1. /\ Len(calls) \in Nat /\ DOMAIN calls = 1..Len(calls) /\ DOMAIN calls' = 1..(Len(calls) - 1)
        /\ \A k \in 1..(Len(calls) - 1) : calls'[k] = calls[k + 1]
    BY <1>1, Dropped
  <2>2. i + 1 \in DOMAIN calls /\ j + 1 \in DOMAIN calls /\ calls'[i] = calls[i + 1] /\ calls'[j] = calls[j + 1]
    BY <2>1
  <2>3. i + 1 = j + 1
    BY <1>6, <2>2 DEF Inv, ScansOK
  <2> QED BY <2>1, <2>3
<1>7. \A b \in {"job", "sender"} : answer'[b] = IF Head(calls).by = b THEN outcome ELSE answer[b]
  BY <1>1, <1>3
<1>8. SenderOK'
  <2>1. Waiting(calls, answer["sender"], "sender", run.pc, SenderWaits)
    BY DEF Inv, SenderOK
  <2>2. Waiting(Tail(calls), answer'["sender"], "sender", run.pc, SenderWaits)
    BY <1>1, <1>7, <2>1, WaitingEnds
  <2>3. run.pc = "intent" => \A i \in DOMAIN calls' : calls'[i].by = "sender" => Marks(calls'[i], run.batch)
    BY <1>5 DEF Inv, SenderOK
  <2> QED BY <1>1, <2>2, <2>3 DEF SenderOK
<1>9. JobOK'
  <2>1. Waiting(calls, answer["job"], "job", jpc, JobWaits)
    BY DEF Inv, JobOK
  <2>2. Waiting(Tail(calls), answer'["job"], "job", jpc, JobWaits)
    BY <1>1, <1>7, <2>1, WaitingEnds
  <2>3. jpc # "local" => \A i \in DOMAIN calls' : calls'[i].op # "withdrawLocal"
    BY <1>5 DEF Inv, JobOK
  <2> QED BY <1>1, <2>2, <2>3 DEF JobOK
<1>10. ASSUME Sent', ~Sent
       PROVE  Head(calls).by = "sender" /\ outcome = "ok" /\ Marks(Head(calls), run.batch)
  <2>1. run.pc = "intent" /\ answer'["sender"] = "ok" /\ answer["sender"] # "ok"
    BY <1>10 DEF Sent
  <2>2. Head(calls).by = "sender" /\ outcome = "ok"
    BY <1>7, <2>1
  <2> QED BY <1>2, <2>1, <2>2 DEF Inv, SenderOK
<1> QED BY <1>4, <1>5, <1>6, <1>8, <1>9, <1>10

(* What is asked of the calls under way asks the same of fewer. *)
LEMMA FewerCalls ==
  ASSUME Inv, calls' \in Seq(Calling), UNCHANGED <<server, memory>>,
         \A i \in DOMAIN calls' : \E k \in DOMAIN calls : calls'[i] = calls[k]
  PROVE  CallsOK' /\ \A i \in DOMAIN calls' : calls'[i].op = "scan" => calls'[i].ids \cap Held(memory) = {}
BY DEF Inv, CallsOK, ScansOK

LEMMA StoreRunInv ==
  ASSUME Inv, StoreRun
  PROVE  Inv'
<1> DEFINE c == Head(calls)
<1>1. /\ calls # <<>> /\ phase = "idle" /\ calls \in Seq(Calling)
      /\ UNCHANGED <<core, left, server, memory, disk, reporter, tail, run, jobs, jpc>>
  BY DEF StoreRun, Inv, TypesOK, outside, strands
<1>2. c \in Calling /\ c = calls[1] /\ 1 \in DOMAIN calls
  BY <1>1, Dropped
<1>3. CallOK(c) /\ Honest(c, server.ingested) /\ (c.op = "scan" => c.ids \cap Held(memory) = {})
  BY <1>2 DEF Inv, CallsOK, ScansOK
<1>4. Good(memory) /\ Taken(memory, server.ingested)
  BY DEF Inv, GoodOK, TakenOK
<1>5. TailOK' /\ JobsOK' /\ AnswerOK'
  BY <1>1 DEF Inv, TailOK, JobsOK, AnswerOK
<1>6. CASE /\ Admitted(c, memory) /\ Changes(c, memory)
           /\ phase' = "writing" /\ next' = Result(c, memory) /\ UNCHANGED <<calls, answer>>
  <2>1. Shown(c, memory)
    BY <1>2, <1>3, <1>4, <1>6, CallResult
  <2>2. Good(next') /\ Effects(c, memory, next')
    BY <1>6, <2>1 DEF Shown
  <2>3. TypesOK' /\ GoodOK' /\ CallsOK' /\ SenderOK' /\ JobOK'
    BY <1>1, <1>6, <2>2 DEF Inv, TypesOK, GoodOK, CallsOK, SenderOK, JobOK
  <2>4. WriteOK' /\ ScansOK'
    BY <1>1, <1>6, <2>2 DEF Inv, WriteOK, ScansOK, Effects
  <2>5. TakenOK'
    BY <1>1, <1>3, <1>4, <2>2 DEF Inv, TakenOK, Effects
  <2>6. MarkedOK'
    <3>1. SUFFICES ASSUME Carries', Sent'
                   PROVE  MarkedOK'
      BY DEF MarkedOK
    <3>2. Carries /\ Sent
      BY <1>1, <1>6, <3>1 DEF Carries, Sent
    <3>3. c.op \in JobOps
      BY <1>2, <3>2, SentCalls
    <3>4. Marked(memory, run.batch) /\ Marked(disk, run.batch)
      BY <3>2 DEF Inv, MarkedOK
    <3>5. Marked(next', run.batch)
      BY <2>2, <3>3, <3>4 DEF Effects, Marked, Pending
    <3> QED BY <1>1, <3>4, <3>5 DEF MarkedOK
  <2> QED BY <1>5, <2>3, <2>4, <2>5, <2>6 DEF Inv
<1>7. CASE /\ ~(Admitted(c, memory) /\ Changes(c, memory))
           /\ Conclude(IF Admitted(c, memory) THEN "ok" ELSE "invalid") /\ UNCHANGED <<phase, next>>
  <2> DEFINE outcome == IF Admitted(c, memory) THEN "ok" ELSE "invalid"
  <2>1. outcome \in {"ok", "invalid", "failed"} /\ Conclude(outcome)
    BY <1>7
  <2>2. Marks(c, run.batch) => outcome # "ok"
    BY <1>7 DEF Marks, Changes
  <2> HIDE DEF outcome
  <2>3. /\ calls' \in Seq(Calling) /\ answer' \in [{"job", "sender"} -> Outcomes]
        /\ \A i \in DOMAIN calls' : \E k \in DOMAIN calls : calls'[i] = calls[k]
        /\ \A i, j \in DOMAIN calls' : calls'[i].op = "scan" /\ calls'[j].op = "scan" => i = j
        /\ SenderOK' /\ JobOK' /\ (Sent' => Sent)
    BY <1>1, <2>1, <2>2, Concluded
  <2>4. TypesOK' /\ GoodOK' /\ TakenOK'
    BY <1>1, <1>7, <2>3 DEF Inv, TypesOK, GoodOK, TakenOK
  <2>5. CallsOK' /\ WriteOK' /\ ScansOK'
    BY <1>1, <1>7, <2>3, FewerCalls DEF WriteOK, ScansOK
  <2>6. MarkedOK'
    BY <1>1, <1>7, <2>3 DEF Inv, MarkedOK, Carries
  <2> QED BY <1>5, <2>3, <2>4, <2>5, <2>6 DEF Inv
<1> QED BY <1>6, <1>7 DEF StoreRun

LEMMA StorePublishInv ==
  ASSUME Inv, StorePublish
  PROVE  Inv'
<1>1. /\ phase = "writing" /\ disk' = next /\ phase' = "written"
      /\ UNCHANGED <<core, left, server, memory, next, calls, answer, reporter, tail, run, jobs, jpc>>
  BY DEF StorePublish, outside, strands
<1>2. TypesOK' /\ GoodOK' /\ CallsOK' /\ SenderOK' /\ JobOK' /\ TailOK' /\ JobsOK'
  BY <1>1 DEF Inv, TypesOK, GoodOK, CallsOK, SenderOK, JobOK, TailOK, JobsOK
<1>3. WriteOK' /\ ScansOK' /\ AnswerOK' /\ TakenOK'
  BY <1>1 DEF Inv, WriteOK, ScansOK, AnswerOK, TakenOK
<1>4. MarkedOK'
  BY <1>1 DEF Inv, MarkedOK, Carries, Sent
<1> QED BY <1>2, <1>3, <1>4 DEF Inv

(* A write that ends, either way: readers and disk agree. *)
LEMMA EndInv ==
  ASSUME Inv, phase # "idle", NEW outcome \in {"ok", "invalid", "failed"}, Conclude(outcome),
         UNCHANGED <<disk, reporter, tail, run, jobs, jpc>>,
         server' = [server EXCEPT !.doubt = server'.doubt],
         phase' = "idle", memory' \in {memory, next}, next' \in {memory, next},
         outcome = "ok" => disk = next /\ memory' = next /\ next' = next
  PROVE  Inv'
<1>1. calls # <<>> /\ calls \in Seq(Calling)
  BY DEF Inv, WriteOK, TypesOK
<1>2. /\ calls' \in Seq(Calling) /\ answer' \in [{"job", "sender"} -> Outcomes]
      /\ \A i \in DOMAIN calls' : \E k \in DOMAIN calls : calls'[i] = calls[k]
      /\ \A i, j \in DOMAIN calls' : calls'[i].op = "scan" /\ calls'[j].op = "scan" => i = j
      /\ SenderOK' /\ JobOK'
      /\ Sent' => \/ Sent
                  \/ Head(calls).by = "sender" /\ outcome = "ok" /\ Marks(Head(calls), run.batch)
  BY <1>1, Concluded
<1>3. /\ server'.ingested = server.ingested
      /\ server' = [stored |-> server'.stored, ingested |-> server'.ingested, doubt |-> server'.doubt]
  BY DEF Inv, TypesOK
<1>4. TypesOK' /\ GoodOK' /\ TailOK' /\ JobsOK'
  BY <1>2, <1>3 DEF Inv, TypesOK, GoodOK, TailOK, JobsOK
<1>5. AnswerOK' /\ TakenOK'
  BY <1>3 DEF Inv, AnswerOK, TakenOK
<1>6. CallsOK'
  BY <1>2, <1>3 DEF Inv, CallsOK
<1>7. WriteOK'
  BY DEF WriteOK
<1>8. MarkedOK'
  <2>1. SUFFICES ASSUME Carries', Sent'
                 PROVE  MarkedOK'
    BY DEF MarkedOK
  <2>2. CASE Sent
    BY <2>1, <2>2 DEF Inv, MarkedOK, Carries
  <2>3. CASE ~Sent
    BY <1>2, <2>1, <2>3 DEF Inv, MarkedOK, WriteOK, Marks
  <2> QED BY <2>2, <2>3
<1>9. ScansOK'
  <2>1. ASSUME NEW i \in DOMAIN calls', calls'[i].op = "scan"
        PROVE  calls'[i].ids \cap Held(memory') = {}
    <3>1. PICK k \in DOMAIN calls : k # 1 /\ calls'[i] = calls[k]
      <4>1. calls' = Tail(calls) /\ Len(calls) \in Nat /\ DOMAIN calls = 1..Len(calls)
        BY <1>1, Dropped DEF Conclude
      <4>2. i \in 1..(Len(calls) - 1) /\ calls'[i] = calls[i + 1]
        BY <1>1, <2>1, <4>1, Dropped
      <4> QED BY <4>1, <4>2
    <3>2. Head(calls) = calls[1] /\ 1 \in DOMAIN calls
      BY <1>1, Dropped
    <3>3. Head(calls).op # "scan"
      BY <2>1, <3>1, <3>2 DEF Inv, ScansOK
    <3>4. calls[k].ids \subseteq LoaderIds /\ calls[k].ids \cap Held(memory) = {}
      BY <2>1, <3>1 DEF Inv, CallsOK, CallOK, ScansOK
    <3> QED BY <3>1, <3>3, <3>4 DEF Inv, ScansOK
  <2> QED BY <1>2, <2>1 DEF ScansOK
<1> QED BY <1>2, <1>4, <1>5, <1>6, <1>7, <1>8, <1>9 DEF Inv

LEMMA StoreEndsInv ==
  ASSUME Inv, StoreResolve \/ StoreReject
  PROVE  Inv'
<1>1. CASE StoreResolve
  <2>1. /\ phase = "written" /\ Conclude("ok") /\ memory' = next /\ phase' = "idle"
        /\ UNCHANGED <<disk, next, reporter, tail, run, jobs, jpc>>
        /\ server' = [server EXCEPT !.doubt = @ \cap Held(next)]
    BY <1>1 DEF StoreResolve, strands
  <2>2. disk = next /\ server' = [server EXCEPT !.doubt = server'.doubt]
    BY <2>1 DEF Inv, WriteOK, TypesOK
  <2> QED BY <2>1, <2>2, EndInv
<1>2. CASE StoreReject
  <2>1. /\ phase = "writing" /\ Conclude("failed") /\ next' = memory /\ phase' = "idle"
        /\ UNCHANGED <<memory, disk, server, reporter, tail, run, jobs, jpc>>
    BY <1>2 DEF StoreReject, strands
  <2>2. server' = [server EXCEPT !.doubt = server'.doubt]
    BY <2>1 DEF Inv, TypesOK
  <2> QED BY <2>1, <2>2, EndInv
<1> QED BY <1>1, <1>2

----------------------------------------------------------------------------
(* Types of what the steps build *)

LEMMA NoMarkersTyped == NoMarkers \in Uncertain /\ DOMAIN NoMarkers = {}
<1>1. NoMarkers \in [{} -> Markers] /\ {} \in SUBSET EventIds
  BY DEF NoMarkers
<1> QED BY <1>1 DEF Uncertain, NoMarkers

LEMMA CallTyped ==
  ASSUME NEW by \in {"job", "sender", "scan"}, NEW op \in BufferOps, NEW ids \in SUBSET EventIds
  PROVE  /\ Call(by, op, ids) \in Calling
         /\ Call(by, op, ids).by = by /\ Call(by, op, ids).op = op /\ Call(by, op, ids).ids = ids
         /\ Call(by, op, ids).code = "none" /\ Call(by, op, ids).marks = NoMarkers
BY NoMarkersTyped DEF Call, Calling, WithdrawalStates

LEMMA UncertainTyped ==
  ASSUME NEW D \in SUBSET EventIds, NEW m, m \in [D -> Markers]
  PROVE  m \in Uncertain
BY DEF Uncertain

(* What is unconfirmed are some events, each with a marker. *)
LEMMA UnconfirmedTyped ==
  ASSUME NEW r \in Reporting
  PROVE  /\ DOMAIN r.unconfirmed \subseteq EventIds
         /\ \A id \in DOMAIN r.unconfirmed : r.unconfirmed[id] \in Markers
<1>1. r.unconfirmed \in Uncertain
  BY DEF Reporting
<1>2. PICK D \in SUBSET EventIds : r.unconfirmed \in [D -> Markers]
  BY <1>1 DEF Uncertain
<1> QED BY <1>2

LEMMA RecoveredTyped ==
  ASSUME NEW s, Good(s)
  PROVE  Recovered(s) \in Uncertain /\ FreshReporter(s) \in Reporting
<1> DEFINE D == {x \in Pending(s) : s.rows[x].code \in Markers}
<1>1. D \in SUBSET EventIds
  BY RowsOf DEF Good, Pending
<1>2. Recovered(s) \in [D -> Markers]
  BY DEF Recovered
<1>3. Recovered(s) \in Uncertain
  BY <1>1, <1>2, UncertainTyped
<1> QED BY <1>3 DEF FreshReporter, Reporting

LEMMA PrunedTyped ==
  ASSUME reporter \in Reporting
  PROVE  Pruned \in Reporting /\ Pruned.active = reporter.active /\ Pruned.timer = reporter.timer
<1> DEFINE D == DOMAIN reporter.unconfirmed \cap Pending(memory)
           m == [id \in D |-> reporter.unconfirmed[id]]
<1>1. D \in SUBSET EventIds /\ m \in [D -> Markers]
  BY UnconfirmedTyped
<1>2. m \in Uncertain
  BY <1>1, UncertainTyped
<1>3. Pruned = [reporter EXCEPT !.unconfirmed = m]
  BY DEF Pruned
<1> HIDE DEF m
<1> QED BY <1>2, <1>3 DEF Reporting

LEMMA StoppedTyped ==
  ASSUME NEW r \in Reporting
  PROVE  Stopped(r) \in Reporting /\ ~Stopped(r).active /\ Stopped(r).timer = "none"
BY DEF Stopped, Reporting

LEMMA ArmedTyped ==
  ASSUME NEW r \in Reporting
  PROVE  Armed(r) \in Reporting /\ Armed(r).active = r.active /\ Armed(r).timer = IF r.active THEN "run" ELSE "none"
BY DEF Armed, Reporting

LEMMA HoldingTyped ==
  ASSUME NEW r \in Reporting, NEW ids \in SUBSET EventIds, NEW code \in Markers
  PROVE  /\ Holding(r, ids, code) \in Reporting
         /\ ~Holding(r, ids, code).active /\ Holding(r, ids, code).timer = "none"
<1> DEFINE D == DOMAIN r.unconfirmed \cup ids
           m == [id \in D |-> IF id \in ids THEN code ELSE r.unconfirmed[id]]
<1>1. D \in SUBSET EventIds /\ m \in [D -> Markers]
  BY UnconfirmedTyped
<1>2. m \in Uncertain
  BY <1>1, UncertainTyped
<1>3. Stopped(r).unconfirmed = r.unconfirmed
  BY DEF Stopped, Reporting
<1>4. Holding(r, ids, code) = [Stopped(r) EXCEPT !.unconfirmed = m]
  BY <1>3 DEF Holding
<1> HIDE DEF m
<1> QED BY <1>2, <1>4, StoppedTyped DEF Reporting

LEMMA NoRunTyped ==
  /\ NoRun \in Progress /\ NoRun.pc = "idle" /\ NoRun.batch = {} /\ NoRun.previous = NoMarkers
  /\ NoRun.selected = {} /\ NoRun.response = NoResponse /\ NoResponse \in Responses
BY NoMarkersTyped DEF NoRun, Progress, NoResponse, Responses, SenderPlaces

----------------------------------------------------------------------------
(* The other steps, by what they touch *)

\* The reporter may stop, or know less; a stopped one is not started.
Quiet(r) ==
  r \in Reporting /\ (~reporter.active => ~r.active) /\ (reporter.timer # "run" /\ ~reporter.active => r.timer # "run")

Queued(job) ==
  /\ job \in JobKinds
  /\ job.kind = "record" => \E id \in EventIds \ (LegacyIds \cup LoaderIds) : job.ids = {id}

(* The person, Core and the panel only stop the reporter and queue jobs. *)
Outside ==
  /\ UNCHANGED <<storage, calls, answer, tail, run, jpc>>
  /\ server' = server /\ Quiet(reporter')
  /\ jobs' = jobs \/ \E job \in JobKinds : Queued(job) /\ jobs' = Append(jobs, job)

LEMMA OutsideInv ==
  ASSUME Inv, Outside
  PROVE  Inv'
<1>1. UNCHANGED <<memory, disk, phase, next, calls, answer, tail, run, jpc>> /\ server' = server
  BY DEF Outside, storage
<1>2. jobs \in Seq(JobKinds) /\ reporter' \in Reporting
  BY DEF Inv, TypesOK, Outside, Quiet
<1>3. jobs' \in Seq(JobKinds) /\ JobsOK'
  <2>1. CASE jobs' = jobs
    BY <1>1, <1>2, <2>1 DEF Inv, JobsOK
  <2>2. CASE \E job \in JobKinds : Queued(job) /\ jobs' = Append(jobs, job)
    <3>1. PICK job \in JobKinds : Queued(job) /\ jobs' = Append(jobs, job)
      BY <2>2
    <3>2. jobs' \in Seq(JobKinds) /\ jobs' # <<>>
      BY <1>2, <3>1, Appended
    <3>3. \A i \in DOMAIN jobs' : jobs'[i] = job \/ \E k \in DOMAIN jobs : jobs'[i] = jobs[k]
      BY <1>2, <3>1, Entries
    <3> QED BY <1>1, <3>1, <3>2, <3>3 DEF Inv, JobsOK, Queued
  <2> QED BY <2>1, <2>2 DEF Outside
<1>4. TailOK'
  BY <1>1 DEF Inv, TailOK, Outside, Quiet
<1>5. TypesOK' /\ GoodOK' /\ CallsOK' /\ SenderOK' /\ JobOK'
  BY <1>1, <1>2, <1>3 DEF Inv, TypesOK, GoodOK, CallsOK, SenderOK, JobOK
<1>6. WriteOK' /\ ScansOK' /\ AnswerOK' /\ TakenOK'
  BY <1>1 DEF Inv, WriteOK, ScansOK, AnswerOK, TakenOK
<1>7. MarkedOK'
  BY <1>1 DEF Inv, MarkedOK, Carries, Sent
<1> QED BY <1>3, <1>4, <1>5, <1>6, <1>7 DEF Inv

(* A call is asked for: what the calls must be, they still are. *)
Asked(c) ==
  /\ c \in Calling /\ CallOK(c) /\ Honest(c, server.ingested)
  /\ c.op = "scan" => /\ \A i \in DOMAIN calls : calls[i].op # "scan"
                      /\ c.ids \cap Held(memory) = {}

LEMMA AskedInv ==
  ASSUME Inv, NEW c, Asked(c), calls' = Append(calls, c), UNCHANGED storage,
         server' = server
  PROVE  /\ calls' \in Seq(Calling) /\ GoodOK' /\ CallsOK' /\ WriteOK' /\ ScansOK' /\ TakenOK'
         /\ \A i \in DOMAIN calls' : calls'[i] = c \/ \E k \in DOMAIN calls : calls'[i] = calls[k]
<1>1. UNCHANGED <<memory, disk, phase, next>> /\ calls \in Seq(Calling) /\ c \in Calling
  BY DEF storage, Inv, TypesOK, Asked
<1>2. /\ calls' \in Seq(Calling) /\ calls' # <<>>
      /\ calls # <<>> => Head(calls') = Head(calls)
      /\ \A i \in DOMAIN calls' : calls'[i] = c \/ \E k \in DOMAIN calls : calls'[i] = calls[k]
  BY <1>1, Appended, Entries
<1>3. GoodOK' /\ TakenOK' /\ CallsOK'
  BY <1>1, <1>2 DEF Inv, GoodOK, TakenOK, CallsOK, Asked
<1>4. WriteOK'
  BY <1>1, <1>2 DEF Inv, WriteOK
<1>5. ScansOK'
  <2>1. ASSUME NEW i \in DOMAIN calls', NEW j \in DOMAIN calls',
               calls'[i].op = "scan", calls'[j].op = "scan"
        PROVE  i = j
    <3>1. /\ Len(calls) \in Nat /\ DOMAIN calls = 1..Len(calls) /\ DOMAIN calls' = 1..(Len(calls) + 1)
          /\ calls'[Len(calls) + 1] = c /\ \A k \in 1..Len(calls) : calls'[k] = calls[k]
      BY <1>1, Appended
    <3> QED BY <2>1, <3>1 DEF Inv, ScansOK, Asked
  <2>2. \A i \in DOMAIN calls' : calls'[i].op = "scan" => calls'[i].ids \cap Held(memory') = {}
    BY <1>1, <1>2 DEF Inv, ScansOK, Asked
  <2>3. phase' # "idle" /\ Head(calls').op # "scan" => Held(next') \cap LoaderIds \subseteq Held(memory')
    BY <1>1, <1>2 DEF Inv, ScansOK, WriteOK
  <2> QED BY <2>1, <2>2, <2>3 DEF ScansOK
<1> QED BY <1>2, <1>3, <1>4, <1>5

(* Where no call is asked for, what the server took can only grow. *)
LEMMA UnaskedInv ==
  ASSUME Inv, UNCHANGED <<storage, calls>>, server.ingested \subseteq server'.ingested
  PROVE  calls' \in Seq(Calling) /\ GoodOK' /\ CallsOK' /\ WriteOK' /\ ScansOK' /\ TakenOK'
<1>1. UNCHANGED <<memory, disk, phase, next, calls>>
  BY DEF storage
<1>2. calls' \in Seq(Calling) /\ GoodOK' /\ WriteOK' /\ ScansOK'
  BY <1>1 DEF Inv, TypesOK, GoodOK, WriteOK, ScansOK
<1>3. \A s : Taken(s, server.ingested) => Taken(s, server'.ingested)
  BY DEF Taken
<1>4. \A c : Honest(c, server.ingested) => Honest(c, server'.ingested)
  BY DEF Honest, Vouched
<1> QED BY <1>1, <1>2, <1>3, <1>4 DEF Inv, TakenOK, CallsOK

(* A scan on inventory's own timer. *)
LEMMA BackgroundScanInv ==
  ASSUME Inv, BackgroundScan
  PROVE  Inv'
<1> DEFINE c == Call("scan", "scan", NewEvents)
<1>1. /\ \A i \in DOMAIN calls : calls[i].op # "scan"
      /\ calls' = Append(calls, c) /\ UNCHANGED <<memory, disk, phase, next, answer>>
      /\ UNCHANGED <<core, left, server, reporter, tail, run, jobs, jpc>>
  BY DEF BackgroundScan, Ask, storage, outside, strands, NoScanUnderWay
<1>2. NewEvents \subseteq LoaderIds \ LegacyIds /\ NewEvents \cap Held(memory) = {} /\ NewEvents \subseteq EventIds
  BY DEF NewEvents
<1>3. c \in Calling /\ CallOK(c) /\ c.op = "scan" /\ c.by = "scan" /\ c.ids = NewEvents
  <2>1. "scan" \in {"job", "sender", "scan"} /\ "scan" \in BufferOps /\ "scan" \in JobOps
    BY DEF BufferOps, JobOps
  <2>2. c \in Calling /\ c.op = "scan" /\ c.by = "scan" /\ c.ids = NewEvents
    BY <1>2, <2>1, CallTyped
  <2> QED BY <1>2, <2>1, <2>2 DEF CallOK
<1> HIDE DEF c
<1>4. Asked(c)
  BY <1>1, <1>2, <1>3 DEF Asked, Honest
<1>5. /\ calls' \in Seq(Calling) /\ GoodOK' /\ CallsOK' /\ WriteOK' /\ ScansOK' /\ TakenOK'
      /\ \A i \in DOMAIN calls' : calls'[i] = c \/ \E k \in DOMAIN calls : calls'[i] = calls[k]
  BY <1>1, <1>4, AskedInv DEF storage
<1>6. SenderOK' /\ JobOK'
  <2>1. calls \in Seq(Calling)
    BY DEF Inv, TypesOK
  <2>2. /\ Waiting(calls', answer["sender"], "sender", run.pc, SenderWaits)
        /\ Waiting(calls', answer["job"], "job", jpc, JobWaits)
    BY <1>1, <1>3, <2>1, WaitingOthers DEF Inv, SenderOK, JobOK
  <2> QED BY <1>1, <1>3, <1>5, <2>2 DEF Inv, SenderOK, JobOK
<1>7. TypesOK' /\ TailOK' /\ JobsOK' /\ AnswerOK'
  BY <1>1, <1>5 DEF Inv, TypesOK, TailOK, JobsOK, AnswerOK
<1>8. MarkedOK'
  BY <1>1 DEF Inv, MarkedOK, Carries, Sent
<1> QED BY <1>5, <1>6, <1>7, <1>8 DEF Inv

(* A timer adds a task; while a withdrawal erases, only one that deletes. *)
LEMMA TimerFiresInv ==
  ASSUME Inv, TimerFires
  PROVE  Inv'
<1> DEFINE task == Task(reporter.timer, "timer", {})
<1>1. /\ reporter' = [reporter EXCEPT !.timer = "none"] /\ tail' = Append(tail, task)
      /\ reporter.timer # "none"
      /\ UNCHANGED <<core, left, server, memory, disk, phase, next, calls, answer, run, jobs, jpc>>
  BY DEF TimerFires, outside, store, storage
<1>2. reporter \in Reporting /\ tail \in Seq(Tasks)
  BY DEF Inv, TypesOK
<1>3. task \in Tasks /\ task.by = "timer" /\ task.kind = reporter.timer
  BY <1>1, <1>2 DEF Task, Tasks, Reporting
<1> HIDE DEF task
<1>4. /\ tail' \in Seq(Tasks) /\ tail' # <<>> /\ (tail # <<>> => Head(tail') = Head(tail))
      /\ \A i \in DOMAIN tail' : tail'[i] = task \/ \E k \in DOMAIN tail : tail'[i] = tail[k]
  BY <1>1, <1>2, <1>3, Appended, Entries
<1>5. One(tail', "job") /\ (jpc # "task" => No(tail', "job"))
  BY <1>1, <1>2, <1>3, OneAppend DEF Inv, TailOK
<1>6. reporter' \in Reporting /\ reporter'.active = reporter.active /\ reporter'.timer = "none"
  BY <1>1, <1>2 DEF Reporting
<1>7. TailOK'
  <2>1. jpc = "local" => task.kind = "withdrawal"
    BY <1>1, <1>2, <1>3 DEF Inv, TailOK, Reporting
  <2>2. jpc = "local" => \A i \in DOMAIN tail' : tail'[i].kind = "withdrawal"
    BY <1>4, <2>1 DEF Inv, TailOK
  <2> QED BY <1>1, <1>4, <1>5, <1>6, <2>2 DEF Inv, TailOK
<1>8. TypesOK' /\ GoodOK' /\ CallsOK' /\ SenderOK' /\ JobOK'
  BY <1>1, <1>4, <1>6 DEF Inv, TypesOK, GoodOK, CallsOK, SenderOK, JobOK
<1>9. JobsOK' /\ WriteOK' /\ ScansOK' /\ AnswerOK' /\ TakenOK'
  BY <1>1 DEF Inv, JobsOK, WriteOK, ScansOK, AnswerOK, TakenOK
<1>10. MarkedOK'
  BY <1>1, <1>4 DEF Inv, MarkedOK, Carries, Sent, TailOK
<1> QED BY <1>7, <1>8, <1>9, <1>10 DEF Inv

(* Everything starts empty, or again from the disk. *)
Fresh ==
  /\ memory = disk /\ next = disk /\ phase = "idle"
  /\ calls = <<>> /\ answer = [by \in {"job", "sender"} |-> "none"]
  /\ reporter = FreshReporter(disk)
  /\ tail = <<>> /\ run = NoRun /\ jobs = <<>> /\ jpc = "idle"
  /\ Good(disk) /\ Taken(disk, server.ingested)
  /\ server = [stored |-> server.stored, ingested |-> server.ingested, doubt |-> server.doubt]

LEMMA FreshInv == Fresh => Inv
<1> SUFFICES ASSUME Fresh PROVE Inv
  OBVIOUS
<1>1. run = NoRun /\ run \in Progress /\ run.pc = "idle"
  BY NoRunTyped DEF Fresh
<1>2. reporter \in Reporting
  BY RecoveredTyped DEF Fresh
<1>3. answer \in [{"job", "sender"} -> Outcomes] /\ answer["job"] = "none" /\ answer["sender"] = "none"
  BY DEF Fresh, Outcomes
<1>4. TypesOK
  BY <1>1, <1>2, <1>3 DEF Fresh, TypesOK, JobPlaces
<1>5. GoodOK /\ CallsOK /\ TakenOK
  BY DEF Fresh, GoodOK, CallsOK, TakenOK
<1>6. SenderOK /\ JobOK
  BY <1>1, <1>3 DEF Fresh, SenderOK, JobOK, Waiting, One, No, SenderWaits, JobWaits
<1>7. TailOK /\ JobsOK
  BY <1>1 DEF Fresh, TailOK, JobsOK, One, No
<1>8. WriteOK /\ ScansOK /\ MarkedOK /\ AnswerOK
  BY <1>1 DEF Fresh, WriteOK, ScansOK, MarkedOK, Carries, AnswerOK
<1> QED BY <1>4, <1>5, <1>6, <1>7, <1>8 DEF Inv

LEMMA EmptyIsGood == Good(EmptySnapshot) /\ Held(EmptySnapshot) = {}
<1>1. EmptySnapshot.rows = NoRows /\ Held(EmptySnapshot) = {}
  BY EmptyRows DEF EmptySnapshot, Held
<1>2. IsSnapshot(EmptySnapshot)
  BY <1>1, EmptyRows DEF EmptySnapshot, IsSnapshot, WithdrawalStates
<1> QED BY <1>1, <1>2, FS_EmptySet DEF Good, LegacyRetired, WithinCapacity

LEMMA InitInv ==
  ASSUME Init
  PROVE  Inv
<1>1. Good(disk) /\ Taken(disk, server.ingested)
  BY EmptyIsGood DEF Init, Taken
<1>2. server = [stored |-> server.stored, ingested |-> server.ingested, doubt |-> server.doubt]
  BY DEF Init
<1>3. Fresh
  BY <1>1, <1>2 DEF Init, Fresh
<1> QED BY <1>3, FreshInv

LEMMA CrashInv ==
  ASSUME Inv, Crash
  PROVE  Inv'
<1>1. /\ server.ingested \subseteq server'.ingested
      /\ server' = [stored |-> server'.stored, ingested |-> server'.ingested, doubt |-> server'.doubt]
  BY DEF Crash
<1>2. disk' = disk /\ Good(disk) /\ Taken(disk, server.ingested)
  BY DEF Crash, Inv, GoodOK, TakenOK
<1>3. Good(disk)' /\ Taken(disk, server.ingested)'
  BY <1>1, <1>2 DEF Good, IsSnapshot, LegacyRetired, WithinCapacity, Taken, Held
<1>4. answer' = [by \in {"job", "sender"} |-> "none"]
  BY DEF Crash, Inv, TypesOK
<1>5. FreshReporter(disk)' = FreshReporter(disk)
  BY <1>2 DEF FreshReporter, Recovered, Pending, Held
<1>6. Fresh'
  BY <1>1, <1>2, <1>3, <1>4, <1>5 DEF Crash, Fresh
<1> QED BY <1>6, FreshInv, PTL

----------------------------------------------------------------------------
(* The sender's steps *)

SenderOps == {"intent", "undoIntent", "attempts", "apply", "resendIntent", "resendFailure", "markWithdrawal"}

\* The head of the tail may go on: it waits for nothing, or has its answer.
Free(b, pc, waits) == pc \notin waits \/ answer[b] # "none"
AnswerRead(b) == answer' = [answer EXCEPT ![b] = "none"]

Sendable(c) ==
  /\ c \in Calling /\ CallOK(c) /\ Honest(c, server.ingested)
  /\ c.by = "sender" /\ c.op \in SenderOps
SenderAsks(c) ==
  /\ Sendable(c)
  /\ calls' = Append(calls, c) /\ server' = server
  /\ run'.pc \in SenderWaits /\ (run'.pc = "intent" => Marks(c, run'.batch))

ServerAnswers ==
  /\ server.ingested \subseteq server'.ingested
  /\ server' = [stored |-> server'.stored, ingested |-> server'.ingested, doubt |-> server'.doubt]

(* The task goes on: to a place where it waits for nothing, or asks the store. *)
SenderGoes ==
  /\ tail # <<>> /\ Free("sender", run.pc, SenderWaits) /\ AnswerRead("sender")
  /\ UNCHANGED <<storage, tail, jobs, jpc>>
  /\ run' \in Progress /\ Quiet(reporter') /\ ServerAnswers /\ AnswerOK'
  /\ run'.pc \in {"sign", "post", "answered"} /\ Carries => Sent /\ run'.batch = run.batch
  /\ run'.pc = "delete" => Head(tail).kind = "withdrawal"
  /\ \/ run'.pc \notin SenderWaits /\ UNCHANGED calls
     \/ \E c \in Calling : SenderAsks(c)

LEMMA SenderGoesInv ==
  ASSUME Inv, SenderGoes
  PROVE  Inv'
<1>1. /\ UNCHANGED <<memory, disk, phase, next, tail, jobs, jpc>>
      /\ answer' = [answer EXCEPT !["sender"] = "none"]
  BY DEF SenderGoes, storage, AnswerRead
<1>2. /\ answer' \in [{"job", "sender"} -> Outcomes] /\ answer'["sender"] = "none"
      /\ answer'["job"] = answer["job"] /\ calls \in Seq(Calling) /\ reporter' \in Reporting
  BY <1>1 DEF Inv, TypesOK, Outcomes, SenderGoes, Quiet
<1>3. Waiting(calls, answer["sender"], "sender", run.pc, SenderWaits)
      /\ (run.pc \notin SenderWaits \/ answer["sender"] # "none")
  BY DEF Inv, SenderOK, SenderGoes, Free
<1>4. /\ calls' \in Seq(Calling) /\ GoodOK' /\ CallsOK' /\ WriteOK' /\ ScansOK' /\ TakenOK'
      /\ SenderOK' /\ JobOK'
  <2>1. CASE run'.pc \notin SenderWaits /\ UNCHANGED calls
    <3>1. /\ calls' \in Seq(Calling) /\ GoodOK' /\ CallsOK' /\ WriteOK' /\ ScansOK' /\ TakenOK'
      BY <2>1, UnaskedInv DEF SenderGoes, ServerAnswers
    <3>2. Waiting(calls, "none", "sender", run'.pc, SenderWaits)
      BY <1>3, WaitingHears
    <3>3. SenderOK'
      BY <1>2, <2>1, <3>2 DEF SenderOK, SenderWaits
    <3>4. JobOK'
      BY <1>1, <1>2, <2>1 DEF Inv, JobOK
    <3> QED BY <3>1, <3>3, <3>4
  <2>2. CASE \E c \in Calling : SenderAsks(c)
    <3>1. PICK c \in Calling : SenderAsks(c)
      BY <2>2
    <3>2. Asked(c) /\ calls' = Append(calls, c) /\ server' = server
      BY <3>1 DEF Asked, SenderAsks, Sendable, SenderOps
    <3>3. /\ calls' \in Seq(Calling) /\ GoodOK' /\ CallsOK' /\ WriteOK' /\ ScansOK' /\ TakenOK'
          /\ \A i \in DOMAIN calls' : calls'[i] = c \/ \E k \in DOMAIN calls : calls'[i] = calls[k]
      BY <3>2, AskedInv DEF SenderGoes
    <3>4. Waiting(Append(calls, c), "none", "sender", run'.pc, SenderWaits)
      BY <1>2, <1>3, <3>1, WaitingAsks DEF SenderAsks, Sendable
    <3>5. ASSUME run'.pc = "intent", NEW i \in DOMAIN calls', calls'[i].by = "sender"
          PROVE  Marks(calls'[i], run'.batch)
      <4>1. No(calls, "sender")
        BY <1>3 DEF Waiting
      <4> QED BY <3>1, <3>3, <3>5, <4>1 DEF SenderAsks, Sendable, No
    <3>6. SenderOK'
      BY <1>2, <3>2, <3>4, <3>5 DEF SenderOK
    <3>7. Waiting(Append(calls, c), answer["job"], "job", jpc, JobWaits)
      BY <1>2, <3>1, WaitingOthers DEF SenderAsks, Sendable, Inv, JobOK
    <3>8. JobOK'
      BY <1>1, <1>2, <3>1, <3>3, <3>7 DEF Inv, JobOK, SenderAsks, Sendable, SenderOps
    <3> QED BY <3>3, <3>6, <3>8
  <2> QED BY <2>1, <2>2 DEF SenderGoes
<1>5. TypesOK'
  BY <1>1, <1>2, <1>4 DEF Inv, TypesOK, SenderGoes, ServerAnswers
<1>6. TailOK' /\ JobsOK'
  BY <1>1 DEF Inv, TailOK, JobsOK, SenderGoes, Quiet
<1>7. MarkedOK'
  <2>1. SUFFICES ASSUME Carries', Sent'
                 PROVE  MarkedOK'
    BY DEF MarkedOK
  <2>2. Carries /\ run'.pc \in {"sign", "post", "answered"}
    BY <1>1, <1>2, <2>1 DEF Carries, Sent
  <2>3. Sent /\ run'.batch = run.batch
    BY <2>2 DEF SenderGoes
  <2> QED BY <1>1, <2>2, <2>3 DEF Inv, MarkedOK
<1> QED BY <1>4, <1>5, <1>6, <1>7 DEF Inv, SenderGoes

(* The task is over, and the job that waited for it. *)
SenderLeaves ==
  /\ tail # <<>> /\ Free("sender", run.pc, SenderWaits) /\ AnswerRead("sender")
  /\ UNCHANGED <<storage, calls>> /\ server' = server /\ Quiet(reporter') /\ LeaveTask

LEMMA SenderLeavesInv ==
  ASSUME Inv, SenderLeaves
  PROVE  Inv'
<1>1. /\ UNCHANGED <<memory, disk, phase, next, calls>> /\ server' = server
      /\ answer' = [answer EXCEPT !["sender"] = "none"]
      /\ tail # <<>> /\ tail' = Tail(tail) /\ run' = NoRun
      /\ IF Head(tail).by = "job" THEN jobs' = Tail(jobs) /\ jpc' = "idle" ELSE UNCHANGED <<jobs, jpc>>
  BY DEF SenderLeaves, storage, AnswerRead, LeaveTask, EndJob
<1>2. /\ answer' \in [{"job", "sender"} -> Outcomes] /\ answer'["sender"] = "none"
      /\ answer'["job"] = answer["job"] /\ calls \in Seq(Calling) /\ reporter' \in Reporting
      /\ tail \in Seq(Tasks) /\ jobs \in Seq(JobKinds)
  BY <1>1 DEF Inv, TypesOK, Outcomes, SenderLeaves, Quiet
<1>3. run'.pc = "idle" /\ run' \in Progress
  BY <1>1, NoRunTyped
<1>4. Head(tail) = tail[1] /\ 1 \in DOMAIN tail /\ tail' \in Seq(Tasks)
      /\ \A i \in DOMAIN tail' : \E k \in DOMAIN tail : tail'[i] = tail[k]
  BY <1>1, <1>2, Dropped, Entries
<1>5. Head(tail).by = "job" => jpc = "task" /\ jobs # <<>>
  BY <1>4 DEF Inv, TailOK, No, JobsOK
<1>6. One(tail', "job") /\ (Head(tail).by = "job" \/ No(tail, "job") => No(tail', "job"))
  BY <1>1, <1>2, OneTail DEF Inv, TailOK
<1>7. TailOK'
  <2>1. jpc' # "task" => No(tail', "job")
    BY <1>1, <1>6 DEF Inv, TailOK
  <2>2. jpc' \in {"tail", "local"} => jpc = jpc'
    BY <1>1
  <2>3. jpc' = "local" => \A i \in DOMAIN tail' : tail'[i].kind = "withdrawal"
    BY <1>4, <2>2 DEF Inv, TailOK
  <2> QED BY <1>3, <1>6, <2>1, <2>2, <2>3 DEF Inv, TailOK, SenderLeaves, Quiet
<1>8. JobsOK' /\ jobs' \in Seq(JobKinds) /\ jpc' \in JobPlaces
  <2>1. CASE Head(tail).by = "job"
    <3>1. jobs' = Tail(jobs) /\ jpc' = "idle" /\ jobs # <<>> /\ jobs \in Seq(JobKinds)
      BY <1>1, <1>2, <1>5, <2>1
    <3>2. jobs' \in Seq(JobKinds)
      BY <3>1, Dropped
    <3>3. \A i \in DOMAIN jobs' : \E k \in DOMAIN jobs : jobs'[i] = jobs[k]
      BY <3>1, Entries
    <3> QED BY <3>1, <3>2, <3>3 DEF Inv, JobsOK, JobPlaces
  <2>2. CASE Head(tail).by # "job"
    BY <1>1, <2>2 DEF Inv, JobsOK, TypesOK
  <2> QED BY <2>1, <2>2
<1>9. TypesOK'
  BY <1>1, <1>2, <1>3, <1>4, <1>8 DEF Inv, TypesOK
<1>10. GoodOK' /\ CallsOK' /\ WriteOK' /\ ScansOK' /\ TakenOK'
  BY <1>1, UnaskedInv DEF storage
<1>11. SenderOK'
  <2>1. Waiting(calls, "none", "sender", run'.pc, SenderWaits)
    BY WaitingHears DEF Inv, SenderOK, SenderLeaves, Free
  <2> QED BY <1>1, <1>2, <1>3, <2>1 DEF SenderOK
<1>12. JobOK'
  <2>1. CASE Head(tail).by = "job"
    <3>1. jpc \notin JobWaits /\ jpc # "local"
      BY <1>5, <2>1 DEF JobWaits
    <3>2. Waiting(calls, "none", "job", jpc', JobWaits) /\ answer["job"] = "none"
      BY <3>1, WaitingHears DEF Inv, JobOK, Waiting
    <3> QED BY <1>1, <1>2, <3>1, <3>2 DEF Inv, JobOK
  <2>2. CASE Head(tail).by # "job"
    BY <1>1, <1>2, <2>2 DEF Inv, JobOK
  <2> QED BY <2>1, <2>2
<1>13. MarkedOK' /\ AnswerOK'
  BY <1>2, <1>3 DEF MarkedOK, Sent, AnswerOK
<1> QED BY <1>7, <1>8, <1>9, <1>10, <1>11, <1>12, <1>13 DEF Inv

----------------------------------------------------------------------------
(* The jobs' steps *)

JobAsks(c) ==
  /\ Asked(c) /\ c.by = "job" /\ c.op \in JobOps \cup {"withdrawLocal"}
  /\ calls' = Append(calls, c) /\ jpc' \in JobWaits /\ (c.op = "withdrawLocal" => jpc' = "local")

JobGoes ==
  /\ jobs # <<>> /\ jpc # "task" /\ Free("job", jpc, JobWaits) /\ AnswerRead("job")
  /\ UNCHANGED <<storage, run>> /\ server' = server /\ reporter' \in Reporting /\ jpc' \in JobPlaces
  /\ jpc' = "local" => jpc = "tail" /\ tail = <<>>
  /\ jpc' \in {"tail", "local"} => ~reporter'.active /\ reporter'.timer # "run"
  /\ \/ UNCHANGED jobs /\ jpc' # "idle"
     \/ jobs' = Tail(jobs) /\ jpc' = "idle"
  /\ \/ UNCHANGED tail /\ jpc' # "task"
     \/ jpc' = "task" /\ \E task \in Tasks : task.by = "job" /\ tail' = Append(tail, task)
  /\ \/ UNCHANGED calls /\ jpc' \notin JobWaits
     \/ \E c \in Calling : JobAsks(c)

LEMMA JobGoesInv ==
  ASSUME Inv, JobGoes
  PROVE  Inv'
<1>1. /\ UNCHANGED <<memory, disk, phase, next, run>> /\ server' = server
      /\ answer' = [answer EXCEPT !["job"] = "none"]
  BY DEF JobGoes, storage, AnswerRead
<1>2. /\ answer' \in [{"job", "sender"} -> Outcomes] /\ answer'["job"] = "none"
      /\ answer'["sender"] = answer["sender"] /\ calls \in Seq(Calling) /\ reporter' \in Reporting
      /\ tail \in Seq(Tasks) /\ jobs \in Seq(JobKinds) /\ jobs # <<>>
  BY <1>1 DEF Inv, TypesOK, Outcomes, JobGoes
<1>3. Waiting(calls, answer["job"], "job", jpc, JobWaits) /\ (jpc \notin JobWaits \/ answer["job"] # "none")
  BY DEF Inv, JobOK, JobGoes, Free
<1>4. No(calls, "job") /\ \A i \in DOMAIN calls : calls[i].op # "withdrawLocal"
  BY <1>3 DEF Waiting, No, Inv, CallsOK, CallOK
<1>5. /\ calls' \in Seq(Calling) /\ GoodOK' /\ CallsOK' /\ WriteOK' /\ ScansOK' /\ TakenOK'
      /\ SenderOK' /\ JobOK'
  <2>1. CASE UNCHANGED calls /\ jpc' \notin JobWaits
    <3>1. calls' \in Seq(Calling) /\ GoodOK' /\ CallsOK' /\ WriteOK' /\ ScansOK' /\ TakenOK'
      BY <1>1, <2>1, UnaskedInv DEF storage
    <3>2. Waiting(calls, "none", "job", jpc', JobWaits)
      BY <1>3, WaitingHears
    <3>3. JobOK'
      BY <1>2, <1>4, <2>1, <3>2 DEF JobOK
    <3>4. SenderOK'
      BY <1>1, <1>2, <2>1 DEF Inv, SenderOK
    <3> QED BY <3>1, <3>3, <3>4
  <2>2. CASE \E c \in Calling : JobAsks(c)
    <3>1. PICK c \in Calling : JobAsks(c)
      BY <2>2
    <3>2. Asked(c) /\ calls' = Append(calls, c) /\ c.by = "job"
      BY <3>1 DEF JobAsks
    <3>3. /\ calls' \in Seq(Calling) /\ GoodOK' /\ CallsOK' /\ WriteOK' /\ ScansOK' /\ TakenOK'
          /\ \A i \in DOMAIN calls' : calls'[i] = c \/ \E k \in DOMAIN calls : calls'[i] = calls[k]
      BY <1>1, <3>2, AskedInv DEF storage
    <3>4. Waiting(Append(calls, c), "none", "job", jpc', JobWaits)
      BY <1>2, <1>3, <3>1, <3>2, WaitingAsks DEF JobAsks
    <3>5. JobOK'
      BY <1>2, <1>4, <3>1, <3>2, <3>3, <3>4 DEF JobOK, JobAsks
    <3>6. Waiting(Append(calls, c), answer["sender"], "sender", run.pc, SenderWaits)
      BY <1>2, <3>2, WaitingOthers DEF Inv, SenderOK
    <3>7. SenderOK'
      BY <1>1, <1>2, <3>2, <3>3, <3>6 DEF Inv, SenderOK
    <3> QED BY <3>3, <3>5, <3>7
  <2> QED BY <2>1, <2>2 DEF JobGoes
<1>6. JobsOK' /\ jobs' \in Seq(JobKinds) /\ jpc' \in JobPlaces
  <2>1. CASE jobs' = Tail(jobs) /\ jpc' = "idle"
    <3>1. jobs' \in Seq(JobKinds)
      BY <1>2, <2>1, Dropped
    <3>2. \A i \in DOMAIN jobs' : \E k \in DOMAIN jobs : jobs'[i] = jobs[k]
      BY <1>2, <2>1, Entries
    <3> QED BY <2>1, <3>1, <3>2 DEF Inv, JobsOK, JobPlaces
  <2>2. CASE UNCHANGED jobs
    BY <1>2, <2>2 DEF Inv, JobsOK, JobGoes
  <2> QED BY <2>1, <2>2 DEF JobGoes
<1>7. /\ tail' \in Seq(Tasks) /\ TailOK'
      /\ tail # <<>> => tail' # <<>> /\ Head(tail') = Head(tail)
  <2>1. One(tail, "job") /\ No(tail, "job")
    BY DEF Inv, TailOK, JobGoes
  <2>2. CASE UNCHANGED tail /\ jpc' # "task"
    BY <1>1, <1>2, <2>1, <2>2 DEF Inv, TailOK, JobGoes
  <2>3. CASE jpc' = "task" /\ \E task \in Tasks : task.by = "job" /\ tail' = Append(tail, task)
    <3>1. PICK task \in Tasks : task.by = "job" /\ tail' = Append(tail, task)
      BY <2>3
    <3>2. One(tail', "job")
      BY <1>2, <2>1, <3>1, OneAppend
    <3>3. tail' \in Seq(Tasks) /\ tail' # <<>> /\ (tail # <<>> => Head(tail') = Head(tail))
      BY <1>2, <3>1, Appended
    <3>4. run'.pc = "delete" => Head(tail').kind = "withdrawal"
      BY <1>1, <3>3 DEF Inv, TailOK
    <3> QED BY <2>3, <3>2, <3>3, <3>4 DEF TailOK
  <2> QED BY <2>2, <2>3 DEF JobGoes
<1>8. TypesOK' /\ AnswerOK'
  BY <1>1, <1>2, <1>5, <1>6, <1>7 DEF Inv, TypesOK, AnswerOK
<1>9. MarkedOK'
  <2>1. SUFFICES ASSUME Carries', Sent'
                 PROVE  MarkedOK'
    BY DEF MarkedOK
  <2>2. Sent
    BY <1>1, <1>2, <2>1 DEF Sent
  <2>3. tail # <<>>
    BY <2>2 DEF Sent, Inv, TailOK
  <2>4. Carries
    BY <1>7, <2>1, <2>3 DEF Carries
  <2> QED BY <1>1, <2>2, <2>4 DEF Inv, MarkedOK
<1> QED BY <1>5, <1>6, <1>7, <1>8, <1>9 DEF Inv

(* A strand that waits for nothing has no answer to read. *)
LEMMA NothingToRead ==
  ASSUME Inv, UNCHANGED answer
  PROVE  /\ jpc \notin JobWaits => AnswerRead("job")
         /\ run.pc \notin SenderWaits => AnswerRead("sender")
BY DEF Inv, JobOK, SenderOK, Waiting, AnswerRead, TypesOK

(* The job whose turn it is, or that is under way. *)
LEMMA JobUnderWay ==
  ASSUME Inv
  PROVE  /\ jobs \in Seq(JobKinds) /\ reporter \in Reporting
         /\ jpc # "idle" => jobs # <<>>
         /\ jobs # <<>> => /\ Head(jobs) \in JobKinds /\ Head(jobs).ids \in SUBSET EventIds
                           /\ Head(jobs).kind = "record" =>
                                \E id \in EventIds \ (LegacyIds \cup LoaderIds) : Head(jobs).ids = {id}
<1>1. jobs \in Seq(JobKinds) /\ reporter \in Reporting /\ (jpc # "idle" => jobs # <<>>)
  BY DEF Inv, TypesOK, JobsOK
<1>2. ASSUME jobs # <<>>
      PROVE  /\ Head(jobs) \in JobKinds /\ Head(jobs).ids \in SUBSET EventIds
             /\ Head(jobs).kind = "record" =>
                  \E id \in EventIds \ (LegacyIds \cup LoaderIds) : Head(jobs).ids = {id}
  <2>1. Head(jobs) \in JobKinds /\ Head(jobs) = jobs[1] /\ 1 \in DOMAIN jobs
    BY <1>1, <1>2, Dropped
  <2> QED BY <2>1 DEF JobKinds, Inv, JobsOK
<1> QED BY <1>1, <1>2

LEMMA StartedTyped ==
  ASSUME NEW r \in Reporting
  PROVE  Started(r) \in Reporting
<1>1. [r EXCEPT !.active = TRUE] \in Reporting
  BY DEF Reporting
<1> QED BY <1>1, ArmedTyped DEF Started

(* A call of a job. *)
LEMMA JobCall ==
  ASSUME Inv, NEW op \in {"put", "scan", "reopen", "withdrawLocal", "clearWithdrawal"},
         NEW ids \in SUBSET EventIds,
         op = "put" => \E id \in EventIds \ (LegacyIds \cup LoaderIds) : ids = {id},
         op = "scan" => ids = NewEvents /\ NoScanUnderWay,
         calls' = Append(calls, Call("job", op, ids)), jpc' \in JobWaits,
         op = "withdrawLocal" => jpc' = "local"
  PROVE  \E c \in Calling : JobAsks(c)
<1> DEFINE c == Call("job", op, ids)
<1>1. op \in BufferOps /\ op \in JobOps \cup {"withdrawLocal"}
  BY DEF BufferOps, JobOps
<1>2. c \in Calling /\ c.by = "job" /\ c.op = op /\ c.ids = ids
  BY <1>1, CallTyped
<1>3. op = "scan" => /\ ids \subseteq LoaderIds \ LegacyIds /\ ids \cap Held(memory) = {}
                     /\ \A i \in DOMAIN calls : calls[i].op # "scan"
  BY DEF NewEvents, NoScanUnderWay
<1>4. calls' = Append(calls, c)
  OBVIOUS
<1> HIDE DEF c
<1>5. CallOK(c) /\ Honest(c, server.ingested)
  BY <1>1, <1>2, <1>3 DEF CallOK, Honest
<1>6. Asked(c)
  BY <1>2, <1>3, <1>5 DEF Asked
<1> QED BY <1>1, <1>2, <1>4, <1>6 DEF JobAsks

LEMMA DeletionRequested ==
  ASSUME Inv
  PROVE  /\ [reporter EXCEPT !.unconfirmed = NoMarkers, !.failed = FALSE] \in Reporting
         /\ Task("withdrawal", "job", {}) \in Tasks /\ Task("withdrawal", "job", {}).by = "job"
BY NoMarkersTyped DEF Inv, TypesOK, Reporting, Task, Tasks

LEMMA NewEventsAreEvents == NewEvents \in SUBSET EventIds
BY DEF NewEvents

(* Every job's step goes as one. *)
LEMMA JobsGo ==
  ASSUME Inv, JobStep
  PROVE  JobGoes
<1> USE DEF outside, store, storage, strands, JobWaits, JobPlaces, Free, AnswerRead, Hears, Takes, Errors,
            Ask, Await, EndJob, NextJob
<1>0. /\ jobs \in Seq(JobKinds) /\ reporter \in Reporting /\ (jpc # "idle" => jobs # <<>>)
      /\ Pruned \in Reporting /\ Started(Pruned) \in Reporting /\ Stopped(reporter) \in Reporting
      /\ ~Stopped(reporter).active /\ Stopped(reporter).timer = "none"
  BY JobUnderWay, PrunedTyped, StartedTyped, StoppedTyped
<1>1. CASE JobWithheld
  BY <1>0, <1>1, NothingToRead DEF JobWithheld, JobGoes
<1>2. CASE JobWithdraw
  <2>1. jpc = "tail" /\ tail = <<>> /\ ~reporter.active /\ reporter.timer # "run" /\ UNCHANGED outside
    BY <1>2 DEF JobWithdraw, Inv, TailOK
  <2>2. CASE EndJob /\ UNCHANGED <<store, reporter, tail, run>>
    BY <1>0, <2>1, <2>2, NothingToRead DEF JobGoes
  <2>3. CASE Ask(Call("job", "withdrawLocal", {})) /\ Await("local") /\ UNCHANGED <<reporter, tail, run>>
    <3>1. \E c \in Calling : JobAsks(c)
      BY <2>3, JobCall
    <3> QED BY <1>0, <2>1, <2>3, <3>1, NothingToRead DEF JobGoes
  <2>4. CASE RequestDeletion /\ UNCHANGED store
    BY <1>0, <2>1, <2>4, NothingToRead, DeletionRequested DEF JobGoes, RequestDeletion
  <2> QED BY <1>2, <2>2, <2>3, <2>4 DEF JobWithdraw
<1>3. CASE JobWithdrawn
  <2>1. jpc = "local" /\ UNCHANGED outside
    BY <1>3 DEF JobWithdrawn
  <2>2. CASE Hears("job", {"ok"}) /\ RequestDeletion
    BY <1>0, <2>1, <2>2, DeletionRequested DEF JobGoes, RequestDeletion
  <2>3. CASE Hears("job", Errors) /\ EndJob /\ UNCHANGED <<reporter, tail, run>>
    BY <1>0, <2>1, <2>3 DEF JobGoes
  <2> QED BY <1>3, <2>2, <2>3 DEF JobWithdrawn
<1>4. CASE JobScans
  <2>1. \E c \in Calling : JobAsks(c)
    BY <1>4, JobCall, NewEventsAreEvents DEF JobScans
  <2> QED BY <1>0, <1>4, <2>1, NothingToRead DEF JobScans, JobGoes
<1>5. ASSUME NEW kind, ScanOver(kind)
      PROVE  AnswerRead("job") /\ jobs # <<>> /\ jpc \in {"idle", "scan"} /\ Free("job", jpc, JobWaits)
  BY <1>0, <1>5, NothingToRead DEF ScanOver
<1>6. CASE JobStarts
  BY <1>0, <1>5, <1>6 DEF JobStarts, JobGoes
<1>7. CASE JobClears
  <2>1. \E c \in Calling : JobAsks(c)
    BY <1>7, JobCall DEF JobClears
  <2> QED BY <1>0, <1>5, <1>7, <2>1 DEF JobClears, JobGoes
<1>8. CASE JobCleared
  BY <1>0, <1>8 DEF JobCleared, JobGoes
<1>9. CASE JobRecords
  <2>1. Head(jobs).ids \in SUBSET EventIds /\ \E id \in EventIds \ (LegacyIds \cup LoaderIds) : Head(jobs).ids = {id}
    BY <1>9, JobUnderWay DEF JobRecords
  <2>2. CASE Ask(Call("job", "put", Head(jobs).ids)) /\ Await("put")
    <3>1. \E c \in Calling : JobAsks(c)
      BY <2>1, <2>2, JobCall
    <3> QED BY <1>0, <1>9, <2>2, <3>1, NothingToRead DEF JobRecords, JobGoes
  <2>3. CASE EndJob /\ UNCHANGED store
    BY <1>0, <1>9, <2>3, NothingToRead DEF JobRecords, JobGoes
  <2> QED BY <1>9, <2>2, <2>3 DEF JobRecords
<1>10. CASE JobRecorded
  BY <1>0, <1>10 DEF JobRecorded, JobGoes
<1>11. CASE JobReopens
  <2>1. Head(jobs).ids \in SUBSET EventIds
    BY <1>11, JobUnderWay DEF JobReopens
  <2>2. \E c \in Calling : JobAsks(c)
    BY <1>11, <2>1, JobCall DEF JobReopens
  <2> QED BY <1>0, <1>11, <2>2, NothingToRead DEF JobReopens, JobGoes
<1>12. CASE JobResends
  <2>1. jpc = "reopen" /\ UNCHANGED <<core, left, server, reporter, run>>
    BY <1>12 DEF JobResends
  <2>2. CASE /\ Hears("job", {"ok"})
             /\ tail' = Append(tail, Task("resend", "job", Head(jobs).ids)) /\ Await("task")
    <3>1. Task("resend", "job", Head(jobs).ids) \in Tasks /\ Task("resend", "job", Head(jobs).ids).by = "job"
      BY <1>0, <2>1, JobUnderWay DEF Task, Tasks
    <3> QED BY <1>0, <2>1, <2>2, <3>1 DEF JobGoes
  <2>3. CASE Hears("job", Errors) /\ EndJob /\ UNCHANGED tail
    BY <1>0, <2>1, <2>3 DEF JobGoes
  <2> QED BY <1>12, <2>2, <2>3 DEF JobResends
<1> QED BY <1>1, <1>2, <1>3, <1>4, <1>6, <1>7, <1>8, <1>9, <1>10, <1>11, <1>12 DEF JobStep

----------------------------------------------------------------------------
(* Every step of the sender goes on or leaves *)

(* The task under way. *)
LEMMA TaskUnderWay ==
  ASSUME Inv
  PROVE  /\ reporter \in Reporting /\ run \in Progress /\ run.batch \in SUBSET EventIds
         /\ run.previous \in Uncertain /\ run.response \in Responses
         /\ tail # <<>> => Head(tail) \in Tasks /\ Head(tail).ids \in SUBSET EventIds
         /\ Pending(memory) \in SUBSET EventIds
         /\ server = [stored |-> server.stored, ingested |-> server.ingested, doubt |-> server.doubt]
<1>1. reporter \in Reporting /\ run \in Progress /\ tail \in Seq(Tasks)
  BY DEF Inv, TypesOK
<1>2. tail # <<>> => Head(tail) \in Tasks
  BY <1>1, Dropped
<1>3. Pending(memory) \in SUBSET EventIds
  BY RowsOf DEF Inv, GoodOK, Good, Pending
<1> QED BY <1>1, <1>2, <1>3 DEF Progress, Tasks, Inv, TypesOK

LEMMA QuietAlso ==
  ASSUME NEW r, Quiet(r)
  PROVE  /\ Quiet(Stopped(r)) /\ Quiet(Armed(r))
         /\ \A b \in BOOLEAN : Quiet([r EXCEPT !.failed = b]) /\ Quiet([r EXCEPT !.settings = b])
         /\ \A m \in Uncertain : Quiet([r EXCEPT !.unconfirmed = m])
         /\ \A timer \in {"none", "withdrawal"} : Quiet([r EXCEPT !.timer = timer])
         /\ \A ids \in SUBSET EventIds, code \in Markers : Quiet(Holding(r, ids, code))
<1>1. r \in Reporting
  BY DEF Quiet
<1>2. Quiet(Stopped(r)) /\ Quiet(Armed(r))
  BY <1>1, StoppedTyped, ArmedTyped DEF Quiet
<1>3. \A b \in BOOLEAN : Quiet([r EXCEPT !.failed = b]) /\ Quiet([r EXCEPT !.settings = b])
  BY DEF Quiet, Reporting
<1>4. \A m \in Uncertain : Quiet([r EXCEPT !.unconfirmed = m])
  BY DEF Quiet, Reporting
<1>5. \A timer \in {"none", "withdrawal"} : Quiet([r EXCEPT !.timer = timer])
  BY DEF Quiet, Reporting
<1>6. \A ids \in SUBSET EventIds, code \in Markers : Quiet(Holding(r, ids, code))
  BY <1>1, HoldingTyped DEF Quiet
<1> QED BY <1>2, <1>3, <1>4, <1>5, <1>6

LEMMA QuietNow ==
  ASSUME Inv
  PROVE  Quiet(reporter) /\ Quiet(Pruned)
BY PrunedTyped DEF Inv, TypesOK, Quiet

(* The automatic sender arms its next interval only while it is active. *)
LEMMA RunEnds ==
  ASSUME NEW r, Quiet(r), EndRun(r) \/ EndRunBackoff(r)
  PROVE  LeaveTask /\ Quiet(reporter')
<1>1. Quiet(Armed(r))
  BY QuietAlso
<1> QED BY <1>1 DEF EndRun, EndRunBackoff

LEMMA GoesOn ==
  ASSUME Inv, tail # <<>>, Free("sender", run.pc, SenderWaits), AnswerRead("sender"),
         UNCHANGED <<storage, calls, tail, jobs, jpc, server>>, Quiet(reporter'),
         run' \in Progress, run'.pc \notin SenderWaits, run'.pc # "answered",
         run'.pc \in {"sign", "post"} => Sent /\ run'.batch = run.batch,
         run'.pc = "delete" => Head(tail).kind = "withdrawal"
  PROVE  SenderGoes
<1>1. ServerAnswers
  BY TaskUnderWay DEF ServerAnswers
<1> QED BY <1>1 DEF SenderGoes, AnswerOK

LEMMA GoesAsking ==
  ASSUME Inv, tail # <<>>, Free("sender", run.pc, SenderWaits), AnswerRead("sender"),
         UNCHANGED <<storage, tail, jobs, jpc, server>>, Quiet(reporter'),
         run' \in Progress, run'.pc \in SenderWaits,
         NEW c, Sendable(c), calls' = Append(calls, c), run'.pc = "intent" => Marks(c, run'.batch)
  PROVE  SenderGoes
<1>1. ServerAnswers
  BY TaskUnderWay DEF ServerAnswers
<1>2. c \in Calling /\ SenderAsks(c)
  BY DEF SenderAsks, Sendable
<1>3. run'.pc \notin {"answered", "sign", "post", "delete"}
  BY DEF SenderWaits
<1> QED BY <1>1, <1>2, <1>3 DEF SenderGoes, AnswerOK

LEMMA SenderCall ==
  ASSUME NEW op \in {"intent", "undoIntent", "attempts", "resendIntent"}, NEW ids \in SUBSET EventIds
  PROVE  Sendable(Call("sender", op, ids)) /\ Call("sender", op, ids).op = op /\ Call("sender", op, ids).ids = ids
<1> DEFINE c == Call("sender", op, ids)
<1>1. op \in BufferOps /\ op \in SenderOps
  BY DEF BufferOps, SenderOps
<1>2. c \in Calling /\ c.by = "sender" /\ c.op = op /\ c.ids = ids /\ c.code = "none"
  BY <1>1, CallTyped
<1> HIDE DEF c
<1>3. CallOK(c) /\ Honest(c, server.ingested)
  BY <1>2 DEF CallOK, Honest
<1>4. Sendable(c)
  BY <1>1, <1>2, <1>3 DEF Sendable
<1> QED BY <1>2, <1>4 DEF c

LEMMA FailureCallSent ==
  ASSUME Inv
  PROVE  Sendable(FailureCall)
<1>1. CASE Head(tail).kind = "run"
  BY <1>1, SenderCall, TaskUnderWay DEF FailureCall
<1>2. CASE Head(tail).kind # "run"
  <2> DEFINE plain == Call("sender", "resendFailure", run.batch)
             c == [plain EXCEPT !.marks = run.previous]
  <2>1. plain \in Calling /\ plain.by = "sender" /\ plain.op = "resendFailure" /\ run.previous \in Uncertain
    BY TaskUnderWay, CallTyped DEF BufferOps
  <2> HIDE DEF plain
  <2>2. c \in Calling /\ c.by = "sender" /\ c.op = "resendFailure" /\ c.marks \in Uncertain
    BY <2>1 DEF Calling
  <2> HIDE DEF c
  <2>3. Sendable(c)
    BY <2>2 DEF Sendable, CallOK, Honest, SenderOps
  <2> QED BY <1>2, <2>3 DEF FailureCall, c, plain
<1> QED BY <1>1, <1>2

LEMMA UnknownCallSent ==
  ASSUME Inv
  PROVE  Sendable([Call("sender", "attempts", run.batch) EXCEPT !.code = Unknown])
<1> DEFINE plain == Call("sender", "attempts", run.batch)
           c == [plain EXCEPT !.code = Unknown]
<1>1. plain \in Calling /\ plain.by = "sender" /\ plain.op = "attempts" /\ Unknown \in Codes
  BY TaskUnderWay, CallTyped DEF BufferOps, Codes, Markers
<1> HIDE DEF plain
<1>2. c \in Calling /\ c.by = "sender" /\ c.op = "attempts" /\ c.code = Unknown
  BY <1>1 DEF Calling
<1> HIDE DEF c
<1>3. Sendable(c)
  BY <1>2 DEF Sendable, CallOK, Honest, SenderOps
<1> QED BY <1>3 DEF c, plain

LEMMA ApplyCallSent ==
  ASSUME Inv, run.pc = "answered", run.response.kind = "committed"
  PROVE  Sendable([Call("sender", "apply", run.batch) EXCEPT
                     !.accepted = run.response.accepted, !.duplicates = run.response.duplicates,
                     !.marks = run.response.rejected])
<1> DEFINE plain == Call("sender", "apply", run.batch)
           c == [plain EXCEPT !.accepted = run.response.accepted, !.duplicates = run.response.duplicates,
                              !.marks = run.response.rejected]
<1>1. /\ plain \in Calling /\ plain.by = "sender" /\ plain.op = "apply" /\ plain.ids = run.batch
      /\ run.response \in Responses
  BY TaskUnderWay, CallTyped DEF BufferOps
<1> HIDE DEF plain
<1>2. /\ c \in Calling /\ c.by = "sender" /\ c.op = "apply" /\ c.ids = run.batch
      /\ c.accepted = run.response.accepted /\ c.duplicates = run.response.duplicates
      /\ c.marks = run.response.rejected
  BY <1>1 DEF Calling, Responses
<1> HIDE DEF c
<1>3. Uniform(c.marks) /\ Honest(c, server.ingested)
  BY <1>2 DEF Inv, AnswerOK, Honest
<1>4. Sendable(c)
  BY <1>2, <1>3 DEF Sendable, CallOK, SenderOps
<1> QED BY <1>4 DEF c, plain

LEMMA MarkCallSent ==
  ASSUME NEW outcome \in WithdrawalStates \ {"none"}
  PROVE  Sendable(MarkWithdrawalCall(outcome))
<1> DEFINE plain == Call("sender", "markWithdrawal", {})
           c == [plain EXCEPT !.code = outcome]
<1>1. plain \in Calling /\ plain.by = "sender" /\ plain.op = "markWithdrawal"
  BY CallTyped DEF BufferOps
<1> HIDE DEF plain
<1>2. c \in Calling /\ c.by = "sender" /\ c.op = "markWithdrawal" /\ c.code = outcome
  BY <1>1 DEF Calling
<1> HIDE DEF c
<1>3. Sendable(c)
  BY <1>2 DEF Sendable, CallOK, Honest, SenderOps
<1> QED BY <1>3 DEF c, plain, MarkWithdrawalCall

LEMMA WentTo ==
  ASSUME Inv, NEW pc \in SenderPlaces, GoTo(pc)
  PROVE  /\ run' \in Progress /\ run'.pc = pc /\ run'.batch = run.batch /\ run'.response = run.response
         /\ UNCHANGED <<tail, jobs, jpc>>
BY TaskUnderWay DEF GoTo, GoOn, Progress

(* Hearing an answer, or waiting for none. *)
LEMMA Heard ==
  ASSUME Inv, NEW S, Takes("sender", S), "none" \notin S
  PROVE  Free("sender", run.pc, SenderWaits) /\ AnswerRead("sender")
BY DEF Takes, Free, AnswerRead

LEMMA Unwaiting ==
  ASSUME Inv, UNCHANGED answer, run.pc \notin SenderWaits
  PROVE  Free("sender", run.pc, SenderWaits) /\ AnswerRead("sender")
BY NothingToRead DEF Free

(* The automatic sender. *)
LEMMA AutomaticSteps ==
  ASSUME Inv, AutomaticStep
  PROVE  SenderGoes \/ SenderLeaves
<1> USE DEF outside, store, At
<1>0. /\ reporter \in Reporting /\ Quiet(reporter) /\ Quiet(Pruned) /\ run.batch \in SUBSET EventIds
      /\ Pending(memory) \in SUBSET EventIds
  BY TaskUnderWay, QuietNow
<1>1. CASE RunGated
  <2>1. EndRun(Pruned) /\ tail # <<>> /\ run.pc = "idle" /\ UNCHANGED <<core, left, server, storage, calls, answer>>
    BY <1>1 DEF RunGated
  <2> QED BY <1>0, <2>1, RunEnds, Unwaiting DEF SenderLeaves, SenderWaits
<1>2. CASE RunUnregistered
  <2>1. EndRunBackoff(Pruned) /\ tail # <<>> /\ run.pc = "idle" /\ UNCHANGED <<core, server, storage, calls, answer>>
    BY <1>2 DEF RunUnregistered
  <2> QED BY <1>0, <2>1, RunEnds, Unwaiting DEF SenderLeaves, SenderWaits
<1>3. CASE RunBegin
  <2>1. PICK b \in SUBSET EventIds : GoOn([NoRun EXCEPT !.pc = "settings", !.batch = b])
    BY <1>0, <1>3 DEF RunBegin, Batches
  <2>2. run' \in Progress /\ run'.pc = "settings" /\ UNCHANGED <<tail, jobs, jpc>>
    BY <2>1, NoRunTyped DEF GoOn, Progress, SenderPlaces
  <2>3. reporter' = Pruned /\ tail # <<>> /\ run.pc = "idle" /\ UNCHANGED <<core, left, server, storage, calls, answer>>
    BY <1>3 DEF RunBegin
  <2> QED BY <1>0, <2>2, <2>3, Unwaiting, GoesOn DEF SenderWaits
<1>4. CASE RunSettingsFail
  <2>1. /\ EndRunBackoff([reporter EXCEPT !.settings = FALSE]) /\ tail # <<>> /\ run.pc = "settings"
        /\ UNCHANGED <<core, server, storage, calls, answer>>
    BY <1>4 DEF RunSettingsFail
  <2> QED BY <1>0, <2>1, QuietAlso, RunEnds, Unwaiting DEF SenderLeaves, SenderWaits
<1>5. CASE RunSettingsOk
  <2> DEFINE r == [reporter EXCEPT !.settings = TRUE]
  <2>1. tail # <<>> /\ run.pc = "settings" /\ UNCHANGED <<core, left, server>>
    BY <1>5 DEF RunSettingsOk
  <2>2. Quiet(r) /\ Quiet(Stopped(r))
    BY <1>0, QuietAlso
  <2>3. CASE EndRun(r) \/ EndRun(Stopped(r))
    <3>1. UNCHANGED <<storage, calls, answer>>
      BY <1>5, <2>3 DEF RunSettingsOk, EndRun, LeaveTask, GoTo, GoOn
    <3> QED BY <2>1, <2>2, <2>3, <3>1, RunEnds, Unwaiting DEF SenderLeaves, SenderWaits
  <2>4. CASE Ask(Call("sender", "intent", run.batch)) /\ GoTo("intent") /\ reporter' = r
    <3> DEFINE c == Call("sender", "intent", run.batch)
    <3>1. Sendable(c) /\ Marks(c, run.batch)
      BY <1>0, SenderCall DEF Marks
    <3>2. run' \in Progress /\ run'.pc = "intent" /\ run'.batch = run.batch /\ UNCHANGED <<tail, jobs, jpc>>
      BY <2>4, WentTo DEF SenderPlaces, SenderWaits
    <3>3. calls' = Append(calls, c) /\ UNCHANGED <<storage, answer>>
      BY <2>4 DEF Ask
    <3> HIDE DEF c, r
    <3>4. Quiet(reporter') /\ "intent" \in SenderWaits /\ "settings" \notin SenderWaits
      BY <2>2, <2>4 DEF SenderWaits
    <3> QED BY <2>1, <3>1, <3>2, <3>3, <3>4, Unwaiting, GoesAsking
  <2> QED BY <1>5, <2>3, <2>4 DEF RunSettingsOk
<1>6. CASE RunIntentLost
  <2>1. /\ EndRun([Stopped(reporter) EXCEPT !.failed = TRUE]) /\ tail # <<>>
        /\ Takes("sender", Errors) /\ UNCHANGED <<core, left, server, storage, calls>>
    BY <1>6 DEF RunIntentLost, Hears
  <2>2. Quiet(Stopped(reporter)) /\ "none" \notin Errors
    BY <1>0, QuietAlso DEF Errors
  <2>3. Quiet([Stopped(reporter) EXCEPT !.failed = TRUE])
    BY <2>2, QuietAlso
  <2> QED BY <2>1, <2>2, <2>3, RunEnds, Heard DEF SenderLeaves
<1>7. CASE RunIntentKept
  <2>1. /\ tail # <<>> /\ run.pc = "intent" /\ answer["sender"] = "ok" /\ Takes("sender", {"ok"}) /\ GoTo("sign")
        /\ UNCHANGED <<core, left, server, reporter, storage, calls>>
    BY <1>7 DEF RunIntentKept, Hears, Takes
  <2>2. run' \in Progress /\ run'.pc = "sign" /\ run'.batch = run.batch /\ UNCHANGED <<tail, jobs, jpc>>
    BY <2>1, WentTo DEF SenderPlaces
  <2>3. Sent /\ Quiet(reporter') /\ "sign" \notin SenderWaits
    BY <1>0, <2>1 DEF Sent, SenderWaits
  <2>4. Free("sender", run.pc, SenderWaits) /\ AnswerRead("sender")
    BY <2>1, Heard
  <2> QED BY <2>1, <2>2, <2>3, <2>4, GoesOn
<1>8. CASE RunIntentTakenBack
  <2> DEFINE c == Call("sender", "undoIntent", run.batch)
  <2>1. /\ tail # <<>> /\ Takes("sender", {"ok"}) /\ GoTo("undo") /\ calls' = Append(calls, c)
        /\ UNCHANGED <<core, left, server, reporter, storage>>
    BY <1>8 DEF RunIntentTakenBack, HearsAndAsks
  <2>2. Sendable(c)
    BY <1>0, SenderCall
  <2> HIDE DEF c
  <2>3. run' \in Progress /\ run'.pc = "undo" /\ UNCHANGED <<tail, jobs, jpc>> /\ "undo" \in SenderWaits
    BY <2>1, WentTo DEF SenderPlaces, SenderWaits
  <2>4. Free("sender", run.pc, SenderWaits) /\ AnswerRead("sender") /\ Quiet(reporter')
    BY <1>0, <2>1, Heard
  <2> QED BY <2>1, <2>2, <2>3, <2>4, GoesAsking
<1>9. CASE RunUndone
  <2>1. EndRun(Stopped(reporter)) /\ tail # <<>> /\ Takes("sender", {"ok"}) /\ UNCHANGED <<core, left, server, storage, calls>>
    BY <1>9 DEF RunUndone, Hears
  <2>2. Quiet(Stopped(reporter))
    BY <1>0, QuietAlso
  <2> QED BY <2>1, <2>2, RunEnds, Heard DEF SenderLeaves
<1>10. CASE RunPersistenceFailure
  <2>1. PICK S \in {Errors, {"failed"}} : Takes("sender", S) /\ UNCHANGED <<storage, calls>> /\ tail # <<>>
    BY <1>10 DEF RunPersistenceFailure, Hears
  <2>2. "none" \notin S
    BY DEF Errors
  <2>3. EndRun([Holding(reporter, run.batch, Intent) EXCEPT !.failed = TRUE]) /\ UNCHANGED <<core, left, server>>
    BY <1>10 DEF RunPersistenceFailure
  <2>4. Quiet(Holding(reporter, run.batch, Intent))
    BY <1>0, QuietAlso DEF Markers
  <2>5. Quiet([Holding(reporter, run.batch, Intent) EXCEPT !.failed = TRUE])
    BY <2>4, QuietAlso
  <2> QED BY <2>1, <2>2, <2>3, <2>5, RunEnds, Heard DEF SenderLeaves
<1>11. CASE RunPost
  <2>1. tail # <<>> /\ run.pc = "sign" /\ GoTo("post") /\ UNCHANGED <<core, left, server, storage, calls, answer, reporter>>
    BY <1>11 DEF RunPost
  <2>2. run' \in Progress /\ run'.pc = "post" /\ run'.batch = run.batch /\ UNCHANGED <<tail, jobs, jpc>>
    BY <2>1, WentTo DEF SenderPlaces
  <2> QED BY <1>0, <2>1, <2>2, Unwaiting, GoesOn DEF Sent, SenderWaits
<1>12. CASE RunApplied
  <2>1. EndRun(Pruned) /\ tail # <<>> /\ Takes("sender", {"ok"}) /\ UNCHANGED <<core, left, server, storage, calls>>
    BY <1>12 DEF RunApplied, Hears
  <2> QED BY <1>0, <2>1, RunEnds, Heard DEF SenderLeaves
<1>13. CASE RunFailed
  <2>1. EndRunBackoff(reporter) /\ tail # <<>> /\ Takes("sender", {"ok"}) /\ UNCHANGED <<core, left, server, storage, calls>>
    BY <1>13 DEF RunFailed, Hears
  <2> QED BY <1>0, <2>1, RunEnds, Heard DEF SenderLeaves
<1>14. CASE RunHeldUnknown
  <2> DEFINE failed == reporter.failed \/ answer["sender"] \in Errors
  <2>1. /\ EndRun([reporter EXCEPT !.failed = failed]) /\ tail # <<>> /\ Takes("sender", {"ok"} \cup Errors)
        /\ UNCHANGED <<core, left, server, storage, calls>>
    BY <1>14 DEF RunHeldUnknown, Hears
  <2>2. failed \in BOOLEAN /\ "none" \notin {"ok"} \cup Errors
    BY <1>0 DEF Reporting, Errors
  <2> HIDE DEF failed
  <2>3. Quiet([reporter EXCEPT !.failed = failed])
    BY <1>0, <2>2, QuietAlso
  <2> QED BY <2>1, <2>2, <2>3, RunEnds, Heard DEF SenderLeaves
<1> QED BY <1>1, <1>2, <1>3, <1>4, <1>5, <1>6, <1>7, <1>8, <1>9, <1>10, <1>11, <1>12, <1>13, <1>14
        DEF AutomaticStep

(* The answer to a request. *)
LEMMA AnswerSteps ==
  ASSUME Inv, AnswerStep
  PROVE  SenderGoes
<1> USE DEF outside, store, At, Sending
<1>0. Quiet(reporter) /\ run.batch \in SUBSET EventIds /\ run.response \in Responses
  BY TaskUnderWay, QuietNow
<1>1. CASE SignFails
  <2>1. /\ tail # <<>> /\ run.pc = "sign" /\ calls' = Append(calls, FailureCall) /\ GoTo("fail")
        /\ UNCHANGED <<core, server, reporter, storage, answer>>
    BY <1>1 DEF SignFails, Ask
  <2>2. run' \in Progress /\ run'.pc = "fail" /\ UNCHANGED <<tail, jobs, jpc>> /\ "fail" \in SenderWaits
    BY <2>1, WentTo DEF SenderPlaces, SenderWaits
  <2>3. Free("sender", run.pc, SenderWaits) /\ AnswerRead("sender")
    BY <2>1, Unwaiting DEF SenderWaits
  <2> QED BY <1>0, <2>1, <2>2, <2>3, FailureCallSent, GoesAsking
<1>2. CASE AnswerCommitted
  <2> DEFINE c == [Call("sender", "apply", run.batch) EXCEPT
                     !.accepted = run.response.accepted, !.duplicates = run.response.duplicates,
                     !.marks = run.response.rejected]
  <2>1. /\ tail # <<>> /\ run.pc = "answered" /\ run.response.kind = "committed"
        /\ calls' = Append(calls, c) /\ GoTo("apply")
        /\ UNCHANGED <<core, left, server, reporter, storage, answer>>
    BY <1>2 DEF AnswerCommitted, Ask
  <2>2. Sendable(c)
    BY <2>1, ApplyCallSent
  <2> HIDE DEF c
  <2>3. run' \in Progress /\ run'.pc = "apply" /\ UNCHANGED <<tail, jobs, jpc>> /\ "apply" \in SenderWaits
    BY <2>1, WentTo DEF SenderPlaces, SenderWaits
  <2>4. Free("sender", run.pc, SenderWaits) /\ AnswerRead("sender")
    BY <2>1, Unwaiting DEF SenderWaits
  <2> QED BY <1>0, <2>1, <2>2, <2>3, <2>4, GoesAsking
<1>3. CASE AnswerUnknown
  <2> DEFINE c == [Call("sender", "attempts", run.batch) EXCEPT !.code = Unknown]
  <2>1. /\ tail # <<>> /\ run.pc = "answered" /\ calls' = Append(calls, c) /\ GoTo("hold")
        /\ reporter' = Holding(reporter, run.batch, Unknown)
        /\ UNCHANGED <<core, left, server, storage, answer>>
    BY <1>3 DEF AnswerUnknown, Ask
  <2>2. Sendable(c)
    BY UnknownCallSent
  <2> HIDE DEF c
  <2>3. run' \in Progress /\ run'.pc = "hold" /\ UNCHANGED <<tail, jobs, jpc>> /\ "hold" \in SenderWaits
    BY <2>1, WentTo DEF SenderPlaces, SenderWaits
  <2>4. Free("sender", run.pc, SenderWaits) /\ AnswerRead("sender")
    BY <2>1, Unwaiting DEF SenderWaits
  <2>5. Quiet(reporter')
    BY <1>0, <2>1, QuietAlso DEF Markers
  <2> QED BY <2>1, <2>2, <2>3, <2>4, <2>5, GoesAsking
<1>4. CASE AnswerUnusable
  <2>1. /\ tail # <<>> /\ run.pc = "answered" /\ calls' = Append(calls, FailureCall) /\ GoTo("fail")
        /\ UNCHANGED <<core, left, server, reporter, storage, answer>>
    BY <1>4 DEF AnswerUnusable, Ask
  <2>2. run' \in Progress /\ run'.pc = "fail" /\ UNCHANGED <<tail, jobs, jpc>> /\ "fail" \in SenderWaits
    BY <2>1, WentTo DEF SenderPlaces, SenderWaits
  <2>3. Free("sender", run.pc, SenderWaits) /\ AnswerRead("sender")
    BY <2>1, Unwaiting DEF SenderWaits
  <2> QED BY <1>0, <2>1, <2>2, <2>3, FailureCallSent, GoesAsking
<1>5. CASE AnswerMiscounted
  <2>1. /\ tail # <<>> /\ Takes("sender", {"invalid"}) /\ calls' = Append(calls, FailureCall) /\ GoTo("fail")
        /\ UNCHANGED <<core, left, server, reporter, storage>>
    BY <1>5 DEF AnswerMiscounted, HearsAndAsks
  <2>2. run' \in Progress /\ run'.pc = "fail" /\ UNCHANGED <<tail, jobs, jpc>> /\ "fail" \in SenderWaits
    BY <2>1, WentTo DEF SenderPlaces, SenderWaits
  <2>3. Free("sender", run.pc, SenderWaits) /\ AnswerRead("sender")
    BY <2>1, Heard
  <2> QED BY <1>0, <2>1, <2>2, <2>3, FailureCallSent, GoesAsking
<1> QED BY <1>1, <1>2, <1>3, <1>4, <1>5 DEF AnswerStep

(* The one-shot sender of a selection. *)
LEMMA ResendSteps ==
  ASSUME Inv, ResendStep
  PROVE  SenderGoes \/ SenderLeaves
<1> USE DEF outside, store, At
<1>0. /\ reporter \in Reporting /\ Quiet(reporter) /\ Quiet(Pruned) /\ run \in Progress
      /\ run.batch \in SUBSET EventIds
  BY TaskUnderWay, QuietNow
<1>1. CASE ResendRefused
  <2>1. tail # <<>> /\ run.pc = "idle" /\ reporter' = Pruned /\ LeaveTask /\ UNCHANGED <<core, left, server, storage, calls, answer>>
    BY <1>1 DEF ResendRefused
  <2> QED BY <1>0, <2>1, Unwaiting DEF SenderLeaves, SenderWaits
<1>2. CASE ResendAccepted
  <2>1. tail # <<>> /\ run.pc = "idle" /\ reporter' = Stopped(Pruned) /\ UNCHANGED <<core, left, server, storage, calls, answer>>
    BY <1>2 DEF ResendAccepted
  <2>2. Quiet(reporter')
    BY <1>0, <2>1, QuietAlso
  <2>3. CASE GoOn([NoRun EXCEPT !.pc = "next", !.selected = Head(tail).ids])
    <3>1. run' \in Progress /\ run'.pc = "next" /\ UNCHANGED <<tail, jobs, jpc>>
      BY <2>1, <2>3, NoRunTyped, TaskUnderWay DEF GoOn, Progress, SenderPlaces
    <3> QED BY <2>1, <2>2, <3>1, Unwaiting, GoesOn DEF SenderWaits
  <2>4. CASE LeaveTask
    BY <2>1, <2>2, <2>4, Unwaiting DEF SenderLeaves, SenderWaits
  <2> QED BY <1>2, <2>3, <2>4 DEF ResendAccepted
<1>3. CASE ResendOver
  <2>1. tail # <<>> /\ run.pc = "next" /\ LeaveTask /\ UNCHANGED <<core, left, server, storage, calls, answer, reporter>>
    BY <1>3 DEF ResendOver
  <2> QED BY <1>0, <2>1, Unwaiting DEF SenderLeaves, SenderWaits
<1>4. CASE ResendBatch
  <2>1. tail # <<>> /\ run.pc = "next" /\ UNCHANGED <<core, left, server, reporter>>
    BY <1>4 DEF ResendBatch
  <2>2. PICK b \in Batches(run.selected \cap Pending(memory)) :
          /\ Ask(Call("sender", "resendIntent", b))
          /\ GoOn([run EXCEPT !.pc = "intent", !.batch = b,
                     !.previous = [id \in b \cap DOMAIN reporter.unconfirmed |-> reporter.unconfirmed[id]]])
    BY <1>4 DEF ResendBatch
  <2> DEFINE c == Call("sender", "resendIntent", b)
             D == b \cap DOMAIN reporter.unconfirmed
             previous == [id \in D |-> reporter.unconfirmed[id]]
  <2>3. b \in SUBSET EventIds
    BY <1>0, <2>2 DEF Batches, Progress
  <2>4. D \in SUBSET EventIds /\ previous \in [D -> Markers]
    BY <1>0, <2>3, UnconfirmedTyped
  <2>5. previous \in Uncertain
    BY <2>4, UncertainTyped
  <2>6. Sendable(c) /\ Marks(c, b) /\ calls' = Append(calls, c) /\ UNCHANGED <<storage, answer>>
    BY <2>2, <2>3, SenderCall DEF Marks, Ask
  <2>7. run' = [run EXCEPT !.pc = "intent", !.batch = b, !.previous = previous] /\ UNCHANGED <<tail, jobs, jpc>>
    BY <2>2 DEF GoOn
  <2> HIDE DEF c, previous
  <2>8. run' \in Progress /\ run'.pc = "intent" /\ run'.batch = b /\ "intent" \in SenderWaits
    BY <1>0, <2>3, <2>5, <2>7 DEF Progress, SenderPlaces, SenderWaits
  <2>9. Free("sender", run.pc, SenderWaits) /\ AnswerRead("sender") /\ Quiet(reporter')
    BY <1>0, <2>1, <2>6, Unwaiting DEF SenderWaits
  <2> QED BY <2>1, <2>6, <2>7, <2>8, <2>9, GoesAsking
<1>5. CASE ResendPersistenceFailure
  <2>1. PICK S \in {Errors, {"failed"}} : Takes("sender", S) /\ UNCHANGED <<storage, calls>> /\ tail # <<>>
    BY <1>5 DEF ResendPersistenceFailure, Hears
  <2>2. "none" \notin S
    BY DEF Errors
  <2>3. reporter' = [reporter EXCEPT !.failed = TRUE] /\ LeaveTask /\ UNCHANGED <<core, left, server>>
    BY <1>5 DEF ResendPersistenceFailure
  <2>4. Quiet(reporter')
    BY <1>0, <2>3, QuietAlso
  <2> QED BY <2>1, <2>2, <2>3, <2>4, Heard DEF SenderLeaves
<1>6. CASE ResendIntentKept
  <2> DEFINE D == DOMAIN reporter.unconfirmed \cup run.batch
             m == [id \in D |-> IF id \in DOMAIN reporter.unconfirmed THEN reporter.unconfirmed[id] ELSE Intent]
  <2>1. /\ tail # <<>> /\ run.pc = "intent" /\ answer["sender"] = "ok" /\ Takes("sender", {"ok"})
        /\ UNCHANGED <<core, left, server, storage, calls>>
        /\ reporter' = [reporter EXCEPT !.unconfirmed = m]
    BY <1>6 DEF ResendIntentKept, Hears, Takes
  <2>2. D \in SUBSET EventIds /\ m \in [D -> Markers]
    BY <1>0, UnconfirmedTyped DEF Markers
  <2>3. m \in Uncertain
    BY <2>2, UncertainTyped
  <2> HIDE DEF m
  <2>4. Quiet(reporter') /\ Free("sender", run.pc, SenderWaits) /\ AnswerRead("sender")
    BY <1>0, <2>1, <2>3, QuietAlso, Heard
  <2>5. CASE GoTo("sign")
    <3>1. run' \in Progress /\ run'.pc = "sign" /\ run'.batch = run.batch /\ UNCHANGED <<tail, jobs, jpc>>
      BY <2>5, WentTo DEF SenderPlaces
    <3>2. Sent /\ "sign" \notin SenderWaits
      BY <2>1 DEF Sent, SenderWaits
    <3> QED BY <2>1, <2>4, <3>1, <3>2, GoesOn
  <2>6. CASE LeaveTask
    BY <2>1, <2>4, <2>6 DEF SenderLeaves
  <2> QED BY <1>6, <2>5, <2>6 DEF ResendIntentKept
<1>7. CASE ResendPost
  <2>1. tail # <<>> /\ run.pc = "sign" /\ UNCHANGED <<core, left, server, storage, calls, answer, reporter>>
    BY <1>7 DEF ResendPost
  <2>2. CASE GoTo("post")
    <3>1. run' \in Progress /\ run'.pc = "post" /\ run'.batch = run.batch /\ UNCHANGED <<tail, jobs, jpc>>
      BY <2>2, WentTo DEF SenderPlaces
    <3> QED BY <1>0, <2>1, <3>1, Unwaiting, GoesOn DEF Sent, SenderWaits
  <2>3. CASE LeaveTask
    BY <1>0, <2>1, <2>3, Unwaiting DEF SenderLeaves, SenderWaits
  <2> QED BY <1>7, <2>2, <2>3 DEF ResendPost
<1>8. ASSUME NEW r, Quiet(r), ResendNext(r), Hears("sender", {"ok"}), tail # <<>>
      PROVE  SenderGoes
  <2>1. run' = [NoRun EXCEPT !.pc = "next", !.selected = run.selected \ run.batch] /\ UNCHANGED <<tail, jobs, jpc>>
    BY <1>8 DEF ResendNext, GoOn
  <2>2. run' \in Progress /\ run'.pc = "next"
    BY <1>0, <2>1, NoRunTyped DEF Progress, SenderPlaces
  <2>3. Quiet(reporter') /\ UNCHANGED <<core, left, server, storage, calls>> /\ Takes("sender", {"ok"})
    BY <1>8 DEF ResendNext, Hears
  <2>4. Free("sender", run.pc, SenderWaits) /\ AnswerRead("sender") /\ "next" \notin SenderWaits
    BY <2>3, Heard DEF SenderWaits
  <2> QED BY <1>8, <2>1, <2>2, <2>3, <2>4, GoesOn
<1>9. CASE ResendApplied
  BY <1>0, <1>8, <1>9 DEF ResendApplied
<1>10. CASE ResendFailed
  <2> DEFINE D == DOMAIN reporter.unconfirmed \ (run.batch \ DOMAIN run.previous)
             m == [id \in D |-> reporter.unconfirmed[id]]
  <2>1. tail # <<>> /\ Hears("sender", {"ok"}) /\ ResendNext([reporter EXCEPT !.unconfirmed = m])
    BY <1>10 DEF ResendFailed
  <2>2. D \in SUBSET EventIds /\ m \in [D -> Markers]
    BY <1>0, UnconfirmedTyped
  <2>3. m \in Uncertain
    BY <2>2, UncertainTyped
  <2> HIDE DEF m
  <2>4. Quiet([reporter EXCEPT !.unconfirmed = m])
    BY <1>0, <2>3, QuietAlso
  <2> QED BY <1>8, <2>1, <2>4
<1>11. CASE ResendHeldUnknown
  BY <1>0, <1>8, <1>11 DEF ResendHeldUnknown
<1> QED BY <1>1, <1>2, <1>3, <1>4, <1>5, <1>6, <1>7, <1>9, <1>10, <1>11 DEF ResendStep

(* The deletion request. *)
LEMMA WithdrawalSteps ==
  ASSUME Inv, WithdrawalStep
  PROVE  SenderGoes \/ SenderLeaves
<1> USE DEF outside, store, At
<1>0. Quiet(reporter) /\ run \in Progress /\ run.response \in Responses
  BY TaskUnderWay, QuietNow
<1>1. CASE WithdrawalSettled
  <2>1. tail # <<>> /\ run.pc = "idle" /\ LeaveTask /\ UNCHANGED <<core, left, server, storage, calls, answer, reporter>>
    BY <1>1 DEF WithdrawalSettled
  <2> QED BY <1>0, <2>1, Unwaiting DEF SenderLeaves, SenderWaits
<1>2. CASE WithdrawalOffline
  <2> DEFINE c == MarkWithdrawalCall("offline")
  <2>1. /\ tail # <<>> /\ run.pc = "idle" /\ calls' = Append(calls, c)
        /\ run' = [run EXCEPT !.pc = "mark", !.response.kind = "offline"] /\ UNCHANGED <<tail, jobs, jpc>>
        /\ UNCHANGED <<core, left, server, reporter, storage, answer>>
    BY <1>2 DEF WithdrawalOffline, Ask, GoOn
  <2>2. Sendable(c)
    BY MarkCallSent DEF WithdrawalStates
  <2> HIDE DEF c
  <2>3. run' \in Progress /\ run'.pc = "mark" /\ "mark" \in SenderWaits
    BY <1>0, <2>1 DEF Progress, Responses, SenderPlaces, SenderWaits
  <2>4. Free("sender", run.pc, SenderWaits) /\ AnswerRead("sender")
    BY <2>1, Unwaiting DEF SenderWaits
  <2> QED BY <1>0, <2>1, <2>2, <2>3, <2>4, GoesAsking
<1>3. CASE WithdrawalSend
  <2>1. /\ tail # <<>> /\ run.pc = "idle" /\ Head(tail).kind = "withdrawal" /\ GoTo("delete")
        /\ UNCHANGED <<core, left, server, storage, calls, answer, reporter>>
    BY <1>3 DEF WithdrawalSend
  <2>2. run' \in Progress /\ run'.pc = "delete" /\ UNCHANGED <<tail, jobs, jpc>>
    BY <2>1, WentTo DEF SenderPlaces
  <2> QED BY <1>0, <2>1, <2>2, Unwaiting, GoesOn DEF SenderWaits
<1>4. CASE WithdrawalAnswered
  <2>1. PICK outcome \in {"sent", "unconfirmed", "pending"} :
          Ask(MarkWithdrawalCall(outcome)) /\ GoTo("mark")
    BY <1>4 DEF WithdrawalAnswered
  <2>2. tail # <<>> /\ run.pc = "answered" /\ UNCHANGED <<core, left, server, reporter>>
    BY <1>4 DEF WithdrawalAnswered
  <2> DEFINE c == MarkWithdrawalCall(outcome)
  <2>3. Sendable(c) /\ calls' = Append(calls, c) /\ UNCHANGED <<storage, answer>>
    BY <2>1, MarkCallSent DEF WithdrawalStates, Ask
  <2> HIDE DEF c
  <2>4. run' \in Progress /\ run'.pc = "mark" /\ UNCHANGED <<tail, jobs, jpc>> /\ "mark" \in SenderWaits
    BY <2>1, WentTo DEF SenderPlaces, SenderWaits
  <2>5. Free("sender", run.pc, SenderWaits) /\ AnswerRead("sender")
    BY <2>2, <2>3, Unwaiting DEF SenderWaits
  <2> QED BY <1>0, <2>2, <2>3, <2>4, <2>5, GoesAsking
<1>5. CASE WithdrawalMarked
  <2>1. tail # <<>> /\ Takes("sender", {"ok"}) /\ LeaveTask /\ UNCHANGED <<core, left, server, storage, calls>>
    BY <1>5 DEF WithdrawalMarked, Hears
  <2>2. \/ reporter' = Stopped(reporter)
        \/ \E timer \in {"none", "withdrawal"} : reporter' = [reporter EXCEPT !.timer = timer]
    BY <1>5 DEF WithdrawalMarked
  <2>3. Quiet(reporter')
    <3>1. CASE reporter' = Stopped(reporter)
      BY <1>0, <3>1, QuietAlso
    <3>2. CASE \E timer \in {"none", "withdrawal"} : reporter' = [reporter EXCEPT !.timer = timer]
      <4>1. PICK timer \in {"none", "withdrawal"} : reporter' = [reporter EXCEPT !.timer = timer]
        BY <3>2
      <4> QED BY <1>0, <4>1, QuietAlso
    <3> QED BY <2>2, <3>1, <3>2
  <2> QED BY <2>1, <2>3, Heard DEF SenderLeaves
<1>6. CASE WithdrawalUnmarked
  <2>1. tail # <<>> /\ Takes("sender", Errors) /\ LeaveTask /\ UNCHANGED <<core, left, server, reporter, storage, calls>>
    BY <1>6 DEF WithdrawalUnmarked, Hears
  <2>2. "none" \notin Errors
    BY DEF Errors
  <2> QED BY <1>0, <2>1, <2>2, Heard DEF SenderLeaves
<1> QED BY <1>1, <1>2, <1>3, <1>4, <1>5, <1>6 DEF WithdrawalStep

(* The server's answer: what it says it took, it has taken. *)
LEMMA RespondsGoes ==
  ASSUME Inv, run.pc = "post", NEW response \in Responses, NEW taken, NEW doubt, Responds(response, taken, doubt),
         response.kind = "committed" =>
           /\ Uniform(response.rejected)
           /\ Vouched(run.batch, response.rejected, response.accepted, response.duplicates, taken)
  PROVE  SenderGoes
<1>1. /\ run' = [run EXCEPT !.pc = "answered", !.response = response]
      /\ server' = [stored |-> server.stored \cup taken, ingested |-> server.ingested \cup taken, doubt |-> doubt]
      /\ UNCHANGED <<core, storage, calls, answer, reporter, tail, jobs, jpc>>
  BY DEF Responds, store
<1>2. run' \in Progress /\ run'.pc = "answered" /\ run'.batch = run.batch /\ run'.response = response
  BY <1>1, TaskUnderWay DEF Progress, SenderPlaces
<1>3. ServerAnswers /\ server'.ingested = server.ingested \cup taken
  BY <1>1 DEF ServerAnswers
<1>4. AnswerOK'
  BY <1>2, <1>3 DEF AnswerOK, Vouched
<1>5. tail # <<>> /\ Sent /\ "answered" \notin SenderWaits /\ run.pc \notin SenderWaits
  BY DEF Inv, TailOK, Sent, SenderWaits
<1>6. Quiet(reporter') /\ Free("sender", run.pc, SenderWaits) /\ AnswerRead("sender")
  BY <1>1, <1>5, QuietNow, Unwaiting
<1> QED BY <1>1, <1>2, <1>3, <1>4, <1>5, <1>6 DEF SenderGoes

LEMMA ServerSteps ==
  ASSUME Inv, ServerStep
  PROVE  SenderGoes
<1>0. run \in Progress /\ run.batch \in SUBSET EventIds /\ NoResponse \in Responses
  BY TaskUnderWay, NoRunTyped
<1>1. CASE ServerIngests
  <2>1. PICK refused \in SUBSET run.batch, code \in {HostRejection, "ITEM_REFUSED"} :
          Responds([kind |-> "committed", accepted |-> Cardinality((run.batch \ refused) \ server.stored),
                    duplicates |-> Cardinality((run.batch \ refused) \cap server.stored),
                    rejected |-> [id \in refused |-> code]],
                   run.batch \ refused, server.doubt \ run.batch)
    BY <1>1 DEF ServerIngests
  <2> DEFINE kept == run.batch \ refused
             rejected == [id \in refused |-> code]
             response == [kind |-> "committed", accepted |-> Cardinality(kept \ server.stored),
                          duplicates |-> Cardinality(kept \cap server.stored), rejected |-> rejected]
  <2>2. refused \in SUBSET EventIds /\ rejected \in [refused -> {HostRejection, "ITEM_REFUSED"}]
    BY <1>0
  <2>3. rejected \in Refusals /\ Uniform(rejected) /\ DOMAIN rejected = refused
    BY <2>2 DEF Refusals, Uniform
  <2>4. Cardinality(kept \ server.stored) \in Nat /\ Cardinality(kept \cap server.stored) \in Nat
    BY <1>0, FS_Subset, FS_CardinalityType
  <2> HIDE DEF rejected
  <2>5. response \in Responses
    BY <2>3, <2>4 DEF Responses
  <2>6. Vouched(run.batch, response.rejected, response.accepted, response.duplicates, kept)
    BY <2>3 DEF Vouched
  <2>7. run.pc = "post" /\ Responds(response, kept, server.doubt \ run.batch)
    BY <1>1, <2>1 DEF ServerIngests, rejected
  <2>8. Uniform(response.rejected)
    BY <2>3
  <2> HIDE DEF response, kept
  <2> QED BY <2>5, <2>6, <2>7, <2>8, RespondsGoes
<1>2. CASE ServerTroubles
  <2>1. PICK kind \in Unusable \cup {"unknown"}, taken \in {{}, run.batch} :
          Responds([NoResponse EXCEPT !.kind = kind], taken,
                   server.doubt \cup (IF kind = "unknown" THEN run.batch ELSE {}))
    BY <1>2 DEF ServerTroubles
  <2> DEFINE response == [NoResponse EXCEPT !.kind = kind]
  <2>2. response \in Responses /\ response.kind # "committed"
    BY <1>0 DEF Responses, Unusable
  <2>3. run.pc = "post"
    BY <1>2 DEF ServerTroubles
  <2> HIDE DEF response
  <2> QED BY <2>1, <2>2, <2>3, RespondsGoes DEF response
<1>3. CASE ServerMiscounts
  <2>1. PICK taken \in {{}, run.batch} :
          Responds([NoResponse EXCEPT !.kind = "committed", !.accepted = Cardinality(run.batch) + 1],
                   taken, server.doubt)
    BY <1>3 DEF ServerMiscounts
  <2> DEFINE counted == Cardinality(run.batch) + 1
             response == [NoResponse EXCEPT !.kind = "committed", !.accepted = counted]
  <2>2. counted \in Nat
    BY <1>0, FS_Subset, FS_CardinalityType
  <2>3. NoResponse.rejected = NoMarkers /\ NoResponse.duplicates = 0
    BY DEF NoResponse
  <2>4. /\ response \in Responses /\ response.rejected = NoMarkers /\ response.duplicates = 0
        /\ response.accepted = counted
    <3> HIDE DEF counted
    <3>1. response \in Responses
      BY <1>0, <2>2 DEF Responses
    <3>2. response.rejected = NoResponse.rejected
      BY <1>0 DEF Responses
    <3>3. response.duplicates = NoResponse.duplicates
      BY <1>0 DEF Responses
    <3>4. response.accepted = counted
      BY <1>0 DEF Responses
    <3> QED BY <2>3, <3>1, <3>2, <3>3, <3>4
  <2>5. Uniform(NoMarkers)
    <3>1. NoMarkers = [id \in {} |-> HostRejection]
      BY DEF NoMarkers
    <3> QED BY <3>1 DEF Uniform
  <2>6. Vouched(run.batch, response.rejected, response.accepted, response.duplicates, taken)
    <3>1. run.batch \ DOMAIN NoMarkers = run.batch
      BY NoMarkersTyped
    <3>2. Cardinality(run.batch) \in Nat /\ counted = Cardinality(run.batch) + 1
      BY <1>0, FS_Subset, FS_CardinalityType
    <3> HIDE DEF response, counted
    <3>3. response.accepted + response.duplicates # Cardinality(run.batch)
      BY <2>4, <3>2
    <3> QED BY <2>4, <3>1, <3>3 DEF Vouched
  <2>7. run.pc = "post" /\ Responds(response, taken, server.doubt)
    BY <1>3, <2>1 DEF ServerMiscounts
  <2> HIDE DEF response
  <2> QED BY <2>4, <2>5, <2>6, <2>7, RespondsGoes
<1>4. CASE ServerDeletes
  <2>1. PICK kind \in {"deleted", "refused", "lost", "unknown"} :
          run' = [run EXCEPT !.pc = "answered", !.response.kind = kind]
    BY <1>4 DEF ServerDeletes
  <2>2. /\ run.pc = "delete" /\ UNCHANGED <<core, storage, calls, answer, reporter, tail, jobs, jpc>>
        /\ server' = [server EXCEPT !.stored = {}] \/ server' = server
    BY <1>4 DEF ServerDeletes, store
  <2>3. run' \in Progress /\ run'.pc = "answered" /\ run'.response.kind = kind
    BY <1>0, <2>1 DEF Progress, SenderPlaces, Responses, Unusable
  <2>4. AnswerOK'
    BY <2>3 DEF AnswerOK
  <2>5. ServerAnswers
    BY <2>2, TaskUnderWay DEF ServerAnswers
  <2>6. tail # <<>> /\ Head(tail).kind = "withdrawal" /\ ~Carries
    BY <2>2 DEF Inv, TailOK, Carries
  <2>7. Quiet(reporter') /\ Free("sender", run.pc, SenderWaits) /\ AnswerRead("sender")
    BY <2>2, QuietNow, Unwaiting DEF SenderWaits
  <2>8. run'.pc \notin SenderWaits
    BY <2>3 DEF SenderWaits
  <2> QED BY <2>2, <2>3, <2>4, <2>5, <2>6, <2>7, <2>8 DEF SenderGoes
<1> QED BY <1>1, <1>2, <1>3, <1>4 DEF ServerStep

----------------------------------------------------------------------------
(* Every step *)

LEMMA Enqueues ==
  ASSUME Inv, NEW job \in JobKinds, Queued(job), Enqueue(job), Quiet(reporter')
  PROVE  Outside
BY DEF Enqueue, Outside, store

LEMMA LeavesStrands ==
  ASSUME Inv, UNCHANGED <<store, strands, server>>, Quiet(reporter')
  PROVE  Outside
BY DEF Outside, store, strands

LEMMA RecordSteps ==
  ASSUME Inv, RecordCalled
  PROVE  Outside
<1>1. PICK id \in EventIds \ (LoaderIds \cup LegacyIds) : Enqueue(Job("record", {id}))
  BY DEF RecordCalled
<1>2. Job("record", {id}) \in JobKinds /\ Queued(Job("record", {id}))
  BY DEF Job, JobKinds, Queued
<1>3. reporter' = reporter
  BY DEF RecordCalled
<1> QED BY <1>1, <1>2, <1>3, QuietNow, Enqueues

LEMMA ResendJob ==
  ASSUME Inv, NEW ids \in SUBSET EventIds, Enqueue(Job("resend", ids)), reporter' = reporter
  PROVE  Outside
<1>1. Job("resend", ids) \in JobKinds /\ Queued(Job("resend", ids))
  BY DEF Job, JobKinds, Queued
<1> QED BY <1>1, QuietNow, Enqueues

LEMMA PersonSteps ==
  ASSUME Inv, Withhold \/ Grant \/ CoreDetached \/ CoreAttached \/ OriginChanges
  PROVE  Outside
<1>1. Quiet(reporter) /\ Quiet(Stopped(reporter))
  BY QuietNow, QuietAlso
<1>2. \A kind \in {"withheld", "granted", "attach"} :
        Job(kind, {}) \in JobKinds /\ Queued(Job(kind, {}))
  BY DEF Job, JobKinds, Queued
<1>3. CASE Withhold
  BY <1>1, <1>2, <1>3, Enqueues, LeavesStrands DEF Withhold, strands
<1>4. CASE Grant
  BY <1>1, <1>2, <1>4, Enqueues, LeavesStrands DEF Grant
<1>5. CASE CoreDetached
  BY <1>1, <1>5, LeavesStrands DEF CoreDetached
<1>6. CASE CoreAttached
  BY <1>1, <1>2, <1>6, Enqueues DEF CoreAttached
<1>7. CASE OriginChanges
  BY <1>1, <1>7, LeavesStrands DEF OriginChanges
<1> QED BY <1>3, <1>4, <1>5, <1>6, <1>7

LEMMA HeldAreEvents ==
  ASSUME Inv
  PROVE  Held(memory) \subseteq EventIds
BY DEF Inv, GoodOK, Good, IsSnapshot, Held

LEMMA ResendsQueued ==
  ASSUME Inv, ResendCalled
  PROVE  Outside
<1>1. PICK ids \in Selections(Held(memory)) : Enqueue(Job("resend", ids))
  BY DEF ResendCalled
<1>2. ids \in SUBSET EventIds /\ reporter' = reporter
  BY HeldAreEvents DEF Selections, ResendCalled
<1> QED BY <1>1, <1>2, ResendJob

LEMMA NextInv ==
  ASSUME Inv, Next
  PROVE  Inv'
<1>1. CASE StoreStep
  BY <1>1, StoreRunInv, StorePublishInv, StoreEndsInv DEF StoreStep
<1>2. CASE TimerFires
  BY <1>2, TimerFiresInv
<1>3. CASE SenderStep
  BY <1>3, AutomaticSteps, AnswerSteps, ResendSteps, WithdrawalSteps, SenderGoesInv, SenderLeavesInv
     DEF SenderStep
<1>4. CASE ServerStep
  BY <1>4, ServerSteps, SenderGoesInv
<1>5. CASE JobStep
  BY <1>5, JobsGo, JobGoesInv
<1>6. CASE CoreAttached \/ Withhold \/ Grant \/ CoreDetached \/ OriginChanges
  BY <1>6, PersonSteps, OutsideInv
<1>7. CASE RecordCalled \/ ResendCalled
  BY <1>7, RecordSteps, ResendsQueued, OutsideInv
<1>8. CASE BackgroundScan
  BY <1>8, BackgroundScanInv
<1>9. CASE Crash
  BY <1>9, CrashInv
<1> QED BY <1>1, <1>2, <1>3, <1>4, <1>5, <1>6, <1>7, <1>8, <1>9 DEF Next, Environment

----------------------------------------------------------------------------
(* With the panel and the list *)

\* What the panel may select, and has asked for, are events.
ViewOK ==
  /\ view = [mounted |-> view.mounted, load |-> view.load, panel |-> view.panel,
             post |-> view.post, result |-> view.result]
  /\ view.load = [pc |-> view.load.pc, value |-> view.load.value]
  /\ view.post = [pc |-> view.post.pc, ids |-> view.post.ids, behind |-> view.post.behind,
                  value |-> view.post.value]
  /\ view.load.value.events \in SUBSET EventIds
  /\ view.panel.events \in SUBSET EventIds
  /\ view.post.ids \in SUBSET EventIds

LEMMA ClosedView ==
  /\ NoSnapshot.events = {} /\ NoLoad.value = NoSnapshot /\ NoLoad = [pc |-> NoLoad.pc, value |-> NoLoad.value]
  /\ NoPost.ids = {} /\ NoPost = [pc |-> NoPost.pc, ids |-> NoPost.ids, behind |-> NoPost.behind, value |-> NoPost.value]
  /\ Closed = [mounted |-> FALSE, load |-> NoLoad, panel |-> NoSnapshot, post |-> NoPost, result |-> NoResult]
BY DEF NoSnapshot, NoLoad, NoPost, Closed

LEMMA ClientStepView ==
  ASSUME ViewOK, ClientStep
  PROVE  ViewOK'
<1> USE ClosedView
<1>1. CASE Opens
  BY <1>1 DEF Opens, Loading, ViewOK
<1>2. CASE Refreshes
  BY <1>2 DEF Refreshes, Loading, ViewOK
<1>3. CASE Closes
  BY <1>3 DEF Closes, ViewOK
<1>4. CASE LoadArrives
  BY <1>4 DEF LoadArrives, Sees, ViewOK
<1>5. CASE LoadFails
  BY <1>5 DEF LoadFails, ViewOK
<1>6. CASE Clicks
  <2>1. PICK ids \in Selections(Candidates) :
          view' = [view EXCEPT !.post = [NoPost EXCEPT !.pc = "asked", !.ids = ids]]
    BY <1>6 DEF Clicks
  <2>2. ids \in SUBSET EventIds
    BY <2>1 DEF Selections, Candidates, ViewOK
  <2> QED BY <2>1, <2>2 DEF ViewOK
<1>7. CASE PostFails
  BY <1>7 DEF PostFails, ViewOK
<1>8. CASE ReplyArrives
  BY <1>8 DEF ReplyArrives, Sees, ViewOK
<1> QED BY <1>1, <1>2, <1>3, <1>4, <1>5, <1>6, <1>7, <1>8 DEF ClientStep

LEMMA ClientStepOutside ==
  ASSUME Inv, ClientStep
  PROVE  Inv'
<1>1. UNCHANGED <<server, store, reporter, strands>>
  BY DEF ClientStep, Opens, Refreshes, Closes, LoadArrives, LoadFails, Clicks, PostFails, ReplyArrives,
         Sees, vars, outside
<1> QED BY <1>1, QuietNow, LeavesStrands, OutsideInv

LEMMA HostShowsView ==
  ASSUME Inv, ViewOK, HostShows
  PROVE  ViewOK' /\ Inv'
<1>1. view' = [view EXCEPT !.load = [pc |-> "answered", value |-> Snapshot]]
  BY DEF HostShows, Sees
<1>2. Snapshot.events \in SUBSET EventIds
  BY HeldAreEvents DEF Snapshot, Pending, HostRejected
<1>3. UNCHANGED <<store, strands, server>> /\ reporter' = reporter
  BY DEF HostShows, Sees, vars, outside
<1> HIDE DEF Snapshot
<1> QED BY <1>1, <1>2, <1>3, QuietNow, LeavesStrands, OutsideInv DEF ViewOK

LEMMA HostTakesView ==
  ASSUME Inv, ViewOK, HostTakes
  PROVE  ViewOK' /\ Inv'
<1>1. ViewOK'
  BY DEF HostTakes, ViewOK
<1>2. Inv'
  BY ResendJob, OutsideInv DEF HostTakes, ViewOK
<1> QED BY <1>1, <1>2

LEMMA BehindView ==
  ASSUME ViewOK, Behind
  PROVE  ViewOK'
<1> HIDE DEF Answer
<1> QED BY DEF ViewOK, Behind

LEMMA RecordsInv ==
  ASSUME Inv, ViewOK, [RecordsNext]_<<vars, panelVars, list>>
  PROVE  Inv' /\ ViewOK'
<1>1. CASE UNCHANGED <<server, store, reporter, strands, view>>
  BY <1>1, QuietNow, LeavesStrands, OutsideInv DEF ViewOK
<1>2. CASE ListStep
  <2>1. UNCHANGED <<server, store, reporter, strands, view>>
    BY <1>2 DEF ListStep, ListOpens, ListRefreshes, ListCloses, CheckClicked, RowsArrive, RowsLost,
          RemoteArrives, RemoteLost, HostLists, HostReads, ServerLists, ReadFails,
          Acts, Loses, Shows, Others, vars, outside, panelVars
  <2> QED BY <1>1, <2>1
<1>3. CASE ClientStep
  BY <1>3, ClientStepView, ClientStepOutside
<1>4. CASE HostShows \/ HostTakes
  BY <1>4, HostShowsView, HostTakesView
<1>5. CASE HostMoves
  BY <1>5, NextInv, BehindView DEF HostMoves, Next, Environment
<1>6. CASE OthersResend
  BY <1>6, NextInv DEF OthersResend, Next, Environment, ViewOK
<1>7. CASE HostStops
  BY <1>7, NextInv, ClosedView DEF HostStops, Next, Environment, ViewOK
<1> QED BY <1>1, <1>2, <1>3, <1>4, <1>5, <1>6, <1>7 DEF RecordsNext, vars, panelVars, outside

----------------------------------------------------------------------------
(* The buffer is an EventStore *)

\* The operators of the abstract module, imported with it, are those of this one.
LEMMA SameWords ==
  /\ Buffer!EmptySnapshot = EmptySnapshot
  /\ \A s : Buffer!Retire(s) = Retire(s) /\ Buffer!Held(s) = Held(s)
  /\ Buffer!WithdrawalStates = WithdrawalStates /\ Buffer!Markers = Markers
  /\ Buffer!HostRejection = HostRejection /\ Buffer!Unknown = Unknown
  /\ \A S : Buffer!Cardinality(S) = Cardinality(S)
<1>1. Buffer!EmptySnapshot = EmptySnapshot
  BY Zenon DEF EmptySnapshot, NoRows, Buffer!EmptySnapshot, Buffer!NoRows
<1>2. \A s : Buffer!Retire(s) = Retire(s) /\ Buffer!Held(s) = Held(s)
  BY Zenon DEF Retire, Amend, Held, Pending, Retired,
       Buffer!Retire, Buffer!Amend, Buffer!Held, Buffer!Pending, Buffer!Retired
<1>3. /\ Buffer!WithdrawalStates = WithdrawalStates /\ Buffer!Markers = Markers
      /\ Buffer!HostRejection = HostRejection /\ Buffer!Unknown = Unknown
  BY Zenon DEF WithdrawalStates, Markers, Intent, Unknown, HostRejection,
       Buffer!WithdrawalStates, Buffer!Markers, Buffer!Intent, Buffer!Unknown, Buffer!HostRejection
<1>4. \A S : Buffer!Cardinality(S) = Cardinality(S)
  BY Zenon DEF Cardinality, Buffer!Cardinality
<1> QED BY <1>1, <1>2, <1>3, <1>4

LEMMA SamePut ==
  /\ \A s, id, now : Buffer!PutWrites(s, id, now) = PutWrites(s, id, now)
  /\ \A s, id, content, signed, now :
       Buffer!Put(s, id, content, signed, now) = Put(s, id, content, signed, now)
<1>1. \A s, id, now : Buffer!PutWrites(s, id, now) = PutWrites(s, id, now)
  BY Zenon DEF PutWrites, Held, Expired, Terminal, Cardinality,
       Buffer!PutWrites, Buffer!Held, Buffer!Expired, Buffer!Terminal, Buffer!Cardinality
<1>2. \A s, id, content, signed, now :
        Buffer!Put(s, id, content, signed, now) = Put(s, id, content, signed, now)
  BY Zenon DEF Put, Held, Expired, Terminal, NewRow,
       Buffer!Put, Buffer!Held, Buffer!Expired, Buffer!Terminal, Buffer!NewRow
<1> QED BY <1>1, <1>2

LEMMA SameRetained ==
  ASSUME NEW s, NEW drop, NEW now
  PROVE  Buffer!Retained(s, drop, now) = Retained(s, drop, now)
<1>1. Buffer!Retractable(s, drop) = Retractable(s, drop)
  BY Zenon DEF Retractable, Held, Pending, Buffer!Retractable, Buffer!Held, Buffer!Pending
<1> QED BY <1>1, Zenon DEF Retained, Held, Expired, Terminal,
          Buffer!Retained, Buffer!Held, Buffer!Expired, Buffer!Terminal

LEMMA SameScan ==
  ASSUME NEW s, NEW items, NEW inputs, NEW drop, NEW now
  PROVE  /\ UpdateInventoryWrites(s, inputs, drop, now) => Buffer!UpdateInventoryWrites(s, inputs, drop, now)
         /\ Buffer!UpdateInventory(s, items, inputs, drop, now) = UpdateInventory(s, items, inputs, drop, now)
<1>1. UpdateInventoryWrites(s, inputs, drop, now) => Buffer!UpdateInventoryWrites(s, inputs, drop, now)
  BY SameRetained, Zenon DEF UpdateInventoryWrites, Cardinality,
       Buffer!UpdateInventoryWrites, Buffer!Cardinality
<1>2. Buffer!UpdateInventory(s, items, inputs, drop, now) = UpdateInventory(s, items, inputs, drop, now)
  BY SameRetained, Zenon DEF UpdateInventory, NewRow, Buffer!UpdateInventory, Buffer!NewRow
<1> QED BY <1>1, <1>2

LEMMA SameUpload ==
  /\ \A s, ids, accepted, duplicates, rejected :
       Buffer!ApplyUploadWrites(s, ids, accepted, duplicates, rejected)
       = ApplyUploadWrites(s, ids, accepted, duplicates, rejected)
  /\ \A s, ids, accepted, rejected, now :
       Buffer!ApplyUpload(s, ids, accepted, rejected, now) = ApplyUpload(s, ids, accepted, rejected, now)
  /\ \A s, ids : Buffer!ReopenWrites(s, ids) = ReopenWrites(s, ids) /\ Buffer!Reopen(s, ids) = Reopen(s, ids)
<1>1. \A s, ids, accepted, duplicates, rejected :
        Buffer!ApplyUploadWrites(s, ids, accepted, duplicates, rejected)
        = ApplyUploadWrites(s, ids, accepted, duplicates, rejected)
  BY Zenon DEF ApplyUploadWrites, Cardinality, Pending, Held,
       Buffer!ApplyUploadWrites, Buffer!Cardinality, Buffer!Pending, Buffer!Held
<1>2. \A s, ids, accepted, rejected, now :
        Buffer!ApplyUpload(s, ids, accepted, rejected, now) = ApplyUpload(s, ids, accepted, rejected, now)
  BY ZenonT(60) DEF ApplyUpload, Amend, Held, Buffer!ApplyUpload, Buffer!Amend, Buffer!Held
<1>3. \A s, ids : Buffer!ReopenWrites(s, ids) = ReopenWrites(s, ids) /\ Buffer!Reopen(s, ids) = Reopen(s, ids)
  BY Zenon DEF ReopenWrites, Reopen, Reopenable, Held, HostRejection, Amend,
       Buffer!ReopenWrites, Buffer!Reopen, Buffer!Reopenable, Buffer!Held, Buffer!HostRejection, Buffer!Amend
<1> QED BY <1>1, <1>2, <1>3

LEMMA SameMarks ==
  /\ \A s, ids : Buffer!UploadIntentWrites(s, ids) = UploadIntentWrites(s, ids)
  /\ \A s, ids, pending : Buffer!UploadIntent(s, ids, pending) = UploadIntent(s, ids, pending)
  /\ \A s, ids : Buffer!AttemptsWrites(s, ids) = AttemptsWrites(s, ids)
  /\ \A s, ids, code : Buffer!Attempts(s, ids, code) = Attempts(s, ids, code)
  /\ \A s, ids : Buffer!ResendIntentWrites(s, ids) = ResendIntentWrites(s, ids)
  /\ \A s, ids : Buffer!ResendIntent(s, ids) = ResendIntent(s, ids)
  /\ \A s, ids : Buffer!ResendFailureWrites(s, ids) = ResendFailureWrites(s, ids)
  /\ \A s, ids, previous : Buffer!ResendFailure(s, ids, previous) = ResendFailure(s, ids, previous)
<1> USE DEF Held, Pending, Amend, Unknown, Intent,
        Buffer!Held, Buffer!Pending, Buffer!Amend, Buffer!Unknown, Buffer!Intent
<1>1. /\ \A s, ids : Buffer!UploadIntentWrites(s, ids) = UploadIntentWrites(s, ids)
      /\ \A s, ids, pending : Buffer!UploadIntent(s, ids, pending) = UploadIntent(s, ids, pending)
  BY Zenon DEF UploadIntentWrites, UploadIntent, Buffer!UploadIntentWrites, Buffer!UploadIntent
<1>2. /\ \A s, ids : Buffer!AttemptsWrites(s, ids) = AttemptsWrites(s, ids)
      /\ \A s, ids, code : Buffer!Attempts(s, ids, code) = Attempts(s, ids, code)
  BY Zenon DEF AttemptsWrites, Attempts, Buffer!AttemptsWrites, Buffer!Attempts
<1>3. /\ \A s, ids : Buffer!ResendIntentWrites(s, ids) = ResendIntentWrites(s, ids)
      /\ \A s, ids : Buffer!ResendIntent(s, ids) = ResendIntent(s, ids)
  BY Zenon DEF ResendIntentWrites, ResendIntent, Buffer!ResendIntentWrites, Buffer!ResendIntent
<1>4. /\ \A s, ids : Buffer!ResendFailureWrites(s, ids) = ResendFailureWrites(s, ids)
      /\ \A s, ids, previous : Buffer!ResendFailure(s, ids, previous) = ResendFailure(s, ids, previous)
  BY Zenon DEF ResendFailureWrites, ResendFailure, Buffer!ResendFailureWrites, Buffer!ResendFailure
<1> HIDE DEF Held, Pending, Amend, Unknown, Intent,
        Buffer!Held, Buffer!Pending, Buffer!Amend, Buffer!Unknown, Buffer!Intent
<1> QED BY <1>1, <1>2, <1>3, <1>4

LEMMA SameWithdrawal ==
  /\ \A s : Buffer!WithdrawLocal(s) = WithdrawLocal(s)
  /\ \A s : Buffer!MarkWithdrawalWrites(s) = MarkWithdrawalWrites(s)
  /\ \A s, state : Buffer!MarkWithdrawal(s, state) = MarkWithdrawal(s, state)
  /\ \A s : Buffer!ClearWithdrawalWrites(s) = ClearWithdrawalWrites(s)
  /\ \A s : Buffer!ClearWithdrawal(s) = ClearWithdrawal(s)
BY Zenon DEF WithdrawLocal, NoRows, MarkWithdrawalWrites, MarkWithdrawal, ClearWithdrawalWrites,
     ClearWithdrawal, Buffer!WithdrawLocal, Buffer!NoRows, Buffer!MarkWithdrawalWrites,
     Buffer!MarkWithdrawal, Buffer!ClearWithdrawalWrites, Buffer!ClearWithdrawal

\* The oldest call begins its write: what it puts is what the method computes.
Begins(c) ==
  /\ phase = "idle" /\ phase' = "writing" /\ next' = Result(c, memory)
  /\ UNCHANGED <<memory, disk>>

LEMMA BeginsWith ==
  ASSUME NEW c, Begins(c), NEW value, Result(c, memory) = value
  PROVE  Buffer!Begin(value)
BY DEF Begins, Buffer!Begin, SessionTime

LEMMA PutBegins ==
  ASSUME NEW c, CallOK(c), c.op = "put", Admitted(c, memory), Changes(c, memory), Begins(c)
  PROVE  Buffer!Call
<1>1. PICK id \in EventIds \ (LegacyIds \cup LoaderIds) : c.ids = {id}
  BY DEF CallOK
<1>2. Result(c, memory) = Put(memory, id, Fact, TRUE, SessionTime)
  <2>1. (CHOOSE x \in c.ids : TRUE) = id
    BY <1>1
  <2> QED BY <2>1 DEF Result
<1>3. PutWrites(memory, id, SessionTime)
  BY <1>1 DEF Admitted, Changes
<1>4. Buffer!Begin(Buffer!Put(memory, id, Fact, TRUE, SessionTime))
  BY <1>2, SamePut, BeginsWith
<1>5. Buffer!PutEvent(id, Fact)
  BY <1>1, <1>3, <1>4, SamePut DEF Buffer!PutEvent
<1> QED BY <1>1, <1>5, FactIsContent DEF Buffer!Call

LEMMA ScanBegins ==
  ASSUME NEW c, CallOK(c), c.op = "scan", c.ids \cap Held(memory) = {}, Admitted(c, memory), Begins(c)
  PROVE  Buffer!Call
<1> DEFINE inputs == [id \in c.ids |-> Fact]
<1>1. Buffer!UpdateInventoryWrites(memory, inputs, {}, SessionTime)
  BY SameScan DEF Admitted
<1>2. Buffer!Begin(Buffer!UpdateInventory(memory, {}, inputs, {}, SessionTime))
  <2>1. Result(c, memory) = UpdateInventory(memory, {}, inputs, {}, SessionTime)
    BY DEF Result
  <2> HIDE DEF inputs
  <2> QED BY <2>1, SameScan, BeginsWith
<1>3. c.ids \subseteq LoaderIds \ (LegacyIds \cup Buffer!Held(memory))
  BY SameWords DEF CallOK
<1>4. Buffer!ScanInventory({}, c.ids, Fact, {})
  BY <1>1, <1>2, <1>3, Zenon DEF Buffer!ScanInventory
<1>5. /\ {} \in SUBSET Items /\ {} \in SUBSET LoaderIds /\ c.ids \in SUBSET LoaderIds
  BY <1>3
<1> QED BY <1>4, <1>5, FactIsContent, Zenon DEF Buffer!Call

LEMMA ApplyBegins ==
  ASSUME NEW c \in Calling, CallOK(c), c.op = "apply", Admitted(c, memory), Begins(c)
  PROVE  Buffer!Call
<1>1. PICK refused \in SUBSET EventIds, code \in {HostRejection, "ITEM_REFUSED"} :
        c.marks = [id \in refused |-> code]
  BY DEF CallOK, Uniform
<1>2. ApplyUploadWrites(memory, c.ids, c.accepted, c.duplicates, c.marks)
  BY DEF Admitted
<1>3. c.ids \in SUBSET EventIds /\ c.accepted \in Nat /\ c.duplicates \in Nat
  BY DEF Calling
<1>4. /\ c.accepted \in 0..Buffer!Cardinality(EventIds)
      /\ c.duplicates \in 0..Buffer!Cardinality(EventIds)
  <2>1. c.accepted + c.duplicates = Cardinality(c.ids \ DOMAIN c.marks)
    BY <1>2 DEF ApplyUploadWrites
  <2>2. /\ Cardinality(c.ids \ DOMAIN c.marks) \in Nat /\ Cardinality(EventIds) \in Nat
        /\ Cardinality(c.ids \ DOMAIN c.marks) <= Cardinality(EventIds)
    BY <1>3, FS_Subset, FS_CardinalityType
  <2> QED BY <1>3, <2>1, <2>2, SameWords
<1>5. Buffer!Begin(Buffer!ApplyUpload(memory, c.ids, c.accepted, c.marks, SessionTime))
  <2>1. Result(c, memory) = ApplyUpload(memory, c.ids, c.accepted, c.marks, SessionTime)
    BY DEF Result
  <2> QED BY <2>1, SameUpload, BeginsWith
<1>6. Buffer!ApplyUploadWrites(memory, c.ids, c.accepted, c.duplicates, c.marks)
  BY <1>2, SameUpload
<1>7. Buffer!RecordAnswer(c.ids, c.accepted, c.duplicates, refused, code)
  BY <1>1, <1>5, <1>6, Zenon DEF Buffer!RecordAnswer
<1>8. code \in {Buffer!HostRejection, "ITEM_REFUSED"}
  BY <1>1, SameWords
<1>9. \E ids \in SUBSET EventIds, some \in SUBSET EventIds,
         accepted, duplicates \in 0..Buffer!Cardinality(EventIds),
         why \in {Buffer!HostRejection, "ITEM_REFUSED"} :
           Buffer!RecordAnswer(ids, accepted, duplicates, some, why)
  BY <1>1, <1>3, <1>4, <1>7, <1>8
<1> QED BY <1>9 DEF Buffer!Call

LEMMA MarkBegins ==
  ASSUME NEW c \in Calling, CallOK(c), Admitted(c, memory), Begins(c),
         c.op \in {"intent", "undoIntent", "attempts", "resendIntent"} \/ (c.op = "reopen" /\ Changes(c, memory))
  PROVE  Buffer!Call
<1>0. c.ids \in SUBSET EventIds
  BY DEF Calling
<1>1. CASE c.op = "intent"
  <2>1. Buffer!MarkUploadIntent(c.ids, TRUE)
    BY <1>1, SameMarks, BeginsWith DEF Admitted, Result, Buffer!MarkUploadIntent
  <2> QED BY <1>0, <2>1 DEF Buffer!Call
<1>2. CASE c.op = "undoIntent"
  <2>1. Buffer!MarkUploadIntent(c.ids, FALSE)
    BY <1>2, SameMarks, BeginsWith DEF Admitted, Result, Buffer!MarkUploadIntent
  <2> QED BY <1>0, <2>1 DEF Buffer!Call
<1>3. CASE c.op = "attempts"
  <2>1. Buffer!MarkAttempts(c.ids, c.code)
    BY <1>3, SameMarks, BeginsWith DEF Admitted, Result, Buffer!MarkAttempts
  <2>2. c.code \in {"none", Buffer!Unknown}
    BY <1>3, SameWords DEF CallOK
  <2> QED BY <1>0, <2>1, <2>2 DEF Buffer!Call
<1>4. CASE c.op = "resendIntent"
  <2>1. Buffer!MarkResendIntent(c.ids)
    BY <1>4, SameMarks, BeginsWith DEF Admitted, Result, Buffer!MarkResendIntent
  <2> QED BY <1>0, <2>1 DEF Buffer!Call
<1>5. CASE c.op = "reopen" /\ Changes(c, memory)
  <2>1. Buffer!ReopenHostRejected(c.ids)
    BY <1>5, SameUpload, BeginsWith DEF Changes, Result, Buffer!ReopenHostRejected
  <2> QED BY <1>0, <2>1 DEF Buffer!Call
<1> QED BY <1>1, <1>2, <1>3, <1>4, <1>5

(* Only the marks of events of the call count. *)
LEMMA FailureBegins ==
  ASSUME NEW c \in Calling, CallOK(c), c.op = "resendFailure", Admitted(c, memory), Begins(c)
  PROVE  Buffer!Call
<1> DEFINE D == c.ids \cap DOMAIN c.marks
           previous == [id \in D |-> c.marks[id]]
<1>1. PICK U \in SUBSET EventIds : c.marks \in [U -> Markers]
  BY DEF CallOK, Uncertain
<1>2. previous \in [D -> Markers] /\ D \in SUBSET c.ids /\ c.ids \in SUBSET EventIds
  BY <1>1 DEF Calling
<1>3. DOMAIN previous = D /\ \A id \in D : previous[id] = c.marks[id]
  OBVIOUS
<1> HIDE DEF previous
<1>4. ResendFailure(memory, c.ids, c.marks) = ResendFailure(memory, c.ids, previous)
  <2>1. ASSUME NEW id \in c.ids
        PROVE  (IF id \in DOMAIN c.marks THEN c.marks[id] ELSE "none")
               = (IF id \in DOMAIN previous THEN previous[id] ELSE "none")
    BY <1>3
  <2> HIDE DEF D
  <2> DEFINE marked(m) == [id \in c.ids |->
               [memory.rows[id] EXCEPT !.code = IF id \in DOMAIN m THEN m[id] ELSE "none", !.tried = TRUE]]
  <2>2. marked(c.marks) = marked(previous)
    BY <2>1
  <2> QED BY <2>2, Zenon DEF ResendFailure
<1>5. Result(c, memory) = Buffer!ResendFailure(memory, c.ids, previous)
  BY <1>4, SameMarks DEF Result
<1>6. Buffer!MarkResendFailure(c.ids, previous)
  BY <1>5, SameMarks, BeginsWith DEF Admitted, Buffer!MarkResendFailure
<1>7. previous \in Buffer!Markings(c.ids)
  BY <1>2, SameWords DEF Buffer!Markings
<1> QED BY <1>2, <1>6, <1>7, Zenon DEF Buffer!Call

LEMMA WithdrawalBegins ==
  ASSUME NEW c, CallOK(c), c.op \in {"withdrawLocal", "markWithdrawal", "clearWithdrawal"},
         Admitted(c, memory), Changes(c, memory), Begins(c)
  PROVE  Buffer!Call
<1>1. CASE c.op = "withdrawLocal"
  <2>1. Buffer!Withdraw
    BY <1>1, SameWithdrawal, BeginsWith DEF Result, Buffer!Withdraw
  <2> QED BY <2>1 DEF Buffer!Call
<1>2. CASE c.op = "markWithdrawal"
  <2>1. Buffer!AnswerWithdrawal(c.code)
    BY <1>2, SameWithdrawal, BeginsWith DEF Admitted, Result, Buffer!AnswerWithdrawal
  <2>2. c.code \in Buffer!WithdrawalStates \ {"none"}
    BY <1>2, SameWords DEF CallOK
  <2> QED BY <2>1, <2>2 DEF Buffer!Call
<1>3. CASE c.op = "clearWithdrawal"
  <2>1. Buffer!EndWithdrawal
    BY <1>3, SameWithdrawal, BeginsWith DEF Changes, Result, Buffer!EndWithdrawal
  <2> QED BY <2>1 DEF Buffer!Call
<1> QED BY <1>1, <1>2, <1>3

LEMMA StoreRunBegins ==
  ASSUME Inv, StoreRun
  PROVE  Buffer!Call \/ UNCHANGED storage
<1> DEFINE c == Head(calls)
<1>1. /\ calls # <<>> /\ calls \in Seq(Calling) /\ phase = "idle" /\ UNCHANGED <<memory, disk>>
  BY DEF StoreRun, Inv, TypesOK
<1>2. c \in Calling /\ c = calls[1] /\ 1 \in DOMAIN calls
  BY <1>1, Dropped
<1>3. CallOK(c) /\ (c.op = "scan" => c.ids \cap Held(memory) = {})
  BY <1>2 DEF Inv, CallsOK, ScansOK
<1>4. CASE /\ Admitted(c, memory) /\ Changes(c, memory)
           /\ phase' = "writing" /\ next' = Result(c, memory)
  <2>1. Begins(c)
    BY <1>1, <1>4 DEF Begins
  <2>2. c.op \in BufferOps
    BY <1>2 DEF Calling
  <2> HIDE DEF c
  <2> QED BY <1>2, <1>3, <1>4, <2>1, <2>2, PutBegins, ScanBegins, ApplyBegins, MarkBegins,
             FailureBegins, WithdrawalBegins DEF BufferOps
<1>5. CASE UNCHANGED <<phase, next>>
  BY <1>1, <1>5 DEF storage
<1> QED BY <1>4, <1>5 DEF StoreRun

LEMMA StorageSteps ==
  ASSUME Inv, Next
  PROVE  UNCHANGED Buffer!vars \/ Buffer!Next
<1>1. CASE StoreRun
  BY <1>1, StoreRunBegins DEF storage, Buffer!vars, Buffer!Next, SessionTime
<1>2. CASE StorePublish \/ StoreResolve \/ StoreReject
  BY <1>2 DEF StorePublish, StoreResolve, StoreReject, Buffer!Publish, Buffer!Resolve, Buffer!Reject,
        Buffer!Next, SessionTime
<1>3. CASE Crash
  <2>1. Buffer!Retire(disk) = disk
    BY RetireChangesNothing, SameWords DEF Inv, GoodOK
  <2>2. Buffer!Restart
    BY <1>3, <2>1 DEF Crash, Buffer!Restart, SessionTime
  <2> QED BY <2>2 DEF Buffer!Next
<1>4. CASE SenderStep \/ ServerStep
  BY <1>4, AutomaticSteps, AnswerSteps, ResendSteps, WithdrawalSteps, ServerSteps
     DEF SenderStep, SenderGoes, SenderLeaves, storage, Buffer!vars, SessionTime
<1>5. CASE JobStep
  BY <1>5, JobsGo DEF JobGoes, storage, Buffer!vars, SessionTime
<1>6. CASE CoreAttached \/ Withhold \/ Grant \/ CoreDetached \/ OriginChanges \/ RecordCalled \/ ResendCalled
  BY <1>6, PersonSteps, RecordSteps, ResendsQueued DEF Outside, storage, Buffer!vars, SessionTime
<1>7. CASE TimerFires \/ BackgroundScan
  BY <1>7 DEF TimerFires, BackgroundScan, Ask, store, storage, Buffer!vars, SessionTime
<1> QED BY <1>1, <1>2, <1>3, <1>4, <1>5, <1>6, <1>7 DEF Next, StoreStep, Environment

----------------------------------------------------------------------------
(* Theorems *)

Storing == UNCHANGED Buffer!vars \/ Buffer!Next

LEMMA RecordsSteps ==
  ASSUME Inv, ViewOK, [RecordsNext]_<<vars, panelVars, list>>
  PROVE  Storing
<1>1. CASE UNCHANGED storage
  BY <1>1 DEF storage, Storing, Buffer!vars, SessionTime
<1>2. CASE ListStep
  <2>1. UNCHANGED store
    BY <1>2 DEF ListStep, ListOpens, ListRefreshes, ListCloses, CheckClicked, RowsArrive, RowsLost,
          RemoteArrives, RemoteLost, HostLists, HostReads, ServerLists, ReadFails,
          Acts, Loses, Shows, Others, vars
  <2> QED BY <1>1, <2>1 DEF store
<1>3. CASE ClientStep
  <2>1. UNCHANGED store
    BY <1>3 DEF ClientStep, Opens, Refreshes, Closes, LoadArrives, LoadFails, Clicks, PostFails,
          ReplyArrives, Sees, vars
  <2> QED BY <1>1, <2>1 DEF store
<1>4. CASE HostShows \/ HostTakes
  BY <1>1, <1>4 DEF HostShows, HostTakes, Sees, Enqueue, vars, store
<1>5. CASE HostMoves \/ OthersResend \/ HostStops
  BY <1>5, StorageSteps DEF HostMoves, OthersResend, HostStops, Next, Environment, Storing
<1> QED BY <1>1, <1>2, <1>3, <1>4, <1>5 DEF RecordsNext, vars, store

LEMMA BufferInit ==
  ASSUME Init
  PROVE  Buffer!Init
<1>1. Buffer!Retire(EmptySnapshot) = EmptySnapshot
  BY EmptyIsGood, RetireChangesNothing, SameWords
<1>2. Buffer!EmptySnapshot = EmptySnapshot
  BY SameWords
<1> QED BY <1>1, <1>2 DEF Init, Buffer!Init, SessionTime

LEMMA StartsOK ==
  ASSUME RecordsInit
  PROVE  Inv /\ ViewOK /\ Buffer!Init
<1>1. Init /\ view = Closed
  BY DEF RecordsInit, PanelInit
<1> QED BY <1>1, InitInv, BufferInit, ClosedView DEF ViewOK

\* Whatever the person, Core, the network, the disk and the server do, the
\* strands keep to their protocol: a strand waits for one call at a time, a job
\* for one task, and what they pass each other are events.
THEOREM StrandsKeepTheirProtocol == RecordsSpec => [](Inv /\ ViewOK)
<1>1. RecordsInit => Inv /\ ViewOK
  BY StartsOK
<1>2. Inv /\ ViewOK /\ [RecordsNext]_<<vars, panelVars, list>> => (Inv /\ ViewOK)'
  BY RecordsInv
<1> QED BY <1>1, <1>2, PTL DEF RecordsSpec

\* While a request may be under way, the disk marks each of its events
\* (markUploadIntent and markResendIntent, event-store.ts): the next process
\* knows what a crash cut off.
THEOREM MarkedBeforeSent == RecordsSpec => []IntentIsDurable
<1>1. Inv => IntentIsDurable
  BY DEF Inv, TailOK, MarkedOK, Carries, Sent, Marked, IntentIsDurable
<1> QED BY <1>1, StrandsKeepTheirProtocol, PTL

\* What is shown as sent or duplicate, the server took (applyUploadResponse):
\* no answer, however late or wrong, makes up a delivery.
THEOREM ShownAsSentWasTaken == RecordsSpec => []SentWasIngested
<1>1. Inv => SentWasIngested
  BY DEF Inv, TakenOK, Taken, SentWasIngested
<1> QED BY <1>1, StrandsKeepTheirProtocol, PTL

\* The buffer the jobs, the sender, the scans and a crash act on goes only
\* through steps of an EventStore: what is proved of it holds here.
THEOREM BufferIsAnEventStore == RecordsSpec => ImplementsEventStore
<1>1. RecordsInit => Inv /\ ViewOK /\ Buffer!Init
  BY StartsOK
<1>2. Inv /\ ViewOK /\ [RecordsNext]_<<vars, panelVars, list>> => [Storing]_(Buffer!vars)
  BY RecordsSteps
<1>3. RecordsSpec => Buffer!Init /\ [][Storing]_(Buffer!vars)
  BY <1>1, <1>2, StrandsKeepTheirProtocol, PTL DEF RecordsSpec
<1> QED BY <1>3 DEF ImplementsEventStore, Storing

----------------------------------------------------------------------------
(* No event is posted more often than asked for *)

\* The jobs of a queue that will resend an event, and the panel's request for it.
Asking(q, id) == {i \in DOMAIN q : q[i].kind = "resend" /\ id \in q[i].ids}
Requested(id) == IF view.post.pc = "asked" /\ id \in view.post.ids THEN 1 ELSE 0

\* The explicit attempt under way made its try of this event, or gave it up.
Resending == tail # <<>> /\ Head(tail).kind = "resend" /\ run.pc # "idle"
Untried == IF run.pc \in {"next", "intent", "sign"} THEN run.selected ELSE run.selected \ run.batch
Tried(id) == Resending /\ id \in Head(tail).ids \ Untried
Spent(id) == IF Tried(id) THEN 1 ELSE 0

\* A job that resends waits for a task of its own, which tries no event twice.
TaskOK ==
  /\ \A i \in DOMAIN tail : tail[i].kind = "resend" =>
       /\ tail[i].by = "job" /\ jobs # <<>>
       /\ Head(jobs).kind = "resend" /\ Head(jobs).ids = tail[i].ids
  /\ jpc = "reopen" => Head(jobs).kind = "resend"
RunOK == Resending => run.selected \subseteq Head(tail).ids /\ run.batch \subseteq run.selected

\* What was asked for covers what may still be tried.
OwedOK ==
  /\ owed \in [EventIds -> Int]
  /\ \A id \in EventIds : owed[id] >= Cardinality(Asking(jobs, id)) + Requested(id) - Spent(id)

Tries == Inv /\ ViewOK /\ TaskOK /\ RunOK /\ OwedOK

LEMMA AskingFinite ==
  ASSUME NEW S, NEW q \in Seq(S), NEW id
  PROVE  IsFiniteSet(Asking(q, id)) /\ Cardinality(Asking(q, id)) \in Nat
<1>1. DOMAIN q = 1..Len(q) /\ Len(q) \in Nat
  OBVIOUS
<1>2. IsFiniteSet(DOMAIN q)
  BY <1>1, FS_Interval
<1>3. Asking(q, id) \in SUBSET DOMAIN q
  BY DEF Asking
<1>4. IsFiniteSet(Asking(q, id))
  BY <1>2, <1>3, FS_Subset
<1> QED BY <1>4, FS_CardinalityType

(* One more job asks once more at most. *)
LEMMA AskingAppend ==
  ASSUME NEW S, NEW q \in Seq(S), NEW e \in S, NEW id
  PROVE  Cardinality(Asking(Append(q, e), id)) =
           Cardinality(Asking(q, id)) + (IF e.kind = "resend" /\ id \in e.ids THEN 1 ELSE 0)
<1>1. /\ Len(q) \in Nat /\ DOMAIN q = 1..Len(q) /\ DOMAIN Append(q, e) = 1..(Len(q) + 1)
      /\ Append(q, e)[Len(q) + 1] = e /\ \A i \in 1..Len(q) : Append(q, e)[i] = q[i]
  BY Appended
<1>2. Len(q) + 1 \notin Asking(q, id) /\ IsFiniteSet(Asking(q, id))
  <2>1. Len(q) + 1 \notin 1..Len(q) /\ Asking(q, id) \subseteq 1..Len(q)
    BY <1>1 DEF Asking
  <2>2. IsFiniteSet(Asking(q, id))
    BY AskingFinite
  <2> QED BY <2>1, <2>2
<1>3. Asking(Append(q, e), id) =
        IF e.kind = "resend" /\ id \in e.ids THEN Asking(q, id) \cup {Len(q) + 1} ELSE Asking(q, id)
  <2>1. 1..(Len(q) + 1) = 1..Len(q) \cup {Len(q) + 1} /\ Len(q) + 1 \notin 1..Len(q)
    BY <1>1
  <2> QED BY <1>1, <2>1 DEF Asking
<1>4. Cardinality(Asking(q, id) \cup {Len(q) + 1}) = Cardinality(Asking(q, id)) + 1
  BY <1>2, FS_AddElement
<1>5. Cardinality(Asking(q, id)) \in Nat
  BY AskingFinite
<1> QED BY <1>3, <1>4, <1>5

(* The oldest job is over: what it asked for is asked for once less. *)
LEMMA AskingTail ==
  ASSUME NEW S, NEW q \in Seq(S), q # <<>>, NEW id
  PROVE  Cardinality(Asking(Tail(q), id)) <=
           Cardinality(Asking(q, id)) - (IF Head(q).kind = "resend" /\ id \in Head(q).ids THEN 1 ELSE 0)
<1> DEFINE A == Asking(q, id)
           B == Asking(Tail(q), id)
           f == [i \in B |-> i + 1]
<1>1. /\ Len(q) \in Nat /\ DOMAIN q = 1..Len(q) /\ DOMAIN Tail(q) = 1..(Len(q) - 1)
      /\ Head(q) = q[1] /\ 1 \in DOMAIN q /\ Tail(q) \in Seq(S)
      /\ \A i \in 1..(Len(q) - 1) : Tail(q)[i] = q[i + 1]
  BY Dropped
<1>2. B \subseteq 1..(Len(q) - 1)
  BY <1>1 DEF Asking
<1>3. \A i \in B : i + 1 \in A \ {1}
  <2>1. \A i \in 1..(Len(q) - 1) : i + 1 \in 1..Len(q) /\ i + 1 # 1
    BY <1>1
  <2> QED BY <1>1, <1>2, <2>1 DEF Asking
<1>4. \A i, j \in B : i + 1 = j + 1 => i = j
  BY <1>2
<1>5. 1 \in A <=> Head(q).kind = "resend" /\ id \in Head(q).ids
  BY <1>1 DEF Asking
<1>6. IsFiniteSet(A) /\ Cardinality(A) \in Nat /\ Cardinality(B) \in Nat
  BY <1>1, AskingFinite
<1> HIDE DEF A, B
<1>7. f \in Injection(B, A \ {1})
  BY <1>3, <1>4 DEF Injection, IsInjective
<1>8. IsFiniteSet(A \ {1}) /\ Cardinality(A \ {1}) = IF 1 \in A THEN Cardinality(A) - 1 ELSE Cardinality(A)
  BY <1>6, FS_RemoveElement
<1>9. Cardinality(B) <= Cardinality(A \ {1})
  BY <1>7, <1>8, FS_Injection
<1> QED BY <1>5, <1>6, <1>8, <1>9 DEF A, B

(* What is owed never falls short: an attempt is of a job that asks for it. *)
LEMMA TriesCovered ==
  ASSUME Tries
  PROVE  TriesWereAsked
<1>1. jobs \in Seq(JobKinds) /\ tail \in Seq(Tasks)
  BY DEF Tries, Inv, TypesOK
<1>2. ASSUME NEW id \in EventIds
      PROVE  owed[id] >= 0
  <2>1. Cardinality(Asking(jobs, id)) \in Nat /\ IsFiniteSet(Asking(jobs, id))
    BY <1>1, AskingFinite
  <2>2. CASE ~Tried(id)
    BY <2>1, <2>2 DEF Tries, OwedOK, Spent, Requested
  <2>3. CASE Tried(id)
    <3>1. Head(tail) = tail[1] /\ 1 \in DOMAIN tail /\ Head(tail).kind = "resend" /\ id \in Head(tail).ids
      BY <1>1, <2>3, Dropped DEF Tried, Resending
    <3>2. jobs # <<>> /\ Head(jobs).kind = "resend" /\ id \in Head(jobs).ids
      BY <3>1 DEF Tries, TaskOK
    <3>3. 1 \in Asking(jobs, id)
      BY <1>1, <3>2, Dropped DEF Asking
    <3>4. Cardinality(Asking(jobs, id)) # 0
      BY <2>1, <3>3, FS_EmptySet
    <3> QED BY <2>1, <3>4 DEF Tries, OwedOK, Spent, Requested
  <2> QED BY <2>2, <2>3
<1> QED BY <1>2 DEF TriesWereAsked

----------------------------------------------------------------------------
(* The steps of a task that resends *)

\* The task under way goes on: what it tried it has tried, and it tries anew
\* only what it had not.
Tracks ==
  /\ run'.pc # "idle" /\ run'.selected \subseteq Head(tail).ids /\ run'.batch \subseteq run'.selected
  /\ \A id \in EventIds : (Tried(id) \/ id \in Attempted => Tried(id)') /\ ~(Tried(id) /\ id \in Attempted)

SenderMoves ==
  /\ tail # <<>>
  /\ \/ LeaveTask /\ Attempted = {}
     \/ UNCHANGED <<tail, jobs, jpc>> /\ (Head(tail).kind = "resend" => Tracks)

LEMMA NoRunTriesNothing == NoRun.pc = "idle" /\ NoRun.batch = {} /\ NoRun.selected = {}
BY DEF NoRun

(* A batch that is taken up, signed, posted, answered for or recorded. *)
LEMMA SameBatch ==
  ASSUME RunOK, Resending, UNCHANGED tail, NEW pc \in SenderPlaces, run.pc # pc, run \in Progress,
         run'.pc = pc, run'.selected = run.selected, run'.batch = run.batch,
         pc # "idle", pc \in {"next", "intent", "sign"} => run.pc \in {"next", "intent", "sign"}
  PROVE  Tracks
<1>1. run.selected \subseteq Head(tail).ids /\ run.batch \subseteq run.selected
  BY DEF RunOK
<1>2. Resending'
  BY DEF Resending
<1> QED BY <1>1, <1>2 DEF Tracks, Tried, Untried, Attempted, At

LEMMA NewBatch ==
  ASSUME RunOK, Resending, UNCHANGED tail, run.pc = "next", run'.pc = "intent",
         run'.selected = run.selected, run'.batch \subseteq run.selected
  PROVE  Tracks
<1>1. run.selected \subseteq Head(tail).ids
  BY DEF RunOK
<1>2. Resending'
  BY DEF Resending
<1> QED BY <1>1, <1>2 DEF Tracks, Tried, Untried, Attempted, At

LEMMA NextBatch ==
  ASSUME RunOK, Resending, UNCHANGED tail, run.pc \in {"apply", "fail", "hold"}, run'.pc = "next",
         run'.selected = run.selected \ run.batch, run'.batch = {}
  PROVE  Tracks
<1>1. run.selected \subseteq Head(tail).ids
  BY DEF RunOK
<1>2. Resending'
  BY DEF Resending
<1> QED BY <1>1, <1>2 DEF Tracks, Tried, Untried, Attempted, At

LEMMA FirstBatch ==
  ASSUME UNCHANGED tail, run.pc = "idle", run'.pc = "next", run'.selected = Head(tail).ids, run'.batch = {}
  PROVE  Tracks
BY DEF Tracks, Tried, Untried, Attempted, At, Resending

(* The explicit sender: each of its steps. *)
LEMMA ResendMoves ==
  ASSUME Tries, ResendStep
  PROVE  SenderMoves
<1> USE DEF At
<1>0. RunOK /\ run \in Progress
  BY TaskUnderWay DEF Tries
<1>1. ASSUME LeaveTask PROVE Attempted = {}
  BY <1>1, NoRunTriesNothing DEF LeaveTask, Attempted
<1>2. CASE ResendRefused \/ ResendOver \/ ResendPersistenceFailure
  BY <1>1, <1>2 DEF ResendRefused, ResendOver, ResendPersistenceFailure, SenderMoves
<1>3. CASE ResendAccepted
  <2>1. tail # <<>> /\ run.pc = "idle"
    BY <1>3 DEF ResendAccepted
  <2>2. CASE GoOn([NoRun EXCEPT !.pc = "next", !.selected = Head(tail).ids])
    <3>1. /\ UNCHANGED <<tail, jobs, jpc>>
          /\ run'.pc = "next" /\ run'.selected = Head(tail).ids /\ run'.batch = {}
      BY <2>2 DEF GoOn, NoRun
    <3> QED BY <2>1, <3>1, FirstBatch DEF SenderMoves
  <2> QED BY <1>1, <1>3, <2>1, <2>2 DEF ResendAccepted, SenderMoves
<1>4. CASE ResendBatch
  <2>1. tail # <<>> /\ Resending /\ run.pc = "next"
    BY <1>4 DEF ResendBatch, Resending
  <2>2. PICK b \in Batches(run.selected \cap Pending(memory)) :
          GoOn([run EXCEPT !.pc = "intent", !.batch = b,
                     !.previous = [id \in b \cap DOMAIN reporter.unconfirmed |-> reporter.unconfirmed[id]]])
    BY <1>4 DEF ResendBatch
  <2>3. /\ UNCHANGED <<tail, jobs, jpc>> /\ b \subseteq run.selected
        /\ run'.pc = "intent" /\ run'.selected = run.selected /\ run'.batch = b
    BY <1>0, <2>2 DEF GoOn, Batches, Progress
  <2> QED BY <1>0, <2>1, <2>3, NewBatch DEF SenderMoves
<1>5. ASSUME NEW pc \in {"sign", "post"}, GoTo(pc), tail # <<>>, Head(tail).kind = "resend",
             run.pc \in {"intent", "sign"}, run.pc # pc
      PROVE  SenderMoves
  <2>1. /\ UNCHANGED <<tail, jobs, jpc>>
        /\ run'.pc = pc /\ run'.selected = run.selected /\ run'.batch = run.batch
    BY <1>0, <1>5 DEF GoTo, GoOn, Progress
  <2>2. Resending /\ pc \in SenderPlaces
    BY <1>5 DEF Resending, SenderPlaces
  <2> QED BY <1>0, <1>5, <2>1, <2>2, SameBatch DEF SenderMoves
<1>6. CASE ResendIntentKept
  BY <1>1, <1>5, <1>6 DEF ResendIntentKept, SenderMoves
<1>7. CASE ResendPost
  BY <1>1, <1>5, <1>7 DEF ResendPost, SenderMoves
<1>8. ASSUME NEW r, ResendNext(r), tail # <<>>, Head(tail).kind = "resend", run.pc \in {"apply", "fail", "hold"}
      PROVE  SenderMoves
  <2>1. /\ UNCHANGED <<tail, jobs, jpc>> /\ Resending
        /\ run'.pc = "next" /\ run'.selected = run.selected \ run.batch /\ run'.batch = {}
    BY <1>8 DEF ResendNext, GoOn, NoRun, Resending
  <2> QED BY <1>0, <1>8, <2>1, NextBatch DEF SenderMoves
<1>9. CASE ResendApplied \/ ResendFailed \/ ResendHeldUnknown
  BY <1>8, <1>9 DEF ResendApplied, ResendFailed, ResendHeldUnknown
<1> QED BY <1>2, <1>3, <1>4, <1>6, <1>7, <1>9 DEF ResendStep

(* An answer, or its want: the batch stays what it was. *)
LEMMA AnswerMoves ==
  ASSUME Tries, AnswerStep \/ ServerStep
  PROVE  SenderMoves
<1>0. RunOK /\ run \in Progress
  BY TaskUnderWay DEF Tries
<1>1. ASSUME NEW pc \in {"fail", "apply", "hold"}, GoTo(pc), Sending("sign") \/ Sending("answered") \/ Sending("apply"),
             run.pc # pc
      PROVE  SenderMoves
  <2>1. /\ UNCHANGED <<tail, jobs, jpc>> /\ tail # <<>> /\ run.pc # "idle"
        /\ run'.pc = pc /\ run'.selected = run.selected /\ run'.batch = run.batch
    BY <1>0, <1>1 DEF GoTo, GoOn, Progress, Sending, At
  <2>2. pc \in SenderPlaces
    BY DEF SenderPlaces, SenderWaits
  <2>3. Head(tail).kind = "resend" => Resending
    BY <2>1 DEF Resending
  <2> QED BY <1>0, <1>1, <2>1, <2>2, <2>3, SameBatch DEF SenderMoves
<1>2. CASE AnswerStep
  BY <1>1, <1>2 DEF AnswerStep, SignFails, AnswerCommitted, AnswerUnknown, AnswerUnusable, AnswerMiscounted, Sending, At
<1>3. CASE ServerStep
  <2>1. /\ UNCHANGED <<tail, jobs, jpc>> /\ run.pc \in {"post", "delete"}
        /\ run'.pc = "answered" /\ run'.selected = run.selected /\ run'.batch = run.batch
    <3>1. ASSUME NEW response, NEW taken, NEW doubt, Responds(response, taken, doubt)
          PROVE  /\ UNCHANGED <<tail, jobs, jpc>>
                 /\ run'.pc = "answered" /\ run'.selected = run.selected /\ run'.batch = run.batch
      BY <1>0, <3>1 DEF Responds, Progress
    <3>2. CASE ServerIngests \/ ServerTroubles \/ ServerMiscounts
      BY <3>1, <3>2 DEF ServerIngests, ServerTroubles, ServerMiscounts
    <3>3. CASE ServerDeletes
      BY <1>0, <3>3 DEF ServerDeletes, Progress
    <3> QED BY <1>3, <3>2, <3>3 DEF ServerStep
  <2>2. tail # <<>>
    BY <2>1 DEF Tries, Inv, TailOK
  <2>3. Head(tail).kind = "resend" => Resending
    BY <2>1, <2>2 DEF Resending
  <2>4. "answered" \in SenderPlaces
    BY DEF SenderPlaces
  <2> QED BY <1>0, <2>1, <2>2, <2>3, <2>4, SameBatch DEF SenderMoves
<1> QED BY <1>2, <1>3

(* The automatic sender and the deletion try no event that was selected. *)
LEMMA OthersMove ==
  ASSUME Tries, AutomaticStep \/ WithdrawalStep
  PROVE  SenderMoves
<1>1. ASSUME LeaveTask PROVE Attempted = {}
  BY <1>1, NoRunTriesNothing DEF LeaveTask, Attempted
<1>2. tail # <<>> /\ Head(tail).kind \in {"run", "withdrawal"}
  BY DEF AutomaticStep, RunGated, RunUnregistered, RunBegin, RunSettingsFail, RunSettingsOk,
         RunIntentLost, RunIntentKept, RunIntentTakenBack, RunUndone, RunPersistenceFailure, RunPost,
         RunApplied, RunFailed, RunHeldUnknown, WithdrawalStep, WithdrawalSettled, WithdrawalOffline,
         WithdrawalSend, WithdrawalAnswered, WithdrawalMarked, WithdrawalUnmarked, At
<1>3. CASE AutomaticStep
  <2>1. LeaveTask \/ UNCHANGED <<tail, jobs, jpc>>
    BY <1>3 DEF AutomaticStep, RunGated, RunUnregistered, RunBegin, RunSettingsFail, RunSettingsOk,
         RunIntentLost, RunIntentKept, RunIntentTakenBack, RunUndone, RunPersistenceFailure, RunPost,
         RunApplied, RunFailed, RunHeldUnknown, EndRun, EndRunBackoff, GoTo, GoOn
  <2> QED BY <1>1, <1>2, <2>1 DEF SenderMoves
<1>4. CASE WithdrawalStep
  <2>1. LeaveTask \/ UNCHANGED <<tail, jobs, jpc>>
    BY <1>4 DEF WithdrawalStep, WithdrawalSettled, WithdrawalOffline, WithdrawalSend, WithdrawalAnswered,
         WithdrawalMarked, WithdrawalUnmarked, GoTo, GoOn
  <2> QED BY <1>1, <1>2, <2>1 DEF SenderMoves
<1> QED BY <1>3, <1>4

----------------------------------------------------------------------------
(* What each step does to what is owed *)

\* A task that resends is of the job under way: without one, nothing is tried.
LEMMA NothingTried ==
  ASSUME Tries, tail = <<>> \/ Head(tail).kind # "resend" \/ jpc # "task" \/ run.pc = "idle", NEW id
  PROVE  ~Tried(id)
<1>1. SUFFICES ASSUME Tried(id) PROVE FALSE
  OBVIOUS
<1>2. tail \in Seq(Tasks) /\ tail # <<>> /\ Head(tail).kind = "resend" /\ run.pc # "idle"
  BY <1>1 DEF Tried, Resending, Tries, Inv, TypesOK
<1>3. Head(tail) = tail[1] /\ 1 \in DOMAIN tail
  BY <1>2, Dropped
<1>4. Head(tail).by = "job"
  BY <1>2, <1>3 DEF Tries, TaskOK
<1> QED BY <1>2, <1>3, <1>4 DEF Tries, Inv, TailOK, No

\* The sums, event by event.
LEMMA Balanced ==
  ASSUME Tries, Inv', owed' \in [EventIds -> Int],
         \A id \in EventIds :
           owed'[id] - owed[id] >=
             (Cardinality(Asking(jobs', id)) - Cardinality(Asking(jobs, id)))
             + (Requested(id)' - Requested(id)) - (Spent(id)' - Spent(id))
  PROVE  OwedOK'
<1>1. jobs \in Seq(JobKinds) /\ jobs' \in Seq(JobKinds)
  BY DEF Tries, Inv, TypesOK
<1>2. ASSUME NEW id \in EventIds
      PROVE  owed'[id] >= Cardinality(Asking(jobs', id)) + Requested(id)' - Spent(id)'
  <2>1. Cardinality(Asking(jobs, id)) \in Nat /\ Cardinality(Asking(jobs', id)) \in Nat
    BY <1>1, AskingFinite
  <2>2. Requested(id) \in {0, 1} /\ Requested(id)' \in {0, 1} /\ Spent(id) \in {0, 1} /\ Spent(id)' \in {0, 1}
    BY DEF Requested, Spent
  <2>3. owed[id] \in Int /\ owed'[id] \in Int
    BY DEF Tries, OwedOK
  <2>4. owed[id] >= Cardinality(Asking(jobs, id)) + Requested(id) - Spent(id)
    BY DEF Tries, OwedOK
  <2> DEFINE n == Cardinality(Asking(jobs, id))
             m == Cardinality(Asking(jobs', id))
             p == Requested(id)
             q == Requested(id)'
             s == Spent(id)
             t == Spent(id)'
  <2>5. /\ n \in Nat /\ m \in Nat /\ p \in {0, 1} /\ q \in {0, 1} /\ s \in {0, 1} /\ t \in {0, 1}
        /\ owed[id] >= n + p - s /\ owed'[id] - owed[id] >= (m - n) + (q - p) - (t - s)
    BY <2>1, <2>2, <2>4
  <2> HIDE DEF n, m, p, q, s, t
  <2>6. owed'[id] >= m + q - t
    BY <2>3, <2>5
  <2> QED BY <2>6 DEF m, q, t
<1> QED BY <1>2 DEF OwedOK

\* The strands rest: what was asked for may only become less.
Rests == UNCHANGED <<jobs, jpc, tail, run>>
LessRequested == \A id \in EventIds : Requested(id)' <= Requested(id)

LEMMA RestsTries ==
  ASSUME Tries, Inv', Rests, LessRequested, owed' = owed
  PROVE  TaskOK' /\ RunOK' /\ OwedOK'
<1>1. UNCHANGED <<jobs, jpc, tail, run>>
  BY DEF Rests
<1>2. TaskOK' /\ RunOK'
  BY <1>1 DEF Tries, TaskOK, RunOK, Resending
<1>3. ASSUME NEW id \in EventIds
      PROVE  owed'[id] - owed[id] >=
             (Cardinality(Asking(jobs', id)) - Cardinality(Asking(jobs, id)))
             + (Requested(id)' - Requested(id)) - (Spent(id)' - Spent(id))
  <2>1. Spent(id)' = Spent(id) /\ Asking(jobs', id) = Asking(jobs, id)
    BY <1>1 DEF Spent, Tried, Untried, Resending
  <2>2. Cardinality(Asking(jobs, id)) \in Nat /\ Spent(id) \in {0, 1} /\ owed[id] \in Int
    BY AskingFinite DEF Spent, Tries, OwedOK, Inv, TypesOK
  <2>3. Requested(id)' <= Requested(id) /\ Requested(id) \in {0, 1} /\ Requested(id)' \in {0, 1}
    BY DEF LessRequested, Requested
  <2> QED BY <2>1, <2>2, <2>3
<1>4. OwedOK'
  BY <1>3, Balanced DEF Tries, OwedOK
<1> QED BY <1>2, <1>4

\* A job joins the queue.  If it resends, it was asked for.
Joins(job) == jobs' = Append(jobs, job) /\ UNCHANGED <<jpc, tail, run>>

LEMMA JoinsTries ==
  ASSUME Tries, Inv', NEW job \in JobKinds, Joins(job), owed' \in [EventIds -> Int],
         \A id \in EventIds :
           owed'[id] - owed[id] + Requested(id) - Requested(id)' >=
             IF job.kind = "resend" /\ id \in job.ids THEN 1 ELSE 0
  PROVE  TaskOK' /\ RunOK' /\ OwedOK'
<1>1. UNCHANGED <<jpc, tail, run>> /\ jobs' = Append(jobs, job) /\ jobs \in Seq(JobKinds)
  BY DEF Joins, Tries, Inv, TypesOK
<1>2. jobs' # <<>> /\ (jobs # <<>> => Head(jobs') = Head(jobs))
  BY <1>1, Appended
<1>3. TaskOK' /\ RunOK'
  BY <1>1, <1>2 DEF Tries, TaskOK, RunOK, Resending, Inv, JobsOK
<1>4. ASSUME NEW id \in EventIds
      PROVE  owed'[id] - owed[id] >=
             (Cardinality(Asking(jobs', id)) - Cardinality(Asking(jobs, id)))
             + (Requested(id)' - Requested(id)) - (Spent(id)' - Spent(id))
  <2> DEFINE more == IF job.kind = "resend" /\ id \in job.ids THEN 1 ELSE 0
  <2>1. Spent(id)' = Spent(id)
    BY <1>1 DEF Spent, Tried, Untried, Resending
  <2>2. Cardinality(Asking(jobs', id)) = Cardinality(Asking(jobs, id)) + more /\ more \in {0, 1}
    BY <1>1, AskingAppend
  <2>3. Cardinality(Asking(jobs, id)) \in Nat /\ Spent(id) \in {0, 1} /\ owed[id] \in Int /\ owed'[id] \in Int
    BY <1>1, AskingFinite DEF Spent, Tries, OwedOK
  <2>4. Requested(id) \in {0, 1} /\ Requested(id)' \in {0, 1}
    BY DEF Requested
  <2>5. owed'[id] - owed[id] + Requested(id) - Requested(id)' >= more
    OBVIOUS
  <2> HIDE DEF more
  <2> QED BY <2>1, <2>2, <2>3, <2>4, <2>5
<1>5. OwedOK'
  BY <1>4, Balanced
<1> QED BY <1>3, <1>5

(* The head of the tail goes on or leaves, with the job it was of. *)
LEMMA SenderTries ==
  ASSUME Tries, Inv', SenderMoves, \A id \in EventIds : Requested(id)' = Requested(id),
         owed' = [id \in EventIds |-> owed[id] - IF id \in Attempted THEN 1 ELSE 0]
  PROVE  TaskOK' /\ RunOK' /\ OwedOK'
<1>0. /\ jobs \in Seq(JobKinds) /\ tail \in Seq(Tasks) /\ tail # <<>> /\ owed' \in [EventIds -> Int]
      /\ \A id \in EventIds : owed'[id] = owed[id] - (IF id \in Attempted THEN 1 ELSE 0) /\ owed[id] \in Int
  BY DEF Tries, Inv, TypesOK, SenderMoves, OwedOK
<1>1. Head(tail) = tail[1] /\ 1 \in DOMAIN tail
  BY <1>0, Dropped
<1>2. CASE LeaveTask /\ Attempted = {}
  <2>1. /\ tail' = Tail(tail) /\ run'.pc = "idle"
        /\ IF Head(tail).by = "job" THEN jobs' = Tail(jobs) /\ jpc' = "idle" ELSE UNCHANGED <<jobs, jpc>>
    BY <1>2, NoRunTriesNothing DEF LeaveTask, EndJob
  <2>2. One(tail, "job") /\ (Head(tail).by = "job" => No(tail', "job"))
    BY <1>0, <2>1, OneTail DEF Tries, Inv, TailOK
  <2>3. Head(tail).by = "job" => jpc = "task" /\ jobs # <<>>
    BY <1>1 DEF Tries, Inv, TailOK, JobsOK, No
  <2>4. \A i \in DOMAIN tail' : \E k \in DOMAIN tail : tail'[i] = tail[k]
    BY <1>0, <2>1, Entries
  <2>5. RunOK' /\ \A id \in EventIds : ~Tried(id)'
    BY <2>1 DEF RunOK, Tried, Resending
  <2>6. TaskOK'
    <3>1. CASE Head(tail).by = "job"
      BY <2>1, <2>2, <2>4, <3>1 DEF TaskOK, Tries, No
    <3>2. CASE Head(tail).by # "job"
      BY <2>1, <2>4, <3>2 DEF TaskOK, Tries
    <3> QED BY <3>1, <3>2
  <2>7. ASSUME NEW id \in EventIds
        PROVE  owed'[id] - owed[id] >=
               (Cardinality(Asking(jobs', id)) - Cardinality(Asking(jobs, id)))
               + (Requested(id)' - Requested(id)) - (Spent(id)' - Spent(id))
    <3> DEFINE n == Cardinality(Asking(jobs, id))
               m == Cardinality(Asking(jobs', id))
    <3>1. n \in Nat /\ m \in Nat /\ Requested(id) \in {0, 1} /\ Requested(id)' = Requested(id)
      BY <1>0, AskingFinite DEF Requested, Inv, TypesOK
    <3>2. owed'[id] = owed[id] /\ owed[id] \in Int /\ Spent(id)' = 0
      BY <1>0, <1>2, <2>5 DEF Spent
    <3>3. CASE Head(tail).by = "job"
      <4>1. jobs' = Tail(jobs) /\ jobs # <<>>
        BY <2>1, <2>3, <3>3
      <4>2. m <= n - (IF Head(jobs).kind = "resend" /\ id \in Head(jobs).ids THEN 1 ELSE 0)
        BY <1>0, <4>1, AskingTail
      <4>3. Spent(id) <= IF Head(jobs).kind = "resend" /\ id \in Head(jobs).ids THEN 1 ELSE 0
        BY <1>1 DEF Spent, Tried, Resending, Tries, TaskOK
      <4>4. Spent(id) \in {0, 1}
        BY DEF Spent
      <4> HIDE DEF n, m
      <4>5. m - n <= 0 - Spent(id)
        BY <3>1, <4>2, <4>3, <4>4
      <4> QED BY <3>1, <3>2, <4>4, <4>5 DEF n, m
    <3>4. CASE Head(tail).by # "job"
      <4>1. Spent(id) = 0 /\ m = n
        BY <1>1, <2>1, <3>4 DEF Spent, Tried, Resending, Tries, TaskOK
      <4> QED BY <3>1, <3>2, <4>1
    <3> QED BY <3>3, <3>4
  <2> QED BY <1>0, <2>5, <2>6, <2>7, Balanced
<1>3. CASE UNCHANGED <<tail, jobs, jpc>> /\ (Head(tail).kind = "resend" => Tracks)
  <2>1. TaskOK'
    BY <1>3 DEF TaskOK, Tries
  <2>2. RunOK'
    BY <1>3 DEF RunOK, Resending, Tracks
  <2>3. ASSUME NEW id \in EventIds
        PROVE  owed'[id] - owed[id] >=
               (Cardinality(Asking(jobs', id)) - Cardinality(Asking(jobs, id)))
               + (Requested(id)' - Requested(id)) - (Spent(id)' - Spent(id))
    <3>1. (Tried(id) \/ id \in Attempted => Tried(id)') /\ ~(Tried(id) /\ id \in Attempted)
      <4>1. CASE Head(tail).kind = "resend"
        BY <1>3, <4>1 DEF Tracks
      <4>2. CASE Head(tail).kind # "resend"
        BY <4>2 DEF Tried, Resending, Attempted, At
      <4> QED BY <4>1, <4>2
    <3>2. Spent(id)' - Spent(id) >= IF id \in Attempted THEN 1 ELSE 0
      BY <3>1 DEF Spent
    <3>3. Spent(id) \in {0, 1} /\ Spent(id)' \in {0, 1}
      BY DEF Spent
    <3>4. Cardinality(Asking(jobs, id)) \in Nat /\ jobs' = jobs /\ Requested(id) \in {0, 1}
          /\ Requested(id)' = Requested(id)
      BY <1>0, <1>3, AskingFinite DEF Requested
    <3> QED BY <1>0, <3>2, <3>3, <3>4
  <2> QED BY <1>0, <2>1, <2>2, <2>3, Balanced
<1> QED BY <1>2, <1>3 DEF SenderMoves

\* A job that is not waiting for its task goes on, or is over.
JobMoves ==
  /\ jobs # <<>> /\ jpc # "task" /\ UNCHANGED run
  /\ \/ UNCHANGED tail /\ (jobs' = jobs \/ (jobs' = Tail(jobs) /\ jpc' # "reopen"))
        /\ (jpc' = "reopen" => Head(jobs).kind = "resend")
     \/ /\ UNCHANGED jobs /\ jpc' = "task"
        /\ \E task \in Tasks : tail' = Append(tail, task) /\ task.by = "job" /\
             (task.kind = "resend" => Head(jobs).kind = "resend" /\ task.ids = Head(jobs).ids)

LEMMA JobsMove ==
  ASSUME Tries, JobStep
  PROVE  JobMoves
<1> USE DEF Await, EndJob, NextJob, JobMoves
<1>0. jpc # "idle" => jobs # <<>>
  BY DEF Tries, Inv, JobsOK
<1>1. CASE JobWithheld \/ JobScans \/ JobStarts \/ JobClears \/ JobCleared
  BY <1>0, <1>1 DEF JobWithheld, JobScans, JobStarts, JobClears, JobCleared, ScanOver
<1>2. ASSUME RequestDeletion, jpc \in {"tail", "local"}
      PROVE  JobMoves
  <2>1. Task("withdrawal", "job", {}) \in Tasks /\ Task("withdrawal", "job", {}).by = "job"
        /\ Task("withdrawal", "job", {}).kind = "withdrawal"
    BY DEF Task, Tasks
  <2> QED BY <1>0, <1>2, <2>1 DEF RequestDeletion
<1>3. CASE JobWithdraw
  BY <1>0, <1>2, <1>3 DEF JobWithdraw
<1>4. CASE JobWithdrawn
  BY <1>0, <1>2, <1>4 DEF JobWithdrawn
<1>5. CASE JobRecords \/ JobRecorded
  BY <1>0, <1>5 DEF JobRecords, JobRecorded
<1>6. CASE JobReopens
  BY <1>0, <1>6 DEF JobReopens
<1>7. CASE JobResends
  <2>1. jpc = "reopen" /\ jobs # <<>> /\ UNCHANGED run /\ Head(jobs).kind = "resend"
    BY <1>0, <1>7 DEF JobResends, Tries, TaskOK
  <2>2. Task("resend", "job", Head(jobs).ids) \in Tasks /\ Task("resend", "job", Head(jobs).ids).by = "job"
        /\ Task("resend", "job", Head(jobs).ids).ids = Head(jobs).ids
    BY <2>1, JobUnderWay DEF Task, Tasks, Tries
  <2> QED BY <1>7, <2>1, <2>2 DEF JobResends
<1> QED BY <1>1, <1>3, <1>4, <1>5, <1>6, <1>7 DEF JobStep

LEMMA JobTries ==
  ASSUME Tries, Inv', JobMoves, \A id \in EventIds : Requested(id)' = Requested(id), owed' = owed
  PROVE  TaskOK' /\ RunOK' /\ OwedOK'
<1>0. jobs \in Seq(JobKinds) /\ tail \in Seq(Tasks) /\ jobs # <<>> /\ jpc # "task" /\ UNCHANGED run
  BY DEF Tries, Inv, TypesOK, JobMoves
<1>1. No(tail, "job") /\ \A i \in DOMAIN tail : tail[i].kind # "resend"
  BY <1>0 DEF Tries, Inv, TailOK, TaskOK, No
<1>2. ~Resending /\ (tail # <<>> => Head(tail).kind # "resend") /\ (run.pc # "idle" => tail # <<>>)
  BY <1>0, <1>1, Dropped DEF Resending, Tries, Inv, TailOK
<1>3. TaskOK'
  <2>1. CASE UNCHANGED tail /\ (jobs' = jobs \/ (jobs' = Tail(jobs) /\ jpc' # "reopen"))
             /\ (jpc' = "reopen" => Head(jobs).kind = "resend")
    BY <1>1, <2>1 DEF TaskOK
  <2>2. CASE /\ UNCHANGED jobs /\ jpc' = "task"
             /\ \E task \in Tasks : tail' = Append(tail, task) /\ task.by = "job" /\
                  (task.kind = "resend" => Head(jobs).kind = "resend" /\ task.ids = Head(jobs).ids)
    <3>1. PICK task \in Tasks : tail' = Append(tail, task) /\ task.by = "job" /\
                  (task.kind = "resend" => Head(jobs).kind = "resend" /\ task.ids = Head(jobs).ids)
      BY <2>2
    <3>2. \A i \in DOMAIN tail' : tail'[i] = task \/ \E k \in DOMAIN tail : tail'[i] = tail[k]
      BY <1>0, <3>1, Entries
    <3> QED BY <1>0, <1>1, <2>2, <3>1, <3>2 DEF TaskOK
  <2> QED BY <2>1, <2>2 DEF JobMoves
<1>4. ~Resending'
  <2>1. CASE UNCHANGED tail
    BY <1>0, <1>2, <2>1 DEF Resending
  <2>2. CASE \E task \in Tasks : tail' = Append(tail, task)
    BY <1>0, <1>2, <2>2, Appended DEF Resending
  <2> QED BY <2>1, <2>2 DEF JobMoves
<1>5. RunOK'
  BY <1>4 DEF RunOK
<1>6. ASSUME NEW id \in EventIds
      PROVE  owed'[id] - owed[id] >=
             (Cardinality(Asking(jobs', id)) - Cardinality(Asking(jobs, id)))
             + (Requested(id)' - Requested(id)) - (Spent(id)' - Spent(id))
  <2>1. Spent(id) = 0 /\ Spent(id)' = 0
    BY <1>2, <1>4 DEF Spent, Tried
  <2>2. jobs' = jobs \/ jobs' = Tail(jobs)
    BY DEF JobMoves
  <2> DEFINE n == Cardinality(Asking(jobs, id))
             m == Cardinality(Asking(jobs', id))
  <2>3. n \in Nat /\ m \in Nat
    BY <1>0, AskingFinite DEF Inv, TypesOK
  <2>4. m <= n
    <3>1. CASE jobs' = jobs
      BY <2>3, <3>1
    <3>2. CASE jobs' = Tail(jobs)
      <4>1. m <= n - (IF Head(jobs).kind = "resend" /\ id \in Head(jobs).ids THEN 1 ELSE 0)
        BY <1>0, <3>2, AskingTail
      <4> HIDE DEF n, m
      <4> QED BY <2>3, <4>1
    <3> QED BY <2>2, <3>1, <3>2
  <2>5. owed'[id] = owed[id] /\ owed[id] \in Int /\ Requested(id) \in {0, 1} /\ Requested(id)' = Requested(id)
    BY DEF Tries, OwedOK, Requested
  <2> HIDE DEF n, m
  <2>6. owed'[id] - owed[id] >= (m - n) + (Requested(id)' - Requested(id)) - (Spent(id)' - Spent(id))
    BY <2>1, <2>3, <2>4, <2>5
  <2> QED BY <2>6 DEF n, m
<1>7. OwedOK'
  BY <1>6, Balanced DEF Tries, OwedOK
<1> QED BY <1>3, <1>5, <1>7

\* A timer's task resends nothing.
LEMMA TimerTries ==
  ASSUME Tries, Inv', TimerFires, \A id \in EventIds : Requested(id)' = Requested(id), owed' = owed
  PROVE  TaskOK' /\ RunOK' /\ OwedOK'
<1>0. /\ jobs \in Seq(JobKinds) /\ tail \in Seq(Tasks) /\ UNCHANGED <<run, jobs, jpc>>
      /\ (run.pc # "idle" => tail # <<>>)
  BY DEF Tries, Inv, TypesOK, TimerFires, TailOK
<1>1. PICK task \in Tasks : tail' = Append(tail, task) /\ task.kind # "resend"
  <2>1. Task(reporter.timer, "timer", {}) \in Tasks /\ Task(reporter.timer, "timer", {}).kind # "resend"
    BY DEF TimerFires, Tries, Inv, TypesOK, Reporting, Task, Tasks
  <2> QED BY <2>1 DEF TimerFires
<1>2. \A i \in DOMAIN tail' : tail'[i] = task \/ \E k \in DOMAIN tail : tail'[i] = tail[k]
  BY <1>0, <1>1, Entries
<1>3. TaskOK'
  BY <1>0, <1>1, <1>2 DEF TaskOK, Tries
<1>4. tail' # <<>> /\ (tail # <<>> => Head(tail') = Head(tail)) /\ (Resending <=> Resending')
  BY <1>0, <1>1, Appended DEF Resending
<1>5. RunOK' /\ \A id \in EventIds : Tried(id)' <=> Tried(id)
  BY <1>0, <1>4 DEF RunOK, Tried, Untried, Resending, Tries
<1>6. ASSUME NEW id \in EventIds
      PROVE  owed'[id] - owed[id] >=
             (Cardinality(Asking(jobs', id)) - Cardinality(Asking(jobs, id)))
             + (Requested(id)' - Requested(id)) - (Spent(id)' - Spent(id))
  <2>1. Spent(id)' = Spent(id) /\ jobs' = jobs
    BY <1>0, <1>5 DEF Spent
  <2>2. Cardinality(Asking(jobs, id)) \in Nat /\ Spent(id) \in {0, 1} /\ owed[id] \in Int
    BY <1>0, AskingFinite DEF Spent, Tries, OwedOK
  <2>3. Requested(id)' = Requested(id) /\ Requested(id) \in {0, 1}
    BY DEF Requested
  <2> QED BY <2>1, <2>2, <2>3
<1>7. OwedOK'
  BY <1>6, Balanced DEF Tries, OwedOK
<1> QED BY <1>3, <1>5, <1>7

\* A crash leaves no job, no task and no request.
LEMMA CrashTries ==
  ASSUME Tries, Inv', HostStops
  PROVE  TaskOK' /\ RunOK' /\ OwedOK'
<1>1. /\ tail' = <<>> /\ run' = NoRun /\ jobs' = <<>> /\ jpc' = "idle" /\ owed' = owed
      /\ view'.post = NoPost
  BY DEF HostStops, Crash, Tries, ViewOK
<1>2. TaskOK' /\ RunOK'
  BY <1>1, NoRunTriesNothing DEF TaskOK, RunOK, Resending
<1>3. ASSUME NEW id \in EventIds
      PROVE  owed'[id] >= Cardinality(Asking(jobs', id)) + Requested(id)' - Spent(id)'
  <2>1. owed[id] >= 0 /\ owed[id] \in Int
    BY TriesCovered DEF TriesWereAsked, Tries, OwedOK
  <2>2. Asking(jobs', id) = {} /\ Cardinality(Asking(jobs', id)) = 0
    BY <1>1, FS_EmptySet DEF Asking
  <2>3. Requested(id)' = 0 /\ Spent(id)' = 0
    BY <1>1 DEF Requested, Spent, Tried, Resending, NoPost
  <2> QED BY <1>1, <2>1, <2>2, <2>3
<1>4. OwedOK'
  BY <1>1, <1>3 DEF OwedOK, Tries
<1> QED BY <1>2, <1>4

\* Behind the request, the Host changes nothing the client has yet to send.
LEMMA BehindRequested ==
  ASSUME Tries, Behind, NEW id
  PROVE  Requested(id)' = Requested(id)
<1> HIDE DEF Answer
<1> QED BY DEF Behind, Requested, Tries, ViewOK

\* A step of the Host on its own.
LEMMA HostTries ==
  ASSUME Tries, Inv', HostMoves
  PROVE  TaskOK' /\ RunOK' /\ OwedOK'
<1>0. /\ \A id \in EventIds : Requested(id)' = Requested(id)
      /\ owed' = [id \in EventIds |-> owed[id] - IF id \in Attempted THEN 1 ELSE 0]
      /\ owed \in [EventIds -> Int]
  BY BehindRequested DEF HostMoves, Tries, OwedOK
<1>1. LessRequested
  BY <1>0 DEF LessRequested, Requested
<1>2. ASSUME UNCHANGED run PROVE owed' = owed
  <2>1. Attempted = {}
    BY <1>2 DEF Attempted, At
  <2> QED BY <1>0, <2>1
<1>3. CASE SenderStep \/ ServerStep
  BY <1>0, <1>3, ResendMoves, AnswerMoves, OthersMove, SenderTries DEF SenderStep
<1>4. CASE JobStep
  <2>1. JobMoves /\ UNCHANGED run
    BY <1>4, JobsMove DEF JobMoves
  <2> QED BY <1>0, <1>2, <2>1, JobTries
<1>5. CASE TimerFires
  BY <1>0, <1>2, <1>5, TimerTries DEF TimerFires
<1>6. ASSUME UNCHANGED <<jobs, jpc, tail, run>>
      PROVE  TaskOK' /\ RunOK' /\ OwedOK'
  BY <1>1, <1>2, <1>6, RestsTries DEF Rests
<1>7. ASSUME NEW job \in JobKinds, job.kind # "resend", Enqueue(job)
      PROVE  TaskOK' /\ RunOK' /\ OwedOK'
  <2>1. Joins(job) /\ owed' = owed
    BY <1>2, <1>7 DEF Enqueue, Joins
  <2>2. \A id \in EventIds : owed'[id] - owed[id] + Requested(id) - Requested(id)' >= 0
    BY <1>0, <2>1 DEF Requested
  <2> QED BY <1>0, <1>7, <2>1, <2>2, JoinsTries
<1>8. CASE StoreStep \/ BackgroundScan \/ CoreDetached \/ OriginChanges
  <2>1. UNCHANGED strands
    BY <1>8 DEF StoreStep, StoreRun, StorePublish, StoreResolve, StoreReject, BackgroundScan, CoreDetached,
         OriginChanges
  <2> QED BY <1>6, <2>1 DEF strands
<1>9. \A kind \in {"withheld", "granted", "attach"} : Job(kind, {}) \in JobKinds /\ Job(kind, {}).kind # "resend"
  BY DEF Job, JobKinds
<1>10. CASE Withhold \/ Grant \/ CoreAttached
  BY <1>6, <1>7, <1>9, <1>10 DEF Withhold, Grant, CoreAttached, strands
<1>11. CASE RecordCalled
  <2>1. PICK id \in EventIds \ (LoaderIds \cup LegacyIds) : Enqueue(Job("record", {id}))
    BY <1>11 DEF RecordCalled
  <2>2. Job("record", {id}) \in JobKinds /\ Job("record", {id}).kind # "resend"
    BY DEF Job, JobKinds
  <2> QED BY <1>7, <2>1, <2>2
<1> QED BY <1>3, <1>4, <1>5, <1>8, <1>10, <1>11 DEF HostMoves

\* What the person, another client and the Host's queue ask for.
LEMMA AskedTries ==
  ASSUME Tries, Inv', ClientStep \/ HostShows \/ HostTakes \/ OthersResend
  PROVE  TaskOK' /\ RunOK' /\ OwedOK'
<1>0. owed \in [EventIds -> Int] /\ ViewOK
  BY DEF Tries, OwedOK
<1>1. CASE Clicks
  <2>1. PICK ids \in Selections(Candidates) :
          /\ view' = [view EXCEPT !.post = [NoPost EXCEPT !.pc = "asked", !.ids = ids]]
          /\ owed' = [id \in EventIds |-> owed[id] + IF id \in ids THEN 1 ELSE 0]
    BY <1>1 DEF Clicks
  <2>2. UNCHANGED <<jobs, jpc, tail, run>> /\ view.post.pc = "none"
    BY <1>1 DEF Clicks, IsBlocked, strands
  <2>3. TaskOK' /\ RunOK'
    BY <2>2 DEF Tries, TaskOK, RunOK, Resending
  <2>4. view'.post.pc = "asked" /\ view'.post.ids = ids
    BY <1>0, <2>1 DEF ViewOK, NoPost
  <2>5. ASSUME NEW id \in EventIds
        PROVE  owed'[id] - owed[id] >=
               (Cardinality(Asking(jobs', id)) - Cardinality(Asking(jobs, id)))
               + (Requested(id)' - Requested(id)) - (Spent(id)' - Spent(id))
    <3>1. Spent(id)' = Spent(id) /\ jobs' = jobs
      BY <2>2 DEF Spent, Tried, Untried, Resending
    <3>2. Cardinality(Asking(jobs, id)) \in Nat /\ Spent(id) \in {0, 1} /\ owed[id] \in Int
      BY AskingFinite DEF Spent, Tries, OwedOK, Inv, TypesOK
    <3>3. Requested(id) = 0 /\ Requested(id)' = IF id \in ids THEN 1 ELSE 0
      BY <2>2, <2>4 DEF Requested
    <3>4. owed'[id] = owed[id] + IF id \in ids THEN 1 ELSE 0
      BY <2>1
    <3> QED BY <3>1, <3>2, <3>3, <3>4
  <2>6. owed' \in [EventIds -> Int]
    BY <1>0, <2>1
  <2> QED BY <2>3, <2>5, <2>6, Balanced
<1>2. CASE Opens \/ Refreshes \/ Closes \/ LoadArrives \/ LoadFails \/ PostFails \/ ReplyArrives \/ HostShows
  <2>1. UNCHANGED <<jobs, jpc, tail, run>> /\ owed' = owed
    BY <1>2 DEF Opens, Refreshes, Closes, LoadArrives, LoadFails, PostFails, ReplyArrives, HostShows, Sees,
         vars, strands
  <2>2. view'.post = view.post \/ view'.post = NoPost
    <3>1. CASE Opens \/ Refreshes \/ Closes
      <4>1. CASE Opens
        <5>1. PICK load : view' = [[Closed EXCEPT !.mounted = TRUE] EXCEPT !.load = load]
          BY <4>1 DEF Opens, Loading
        <5> QED BY <5>1, ClosedView
      <4>2. CASE Refreshes
        <5>1. PICK load : view' = [view EXCEPT !.load = load]
          BY <4>2 DEF Refreshes, Loading
        <5> QED BY <1>0, <5>1 DEF ViewOK
      <4>3. CASE Closes
        BY <4>3, ClosedView DEF Closes
      <4> QED BY <3>1, <4>1, <4>2, <4>3
    <3>2. CASE LoadArrives \/ LoadFails
      BY <1>0, <3>2 DEF LoadArrives, LoadFails, Sees, ViewOK
    <3>3. CASE PostFails \/ ReplyArrives
      BY <1>0, <3>3 DEF PostFails, ReplyArrives, Sees, ViewOK
    <3>4. CASE HostShows
      <4>1. PICK load : view' = [view EXCEPT !.load = load]
        BY <3>4 DEF HostShows, Sees
      <4> QED BY <1>0, <4>1 DEF ViewOK
    <3> QED BY <1>2, <3>1, <3>2, <3>3, <3>4
  <2>3. LessRequested
    BY <2>2 DEF LessRequested, Requested, NoPost
  <2> QED BY <2>1, <2>3, RestsTries DEF Rests
<1>3. CASE HostTakes
  <2> DEFINE ids == view.post.ids
             job == Job("resend", ids)
  <2>1. job \in JobKinds /\ job.kind = "resend" /\ job.ids = ids
    BY <1>0 DEF ViewOK, Job, JobKinds
  <2>2. Joins(job) /\ owed' = owed /\ view.post.pc = "asked" /\ view'.post.pc = "queued"
    BY <1>0, <1>3 DEF HostTakes, Enqueue, Joins, ViewOK
  <2>3. \A id \in EventIds :
           owed'[id] - owed[id] + Requested(id) - Requested(id)' >=
             IF job.kind = "resend" /\ id \in job.ids THEN 1 ELSE 0
    <3>1. ASSUME NEW id \in EventIds
          PROVE  /\ Requested(id)' = 0 /\ (id \in ids => Requested(id) = 1) /\ Requested(id) \in {0, 1}
                 /\ owed'[id] = owed[id] /\ owed[id] \in Int
      BY <1>0, <2>2 DEF Requested
    <3> HIDE DEF ids, job
    <3> QED BY <2>1, <3>1
  <2> HIDE DEF ids, job
  <2> QED BY <1>0, <2>1, <2>2, <2>3, JoinsTries
<1>4. CASE OthersResend
  <2>1. PICK ids \in Selections(Held(memory)) : Enqueue(Job("resend", ids))
    BY <1>4 DEF OthersResend, ResendCalled
  <2> DEFINE job == Job("resend", ids)
  <2>2. ids \in SUBSET EventIds
    BY <2>1, HeldAreEvents DEF Selections, Tries
  <2>3. job \in JobKinds /\ job.kind = "resend" /\ job.ids = ids /\ jobs \in Seq(JobKinds)
    BY <2>2 DEF Job, JobKinds, Tries, Inv, TypesOK
  <2>4. Joins(job) /\ UNCHANGED view /\ jobs' = Append(jobs, job)
    BY <1>4, <2>1 DEF OthersResend, Enqueue, Joins
  <2> HIDE DEF job
  <2>5. jobs'[Len(jobs')] = job
    BY <2>3, <2>4
  <2>6. owed' = [id \in EventIds |-> owed[id] + IF id \in job.ids THEN 1 ELSE 0]
    BY <1>4, <2>5 DEF OthersResend
  <2>7. owed' \in [EventIds -> Int]
    BY <1>0, <2>6
  <2>8. \A id \in EventIds :
           owed'[id] - owed[id] + Requested(id) - Requested(id)' >=
             IF job.kind = "resend" /\ id \in job.ids THEN 1 ELSE 0
    <3>1. ASSUME NEW id \in EventIds
          PROVE  /\ Requested(id)' = Requested(id) /\ Requested(id) \in {0, 1} /\ owed[id] \in Int
                 /\ owed'[id] = owed[id] + IF id \in job.ids THEN 1 ELSE 0
      BY <1>0, <2>4, <2>6 DEF Requested
    <3> QED BY <3>1
  <2> QED BY <2>3, <2>4, <2>7, <2>8, JoinsTries
<1> QED BY <1>1, <1>2, <1>3, <1>4 DEF ClientStep

LEMMA TriesKept ==
  ASSUME Tries, [RecordsNext]_<<vars, panelVars, list>>
  PROVE  Tries'
<1>1. Inv' /\ ViewOK'
  BY RecordsInv DEF Tries
<1>2. CASE UNCHANGED <<jobs, jpc, tail, run, view, owed>>
  <2>1. LessRequested
    BY <1>2 DEF LessRequested, Requested
  <2> QED BY <1>1, <1>2, <2>1, RestsTries DEF Rests, Tries
<1>3. CASE ListStep
  <2>1. UNCHANGED <<jobs, jpc, tail, run, view, owed>>
    BY <1>3 DEF ListStep, ListOpens, ListRefreshes, ListCloses, CheckClicked, RowsArrive, RowsLost,
          RemoteArrives, RemoteLost, HostLists, HostReads, ServerLists, ReadFails,
          Acts, Loses, Shows, Others, vars, strands, panelVars
  <2> QED BY <1>2, <2>1
<1>4. CASE ClientStep \/ HostShows \/ HostTakes \/ OthersResend
  BY <1>1, <1>4, AskedTries DEF Tries
<1>5. CASE HostMoves
  BY <1>1, <1>5, HostTries DEF Tries
<1>6. CASE HostStops
  BY <1>1, <1>6, CrashTries DEF Tries
<1> QED BY <1>2, <1>3, <1>4, <1>5, <1>6 DEF RecordsNext, vars, panelVars, strands

\* A click is one attempt at most (client/index.ts:173): whatever batch fails,
\* whatever answer is lost, however often the Host restarts, no event is posted
\* by the explicit sender more often than the person, or another client of the
\* service, asked for it.
THEOREM TriesAreAsked == RecordsSpec => []TriesWereAsked
<1>1. RecordsInit => Tries
  <2> SUFFICES ASSUME RecordsInit PROVE Tries
    OBVIOUS
  <2>1. /\ tail = <<>> /\ run = NoRun /\ jobs = <<>> /\ jpc = "idle" /\ view = Closed
        /\ owed = [id \in EventIds |-> 0]
    BY DEF RecordsInit, PanelInit, Init
  <2>2. TaskOK /\ RunOK
    BY <2>1, NoRunTriesNothing DEF TaskOK, RunOK, Resending
  <2>3. \A id \in EventIds : Cardinality(Asking(jobs, id)) = 0 /\ Requested(id) = 0 /\ Spent(id) = 0
    BY <2>1, NoRunTriesNothing, FS_EmptySet DEF Asking, Requested, Spent, Tried, Resending, Closed, NoPost
  <2>4. OwedOK
    BY <2>1, <2>3 DEF OwedOK
  <2> QED BY <2>2, <2>4, StartsOK DEF Tries
<1>2. Tries /\ [RecordsNext]_<<vars, panelVars, list>> => Tries'
  BY TriesKept
<1>3. Tries => TriesWereAsked
  BY TriesCovered
<1> QED BY <1>1, <1>2, <1>3, PTL DEF RecordsSpec
----------------------------------------------------------------------------
(* Nothing is sent while a withdrawal is recorded, and no doubt is forgotten *)

\* Core comes (back) while no withdrawal is recorded: the job of an attach
\* starts the sender, and looks at none (mount.js:173, upload.js:113).
AttachedClear == jobs # <<>> /\ Head(jobs).kind = "attach" => memory.withdrawal = "none"

\* What is being written is what the oldest call makes of the value in memory.
StoredOK ==
  /\ phase = "idle" => next = memory
  /\ phase # "written" => disk = memory
  /\ phase # "idle" =>
       LET c == Head(calls) IN Admitted(c, memory) /\ Changes(c, memory) /\ next = Result(c, memory)

\* The withdrawal a job records, or clears, is the one it asked for.
RecordedOK ==
  /\ \A i \in DOMAIN calls :
       /\ calls[i].op = "clearWithdrawal" => calls[i].by = "job" /\ jpc = "clear"
       /\ calls[i].by = "job" /\ jpc = "clear" => calls[i].op = "clearWithdrawal"
       /\ calls[i].by = "job" /\ jpc = "local" => calls[i].op = "withdrawLocal"
  /\ jpc = "clear" /\ answer["job"] = "ok" => memory.withdrawal = "none"
  /\ jpc = "local" /\ answer["job"] = "ok" => memory.withdrawal # "none"

\* The deletion carries no events; no task has a batch before it begins.
Deleting == tail # <<>> /\ Head(tail).kind = "withdrawal"
PlacesOK ==
  /\ run.pc = "idle" => run.batch = {}
  /\ Deleting => run.batch = {} /\ run.pc \in {"idle", "delete", "answered", "mark"}

\* While a withdrawal is recorded, nothing is sent, and nothing is in doubt.
SilentOK ==
  memory.withdrawal # "none" =>
    /\ ~reporter.active /\ reporter.timer # "run"
    /\ \A i \in DOMAIN tail : tail[i].kind # "run"
    /\ ~Resending
    /\ server.doubt = {}

\* A deletion the server confirmed is not undone.
Erased(s, stored) == s.withdrawal = "sent" => stored = {}
ErasedOK ==
  /\ \A s \in {memory, disk, next} : Erased(s, server.stored)
  /\ run.pc = "answered" /\ Deleting /\ run.response.kind = "deleted" => server.stored = {}
  /\ \A i \in DOMAIN calls : calls[i].op = "markWithdrawal" /\ calls[i].code = "sent" => server.stored = {}

\* What is in doubt is pending and marked, wherever it is held, and this process
\* counts it as unconfirmed, but for an answer it has not read yet.
LeavesOpen == run.pc = "answered" /\ run.response.kind = "unknown"
DoubtOK ==
  /\ server.doubt \subseteq Held(memory)
  /\ \A s \in {memory, disk, next} : Marked(s, server.doubt \cap Held(s))
  /\ server.doubt \subseteq DOMAIN reporter.unconfirmed \cup (IF LeavesOpen THEN run.batch ELSE {})

\* The batch of the automatic sender is in no doubt before the answer is; that
\* of the explicit one was unconfirmed before.
Certain == run.pc \notin {"idle", "hold"} /\ ~LeavesOpen
Uncounted(ids, marks, accepted, duplicates) == accepted + duplicates # Cardinality(ids \ DOMAIN marks)
BatchOK ==
  /\ tail # <<>> /\ Head(tail).kind = "run" /\ Certain => run.batch \cap server.doubt = {}
  /\ tail # <<>> /\ Head(tail).kind = "resend" /\ Certain => run.batch \cap server.doubt \subseteq DOMAIN run.previous
  /\ run.pc = "answered" /\ run.response.kind = "committed" =>
       LET r == run.response IN
       run.batch \cap server.doubt = {} \/ Uncounted(run.batch, r.rejected, r.accepted, r.duplicates)

\* A call that takes a marker away has no doubt to forget.
ForgetsNothing(c, doubt) ==
  /\ c.op = "undoIntent" \/ (c.op = "attempts" /\ c.code = "none") => c.ids \cap doubt = {}
  /\ c.op = "resendFailure" => c.ids \cap doubt \subseteq DOMAIN c.marks
  /\ c.op = "apply" => c.ids \cap doubt = {} \/ Uncounted(c.ids, c.marks, c.accepted, c.duplicates)
ForgetsOK == \A i \in DOMAIN calls : ForgetsNothing(calls[i], server.doubt)

Silence ==
  StoredOK /\ RecordedOK /\ PlacesOK /\ SilentOK /\ ErasedOK /\ DoubtOK /\ BatchOK /\ ForgetsOK

----------------------------------------------------------------------------
(* What a call does to the withdrawal, and to the markers *)

LEMMA Withdrawing ==
  ASSUME NEW s, Good(s), NEW c \in Calling, Admitted(c, s), Changes(c, s)
  PROVE  /\ c.op \notin {"withdrawLocal", "markWithdrawal", "clearWithdrawal"} =>
              Result(c, s).withdrawal = s.withdrawal
         /\ c.op = "withdrawLocal" => Result(c, s).withdrawal = "pending" /\ Held(Result(c, s)) = {}
         /\ c.op = "markWithdrawal" => Result(c, s).withdrawal = c.code /\ s.withdrawal # "none"
         /\ c.op = "clearWithdrawal" => Result(c, s).withdrawal = "none"
<1>1. s = [rows |-> s.rows, withdrawal |-> s.withdrawal, inventory |-> s.inventory]
  BY DEF Good, IsSnapshot
<1>2. \A changed : Amend(s, changed).withdrawal = s.withdrawal
  <2>1. ASSUME NEW rows PROVE [s EXCEPT !.rows = rows].withdrawal = s.withdrawal
    BY <1>1
  <2> QED BY <2>1 DEF Amend
<1>3. ASSUME c.op \notin {"withdrawLocal", "markWithdrawal", "clearWithdrawal"}
      PROVE  Result(c, s).withdrawal = s.withdrawal
  <2>1. c.op \in {"put", "scan", "reopen", "intent", "undoIntent", "attempts", "apply", "resendIntent",
                  "resendFailure"}
    BY <1>3 DEF Calling, BufferOps
  <2>2. CASE c.op = "put"
    <3>1. ASSUME NEW rows PROVE [s EXCEPT !.rows = rows].withdrawal = s.withdrawal
      BY <1>1
    <3> QED BY <2>2, <3>1 DEF Result, Put
  <2>3. CASE c.op = "scan"
    <3>1. ASSUME NEW rows, NEW items PROVE [s EXCEPT !.inventory = items, !.rows = rows].withdrawal = s.withdrawal
      BY <1>1
    <3> QED BY <2>3, <3>1 DEF Result, UpdateInventory
  <2>4. CASE c.op \in {"reopen", "intent", "undoIntent", "attempts", "apply", "resendIntent", "resendFailure"}
    BY <1>2, <2>4 DEF Result, Reopen, UploadIntent, Attempts, ApplyUpload, ResendIntent, ResendFailure
  <2> QED BY <2>1, <2>2, <2>3, <2>4
<1>4. ASSUME c.op = "withdrawLocal"
      PROVE  Result(c, s).withdrawal = "pending" /\ Held(Result(c, s)) = {}
  BY <1>1, <1>4, EmptyRows DEF Result, WithdrawLocal, Held
<1>5. ASSUME c.op = "markWithdrawal" PROVE Result(c, s).withdrawal = c.code /\ s.withdrawal # "none"
  BY <1>1, <1>5 DEF Result, MarkWithdrawal, Admitted, MarkWithdrawalWrites
<1>6. ASSUME c.op = "clearWithdrawal" PROVE Result(c, s).withdrawal = "none"
  BY <1>1, <1>6 DEF Result, ClearWithdrawal
<1> QED BY <1>3, <1>4, <1>5, <1>6

(* What is marked stays so, unless the call takes markers away. *)
LEMMA MarkersKept ==
  ASSUME NEW s, Good(s), NEW c \in Calling, CallOK(c), c.op = "scan" => c.ids \cap Held(s) = {},
         Admitted(c, s), Changes(c, s), NEW doubt, Marked(s, doubt), ForgetsNothing(c, doubt)
  PROVE  Marked(Result(c, s), doubt \cap Held(Result(c, s)))
<1>1. IsSnapshot(s) /\ \A id \in Held(s) : s.rows[id] \in Row
  BY RowsOf DEF Good
<1>2. CASE c.op \in JobOps
  BY <1>2, CallResult DEF Shown, Effects, Marked, Pending
<1>3. CASE c.op \in {"withdrawLocal", "markWithdrawal", "clearWithdrawal"}
  <2>1. CASE c.op = "withdrawLocal"
    BY <2>1, Withdrawing DEF Marked
  <2>2. CASE c.op \in {"markWithdrawal", "clearWithdrawal"}
    <3>1. Result(c, s).rows = s.rows
      BY <1>1, <2>2 DEF Result, MarkWithdrawal, ClearWithdrawal, IsSnapshot
    <3> QED BY <3>1 DEF Marked, Pending, Held
  <2> QED BY <1>3, <2>1, <2>2
<1>4. ASSUME NEW changed, Result(c, s) = Amend(s, changed), DOMAIN changed = c.ids, c.ids \subseteq Held(s),
             \A id \in c.ids \cap doubt : changed[id].state = "pending" /\ changed[id].code \in Markers
      PROVE  Marked(Result(c, s), doubt \cap Held(Result(c, s)))
  <2> DEFINE t == Amend(s, changed)
  <2>1. /\ Held(t) = Held(s)
        /\ \A id \in Held(s) : t.rows[id] = IF id \in c.ids THEN changed[id] ELSE s.rows[id]
    BY <1>1, <1>4, AmendAt
  <2> HIDE DEF t
  <2>2. Marked(t, doubt \cap Held(t))
    BY <1>4, <2>1 DEF Marked, Pending
  <2> QED BY <1>4, <2>2 DEF t
<1>5. \A id \in doubt : s.rows[id].state = "pending" /\ id \in Held(s)
  BY DEF Marked, Pending
<1>6. CASE c.op \in {"intent", "undoIntent"}
  <2> DEFINE pending == c.op = "intent"
             changed == [id \in c.ids |-> [s.rows[id] EXCEPT !.code = IF pending THEN Intent ELSE "none"]]
  <2>1. Result(c, s) = Amend(s, changed) /\ DOMAIN changed = c.ids
    BY <1>6 DEF Result, UploadIntent
  <2>2. c.ids \subseteq Held(s)
    BY <1>6 DEF Admitted, UploadIntentWrites, Pending
  <2>3. \A id \in c.ids \cap doubt : changed[id].state = "pending" /\ changed[id].code \in Markers
    BY <1>1, <1>5, <1>6 DEF ForgetsNothing, Row, Markers
  <2> HIDE DEF changed
  <2> QED BY <1>4, <2>1, <2>2, <2>3
<1>7. CASE c.op = "attempts"
  <2> DEFINE changed == [id \in c.ids |-> [s.rows[id] EXCEPT !.code = c.code, !.tried = TRUE]]
  <2>1. Result(c, s) = Amend(s, changed) /\ DOMAIN changed = c.ids
    BY <1>7 DEF Result, Attempts
  <2>2. c.ids \subseteq Held(s) /\ c.code \in {"none", Unknown}
    BY <1>7 DEF Admitted, AttemptsWrites, CallOK
  <2>3. \A id \in c.ids \cap doubt : changed[id].state = "pending" /\ changed[id].code \in Markers
    BY <1>1, <1>5, <1>7, <2>2 DEF ForgetsNothing, Row, Markers
  <2> HIDE DEF changed
  <2> QED BY <1>4, <2>1, <2>2, <2>3
<1>8. CASE c.op = "resendIntent"
  <2> DEFINE changed == [id \in c.ids |-> [s.rows[id] EXCEPT !.code = IF @ = Unknown THEN Unknown ELSE Intent]]
  <2>1. Result(c, s) = Amend(s, changed) /\ DOMAIN changed = c.ids
    BY <1>8 DEF Result, ResendIntent
  <2>2. c.ids \subseteq Held(s)
    BY <1>8 DEF Admitted, ResendIntentWrites, Pending
  <2>3. \A id \in c.ids \cap doubt : changed[id].state = "pending" /\ changed[id].code \in Markers
    BY <1>1, <1>5 DEF Row, Markers
  <2> HIDE DEF changed
  <2> QED BY <1>4, <2>1, <2>2, <2>3
<1>9. CASE c.op = "resendFailure"
  <2> DEFINE changed == [id \in c.ids |-> [s.rows[id] EXCEPT
               !.code = IF id \in DOMAIN c.marks THEN c.marks[id] ELSE "none", !.tried = TRUE]]
  <2>1. Result(c, s) = Amend(s, changed) /\ DOMAIN changed = c.ids
    BY <1>9 DEF Result, ResendFailure
  <2>2. c.ids \subseteq Held(s) /\ \A id \in DOMAIN c.marks : c.marks[id] \in Markers
    BY <1>9 DEF Admitted, ResendFailureWrites, Pending, CallOK, Uncertain
  <2>3. \A id \in c.ids \cap doubt : changed[id].state = "pending" /\ changed[id].code \in Markers
    BY <1>1, <1>5, <1>9, <2>2 DEF ForgetsNothing, Row
  <2> HIDE DEF changed
  <2> QED BY <1>4, <2>1, <2>2, <2>3
<1>10. CASE c.op = "apply"
  <2> DEFINE changed == [id \in c.ids |->
               [s.rows[id] EXCEPT !.state = IF id \in DOMAIN c.marks THEN "rejected"
                                            ELSE IF c.accepted > 0 THEN "sent" ELSE "duplicate",
                                  !.code = IF id \in DOMAIN c.marks THEN c.marks[id] ELSE "none",
                                  !.tried = TRUE, !.sentAt = SessionTime]]
  <2>1. Result(c, s) = Amend(s, changed) /\ DOMAIN changed = c.ids
    BY <1>10 DEF Result, ApplyUpload
  <2>2. c.ids \subseteq Held(s) /\ c.ids \cap doubt = {}
    BY <1>10 DEF Admitted, ApplyUploadWrites, Pending, ForgetsNothing, Uncounted
  <2> HIDE DEF changed
  <2> QED BY <1>4, <2>1, <2>2
<1> QED BY <1>2, <1>3, <1>6, <1>7, <1>8, <1>9, <1>10 DEF Calling, BufferOps, JobOps

----------------------------------------------------------------------------
(* The store's steps *)

(* The call under way is one of the calls. *)
LEMMA OldestCall ==
  ASSUME Inv, Silence, calls # <<>>
  PROVE  LET c == Head(calls) IN
         /\ c \in Calling /\ \E k \in DOMAIN calls : c = calls[k]
         /\ CallOK(c) /\ ForgetsNothing(c, server.doubt) /\ (c.op = "scan" => c.ids \cap Held(memory) = {})
         /\ c.op = "withdrawLocal" => jpc = "local" /\ c.by = "job"
         /\ c.op = "clearWithdrawal" => jpc = "clear" /\ c.by = "job"
         /\ c.op = "markWithdrawal" /\ c.code = "sent" => server.stored = {}
         /\ c.by = "job" => answer["job"] = "none"
         /\ c.by = "job" /\ jpc = "clear" => c.op = "clearWithdrawal"
         /\ c.by = "job" /\ jpc = "local" => c.op = "withdrawLocal"
<1>1. calls \in Seq(Calling)
  BY DEF Inv, TypesOK
<1>2. Head(calls) \in Calling /\ Head(calls) = calls[1] /\ 1 \in DOMAIN calls
  BY <1>1, Dropped
<1>3. calls[1].by = "job" => answer["job"] = "none"
  BY <1>2 DEF Inv, JobOK, Waiting, No
<1> QED BY <1>2, <1>3 DEF Inv, CallsOK, ScansOK, JobOK, Silence, ForgetsOK, RecordedOK, ErasedOK, CallOK

(* A call is over: what is asked of the others is asked of fewer. *)
LEMMA FewerSilent ==
  ASSUME Inv, Silence, calls # <<>>, NEW outcome, Conclude(outcome), UNCHANGED <<jpc, run, reporter, tail>>,
         outcome = "ok" => Admitted(Head(calls), memory) /\
                           (memory' = Result(Head(calls), memory) \/ ~Changes(Head(calls), memory)),
         memory' = memory \/ (outcome = "ok" /\ Changes(Head(calls), memory) /\ memory' = Result(Head(calls), memory)),
         server'.doubt \subseteq server.doubt, server'.stored = server.stored
  PROVE  /\ RecordedOK' /\ BatchOK' /\ ForgetsOK' /\ PlacesOK'
         /\ \A i \in DOMAIN calls' : calls'[i].op = "markWithdrawal" /\ calls'[i].code = "sent" => server'.stored = {}
<1> DEFINE c == Head(calls)
<1>1. /\ c \in Calling /\ CallOK(c) /\ (c.op = "withdrawLocal" => jpc = "local" /\ c.by = "job")
      /\ (c.op = "clearWithdrawal" => jpc = "clear" /\ c.by = "job")
      /\ (c.by = "job" => answer["job"] = "none")
      /\ (c.by = "job" /\ jpc = "clear" => c.op = "clearWithdrawal")
      /\ (c.by = "job" /\ jpc = "local" => c.op = "withdrawLocal")
  BY OldestCall
<1>2. calls \in Seq(Calling) /\ answer \in [{"job", "sender"} -> Outcomes] /\ Good(memory)
  BY DEF Inv, TypesOK, GoodOK
<1>3. \A i \in DOMAIN calls' : \E k \in DOMAIN calls : calls'[i] = calls[k]
  BY <1>2, Entries DEF Conclude
<1>4. answer'["job"] = IF c.by = "job" THEN outcome ELSE answer["job"]
  BY <1>1, <1>2 DEF Conclude, Calling
<1> HIDE DEF c
<1>5. ASSUME jpc = "clear", answer'["job"] = "ok" PROVE memory'.withdrawal = "none"
  <2>1. CASE c.by = "job"
    <3>1. c.op = "clearWithdrawal" /\ outcome = "ok"
      BY <1>1, <1>4, <1>5, <2>1
    <3>2. CASE Changes(c, memory) /\ memory' = Result(c, memory)
      BY <1>1, <1>2, <3>1, <3>2, Withdrawing DEF c
    <3>3. CASE ~Changes(c, memory)
      BY <3>1, <3>3 DEF Changes, ClearWithdrawalWrites, c
    <3> QED BY <3>1, <3>2, <3>3 DEF c
  <2>2. CASE c.by # "job"
    <3>1. memory.withdrawal = "none" /\ c.op \notin {"withdrawLocal", "clearWithdrawal"}
      BY <1>1, <1>4, <1>5, <2>2 DEF Silence, RecordedOK
    <3>2. ASSUME memory' # memory PROVE memory'.withdrawal = "none"
      BY <1>1, <1>2, <3>1, <3>2, Withdrawing DEF c
    <3> QED BY <3>1, <3>2
  <2> QED BY <2>1, <2>2
<1>6. ASSUME jpc = "local", answer'["job"] = "ok" PROVE memory'.withdrawal # "none"
  <2>1. CASE c.by = "job"
    <3>1. c.op = "withdrawLocal" /\ outcome = "ok"
      BY <1>1, <1>4, <1>6, <2>1
    <3>2. Changes(c, memory) /\ memory' = Result(c, memory)
      BY <3>1 DEF Changes, c
    <3> QED BY <1>1, <1>2, <3>1, <3>2, Withdrawing DEF c
  <2>2. CASE c.by # "job"
    <3>1. memory.withdrawal # "none" /\ c.op \notin {"withdrawLocal", "clearWithdrawal"}
      BY <1>1, <1>4, <1>6, <2>2 DEF Silence, RecordedOK
    <3>2. ASSUME memory' # memory PROVE memory'.withdrawal # "none"
      BY <1>1, <1>2, <3>1, <3>2, Withdrawing DEF CallOK, c
    <3> QED BY <3>1, <3>2
  <2> QED BY <2>1, <2>2
<1>7. RecordedOK'
  BY <1>3, <1>5, <1>6 DEF RecordedOK, Silence
<1>8. BatchOK' /\ PlacesOK'
  BY DEF BatchOK, PlacesOK, Silence, Certain, LeavesOpen, Deleting
<1>9. ForgetsOK'
  BY <1>3 DEF ForgetsOK, ForgetsNothing, Silence
<1>10. \A i \in DOMAIN calls' : calls'[i].op = "markWithdrawal" /\ calls'[i].code = "sent" => server'.stored = {}
  BY <1>3 DEF ErasedOK, Silence
<1> QED BY <1>7, <1>8, <1>9, <1>10

LEMMA StoreRunSilent ==
  ASSUME Inv, Silence, StoreRun
  PROVE  Silence'
<1> DEFINE c == Head(calls)
<1>1. /\ calls # <<>> /\ phase = "idle"
      /\ UNCHANGED <<core, left, server, memory, disk, reporter, tail, run, jobs, jpc>>
  BY DEF StoreRun, outside, strands
<1>2. /\ c \in Calling /\ CallOK(c) /\ ForgetsNothing(c, server.doubt)
      /\ (c.op = "scan" => c.ids \cap Held(memory) = {})
      /\ (c.op = "markWithdrawal" /\ c.code = "sent" => server.stored = {})
  BY <1>1, OldestCall
<1>3. Good(memory) /\ Marked(memory, server.doubt)
  BY DEF Inv, GoodOK, Silence, DoubtOK, Marked
<1>4. disk = memory /\ next = memory
  BY <1>1 DEF Silence, StoredOK
<1>5. CASE /\ Admitted(c, memory) /\ Changes(c, memory)
           /\ phase' = "writing" /\ next' = Result(c, memory) /\ UNCHANGED <<calls, answer>>
  <2>1. StoredOK'
    BY <1>1, <1>4, <1>5 DEF StoredOK, Admitted, Changes, Result, Held, Pending
  <2>2. RecordedOK' /\ PlacesOK' /\ SilentOK' /\ BatchOK' /\ ForgetsOK'
    BY <1>1, <1>5 DEF Silence, RecordedOK, PlacesOK, SilentOK, BatchOK, ForgetsOK, Resending, Certain, LeavesOpen,
       Deleting
  <2>3. Marked(next', server.doubt \cap Held(next'))
    BY <1>2, <1>3, <1>5, MarkersKept
  <2>4. DoubtOK'
    BY <1>1, <1>5, <2>3 DEF Silence, DoubtOK, LeavesOpen
  <2>5. Erased(next', server.stored)
    BY <1>2, <1>3, <1>5, Withdrawing DEF Erased, Silence, ErasedOK
  <2>6. ErasedOK'
    BY <1>1, <1>5, <2>5 DEF Silence, ErasedOK, Deleting
  <2> QED BY <2>1, <2>2, <2>4, <2>6 DEF Silence
<1>6. CASE /\ ~(Admitted(c, memory) /\ Changes(c, memory))
           /\ Conclude(IF Admitted(c, memory) THEN "ok" ELSE "invalid") /\ UNCHANGED <<phase, next>>
  <2> DEFINE outcome == IF Admitted(c, memory) THEN "ok" ELSE "invalid"
  <2>1. Conclude(outcome) /\ (outcome = "ok" => Admitted(c, memory) /\ ~Changes(c, memory))
    BY <1>6
  <2> HIDE DEF outcome
  <2>2. /\ RecordedOK' /\ BatchOK' /\ ForgetsOK' /\ PlacesOK'
        /\ \A i \in DOMAIN calls' : calls'[i].op = "markWithdrawal" /\ calls'[i].code = "sent" => server'.stored = {}
    BY <1>1, <2>1, FewerSilent
  <2>3. StoredOK' /\ SilentOK' /\ DoubtOK'
    BY <1>1, <1>6 DEF Silence, StoredOK, SilentOK, DoubtOK, Resending, LeavesOpen
  <2>4. ErasedOK'
    BY <1>1, <1>6, <2>2 DEF Silence, ErasedOK, Deleting
  <2> QED BY <2>2, <2>3, <2>4 DEF Silence
<1> QED BY <1>5, <1>6 DEF StoreRun

LEMMA StorePublishSilent ==
  ASSUME Inv, Silence, StorePublish
  PROVE  Silence'
<1>1. /\ phase = "writing" /\ disk' = next /\ phase' = "written"
      /\ UNCHANGED <<core, left, server, memory, next, calls, answer, reporter, tail, run, jobs, jpc>>
  BY DEF StorePublish, outside, strands
<1>2. StoredOK' /\ DoubtOK' /\ ErasedOK'
  BY <1>1 DEF Silence, StoredOK, DoubtOK, ErasedOK, LeavesOpen, Deleting, Admitted, Changes, Result, Held, Pending
<1>3. RecordedOK' /\ PlacesOK' /\ SilentOK' /\ BatchOK' /\ ForgetsOK'
  BY <1>1 DEF Silence, RecordedOK, PlacesOK, SilentOK, BatchOK, ForgetsOK, Resending, Certain, LeavesOpen, Deleting
<1> QED BY <1>2, <1>3 DEF Silence

(* The erasure of a withdrawal ends while nothing is sent. *)
LEMMA StoreResolveSilent ==
  ASSUME Inv, Silence, StoreResolve
  PROVE  Silence'
<1> DEFINE c == Head(calls)
<1>1. /\ phase = "written" /\ memory' = next /\ phase' = "idle" /\ Conclude("ok") /\ disk = next
      /\ server' = [server EXCEPT !.doubt = @ \cap Held(next)]
      /\ UNCHANGED <<core, left, disk, next, reporter, tail, run, jobs, jpc>>
  BY DEF StoreResolve, strands, Inv, WriteOK
<1>2. calls # <<>> /\ Admitted(c, memory) /\ Changes(c, memory) /\ next = Result(c, memory)
  BY <1>1 DEF Inv, WriteOK, Silence, StoredOK
<1>3. c \in Calling /\ CallOK(c) /\ (c.op = "withdrawLocal" => jpc = "local" /\ c.by = "job")
  BY <1>2, OldestCall
<1>4. server'.doubt = server.doubt \cap Held(next) /\ server'.stored = server.stored
  BY <1>1 DEF Inv, TypesOK
<1>5. /\ RecordedOK' /\ BatchOK' /\ ForgetsOK' /\ PlacesOK'
      /\ \A i \in DOMAIN calls' : calls'[i].op = "markWithdrawal" /\ calls'[i].code = "sent" => server'.stored = {}
  BY <1>1, <1>2, <1>4, FewerSilent
<1>6. StoredOK'
  BY <1>1 DEF StoredOK
<1>7. SilentOK'
  <2>1. SUFFICES ASSUME memory'.withdrawal # "none" PROVE SilentOK'
    BY DEF SilentOK
  <2>2. CASE memory.withdrawal # "none"
    BY <1>1, <1>4, <2>2 DEF Silence, SilentOK, Resending
  <2>3. CASE memory.withdrawal = "none"
    <3>1. Good(memory)
      BY DEF Inv, GoodOK
    <3>2. c.op = "withdrawLocal" /\ Held(next) = {}
      BY <1>1, <1>2, <1>3, <2>1, <2>3, <3>1, Withdrawing
    <3>3. /\ jpc = "local" /\ ~reporter.active /\ reporter.timer # "run"
          /\ \A i \in DOMAIN tail : tail[i].kind = "withdrawal"
      BY <1>3, <3>2 DEF Inv, TailOK
    <3>4. tail # <<>> => Head(tail).kind = "withdrawal"
      BY <3>3, Dropped DEF Inv, TypesOK
    <3> QED BY <1>1, <1>4, <3>2, <3>3, <3>4 DEF SilentOK, Resending
  <2> QED BY <2>2, <2>3
<1>8. ErasedOK'
  BY <1>1, <1>4, <1>5 DEF Silence, ErasedOK, Deleting
<1>9. DoubtOK'
  BY <1>1, <1>4 DEF Silence, DoubtOK, LeavesOpen, Marked
<1> QED BY <1>5, <1>6, <1>7, <1>8, <1>9 DEF Silence

LEMMA StoreRejectSilent ==
  ASSUME Inv, Silence, StoreReject
  PROVE  Silence'
<1>1. /\ phase = "writing" /\ Conclude("failed") /\ next' = memory /\ phase' = "idle"
      /\ UNCHANGED <<core, server, memory, disk, reporter, tail, run, jobs, jpc>>
  BY DEF StoreReject, strands
<1>2. calls # <<>> /\ disk = memory
  BY <1>1 DEF Inv, WriteOK, Silence, StoredOK
<1>3. /\ RecordedOK' /\ BatchOK' /\ ForgetsOK' /\ PlacesOK'
      /\ \A i \in DOMAIN calls' : calls'[i].op = "markWithdrawal" /\ calls'[i].code = "sent" => server'.stored = {}
  BY <1>1, <1>2, FewerSilent
<1>4. StoredOK' /\ SilentOK'
  BY <1>1, <1>2 DEF Silence, StoredOK, SilentOK, Resending
<1>5. ErasedOK' /\ DoubtOK'
  BY <1>1, <1>3 DEF Silence, ErasedOK, DoubtOK, LeavesOpen, Deleting
<1> QED BY <1>3, <1>4, <1>5 DEF Silence

----------------------------------------------------------------------------
(* The timer, the scans, the person, Core, and a crash *)

\* The write under way, and the call it is for, stay what they are.
LEMMA StorageSilent ==
  ASSUME Inv, Silence, UNCHANGED storage, calls' = calls \/ \E c \in Calling : calls' = Append(calls, c)
  PROVE  StoredOK' /\ UNCHANGED <<memory, disk, phase, next>>
<1>1. UNCHANGED <<memory, disk, phase, next>>
  BY DEF storage
<1>2. ASSUME phase # "idle" PROVE Head(calls') = Head(calls)
  <2>1. calls # <<>> /\ calls \in Seq(Calling)
    BY <1>2 DEF Inv, WriteOK, TypesOK
  <2>2. ASSUME NEW c \in Calling PROVE Head(Append(calls, c)) = Head(calls)
    BY <2>1, Appended
  <2> QED BY <2>2
<1> QED BY <1>1, <1>2 DEF Silence, StoredOK, Admitted, Changes, Result, Held, Pending

LEMMA OutsideSilent ==
  ASSUME Inv, Silence, UNCHANGED <<storage, calls, answer, tail, run, jpc, server>>,
         reporter' \in {reporter, Stopped(reporter)}
  PROVE  Silence'
<1>1. StoredOK' /\ UNCHANGED <<memory, disk, phase, next>>
  BY StorageSilent
<1>2. /\ ~reporter.active => ~reporter'.active
      /\ reporter.timer # "run" => reporter'.timer # "run"
      /\ reporter'.unconfirmed = reporter.unconfirmed
  BY DEF Stopped, Inv, TypesOK, Reporting
<1>3. RecordedOK' /\ PlacesOK' /\ SilentOK' /\ ErasedOK'
  BY <1>1, <1>2 DEF Silence, RecordedOK, PlacesOK, SilentOK, ErasedOK, Resending, Deleting
<1>4. DoubtOK' /\ BatchOK' /\ ForgetsOK'
  BY <1>1, <1>2 DEF Silence, DoubtOK, BatchOK, ForgetsOK, Certain, LeavesOpen
<1> QED BY <1>1, <1>3, <1>4 DEF Silence

LEMMA BackgroundScanSilent ==
  ASSUME Inv, Silence, BackgroundScan
  PROVE  Silence'
<1> DEFINE c == Call("scan", "scan", NewEvents)
<1>1. /\ calls' = Append(calls, c) /\ UNCHANGED <<storage, answer>>
      /\ UNCHANGED <<core, left, server, reporter, tail, run, jobs, jpc>>
  BY DEF BackgroundScan, Ask, outside, strands
<1>2. c \in Calling /\ c.op = "scan" /\ c.by = "scan"
  BY CallTyped, NewEventsAreEvents DEF BufferOps
<1> HIDE DEF c
<1>3. StoredOK' /\ UNCHANGED <<memory, disk, phase, next>>
  BY <1>1, <1>2, StorageSilent
<1>4. \A i \in DOMAIN calls' : calls'[i] = c \/ \E k \in DOMAIN calls : calls'[i] = calls[k]
  BY <1>1, <1>2, Entries DEF Inv, TypesOK
<1>5. RecordedOK' /\ PlacesOK' /\ SilentOK' /\ ErasedOK'
  BY <1>1, <1>2, <1>3, <1>4 DEF Silence, RecordedOK, PlacesOK, SilentOK, ErasedOK, Resending, Deleting
<1>6. DoubtOK' /\ BatchOK'
  BY <1>1, <1>3 DEF Silence, DoubtOK, BatchOK, Certain, LeavesOpen
<1>7. ForgetsOK'
  BY <1>1, <1>2, <1>4 DEF Silence, ForgetsOK, ForgetsNothing
<1> QED BY <1>3, <1>5, <1>6, <1>7 DEF Silence

(* A task joins the tail: it is not the one under way. *)
LEMMA TailJoined ==
  ASSUME Inv, Silence, NEW task \in Tasks, tail' = Append(tail, task), UNCHANGED run
  PROVE  /\ PlacesOK' /\ (Resending' <=> Resending)
         /\ tail # <<>> => tail' # <<>> /\ Head(tail') = Head(tail)
         /\ run.pc # "idle" => tail # <<>>
         /\ \A i \in DOMAIN tail' : tail'[i] = task \/ \E k \in DOMAIN tail : tail'[i] = tail[k]
<1>1. tail \in Seq(Tasks) /\ (run.pc # "idle" => tail # <<>>)
  BY DEF Inv, TypesOK, TailOK
<1>2. tail' # <<>> /\ (tail # <<>> => Head(tail') = Head(tail))
  BY <1>1, Appended
<1>3. \A i \in DOMAIN tail' : tail'[i] = task \/ \E k \in DOMAIN tail : tail'[i] = tail[k]
  BY <1>1, Entries
<1>4. PlacesOK'
  BY <1>1, <1>2 DEF Silence, PlacesOK, Deleting
<1> QED BY <1>1, <1>2, <1>3, <1>4 DEF Resending

LEMMA TimerSilent ==
  ASSUME Inv, Silence, TimerFires
  PROVE  Silence'
<1> DEFINE task == Task(reporter.timer, "timer", {})
<1>1. /\ reporter' = [reporter EXCEPT !.timer = "none"] /\ tail' = Append(tail, task)
      /\ UNCHANGED <<server, storage, calls, answer, run, jobs, jpc>>
  BY DEF TimerFires, outside, store
<1>2. reporter \in Reporting /\ task \in Tasks /\ task.kind = reporter.timer
  BY DEF TimerFires, Inv, TypesOK, Reporting, Task, Tasks
<1> HIDE DEF task
<1>3. StoredOK' /\ UNCHANGED <<memory, disk, phase, next>>
  BY <1>1, StorageSilent
<1>4. /\ PlacesOK' /\ (Resending' <=> Resending)
      /\ tail # <<>> => tail' # <<>> /\ Head(tail') = Head(tail)
      /\ run.pc # "idle" => tail # <<>>
      /\ \A i \in DOMAIN tail' : tail'[i] = task \/ \E k \in DOMAIN tail : tail'[i] = tail[k]
  BY <1>1, <1>2, TailJoined
<1>5. reporter'.active = reporter.active /\ reporter'.timer = "none" /\ reporter'.unconfirmed = reporter.unconfirmed
  BY <1>1, <1>2 DEF Reporting
<1>6. SilentOK'
  BY <1>1, <1>2, <1>3, <1>4, <1>5 DEF Silence, SilentOK
<1>7. RecordedOK' /\ ErasedOK' /\ ForgetsOK'
  BY <1>1, <1>3, <1>4 DEF Silence, RecordedOK, ErasedOK, ForgetsOK, Deleting
<1>8. DoubtOK' /\ BatchOK'
  BY <1>1, <1>3, <1>4, <1>5 DEF Silence, DoubtOK, BatchOK, Certain, LeavesOpen
<1> QED BY <1>3, <1>4, <1>6, <1>7, <1>8 DEF Silence

(* While a batch may be under way, no withdrawal is recorded or is about to be,
   and the calls are those of jobs, which take no marker away. *)
LEMMA WhileSent ==
  ASSUME Inv, Silence, Carries, Sent
  PROVE  /\ memory.withdrawal = "none" /\ disk.withdrawal = "none" /\ next.withdrawal = "none"
         /\ Marked(memory, run.batch) /\ Marked(disk, run.batch) /\ Marked(next, run.batch)
         /\ \A i \in DOMAIN calls : calls[i].op \in JobOps
<1>1. \A i \in DOMAIN calls : calls[i].op \in JobOps
  BY SentCalls
<1>2. memory.withdrawal = "none"
  <2>1. CASE Head(tail).kind = "run"
    <3>1. Head(tail) = tail[1] /\ 1 \in DOMAIN tail
      BY Dropped DEF Carries, Inv, TypesOK
    <3> QED BY <2>1, <3>1 DEF Silence, SilentOK
  <2>2. CASE Head(tail).kind = "resend"
    BY <2>2 DEF Silence, SilentOK, Resending, Sent, Carries
  <2> QED BY <2>1, <2>2 DEF Carries
<1>3. ASSUME phase # "idle" PROVE next.withdrawal = "none"
  <2> DEFINE c == Head(calls)
  <2>1. calls # <<>> /\ Admitted(c, memory) /\ Changes(c, memory) /\ next = Result(c, memory) /\ Good(memory)
    BY <1>3 DEF Inv, WriteOK, Silence, StoredOK, GoodOK
  <2>2. c \in Calling /\ c.op \in JobOps
    BY <1>1, <2>1, OldestCall
  <2> QED BY <1>2, <2>1, <2>2, Withdrawing DEF JobOps
<1>4. disk.withdrawal = "none" /\ next.withdrawal = "none"
  BY <1>2, <1>3 DEF Silence, StoredOK, Inv, WriteOK
<1> QED BY <1>1, <1>2, <1>4 DEF Inv, MarkedOK

(* A request that is out carries a batch, or asks for the deletion. *)
LEMMA RequestOut ==
  ASSUME Inv, Silence, run.pc \in {"post", "answered"}
  PROVE  (Carries /\ Sent) \/ (run.pc = "answered" /\ Deleting /\ run.batch = {})
<1>1. tail # <<>> /\ Head(tail) \in Tasks
  BY Dropped DEF Inv, TypesOK, TailOK
<1> QED BY <1>1 DEF Tasks, Carries, Sent, Deleting, Silence, PlacesOK

LEMMA RecoveredMarks ==
  ASSUME NEW s
  PROVE  \A ids : Marked(s, ids) => ids \subseteq DOMAIN Recovered(s)
BY DEF Marked, Recovered

LEMMA CrashSilent ==
  ASSUME Inv, Silence, Crash
  PROVE  Silence'
<1> DEFINE out == IF run.pc \in {"post", "answered"} THEN run.batch ELSE {}
<1>1. /\ memory' = disk /\ next' = disk /\ disk' = disk /\ phase' = "idle" /\ calls' = <<>>
      /\ tail' = <<>> /\ run' = NoRun /\ jpc' = "idle" /\ reporter' = FreshReporter(disk)
  BY DEF Crash
<1>2. PICK taken \in IF run.pc = "post" THEN {{}, run.batch} ELSE {{}} :
        server' = [stored |-> server.stored \cup taken, ingested |-> server.ingested \cup taken,
                   doubt |-> (server.doubt \cup out) \cap Held(disk)]
  BY DEF Crash
<1>3. server'.stored = server.stored \cup taken /\ server'.doubt = (server.doubt \cup out) \cap Held(disk)
  BY <1>2
<1>4. Marked(disk, out) /\ (out # {} => disk.withdrawal = "none")
  BY RequestOut, WhileSent DEF Marked
<1>5. Marked(disk, server'.doubt)
  BY <1>3, <1>4 DEF Silence, DoubtOK, Marked
<1>6. ASSUME disk.withdrawal # "none" PROVE server'.doubt = {}
  <2>1. CASE memory.withdrawal # "none"
    BY <1>3, <1>4, <1>6, <2>1 DEF Silence, SilentOK
  <2>2. CASE memory.withdrawal = "none"
    <3> DEFINE c == Head(calls)
    <3>1. phase = "written" /\ disk = next
      BY <1>6, <2>2 DEF Silence, StoredOK, Inv, WriteOK
    <3>2. calls # <<>> /\ Admitted(c, memory) /\ Changes(c, memory) /\ disk = Result(c, memory) /\ Good(memory)
      BY <3>1 DEF Silence, StoredOK, Inv, WriteOK, GoodOK
    <3>3. c \in Calling
      BY <3>2, OldestCall
    <3>4. Held(disk) = {}
      BY <1>6, <2>2, <3>2, <3>3, Withdrawing
    <3> QED BY <1>3, <3>4
  <2> QED BY <2>1, <2>2
<1>7. Erased(disk, server'.stored)
  <2>1. CASE taken = {}
    BY <1>3, <2>1 DEF Silence, ErasedOK, Erased
  <2>2. CASE taken # {}
    <3>1. run.pc = "post" /\ out # {}
      BY <2>2
    <3> QED BY <1>4, <3>1 DEF Erased
  <2> QED BY <2>1, <2>2
<1> HIDE DEF out
<1>8. /\ reporter'.active = FALSE /\ reporter'.timer = "none" /\ reporter'.unconfirmed = Recovered(disk)
      /\ run'.pc = "idle" /\ run'.batch = {} /\ DOMAIN calls' = {} /\ DOMAIN tail' = {}
  BY <1>1, NoRunTriesNothing DEF FreshReporter
<1>9. StoredOK' /\ RecordedOK' /\ PlacesOK' /\ BatchOK' /\ ForgetsOK'
  BY <1>1, <1>8 DEF StoredOK, RecordedOK, PlacesOK, BatchOK, ForgetsOK, Deleting
<1>10. SilentOK' /\ ErasedOK'
  BY <1>1, <1>6, <1>7, <1>8 DEF SilentOK, ErasedOK, Resending
<1>11. DoubtOK'
  BY <1>1, <1>3, <1>5, <1>8, RecoveredMarks DEF DoubtOK, Marked, LeavesOpen
<1> QED BY <1>9, <1>10, <1>11 DEF Silence

----------------------------------------------------------------------------
(* The server's answers *)

(* The answer to a batch: the calls under way take no marker away, and no
   withdrawal is recorded. *)
LEMMA BatchAnswered ==
  ASSUME Inv, Silence, run.pc = "post", NEW response \in Responses,
         run' = [run EXCEPT !.pc = "answered", !.response = response],
         UNCHANGED <<storage, calls, answer, reporter, tail, jobs, jpc>>,
         server'.doubt \subseteq server.doubt \cup (IF response.kind = "unknown" THEN run.batch ELSE {}),
         response.kind = "committed" =>
           \/ run.batch \cap server'.doubt = {}
           \/ Uncounted(run.batch, response.rejected, response.accepted, response.duplicates)
  PROVE  Silence'
<1>1. StoredOK' /\ UNCHANGED <<memory, disk, phase, next>>
  BY StorageSilent
<1>2. Carries /\ Sent
  BY RequestOut
<1>3. /\ memory.withdrawal = "none" /\ disk.withdrawal = "none" /\ next.withdrawal = "none"
      /\ Marked(memory, run.batch) /\ Marked(disk, run.batch) /\ Marked(next, run.batch)
      /\ \A i \in DOMAIN calls : calls[i].op \in JobOps
  BY <1>2, WhileSent
<1>4. /\ run'.pc = "answered" /\ run'.batch = run.batch /\ run'.response = response /\ run'.previous = run.previous
  BY TaskUnderWay DEF Progress
<1>5. ~Deleting /\ Certain
  BY <1>2 DEF Carries, Deleting, Certain, LeavesOpen
<1>6. RecordedOK' /\ PlacesOK' /\ SilentOK' /\ ErasedOK'
  BY <1>1, <1>3, <1>4, <1>5 DEF Silence, RecordedOK, PlacesOK, SilentOK, ErasedOK, Erased, Deleting, JobOps
<1>7. DoubtOK'
  <2>1. LeavesOpen' <=> response.kind = "unknown"
    BY <1>4 DEF LeavesOpen
  <2>2. /\ server.doubt \subseteq Held(memory) /\ server.doubt \subseteq DOMAIN reporter.unconfirmed
        /\ \A s \in {memory, disk, next} : Marked(s, server.doubt \cap Held(s))
    BY <1>5 DEF Silence, DoubtOK, Certain
  <2>3. run.batch \subseteq Held(memory)
    BY <1>3 DEF Marked, Pending
  <2> QED BY <1>1, <1>3, <1>4, <2>1, <2>2, <2>3 DEF DoubtOK, Marked
<1>8. BatchOK'
  BY <1>1, <1>4, <1>5 DEF Silence, BatchOK, Certain, LeavesOpen
<1>9. ForgetsOK'
  BY <1>3 DEF ForgetsOK, ForgetsNothing, JobOps
<1> QED BY <1>1, <1>6, <1>7, <1>8, <1>9 DEF Silence

LEMMA ServerSilent ==
  ASSUME Inv, Silence, ServerStep
  PROVE  Silence'
<1>0. run \in Progress /\ run.batch \in SUBSET EventIds /\ NoResponse \in Responses
  BY TaskUnderWay, NoRunTyped
<1>1. CASE ServerIngests
  <2>1. PICK refused \in SUBSET run.batch, code \in {HostRejection, "ITEM_REFUSED"} :
          Responds([kind |-> "committed", accepted |-> Cardinality((run.batch \ refused) \ server.stored),
                    duplicates |-> Cardinality((run.batch \ refused) \cap server.stored),
                    rejected |-> [id \in refused |-> code]],
                   run.batch \ refused, server.doubt \ run.batch)
    BY <1>1 DEF ServerIngests
  <2> DEFINE kept == run.batch \ refused
             rejected == [id \in refused |-> code]
             response == [kind |-> "committed", accepted |-> Cardinality(kept \ server.stored),
                          duplicates |-> Cardinality(kept \cap server.stored), rejected |-> rejected]
  <2>2. refused \in SUBSET EventIds /\ rejected \in [refused -> {HostRejection, "ITEM_REFUSED"}]
    BY <1>0
  <2>3. rejected \in Refusals
    BY <2>2 DEF Refusals
  <2>4. Cardinality(kept \ server.stored) \in Nat /\ Cardinality(kept \cap server.stored) \in Nat
    BY <1>0, FS_Subset, FS_CardinalityType
  <2>5. Responds(response, kept, server.doubt \ run.batch)
    BY <2>1
  <2> HIDE DEF rejected
  <2>6. response \in Responses
    BY <2>3, <2>4 DEF Responses
  <2> HIDE DEF response, kept
  <2>7. /\ run' = [run EXCEPT !.pc = "answered", !.response = response]
        /\ server'.doubt = server.doubt \ run.batch
        /\ UNCHANGED <<storage, calls, answer, reporter, tail, jobs, jpc>> /\ run.pc = "post"
    BY <1>1, <2>5 DEF Responds, store, ServerIngests
  <2> QED BY <2>6, <2>7, BatchAnswered
<1>2. CASE ServerTroubles
  <2>1. PICK kind \in Unusable \cup {"unknown"}, taken \in {{}, run.batch} :
          Responds([NoResponse EXCEPT !.kind = kind], taken,
                   server.doubt \cup (IF kind = "unknown" THEN run.batch ELSE {}))
    BY <1>2 DEF ServerTroubles
  <2> DEFINE response == [NoResponse EXCEPT !.kind = kind]
  <2>2. response \in Responses /\ response.kind = kind /\ kind # "committed"
    BY <1>0 DEF Responses, Unusable
  <2>3. Responds(response, taken, server.doubt \cup (IF kind = "unknown" THEN run.batch ELSE {}))
    BY <2>1
  <2> HIDE DEF response
  <2>4. /\ run' = [run EXCEPT !.pc = "answered", !.response = response]
        /\ server'.doubt = server.doubt \cup (IF kind = "unknown" THEN run.batch ELSE {})
        /\ UNCHANGED <<storage, calls, answer, reporter, tail, jobs, jpc>> /\ run.pc = "post"
    BY <1>2, <2>3 DEF Responds, store, ServerTroubles
  <2> QED BY <2>2, <2>4, BatchAnswered
<1>3. CASE ServerMiscounts
  <2>1. PICK taken \in {{}, run.batch} :
          Responds([NoResponse EXCEPT !.kind = "committed", !.accepted = Cardinality(run.batch) + 1],
                   taken, server.doubt)
    BY <1>3 DEF ServerMiscounts
  <2> DEFINE counted == Cardinality(run.batch) + 1
             response == [NoResponse EXCEPT !.kind = "committed", !.accepted = counted]
  <2>2. counted \in Nat /\ Cardinality(run.batch) \in Nat
    BY <1>0, FS_Subset, FS_CardinalityType
  <2>3. NoResponse.rejected = NoMarkers /\ NoResponse.duplicates = 0 /\ run.batch \ DOMAIN NoMarkers = run.batch
    BY NoMarkersTyped DEF NoResponse
  <2>4. Responds(response, taken, server.doubt)
    BY <2>1
  <2>5. /\ response \in Responses /\ response.rejected = NoMarkers /\ response.duplicates = 0
        /\ response.accepted = counted
    <3> HIDE DEF counted
    <3>1. response \in Responses
      BY <1>0, <2>2 DEF Responses
    <3>2. response.rejected = NoResponse.rejected /\ response.duplicates = NoResponse.duplicates
      BY <1>0 DEF Responses
    <3>3. response.accepted = counted
      BY <1>0 DEF Responses
    <3> QED BY <2>3, <3>1, <3>2, <3>3
  <2> HIDE DEF response
  <2>6. Uncounted(run.batch, response.rejected, response.accepted, response.duplicates)
    <3>1. run.batch \ DOMAIN response.rejected = run.batch
      BY <2>3, <2>5
    <3>2. response.accepted = Cardinality(run.batch) + 1
      BY <2>5
    <3> HIDE DEF counted
    <3>3. response.accepted + response.duplicates # Cardinality(run.batch)
      BY <2>2, <2>5, <3>2
    <3> QED BY <3>1, <3>3 DEF Uncounted
  <2> HIDE DEF counted
  <2>7. /\ run' = [run EXCEPT !.pc = "answered", !.response = response]
        /\ server'.doubt = server.doubt
        /\ UNCHANGED <<storage, calls, answer, reporter, tail, jobs, jpc>> /\ run.pc = "post"
    BY <1>3, <2>4 DEF Responds, store, ServerMiscounts
  <2> QED BY <2>5, <2>6, <2>7, BatchAnswered
<1>4. CASE ServerDeletes
  <2>1. PICK kind \in {"deleted", "refused", "lost", "unknown"}, done \in BOOLEAN :
          /\ run' = [run EXCEPT !.pc = "answered", !.response.kind = kind]
          /\ server' = IF done THEN [server EXCEPT !.stored = {}] ELSE server
          /\ kind = "deleted" => done
    BY <1>4 DEF ServerDeletes
  <2>2. /\ run.pc = "delete" /\ UNCHANGED <<storage, calls, answer, reporter, tail, jobs, jpc>>
    BY <1>4 DEF ServerDeletes, store
  <2>3. run'.pc = "answered" /\ run'.batch = run.batch /\ run'.response.kind = kind
    BY <1>0, <2>1 DEF Progress, Responses
  <2>4. /\ server'.doubt = server.doubt /\ (server.stored = {} => server'.stored = {})
        /\ (kind = "deleted" => server'.stored = {})
        /\ server'.stored = {} \/ server'.stored = server.stored
    BY <2>1, TaskUnderWay
  <2>5. Deleting /\ run.batch = {} /\ ~LeavesOpen /\ Head(tail).kind = "withdrawal"
    <3>1. Deleting
      BY <2>2 DEF Inv, TailOK, Deleting
    <3> QED BY <2>2, <3>1 DEF Silence, PlacesOK, LeavesOpen, Deleting
  <2>6. StoredOK' /\ UNCHANGED <<memory, disk, phase, next>>
    BY <2>2, StorageSilent
  <2>7. RecordedOK' /\ PlacesOK' /\ SilentOK'
    BY <2>2, <2>3, <2>4, <2>5, <2>6 DEF Silence, RecordedOK, PlacesOK, SilentOK, Resending, Deleting
  <2>8. ErasedOK'
    BY <2>2, <2>3, <2>4, <2>6 DEF Silence, ErasedOK, Erased
  <2>9. DoubtOK' /\ ForgetsOK' /\ BatchOK'
    BY <2>2, <2>3, <2>4, <2>5, <2>6 DEF Silence, DoubtOK, ForgetsOK, BatchOK, LeavesOpen
  <2> QED BY <2>6, <2>7, <2>8, <2>9 DEF Silence
<1> QED BY <1>1, <1>2, <1>3, <1>4 DEF ServerStep

----------------------------------------------------------------------------
(* The sender's steps *)

(* A task that leaves takes no doubt with it, if this process still counts it. *)
LEMMA TaskOver ==
  ASSUME Inv, Silence, SenderGoes \/ SenderLeaves, LeaveTask, server.doubt \subseteq DOMAIN reporter'.unconfirmed
  PROVE  Silence'
<1>1. tail # <<>> /\ tail \in Seq(Tasks) /\ tail' = Tail(tail) /\ run' = NoRun
  BY DEF SenderGoes, SenderLeaves, Inv, TypesOK, LeaveTask
<1>2. tail' # tail
  BY <1>1
<1>3. SenderLeaves
  BY <1>2 DEF SenderGoes
<1>4. /\ UNCHANGED <<storage, calls>> /\ server' = server /\ Quiet(reporter')
      /\ answer' = [answer EXCEPT !["sender"] = "none"]
      /\ IF Head(tail).by = "job" THEN jpc' = "idle" ELSE UNCHANGED jpc
  BY <1>3 DEF SenderLeaves, AnswerRead, LeaveTask, EndJob
<1>5. StoredOK' /\ UNCHANGED <<memory, disk, phase, next>>
  BY <1>4, StorageSilent
<1>6. Head(tail).by = "job" => jpc = "task"
  <2>1. Head(tail) = tail[1] /\ 1 \in DOMAIN tail
    BY <1>1, Dropped
  <2> QED BY <2>1 DEF Inv, TailOK, No
<1>7. answer'["job"] = answer["job"] /\ run'.pc = "idle" /\ run'.batch = {}
  BY <1>1, <1>4, NoRunTriesNothing DEF Inv, TypesOK
<1>8. \A i \in DOMAIN tail' : \E k \in DOMAIN tail : tail'[i] = tail[k]
  BY <1>1, Entries
<1>9. RecordedOK' /\ PlacesOK'
  BY <1>4, <1>5, <1>6, <1>7 DEF Silence, RecordedOK, PlacesOK
<1>10. SilentOK'
  BY <1>4, <1>5, <1>7, <1>8 DEF Silence, SilentOK, Resending, Quiet
<1>11. ErasedOK' /\ DoubtOK' /\ BatchOK' /\ ForgetsOK'
  BY <1>4, <1>5, <1>7 DEF Silence, ErasedOK, DoubtOK, BatchOK, ForgetsOK, LeavesOpen, Certain
<1> QED BY <1>5, <1>9, <1>10, <1>11 DEF Silence

\* The call takes no marker of what is in doubt away, and records no deletion
\* the server did not confirm.
Discreet(c) ==
  /\ c \in Calling /\ c.by = "sender" /\ c.op \in SenderOps
  /\ ForgetsNothing(c, server.doubt)
  /\ c.op = "markWithdrawal" /\ c.code = "sent" => server.stored = {}

(* The task under way goes on. *)
LEMMA TaskOn ==
  ASSUME Inv, Silence, SenderGoes \/ SenderLeaves, tail' = tail, server' = server,
         run'.pc \notin {"idle", "answered"},
         calls' = calls \/ \E c \in Calling : Discreet(c) /\ calls' = Append(calls, c),
         server.doubt \subseteq DOMAIN reporter'.unconfirmed,
         Deleting => run'.batch = {} /\ run'.pc \in {"delete", "mark"},
         Head(tail).kind = "run" /\ run'.pc # "hold" => run'.batch \cap server.doubt = {},
         Head(tail).kind = "resend" =>
           /\ memory.withdrawal = "none"
           /\ run'.pc # "hold" => run'.batch \cap server.doubt \subseteq DOMAIN run'.previous
  PROVE  Silence'
<1>1. tail # <<>> /\ tail \in Seq(Tasks)
  BY DEF SenderGoes, SenderLeaves, Inv, TypesOK
<1>2. SenderGoes
  <2>1. Tail(tail) # tail
    BY <1>1
  <2> QED BY <2>1 DEF SenderLeaves, LeaveTask
<1>3. /\ UNCHANGED <<storage, tail, jobs, jpc>> /\ Quiet(reporter')
      /\ answer' = [answer EXCEPT !["sender"] = "none"]
  BY <1>2 DEF SenderGoes, AnswerRead
<1>4. StoredOK' /\ UNCHANGED <<memory, disk, phase, next>>
  BY <1>3, StorageSilent
<1>5. answer'["job"] = answer["job"]
  BY <1>3 DEF Inv, TypesOK
<1>6. /\ \A i \in DOMAIN calls' : (\E k \in DOMAIN calls : calls'[i] = calls[k]) \/ Discreet(calls'[i])
  <2>1. CASE calls' = calls
    BY <2>1
  <2>2. CASE \E c \in Calling : Discreet(c) /\ calls' = Append(calls, c)
    <3>1. PICK c \in Calling : Discreet(c) /\ calls' = Append(calls, c)
      BY <2>2
    <3>2. \A i \in DOMAIN calls' : calls'[i] = c \/ \E k \in DOMAIN calls : calls'[i] = calls[k]
      BY <3>1, Entries DEF Inv, TypesOK
    <3> QED BY <3>1, <3>2
  <2> QED BY <2>1, <2>2
<1>7. RecordedOK'
  BY <1>3, <1>4, <1>5, <1>6 DEF Silence, RecordedOK, Discreet, SenderOps
<1>8. PlacesOK'
  BY <1>1 DEF PlacesOK, Deleting
<1>9. SilentOK'
  BY <1>3, <1>4 DEF Silence, SilentOK, Resending, Quiet
<1>10. ErasedOK'
  BY <1>4, <1>6 DEF Silence, ErasedOK, Discreet
<1>11. DoubtOK' /\ BatchOK'
  BY <1>4 DEF Silence, DoubtOK, BatchOK, LeavesOpen, Certain
<1>12. ForgetsOK'
  BY <1>6 DEF Silence, ForgetsOK, Discreet
<1> QED BY <1>4, <1>7, <1>8, <1>9, <1>10, <1>11, <1>12 DEF Silence

(* What is in doubt is pending, and counted until the next answer comes. *)
LEMMA KnownDoubt ==
  ASSUME Inv, Silence
  PROVE  /\ server.doubt \subseteq Pending(memory)
         /\ ~LeavesOpen => server.doubt \subseteq DOMAIN reporter.unconfirmed
                           /\ server.doubt \subseteq DOMAIN Pruned.unconfirmed
         /\ DOMAIN Pruned.unconfirmed = DOMAIN reporter.unconfirmed \cap Pending(memory)
<1>1. server.doubt \subseteq Pending(memory)
  BY DEF Silence, DoubtOK, Marked
<1>2. DOMAIN Pruned.unconfirmed = DOMAIN reporter.unconfirmed \cap Pending(memory)
  <2> DEFINE m == [id \in DOMAIN reporter.unconfirmed \cap Pending(memory) |-> reporter.unconfirmed[id]]
  <2>1. Pruned = [reporter EXCEPT !.unconfirmed = m] /\ DOMAIN m = DOMAIN reporter.unconfirmed \cap Pending(memory)
    BY DEF Pruned
  <2> HIDE DEF m
  <2> QED BY <2>1 DEF Inv, TypesOK, Reporting
<1> QED BY <1>1, <1>2 DEF Silence, DoubtOK

(* What changes of the reporter while the outcomes it does not know stay. *)
LEMMA SameUnconfirmed ==
  ASSUME NEW r \in Reporting
  PROVE  /\ Stopped(r).unconfirmed = r.unconfirmed /\ Armed(r).unconfirmed = r.unconfirmed
         /\ \A b \in BOOLEAN : /\ [r EXCEPT !.failed = b].unconfirmed = r.unconfirmed
                               /\ [r EXCEPT !.settings = b].unconfirmed = r.unconfirmed
         /\ \A b : [r EXCEPT !.timer = b].unconfirmed = r.unconfirmed
BY DEF Stopped, Armed, Reporting

LEMMA HoldingKnows ==
  ASSUME NEW r \in Reporting, NEW ids, NEW code
  PROVE  DOMAIN Holding(r, ids, code).unconfirmed = DOMAIN r.unconfirmed \cup ids
<1> DEFINE m == [id \in DOMAIN r.unconfirmed \cup ids |-> IF id \in ids THEN code ELSE r.unconfirmed[id]]
<1>1. Stopped(r).unconfirmed = r.unconfirmed /\ Stopped(r) \in Reporting
  BY SameUnconfirmed, StoppedTyped
<1>2. Holding(r, ids, code) = [Stopped(r) EXCEPT !.unconfirmed = m] /\ DOMAIN m = DOMAIN r.unconfirmed \cup ids
  BY <1>1 DEF Holding
<1> HIDE DEF m
<1> QED BY <1>1, <1>2 DEF Reporting

LEMMA RunOver ==
  ASSUME Inv, Silence, SenderGoes \/ SenderLeaves, NEW r \in Reporting, EndRun(r) \/ EndRunBackoff(r),
         server.doubt \subseteq DOMAIN r.unconfirmed
  PROVE  Silence'
<1>1. LeaveTask /\ reporter'.unconfirmed = r.unconfirmed
  BY SameUnconfirmed DEF EndRun, EndRunBackoff
<1> QED BY <1>1, TaskOver

LEMMA AutomaticSilent ==
  ASSUME Inv, Silence, AutomaticStep
  PROVE  Silence'
<1> USE DEF outside, store, At
<1>0. /\ SenderGoes \/ SenderLeaves
      /\ reporter \in Reporting /\ Pruned \in Reporting /\ run \in Progress /\ run.batch \in SUBSET EventIds
      /\ Stopped(reporter) \in Reporting
  BY AutomaticSteps, TaskUnderWay, PrunedTyped, StoppedTyped
<1>1. tail # <<>> /\ Head(tail).kind = "run" /\ run.pc # "answered" /\ ~Deleting
  BY DEF AutomaticStep, RunGated, RunUnregistered, RunBegin, RunSettingsFail, RunSettingsOk,
         RunIntentLost, RunIntentKept, RunIntentTakenBack, RunUndone, RunPersistenceFailure, RunPost,
         RunApplied, RunFailed, RunHeldUnknown, Deleting
<1>2. /\ server.doubt \subseteq DOMAIN reporter.unconfirmed /\ server.doubt \subseteq DOMAIN Pruned.unconfirmed
      /\ server.doubt \subseteq Pending(memory)
      /\ run.pc \notin {"idle", "hold"} => run.batch \cap server.doubt = {}
  BY <1>1, KnownDoubt DEF LeavesOpen, Silence, BatchOK, Certain
<1>3. CASE RunGated \/ RunUnregistered \/ RunApplied
  BY <1>0, <1>2, <1>3, RunOver DEF RunGated, RunUnregistered, RunApplied
<1>4. CASE RunSettingsFail
  <2>1. [reporter EXCEPT !.settings = FALSE] \in Reporting
    BY <1>0 DEF Reporting
  <2> QED BY <1>0, <1>2, <1>4, <2>1, SameUnconfirmed, RunOver DEF RunSettingsFail
<1>5. CASE RunIntentLost
  <2>1. [Stopped(reporter) EXCEPT !.failed = TRUE] \in Reporting
    BY <1>0 DEF Reporting
  <2> QED BY <1>0, <1>2, <1>5, <2>1, SameUnconfirmed, RunOver DEF RunIntentLost
<1>6. CASE RunUndone \/ RunFailed
  BY <1>0, <1>2, <1>6, SameUnconfirmed, RunOver DEF RunUndone, RunFailed
<1>7. CASE RunPersistenceFailure
  <2> DEFINE h == Holding(reporter, run.batch, Intent)
  <2>1. h \in Reporting /\ DOMAIN h.unconfirmed = DOMAIN reporter.unconfirmed \cup run.batch
    BY <1>0, HoldingTyped, HoldingKnows DEF Markers
  <2>2. EndRun([h EXCEPT !.failed = TRUE])
    BY <1>7 DEF RunPersistenceFailure
  <2> HIDE DEF h
  <2>3. [h EXCEPT !.failed = TRUE] \in Reporting
    BY <2>1 DEF Reporting
  <2> QED BY <1>0, <1>2, <2>1, <2>2, <2>3, SameUnconfirmed, RunOver
<1>8. CASE RunHeldUnknown
  <2> DEFINE failed == reporter.failed \/ answer["sender"] \in Errors
  <2>1. failed \in BOOLEAN /\ EndRun([reporter EXCEPT !.failed = failed])
    BY <1>0, <1>8 DEF RunHeldUnknown, Reporting
  <2> HIDE DEF failed
  <2>2. [reporter EXCEPT !.failed = failed] \in Reporting
    BY <1>0, <2>1 DEF Reporting
  <2> QED BY <1>0, <1>2, <2>1, <2>2, SameUnconfirmed, RunOver
<1>9. CASE RunBegin
  <2>1. PICK b : GoOn([NoRun EXCEPT !.pc = "settings", !.batch = b])
    BY <1>9 DEF RunBegin
  <2>2. run'.pc = "settings" /\ UNCHANGED tail /\ server' = server /\ calls' = calls /\ reporter' = Pruned
    BY <1>9, <2>1, NoRunTyped DEF GoOn, Progress, RunBegin
  <2>3. server.doubt = {}
    BY <1>2, <1>9 DEF RunBegin, Blocked
  <2> QED BY <1>0, <1>1, <2>2, <2>3, TaskOn
<1>10. ASSUME NEW pc \in SenderPlaces, pc \notin {"idle", "answered"}, GoTo(pc), run.pc \notin {"idle", "hold"},
              reporter'.unconfirmed = reporter.unconfirmed, server' = server,
              calls' = calls \/ \E c \in Calling : Discreet(c) /\ calls' = Append(calls, c)
       PROVE  Silence'
  <2>1. run'.pc = pc /\ run'.batch = run.batch /\ UNCHANGED tail
    BY <1>10, WentTo
  <2> QED BY <1>0, <1>1, <1>2, <1>10, <2>1, TaskOn
<1>11. ASSUME NEW op \in {"intent", "undoIntent"}, run.pc \notin {"idle", "hold"}
       PROVE  Discreet(Call("sender", op, run.batch)) /\ Call("sender", op, run.batch) \in Calling
  <2> DEFINE c == Call("sender", op, run.batch)
  <2>1. c \in Calling /\ c.by = "sender" /\ c.op \in SenderOps /\ c.op = op /\ c.ids = run.batch
    BY <1>0, SenderCall DEF Sendable
  <2> HIDE DEF c
  <2>2. Discreet(c)
    BY <1>2, <1>11, <2>1 DEF Discreet, ForgetsNothing
  <2> QED BY <2>1, <2>2 DEF c
<1>12. CASE RunSettingsOk
  <2> DEFINE r == [reporter EXCEPT !.settings = TRUE]
  <2>1. r \in Reporting /\ r.unconfirmed = reporter.unconfirmed
    BY <1>0 DEF Reporting
  <2>2. Stopped(r) \in Reporting /\ Stopped(r).unconfirmed = r.unconfirmed
    BY <2>1, StoppedTyped, SameUnconfirmed
  <2>3. CASE EndRun(r) \/ EndRun(Stopped(r))
    BY <1>0, <1>2, <2>1, <2>2, <2>3, RunOver
  <2>4. CASE Ask(Call("sender", "intent", run.batch)) /\ GoTo("intent") /\ reporter' = r
    <3>1. "intent" \in SenderPlaces /\ server' = server /\ run.pc = "settings"
      BY <1>12 DEF RunSettingsOk, SenderPlaces, SenderWaits
    <3> HIDE DEF r
    <3> QED BY <1>10, <1>11, <2>1, <2>4, <3>1 DEF Ask
  <2> QED BY <1>12, <2>3, <2>4 DEF RunSettingsOk
<1>13. CASE RunIntentKept
  <2>1. "sign" \in SenderPlaces
    BY DEF SenderPlaces
  <2> QED BY <1>10, <1>13, <2>1 DEF RunIntentKept, Hears
<1>14. CASE RunIntentTakenBack
  <2>1. "undo" \in SenderPlaces
    BY DEF SenderPlaces, SenderWaits
  <2> QED BY <1>10, <1>11, <1>14, <2>1 DEF RunIntentTakenBack, HearsAndAsks
<1>15. CASE RunPost
  <2>1. "post" \in SenderPlaces
    BY DEF SenderPlaces
  <2> QED BY <1>10, <1>15, <2>1 DEF RunPost
<1> QED BY <1>3, <1>4, <1>5, <1>6, <1>7, <1>8, <1>9, <1>12, <1>13, <1>14, <1>15 DEF AutomaticStep

----------------------------------------------------------------------------
(* What the sender makes of an answer *)

LEMMA FailureDiscreet ==
  ASSUME Inv, Carries,
         Head(tail).kind = "run" => run.batch \cap server.doubt = {},
         Head(tail).kind = "resend" => run.batch \cap server.doubt \subseteq DOMAIN run.previous
  PROVE  FailureCall \in Calling /\ Discreet(FailureCall)
<1>1. Sendable(FailureCall)
  BY FailureCallSent
<1>2. CASE Head(tail).kind = "run"
  <2>1. FailureCall.op = "attempts" /\ FailureCall.ids = run.batch
    BY <1>2, SenderCall, TaskUnderWay DEF FailureCall
  <2> QED BY <1>1, <1>2, <2>1 DEF Discreet, Sendable, ForgetsNothing
<1>3. CASE Head(tail).kind = "resend"
  <2> DEFINE plain == Call("sender", "resendFailure", run.batch)
             c == [plain EXCEPT !.marks = run.previous]
  <2>1. plain \in Calling /\ plain.op = "resendFailure" /\ plain.ids = run.batch
    BY TaskUnderWay, CallTyped DEF BufferOps
  <2> HIDE DEF plain
  <2>2. c.op = "resendFailure" /\ c.ids = run.batch /\ c.marks = run.previous
    BY <2>1 DEF Calling
  <2>3. FailureCall = c
    BY <1>3 DEF FailureCall, plain
  <2> HIDE DEF c
  <2> QED BY <1>1, <1>3, <2>2, <2>3 DEF Discreet, Sendable, ForgetsNothing
<1> QED BY <1>2, <1>3 DEF Carries

(* The answer is passed to the buffer: the batch stays what it is. *)
LEMMA AnswerOn ==
  ASSUME Inv, Silence, Carries, SenderGoes, NEW pc \in SenderPlaces, pc \notin {"idle", "answered"},
         run.pc # "idle", GoTo(pc), server' = server, server.doubt \subseteq DOMAIN reporter'.unconfirmed,
         pc # "hold" => Certain,
         NEW c \in Calling, Discreet(c), calls' = Append(calls, c)
  PROVE  Silence'
<1>1. run'.pc = pc /\ run'.batch = run.batch /\ run'.previous = run.previous /\ tail' = tail
  BY WentTo, TaskUnderWay DEF GoTo, GoOn, Progress
<1>2. ~Deleting
  BY DEF Carries, Deleting
<1>3. Head(tail).kind = "resend" => memory.withdrawal = "none"
  BY DEF Silence, SilentOK, Resending, Carries
<1>4. /\ Head(tail).kind = "run" /\ pc # "hold" => run.batch \cap server.doubt = {}
      /\ Head(tail).kind = "resend" /\ pc # "hold" => run.batch \cap server.doubt \subseteq DOMAIN run.previous
  BY DEF Silence, BatchOK, Carries
<1> QED BY <1>1, <1>2, <1>3, <1>4, TaskOn

LEMMA AnswerSilent ==
  ASSUME Inv, Silence, AnswerStep
  PROVE  Silence'
<1> USE DEF outside, store, At, Sending
<1>0. SenderGoes /\ Carries /\ run.pc # "idle" /\ run.batch \in SUBSET EventIds /\ reporter \in Reporting
  BY AnswerSteps, TaskUnderWay DEF AnswerStep, SignFails, AnswerCommitted, AnswerUnknown, AnswerUnusable,
     AnswerMiscounted, Carries
<1>1. CASE SignFails \/ AnswerUnusable \/ AnswerMiscounted
  <2>1. /\ calls' = Append(calls, FailureCall) /\ GoTo("fail") /\ UNCHANGED <<server, reporter>>
        /\ run.pc \in {"sign", "apply"} \/ (run.pc = "answered" /\ run.response.kind \in Unusable)
    BY <1>1 DEF SignFails, AnswerUnusable, AnswerMiscounted, Ask, HearsAndAsks
  <2>2. Certain /\ ~LeavesOpen
    BY <2>1 DEF Certain, LeavesOpen, Unusable
  <2>3. FailureCall \in Calling /\ Discreet(FailureCall)
    BY <1>0, <2>2, FailureDiscreet DEF Silence, BatchOK, Carries
  <2>4. "fail" \in SenderPlaces /\ server.doubt \subseteq DOMAIN reporter.unconfirmed
    BY <2>2, KnownDoubt DEF SenderPlaces, SenderWaits
  <2> QED BY <1>0, <2>1, <2>2, <2>3, <2>4, AnswerOn
<1>2. CASE AnswerCommitted
  <2> DEFINE c == [Call("sender", "apply", run.batch) EXCEPT
                     !.accepted = run.response.accepted, !.duplicates = run.response.duplicates,
                     !.marks = run.response.rejected]
  <2>1. /\ calls' = Append(calls, c) /\ GoTo("apply") /\ UNCHANGED <<server, reporter>>
        /\ run.pc = "answered" /\ run.response.kind = "committed"
    BY <1>2 DEF AnswerCommitted, Ask
  <2>2. Certain /\ ~LeavesOpen
    BY <2>1 DEF Certain, LeavesOpen
  <2>3. Sendable(c)
    BY <2>1, ApplyCallSent
  <2>4. /\ c.op = "apply" /\ c.ids = run.batch /\ c.accepted = run.response.accepted
        /\ c.duplicates = run.response.duplicates /\ c.marks = run.response.rejected
    <3> DEFINE plain == Call("sender", "apply", run.batch)
    <3>1. plain \in Calling /\ plain.op = "apply" /\ plain.ids = run.batch
      BY TaskUnderWay, CallTyped DEF BufferOps
    <3> HIDE DEF plain
    <3>2. c = [plain EXCEPT !.accepted = run.response.accepted, !.duplicates = run.response.duplicates,
                            !.marks = run.response.rejected]
      BY DEF plain
    <3> QED BY <3>1, <3>2 DEF Calling
  <2> HIDE DEF c
  <2>5. Discreet(c) /\ c \in Calling
    BY <2>1, <2>3, <2>4 DEF Discreet, Sendable, ForgetsNothing, Silence, BatchOK
  <2>6. "apply" \in SenderPlaces /\ server.doubt \subseteq DOMAIN reporter.unconfirmed
    BY <2>2, KnownDoubt DEF SenderPlaces, SenderWaits
  <2> QED BY <1>0, <2>1, <2>2, <2>5, <2>6, AnswerOn
<1>3. CASE AnswerUnknown
  <2> DEFINE c == [Call("sender", "attempts", run.batch) EXCEPT !.code = Unknown]
  <2>1. /\ calls' = Append(calls, c) /\ GoTo("hold") /\ UNCHANGED server
        /\ reporter' = Holding(reporter, run.batch, Unknown)
    BY <1>3 DEF AnswerUnknown, Ask
  <2>2. Sendable(c)
    BY UnknownCallSent
  <2>3. c.op = "attempts" /\ c.code = Unknown
    <3> DEFINE plain == Call("sender", "attempts", run.batch)
    <3>1. plain \in Calling /\ plain.op = "attempts"
      BY TaskUnderWay, CallTyped DEF BufferOps
    <3> HIDE DEF plain
    <3>2. c = [plain EXCEPT !.code = Unknown]
      BY DEF plain
    <3> QED BY <3>1, <3>2 DEF Calling
  <2> HIDE DEF c
  <2>4. Discreet(c) /\ c \in Calling
    BY <2>2, <2>3 DEF Discreet, Sendable, ForgetsNothing, Unknown
  <2>5. "hold" \in SenderPlaces /\ server.doubt \subseteq DOMAIN reporter'.unconfirmed
    <3>1. DOMAIN reporter'.unconfirmed = DOMAIN reporter.unconfirmed \cup run.batch
      BY <1>0, <2>1, HoldingKnows
    <3> QED BY <3>1 DEF Silence, DoubtOK, SenderPlaces, SenderWaits
  <2> QED BY <1>0, <2>1, <2>4, <2>5, AnswerOn
<1> QED BY <1>1, <1>2, <1>3 DEF AnswerStep

(* What the explicit sender may change of the outcomes it does not know. *)
LEMMA NewUnconfirmed ==
  ASSUME NEW r \in Reporting, NEW D, NEW m, DOMAIN m = D
  PROVE  [r EXCEPT !.unconfirmed = m].unconfirmed = m
BY DEF Reporting

LEMMA ResendSilent ==
  ASSUME Inv, Silence, ResendStep
  PROVE  Silence'
<1> USE DEF outside, store, At
<1>0. /\ SenderGoes \/ SenderLeaves
      /\ reporter \in Reporting /\ Pruned \in Reporting /\ run \in Progress /\ run.batch \in SUBSET EventIds
  BY ResendSteps, TaskUnderWay, PrunedTyped
<1>1. tail # <<>> /\ Head(tail).kind = "resend" /\ run.pc # "answered" /\ ~Deleting /\ server' = server
  BY DEF ResendStep, ResendRefused, ResendAccepted, ResendOver, ResendBatch, ResendPersistenceFailure,
         ResendIntentKept, ResendPost, ResendApplied, ResendFailed, ResendHeldUnknown, ResendNext, Deleting
<1>2. /\ server.doubt \subseteq DOMAIN reporter.unconfirmed /\ server.doubt \subseteq DOMAIN Pruned.unconfirmed
      /\ run.pc \notin {"idle", "hold"} => run.batch \cap server.doubt \subseteq DOMAIN run.previous
  BY <1>1, KnownDoubt DEF LeavesOpen, Silence, BatchOK, Certain
<1>3. run.pc # "idle" => memory.withdrawal = "none"
  BY <1>1 DEF Silence, SilentOK, Resending
<1>4. CASE ResendRefused
  BY <1>0, <1>2, <1>4, TaskOver DEF ResendRefused
<1>5. CASE ResendAccepted
  <2>1. reporter'.unconfirmed = Pruned.unconfirmed /\ memory.withdrawal = "none"
    BY <1>0, <1>5, SameUnconfirmed DEF ResendAccepted, Resendable
  <2>2. CASE LeaveTask
    BY <1>0, <1>2, <2>1, <2>2, TaskOver
  <2>3. CASE GoOn([NoRun EXCEPT !.pc = "next", !.selected = Head(tail).ids])
    <3>1. run'.pc = "next" /\ run'.batch = {} /\ tail' = tail /\ calls' = calls
      BY <1>5, <2>3, NoRunTyped DEF GoOn, Progress, ResendAccepted
    <3> QED BY <1>0, <1>1, <1>2, <2>1, <3>1, TaskOn
  <2> QED BY <1>5, <2>2, <2>3 DEF ResendAccepted
<1>6. CASE ResendOver
  BY <1>0, <1>2, <1>6, TaskOver DEF ResendOver
<1>7. CASE ResendBatch
  <2>1. PICK b \in Batches(run.selected \cap Pending(memory)) :
          /\ Ask(Call("sender", "resendIntent", b))
          /\ GoOn([run EXCEPT !.pc = "intent", !.batch = b,
                     !.previous = [id \in b \cap DOMAIN reporter.unconfirmed |-> reporter.unconfirmed[id]]])
    BY <1>7 DEF ResendBatch
  <2> DEFINE c == Call("sender", "resendIntent", b)
             previous == [id \in b \cap DOMAIN reporter.unconfirmed |-> reporter.unconfirmed[id]]
  <2>2. b \in SUBSET EventIds
    BY <1>0, <2>1 DEF Batches, Progress
  <2>3. Sendable(c) /\ c.op = "resendIntent" /\ calls' = Append(calls, c)
    BY <2>1, <2>2, SenderCall DEF Ask
  <2>4. run' = [run EXCEPT !.pc = "intent", !.batch = b, !.previous = previous] /\ tail' = tail
        /\ DOMAIN previous = b \cap DOMAIN reporter.unconfirmed
    BY <2>1 DEF GoOn
  <2> HIDE DEF c, previous
  <2>5. run'.pc = "intent" /\ run'.batch = b /\ run'.previous = previous
    BY <1>0, <2>4 DEF Progress
  <2>6. c \in Calling /\ Discreet(c)
    BY <2>3 DEF Discreet, Sendable, ForgetsNothing
  <2>7. reporter' = reporter /\ memory.withdrawal = "none"
    BY <1>7 DEF ResendBatch, Ready
  <2> QED BY <1>0, <1>1, <1>2, <2>3, <2>4, <2>5, <2>6, <2>7, TaskOn
<1>8. CASE ResendPersistenceFailure
  <2>1. reporter' = [reporter EXCEPT !.failed = TRUE] /\ LeaveTask
    BY <1>8 DEF ResendPersistenceFailure
  <2> QED BY <1>0, <1>2, <2>1, SameUnconfirmed, TaskOver
<1>9. CASE ResendIntentKept
  <2> DEFINE D == DOMAIN reporter.unconfirmed \cup run.batch
             m == [id \in D |-> IF id \in DOMAIN reporter.unconfirmed THEN reporter.unconfirmed[id] ELSE Intent]
  <2>1. reporter' = [reporter EXCEPT !.unconfirmed = m] /\ calls' = calls /\ run.pc = "intent"
    BY <1>9 DEF ResendIntentKept, Hears
  <2>2. DOMAIN m = D
    OBVIOUS
  <2> HIDE DEF m
  <2>3. reporter'.unconfirmed = m
    BY <1>0, <2>1, <2>2, NewUnconfirmed
  <2>4. server.doubt \subseteq DOMAIN reporter'.unconfirmed
    BY <1>2, <2>2, <2>3
  <2>5. CASE LeaveTask
    BY <1>0, <2>4, <2>5, TaskOver
  <2>6. CASE GoTo("sign")
    <3>1. run'.pc = "sign" /\ run'.batch = run.batch /\ run'.previous = run.previous /\ tail' = tail
      BY <1>0, <2>6 DEF GoTo, GoOn, Progress
    <3> QED BY <1>0, <1>1, <1>2, <1>3, <2>1, <2>4, <3>1, TaskOn
  <2> QED BY <1>9, <2>5, <2>6 DEF ResendIntentKept
<1>10. CASE ResendPost
  <2>1. CASE LeaveTask
    BY <1>0, <1>2, <1>10, <2>1, TaskOver DEF ResendPost
  <2>2. CASE GoTo("post")
    <3>1. run'.pc = "post" /\ run'.batch = run.batch /\ run'.previous = run.previous /\ tail' = tail
      BY <1>0, <2>2 DEF GoTo, GoOn, Progress
    <3>2. calls' = calls /\ reporter' = reporter /\ run.pc = "sign"
      BY <1>10 DEF ResendPost
    <3> QED BY <1>0, <1>1, <1>2, <1>3, <3>1, <3>2, TaskOn
  <2> QED BY <1>10, <2>1, <2>2 DEF ResendPost
<1>11. ASSUME NEW r, ResendNext(r), Hears("sender", {"ok"}), run.pc # "idle", server.doubt \subseteq DOMAIN r.unconfirmed
       PROVE  Silence'
  <2>1. run'.pc = "next" /\ run'.batch = {} /\ tail' = tail /\ calls' = calls /\ reporter' = r
    BY <1>11, NoRunTyped DEF ResendNext, GoOn, Progress, Hears
  <2> QED BY <1>0, <1>1, <1>3, <1>11, <2>1, TaskOn
<1>12. CASE ResendApplied
  BY <1>2, <1>11, <1>12 DEF ResendApplied
<1>13. CASE ResendFailed
  <2> DEFINE D == DOMAIN reporter.unconfirmed \ (run.batch \ DOMAIN run.previous)
             m == [id \in D |-> reporter.unconfirmed[id]]
  <2>1. Hears("sender", {"ok"}) /\ ResendNext([reporter EXCEPT !.unconfirmed = m]) /\ run.pc = "fail"
    BY <1>13 DEF ResendFailed
  <2>2. DOMAIN m = D /\ server.doubt \subseteq D
    BY <1>2, <2>1
  <2> HIDE DEF m
  <2>3. [reporter EXCEPT !.unconfirmed = m].unconfirmed = m
    BY <1>0, <2>2, NewUnconfirmed
  <2> QED BY <1>11, <2>1, <2>2, <2>3
<1>14. CASE ResendHeldUnknown
  BY <1>2, <1>11, <1>14 DEF ResendHeldUnknown
<1> QED BY <1>4, <1>5, <1>6, <1>7, <1>8, <1>9, <1>10, <1>12, <1>13, <1>14 DEF ResendStep

(* A deletion is marked as sent only when the server confirmed it. *)
LEMMA MarkDiscreet ==
  ASSUME NEW outcome \in WithdrawalStates \ {"none"}, outcome = "sent" => server.stored = {}
  PROVE  MarkWithdrawalCall(outcome) \in Calling /\ Discreet(MarkWithdrawalCall(outcome))
<1> DEFINE plain == Call("sender", "markWithdrawal", {})
           c == [plain EXCEPT !.code = outcome]
<1>1. plain \in Calling /\ plain.op = "markWithdrawal"
  BY CallTyped DEF BufferOps
<1> HIDE DEF plain
<1>2. c.op = "markWithdrawal" /\ c.code = outcome
  BY <1>1 DEF Calling
<1>3. Sendable(c) /\ c = MarkWithdrawalCall(outcome)
  BY MarkCallSent DEF MarkWithdrawalCall, plain
<1> HIDE DEF c
<1> QED BY <1>2, <1>3 DEF Discreet, Sendable, ForgetsNothing

LEMMA WithdrawalSilent ==
  ASSUME Inv, Silence, WithdrawalStep
  PROVE  Silence'
<1> USE DEF outside, store, At
<1>0. /\ SenderGoes \/ SenderLeaves
      /\ reporter \in Reporting /\ run \in Progress /\ run.response \in Responses
  BY WithdrawalSteps, TaskUnderWay
<1>1. tail # <<>> /\ Head(tail).kind = "withdrawal" /\ Deleting /\ server' = server
  BY DEF WithdrawalStep, WithdrawalSettled, WithdrawalOffline, WithdrawalSend, WithdrawalAnswered, WithdrawalMarked,
         WithdrawalUnmarked, Deleting
<1>2. run.batch = {} /\ server.doubt \subseteq DOMAIN reporter.unconfirmed
  BY <1>1 DEF Silence, PlacesOK, DoubtOK
<1>3. ASSUME NEW pc \in {"delete", "mark"}, run'.pc = pc, run'.batch = {}, tail' = tail,
             reporter'.unconfirmed = reporter.unconfirmed,
             calls' = calls \/ \E c \in Calling : Discreet(c) /\ calls' = Append(calls, c)
      PROVE  Silence'
  BY <1>0, <1>1, <1>2, <1>3, TaskOn
<1>4. CASE WithdrawalSettled \/ WithdrawalUnmarked
  BY <1>0, <1>2, <1>4, TaskOver DEF WithdrawalSettled, WithdrawalUnmarked
<1>5. CASE WithdrawalMarked
  <2>1. \/ reporter' = Stopped(reporter)
        \/ \E timer \in {"none", "withdrawal"} : reporter' = [reporter EXCEPT !.timer = timer]
    BY <1>5 DEF WithdrawalMarked
  <2>2. reporter'.unconfirmed = reporter.unconfirmed /\ LeaveTask
    BY <1>0, <1>5, <2>1, SameUnconfirmed DEF WithdrawalMarked
  <2> QED BY <1>0, <1>2, <2>2, TaskOver
<1>6. CASE WithdrawalOffline
  <2> DEFINE c == MarkWithdrawalCall("offline")
  <2>1. /\ calls' = Append(calls, c) /\ reporter' = reporter /\ tail' = tail
        /\ run' = [run EXCEPT !.pc = "mark", !.response.kind = "offline"]
    BY <1>6 DEF WithdrawalOffline, Ask, GoOn
  <2>2. c \in Calling /\ Discreet(c)
    BY MarkDiscreet DEF WithdrawalStates
  <2> HIDE DEF c
  <2>3. run'.pc = "mark" /\ run'.batch = {}
    BY <1>0, <1>2, <2>1 DEF Progress
  <2> QED BY <1>3, <2>1, <2>2, <2>3
<1>7. CASE WithdrawalSend
  <2>1. run'.pc = "delete" /\ run'.batch = {} /\ tail' = tail /\ calls' = calls /\ reporter' = reporter
    BY <1>0, <1>2, <1>7 DEF WithdrawalSend, GoTo, GoOn, Progress
  <2> QED BY <1>3, <2>1
<1>8. CASE WithdrawalAnswered
  <2>1. PICK outcome \in {"sent", "unconfirmed", "pending"} :
          /\ Ask(MarkWithdrawalCall(outcome)) /\ GoTo("mark")
          /\ outcome = "sent" => run.response.kind = "deleted"
    BY <1>8 DEF WithdrawalAnswered
  <2> DEFINE c == MarkWithdrawalCall(outcome)
  <2>2. outcome = "sent" => server.stored = {}
    BY <1>1, <1>8, <2>1 DEF WithdrawalAnswered, Silence, ErasedOK
  <2>3. c \in Calling /\ Discreet(c) /\ calls' = Append(calls, c)
    BY <2>1, <2>2, MarkDiscreet DEF WithdrawalStates, Ask
  <2> HIDE DEF c
  <2>4. run'.pc = "mark" /\ run'.batch = {} /\ tail' = tail /\ reporter' = reporter
    BY <1>0, <1>2, <1>8, <2>1 DEF WithdrawalAnswered, GoTo, GoOn, Progress
  <2> QED BY <1>3, <2>3, <2>4
<1> QED BY <1>4, <1>5, <1>6, <1>7, <1>8 DEF WithdrawalStep

----------------------------------------------------------------------------
(* The jobs' steps *)

\* What a job may ask of the buffer, and where it waits for it.
JobMayAsk(c) ==
  /\ c \in Calling /\ c.by = "job" /\ c.op \in JobOps \cup {"withdrawLocal"}
  /\ c.op = "clearWithdrawal" <=> jpc' = "clear"
  /\ c.op = "withdrawLocal" <=> jpc' = "local"

(* A job goes on: it starts the sender only while no withdrawal is recorded, and
   forgets no doubt. *)
LEMMA JobOn ==
  ASSUME Inv, Silence, JobGoes,
         memory.withdrawal # "none" => ~reporter'.active /\ reporter'.timer # "run",
         server.doubt \subseteq DOMAIN reporter'.unconfirmed \cup (IF LeavesOpen THEN run.batch ELSE {}),
         tail' = tail \/ \E task \in Tasks : task.kind # "run" /\ tail' = Append(tail, task),
         calls' = calls \/ \E c \in Calling : JobMayAsk(c) /\ calls' = Append(calls, c)
  PROVE  Silence'
<1>1. /\ UNCHANGED <<storage, run>> /\ server' = server /\ answer' = [answer EXCEPT !["job"] = "none"]
      /\ No(calls, "job")
  BY DEF JobGoes, AnswerRead, Free, Inv, JobOK, Waiting
<1>2. StoredOK' /\ UNCHANGED <<memory, disk, phase, next>>
  BY <1>1, StorageSilent
<1>3. answer'["job"] = "none"
  BY <1>1 DEF Inv, TypesOK
<1>4. \A i \in DOMAIN calls' : JobMayAsk(calls'[i]) \/ \E k \in DOMAIN calls : calls'[i] = calls[k]
  <2>1. CASE calls' = calls
    BY <2>1
  <2>2. CASE \E c \in Calling : JobMayAsk(c) /\ calls' = Append(calls, c)
    <3>1. PICK c \in Calling : JobMayAsk(c) /\ calls' = Append(calls, c)
      BY <2>2
    <3>2. \A i \in DOMAIN calls' : calls'[i] = c \/ \E k \in DOMAIN calls : calls'[i] = calls[k]
      BY <3>1, Entries DEF Inv, TypesOK
    <3> QED BY <3>1, <3>2
  <2> QED BY <2>1, <2>2
<1>5. RecordedOK'
  <2>1. \A k \in DOMAIN calls : calls[k].op # "clearWithdrawal" /\ calls[k].by # "job"
    BY <1>1 DEF Silence, RecordedOK, No
  <2> QED BY <1>3, <1>4, <2>1 DEF RecordedOK, JobMayAsk
<1>6. /\ PlacesOK' /\ (Resending' <=> Resending)
      /\ tail # <<>> => tail' # <<>> /\ Head(tail') = Head(tail)
      /\ run.pc # "idle" => tail # <<>>
      /\ \A i \in DOMAIN tail' : tail'[i].kind # "run" \/ \E k \in DOMAIN tail : tail'[i] = tail[k]
  <2>1. CASE tail' = tail
    BY <1>1, <2>1 DEF Silence, PlacesOK, Deleting, Resending, Inv, TailOK
  <2>2. CASE \E task \in Tasks : task.kind # "run" /\ tail' = Append(tail, task)
    BY <1>1, <2>2, TailJoined
  <2> QED BY <2>1, <2>2
<1>7. SilentOK'
  BY <1>1, <1>2, <1>6 DEF Silence, SilentOK
<1>8. ErasedOK'
  BY <1>1, <1>2, <1>4, <1>6 DEF Silence, ErasedOK, Deleting, JobMayAsk, JobOps
<1>9. DoubtOK' /\ BatchOK'
  BY <1>1, <1>2, <1>6 DEF Silence, DoubtOK, BatchOK, Certain, LeavesOpen
<1>10. ForgetsOK'
  BY <1>1, <1>4 DEF Silence, ForgetsOK, ForgetsNothing, JobMayAsk, JobOps
<1> QED BY <1>2, <1>5, <1>6, <1>7, <1>8, <1>9, <1>10 DEF Silence

LEMMA StartedKnows ==
  ASSUME NEW r \in Reporting
  PROVE  Started(r).unconfirmed = r.unconfirmed
<1>1. [r EXCEPT !.active = TRUE] \in Reporting /\ [r EXCEPT !.active = TRUE].unconfirmed = r.unconfirmed
  BY DEF Reporting
<1> QED BY <1>1, SameUnconfirmed DEF Started

LEMMA JobSilent ==
  ASSUME Inv, Silence, AttachedClear, JobStep
  PROVE  Silence'
<1> USE DEF outside, store, storage, Ask, Await, EndJob, NextJob, Hears
<1> DEFINE open == IF LeavesOpen THEN run.batch ELSE {}
<1>0. /\ JobGoes /\ reporter \in Reporting /\ Pruned \in Reporting /\ (jpc # "idle" => jobs # <<>>)
      /\ server.doubt \subseteq DOMAIN reporter.unconfirmed \cup open /\ server.doubt \subseteq Pending(memory)
      /\ memory.withdrawal # "none" => ~reporter.active /\ reporter.timer # "run" /\ server.doubt = {}
  BY JobsGo, JobUnderWay, PrunedTyped, KnownDoubt DEF Silence, SilentOK, DoubtOK
<1>1. server.doubt \subseteq DOMAIN Started(Pruned).unconfirmed \cup open
  <2>1. DOMAIN Started(Pruned).unconfirmed = DOMAIN reporter.unconfirmed \cap Pending(memory)
    BY <1>0, KnownDoubt, StartedKnows
  <2> QED BY <1>0, <2>1
<1>2. ASSUME tail' = tail, reporter' = reporter,
             calls' = calls \/ \E c \in Calling : JobMayAsk(c) /\ calls' = Append(calls, c)
      PROVE  Silence'
  BY <1>0, <1>2, JobOn
<1>3. ASSUME NEW op \in {"put", "scan", "reopen", "withdrawLocal", "clearWithdrawal"}, NEW ids \in SUBSET EventIds,
             op = "clearWithdrawal" <=> jpc' = "clear", op = "withdrawLocal" <=> jpc' = "local"
      PROVE  JobMayAsk(Call("job", op, ids)) /\ Call("job", op, ids) \in Calling
  <2> DEFINE c == Call("job", op, ids)
  <2>1. c \in Calling /\ c.by = "job" /\ c.op = op
    BY CallTyped DEF BufferOps
  <2> HIDE DEF c
  <2>2. JobMayAsk(c) /\ c \in Calling
    BY <1>3, <2>1 DEF JobMayAsk, JobOps
  <2> QED BY <2>2 DEF c
<1>4. ASSUME RequestDeletion, calls' = calls, memory.withdrawal # "none"
      PROVE  Silence'
  <2> DEFINE r == [reporter EXCEPT !.unconfirmed = NoMarkers, !.failed = FALSE]
             task == Task("withdrawal", "job", {})
  <2>1. r.active = reporter.active /\ r.timer = reporter.timer
    BY <1>0 DEF Reporting
  <2>2. task \in Tasks /\ task.kind = "withdrawal"
    BY DEF Task, Tasks
  <2>3. reporter' = r /\ tail' = Append(tail, task)
    BY <1>4 DEF RequestDeletion
  <2> HIDE DEF r, task, open
  <2> QED BY <1>0, <1>4, <2>1, <2>2, <2>3, JobOn
<1>5. CASE JobWithheld
  <2>1. tail' = tail /\ calls' = calls /\ reporter' = Stopped(reporter)
    BY <1>5 DEF JobWithheld
  <2>2. ~reporter'.active /\ reporter'.timer = "none" /\ reporter'.unconfirmed = reporter.unconfirmed
    BY <1>0, <2>1 DEF Stopped, Reporting
  <2> QED BY <1>0, <2>1, <2>2, JobOn
<1>6. CASE JobWithdraw
  <2>1. CASE EndJob /\ UNCHANGED <<store, reporter, tail, run>>
    BY <1>2, <2>1
  <2>2. CASE Ask(Call("job", "withdrawLocal", {})) /\ Await("local") /\ UNCHANGED <<reporter, tail, run>>
    BY <1>2, <1>3, <2>2
  <2>3. CASE memory.withdrawal \in {"pending", "unconfirmed"} /\ RequestDeletion /\ UNCHANGED store
    BY <1>4, <2>3
  <2> QED BY <1>6, <2>1, <2>2, <2>3 DEF JobWithdraw
<1>7. CASE JobWithdrawn
  <2>1. CASE Hears("job", {"ok"}) /\ RequestDeletion
    <3>1. memory.withdrawal # "none"
      BY <1>7, <2>1 DEF JobWithdrawn, Takes, Silence, RecordedOK
    <3> QED BY <1>4, <2>1, <3>1
  <2>2. CASE Hears("job", Errors) /\ EndJob /\ UNCHANGED <<reporter, tail, run>>
    BY <1>2, <2>2
  <2> QED BY <1>7, <2>1, <2>2 DEF JobWithdrawn
<1>8. CASE JobScans
  BY <1>2, <1>3, <1>8, NewEventsAreEvents DEF JobScans
<1>9. CASE JobStarts
  <2>1. memory.withdrawal = "none" /\ tail' = tail /\ calls' = calls /\ reporter' = Started(Pruned)
    BY <1>0, <1>9 DEF JobStarts, ScanOver, AttachedClear
  <2> HIDE DEF open
  <2> QED BY <1>0, <1>1, <2>1, JobOn DEF open
<1>10. CASE JobClears
  BY <1>2, <1>3, <1>10 DEF JobClears
<1>11. CASE JobCleared
  <2>1. CASE Hears("job", {"ok"}) /\ reporter' = Started(Pruned)
    <3>1. memory.withdrawal = "none" /\ tail' = tail /\ calls' = calls
      BY <1>11, <2>1 DEF JobCleared, Takes, Silence, RecordedOK
    <3> QED BY <1>0, <1>1, <2>1, <3>1, JobOn
  <2>2. CASE Hears("job", Errors) /\ UNCHANGED reporter
    BY <1>2, <1>11, <2>2 DEF JobCleared
  <2> QED BY <1>11, <2>1, <2>2 DEF JobCleared
<1>12. CASE JobRecords
  <2>1. Head(jobs).ids \in SUBSET EventIds
    BY <1>12, JobUnderWay DEF JobRecords
  <2> QED BY <1>2, <1>3, <1>12, <2>1 DEF JobRecords
<1>13. CASE JobRecorded
  BY <1>2, <1>13 DEF JobRecorded
<1>14. CASE JobReopens
  <2>1. Head(jobs).ids \in SUBSET EventIds
    BY <1>14, JobUnderWay DEF JobReopens
  <2> QED BY <1>2, <1>3, <1>14, <2>1 DEF JobReopens
<1>15. CASE JobResends
  <2>1. calls' = calls /\ reporter' = reporter
    BY <1>15 DEF JobResends
  <2>2. CASE tail' = Append(tail, Task("resend", "job", Head(jobs).ids))
    <3> DEFINE task == Task("resend", "job", Head(jobs).ids)
    <3>1. task \in Tasks /\ task.kind = "resend"
      BY <1>0, <1>15, JobUnderWay DEF JobResends, Task, Tasks
    <3>2. tail' = Append(tail, task)
      BY <2>2
    <3> HIDE DEF task
    <3> QED BY <1>0, <2>1, <3>1, <3>2, JobOn
  <2>3. CASE tail' = tail
    BY <1>2, <2>1, <2>3
  <2> QED BY <1>15, <2>2, <2>3 DEF JobResends
<1> QED BY <1>5, <1>6, <1>7, <1>8, <1>9, <1>10, <1>11, <1>12, <1>13, <1>14, <1>15 DEF JobStep

----------------------------------------------------------------------------
(* Every step *)

LEMMA SilenceKept ==
  ASSUME Inv, Silence, UNCHANGED <<server, store, strands>>, reporter' \in {reporter, Stopped(reporter)}
  PROVE  Silence'
BY OutsideSilent DEF store, strands

LEMMA SilenceQueued ==
  ASSUME Inv, Silence, NEW job, Enqueue(job), reporter' \in {reporter, Stopped(reporter)}
  PROVE  Silence'
BY OutsideSilent DEF Enqueue, store

LEMMA StartsSilent ==
  ASSUME RecordsInit
  PROVE  Silence
<1>1. /\ memory = EmptySnapshot /\ disk = EmptySnapshot /\ next = EmptySnapshot
      /\ phase = "idle" /\ calls = <<>> /\ answer = [by \in {"job", "sender"} |-> "none"]
      /\ tail = <<>> /\ run = NoRun /\ jpc = "idle"
      /\ server = [stored |-> {}, ingested |-> {}, doubt |-> {}]
  BY DEF RecordsInit, PanelInit, Init
<1>2. EmptySnapshot.withdrawal = "none" /\ run.pc = "idle" /\ run.batch = {}
      /\ server.doubt = {} /\ server.stored = {}
  BY <1>1, NoRunTriesNothing DEF EmptySnapshot
<1>3. DOMAIN calls = {} /\ DOMAIN tail = {}
  BY <1>1
<1>4. StoredOK /\ RecordedOK /\ PlacesOK /\ SilentOK
  BY <1>1, <1>2, <1>3 DEF StoredOK, RecordedOK, PlacesOK, SilentOK, Deleting
<1>5. ErasedOK /\ DoubtOK /\ BatchOK /\ ForgetsOK
  BY <1>1, <1>2, <1>3 DEF ErasedOK, Erased, DoubtOK, Marked, BatchOK, ForgetsOK, Certain
<1> QED BY <1>4, <1>5 DEF Silence

LEMMA NextSilent ==
  ASSUME Inv, Silence, AttachedClear, Next
  PROVE  Silence'
<1>1. CASE StoreStep
  BY <1>1, StoreRunSilent, StorePublishSilent, StoreResolveSilent, StoreRejectSilent DEF StoreStep
<1>2. CASE TimerFires \/ BackgroundScan \/ Crash
  BY <1>2, TimerSilent, BackgroundScanSilent, CrashSilent
<1>3. CASE SenderStep
  BY <1>3, AutomaticSilent, AnswerSilent, ResendSilent, WithdrawalSilent DEF SenderStep
<1>4. CASE ServerStep
  BY <1>4, ServerSilent
<1>5. CASE JobStep
  BY <1>5, JobSilent
<1>6. CASE CoreAttached \/ Withhold \/ Grant \/ CoreDetached \/ OriginChanges
  BY <1>6, SilenceKept, SilenceQueued DEF CoreAttached, Withhold, Grant, CoreDetached, OriginChanges, store, strands
<1>7. CASE RecordCalled \/ ResendCalled
  BY <1>7, SilenceQueued DEF RecordCalled, ResendCalled
<1> QED BY <1>1, <1>2, <1>3, <1>4, <1>5, <1>6, <1>7 DEF Next, Environment

LEMMA RecordsSilent ==
  ASSUME Inv, Silence, AttachedClear, [RecordsNext]_<<vars, panelVars, list>>
  PROVE  Silence'
<1>1. CASE UNCHANGED <<server, store, reporter, strands>>
  BY <1>1, SilenceKept
<1>2. CASE ListStep
  <2>1. UNCHANGED <<server, store, reporter, strands>>
    BY <1>2 DEF ListStep, ListOpens, ListRefreshes, ListCloses, CheckClicked, RowsArrive, RowsLost,
          RemoteArrives, RemoteLost, HostLists, HostReads, ServerLists, ReadFails,
          Acts, Loses, Shows, Others, vars, outside
  <2> QED BY <1>1, <2>1
<1>3. CASE ClientStep \/ HostShows
  <2>1. UNCHANGED <<server, store, reporter, strands>>
    BY <1>3 DEF ClientStep, Opens, Refreshes, Closes, LoadArrives, LoadFails, Clicks, PostFails, ReplyArrives,
           HostShows, Sees, vars, outside
  <2> QED BY <1>1, <2>1
<1>4. CASE HostTakes
  BY <1>4, SilenceQueued DEF HostTakes
<1>5. CASE HostMoves
  BY <1>5, NextSilent DEF HostMoves, Next, Environment
<1>6. CASE OthersResend
  BY <1>6, NextSilent DEF OthersResend, Next, Environment
<1>7. CASE HostStops
  BY <1>7, NextSilent DEF HostStops, Next, Environment
<1> QED BY <1>1, <1>2, <1>3, <1>4, <1>5, <1>6, <1>7 DEF RecordsNext, vars, outside

\* While Core is attached only with no withdrawal recorded, a withdrawal keeps
\* the sender silent, and no outcome that is unknown is forgotten.
THEOREM SilenceIsKept == RecordsSpec /\ []AttachedClear => []Silence
<1>1. RecordsInit => Inv /\ ViewOK /\ Silence
  BY StartsOK, StartsSilent
<1>2. Inv /\ ViewOK /\ Silence /\ AttachedClear /\ [RecordsNext]_<<vars, panelVars, list>> => Silence'
  BY RecordsSilent
<1> QED BY <1>1, <1>2, StrandsKeepTheirProtocol, PTL DEF RecordsSpec

\* A withdrawal recorded as sent (retryWithdrawalRaw, upload.js) left none of
\* this device's events on the server: no request under way added one after the
\* deletion, and no attempt began before the withdrawal was cleared.
THEOREM SilentWithdrawalErases == RecordsSpec /\ []AttachedClear => []WithdrawnIsErased
<1>1. Silence => WithdrawnIsErased
  BY DEF Silence, ErasedOK, Erased, WithdrawnIsErased
<1> QED BY <1>1, SilenceIsKept, PTL

\* What may have been taken without this device knowing is not posted by the
\* automatic sender (runOnceRaw, upload.js): its markers outlive the process.
THEOREM SilentSenderResendsNothing == RecordsSpec /\ []AttachedClear => []UnknownNeverAutoResent
<1>1. Inv /\ Silence => UnknownNeverAutoResent
  BY DEF Silence, BatchOK, At, Certain, LeavesOpen, UnknownNeverAutoResent
<1> QED BY <1>1, SilenceIsKept, StrandsKeepTheirProtocol, PTL

----------------------------------------------------------------------------
(* The answer to a click *)

(* A job's end leaves the rows alone, and the task under way is over or goes on. *)
LEMMA JobEnds ==
  ASSUME Inv, HostMoves, Len(jobs') < Len(jobs)
  PROVE  UNCHANGED storage /\ (run' = NoRun \/ run' = run)
<1>1. jobs \in Seq(JobKinds)
  BY DEF Inv, TypesOK
<1>2. ASSUME NEW job, jobs' = Append(jobs, job) PROVE FALSE
  BY <1>1, <1>2
<1>3. jobs' # jobs
  BY <1>1
<1>4. CASE SenderStep
  <2>1. SenderGoes \/ SenderLeaves
    BY <1>4, AutomaticSteps, AnswerSteps, ResendSteps, WithdrawalSteps DEF SenderStep
  <2> QED BY <1>3, <2>1 DEF SenderGoes, SenderLeaves, LeaveTask
<1>5. CASE JobStep
  BY <1>5, JobsGo DEF JobGoes
<1>6. CASE StoreStep \/ TimerFires \/ ServerStep \/ BackgroundScan \/ CoreDetached \/ OriginChanges
  BY <1>3, <1>6 DEF StoreStep, StoreRun, StorePublish, StoreResolve, StoreReject, TimerFires, ServerStep,
     ServerIngests, ServerTroubles, ServerMiscounts, ServerDeletes, Responds, BackgroundScan, CoreDetached,
     OriginChanges, strands
<1>7. CASE CoreAttached \/ Withhold \/ Grant \/ RecordCalled
  BY <1>2, <1>3, <1>7 DEF CoreAttached, Withhold, Grant, RecordCalled, Enqueue, strands
<1> QED BY <1>4, <1>5, <1>6, <1>7 DEF HostMoves

LEMMA TellsTheTruth ==
  ASSUME Inv, ViewOK, Inv', Silence', HostMoves, Len(jobs') < Len(jobs), NEW id \in DOMAIN Answer.told
  PROVE  /\ Answer.told[id] = "confirmed" => id \in server'.ingested
         /\ Answer.told[id] = "pending" => id \notin server'.doubt
<1>1. UNCHANGED storage /\ (run' = NoRun \/ run' = run)
  BY JobEnds
<1>2. /\ Observed /\ id \in Held(memory) /\ Answer.told[id] = DeliveryOf(id)'
  BY DEF Answer
<1>3. ~LeavesOpen'
  BY <1>1, <1>2, NoRunTriesNothing DEF Observed, At, LeavesOpen
<1>4. server'.doubt \subseteq DOMAIN reporter'.unconfirmed /\ memory' = memory
  BY <1>1, <1>3 DEF Silence, DoubtOK, storage
<1>5. ASSUME DeliveryOf(id)' = "confirmed" PROVE id \in server'.ingested
  <2>1. memory'.rows[id].state \in {"sent", "duplicate"}
    BY <1>5 DEF DeliveryOf
  <2> QED BY <1>2, <1>4, <2>1 DEF Inv, TakenOK, Taken, Held
<1>6. ASSUME DeliveryOf(id)' = "pending" PROVE id \notin server'.doubt
  <2>1. id \notin DOMAIN reporter'.unconfirmed
    BY <1>6 DEF DeliveryOf
  <2> QED BY <1>4, <2>1
<1> QED BY <1>2, <1>5, <1>6

LEMMA RepliesHonestly ==
  ASSUME Inv, ViewOK, Inv', Silence', [RecordsNext]_<<vars, panelVars, list>>,
         view.post.pc = "queued", view'.post.pc = "replied", NEW id \in DOMAIN view'.post.value.told
  PROVE  /\ view'.post.value.told[id] = "confirmed" => id \in server'.ingested
         /\ view'.post.value.told[id] = "pending" => id \notin server'.doubt
<1>1. view' # view
  OBVIOUS
<1>2. ~ListStep /\ ~HostTakes /\ ~OthersResend
  BY <1>1 DEF ListStep, ListOpens, ListRefreshes, ListCloses, CheckClicked, RowsArrive, RowsLost,
        RemoteArrives, RemoteLost, HostLists, HostReads, ServerLists, ReadFails,
        Acts, Loses, Shows, Others, panelVars, HostTakes, OthersResend
<1>3. ~ClientStep /\ ~HostShows /\ ~HostStops
  <2>1. NoPost.pc = "none" /\ Closed.post = NoPost
    BY ClosedView DEF NoPost
  <2> USE DEF ViewOK
  <2>2. ~Opens /\ ~Refreshes /\ ~Closes /\ ~HostShows /\ ~HostStops
    BY <2>1, ClosedView DEF Opens, Refreshes, Closes, Loading, HostShows, Sees, HostStops
  <2>3. ~LoadArrives /\ ~LoadFails /\ ~PostFails /\ ~ReplyArrives
    BY <2>1 DEF LoadArrives, LoadFails, PostFails, ReplyArrives, Sees
  <2>4. ~Clicks
    BY <2>1 DEF Clicks, NoPost
  <2> QED BY <2>2, <2>3, <2>4 DEF ClientStep
<1>4. HostMoves
  BY <1>1, <1>2, <1>3 DEF RecordsNext, panelVars
<1>5. Len(jobs') < Len(jobs) /\ view'.post.value = Answer
  <2>1. Len(jobs') \in Nat /\ Len(jobs) \in Nat
    BY DEF Inv, TypesOK
  <2> HIDE DEF Answer
  <2>2. ~(Len(jobs') >= Len(jobs))
    BY <1>1, <1>4 DEF HostMoves, Behind
  <2>3. view' = [view EXCEPT !.post.pc = "replied", !.post.behind = 0, !.post.value = Answer]
    <3>1. view' # [view EXCEPT !.post.behind = @ - 1]
      BY DEF ViewOK
    <3> QED BY <1>4, <2>2, <3>1 DEF HostMoves, Behind
  <2>4. Len(jobs') < Len(jobs)
    BY <2>1, <2>2
  <2>5. PICK a : a = Answer
    OBVIOUS
  <2>6. view'.post.value = a
    BY <2>3, <2>5 DEF ViewOK
  <2> QED BY <2>4, <2>5, <2>6
<1> HIDE DEF Answer
<1> QED BY <1>4, <1>5, TellsTheTruth

\* The answer to a click tells the truth (delivery and resendEvents, mount.js):
\* what it calls confirmed the server has, and what it calls pending did not
\* reach it by an earlier request of unknown outcome.
THEOREM SilentAnswersAreHonest == RecordsSpec /\ []AttachedClear => AnswerIsHonest
<1>1. Inv /\ ViewOK /\ (Inv /\ Silence)' /\ [RecordsNext]_<<vars, panelVars, list>> =>
        [view.post.pc = "queued" /\ view'.post.pc = "replied" =>
           LET told == view'.post.value.told IN
           \A id \in DOMAIN told :
             /\ told[id] = "confirmed" => id \in server'.ingested
             /\ told[id] = "pending" => id \notin server'.doubt]_view
  BY RepliesHonestly
<1> QED BY <1>1, SilenceIsKept, StrandsKeepTheirProtocol, PTL DEF RecordsSpec, AnswerIsHonest

----------------------------------------------------------------------------
(* Core attached once, or consent never changed *)

\* The environments in which no withdrawal is recorded when Core comes: consent
\* is as it was, or neither a crash nor Core itself ends the first attachment.
OneAttachment == \A b \in Budgets : b["consent"] = 0 \/ (b["crash"] = 0 /\ b["link"] = 0)

Setting == core \in [consent : {"granted", "withheld"}, linked : BOOLEAN, origin : BOOLEAN]
           /\ left \in [BudgetKinds -> Nat]
Consents == {"granted", "withheld"}

\* No withdrawal is recorded, or about to be.
Unwithdrawn ==
  /\ memory.withdrawal = "none" /\ disk.withdrawal = "none" /\ next.withdrawal = "none"
  /\ jpc \notin {"tail", "local", "clear"}

\* Nothing comes before the job of an attach that looks at consent.
AttachmentOK ==
  \/ /\ left["consent"] = 0 /\ Unwithdrawn
     /\ \A i \in DOMAIN jobs : jobs[i].kind \notin Consents
  \/ /\ left["crash"] = 0 /\ left["link"] = 0
     /\ ~core.linked => Unwithdrawn /\ \A i \in DOMAIN jobs : jobs[i].kind \notin Consents \cup {"attach"}
     /\ \A i \in DOMAIN jobs : jobs[i].kind = "attach" =>
          Unwithdrawn /\ \A j \in DOMAIN jobs : j < i => jobs[j].kind \notin Consents \cup {"attach"}

LEMMA SenderOutside ==
  ASSUME SenderStep
  PROVE  core' = core /\ (left' = left \/ Spend("network"))
<1> USE DEF outside
<1>1. CASE AutomaticStep
  BY <1>1 DEF AutomaticStep, RunGated, RunUnregistered, RunBegin, RunSettingsFail, RunSettingsOk,
     RunIntentLost, RunIntentKept, RunIntentTakenBack, RunUndone, RunPersistenceFailure, RunPost,
     RunApplied, RunFailed, RunHeldUnknown
<1>2. CASE AnswerStep
  BY <1>2 DEF AnswerStep, SignFails, AnswerCommitted, AnswerUnknown, AnswerUnusable, AnswerMiscounted
<1>3. CASE ResendStep
  BY <1>3 DEF ResendStep, ResendRefused, ResendAccepted, ResendOver, ResendBatch, ResendPersistenceFailure,
     ResendIntentKept, ResendPost, ResendApplied, ResendFailed, ResendHeldUnknown, ResendNext
<1>4. CASE WithdrawalStep
  BY <1>4 DEF WithdrawalStep, WithdrawalSettled, WithdrawalOffline, WithdrawalSend, WithdrawalAnswered,
     WithdrawalMarked, WithdrawalUnmarked
<1> QED BY <1>1, <1>2, <1>3, <1>4 DEF SenderStep

LEMMA Spending ==
  ASSUME Setting, NEW kind \in BudgetKinds, Spend(kind)
  PROVE  /\ left[kind] > 0 /\ left' \in [BudgetKinds -> Nat]
         /\ \A k \in BudgetKinds : left[k] = 0 => left'[k] = 0
BY DEF Setting, Spend

LEMMA Kinds == {"consent", "link", "origin", "record", "resend", "crash", "network", "storage", "view", "click", "list"} \subseteq BudgetKinds
BY DEF BudgetKinds

\* What a step does to the jobs and to the link with Core.
Linked(job) == jobs' = Append(jobs, job) /\ core'.linked = core.linked
JobsChange ==
  \/ jobs' = jobs /\ core'.linked = core.linked
  \/ jobs # <<>> /\ jobs' = Tail(jobs) /\ core'.linked = core.linked
  \/ \E job \in JobKinds : job.kind \in {"record", "resend"} /\ Linked(job)
  \/ \E job \in JobKinds : job.kind \in Consents /\ Linked(job) /\ core.linked /\ left["consent"] > 0
  \/ jobs' = jobs /\ left["link"] > 0
  \/ ~core.linked /\ core'.linked /\ \E job \in JobKinds : job.kind = "attach" /\ jobs' = Append(jobs, job)
  \/ jobs' = <<>> /\ left["crash"] > 0

LEMMA CoreMoves ==
  ASSUME Inv, ViewOK, Setting, [RecordsNext]_<<vars, panelVars, list>>
  PROVE  /\ Setting' /\ \A k \in BudgetKinds : left[k] = 0 => left'[k] = 0
         /\ JobsChange
<1> DEFINE Moves == /\ Setting' /\ (\A k \in BudgetKinds : left[k] = 0 => left'[k] = 0) /\ JobsChange
<1>0. jobs \in Seq(JobKinds) /\ core = [consent |-> core.consent, linked |-> core.linked, origin |-> core.origin]
  BY DEF Inv, TypesOK, Setting
<1>1. ASSUME core' = core, left' = left \/ \E k \in BudgetKinds : Spend(k),
             \/ jobs' = jobs \/ (jobs # <<>> /\ jobs' = Tail(jobs))
             \/ \E job \in JobKinds : job.kind \in {"record", "resend"} /\ jobs' = Append(jobs, job)
      PROVE  Moves
  <2>1. Setting' /\ \A k \in BudgetKinds : left[k] = 0 => left'[k] = 0
    BY <1>1, Spending DEF Setting
  <2>2. JobsChange
    BY <1>1 DEF JobsChange, Linked
  <2> QED BY <2>1, <2>2
<1> HIDE DEF Moves
<1> SUFFICES Moves
  BY DEF Moves
<1>2. CASE UNCHANGED <<core, left, jobs>>
  BY <1>1, <1>2
<1>3. CASE ListStep
  BY <1>1, <1>3, Kinds DEF ListStep, ListOpens, ListRefreshes, ListCloses, CheckClicked, RowsArrive, RowsLost,
          RemoteArrives, RemoteLost, HostLists, HostReads, ServerLists, ReadFails,
          Acts, Loses, Shows, Others, vars, outside, strands
<1>4. CASE ClientStep \/ HostShows
  BY <1>1, <1>4, Kinds DEF ClientStep, Opens, Refreshes, Closes, LoadArrives, LoadFails, Clicks, PostFails,
          ReplyArrives, HostShows, Sees, vars, outside, strands
<1>5. CASE HostTakes
  <2>1. Job("resend", view.post.ids) \in JobKinds /\ Job("resend", view.post.ids).kind = "resend"
    BY DEF ViewOK, Job, JobKinds
  <2> QED BY <1>1, <1>5, <2>1 DEF HostTakes, Enqueue
<1>6. CASE StoreStep \/ TimerFires \/ ServerStep \/ BackgroundScan
  BY <1>1, <1>6, Kinds DEF StoreStep, StoreRun, StorePublish, StoreResolve, StoreReject, TimerFires, ServerStep,
     ServerIngests, ServerTroubles, ServerMiscounts, ServerDeletes, Responds, BackgroundScan, strands, outside
<1>7. CASE SenderStep
  <2>1. core' = core /\ (left' = left \/ Spend("network"))
    BY <1>7, SenderOutside
  <2>2. SenderGoes \/ SenderLeaves
    BY <1>7, AutomaticSteps, AnswerSteps, ResendSteps, WithdrawalSteps DEF SenderStep
  <2>3. jobs' = jobs \/ (jobs # <<>> /\ jobs' = Tail(jobs))
    <3>1. CASE SenderGoes
      BY <3>1 DEF SenderGoes
    <3>2. CASE SenderLeaves
      <4>1. tail # <<>> /\ Head(tail) = tail[1] /\ 1 \in DOMAIN tail
        BY <3>2, Dropped DEF SenderLeaves, Inv, TypesOK
      <4>2. Head(tail).by = "job" => jobs # <<>>
        BY <4>1 DEF Inv, TailOK, No, JobsOK
      <4> QED BY <3>2, <4>2 DEF SenderLeaves, LeaveTask, EndJob
    <3> QED BY <2>2, <3>1, <3>2
  <2> QED BY <1>1, <2>1, <2>3, Kinds
<1>8. CASE JobStep
  <2>1. jobs' = jobs \/ (jobs # <<>> /\ jobs' = Tail(jobs))
    BY <1>8, JobsGo DEF JobGoes
  <2>2. UNCHANGED outside
    BY <1>8 DEF JobStep, JobWithheld, JobWithdraw, JobWithdrawn, JobScans, JobStarts, JobClears, JobCleared,
       JobRecords, JobRecorded, JobReopens, JobResends
  <2> QED BY <1>1, <2>1, <2>2 DEF outside
<1>9. CASE RecordCalled \/ ResendCalled
  <2>1. PICK ids \in SUBSET EventIds, kind \in {"record", "resend"} : jobs' = Append(jobs, Job(kind, ids))
    BY <1>9, HeldAreEvents DEF RecordCalled, ResendCalled, Enqueue, Selections
  <2>2. Job(kind, ids) \in JobKinds /\ Job(kind, ids).kind = kind
    BY DEF Job, JobKinds
  <2> QED BY <1>1, <1>9, <2>1, <2>2, Kinds DEF RecordCalled, ResendCalled
<1>10. CASE OriginChanges \/ CoreDetached
  <2>1. PICK kind \in {"origin", "link"} : Spend(kind) /\ jobs' = jobs /\ (kind = "origin" => core'.linked = core.linked)
    BY <1>0, <1>10 DEF OriginChanges, CoreDetached, strands
  <2>2. core' \in [consent : {"granted", "withheld"}, linked : BOOLEAN, origin : BOOLEAN]
    BY <1>10 DEF OriginChanges, CoreDetached, Setting
  <2> QED BY <2>1, <2>2, Spending, Kinds DEF Setting, JobsChange, Moves
<1>11. CASE Withhold \/ Grant
  <2>1. PICK kind \in Consents : /\ Spend("consent")
                                 /\ (IF core.linked THEN jobs' = Append(jobs, Job(kind, {})) ELSE jobs' = jobs)
    BY <1>11 DEF Withhold, Grant, Enqueue, strands, Consents
  <2>2. /\ core' \in [consent : {"granted", "withheld"}, linked : BOOLEAN, origin : BOOLEAN]
        /\ core'.linked = core.linked
    BY <1>11 DEF Withhold, Grant, Setting
  <2>3. Job(kind, {}) \in JobKinds /\ Job(kind, {}).kind = kind
    BY DEF Job, JobKinds, Consents
  <2>4. JobsChange
    BY <2>1, <2>2, <2>3, Spending, Kinds DEF JobsChange, Linked
  <2> QED BY <2>1, <2>2, <2>4, Spending, Kinds DEF Setting, Moves
<1>12. CASE CoreAttached
  <2>1. ~core.linked /\ jobs' = Append(jobs, Job("attach", {})) /\ left' = left
    BY <1>12 DEF CoreAttached, Enqueue
  <2>2. core' \in [consent : {"granted", "withheld"}, linked : BOOLEAN, origin : BOOLEAN] /\ core'.linked
    BY <1>12 DEF CoreAttached, Setting
  <2>3. Job("attach", {}) \in JobKinds /\ Job("attach", {}).kind = "attach"
    BY DEF Job, JobKinds
  <2> QED BY <2>1, <2>2, <2>3 DEF Setting, Moves, JobsChange
<1>13. CASE Crash
  <2>1. Spend("crash") /\ jobs' = <<>>
    BY <1>13 DEF Crash
  <2>2. core' \in [consent : {"granted", "withheld"}, linked : BOOLEAN, origin : BOOLEAN]
    BY <1>13 DEF Crash, Setting
  <2> QED BY <2>1, <2>2, Spending, Kinds DEF Setting, Moves, JobsChange
<1> QED
  BY <1>2, <1>3, <1>4, <1>5, <1>6, <1>7, <1>8, <1>9, <1>10, <1>11, <1>12, <1>13
     DEF RecordsNext, HostMoves, OthersResend, HostStops, vars, outside, strands

\* Only a job that looks at consent records or clears a withdrawal.
LEMMA UnwithdrawnStays ==
  ASSUME Inv, Silence, Unwithdrawn, jobs # <<>> => Head(jobs).kind \notin Consents,
         [RecordsNext]_<<vars, panelVars, list>>
  PROVE  Unwithdrawn'
<1>1. CASE UNCHANGED <<storage, jpc>>
  BY <1>1 DEF Unwithdrawn, storage
<1>2. CASE ListStep \/ ClientStep \/ HostShows \/ HostTakes
  <2>1. UNCHANGED <<storage, jpc>>
    BY <1>2 DEF ListStep, ListOpens, ListRefreshes, ListCloses, CheckClicked, RowsArrive, RowsLost,
          RemoteArrives, RemoteLost, HostLists, HostReads, ServerLists, ReadFails,
          Acts, Loses, Shows, Others, ClientStep, Opens, Refreshes, Closes, LoadArrives, LoadFails, Clicks,
          PostFails, ReplyArrives, HostShows, Sees, HostTakes, Enqueue, vars, store, strands
  <2> QED BY <1>1, <2>1
<1>3. CASE TimerFires \/ ServerStep \/ BackgroundScan \/ CoreAttached \/ Withhold \/ Grant \/ CoreDetached
           \/ OriginChanges \/ RecordCalled \/ ResendCalled
  <2>1. UNCHANGED <<storage, jpc>>
    BY <1>3 DEF TimerFires, ServerStep, ServerIngests, ServerTroubles, ServerMiscounts, ServerDeletes, Responds,
       BackgroundScan, CoreAttached, Withhold, Grant, CoreDetached, OriginChanges, RecordCalled, ResendCalled,
       Enqueue, Ask, store, strands
  <2> QED BY <1>1, <2>1
<1>4. CASE SenderStep
  <2>1. SenderGoes \/ SenderLeaves
    BY <1>4, AutomaticSteps, AnswerSteps, ResendSteps, WithdrawalSteps DEF SenderStep
  <2>2. UNCHANGED storage /\ jpc' \in {jpc, "idle"}
    BY <2>1 DEF SenderGoes, SenderLeaves, LeaveTask, EndJob
  <2> QED BY <2>2 DEF Unwithdrawn, storage
<1>5. CASE Crash
  BY <1>5 DEF Crash, Unwithdrawn
<1>6. CASE JobStep
  <2>1. UNCHANGED storage /\ (jpc # "idle" => jobs # <<>>)
    BY <1>6, JobsGo DEF JobGoes, Inv, JobsOK
  <2>2. jpc' \notin {"tail", "local", "clear"}
    BY <1>6, <2>1 DEF JobStep, JobWithheld, JobWithdraw, JobWithdrawn, JobScans, JobStarts, JobClears, JobCleared,
       JobRecords, JobRecorded, JobReopens, JobResends, NextJob, ScanOver, Await, EndJob, Unwithdrawn, Consents
  <2> QED BY <2>1, <2>2 DEF Unwithdrawn, storage
<1>7. CASE StoreStep
  <2>1. jpc' = jpc
    BY <1>7 DEF StoreStep, StoreRun, StorePublish, StoreResolve, StoreReject, strands
  <2>2. ASSUME calls # <<>>, Admitted(Head(calls), memory), Changes(Head(calls), memory)
        PROVE  Result(Head(calls), memory).withdrawal = "none"
    <3> DEFINE c == Head(calls)
    <3>1. c \in Calling /\ c.op \notin {"withdrawLocal", "clearWithdrawal"}
      BY <2>2, OldestCall DEF Unwithdrawn
    <3>2. Good(memory) /\ memory.withdrawal = "none"
      BY DEF Inv, GoodOK, Unwithdrawn
    <3> QED BY <2>2, <3>1, <3>2, Withdrawing
  <2>3. CASE StoreRun
    BY <2>1, <2>2, <2>3 DEF StoreRun, Unwithdrawn
  <2>4. CASE StorePublish \/ StoreResolve \/ StoreReject
    BY <2>1, <2>4 DEF StorePublish, StoreResolve, StoreReject, Unwithdrawn
  <2> QED BY <1>7, <2>3, <2>4 DEF StoreStep
<1> QED BY <1>1, <1>2, <1>3, <1>4, <1>5, <1>6, <1>7
        DEF RecordsNext, HostMoves, OthersResend, HostStops, vars, store, strands

LEMMA AttachmentClears ==
  ASSUME Inv, AttachmentOK
  PROVE  AttachedClear
<1>1. jobs # <<>> => Head(jobs) = jobs[1] /\ 1 \in DOMAIN jobs
  BY Dropped DEF Inv, TypesOK
<1> QED BY <1>1 DEF AttachmentOK, AttachedClear, Unwithdrawn

LEMMA AttachmentKept ==
  ASSUME Inv, ViewOK, Silence, Setting, AttachmentOK, [RecordsNext]_<<vars, panelVars, list>>
  PROVE  AttachmentOK'
<1>0. jobs \in Seq(JobKinds) /\ {"consent", "link", "crash"} \subseteq BudgetKinds
  BY Kinds DEF Inv, TypesOK
<1>1. Setting' /\ (\A k \in BudgetKinds : left[k] = 0 => left'[k] = 0) /\ JobsChange
  BY CoreMoves
<1>2. jobs # <<>> => Head(jobs) = jobs[1] /\ 1 \in DOMAIN jobs
  BY <1>0, Dropped
<1>3. (jobs # <<>> => Head(jobs).kind \notin Consents) /\ Unwithdrawn => Unwithdrawn'
  BY UnwithdrawnStays
<1>4. left["consent"] \in Nat /\ left["link"] \in Nat /\ left["crash"] \in Nat
  BY <1>0 DEF Setting
<1>5. CASE left["consent"] = 0 /\ Unwithdrawn /\ \A i \in DOMAIN jobs : jobs[i].kind \notin Consents
  <2>1. left'["consent"] = 0 /\ Unwithdrawn'
    BY <1>0, <1>1, <1>2, <1>3, <1>5
  <2>2. ASSUME NEW job \in JobKinds, job.kind \notin Consents, jobs' = Append(jobs, job)
        PROVE  \A i \in DOMAIN jobs' : jobs'[i].kind \notin Consents
    BY <1>0, <1>5, <2>2, Entries
  <2>3. CASE jobs' = Tail(jobs) /\ jobs # <<>>
    BY <1>0, <1>5, <2>1, <2>3, Entries DEF AttachmentOK
  <2>4. CASE jobs' = jobs \/ jobs' = <<>>
    BY <1>5, <2>1, <2>4 DEF AttachmentOK
  <2>5. CASE \E job \in JobKinds : job.kind \notin Consents /\ jobs' = Append(jobs, job)
    BY <2>1, <2>2, <2>5 DEF AttachmentOK
  <2> QED BY <1>1, <1>4, <1>5, <2>3, <2>4, <2>5 DEF JobsChange, Linked, Consents
<1>6. CASE /\ left["crash"] = 0 /\ left["link"] = 0
           /\ ~core.linked => Unwithdrawn /\ \A i \in DOMAIN jobs : jobs[i].kind \notin Consents \cup {"attach"}
           /\ \A i \in DOMAIN jobs : jobs[i].kind = "attach" =>
                Unwithdrawn /\ \A j \in DOMAIN jobs : j < i => jobs[j].kind \notin Consents \cup {"attach"}
  <2>1. left'["crash"] = 0 /\ left'["link"] = 0
    BY <1>0, <1>1, <1>6
  <2>2. ~core.linked => Unwithdrawn'
    BY <1>2, <1>3, <1>6
  <2>3. ASSUME NEW i \in DOMAIN jobs, jobs[i].kind = "attach"
        PROVE  Unwithdrawn'
    <3>1. i = 1 \/ 1 < i
      BY <1>0
    <3>2. jobs # <<>> /\ jobs[1].kind \notin Consents
      <4>1. CASE i = 1
        BY <2>3, <4>1 DEF Consents
      <4>2. CASE 1 < i
        BY <1>0, <1>6, <2>3, <4>2
      <4> QED BY <3>1, <4>1, <4>2, <1>0
    <3> QED BY <1>2, <1>3, <1>6, <2>3, <3>2
  <2>4. CASE jobs' = jobs /\ core'.linked = core.linked
    BY <1>6, <2>1, <2>2, <2>3, <2>4 DEF AttachmentOK
  <2>5. CASE jobs # <<>> /\ jobs' = Tail(jobs) /\ core'.linked = core.linked
    <3>1. \A i \in DOMAIN jobs' : i + 1 \in DOMAIN jobs /\ jobs'[i] = jobs[i + 1] /\ i \in Nat
      BY <1>0, <2>5, Dropped
    <3>2. ~core'.linked => Unwithdrawn' /\ \A i \in DOMAIN jobs' : jobs'[i].kind \notin Consents \cup {"attach"}
      BY <1>6, <2>2, <2>5, <3>1
    <3>3. ASSUME NEW i \in DOMAIN jobs', jobs'[i].kind = "attach"
          PROVE  Unwithdrawn' /\ \A j \in DOMAIN jobs' : j < i => jobs'[j].kind \notin Consents \cup {"attach"}
      BY <1>6, <2>3, <3>1, <3>3
    <3> QED BY <2>1, <3>2, <3>3 DEF AttachmentOK
  <2>6. ASSUME NEW job \in JobKinds, job.kind # "attach", jobs' = Append(jobs, job),
               core'.linked = core.linked, core.linked \/ job.kind \notin Consents
        PROVE  AttachmentOK'
    <3>1. /\ \A i \in DOMAIN jobs' : (i \in DOMAIN jobs /\ jobs'[i] = jobs[i]) \/ (i = Len(jobs) + 1 /\ jobs'[i] = job)
          /\ Len(jobs) \in Nat /\ DOMAIN jobs = 1..Len(jobs) /\ DOMAIN jobs' = 1..(Len(jobs) + 1)
      BY <1>0, <2>6, Appended
    <3>2. ~core'.linked => Unwithdrawn' /\ \A i \in DOMAIN jobs' : jobs'[i].kind \notin Consents \cup {"attach"}
      BY <1>6, <2>2, <2>6, <3>1
    <3>3. ASSUME NEW i \in DOMAIN jobs', jobs'[i].kind = "attach"
          PROVE  Unwithdrawn' /\ \A j \in DOMAIN jobs' : j < i => jobs'[j].kind \notin Consents \cup {"attach"}
      <4>1. i \in DOMAIN jobs /\ jobs[i].kind = "attach"
        BY <2>6, <3>1, <3>3
      <4>2. \A j \in DOMAIN jobs' : j < i => j \in DOMAIN jobs /\ jobs'[j] = jobs[j]
        BY <3>1, <4>1
      <4> QED BY <1>6, <2>3, <4>1, <4>2
    <3> QED BY <2>1, <3>2, <3>3 DEF AttachmentOK
  <2>7. ASSUME ~core.linked, core'.linked, NEW job \in JobKinds, job.kind = "attach", jobs' = Append(jobs, job)
        PROVE  AttachmentOK'
    <3>1. /\ \A i \in DOMAIN jobs' : (i \in DOMAIN jobs /\ jobs'[i] = jobs[i]) \/ (i = Len(jobs) + 1 /\ jobs'[i] = job)
          /\ Len(jobs) \in Nat /\ DOMAIN jobs = 1..Len(jobs) /\ DOMAIN jobs' = 1..(Len(jobs) + 1)
      BY <1>0, <2>7, Appended
    <3>2. \A i \in DOMAIN jobs' : jobs'[i].kind = "attach" => i = Len(jobs) + 1
      BY <1>6, <2>7, <3>1
    <3>3. \A j \in DOMAIN jobs' : j < Len(jobs) + 1 => jobs'[j].kind \notin Consents \cup {"attach"}
      BY <1>6, <2>7, <3>1
    <3> QED BY <2>1, <2>2, <2>7, <3>2, <3>3 DEF AttachmentOK
  <2>8. CASE \E job \in JobKinds : job.kind \in {"record", "resend"} /\ Linked(job)
    BY <2>6, <2>8 DEF Linked, Consents
  <2>9. CASE \E job \in JobKinds : job.kind \in Consents /\ Linked(job) /\ core.linked /\ left["consent"] > 0
    BY <2>6, <2>9 DEF Linked, Consents
  <2> QED BY <1>1, <1>4, <1>6, <2>4, <2>5, <2>7, <2>8, <2>9 DEF JobsChange
<1> QED BY <1>5, <1>6 DEF AttachmentOK

LEMMA StartsAttachable ==
  ASSUME OneAttachment, RecordsInit
  PROVE  Setting /\ AttachmentOK
<1>1. /\ core \in [consent : {"granted", "withheld"}, linked : {FALSE}, origin : {TRUE}]
      /\ left \in Budgets /\ jobs = <<>> /\ jpc = "idle"
      /\ memory = EmptySnapshot /\ disk = EmptySnapshot /\ next = EmptySnapshot
  BY DEF RecordsInit, PanelInit, Init
<1>2. Setting /\ Unwithdrawn
  BY <1>1, BudgetAssumption DEF Setting, Unwithdrawn, EmptySnapshot
<1> QED BY <1>1, <1>2 DEF OneAttachment, AttachmentOK

\* Core is attached only while no withdrawal is recorded, if consent is never
\* changed, or if the Host process and its link with Core last.
THEOREM AttachedWithoutWithdrawal ==
  ASSUME OneAttachment
  PROVE  RecordsSpec => []AttachedClear /\ []Silence
<1> DEFINE I == Inv /\ ViewOK /\ Silence /\ Setting /\ AttachmentOK
<1>1. RecordsInit => I
  BY StartsOK, StartsSilent, StartsAttachable
<1>2. I /\ [RecordsNext]_<<vars, panelVars, list>> => I'
  BY RecordsInv, AttachmentClears, RecordsSilent, CoreMoves, AttachmentKept
<1>3. I => AttachedClear /\ Silence
  BY AttachmentClears
<1> HIDE DEF I
<1> QED BY <1>1, <1>2, <1>3, PTL DEF RecordsSpec

\* In these environments a withdrawal recorded as sent (retryWithdrawalRaw,
\* upload.js) left none of this device's events on the server.
THEOREM WithdrawalErases ==
  ASSUME OneAttachment
  PROVE  RecordsSpec => []WithdrawnIsErased
BY AttachedWithoutWithdrawal, SilentWithdrawalErases, PTL

\* In these environments the automatic sender (runOnceRaw, upload.js) posts
\* nothing whose outcome is unknown: it waits for the person.
THEOREM UnknownWaits ==
  ASSUME OneAttachment
  PROVE  RecordsSpec => []UnknownNeverAutoResent
BY AttachedWithoutWithdrawal, SilentSenderResendsNothing, PTL

\* In these environments what a click is told (delivery, upload.js; resendEvents,
\* mount.js) is true.
THEOREM AnswersAreHonest ==
  ASSUME OneAttachment
  PROVE  RecordsSpec => AnswerIsHonest
BY AttachedWithoutWithdrawal, SilentAnswersAreHonest, PTL
=============================================================================
