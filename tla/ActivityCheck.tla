---------------------------- MODULE ActivityCheck ----------------------------
(***************************************************************************)
(* The functions of ActivitySummary against their reference definitions,   *)
(* over every log, usage and query that can be made of a few values.  TLC  *)
(* evaluates the assumptions when a run of SessionSummaries starts.        *)
(***************************************************************************)
EXTENDS ActivitySummary

LOCAL Sequel(S, n) == UNION {[1..k -> S] : k \in 0..n}

----------------------------------------------------------------------------
(* Routes *)

LOCAL RouteA == [provider |-> "acme", model |-> "large"]
LOCAL RouteB == [provider |-> "acme", model |-> "https://private"]
LOCAL Context(route) == [type |-> "request/context", route |-> route]
LOCAL TurnStart(time) == [type |-> "turn/start", turn |-> 1, time |-> time]
LOCAL Message(usage) == [type |-> "assistant/message", turn |-> 1, usage |-> usage]
LOCAL TurnEnd(reason, time) == [type |-> "turn/end", turn |-> 1, reason |-> reason, time |-> time]

\* A turn names a route exactly when that one was in effect all through it,
\* whatever turns the log holds before and after (project.ts, route).
ASSUME RouteWasInEffect ==
  \A events \in [1..5 -> {Context(RouteA), Context(RouteB), TurnStart(0)}] :
    \A start \in 1..5 : \A end \in start..5 :
      ~IsContext(events[start]) =>
        Routes(events, start, end) = RoutesInEffect(events, start, end)

----------------------------------------------------------------------------
(* Token usage *)

LOCAL Amounts == {-1, 0, 1, MaxSafe}
LOCAL Usages == [{"inputTokens", "totalTokens"} -> Amounts] \union [{"inputTokens"} -> Amounts]
LOCAL SumOf(numbers) == MapThenSumSet(LAMBDA i : numbers[i], DOMAIN numbers)

\* A turn reports a sum exactly when each of its calls reported the field and
\* the sum is exact; a part of the calls is never shown as the whole
\* (project.ts, tokenUsage).
ASSUME UsageIsExact ==
  \A payloads \in Sequel(Usages, 3) \ {<<>>} :
    LET n == Len(payloads)
        usage == TokenUsage([i \in 1..n |-> Message(payloads[i])], 1, n, 1)
        amounts(field) == [i \in 1..n |-> payloads[i][field]]
        exact(field) ==
          /\ \A i \in 1..n : field \in DOMAIN payloads[i] /\ payloads[i][field] >= 0
          /\ SumOf(amounts(field)) <= MaxSafe
    IN \A field \in {"inputTokens", "totalTokens"} :
         IF exact(field) THEN usage[field] = Reported(SumOf(amounts(field)))
         ELSE IsMissing(usage[field])

----------------------------------------------------------------------------
(* The projection and the store *)

LOCAL Session(events, inherited, bound, parent) ==
  [events |-> events, inherited |-> inherited, bound |-> bound, parent |-> parent,
   binding |-> [id |-> "acme", version |-> "", protocolVersion |-> "https://private"]]
LOCAL Logs ==
  Sequel({Context(RouteA), Context(RouteB), TurnStart(0), TurnStart(1), Message([inputTokens |-> 1])}, 3)
LOCAL Ends == {TurnEnd(reason, time) : reason \in TerminalReasons \union {"new"}, time \in {-1, 0, 1}}
LOCAL Projected ==
  {[session |-> Session(Append(log, end), inherited, bound, parent), end |-> Len(log) + 1] :
     log \in Logs, end \in Ends, inherited \in 0..1, bound \in BOOLEAN, parent \in {"", "acme"}}
LOCAL OfOwn == {p \in Projected : p.end > p.session.inherited}

\* The store accepts what the projection makes of any log, but of a turn that
\* ended before its last own start: a clock set back makes INVALID_DECLARATION
\* of that turn (validate.ts:41), at every attempt to record it.
ASSUME ProjectionIsValid ==
  \A p \in OfOwn :
    LET log == p.session.events
        isStart(i) == i > p.session.inherited /\ log[i].type = "turn/start"
        backwards ==
          \E i \in 1..(p.end - 1) :
            /\ isStart(i) /\ \A j \in (i + 1)..(p.end - 1) : ~isStart(j)
            /\ log[p.end].time >= 0 /\ log[p.end].time < log[i].time
    IN ValidDeclaration(ProjectTerminal(p.session, p.end)) <=> ~backwards

\* An export withholds nothing more of an accepted summary, and what it makes
\* of any other is fit to be shown (privacy.ts, exportProjection).
ASSUME ExportShowsNames ==
  \A p \in OfOwn :
    LET d == ProjectTerminal(p.session, p.end)
        raw == [d EXCEPT !.provider = Reported("https://private")]
    IN ExportProjection(d) = d /\ IsMissing(ExportProjection(raw).provider)

----------------------------------------------------------------------------
(* Queries *)

LOCAL Totals == {Reported(0), Reported(MaxSafe), [Reported(1) EXCEPT !.state = "estimated"], Missing("not_provided")}
LOCAL Stored(ref, endedAt, total) ==
  [ref |-> ref, endedAt |-> endedAt, executor |-> [id |-> Missing("binding_unavailable")],
   result |-> IF ref = 1 THEN Reported("completed") ELSE Missing("unsupported_terminal_reason"),
   parent |-> Missing("not_applicable"), provider |-> Reported("acme"), model |-> Reported("large"),
   usage |-> [field \in Fields |-> total]]
LOCAL Stores ==
  {{Stored(ref, ended[ref], total[ref % 2]) : ref \in 1..3} :
     ended \in [1..3 -> {Missing("invalid_value"), Reported(0), Reported(1)}], total \in [0..1 -> Totals]}
LOCAL Filters ==
  {[result |-> "unavailable"], [quality |-> "estimated"], [from |-> 0], [to |-> 0], [from |-> 1, to |-> 1],
   [from |-> 1, to |-> 0], [executor |-> "acme"]} \union {<<>>}
LOCAL Page(filter, offset, limit) ==
  [key \in DOMAIN filter \union {"offset", "limit"} |->
     CASE key = "offset" -> offset [] key = "limit" -> limit [] OTHER -> filter[key]]

\* Pages of any size show each matching summary once, the latest first, under
\* one total and one aggregate; an interval shows none without a time; and a
\* sum that is not exact refuses all of them, never a part (query.ts).
ASSUME PagesPartition ==
  \A ds \in Stores, filter \in Filters, limit \in 1..2 :
    LET page(k) == QueryRecords(ds, Page(filter, k * limit, limit), 1)
        whole == QueryRecords(ds, Page(filter, 0, 3), 1)
        shown == {d \in ds : Matches(d, filter)}
        at(r, i) == IF i \in DOMAIN r THEN {r[i]} ELSE {}
    IN IF whole.code # "none" THEN \A k \in 0..3 : page(k) = whole
       ELSE /\ \A k \in 0..3 : page(k).total = whole.total /\ page(k).aggregate = whole.aggregate
            /\ \A i \in 1..4 : at(page((i - 1) \div limit).records, ((i - 1) % limit) + 1) = at(whole.records, i)
            /\ {whole.records[i] : i \in DOMAIN whole.records} = shown /\ Len(whole.records) = Cardinality(shown)
            /\ \A i \in 2..Len(whole.records) :
                 LET later == whole.records[i - 1].endedAt  earlier == whole.records[i].endedAt IN
                 IsMissing(earlier) \/ (~IsMissing(later) /\ later.value >= earlier.value)
            /\ {"from", "to"} \intersect DOMAIN filter # {} => \A d \in shown : ~IsMissing(d.endedAt)
            /\ \A field \in Fields : whole.aggregate[field].reported.sum <= MaxSafe
=============================================================================
