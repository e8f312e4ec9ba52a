--------------------------- MODULE ActivitySummary ---------------------------
(***************************************************************************)
(* What a summary says of its turn (src/core/project.ts), what the store   *)
(* accepts of it (validate.ts), and what a query or an export shows of the *)
(* summaries (query.ts, store.ts, privacy.ts): functions of a session log  *)
(* and of a set of summaries.  SessionSummaries models when they run.      *)
(*                                                                         *)
(* The seq of an event is its place in the log.  A text is "" when absent, *)
(* a name that may be shown, or one that safeMetadata rejects.  A count    *)
(* that is no safe integer is -1; a field that is absent is not in DOMAIN. *)
(***************************************************************************)
EXTENDS Integers, Sequences, FiniteSets, FiniteSetsExt, SequencesExt

CONSTANTS
  Names,        \* texts that may be shown
  MaxSafe,      \* Number.MAX_SAFE_INTEGER
  QueryCeiling  \* MAX_QUERY_LIMIT

ASSUME ActivityAssumptions == MaxSafe \in Nat /\ QueryCeiling \in Nat \ {0} /\ "" \notin Names

Missing(reason) == [state |-> "unavailable", reason |-> reason]
Reported(value) == [state |-> "reported", value |-> value]
IsMissing(o) == o.state = "unavailable"

Text(value, reason) ==
  CASE value = "" -> Missing(reason)
    [] value \in Names -> Reported(value)
    [] OTHER -> Missing("redacted")
Number(value) == IF value \in 0..MaxSafe THEN Reported(value) ELSE Missing("invalid_value")

----------------------------------------------------------------------------
(* The projection of a turn *)

\* Blocked and ceiling outcomes are not successes: they have no result.
Outcome == [completed |-> "completed", error |-> "failed",
            aborted |-> "interrupted", interrupted |-> "interrupted"]
TerminalReasons == DOMAIN Outcome \union {"blocked", "max-tokens"}
Withheld == "runtime_error_details_withheld"
TerminalResult(kind) ==
  [result |-> IF kind \in DOMAIN Outcome THEN Reported(Outcome[kind])
              ELSE Missing("unsupported_terminal_reason"),
   terminalReason |-> IF kind \in TerminalReasons THEN kind ELSE "unsupported",
   error |-> IF kind = "error" THEN Reported(Withheld) ELSE Missing("not_applicable")]

\* The contexts between start and end, and the last one before start.
IsContext(event) == event.type = "request/context"
Contexts(events, start, end) ==
  {i \in 1..end : IsContext(events[i]) /\ \A j \in (i + 1)..(start - 1) : ~IsContext(events[j])}
Routes(events, start, end) == {events[i].route : i \in Contexts(events, start, end)}

Route(events, start, end) ==
  LET routes == Routes(events, start, end)
      both(o) == [provider |-> o, model |-> o] IN
  CASE routes = {} -> both(Missing("route_not_observed"))
    [] Cardinality(routes) > 1 -> both(Missing("multiple_routes"))
    [] OTHER -> LET route == CHOOSE r \in routes : TRUE IN
                [provider |-> Text(route.provider, "not_provided"),
                 model |-> Text(route.model, "not_provided")]

\* One completed provider call per message with usage.
Fields == {"inputTokens", "outputTokens", "totalTokens"}
Payloads(events, start, end, turn) ==
  LET calls == SelectSeq(SubSeq(events, start, end), LAMBDA e :
                 e.type = "assistant/message" /\ e.turn = turn /\ "usage" \in DOMAIN e)
  IN [i \in DOMAIN calls |-> calls[i].usage]

Added(total, payload, field) ==
  CASE IsMissing(total) -> total
    [] ~IsMissing(total) /\ field \notin DOMAIN payload ->
         Missing(IF field = "totalTokens" THEN "not_provided" ELSE "invalid_value")
    [] OTHER ->
         IF payload[field] >= 0 THEN Number(total.value + payload[field]) ELSE Missing("invalid_value")

TokenUsage(events, start, end, turn) ==
  LET payloads == Payloads(events, start, end, turn) IN
  [field \in Fields |->
     IF payloads = <<>> THEN Missing("usage_not_reported")
     ELSE FoldLeft(LAMBDA total, payload : Added(total, payload, field), Reported(0), payloads)]

\* The last own start of the turn before its end.
Starts(session, end) ==
  {i \in (session.inherited + 1)..(end - 1) :
     session.events[i].type = "turn/start" /\ session.events[i].turn = session.events[end].turn}
OwnedStart(session, end) ==
  IF Starts(session, end) = {} THEN session.inherited + 1 ELSE Max(Starts(session, end))

\* Who ran the session, when the registry has a binding for it.
Executor(session) ==
  [part \in {"id", "version", "protocolVersion"} |->
     IF session.bound THEN Text(session.binding[part], "not_provided")
     ELSE Missing("binding_unavailable")]

\* For the end of a turn of the session's own.
ProjectTerminal(session, end) ==
  LET events == session.events
      start == OwnedStart(session, end)
      outcome == TerminalResult(events[end].reason)
      route == Route(events, start, end) IN
  [executor |-> Executor(session), parent |-> Text(session.parent, "not_applicable"),
   provider |-> route.provider, model |-> route.model,
   startedAt |-> IF Starts(session, end) = {} THEN Missing("not_provided") ELSE Number(events[start].time),
   endedAt |-> Number(events[end].time),
   result |-> outcome.result, terminalReason |-> outcome.terminalReason, error |-> outcome.error,
   usage |-> TokenUsage(events, start, end, events[end].turn)]

----------------------------------------------------------------------------
(* What the store accepts, and what leaves it *)

IsText(o) == IsMissing(o) \/ o.value \in Names
IsNumber(o) == IsMissing(o) \/ o.value \in 0..MaxSafe

ValidDeclaration(d) ==
  /\ \A part \in DOMAIN d.executor : IsText(d.executor[part])
  /\ IsText(d.parent) /\ IsText(d.provider) /\ IsText(d.model)
  /\ d.terminalReason \in TerminalReasons \union {"unsupported"}
  /\ IF d.terminalReason \in DOMAIN Outcome
     THEN d.result = Reported(Outcome[d.terminalReason]) ELSE IsMissing(d.result)
  /\ IsMissing(d.error) \/ (d.terminalReason = "error" /\ d.error.value = Withheld)
  /\ IsNumber(d.startedAt) /\ IsNumber(d.endedAt)
  /\ IsMissing(d.startedAt) \/ IsMissing(d.endedAt) \/ d.endedAt.value >= d.startedAt.value
  /\ \A field \in Fields : IsNumber(d.usage[field])

\* exportProjection: a text that may not be shown is withheld at the door too.
Observe(o) == IF IsText(o) THEN o ELSE Missing("redacted")
ExportProjection(d) ==
  [d EXCEPT !.executor = [part \in DOMAIN @ |-> Observe(@[part])],
            !.parent = Observe(@), !.provider = Observe(@), !.model = Observe(@)]

----------------------------------------------------------------------------
(* Queries *)

Results == {"completed", "failed", "interrupted", "unavailable"}
Qualities == {"reported", "estimated", "unavailable"}

ValidFilter(filter) ==
  LET has(key) == key \in DOMAIN filter IN
  /\ DOMAIN filter \subseteq {"executor", "from", "to", "result", "quality", "offset", "limit"}
  /\ \A key \in {"from", "to", "offset", "limit"} : has(key) => filter[key] \in 0..MaxSafe
  /\ has("limit") => filter.limit \in 1..QueryCeiling
  /\ has("from") /\ has("to") => filter.from <= filter.to
  /\ has("result") => filter.result \in Results
  /\ has("quality") => filter.quality \in Qualities

\* The time of a summary that has none is outside every interval.
Matches(d, filter) ==
  LET has(key) == key \in DOMAIN filter IN
  /\ has("executor") => ~IsMissing(d.executor.id) /\ d.executor.id.value = filter.executor
  /\ has("result") => filter.result = (IF IsMissing(d.result) THEN "unavailable" ELSE d.result.value)
  /\ has("quality") => \E field \in Fields : d.usage[field].state = filter.quality
  /\ has("from") => ~IsMissing(d.endedAt) /\ d.endedAt.value >= filter.from
  /\ has("to") => ~IsMissing(d.endedAt) /\ d.endedAt.value <= filter.to

EndOf(d) == IF IsMissing(d.endedAt) THEN -1 ELSE d.endedAt.value
Listed(ds) ==
  SetToSortSeq(ds, LAMBDA a, b : EndOf(a) > EndOf(b) \/ (EndOf(a) = EndOf(b) /\ a.ref < b.ref))

\* metricTotal: what was reported and what was estimated are never added up.
InState(ds, field, state) == {d \in ds : d.usage[field].state = state}
Bucket(ds, field, state) ==
  [sum |-> MapThenSumSet(LAMBDA d : d.usage[field].value, InState(ds, field, state)),
   count |-> Cardinality(InState(ds, field, state))]
MetricTotal(ds, field) ==
  [reported |-> Bucket(ds, field, "reported"), estimated |-> Bucket(ds, field, "estimated"),
   unavailable |-> Cardinality(InState(ds, field, "unavailable"))]
Overflows(ds) ==
  \E field \in Fields, state \in {"reported", "estimated"} : Bucket(ds, field, state).sum > MaxSafe

Refused(code) == [code |-> code]
QueryRecords(ds, filter, defaultLimit) ==
  LET matched == {d \in ds : Matches(d, filter)}
      get(key, default) == IF key \in DOMAIN filter THEN filter[key] ELSE default
      from == get("offset", 0) + 1
      last == Min({Cardinality(matched), get("offset", 0) + get("limit", defaultLimit)}) IN
  CASE ~ValidFilter(filter) -> Refused("INVALID_FILTER")
    [] ValidFilter(filter) /\ Overflows(matched) -> Refused("AGGREGATE_OVERFLOW")
    [] OTHER -> [code |-> "none", total |-> Cardinality(matched),
                 records |-> SubSeq(Listed(matched), from, last),
                 aggregate |-> [field \in Fields |-> MetricTotal(matched, field)]]

ExportRecords(ds, filter, defaultLimit) ==
  LET result == QueryRecords(ds, filter, defaultLimit) IN
  IF result.code # "none" THEN result
  ELSE [result EXCEPT !.records = [i \in DOMAIN @ |-> ExportProjection(@[i])]]

----------------------------------------------------------------------------
(* Reference: the route in effect at a moment is the last one set by then. *)

InEffect(events, i, at) ==
  i <= at /\ IsContext(events[i]) /\ \A j \in (i + 1)..at : ~IsContext(events[j])
RoutesInEffect(events, start, end) ==
  {events[i].route : i \in {i \in 1..end : \E at \in start..end : InEffect(events, i, at)}}
=============================================================================
