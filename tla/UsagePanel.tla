------------------------------ MODULE UsagePanel ------------------------------
(***************************************************************************)
(* The settings panel of the client (src/client/index.ts), the routes it   *)
(* calls (src/host/transport.js, panel.js, mount.js) and, behind them, the *)
(* whole reporter: what the person is shown, may select and resends, while *)
(* requests and answers are under way between the browser and the Host.    *)
(*                                                                         *)
(* Abstractions: one device, so what is shown belongs to it; a selection   *)
(* and the click on the button are one step (whatever could come between   *)
(* them clears the selection); requests under way of a component that is   *)
(* gone may still reach the Host, never the component.  The list of        *)
(* records of the same section is in UsageRecords.                         *)
(***************************************************************************)
EXTENDS ReporterProperties

VARIABLES
  view,  \* UsageResendPanel: [mounted, load, panel, post, result]
  owed   \* history: explicit attempts the person has asked for, less those made

panelVars == <<view, owed>>

\* What GET panel returns: whether a resend may be asked for, and of what.
NoSnapshot == [shown |-> FALSE, open |-> FALSE, events |-> {}]
HostRejected(s) == {id \in Held(s) : s.rows[id].state = "rejected" /\ s.rows[id].code = HostRejection}
Snapshot == [shown |-> TRUE, open |-> Granted /\ memory.withdrawal = "none",
             events |-> IF core.linked THEN Pending(memory) \union HostRejected(memory) ELSE {}]

\* What POST events/resend returns: what became of the events, and health.
NoResult == [shown |-> FALSE, open |-> FALSE, told |-> [id \in {} |-> "pending"]]

NoLoad == [pc |-> "none", value |-> NoSnapshot]
NoPost == [pc |-> "none", ids |-> {}, behind |-> 0, value |-> NoResult]
Closed == [mounted |-> FALSE, load |-> NoLoad, panel |-> NoSnapshot, post |-> NoPost, result |-> NoResult]

Sees(v) == view' = v /\ UNCHANGED <<vars, owed>>
Loading(v) == [v EXCEPT !.load = [NoLoad EXCEPT !.pc = "asked"]]

----------------------------------------------------------------------------
(* The client *)

Opens ==
  /\ ~view.mounted /\ Spend("view")
  /\ view' = Loading([Closed EXCEPT !.mounted = TRUE])
  /\ UNCHANGED <<core, server, store, reporter, strands, owed>>

\* The button "refresh": another revision, whose load replaces the one under
\* way; a resend under way is left alone.
Refreshes ==
  /\ view.mounted /\ Spend("view")
  /\ view' = Loading(view)
  /\ UNCHANGED <<core, server, store, reporter, strands, owed>>

Closes ==
  /\ view.mounted /\ Spend("view")
  /\ view' = Closed
  /\ UNCHANGED <<core, server, store, reporter, strands, owed>>

\* The Host takes its snapshot when the request reaches it.
HostShows ==
  /\ view.load.pc = "asked"
  /\ Sees([view EXCEPT !.load = [pc |-> "answered", value |-> Snapshot]])

\* The later answer replaces what is shown, the result of a resend included.
LoadArrives ==
  /\ view.load.pc = "answered"
  /\ Sees([view EXCEPT !.load = NoLoad, !.panel = view.load.value, !.result = NoResult])

LoadFails ==
  /\ view.load.pc # "none" /\ Spend("network")
  /\ view' = [view EXCEPT !.load = NoLoad, !.panel = NoSnapshot]
  /\ UNCHANGED <<core, server, store, reporter, strands, owed>>

\* What was read last decides: a resend under way, or a load, blocks the panel.
Latest == IF view.result.shown THEN view.result ELSE view.panel
IsBlocked ==
  view.load.pc # "none" \/ view.post.pc # "none" \/ ~view.panel.shown \/ ~Latest.open
Ended(told) == {id \in DOMAIN told : told[id] \in {"confirmed", "rejected"}}
Candidates == view.panel.events \ Ended(view.result.told)

Clicks ==
  /\ view.mounted /\ ~IsBlocked /\ Spend("click")
  /\ \E ids \in Selections(Candidates) :
       /\ view' = [view EXCEPT !.post = [NoPost EXCEPT !.pc = "asked", !.ids = ids]]
       /\ owed' = [id \in EventIds |-> owed[id] + IF id \in ids THEN 1 ELSE 0]
  /\ UNCHANGED <<core, server, store, reporter, strands>>

\* The answer is lost: the Host goes on with the job all the same.
PostFails ==
  /\ view.post.pc # "none" /\ Spend("network")
  /\ view' = [view EXCEPT !.post = NoPost]
  /\ UNCHANGED <<core, server, store, reporter, strands, owed>>

ReplyArrives ==
  /\ view.post.pc = "replied"
  /\ Sees([view EXCEPT !.post = NoPost, !.result = view.post.value])

----------------------------------------------------------------------------
(* The Host *)

\* resendEvents: the ids of one request join the jobs.
HostTakes ==
  /\ view.post.pc = "asked"
  /\ Enqueue(Job("resend", view.post.ids))
  /\ view' = [view EXCEPT !.post.pc = "queued", !.post.behind = Len(jobs)]
  /\ UNCHANGED <<core, left, reporter, owed>>

\* delivery(event).  A stored outcome this process has not seen itself counts
\* as unconfirmed; but what a resend reports was pending when it began.
DeliveryOf(id) ==
  CASE id \in DOMAIN reporter.unconfirmed -> "unconfirmed"
    [] memory.rows[id].state = "rejected" -> "rejected"
    [] memory.rows[id].state \in {"sent", "duplicate"} -> "confirmed"
    [] OTHER -> "pending"

\* Where a resend ends tells whether its answer lists the events.
Observed ==
  \/ At("resend", "next") /\ (run.selected = {} \/ Ready)
  \/ \E pc \in {"apply", "fail", "hold"} : At("resend", pc)
  \/ At("resend", "intent") /\ reporter'.failed /\ run.selected # Head(tail).ids

Answer ==
  [shown |-> TRUE, open |-> Granted' /\ memory'.withdrawal = "none",
   told |-> [id \in IF Observed THEN view.post.ids \cap Held(memory) ELSE {} |-> DeliveryOf(id)']]

\* A step of the Host behind the request: the job it waits for, or its own, ends.
Behind ==
  LET post == view.post IN
  view' = IF post.pc # "queued" \/ Len(jobs') >= Len(jobs) THEN view
          ELSE IF post.behind > 0 THEN [view EXCEPT !.post.behind = @ - 1]
          ELSE [view EXCEPT !.post.pc = "replied", !.post.behind = 0, !.post.value = Answer]

\* Explicit attempts: one asked for by another client of the service, one made.
Attempted == IF At("resend", "sign") /\ run'.pc = "post" THEN run.batch ELSE {}

HostMoves ==
  /\ StoreStep \/ TimerFires \/ SenderStep \/ ServerStep \/ JobStep \/ CoreAttached
     \/ Withhold \/ Grant \/ CoreDetached \/ OriginChanges \/ RecordCalled \/ BackgroundScan
  /\ Behind
  /\ owed' = [id \in EventIds |-> owed[id] - IF id \in Attempted THEN 1 ELSE 0]

OthersResend ==
  /\ ResendCalled
  /\ owed' = [id \in EventIds |-> owed[id] + IF id \in jobs'[Len(jobs')].ids THEN 1 ELSE 0]
  /\ UNCHANGED view

\* The Host stops: what the panel waits for fails.
HostStops ==
  /\ Crash
  /\ view' = [view EXCEPT !.load = NoLoad, !.post = NoPost,
                !.panel = IF view.load.pc = "none" THEN @ ELSE NoSnapshot]
  /\ UNCHANGED owed

PanelInit == Init /\ view = Closed /\ owed = [id \in EventIds |-> 0]

ClientStep ==
  \/ Opens \/ Refreshes \/ Closes \/ LoadArrives \/ LoadFails \/ Clicks \/ PostFails \/ ReplyArrives

PanelNext == ClientStep \/ HostShows \/ HostTakes \/ HostMoves \/ OthersResend \/ HostStops

PanelSpec == PanelInit /\ [][PanelNext]_<<vars, panelVars>>

----------------------------------------------------------------------------
(* Properties *)

\* A click is one attempt at most, whatever batch fails and whatever answer is
\* lost (client/index.ts:173): no event is posted more often than asked for.
TriesWereAsked == \A id \in EventIds : owed[id] >= 0

\* The answer to a click tells the truth: "confirmed" is at the server, and
\* "pending" may not be there through an earlier request of unknown outcome.
AnswerIsHonest ==
  [][view.post.pc = "queued" /\ view'.post.pc = "replied" =>
       LET told == view'.post.value.told IN
       \A id \in DOMAIN told :
         /\ told[id] = "confirmed" => id \in server'.ingested
         /\ told[id] = "pending" => id \notin server'.doubt]_view
=============================================================================
