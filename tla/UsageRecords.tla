----------------------------- MODULE UsageRecords -----------------------------
(***************************************************************************)
(* The list of records of the settings panel (src/client/index.ts,         *)
(* UsageRecords), which also asks the usage server what it holds of this   *)
(* device, through the Host (readRemote in src/host/upload.js): a load of  *)
(* local rows, a listing read page by page, refreshes and lost answers,    *)
(* while the reporter sends, and a withdrawal deletes, what is listed.     *)
(*                                                                         *)
(* Of the rows only what relates them to the server is kept.  The list and *)
(* the resend controls share the Host, and nothing in the browser but the  *)
(* refresh button: a run opens one of them.                                *)
(***************************************************************************)
EXTENDS UsagePanel

CONSTANT ListLimit  \* events of one page of the server's listing

ASSUME ListAssumption == ListLimit \in Nat \ {0}

VARIABLE list  \* UsageRecords: [mounted, load, rows, check, remote]

\* What GET panel returns to the list: whether it then asks the server, the
\* events it says the server has, and those it says the server has deleted;
\* less, as history, those the server has deleted or taken since.
Unlisted == [shown |-> FALSE, asks |-> FALSE, has |-> {}, lacks |-> {}]
Received(s) == {id \in Held(s) : s.rows[id].state \in {"sent", "duplicate"}}
Deleted(s) == IF s.withdrawal = "sent" THEN EventIds ELSE {}
Asks == Granted /\ core.origin
Rows == [shown |-> TRUE, asks |-> Asks, has |-> Received(memory), lacks |-> Deleted(memory)]

\* A check of the server: what was shown when it was asked, what it has read.
NoCheck == [pc |-> "none", rows |-> Unlisted, listed |-> {}, answer |-> "none"]
NoLoading == [pc |-> "none", rows |-> Unlisted]
NoList == [mounted |-> FALSE, load |-> NoLoading, rows |-> Unlisted, check |-> NoCheck, remote |-> "none"]

Others == <<vars, panelVars>>
Shows(l) == list' = l /\ UNCHANGED Others
Acts(l) ==
  /\ Spend("list") /\ list' = l
  /\ UNCHANGED <<core, server, store, reporter, strands, panelVars>>
Loses(l) ==
  /\ Spend("network") /\ list' = l
  /\ UNCHANGED <<core, server, store, reporter, strands, panelVars>>

----------------------------------------------------------------------------
(* The client *)

\* Mounted, or another revision: a load takes the place of the one under way,
\* and clears the server's answer; a check under way goes on.
Reloads(l) == [l EXCEPT !.mounted = TRUE, !.load = [NoLoading EXCEPT !.pc = "asked"], !.remote = "none"]

ListOpens == ~list.mounted /\ Acts(Reloads(list))
ListRefreshes == list.mounted /\ Acts(Reloads(list))
ListCloses == list.mounted /\ Acts(NoList)

\* checkRemote: one at a time.
Checked(l) ==
  IF l.check.pc # "none" THEN l
  ELSE [l EXCEPT !.check = [NoCheck EXCEPT !.pc = "asked", !.rows = l.rows]]

\* With consent and a server, the rows that arrive ask for the listing.
RowsArrive ==
  LET shown == [list EXCEPT !.load = NoLoading, !.rows = list.load.rows] IN
  /\ list.load.pc = "answered"
  /\ Shows(IF shown.rows.asks THEN Checked(shown) ELSE shown)

RowsLost ==
  list.load.pc # "none" /\ Loses([list EXCEPT !.load = NoLoading, !.rows = Unlisted])

CheckClicked == list.rows.shown /\ list.check.pc = "none" /\ Acts(Checked(list))

RemoteArrives ==
  /\ list.check.pc = "answered"
  /\ Shows([list EXCEPT !.check = NoCheck, !.remote = list.check.answer])

RemoteLost ==
  list.check.pc # "none" /\ Loses([list EXCEPT !.check = NoCheck, !.remote = "unknown"])

----------------------------------------------------------------------------
(* The Host and the server *)

HostLists ==
  /\ list.load.pc = "asked"
  /\ Shows([list EXCEPT !.load = [pc |-> "answered", rows |-> Rows]])

Answered(l, kind) == [l EXCEPT !.check.pc = "answered", !.check.answer = kind]

\* readRemote, up to its first request; it goes on with this Core and origin.
HostReads ==
  /\ list.check.pc = "asked"
  /\ Shows(CASE ~core.linked -> Answered(list, "unknown")
             [] core.linked /\ ~core.origin -> Answered(list, "offline")
             [] OTHER -> [list EXCEPT !.check.pc = "reading"])

\* A page after the cursor; the last one has no nextAfter.
ServerLists ==
  /\ list.check.pc = "reading"
  /\ \E page \in SUBSET (server.stored \ list.check.listed) :
       LET read == [list EXCEPT !.check.listed = @ \union page]
           over == server.stored \subseteq read.check.listed IN
       /\ Cardinality(page) <= ListLimit /\ (page = {} => over)
       /\ Shows(IF over THEN Answered(read, "available") ELSE read)

\* Mutant: a request that fails ends the loop with what was read before.
ReadFails_Short ==
  list.check.pc = "reading" /\ Loses(Answered(list, "available"))

\* Signing, the request or its answer fails, on any page.
ReadFails ==
  list.check.pc = "reading" /\ Loses(Answered(list, "unknown"))

\* History: what the server deletes it need not list, what it takes it may.
Since(r) ==
  [r EXCEPT !.has = @ \ (server.stored \ server'.stored),
            !.lacks = @ \ (server'.stored \ server.stored)]
ServerSince(l) ==
  [l EXCEPT !.load.rows = Since(@), !.rows = Since(@), !.check.rows = Since(@)]

\* The Host stops: what the list waits for fails, a load's rows go.
ListInterrupted(l) ==
  [l EXCEPT !.load = NoLoading, !.rows = IF l.load.pc = "none" THEN @ ELSE Unlisted,
            !.check = NoCheck, !.remote = IF l.check.pc = "none" THEN @ ELSE "unknown"]

----------------------------------------------------------------------------
RecordsInit == PanelInit /\ list = NoList

ListStep ==
  \/ ListOpens \/ ListRefreshes \/ ListCloses \/ CheckClicked
  \/ RowsArrive \/ RowsLost \/ RemoteArrives \/ RemoteLost
  \/ HostLists \/ HostReads \/ ServerLists \/ ReadFails

RecordsNext ==
  \/ ListStep
  \/ (ClientStep \/ HostShows \/ HostTakes \/ HostMoves \/ OthersResend) /\ list' = ServerSince(list)
  \/ HostStops /\ list' = ServerSince(ListInterrupted(list))

RecordsSpec == RecordsInit /\ [][RecordsNext]_<<vars, panelVars, list>>

\* A listing agrees with the rows it was asked for: it holds every event they
\* call received, and none they say the server deleted, unless that changed
\* since; a server that cannot be read is unknown, never an empty listing
\* (transport.js:64, client/index.ts:298).
ListingAgrees ==
  [][list.check.pc = "reading" /\ list'.check.answer = "available" =>
       LET check == list'.check IN
       check.rows.has \subseteq check.listed /\ check.listed \cap check.rows.lacks = {}]_list
=============================================================================
