------------------------------ MODULE PageClient ------------------------------
(***************************************************************************)
(* The client's observer of presented pages (src/client/index.ts), one per *)
(* component a plugin registers in a functional slot, composed with the    *)
(* Host's page facts (FactSources) through the Remote (pages-remote.js).   *)
(*                                                                         *)
(* External: React, which runs, cleans up and replays effects, and shows   *)
(* and empties the component; the connection.  A page's claim and the flag *)
(* of what it has sent outlive its effects; whether an effect is live does *)
(* not.  All pages share one connection; other clients of the Host issue   *)
(* and present on their own.                                               *)
(***************************************************************************)
EXTENDS FactSources

CONSTANTS
  Pages,   \* mounted components
  Browser  \* their connection

ASSUME BrowserAssumption == Browser \in Peers

VARIABLES
  client,  \* "starting", "ready" (the namespace is injected), "closed"
  page     \* of each component, see NewPage

pageClient == <<client, page>>

\* live: the current effect; checked: it waits for the claim; body: its DOM
\* has children; claim: "none", "asked", "issued", "refused"; tokens: what it
\* has asked for; sent: it has presented one.
NewPage == [live |-> FALSE, checked |-> FALSE, body |-> FALSE,
            claim |-> "none", tokens |-> {}, sent |-> FALSE]

Host == vars
Set(v, r) == page' = [page EXCEPT ![v] = r]

----------------------------------------------------------------------------
(* check(): from an effect that starts, or the observer of its DOM *)

\* The claim is made once, and waited for; a Host that would not ask the plugin
\* manager refuses at once.
Claims(v, r) ==
  \/ r.claim # "none" /\ Set(v, r) /\ UNCHANGED Host
  \/ /\ r.claim = "none" /\ IssueCalled(Browser)
     /\ Set(v, [r EXCEPT !.claim = "asked", !.tokens = @ \union (drawn' \ drawn)])
  \/ /\ r.claim = "none" /\ (closing \/ Consent # "granted" \/ Browser \notin connected)
     /\ Set(v, [r EXCEPT !.claim = "refused"])
     /\ UNCHANGED Host

Checks(v, r) ==
  IF r.live /\ r.body /\ client = "ready" /\ ~r.sent THEN Claims(v, [r EXCEPT !.checked = TRUE])
  ELSE Set(v, r) /\ UNCHANGED Host

\* Mutant: the claim and the flag belong to the effect.
EffectRuns_Afresh(v) ==
  /\ client # "closed"
  /\ Checks(v, [NewPage EXCEPT !.live = TRUE, !.body = page[v].body, !.tokens = page[v].tokens])
  /\ UNCHANGED client

\* Rendered: the effect before is cleaned up, a new one starts.
EffectRuns(v) ==
  /\ client # "closed"
  /\ Checks(v, [page[v] EXCEPT !.live = TRUE, !.checked = FALSE])
  /\ UNCHANGED client

\* Hidden or unmounted: the effect is cleaned up.
EffectEnds(v) ==
  /\ page[v].live
  /\ page' = [page EXCEPT ![v].live = FALSE, ![v].checked = FALSE]
  /\ UNCHANGED <<Host, client>>

\* Children appear later than the component, without a render of it.
BodyAppears(v) ==
  /\ ~page[v].body
  /\ Checks(v, [page[v] EXCEPT !.body = TRUE])
  /\ UNCHANGED client

----------------------------------------------------------------------------
(* The Remote *)

\* issue returns: a credential, a rejection, or an error of the connection.
ClaimAnswered(v, c) ==
  /\ page[v].claim = "asked" /\ c.permit.token \in page[v].tokens
  /\ IssueAnswered(c)
  /\ page' = [page EXCEPT ![v].claim =
       IF Browser \in connected /\ \E p \in credentials' : p.token = c.permit.token THEN "issued" ELSE "refused"]
  /\ UNCHANGED client

\* The continuation of the live effect's check: consumed before anything else.
Presents(v) ==
  LET ours == {p \in credentials : p.token \in page[v].tokens} IN
  /\ page[v].live /\ page[v].checked /\ client = "ready" /\ ~page[v].sent /\ page[v].claim = "issued"
  /\ Set(v, [page[v] EXCEPT !.sent = TRUE, !.checked = FALSE])
  /\ \/ \E p \in ours : PresentedCalled(p)
     \/ (ours = {} \/ closing \/ Browser \notin connected) /\ UNCHANGED Host
  /\ UNCHANGED client

\* apply: the namespace is injected, taken back, or the client is disposed.
ClientChanges ==
  /\ client # "closed"
  /\ client' \in {"starting", "ready", "closed"} \ {client}
  /\ UNCHANGED <<Host, page>>

----------------------------------------------------------------------------
Ours(t) == \E v \in Pages : t \in page[v].tokens

\* The Host's own steps, and other clients; the answers of our claims are above.
HostSteps ==
  /\ \/ \E p \in Peers : IssueCalled(p) \/ Released(p)
     \/ \E c \in calls : (c.kind = "presented" /\ PresentedAnswered(c)) \/ (~Ours(c.permit.token) /\ IssueAnswered(c))
     \/ \E p \in credentials : ~Ours(p.token) /\ PresentedCalled(p)
     \/ \E c \in Commands : RunObserved(c) \/ HandlerCalled(c) \/ DoneObserved(c)
     \/ \E s \in {SessionOf[c] : c \in Commands} : SessionDisposed(s)
     \/ JobTakesPage \/ JobTakesCommand \/ JobLearnsOwner \/ JobPuts \/ JobWithdraws \/ JobGrants
     \/ ConsentChanges \/ ConsentChangesUnseen \/ CoreChanges \/ Tick \/ Close \/ LetsGo
  /\ UNCHANGED pageClient

PageInit == Init /\ client = "starting" /\ page = [v \in Pages |-> NewPage]

PageNext ==
  \/ HostSteps \/ ClientChanges
  \/ \E v \in Pages :
       \/ EffectRuns(v) \/ EffectEnds(v) \/ BodyAppears(v) \/ Presents(v)
       \/ \E c \in calls : ClaimAnswered(v, c)

PageSpec == PageInit /\ [][PageNext]_<<vars, pageClient>>

\* However effects are replayed, and claims answered late, a shown component is
\* one page open at most: its claim and its flag outlive the effects.
OneOpenPerPage == \A v \in Pages : Cardinality({f \in facts : f.id \in page[v].tokens}) <= 1
=============================================================================
