---------------------------- MODULE FactSources ----------------------------
(***************************************************************************)
(* Where the Host's own usage facts come from: page opens                  *)
(* (src/host/page-facts.js, pages-remote.js) and command successes         *)
(* (src/host/command-facts.js), and the jobs of src/host/mount.js that     *)
(* record them next to the withdrawals of the person.                      *)
(*                                                                         *)
(* A page is presented under a credential that a peer asked for before;    *)
(* both calls await the plugin manager, so consent, Core, the peer and     *)
(* the installed bundles may change meanwhile.  External: Core, the plugin *)
(* manager, the peers, the sessions.  The event buffer is the set of       *)
(* facts and whether a withdrawal is recorded in it: EventStore and        *)
(* UsageReporter model it and its delivery.  Whose a page or command is,   *)
(* the plugin manager says anew each time: owned is any answer of it.      *)
(***************************************************************************)
EXTENDS Integers, Sequences, FiniteSets

CONSTANTS
  Peers,       \* connections of browser clients
  Tokens,      \* credentials
  Commands,    \* command ids
  Loads,       \* [tokens, commands] a behaviour draws and sees, [choice, marker] it starts with
  SessionOf,   \* [Commands -> session]
  MaxPending,  \* config.maxPending, the limit of both tables
  TTL,         \* life of a credential: 60 s
  MaxClock,    \* bound of the clock
  MaxEpoch     \* bound of the consent and Core changes

ASSUME FactAssumptions ==
  /\ Loads \subseteq [tokens : SUBSET Tokens, commands : SUBSET Commands,
                      choice : {"granted", "withheld"}, marker : BOOLEAN]
  /\ Tokens \cap (Commands \cup {"consent"}) = {}
  /\ MaxPending \in Nat \ {0} /\ TTL \in Nat /\ MaxClock \in Nat /\ MaxEpoch \in Nat

VARIABLES
  choice, linked,  \* the person's consent in Core; whether Core is attached
  listening,       \* close() has not let go of Core yet
  connected,       \* peers not disposed
  closing,         \* close() was called
  clock,
  epoch,           \* page-facts.js: revocations so far
  credentials,     \* permits handed out and not yet presented
  calls,           \* issue and presented calls that await the plugin manager
  drawn,           \* tokens used so far
  command,         \* [Commands -> status] as the session edges show it
  count,           \* command-facts.js: size of its tables
  jobs, jobAt,     \* mount's chain, and where its head is
  facts,           \* recorded page and command facts
  marker,          \* a withdrawal is recorded in the buffer
  era,             \* history: withdrawals heard of so far, stamped on what the person does
  erased,          \* history: the number of the last withdrawal that emptied the buffer
  lapsed           \* history: a withdrawal was not written, or one stayed recorded under consent

coreVars == <<choice, linked, listening>>
pageVars == <<epoch, credentials, calls, drawn>>
commandVars == <<command, count>>
jobVars == <<jobs, jobAt, facts>>
withdrawalVars == <<marker, era, erased, lapsed>>
vars == <<coreVars, connected, closing, clock, pageVars, commandVars, jobVars, withdrawalVars>>

-----------------------------------------------------------------------------
Consent == IF linked THEN choice ELSE "unknown"
Stamps == 0..MaxEpoch

\* asked: epoch of the issue call; epoch: the one the credential carries.
Permit == [token : Tokens, peer : Peers, asked : Stamps, epoch : Stamps, issuedAt : 0..MaxClock]
Call == [kind : {"issue"}, permit : Permit, era : Stamps]
          \cup [kind : {"presented"}, permit : Permit, era : Stamps]
Job == [kind : {"page"}, id : Tokens, epoch : Stamps, era : Stamps]
         \cup [kind : {"command"}, id : Commands, epoch : {0}, era : Stamps]
         \cup [kind : {"withdraw", "grant"}, id : {"consent"}, epoch : {0}, era : Stamps]
Fact == [kind : {"page"}, id : Tokens, era : Stamps]
          \cup [kind : {"command"}, id : Commands, era : Stamps]

\* A command the tables hold: its run edge was seen; its handler ran as well.
Tabled == {c \in Commands : command[c] \in {"run", "handled"}}

TypeOK ==
  /\ choice \in {"granted", "withheld"} /\ linked \in BOOLEAN /\ listening \in BOOLEAN
  /\ connected \subseteq Peers /\ closing \in BOOLEAN
  /\ clock \in 0..MaxClock /\ epoch \in Stamps /\ era \in Stamps
  /\ credentials \subseteq Permit /\ calls \subseteq Call /\ drawn \subseteq Tokens
  /\ command \in [Commands -> {"new", "run", "handled", "over"}]
  /\ count \in Nat
  /\ jobs \in Seq(Job) /\ jobAt \in {"idle", "owner", "put"}
  /\ facts \subseteq Fact
  /\ marker \in BOOLEAN /\ erased \in Stamps /\ lapsed \in BOOLEAN

\* A withdrawal may be recorded from before, and consent given since.
Init ==
  /\ \E load \in Loads :
       /\ choice = load.choice /\ marker = load.marker
       /\ drawn = Tokens \ load.tokens
       /\ command = [c \in Commands |-> IF c \in load.commands THEN "new" ELSE "over"]
  /\ linked = TRUE /\ listening = TRUE
  /\ connected = Peers /\ closing = FALSE
  /\ clock = 0 /\ epoch = 0 /\ era = 0
  /\ credentials = {} /\ calls = {} /\ count = 0
  /\ jobs = <<>> /\ jobAt = "idle" /\ facts = {}
  /\ erased = 0 /\ lapsed = (marker /\ choice = "granted")

-----------------------------------------------------------------------------
(* Page facts.                                                             *)

\* Mutant: any consent will do, not the one the permit was given under.
Permitted_AnyEpoch(e) == ~closing /\ Consent = "granted"

\* The permit is good: not closed, no revocation since, consent now.
Permitted(e) == ~closing /\ e = epoch /\ Consent = "granted"

\* pagePackage, ownedByProfileBundle: is it of the one bundle the person
\* installed?  The plugin manager is asked anew each time.
Owned == BOOLEAN

Unexpired(p) == clock - p.issuedAt <= TTL

\* issue(peer, request), up to the await of pagePackage.
IssueCalled(p) ==
  /\ ~closing /\ Consent = "granted" /\ p \in connected
  /\ \E t \in Tokens \ drawn :
       /\ drawn' = drawn \cup {t}
       /\ calls' = calls \cup {[kind |-> "issue", era |-> era,
            permit |-> [token |-> t, peer |-> p, asked |-> epoch, epoch |-> epoch, issuedAt |-> 0]]}
  /\ UNCHANGED <<coreVars, connected, closing, clock, epoch, credentials,
                 commandVars, jobVars, withdrawalVars>>

\* Mutant: nothing is asked again after the await.
IssueAnswered_Unasked(c) ==
  /\ c.kind = "issue"
  /\ calls' = calls \ {c}
  /\ IF ~closing /\ Cardinality({p \in credentials : Unexpired(p)}) < MaxPending
     THEN credentials' = {p \in credentials : Unexpired(p)}
            \cup {[c.permit EXCEPT !.epoch = epoch, !.issuedAt = clock]}
     ELSE UNCHANGED credentials
  /\ UNCHANGED <<coreVars, connected, closing, clock, epoch, drawn,
                 commandVars, jobVars, withdrawalVars>>

\* The await returns: everything is asked again, expired permits are dropped
\* and a free place is needed.  The peer may be gone by now.
IssueAnswered(c) ==
  /\ c.kind = "issue"
  /\ calls' = calls \ {c}
  /\ \E owned \in Owned :
       IF owned /\ Permitted(c.permit.epoch)
       THEN LET kept == {p \in credentials : Unexpired(p)}
            IN credentials' = IF Cardinality(kept) >= MaxPending THEN kept
                 ELSE kept \cup {[c.permit EXCEPT !.epoch = epoch, !.issuedAt = clock]}
       ELSE UNCHANGED credentials
  /\ UNCHANGED <<coreVars, connected, closing, clock, epoch, drawn,
                 commandVars, jobVars, withdrawalVars>>

\* Mutant: the credential is given up by a later step only.
PresentedCalled_Kept(p) ==
  /\ ~closing /\ p.peer \in connected
  /\ calls' = IF Permitted(p.epoch) /\ Unexpired(p)
              THEN calls \cup {[kind |-> "presented", permit |-> p, era |-> era]} ELSE calls
  /\ UNCHANGED <<coreVars, connected, closing, clock, epoch, credentials, drawn,
                 commandVars, jobVars, withdrawalVars>>

\* presented(peer, {credential}) of the peer it was issued to: consumed before
\* anything else, whatever comes of it.
PresentedCalled(p) ==
  /\ ~closing /\ p.peer \in connected
  /\ credentials' = credentials \ {p}
  /\ calls' = IF Permitted(p.epoch) /\ Unexpired(p)
              THEN calls \cup {[kind |-> "presented", permit |-> p, era |-> era]} ELSE calls
  /\ UNCHANGED <<coreVars, connected, closing, clock, epoch, drawn,
                 commandVars, jobVars, withdrawalVars>>

\* The second await returns: the record joins the jobs.
PresentedAnswered(c) ==
  /\ c.kind = "presented"
  /\ calls' = calls \ {c}
  /\ \E owned \in Owned :
       jobs' = IF owned /\ Permitted(c.permit.epoch)
               THEN Append(jobs, [kind |-> "page", id |-> c.permit.token,
                                  epoch |-> c.permit.epoch, era |-> c.era])
               ELSE jobs
  /\ UNCHANGED <<coreVars, connected, closing, clock, epoch, credentials, drawn,
                 commandVars, jobAt, facts, withdrawalVars>>

\* A connection is disposed: release(peer).
Released(p) ==
  /\ p \in connected
  /\ connected' = connected \ {p}
  /\ credentials' = {c \in credentials : c.peer # p}
  /\ UNCHANGED <<coreVars, closing, clock, epoch, calls, drawn, commandVars, jobVars, withdrawalVars>>

-----------------------------------------------------------------------------
(* Command facts.                                                          *)

\* command/run: a place in the tables, or the command stays unknown to them.
RunObserved(c) ==
  /\ ~closing /\ command[c] = "new"
  /\ IF count >= MaxPending
     THEN command' = [command EXCEPT ![c] = "over"] /\ UNCHANGED count
     ELSE command' = [command EXCEPT ![c] = "run"] /\ count' = count + 1
  /\ UNCHANGED <<coreVars, connected, closing, clock, pageVars, jobVars, withdrawalVars>>

\* The wrapped handler of a Loader entry runs.
HandlerCalled(c) ==
  /\ ~closing /\ command[c] = "run"
  /\ command' = [command EXCEPT ![c] = "handled"]
  /\ UNCHANGED <<coreVars, connected, closing, clock, pageVars, count, jobVars, withdrawalVars>>

\* command/done.  Only a success whose owner is known, under consent, with a
\* package behind the owner (commandPackage), is a fact to record.
DoneObserved(c) ==
  /\ ~closing /\ c \in Tabled
  /\ command' = [command EXCEPT ![c] = "over"]
  /\ count' = count - 1
  /\ \/ UNCHANGED jobs
     \/ /\ command[c] = "handled" /\ Consent = "granted"
        /\ jobs' = Append(jobs, [kind |-> "command", id |-> c, epoch |-> 0, era |-> era])
  /\ UNCHANGED <<coreVars, connected, closing, clock, pageVars, jobAt, facts, withdrawalVars>>

\* Mutant: one place is given back, whatever the session held.
SessionDisposed_OnePlace(s) ==
  /\ ~closing
  /\ \E c \in Tabled : SessionOf[c] = s
  /\ command' = [c \in Commands |-> IF c \in Tabled /\ SessionOf[c] = s THEN "over" ELSE command[c]]
  /\ count' = count - 1
  /\ UNCHANGED <<coreVars, connected, closing, clock, pageVars, jobVars, withdrawalVars>>

\* session/disposed: its commands leave the tables and give their places back.
SessionDisposed(s) ==
  /\ ~closing
  /\ \E c \in Tabled : SessionOf[c] = s
  /\ command' = [c \in Commands |-> IF c \in Tabled /\ SessionOf[c] = s THEN "over" ELSE command[c]]
  /\ count' = count - Cardinality({c \in Tabled : SessionOf[c] = s})
  /\ UNCHANGED <<coreVars, connected, closing, clock, pageVars, jobVars, withdrawalVars>>

-----------------------------------------------------------------------------
(* Jobs.                                                                   *)

JobOver == jobs' = Tail(jobs) /\ jobAt' = "idle"

\* recordSeat: consent is asked once more, then the buffer's put is awaited.
Seats == IF Consent = "granted" THEN jobAt' = "put" /\ UNCHANGED jobs ELSE JobOver

\* A page job: allowed() before the seat.
JobTakesPage ==
  /\ jobs # <<>> /\ jobAt = "idle" /\ Head(jobs).kind = "page"
  /\ IF Permitted(Head(jobs).epoch) THEN Seats ELSE JobOver
  /\ UNCHANGED <<coreVars, connected, closing, clock, pageVars, commandVars, facts, withdrawalVars>>

\* A command job awaits ownedByProfileBundle ...
JobTakesCommand ==
  /\ jobs # <<>> /\ jobAt = "idle" /\ Head(jobs).kind = "command"
  /\ jobAt' = "owner"
  /\ UNCHANGED <<coreVars, connected, closing, clock, pageVars, commandVars, jobs, facts, withdrawalVars>>

\* ... and only goes on for the bundle that is credited.
JobLearnsOwner ==
  /\ jobAt = "owner"
  /\ \E owned \in Owned : IF owned THEN Seats ELSE JobOver
  /\ UNCHANGED <<coreVars, connected, closing, clock, pageVars, commandVars, facts, withdrawalVars>>

\* The buffer's put ends: recorded, or refused (capacity, write).
JobPuts ==
  /\ jobAt = "put"
  /\ LET j == Head(jobs) IN
       facts' \in {facts, facts \cup {[kind |-> j.kind, id |-> j.id, era |-> j.era]}}
  /\ JobOver
  /\ UNCHANGED <<coreVars, connected, closing, clock, pageVars, commandVars, withdrawalVars>>

\* reporter.withdraw empties the buffer and records the withdrawal, unless one
\* is recorded already.  Without a device id, or when the write fails, the rows
\* stay as they are.
JobWithdraws ==
  /\ jobs # <<>> /\ jobAt = "idle" /\ Head(jobs).kind = "withdraw"
  /\ \/ marker /\ UNCHANGED <<facts, marker, erased, lapsed>>
     \/ /\ ~marker /\ marker' = TRUE
        /\ facts' = {} /\ erased' = Head(jobs).era + 1
        /\ UNCHANGED lapsed
     \/ ~marker /\ lapsed' = TRUE /\ UNCHANGED <<facts, marker, erased>>
  /\ JobOver
  /\ UNCHANGED <<coreVars, connected, closing, clock, pageVars, commandVars, era>>

\* signPending, then reporter.grant forgets that withdrawal, unless one of the
\* two could not be written.
JobGrants ==
  /\ jobs # <<>> /\ jobAt = "idle" /\ Head(jobs).kind = "grant"
  /\ marker' \in {FALSE, marker}
  /\ lapsed' = (lapsed \/ marker')
  /\ JobOver
  /\ UNCHANGED <<coreVars, connected, closing, clock, pageVars, commandVars, facts, era, erased>>

-----------------------------------------------------------------------------
(* Core, the plugin manager, time, close().                                *)

\* pages.revoke(): permits handed out so far are void.
Revoke == epoch' = epoch + 1 /\ credentials' = {}

\* onConsentChange: revoke; what is to be done about it joins the jobs.
ConsentChanges ==
  /\ linked /\ listening /\ epoch < MaxEpoch
  /\ choice' = IF choice = "granted" THEN "withheld" ELSE "granted"
  /\ Revoke
  /\ era' = IF choice = "granted" THEN era + 1 ELSE era
  /\ jobs' = Append(jobs, [kind |-> IF choice = "granted" THEN "withdraw" ELSE "grant",
                           id |-> "consent", epoch |-> 0, era |-> era])
  /\ UNCHANGED <<linked, listening, connected, closing, clock, calls, drawn, commandVars,
                 jobAt, facts, marker, erased, lapsed>>

\* close() has let go of Core: the change is for the next mount.
ConsentChangesUnseen ==
  /\ linked /\ ~listening
  /\ choice' = IF choice = "granted" THEN "withheld" ELSE "granted"
  /\ UNCHANGED <<linked, listening, connected, closing, clock, pageVars, commandVars,
                 jobVars, withdrawalVars>>

\* attachCore: Core is gone, or is back, with the choice it had or another.  A
\* choice nobody heard of gets no job: a withdrawal stays recorded under consent.
CoreChanges ==
  /\ listening /\ epoch < MaxEpoch
  /\ linked' = ~linked
  /\ choice' \in IF linked THEN {choice} ELSE {"granted", "withheld"}
  /\ lapsed' = (lapsed \/ (choice = "withheld" /\ choice' = "granted"))
  /\ Revoke
  /\ UNCHANGED <<listening, connected, closing, clock, calls, drawn, commandVars, jobVars,
                 marker, era, erased>>

Tick ==
  /\ clock < MaxClock
  /\ clock' = clock + 1
  /\ UNCHANGED <<coreVars, connected, closing, pageVars, commandVars, jobVars, withdrawalVars>>

\* close(): both sources forget what they hold; queued jobs go on.
Close ==
  /\ ~closing
  /\ closing' = TRUE
  /\ credentials' = {}
  /\ command' = [c \in Commands |-> "over"] /\ count' = 0
  /\ UNCHANGED <<coreVars, connected, clock, epoch, calls, drawn, jobVars, withdrawalVars>>

\* Core's callbacks end a little later, after an await of close().
LetsGo ==
  /\ closing /\ listening
  /\ listening' = FALSE
  /\ UNCHANGED <<choice, linked, connected, closing, clock, pageVars, commandVars, jobVars,
                 withdrawalVars>>

-----------------------------------------------------------------------------
Next ==
  \/ \E p \in Peers : IssueCalled(p) \/ Released(p)
  \/ \E c \in calls : IssueAnswered(c) \/ PresentedAnswered(c)
  \/ \E p \in credentials : PresentedCalled(p)
  \/ \E c \in Commands : RunObserved(c) \/ HandlerCalled(c) \/ DoneObserved(c)
  \/ \E s \in {SessionOf[c] : c \in Commands} : SessionDisposed(s)
  \/ JobTakesPage \/ JobTakesCommand \/ JobLearnsOwner \/ JobPuts \/ JobWithdraws \/ JobGrants
  \/ ConsentChanges \/ ConsentChangesUnseen \/ CoreChanges \/ Tick \/ Close \/ LetsGo

Spec == Init /\ [][Next]_vars

-----------------------------------------------------------------------------
(* Properties.                                                             *)

\* The counter that bounds the command tables is their size, through runs,
\* ends and disposed sessions, and stays within maxPending: a drift would end
\* the recording of commands for good.
CountsPending == count = Cardinality(Tabled) /\ count <= MaxPending

\* A credential is presented once: it is a permit, a call under way, a job or
\* a recorded fact, and never two of them.
SingleUse ==
  \A t \in Tokens :
    Cardinality({p \in credentials : p.token = t})
      + Cardinality({c \in calls : c.permit.token = t})
      + Cardinality({i \in DOMAIN jobs : jobs[i].id = t})
      + Cardinality({f \in facts : f.id = t}) <= 1

\* Every permit was asked for, and not only issued, after the last change of
\* consent or Core: an await in between does not carry it over.
PermitsFollowConsent ==
  \A p \in credentials : p.asked = epoch

\* What a withdrawal erased is never recorded again, whatever was on its way.
\* And unless a record of a withdrawal was not written, or stayed behind under
\* consent that nobody heard of, every withdrawal Core tells of erases: when
\* those queued so far are done, no fact is left of what the person did before
\* the last of them, also when consent was given again meanwhile.
NothingFromBeforeWithdrawal ==
  /\ \A f \in facts : f.era >= erased
  /\ \/ lapsed
     \/ \E i \in DOMAIN jobs : jobs[i].kind = "withdraw"
     \/ \A f \in facts : f.era = era

=============================================================================
