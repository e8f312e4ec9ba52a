---------------------------- MODULE NodeRuntime ----------------------------
(***************************************************************************)
(* The entry of every agent command (agent/bin/hm-agent,                   *)
(* runtime-bootstrap.pl), composed with the programs of AgentSender it     *)
(* starts.  While the fixed Node is missing, an entry retains the hook's   *)
(* selectors, notes a session once, and may start one detached producer    *)
(* that downloads, checks and publishes Node; once Node is there, an entry *)
(* becomes the Node program.                                               *)
(*                                                                         *)
(* An entry that forks the producer is followed as the producer: what its  *)
(* parent still does is close its copy of the lock, answer and, for `mcp`, *)
(* wait.  Whether Node is missing is looked at when an entry starts; the   *)
(* lock is taken later.  An archive that arrives whole is the right one:   *)
(* a download, checksum, extraction or version that fails is one failure.  *)
(***************************************************************************)
EXTENDS AgentSender, Sequences

CONSTANT Sessions  \* session ids a SessionStart hook may carry

NoSession == "no session"
ASSUME SessionAssumption == NoSession \notin Sessions

VARIABLES
  published,  \* the files of the runtime's cache directory
  state,      \* prepare-state.json: [code, entry, attempts], code "none" when missing
  sessions,   \* sessions/: the sessions noted
  initial,    \* sessions/initial-session is there
  owner,      \* who has prepare.lock, through any copy of the descriptor
  boot,       \* each entry, or the producer it became, see NoEntry
  mcp         \* the MCP server of the host: "none", "waiting" for Node, "node"

cache == <<published, sessions, initial>>
runtime == <<cache, state, owner, boot, mcp>>

NoEntry == [pc |-> "idle", session |-> NoSession, new |-> FALSE, first |-> FALSE, mcp |-> FALSE]
BootAt(p, pc) == boot[p].pc = pc
BootTo(p, r) == boot' = [boot EXCEPT ![p] = r]
BootGoTo(p, pc) == BootTo(p, [boot[p] EXCEPT !.pc = pc])

\* Node is published last, so its presence is what an entry looks at.
Order == <<"node.sha256", "archive.sha256", "LICENSE", "node">>
Parts == {Order[i] : i \in DOMAIN Order}
Visible == "node" \in published

----------------------------------------------------------------------------
(* Node is there *)

\* A state a killed producer left is put right, unless its lock is held.
Repaired ==
  IF state.code \notin {"none", "READY"} /\ owner = Free THEN [state EXCEPT !.code = "READY"]
  ELSE state

\* The entry becomes a Node program; a tick is started by Node itself.
RunsNode(p) ==
  /\ Visible /\ BootAt(p, "idle")
  /\ \/ Starts(p) /\ ~TickStarts(p) /\ state' = Repaired
     \/ TickStarts(p) /\ UNCHANGED state
  /\ UNCHANGED <<cache, owner, boot, mcp>>

\* Any other entry, `status` or `install-runtime` among them.
Repairs ==
  /\ Visible /\ state' = Repaired /\ state' # state
  /\ UNCHANGED <<vars, cache, owner, boot, mcp>>

----------------------------------------------------------------------------
(* Node is missing *)

\* A tool hook, which retains its selectors unless a withdrawal is on file.
CallEnters(p) ==
  /\ ~Visible /\ BootAt(p, "idle")
  /\ \/ PrepareStarts(p) /\ BootGoTo(p, "retain")
     \/ /\ withdrawal.state # "none" /\ At(p, "idle") /\ Spend("prepare")
        /\ BootGoTo(p, "lock") /\ UNCHANGED <<core, files, lock, proc, server, history>>
  /\ UNCHANGED <<cache, state, owner, mcp>>

CallRetained(p) ==
  /\ BootAt(p, "retain") /\ PrepareRetains(p)
  /\ BootGoTo(p, "lock")
  /\ UNCHANGED <<cache, state, owner, mcp>>

\* A SessionStart hook, whose session id may be unreadable; `mcp`, or any other.
Enters(p) ==
  /\ ~Visible /\ BootAt(p, "idle") /\ At(p, "idle")
  /\ \/ /\ Spend("session")
        /\ \E s \in Sessions \union {NoSession} :
             BootTo(p, [NoEntry EXCEPT !.pc = IF s = NoSession THEN "lock" ELSE "note", !.session = s])
     \/ /\ Spend("other")
        /\ \E m \in BOOLEAN : (m => mcp = "none") /\ BootTo(p, [NoEntry EXCEPT !.pc = "lock", !.mcp = m])
  /\ UNCHANGED <<core, files, lock, proc, server, history, cache, state, owner, mcp>>

\* Mutant: a session is new however often it was noted.
NotesSession_Always(p) ==
  /\ BootAt(p, "note")
  /\ sessions' = sessions \union {boot[p].session}
  /\ BootTo(p, [boot[p] EXCEPT !.pc = "note-initial", !.new = TRUE])
  /\ UNCHANGED <<vars, published, initial, state, owner, mcp>>

\* Two exclusive creations.
NotesSession(p) ==
  /\ BootAt(p, "note")
  /\ sessions' = sessions \union {boot[p].session}
  /\ BootTo(p, [boot[p] EXCEPT !.pc = "note-initial", !.new = boot[p].session \notin sessions])
  /\ UNCHANGED <<vars, published, initial, state, owner, mcp>>

NotesInitial(p) ==
  /\ BootAt(p, "note-initial")
  /\ initial' = TRUE
  /\ BootTo(p, [boot[p] EXCEPT !.pc = "lock", !.first = ~initial])
  /\ UNCHANGED <<vars, published, sessions, state, owner, mcp>>

\* The entry is over, except for an MCP server, which stays.
Leaves(p) ==
  /\ BootTo(p, NoEntry)
  /\ mcp' = IF boot[p].mcp THEN "waiting" ELSE mcp

\* The first entry of all, then one per new session: the first session does
\* not try again what another entry has tried.
MayStart(p) ==
  \/ state.code = "none"
  \/ boot[p].new /\ ~(boot[p].first /\ state.entry = "non-session")

\* An attempt whose lock is free was interrupted.
TriesLock(p) ==
  /\ BootAt(p, "lock")
  /\ IF owner # Free THEN Leaves(p) /\ UNCHANGED <<state, owner>>
     ELSE /\ state' = IF state.code = "PREPARING" THEN [state EXCEPT !.code = "INTERRUPTED"] ELSE state
          /\ IF MayStart(p) THEN owner' = p /\ BootGoTo(p, "start") /\ UNCHANGED mcp
                            ELSE Leaves(p) /\ UNCHANGED owner
  /\ UNCHANGED <<vars, cache>>

StartsAttempt(p) ==
  /\ BootAt(p, "start")
  /\ state' = [code |-> "PREPARING", attempts |-> state.attempts + 1,
               entry |-> IF state.code # "none" THEN state.entry
                         ELSE IF boot[p].session = NoSession THEN "non-session" ELSE "session"]
  /\ BootGoTo(p, "fork")
  /\ UNCHANGED <<vars, cache, owner, mcp>>

\* Mutant: the parent unlocks, instead of closing its copy.
Forks_Unlocks(p) ==
  /\ BootAt(p, "fork")
  /\ mcp' = IF boot[p].mcp THEN "waiting" ELSE mcp
  /\ BootTo(p, [NoEntry EXCEPT !.pc = "download"])
  /\ owner' = Free
  /\ UNCHANGED <<vars, cache, state>>

Forks(p) ==
  /\ BootAt(p, "fork")
  /\ mcp' = IF boot[p].mcp THEN "waiting" ELSE mcp
  /\ BootTo(p, [NoEntry EXCEPT !.pc = "download"])
  /\ UNCHANGED <<vars, cache, state, owner>>

----------------------------------------------------------------------------
(* The producer *)

Exits(p) ==
  /\ BootTo(p, NoEntry)
  /\ owner' = IF owner = p THEN Free ELSE owner

Downloads(p) ==
  /\ BootAt(p, "download")
  /\ \/ BootGoTo(p, "publish") /\ UNCHANGED <<left, state, owner>>
     \/ Spend("network") /\ state' = [state EXCEPT !.code = "FAILED"] /\ Exits(p)
  /\ UNCHANGED <<core, files, lock, proc, server, history, cache, mcp>>

Missing == {i \in DOMAIN Order : Order[i] \notin published}

\* Mutant: Node is linked before the rest.
Publishes_NodeFirst(p) ==
  /\ BootAt(p, "publish")
  /\ IF Missing = {}
       THEN BootGoTo(p, "finish") /\ UNCHANGED published
       ELSE /\ published' = published \union {Order[CHOOSE i \in Missing : \A j \in Missing : i >= j]}
            /\ UNCHANGED boot
  /\ UNCHANGED <<vars, sessions, initial, state, owner, mcp>>

\* One file after the other; what an earlier producer has linked is the same.
Publishes(p) ==
  /\ BootAt(p, "publish")
  /\ IF Visible
       THEN BootGoTo(p, "finish") /\ UNCHANGED published
       ELSE /\ published' = published \union {Order[CHOOSE i \in Missing : \A j \in Missing : i <= j]}
            /\ UNCHANGED boot
  /\ UNCHANGED <<vars, sessions, initial, state, owner, mcp>>

\* The new Node drains what was retained.
Finishes(p) ==
  /\ BootAt(p, "finish")
  /\ state' = [state EXCEPT !.code = "READY"]
  /\ BootGoTo(p, "drain")
  /\ Become(p, [Idle EXCEPT !.pc = "drain", !.program = "drain"])
  /\ UNCHANGED <<core, left, files, lock, server, history, cache, owner, mcp>>

ProducerEnds(p) ==
  /\ BootAt(p, "drain") /\ At(p, "idle")
  /\ Exits(p)
  /\ UNCHANGED <<vars, cache, state, mcp>>

----------------------------------------------------------------------------
\* The waiting MCP server finds Node ready between two requests.
TakesOver ==
  /\ mcp = "waiting" /\ state.code = "READY" /\ Visible
  /\ mcp' = "node"
  /\ UNCHANGED <<vars, cache, state, owner, boot>>

\* An entry or a producer is killed, or the Node program it has started.
Killed(p) ==
  \/ /\ ~BootAt(p, "idle") /\ ~BootAt(p, "retain") /\ Spend("crash")
     /\ Exits(p)
     /\ UNCHANGED <<core, files, lock, proc, server, history, cache, state, mcp>>
  \/ /\ Crash(p)
     /\ IF BootAt(p, "retain") THEN BootTo(p, NoEntry) ELSE UNCHANGED boot
     /\ UNCHANGED <<cache, state, owner, mcp>>

RuntimeInit ==
  /\ Init
  /\ \/ published = {} /\ state = [code |-> "none", entry |-> "none", attempts |-> 0]
     \/ published = Parts /\ state = [code |-> "READY", entry |-> "session", attempts |-> 1]
  /\ sessions = {} /\ initial = FALSE
  /\ owner = Free
  /\ boot = [p \in Procs |-> NoEntry]
  /\ mcp = "none"

EntryStep(p) ==
  \/ RunsNode(p) \/ CallEnters(p) \/ CallRetained(p) \/ Enters(p) \/ NotesSession(p)
  \/ NotesInitial(p) \/ TriesLock(p) \/ StartsAttempt(p) \/ Forks(p)
  \/ Downloads(p) \/ Publishes(p) \/ Finishes(p) \/ ProducerEnds(p)

RuntimeNext ==
  \/ \E p \in Procs : EntryStep(p) \/ Killed(p) \/ (Continues(p) /\ UNCHANGED runtime)
  \/ Repairs \/ TakesOver
  \/ (LateRequestArrives \/ Grant) /\ UNCHANGED runtime

RuntimeSpec == RuntimeInit /\ [][RuntimeNext]_<<vars, runtime>>

----------------------------------------------------------------------------
(* Properties *)

\* However entries and kills fall, at most one producer downloads: its lock
\* outlives the entry that took it (runtime-bootstrap.pl:126).
OneProducer ==
  Cardinality({p \in Procs : boot[p].pc \in {"download", "publish", "finish", "drain"}}) <= 1

\* Whoever finds Node finds the checksums it must match, a producer killed
\* while it publishes included (runtime-bootstrap.pl:109).
PublishedWhole == Visible => published = Parts

\* A failed or interrupted attempt is repeated by a new session only, once
\* (runtime-bootstrap.pl:120): the same session starting again is not new.
OneAttemptPerSession == state.attempts <= 1 + Cardinality(sessions)
=============================================================================
