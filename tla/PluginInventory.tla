-------------------------- MODULE PluginInventory --------------------------
(***************************************************************************)
(* The inventory of installed plugins (src/host/inventory.js,              *)
(* bundle-compat.js) on top of EventStore: a scan asks the plugin manager, *)
(* compares its answer with the last inventory and with the buffer as they *)
(* are then, and queues one updateInventory call, which runs later.        *)
(*                                                                         *)
(* External: the plugin manager, consent, the sender's answers.            *)
(* Abstractions: a plugin the profile declares but whose files, version or *)
(* error make it unusable is "missing"; one device; scans are started by   *)
(* the interval or by an event, whenever none is under way.                *)
(***************************************************************************)
EXTENDS EventStore

CONSTANTS
  Names,      \* bundles
  Versions,
  Budgets     \* how often the environment may act, by kind: bounds every run

ASSUME EnvAssumption == Budgets \subseteq [{"change", "upload", "fault", "time"} -> Nat]

VARIABLES
  profile,    \* what is installed: [at, version] per name
  api,        \* the shape the plugin manager answers in: "rc2", "alpha"
  consent,
  source,     \* the plugin manager can be read
  scan,       \* the scan under way: its await, the manager's answer, its call
  left,       \* what remains of the budget
  removed     \* history: bundles that have been removed from the profile

outside == <<profile, api, consent, source, removed>>
inventory == <<outside, scan, left>>

Install(n, v) == <<"install", n, v>>
Uninstall(n, v) == <<"uninstall", n, v>>
Fact == CHOOSE c \in Contents : TRUE  \* what is reported does not vary
AllIds == {<<a, n, v>> : a \in {"install", "uninstall"}, n \in Names, v \in Versions}

\* An entry of the inventory; before the migration it was the loader's.
Item(n, v) == [name |-> n, version |-> v, bundle |-> TRUE]
LoaderItem(n, v) == [Item(n, v) EXCEPT !.bundle = FALSE]
AllItems == [name : Names, version : Versions, bundle : BOOLEAN]

NoScan == [pc |-> "idle", listed |-> {}, items |-> {}, inputs |-> {}, drop |-> {}]

Spend(kind) == left[kind] > 0 /\ left' = [left EXCEPT ![kind] = @ - 1]

----------------------------------------------------------------------------
(* The plugin manager (external) *)

\* BundleInfo of an installed bundle; rc.2 has `removable`, alpha `availability`.
Info(n) ==
  [name |-> n, version |-> profile[n].version, error |-> profile[n].at = "missing",
   removable |-> IF api = "rc2" THEN profile[n].at # "installation" ELSE "none",
   availability |-> IF api = "rc2" THEN "none" ELSE profile[n].at]

Listing == {Info(n) : n \in {m \in Names : profile[m].at # "absent"}}

Availability(info) ==
  IF info.availability # "none" THEN info.availability
  ELSE IF info.removable THEN "profile" ELSE "installation"

----------------------------------------------------------------------------
(* A scan *)

ScanStarts ==
  /\ scan.pc = "idle" /\ source
  /\ scan' = [NoScan EXCEPT !.pc = "listing"]
  /\ UNCHANGED <<vars, outside, left>>

Answered ==
  /\ scan.pc = "listing"
  /\ scan' = [scan EXCEPT !.pc = "compare", !.listed = Listing]
  /\ UNCHANGED <<vars, outside, left>>

Declared(listed) == {i \in listed : Availability(i) # "installation"}
Readable(listed) == {i \in Declared(listed) : Availability(i) = "profile" /\ ~i.error}
ItemsOf(listed) == {Item(i.name, i.version) : i \in Readable(listed)}
NamesOf(some) == {i.name : i \in some}

Baseline == {i \in memory.inventory : i.bundle}

\* Mutant: a declared bundle that cannot be read counts as removed.
Comparable_Always(listed) == TRUE

\* An unreadable bundle proves nothing about one that was accepted before.
Comparable(listed) ==
  NamesOf(Declared(listed) \ Readable(listed)) \cap NamesOf(Baseline) = {}

\* Mutant: only what the last inventory lacks is reported, whatever became of it.
Changes_OnlyNew(items) ==
  {Install(i.name, i.version) : i \in items \ Baseline}
    \union {Uninstall(i.name, i.version) : i \in {j \in Baseline : j.name \notin NamesOf(items)}}

\* Every installed version, and what is gone since the last scan; an id the
\* buffer holds is not offered again.
Changes(items) ==
  {Install(i.name, i.version) : i \in items}
    \union {Uninstall(i.name, i.version) : i \in {j \in Baseline : j.name \notin NamesOf(items)}}

\* Events of the loader's inventory for what is not a bundle of the profile;
\* the names are chosen now, updateInventory takes only what was never tried.
Retracts(listed) ==
  IF Baseline = memory.inventory THEN {}
  ELSE {id \in Retractable(memory, LoaderIds) : id[2] \notin NamesOf(Declared(listed))}
NamesToIds(ids) == {id \in LoaderIds : \E x \in ids : x[2] = id[2]}

Compares ==
  /\ scan.pc = "compare"
  /\ LET items == ItemsOf(scan.listed) IN
     scan' = IF ~Comparable(scan.listed) THEN NoScan
             ELSE [NoScan EXCEPT !.pc = "queued", !.items = items,
                     !.inputs = IF consent = "granted" THEN Changes(items) \ Held(memory) ELSE {},
                     !.drop = NamesToIds(Retracts(scan.listed))]
  /\ UNCHANGED <<vars, outside, left>>

\* updateInventory at the head of the store's tail; it throws when the buffer is full.
Updates ==
  /\ scan.pc = "queued" /\ phase = "idle"
  /\ LET inputs == [id \in scan.inputs |-> Fact] IN
     IF UpdateInventoryWrites(memory, inputs, scan.drop, clock)
       THEN /\ Begin(UpdateInventory(memory, scan.items, inputs, scan.drop, clock))
            /\ scan' = [scan EXCEPT !.pc = "writing"]
       ELSE scan' = NoScan /\ UNCHANGED vars
  /\ UNCHANGED <<outside, left>>

\* The write under way ends, well or not; the scan's own ends the scan.
WriteEnds ==
  /\ \/ Resolve /\ UNCHANGED left
     \/ Spend("fault") /\ Reject
  /\ scan' = IF scan.pc = "writing" THEN NoScan ELSE scan
  /\ UNCHANGED outside

Published == Publish /\ UNCHANGED inventory

----------------------------------------------------------------------------
(* The rest of the world *)

\* The person installs, upgrades or removes; files become unreadable and back.
ProfileChanges ==
  /\ Spend("change")
  /\ \E n \in Names, at \in {"absent", "installation", "profile", "missing"}, v \in Versions :
       /\ profile[n] # [at |-> at, version |-> v]
       /\ at \in {"absent", "missing"} => v = profile[n].version
       /\ profile' = [profile EXCEPT ![n] = [at |-> at, version |-> v]]
       /\ removed' = IF at \in {"absent", "installation"} /\ profile[n].at \in {"profile", "missing"}
                     THEN removed \union {n} ELSE removed
  /\ UNCHANGED <<vars, api, consent, source, scan>>

\* Consent, or the plugin manager, goes or comes.
HostChanges ==
  /\ Spend("change")
  /\ \/ consent' = (IF consent = "granted" THEN "withheld" ELSE "granted") /\ UNCHANGED source
     \/ source' = ~source /\ UNCHANGED consent
  /\ UNCHANGED <<vars, profile, api, scan, removed>>

\* Consent went: the withdrawal erases the buffer.
Erases == consent = "withheld" /\ Held(memory) # {} /\ Withdraw /\ UNCHANGED inventory

Uploaded ==
  /\ Spend("upload")
  /\ \E id \in Pending(memory) : RecordAnswer({id}, 1, 0, {}, HostRejection)
  /\ UNCHANGED <<outside, scan>>

Stops == Spend("fault") /\ Restart /\ scan' = NoScan /\ UNCHANGED outside

Passes == Spend("time") /\ Tick /\ UNCHANGED <<outside, scan>>

FirstVersion == CHOOSE v \in Versions : TRUE

\* What the loader's inventory of an earlier release has left.
LoaderSnapshot(n, v) ==
  [EmptySnapshot EXCEPT !.inventory = {LoaderItem(n, v)}, !.rows = [id \in {Install(n, v)} |-> NewRow(Fact, TRUE)]]

InventoryInit ==
  /\ disk \in {EmptySnapshot} \union {LoaderSnapshot(n, FirstVersion) : n \in Names}
  /\ memory = disk /\ next = disk /\ phase = "idle" /\ clock = 1
  /\ profile = [n \in Names |-> [at |-> "absent", version |-> FirstVersion]]
  /\ api \in {"rc2", "alpha"}
  /\ consent \in {"granted", "withheld"} /\ source = TRUE
  /\ scan = NoScan /\ left \in Budgets /\ removed = {}

ScanStep == ScanStarts \/ Answered \/ Compares \/ Updates \/ Published \/ WriteEnds

InventoryNext ==
  ScanStep \/ ProfileChanges \/ HostChanges \/ Erases \/ Uploaded \/ Stops \/ Passes

\* The interval, the answers of the manager and of the storage domain.
InventorySpec ==
  /\ InventoryInit /\ [][InventoryNext]_<<vars, inventory>>
  /\ WF_<<vars, inventory>>(ScanStarts) /\ WF_<<vars, inventory>>(Answered)
  /\ WF_<<vars, inventory>>(Compares) /\ WF_<<vars, inventory>>(Updates)
  /\ WF_<<vars, inventory>>(Published) /\ WF_<<vars, inventory>>(Resolve /\ WriteEnds)

----------------------------------------------------------------------------
(* Properties *)

\* An uninstall is reported only of a bundle that the person has removed:
\* never because its files, the manager or a stale answer could not show it,
\* nor because the loader's old inventory listed it (inventory.js:65-68, :77).
NoFalseUninstall ==
  \A id \in Held(memory) : id[1] = "uninstall" => id[2] \in removed

\* A scan can be done: consent stands, the manager and every bundle can be
\* read, and the buffer has room for all that the scan offers.
Scannable ==
  /\ consent = "granted" /\ source
  /\ \A n \in Names : profile[n].at # "missing"
  /\ Cardinality(Held(memory) \union Changes(ItemsOf(Listing))) <= MaxEvents

\* What the panel promises (client/index.ts:321): once scans can be done, each
\* installed bundle gets its install event, whatever scan failed, was refused,
\* or ran without consent before.
InstallsCatchUp ==
  \A n \in Names, v \in Versions :
    <>[](Scannable /\ profile[n] = [at |-> "profile", version |-> v])
      => []<>(Install(n, v) \in Held(memory))
=============================================================================
