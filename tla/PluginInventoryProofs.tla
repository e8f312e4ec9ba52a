------------------------ MODULE PluginInventoryProofs ------------------------
(***************************************************************************)
(* An uninstall is reported of removed bundles only, for any bundles and   *)
(* versions, any buffer, and any number of scans, changes, failures and    *)
(* restarts.                                                               *)
(*                                                                         *)
(* The argument: a bundle that an inventory names is declared by the       *)
(* profile, or has been removed since.  So one that a listing does not     *)
(* declare, and that an inventory named when the listing was made, has     *)
(* been removed; and no inventory changes between that listing and its     *)
(* comparison, because scans come one after another.                       *)
(***************************************************************************)
EXTENDS PluginInventory, TLAPS

----------------------------------------------------------------------------
(* The inductive invariant *)

Places == {"absent", "installation", "profile", "missing"}

\* Declared by the profile now, or removed from it since.
WasDeclared(n) == n \in Names /\ (profile[n].at \in {"profile", "missing"} \/ n \in removed)

Reported(ids) == \A id \in ids : id[1] = "uninstall" => id[2] \in removed
Named(items) == \A i \in items : i.bundle => WasDeclared(i.name)

Honest(s) ==
  /\ s = [rows |-> s.rows, withdrawal |-> s.withdrawal, inventory |-> s.inventory]
  /\ Reported(Held(s)) /\ Named(s.inventory)

\* What an inventory names and the listing at hand does not declare is gone.
Explains(listed, items) ==
  \A i \in items : i.bundle => i.name \in NamesOf(Declared(listed)) \cup removed

WorldOK ==
  /\ profile \in [Names -> [at : Places, version : Versions \cup {FirstVersion}]]
  /\ api \in {"rc2", "alpha"}
StoreOK == Honest(memory) /\ Honest(disk) /\ Honest(next)
ScanOK ==
  /\ scan = [pc |-> scan.pc, listed |-> scan.listed, items |-> scan.items,
             inputs |-> scan.inputs, drop |-> scan.drop]
  /\ scan.pc = "compare" =>
       /\ \A i \in Declared(scan.listed) : WasDeclared(i.name)
       /\ Explains(scan.listed, memory.inventory)
       /\ Explains(scan.listed, disk.inventory)
       /\ Explains(scan.listed, next.inventory)
  /\ scan.pc \in {"queued", "writing"} => Named(scan.items) /\ Reported(scan.inputs)

Inv == WorldOK /\ StoreOK /\ ScanOK

LEMMA FreshScan == NoScan = [pc |-> "idle", listed |-> {}, items |-> {}, inputs |-> {}, drop |-> {}]
BY DEF NoScan

----------------------------------------------------------------------------
(* The listing *)

(* A bundle of the listing is declared exactly when it is the profile's. *)
LEMMA InfoDeclared ==
  ASSUME WorldOK, NEW n \in Names
  PROVE  /\ Info(n).name = n
         /\ profile[n].at # "absent" =>
              (Availability(Info(n)) # "installation" <=> profile[n].at \in {"profile", "missing"})
<1>1. profile[n].at \in Places
  BY DEF WorldOK
<1>2. CASE api = "rc2"
  BY <1>1, <1>2 DEF Info, Availability, Places
<1>3. CASE api = "alpha"
  BY <1>1, <1>3 DEF Info, Availability, Places
<1> QED BY <1>2, <1>3 DEF WorldOK

(* What the listing declares was declared; what was and is not any more has been removed. *)
LEMMA ListingExplains ==
  ASSUME WorldOK
  PROVE  /\ \A i \in Declared(Listing) : WasDeclared(i.name)
         /\ \A items : Named(items) => Explains(Listing, items)
<1>1. ASSUME NEW i \in Declared(Listing)
      PROVE  WasDeclared(i.name)
  <2>1. PICK n \in Names : i = Info(n) /\ profile[n].at # "absent"
    BY <1>1 DEF Declared, Listing
  <2>2. Availability(i) # "installation"
    BY <1>1 DEF Declared
  <2> QED BY <2>1, <2>2, InfoDeclared DEF WasDeclared
<1>2. ASSUME NEW items, Named(items), NEW i \in items, i.bundle
      PROVE  i.name \in NamesOf(Declared(Listing)) \cup removed
  <2> DEFINE n == i.name
  <2>1. n \in Names /\ (profile[n].at \in {"profile", "missing"} \/ n \in removed)
    BY <1>2 DEF Named, WasDeclared
  <2>2. ASSUME profile[n].at \in {"profile", "missing"}
        PROVE  n \in NamesOf(Declared(Listing))
    <3>1. profile[n].at # "absent"
      BY <2>2
    <3>2. Info(n) \in Listing
      BY <2>1, <3>1 DEF Listing
    <3>3. Info(n) \in Declared(Listing) /\ Info(n).name = n
      BY <2>1, <2>2, <3>1, <3>2, InfoDeclared DEF Declared
    <3> QED BY <3>3 DEF NamesOf
  <2> QED BY <2>1, <2>2
<1> QED BY <1>1, <1>2 DEF Explains

(* The comparison offers no uninstall but of what has been removed. *)
LEMMA ChangesReported ==
  ASSUME NEW listed, Explains(listed, memory.inventory), Comparable(listed)
  PROVE  Reported(Changes(ItemsOf(listed)))
<1> DEFINE items == ItemsOf(listed)
<1>1. NamesOf(items) = NamesOf(Readable(listed))
  <2>1. \A i \in Readable(listed) : Item(i.name, i.version).name = i.name
    BY DEF Item
  <2> QED BY <2>1 DEF NamesOf, ItemsOf
<1>2. ASSUME NEW j \in Baseline, j.name \notin NamesOf(items)
      PROVE  j.name \in removed
  <2>1. j \in memory.inventory /\ j.bundle
    BY <1>2 DEF Baseline
  <2>2. j.name \in NamesOf(Baseline)
    BY <1>2 DEF NamesOf
  <2>3. j.name \notin NamesOf(Declared(listed) \ Readable(listed))
    BY <2>2 DEF Comparable
  <2>4. j.name \notin NamesOf(Declared(listed))
    BY <1>1, <1>2, <2>3 DEF NamesOf
  <2> QED BY <2>1, <2>4 DEF Explains
<1>3. ASSUME NEW id \in Changes(items), id[1] = "uninstall"
      PROVE  id[2] \in removed
  <2>1. CASE \E i \in items : id = Install(i.name, i.version)
    BY <1>3, <2>1 DEF Install
  <2>2. CASE \E j \in Baseline : j.name \notin NamesOf(items) /\ id = Uninstall(j.name, j.version)
    BY <1>2, <2>2 DEF Uninstall
  <2> QED BY <1>3, <2>1, <2>2 DEF Changes
<1> QED BY <1>3 DEF Reported

----------------------------------------------------------------------------
(* The buffer *)

(* A method that adds no row and leaves the inventory alone keeps a snapshot honest. *)
LEMMA AmendHonest ==
  ASSUME NEW s, NEW changed, Honest(s)
  PROVE  Honest(Amend(s, changed)) /\ Amend(s, changed).inventory = s.inventory
<1> DEFINE rows == [id \in Held(s) |-> IF id \in DOMAIN changed THEN changed[id] ELSE s.rows[id]]
           t == [s EXCEPT !.rows = rows]
<1>1. t = Amend(s, changed)
  BY DEF Amend
<1>2. DOMAIN rows = Held(s)
  OBVIOUS
<1> HIDE DEF rows
<1>3. t = [rows |-> rows, withdrawal |-> s.withdrawal, inventory |-> s.inventory]
  BY DEF Honest
<1>4. Held(t) = Held(s) /\ t.inventory = s.inventory /\ t = [rows |-> t.rows, withdrawal |-> t.withdrawal, inventory |-> t.inventory]
  BY <1>2, <1>3 DEF Held
<1> QED BY <1>1, <1>4 DEF Honest

LEMMA WithdrawHonest ==
  ASSUME NEW s, Honest(s)
  PROVE  Honest(WithdrawLocal(s)) /\ WithdrawLocal(s).inventory = s.inventory
<1> DEFINE t == WithdrawLocal(s)
           emptied == [rows |-> NoRows, withdrawal |-> s.withdrawal, inventory |-> s.inventory]
<1>1. emptied = [s EXCEPT !.rows = NoRows]
  BY DEF Honest
<1>2. t = [emptied EXCEPT !.withdrawal = "pending"]
  BY <1>1 DEF Honest, WithdrawLocal
<1> HIDE DEF t
<1>3. t = [rows |-> NoRows, withdrawal |-> "pending", inventory |-> s.inventory]
  BY <1>2
<1>4. Held(t) = {}
  BY <1>3 DEF Held, NoRows
<1>5. Honest(t) /\ t.inventory = s.inventory
  BY <1>3, <1>4 DEF Honest, Reported
<1> QED BY <1>5 DEF t

(* A scan's update holds what was held and what the scan reports. *)
LEMMA UpdateHonest ==
  ASSUME NEW s, Honest(s), NEW items, Named(items), NEW ids, Reported(ids),
         NEW inputs, DOMAIN inputs = ids, NEW drop, NEW now
  PROVE  Honest(UpdateInventory(s, items, inputs, drop, now))
<1> DEFINE kept == Retained(s, drop, now)
           rows == [id \in kept \union ids |-> IF id \in kept THEN s.rows[id] ELSE NewRow(inputs[id], TRUE)]
           t == UpdateInventory(s, items, inputs, drop, now)
<1>1. kept \subseteq Held(s)
  BY DEF Retained
<1>2. DOMAIN rows = kept \union ids
  OBVIOUS
<1>3. t = [s EXCEPT !.inventory = items, !.rows = rows]
  BY DEF UpdateInventory
<1> HIDE DEF rows, kept, t
<1>4. t = [rows |-> rows, withdrawal |-> s.withdrawal, inventory |-> items]
  BY <1>3 DEF Honest
<1>5. Held(t) = kept \union ids
  BY <1>2, <1>4 DEF Held
<1>6. Reported(Held(t))
  BY <1>1, <1>5 DEF Honest, Reported
<1>7. Honest(t)
  BY <1>4, <1>6 DEF Honest
<1> QED BY <1>7 DEF t

----------------------------------------------------------------------------
(* The steps *)

\* Nothing outside the buffer and the scan moves.
SameWorld == UNCHANGED <<profile, api, removed>>

LEMMA SameWorldOK ==
  ASSUME SameWorld, WorldOK
  PROVE  WorldOK'
BY DEF SameWorld, WorldOK

(* A write begins: the others are as they were. *)
LEMMA BeginOK ==
  ASSUME SameWorld, StoreOK, NEW t, Honest(t), Begin(t)
  PROVE  StoreOK'
BY DEF SameWorld, StoreOK, Begin, Honest, Reported, Named, WasDeclared

(* The buffer takes one of its three values for another, and no more. *)
Shifts ==
  /\ memory' \in {memory, next} /\ disk' \in {disk, next} /\ next' \in {memory, next}

LEMMA ShiftOK ==
  ASSUME SameWorld, StoreOK, Shifts
  PROVE  StoreOK'
<1>1. Honest(memory) /\ Honest(disk) /\ Honest(next)
  BY DEF StoreOK
<1>2. memory' = memory \/ memory' = next => Honest(memory)'
  BY <1>1 DEF SameWorld, Honest, Reported, Named, WasDeclared, Held
<1>3. disk' = disk \/ disk' = next => Honest(disk)'
  BY <1>1 DEF SameWorld, Honest, Reported, Named, WasDeclared, Held
<1>4. next' = memory \/ next' = next => Honest(next)'
  BY <1>1 DEF SameWorld, Honest, Reported, Named, WasDeclared, Held
<1> QED BY <1>2, <1>3, <1>4 DEF Shifts, StoreOK

(* The scan stays where it is: the inventories it is compared with are those there were. *)
LEMMA ScanStays ==
  ASSUME SameWorld, ScanOK, UNCHANGED scan,
         memory'.inventory \in {memory.inventory, disk.inventory, next.inventory},
         disk'.inventory \in {memory.inventory, disk.inventory, next.inventory},
         next'.inventory \in {memory.inventory, disk.inventory, next.inventory}
  PROVE  ScanOK'
<1>1. scan' = [pc |-> scan'.pc, listed |-> scan'.listed, items |-> scan'.items,
               inputs |-> scan'.inputs, drop |-> scan'.drop]
  BY DEF ScanOK
<1>2. ASSUME scan.pc = "compare"
      PROVE  /\ (\A i \in Declared(scan.listed) : WasDeclared(i.name))'
             /\ Explains(scan.listed, memory.inventory)'
             /\ Explains(scan.listed, disk.inventory)'
             /\ Explains(scan.listed, next.inventory)'
  <2>1. /\ \A i \in Declared(scan.listed) : WasDeclared(i.name)
        /\ Explains(scan.listed, memory.inventory)
        /\ Explains(scan.listed, disk.inventory)
        /\ Explains(scan.listed, next.inventory)
    BY <1>2 DEF ScanOK
  <2>2. \A i \in Declared(scan'.listed) : WasDeclared(i.name)'
    BY <2>1 DEF SameWorld, WasDeclared
  <2> QED BY <2>1, <2>2 DEF SameWorld, Explains
<1>3. scan.pc \in {"queued", "writing"} => Named(scan.items)' /\ Reported(scan.inputs)'
  BY DEF SameWorld, ScanOK, Named, Reported, WasDeclared
<1> QED BY <1>1, <1>2, <1>3 DEF ScanOK

(* A scan that is not under way, or has only begun, says nothing yet. *)
LEMMA ScanSilent ==
  ASSUME scan' \in {NoScan, [NoScan EXCEPT !.pc = "listing"]}
  PROVE  ScanOK'
BY FreshScan DEF ScanOK

LEMMA StartsInv == Inv /\ ScanStarts => Inv'
<1> SUFFICES ASSUME Inv, ScanStarts PROVE Inv'
  OBVIOUS
<1>1. SameWorld /\ Shifts /\ scan' = [NoScan EXCEPT !.pc = "listing"]
  BY DEF ScanStarts, SameWorld, Shifts, outside, vars
<1> QED BY <1>1, SameWorldOK, ShiftOK, ScanSilent DEF Inv

LEMMA AnsweredInv == Inv /\ Answered => Inv'
<1> SUFFICES ASSUME Inv, Answered PROVE Inv'
  OBVIOUS
<1>1. SameWorld /\ Shifts /\ UNCHANGED <<memory, disk, next>>
  BY DEF Answered, SameWorld, Shifts, outside, vars
<1>2. /\ scan' = [pc |-> "compare", listed |-> Listing, items |-> scan.items,
                  inputs |-> scan.inputs, drop |-> scan.drop]
  BY DEF Answered, Inv, ScanOK
<1>3. /\ \A i \in Declared(Listing) : WasDeclared(i.name)
      /\ Explains(Listing, memory.inventory)
      /\ Explains(Listing, disk.inventory)
      /\ Explains(Listing, next.inventory)
  BY ListingExplains DEF Inv, StoreOK, Honest
<1>4. ScanOK'
  <2>1. scan'.pc = "compare" /\ scan'.listed = Listing
        /\ scan' = [pc |-> scan'.pc, listed |-> scan'.listed, items |-> scan'.items,
                    inputs |-> scan'.inputs, drop |-> scan'.drop]
    BY <1>2
  <2>2. \A i \in Declared(scan'.listed) : WasDeclared(i.name)'
    BY <1>1, <1>3, <2>1 DEF SameWorld, WasDeclared
  <2>3. /\ Explains(scan.listed, memory.inventory)'
        /\ Explains(scan.listed, disk.inventory)'
        /\ Explains(scan.listed, next.inventory)'
    BY <1>1, <1>3, <2>1 DEF SameWorld, Explains
  <2> QED BY <2>1, <2>2, <2>3 DEF ScanOK
<1> QED BY <1>1, <1>4, SameWorldOK, ShiftOK DEF Inv

LEMMA ComparesInv == Inv /\ Compares => Inv'
<1> SUFFICES ASSUME Inv, Compares PROVE Inv'
  OBVIOUS
<1> DEFINE items == ItemsOf(scan.listed)
           offers == IF consent = "granted" THEN Changes(items) \ Held(memory) ELSE {}
<1>1. SameWorld /\ Shifts
  BY DEF Compares, SameWorld, Shifts, outside, vars
<1>2. CASE ~Comparable(scan.listed)
  BY <1>1, <1>2, SameWorldOK, ShiftOK, ScanSilent DEF Inv, Compares
<1>3. CASE Comparable(scan.listed)
  <2>1. /\ \A i \in Declared(scan.listed) : WasDeclared(i.name)
        /\ Explains(scan.listed, memory.inventory)
    BY DEF Compares, Inv, ScanOK
  <2>2. Named(items)
    <3>1. \A i \in Readable(scan.listed) : Item(i.name, i.version).name = i.name /\ WasDeclared(i.name)
      BY <2>1 DEF Readable, Item
    <3> QED BY <3>1 DEF Named, ItemsOf
  <2>3. Reported(offers)
    BY <1>3, <2>1, ChangesReported DEF Reported
  <2> HIDE DEF items, offers
  <2>4. scan' = [NoScan EXCEPT !.pc = "queued", !.items = items, !.inputs = offers,
                   !.drop = NamesToIds(Retracts(scan.listed))]
    BY <1>3 DEF Compares, items, offers
  <2>5. scan' = [pc |-> "queued", listed |-> {}, items |-> items, inputs |-> offers,
                 drop |-> NamesToIds(Retracts(scan.listed))]
    BY <2>4, FreshScan
  <2>6. ScanOK'
    BY <1>1, <2>2, <2>3, <2>5 DEF SameWorld, ScanOK, Named, Reported, WasDeclared
  <2> QED BY <1>1, <2>6, SameWorldOK, ShiftOK DEF Inv
<1> QED BY <1>2, <1>3

LEMMA UpdatesInv == Inv /\ Updates => Inv'
<1> SUFFICES ASSUME Inv, Updates PROVE Inv'
  OBVIOUS
<1> DEFINE inputs == [id \in scan.inputs |-> Fact]
           t == UpdateInventory(memory, scan.items, inputs, scan.drop, clock)
<1>1. SameWorld /\ scan.pc = "queued" /\ Named(scan.items) /\ Reported(scan.inputs)
  BY DEF Updates, SameWorld, outside, Inv, ScanOK
<1>2. CASE scan' = NoScan /\ UNCHANGED vars
  <2>1. Shifts
    BY <1>2 DEF Shifts, vars
  <2> QED BY <1>1, <1>2, <2>1, SameWorldOK, ShiftOK, ScanSilent DEF Inv
<1>3. CASE Begin(t) /\ scan' = [scan EXCEPT !.pc = "writing"]
  <2>1. Honest(t)
    BY <1>1, UpdateHonest DEF Inv, StoreOK
  <2> HIDE DEF t
  <2>2. StoreOK'
    BY <1>1, <1>3, <2>1, BeginOK DEF Inv
  <2>3. scan' = [pc |-> "writing", listed |-> scan.listed, items |-> scan.items,
                 inputs |-> scan.inputs, drop |-> scan.drop]
    BY <1>3 DEF Inv, ScanOK
  <2>4. ScanOK'
    BY <1>1, <2>3 DEF SameWorld, ScanOK, Named, Reported, WasDeclared
  <2> QED BY <1>1, <2>2, <2>4, SameWorldOK DEF Inv
<1> QED BY <1>2, <1>3 DEF Updates

LEMMA PublishedInv == Inv /\ Published => Inv'
<1> SUFFICES ASSUME Inv, Published PROVE Inv'
  OBVIOUS
<1>1. SameWorld /\ Shifts /\ UNCHANGED scan
  BY DEF Published, Publish, SameWorld, Shifts, inventory, outside
<1>2. memory' = memory /\ disk' = next /\ next' = next
  BY DEF Published, Publish
<1> QED BY <1>1, <1>2, SameWorldOK, ShiftOK, ScanStays DEF Inv

LEMMA WriteEndsInv == Inv /\ WriteEnds => Inv'
<1> SUFFICES ASSUME Inv, WriteEnds PROVE Inv'
  OBVIOUS
<1>1. SameWorld /\ disk' = disk /\ memory' \in {memory, next} /\ next' \in {memory, next}
  BY DEF WriteEnds, Resolve, Reject, SameWorld, outside
<1>2. Shifts
  BY <1>1 DEF Shifts
<1>3. CASE scan' = NoScan
  BY <1>1, <1>2, <1>3, SameWorldOK, ShiftOK, ScanSilent DEF Inv
<1>4. CASE UNCHANGED scan
  BY <1>1, <1>2, <1>4, SameWorldOK, ShiftOK, ScanStays DEF Inv
<1> QED BY <1>3, <1>4 DEF WriteEnds

(* The profile changes: what leaves it has been removed. *)
LEMMA ProfileChangesInv == Inv /\ ProfileChanges => Inv'
<1> SUFFICES ASSUME Inv, ProfileChanges PROVE Inv'
  OBVIOUS
<1>1. UNCHANGED <<memory, disk, next, scan, api>> /\ removed \subseteq removed'
  BY DEF ProfileChanges, vars
<1>2. PICK n \in Names, at \in Places, v \in Versions :
        /\ profile' = [profile EXCEPT ![n] = [at |-> at, version |-> v]]
        /\ removed' = IF at \in {"absent", "installation"} /\ profile[n].at \in {"profile", "missing"}
                      THEN removed \union {n} ELSE removed
  BY DEF ProfileChanges, Places
<1>3. profile \in [Names -> [at : Places, version : Versions \cup {FirstVersion}]]
  BY DEF Inv, WorldOK
<1>4. WorldOK'
  BY <1>1, <1>2, <1>3 DEF Inv, WorldOK
<1>5. ASSUME NEW m \in Names, profile[m].at \in {"profile", "missing"} \/ m \in removed
      PROVE  profile'[m].at \in {"profile", "missing"} \/ m \in removed'
  <2>1. CASE m = n
    <3>1. profile'[m].at = at
      BY <1>2, <1>3, <2>1
    <3> QED BY <1>1, <1>2, <1>5, <2>1, <3>1 DEF Places
  <2>2. CASE m # n
    BY <1>1, <1>2, <1>3, <1>5, <2>2
  <2> QED BY <2>1, <2>2
<1>6. StoreOK'
  <2>1. ASSUME NEW s, Honest(s)
        PROVE  /\ \A id \in Held(s) : id[1] = "uninstall" => id[2] \in removed'
               /\ \A i \in s.inventory : i.bundle =>
                    i.name \in Names /\ (profile'[i.name].at \in {"profile", "missing"} \/ i.name \in removed')
    BY <1>1, <1>5, <2>1 DEF Honest, Reported, Named, WasDeclared
  <2>2. Honest(memory) /\ Honest(disk) /\ Honest(next)
    BY DEF Inv, StoreOK
  <2>3. Honest(memory)'
    BY <1>1, <2>1, <2>2 DEF Honest, Reported, Named, WasDeclared
  <2>4. Honest(disk)'
    BY <1>1, <2>1, <2>2 DEF Honest, Reported, Named, WasDeclared
  <2>5. Honest(next)'
    BY <1>1, <2>1, <2>2 DEF Honest, Reported, Named, WasDeclared
  <2> QED BY <2>3, <2>4, <2>5 DEF StoreOK
<1>7. ScanOK'
  <2>1. scan.pc = "compare" => (\A i \in Declared(scan.listed) : WasDeclared(i.name))'
    <3>1. scan.pc = "compare" => \A i \in Declared(scan.listed) : WasDeclared(i.name)
      BY DEF Inv, ScanOK
    <3> QED BY <1>1, <1>5, <3>1 DEF WasDeclared
  <2>2. scan.pc = "compare" => /\ Explains(scan.listed, memory.inventory)'
                               /\ Explains(scan.listed, disk.inventory)'
                               /\ Explains(scan.listed, next.inventory)'
    BY <1>1 DEF Inv, ScanOK, Explains
  <2>3. scan.pc \in {"queued", "writing"} => Named(scan.items)' /\ Reported(scan.inputs)'
    <3>1. scan.pc \in {"queued", "writing"} => Named(scan.items) /\ Reported(scan.inputs)
      BY DEF Inv, ScanOK
    <3> QED BY <1>1, <1>5, <3>1 DEF Named, Reported, WasDeclared
  <2> QED BY <1>1, <2>1, <2>2, <2>3 DEF Inv, ScanOK
<1> QED BY <1>4, <1>6, <1>7 DEF Inv

(* Consent, the manager and the clock are not part of the argument. *)
LEMMA IdleInv ==
  ASSUME Inv, SameWorld, UNCHANGED <<memory, disk, next, scan>>
  PROVE  Inv'
<1>1. Shifts
  BY DEF Shifts
<1> QED BY <1>1, SameWorldOK, ShiftOK, ScanStays DEF Inv

LEMMA ErasesInv == Inv /\ Erases => Inv'
<1> SUFFICES ASSUME Inv, Erases PROVE Inv'
  OBVIOUS
<1>1. SameWorld /\ UNCHANGED scan /\ Begin(WithdrawLocal(memory))
  BY DEF Erases, Withdraw, SameWorld, inventory, outside
<1>2. Honest(WithdrawLocal(memory)) /\ WithdrawLocal(memory).inventory = memory.inventory
  BY WithdrawHonest DEF Inv, StoreOK
<1>3. StoreOK'
  BY <1>1, <1>2, BeginOK DEF Inv
<1>4. memory' = memory /\ disk' = disk /\ next'.inventory = memory.inventory
  BY <1>1, <1>2 DEF Begin
<1> QED BY <1>1, <1>3, <1>4, SameWorldOK, ScanStays DEF Inv

LEMMA UploadedInv == Inv /\ Uploaded => Inv'
<1> SUFFICES ASSUME Inv, Uploaded PROVE Inv'
  OBVIOUS
<1>1. PICK changed : SameWorld /\ UNCHANGED scan /\ Begin(Amend(memory, changed))
  BY DEF Uploaded, RecordAnswer, ApplyUpload, SameWorld, outside
<1>2. Honest(Amend(memory, changed)) /\ Amend(memory, changed).inventory = memory.inventory
  BY AmendHonest DEF Inv, StoreOK
<1>3. StoreOK'
  BY <1>1, <1>2, BeginOK DEF Inv
<1>4. memory' = memory /\ disk' = disk /\ next'.inventory = memory.inventory
  BY <1>1, <1>2 DEF Begin
<1> QED BY <1>1, <1>3, <1>4, SameWorldOK, ScanStays DEF Inv

(* The next process loads what is durable, and its scans begin anew. *)
LEMMA StopsInv == Inv /\ Stops => Inv'
<1> SUFFICES ASSUME Inv, Stops PROVE Inv'
  OBVIOUS
<1>1. SameWorld /\ scan' = NoScan
  BY DEF Stops, SameWorld, outside
<1>2. PICK changed : disk' = Amend(disk, changed) /\ memory' = disk' /\ next' = disk'
  BY DEF Stops, Restart, Retire
<1>3. Honest(Amend(disk, changed))
  BY AmendHonest DEF Inv, StoreOK
<1>4. Honest(disk)'
  BY <1>1, <1>2, <1>3 DEF SameWorld, Honest, Reported, Named, WasDeclared
<1>5. Honest(memory)' /\ Honest(next)'
  BY <1>2, <1>4 DEF Honest
<1>6. StoreOK'
  BY <1>4, <1>5 DEF StoreOK
<1> QED BY <1>1, <1>6, SameWorldOK, ScanSilent DEF Inv

----------------------------------------------------------------------------
LEMMA InitInv == InventoryInit => Inv
<1> SUFFICES ASSUME InventoryInit PROVE Inv
  OBVIOUS
<1>1. WorldOK
  BY DEF InventoryInit, WorldOK, Places
<1>2. Honest(EmptySnapshot)
  BY DEF Honest, EmptySnapshot, Reported, Named, Held, NoRows
<1>3. ASSUME NEW n \in Names
      PROVE  Honest(LoaderSnapshot(n, FirstVersion))
  <2> DEFINE rows == [id \in {Install(n, FirstVersion)} |-> NewRow(Fact, TRUE)]
             t == LoaderSnapshot(n, FirstVersion)
  <2>1. DOMAIN rows = {Install(n, FirstVersion)}
    OBVIOUS
  <2>2. t = [EmptySnapshot EXCEPT !.inventory = {LoaderItem(n, FirstVersion)}, !.rows = rows]
    BY DEF LoaderSnapshot
  <2> HIDE DEF rows, t
  <2>3. t = [rows |-> rows, withdrawal |-> "none", inventory |-> {LoaderItem(n, FirstVersion)}]
    BY <2>2 DEF EmptySnapshot
  <2>4. Held(t) = {Install(n, FirstVersion)} /\ t.inventory = {LoaderItem(n, FirstVersion)}
    BY <2>1, <2>3 DEF Held
  <2>5. Reported(Held(t))
    BY <2>4 DEF Reported, Install
  <2>6. Named(t.inventory)
    BY <2>4 DEF Named, LoaderItem, Item
  <2>7. Honest(t)
    BY <2>3, <2>5, <2>6 DEF Honest
  <2> QED BY <2>7 DEF t
<1>4. Honest(disk)
  BY <1>2, <1>3 DEF InventoryInit
<1>5. StoreOK
  BY <1>4 DEF InventoryInit, StoreOK
<1>6. ScanOK
  BY FreshScan DEF InventoryInit, ScanOK
<1> QED BY <1>1, <1>5, <1>6 DEF Inv

LEMMA StepInv == Inv /\ [InventoryNext]_<<vars, inventory>> => Inv'
<1> SUFFICES ASSUME Inv, [InventoryNext]_<<vars, inventory>> PROVE Inv'
  OBVIOUS
<1>1. CASE HostChanges
  <2>1. SameWorld /\ UNCHANGED <<memory, disk, next, scan>>
    BY <1>1 DEF HostChanges, SameWorld, vars
  <2> QED BY <2>1, IdleInv
<1>2. CASE Passes
  <2>1. SameWorld /\ UNCHANGED <<memory, disk, next, scan>>
    BY <1>2 DEF Passes, Tick, SameWorld, outside
  <2> QED BY <2>1, IdleInv
<1>3. CASE UNCHANGED <<vars, inventory>>
  <2>1. SameWorld /\ UNCHANGED <<memory, disk, next, scan>>
    BY <1>3 DEF vars, inventory, outside, SameWorld
  <2> QED BY <2>1, IdleInv
<1>4. CASE ScanStep
  BY <1>4, StartsInv, AnsweredInv, ComparesInv, UpdatesInv, PublishedInv, WriteEndsInv DEF ScanStep
<1> QED
  BY <1>1, <1>2, <1>3, <1>4, ProfileChangesInv, ErasesInv, UploadedInv, StopsInv DEF InventoryNext

\* The inductive invariant holds in every state of the inventory and the buffer.
THEOREM Invariance == InventorySpec => []Inv
<1>1. InventoryInit => Inv
  BY InitInv
<1>2. Inv /\ [InventoryNext]_<<vars, inventory>> => Inv'
  BY StepInv
<1> QED BY <1>1, <1>2, PTL DEF InventorySpec

\* No bundle is reported as uninstalled that the person has not removed,
\* whatever the manager, the files, the buffer and the Host did meanwhile.
THEOREM RemovalsAreReal == InventorySpec => []NoFalseUninstall
<1>1. Inv => NoFalseUninstall
  BY DEF Inv, StoreOK, Honest, Reported, NoFalseUninstall
<1> QED BY <1>1, Invariance, PTL
=============================================================================
