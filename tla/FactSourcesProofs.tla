-------------------------- MODULE FactSourcesProofs --------------------------
(***************************************************************************)
(* Permits, commands and recorded facts are what FactSources says, for any *)
(* peers, tokens, commands, table size and number of consent changes.      *)
(*                                                                         *)
(* The argument: a permit carries the epoch it was given under, and every  *)
(* withdrawal is also a revocation, so that whatever still passes the gate *)
(* belongs to the time after the last withdrawal.  What was done before it *)
(* and is recorded all the same is recorded by a job in front of the       *)
(* withdrawal's own, which empties the buffer if no withdrawal is recorded *)
(* there: between two withdrawals consent was given, and unless that is    *)
(* what lapsed, its job clears the record of the first before the second   *)
(* comes.  The composition with the client only drives the Host, so all of *)
(* it holds there as well.                                                 *)
(***************************************************************************)
EXTENDS PageClient, FiniteSetTheorems, TLAPS

USE FactAssumptions

----------------------------------------------------------------------------
(* The inductive invariant *)

\* A call under way knows the epoch it was made in, and the withdrawals so far.
CallOK(c) ==
  /\ c.permit.epoch <= epoch
  /\ c.permit.epoch = epoch => c.era = era
  /\ c.kind = "issue" => c.permit.asked = c.permit.epoch
CallsOK == \A c \in calls : CallOK(c)
CredentialsOK == \A p \in credentials : p.epoch = epoch /\ p.asked = epoch

\* The jobs that consent queues, and those that record a fact.
OfConsent == {"withdraw", "grant"}

\* A job that no withdrawal follows is of the time after the last one.
Withdraws(q, i) == \E k \in DOMAIN q : k > i /\ q[k].kind = "withdraw"
Fresh(q, e) == \A i \in DOMAIN q : q[i].kind # "withdraw" => Withdraws(q, i) \/ q[i].era = e
Kept(q, F, e) == (\A i \in DOMAIN q : q[i].kind # "withdraw") => \A f \in F : f.era = e

\* Jobs and facts are not from before the last withdrawal that erased, and what
\* is behind a withdrawal was done after it.
Stamped(q, F, e, r) ==
  /\ r <= e
  /\ \A f \in F : f.era >= r
  /\ \A i \in DOMAIN q : q[i].era >= r /\ q[i].era <= e
  /\ \A i \in DOMAIN q : q[i].kind = "withdraw" =>
       q[i].era < e /\ \A k \in DOMAIN q : i < k => q[i].era < q[k].era

\* Consent is given again between two withdrawals: the one recorded (m), those
\* queued, and the one that may come (c).
GrantBetween(q, i, k) == \E g \in DOMAIN q : i < g /\ g < k /\ q[g].kind = "grant"
Alternates(q, m, c) ==
  \A i \in 0..Len(q), k \in 1..(Len(q) + 1) :
    /\ i < k
    /\ IF i = 0 THEN m ELSE q[i].kind = "withdraw"
    /\ IF k > Len(q) THEN c ELSE q[k].kind = "withdraw"
    => GrantBetween(q, i, k)
Heard == listening /\ choice = "granted"

\* What has been started of the head is the recording of a fact.
HeadOK == jobAt # "idle" => jobs # <<>> /\ Head(jobs).kind \notin OfConsent
JobsOK ==
  /\ HeadOK /\ Fresh(jobs, era) /\ Stamped(jobs, facts, era, erased)
  /\ lapsed \/ (Kept(jobs, facts, era) /\ Alternates(jobs, marker, Heard))

CountOK == IsFiniteSet(Tabled) /\ count = Cardinality(Tabled) /\ count <= MaxPending

\* A drawn token is that of one permit, call, job or fact.
HeldOnce(C, K, q, F, D) ==
  /\ \A p \in C : /\ p.token \in D
                  /\ \A o \in C : o.token = p.token => o = p
                  /\ \A c \in K : c.permit.token # p.token
                  /\ \A i \in DOMAIN q : q[i].id # p.token
                  /\ \A f \in F : f.id # p.token
  /\ \A c \in K : /\ c.permit.token \in D
                  /\ \A d \in K : d.permit.token = c.permit.token => d = c
                  /\ \A i \in DOMAIN q : q[i].id # c.permit.token
                  /\ \A f \in F : f.id # c.permit.token
  /\ \A i \in DOMAIN q : q[i].id \in Tokens =>
                  /\ q[i].id \in D
                  /\ \A k \in DOMAIN q : q[k].id = q[i].id => k = i
                  /\ \A f \in F : f.id # q[i].id
  /\ \A f \in F : f.id \in Tokens => f.id \in D /\ \A g \in F : g.id = f.id => g = f
TokensOK == HeldOnce(credentials, calls, jobs, facts, drawn)

Inv ==
  /\ TypeOK /\ era <= epoch /\ CallsOK /\ CredentialsOK
  /\ JobsOK /\ CountOK /\ TokensOK

----------------------------------------------------------------------------
(* Types *)

\* The jobs of a step: as they were, without the head, or with another one.
LEMMA JobSeqs ==
  ASSUME NEW q \in Seq(Job)
  PROVE  /\ \A j \in Job : Append(q, j) \in Seq(Job)
         /\ q # <<>> => Tail(q) \in Seq(Job) /\ Head(q) \in Job
OBVIOUS

LEMMA TypeKeeps ==
  ASSUME TypeOK, era <= epoch, JobsOK, CountOK, [Next]_vars
  PROVE  TypeOK' /\ era' <= epoch'
<1> USE DEF TypeOK
<1>0. HeadOK
  BY DEF JobsOK
<1>1. ASSUME NEW p \in Peers, IssueCalled(p) PROVE TypeOK' /\ era' <= epoch'
  BY <1>1 DEF IssueCalled, Call, Permit, Stamps, coreVars, commandVars, jobVars, withdrawalVars
<1>2. ASSUME NEW p \in Peers, Released(p) PROVE TypeOK' /\ era' <= epoch'
  BY <1>2 DEF Released, coreVars, commandVars, jobVars, withdrawalVars
<1>3. ASSUME NEW c \in calls, IssueAnswered(c) PROVE TypeOK' /\ era' <= epoch'
  <2>1. [c.permit EXCEPT !.epoch = epoch, !.issuedAt = clock] \in Permit
    BY <1>3 DEF IssueAnswered, Call, Permit
  <2>2. credentials' \subseteq Permit
    BY <1>3, <2>1 DEF IssueAnswered
  <2> QED
    BY <1>3, <2>2 DEF IssueAnswered, coreVars, commandVars, jobVars, withdrawalVars
<1>4. ASSUME NEW c \in calls, PresentedAnswered(c) PROVE TypeOK' /\ era' <= epoch'
  <2>1. [kind |-> "page", id |-> c.permit.token, epoch |-> c.permit.epoch, era |-> c.era] \in Job
    BY DEF Call, Permit, Job
  <2>2. jobs' \in Seq(Job)
    BY <1>4, <2>1, JobSeqs DEF PresentedAnswered
  <2> QED
    BY <1>4, <2>2 DEF PresentedAnswered, coreVars, commandVars, withdrawalVars
<1>5. ASSUME NEW p \in credentials, PresentedCalled(p) PROVE TypeOK' /\ era' <= epoch'
  BY <1>5 DEF PresentedCalled, Call, coreVars, commandVars, jobVars, withdrawalVars
<1>6. ASSUME NEW c \in Commands, RunObserved(c) PROVE TypeOK' /\ era' <= epoch'
  BY <1>6 DEF RunObserved, coreVars, pageVars, jobVars, withdrawalVars
<1>7. ASSUME NEW c \in Commands, HandlerCalled(c) PROVE TypeOK' /\ era' <= epoch'
  BY <1>7 DEF HandlerCalled, coreVars, pageVars, jobVars, withdrawalVars
<1>8. ASSUME NEW c \in Commands, DoneObserved(c) PROVE TypeOK' /\ era' <= epoch'
  <2>1. [kind |-> "command", id |-> c, epoch |-> 0, era |-> era] \in Job
    BY DEF Job
  <2>2. jobs' \in Seq(Job)
    BY <1>8, <2>1, JobSeqs DEF DoneObserved
  <2>3. count' \in Nat
    <3>1. Cardinality(Tabled) # 0
      BY <1>8, FS_EmptySet DEF CountOK, DoneObserved
    <3> QED
      BY <1>8, <3>1 DEF CountOK, DoneObserved
  <2> QED
    BY <1>8, <2>2, <2>3 DEF DoneObserved, coreVars, pageVars, withdrawalVars
<1>9. ASSUME NEW s, SessionDisposed(s) PROVE TypeOK' /\ era' <= epoch'
  <2> DEFINE T == {c \in Tabled : SessionOf[c] = s}
  <2>1. Cardinality(T) \in Nat /\ Cardinality(T) <= Cardinality(Tabled)
    BY FS_Subset, FS_CardinalityType DEF CountOK
  <2>2. count' \in Nat
    BY <1>9, <2>1 DEF CountOK, SessionDisposed
  <2>3. command' \in [Commands -> {"new", "run", "handled", "over"}]
    BY <1>9 DEF SessionDisposed
  <2> QED
    BY <1>9, <2>2, <2>3 DEF SessionDisposed, coreVars, pageVars, jobVars, withdrawalVars
<1>10. ASSUME JobTakesPage \/ JobTakesCommand \/ JobLearnsOwner PROVE TypeOK' /\ era' <= epoch'
  <2>1. jobs # <<>>
    BY <1>0, <1>10 DEF JobTakesPage, JobTakesCommand, JobLearnsOwner, HeadOK
  <2>2. Tail(jobs) \in Seq(Job)
    BY <2>1, JobSeqs
  <2> QED
    BY <1>10, <2>2 DEF JobTakesPage, JobTakesCommand, JobLearnsOwner, Seats, JobOver,
       coreVars, pageVars, commandVars, withdrawalVars
<1>11. ASSUME JobPuts PROVE TypeOK' /\ era' <= epoch'
  <2>1. jobs # <<>> /\ Head(jobs).kind \notin OfConsent
    BY <1>0, <1>11 DEF JobPuts, HeadOK
  <2>2. Tail(jobs) \in Seq(Job) /\ Head(jobs) \in Job
    BY <2>1, JobSeqs
  <2>3. [kind |-> Head(jobs).kind, id |-> Head(jobs).id, era |-> Head(jobs).era] \in Fact
    BY <2>1, <2>2 DEF Job, Fact, OfConsent
  <2> QED
    BY <1>11, <2>2, <2>3 DEF JobPuts, JobOver, coreVars, pageVars, commandVars, withdrawalVars
<1>12. ASSUME JobWithdraws \/ JobGrants PROVE TypeOK' /\ era' <= epoch'
  <2>1. jobs # <<>> /\ Tail(jobs) \in Seq(Job) /\ UNCHANGED era
    BY <1>12, JobSeqs DEF JobWithdraws, JobGrants
  <2>2. erased' \in Stamps
    <3>1. erased' = erased \/ (Head(jobs).kind = "withdraw" /\ erased' = Head(jobs).era + 1)
      BY <1>12 DEF JobWithdraws, JobGrants
    <3>2. Head(jobs).kind = "withdraw" => Head(jobs).era < era /\ Head(jobs).era \in Nat
      <4>1. Head(jobs) = jobs[1] /\ 1 \in DOMAIN jobs /\ Head(jobs) \in Job
        BY <2>1
      <4>2. Head(jobs).era \in Nat
        BY <4>1 DEF Job, Stamps
      <4> QED
        BY <4>1, <4>2 DEF JobsOK, Stamped
    <3> QED
      BY <3>1, <3>2 DEF Stamps
  <2>3. marker' \in BOOLEAN /\ lapsed' \in BOOLEAN
    BY <1>12 DEF JobWithdraws, JobGrants
  <2>4. facts' \subseteq facts /\ jobs' = Tail(jobs) /\ jobAt' = "idle"
    BY <1>12 DEF JobWithdraws, JobGrants, JobOver
  <2>5. UNCHANGED <<coreVars, connected, closing, clock, pageVars, commandVars>>
    BY <1>12 DEF JobWithdraws, JobGrants
  <2> QED
    BY <2>1, <2>2, <2>3, <2>4, <2>5 DEF coreVars, pageVars, commandVars
<1>13. ASSUME ConsentChanges PROVE TypeOK' /\ era' <= epoch'
  <2>1. PICK k \in OfConsent : jobs' = Append(jobs, [kind |-> k, id |-> "consent", epoch |-> 0, era |-> era])
    BY <1>13 DEF ConsentChanges, OfConsent
  <2>2. [kind |-> k, id |-> "consent", epoch |-> 0, era |-> era] \in Job
    BY DEF Job, OfConsent
  <2>3. jobs' \in Seq(Job)
    BY <2>1, <2>2, JobSeqs
  <2>4. epoch' \in Stamps /\ era' \in Stamps /\ era' <= epoch'
    BY <1>13 DEF ConsentChanges, Revoke, Stamps
  <2> QED
    BY <1>13, <2>3, <2>4 DEF ConsentChanges, Revoke, commandVars
<1>14. ASSUME ConsentChangesUnseen PROVE TypeOK' /\ era' <= epoch'
  BY <1>14 DEF ConsentChangesUnseen, pageVars, commandVars, jobVars, withdrawalVars
<1>15. ASSUME CoreChanges PROVE TypeOK' /\ era' <= epoch'
  BY <1>15 DEF CoreChanges, Revoke, Stamps, commandVars, jobVars, withdrawalVars
<1>16. ASSUME Tick PROVE TypeOK' /\ era' <= epoch'
  BY <1>16 DEF Tick, coreVars, pageVars, commandVars, jobVars, withdrawalVars
<1>17. ASSUME Close PROVE TypeOK' /\ era' <= epoch'
  BY <1>17 DEF Close, coreVars, jobVars, withdrawalVars
<1>18. ASSUME LetsGo PROVE TypeOK' /\ era' <= epoch'
  BY <1>18 DEF LetsGo, pageVars, commandVars, jobVars, withdrawalVars
<1>19. ASSUME UNCHANGED vars PROVE TypeOK' /\ era' <= epoch'
  BY <1>19 DEF vars, coreVars, pageVars, commandVars, jobVars, withdrawalVars
<1> QED
  BY <1>1, <1>2, <1>3, <1>4, <1>5, <1>6, <1>7, <1>8, <1>9, <1>10, <1>11, <1>12, <1>13, <1>14,
     <1>15, <1>16, <1>17, <1>18, <1>19 DEF Next

----------------------------------------------------------------------------
(* Permits *)

\* No step makes an epoch or an era again.
LEMMA EpochsGrow ==
  ASSUME TypeOK, [Next]_vars
  PROVE  /\ \/ UNCHANGED <<epoch, era>>
            \/ epoch' = epoch + 1 /\ era' \in {era, era + 1} /\ credentials' = {} /\ UNCHANGED calls
         /\ epoch \in Nat /\ era \in Nat
<1>1. \/ UNCHANGED <<epoch, era>>
      \/ epoch' = epoch + 1 /\ era' \in {era, era + 1} /\ credentials' = {} /\ UNCHANGED calls
  BY DEF Next, vars, pageVars, withdrawalVars, IssueCalled, Released, IssueAnswered, PresentedAnswered, PresentedCalled,
     RunObserved, HandlerCalled, DoneObserved, SessionDisposed, JobTakesPage, JobTakesCommand,
     JobLearnsOwner, JobPuts, JobWithdraws, JobGrants, ConsentChanges, ConsentChangesUnseen, CoreChanges, Tick,
     Close, LetsGo, Revoke
<1> QED
  BY <1>1 DEF TypeOK, Stamps

\* What a step may add to the permits and to the calls under way.
LEMMA NewPermits ==
  ASSUME TypeOK, [Next]_vars, NEW p \in credentials', p \notin credentials
  PROVE  \E c \in calls : /\ c.kind = "issue" /\ c.permit.epoch = epoch /\ epoch' = epoch
                          /\ p = [c.permit EXCEPT !.epoch = epoch, !.issuedAt = clock]
<1>1. \E c \in calls : IssueAnswered(c)
  BY DEF Next, vars, pageVars, withdrawalVars, IssueCalled, Released, PresentedAnswered, PresentedCalled,
     RunObserved, HandlerCalled, DoneObserved, SessionDisposed, JobTakesPage, JobTakesCommand,
     JobLearnsOwner, JobPuts, JobWithdraws, JobGrants, ConsentChanges, ConsentChangesUnseen, CoreChanges, Tick,
     Close, LetsGo, Revoke
<1>2. PICK c \in calls : IssueAnswered(c)
  BY <1>1
<1> QED
  BY <1>2 DEF IssueAnswered, Permitted

LEMMA NewCalls ==
  ASSUME TypeOK, [Next]_vars, NEW c \in calls', c \notin calls
  PROVE  /\ UNCHANGED <<epoch, era>>
         /\ \/ \E p \in Peers, t \in Tokens :
                 c = [kind |-> "issue", era |-> era,
                      permit |-> [token |-> t, peer |-> p, asked |-> epoch, epoch |-> epoch, issuedAt |-> 0]]
            \/ \E p \in credentials :
                 p.epoch = epoch /\ c = [kind |-> "presented", permit |-> p, era |-> era]
<1>1. (\E p \in Peers : IssueCalled(p)) \/ (\E p \in credentials : PresentedCalled(p))
  BY DEF Next, vars, pageVars, withdrawalVars, Released, IssueAnswered, PresentedAnswered,
     RunObserved, HandlerCalled, DoneObserved, SessionDisposed, JobTakesPage, JobTakesCommand,
     JobLearnsOwner, JobPuts, JobWithdraws, JobGrants, ConsentChanges, ConsentChangesUnseen, CoreChanges, Tick,
     Close, LetsGo
<1> QED
  BY <1>1 DEF IssueCalled, PresentedCalled, Permitted, withdrawalVars

LEMMA PermitsKeep ==
  ASSUME TypeOK, era <= epoch, CallsOK, CredentialsOK, [Next]_vars
  PROVE  CallsOK' /\ CredentialsOK'
<1>1. ASSUME NEW c \in calls PROVE c.permit \in Permit /\ c.permit.epoch \in Nat
  BY DEF TypeOK, Call, Permit, Stamps
<1>2. ASSUME NEW c \in calls' PROVE CallOK(c)'
  <2>1. CASE c \in calls
    BY <1>1, <2>1, EpochsGrow DEF CallsOK, CallOK
  <2>2. CASE c \notin calls
    BY <2>2, NewCalls, EpochsGrow DEF CallOK
  <2> QED
    BY <2>1, <2>2
<1>3. ASSUME NEW p \in credentials' PROVE p.epoch = epoch' /\ p.asked = epoch'
  <2>1. CASE p \in credentials
    BY <1>3, <2>1, EpochsGrow DEF CredentialsOK
  <2>2. CASE p \notin credentials
    <3>1. PICK c \in calls : /\ c.kind = "issue" /\ c.permit.epoch = epoch /\ epoch' = epoch
                              /\ p = [c.permit EXCEPT !.epoch = epoch, !.issuedAt = clock]
      BY <2>2, NewPermits
    <3>2. p.epoch = epoch /\ p.asked = c.permit.asked
      BY <1>1, <3>1 DEF Permit
    <3> QED
      BY <3>1, <3>2 DEF CallsOK, CallOK
  <2> QED
    BY <2>1, <2>2
<1> QED
  BY <1>2, <1>3 DEF CallsOK, CredentialsOK

----------------------------------------------------------------------------
(* Jobs and facts *)

\* What a step does to the jobs, the facts and the recorded withdrawal.
JobsStay ==
  /\ UNCHANGED <<jobs, jobAt, facts, marker, era, erased>>
  /\ lapsed => lapsed'
  /\ lapsed' \/ (Heard' => Heard)
Joins(j) == j \in Job /\ jobs' = Append(jobs, j) /\ UNCHANGED <<jobAt, facts, marker, erased, lapsed>>
FactJoins(j) == Joins(j) /\ j.kind \notin OfConsent /\ j.era = era /\ UNCHANGED <<era, Heard>>
ConsentJoins(j) ==
  /\ Joins(j) /\ j.era = era
  /\ \/ j.kind = "withdraw" /\ era' = era + 1 /\ Heard /\ ~Heard'
     \/ j.kind = "grant" /\ UNCHANGED era
HeadGoesOn ==
  /\ jobs # <<>> /\ Head(jobs).kind \notin OfConsent
  /\ UNCHANGED <<jobs, facts, marker, era, erased, lapsed, Heard>> /\ jobAt' \in {"owner", "put"}
FactEnds ==
  /\ Head(jobs).kind \notin OfConsent
  /\ \/ UNCHANGED facts
     \/ \E f \in Fact :
          /\ f.kind = Head(jobs).kind /\ f.id = Head(jobs).id /\ f.era = Head(jobs).era
          /\ facts' = facts \cup {f}
  /\ UNCHANGED <<marker, erased, lapsed>>
WithdrawalErases ==
  /\ Head(jobs).kind = "withdraw" /\ ~marker /\ marker'
  /\ facts' = {} /\ erased' = Head(jobs).era + 1 /\ UNCHANGED lapsed
WithdrawalKeeps ==
  /\ Head(jobs).kind = "withdraw"
  /\ (marker /\ UNCHANGED lapsed) \/ lapsed'
  /\ UNCHANGED <<facts, marker, erased>>
GrantEnds ==
  /\ Head(jobs).kind = "grant"
  /\ marker' => marker
  /\ lapsed' <=> (lapsed \/ marker')
  /\ UNCHANGED <<facts, erased>>
HeadEnds ==
  /\ jobs # <<>> /\ JobOver /\ UNCHANGED <<era, Heard>>
  /\ FactEnds \/ WithdrawalErases \/ WithdrawalKeeps \/ GrantEnds

JobSteps == JobTakesPage \/ JobTakesCommand \/ JobLearnsOwner \/ JobPuts \/ JobWithdraws \/ JobGrants

LEMMA JobsMove ==
  ASSUME TypeOK, HeadOK, JobSteps
  PROVE  HeadGoesOn \/ HeadEnds
<1> USE DEF OfConsent
<1>1. CASE JobTakesPage \/ JobTakesCommand \/ JobLearnsOwner
  <2>1. /\ jobs # <<>> /\ Head(jobs).kind \notin OfConsent
        /\ UNCHANGED <<facts, marker, era, erased, lapsed, Heard>>
    BY <1>1 DEF JobTakesPage, JobTakesCommand, JobLearnsOwner, HeadOK, withdrawalVars, coreVars, Heard
  <2>2. JobOver \/ (UNCHANGED jobs /\ jobAt' \in {"owner", "put"})
    BY <1>1 DEF JobTakesPage, JobTakesCommand, JobLearnsOwner, Seats
  <2> QED
    BY <2>1, <2>2 DEF HeadGoesOn, HeadEnds, FactEnds
<1>2. CASE JobPuts
  <2>1. jobs # <<>> /\ Head(jobs).kind \notin OfConsent /\ Head(jobs) \in Job
    BY <1>2, JobSeqs DEF JobPuts, HeadOK, TypeOK
  <2> DEFINE f == [kind |-> Head(jobs).kind, id |-> Head(jobs).id, era |-> Head(jobs).era]
  <2>2. f \in Fact /\ f.kind = Head(jobs).kind /\ f.id = Head(jobs).id /\ f.era = Head(jobs).era
    BY <2>1 DEF Job, Fact
  <2>3. JobOver /\ facts' \in {facts, facts \cup {f}} /\ UNCHANGED <<marker, era, erased, lapsed, Heard>>
    BY <1>2 DEF JobPuts, withdrawalVars, coreVars, Heard
  <2> QED
    BY <2>1, <2>2, <2>3 DEF HeadEnds, FactEnds
<1>3. CASE JobWithdraws
  <2>1. jobs # <<>> /\ Head(jobs).kind = "withdraw" /\ JobOver /\ UNCHANGED <<era, Heard>>
    BY <1>3 DEF JobWithdraws, coreVars, Heard
  <2>2. WithdrawalErases \/ WithdrawalKeeps
    BY <1>3, <2>1 DEF JobWithdraws, WithdrawalErases, WithdrawalKeeps
  <2> QED
    BY <2>1, <2>2 DEF HeadEnds
<1>4. CASE JobGrants
  <2>1. jobs # <<>> /\ Head(jobs).kind = "grant" /\ JobOver /\ UNCHANGED <<era, Heard>>
    BY <1>4 DEF JobGrants, coreVars, Heard
  <2>2. marker' \in {FALSE, marker} /\ lapsed' = (lapsed \/ marker') /\ UNCHANGED <<facts, erased>>
    BY <1>4 DEF JobGrants
  <2>3. (marker' => marker) /\ (lapsed' <=> (lapsed \/ marker'))
    <3>1. marker' = FALSE \/ marker' = marker
      BY <2>2
    <3>2. marker' => marker
      BY <3>1, Zenon
    <3>3. lapsed' <=> (lapsed \/ marker')
      BY <2>2, Zenon
    <3> QED
      BY <3>2, <3>3
  <2>4. GrantEnds
    BY <2>1, <2>2, <2>3 DEF GrantEnds
  <2> QED
    BY <2>1, <2>4 DEF HeadEnds
<1> QED
  BY <1>1, <1>2, <1>3, <1>4 DEF JobSteps

LEMMA JobChanges ==
  ASSUME TypeOK, CallsOK, HeadOK, [Next]_vars
  PROVE  \/ JobsStay \/ HeadGoesOn \/ HeadEnds
         \/ \E j \in Job : FactJoins(j) \/ ConsentJoins(j)
<1>1. CASE JobSteps
  BY <1>1, JobsMove
<1>2. ASSUME NEW c \in calls, PresentedAnswered(c)
      PROVE  JobsStay \/ \E j \in Job : FactJoins(j)
  <2> DEFINE j == [kind |-> "page", id |-> c.permit.token, epoch |-> c.permit.epoch, era |-> c.era]
  <2>1. j \in Job /\ j.kind = "page" /\ j.era = c.era
    BY DEF TypeOK, Call, Permit, Job
  <2>2. /\ jobs' = jobs \/ (jobs' = Append(jobs, j) /\ c.permit.epoch = epoch)
        /\ UNCHANGED <<jobAt, facts, marker, era, erased, lapsed, Heard>>
    BY <1>2 DEF PresentedAnswered, Permitted, withdrawalVars, coreVars, Heard
  <2>3. c.permit.epoch = epoch => c.era = era
    BY DEF CallsOK, CallOK
  <2> QED
    BY <2>1, <2>2, <2>3 DEF JobsStay, FactJoins, Joins, OfConsent
<1>3. ASSUME NEW c \in Commands, DoneObserved(c)
      PROVE  JobsStay \/ \E j \in Job : FactJoins(j)
  <2> DEFINE j == [kind |-> "command", id |-> c, epoch |-> 0, era |-> era]
  <2>1. j \in Job /\ j.kind = "command" /\ j.era = era
    BY DEF TypeOK, Job
  <2>2. /\ jobs' = jobs \/ jobs' = Append(jobs, j)
        /\ UNCHANGED <<jobAt, facts, marker, era, erased, lapsed, Heard>>
    BY <1>3 DEF DoneObserved, withdrawalVars, coreVars, Heard
  <2> QED
    BY <2>1, <2>2 DEF JobsStay, FactJoins, Joins, OfConsent
<1>4. CASE ConsentChanges
  <2>1. PICK k \in OfConsent :
          /\ k = IF choice = "granted" THEN "withdraw" ELSE "grant"
          /\ jobs' = Append(jobs, [kind |-> k, id |-> "consent", epoch |-> 0, era |-> era])
    BY <1>4 DEF ConsentChanges, OfConsent
  <2> DEFINE j == [kind |-> k, id |-> "consent", epoch |-> 0, era |-> era]
  <2>2. j \in Job /\ j.kind = k /\ j.era = era
    BY DEF TypeOK, Job, OfConsent
  <2>3. Joins(j)
    BY <1>4, <2>1, <2>2 DEF ConsentChanges, Joins
  <2>4. \/ k = "withdraw" /\ era' = era + 1 /\ Heard /\ ~Heard'
        \/ k = "grant" /\ UNCHANGED era
    BY <1>4, <2>1 DEF ConsentChanges, Heard
  <2> HIDE DEF j
  <2> QED
    BY <2>2, <2>3, <2>4 DEF ConsentJoins
<1>5. CASE CoreChanges
  <2>1. UNCHANGED <<jobs, jobAt, facts, marker, era, erased, listening>>
    BY <1>5 DEF CoreChanges, jobVars
  <2>2. lapsed' <=> (lapsed \/ (choice = "withheld" /\ choice' = "granted"))
    BY <1>5 DEF CoreChanges, TypeOK
  <2>3. choice \in {"granted", "withheld"}
    BY DEF TypeOK
  <2> QED
    BY <2>1, <2>2, <2>3 DEF JobsStay, Heard
<1>6. CASE ConsentChangesUnseen \/ LetsGo
  BY <1>6 DEF ConsentChangesUnseen, LetsGo, jobVars, withdrawalVars, JobsStay, Heard
<1>7. ASSUME UNCHANGED <<coreVars, jobVars, withdrawalVars>>
      PROVE  JobsStay
  BY <1>7 DEF coreVars, jobVars, withdrawalVars, JobsStay, Heard
<1> QED
  BY <1>1, <1>2, <1>3, <1>4, <1>5, <1>6, <1>7 DEF Next, JobSteps, vars, IssueCalled, Released, IssueAnswered,
     PresentedCalled, RunObserved, HandlerCalled, SessionDisposed, Tick, Close

(* Another job at the end: those before it are where they were. *)
LEMMA Appended ==
  ASSUME NEW q \in Seq(Job), NEW j \in Job
  PROVE  /\ DOMAIN q = 1..Len(q) /\ Len(q) \in Nat
         /\ DOMAIN Append(q, j) = 1..(Len(q) + 1) /\ Append(q, j)[Len(q) + 1] = j
         /\ \A i \in 1..Len(q) : Append(q, j)[i] = q[i]
         /\ Append(q, j) # <<>> /\ (q # <<>> => Head(Append(q, j)) = Head(q))
OBVIOUS

(* Without the head, the others move up by one. *)
LEMMA Dropped ==
  ASSUME NEW q \in Seq(Job), q # <<>>
  PROVE  /\ DOMAIN q = 1..Len(q) /\ Len(q) \in Nat \ {0}
         /\ DOMAIN Tail(q) = 1..(Len(q) - 1) /\ Head(q) = q[1]
         /\ \A i \in 1..(Len(q) - 1) : Tail(q)[i] = q[i + 1]
OBVIOUS

\* What a job at the end, or the loss of the head, does to the four parts.
LEMMA JoinKeeps ==
  ASSUME NEW q \in Seq(Job), NEW j \in Job, NEW F, NEW e \in Nat, NEW d \in Nat, NEW r \in Nat,
         Fresh(q, e), Stamped(q, F, e, r), j.era = e,
         \/ j.kind = "withdraw" /\ d = e + 1
         \/ j.kind # "withdraw" /\ d = e
  PROVE  /\ Fresh(Append(q, j), d) /\ Stamped(Append(q, j), F, d, r)
         /\ Kept(q, F, e) => Kept(Append(q, j), F, d)
<1> DEFINE p == Append(q, j)
           n == Len(q) + 1
<1>1. /\ DOMAIN q = 1..Len(q) /\ Len(q) \in Nat /\ DOMAIN p = 1..n /\ p[n] = j
      /\ \A i \in 1..Len(q) : p[i] = q[i]
  BY Appended
<1>2. \A i \in DOMAIN p : i = n \/ (i \in DOMAIN q /\ p[i] = q[i] /\ i < n)
  BY <1>1
<1>3. n \in DOMAIN p /\ \A i \in DOMAIN q : i \in DOMAIN p /\ p[i] = q[i] /\ i < n /\ i \in Nat
  BY <1>1
<1>4. \A i \in DOMAIN q : q[i].era \in Nat
  BY <1>1 DEF Job, Stamps
<1> SUFFICES Fresh(p, d) /\ Stamped(p, F, d, r) /\ (Kept(q, F, e) => Kept(p, F, d))
  OBVIOUS
<1> HIDE DEF p
<1>5. ASSUME NEW i \in DOMAIN p, p[i].kind # "withdraw" PROVE Withdraws(p, i) \/ p[i].era = d
  <2>1. CASE i = n
    BY <1>1, <1>5, <2>1
  <2>2. CASE i # n
    <3>1. i \in DOMAIN q /\ p[i] = q[i] /\ i < n
      BY <1>2, <2>2
    <3>2. j.kind = "withdraw" => Withdraws(p, i)
      BY <1>1, <1>3, <3>1 DEF Withdraws
    <3>3. Withdraws(q, i) => Withdraws(p, i)
      BY <1>3 DEF Withdraws
    <3> QED
      BY <1>5, <3>1, <3>2, <3>3 DEF Fresh
  <2> QED
    BY <2>1, <2>2
<1>6. Stamped(p, F, d, r)
  <2>1. r <= d /\ e <= d /\ \A f \in F : f.era >= r
    BY DEF Stamped
  <2>2. ASSUME NEW i \in DOMAIN p PROVE p[i].era >= r /\ p[i].era <= d
    BY <1>1, <1>2, <1>4, <2>1 DEF Stamped
  <2>3. ASSUME NEW i \in DOMAIN p, p[i].kind = "withdraw"
        PROVE  p[i].era < d /\ \A k \in DOMAIN p : i < k => p[i].era < p[k].era
    <3>1. CASE i = n
      BY <1>1, <1>2, <1>3, <2>3, <3>1
    <3>2. CASE i # n
      <4>1. i \in DOMAIN q /\ p[i] = q[i] /\ i < n /\ q[i].era \in Nat
        BY <1>2, <1>4, <3>2
      <4>2. q[i].era < e /\ \A k \in DOMAIN q : i < k => q[i].era < q[k].era
        BY <2>3, <4>1 DEF Stamped
      <4> QED
        BY <1>1, <1>2, <2>1, <4>1, <4>2
    <3> QED
      BY <3>1, <3>2
  <2> QED
    BY <2>1, <2>2, <2>3 DEF Stamped
<1>7. ASSUME Kept(q, F, e) PROVE Kept(p, F, d)
  BY <1>1, <1>3, <1>7 DEF Kept
<1> QED
  BY <1>5, <1>6, <1>7 DEF Fresh

LEMMA DropKeeps ==
  ASSUME NEW q \in Seq(Job), q # <<>>, NEW F, NEW G, NEW e \in Nat, NEW r \in Nat, NEW o \in Nat,
         Fresh(q, e), Stamped(q, F, e, r),
         \/ o = r /\ \A f \in G : f \in F \/ (Head(q).kind # "withdraw" /\ f.era = Head(q).era)
         \/ Head(q).kind = "withdraw" /\ o = Head(q).era + 1 /\ G = {}
  PROVE  /\ Fresh(Tail(q), e) /\ Stamped(Tail(q), G, e, o)
         /\ Kept(q, F, e) /\ (Head(q).kind # "withdraw" \/ G = {}) => Kept(Tail(q), G, e)
<1> DEFINE p == Tail(q)
<1>1. /\ DOMAIN q = 1..Len(q) /\ Len(q) \in Nat \ {0} /\ DOMAIN p = 1..(Len(q) - 1)
      /\ Head(q) = q[1] /\ \A i \in 1..(Len(q) - 1) : p[i] = q[i + 1]
  BY Dropped
<1>2. \A i \in DOMAIN q : q[i].era \in Nat
  BY <1>1 DEF Job, Stamps
<1> SUFFICES /\ Fresh(p, e) /\ Stamped(p, G, e, o)
             /\ Kept(q, F, e) /\ (Head(q).kind # "withdraw" \/ G = {}) => Kept(p, G, e)
  OBVIOUS
<1> HIDE DEF p
<1>3. ASSUME NEW k \in DOMAIN q, k # 1 PROVE k - 1 \in DOMAIN p /\ p[k - 1] = q[k] /\ k \in Nat
  BY <1>1, <1>3
<1>4. ASSUME NEW i \in DOMAIN p PROVE i + 1 \in DOMAIN q /\ q[i + 1] = p[i] /\ i \in Nat /\ 1 < i + 1
  BY <1>1
<1>5. 1 \in DOMAIN q /\ q[1] = Head(q)
  BY <1>1
<1>6. Fresh(p, e)
  <2>1. ASSUME NEW i \in DOMAIN p, p[i].kind # "withdraw" PROVE Withdraws(p, i) \/ p[i].era = e
    <3>1. CASE Withdraws(q, i + 1)
      <4>1. PICK k \in DOMAIN q : k > i + 1 /\ q[k].kind = "withdraw"
        BY <3>1 DEF Withdraws
      <4>2. k - 1 \in DOMAIN p /\ p[k - 1].kind = "withdraw" /\ k - 1 > i
        BY <1>3, <1>4, <4>1
      <4> QED
        BY <4>2 DEF Withdraws
    <3> QED
      BY <1>4, <2>1, <3>1 DEF Fresh
  <2> QED
    BY <2>1 DEF Fresh
<1>7. Stamped(p, G, e, o)
  <2>1. o <= e
    BY <1>2, <1>5 DEF Stamped
  <2>2. ASSUME NEW f \in G PROVE f.era >= o
    BY <1>2, <1>5 DEF Stamped
  <2>3. ASSUME NEW i \in DOMAIN p PROVE p[i].era >= o /\ p[i].era <= e
    <3>1. q[i + 1].era \in Nat /\ q[i + 1].era >= r /\ q[i + 1].era <= e
      BY <1>2, <1>4 DEF Stamped
    <3>2. Head(q).kind = "withdraw" => Head(q).era < q[i + 1].era /\ Head(q).era \in Nat
      BY <1>2, <1>4, <1>5 DEF Stamped
    <3> QED
      BY <1>4, <3>1, <3>2
  <2>4. ASSUME NEW i \in DOMAIN p, p[i].kind = "withdraw"
        PROVE  p[i].era < e /\ \A k \in DOMAIN p : i < k => p[i].era < p[k].era
    <3>1. q[i + 1].era < e /\ \A k \in DOMAIN q : i + 1 < k => q[i + 1].era < q[k].era
      BY <1>4, <2>4 DEF Stamped
    <3> QED
      BY <1>4, <3>1
  <2> QED
    BY <2>1, <2>2, <2>3, <2>4 DEF Stamped
<1>8. ASSUME Kept(q, F, e), Head(q).kind # "withdraw" \/ G = {},
             \A i \in DOMAIN p : p[i].kind # "withdraw", NEW f \in G
      PROVE  f.era = e
  <2>1. \A k \in DOMAIN q : q[k].kind # "withdraw"
    BY <1>3, <1>5, <1>8
  <2>2. \A g \in F : g.era = e
    BY <1>8, <2>1 DEF Kept
  <2>3. Head(q).era = e
    BY <1>5, <2>1 DEF Fresh, Withdraws
  <2> QED
    BY <1>8, <2>2, <2>3
<1> QED
  BY <1>6, <1>7, <1>8 DEF Kept

LEMMA JoinAlternates ==
  ASSUME NEW q \in Seq(Job), NEW j \in Job, NEW m, NEW c, NEW d, Alternates(q, m, c),
         \/ j.kind = "grant"
         \/ j.kind = "withdraw" /\ c /\ ~d
         \/ j.kind # "withdraw" /\ (d => c)
  PROVE  Alternates(Append(q, j), m, d)
<1> DEFINE p == Append(q, j)
           n == Len(q) + 1
<1>1. /\ DOMAIN q = 1..Len(q) /\ Len(q) \in Nat /\ DOMAIN p = 1..n /\ Len(p) = n /\ p[n] = j
      /\ \A i \in 1..Len(q) : p[i] = q[i]
  BY Appended
<1> SUFFICES Alternates(p, m, d)
  OBVIOUS
<1> HIDE DEF p
<1> SUFFICES ASSUME NEW i \in 0..Len(p), NEW k \in 1..(Len(p) + 1), i < k,
                    IF i = 0 THEN m ELSE p[i].kind = "withdraw",
                    IF k > Len(p) THEN d ELSE p[k].kind = "withdraw"
             PROVE  GrantBetween(p, i, k)
  BY DEF Alternates
<1>2. \A h \in Nat : i <= Len(q) /\ h <= k /\ GrantBetween(q, i, h) => GrantBetween(p, i, k)
  BY <1>1 DEF GrantBetween
<1>3. i <= Len(q) => IF i = 0 THEN m ELSE q[i].kind = "withdraw"
  BY <1>1
<1>4. CASE j.kind = "grant" /\ k = n + 1
  <2>1. i # n /\ i < n
    BY <1>1, <1>4
  <2> QED
    BY <1>1, <1>4, <2>1 DEF GrantBetween
<1>5. CASE k <= Len(q)
  <2>1. GrantBetween(q, i, k)
    BY <1>1, <1>3, <1>5 DEF Alternates
  <2> QED
    BY <1>1, <1>2, <1>5, <2>1
<1>6. CASE c /\ i <= Len(q) /\ k >= n
  <2>1. GrantBetween(q, i, n)
    BY <1>1, <1>3, <1>6 DEF Alternates
  <2> QED
    BY <1>1, <1>2, <1>6, <2>1
<1> QED
  <2>1. i <= n /\ (i = n => j.kind = "withdraw" /\ k = n + 1)
    BY <1>1
  <2>2. k <= n + 1 /\ (k = n => j.kind = "withdraw") /\ (k = n + 1 => d)
    BY <1>1
  <2> QED
    BY <1>1, <1>4, <1>5, <1>6, <2>1, <2>2

LEMMA DropAlternates ==
  ASSUME NEW q \in Seq(Job), q # <<>>, NEW m, NEW o, NEW c, Alternates(q, m, c),
         o => Head(q).kind = "withdraw" \/ (m /\ Head(q).kind # "grant")
  PROVE  Alternates(Tail(q), o, c)
<1> DEFINE p == Tail(q)
<1>1. /\ DOMAIN q = 1..Len(q) /\ Len(q) \in Nat \ {0} /\ DOMAIN p = 1..(Len(q) - 1)
      /\ Head(q) = q[1] /\ Len(p) = Len(q) - 1 /\ \A i \in 1..(Len(q) - 1) : p[i] = q[i + 1]
  BY Dropped
<1> SUFFICES Alternates(p, o, c)
  OBVIOUS
<1> HIDE DEF p
<1> SUFFICES ASSUME NEW i \in 0..Len(p), NEW k \in 1..(Len(p) + 1), i < k,
                    IF i = 0 THEN o ELSE p[i].kind = "withdraw",
                    IF k > Len(p) THEN c ELSE p[k].kind = "withdraw"
             PROVE  GrantBetween(p, i, k)
  BY DEF Alternates
<1>2. IF k + 1 > Len(q) THEN c ELSE q[k + 1].kind = "withdraw"
  BY <1>1
<1>3. PICK h \in 0..Len(q) :
        /\ h <= i + 1 /\ h >= i /\ (h = i => h = 0 /\ q[1].kind # "grant")
        /\ IF h = 0 THEN m ELSE q[h].kind = "withdraw"
  BY <1>1
<1>4. GrantBetween(q, h, k + 1)
  BY <1>1, <1>2, <1>3 DEF Alternates
<1>5. PICK g \in DOMAIN q : h < g /\ g < k + 1 /\ q[g].kind = "grant"
  BY <1>4 DEF GrantBetween
<1>6. g # 1 /\ g > i + 1
  BY <1>1, <1>3, <1>5
<1>7. g - 1 \in DOMAIN p /\ p[g - 1] = q[g] /\ i < g - 1 /\ g - 1 < k
  BY <1>1, <1>5, <1>6
<1> QED
  BY <1>5, <1>7 DEF GrantBetween

LEMMA JobsKeep ==
  ASSUME TypeOK, CallsOK, JobsOK, [Next]_vars
  PROVE  JobsOK'
<1>1. /\ jobs \in Seq(Job) /\ HeadOK /\ Fresh(jobs, era) /\ Stamped(jobs, facts, era, erased)
      /\ lapsed \/ (Kept(jobs, facts, era) /\ Alternates(jobs, marker, Heard))
  BY DEF TypeOK, JobsOK
<1>2. era \in Nat /\ erased \in Nat
  BY DEF TypeOK, Stamps
<1> DEFINE Goal == /\ HeadOK' /\ Fresh(jobs', era') /\ Stamped(jobs', facts', era', erased')
                   /\ lapsed' \/ (Kept(jobs', facts', era') /\ Alternates(jobs', marker', Heard'))
<1> SUFFICES Goal
  BY DEF JobsOK, Fresh, Kept, Withdraws, Stamped, Alternates, GrantBetween
<1>3. CASE JobsStay
  <2>1. HeadOK' /\ Fresh(jobs', era') /\ Stamped(jobs', facts', era', erased')
    BY <1>1, <1>3 DEF JobsStay, HeadOK
  <2>2. ASSUME ~lapsed' PROVE Kept(jobs', facts', era') /\ Alternates(jobs', marker', Heard')
    <3>1. ~lapsed /\ (Heard' => Heard)
      BY <1>3, <2>2 DEF JobsStay
    <3>2. Kept(jobs, facts, era) /\ Alternates(jobs, marker, Heard)
      BY <1>1, <3>1
    <3>3. Alternates(jobs, marker, Heard')
      BY <3>1, <3>2 DEF Alternates
    <3> QED
      BY <1>3, <3>2, <3>3 DEF JobsStay
  <2> QED
    BY <2>1, <2>2
<1>4. CASE HeadGoesOn
  BY <1>1, <1>4 DEF HeadGoesOn, HeadOK
<1>5. CASE HeadEnds
  <2>1. jobs # <<>> /\ jobs' = Tail(jobs) /\ jobAt' = "idle" /\ era' = era /\ Heard' = Heard
    BY <1>5 DEF HeadEnds, JobOver
  <2>2. HeadOK'
    BY <2>1 DEF HeadOK
  <2>3. CASE FactEnds \/ GrantEnds
    <3>1. /\ erased' = erased /\ Head(jobs).kind # "withdraw"
          /\ \A f \in facts' : f \in facts \/ f.era = Head(jobs).era
      BY <2>3 DEF FactEnds, GrantEnds, OfConsent
    <3>2. /\ Fresh(Tail(jobs), era) /\ Stamped(Tail(jobs), facts', era, erased)
          /\ Kept(jobs, facts, era) => Kept(Tail(jobs), facts', era)
      BY <1>1, <1>2, <2>1, <3>1, DropKeeps
    <3>3. ~lapsed' => ~lapsed /\ (marker' => marker /\ Head(jobs).kind # "grant")
      BY <2>3 DEF FactEnds, GrantEnds, OfConsent
    <3>4. ~lapsed' => Alternates(Tail(jobs), marker', Heard)
      BY <1>1, <2>1, <3>3, DropAlternates
    <3> QED
      BY <1>1, <2>1, <2>2, <3>1, <3>2, <3>3, <3>4
  <2>4. CASE WithdrawalErases
    <3>1. Fresh(Tail(jobs), era) /\ Stamped(Tail(jobs), facts', era, erased') /\ Kept(Tail(jobs), facts', era)
      <4>1. Head(jobs).kind = "withdraw" /\ facts' = {} /\ erased' = Head(jobs).era + 1
        BY <2>4 DEF WithdrawalErases
      <4>2. Head(jobs) \in Job
        BY <1>1, <2>1, JobSeqs
      <4>3. erased' \in Nat
        BY <4>1, <4>2 DEF Job, Stamps
      <4>4. Fresh(Tail(jobs), era) /\ Stamped(Tail(jobs), {}, era, erased')
        BY <1>1, <1>2, <2>1, <4>1, <4>3, DropKeeps
      <4> QED
        BY <4>1, <4>4 DEF Kept
    <3>2. ~lapsed' => Alternates(Tail(jobs), marker', Heard)
      BY <1>1, <2>1, <2>4, DropAlternates DEF WithdrawalErases
    <3> QED
      BY <2>1, <2>2, <3>1, <3>2
  <2>5. CASE WithdrawalKeeps
    <3>1. Head(jobs).kind = "withdraw" /\ facts' = facts /\ erased' = erased
      BY <2>5 DEF WithdrawalKeeps
    <3>2. Fresh(Tail(jobs), era) /\ Stamped(Tail(jobs), facts, era, erased)
      BY <1>1, <1>2, <2>1, DropKeeps
    <3>3. lapsed'
      <4>1. SUFFICES ASSUME ~lapsed' PROVE FALSE
        OBVIOUS
      <4>2. marker /\ ~lapsed
        BY <2>5, <4>1 DEF WithdrawalKeeps
      <4>3. Alternates(jobs, marker, Heard)
        BY <1>1, <4>2
      <4>4. 1 \in DOMAIN jobs /\ jobs[1].kind = "withdraw" /\ Len(jobs) \in Nat /\ 1 <= Len(jobs)
        BY <1>1, <2>1, <3>1, Dropped
      <4>5. GrantBetween(jobs, 0, 1)
        BY <4>2, <4>3, <4>4 DEF Alternates
      <4> QED
        BY <1>1, <2>1, <4>5, Dropped DEF GrantBetween
    <3> QED
      BY <2>1, <2>2, <3>1, <3>2, <3>3
  <2> QED
    BY <1>5, <2>3, <2>4, <2>5 DEF HeadEnds
<1>6. ASSUME NEW j \in Job, FactJoins(j) \/ ConsentJoins(j)
      PROVE  Goal
  <2>1. /\ jobs' = Append(jobs, j) /\ j.era = era
        /\ UNCHANGED <<jobAt, facts, marker, erased, lapsed>>
    BY <1>6 DEF FactJoins, ConsentJoins, Joins
  <2>2. \/ j.kind = "withdraw" /\ era' = era + 1
        \/ j.kind # "withdraw" /\ era' = era
    BY <1>6 DEF FactJoins, ConsentJoins, OfConsent
  <2>3. era' \in Nat
    BY <1>2, <2>2
  <2>4. /\ Fresh(Append(jobs, j), era') /\ Stamped(Append(jobs, j), facts, era', erased)
        /\ Kept(jobs, facts, era) => Kept(Append(jobs, j), facts, era')
    BY <1>1, <1>2, <2>1, <2>2, <2>3, JoinKeeps
  <2>5. \/ j.kind = "grant"
        \/ j.kind = "withdraw" /\ Heard /\ ~Heard'
        \/ j.kind # "withdraw" /\ (Heard' => Heard)
    BY <1>6 DEF FactJoins, ConsentJoins, OfConsent
  <2>6. ~lapsed => Alternates(Append(jobs, j), marker, Heard')
    BY <1>1, <2>5, JoinAlternates
  <2>7. HeadOK'
    BY <1>1, <2>1, Appended DEF HeadOK
  <2> QED
    BY <1>1, <2>1, <2>4, <2>6, <2>7
<1> QED
  BY <1>3, <1>4, <1>5, <1>6, JobChanges, <1>1

----------------------------------------------------------------------------
(* The command tables *)

\* The commands of a step that leaves the tables alone are the same.
LEMMA CountStays ==
  ASSUME CountOK, UNCHANGED <<command, count>>
  PROVE  CountOK'
<1>1. Tabled' = Tabled
  BY DEF Tabled
<1> QED
  BY <1>1 DEF CountOK

LEMMA CountKeeps ==
  ASSUME TypeOK, CountOK, [Next]_vars
  PROVE  CountOK'
<1>1. ASSUME NEW c \in Commands, RunObserved(c) PROVE CountOK'
  <2>1. command \in [Commands -> {"new", "run", "handled", "over"}] /\ c \notin Tabled
    BY <1>1 DEF TypeOK, RunObserved, Tabled
  <2>2. CASE count >= MaxPending
    <3>1. Tabled' = Tabled /\ count' = count
      BY <1>1, <2>1, <2>2 DEF RunObserved, Tabled
    <3> QED
      BY <3>1 DEF CountOK
  <2>3. CASE ~(count >= MaxPending)
    <3>1. Tabled' = Tabled \cup {c} /\ count' = count + 1
      BY <1>1, <2>1, <2>3 DEF RunObserved, Tabled
    <3>2. IsFiniteSet(Tabled') /\ Cardinality(Tabled') = Cardinality(Tabled) + 1
      BY <2>1, <3>1, FS_AddElement DEF CountOK
    <3> QED
      BY <2>3, <3>1, <3>2 DEF CountOK, TypeOK
  <2> QED
    BY <2>2, <2>3
<1>2. ASSUME NEW c \in Commands, HandlerCalled(c) PROVE CountOK'
  <2>1. Tabled' = Tabled /\ count' = count
    BY <1>2 DEF HandlerCalled, Tabled, TypeOK
  <2> QED
    BY <2>1 DEF CountOK
<1>3. ASSUME NEW c \in Commands, DoneObserved(c) PROVE CountOK'
  <2>1. Tabled' = Tabled \ {c} /\ c \in Tabled /\ count' = count - 1
    BY <1>3 DEF DoneObserved, Tabled, TypeOK
  <2>2. IsFiniteSet(Tabled') /\ Cardinality(Tabled') = Cardinality(Tabled) - 1
    BY <2>1, FS_RemoveElement DEF CountOK
  <2> QED
    BY <2>1, <2>2 DEF CountOK, TypeOK
<1>4. ASSUME NEW s, SessionDisposed(s) PROVE CountOK'
  <2> DEFINE T == {c \in Tabled : SessionOf[c] = s}
  <2>1. Tabled' = Tabled \ T /\ count' = count - Cardinality(T)
    BY <1>4 DEF SessionDisposed, Tabled
  <2>2. Tabled \cap T = T
    OBVIOUS
  <2>3. IsFiniteSet(T) /\ Cardinality(T) \in Nat
    BY FS_Subset, FS_CardinalityType DEF CountOK
  <2> HIDE DEF T
  <2>4. IsFiniteSet(Tabled') /\ Cardinality(Tabled') = Cardinality(Tabled) - Cardinality(T)
    BY <2>1, <2>2, <2>3, FS_Difference DEF CountOK
  <2> QED
    BY <2>1, <2>3, <2>4 DEF CountOK, TypeOK
<1>5. ASSUME Close PROVE CountOK'
  <2>1. Tabled' = {} /\ count' = 0
    BY <1>5 DEF Close, Tabled
  <2> QED
    BY <2>1, FS_EmptySet DEF CountOK
<1>6. CASE UNCHANGED <<command, count>>
  BY <1>6, CountStays
<1> QED
  BY <1>1, <1>2, <1>3, <1>4, <1>5, <1>6 DEF Next, vars, commandVars, IssueCalled, Released,
     IssueAnswered, PresentedAnswered, PresentedCalled, JobTakesPage, JobTakesCommand, JobLearnsOwner,
     JobPuts, JobWithdraws, JobGrants, ConsentChanges, ConsentChangesUnseen, CoreChanges, Tick, LetsGo

----------------------------------------------------------------------------
(* Tokens *)

LEMMA HeldLess ==
  ASSUME NEW C, NEW K, NEW q, NEW F, NEW D, HeldOnce(C, K, q, F, D),
         NEW B \in SUBSET C, NEW G \in SUBSET F
  PROVE  HeldOnce(B, K, q, G, D)
BY DEF HeldOnce

\* A token nobody has is drawn.
LEMMA HeldDrawn ==
  ASSUME NEW C, NEW K, NEW q \in Seq(Job), NEW F, NEW D, HeldOnce(C, K, q, F, D),
         NEW c, c.permit.token \notin D, c.permit.token \in Tokens
  PROVE  HeldOnce(C, K \cup {c}, q, F, D \cup {c.permit.token})
BY DEF HeldOnce

\* A call becomes a permit, a permit a call.
LEMMA HeldIssued ==
  ASSUME NEW C, NEW K, NEW q, NEW F, NEW D, HeldOnce(C, K, q, F, D),
         NEW c \in K, NEW p, p.token = c.permit.token
  PROVE  HeldOnce(C \cup {p}, K \ {c}, q, F, D)
BY DEF HeldOnce

LEMMA HeldPresented ==
  ASSUME NEW C, NEW K, NEW q, NEW F, NEW D, HeldOnce(C, K, q, F, D),
         NEW p \in C, NEW c, c.permit.token = p.token
  PROVE  HeldOnce(C \ {p}, K \cup {c}, q, F, D)
BY DEF HeldOnce

\* What joins the jobs has the token of a call that is over, or none.
LEMMA HeldJoined ==
  ASSUME NEW C, NEW K, NEW q \in Seq(Job), NEW F, NEW D, HeldOnce(C, K, q, F, D),
         \A p \in C : p.token \in Tokens, \A c \in K : c.permit.token \in Tokens,
         NEW j \in Job, NEW B \in SUBSET K,
         \/ j.id \notin Tokens
         \/ \E c \in K : c.permit.token = j.id /\ B = K \ {c}
  PROVE  HeldOnce(C, B, Append(q, j), F, D)
<1> DEFINE r == Append(q, j)
           n == Len(q) + 1
<1>1. /\ DOMAIN q = 1..Len(q) /\ Len(q) \in Nat /\ DOMAIN r = 1..n /\ r[n] = j
      /\ \A i \in 1..Len(q) : r[i] = q[i]
  BY Appended
<1> SUFFICES HeldOnce(C, B, r, F, D)
  OBVIOUS
<1> HIDE DEF r
<1>2. \A i \in DOMAIN r : i = n \/ (i \in DOMAIN q /\ r[i] = q[i])
  BY <1>1
<1>3. n \notin DOMAIN q /\ n \in DOMAIN r
  BY <1>1
<1> HIDE DEF n
<1>4. CASE j.id \notin Tokens
  BY <1>1, <1>2, <1>3, <1>4 DEF HeldOnce
<1>5. ASSUME NEW c \in K, c.permit.token = j.id, B = K \ {c} PROVE HeldOnce(C, B, r, F, D)
  BY <1>1, <1>2, <1>3, <1>5 DEF HeldOnce
<1> QED
  BY <1>4, <1>5

LEMMA HeldDropped ==
  ASSUME NEW C, NEW K, NEW q \in Seq(Job), q # <<>>, NEW F, NEW G, NEW D, HeldOnce(C, K, q, F, D),
         \A p \in C : p.token \in Tokens, \A c \in K : c.permit.token \in Tokens,
         G = {} \/ G = F \/ \E f : f.id = Head(q).id /\ G = F \cup {f}
  PROVE  HeldOnce(C, K, Tail(q), G, D)
<1> DEFINE r == Tail(q)
<1>1. /\ DOMAIN q = 1..Len(q) /\ Len(q) \in Nat \ {0} /\ DOMAIN r = 1..(Len(q) - 1)
      /\ Head(q) = q[1] /\ \A i \in 1..(Len(q) - 1) : r[i] = q[i + 1]
  BY Dropped
<1> SUFFICES HeldOnce(C, K, r, G, D)
  OBVIOUS
<1> HIDE DEF r
<1>2. \A i \in DOMAIN r : /\ i + 1 \in DOMAIN q /\ r[i] = q[i + 1] /\ i + 1 # 1
                         /\ \A k \in DOMAIN r : i + 1 = k + 1 => i = k
  BY <1>1
<1>3. 1 \in DOMAIN q /\ Head(q) = q[1]
  BY <1>1
<1>4. HeldOnce(C, K, r, F, D)
  BY <1>2 DEF HeldOnce
<1>5. ASSUME NEW f, f.id = q[1].id, G = F \cup {f} PROVE HeldOnce(C, K, r, G, D)
  <2>1. /\ \A p \in C : f.id # p.token
        /\ \A c \in K : f.id # c.permit.token
        /\ \A i \in DOMAIN r : r[i].id \in Tokens => r[i].id # f.id
        /\ f.id \in Tokens => f.id \in D /\ \A g \in F : g.id # f.id
    BY <1>2, <1>3, <1>5 DEF HeldOnce
  <2> QED
    BY <1>4, <1>5, <2>1 DEF HeldOnce
<1> QED
  BY <1>3, <1>4, <1>5, HeldLess

LEMMA TokensKeep ==
  ASSUME TypeOK, HeadOK, TokensOK, [Next]_vars
  PROVE  TokensOK'
<1>1. /\ HeldOnce(credentials, calls, jobs, facts, drawn) /\ jobs \in Seq(Job)
      /\ \A p \in credentials : p.token \in Tokens
      /\ \A c \in calls : c.permit.token \in Tokens
  BY DEF TokensOK, TypeOK, Call, Permit
<1> SUFFICES HeldOnce(credentials', calls', jobs', facts', drawn')
  BY DEF TokensOK, HeldOnce
<1>2. ASSUME NEW p \in Peers, IssueCalled(p)
      PROVE  HeldOnce(credentials', calls', jobs', facts', drawn')
  <2>1. PICK t \in Tokens \ drawn :
          /\ drawn' = drawn \cup {t}
          /\ calls' = calls \cup {[kind |-> "issue", era |-> era,
               permit |-> [token |-> t, peer |-> p, asked |-> epoch, epoch |-> epoch, issuedAt |-> 0]]}
    BY <1>2 DEF IssueCalled
  <2> DEFINE c == [kind |-> "issue", era |-> era,
               permit |-> [token |-> t, peer |-> p, asked |-> epoch, epoch |-> epoch, issuedAt |-> 0]]
  <2>2. c.permit.token = t
    OBVIOUS
  <2>3. UNCHANGED <<credentials, jobs, facts>> /\ calls' = calls \cup {c}
    BY <1>2, <2>1 DEF IssueCalled, jobVars
  <2> HIDE DEF c
  <2>4. HeldOnce(credentials, calls \cup {c}, jobs, facts, drawn \cup {c.permit.token})
    BY <1>1, <2>2, HeldDrawn
  <2> QED
    BY <2>1, <2>2, <2>3, <2>4
<1>3. ASSUME NEW c \in calls, IssueAnswered(c)
      PROVE  HeldOnce(credentials', calls', jobs', facts', drawn')
  <2> DEFINE p == [c.permit EXCEPT !.epoch = epoch, !.issuedAt = clock]
  <2>1. p.token = c.permit.token
    BY DEF TypeOK, Call, Permit
  <2>2. /\ credentials' \subseteq credentials \cup {p} /\ calls' = calls \ {c}
        /\ UNCHANGED <<jobs, facts, drawn>>
    BY <1>3 DEF IssueAnswered, jobVars
  <2> HIDE DEF p
  <2>3. HeldOnce(credentials \cup {p}, calls \ {c}, jobs, facts, drawn)
    BY <1>1, <2>1, HeldIssued
  <2> QED
    BY <2>2, <2>3, HeldLess
<1>4. ASSUME NEW p \in credentials, PresentedCalled(p)
      PROVE  HeldOnce(credentials', calls', jobs', facts', drawn')
  <2> DEFINE c == [kind |-> "presented", permit |-> p, era |-> era]
  <2>1. c.permit.token = p.token
    OBVIOUS
  <2>2. /\ credentials' = credentials \ {p} /\ calls' \in {calls, calls \cup {c}}
        /\ UNCHANGED <<jobs, facts, drawn>>
    BY <1>4 DEF PresentedCalled, jobVars
  <2> HIDE DEF c
  <2>3. HeldOnce(credentials \ {p}, calls \cup {c}, jobs, facts, drawn)
    BY <1>1, <2>1, HeldPresented
  <2>4. HeldOnce(credentials \ {p}, calls, jobs, facts, drawn)
    BY <1>1, HeldLess
  <2> QED
    BY <2>2, <2>3, <2>4
<1>5. ASSUME NEW c \in calls, PresentedAnswered(c)
      PROVE  HeldOnce(credentials', calls', jobs', facts', drawn')
  <2> DEFINE j == [kind |-> "page", id |-> c.permit.token, epoch |-> c.permit.epoch, era |-> c.era]
  <2>1. j \in Job /\ j.id = c.permit.token
    BY DEF TypeOK, Call, Permit, Job
  <2>2. /\ calls' = calls \ {c} /\ jobs' \in {jobs, Append(jobs, j)}
        /\ UNCHANGED <<credentials, facts, drawn>>
    BY <1>5 DEF PresentedAnswered
  <2> HIDE DEF j
  <2>3. HeldOnce(credentials, calls \ {c}, Append(jobs, j), facts, drawn)
    BY <1>1, <2>1, HeldJoined
  <2>4. HeldOnce(credentials, calls \ {c}, jobs, facts, drawn)
    BY <1>1 DEF HeldOnce
  <2> QED
    BY <2>2, <2>3, <2>4
<1>6. ASSUME NEW c \in Commands, DoneObserved(c)
      PROVE  HeldOnce(credentials', calls', jobs', facts', drawn')
  <2> DEFINE j == [kind |-> "command", id |-> c, epoch |-> 0, era |-> era]
  <2>1. j \in Job /\ j.id \notin Tokens
    BY DEF TypeOK, Job
  <2>2. jobs' \in {jobs, Append(jobs, j)} /\ UNCHANGED <<credentials, calls, facts, drawn>>
    BY <1>6 DEF DoneObserved, pageVars
  <2> HIDE DEF j
  <2>3. HeldOnce(credentials, calls, Append(jobs, j), facts, drawn)
    BY <1>1, <2>1, HeldJoined
  <2> QED
    BY <1>1, <2>2, <2>3
<1>7. ASSUME ConsentChanges
      PROVE  HeldOnce(credentials', calls', jobs', facts', drawn')
  <2>1. PICK k \in OfConsent : jobs' = Append(jobs, [kind |-> k, id |-> "consent", epoch |-> 0, era |-> era])
    BY <1>7 DEF ConsentChanges, OfConsent
  <2> DEFINE j == [kind |-> k, id |-> "consent", epoch |-> 0, era |-> era]
  <2>2. j \in Job /\ j.id \notin Tokens
    BY DEF TypeOK, Job, OfConsent
  <2>3. jobs' = Append(jobs, j) /\ credentials' = {} /\ UNCHANGED <<calls, facts, drawn>>
    BY <1>7, <2>1 DEF ConsentChanges, Revoke
  <2> HIDE DEF j
  <2>4. HeldOnce(credentials, calls, Append(jobs, j), facts, drawn)
    BY <1>1, <2>2, HeldJoined
  <2>5. HeldOnce({}, calls, Append(jobs, j), facts, drawn)
    BY <2>4, HeldLess
  <2> QED
    BY <2>3, <2>5
<1>8. ASSUME JobSteps
      PROVE  HeldOnce(credentials', calls', jobs', facts', drawn')
  <2>1. UNCHANGED <<credentials, calls, drawn>>
    BY <1>8 DEF JobSteps, JobTakesPage, JobTakesCommand, JobLearnsOwner, JobPuts, JobWithdraws, JobGrants,
       pageVars
  <2>2. HeadGoesOn \/ HeadEnds
    BY <1>8, JobsMove
  <2>3. CASE HeadGoesOn
    BY <1>1, <2>1, <2>3 DEF HeadGoesOn
  <2>4. CASE HeadEnds
    <3>1. jobs # <<>> /\ jobs' = Tail(jobs)
      BY <2>4 DEF HeadEnds, JobOver
    <3>2. facts' = {} \/ facts' = facts \/ \E f : f.id = Head(jobs).id /\ facts' = facts \cup {f}
      BY <2>4 DEF HeadEnds, FactEnds, WithdrawalErases, WithdrawalKeeps, GrantEnds
    <3> QED
      BY <1>1, <2>1, <3>1, <3>2, HeldDropped
  <2> QED
    BY <2>2, <2>3, <2>4
<1>9. CASE credentials' \subseteq credentials /\ UNCHANGED <<calls, drawn, jobs, facts>>
  BY <1>1, <1>9, HeldLess
<1>10. ASSUME NEW p \in Peers, Released(p)
       PROVE  credentials' \subseteq credentials /\ UNCHANGED <<calls, drawn, jobs, facts>>
  BY <1>10 DEF Released, jobVars
<1>11. ASSUME NEW c \in Commands, RunObserved(c) \/ HandlerCalled(c)
       PROVE  credentials' \subseteq credentials /\ UNCHANGED <<calls, drawn, jobs, facts>>
  BY <1>11 DEF RunObserved, HandlerCalled, pageVars, jobVars
<1>12. ASSUME NEW s, SessionDisposed(s)
       PROVE  credentials' \subseteq credentials /\ UNCHANGED <<calls, drawn, jobs, facts>>
  BY <1>12 DEF SessionDisposed, pageVars, jobVars
<1>13. ASSUME ConsentChangesUnseen \/ CoreChanges \/ Tick \/ Close \/ LetsGo \/ UNCHANGED vars
       PROVE  credentials' \subseteq credentials /\ UNCHANGED <<calls, drawn, jobs, facts>>
  BY <1>13 DEF ConsentChangesUnseen, CoreChanges, Revoke, Tick, Close, LetsGo, vars, pageVars, jobVars
<1>14. CASE UNCHANGED vars
  BY <1>9, <1>13, <1>14
<1>15. CASE Next
  <2>1. CASE \E p \in Peers : IssueCalled(p) \/ Released(p)
    BY <1>2, <1>9, <1>10, <2>1
  <2>2. CASE \E c \in calls : IssueAnswered(c) \/ PresentedAnswered(c)
    BY <1>3, <1>5, <2>2
  <2>3. CASE \E p \in credentials : PresentedCalled(p)
    BY <1>4, <2>3
  <2>4. CASE \E c \in Commands : RunObserved(c) \/ HandlerCalled(c) \/ DoneObserved(c)
    BY <1>6, <1>9, <1>11, <2>4
  <2>5. CASE \E s \in {SessionOf[c] : c \in Commands} : SessionDisposed(s)
    BY <1>9, <1>12, <2>5
  <2>6. CASE JobSteps
    BY <1>8, <2>6
  <2>7. CASE ConsentChanges
    BY <1>7, <2>7
  <2>8. CASE ConsentChangesUnseen \/ CoreChanges \/ Tick \/ Close \/ LetsGo
    BY <1>9, <1>13, <2>8
  <2> QED
    BY <1>15, <2>1, <2>2, <2>3, <2>4, <2>5, <2>6, <2>7, <2>8, Zenon DEF Next, JobSteps
<1> QED
  BY <1>14, <1>15

----------------------------------------------------------------------------
(* The theorems *)

LEMMA InitInv == Init => Inv
<1> SUFFICES ASSUME Init PROVE Inv
  OBVIOUS
<1>1. PICK load \in Loads :
        /\ choice = load.choice /\ marker = load.marker
        /\ drawn = Tokens \ load.tokens
        /\ command = [c \in Commands |-> IF c \in load.commands THEN "new" ELSE "over"]
  BY DEF Init
<1>2. TypeOK
  <2>1. drawn \subseteq Tokens /\ command \in [Commands -> {"new", "run", "handled", "over"}]
    BY <1>1
  <2>2. 0 \in 0..MaxClock /\ 0 \in Stamps /\ <<>> \in Seq(Job)
    BY DEF Stamps
  <2>3. choice \in {"granted", "withheld"} /\ marker \in BOOLEAN
    BY <1>1
  <2> QED
    BY <2>1, <2>2, <2>3 DEF Init, TypeOK
<1>3. era <= epoch /\ CallsOK /\ CredentialsOK /\ TokensOK
  BY DEF Init, CallsOK, CredentialsOK, TokensOK, HeldOnce
<1>5. JobsOK
  <2>1. HeadOK /\ Fresh(jobs, era) /\ Stamped(jobs, facts, era, erased) /\ Kept(jobs, facts, era)
    BY DEF Init, HeadOK, Fresh, Stamped, Kept
  <2>2. lapsed \/ ~(marker /\ Heard)
    BY DEF Init, Heard
  <2>3. jobs = <<>> /\ Len(jobs) = 0
    BY DEF Init
  <2>4. lapsed \/ Alternates(jobs, marker, Heard)
    BY <2>2, <2>3 DEF Alternates
  <2> QED
    BY <2>1, <2>4 DEF JobsOK
<1>4. CountOK
  <2>1. Tabled = {}
    BY <1>1 DEF Tabled
  <2> QED
    BY <2>1, FS_EmptySet DEF Init, CountOK
<1> QED
  BY <1>2, <1>3, <1>4, <1>5 DEF Inv

LEMMA StepInv == Inv /\ [Next]_vars => Inv'
BY TypeKeeps, PermitsKeep, JobsKeep, CountKeeps, TokensKeep DEF Inv, JobsOK

\* The inductive invariant holds in every reachable state.
THEOREM Invariance == Spec => []Inv
<1> QED
  BY InitInv, StepInv, PTL DEF Spec

\* Consent and permits, calls, tables, jobs and facts are of their types.
THEOREM TypeCorrect == Spec => []TypeOK
<1>1. Inv => TypeOK
  BY DEF Inv
<1> QED
  BY <1>1, Invariance, PTL

\* No permit outlives the consent and the Core it was asked for under
\* (page-facts.js issue, revoke).
THEOREM PermitsEndWithConsent == Spec => []PermitsFollowConsent
<1>1. Inv => PermitsFollowConsent
  BY DEF Inv, CredentialsOK, PermitsFollowConsent
<1> QED
  BY <1>1, Invariance, PTL

\* What a withdrawal erased is not recorded again; and when the queued ones are
\* done, no fact is left from before the last one, whatever was under way when
\* it was made, unless a withdrawal was not written or stayed recorded under
\* consent (mount.js jobs, upload.js withdraw and grant).
THEOREM WithdrawalForgets == Spec => []NothingFromBeforeWithdrawal
<1>1. Inv => NothingFromBeforeWithdrawal
  BY DEF Inv, JobsOK, Stamped, Kept, NothingFromBeforeWithdrawal
<1> QED
  BY <1>1, Invariance, PTL

\* The counter of the command tables is their size (command-facts.js).
THEOREM CounterIsExact == Spec => []CountsPending
<1>1. Inv => CountsPending
  BY DEF Inv, CountOK, CountsPending
<1> QED
  BY <1>1, Invariance, PTL

(* A set of which all members are one has one or none. *)
LEMMA AtMostOne ==
  ASSUME NEW S, \A x, y \in S : x = y
  PROVE  Cardinality(S) = IF S = {} THEN 0 ELSE 1
<1>1. CASE S = {}
  BY <1>1, FS_EmptySet
<1>2. CASE S # {}
  <2>1. PICK x \in S : S = {x}
    BY <1>2
  <2> QED
    BY <1>2, <2>1, FS_Singleton
<1> QED
  BY <1>1, <1>2

\* A credential counts once, however it is presented (page-facts.js presented).
THEOREM CredentialsCountOnce == Spec => []SingleUse
<1>1. ASSUME Inv PROVE SingleUse
  <2>1. HeldOnce(credentials, calls, jobs, facts, drawn)
    BY <1>1 DEF Inv, TokensOK
  <2>2. ASSUME NEW t \in Tokens
        PROVE  Cardinality({p \in credentials : p.token = t})
                 + Cardinality({c \in calls : c.permit.token = t})
                 + Cardinality({i \in DOMAIN jobs : jobs[i].id = t})
                 + Cardinality({f \in facts : f.id = t}) <= 1
    <3> DEFINE C == {p \in credentials : p.token = t}
               K == {c \in calls : c.permit.token = t}
               Q == {i \in DOMAIN jobs : jobs[i].id = t}
               F == {f \in facts : f.id = t}
    <3>1. /\ \A x, y \in C : x = y
          /\ \A x, y \in K : x = y
          /\ \A x, y \in Q : x = y
          /\ \A x, y \in F : x = y
      BY <2>1 DEF HeldOnce
    <3>2. /\ C = {} \/ (K = {} /\ Q = {} /\ F = {})
          /\ K = {} \/ (Q = {} /\ F = {})
          /\ Q = {} \/ F = {}
      BY <2>1 DEF HeldOnce
    <3> HIDE DEF C, K, Q, F
    <3>3. /\ Cardinality(C) = IF C = {} THEN 0 ELSE 1
          /\ Cardinality(K) = IF K = {} THEN 0 ELSE 1
          /\ Cardinality(Q) = IF Q = {} THEN 0 ELSE 1
          /\ Cardinality(F) = IF F = {} THEN 0 ELSE 1
      BY <3>1, AtMostOne
    <3>4. Cardinality(C) + Cardinality(K) + Cardinality(Q) + Cardinality(F) <= 1
      BY <3>2, <3>3
    <3> QED
      BY <3>4 DEF C, K, Q, F
  <2> QED
    BY <2>2 DEF SingleUse
<1>2. Inv => SingleUse
  BY <1>1
<1> QED
  BY <1>2, Invariance, PTL

----------------------------------------------------------------------------
(* The composition implements the Host *)

\* A claim is a call of issue, or leaves the Host alone.
LEMMA ChecksDriveHost ==
  ASSUME NEW v \in Pages, NEW r, Checks(v, r)
  PROVE  IssueCalled(Browser) \/ UNCHANGED vars
BY DEF Checks, Claims, Set, Host

\* Every step of the composition is a step of the Host, or leaves it alone.
LEMMA StepDrivesHost == [PageNext]_<<vars, pageClient>> => [Next]_vars
<1> SUFFICES ASSUME [PageNext]_<<vars, pageClient>>
             PROVE  Next \/ UNCHANGED vars
  OBVIOUS
<1>1. IssueCalled(Browser) => Next
  BY BrowserAssumption DEF Next
<1>2. CASE HostSteps
  BY <1>2, Zenon DEF HostSteps, Next
<1>3. CASE ClientChanges
  BY <1>3 DEF ClientChanges, Host
<1>4. ASSUME NEW v \in Pages, EffectRuns(v) \/ EffectEnds(v) \/ BodyAppears(v)
      PROVE  Next \/ UNCHANGED vars
  <2>1. EffectEnds(v) => UNCHANGED vars
    BY DEF EffectEnds, Host
  <2>2. EffectRuns(v) => IssueCalled(Browser) \/ UNCHANGED vars
    BY ChecksDriveHost DEF EffectRuns
  <2>3. BodyAppears(v) => IssueCalled(Browser) \/ UNCHANGED vars
    BY ChecksDriveHost DEF BodyAppears
  <2> QED
    BY <1>1, <1>4, <2>1, <2>2, <2>3
<1>5. ASSUME NEW v \in Pages, Presents(v)
      PROVE  Next \/ UNCHANGED vars
  <2>1. (\E p \in credentials : PresentedCalled(p)) \/ UNCHANGED vars
    BY <1>5 DEF Presents, Host
  <2> QED
    BY <2>1, Zenon DEF Next
<1>6. ASSUME NEW v \in Pages, NEW c \in calls, ClaimAnswered(v, c)
      PROVE  Next \/ UNCHANGED vars
  BY <1>6, Zenon DEF ClaimAnswered, Next
<1>7. CASE UNCHANGED <<vars, pageClient>>
  BY <1>7
<1> QED
  BY <1>2, <1>3, <1>4, <1>5, <1>6, <1>7, Zenon DEF PageNext

\* Whatever browsers do, the Host behaves as FactSources says.
THEOREM ClientDrivesHost == PageSpec => Spec
<1>1. PageInit => Init
  BY DEF PageInit
<1> QED
  BY <1>1, StepDrivesHost, PTL DEF PageSpec, Spec

----------------------------------------------------------------------------
(* One open per page *)

Page == [live : BOOLEAN, checked : BOOLEAN, body : BOOLEAN,
         claim : {"none", "asked", "issued", "refused"},
         tokens : SUBSET Tokens, sent : BOOLEAN]

\* A component that has not asked has no credential, and none has two.
ClaimedOnce(r) ==
  /\ r.claim = "none" => r.tokens = {}
  /\ \A s, t \in r.tokens : s = t
PagesOK == page \in [Pages -> Page] /\ \A v \in Pages : ClaimedOnce(page[v])

\* A checked component is claimed once.
LEMMA ChecksClaimOnce ==
  ASSUME PagesOK, TypeOK, NEW v \in Pages, NEW r \in Page, ClaimedOnce(r), Checks(v, r)
  PROVE  \E n \in Page : page' = [page EXCEPT ![v] = n] /\ ClaimedOnce(n)
<1>1. CASE page' = [page EXCEPT ![v] = r]
  BY <1>1
<1>2. ASSUME NEW n, n = [r EXCEPT !.checked = TRUE], Claims(v, n)
      PROVE  \E m \in Page : page' = [page EXCEPT ![v] = m] /\ ClaimedOnce(m)
  <2>1. n \in Page /\ ClaimedOnce(n)
    BY <1>2 DEF Page, ClaimedOnce
  <2>2. CASE Set(v, n)
    BY <2>1, <2>2 DEF Set
  <2>3. CASE /\ n.claim = "none" /\ IssueCalled(Browser)
             /\ Set(v, [n EXCEPT !.claim = "asked", !.tokens = @ \union (drawn' \ drawn)])
    <3>1. PICK t \in Tokens \ drawn : drawn' = drawn \cup {t}
      BY <2>3 DEF IssueCalled
    <3>2. drawn' \ drawn = {t} /\ n.tokens = {}
      BY <2>1, <2>3, <3>1 DEF ClaimedOnce
    <3> DEFINE m == [n EXCEPT !.claim = "asked", !.tokens = {t}]
    <3>3. m \in Page /\ ClaimedOnce(m) /\ page' = [page EXCEPT ![v] = m]
      BY <2>1, <2>3, <3>2 DEF Page, ClaimedOnce, Set
    <3> QED
      BY <3>3
  <2>4. CASE n.claim = "none" /\ Set(v, [n EXCEPT !.claim = "refused"])
    <3> DEFINE m == [n EXCEPT !.claim = "refused"]
    <3>1. m \in Page /\ ClaimedOnce(m) /\ page' = [page EXCEPT ![v] = m]
      BY <2>1, <2>4 DEF Page, ClaimedOnce, Set
    <3> QED
      BY <3>1
  <2> QED
    BY <1>2, <2>2, <2>3, <2>4 DEF Claims
<1> QED
  BY <1>1, <1>2 DEF Checks, Set

LEMMA PagesKeep == PagesOK /\ TypeOK /\ [PageNext]_<<vars, pageClient>> => PagesOK'
<1> SUFFICES ASSUME PagesOK, TypeOK, [PageNext]_<<vars, pageClient>>
             PROVE  PagesOK'
  OBVIOUS
<1>1. ASSUME UNCHANGED page PROVE PagesOK'
  BY <1>1 DEF PagesOK
<1>2. ASSUME NEW v \in Pages, NEW n \in Page, page' = [page EXCEPT ![v] = n], ClaimedOnce(n)
      PROVE  PagesOK'
  BY <1>2 DEF PagesOK
<1>3. ASSUME NEW v \in Pages, EffectRuns(v) \/ BodyAppears(v)
      PROVE  PagesOK'
  <2>1. PICK r \in Page : Checks(v, r) /\ ClaimedOnce(r)
    <3>1. page[v] \in Page /\ ClaimedOnce(page[v])
      BY DEF PagesOK
    <3>2. /\ [page[v] EXCEPT !.live = TRUE, !.checked = FALSE] \in Page
          /\ ClaimedOnce([page[v] EXCEPT !.live = TRUE, !.checked = FALSE])
      BY <3>1 DEF Page, ClaimedOnce
    <3>3. [page[v] EXCEPT !.body = TRUE] \in Page /\ ClaimedOnce([page[v] EXCEPT !.body = TRUE])
      BY <3>1 DEF Page, ClaimedOnce
    <3> QED
      BY <1>3, <3>2, <3>3 DEF EffectRuns, BodyAppears
  <2> QED
    BY <1>2, <2>1, ChecksClaimOnce
<1>4. ASSUME NEW v \in Pages, EffectEnds(v)
      PROVE  PagesOK'
  <2> DEFINE n == [page[v] EXCEPT !.live = FALSE, !.checked = FALSE]
  <2>1. page[v] \in Page /\ ClaimedOnce(page[v])
    BY DEF PagesOK
  <2>2. n \in Page /\ ClaimedOnce(n)
    BY <2>1 DEF Page, ClaimedOnce
  <2>3. page' = [page EXCEPT ![v] = n]
    BY <1>4 DEF EffectEnds, PagesOK, Page
  <2> QED
    BY <1>2, <2>2, <2>3
<1>5. ASSUME NEW v \in Pages, Presents(v)
      PROVE  PagesOK'
  <2> DEFINE n == [page[v] EXCEPT !.sent = TRUE, !.checked = FALSE]
  <2>1. page[v] \in Page /\ ClaimedOnce(page[v])
    BY DEF PagesOK
  <2>2. n \in Page /\ ClaimedOnce(n)
    BY <2>1 DEF Page, ClaimedOnce
  <2>3. page' = [page EXCEPT ![v] = n]
    BY <1>5 DEF Presents, Set
  <2> QED
    BY <1>2, <2>2, <2>3
<1>6. ASSUME NEW v \in Pages, NEW c \in calls, ClaimAnswered(v, c)
      PROVE  PagesOK'
  <2>1. PICK a \in {"issued", "refused"} : page' = [page EXCEPT ![v].claim = a]
    BY <1>6 DEF ClaimAnswered
  <2> QED
    BY <2>1 DEF PagesOK, Page, ClaimedOnce
<1>7. CASE HostSteps \/ ClientChanges \/ UNCHANGED <<vars, pageClient>>
  BY <1>1, <1>7 DEF HostSteps, ClientChanges, pageClient
<1> QED
  BY <1>3, <1>4, <1>5, <1>6, <1>7, Zenon DEF PageNext

\* However effects are replayed and claims answered late, a shown component is
\* one page open at most.
THEOREM PagesOpenOnce == PageSpec => []OneOpenPerPage
<1>1. PageInit => PagesOK
  BY DEF PageInit, PagesOK, NewPage, Page, ClaimedOnce
<1>2. ASSUME Inv, PagesOK
      PROVE  OneOpenPerPage
  <2> SUFFICES ASSUME NEW v \in Pages
               PROVE  Cardinality({f \in facts : f.id \in page[v].tokens}) <= 1
    BY DEF OneOpenPerPage
  <2> DEFINE S == {f \in facts : f.id \in page[v].tokens}
  <2>1. page[v].tokens \subseteq Tokens /\ ClaimedOnce(page[v])
    BY <1>2 DEF PagesOK, Page
  <2>2. \A f, g \in S : f = g
    BY <1>2, <2>1 DEF ClaimedOnce, Inv, TokensOK, HeldOnce
  <2> HIDE DEF S
  <2>3. Cardinality(S) = IF S = {} THEN 0 ELSE 1
    BY <2>2, AtMostOne
  <2> QED
    BY <2>3 DEF S
<1>3. Inv => TypeOK
  BY DEF Inv
<1> QED
  BY <1>1, <1>2, <1>3, PagesKeep, ClientDrivesHost, Invariance, PTL DEF PageSpec
=============================================================================
