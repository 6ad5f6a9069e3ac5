----------------------- MODULE ProjectLifecycleProofs -----------------------
(***************************************************************************)
(* Proofs about ProjectLifecycle, for any number of calls, documents,      *)
(* activities and revisions; the only assumption is that MaxActivities is  *)
(* a natural number.                                                       *)
(*                                                                         *)
(* IInv is what every behaviour keeps.  Two of the checked properties are  *)
(* about the order of revisions and not inductive: that the authority      *)
(* decides on certified documents needs to know that the replicator writes *)
(* IC_APPROVED only from a revision already in the log (CertifiedOK), and  *)
(* that a call that waits to record its decision has read that status      *)
(* (CallOK); that credits are issued once needs the ledger's own record of *)
(* an activity (IssuedIsVerified, LedgerHasReport, ReportedOnce).          *)
(*                                                                         *)
(* OInv adds what holds of the orderly behaviours, where calls come one at *)
(* a time and none ahead of the replicator: what a call read is still so   *)
(* (CallsFresh), and tables, stage and ledger differ by the one revision   *)
(* the replicator has not applied (StagesOK, PendingOK, LedgerShown).      *)
(***************************************************************************)
EXTENDS ProjectLifecycle, FiniteSetTheorems, TLAPS

Reports == {"APPROVE_MONITORING", "ISSUE"}
AuthorityDecisions == {"APPROVE_PDD_BY_DNA", "REJECT_PDD_BY_DNA"}

\* The activity of the document that revision i names.
ActivityOf(i) == docs[log[i].doc].activity

ActivityType == [version : 1..MaxActivities, state : ActivityStates]
\* What the ledger records: never the two rejections of reports.
Recorded == DOMAIN StageChange \cup {"ISSUE"}
Revision == [tx : Recorded, doc : Nat]
LedgerStates == {"MONITORING_REPORT_VERIFIED", "VERIFICATION_REPORT_VERIFIED"}

RowsOK ==
    /\ docs \in Seq(DocType)
    /\ activities \in Seq(ActivityType)
    /\ log \in Seq(Revision)
    /\ Len(activities) <= MaxActivities
    /\ \A a \in DOMAIN activities : activities[a].version <= a
    /\ replayed \in 0..Len(log)
    /\ orderly \in BOOLEAN
    /\ \A d \in DOMAIN docs :
        /\ docs[d].activity <= Len(activities)
        /\ docs[d].type = "VER" => docs[d].activity # NoActivity

ProjectOK ==
    /\ project = [stage |-> project.stage, activities |-> project.activities]
    /\ project.stage \in Stages
    /\ project.activities \in [DOMAIN project.activities -> LedgerStates]
    /\ DOMAIN project.activities \subseteq DOMAIN activities

Named(i) ==
    /\ log[i].doc \in DOMAIN docs
    /\ log[i].tx \in DOMAIN Decision =>
        docs[log[i].doc].type = Decision[log[i].tx].type
    /\ log[i].tx \in Reports => ActivityOf(i) \in DOMAIN project.activities

NamedOK == \A i \in DOMAIN log : Named(i)

Certified(d) ==
    \E j \in 1..replayed : log[j].tx = "APPROVE_PDD_BY_IC" /\ log[j].doc = d

CertifiedOK ==
    \A d \in DOMAIN docs :
        docs[d].type = "PDD" /\ docs[d].status = "IC_APPROVED" => Certified(d)

ReportedOnce ==
    \A i, j \in DOMAIN log :
        /\ log[i].tx \in Reports
        /\ log[i].tx = log[j].tx
        /\ ActivityOf(i) = ActivityOf(j)
        => i = j

IssuedIsVerified ==
    \A i \in DOMAIN log : log[i].tx = "ISSUE" =>
        /\ project.activities[ActivityOf(i)] = "VERIFICATION_REPORT_VERIFIED"
        /\ \E j \in 1..(i - 1) :
            log[j].tx = "APPROVE_MONITORING" /\ ActivityOf(j) = ActivityOf(i)

LedgerHasReport ==
    \A a \in DOMAIN project.activities : \E i \in DOMAIN log :
        log[i].tx = "APPROVE_MONITORING" /\ ActivityOf(i) = a

LogOK == /\ NamedOK
         /\ ReportedOnce
         /\ IssuedIsVerified
         /\ LedgerHasReport
         /\ AuthorityDecidesOnCertified

CallOK(k) ==
    /\ k.step = "idle" => k = Idle
    /\ k.step \in {"save", "ledger"} => k.tx \in DOMAIN Submission
    /\ k.step = "ledger" => k.doc \in DOMAIN docs
    /\ k.step = "monitoring" =>
        /\ k.activity \in 0..Len(activities)
        /\ k.version \in 1..(k.activity + 1)
        /\ k.activity = NoActivity => k.new
    /\ k.step = "verification" => k.activity \in DOMAIN activities
    /\ k.step = "decide" =>
        /\ k.tx \in DOMAIN Decision
        /\ k.doc \in DOMAIN docs
        /\ docs[k.doc].type = Decision[k.tx].type
        /\ k.tx \in Reports => docs[k.doc].activity \in DOMAIN activities
        /\ k.tx \in AuthorityDecisions => Certified(k.doc)

DataOK == RowsOK /\ ProjectOK /\ CertifiedOK /\ LogOK

CallsOK == DOMAIN call = Calls /\ \A c \in Calls : CallOK(call[c])

IInv == DataOK /\ CallsOK

\* What every step keeps of the tables and of the log.
Grows ==
    /\ Len(docs) <= Len(docs')
    /\ \A d \in DOMAIN docs : /\ docs'[d].type = docs[d].type
                              /\ docs'[d].activity = docs[d].activity
    /\ Len(activities) <= Len(activities')
    /\ Len(log) <= Len(log')
    /\ \A i \in DOMAIN log : log'[i] = log[i]
    /\ replayed <= replayed'

-----------------------------------------------------------------------------
LEMMA DecisionFacts ==
    ASSUME NEW tx \in DOMAIN Decision
    PROVE  /\ Decision[tx].type \in {"INF", "PDD", "VAL", "MON", "VER"}
           /\ Decision[tx].gives \in {Decision[x].gives : x \in DOMAIN Decision}
           /\ Decision[tx].needs \in {"PENDING", "IC_APPROVED"}
           /\ tx \in AuthorityDecisions =>
                Decision[tx].type = "PDD" /\ Decision[tx].needs = "IC_APPROVED"
BY DEF Decision, AuthorityDecisions

LEMMA Tables ==
    /\ DOMAIN Submission = {"CREATE_PROJECT", "UPDATE_PROJECT_DETAILS", "CREATE_PDD",
                            "CREATE_VALIDATION_REPORT"}
    /\ DOMAIN LocalState = {"REJECT_MONITORING", "REJECT_VERIFICATION"}
    /\ DOMAIN Submission \cap DOMAIN Decision = {}
    /\ DOMAIN StageChange = DOMAIN Submission \cup
            (DOMAIN Decision \ {"REJECT_MONITORING", "ISSUE", "REJECT_VERIFICATION"})
    /\ \A tx \in DOMAIN StageChange : StageChange[tx].to \in Stages
    /\ \A tx \in DOMAIN Submission : Submission[tx] \in {"INF", "PDD", "VAL"}
<1>1. DOMAIN Submission = {"CREATE_PROJECT", "UPDATE_PROJECT_DETAILS", "CREATE_PDD",
                            "CREATE_VALIDATION_REPORT"}
  BY DEF Submission
<1>2. /\ DOMAIN LocalState = {"REJECT_MONITORING", "REJECT_VERIFICATION"}
      /\ \A tx \in DOMAIN Submission : Submission[tx] \in {"INF", "PDD", "VAL"}
  BY DEF LocalState, Submission
<1>3. DOMAIN Submission \cap DOMAIN Decision = {}
  BY <1>1 DEF Decision
<1>4. DOMAIN StageChange = DOMAIN Submission \cup
            (DOMAIN Decision \ {"REJECT_MONITORING", "ISSUE", "REJECT_VERIFICATION"})
  BY <1>1 DEF Decision, StageChange
<1>5. \A tx \in DOMAIN StageChange : StageChange[tx].to \in Stages
  BY DEF Stages
<1> QED
  BY <1>1, <1>2, <1>3, <1>4, <1>5

\* A call keeps what it knows while the tables and the log only grow.
LEMMA CallStays ==
    ASSUME RowsOK, RowsOK', Grows, NEW k, CallOK(k)
    PROVE  CallOK(k)'
<1>1. /\ DOMAIN docs \subseteq DOMAIN docs' /\ Len(activities) \in Nat
      /\ Len(activities') \in Nat /\ DOMAIN activities \subseteq DOMAIN activities'
      /\ 1..replayed \subseteq DOMAIN log /\ 1..replayed \subseteq 1..replayed'
  BY DEF RowsOK, Grows
<1>2. ASSUME NEW d, Certified(d) PROVE Certified(d)'
  BY <1>1, <1>2 DEF Certified, Grows
<1> QED
  BY <1>1, <1>2 DEF CallOK, Grows

\* A step that changes what one call holds.
LEMMA OneCall ==
    ASSUME IInv, DataOK', Grows, NEW c \in Calls, NEW k, CallOK(k)',
           call' = [call EXCEPT ![c] = k]
    PROVE  IInv'
BY CallStays DEF IInv, CallsOK, DataOK

LEMMA NoCall ==
    ASSUME IInv, DataOK', Grows, UNCHANGED call
    PROVE  IInv'
BY CallStays DEF IInv, CallsOK, DataOK

LEMMA IdleOK == CallOK(Idle)'
BY DEF CallOK, Idle

\* A step that only changes what calls hold in memory.
LEMMA DataStays ==
    ASSUME DataOK, UNCHANGED <<docs, activities, project, log, replayed>>,
           orderly' \in BOOLEAN
    PROVE  DataOK' /\ Grows
<1>1. RowsOK'
  BY DEF DataOK, RowsOK
<1>2. ProjectOK' /\ CertifiedOK'
  BY DEF DataOK, ProjectOK, CertifiedOK, Certified
<1>3. NamedOK' /\ ReportedOnce' /\ IssuedIsVerified' /\ LedgerHasReport'
  BY DEF DataOK, LogOK, NamedOK, Named, ActivityOf, ReportedOnce, IssuedIsVerified,
         LedgerHasReport
<1>4. AuthorityDecidesOnCertified'
  BY DEF DataOK, LogOK, AuthorityDecidesOnCertified, Decided
<1>5. Grows
  BY DEF DataOK, RowsOK, Grows
<1> QED
  BY <1>1, <1>2, <1>3, <1>4, <1>5 DEF DataOK, LogOK

\* The log stays right while documents keep type and activity.
LEMMA LogStays ==
    ASSUME DataOK, RowsOK', Grows, UNCHANGED <<project, log>>
    PROVE  ProjectOK' /\ LogOK'
<1>1. /\ DOMAIN docs \subseteq DOMAIN docs' /\ DOMAIN activities \subseteq DOMAIN activities'
  BY DEF DataOK, RowsOK, Grows
<1>2. \A i \in DOMAIN log : log[i].doc \in DOMAIN docs /\ ActivityOf(i)' = ActivityOf(i)
  BY DEF DataOK, LogOK, NamedOK, Named, ActivityOf, Grows
<1>3. ProjectOK'
  BY <1>1 DEF DataOK, ProjectOK
<1>4. NamedOK'
  <2> SUFFICES ASSUME NEW i \in DOMAIN log PROVE Named(i)'
    BY DEF NamedOK
  <2>1. Named(i) /\ docs'[log[i].doc].type = docs[log[i].doc].type
    BY <1>2 DEF DataOK, LogOK, NamedOK, Grows
  <2> QED
    BY <1>1, <1>2, <2>1 DEF Named
<1>5. ReportedOnce' /\ LedgerHasReport'
  BY <1>2 DEF DataOK, LogOK, ReportedOnce, LedgerHasReport
<1>6. IssuedIsVerified'
  <2> SUFFICES ASSUME NEW i \in DOMAIN log, log[i].tx = "ISSUE"
               PROVE  /\ project.activities[ActivityOf(i)'] = "VERIFICATION_REPORT_VERIFIED"
                      /\ \E j \in 1..(i - 1) : /\ log[j].tx = "APPROVE_MONITORING"
                                               /\ ActivityOf(j)' = ActivityOf(i)'
    BY DEF IssuedIsVerified
  <2>1. PICK j \in 1..(i - 1) : log[j].tx = "APPROVE_MONITORING" /\ ActivityOf(j) = ActivityOf(i)
    BY DEF DataOK, LogOK, IssuedIsVerified
  <2>2. j \in DOMAIN log
    BY DEF DataOK, RowsOK
  <2>3. project.activities[ActivityOf(i)] = "VERIFICATION_REPORT_VERIFIED"
    BY DEF DataOK, LogOK, IssuedIsVerified
  <2> QED
    BY <1>2, <2>1, <2>2, <2>3
<1>7. AuthorityDecidesOnCertified'
  BY DEF DataOK, LogOK, AuthorityDecidesOnCertified, Decided
<1> QED
  BY <1>3, <1>4, <1>5, <1>6, <1>7 DEF LogOK

-----------------------------------------------------------------------------
(* The tables of the operational database.                                 *)

ActivitiesGrow ==
    /\ activities' \in Seq(ActivityType)
    /\ Len(activities) <= Len(activities')
    /\ Len(activities') <= MaxActivities
    /\ \A a \in DOMAIN activities' : activities'[a].version <= a

LEMMA ActivitySet ==
    ASSUME RowsOK, NEW a \in DOMAIN activities, NEW s \in ActivityStates,
           activities' = [activities EXCEPT ![a].state = s]
    PROVE  ActivitiesGrow
<1> DEFINE row == [activities[a] EXCEPT !.state = s]
<1>1. activities \in Seq(ActivityType) /\ activities[a] \in ActivityType
  BY DEF RowsOK
<1>2. row \in ActivityType /\ row.version = activities[a].version
  BY <1>1 DEF ActivityType
<1>3. activities' = [activities EXCEPT ![a] = row]
  OBVIOUS
<1> HIDE DEF row
<1>4. activities' \in Seq(ActivityType) /\ Len(activities') = Len(activities)
  BY <1>1, <1>2, <1>3
<1>5. \A b \in DOMAIN activities' : activities'[b].version = activities[b].version
  BY <1>1, <1>2, <1>3
<1> QED
  BY <1>1, <1>4, <1>5 DEF RowsOK, ActivitiesGrow

LEMMA ActivitiesStay ==
    ASSUME RowsOK, UNCHANGED activities
    PROVE  ActivitiesGrow
BY DEF RowsOK, ActivitiesGrow

LEMMA ActivityAdded ==
    ASSUME RowsOK, NEW v \in 1..(Len(activities) + 1), NEW s \in ActivityStates,
           Len(activities) < MaxActivities,
           activities' = Append(activities, [version |-> v, state |-> s])
    PROVE  ActivitiesGrow /\ Len(activities') = Len(activities) + 1
<1> DEFINE row == [version |-> v, state |-> s]
<1>1. activities \in Seq(ActivityType) /\ Len(activities) \in Nat
  BY DEF RowsOK
<1>2. row \in ActivityType
  BY <1>1, LifecycleAssumption DEF ActivityType
<1>3. row.version <= Len(activities) + 1
  BY <1>1
<1>4. activities' = Append(activities, row)
  OBVIOUS
<1> HIDE DEF row
<1>5. activities' \in Seq(ActivityType) /\ Len(activities') = Len(activities) + 1
  BY <1>1, <1>2, <1>4
<1>6. \A a \in DOMAIN activities' : activities'[a].version <= a
  BY <1>1, <1>2, <1>3, <1>4, <1>5 DEF RowsOK, ActivityType
<1> QED
  BY <1>1, <1>5, <1>6, LifecycleAssumption DEF RowsOK, ActivitiesGrow

LEMMA DocFacts ==
    ASSUME RowsOK, NEW d \in DOMAIN docs
    PROVE  docs[d] \in DocType /\ docs[d].activity \in 0..Len(activities)
<1>1. docs[d] \in DocType
  BY DEF RowsOK
<1>2. docs[d].activity \in Nat
  BY <1>1, LifecycleAssumption DEF DocType
<1> QED
  BY <1>1, <1>2 DEF RowsOK

LEMMA DocAdded ==
    ASSUME DataOK, ActivitiesGrow, NEW t \in {"INF", "PDD", "VAL", "MON", "VER"},
           NEW a \in 0..Len(activities'), t = "VER" => a # NoActivity,
           docs' = Append(docs, Doc(t, a)),
           UNCHANGED <<project, log, replayed>>, orderly' \in BOOLEAN
    PROVE  DataOK' /\ Grows /\ Len(docs') = Len(docs) + 1
<1>1. docs \in Seq(DocType) /\ Len(docs) \in Nat /\ Len(activities) \in Nat
  BY DEF DataOK, RowsOK
<1>2. Len(activities') \in Nat
  BY DEF ActivitiesGrow
<1>3. Doc(t, a) \in DocType
  BY <1>2, LifecycleAssumption DEF Doc, DocType, ActivitiesGrow
<1>4. Doc(t, a).activity = a /\ Doc(t, a).type = t /\ Doc(t, a).status = "PENDING"
  BY DEF Doc
<1>5. /\ docs' \in Seq(DocType) /\ Len(docs') = Len(docs) + 1
      /\ DOMAIN docs' = DOMAIN docs \cup {Len(docs) + 1}
      /\ docs'[Len(docs) + 1] = Doc(t, a)
      /\ \A d \in DOMAIN docs : docs'[d] = docs[d]
  BY <1>1, <1>3
<1>6. \A d \in DOMAIN docs : docs[d].activity \in Nat
  BY DocFacts DEF DataOK
<1>7. RowsOK'
  BY <1>1, <1>2, <1>4, <1>5, <1>6 DEF DataOK, RowsOK, ActivitiesGrow
<1>8. Grows
  BY <1>1, <1>5 DEF Grows, ActivitiesGrow, DataOK, RowsOK
<1>9. CertifiedOK'
  BY <1>4, <1>5 DEF DataOK, CertifiedOK, Certified
<1> QED
  BY <1>5, <1>7, <1>8, <1>9, LogStays DEF DataOK

LEMMA DocSet ==
    ASSUME DataOK, ActivitiesGrow, NEW d \in DOMAIN docs,
           NEW s \in {"PENDING"} \cup {Decision[tx].gives : tx \in DOMAIN Decision},
           docs' = [docs EXCEPT ![d].status = s],
           replayed' \in 0..Len(log), replayed <= replayed',
           docs[d].type = "PDD" /\ s = "IC_APPROVED" => Certified(d)',
           UNCHANGED <<project, log>>, orderly' \in BOOLEAN
    PROVE  DataOK' /\ Grows
<1> DEFINE row == [docs[d] EXCEPT !.status = s]
<1>1. docs \in Seq(DocType) /\ docs[d] \in DocType /\ Len(docs) \in Nat /\ Len(log) \in Nat
  BY DEF DataOK, RowsOK
<1>2. /\ row \in DocType /\ row.type = docs[d].type
      /\ row.activity = docs[d].activity /\ row.status = s
  BY <1>1 DEF DocType
<1>3. docs' = [docs EXCEPT ![d] = row]
  OBVIOUS
<1> HIDE DEF row
<1>4. /\ docs' \in Seq(DocType) /\ Len(docs') = Len(docs) /\ DOMAIN docs' = DOMAIN docs
      /\ \A e \in DOMAIN docs : /\ docs'[e].type = docs[e].type
                                /\ docs'[e].activity = docs[e].activity
                                /\ e # d => docs'[e] = docs[e]
      /\ docs'[d].status = s
  BY <1>1, <1>2, <1>3
<1>5. \A e \in DOMAIN docs : docs[e].activity \in Nat
  BY DocFacts DEF DataOK
<1>6. RowsOK'
  BY <1>1, <1>4, <1>5 DEF DataOK, RowsOK, ActivitiesGrow
<1>7. Grows
  BY <1>1, <1>4 DEF Grows, ActivitiesGrow, DataOK, RowsOK
<1>8. CertifiedOK'
  <2> SUFFICES ASSUME NEW e \in DOMAIN docs, docs'[e].type = "PDD",
                      docs'[e].status = "IC_APPROVED"
               PROVE  Certified(e)'
    BY <1>4 DEF CertifiedOK
  <2>1. CASE e = d
    BY <2>1, <1>4
  <2>2. CASE e # d
    <3>1. Certified(e)
      BY <2>2, <1>4 DEF DataOK, CertifiedOK
    <3>2. 1..replayed \subseteq 1..replayed'
      BY DEF DataOK, RowsOK
    <3> QED
      BY <3>1, <3>2 DEF Certified
  <2> QED
    BY <2>1, <2>2
<1> QED
  BY <1>6, <1>7, <1>8, LogStays DEF DataOK

-----------------------------------------------------------------------------
(* A new revision of the project.                                          *)

LEMMA LogGrows ==
    ASSUME DataOK, NEW tx \in Recorded,
           NEW d \in DOMAIN docs, Revise(tx, d),
           UNCHANGED <<docs, activities, replayed, orderly>>
    PROVE  /\ RowsOK' /\ Grows /\ CertifiedOK'
           /\ Len(log) \in Nat /\ DOMAIN log = 1..Len(log)
           /\ DOMAIN log' = 1..(Len(log) + 1)
           /\ log'[Len(log) + 1].tx = tx /\ log'[Len(log) + 1].doc = d
           /\ \A i \in DOMAIN log : log'[i] = log[i] /\ ActivityOf(i)' = ActivityOf(i)
           /\ \A i : i = Len(log) + 1 => ActivityOf(i)' = docs[d].activity
<1> DEFINE e == [tx |-> tx, doc |-> d]
<1>1. log \in Seq(Revision) /\ docs \in Seq(DocType) /\ Len(log) \in Nat
  BY DEF DataOK, RowsOK
<1>2. e \in Revision /\ e.tx = tx /\ e.doc = d
  BY <1>1 DEF Revision
<1>3. log' = Append(log, e)
  BY DEF Revise
<1> HIDE DEF e
<1>4. /\ log' \in Seq(Revision) /\ Len(log') = Len(log) + 1
      /\ DOMAIN log = 1..Len(log) /\ DOMAIN log' = 1..(Len(log) + 1)
      /\ log'[Len(log) + 1] = e
      /\ \A i \in DOMAIN log : log'[i] = log[i]
  BY <1>1, <1>2, <1>3
<1>5. RowsOK'
  BY <1>1, <1>4 DEF DataOK, RowsOK
<1>6. Grows
  BY <1>1, <1>4 DEF DataOK, RowsOK, Grows
<1>7. CertifiedOK'
  <2>1. 1..replayed \subseteq DOMAIN log
    BY <1>1 DEF DataOK, RowsOK
  <2>2. \A x : Certified(x) => Certified(x)'
    BY <2>1, <1>4 DEF Certified
  <2> QED
    BY <2>2 DEF DataOK, CertifiedOK
<1>8. /\ \A i \in DOMAIN log : ActivityOf(i)' = ActivityOf(i)
      /\ \A i : i = Len(log) + 1 => ActivityOf(i)' = docs[d].activity
  <2>1. docs' = docs
    OBVIOUS
  <2>2. ASSUME NEW i \in DOMAIN log PROVE ActivityOf(i)' = ActivityOf(i)
    <3>1. log'[i].doc = log[i].doc
      BY <1>4
    <3> QED
      BY <2>1, <3>1 DEF ActivityOf
  <2>3. log'[Len(log) + 1].doc = d
    BY <1>2, <1>4
  <2> QED
    BY <2>1, <2>2, <2>3 DEF ActivityOf
<1> QED
  BY <1>1, <1>2, <1>4, <1>5, <1>6, <1>7, <1>8

\* The order of authority and certifier survives any revision that has it.
LEMMA AuthorityStays ==
    ASSUME DataOK, NEW tx \in Recorded,
           NEW d \in DOMAIN docs, Revise(tx, d),
           UNCHANGED <<docs, activities, replayed, orderly>>,
           tx \in AuthorityDecisions => Certified(d)
    PROVE  AuthorityDecidesOnCertified'
<1> SUFFICES ASSUME NEW i \in DOMAIN log', log'[i].tx \in AuthorityDecisions
             PROVE  \E j \in 1..(i - 1) :
                        log'[j].tx = "APPROVE_PDD_BY_IC" /\ log'[j].doc = log'[i].doc
  BY DEF AuthorityDecidesOnCertified, Decided, AuthorityDecisions
<1>1. replayed \in 0..Len(log)
  BY DEF DataOK, RowsOK
<1>2. CASE i \in DOMAIN log
  <2>1. PICK j \in 1..(i - 1) :
            log[j].tx = "APPROVE_PDD_BY_IC" /\ log[j].doc = log[i].doc
    BY <1>2, LogGrows
       DEF DataOK, LogOK, AuthorityDecidesOnCertified, Decided, AuthorityDecisions
  <2>2. j \in DOMAIN log
    BY <1>2, LogGrows
  <2> QED
    BY <1>2, <2>1, <2>2, LogGrows
<1>3. CASE i = Len(log) + 1
  <2>1. PICK j \in 1..replayed : log[j].tx = "APPROVE_PDD_BY_IC" /\ log[j].doc = d
    BY <1>3, LogGrows DEF Certified
  <2>2. j \in DOMAIN log /\ j \in 1..(i - 1)
    BY <1>1, <1>3, LogGrows
  <2> QED
    BY <1>3, <2>1, <2>2, LogGrows
<1> QED
  BY <1>2, <1>3, LogGrows

LEMMA StageRevised ==
    ASSUME DataOK, NEW tx \in Recorded, tx \notin Reports,
           NEW d \in DOMAIN docs, Revise(tx, d),
           NEW s \in Stages, project' = [project EXCEPT !.stage = s],
           UNCHANGED <<docs, activities, replayed, orderly>>,
           tx \in DOMAIN Decision => docs[d].type = Decision[tx].type,
           tx \in AuthorityDecisions => Certified(d)
    PROVE  DataOK' /\ Grows
<1>1. /\ project'.stage = s /\ project'.activities = project.activities
      /\ project' = [stage |-> project'.stage, activities |-> project'.activities]
  BY DEF DataOK, ProjectOK
<1>2. ProjectOK'
  BY <1>1 DEF DataOK, ProjectOK
<1>3. NamedOK'
  <2> SUFFICES ASSUME NEW i \in DOMAIN log' PROVE Named(i)'
    BY DEF NamedOK
  <2>1. CASE i \in DOMAIN log
    <3>1. Named(i)
      BY <2>1 DEF DataOK, LogOK, NamedOK
    <3> QED
      BY <3>1, <2>1, <1>1, LogGrows DEF Named
  <2>2. CASE i = Len(log) + 1
    BY <2>2, LogGrows DEF Named
  <2> QED
    BY <2>1, <2>2, LogGrows
<1>4. ReportedOnce'
  BY LogGrows DEF DataOK, LogOK, ReportedOnce
<1>5. IssuedIsVerified'
  <2> SUFFICES ASSUME NEW i \in DOMAIN log', log'[i].tx = "ISSUE"
               PROVE  /\ project.activities[ActivityOf(i)'] = "VERIFICATION_REPORT_VERIFIED"
                      /\ \E j \in 1..(i - 1) : /\ log'[j].tx = "APPROVE_MONITORING"
                                               /\ ActivityOf(j)' = ActivityOf(i)'
    BY <1>1 DEF IssuedIsVerified
  <2>1. i \in DOMAIN log /\ log[i].tx = "ISSUE"
    BY LogGrows DEF Reports
  <2>2. project.activities[ActivityOf(i)] = "VERIFICATION_REPORT_VERIFIED"
    BY <2>1 DEF DataOK, LogOK, IssuedIsVerified
  <2>3. PICK j \in 1..(i - 1) : log[j].tx = "APPROVE_MONITORING" /\ ActivityOf(j) = ActivityOf(i)
    BY <2>1 DEF DataOK, LogOK, IssuedIsVerified
  <2>4. j \in DOMAIN log
    BY <2>1, LogGrows
  <2> QED
    BY <2>1, <2>2, <2>3, <2>4, LogGrows
<1>6. LedgerHasReport'
  <2> SUFFICES ASSUME NEW a \in DOMAIN project.activities
               PROVE  \E i \in DOMAIN log' :
                        log'[i].tx = "APPROVE_MONITORING" /\ ActivityOf(i)' = a
    BY <1>1 DEF LedgerHasReport
  <2>1. PICK i \in DOMAIN log : log[i].tx = "APPROVE_MONITORING" /\ ActivityOf(i) = a
    BY DEF DataOK, LogOK, LedgerHasReport
  <2>2. i \in DOMAIN log'
    BY LogGrows
  <2> QED
    BY <2>1, <2>2, LogGrows
<1> QED
  BY <1>2, <1>3, <1>4, <1>5, <1>6, LogGrows, AuthorityStays DEF DataOK, LogOK

LEMMA MonitoringRevised ==
    ASSUME DataOK, NEW d \in DOMAIN docs, docs[d].type = "MON",
           NEW a \in DOMAIN activities, a = docs[d].activity,
           a \notin DOMAIN project.activities,
           Revise("APPROVE_MONITORING", d),
           project' = [project EXCEPT !.activities =
                        [b \in DOMAIN @ \cup {a} |->
                            IF b = a THEN "MONITORING_REPORT_VERIFIED" ELSE @[b]]],
           UNCHANGED <<docs, activities, replayed, orderly>>
    PROVE  DataOK' /\ Grows
<1> DEFINE tx == "APPROVE_MONITORING"
           f == [b \in DOMAIN project.activities \cup {a} |->
                    IF b = a THEN "MONITORING_REPORT_VERIFIED" ELSE project.activities[b]]
<1>1. /\ tx \in DOMAIN Decision /\ tx \in Reports /\ tx \notin AuthorityDecisions
      /\ tx \in Recorded /\ Decision[tx].type = "MON"
  BY DEF Decision, Reports, AuthorityDecisions, Recorded, StageChange
<1> HIDE DEF tx
<1>2. /\ project'.activities = f /\ project'.stage = project.stage
      /\ project' = [stage |-> project'.stage, activities |-> project'.activities]
  BY DEF DataOK, ProjectOK
<1>3. /\ DOMAIN f = DOMAIN project.activities \cup {a}
      /\ f \in [DOMAIN f -> LedgerStates]
      /\ \A b \in DOMAIN project.activities : f[b] = project.activities[b]
  BY DEF DataOK, ProjectOK, LedgerStates
<1> HIDE DEF f
<1>4. ProjectOK'
  BY <1>2, <1>3 DEF DataOK, ProjectOK
<1>5. /\ RowsOK' /\ Grows /\ CertifiedOK'
      /\ Len(log) \in Nat /\ DOMAIN log = 1..Len(log)
      /\ DOMAIN log' = 1..(Len(log) + 1)
      /\ log'[Len(log) + 1].tx = tx /\ log'[Len(log) + 1].doc = d
      /\ \A i \in DOMAIN log : log'[i] = log[i] /\ ActivityOf(i)' = ActivityOf(i)
      /\ \A i : i = Len(log) + 1 => ActivityOf(i)' = a
  BY <1>1, LogGrows DEF tx
<1>6. NamedOK'
  <2> SUFFICES ASSUME NEW i \in DOMAIN log' PROVE Named(i)'
    BY DEF NamedOK
  <2>1. CASE i \in DOMAIN log
    <3>1. Named(i)
      BY <2>1 DEF DataOK, LogOK, NamedOK
    <3> QED
      BY <3>1, <2>1, <1>2, <1>3, <1>5 DEF Named
  <2>2. CASE i = Len(log) + 1
    <3>1. /\ log'[i].doc = d /\ log'[i].tx = tx /\ docs' = docs
          /\ ActivityOf(i)' = a /\ a \in DOMAIN project'.activities
      BY <2>2, <1>2, <1>3, <1>5
    <3> QED
      BY <3>1, <1>1 DEF Named
  <2> QED
    BY <2>1, <2>2, <1>5
<1>7. \A i \in DOMAIN log : log[i].tx \in Reports => ActivityOf(i) \in DOMAIN project.activities
  BY DEF DataOK, LogOK, NamedOK, Named
<1>8. ReportedOnce'
  <2> SUFFICES ASSUME NEW i \in DOMAIN log', NEW j \in DOMAIN log',
                      log'[i].tx \in Reports, log'[i].tx = log'[j].tx,
                      ActivityOf(i)' = ActivityOf(j)'
               PROVE  i = j
    BY DEF ReportedOnce
  <2>1. CASE i \in DOMAIN log /\ j \in DOMAIN log
    BY <2>1, <1>5 DEF DataOK, LogOK, ReportedOnce
  <2>2. CASE i = Len(log) + 1 /\ j \in DOMAIN log
    BY <2>2, <1>5, <1>7
  <2>3. CASE i \in DOMAIN log /\ j = Len(log) + 1
    BY <2>3, <1>5, <1>7
  <2> QED
    BY <2>1, <2>2, <2>3, <1>5
<1>9. IssuedIsVerified'
  <2> SUFFICES ASSUME NEW i \in DOMAIN log', log'[i].tx = "ISSUE"
               PROVE  /\ f[ActivityOf(i)'] = "VERIFICATION_REPORT_VERIFIED"
                      /\ \E j \in 1..(i - 1) : /\ log'[j].tx = "APPROVE_MONITORING"
                                               /\ ActivityOf(j)' = ActivityOf(i)'
    BY <1>2 DEF IssuedIsVerified
  <2>1. i \in DOMAIN log /\ log[i].tx = "ISSUE"
    BY <1>5 DEF tx
  <2>2. project.activities[ActivityOf(i)] = "VERIFICATION_REPORT_VERIFIED"
    BY <2>1 DEF DataOK, LogOK, IssuedIsVerified
  <2>3. PICK j \in 1..(i - 1) : log[j].tx = "APPROVE_MONITORING" /\ ActivityOf(j) = ActivityOf(i)
    BY <2>1 DEF DataOK, LogOK, IssuedIsVerified
  <2>4. j \in DOMAIN log
    BY <2>1, <1>5
  <2>5. f[ActivityOf(i)] = project.activities[ActivityOf(i)]
    BY <2>1, <1>3, <1>7 DEF Reports
  <2> QED
    BY <2>1, <2>2, <2>3, <2>4, <2>5, <1>5
<1>10. LedgerHasReport'
  <2> SUFFICES ASSUME NEW b \in DOMAIN f
               PROVE  \E i \in DOMAIN log' :
                        log'[i].tx = "APPROVE_MONITORING" /\ ActivityOf(i)' = b
    BY <1>2 DEF LedgerHasReport
  <2>1. CASE b = a
    <3>1. PICK i : i = Len(log) + 1
      OBVIOUS
    <3>2. i \in DOMAIN log' /\ ActivityOf(i)' = b /\ log'[i].tx = "APPROVE_MONITORING"
      BY <2>1, <3>1, <1>5 DEF tx
    <3> QED
      BY <3>2
  <2>2. CASE b \in DOMAIN project.activities
    <3>1. PICK i \in DOMAIN log : log[i].tx = "APPROVE_MONITORING" /\ ActivityOf(i) = b
      BY <2>2 DEF DataOK, LogOK, LedgerHasReport
    <3>2. i \in DOMAIN log'
      BY <1>5
    <3> QED
      BY <3>1, <3>2, <1>5
  <2> QED
    BY <2>1, <2>2, <1>3
<1>11. AuthorityDecidesOnCertified'
  BY <1>1, AuthorityStays DEF tx
<1> QED
  BY <1>4, <1>5, <1>6, <1>8, <1>9, <1>10, <1>11 DEF DataOK, LogOK

LEMMA IssueRevised ==
    ASSUME DataOK, NEW d \in DOMAIN docs, docs[d].type = "VER",
           NEW a \in DOMAIN project.activities, a = docs[d].activity,
           project.activities[a] = "MONITORING_REPORT_VERIFIED",
           Revise("ISSUE", d),
           project' = [project EXCEPT !.activities[a] = "VERIFICATION_REPORT_VERIFIED"],
           UNCHANGED <<docs, activities, replayed, orderly>>
    PROVE  DataOK' /\ Grows
<1> DEFINE tx == "ISSUE"
           f == [project.activities EXCEPT ![a] = "VERIFICATION_REPORT_VERIFIED"]
<1>1. /\ tx \in DOMAIN Decision /\ tx \in Reports /\ tx \notin AuthorityDecisions
      /\ tx \in Recorded /\ Decision[tx].type = "VER"
  BY DEF Decision, Reports, AuthorityDecisions, Recorded
<1> HIDE DEF tx
<1>2. /\ project'.activities = f /\ project'.stage = project.stage
      /\ project' = [stage |-> project'.stage, activities |-> project'.activities]
  BY DEF DataOK, ProjectOK
<1>3. /\ DOMAIN f = DOMAIN project.activities
      /\ f \in [DOMAIN f -> LedgerStates]
      /\ f[a] = "VERIFICATION_REPORT_VERIFIED"
      /\ \A b \in DOMAIN project.activities : b # a => f[b] = project.activities[b]
  BY DEF DataOK, ProjectOK, LedgerStates
<1> HIDE DEF f
<1>4. ProjectOK'
  BY <1>2, <1>3 DEF DataOK, ProjectOK
<1>5. /\ RowsOK' /\ Grows /\ CertifiedOK'
      /\ Len(log) \in Nat /\ DOMAIN log = 1..Len(log)
      /\ DOMAIN log' = 1..(Len(log) + 1)
      /\ log'[Len(log) + 1].tx = tx /\ log'[Len(log) + 1].doc = d
      /\ \A i \in DOMAIN log : log'[i] = log[i] /\ ActivityOf(i)' = ActivityOf(i)
      /\ \A i : i = Len(log) + 1 => ActivityOf(i)' = a
  BY <1>1, LogGrows DEF tx
<1>6. NamedOK'
  <2> SUFFICES ASSUME NEW i \in DOMAIN log' PROVE Named(i)'
    BY DEF NamedOK
  <2>1. CASE i \in DOMAIN log
    <3>1. Named(i)
      BY <2>1 DEF DataOK, LogOK, NamedOK
    <3> QED
      BY <3>1, <2>1, <1>2, <1>3, <1>5 DEF Named
  <2>2. CASE i = Len(log) + 1
    <3>1. /\ log'[i].doc = d /\ log'[i].tx = tx /\ docs' = docs
          /\ ActivityOf(i)' = a /\ a \in DOMAIN project'.activities
      BY <2>2, <1>2, <1>3, <1>5
    <3> QED
      BY <3>1, <1>1 DEF Named
  <2> QED
    BY <2>1, <2>2, <1>5
<1>7. \A i \in DOMAIN log : log[i].tx = "ISSUE" =>
        /\ ActivityOf(i) # a
        /\ f[ActivityOf(i)] = "VERIFICATION_REPORT_VERIFIED"
  <2> SUFFICES ASSUME NEW i \in DOMAIN log, log[i].tx = "ISSUE"
               PROVE  ActivityOf(i) # a /\ f[ActivityOf(i)] = "VERIFICATION_REPORT_VERIFIED"
    OBVIOUS
  <2>1. ActivityOf(i) \in DOMAIN project.activities
    BY DEF DataOK, LogOK, NamedOK, Named, Reports
  <2>2. project.activities[ActivityOf(i)] = "VERIFICATION_REPORT_VERIFIED"
    BY DEF DataOK, LogOK, IssuedIsVerified
  <2> QED
    BY <2>1, <2>2, <1>3
<1>8. ReportedOnce'
  <2> SUFFICES ASSUME NEW i \in DOMAIN log', NEW j \in DOMAIN log',
                      log'[i].tx \in Reports, log'[i].tx = log'[j].tx,
                      ActivityOf(i)' = ActivityOf(j)'
               PROVE  i = j
    BY DEF ReportedOnce
  <2>1. CASE i \in DOMAIN log /\ j \in DOMAIN log
    BY <2>1, <1>5 DEF DataOK, LogOK, ReportedOnce
  <2>2. CASE i = Len(log) + 1 /\ j \in DOMAIN log
    BY <2>2, <1>5, <1>7 DEF tx
  <2>3. CASE i \in DOMAIN log /\ j = Len(log) + 1
    BY <2>3, <1>5, <1>7 DEF tx
  <2> QED
    BY <2>1, <2>2, <2>3, <1>5
<1>9. IssuedIsVerified'
  <2> SUFFICES ASSUME NEW i \in DOMAIN log', log'[i].tx = "ISSUE"
               PROVE  /\ f[ActivityOf(i)'] = "VERIFICATION_REPORT_VERIFIED"
                      /\ \E j \in 1..(i - 1) : /\ log'[j].tx = "APPROVE_MONITORING"
                                               /\ ActivityOf(j)' = ActivityOf(i)'
    BY <1>2 DEF IssuedIsVerified
  <2>1. CASE i \in DOMAIN log
    <3>1. PICK j \in 1..(i - 1) : log[j].tx = "APPROVE_MONITORING" /\ ActivityOf(j) = ActivityOf(i)
      BY <2>1, <1>5 DEF DataOK, LogOK, IssuedIsVerified
    <3>2. j \in DOMAIN log
      BY <2>1, <1>5
    <3> QED
      BY <2>1, <3>1, <3>2, <1>5, <1>7
  <2>2. CASE i = Len(log) + 1
    <3>1. PICK j \in DOMAIN log : log[j].tx = "APPROVE_MONITORING" /\ ActivityOf(j) = a
      BY DEF DataOK, LogOK, LedgerHasReport
    <3>2. j \in 1..(i - 1)
      BY <2>2, <1>5
    <3> QED
      BY <2>2, <3>1, <3>2, <1>3, <1>5
  <2> QED
    BY <2>1, <2>2, <1>5
<1>10. LedgerHasReport'
  <2> SUFFICES ASSUME NEW b \in DOMAIN project.activities
               PROVE  \E i \in DOMAIN log' :
                        log'[i].tx = "APPROVE_MONITORING" /\ ActivityOf(i)' = b
    BY <1>2, <1>3 DEF LedgerHasReport
  <2>1. PICK i \in DOMAIN log : log[i].tx = "APPROVE_MONITORING" /\ ActivityOf(i) = b
    BY DEF DataOK, LogOK, LedgerHasReport
  <2>2. i \in DOMAIN log'
    BY <1>5
  <2> QED
    BY <2>1, <2>2, <1>5
<1>11. AuthorityDecidesOnCertified'
  BY <1>1, AuthorityStays DEF tx
<1> QED
  BY <1>4, <1>5, <1>6, <1>8, <1>9, <1>10, <1>11 DEF DataOK, LogOK

-----------------------------------------------------------------------------
(* The actions.                                                            *)

LEMMA StartSubmissionStep ==
    ASSUME IInv, NEW c \in Calls, NEW tx \in DOMAIN Submission, StartSubmission(c, tx)
    PROVE  IInv'
<1>1. DataOK' /\ Grows
  BY DataStays DEF StartSubmission, IInv, DataOK, RowsOK, Quiet
<1>2. CallOK([step |-> "save", tx |-> tx])'
  BY DEF CallOK
<1> QED
  BY <1>1, <1>2, OneCall DEF StartSubmission

LEMMA SaveDocumentStep ==
    ASSUME IInv, NEW c \in Calls, SaveDocument(c)
    PROVE  IInv'
<1>1. CallOK(call[c]) /\ call[c].step = "save"
  BY DEF IInv, CallsOK, SaveDocument
<1>2. call[c].tx \in DOMAIN Submission /\ Submission[call[c].tx] \in {"INF", "PDD", "VAL"}
  BY <1>1, Tables DEF CallOK
<1>3. /\ docs' = Append(docs, Doc(Submission[call[c].tx], NoActivity))
      /\ UNCHANGED <<activities, project, log, replayed, orderly>>
      /\ call' = [call EXCEPT ![c] = [step |-> "ledger", tx |-> call[c].tx,
                                      doc |-> Len(docs) + 1]]
  BY DEF SaveDocument
<1>4. /\ ActivitiesGrow /\ NoActivity \in 0..Len(activities') /\ orderly' \in BOOLEAN
      /\ docs \in Seq(DocType) /\ DataOK
  BY <1>3, ActivitiesStay DEF IInv, DataOK, RowsOK, NoActivity
<1>5. DataOK' /\ Grows /\ Len(docs') = Len(docs) + 1
  BY <1>2, <1>3, <1>4, DocAdded
<1>6. PICK k : k = [step |-> "ledger", tx |-> call[c].tx, doc |-> Len(docs) + 1]
  OBVIOUS
<1>7. CallOK(k)'
  <2>1. Len(docs) + 1 \in DOMAIN docs'
    BY <1>4, <1>5 DEF DataOK, RowsOK
  <2> QED
    BY <1>2, <1>6, <2>1 DEF CallOK
<1> QED
  BY <1>3, <1>5, <1>6, <1>7, OneCall

LEMMA SubmitStep ==
    ASSUME IInv, NEW c \in Calls, Submit(c)
    PROVE  IInv'
<1>1. CallOK(call[c]) /\ call[c].step = "ledger"
  BY DEF IInv, CallsOK, Submit
<1>2. /\ call[c].tx \in DOMAIN Submission /\ call[c].doc \in DOMAIN docs
      /\ call[c].tx \in Recorded /\ call[c].tx \notin DOMAIN Decision
      /\ call[c].tx \notin Reports /\ call[c].tx \notin AuthorityDecisions
      /\ StageChange[call[c].tx].to \in Stages
  BY <1>1, Tables DEF CallOK, Reports, AuthorityDecisions, Recorded
<1>3. CASE project.stage \in StageChange[call[c].tx].from
  <2>1. /\ project' = [project EXCEPT !.stage = StageChange[call[c].tx].to]
        /\ Revise(call[c].tx, call[c].doc)
        /\ UNCHANGED <<docs, activities, replayed, orderly>>
    BY <1>3 DEF Submit
  <2> QED
    BY <1>2, <2>1, StageRevised, OneCall, IdleOK DEF IInv, Submit
<1>4. CASE project.stage \notin StageChange[call[c].tx].from
  BY <1>4, DataStays, OneCall, IdleOK DEF IInv, DataOK, RowsOK, Submit
<1> QED
  BY <1>3, <1>4

LEMMA StartMonitoringStep ==
    ASSUME IInv, NEW c \in Calls, NEW a \in 0..Len(activities), StartMonitoring(c, a)
    PROVE  IInv'
<1>1. DataOK' /\ Grows
  BY DataStays DEF StartMonitoring, IInv, DataOK, RowsOK, Quiet
<1>2. PICK k : k = [step |-> "monitoring", activity |-> a,
                    version |-> IF a = NoActivity THEN 1 ELSE activities[a].version + 1,
                    new |-> a = NoActivity \/
                        activities[a].state = "VERIFICATION_REPORT_VERIFIED"]
  OBVIOUS
<1>3. k.version \in 1..(a + 1)
  <2>1. a = NoActivity => k.version = 1
    BY <1>2
  <2>2. a # NoActivity => k.version = activities[a].version + 1
    BY <1>2
  <2>3. a # NoActivity => a \in DOMAIN activities /\ activities[a] \in ActivityType
    BY DEF IInv, DataOK, RowsOK, NoActivity
  <2>4. a # NoActivity => activities[a].version \in 1..a
    BY <2>3, LifecycleAssumption DEF IInv, DataOK, RowsOK, ActivityType
  <2> QED
    BY <2>1, <2>2, <2>4 DEF NoActivity
<1>4. k.step = "monitoring" /\ k.activity = a /\ (a = NoActivity => k.new)
  BY <1>2
<1>5. UNCHANGED activities
  BY DEF StartMonitoring
<1>6. CallOK(k)'
  BY <1>3, <1>4, <1>5 DEF CallOK
<1> QED
  BY <1>1, <1>2, <1>6, OneCall DEF StartMonitoring

LEMMA SaveMonitoringStep ==
    ASSUME IInv, NEW c \in Calls, NEW commit \in BOOLEAN, SaveMonitoring(c, commit)
    PROVE  IInv'
<1> DEFINE k == call[c]
           state == "MONITORING_REPORT_UPLOADED"
           a == IF ~k.new THEN k.activity
                ELSE IF commit THEN Len(activities) + 1 ELSE NoActivity
<1>1. CallOK(k) /\ k.step = "monitoring"
  BY DEF IInv, CallsOK, SaveMonitoring
<1>2. /\ k.activity \in 0..Len(activities) /\ k.version \in 1..(Len(activities) + 1)
      /\ ~k.new => k.activity # NoActivity
      /\ Len(activities) \in Nat
  BY <1>1 DEF CallOK, IInv, DataOK, RowsOK
<1>3. /\ docs' = Append(docs, Doc("MON", a))
      /\ k.new => Len(activities) < MaxActivities
      /\ ~commit => activities' = activities
      /\ commit /\ k.new =>
            activities' = Append(activities, [version |-> k.version, state |-> state])
      /\ commit /\ ~k.new => activities' = [activities EXCEPT ![k.activity].state = state]
      /\ UNCHANGED <<project, log, replayed>>
      /\ orderly' \in BOOLEAN
      /\ call' = [call EXCEPT ![c] = Idle]
  BY DEF SaveMonitoring, IInv, DataOK, RowsOK
<1>4. RowsOK /\ DataOK /\ state \in ActivityStates
  BY DEF IInv, DataOK, ActivityStates
<1> HIDE DEF k, state
<1>5. ActivitiesGrow /\ a \in 0..Len(activities')
  <2>1. CASE ~commit
    BY <2>1, <1>2, <1>3, <1>4, ActivitiesStay DEF NoActivity
  <2>2. CASE commit /\ k.new
    BY <2>2, <1>2, <1>3, <1>4, ActivityAdded
  <2>3. CASE commit /\ ~k.new
    <3>1. k.activity \in DOMAIN activities
      BY <2>3, <1>2, <1>4 DEF RowsOK, NoActivity
    <3>2. ActivitiesGrow
      BY <2>3, <3>1, <1>3, <1>4, ActivitySet
    <3> QED
      BY <2>3, <3>1, <3>2, <1>2 DEF ActivitiesGrow
  <2> QED
    BY <2>1, <2>2, <2>3
<1> HIDE DEF a
<1>6. DataOK' /\ Grows
  BY <1>3, <1>4, <1>5, DocAdded
<1> QED
  BY <1>3, <1>6, OneCall, IdleOK

LEMMA StartVerificationStep ==
    ASSUME IInv, NEW c \in Calls, NEW a, StartVerification(c, a)
    PROVE  IInv'
<1>1. DataOK' /\ Grows
  BY DataStays DEF StartVerification, IInv, DataOK, RowsOK, Quiet
<1>2. CallOK([step |-> "verification", activity |-> a])'
  BY DEF CallOK, StartVerification, LastActivities
<1> QED
  BY <1>1, <1>2, OneCall DEF StartVerification

LEMMA SaveVerificationStep ==
    ASSUME IInv, NEW c \in Calls, NEW commit \in BOOLEAN, SaveVerification(c, commit)
    PROVE  IInv'
<1> DEFINE a == call[c].activity
           state == "VERIFICATION_REPORT_UPLOADED"
<1>1. CallOK(call[c]) /\ call[c].step = "verification"
  BY DEF IInv, CallsOK, SaveVerification
<1>2. a \in DOMAIN activities /\ RowsOK /\ DataOK /\ state \in ActivityStates
  BY <1>1 DEF CallOK, IInv, DataOK, ActivityStates
<1>3. /\ docs' = Append(docs, Doc("VER", a))
      /\ ~commit => activities' = activities
      /\ commit => activities' = [activities EXCEPT ![a].state = state]
      /\ UNCHANGED <<project, log, replayed>>
      /\ orderly' \in BOOLEAN
      /\ call' = [call EXCEPT ![c] = Idle]
  BY DEF SaveVerification, IInv, DataOK, RowsOK
<1> HIDE DEF a, state
<1>4. ActivitiesGrow
  BY <1>2, <1>3, ActivitiesStay, ActivitySet
<1>5. a \in 0..Len(activities') /\ a # NoActivity
  BY <1>2, <1>4 DEF ActivitiesGrow, RowsOK, NoActivity
<1>6. DataOK' /\ Grows
  BY <1>2, <1>3, <1>4, <1>5, DocAdded
<1> QED
  BY <1>3, <1>6, OneCall, IdleOK

LEMMA StartDecisionStep ==
    ASSUME IInv, NEW c \in Calls, NEW d \in DOMAIN docs, NEW tx \in DOMAIN Decision,
           StartDecision(c, d, tx)
    PROVE  IInv'
<1>1. DataOK' /\ Grows
  BY DataStays DEF StartDecision, IInv, DataOK, RowsOK, Quiet
<1>2. PICK k : k = [step |-> "decide", tx |-> tx, doc |-> d,
                    state |-> IF docs[d].activity = NoActivity THEN "none"
                              ELSE activities[docs[d].activity].state]
  OBVIOUS
<1>3. k.step = "decide" /\ k.tx = tx /\ k.doc = d
  BY <1>2
<1>4. /\ UNCHANGED <<docs, activities, project, log, replayed>>
      /\ docs[d].type = Decision[tx].type
      /\ docs[d].status = Decision[tx].needs
      /\ docs[d].activity \in DOMAIN activities
            \/ Decision[tx].type \notin {"MON", "VER"} \/ tx \in DOMAIN LocalState
  BY DEF StartDecision
<1>5. tx \in Reports => docs[d].activity \in DOMAIN activities
  <2>1. tx \in Reports => Decision[tx].type \in {"MON", "VER"} /\ tx \notin DOMAIN LocalState
    BY DEF Reports, Decision, LocalState
  <2> QED
    BY <2>1, <1>4
<1>6. tx \in AuthorityDecisions => Certified(d)'
  <2>1. tx \in AuthorityDecisions => Certified(d)
    BY <1>4, DecisionFacts DEF IInv, DataOK, CertifiedOK
  <2> QED
    BY <2>1, <1>4 DEF Certified
<1>7. CallOK(k)'
  BY <1>3, <1>4, <1>5, <1>6 DEF CallOK
<1> QED
  BY <1>1, <1>2, <1>7, OneCall DEF StartDecision

LEMMA RejectLocallyStep ==
    ASSUME IInv, NEW c \in Calls, RejectLocally(c)
    PROVE  IInv'
<1> DEFINE d == call[c].doc
           tx == call[c].tx
           a == docs[d].activity
           s == Decision[tx].gives
           t == LocalState[tx]
<1>1. CallOK(call[c]) /\ call[c].step = "decide"
  BY DEF IInv, CallsOK, RejectLocally
<1>2. d \in DOMAIN docs /\ tx \in DOMAIN Decision /\ RowsOK /\ DataOK
  BY <1>1 DEF CallOK, IInv, DataOK
<1>3. /\ docs' = [docs EXCEPT ![d].status = s]
      /\ a = NoActivity => activities' = activities
      /\ a # NoActivity => activities' = [activities EXCEPT ![a].state = t]
      /\ tx \in DOMAIN LocalState
      /\ UNCHANGED <<project, log, replayed, orderly>>
      /\ call' = [call EXCEPT ![c] = Idle]
  BY DEF RejectLocally
<1>4. s \in {"IC_REJECTED", "DNA_REJECTED"} /\ t \in ActivityStates
  BY <1>3 DEF LocalState, Decision, ActivityStates
<1>5. s \in {"PENDING"} \cup {Decision[x].gives : x \in DOMAIN Decision}
  BY <1>2
<1> HIDE DEF s, t, tx
<1>6. ActivitiesGrow
  <2>1. a # NoActivity => a \in DOMAIN activities
    BY <1>2, DocFacts DEF RowsOK, NoActivity
  <2> QED
    BY <2>1, <1>2, <1>3, <1>4, ActivitiesStay, ActivitySet
<1> HIDE DEF d, a
<1>7. replayed' \in 0..Len(log) /\ replayed <= replayed' /\ orderly' \in BOOLEAN
  BY <1>2, <1>3 DEF RowsOK
<1>8. DataOK' /\ Grows
  BY <1>2, <1>3, <1>4, <1>5, <1>6, <1>7, DocSet
<1> QED
  BY <1>3, <1>8, OneCall, IdleOK

LEMMA DecideStageStep ==
    ASSUME IInv, NEW c \in Calls, DecideStage(c)
    PROVE  IInv'
<1> DEFINE tx == call[c].tx
           d == call[c].doc
<1>1. CallOK(call[c]) /\ call[c].step = "decide"
  BY DEF IInv, CallsOK, DecideStage
<1>2. /\ d \in DOMAIN docs /\ tx \in DOMAIN Decision /\ DataOK
      /\ docs[d].type = Decision[tx].type
      /\ tx \in AuthorityDecisions => Certified(d)
  BY <1>1 DEF CallOK, IInv
<1>3. tx \notin Reports /\ tx \in Recorded /\ StageChange[tx].to \in Stages
  BY Tables DEF DecideStage, Reports, Recorded
<1>4. CASE project.stage \in StageChange[tx].from
  <2>1. /\ project' = [project EXCEPT !.stage = StageChange[tx].to]
        /\ Revise(tx, d)
        /\ UNCHANGED <<docs, activities, replayed, orderly>>
    BY <1>4 DEF DecideStage
  <2>2. DataOK' /\ Grows
    BY <1>2, <1>3, <2>1, StageRevised
  <2> QED
    BY <2>2, OneCall, IdleOK DEF DecideStage
<1>5. CASE project.stage \notin StageChange[tx].from
  <2>1. DataOK' /\ Grows
    BY <1>2, <1>5, DataStays DEF DecideStage, DataOK, RowsOK
  <2> QED
    BY <2>1, OneCall, IdleOK DEF DecideStage
<1> QED
  BY <1>4, <1>5

LEMMA ApproveMonitoringStep ==
    ASSUME IInv, NEW c \in Calls, ApproveMonitoring(c)
    PROVE  IInv'
<1> DEFINE d == call[c].doc
           a == docs[d].activity
<1>1. CallOK(call[c]) /\ call[c].step = "decide" /\ call[c].tx = "APPROVE_MONITORING"
  BY DEF IInv, CallsOK, ApproveMonitoring
<1>2. Decision["APPROVE_MONITORING"].type = "MON"
  BY DEF Decision
<1>3. d \in DOMAIN docs /\ docs[d].type = "MON" /\ a \in DOMAIN activities /\ DataOK
  BY <1>1, <1>2 DEF CallOK, IInv, Reports
<1>4. CASE project.stage = "AUTHORISED" /\ a \notin DOMAIN project.activities
  <2>1. /\ project' = [project EXCEPT !.activities =
                        [b \in DOMAIN @ \cup {a} |->
                            IF b = a THEN "MONITORING_REPORT_VERIFIED" ELSE @[b]]]
        /\ Revise("APPROVE_MONITORING", d)
        /\ UNCHANGED <<docs, activities, replayed, orderly>>
    BY <1>4 DEF ApproveMonitoring
  <2>2. DataOK' /\ Grows
    BY <1>3, <1>4, <2>1, MonitoringRevised
  <2> QED
    BY <2>2, OneCall, IdleOK DEF ApproveMonitoring
<1>5. CASE ~(project.stage = "AUTHORISED" /\ a \notin DOMAIN project.activities)
  <2>1. DataOK' /\ Grows
    BY <1>3, <1>5, DataStays DEF ApproveMonitoring, DataOK, RowsOK
  <2> QED
    BY <2>1, OneCall, IdleOK DEF ApproveMonitoring
<1> QED
  BY <1>4, <1>5

LEMMA IssueStep ==
    ASSUME IInv, NEW c \in Calls, Issue(c)
    PROVE  IInv'
<1> DEFINE d == call[c].doc
           a == docs[d].activity
<1>1. CallOK(call[c]) /\ call[c].step = "decide" /\ call[c].tx = "ISSUE"
  BY DEF IInv, CallsOK, Issue
<1>2. Decision["ISSUE"].type = "VER"
  BY DEF Decision
<1>3. d \in DOMAIN docs /\ docs[d].type = "VER" /\ DataOK
  BY <1>1, <1>2 DEF CallOK, IInv
<1>4. CASE CanIssue(c, a)
  <2>1. /\ project' = [project EXCEPT !.activities[a] = "VERIFICATION_REPORT_VERIFIED"]
        /\ Revise("ISSUE", d)
        /\ UNCHANGED <<docs, activities, replayed, orderly>>
        /\ a \in DOMAIN project.activities
        /\ project.activities[a] = "MONITORING_REPORT_VERIFIED"
    BY <1>4 DEF Issue, CanIssue
  <2>2. DataOK' /\ Grows
    BY <1>3, <2>1, IssueRevised
  <2> QED
    BY <2>2, OneCall, IdleOK DEF Issue
<1>5. CASE ~CanIssue(c, a)
  <2>1. DataOK' /\ Grows
    BY <1>3, <1>5, DataStays DEF Issue, DataOK, RowsOK
  <2> QED
    BY <2>1, OneCall, IdleOK DEF Issue
<1> QED
  BY <1>4, <1>5

LEMMA AbandonStep ==
    ASSUME IInv, NEW c \in Calls, Abandon(c)
    PROVE  IInv'
BY DataStays, OneCall, IdleOK DEF Abandon, IInv, DataOK, RowsOK

\* The replicator applies revision i.
LEMMA ModifyStep ==
    ASSUME IInv, NEW i \in DOMAIN log, Modify(log[i]), replayed' \in 0..Len(log),
           replayed <= replayed', i <= replayed', orderly' \in BOOLEAN,
           UNCHANGED <<project, log, call>>
    PROVE  IInv'
<1>0. PICK d, e, s : e = log[i] /\ d = e.doc /\ s = Decision[e.tx].gives
  OBVIOUS
<1> DEFINE a == docs[d].activity
<1>1. RowsOK /\ DataOK /\ Named(i)
  BY DEF IInv, DataOK, LogOK, NamedOK
<1>2. CASE e.tx \notin DOMAIN Decision
  <2>1. UNCHANGED <<docs, activities>>
    BY <1>0, <1>2 DEF Modify
  <2>2. RowsOK' /\ Grows
    BY <2>1, <1>1 DEF RowsOK, Grows
  <2>3. 1..replayed \subseteq 1..replayed'
    BY <1>1 DEF RowsOK
  <2>4. CertifiedOK'
    BY <1>1, <2>1, <2>3 DEF DataOK, CertifiedOK, Certified
  <2> QED
    BY <1>1, <2>2, <2>4, LogStays, NoCall DEF DataOK
<1>3. CASE e.tx \in DOMAIN Decision
  <2>1. /\ docs' = [docs EXCEPT ![d].status = s]
        /\ e.tx \notin Reports => activities' = activities
        /\ e.tx \in Reports =>
            activities' = [activities EXCEPT ![a].state = ReplicatedState(e.tx)]
    BY <1>0, <1>3 DEF Modify, Reports
  <2>2. /\ d \in DOMAIN docs /\ docs[d].type = Decision[e.tx].type
        /\ e.tx \in Reports => a \in DOMAIN project.activities
    BY <1>0, <1>1, <1>3 DEF Named, ActivityOf
  <2>3. e.tx \in Reports => a \in DOMAIN activities
    BY <2>2, <1>1 DEF DataOK, ProjectOK
  <2>4. ReplicatedState(e.tx) \in ActivityStates
    BY DEF ReplicatedState, ActivityStates
  <2>5. ActivitiesGrow
    BY <2>1, <2>3, <2>4, <1>1, ActivitiesStay, ActivitySet
  <2>6. docs[d].type = "PDD" /\ s = "IC_APPROVED" => Certified(d)'
    <3>1. docs[d].type = "PDD" /\ s = "IC_APPROVED" => e.tx = "APPROVE_PDD_BY_IC"
      BY <1>0, <1>3, <2>2 DEF Decision
    <3>2. i \in 1..replayed'
      BY <1>1 DEF RowsOK
    <3> QED
      BY <1>0, <3>1, <3>2 DEF Certified
  <2>7. s \in {"PENDING"} \cup {Decision[tx].gives : tx \in DOMAIN Decision}
    BY <1>0, <1>3
  <2>8. DataOK' /\ Grows
    BY <1>1, <2>1, <2>2, <2>5, <2>6, <2>7, DocSet
  <2> QED
    BY <2>8, NoCall
<1> QED
  BY <1>2, <1>3

LEMMA ReplicateStep ==
    ASSUME IInv, Replicate
    PROVE  IInv'
<1>1. RowsOK
  BY DEF IInv, DataOK
<1>2. replayed + 1 \in DOMAIN log /\ replayed' = replayed + 1 /\ replayed' \in 0..Len(log)
      /\ replayed <= replayed' /\ orderly' \in BOOLEAN
  BY <1>1 DEF RowsOK, Replicate
<1> QED
  BY <1>2, ModifyStep DEF Replicate

LEMMA ReplicateAgainStep ==
    ASSUME IInv, ReplicateAgain
    PROVE  IInv'
<1>1. RowsOK
  BY DEF IInv, DataOK
<1>0. replayed > 0 /\ replayed' = replayed /\ orderly' \in BOOLEAN
  BY DEF ReplicateAgain
<1>2. replayed \in DOMAIN log /\ replayed \in 0..Len(log) /\ replayed <= replayed'
  <2>1. log \in Seq(Revision) /\ replayed \in 0..Len(log)
    BY <1>1 DEF RowsOK
  <2> QED
    BY <1>0, <2>1
<1>3. Modify(log[replayed]) /\ UNCHANGED <<project, log, call>>
  BY DEF ReplicateAgain
<1>4. PICK i : i = replayed
  OBVIOUS
<1> QED
  BY <1>0, <1>2, <1>3, <1>4, ModifyStep

-----------------------------------------------------------------------------
LEMMA AuthorisedStart ==
    /\ AuthorisedLog \in Seq(Revision) /\ Len(AuthorisedLog) = 7
    /\ \A i \in DOMAIN AuthorisedLog :
        /\ AuthorisedLog[i].doc \in 1..3
        /\ AuthorisedLog[i].tx \notin Reports
        /\ AuthorisedLog[i].tx \in DOMAIN Decision =>
            Decision[AuthorisedLog[i].tx].type =
                IF AuthorisedLog[i].doc = 1 THEN "INF"
                ELSE IF AuthorisedLog[i].doc = 2 THEN "PDD" ELSE "VAL"
        /\ AuthorisedLog[i].tx \in AuthorityDecisions =>
            /\ AuthorisedLog[i].doc = 2 /\ 4 < i
            /\ AuthorisedLog[4].tx = "APPROVE_PDD_BY_IC" /\ AuthorisedLog[4].doc = 2
<1> DEFINE R(tx, d) == [tx |-> tx, doc |-> d]
<1>1. \A tx \in Recorded, d \in 1..3 : R(tx, d) \in Revision
  BY DEF Revision
<1>2. {"CREATE_PROJECT", "APPROVE_INF", "CREATE_PDD", "APPROVE_PDD_BY_IC",
       "APPROVE_PDD_BY_DNA", "CREATE_VALIDATION_REPORT", "APPROVE_VALIDATION"}
            \subseteq Recorded
  BY DEF StageChange, Recorded
<1>3. AuthorisedLog = <<R("CREATE_PROJECT", 1), R("APPROVE_INF", 1), R("CREATE_PDD", 2),
                        R("APPROVE_PDD_BY_IC", 2), R("APPROVE_PDD_BY_DNA", 2),
                        R("CREATE_VALIDATION_REPORT", 3), R("APPROVE_VALIDATION", 3)>>
  BY DEF AuthorisedLog
<1>4. \A tx, d : R(tx, d).tx = tx /\ R(tx, d).doc = d
  OBVIOUS
<1>5. /\ Decision["APPROVE_INF"].type = "INF"
      /\ Decision["APPROVE_PDD_BY_IC"].type = "PDD"
      /\ Decision["APPROVE_PDD_BY_DNA"].type = "PDD"
      /\ Decision["APPROVE_VALIDATION"].type = "VAL"
  BY DEF Decision
<1> HIDE DEF R
<1>6. AuthorisedLog \in Seq(Revision) /\ Len(AuthorisedLog) = 7
  BY <1>1, <1>2, <1>3
<1>7. DOMAIN AuthorisedLog = 1..7
  BY <1>6
<1> QED
  BY <1>2, <1>3, <1>4, <1>5, <1>6, <1>7, Tables DEF Reports, AuthorityDecisions

LEMMA InitOK == Init => IInv
<1> SUFFICES ASSUME Init PROVE IInv
  OBVIOUS
<1>1. CallsOK
  BY DEF Init, CallsOK, CallOK, Idle
<1>2. /\ activities = <<>> /\ orderly \in BOOLEAN /\ replayed = Len(log)
      /\ project.activities = <<>>
      /\ project = [stage |-> project.stage, activities |-> project.activities]
      /\ project.stage \in {"NONE", "AUTHORISED"}
  BY DEF Init
<1>3. ProjectOK
  <2>1. "AUTHORISED" \in Stages
    BY DEF Stages, StageChange
  <2>2. <<>> \in [DOMAIN <<>> -> LedgerStates]
    OBVIOUS
  <2> QED
    BY <1>2, <2>1, <2>2 DEF ProjectOK, Stages
<1>4. CASE docs = <<>> /\ log = <<>>
  <2>1. RowsOK
    BY <1>2, <1>4, LifecycleAssumption DEF RowsOK
  <2>2. CertifiedOK /\ LogOK
    BY <1>2, <1>4 DEF CertifiedOK, LogOK, NamedOK, ReportedOnce, IssuedIsVerified,
                      LedgerHasReport, AuthorityDecidesOnCertified
  <2> QED
    BY <1>1, <1>3, <2>1, <2>2 DEF IInv, DataOK
<1>5. CASE /\ docs = <<Approved("INF"), Approved("PDD"), Approved("VAL")>>
           /\ log = AuthorisedLog
  <2>1. \A t \in {"INF", "PDD", "VAL"} :
            /\ Approved(t) \in DocType /\ Approved(t).type = t
            /\ Approved(t).status = "DNA_APPROVED" /\ Approved(t).activity = 0
    BY LifecycleAssumption DEF Approved, DocType, NoActivity, Decision
  <2>2. /\ docs \in Seq(DocType) /\ DOMAIN docs = 1..3
        /\ docs[1].type = "INF" /\ docs[2].type = "PDD" /\ docs[3].type = "VAL"
        /\ \A d \in DOMAIN docs : docs[d].status = "DNA_APPROVED" /\ docs[d].activity = 0
    BY <1>5, <2>1
  <2>3. RowsOK
    BY <1>2, <1>5, <2>2, AuthorisedStart, LifecycleAssumption DEF RowsOK
  <2>4. CertifiedOK
    BY <2>2 DEF CertifiedOK
  <2>5. NamedOK
    BY <1>5, <2>2, AuthorisedStart DEF NamedOK, Named
  <2>6. ReportedOnce /\ IssuedIsVerified /\ LedgerHasReport
    BY <1>2, <1>5, AuthorisedStart DEF ReportedOnce, IssuedIsVerified, LedgerHasReport, Reports
  <2>7. AuthorityDecidesOnCertified
    <3> SUFFICES ASSUME NEW i \in DOMAIN log, log[i].tx \in AuthorityDecisions
                 PROVE  \E j \in 1..(i - 1) :
                            log[j].tx = "APPROVE_PDD_BY_IC" /\ log[j].doc = log[i].doc
      BY DEF AuthorityDecidesOnCertified, Decided, AuthorityDecisions
    <3>1. i \in 1..7 /\ 4 < i
      BY <1>5, AuthorisedStart
    <3>2. 4 \in 1..(i - 1)
      BY <3>1
    <3> QED
      BY <3>2, <1>5, AuthorisedStart
  <2> QED
    BY <1>1, <1>3, <2>3, <2>4, <2>5, <2>6, <2>7 DEF IInv, DataOK, LogOK
<1> QED
  BY <1>4, <1>5 DEF Init

LEMMA NextOK == IInv /\ [Next]_lifecycleVars => IInv'
<1> SUFFICES ASSUME IInv, [Next]_lifecycleVars PROVE IInv'
  OBVIOUS
<1>1. CASE UNCHANGED lifecycleVars
  <2>1. DataOK' /\ Grows
    BY <1>1, DataStays DEF lifecycleVars, IInv, DataOK, RowsOK
  <2> QED
    BY <1>1, <2>1, NoCall DEF lifecycleVars
<1>2. ASSUME NEW c \in Calls, NEW tx \in DOMAIN Submission, StartSubmission(c, tx) PROVE IInv'
  BY <1>2, StartSubmissionStep
<1>3. ASSUME NEW c \in Calls, SaveDocument(c) \/ Submit(c) PROVE IInv'
  BY <1>3, SaveDocumentStep, SubmitStep
<1>4. ASSUME NEW c \in Calls, NEW a \in 0..Len(activities),
             StartMonitoring(c, a) \/ StartVerification(c, a)
      PROVE  IInv'
  BY <1>4, StartMonitoringStep, StartVerificationStep
<1>5. ASSUME NEW c \in Calls, NEW commit \in BOOLEAN,
             SaveMonitoring(c, commit) \/ SaveVerification(c, commit)
      PROVE  IInv'
  BY <1>5, SaveMonitoringStep, SaveVerificationStep
<1>6. ASSUME NEW c \in Calls, NEW d \in DOMAIN docs, NEW tx \in DOMAIN Decision,
             StartDecision(c, d, tx)
      PROVE  IInv'
  BY <1>6, StartDecisionStep
<1>7. ASSUME NEW c \in Calls, RejectLocally(c) \/ DecideStage(c) PROVE IInv'
  BY <1>7, RejectLocallyStep, DecideStageStep
<1>8. ASSUME NEW c \in Calls, ApproveMonitoring(c) \/ Issue(c) PROVE IInv'
  BY <1>8, ApproveMonitoringStep, IssueStep
<1>9. ASSUME NEW c \in Calls, Abandon(c) PROVE IInv'
  BY <1>9, AbandonStep
<1>10. CASE Replicate \/ ReplicateAgain
  BY <1>10, ReplicateStep, ReplicateAgainStep
<1> QED
  BY <1>1, <1>2, <1>3, <1>4, <1>5, <1>6, <1>7, <1>8, <1>9, <1>10 DEF Next

\* The inductive invariant.
THEOREM LifecycleInvariant == Spec => []IInv
BY InitOK, NextOK, PTL DEF Spec

\* Every row has its type, and what modifyDocumentEntity looks up exists.
THEOREM LifecycleTypes == Spec => []TypeOK
<1>1. IInv => TypeOK
  <2> SUFFICES ASSUME IInv PROVE TypeOK
    OBVIOUS
  <2>1. RowsOK /\ ProjectOK /\ NamedOK
    BY DEF IInv, DataOK, LogOK
  <2>2. \A d \in DOMAIN docs : docs[d] \in DocType
    BY <2>1, DocFacts
  <2>3. \A a \in DOMAIN activities :
            activities[a] \in [version : 1..MaxActivities, state : ActivityStates]
    <3>1. \A a \in DOMAIN activities : activities[a] \in ActivityType
      BY <2>1 DEF RowsOK
    <3> QED
      BY <3>1 DEF ActivityType
  <2> QED
    BY <2>1, <2>2, <2>3 DEF TypeOK, RowsOK, ProjectOK, NamedOK, Named, ActivityOf, Reports
<1> QED
  BY <1>1, LifecycleInvariant, PTL

\* The authority only decides on what the certifier approved.
THEOREM CertifierComesFirst == Spec => []AuthorityDecidesOnCertified
<1>1. IInv => AuthorityDecidesOnCertified
  BY DEF IInv, DataOK, LogOK
<1> QED
  BY <1>1, LifecycleInvariant, PTL

\* Credits are issued at most once for an activity.
THEOREM NoSecondIssue == Spec => []IssuedOncePerActivity
<1>1. IInv => IssuedOncePerActivity
  <2> SUFFICES ASSUME IInv, NEW i \in DOMAIN log, log[i].tx = "ISSUE"
               PROVE  /\ {j \in 1..(i - 1) : log[j].tx = "ISSUE" /\
                            docs[log[j].doc].activity = docs[log[i].doc].activity} = {}
                      /\ Cardinality({j \in 1..(i - 1) : log[j].tx = "APPROVE_MONITORING" /\
                            docs[log[j].doc].activity = docs[log[i].doc].activity}) = 1
    BY DEF IssuedOncePerActivity
  <2>1. i \in Nat /\ 1..(i - 1) \subseteq DOMAIN log
    BY DEF IInv, DataOK, RowsOK
  <2>2. \A j \in 1..(i - 1) : ~(log[j].tx = "ISSUE" /\ ActivityOf(j) = ActivityOf(i))
    BY <2>1 DEF IInv, DataOK, LogOK, ReportedOnce, Reports
  <2>3. PICK j \in 1..(i - 1) :
            log[j].tx = "APPROVE_MONITORING" /\ ActivityOf(j) = ActivityOf(i)
    BY DEF IInv, DataOK, LogOK, IssuedIsVerified
  <2>4. \A k \in 1..(i - 1) :
            log[k].tx = "APPROVE_MONITORING" /\ ActivityOf(k) = ActivityOf(i) => k = j
    BY <2>1, <2>3 DEF IInv, DataOK, LogOK, ReportedOnce, Reports
  <2>5. {k \in 1..(i - 1) : log[k].tx = "APPROVE_MONITORING" /\
            docs[log[k].doc].activity = docs[log[i].doc].activity} = {j}
    BY <2>3, <2>4 DEF ActivityOf
  <2>6. Cardinality({j}) = 1
    BY FS_Singleton
  <2> QED
    BY <2>2, <2>5, <2>6 DEF ActivityOf
<1> QED
  BY <1>1, LifecycleInvariant, PTL

-----------------------------------------------------------------------------
(* Orderly behaviours: one call at a time, none ahead of the replicator.   *)

Lagging == replayed < Len(log)
Newest == log[Len(log)]

OneAtATime ==
    /\ \A c, e \in Calls : call[c] # Idle /\ call[e] # Idle => c = e
    /\ \A c \in Calls : call[c] # Idle => ~Lagging
    /\ Lagging =>
        /\ replayed = Len(log) - 1
        /\ Newest.tx \in DOMAIN Decision =>
            docs[Newest.doc].status = Decision[Newest.tx].needs

\* What a call read is still so.
Fresh(k) ==
    /\ k.step \in {"save", "ledger"} => project.stage \in StageChange[k.tx].from
    /\ k.step = "ledger" =>
        docs[k.doc].type = Submission[k.tx] /\ docs[k.doc].status = "PENDING"
    /\ k.step = "monitoring" /\ ~k.new =>
        activities[k.activity].state = "MONITORING_REPORT_REJECTED"
    /\ k.step = "verification" =>
        activities[k.activity].state \in {"MONITORING_REPORT_VERIFIED",
                                          "VERIFICATION_REPORT_REJECTED"}
    /\ k.step = "decide" => docs[k.doc].status = Decision[k.tx].needs

CallsFresh == \A c \in Calls : Fresh(call[c])

\* A design document or validation report that can still be decided.
Live(t, d) ==
    d \in DOMAIN docs /\ docs[d].type = t /\ docs[d].status \in {"PENDING", "IC_APPROVED"}

LiveStages == [PDD |-> {"PDD_SUBMITTED", "PDD_APPROVED_BY_CERTIFIER"},
               VAL |-> {"VALIDATION_REPORT_SUBMITTED"}]

\* Its submission or the decision on it is only half done.
InFlight(d) ==
    \/ Lagging /\ Newest.tx \in DOMAIN Decision /\ Newest.doc = d
    \/ \E c \in Calls : call[c].step = "ledger" /\ call[c].doc = d

SubmittedAs(tx, t) == tx \in DOMAIN Submission /\ Submission[tx] = t

\* There is one at most, in its stages only, and nothing newer was submitted.
DesignOK(t) ==
    /\ \A d, e : Live(t, d) /\ Live(t, e) => d = e
    /\ \A d : Live(t, d) =>
        /\ project.stage \in LiveStages[t] \/ InFlight(d)
        /\ \A i \in DOMAIN log : SubmittedAs(log[i].tx, t) => log[i].doc <= d

\* The document a stage waits for.
Awaited ==
    [PDD_SUBMITTED |-> [type |-> "PDD", status |-> "PENDING"],
     PDD_APPROVED_BY_CERTIFIER |-> [type |-> "PDD", status |-> "IC_APPROVED"],
     VALIDATION_REPORT_SUBMITTED |-> [type |-> "VAL", status |-> "PENDING"]]

StageHasDocument ==
    project.stage \in DOMAIN Awaited =>
        \/ Lagging /\ Newest.tx \in DOMAIN Decision \cap DOMAIN StageChange
        \/ \E d \in DOMAIN docs :
            /\ docs[d].type = Awaited[project.stage].type
            /\ docs[d].status = Awaited[project.stage].status

StageShowsNewest ==
    Len(log) > 0 /\ Newest.tx \in DOMAIN StageChange =>
        project.stage = StageChange[Newest.tx].to

StagesOK == DesignOK("PDD") /\ DesignOK("VAL") /\ StageHasDocument /\ StageShowsNewest

Uploaded == [MON |-> "MONITORING_REPORT_UPLOADED", VER |-> "VERIFICATION_REPORT_UPLOADED"]

Pending(d) == d \in DOMAIN docs /\ docs[d].type \in {"MON", "VER"} /\ docs[d].status = "PENDING"

PendingOK ==
    /\ \A d \in DOMAIN docs :
        docs[d].type \in {"MON", "VER"} => docs[d].activity # NoActivity
    /\ \A d : Pending(d) => activities[docs[d].activity].state = Uploaded[docs[d].type]
    /\ \A d, e : Pending(d) /\ Pending(e) /\ docs[d].activity = docs[e].activity => d = e
    /\ \A a \in DOMAIN activities : activities[a].state \in {Uploaded.MON, Uploaded.VER} =>
        \E d : Pending(d) /\ docs[d].activity = a

\* The replicator is about to apply a revision that changes activity a.
Underway(a) == Lagging /\ Newest.tx \in Reports /\ docs[Newest.doc].activity = a

LedgerShown ==
    \A a \in DOMAIN activities :
        IF Underway(a)
        THEN /\ a \in DOMAIN project.activities
             /\ project.activities[a] = "VERIFICATION_REPORT_VERIFIED" <=>
                    Newest.tx = "ISSUE"
        ELSE /\ a \in DOMAIN project.activities <=>
                    activities[a].state \notin {"MONITORING_REPORT_UPLOADED",
                                                "MONITORING_REPORT_REJECTED"}
             /\ a \in DOMAIN project.activities =>
                    (project.activities[a] = "VERIFICATION_REPORT_VERIFIED" <=>
                        activities[a].state = "VERIFICATION_REPORT_VERIFIED")

DecidedAsSubmitted ==
    \A i \in DOMAIN log :
        log[i].tx \in DOMAIN Decision /\ Decision[log[i].tx].type # "INF" =>
            \A j \in 1..(i - 1) :
                SubmittedAs(log[j].tx, Decision[log[i].tx].type) => log[j].doc <= log[i].doc

OrderlyOK ==
    /\ OneAtATime /\ CallsFresh
    /\ StagesOK /\ DecidedAsSubmitted
    /\ PendingOK /\ LedgerShown

OInv == IInv /\ (orderly => OrderlyOK)

-----------------------------------------------------------------------------
(* What the tables of the service say of stages.                           *)

LEMMA StageFacts ==
    /\ \A tx \in DOMAIN Submission, t \in {"PDD", "VAL"} :
        StageChange[tx].from \cap LiveStages[t] = {}
    /\ \A tx \in DOMAIN Submission, t \in {"PDD", "VAL"} :
        Submission[tx] = t => StageChange[tx].to \in LiveStages[t]
    /\ \A tx \in DOMAIN Submission : StageChange[tx].to \in DOMAIN Awaited =>
        Awaited[StageChange[tx].to] = [type |-> Submission[tx], status |-> "PENDING"]
    /\ \A tx \in DOMAIN Decision \cap DOMAIN StageChange, t \in {"PDD", "VAL"} :
        StageChange[tx].from \cap LiveStages[t] # {} => Decision[tx].type = t
    /\ \A tx \in DOMAIN Decision \cap DOMAIN StageChange :
        StageChange[tx].to \in DOMAIN Awaited =>
            /\ tx = "APPROVE_PDD_BY_IC"
            /\ Awaited[StageChange[tx].to] = [type |-> "PDD", status |-> "IC_APPROVED"]
    /\ \A s \in DOMAIN Awaited : Awaited[s].type \in {"PDD", "VAL"}
<1>1. \A tx \in DOMAIN Submission, t \in {"PDD", "VAL"} :
        /\ StageChange[tx].from \cap LiveStages[t] = {}
        /\ Submission[tx] = t => StageChange[tx].to \in LiveStages[t]
  BY DEF Submission, StageChange, LiveStages
<1>2. \A tx \in DOMAIN Submission : StageChange[tx].to \in DOMAIN Awaited =>
        Awaited[StageChange[tx].to] = [type |-> Submission[tx], status |-> "PENDING"]
  BY DEF Submission, StageChange, Awaited
<1>3. \A tx \in DOMAIN Decision \cap DOMAIN StageChange, t \in {"PDD", "VAL"} :
        StageChange[tx].from \cap LiveStages[t] # {} => Decision[tx].type = t
  BY DEF Decision, StageChange, LiveStages
<1>4. \A tx \in DOMAIN Decision \cap DOMAIN StageChange :
        StageChange[tx].to \in DOMAIN Awaited =>
            /\ tx = "APPROVE_PDD_BY_IC"
            /\ Awaited[StageChange[tx].to] = [type |-> "PDD", status |-> "IC_APPROVED"]
  BY DEF Decision, StageChange, Awaited
<1>5. \A s \in DOMAIN Awaited : Awaited[s].type \in {"PDD", "VAL"}
  BY DEF Awaited
<1> QED
  BY <1>1, <1>2, <1>3, <1>4, <1>5

-----------------------------------------------------------------------------
(* Calls.                                                                  *)

LEMMA OnlyCall ==
    ASSUME OneAtATime, NEW c \in Calls, call[c].step # "idle"
    PROVE  /\ ~Lagging /\ call[c] # Idle
           /\ \A e \in Calls : e # c => call[e] = Idle
BY DEF OneAtATime, Idle

LEMMA NothingInFlight ==
    ASSUME OneAtATime, NEW c \in Calls, call[c].step \notin {"idle", "ledger"}
    PROVE  \A d : ~InFlight(d)
BY OnlyCall DEF InFlight, Idle

LEMMA CallEnds ==
    ASSUME CallsOK, OneAtATime, NEW c \in Calls, call[c].step # "idle",
           call' = [call EXCEPT ![c] = Idle]
    PROVE  \A e \in Calls : call'[e] = Idle
BY OnlyCall DEF CallsOK

LEMMA AllIdle ==
    ASSUME \A e \in Calls : call'[e] = Idle,
           Lagging' => /\ replayed' = Len(log') - 1
                       /\ Newest'.tx \in DOMAIN Decision =>
                            docs'[Newest'.doc].status = Decision[Newest'.tx].needs
    PROVE  OneAtATime' /\ CallsFresh'
<1>1. CallsFresh'
  BY DEF CallsFresh, Fresh, Idle
<1>2. OneAtATime'
  BY DEF OneAtATime
<1> QED
  BY <1>1, <1>2

-----------------------------------------------------------------------------
(* Steps that leave design documents, or reports, alone.                   *)

Same(types) ==
    \A d : /\ (d \in DOMAIN docs' /\ docs'[d].type \in types) <=>
                (d \in DOMAIN docs /\ docs[d].type \in types)
           /\ d \in DOMAIN docs /\ docs[d].type \in types => docs'[d] = docs[d]

LEMMA StagesStay ==
    ASSUME StagesOK, DecidedAsSubmitted, Same({"PDD", "VAL"}),
           UNCHANGED <<log, replayed>>, project'.stage = project.stage,
           \A d : InFlight(d) => InFlight(d)'
    PROVE  StagesOK' /\ DecidedAsSubmitted'
<1>1. ASSUME NEW t \in {"PDD", "VAL"}, DesignOK(t) PROVE DesignOK(t)'
  <2>1. \A d : Live(t, d)' => Live(t, d)
    BY <1>1 DEF Live, Same
  <2> QED
    BY <1>1, <2>1 DEF DesignOK
<1>2. StageHasDocument'
  <2>1. Lagging' = Lagging /\ Newest' = Newest
    BY DEF Lagging, Newest
  <2>2. \A d \in DOMAIN docs : docs[d].type \in {"PDD", "VAL"} =>
            d \in DOMAIN docs' /\ docs'[d] = docs[d]
    BY DEF Same
  <2> QED
    BY <2>1, <2>2, StageFacts DEF StagesOK, StageHasDocument
<1>3. StageShowsNewest'
  BY DEF StagesOK, StageShowsNewest, Newest
<1>4. DecidedAsSubmitted'
  BY DEF DecidedAsSubmitted
<1> QED
  BY <1>1, <1>2, <1>3, <1>4 DEF StagesOK

LEMMA ReportsStay ==
    ASSUME PendingOK, LedgerShown, Same({"MON", "VER"}), UNCHANGED activities,
           project'.activities = project.activities,
           \A a \in DOMAIN activities : Underway(a)' <=> Underway(a),
           \A a \in DOMAIN activities : Underway(a) => Newest' = Newest
    PROVE  PendingOK' /\ LedgerShown'
<1>1. \A d : /\ Pending(d)' <=> Pending(d)
             /\ Pending(d) => docs'[d] = docs[d]
  BY DEF Pending, Same
<1>2. PendingOK'
  BY <1>1 DEF PendingOK, Same
<1>3. LedgerShown'
  BY DEF LedgerShown
<1> QED
  BY <1>2, <1>3

\* A call begins while nothing else is going on, or ends without any effect.
LEMMA CallStarts ==
    ASSUME IInv, OrderlyOK, NEW c \in Calls, NEW k, call' = [call EXCEPT ![c] = k],
           k.step # "ledger", Fresh(k), Quiet,
           UNCHANGED <<docs, activities, project, log, replayed>>
    PROVE  OrderlyOK'
<1>1. ~Lagging /\ ~Lagging' /\ \A e \in Calls : call[e] = Idle
  BY DEF Quiet, Lagging, IInv, DataOK, RowsOK
<1>2. \A e \in Calls : call'[e] = IF e = c THEN k ELSE Idle
  BY <1>1 DEF IInv, CallsOK
<1>3. OneAtATime'
  BY <1>1, <1>2 DEF OneAtATime
<1>4. CallsFresh'
  <2>1. Fresh(k)' /\ Fresh(Idle)'
    BY DEF Fresh, Idle
  <2> QED
    BY <1>2, <2>1 DEF CallsFresh
<1>5. \A d : ~InFlight(d)
  BY <1>1 DEF InFlight, Idle
<1>6. Same({"PDD", "VAL"}) /\ Same({"MON", "VER"})
  BY DEF Same
<1>7. StagesOK' /\ DecidedAsSubmitted'
  BY <1>5, <1>6, StagesStay DEF OrderlyOK
<1>8. PendingOK' /\ LedgerShown'
  BY <1>1, <1>6, ReportsStay DEF OrderlyOK, Underway
<1> QED
  BY <1>3, <1>4, <1>7, <1>8 DEF OrderlyOK

LEMMA CallStops ==
    ASSUME IInv, OrderlyOK, NEW c \in Calls, call' = [call EXCEPT ![c] = Idle],
           call[c].step \notin {"idle", "ledger"},
           UNCHANGED <<docs, activities, project, log, replayed>>
    PROVE  OrderlyOK'
<1>1. ~Lagging /\ ~Lagging' /\ \A d : ~InFlight(d)
  BY OnlyCall, NothingInFlight DEF OrderlyOK, Lagging
<1>2. OneAtATime' /\ CallsFresh'
  BY <1>1, CallEnds, AllIdle DEF OrderlyOK, IInv
<1>3. Same({"PDD", "VAL"}) /\ Same({"MON", "VER"})
  BY DEF Same
<1>4. StagesOK' /\ DecidedAsSubmitted'
  BY <1>1, <1>3, StagesStay DEF OrderlyOK
<1>5. PendingOK' /\ LedgerShown'
  BY <1>1, <1>3, ReportsStay DEF OrderlyOK, Underway
<1> QED
  BY <1>2, <1>4, <1>5 DEF OrderlyOK

LEMMA OrderlyStarts ==
    ASSUME IInv, OrderlyOK, orderly', NEW c \in Calls,
           \/ \E tx \in DOMAIN Submission : StartSubmission(c, tx)
           \/ \E a \in 0..Len(activities) : StartMonitoring(c, a) \/ StartVerification(c, a)
           \/ \E d \in DOMAIN docs, tx \in DOMAIN Decision : StartDecision(c, d, tx)
    PROVE  OrderlyOK'
<1>1. ASSUME NEW tx \in DOMAIN Submission, StartSubmission(c, tx) PROVE OrderlyOK'
  <2>1. Fresh([step |-> "save", tx |-> tx])
    BY <1>1 DEF Fresh, StartSubmission
  <2> QED
    BY <1>1, <2>1, CallStarts DEF StartSubmission
<1>2. ASSUME NEW a \in 0..Len(activities), StartMonitoring(c, a) PROVE OrderlyOK'
  <2>1. PICK k : k = [step |-> "monitoring", activity |-> a,
                    version |-> IF a = NoActivity THEN 1 ELSE activities[a].version + 1,
                    new |-> a = NoActivity \/
                        activities[a].state = "VERIFICATION_REPORT_VERIFIED"]
    OBVIOUS
  <2>2. /\ k.step = "monitoring" /\ k.activity = a
        /\ k.new = (a = NoActivity \/ activities[a].state = "VERIFICATION_REPORT_VERIFIED")
    BY <2>1
  <2>3. a # NoActivity => activities[a].state \in {"MONITORING_REPORT_REJECTED",
                                                   "VERIFICATION_REPORT_VERIFIED"}
    BY <1>2 DEF StartMonitoring
  <2>4. Fresh(k)
    BY <2>2, <2>3 DEF Fresh
  <2> QED
    BY <1>2, <2>1, <2>2, <2>4, CallStarts DEF StartMonitoring
<1>3. ASSUME NEW a \in 0..Len(activities), StartVerification(c, a) PROVE OrderlyOK'
  <2>1. Fresh([step |-> "verification", activity |-> a])
    BY <1>3 DEF Fresh, StartVerification
  <2> QED
    BY <1>3, <2>1, CallStarts DEF StartVerification
<1>4. ASSUME NEW d \in DOMAIN docs, NEW tx \in DOMAIN Decision, StartDecision(c, d, tx)
      PROVE  OrderlyOK'
  <2>1. PICK k : k = [step |-> "decide", tx |-> tx, doc |-> d,
                      state |-> IF docs[d].activity = NoActivity THEN "none"
                                ELSE activities[docs[d].activity].state]
    OBVIOUS
  <2>2. k.step = "decide" /\ k.tx = tx /\ k.doc = d
    BY <2>1
  <2>3. Fresh(k)
    BY <1>4, <2>2 DEF Fresh, StartDecision
  <2> QED
    BY <1>4, <2>1, <2>2, <2>3, CallStarts DEF StartDecision
<1> QED
  BY <1>1, <1>2, <1>3, <1>4

LEMMA OrderlyAbandon ==
    ASSUME IInv, OrderlyOK, orderly', NEW c \in Calls, Abandon(c)
    PROVE  OrderlyOK'
<1>1. call[c].step \notin {"idle", "ledger"}
  BY DEF Abandon, IInv, CallsOK, CallOK
<1> QED
  BY <1>1, CallStops DEF Abandon

LEMMA OrderlySaveDocument ==
    ASSUME IInv, OrderlyOK, NEW c \in Calls, SaveDocument(c)
    PROVE  OrderlyOK'
<1>0. PICK tx, n, k : /\ tx = call[c].tx /\ n = Len(docs) + 1
                      /\ k = [step |-> "ledger", tx |-> tx, doc |-> n]
  OBVIOUS
<1>1. /\ call[c].step = "save" /\ tx \in DOMAIN Submission
      /\ project.stage \in StageChange[tx].from
  BY <1>0 DEF SaveDocument, IInv, CallsOK, CallOK, OrderlyOK, CallsFresh, Fresh
<1>2. /\ ~Lagging /\ \A e \in Calls : e # c => call[e] = Idle
      /\ \A d : ~InFlight(d)
  BY <1>1, OnlyCall, NothingInFlight DEF OrderlyOK
<1>3. /\ docs \in Seq(DocType) /\ docs' = Append(docs, Doc(Submission[tx], NoActivity))
      /\ call' = [call EXCEPT ![c] = k]
      /\ UNCHANGED <<activities, project, log, replayed>>
  BY <1>0 DEF SaveDocument, IInv, DataOK, RowsOK
<1>4. /\ Doc(Submission[tx], NoActivity).type = Submission[tx]
      /\ Doc(Submission[tx], NoActivity).status = "PENDING"
  BY DEF Doc
<1>5. /\ DOMAIN docs' = DOMAIN docs \cup {n} /\ n \notin DOMAIN docs /\ n \in Nat
      /\ \A d \in DOMAIN docs : d < n /\ docs'[d] = docs[d]
      /\ docs'[n].type = Submission[tx] /\ docs'[n].status = "PENDING"
  BY <1>0, <1>3, <1>4
<1>6. ~Lagging' /\ \A e \in Calls : call'[e] = IF e = c THEN k ELSE Idle
  BY <1>2, <1>3 DEF Lagging, IInv, CallsOK
<1>7. OneAtATime'
  BY <1>6 DEF OneAtATime
<1>8. CallsFresh'
  <2>1. Fresh(k)'
    BY <1>0, <1>1, <1>3, <1>5 DEF Fresh
  <2>2. Fresh(Idle)'
    BY DEF Fresh, Idle
  <2> QED
    BY <1>6, <2>1, <2>2 DEF CallsFresh
<1>9. ASSUME NEW t \in {"PDD", "VAL"}, DesignOK(t) PROVE DesignOK(t)'
  <2>1. \A d : ~Live(t, d)  \/ Submission[tx] # t
    BY <1>1, <1>2, <1>9, StageFacts DEF DesignOK
  <2>2. CASE Submission[tx] = t
    <3>1. \A d : Live(t, d)' => d = n
      BY <2>1, <2>2, <1>5 DEF Live
    <3>2. InFlight(n)'
      BY <1>0, <1>6 DEF InFlight
    <3>3. \A i \in DOMAIN log : log[i].doc <= n
      <4>1. \A i \in DOMAIN log : log[i].doc \in DOMAIN docs
        BY DEF IInv, DataOK, LogOK, NamedOK, Named
      <4>2. \A d \in DOMAIN docs : d <= n
        BY <1>3, <1>5
      <4> QED
        BY <4>1, <4>2
    <3> QED
      BY <1>3, <3>1, <3>2, <3>3 DEF DesignOK
  <2>3. CASE Submission[tx] # t
    <3>1. \A d : Live(t, d)' => Live(t, d)
      BY <2>3, <1>5 DEF Live
    <3> QED
      BY <1>2, <1>3, <1>9, <3>1 DEF DesignOK
  <2> QED
    BY <2>2, <2>3
<1>10. StageHasDocument'
  BY <1>2, <1>3, <1>5 DEF OrderlyOK, StagesOK, StageHasDocument
<1>11. StageShowsNewest' /\ DecidedAsSubmitted'
  BY <1>3 DEF OrderlyOK, StagesOK, StageShowsNewest, Newest, DecidedAsSubmitted
<1>12. Same({"MON", "VER"})
  BY <1>1, <1>5, Tables DEF Same
<1>13. PendingOK' /\ LedgerShown'
  BY <1>2, <1>3, <1>6, <1>12, ReportsStay DEF OrderlyOK, Underway
<1> QED
  BY <1>7, <1>8, <1>9, <1>10, <1>11, <1>13 DEF OrderlyOK, StagesOK

\* A new revision while the replicator has applied all others.
LEMMA NewestFacts ==
    ASSUME IInv, ~Lagging, NEW tx \in Recorded, NEW d \in DOMAIN docs, Revise(tx, d),
           UNCHANGED <<docs, activities, replayed, orderly>>
    PROVE  /\ Lagging' /\ replayed' = Len(log') - 1
           /\ Newest'.tx = tx /\ Newest'.doc = d
<1>1. Len(log') = Len(log) + 1 /\ log'[Len(log')].tx = tx /\ log'[Len(log')].doc = d
  <2>1. log \in Seq(Revision) /\ log' = Append(log, [tx |-> tx, doc |-> d])
    BY DEF IInv, DataOK, RowsOK, Revise
  <2> QED
    BY <2>1
<1>2. replayed = Len(log) /\ Len(log) \in Nat
  BY DEF IInv, DataOK, RowsOK, Lagging
<1> QED
  BY <1>1, <1>2 DEF Lagging, Newest

LEMMA OrderlySubmit ==
    ASSUME IInv, OrderlyOK, NEW c \in Calls, Submit(c)
    PROVE  OrderlyOK'
<1>0. PICK tx, n : tx = call[c].tx /\ n = call[c].doc
  OBVIOUS
<1>1. /\ call[c].step = "ledger" /\ tx \in DOMAIN Submission /\ n \in DOMAIN docs
      /\ project.stage \in StageChange[tx].from
      /\ docs[n].type = Submission[tx] /\ docs[n].status = "PENDING"
  BY <1>0 DEF Submit, IInv, CallsOK, CallOK, OrderlyOK, CallsFresh, Fresh
<1>2. ~Lagging /\ \A e \in Calls : e # c => call[e] = Idle
  BY <1>1, OnlyCall DEF OrderlyOK
<1>3. /\ project' = [project EXCEPT !.stage = StageChange[tx].to]
      /\ Revise(tx, n) /\ call' = [call EXCEPT ![c] = Idle]
      /\ UNCHANGED <<docs, activities, replayed, orderly>>
  BY <1>0, <1>1 DEF Submit
<1>4. tx \in Recorded /\ tx \notin DOMAIN Decision /\ tx \notin Reports
  BY <1>1, Tables DEF Recorded, Reports
<1>5. /\ Lagging' /\ replayed' = Len(log') - 1 /\ Newest'.tx = tx /\ Newest'.doc = n
      /\ Len(log) \in Nat /\ DOMAIN log = 1..Len(log) /\ DOMAIN log' = 1..(Len(log) + 1)
      /\ log'[Len(log) + 1].tx = tx /\ log'[Len(log) + 1].doc = n
      /\ \A i \in DOMAIN log : log'[i] = log[i]
  BY <1>1, <1>2, <1>3, <1>4, NewestFacts, LogGrows DEF IInv
<1>6. /\ project'.stage = StageChange[tx].to /\ project'.activities = project.activities
  BY <1>3 DEF IInv, DataOK, ProjectOK
<1>7. OneAtATime' /\ CallsFresh'
  BY <1>1, <1>3, <1>4, <1>5, CallEnds, AllIdle DEF OrderlyOK, IInv
<1>8. \A d : InFlight(d) => d = n
  BY <1>0, <1>2 DEF InFlight, Idle
<1>9. ASSUME NEW t \in {"PDD", "VAL"}, DesignOK(t) PROVE DesignOK(t)'
  <2>1. \A d : Live(t, d) => d = n /\ t = Submission[tx]
    <3>1. \A d : Live(t, d) => d = n
      BY <1>1, <1>8, <1>9, StageFacts DEF DesignOK
    <3> QED
      BY <1>1, <3>1 DEF Live
  <2>2. ASSUME NEW d, Live(t, d) PROVE \A i \in DOMAIN log' :
            SubmittedAs(log'[i].tx, t) => log'[i].doc <= d
    <3>1. d = n /\ n \in Nat
      BY <2>1, <2>2, <1>1 DEF IInv, DataOK, RowsOK
    <3>2. \A i \in DOMAIN log : SubmittedAs(log[i].tx, t) => log[i].doc <= d
      BY <2>2, <1>9 DEF DesignOK
    <3> QED
      BY <1>5, <3>1, <3>2
  <2>3. \A d : Live(t, d)' <=> Live(t, d)
    BY <1>3 DEF Live
  <2>4. t = Submission[tx] => project'.stage \in LiveStages[t]
    BY <1>1, <1>6, StageFacts
  <2> QED
    BY <2>1, <2>2, <2>3, <2>4 DEF DesignOK
<1>10. StageHasDocument'
  <2>1. project'.stage \in DOMAIN Awaited =>
            Awaited[project'.stage] = [type |-> Submission[tx], status |-> "PENDING"]
    BY <1>1, <1>6, StageFacts
  <2> QED
    BY <1>1, <1>3, <2>1 DEF StageHasDocument
<1>11. StageShowsNewest'
  BY <1>5, <1>6 DEF StageShowsNewest
<1>12. DecidedAsSubmitted'
  <2> SUFFICES ASSUME NEW i \in DOMAIN log', log'[i].tx \in DOMAIN Decision,
                      Decision[log'[i].tx].type # "INF",
                      NEW j \in 1..(i - 1),
                      SubmittedAs(log'[j].tx, Decision[log'[i].tx].type)
               PROVE  log'[j].doc <= log'[i].doc
    BY DEF DecidedAsSubmitted
  <2>1. i \in DOMAIN log /\ j \in DOMAIN log
    BY <1>4, <1>5
  <2> QED
    BY <2>1, <1>5 DEF OrderlyOK, DecidedAsSubmitted
<1>13. Same({"MON", "VER"})
  BY <1>3 DEF Same
<1>14. PendingOK' /\ LedgerShown'
  BY <1>2, <1>3, <1>4, <1>5, <1>6, <1>13, ReportsStay DEF OrderlyOK, Underway
<1> QED
  BY <1>7, <1>9, <1>10, <1>11, <1>12, <1>14 DEF OrderlyOK, StagesOK

\* A decision the ledger takes.
LEMMA DecisionRevised ==
    ASSUME IInv, OrderlyOK, NEW c \in Calls, call[c].step = "decide",
           NEW tx \in Recorded, tx = call[c].tx, NEW n, n = call[c].doc, Revise(tx, n),
           call' = [call EXCEPT ![c] = Idle],
           UNCHANGED <<docs, activities, replayed, orderly>>
    PROVE  /\ OneAtATime' /\ CallsFresh' /\ DecidedAsSubmitted'
           /\ ~Lagging /\ \A d : ~InFlight(d)
           /\ Lagging' /\ Newest'.tx = tx /\ Newest'.doc = n
           /\ tx \in DOMAIN Decision /\ n \in DOMAIN docs
           /\ docs[n].type = Decision[tx].type /\ docs[n].status = Decision[tx].needs
           /\ DOMAIN log \subseteq DOMAIN log'
           /\ \A i \in DOMAIN log' : \/ i \in DOMAIN log /\ log'[i] = log[i]
                                     \/ log'[i].tx = tx
<1>1. /\ tx \in DOMAIN Decision /\ n \in DOMAIN docs
      /\ docs[n].type = Decision[tx].type /\ docs[n].status = Decision[tx].needs
  BY DEF IInv, CallsOK, CallOK, OrderlyOK, CallsFresh, Fresh
<1>2. ~Lagging /\ \A d : ~InFlight(d)
  BY OnlyCall, NothingInFlight DEF OrderlyOK
<1>3. /\ Lagging' /\ replayed' = Len(log') - 1 /\ Newest'.tx = tx /\ Newest'.doc = n
      /\ Len(log) \in Nat /\ DOMAIN log = 1..Len(log) /\ DOMAIN log' = 1..(Len(log) + 1)
      /\ log'[Len(log) + 1].tx = tx /\ log'[Len(log) + 1].doc = n
      /\ \A i \in DOMAIN log : log'[i] = log[i]
  BY <1>1, <1>2, NewestFacts, LogGrows DEF IInv
<1>4. OneAtATime' /\ CallsFresh'
  BY <1>1, <1>3, CallEnds, AllIdle DEF OrderlyOK, IInv
<1>5. DecidedAsSubmitted'
  <2> SUFFICES ASSUME NEW i \in DOMAIN log', log'[i].tx \in DOMAIN Decision,
                      Decision[log'[i].tx].type # "INF",
                      NEW j \in 1..(i - 1),
                      SubmittedAs(log'[j].tx, Decision[log'[i].tx].type)
               PROVE  log'[j].doc <= log'[i].doc
    BY DEF DecidedAsSubmitted
  <2>1. j \in DOMAIN log /\ log'[j] = log[j]
    BY <1>3
  <2>2. CASE i \in DOMAIN log
    BY <2>1, <2>2, <1>3 DEF OrderlyOK, DecidedAsSubmitted
  <2>3. CASE i = Len(log) + 1
    <3>1. log'[i].tx = tx /\ log'[i].doc = n
      BY <2>3, <1>3
    <3>2. Decision[tx].type \in {"PDD", "VAL"}
      BY <3>1, Tables DEF SubmittedAs
    <3>3. Live(Decision[tx].type, n)
      BY <1>1, DecisionFacts DEF Live
    <3>4. DesignOK(Decision[tx].type)
      BY <3>2 DEF OrderlyOK, StagesOK
    <3> QED
      BY <2>1, <3>1, <3>3, <3>4 DEF DesignOK
  <2> QED
    BY <2>2, <2>3, <1>3
<1> QED
  BY <1>1, <1>2, <1>3, <1>4, <1>5

LEMMA OrderlyDecideStage ==
    ASSUME IInv, OrderlyOK, NEW c \in Calls, DecideStage(c)
    PROVE  OrderlyOK'
<1>0. PICK tx, n : tx = call[c].tx /\ n = call[c].doc
  OBVIOUS
<1>1. /\ call[c].step = "decide" /\ tx \in DOMAIN StageChange /\ tx \notin Reports
      /\ tx \in Recorded /\ call' = [call EXCEPT ![c] = Idle]
      /\ UNCHANGED <<docs, activities, replayed, orderly>>
  BY <1>0, Tables DEF DecideStage, Recorded, Reports
<1>2. CASE project.stage \notin StageChange[tx].from
  BY <1>0, <1>1, <1>2, CallStops DEF DecideStage
<1>3. CASE project.stage \in StageChange[tx].from
  <2>1. project' = [project EXCEPT !.stage = StageChange[tx].to] /\ Revise(tx, n)
    BY <1>0, <1>3 DEF DecideStage
  <2>2. /\ OneAtATime' /\ CallsFresh' /\ DecidedAsSubmitted'
        /\ ~Lagging /\ \A d : ~InFlight(d)
        /\ Lagging' /\ Newest'.tx = tx /\ Newest'.doc = n
        /\ tx \in DOMAIN Decision /\ n \in DOMAIN docs
        /\ docs[n].type = Decision[tx].type /\ docs[n].status = Decision[tx].needs
        /\ DOMAIN log \subseteq DOMAIN log'
        /\ \A i \in DOMAIN log' : \/ i \in DOMAIN log /\ log'[i] = log[i]
                                  \/ log'[i].tx = tx
    BY <1>0, <1>1, <2>1, DecisionRevised
  <2>3. /\ project'.stage = StageChange[tx].to /\ project'.activities = project.activities
    BY <2>1 DEF IInv, DataOK, ProjectOK
  <2>4. ASSUME NEW t \in {"PDD", "VAL"}, DesignOK(t) PROVE DesignOK(t)'
    <3>1. ASSUME NEW d, Live(t, d) PROVE d = n
      <4>1. project.stage \in LiveStages[t]
        BY <2>2, <2>4, <3>1 DEF DesignOK
      <4>2. Decision[tx].type = t
        BY <4>1, <1>1, <1>3, <2>2, StageFacts
      <4>3. Live(t, n)
        BY <4>2, <2>2, DecisionFacts DEF Live
      <4> QED
        BY <3>1, <4>3, <2>4 DEF DesignOK
    <3>2. \A d : Live(t, d)' <=> Live(t, d)
      BY <1>1 DEF Live
    <3>3. InFlight(n)'
      BY <2>2 DEF InFlight
    <3>4. tx \notin DOMAIN Submission
      BY <2>2, Tables
    <3>5. \A i \in DOMAIN log' : SubmittedAs(log'[i].tx, t) =>
            i \in DOMAIN log /\ log'[i] = log[i]
      BY <2>2, <3>4 DEF SubmittedAs
    <3>6. \A d : Live(t, d) => \A i \in DOMAIN log : SubmittedAs(log[i].tx, t) => log[i].doc <= d
      BY <2>4 DEF DesignOK
    <3>7. \A d : Live(t, d) =>
            \A i \in DOMAIN log' : SubmittedAs(log'[i].tx, t) => log'[i].doc <= d
      BY <3>5, <3>6
    <3> QED
      BY <3>1, <3>2, <3>3, <3>7 DEF DesignOK
  <2>5. StageHasDocument' /\ StageShowsNewest'
    BY <1>1, <2>2, <2>3 DEF StageHasDocument, StageShowsNewest
  <2>6. Same({"MON", "VER"})
    BY <1>1 DEF Same
  <2>7. PendingOK' /\ LedgerShown'
    BY <1>1, <2>2, <2>3, <2>6, ReportsStay DEF OrderlyOK, Underway
  <2> QED
    BY <2>2, <2>4, <2>5, <2>7 DEF OrderlyOK, StagesOK
<1> QED
  BY <1>2, <1>3

\* A revision that changes no stage but activity a of the project.
ActivityRevised(tx, a) ==
    /\ project'.stage = project.stage
    /\ tx = "APPROVE_MONITORING" => project.stage = "AUTHORISED"
    /\ a \in DOMAIN project'.activities
    /\ project'.activities[a] = "VERIFICATION_REPORT_VERIFIED" <=> tx = "ISSUE"
    /\ \A b : b # a =>
        /\ b \in DOMAIN project'.activities <=> b \in DOMAIN project.activities
        /\ b \in DOMAIN project.activities =>
            project'.activities[b] = project.activities[b]

LEMMA ReportRevised ==
    ASSUME IInv, OrderlyOK, NEW c \in Calls, call[c].step = "decide",
           NEW tx \in Reports, tx = call[c].tx, NEW n, n = call[c].doc, Revise(tx, n),
           NEW a, a = docs[n].activity, ActivityRevised(tx, a),
           call' = [call EXCEPT ![c] = Idle],
           UNCHANGED <<docs, activities, replayed, orderly>>
    PROVE  OrderlyOK'
<1>1. tx \in Recorded /\ tx \notin DOMAIN Submission /\ tx \in DOMAIN Decision
  BY Tables DEF Reports, Recorded, StageChange, Decision
<1>2. /\ OneAtATime' /\ CallsFresh' /\ DecidedAsSubmitted'
      /\ ~Lagging /\ \A d : ~InFlight(d)
      /\ Lagging' /\ Newest'.tx = tx /\ Newest'.doc = n
      /\ tx \in DOMAIN Decision /\ n \in DOMAIN docs
      /\ docs[n].type = Decision[tx].type /\ docs[n].status = Decision[tx].needs
      /\ DOMAIN log \subseteq DOMAIN log'
      /\ \A i \in DOMAIN log' : \/ i \in DOMAIN log /\ log'[i] = log[i]
                                \/ log'[i].tx = tx
  BY <1>1, DecisionRevised
<1>3. ASSUME NEW t \in {"PDD", "VAL"}, DesignOK(t) PROVE DesignOK(t)'
  <2>1. \A d : Live(t, d)' <=> Live(t, d)
    BY DEF Live
  <2>2. \A i \in DOMAIN log' : SubmittedAs(log'[i].tx, t) =>
            i \in DOMAIN log /\ log'[i] = log[i]
    BY <1>1, <1>2 DEF SubmittedAs
  <2>3. \A d : Live(t, d) => \A i \in DOMAIN log : SubmittedAs(log[i].tx, t) => log[i].doc <= d
    BY <1>3 DEF DesignOK
  <2>4. \A d : Live(t, d) =>
            \A i \in DOMAIN log' : SubmittedAs(log'[i].tx, t) => log'[i].doc <= d
    BY <2>2, <2>3
  <2> QED
    BY <1>2, <1>3, <2>1, <2>4 DEF DesignOK, ActivityRevised
<1>4. StageHasDocument'
  BY <1>2 DEF OrderlyOK, StagesOK, StageHasDocument, ActivityRevised
<1>5. StageShowsNewest'
  <2>1. tx \in DOMAIN StageChange => tx = "APPROVE_MONITORING"
    BY Tables DEF Reports
  <2>2. StageChange["APPROVE_MONITORING"].to = "AUTHORISED"
    BY DEF StageChange
  <2> QED
    BY <1>2, <2>1, <2>2 DEF StageShowsNewest, ActivityRevised
<1>6. Same({"MON", "VER"})
  BY DEF Same
<1>7. PendingOK'
  BY DEF OrderlyOK, PendingOK, Pending
<1>8. LedgerShown'
  <2>1. \A b : Underway(b)' <=> b = a
    BY <1>2 DEF Underway
  <2>2. \A b : ~Underway(b)
    BY <1>2 DEF Underway
  <2> QED
    BY <1>2, <2>1, <2>2 DEF OrderlyOK, LedgerShown, ActivityRevised
<1> QED
  BY <1>2, <1>3, <1>4, <1>5, <1>7, <1>8 DEF OrderlyOK, StagesOK

LEMMA OrderlyApproveMonitoring ==
    ASSUME IInv, OrderlyOK, NEW c \in Calls, ApproveMonitoring(c)
    PROVE  OrderlyOK'
<1>0. PICK n, a, tx : n = call[c].doc /\ a = docs[n].activity /\ tx = "APPROVE_MONITORING"
  OBVIOUS
<1>1. /\ call[c].step = "decide" /\ call[c].tx = tx /\ tx \in Reports
      /\ call' = [call EXCEPT ![c] = Idle]
      /\ UNCHANGED <<docs, activities, replayed, orderly>>
  BY <1>0 DEF ApproveMonitoring, Reports
<1>2. CASE project.stage = "AUTHORISED" /\ a \notin DOMAIN project.activities
  <2>1. /\ Revise(tx, n)
        /\ project' = [project EXCEPT !.activities =
                        [b \in DOMAIN @ \cup {a} |->
                            IF b = a THEN "MONITORING_REPORT_VERIFIED" ELSE @[b]]]
    BY <1>0, <1>2 DEF ApproveMonitoring
  <2>2. PICK f : f = [b \in DOMAIN project.activities \cup {a} |->
                        IF b = a THEN "MONITORING_REPORT_VERIFIED"
                        ELSE project.activities[b]]
    OBVIOUS
  <2>3. project'.stage = project.stage /\ project'.activities = f
    BY <2>1, <2>2 DEF IInv, DataOK, ProjectOK
  <2>4. /\ DOMAIN f = DOMAIN project.activities \cup {a}
        /\ f[a] = "MONITORING_REPORT_VERIFIED"
        /\ \A b \in DOMAIN project.activities : b # a => f[b] = project.activities[b]
    BY <2>2
  <2>5. ActivityRevised(tx, a)
    BY <1>0, <1>2, <2>3, <2>4 DEF ActivityRevised
  <2> QED
    BY <1>0, <1>1, <2>1, <2>5, ReportRevised
<1>3. CASE ~(project.stage = "AUTHORISED" /\ a \notin DOMAIN project.activities)
  BY <1>0, <1>1, <1>3, CallStops DEF ApproveMonitoring
<1> QED
  BY <1>2, <1>3

LEMMA OrderlyIssue ==
    ASSUME IInv, OrderlyOK, NEW c \in Calls, Issue(c)
    PROVE  OrderlyOK'
<1>0. PICK n, a, tx : n = call[c].doc /\ a = docs[n].activity /\ tx = "ISSUE"
  OBVIOUS
<1>1. /\ call[c].step = "decide" /\ call[c].tx = tx /\ tx \in Reports
      /\ call' = [call EXCEPT ![c] = Idle]
      /\ UNCHANGED <<docs, activities, replayed, orderly>>
  BY <1>0 DEF Issue, Reports
<1>2. CASE CanIssue(c, a)
  <2>1. /\ Revise(tx, n) /\ a \in DOMAIN project.activities
        /\ project' = [project EXCEPT !.activities[a] = "VERIFICATION_REPORT_VERIFIED"]
    BY <1>0, <1>2 DEF Issue, CanIssue
  <2>2. PICK f : f = [project.activities EXCEPT ![a] = "VERIFICATION_REPORT_VERIFIED"]
    OBVIOUS
  <2>3. project'.stage = project.stage /\ project'.activities = f
    BY <2>1, <2>2 DEF IInv, DataOK, ProjectOK
  <2>4. /\ DOMAIN f = DOMAIN project.activities
        /\ f[a] = "VERIFICATION_REPORT_VERIFIED"
        /\ \A b \in DOMAIN project.activities : b # a => f[b] = project.activities[b]
    BY <2>1, <2>2
  <2>5. ActivityRevised(tx, a)
    BY <1>0, <2>1, <2>3, <2>4 DEF ActivityRevised
  <2> QED
    BY <1>0, <1>1, <2>1, <2>5, ReportRevised
<1>3. CASE ~CanIssue(c, a)
  BY <1>0, <1>1, <1>3, CallStops DEF Issue
<1> QED
  BY <1>2, <1>3

-----------------------------------------------------------------------------
(* Reports and their activities.                                           *)

\* A pending report d of activity a is decided; the activity gets state s.
ReportDecided(d, a, status, s) ==
    /\ Pending(d) /\ a = docs[d].activity /\ a \in DOMAIN activities
    /\ docs' = [docs EXCEPT ![d].status = status]
    /\ status # "PENDING"
    /\ activities' = [activities EXCEPT ![a].state = s]
    /\ s \notin {Uploaded.MON, Uploaded.VER}

LEMMA ReportDecidedFacts ==
    ASSUME IInv, PendingOK, NEW d, NEW a, NEW status, NEW s, ReportDecided(d, a, status, s)
    PROVE  /\ PendingOK' /\ Same({"PDD", "VAL"})
           /\ DOMAIN activities' = DOMAIN activities /\ activities'[a].state = s
           /\ \A b \in DOMAIN activities : b # a => activities'[b] = activities[b]
           /\ activities[a].state = Uploaded[docs[d].type]
           /\ \A e \in DOMAIN docs : docs'[e].activity = docs[e].activity
<1>1. /\ docs \in Seq(DocType) /\ activities \in Seq(ActivityType)
      /\ d \in DOMAIN docs /\ docs[d] \in DocType /\ activities[a] \in ActivityType
      /\ docs[d].type \in {"MON", "VER"}
  BY DocFacts DEF IInv, DataOK, RowsOK, ReportDecided, Pending
<1>2. /\ DOMAIN docs' = DOMAIN docs
      /\ \A e \in DOMAIN docs : e # d => docs'[e] = docs[e]
      /\ docs'[d].type = docs[d].type /\ docs'[d].activity = a /\ docs'[d].status = status
  BY <1>1 DEF ReportDecided, DocType
<1>3. /\ DOMAIN activities' = DOMAIN activities /\ activities'[a].state = s
      /\ \A b \in DOMAIN activities : b # a => activities'[b] = activities[b]
  BY <1>1 DEF ReportDecided, ActivityType
<1>4. Same({"PDD", "VAL"})
  BY <1>1, <1>2 DEF Same
<1>5. \A e : Pending(e)' <=> Pending(e) /\ e # d
  BY <1>2 DEF Pending, ReportDecided
<1>6. \A e : Pending(e) /\ e # d => docs[e].activity # a /\ docs'[e] = docs[e]
  BY <1>2 DEF PendingOK, ReportDecided, Pending
<1>7. \A e : Pending(e) => docs[e].activity \in DOMAIN activities
  <2> SUFFICES ASSUME NEW e, Pending(e) PROVE docs[e].activity \in DOMAIN activities
    OBVIOUS
  <2>1. e \in DOMAIN docs /\ docs[e].activity # 0
    BY DEF PendingOK, Pending, NoActivity
  <2> QED
    BY <2>1, <1>1, DocFacts DEF IInv, DataOK, RowsOK
<1>8. PendingOK'
  <2>1. \A e \in DOMAIN docs' :
            docs'[e].type \in {"MON", "VER"} => docs'[e].activity # NoActivity
    BY <1>1, <1>2 DEF PendingOK, ReportDecided
  <2>2. \A e : Pending(e)' => activities'[docs'[e].activity].state = Uploaded[docs'[e].type]
    BY <1>3, <1>5, <1>6, <1>7 DEF PendingOK
  <2>3. \A e, f : Pending(e)' /\ Pending(f)' /\ docs'[e].activity = docs'[f].activity => e = f
    BY <1>5, <1>6 DEF PendingOK
  <2>4. ASSUME NEW b \in DOMAIN activities', activities'[b].state \in {Uploaded.MON, Uploaded.VER}
        PROVE  \E e : Pending(e)' /\ docs'[e].activity = b
    <3>1. b # a /\ activities'[b] = activities[b] /\ b \in DOMAIN activities
      BY <2>4, <1>3 DEF ReportDecided
    <3>2. PICK e : Pending(e) /\ docs[e].activity = b
      BY <2>4, <3>1 DEF PendingOK
    <3>3. e # d
      BY <3>1, <3>2 DEF ReportDecided
    <3> QED
      BY <3>2, <3>3, <1>5, <1>6
  <2> QED
    BY <2>1, <2>2, <2>3, <2>4 DEF PendingOK
<1>9. activities[a].state = Uploaded[docs[d].type]
  BY DEF PendingOK, ReportDecided
<1>10. \A e \in DOMAIN docs : docs'[e].activity = docs[e].activity
  BY <1>2 DEF ReportDecided
<1> QED
  BY <1>3, <1>4, <1>8, <1>9, <1>10

LEMMA OrderlyRejectLocally ==
    ASSUME IInv, OrderlyOK, NEW c \in Calls, RejectLocally(c)
    PROVE  OrderlyOK'
<1>0. PICK n, a, tx, status, s :
        /\ n = call[c].doc /\ a = docs[n].activity /\ tx = call[c].tx
        /\ status = Decision[tx].gives /\ s = LocalState[tx]
  OBVIOUS
<1>1. /\ call[c].step = "decide" /\ tx \in DOMAIN LocalState
      /\ docs' = [docs EXCEPT ![n].status = status]
      /\ a # NoActivity => activities' = [activities EXCEPT ![a].state = s]
      /\ call' = [call EXCEPT ![c] = Idle]
      /\ UNCHANGED <<project, log, replayed>>
  BY <1>0 DEF RejectLocally
<1>2. /\ n \in DOMAIN docs /\ docs[n].type = Decision[tx].type
      /\ docs[n].status = Decision[tx].needs
  BY <1>0, <1>1 DEF IInv, CallsOK, CallOK, OrderlyOK, CallsFresh, Fresh
<1>3. /\ docs[n].type \in {"MON", "VER"} /\ docs[n].status = "PENDING"
      /\ status # "PENDING" /\ s \notin {Uploaded.MON, Uploaded.VER}
      /\ docs[n].type = "MON" => s = "MONITORING_REPORT_REJECTED"
      /\ docs[n].type = "VER" => s = "VERIFICATION_REPORT_REJECTED"
  BY <1>0, <1>1, <1>2 DEF LocalState, Decision, Uploaded
<1>4. Pending(n) /\ a # NoActivity /\ a \in DOMAIN activities
  <2>1. a # NoActivity
    BY <1>0, <1>2, <1>3 DEF OrderlyOK, PendingOK
  <2>2. a \in DOMAIN activities
    BY <1>0, <1>2, <2>1, DocFacts DEF IInv, DataOK, RowsOK, NoActivity
  <2> QED
    BY <1>2, <1>3, <2>1, <2>2 DEF Pending
<1>5. ReportDecided(n, a, status, s)
  BY <1>0, <1>1, <1>3, <1>4 DEF ReportDecided
<1>6. /\ PendingOK' /\ Same({"PDD", "VAL"})
      /\ DOMAIN activities' = DOMAIN activities /\ activities'[a].state = s
      /\ \A b \in DOMAIN activities : b # a => activities'[b] = activities[b]
      /\ activities[a].state = Uploaded[docs[n].type]
      /\ \A e \in DOMAIN docs : docs'[e].activity = docs[e].activity
  BY <1>5, ReportDecidedFacts DEF OrderlyOK
<1>7. ~Lagging /\ ~Lagging' /\ \A d : ~InFlight(d)
  BY <1>1, OnlyCall, NothingInFlight DEF OrderlyOK, Lagging
<1>8. OneAtATime' /\ CallsFresh'
  BY <1>1, <1>7, CallEnds, AllIdle DEF OrderlyOK, IInv
<1>9. StagesOK' /\ DecidedAsSubmitted'
  BY <1>1, <1>6, <1>7, StagesStay DEF OrderlyOK
<1>10. LedgerShown'
  <2>1. \A b : ~Underway(b) /\ ~Underway(b)'
    BY <1>7 DEF Underway
  <2>2. ASSUME NEW b \in DOMAIN activities
        PROVE  /\ b \in DOMAIN project.activities <=>
                    activities'[b].state \notin {"MONITORING_REPORT_UPLOADED",
                                                "MONITORING_REPORT_REJECTED"}
               /\ b \in DOMAIN project.activities =>
                    (project.activities[b] = "VERIFICATION_REPORT_VERIFIED" <=>
                        activities'[b].state = "VERIFICATION_REPORT_VERIFIED")
    <3>1. /\ b \in DOMAIN project.activities <=>
                    activities[b].state \notin {"MONITORING_REPORT_UPLOADED",
                                                "MONITORING_REPORT_REJECTED"}
          /\ b \in DOMAIN project.activities =>
                    (project.activities[b] = "VERIFICATION_REPORT_VERIFIED" <=>
                        activities[b].state = "VERIFICATION_REPORT_VERIFIED")
      BY <2>1 DEF OrderlyOK, LedgerShown
    <3>2. CASE b # a
      BY <3>1, <3>2, <1>6
    <3>3. CASE b = a
      BY <3>1, <3>3, <1>3, <1>6 DEF Uploaded
    <3> QED
      BY <3>2, <3>3
  <2> QED
    BY <1>1, <1>6, <2>1, <2>2 DEF LedgerShown
<1> QED
  BY <1>6, <1>8, <1>9, <1>10 DEF OrderlyOK

\* A new report d of activity a, which is now uploaded.
ReportAdded(d, t, a) ==
    /\ t \in {"MON", "VER"} /\ d \notin DOMAIN docs /\ a # NoActivity
    /\ DOMAIN docs' = DOMAIN docs \cup {d}
    /\ \A e \in DOMAIN docs : docs'[e] = docs[e]
    /\ docs'[d] = Doc(t, a)
    /\ a \in DOMAIN activities' /\ activities'[a].state = Uploaded[t]
    /\ DOMAIN activities \subseteq DOMAIN activities'
    /\ DOMAIN activities' \subseteq DOMAIN activities \cup {a}
    /\ \A b \in DOMAIN activities : b # a => activities'[b] = activities[b]
    /\ a \in DOMAIN activities =>
        activities[a].state \notin {Uploaded.MON, Uploaded.VER}

LEMMA ReportAddedFacts ==
    ASSUME IInv, PendingOK, NEW d, NEW t, NEW a, ReportAdded(d, t, a)
    PROVE  PendingOK' /\ Same({"PDD", "VAL"})
<1>1. docs'[d].type = t /\ docs'[d].activity = a /\ docs'[d].status = "PENDING"
  BY DEF ReportAdded, Doc
<1>2. Same({"PDD", "VAL"})
  BY <1>1 DEF Same, ReportAdded
<1>3. \A e : Pending(e)' <=> Pending(e) \/ e = d
  BY <1>1 DEF Pending, ReportAdded
<1>4. ASSUME NEW e, Pending(e)
      PROVE  /\ docs[e].activity \in DOMAIN activities /\ docs[e].activity # a
             /\ docs'[e] = docs[e]
  <2>1. e \in DOMAIN docs /\ docs[e].activity # 0
    BY <1>4 DEF PendingOK, Pending, NoActivity
  <2>2. docs[e].activity \in DOMAIN activities
    BY <2>1, DocFacts DEF IInv, DataOK, RowsOK
  <2>3. activities[docs[e].activity].state \in {Uploaded.MON, Uploaded.VER}
    BY <1>4 DEF PendingOK, Pending, Uploaded
  <2> QED
    BY <2>1, <2>2, <2>3 DEF ReportAdded
<1>5. PendingOK'
  <2>1. \A e \in DOMAIN docs' :
            docs'[e].type \in {"MON", "VER"} => docs'[e].activity # NoActivity
    BY <1>1 DEF PendingOK, ReportAdded
  <2>2. \A e : Pending(e)' => activities'[docs'[e].activity].state = Uploaded[docs'[e].type]
    BY <1>1, <1>3, <1>4 DEF PendingOK, ReportAdded
  <2>3. \A e, f : Pending(e)' /\ Pending(f)' /\ docs'[e].activity = docs'[f].activity => e = f
    BY <1>1, <1>3, <1>4 DEF PendingOK
  <2>4. ASSUME NEW b \in DOMAIN activities', activities'[b].state \in {Uploaded.MON, Uploaded.VER}
        PROVE  \E e : Pending(e)' /\ docs'[e].activity = b
    <3>1. CASE b = a
      BY <3>1, <1>1, <1>3
    <3>2. CASE b # a
      <4>1. b \in DOMAIN activities /\ activities'[b] = activities[b]
        BY <3>2 DEF ReportAdded
      <4>2. PICK e : Pending(e) /\ docs[e].activity = b
        BY <2>4, <4>1 DEF PendingOK
      <4> QED
        BY <4>2, <1>3, <1>4
    <3> QED
      BY <3>1, <3>2
  <2> QED
    BY <2>1, <2>2, <2>3, <2>4 DEF PendingOK
<1> QED
  BY <1>2, <1>5

\* What a report needs to be uploaded while the ledger knows its activity.
LEMMA OrderlyReport ==
    ASSUME IInv, OrderlyOK, NEW c \in Calls, call[c].step \notin {"idle", "ledger"},
           call' = [call EXCEPT ![c] = Idle], UNCHANGED <<project, log, replayed>>,
           NEW d, NEW t, NEW a, ReportAdded(d, t, a),
           a \in DOMAIN activities =>
                activities[a].state \in IF t = "MON" THEN {"MONITORING_REPORT_REJECTED"}
                    ELSE {"MONITORING_REPORT_VERIFIED", "VERIFICATION_REPORT_REJECTED"},
           a \notin DOMAIN activities => t = "MON"
    PROVE  OrderlyOK'
<1>1. PendingOK' /\ Same({"PDD", "VAL"})
  BY ReportAddedFacts DEF OrderlyOK
<1>2. ~Lagging /\ ~Lagging' /\ \A e : ~InFlight(e)
  BY OnlyCall, NothingInFlight DEF OrderlyOK, Lagging
<1>3. OneAtATime' /\ CallsFresh'
  BY <1>2, CallEnds, AllIdle DEF OrderlyOK, IInv
<1>4. StagesOK' /\ DecidedAsSubmitted'
  BY <1>1, <1>2, StagesStay DEF OrderlyOK
<1>5. LedgerShown'
  <2>1. \A b : ~Underway(b) /\ ~Underway(b)'
    BY <1>2 DEF Underway
  <2>2. ASSUME NEW b \in DOMAIN activities
        PROVE  /\ b \in DOMAIN project.activities <=>
                    activities[b].state \notin {"MONITORING_REPORT_UPLOADED",
                                                "MONITORING_REPORT_REJECTED"}
               /\ b \in DOMAIN project.activities =>
                    (project.activities[b] = "VERIFICATION_REPORT_VERIFIED" <=>
                        activities[b].state = "VERIFICATION_REPORT_VERIFIED")
    BY <2>1 DEF OrderlyOK, LedgerShown
  <2>3. DOMAIN project.activities \subseteq DOMAIN activities
    BY DEF IInv, DataOK, ProjectOK
  <2>4. /\ DOMAIN activities' \subseteq DOMAIN activities \cup {a}
        /\ \A b \in DOMAIN activities : b # a => activities'[b] = activities[b]
        /\ t \in {"MON", "VER"} /\ activities'[a].state = Uploaded[t]
    BY DEF ReportAdded
  <2>5. ASSUME NEW b \in DOMAIN activities'
        PROVE  /\ b \in DOMAIN project.activities <=>
                    activities'[b].state \notin {"MONITORING_REPORT_UPLOADED",
                                                "MONITORING_REPORT_REJECTED"}
               /\ b \in DOMAIN project.activities =>
                    (project.activities[b] = "VERIFICATION_REPORT_VERIFIED" <=>
                        activities'[b].state = "VERIFICATION_REPORT_VERIFIED")
    <3>1. CASE b # a
      BY <2>2, <2>4, <3>1
    <3>2. CASE b = a /\ a \in DOMAIN activities
      BY <2>2, <2>4, <3>2 DEF Uploaded
    <3>3. CASE b = a /\ a \notin DOMAIN activities
      BY <2>3, <2>4, <3>3 DEF Uploaded
    <3> QED
      BY <3>1, <3>2, <3>3
  <2> QED
    BY <2>1, <2>5 DEF LedgerShown
<1> QED
  BY <1>1, <1>3, <1>4, <1>5 DEF OrderlyOK

LEMMA OrderlySaveMonitoring ==
    ASSUME IInv, OrderlyOK, orderly', NEW c \in Calls, NEW commit \in BOOLEAN,
           SaveMonitoring(c, commit)
    PROVE  OrderlyOK'
<1>0. PICK n, a, k, s :
        /\ n = Len(docs) + 1 /\ k = call[c] /\ s = "MONITORING_REPORT_UPLOADED"
        /\ a = IF ~k.new THEN k.activity ELSE Len(activities) + 1
  OBVIOUS
<1>1. commit
  BY DEF SaveMonitoring
<1>2. /\ k.step = "monitoring" /\ docs' = Append(docs, Doc("MON", a))
      /\ k.new => activities' = Append(activities, [version |-> k.version, state |-> s])
      /\ ~k.new => activities' = [activities EXCEPT ![a].state = s]
      /\ call' = [call EXCEPT ![c] = Idle]
      /\ UNCHANGED <<project, log, replayed>>
  BY <1>0, <1>1 DEF SaveMonitoring
<1>3. /\ docs \in Seq(DocType) /\ activities \in Seq(ActivityType) /\ Len(activities) \in Nat
  BY DEF IInv, DataOK, RowsOK
<1>4. /\ k.activity \in 0..Len(activities) /\ (~k.new => k.activity # NoActivity)
      /\ ~k.new => activities[k.activity].state = "MONITORING_REPORT_REJECTED"
  BY <1>0, <1>2 DEF IInv, CallsOK, CallOK, OrderlyOK, CallsFresh, Fresh
<1>5. /\ n \notin DOMAIN docs /\ DOMAIN docs' = DOMAIN docs \cup {n}
      /\ \A e \in DOMAIN docs : docs'[e] = docs[e]
      /\ docs'[n] = Doc("MON", a)
  BY <1>0, <1>2, <1>3
<1>6. ReportAdded(n, "MON", a) /\ (a \in DOMAIN activities =>
            activities[a].state = "MONITORING_REPORT_REJECTED")
  <2>1. CASE k.new
    <3>1. PICK row : row = [version |-> k.version, state |-> s]
      OBVIOUS
    <3>2. row.state = Uploaded["MON"] /\ activities' = Append(activities, row)
      BY <1>0, <1>2, <2>1, <3>1 DEF Uploaded
    <3>3. /\ a \notin DOMAIN activities /\ a # NoActivity
          /\ DOMAIN activities' = DOMAIN activities \cup {a}
          /\ activities'[a] = row
          /\ \A b \in DOMAIN activities : activities'[b] = activities[b]
      BY <1>0, <1>3, <2>1, <3>2 DEF NoActivity
    <3> QED
      BY <1>5, <3>2, <3>3 DEF ReportAdded
  <2>2. CASE ~k.new
    <3>1. /\ a \in DOMAIN activities /\ a # NoActivity /\ activities[a] \in ActivityType
          /\ activities[a].state = "MONITORING_REPORT_REJECTED"
      BY <1>0, <1>3, <1>4, <2>2 DEF NoActivity
    <3>2. /\ DOMAIN activities' = DOMAIN activities
          /\ activities'[a].state = s
          /\ \A b \in DOMAIN activities : b # a => activities'[b] = activities[b]
      BY <1>2, <1>3, <2>2, <3>1 DEF ActivityType
    <3>3. Uploaded["MON"] = s /\ activities[a].state \notin {Uploaded.MON, Uploaded.VER}
      BY <1>0, <3>1 DEF Uploaded
    <3> QED
      BY <1>5, <3>1, <3>2, <3>3 DEF ReportAdded
  <2> QED
    BY <2>1, <2>2
<1> QED
  BY <1>0, <1>2, <1>6, OrderlyReport

LEMMA OrderlySaveVerification ==
    ASSUME IInv, OrderlyOK, orderly', NEW c \in Calls, NEW commit \in BOOLEAN,
           SaveVerification(c, commit)
    PROVE  OrderlyOK'
<1>0. PICK n, a, s :
        n = Len(docs) + 1 /\ a = call[c].activity /\ s = "VERIFICATION_REPORT_UPLOADED"
  OBVIOUS
<1>1. commit
  BY DEF SaveVerification
<1>2. /\ call[c].step = "verification" /\ docs' = Append(docs, Doc("VER", a))
      /\ activities' = [activities EXCEPT ![a].state = s]
      /\ call' = [call EXCEPT ![c] = Idle]
      /\ UNCHANGED <<project, log, replayed>>
  BY <1>0, <1>1 DEF SaveVerification
<1>3. /\ docs \in Seq(DocType) /\ activities \in Seq(ActivityType) /\ Len(activities) \in Nat
  BY DEF IInv, DataOK, RowsOK
<1>4. /\ a \in DOMAIN activities /\ a # NoActivity /\ activities[a] \in ActivityType
      /\ activities[a].state \in {"MONITORING_REPORT_VERIFIED", "VERIFICATION_REPORT_REJECTED"}
  BY <1>0, <1>2, <1>3 DEF IInv, CallsOK, CallOK, OrderlyOK, CallsFresh, Fresh, NoActivity
<1>5. /\ n \notin DOMAIN docs /\ DOMAIN docs' = DOMAIN docs \cup {n}
      /\ \A e \in DOMAIN docs : docs'[e] = docs[e]
      /\ docs'[n] = Doc("VER", a)
  BY <1>0, <1>2, <1>3
<1>6. /\ DOMAIN activities' = DOMAIN activities
      /\ activities'[a].state = s
      /\ \A b \in DOMAIN activities : b # a => activities'[b] = activities[b]
  BY <1>2, <1>3, <1>4 DEF ActivityType
<1>7. Uploaded["VER"] = s /\ activities[a].state \notin {Uploaded.MON, Uploaded.VER}
  BY <1>0, <1>4 DEF Uploaded
<1>8. ReportAdded(n, "VER", a)
  BY <1>4, <1>5, <1>6, <1>7 DEF ReportAdded
<1> QED
  BY <1>2, <1>4, <1>8, OrderlyReport

-----------------------------------------------------------------------------
(* The replicator.                                                         *)

LEMMA ReplicateFacts ==
    ASSUME IInv, OneAtATime, CallsOK, Replicate
    PROVE  /\ Lagging /\ ~Lagging' /\ Newest' = Newest
           /\ \A c \in Calls : call[c] = Idle
           /\ OneAtATime' /\ CallsFresh'
           /\ Newest.doc \in DOMAIN docs /\ Newest.tx \in Recorded
           /\ Newest.tx \in DOMAIN Decision =>
                /\ docs[Newest.doc].type = Decision[Newest.tx].type
                /\ docs[Newest.doc].status = Decision[Newest.tx].needs
           /\ Modify(Newest) /\ UNCHANGED <<project, log, call>>
           /\ Len(log) > 0
<1>1. /\ replayed < Len(log) /\ Modify(log[replayed + 1]) /\ replayed' = replayed + 1
      /\ UNCHANGED <<project, log, call, orderly>>
  BY DEF Replicate
<1>2. replayed \in Nat /\ Len(log) \in Nat /\ log \in Seq(Revision)
  BY DEF IInv, DataOK, RowsOK
<1>3. Lagging /\ replayed = Len(log) - 1 /\ ~Lagging' /\ Newest' = Newest
  BY <1>1, <1>2 DEF Lagging, OneAtATime, Newest
<1>4. \A c \in Calls : call[c] = Idle /\ call'[c] = Idle
  BY <1>1, <1>3 DEF OneAtATime
<1>5. OneAtATime' /\ CallsFresh'
  BY <1>3, <1>4, AllIdle
<1>6. Modify(Newest)
  BY <1>1, <1>2, <1>3 DEF Newest
<1>7. Len(log) > 0 /\ Len(log) \in DOMAIN log /\ log[Len(log)] \in Revision
  BY <1>1, <1>2
<1>8. Named(Len(log))
  BY <1>7 DEF IInv, DataOK, LogOK, NamedOK
<1>9. /\ Newest.doc \in DOMAIN docs /\ Newest.tx \in Recorded
      /\ Newest.tx \in DOMAIN Decision =>
                /\ docs[Newest.doc].type = Decision[Newest.tx].type
                /\ docs[Newest.doc].status = Decision[Newest.tx].needs
  BY <1>3, <1>7, <1>8 DEF Named, Newest, Revision, OneAtATime
<1> QED
  BY <1>1, <1>3, <1>4, <1>5, <1>6, <1>7, <1>9

\* Replicated submissions change no document.
LEMMA ReplicateSubmission ==
    ASSUME IInv, OrderlyOK, Replicate, Newest.tx \notin DOMAIN Decision
    PROVE  OrderlyOK'
<1>1. /\ Lagging /\ ~Lagging' /\ Newest' = Newest /\ OneAtATime' /\ CallsFresh'
      /\ \A c \in Calls : call[c] = Idle
      /\ Modify(Newest) /\ UNCHANGED <<project, log, call>>
  BY ReplicateFacts DEF OrderlyOK, IInv
<1>2. UNCHANGED <<docs, activities>>
  BY <1>1 DEF Modify
<1>3. \A d : ~InFlight(d)
  BY <1>1 DEF InFlight, Idle
<1>4. ASSUME NEW t \in {"PDD", "VAL"}, DesignOK(t) PROVE DesignOK(t)'
  <2>1. \A d : Live(t, d)' <=> Live(t, d)
    BY <1>2 DEF Live
  <2> QED
    BY <1>1, <1>3, <1>4, <2>1 DEF DesignOK
<1>5. StageHasDocument' /\ StageShowsNewest' /\ DecidedAsSubmitted'
  BY <1>1, <1>2 DEF OrderlyOK, StagesOK, StageHasDocument, StageShowsNewest,
                    DecidedAsSubmitted
<1>6. Same({"MON", "VER"})
  BY <1>2 DEF Same
<1>7. Newest.tx \notin Reports
  BY DEF Reports, Decision
<1>8. PendingOK' /\ LedgerShown'
  BY <1>1, <1>2, <1>6, <1>7, ReportsStay DEF OrderlyOK, Underway
<1> QED
  BY <1>1, <1>4, <1>5, <1>8 DEF OrderlyOK, StagesOK

LEMMA ReplicateStage ==
    ASSUME IInv, OrderlyOK, Replicate, Newest.tx \in DOMAIN Decision, Newest.tx \notin Reports
    PROVE  OrderlyOK'
<1>0. PICK tx, n, gives : tx = Newest.tx /\ n = Newest.doc /\ gives = Decision[tx].gives
  OBVIOUS
<1>1. /\ Lagging /\ ~Lagging' /\ Newest' = Newest /\ OneAtATime' /\ CallsFresh'
      /\ \A c \in Calls : call[c] = Idle
      /\ n \in DOMAIN docs /\ tx \in Recorded /\ tx \in DOMAIN Decision
      /\ docs[n].type = Decision[tx].type
      /\ docs[n].status = Decision[tx].needs
      /\ Modify(Newest) /\ UNCHANGED <<project, log, call>> /\ Len(log) > 0
  BY <1>0, ReplicateFacts DEF OrderlyOK, IInv
<1>2. docs' = [docs EXCEPT ![n].status = gives] /\ UNCHANGED activities
  BY <1>0, <1>1 DEF Modify, Reports
<1>3. docs \in Seq(DocType) /\ docs[n] \in DocType
  BY <1>1, DocFacts DEF IInv, DataOK, RowsOK
<1>4. /\ DOMAIN docs' = DOMAIN docs
      /\ \A e \in DOMAIN docs : e # n => docs'[e] = docs[e]
      /\ docs'[n].type = docs[n].type /\ docs'[n].status = gives
  BY <1>1, <1>2, <1>3 DEF DocType
<1>5. /\ tx \in DOMAIN StageChange /\ Decision[tx].type \in {"INF", "PDD", "VAL"}
      /\ gives \in {"PENDING", "IC_APPROVED"} => tx = "APPROVE_PDD_BY_IC"
  <2>1. tx \in DOMAIN StageChange
    BY <1>0, <1>1 DEF Recorded, Reports
  <2>2. tx \notin DOMAIN LocalState
    BY <2>1, Tables
  <2>3. /\ Decision[tx].type \in {"INF", "PDD", "VAL"}
        /\ gives \in {"PENDING", "IC_APPROVED"} => tx = "APPROVE_PDD_BY_IC"
    BY <1>0, <1>1, <2>2 DEF Decision, Reports, LocalState
  <2> QED
    BY <2>1, <2>3
<1>6. project'.stage = project.stage /\ project.stage = StageChange[tx].to
  BY <1>0, <1>1, <1>5 DEF OrderlyOK, StagesOK, StageShowsNewest
<1>7. \A d : InFlight(d) => d = n
  BY <1>0, <1>1 DEF InFlight, Idle
<1>8. ASSUME NEW t \in {"PDD", "VAL"}, DesignOK(t) PROVE DesignOK(t)'
  <2>1. \A d : Live(t, d)' => Live(t, d)
    <3> SUFFICES ASSUME NEW d, Live(t, d)' PROVE Live(t, d)
      OBVIOUS
    <3>1. d \in DOMAIN docs /\ docs[d].type = t
      BY <1>4 DEF Live
    <3>2. d = n => docs[d].status \in {"PENDING", "IC_APPROVED"}
      BY <1>1, DecisionFacts
    <3> QED
      BY <3>1, <3>2, <1>4 DEF Live
  <2>2. ASSUME NEW d, Live(t, d)' PROVE project'.stage \in LiveStages[t]
    <3>1. CASE project.stage \in LiveStages[t]
      BY <3>1, <1>6
    <3>2. CASE d = n
      <4>1. tx = "APPROVE_PDD_BY_IC" /\ Decision[tx].type = t
        BY <2>2, <3>2, <1>1, <1>4, <1>5 DEF Live
      <4>2. t = "PDD" /\ StageChange[tx].to = "PDD_APPROVED_BY_CERTIFIER"
        BY <4>1 DEF Decision, StageChange
      <4> QED
        BY <4>2, <1>6 DEF LiveStages
    <3> QED
      BY <2>1, <2>2, <3>1, <3>2, <1>7, <1>8 DEF DesignOK
  <2> QED
    BY <1>1, <1>8, <2>1, <2>2 DEF DesignOK
<1>9. StageHasDocument'
  <2> SUFFICES ASSUME project'.stage \in DOMAIN Awaited
               PROVE  \E d \in DOMAIN docs' :
                        /\ docs'[d].type = Awaited[project'.stage].type
                        /\ docs'[d].status = Awaited[project'.stage].status
    BY DEF StageHasDocument
  <2>1. /\ tx = "APPROVE_PDD_BY_IC"
        /\ Awaited[project'.stage] = [type |-> "PDD", status |-> "IC_APPROVED"]
    BY <1>1, <1>5, <1>6, StageFacts
  <2>2. Decision[tx].type = "PDD" /\ gives = "IC_APPROVED"
    BY <1>0, <2>1 DEF Decision
  <2> QED
    BY <1>1, <1>4, <2>1, <2>2
<1>10. StageShowsNewest' /\ DecidedAsSubmitted'
  BY <1>1, <1>6 DEF OrderlyOK, StagesOK, StageShowsNewest, DecidedAsSubmitted
<1>11. Same({"MON", "VER"})
  BY <1>1, <1>4, <1>5 DEF Same
<1>12. PendingOK' /\ LedgerShown'
  BY <1>0, <1>1, <1>2, <1>11, ReportsStay DEF OrderlyOK, Underway
<1> QED
  BY <1>1, <1>8, <1>9, <1>10, <1>12 DEF OrderlyOK, StagesOK

LEMMA ReplicateReport ==
    ASSUME IInv, OrderlyOK, Replicate, Newest.tx \in Reports
    PROVE  OrderlyOK'
<1>0. PICK tx, n, gives, a, s :
        /\ tx = Newest.tx /\ n = Newest.doc /\ gives = Decision[tx].gives
        /\ a = docs[n].activity /\ s = ReplicatedState(tx)
  OBVIOUS
<1>1. /\ Lagging /\ ~Lagging' /\ Newest' = Newest /\ OneAtATime' /\ CallsFresh'
      /\ \A c \in Calls : call[c] = Idle
      /\ n \in DOMAIN docs
      /\ tx \in DOMAIN Decision =>
            docs[n].type = Decision[tx].type /\ docs[n].status = Decision[tx].needs
      /\ Modify(Newest) /\ UNCHANGED <<project, log, call>>
  BY <1>0, ReplicateFacts DEF OrderlyOK, IInv
<1>2. /\ tx \in Reports /\ tx \in DOMAIN Decision
      /\ Decision[tx].type = IF tx = "ISSUE" THEN "VER" ELSE "MON"
      /\ Decision[tx].needs = "PENDING" /\ gives # "PENDING"
  BY <1>0 DEF Decision, Reports
<1>3. /\ docs' = [docs EXCEPT ![n].status = gives]
      /\ activities' = [activities EXCEPT ![a].state = s]
  BY <1>0, <1>1, <1>2 DEF Modify, Reports
<1>4. /\ s = IF tx = "ISSUE" THEN "VERIFICATION_REPORT_VERIFIED"
             ELSE "MONITORING_REPORT_VERIFIED"
      /\ s \notin {Uploaded.MON, Uploaded.VER}
  BY <1>0 DEF ReplicatedState, Uploaded
<1>5. Pending(n)
  BY <1>1, <1>2 DEF Pending
<1>6. a \in DOMAIN activities
  <2>1. a # 0
    BY <1>0, <1>5 DEF OrderlyOK, PendingOK, Pending, NoActivity
  <2> QED
    BY <1>0, <1>1, <2>1, DocFacts DEF IInv, DataOK, RowsOK
<1>7. ReportDecided(n, a, gives, s)
  BY <1>0, <1>2, <1>3, <1>4, <1>5, <1>6 DEF ReportDecided
<1>8. /\ PendingOK' /\ Same({"PDD", "VAL"})
      /\ DOMAIN activities' = DOMAIN activities /\ activities'[a].state = s
      /\ \A b \in DOMAIN activities : b # a => activities'[b] = activities[b]
      /\ activities[a].state = Uploaded[docs[n].type]
      /\ \A e \in DOMAIN docs : docs'[e].activity = docs[e].activity
  BY <1>7, ReportDecidedFacts DEF OrderlyOK
<1>9. \A d : InFlight(d) => d = n
  BY <1>0, <1>1 DEF InFlight, Idle
<1>10. ASSUME NEW t \in {"PDD", "VAL"}, DesignOK(t) PROVE DesignOK(t)'
  <2>1. \A d : Live(t, d)' => Live(t, d)
    BY <1>8 DEF Live, Same
  <2>2. ~Live(t, n)
    BY <1>5 DEF Live, Pending
  <2> QED
    BY <1>1, <1>9, <1>10, <2>1, <2>2 DEF DesignOK
<1>11. StageHasDocument'
  <2>1. CASE tx = "APPROVE_MONITORING"
    <3>1. tx \in DOMAIN StageChange /\ StageChange[tx].to = "AUTHORISED"
      BY <2>1 DEF StageChange
    <3>2. project.stage = "AUTHORISED"
      <4>1. Len(log) > 0
        BY ReplicateFacts DEF OrderlyOK, IInv
      <4> QED
        BY <4>1, <3>1, <1>0 DEF OrderlyOK, StagesOK, StageShowsNewest
    <3> QED
      BY <3>2, <1>1 DEF StageHasDocument, Awaited
  <2>2. CASE tx = "ISSUE"
    <3>1. tx \notin DOMAIN StageChange
      BY <2>2 DEF StageChange
    <3>2. \A d \in DOMAIN docs : docs[d].type \in {"PDD", "VAL"} =>
            d \in DOMAIN docs' /\ docs'[d] = docs[d]
      BY <1>8 DEF Same
    <3>3. \A st \in DOMAIN Awaited : Awaited[st].type \in {"PDD", "VAL"}
      BY StageFacts
    <3> QED
      BY <1>0, <1>1, <3>1, <3>2, <3>3 DEF OrderlyOK, StagesOK, StageHasDocument
  <2> QED
    BY <1>2, <2>1, <2>2 DEF Reports
<1>12. StageShowsNewest' /\ DecidedAsSubmitted'
  BY <1>1 DEF OrderlyOK, StagesOK, StageShowsNewest, DecidedAsSubmitted
<1>13. LedgerShown'
  <2>1. \A b : /\ Underway(b) <=> b = a
               /\ ~Underway(b)'
    BY <1>0, <1>1, <1>2 DEF Underway
  <2>2. /\ a \in DOMAIN project.activities
        /\ project.activities[a] = "VERIFICATION_REPORT_VERIFIED" <=> tx = "ISSUE"
    BY <1>0, <1>6, <2>1 DEF OrderlyOK, LedgerShown
  <2>3. ASSUME NEW b \in DOMAIN activities, b # a
        PROVE  /\ b \in DOMAIN project.activities <=>
                    activities[b].state \notin {"MONITORING_REPORT_UPLOADED",
                                                "MONITORING_REPORT_REJECTED"}
               /\ b \in DOMAIN project.activities =>
                    (project.activities[b] = "VERIFICATION_REPORT_VERIFIED" <=>
                        activities[b].state = "VERIFICATION_REPORT_VERIFIED")
    BY <2>1, <2>3 DEF OrderlyOK, LedgerShown
  <2>4. ASSUME NEW b \in DOMAIN activities
        PROVE  /\ b \in DOMAIN project.activities <=>
                    activities'[b].state \notin {"MONITORING_REPORT_UPLOADED",
                                                "MONITORING_REPORT_REJECTED"}
               /\ b \in DOMAIN project.activities =>
                    (project.activities[b] = "VERIFICATION_REPORT_VERIFIED" <=>
                        activities'[b].state = "VERIFICATION_REPORT_VERIFIED")
    BY <1>4, <1>8, <2>2, <2>3
  <2> QED
    BY <1>1, <1>8, <2>1, <2>4 DEF LedgerShown
<1> QED
  BY <1>1, <1>8, <1>10, <1>11, <1>12, <1>13 DEF OrderlyOK, StagesOK

-----------------------------------------------------------------------------
LEMMA AuthorisedInOrder ==
    /\ \A i \in DOMAIN AuthorisedLog : AuthorisedLog[i].tx \in DOMAIN Submission =>
        Submission[AuthorisedLog[i].tx] =
            IF AuthorisedLog[i].doc = 1 THEN "INF"
            ELSE IF AuthorisedLog[i].doc = 2 THEN "PDD" ELSE "VAL"
    /\ AuthorisedLog[7].tx = "APPROVE_VALIDATION"
<1> DEFINE R(tx, d) == [tx |-> tx, doc |-> d]
<1>1. AuthorisedLog = <<R("CREATE_PROJECT", 1), R("APPROVE_INF", 1), R("CREATE_PDD", 2),
                        R("APPROVE_PDD_BY_IC", 2), R("APPROVE_PDD_BY_DNA", 2),
                        R("CREATE_VALIDATION_REPORT", 3), R("APPROVE_VALIDATION", 3)>>
  BY DEF AuthorisedLog
<1>2. \A tx, d : R(tx, d).tx = tx /\ R(tx, d).doc = d
  OBVIOUS
<1>3. /\ Submission["CREATE_PROJECT"] = "INF" /\ Submission["CREATE_PDD"] = "PDD"
      /\ Submission["CREATE_VALIDATION_REPORT"] = "VAL"
  BY DEF Submission
<1> HIDE DEF R
<1>4. DOMAIN AuthorisedLog = 1..7
  BY AuthorisedStart
<1> QED
  BY <1>1, <1>2, <1>3, <1>4, Tables

LEMMA OrderlyInit == Init => OrderlyOK
<1> SUFFICES ASSUME Init PROVE OrderlyOK
  OBVIOUS
<1>1. /\ activities = <<>> /\ replayed = Len(log) /\ \A c \in Calls : call[c] = Idle
  BY DEF Init
<1>2. \/ docs = <<>> /\ log = <<>> /\ project = [stage |-> "NONE", activities |-> <<>>]
      \/ /\ docs = <<Approved("INF"), Approved("PDD"), Approved("VAL")>>
         /\ log = AuthorisedLog
         /\ project = [stage |-> "AUTHORISED", activities |-> <<>>]
  BY DEF Init
<1>3. ~Lagging
  BY <1>1, <1>2, AuthorisedStart DEF Lagging
<1>4. OneAtATime /\ CallsFresh
  BY <1>1, <1>3 DEF OneAtATime, CallsFresh, Fresh, Idle
<1>5. \A d \in DOMAIN docs :
        docs[d].status = "DNA_APPROVED" /\ docs[d].type \in {"INF", "PDD", "VAL"}
  <2>1. \A t \in {"INF", "PDD", "VAL"} :
            Approved(t).status = "DNA_APPROVED" /\ Approved(t).type = t
    BY DEF Approved
  <2> QED
    BY <1>2, <2>1
<1>6. DesignOK("PDD") /\ DesignOK("VAL")
  BY <1>5 DEF DesignOK, Live
<1>7. StageHasDocument /\ StageShowsNewest
  <2>1. project.stage \notin DOMAIN Awaited
    BY <1>2 DEF Awaited
  <2>2. StageChange["APPROVE_VALIDATION"].to = "AUTHORISED"
    BY DEF StageChange
  <2>3. StageHasDocument
    BY <2>1 DEF StageHasDocument
  <2>4. CASE log = <<>>
    <3>1. Len(log) = 0
      BY <2>4
    <3> QED
      BY <2>3, <3>1 DEF StageShowsNewest
  <2>5. CASE log = AuthorisedLog /\ project.stage = "AUTHORISED"
    <3>1. Len(log) = 7 /\ Newest = AuthorisedLog[7]
      BY <2>5, AuthorisedStart DEF Newest
    <3>2. Newest.tx = "APPROVE_VALIDATION"
      BY <3>1, AuthorisedInOrder
    <3> QED
      BY <2>2, <2>3, <2>5, <3>1, <3>2 DEF StageShowsNewest
  <2>6. project.stage = "AUTHORISED" \/ log = <<>>
    BY <1>2
  <2> QED
    BY <1>2, <2>4, <2>5, <2>6
<1>8. DecidedAsSubmitted
  <2>1. CASE log = <<>>
    BY <2>1 DEF DecidedAsSubmitted
  <2>2. CASE log = AuthorisedLog
    <3> SUFFICES ASSUME NEW i \in 1..7, log[i].tx \in DOMAIN Decision,
                        NEW j \in 1..(i - 1),
                        SubmittedAs(log[j].tx, Decision[log[i].tx].type)
                 PROVE  log[j].doc <= log[i].doc
      BY <2>2, AuthorisedStart DEF DecidedAsSubmitted
    <3>1. i \in DOMAIN AuthorisedLog /\ j \in DOMAIN AuthorisedLog
      BY AuthorisedStart
    <3>2. log[i].doc \in 1..3 /\ log[j].doc \in 1..3
      BY <2>2, <3>1, AuthorisedStart
    <3> QED
      BY <2>2, <3>1, <3>2, AuthorisedStart, AuthorisedInOrder DEF SubmittedAs
  <2> QED
    BY <1>2, <2>1, <2>2
<1>9. PendingOK /\ LedgerShown
  BY <1>1, <1>5 DEF PendingOK, Pending, LedgerShown
<1> QED
  BY <1>4, <1>6, <1>7, <1>8, <1>9 DEF OrderlyOK, StagesOK

LEMMA OrderlyNext == OInv /\ [Next]_lifecycleVars => OInv'
<1> SUFFICES ASSUME OInv, [Next]_lifecycleVars PROVE OInv'
  OBVIOUS
<1>1. IInv /\ IInv'
  BY NextOK DEF OInv
<1> SUFFICES ASSUME orderly' PROVE OrderlyOK'
  BY <1>1 DEF OInv
<1>2. CASE UNCHANGED lifecycleVars
  <2>1. OrderlyOK
    BY <1>2 DEF OInv, lifecycleVars
  <2> QED
    BY <1>2, <2>1 DEF lifecycleVars, OrderlyOK, OneAtATime, Lagging, Newest, CallsFresh, Fresh,
        StagesOK, DesignOK, Live, InFlight, StageHasDocument, StageShowsNewest,
        DecidedAsSubmitted, PendingOK, Pending, LedgerShown, Underway
<1>3. CASE Next
  <2>1. orderly
    BY <1>3 DEF Next, StartSubmission, SaveDocument, Submit, StartMonitoring,
        StartVerification, SaveMonitoring, SaveVerification, StartDecision, RejectLocally,
        DecideStage, ApproveMonitoring, Issue, Abandon, Replicate, ReplicateAgain
  <2>2. OrderlyOK
    BY <2>1 DEF OInv
  <2>3. ASSUME NEW c \in Calls,
               \/ \E tx \in DOMAIN Submission : StartSubmission(c, tx)
               \/ \E a \in 0..Len(activities) : StartMonitoring(c, a) \/ StartVerification(c, a)
               \/ \E d \in DOMAIN docs, tx \in DOMAIN Decision : StartDecision(c, d, tx)
        PROVE  OrderlyOK'
    BY <1>1, <2>2, <2>3, OrderlyStarts
  <2>4. ASSUME NEW c \in Calls, SaveDocument(c) \/ Submit(c) PROVE OrderlyOK'
    BY <1>1, <2>2, <2>4, OrderlySaveDocument, OrderlySubmit
  <2>5. ASSUME NEW c \in Calls, NEW commit \in BOOLEAN,
               SaveMonitoring(c, commit) \/ SaveVerification(c, commit)
        PROVE  OrderlyOK'
    BY <1>1, <2>2, <2>5, OrderlySaveMonitoring, OrderlySaveVerification
  <2>6. ASSUME NEW c \in Calls, RejectLocally(c) \/ DecideStage(c) PROVE OrderlyOK'
    BY <1>1, <2>2, <2>6, OrderlyRejectLocally, OrderlyDecideStage
  <2>7. ASSUME NEW c \in Calls, ApproveMonitoring(c) \/ Issue(c) PROVE OrderlyOK'
    BY <1>1, <2>2, <2>7, OrderlyApproveMonitoring, OrderlyIssue
  <2>8. ASSUME NEW c \in Calls, Abandon(c) PROVE OrderlyOK'
    BY <1>1, <2>2, <2>8, OrderlyAbandon
  <2>9. CASE Replicate
    BY <1>1, <2>2, <2>9, ReplicateSubmission, ReplicateStage, ReplicateReport
  <2>10. ~ReplicateAgain
    BY DEF ReplicateAgain
  <2> QED
    BY <1>3, <2>3, <2>4, <2>5, <2>6, <2>7, <2>8, <2>9, <2>10 DEF Next
<1> QED
  BY <1>2, <1>3


\* The invariant of orderly behaviours.
THEOREM OrderlyInvariant == Spec => []OInv
<1>1. Init => OInv
  BY InitOK, OrderlyInit DEF OInv
<1> QED
  BY <1>1, OrderlyNext, PTL DEF Spec

\* A decision names the document that was submitted last.
THEOREM DecidesOnLatest == Spec => []OrderlyDecidesOnSubmitted
<1>1. OInv => OrderlyDecidesOnSubmitted
  BY DEF OInv, OrderlyOK, DecidedAsSubmitted, SubmittedAs, OrderlyDecidesOnSubmitted
<1> QED
  BY <1>1, OrderlyInvariant, PTL

\* Issued credits are never shown as a rejected or pending report.
THEOREM IssueIsShown == Spec => []OrderlyShowsIssue
<1>1. OInv => OrderlyShowsIssue
  <2> SUFFICES ASSUME OInv, orderly, replayed = Len(log),
                      NEW a \in DOMAIN project.activities,
                      project.activities[a] = "VERIFICATION_REPORT_VERIFIED"
               PROVE  activities[a].state = "VERIFICATION_REPORT_VERIFIED"
    BY DEF OrderlyShowsIssue
  <2>1. ~Underway(a)
    BY DEF Underway, Lagging, OInv, IInv, DataOK, RowsOK
  <2>2. a \in DOMAIN activities
    BY DEF OInv, IInv, DataOK, ProjectOK
  <2> QED
    BY <2>1, <2>2 DEF OInv, OrderlyOK, LedgerShown
<1> QED
  BY <1>1, OrderlyInvariant, PTL

\* Unless a project was rejected, some document can be submitted or decided.
THEOREM NeverStuck == Spec => []OrderlyIsNeverStuck
<1>1. OInv => OrderlyIsNeverStuck
  <2> SUFFICES ASSUME OInv, orderly, Quiet, project.stage # "REJECTED",
                      \A tx \in DOMAIN Submission : project.stage \notin StageChange[tx].from,
                      project.stage = "AUTHORISED" =>
                        \E a \in LastActivities :
                            activities[a].state \in {"MONITORING_REPORT_UPLOADED",
                                                     "VERIFICATION_REPORT_UPLOADED"}
               PROVE  \E d \in DOMAIN docs, tx \in DOMAIN Decision :
                        /\ docs[d].type = Decision[tx].type
                        /\ docs[d].status = Decision[tx].needs
                        /\ tx \in DOMAIN StageChange =>
                            project.stage \in StageChange[tx].from
                        /\ tx = "APPROVE_MONITORING" =>
                            docs[d].activity \notin DOMAIN project.activities
                        /\ tx = "ISSUE" =>
                            /\ docs[d].activity \in DOMAIN project.activities
                            /\ project.activities[docs[d].activity] = "MONITORING_REPORT_VERIFIED"
                            /\ activities[docs[d].activity].state =
                                "VERIFICATION_REPORT_UPLOADED"
    BY DEF OrderlyIsNeverStuck
  <2>1. ~Lagging
    BY DEF Quiet, Lagging, OInv, IInv, DataOK, RowsOK
  <2>2. project.stage \in DOMAIN Awaited \cup {"AUTHORISED"}
    <3>1. project.stage \in Stages
      BY DEF OInv, IInv, DataOK, ProjectOK
    <3>2. \A s \in Stages : \/ s \in DOMAIN Awaited \cup {"AUTHORISED", "REJECTED"}
                            \/ \E tx \in DOMAIN Submission : s \in StageChange[tx].from
      BY DEF Stages, StageChange, Submission, Awaited
    <3> QED
      BY <3>1, <3>2
  <2>3. CASE project.stage \in DOMAIN Awaited
    <3>1. PICK d \in DOMAIN docs : /\ docs[d].type = Awaited[project.stage].type
                                   /\ docs[d].status = Awaited[project.stage].status
      BY <2>1, <2>3 DEF OInv, OrderlyOK, StagesOK, StageHasDocument
    <3>2. \E tx \in {"APPROVE_PDD_BY_IC", "APPROVE_PDD_BY_DNA", "APPROVE_VALIDATION"} :
            /\ tx \in DOMAIN Decision
            /\ Decision[tx].type = Awaited[project.stage].type
            /\ Decision[tx].needs = Awaited[project.stage].status
            /\ project.stage \in StageChange[tx].from
      BY <2>3 DEF Awaited, Decision, StageChange
    <3> QED
      BY <3>1, <3>2
  <2>4. CASE project.stage = "AUTHORISED"
    <3>1. PICK a \in DOMAIN activities :
            activities[a].state \in {"MONITORING_REPORT_UPLOADED",
                                     "VERIFICATION_REPORT_UPLOADED"}
      BY <2>4 DEF LastActivities
    <3>2. PICK d : Pending(d) /\ docs[d].activity = a
      BY <3>1 DEF OInv, OrderlyOK, PendingOK, Uploaded
    <3>3. activities[a].state = Uploaded[docs[d].type]
      BY <3>2 DEF OInv, OrderlyOK, PendingOK
    <3>4. /\ a \in DOMAIN project.activities <=>
                    activities[a].state \notin {"MONITORING_REPORT_UPLOADED",
                                                "MONITORING_REPORT_REJECTED"}
          /\ a \in DOMAIN project.activities =>
                    (project.activities[a] = "VERIFICATION_REPORT_VERIFIED" <=>
                        activities[a].state = "VERIFICATION_REPORT_VERIFIED")
      BY <2>1, <3>1 DEF OInv, OrderlyOK, LedgerShown, Underway
    <3>5. CASE docs[d].type = "MON"
      <4>1. /\ "APPROVE_MONITORING" \in DOMAIN Decision
            /\ Decision["APPROVE_MONITORING"].type = "MON"
            /\ Decision["APPROVE_MONITORING"].needs = "PENDING"
            /\ "AUTHORISED" \in StageChange["APPROVE_MONITORING"].from
        BY DEF Decision, StageChange
      <4>2. a \notin DOMAIN project.activities
        BY <3>3, <3>4, <3>5 DEF Uploaded
      <4> QED
        BY <2>4, <3>2, <3>5, <4>1, <4>2 DEF Pending
    <3>6. CASE docs[d].type = "VER"
      <4>1. /\ "ISSUE" \in DOMAIN Decision /\ "ISSUE" \notin DOMAIN StageChange
            /\ Decision["ISSUE"].type = "VER"
            /\ Decision["ISSUE"].needs = "PENDING"
        BY DEF Decision, StageChange
      <4>2. activities[a].state = "VERIFICATION_REPORT_UPLOADED"
        BY <3>3, <3>6 DEF Uploaded
      <4>3. a \in DOMAIN project.activities /\ project.activities[a] \in LedgerStates
        BY <3>4, <4>2 DEF OInv, IInv, DataOK, ProjectOK
      <4>4. project.activities[a] = "MONITORING_REPORT_VERIFIED"
        BY <3>4, <4>2, <4>3 DEF LedgerStates
      <4> QED
        BY <3>2, <3>6, <4>1, <4>2, <4>3, <4>4 DEF Pending
    <3> QED
      BY <3>2, <3>5, <3>6 DEF Pending
  <2> QED
    BY <2>2, <2>3, <2>4
<1> QED
  BY <1>1, OrderlyInvariant, PTL
=============================================================================
