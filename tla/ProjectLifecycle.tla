-------------------------- MODULE ProjectLifecycle --------------------------
(***************************************************************************)
(* The life of one project from its initial notification to the issue of   *)
(* credits (document-management/document-management.service.ts and         *)
(* programme-ledger.service.ts updateProjectProposalStage, issueCredits).  *)
(*                                                                         *)
(* Documents and activities live in the operational database, the project  *)
(* in the ledger.  A call reads a document or the stage, then acts; other  *)
(* calls may run in between.  Approvals do not touch the document: they    *)
(* append a revision of the project that names the document, and the       *)
(* replicator sets the status of the document later (modifyDocumentEntity).*)
(*                                                                         *)
(* Abstracted: amounts (CreditLedger has them), versions of documents,     *)
(* letters, e-mails, audit entries, and roles: any call may come from the  *)
(* role that may make it.  An update of the ledger is one step here;       *)
(* CreditRequests shows what overlapping ledger transactions do.           *)
(***************************************************************************)
EXTENDS Naturals, Sequences, SequencesExt, FiniteSets

CONSTANTS
    Calls,         \* concurrent requests to the service
    MaxForms,      \* bound: documents of the project, in general
    MaxDocs,       \* bound: the same after the shortest way to authorisation
    MaxActivities, \* bound: activities of the project
    Starts         \* subset of {"new", "authorised"}: where behaviours begin

ASSUME LifecycleAssumption == MaxActivities \in Nat

VARIABLES
    docs,        \* table document_entity, in order of id
    activities,  \* table activity_entity, in order of id
    project,     \* the latest revision of the project in the ledger
    log,         \* the revisions of the project: transaction and document
    replayed,    \* how many revisions the replicator has applied
    call,        \* what each request holds in memory
    orderly      \* history: no call overlapped another, none used data older
                 \* than the ledger, none died with a document half submitted

lifecycleVars == <<docs, activities, project, log, replayed, call, orderly>>

Idle == [step |-> "idle"]
NoActivity == 0

-----------------------------------------------------------------------------
(* Tables of the service: the stages a ledger update expects and leaves,    *)
(* and for each decision the document it is about.                          *)

StageChange ==
    [CREATE_PROJECT           |-> [from |-> {"NONE"}, to |-> "PENDING"],
     UPDATE_PROJECT_DETAILS   |-> [from |-> {"PENDING"}, to |-> "PENDING"],
     APPROVE_INF              |-> [from |-> {"PENDING"}, to |-> "APPROVED"],
     REJECT_INF               |-> [from |-> {"PENDING"}, to |-> "REJECTED"],
     CREATE_PDD               |-> [from |-> {"APPROVED", "PDD_REJECTED_BY_CERTIFIER",
                                             "PDD_REJECTED_BY_DNA"},
                                   to |-> "PDD_SUBMITTED"],
     APPROVE_PDD_BY_IC        |-> [from |-> {"PDD_SUBMITTED"},
                                   to |-> "PDD_APPROVED_BY_CERTIFIER"],
     REJECT_PDD_BY_IC         |-> [from |-> {"PDD_SUBMITTED"},
                                   to |-> "PDD_REJECTED_BY_CERTIFIER"],
     APPROVE_PDD_BY_DNA       |-> [from |-> {"PDD_APPROVED_BY_CERTIFIER"},
                                   to |-> "PDD_APPROVED_BY_DNA"],
     REJECT_PDD_BY_DNA        |-> [from |-> {"PDD_APPROVED_BY_CERTIFIER"},
                                   to |-> "PDD_REJECTED_BY_DNA"],
     CREATE_VALIDATION_REPORT |-> [from |-> {"PDD_APPROVED_BY_DNA",
                                             "VALIDATION_DNA_REJECTED"},
                                   to |-> "VALIDATION_REPORT_SUBMITTED"],
     APPROVE_VALIDATION       |-> [from |-> {"VALIDATION_REPORT_SUBMITTED"},
                                   to |-> "AUTHORISED"],
     REJECT_VALIDATION        |-> [from |-> {"VALIDATION_REPORT_SUBMITTED"},
                                   to |-> "VALIDATION_DNA_REJECTED"],
     APPROVE_MONITORING       |-> [from |-> {"AUTHORISED"}, to |-> "AUTHORISED"]]

Submission ==
    [CREATE_PROJECT |-> "INF", UPDATE_PROJECT_DETAILS |-> "INF",
     CREATE_PDD |-> "PDD", CREATE_VALIDATION_REPORT |-> "VAL"]

Decision ==
    [APPROVE_INF         |-> [type |-> "INF", needs |-> "PENDING", gives |-> "DNA_APPROVED"],
     REJECT_INF          |-> [type |-> "INF", needs |-> "PENDING", gives |-> "DNA_REJECTED"],
     APPROVE_PDD_BY_IC   |-> [type |-> "PDD", needs |-> "PENDING", gives |-> "IC_APPROVED"],
     REJECT_PDD_BY_IC    |-> [type |-> "PDD", needs |-> "PENDING", gives |-> "IC_REJECTED"],
     APPROVE_PDD_BY_DNA  |-> [type |-> "PDD", needs |-> "IC_APPROVED", gives |-> "DNA_APPROVED"],
     REJECT_PDD_BY_DNA   |-> [type |-> "PDD", needs |-> "IC_APPROVED", gives |-> "DNA_REJECTED"],
     APPROVE_VALIDATION  |-> [type |-> "VAL", needs |-> "PENDING", gives |-> "DNA_APPROVED"],
     REJECT_VALIDATION   |-> [type |-> "VAL", needs |-> "PENDING", gives |-> "DNA_REJECTED"],
     APPROVE_MONITORING  |-> [type |-> "MON", needs |-> "PENDING", gives |-> "IC_APPROVED"],
     REJECT_MONITORING   |-> [type |-> "MON", needs |-> "PENDING", gives |-> "IC_REJECTED"],
     ISSUE               |-> [type |-> "VER", needs |-> "PENDING", gives |-> "DNA_APPROVED"],
     REJECT_VERIFICATION |-> [type |-> "VER", needs |-> "PENDING", gives |-> "DNA_REJECTED"]]

\* The two rejections that only touch the operational database.
LocalState == [REJECT_MONITORING |-> "MONITORING_REPORT_REJECTED",
               REJECT_VERIFICATION |-> "VERIFICATION_REPORT_REJECTED"]

\* The shortest history of an authorised project.
AuthorisedLog ==
    <<[tx |-> "CREATE_PROJECT", doc |-> 1], [tx |-> "APPROVE_INF", doc |-> 1],
      [tx |-> "CREATE_PDD", doc |-> 2], [tx |-> "APPROVE_PDD_BY_IC", doc |-> 2],
      [tx |-> "APPROVE_PDD_BY_DNA", doc |-> 2],
      [tx |-> "CREATE_VALIDATION_REPORT", doc |-> 3],
      [tx |-> "APPROVE_VALIDATION", doc |-> 3]>>

Room == Len(docs) < IF IsPrefix(AuthorisedLog, log) THEN MaxDocs ELSE MaxForms

Doc(t, a) == [type |-> t, status |-> "PENDING", activity |-> a]
Quiet == replayed = Len(log) /\ \A c \in Calls : call[c] = Idle

\* A new revision of the project.
Revise(tx, d) == log' = Append(log, [tx |-> tx, doc |-> d])

-----------------------------------------------------------------------------
(* addDocument for the documents that change the stage: the stage is read,  *)
(* the document is saved, the ledger is updated.                            *)

StartSubmission(c, tx) ==
    /\ call[c] = Idle
    /\ project.stage \in StageChange[tx].from
    /\ tx = "CREATE_PROJECT" => docs = <<>> /\ Quiet   \* a new number each time
    /\ Room
    /\ call' = [call EXCEPT ![c] = [step |-> "save", tx |-> tx]]
    /\ orderly' = (orderly /\ Quiet)
    /\ UNCHANGED <<docs, activities, project, log, replayed>>

SaveDocument(c) ==
    /\ call[c].step = "save"
    /\ Room
    /\ docs' = Append(docs, Doc(Submission[call[c].tx], NoActivity))
    /\ call' = [call EXCEPT ![c] = [step |-> "ledger", tx |-> call[c].tx,
                                    doc |-> Len(docs) + 1]]
    /\ UNCHANGED <<activities, project, log, replayed, orderly>>

\* updateProjectProposalStage or createProject: refused unless the stage is
\* still the expected one.  The document stays in either case.
Submit(c) ==
    /\ call[c].step = "ledger"
    /\ IF project.stage \in StageChange[call[c].tx].from
       THEN /\ project' = [project EXCEPT !.stage = StageChange[call[c].tx].to]
            /\ Revise(call[c].tx, call[c].doc)
       ELSE UNCHANGED <<project, log>>
    /\ call' = [call EXCEPT ![c] = Idle]
    /\ UNCHANGED <<docs, activities, replayed, orderly>>

-----------------------------------------------------------------------------
(* addDocument for monitoring and verification reports.                     *)

\* getLastActivity: one with the highest version.
LastActivities ==
    {a \in DOMAIN activities :
        \A b \in DOMAIN activities : activities[b].version <= activities[a].version}

StartMonitoring(c, a) ==
    /\ call[c] = Idle
    /\ project.stage = "AUTHORISED"
    /\ IF LastActivities = {} THEN a = NoActivity
       ELSE /\ a \in LastActivities
            /\ activities[a].state \in {"MONITORING_REPORT_REJECTED",
                                        "VERIFICATION_REPORT_VERIFIED"}
    /\ call' = [call EXCEPT ![c] =
                    [step |-> "monitoring", activity |-> a,
                     version |-> IF a = NoActivity THEN 1
                                 ELSE activities[a].version + 1,
                     new |-> a = NoActivity \/
                        activities[a].state = "VERIFICATION_REPORT_VERIFIED"]]
    /\ orderly' = (orderly /\ Quiet)
    /\ UNCHANGED <<docs, activities, project, log, replayed>>

\* The activity is saved in a transaction, the document outside of it: when
\* the transaction does not commit the document is there all the same.
SaveMonitoring(c, commit) ==
    /\ call[c].step = "monitoring"
    /\ Room
    /\ LET state == "MONITORING_REPORT_UPLOADED"
           new == [version |-> call[c].version, state |-> state]
           a == IF ~call[c].new THEN call[c].activity
                ELSE IF commit THEN Len(activities) + 1 ELSE NoActivity
       IN /\ call[c].new => Len(activities) < MaxActivities
          /\ docs' = Append(docs, Doc("MON", a))
          /\ activities' = IF ~commit THEN activities
                           ELSE IF call[c].new THEN Append(activities, new)
                           ELSE [activities EXCEPT ![a].state = state]
    /\ call' = [call EXCEPT ![c] = Idle]
    /\ orderly' = (orderly /\ commit)
    /\ UNCHANGED <<project, log, replayed>>

StartVerification(c, a) ==
    /\ call[c] = Idle
    /\ project.stage = "AUTHORISED"
    /\ a \in LastActivities
    /\ activities[a].state \in {"MONITORING_REPORT_VERIFIED",
                                "VERIFICATION_REPORT_REJECTED"}
    /\ call' = [call EXCEPT ![c] = [step |-> "verification", activity |-> a]]
    /\ orderly' = (orderly /\ Quiet)
    /\ UNCHANGED <<docs, activities, project, log, replayed>>

SaveVerification(c, commit) ==
    /\ call[c].step = "verification"
    /\ Room
    /\ LET a == call[c].activity
       IN /\ docs' = Append(docs, Doc("VER", a))
          /\ activities' = IF commit
                THEN [activities EXCEPT ![a].state = "VERIFICATION_REPORT_UPLOADED"]
                ELSE activities
    /\ call' = [call EXCEPT ![c] = Idle]
    /\ orderly' = (orderly /\ commit)
    /\ UNCHANGED <<project, log, replayed>>

-----------------------------------------------------------------------------
(* verify: the status of the document is read, letters are generated and    *)
(* the company is looked up, then the decision takes effect.                *)

\* Mutant: an activity that was never committed is approved all the same.
StartDecisionMutant(c, d, tx) ==
    /\ call[c] = Idle
    /\ docs[d].type = Decision[tx].type
    /\ docs[d].status = Decision[tx].needs
    /\ call' = [call EXCEPT ![c] =
                    [step |-> "decide", tx |-> tx, doc |-> d,
                     state |-> IF docs[d].activity = NoActivity THEN "none"
                               ELSE activities[docs[d].activity].state]]
    /\ orderly' = (orderly /\ Quiet)
    /\ UNCHANGED <<docs, activities, project, log, replayed>>

\* Mutant: the authority need not wait for the certifier.
StartDecisionMutant2(c, d, tx) ==
    /\ call[c] = Idle
    /\ docs[d].type = Decision[tx].type
    /\ docs[d].status \in {"PENDING", Decision[tx].needs}
    /\ docs[d].activity \in DOMAIN activities
        \/ Decision[tx].type \notin {"MON", "VER"} \/ tx \in DOMAIN LocalState
    /\ call' = [call EXCEPT ![c] =
                    [step |-> "decide", tx |-> tx, doc |-> d,
                     state |-> IF docs[d].activity = NoActivity THEN "none"
                               ELSE activities[docs[d].activity].state]]
    /\ orderly' = (orderly /\ Quiet)
    /\ UNCHANGED <<docs, activities, project, log, replayed>>

StartDecision(c, d, tx) ==
    /\ call[c] = Idle
    /\ docs[d].type = Decision[tx].type
    /\ docs[d].status = Decision[tx].needs
    /\ docs[d].activity \in DOMAIN activities
        \/ Decision[tx].type \notin {"MON", "VER"} \/ tx \in DOMAIN LocalState
    /\ call' = [call EXCEPT ![c] =
                    [step |-> "decide", tx |-> tx, doc |-> d,
                     state |-> IF docs[d].activity = NoActivity THEN "none"
                               ELSE activities[docs[d].activity].state]]
    /\ orderly' = (orderly /\ Quiet)
    /\ UNCHANGED <<docs, activities, project, log, replayed>>

\* Mutant: the activity keeps its state.
RejectLocallyMutant(c) ==
    LET d == call[c].doc
        tx == call[c].tx
    IN /\ call[c].step = "decide" /\ tx \in DOMAIN LocalState
       /\ docs' = [docs EXCEPT ![d].status = Decision[tx].gives]
       /\ call' = [call EXCEPT ![c] = Idle]
       /\ UNCHANGED <<activities, project, log, replayed, orderly>>

\* A rejected report: activity and document change in one transaction.
RejectLocally(c) ==
    LET d == call[c].doc
        tx == call[c].tx
        a == docs[d].activity
    IN /\ call[c].step = "decide" /\ tx \in DOMAIN LocalState
       /\ docs' = [docs EXCEPT ![d].status = Decision[tx].gives]
       /\ activities' = IF a = NoActivity THEN activities
                        ELSE [activities EXCEPT ![a].state = LocalState[tx]]
       /\ call' = [call EXCEPT ![c] = Idle]
       /\ UNCHANGED <<project, log, replayed, orderly>>

\* updateProjectProposalStage: the ledger checks the stage, not the document.
DecideStage(c) ==
    LET tx == call[c].tx
    IN /\ call[c].step = "decide"
       /\ tx \in DOMAIN StageChange \ {"APPROVE_MONITORING"}
       /\ IF project.stage \in StageChange[tx].from
          THEN /\ project' = [project EXCEPT !.stage = StageChange[tx].to]
               /\ Revise(tx, call[c].doc)
          ELSE UNCHANGED <<project, log>>
       /\ call' = [call EXCEPT ![c] = Idle]
       /\ UNCHANGED <<docs, activities, replayed, orderly>>

\* ... and for a monitoring report that its activity is not in the ledger yet.
ApproveMonitoring(c) ==
    LET a == docs[call[c].doc].activity
    IN /\ call[c].step = "decide" /\ call[c].tx = "APPROVE_MONITORING"
       /\ IF /\ project.stage = "AUTHORISED"
             /\ a \notin DOMAIN project.activities
          THEN /\ project' = [project EXCEPT !.activities =
                                [b \in DOMAIN @ \cup {a} |->
                                    IF b = a THEN "MONITORING_REPORT_VERIFIED" ELSE @[b]]]
               /\ Revise("APPROVE_MONITORING", call[c].doc)
          ELSE UNCHANGED <<project, log>>
       /\ call' = [call EXCEPT ![c] = Idle]
       /\ UNCHANGED <<docs, activities, replayed, orderly>>

\* issueCredits: the activity the call read must have been uploaded, the one
\* in the ledger must not have been issued.
\* Mutant: the activity in the ledger may have been issued.
CanIssueMutant(c, a) ==
    /\ call[c].state = "VERIFICATION_REPORT_UPLOADED"
    /\ a \in DOMAIN project.activities

CanIssue(c, a) ==
    /\ call[c].state = "VERIFICATION_REPORT_UPLOADED"
    /\ a \in DOMAIN project.activities
    /\ project.activities[a] = "MONITORING_REPORT_VERIFIED"

Issue(c) ==
    LET a == docs[call[c].doc].activity
    IN /\ call[c].step = "decide" /\ call[c].tx = "ISSUE"
       /\ IF CanIssue(c, a)
          THEN /\ project' = [project EXCEPT !.activities[a] =
                                "VERIFICATION_REPORT_VERIFIED"]
               /\ Revise("ISSUE", call[c].doc)
          ELSE UNCHANGED <<project, log>>
       /\ call' = [call EXCEPT ![c] = Idle]
       /\ UNCHANGED <<docs, activities, replayed, orderly>>

\* The process serving the call dies, or the call throws.
Abandon(c) ==
    /\ call[c] # Idle
    /\ call' = [call EXCEPT ![c] = Idle]
    /\ orderly' = (orderly /\ call[c].step # "ledger")
    /\ UNCHANGED <<docs, activities, project, log, replayed>>

-----------------------------------------------------------------------------
(* The replicator: modifyDocumentEntity, in the transaction that copies the *)
(* revision of the project.                                                 *)

\* Mutant: the replicator has no case for ISSUE.
ReplicatedStateMutant(tx) == "MONITORING_REPORT_VERIFIED"

ReplicatedState(tx) ==
    IF tx = "ISSUE" THEN "VERIFICATION_REPORT_VERIFIED"
    ELSE "MONITORING_REPORT_VERIFIED"

\* Mutant: the rejection by the certifier is not replicated.
ModifyMutant(e) ==
    IF e.tx \notin DOMAIN Decision \ {"REJECT_PDD_BY_IC"}
    THEN UNCHANGED <<docs, activities>>
    ELSE /\ docs' = [docs EXCEPT ![e.doc].status = Decision[e.tx].gives]
         /\ activities' =
                IF e.tx \in {"APPROVE_MONITORING", "ISSUE"}
                THEN [activities EXCEPT ![docs[e.doc].activity].state =
                        ReplicatedState(e.tx)]
                ELSE activities

Modify(e) ==
    IF e.tx \notin DOMAIN Decision THEN UNCHANGED <<docs, activities>>
    ELSE /\ docs' = [docs EXCEPT ![e.doc].status = Decision[e.tx].gives]
         /\ activities' =
                IF e.tx \in {"APPROVE_MONITORING", "ISSUE"}
                THEN [activities EXCEPT ![docs[e.doc].activity].state =
                        ReplicatedState(e.tx)]
                ELSE activities

Replicate ==
    /\ replayed < Len(log)
    /\ Modify(log[replayed + 1])
    /\ replayed' = replayed + 1
    /\ UNCHANGED <<project, log, call, orderly>>

\* A replicator that died before it saved its cursor applies the revision it
\* applied last once more; older ones it skips by their txTime.
ReplicateAgain ==
    /\ replayed > 0
    /\ Modify(log[replayed])
    /\ orderly' = FALSE
    /\ UNCHANGED <<project, log, replayed, call>>

-----------------------------------------------------------------------------
Approved(t) == [type |-> t, status |-> "DNA_APPROVED", activity |-> NoActivity]

Init ==
    /\ activities = <<>>
    /\ call = [c \in Calls |-> Idle]
    /\ orderly = TRUE
    /\ \/ /\ "new" \in Starts
          /\ docs = <<>> /\ log = <<>>
          /\ project = [stage |-> "NONE", activities |-> <<>>]
       \/ /\ "authorised" \in Starts
          /\ docs = <<Approved("INF"), Approved("PDD"), Approved("VAL")>>
          /\ log = AuthorisedLog
          /\ project = [stage |-> "AUTHORISED", activities |-> <<>>]
    /\ replayed = Len(log)

Next ==
    \/ \E c \in Calls :
        \/ \E tx \in DOMAIN Submission : StartSubmission(c, tx)
        \/ SaveDocument(c) \/ Submit(c)
        \/ \E a \in 0..Len(activities) :
            StartMonitoring(c, a) \/ StartVerification(c, a)
        \/ \E commit \in BOOLEAN :
            SaveMonitoring(c, commit) \/ SaveVerification(c, commit)
        \/ \E d \in DOMAIN docs, tx \in DOMAIN Decision : StartDecision(c, d, tx)
        \/ RejectLocally(c) \/ DecideStage(c)
        \/ ApproveMonitoring(c) \/ Issue(c)
        \/ Abandon(c)
    \/ Replicate \/ ReplicateAgain

Spec == Init /\ [][Next]_lifecycleVars

-----------------------------------------------------------------------------
(* Properties.                                                              *)

Stages == {"NONE"} \cup {StageChange[tx].to : tx \in DOMAIN StageChange}
ActivityStates == {"MONITORING_REPORT_UPLOADED", "MONITORING_REPORT_VERIFIED",
                   "MONITORING_REPORT_REJECTED", "VERIFICATION_REPORT_UPLOADED",
                   "VERIFICATION_REPORT_VERIFIED", "VERIFICATION_REPORT_REJECTED"}
DocType == [type : {"INF", "PDD", "VAL", "MON", "VER"},
            status : {"PENDING"} \cup {Decision[tx].gives : tx \in DOMAIN Decision},
            activity : 0..MaxActivities]

\* Types; what the replicator has to look up exists: the document a revision
\* names is of the kind the transaction decides, and for a report the
\* activity of that document is in the database and in the project row, so
\* modifyDocumentEntity never dereferences a missing row and blocks the stream.
TypeOK ==
    /\ \A d \in DOMAIN docs : docs[d] \in DocType
    /\ \A a \in DOMAIN activities :
        activities[a] \in [version : 1..MaxActivities, state : ActivityStates]
    /\ project.stage \in Stages
    /\ DOMAIN project.activities \subseteq DOMAIN activities
    /\ replayed \in 0..Len(log)
    /\ orderly \in BOOLEAN
    /\ \A i \in DOMAIN log :
        /\ log[i].doc \in DOMAIN docs
        /\ log[i].tx \in DOMAIN Decision =>
            docs[log[i].doc].type = Decision[log[i].tx].type
        /\ log[i].tx \in {"APPROVE_MONITORING", "ISSUE"} =>
            docs[log[i].doc].activity \in DOMAIN project.activities

Decided(tx, d, i) == \E j \in 1..(i - 1) : log[j].tx = tx /\ log[j].doc = d

\* Credits are issued at most once for an activity, and only after its
\* monitoring report was approved, whatever calls overlap and however far the
\* documents lag behind the ledger.
IssuedOncePerActivity ==
    LET of(tx, i) == {j \in 1..(i - 1) : log[j].tx = tx /\
                        docs[log[j].doc].activity = docs[log[i].doc].activity}
    IN \A i \in DOMAIN log : log[i].tx = "ISSUE" =>
        /\ of("ISSUE", i) = {}
        /\ Cardinality(of("APPROVE_MONITORING", i)) = 1

\* The authority only decides on a design document that the certifier
\* approved before, although the ledger compares stages and never documents.
AuthorityDecidesOnCertified ==
    \A i \in DOMAIN log :
        log[i].tx \in {"APPROVE_PDD_BY_DNA", "REJECT_PDD_BY_DNA"} =>
            Decided("APPROVE_PDD_BY_IC", log[i].doc, i)

\* While calls do not overlap, do not outrun the replicator and do not die
\* half-way, a decision on a design document or a validation report names the
\* one that was submitted last.  (An edited notification leaves the version it
\* replaces pending, and that one can be decided: see the README.)
OrderlyDecidesOnSubmitted ==
    LET submitted(t, i) == {log[j].doc : j \in {k \in 1..(i - 1) :
            log[k].tx \in DOMAIN Submission /\ Submission[log[k].tx] = t}}
    IN orderly =>
        \A i \in DOMAIN log :
            log[i].tx \in DOMAIN Decision /\ Decision[log[i].tx].type # "INF" =>
                \A d \in submitted(Decision[log[i].tx].type, i) : d <= log[i].doc

\* Under the same conditions the activity shows what the ledger knows: issued
\* credits are never shown as a rejected or pending report.
OrderlyShowsIssue ==
    orderly /\ replayed = Len(log) =>
        \A a \in DOMAIN project.activities :
            project.activities[a] = "VERIFICATION_REPORT_VERIFIED" =>
                activities[a].state = "VERIFICATION_REPORT_VERIFIED"

\* Under the same conditions a project is never stuck: unless it was rejected
\* some document can be submitted or decided.
OrderlyIsNeverStuck ==
    orderly /\ Quiet /\ project.stage # "REJECTED" =>
        \/ \E tx \in DOMAIN Submission : project.stage \in StageChange[tx].from
        \/ \E d \in DOMAIN docs, tx \in DOMAIN Decision :
            /\ docs[d].type = Decision[tx].type
            /\ docs[d].status = Decision[tx].needs
            /\ tx \in DOMAIN StageChange => project.stage \in StageChange[tx].from
            /\ tx = "APPROVE_MONITORING" =>
                docs[d].activity \notin DOMAIN project.activities
            /\ tx = "ISSUE" =>
                /\ docs[d].activity \in DOMAIN project.activities
                /\ project.activities[docs[d].activity] = "MONITORING_REPORT_VERIFIED"
                /\ activities[docs[d].activity].state = "VERIFICATION_REPORT_UPLOADED"
        \/ /\ project.stage = "AUTHORISED"
           /\ \A a \in LastActivities :
                activities[a].state \notin {"MONITORING_REPORT_UPLOADED",
                                            "VERIFICATION_REPORT_UPLOADED"}
=============================================================================
