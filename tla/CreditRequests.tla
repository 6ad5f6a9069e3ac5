--------------------------- MODULE CreditRequests ---------------------------
(***************************************************************************)
(* The same calls as CreditLedger, as the services run them on PostgreSQL. *)
(* LedgerDBInterface.getAndUpdateTx is three database transactions:        *)
(*                                                                         *)
(*   Read    select the latest revision of the rows and let processGetFn   *)
(*           check them and compute what to write                          *)
(*   Reread  select the rows to update again, by their unique column, and  *)
(*           overwrite the computed fields                                 *)
(*   Commit  insert one new revision per row                               *)
(*                                                                         *)
(* Nothing locks a row between them, so calls of two requests interleave,  *)
(* and a process may die before Commit.  The controllers also check owner  *)
(* and amount on the operational database before Read; that copy lags the  *)
(* ledger and the checks only refuse, so a call starts here with Read.     *)
(* Each transaction is one step: READ COMMITTED is not modelled finer.     *)
(***************************************************************************)
EXTENDS Integers, Sequences, FiniteSets

CONSTANTS
    Projects, Companies, NoCompany, Developer, CreditEst,
    Activities, ActivityProject, Batches, RetireIds,
    Workers,   \* requests being served at the same time
    Scope,     \* Scope[w]: the projects worker w gets requests for
    MaxCalls   \* bound on the calls, which is also the bound on txTime

VARIABLES
    rows,    \* rows[key]: latest revision of a row of a ledger table
    call,    \* call[w]: what worker w is doing
    clock,   \* source of txTime
    spent    \* retirement ids CounterService has handed out

reqVars == <<rows, call, clock, spent>>

\* f, and g where f is not defined: the spread {...g, ...f}.
Over(f, g) ==
    [x \in DOMAIN f \cup DOMAIN g |-> IF x \in DOMAIN f THEN f[x] ELSE g[x]]

Only(x, y) == [z \in {x} |-> y]

-----------------------------------------------------------------------------
(* The rows: projects, company accounts "<companyId>#" and credit blocks.   *)

ProjectKey(p) == <<"project", p>>
CompanyKey(c) == <<"company", c>>
BlockKey(id) == <<"block", id>>

BlockIds == {k[2] : k \in {x \in DOMAIN rows : x[1] = "block"}}

ActivitiesOf(p) == {a \in Activities : ActivityProject[a] = p}

NewProject(p) ==
    [issued |-> 0, balance |-> 0, transferred |-> 0, retired |-> 0, txTime |-> 0,
     activities |-> [a \in ActivitiesOf(p) |-> "MONITORING_REPORT_VERIFIED"]]

(* The rows as CreditLedger sees them.                                      *)

ProjectColumns ==
    [p \in Projects |-> [issued |-> rows[ProjectKey(p)].issued,
                         balance |-> rows[ProjectKey(p)].balance,
                         transferred |-> rows[ProjectKey(p)].transferred,
                         retired |-> rows[ProjectKey(p)].retired]]

ActivityStates ==
    [a \in Activities |-> rows[ProjectKey(ActivityProject[a])].activities[a]]

AccountCredits ==
    [c \in Companies |->
        IF CompanyKey(c) \in DOMAIN rows THEN rows[CompanyKey(c)].credit ELSE 0]

CreditBlocks == [id \in BlockIds |-> rows[BlockKey(id)]]

Ledger == INSTANCE CreditLedger WITH
    project <- ProjectColumns, activity <- ActivityStates,
    account <- AccountCredits, blocks <- CreditBlocks

ASSUME RequestsAssumption ==
    /\ Ledger!ConstantsAssumption
    /\ Scope \in [Workers -> SUBSET Projects]
    /\ MaxCalls \in Nat

-----------------------------------------------------------------------------
(* Calls and plans                                                          *)

Idle == [stage |-> "idle"]

Always == <<>>  \* a where clause with the unique column only

\* updates[key] is the where clause and the fields to overwrite; inserts[key]
\* is a row written as it is.
Planned(updates, inserts) ==
    [stage |-> "planned", updates |-> updates, inserts |-> inserts]

Update(set) == [where |-> Always, set |-> set]

Matches(where, row) == \A f \in DOMAIN where : row[f] = where[f]

NoRows == [k \in {} |-> {}]

\* What moves a block's credits out of the balance of its project.
ProjectUpdate(b, id, n, column, time) ==
    LET p == rows[ProjectKey(id[1])]
    IN  IF b.notTransferred
        THEN Only(ProjectKey(id[1]), Update(
                Over(Only(column, p[column] + n),
                     [balance |-> p.balance - n, txTime |-> time])))
        ELSE NoRows

-----------------------------------------------------------------------------
(* Read: the guards of each call and the plan processGetFn returns; time is  *)
(* the txTime the call has fixed.                                           *)

\* The activities array is written back as a whole, as it was read; the update
\* applies only while txTime is unchanged, the blocks are inserted regardless.
PlanIssue(a, batch, time) ==
    LET pid == ActivityProject[a]
        p == rows[ProjectKey(pid)]
        n == Ledger!BatchTotal(batch)
        acc == CompanyKey(Developer[pid])
        new == Ledger!NewBlocks(pid, p.issued, batch)
        projectSet == [issued |-> p.issued + n, balance |-> p.balance + n,
                       txTime |-> time,
                       activities |-> [p.activities EXCEPT
                                         ![a] = "VERIFICATION_REPORT_VERIFIED"]]
        newRows == [k \in {BlockKey(id) : id \in DOMAIN new} |-> new[k[2]]]
    IN  Planned(
          Over(Only(ProjectKey(pid),
                    [where |-> [txTime |-> p.txTime], set |-> projectSet]),
               IF acc \in DOMAIN rows
               THEN Only(acc, Update([credit |-> rows[acc].credit + n])) ELSE NoRows),
          Over(newRows,
               IF acc \in DOMAIN rows THEN NoRows ELSE Only(acc, [credit |-> n])))

\* Mutant: what is issued already does not count.
CanIssueMutant(a, batch) ==
    LET p == rows[ProjectKey(ActivityProject[a])]
    IN  /\ p.activities[a] = "MONITORING_REPORT_VERIFIED"
        /\ Ledger!BatchTotal(batch) <= CreditEst[ActivityProject[a]]

CanIssue(a, batch) ==
    LET p == rows[ProjectKey(ActivityProject[a])]
    IN  /\ p.activities[a] = "MONITORING_REPORT_VERIFIED"
        /\ Ledger!BatchTotal(batch) <= CreditEst[ActivityProject[a]] - p.issued

\* The updated block is the entity read in Read, so every column is written.
PlanTransfer(id, n, to, time) ==
    LET b == rows[BlockKey(id)]
        whole == b.reserved = 0 /\ n = Ledger!Unreserved(b)
        cut == Ledger!CutOff(b, n, to, Ledger!NoRecords)
    IN  Planned(
          Over(Only(BlockKey(id), Update(
                 IF whole THEN [b EXCEPT !.owner = to, !.notTransferred = FALSE]
                          ELSE Ledger!Kept(b, n))),
               ProjectUpdate(b, id, n, "transferred", time)),
          IF whole THEN NoRows ELSE Only(BlockKey(<<id[1], cut.first>>), cut))

CanTransfer(id, n, from) ==
    LET b == rows[BlockKey(id)]
    IN  /\ b.owner = from /\ n <= Ledger!Unreserved(b)
        /\ (b.reserved = 0 /\ n = Ledger!Unreserved(b)) \/ Ledger!CanSplit(b, n)

PlanRequest(id, n, r) ==
    LET b == rows[BlockKey(id)]
    IN  Planned(
          Only(BlockKey(id), Update(
            [reserved |-> b.reserved + n,
             records |-> [b.records EXCEPT
                            ![r] = [amount |-> n, status |-> "PENDING"]]])),
          NoRows)

CanRequest(id, n, from) ==
    LET b == rows[BlockKey(id)] IN b.owner = from /\ n <= Ledger!Unreserved(b)

\* Mutant: a split leaves the reserved amount as it was.
KeptFieldsMutant(b, r, n) ==
    [last |-> Ledger!Kept(b, n).last, amount |-> Ledger!Kept(b, n).amount,
     records |-> Ledger!Decided(b, r, "COMPLETED").records]

\* The columns of the kept part an accepted request overwrites.
KeptFields(b, r, n) ==
    [last |-> Ledger!Kept(b, n).last, amount |-> Ledger!Kept(b, n).amount,
     reserved |-> b.reserved - n,
     records |-> Ledger!Decided(b, r, "COMPLETED").records]

PlanAccept(id, r, time) ==
    LET b == rows[BlockKey(id)]
        n == b.records[r].amount
        done == Ledger!Decided(b, r, "COMPLETED")
        cut == Ledger!CutOff(b, n, NoCompany,
                             [Ledger!NoRecords EXCEPT ![r] = done.records[r]])
        whole == Ledger!WholeBlockRequested(b, r)
    IN  Planned(
          Over(Only(BlockKey(id), Update(
                 IF whole
                 THEN [owner |-> NoCompany, notTransferred |-> FALSE, reserved |-> 0,
                       records |-> done.records]
                 ELSE KeptFields(b, r, n))),
               ProjectUpdate(b, id, n, "retired", time)),
          IF whole THEN NoRows ELSE Only(BlockKey(<<id[1], cut.first>>), cut))

\* Mutant: a request that is decided already is accepted again.
CanAcceptMutant(id, r) ==
    LET b == rows[BlockKey(id)]
    IN  Ledger!WholeBlockRequested(b, r) \/ Ledger!CanSplit(b, b.records[r].amount)

CanAccept(id, r) ==
    LET b == rows[BlockKey(id)]
    IN  /\ b.records[r].status = "PENDING"
        /\ Ledger!WholeBlockRequested(b, r) \/ Ledger!CanSplit(b, b.records[r].amount)

PlanDecline(id, r, status) ==
    LET b == rows[BlockKey(id)]
    IN  Planned(
          Only(BlockKey(id), Update(
            [reserved |-> b.reserved - b.records[r].amount,
             records |-> Ledger!Decided(b, r, status).records])),
          NoRows)

CanDecline(id, r) == rows[BlockKey(id)].records[r].status = "PENDING"

-----------------------------------------------------------------------------
(* The steps of a call                                                      *)

\* A call whose guards fail throws, and the worker is free again: no step.
Read(w, plan) ==
    /\ call[w] = Idle /\ clock < MaxCalls
    /\ call' = [call EXCEPT ![w] = plan]
    /\ clock' = clock + 1
    /\ UNCHANGED rows

ReadIssue(w) ==
    \E a \in Activities, batch \in Batches :
        /\ ActivityProject[a] \in Scope[w] /\ CanIssue(a, batch)
        /\ Read(w, PlanIssue(a, batch, clock + 1))
        /\ UNCHANGED spent

BlockIdsOf(w) == {id \in BlockIds : id[1] \in Scope[w]}

Amounts(id) == 1 .. rows[BlockKey(id)].amount

ReadTransfer(w) ==
    \E id \in BlockIdsOf(w), from, to \in Companies :
        \E n \in Amounts(id) :
            /\ CanTransfer(id, n, from)
            /\ Read(w, PlanTransfer(id, n, to, clock + 1))
            /\ UNCHANGED spent

\* CounterService.incrementCount hands out each id once, even to a call that
\* dies afterwards.
ReadRequest(w) ==
    \E id \in BlockIdsOf(w), from \in Companies, r \in RetireIds \ spent :
        \E n \in Amounts(id) :
            /\ CanRequest(id, n, from)
            /\ Read(w, PlanRequest(id, n, r))
            /\ spent' = spent \cup {r}

ReadAccept(w) ==
    \E id \in BlockIdsOf(w), r \in RetireIds :
        /\ CanAccept(id, r)
        /\ Read(w, PlanAccept(id, r, clock + 1))
        /\ UNCHANGED spent

ReadDecline(w) ==
    \E id \in BlockIdsOf(w), r \in RetireIds, status \in {"REJECTED", "CANCELLED"} :
        /\ CanDecline(id, r)
        /\ Read(w, PlanDecline(id, r, status))
        /\ UNCHANGED spent

\* A row its where clause no longer finds is left out without an error.
Merged(plan) ==
    LET found == {k \in DOMAIN plan.updates :
                    k \in DOMAIN rows /\ Matches(plan.updates[k].where, rows[k])}
    IN  Over([k \in found |-> Over(plan.updates[k].set, rows[k])], plan.inserts)

Reread(w) ==
    /\ call[w].stage = "planned"
    /\ call' = [call EXCEPT ![w] = [stage |-> "merged", revisions |-> Merged(call[w])]]
    /\ UNCHANGED <<rows, clock, spent>>

Commit(w) ==
    /\ call[w].stage = "merged"
    /\ rows' = Over(call[w].revisions, rows)
    /\ call' = [call EXCEPT ![w] = Idle]
    /\ UNCHANGED <<clock, spent>>

\* Mutant: the worker is never released.
DieMutant(w) ==
    /\ call[w] # Idle
    /\ call' = [call EXCEPT ![w] = [stage |-> "lost"]]
    /\ UNCHANGED <<rows, clock, spent>>

\* The process or its connection dies, or the insert transaction rolls back.
Die(w) ==
    /\ call[w] # Idle
    /\ call' = [call EXCEPT ![w] = Idle]
    /\ UNCHANGED <<rows, clock, spent>>

-----------------------------------------------------------------------------
RequestsInit ==
    /\ rows = [k \in {ProjectKey(p) : p \in Projects} |-> NewProject(k[2])]
    /\ call = [w \in Workers |-> Idle]
    /\ clock = 0
    /\ spent = {}

RequestsNext ==
    \E w \in Workers :
        \/ ReadIssue(w) \/ ReadTransfer(w) \/ ReadRequest(w)
        \/ ReadAccept(w) \/ ReadDecline(w)
        \/ Reread(w) \/ Commit(w) \/ Die(w)

RequestsSpec == RequestsInit /\ [][RequestsNext]_reqVars

-----------------------------------------------------------------------------
(* Properties *)

\* Types of the ledger rows and of a worker.
RequestsTypeOK ==
    /\ Ledger!TypeOK
    /\ clock \in 0 .. MaxCalls
    /\ spent \subseteq RetireIds
    /\ \A w \in Workers : call[w].stage \in {"idle", "planned", "merged"}

\* When calls on the projects of one developer never overlap, the three
\* transactions of a call have the effect of one atomic step of CreditLedger,
\* whatever calls of other developers do in between and wherever a process dies.
ImplementsLedger == Ledger!Spec

\* The reserved amount and the list of requests of a block are written
\* together; when calls overlap only the amount can run away from the list.
ReservedMatchesRequests ==
    \A id \in BlockIds :
        LET b == rows[BlockKey(id)]
            pending == {r \in RetireIds : b.records[r].status = "PENDING"}
        IN  /\ b.reserved >= 0
            /\ pending = {} <=> b.reserved = 0
            /\ \A r \in pending : b.records[r].amount <= b.reserved

\* No interleaving creates a serial number beyond the estimate of the project,
\* or lets the project row claim more than the estimate.
NothingBeyondEstimate ==
    /\ \A id \in BlockIds : rows[BlockKey(id)].last <= CreditEst[id[1]]
    /\ \A p \in Projects : rows[ProjectKey(p)].issued <= CreditEst[p]

\* "Credits can be tracked, retired, or cancelled within the Registry,
\* ensuring proper ownership transfer and preventing double counting."
\* (README.md:80)
NoDoubleCounting ==
    \A i, j \in BlockIds :
        (i # j /\ i[1] = j[1]) => Ledger!Serials(i) \cap Ledger!Serials(j) = {}
=============================================================================
