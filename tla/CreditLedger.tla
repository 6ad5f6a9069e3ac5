---------------------------- MODULE CreditLedger ----------------------------
(***************************************************************************)
(* The credit tables of the ledger database, one call at a time: what      *)
(* ProgrammeLedgerService.issueCredits, transferCredits, addRetireRequest  *)
(* and retirementRequestAction promise about the serial numbers, the       *)
(* owners and the balances when no two calls overlap.  CreditRequests      *)
(* splits each call into its database transactions and is checked to       *)
(* implement this module when calls are served one after the other.        *)
(*                                                                         *)
(* Only the latest revision of a row is kept here: every read of the code  *)
(* is SELECT DISTINCT ON (unique index) ... ORDER BY hash DESC.            *)
(***************************************************************************)
EXTENDS Integers, Sequences, FiniteSets, Functions

CONSTANTS
    Projects,         \* refIds of the authorised projects
    Companies,        \* companyIds of the project developers
    NoCompany,        \* ownerCompanyId 0, the owner of a retired block
    Developer,        \* Developer[p]: the companyId of project p
    CreditEst,        \* CreditEst[p]: the creditEst of project p
    Activities,       \* activities whose monitoring report is verified
    ActivityProject,  \* ActivityProject[a]: the project of activity a
    Batches,          \* what a verification report asks to issue, see Batch
    RetireIds         \* ids CounterService hands out to retirement requests

(***************************************************************************)
(* A verification report lists the credits of one or more vintages.  A     *)
(* batch is that list as running totals: <<2, 3>> is 2 credits of the      *)
(* first vintage and 1 of the second.  The DTO makes each amount positive. *)
(***************************************************************************)
Batch == {b \in Seq(Nat \ {0}) :
            /\ b # <<>>
            /\ \A j, k \in 1 .. Len(b) : j < k => b[j] < b[k]}

ASSUME ConstantsAssumption ==
    /\ IsFiniteSet(Projects)
    /\ NoCompany \notin Companies
    /\ Developer \in [Projects -> Companies]
    /\ CreditEst \in [Projects -> Nat]
    /\ ActivityProject \in [Activities -> Projects]
    /\ \A b \in Batches :
         /\ b \in Seq(Nat \ {0})
         /\ b # <<>>
         /\ \A j, k \in 1 .. Len(b) : j < k => b[j] < b[k]

VARIABLES
    project,   \* project[p]: the credit columns of the project row
    activity,  \* activity[a]: its state inside the project row
    account,   \* account[c]: credit of the company row "<companyId>#"
    blocks     \* blocks[id]: the credit block row, for the ids in use

vars == <<project, activity, account, blocks>>

-----------------------------------------------------------------------------
(* Rows *)

\* A block id is the serial number up to the block start: prefix + start.
BlockId == Projects \X (Nat \ {0})

Status == {"NONE", "PENDING", "COMPLETED", "REJECTED", "CANCELLED"}

\* transactionRecords, as a function of the record id.
NoRecord == [amount |-> 0, status |-> "NONE"]
NoRecords == [i \in RetireIds |-> NoRecord]

\* first and last are the two block numbers inside the serial number.
Block == [owner: Companies \cup {NoCompany}, first: Nat, last: Nat,
          amount: Int, reserved: Int, notTransferred: BOOLEAN,
          records: [RetireIds -> [amount: Nat, status: Status]]]

ProjectRow == [issued: Nat, balance: Int, transferred: Int, retired: Int]

\* The rows of revs become the latest revisions, the others stay.
Revise(revs) ==
    [i \in DOMAIN blocks \cup DOMAIN revs |->
        IF i \in DOMAIN revs THEN revs[i] ELSE blocks[i]]

\* Mutant: the reserved credits count as available.
UnreservedMutant(b) == b.amount

Unreserved(b) == b.amount - b.reserved

-----------------------------------------------------------------------------
(* Splitting a serial number *)

\* The split throws unless something is left in the first part.
CanSplit(b, n) == n < b.last - b.first + 1

\* The first part keeps the id, the second one gets prefix + its own start.
\* Mutant: off by one, both parts contain a credit.
SecondStartMutant(b, n) == b.last - n

SecondStart(b, n) == b.last - n + 1

\* Mutant: the serial number is cut, creditAmount is not.
KeptMutant(b, n) == [b EXCEPT !.last = b.last - n]

Kept(b, n) == [b EXCEPT !.last = b.last - n, !.amount = b.amount - n]

CutOff(b, n, newOwner, recs) ==
    [owner |-> newOwner, first |-> SecondStart(b, n), last |-> b.last,
     amount |-> n, reserved |-> 0, notTransferred |-> FALSE, records |-> recs]

\* Mutant: the new owner gets the first serial numbers.
SplitMutant(id, kept, cut) ==
    [i \in {id, <<id[1], cut.first>>} |->
        IF i = id THEN [kept EXCEPT !.owner = cut.owner]
                  ELSE [cut EXCEPT !.owner = kept.owner]]

\* The two revisions a split writes: the kept part and the part cut off.
Split(id, kept, cut) ==
    [i \in {id, <<id[1], cut.first>>} |-> IF i = id THEN kept ELSE cut]

-----------------------------------------------------------------------------
(* issueCredits: one block per vintage, numbered on from what is issued *)

BatchTotal(batch) == batch[Len(batch)]

\* Mutant: block numbers start at 0.
VintageStartMutant(batch, k) == IF k = 1 THEN 0 ELSE batch[k - 1]

VintageStart(batch, k) == IF k = 1 THEN 1 ELSE batch[k - 1] + 1

NewBlock(p, already, batch, k) ==
    [owner |-> Developer[p],
     first |-> already + VintageStart(batch, k),
     last |-> already + batch[k],
     amount |-> batch[k] - VintageStart(batch, k) + 1,
     reserved |-> 0, notTransferred |-> TRUE, records |-> NoRecords]

NewBlockIds(p, already, batch) ==
    {<<p, already + VintageStart(batch, k)>> : k \in 1 .. Len(batch)}

NewBlocks(p, already, batch) ==
    [id \in NewBlockIds(p, already, batch) |->
        NewBlock(p, already, batch,
                 CHOOSE k \in 1 .. Len(batch) :
                    id[2] = already + VintageStart(batch, k))]

\* Mutant: an existing account is overwritten.
CreditedMutant(c, n) == [account EXCEPT ![c] = n]

\* The company row is inserted the first time and updated from then on.
Credited(c, n) == [account EXCEPT ![c] = @ + n]

IssueCredits(a, batch) ==
    LET p == ActivityProject[a]
        n == BatchTotal(batch)
    IN  /\ activity[a] = "MONITORING_REPORT_VERIFIED"
        /\ n <= CreditEst[p] - project[p].issued
        /\ project' = [project EXCEPT ![p].issued = @ + n,
                                      ![p].balance = @ + n]
        /\ activity' = [activity EXCEPT ![a] = "VERIFICATION_REPORT_VERIFIED"]
        /\ account' = Credited(Developer[p], n)
        /\ blocks' = Revise(NewBlocks(p, project[p].issued, batch))

-----------------------------------------------------------------------------
(* transferCredits: the owner gives away a block, or its last serials *)

\* Mutant: also for credits that are no longer in the balance.
ProjectMovesMutant(id, n, column) ==
    project' = [project EXCEPT ![id[1]].balance = @ - n,
                               ![id[1]][column] = @ + n]

\* A block counts in the project row until it first changes hands.
ProjectMoves(id, n, column) ==
    project' = IF blocks[id].notTransferred
               THEN [project EXCEPT ![id[1]].balance = @ - n,
                                    ![id[1]][column] = @ + n]
               ELSE project

\* Mutant: a block with reserved credits changes hands as a whole.
TransferWholeMutant(id, n, to) ==
    /\ n = Unreserved(blocks[id])
    /\ blocks' = [blocks EXCEPT ![id].owner = to, ![id].notTransferred = FALSE]

TransferWhole(id, n, to) ==
    LET b == blocks[id]
    IN  /\ b.reserved = 0 /\ n = Unreserved(b)
        /\ blocks' = [blocks EXCEPT ![id].owner = to,
                                    ![id].notTransferred = FALSE]

TransferPart(id, n, to) ==
    LET b == blocks[id]
    IN  /\ ~(b.reserved = 0 /\ n = Unreserved(b))
        /\ CanSplit(b, n)
        /\ blocks' = Revise(Split(id, Kept(b, n), CutOff(b, n, to, NoRecords)))

\* Mutant: the sender need not be the owner.
TransferCreditsMutant(id, n, from, to) ==
    /\ n <= Unreserved(blocks[id])
    /\ TransferWhole(id, n, to) \/ TransferPart(id, n, to)
    /\ ProjectMoves(id, n, "transferred")
    /\ UNCHANGED <<activity, account>>

\* The receiver may be the sender: nothing in the code excludes it.
TransferCredits(id, n, from, to) ==
    /\ blocks[id].owner = from
    /\ n <= Unreserved(blocks[id])
    /\ TransferWhole(id, n, to) \/ TransferPart(id, n, to)
    /\ ProjectMoves(id, n, "transferred")
    /\ UNCHANGED <<activity, account>>

-----------------------------------------------------------------------------
(* addRetireRequest: the owner reserves part of a block *)

UnusedRetireId(r) ==
    \A id \in DOMAIN blocks : blocks[id].records[r].status = "NONE"

AddRetireRequest(id, n, from, r) ==
    /\ blocks[id].owner = from
    /\ n <= Unreserved(blocks[id])
    /\ blocks' = [blocks EXCEPT
                    ![id].reserved = @ + n,
                    ![id].records[r] = [amount |-> n, status |-> "PENDING"]]
    /\ UNCHANGED <<project, activity, account>>

-----------------------------------------------------------------------------
(* retirementRequestAction: accept, reject or cancel a pending request *)

\* Mutant: the request stays pending on the block.
DecidedMutant(b, r, status) == b

Decided(b, r, status) == [b EXCEPT !.records[r].status = status]

WholeBlockRequested(b, r) ==
    b.reserved = b.records[r].amount /\ b.amount = b.records[r].amount

AcceptWhole(id, r) ==
    /\ WholeBlockRequested(blocks[id], r)
    /\ blocks' = [blocks EXCEPT
                    ![id].owner = NoCompany,
                    ![id].notTransferred = FALSE,
                    ![id].reserved = 0,
                    ![id].records[r].status = "COMPLETED"]

AcceptPart(id, r) ==
    LET b == blocks[id]
        n == b.records[r].amount
        done == Decided(b, r, "COMPLETED")
    IN  /\ ~WholeBlockRequested(b, r)
        /\ CanSplit(b, n)
        /\ blocks' = Revise(Split(id,
                [Kept(done, n) EXCEPT !.reserved = @ - n],
                CutOff(b, n, NoCompany,
                       [NoRecords EXCEPT ![r] = done.records[r]])))

AcceptRetirement(id, r) ==
    /\ blocks[id].records[r].status = "PENDING"
    /\ AcceptWhole(id, r) \/ AcceptPart(id, r)
    /\ ProjectMoves(id, blocks[id].records[r].amount, "retired")
    /\ UNCHANGED <<activity, account>>

\* REJECT by the DNA and CANCEL by the owner differ in the status only.
DeclineRetirement(id, r, status) ==
    /\ blocks[id].records[r].status = "PENDING"
    /\ blocks' = [blocks EXCEPT
                    ![id].reserved = @ - blocks[id].records[r].amount,
                    ![id].records[r].status = status]
    /\ UNCHANGED <<project, activity, account>>

-----------------------------------------------------------------------------
Init ==
    /\ project = [p \in Projects |->
         [issued |-> 0, balance |-> 0, transferred |-> 0, retired |-> 0]]
    /\ activity = [a \in Activities |-> "MONITORING_REPORT_VERIFIED"]
    /\ account = [c \in Companies |-> 0]
    /\ blocks = [id \in {} |-> {}]

(* The inputs.  The services check roles, company states and, on the copy  *)
(* in the operational database, owner and amount before they get here:     *)
(* that refuses some calls and changes nothing.                            *)

Issue == \E a \in Activities, batch \in Batches : IssueCredits(a, batch)

Transfer ==
    \E id \in DOMAIN blocks, from, to \in Companies :
        \E n \in 1 .. blocks[id].amount : TransferCredits(id, n, from, to)

RequestRetirement ==
    \E id \in DOMAIN blocks, from \in Companies, r \in RetireIds :
        /\ UnusedRetireId(r)
        /\ \E n \in 1 .. blocks[id].amount : AddRetireRequest(id, n, from, r)

Accept == \E id \in DOMAIN blocks, r \in RetireIds : AcceptRetirement(id, r)

Decline ==
    \E id \in DOMAIN blocks, r \in RetireIds,
       status \in {"REJECTED", "CANCELLED"} : DeclineRetirement(id, r, status)

Next == Issue \/ Transfer \/ RequestRetirement \/ Accept \/ Decline

Spec == Init /\ [][Next]_vars

-----------------------------------------------------------------------------
(* What the serial numbers say *)

Serials(id) == blocks[id].first .. blocks[id].last

BlocksOf(p) == {id \in DOMAIN blocks : id[1] = p}

\* The credits company c owns, one by one; NoCompany owns the retired ones.
Owned(c) ==
    UNION {{id[1]} \X Serials(id) :
             id \in {i \in DOMAIN blocks : blocks[i].owner = c}}

\* The credits of p that are still in a block that never changed hands.
Unmoved(p) ==
    UNION {Serials(id) : id \in {i \in BlocksOf(p) : blocks[i].notTransferred}}

Pending(b) == {r \in RetireIds : b.records[r].status = "PENDING"}

PendingAmounts(b) == [r \in Pending(b) |-> b.records[r].amount]

IssuedOf(c) == [p \in {q \in Projects : Developer[q] = c} |-> project[p].issued]

-----------------------------------------------------------------------------
(* Properties *)

\* Types of the four tables.
TypeOK ==
    /\ project \in [Projects -> ProjectRow]
    /\ activity \in [Activities ->
            {"MONITORING_REPORT_VERIFIED", "VERIFICATION_REPORT_VERIFIED"}]
    /\ account \in [Companies -> Nat]
    /\ DOMAIN blocks \subseteq Projects \X (Nat \ {0})
    /\ blocks \in [DOMAIN blocks -> Block]

\* A row agrees with its serial number: the id is prefix + block start and
\* creditAmount, stored beside the serial, is the size of its range.
RowMatchesSerial ==
    \A id \in DOMAIN blocks :
        /\ id[2] = blocks[id].first
        /\ blocks[id].amount = blocks[id].last - blocks[id].first + 1
        /\ blocks[id].amount > 0

\* Every credit ever issued to a project is in exactly one block, whatever was
\* split, transferred or retired, and no block holds a credit never issued.
SerialsPartitionIssued ==
    \A p \in Projects :
        /\ \A i, j \in BlocksOf(p) : i # j => Serials(i) \cap Serials(j) = {}
        /\ UNION {Serials(id) : id \in BlocksOf(p)} = 1 .. project[p].issued

\* The project columns, updated by increments in three functions, agree with
\* the blocks: creditBalance counts the credits that never moved, each issued
\* credit is counted in one of the columns and the estimate is never exceeded.
CountersMatchSerials ==
    \A p \in Projects :
        LET row == project[p]
        IN  /\ row.balance = Cardinality(Unmoved(p))
            /\ row.issued = row.balance + row.transferred + row.retired
            /\ row.issued <= CreditEst[p]

\* The account of a company, kept in another table, is what was issued to the
\* projects it develops: a call updates both tables or none.
AccountsMatchProjects ==
    \A c \in Companies : account[c] = SumFunction(IssuedOf(c))

\* reservedCreditAmount is the sum of the pending requests on the block and
\* never exceeds the block, however requests, splits and decisions mix.
ReservedIsPending ==
    \A id \in DOMAIN blocks :
        LET b == blocks[id]
        IN  b.reserved <= b.amount /\ b.reserved = SumFunction(PendingAmounts(b))

\* A pending request can always be accepted: the split of
\* retirementRequestAction never throws for it.
AcceptNeverThrows ==
    \A id \in DOMAIN blocks, r \in RetireIds :
        LET b == blocks[id]
        IN  b.records[r].status = "PENDING" =>
                WholeBlockRequested(b, r) \/ CanSplit(b, b.records[r].amount)

\* A retired credit stays retired: no transfer, retirement or split gives it
\* an owner again.
RetiredIsFinal == [][Owned(NoCompany) \subseteq Owned(NoCompany)']_vars

\* Credits reserved for a retirement stay with the company that asked, as long
\* as the request is pending: no transfer takes the block away under it.
PendingKeepsOwner ==
    [][\A id \in DOMAIN blocks, r \in RetireIds :
          (/\ blocks[id].records[r].status = "PENDING"
           /\ blocks'[id].records[r].status = "PENDING")
          => blocks'[id].owner = blocks[id].owner]_vars

\* "the current owner always retains the first serial number block and gives
\* away the last serial number block" (README.md:165): if an owner loses a
\* credit of a block, it loses every later credit of that block too.
OwnerKeepsFirstSerials ==
    [][\A c \in Companies, id \in DOMAIN blocks :
         \A m, n \in Serials(id) :
            LET lost(k) == <<id[1], k>> \notin Owned(c)'
            IN  blocks[id].owner = c /\ m < n /\ lost(m) => lost(n)]_vars
=============================================================================
