# Verification of the Champa Lao carbon registry

TLA+ models of the registry's back end (`backend/services`), the TLC runs that
check them on small instances, and TLAPS proofs that hold for every instance.
Paths below are relative to the repository root; `S/` stands for
`backend/services/libs/shared/src/` and `R/` for `backend/services/src/`.

## 1. The system

The back end is a NestJS monorepo started as one of several modules
(`R/main.ts`). `docker-compose` runs the national API, the analytics API and a
container with the ledger replicator and the asynchronous operations handler.
Two databases carry the state:

* the **ledger** (`<db>Events`, PostgreSQL): append-only tables `programmes`,
  `company`, `project`, `credit_blocks`. A row is a revision `(data, meta, hash)`
  whose `hash` comes from a sequence; the current row of a key is the revision
  with the highest hash.
* the **operational database**, which the APIs query. The replicator fills it
  from the ledger.

| Component | State | Operations | Talks to |
|---|---|---|---|
| Credit ledger operations, `S/programme-ledger` | project, company and credit block rows in the ledger | `issueCredits`, `transferCredits`, `addRetireRequest`, `retirementRequestAction`; project creation and proposal stages; the programme functions | `getAndUpdateTx`, credit blocks and serial numbers |
| Credit blocks and serial numbers, `S/credit-blocks-management`, `S/serial-number-management` | none; the range inside a serial number | create, transfer or split a block | called by the ledger operations |
| Ledger access, `S/ledger-db/pgsql-ledger.service.ts` | ledger tables | `getAndUpdateTx`: read, re-read, insert in three transactions | PostgreSQL |
| Credit transactions, `S/credit-transactions-management` | `CreditTransactionsEntity` | requests of users; `handleTransactionRecords` for each replicated block | ledger operations, counters, AEF |
| Replicator, `R/ledger-replicator` | four cursors, retry counters | a cycle per second over four tables; ITMO import once a day | both databases |
| AEF records, `S/aef-report-management` | action records | one record per issue, transfer and retirement | called while replicating |
| Counters, `S/util/counter.service.ts` | named counters | `incrementCount` | called by services |
| Project and document lifecycle, `S/document-management` | documents, activities, proposal stage | submit and decide INF, PDD, validation, monitoring, verification | ledger operations |
| Certificates, `S/certificate-registry`, `S/certificate-issuance-request` | lots, portions, events, requests | record event, reverse, request and approve issuance | credit blocks (read only) |
| Emission trading, `S/emission-trading` | ceilings, trades | record, settle, void, reverse | certificates |
| Asynchronous operations, `R/async-operations-handler` | queue, cursor | execute queued actions with back-off | e-mail, external registries |
| Programme flow, `S/programme` | transfer requests | request, approve, reject, cancel, retire; issue, cancel or assign credits | programme functions of the ledger, companies |
| Companies, `S/company` | company rows and their state | suspend, activate; profiles | programme functions of the ledger, transfer requests |
| Users, registries, analytics, import, web | rows | CRUD and queries | APIs |

What is hard in this code:

* A ledger call reads, decides and writes in **separate transactions without a
  lock**, so two requests interleave, and a process can die in between.
* A call writes **several rows**; the update of each one is filtered by its own
  where clause and left out silently when it finds nothing.
* **Ranges are split** again and again while reservations come and go, and four
  functions adjust the same counters.
* The replicator consumes by **hash order, not commit order**, applies an event
  and saves the cursor in **two transactions**, and skips events by time stamp.
* Its loop ends for good on a **shared retry counter**.
* **Documents lag behind the ledger** that decides about them: an approval only
  appends a revision, a rejected report only changes the document.
* A certificate command looks its **idempotency key up before it locks** the
  lot; an approval of certificates is three transactions without a frame.
* A transfer of a programme is claimed in one database, moved in another and
  settled in the first; **shares are rounded products** of a balance and a
  percentage, recomputed by four functions.

What makes the components correct: a credit is in exactly one block with one
owner; retired is final; reservations equal pending requests; project, company
and block figures agree; nothing exceeds the estimate; credits are issued once for an
activity that was verified; a lot of certificates holds what was issued and its
journal never changes; a transfer shows what happened to its credits; the operational
database shows a past state of the ledger, moves forward and catches up; the
replicator keeps running and one bad table does not stop the others.

## 2. Modules

| Module | Models | Extends / uses |
|---|---|---|
| `CreditLedger` | the four ledger operations as atomic steps: the abstract specification of the credit tables | - |
| `CreditLedgerProofs` | theorems about `CreditLedger` | extends it and `SumFacts` |
| `CreditRequests` | the same operations as three database transactions each, interleaved by workers that may die | `Ledger == INSTANCE CreditLedger` |
| `CreditRequestsProofs` | theorems about `CreditRequests`, and that it implements `CreditLedger` | extends it and `SumFacts`; `Atomic == INSTANCE CreditLedgerProofs` |
| `ReplicaPromise` | what the operational database promises about the blocks: the abstract specification of replication | - |
| `CreditReplicator` | the credit block section of the replicator with ledger transactions that draw hashes and commit | `Promise == INSTANCE ReplicaPromise` |
| `CreditReplicatorProofs` | theorems about `CreditReplicator`, and that its steps are steps of `ReplicaPromise` | extends it and `SumFacts` |
| `ReplicatorLoop` | the replicator's cycle, its try blocks and retry counters | - |
| `ReplicatorLoopProofs` | theorems about it | extends it |
| `ProjectLifecycle` | documents, activities and proposal stages of a project, with the replicator of its revisions | - |
| `ProjectLifecycleProofs` | theorems about it | extends it |
| `CertificateRegistry` | lots, portions and events of certificates: `recordEvent` and the management of lots | - |
| `CertificateIssuance` | requests for certificates and their approval, composed with the registry | extends `CertificateRegistry` |
| `CertificateProofs` | theorems about both | extends `CertificateIssuance` and `SumFacts` |
| `ProgrammeCredits` | the credits of a programme with several owners: requests, approvals, issue, cancellation, suspension | - |
| `ProgrammeCreditsProofs` | theorems about it | extends it and `SumFacts` |
| `SumFacts` | lemmas about sums over finite sets, for all proof modules | - |
| `MC...` | values of the constants for TLC | one per module that needs one |

Two refinements tie them together: `CreditRequests` implements `CreditLedger`
(property `ImplementsLedger`, theorem `RefinesLedger`) and `CreditReplicator`
implements `ReplicaPromise` (property `KeepsPromise`, its safety part theorem
`ShowsPastStates`).

### CreditLedger

`project[p]` holds the credit columns of the project's latest ledger row,
`activity[a]` the activity's state inside it, `account[c]` the row `c#` of the
company table, and `blocks[id]` the credit block rows, `id` being project and
block start because the code's id is the serial number up to its start. A
serial number is the pair `first`, `last`; vintage, `txRef` and wording are left
out. `IssueCredits`, `TransferCredits` (`TransferWhole` or `TransferPart`),
`AddRetireRequest`, `AcceptRetirement` (`AcceptWhole` or `AcceptPart`) and
`DeclineRetirement` are the four methods of `ProgrammeLedgerService`; a guard
that fails is a call that throws and changes nothing. A batch of vintages is
given as running totals, which is how `issueCredits` numbers the blocks.
The initial state is a set of authorised projects whose activities have a
verified monitoring report.

The services check role, company state, owner and amount on the operational
database before the ledger call. Those checks only refuse calls, so the models
leave them out and allow every call the ledger itself accepts.

### CreditRequests

`rows[key]` is the latest revision of a row of any of the three tables. A worker
goes through `Read` (guards and plan of `processGetFn`), `Reread` (find the
rows to update by their where clause and overwrite the planned fields) and
`Commit` (insert the revisions), or dies with `Die`. Which fields each call
overwrites follows the code: a transfer writes back the whole block entity it
read, a retirement request and decision only some columns, an issuance also the
whole `activities` array. `spent` is what `CounterService` has handed out.

Each transaction is one step. Since rows are only inserted and a query sees
one snapshot per statement, splitting a transaction further would only mix
snapshots of different tables in one `Read`; the races below need no such help.
The hash order of two revisions is their commit order here; `CreditReplicator`
drops that simplification for its own matter. Time stamps are distinct, so two
calls in the same millisecond, which weaken the `txTime` guard further, are
not modelled.

`ProjectColumns`, `ActivityStates`, `AccountCredits` and `CreditBlocks` are the
tables of `CreditLedger` in terms of `rows`: the refinement mapping of `Ledger`.

### CreditReplicator and ReplicaPromise

A ledger transaction computes its rows and their time (`Compute`), draws hashes
(`Insert`) and becomes visible (`Commit`) or leaves a hole (`Rollback`). Which
rows a call writes is kept, what they say is not: an event has a block, a kind,
a request and a time. The id of a request is drawn from a counter, so no two calls
make the same request (`Taken`). The replicator polls (`Poll`); its batch is the
set of rows found and `First` takes them by hash, which is the `order by` of the query.
It applies one row in a transaction (`Apply`: skip if older, upsert the block, write
the transaction record and the AEF record) and saves its cursor (`Save`). `Interrupt` is a
crash or an exception at any of these points. `copies[h]` counts the records an
event left, `requests[r]` is the status users see.

### ReplicatorLoop

`at` is the section of the cycle that runs next. A section succeeds or fails;
it must fail while its table is missing or holds an event that can never be
processed, and may fail a bounded number of times otherwise (`outages`). The
catch block, the two counters and their resets are the code's. `badCycles`
observes how many cycles passed since a section sharing the counter succeeded.

### ProjectLifecycle

One project. `docs` and `activities` are the two tables of the operational
database, `project` the latest revision in the ledger, `log` all of its
revisions (transaction and document named by `txRef`), `replayed` how many of
them the replicator has applied. A call of `addDocument` reads the stage
(`StartSubmission`), saves the document and updates the ledger, which refuses
unless the stage is still the expected one (`Submit`); a call of `verify` reads
the document (`StartDecision`) and then writes either the ledger (`DecideStage`,
`ApproveMonitoring`, `Issue`) or, to reject a report, the operational database
(`RejectLocally`). `Replicate` is `processProject` with `modifyDocumentEntity`,
`ReplicateAgain` the repetition after a crash: its guard compares time stamps
with `<=`, so only the last revision can be repeated. The tables
`StageChange`, `Submission`, `Decision` and `LocalState` hold what the code's
`switch` statements hold.

`orderly` is a history variable: no call overlapped another or used data older
than the ledger, and none died with a document half submitted. Properties named
`Orderly...` are what the code promises under that condition only; the others
hold always. An update of the ledger is one step, since `CreditRequests` already
shows what its three transactions add.

### CertificateRegistry and CertificateIssuance

`lots` is a table; `events` and `portions` are functions of the idempotency key,
from which the code derives both identifiers. A call of `recordEvent` is
`Submit` (the key is new) and `Record` (everything behind the lock on the lot)
or `Fail`. `Accepts` collects the guards, `TakenFrom`, `PortionsAfter` and
`EventOf` say what is written. An approval of a request is `StartApproval`,
`SaveLot`, `SubmitIssue` or `ConflictingIssue`, `RecordIssue` and
`SaveApproved`; `AbandonApproval` is a crash or an exception anywhere. Submitted
commands are those that would be accepted at that moment; others change nothing.

The keys a call may carry are a constant, `KeysOf`. The runs and the proofs
assume that no two calls carry one key (`OwnKeys`), see the observations below.

### ProgrammeCredits

`programme` is the row of one authorised programme in the ledger, `account[o]`
the credit of an owner in the company table, `applied` the requests named in the
programme's history, by which `transferProgramme` recognises a repeated request;
`transfers` and `state` are operational tables. Amounts are hundredths, as
`halfUpToPrecision` leaves them, percentages keep their six decimals, and
`Nearest` rounds like `toFixed`. A call keeps in `call` what it holds between its
steps: an approval goes through `StartApproval`, `Claim`, `Move`, `Settle`,
`List` and `Sweep`, an issue through `StartIssue`, `Issue`, `FindSuspended` and
`FreezeIssued`, a suspension through `ChangeState`, `Freeze` and
`CancelPending`. `Die` ends any of them. The four columns of credits that left
the programme are one (`moved`); accounts of the government and of the exchange
are credited but never read; owners do not change.

## 3. Runs

Run each inside this directory with `tlc -workers 2 -config <cfg> <module>`.

| Run | Shows |
|---|---|
| `ledger` | serial numbers partition what was issued; counters, accounts and reservations agree with them; a pending request can always be accepted and keeps its owner; the owner keeps the first serials; retired is final |
| `requests_serial` | three-transaction calls refine the atomic ones when calls on the projects of one developer do not overlap, with other developers in parallel and deaths anywhere |
| `requests_race` | what any overlap leaves intact: reservation and requests of a row, the estimate |
| `requests_double` (violation) | overlapping calls put a credit in two blocks, against README.md:80 |
| `replicator` | without overlapping ledger transactions the replica keeps its promise under interruptions, including that it catches up |
| `replicator_overlap` | with overlap: duplicates need interruptions, an accepted retirement finds its request, decided is never shown as pending |
| `replicator_skip` (violation) | with overlap the replica may never catch up, against README.md:206 |
| `loop` | booting before the tables exist, with a poisoned project table and outages: when the loop may stop, how soon, and that healthy tables catch up |
| `certificates` | while an officer and two managers interleave and die: the journal never changes and the portions are its projection, a lot holds what it was issued, retired certificates come back by reversal only, an approved request has exactly its certificates |
| `lifecycle` | under any overlap and with a lagging, repeating replicator: credits are issued once per activity and after its approval, the authority decides on certified designs, the replicator finds every row it needs; in order: decisions name the latest document, issued shows as issued, no project is stuck |
| `programmes` | while services interleave and die between two databases: no credit of a programme is lost or invented, accounts cover shares up to a hundredth per call, a request shows what happened to its credits |
| `programmes_rounding` (violation) | a cancellation leaves an owner with 125% and 0.06 of 0.05 credits leave the programme, against README.md:80 |

Every property of a passing run has a mutant in `PROJECT.json`: a plausible
bug in one definition (an operator named `...Mutant` beside the original) under
which TLC finds the property violated.

**Bounds.** `ledger`: two projects of two companies, three activities, batches
of one or two vintages, estimates 4 and 1, two retirement requests. Four credits
allow a block to be split in both directions, to be reserved twice and to
leave a remainder; the estimates make the last issuance fail. `requests_*`: two
workers, at most four or five calls; the races need two overlapping calls after
an issuance. `replicator*`: two blocks, one request, four events, one or two
interruptions. Reordering needs two writers, and a request that is made, applied
twice and decided needs three events. `loop`: the code's retry limit 10 and two
outages, enough to reset or to push either counter over its limit.
`certificates`: two lots, two companies, quantities 1 and 2, one request and
three callers with one key each, an officer and two managers; three events
suffice to issue, retire a part and reverse it, and a second lot is what a
repeated approval leaves behind. `lifecycle`: two calls; four documents from the
beginning (a form, its edition, a rejected design and the next one) and three
more than the shortest way to authorisation, with two activities, which allow a
report to be rejected and submitted again and a second round of monitoring.
`programmes`: four calls, of which two run at once, since an approval that dies,
its repetition, a rejection and a request are four; owners with nine and five
parts of fourteen, twelve hundredths and amounts 3 and 7, with which a
cancellation by one owner rounds the other's share up past its account (TLC's
integers of 32 bits allow balances up to 21 hundredths, as percentages have
eight digits). `programmes_rounding`: two equal owners, five hundredths, amounts
1 and 3.
Deadlock is not checked where the bound on calls, events or estimates ends every
behaviour, or where the loop has stopped.

**Fairness.** `CreditReplicator` assumes weak fairness of `Poll`, `Apply` and
`Save`: the loop reschedules itself every second and the events of a batch are
awaited one by one. Ledger transactions have none. Interruptions are bounded,
as no replica catches up that is always interrupted. `ReplicatorLoop` assumes
weak fairness of sections and timer (the event loop runs what is scheduled)
and of the creation of the tables (the national API creates them when used).

**Observations behind no run.** Reading the code for these models also showed:

* `issueCredits` guards the update of the project with its `txTime` but not the
  update of the company account: when two issuances overlap, the project update
  of the second finds nothing and is left out while account and blocks are
  written (README.md:204 promises one transaction).
* README-LAOS.md:88 says that a replicator started before its tables stays
  stalled because of a missing call in the retry path. The missing call changes
  nothing, as the catch block falls through to `setTimeout`. But the retry is
  not unconditional, as the comment at
  `R/ledger-replicator/pgsql-replicator.service.ts:97` says: line 94 returns
  before it.
* README.md:161 says a full transfer updates the balances of both companies; the
  company table is changed by `issueCredits` only, and the balances users see
  are sums over the blocks.
* Certificates: two calls that carry one idempotency key can both pass the
  look-up, and `save()` of the second overwrites event and portion of the first,
  although the journal is called immutable. Two officers who approve one request
  at once are such calls. A retry that names the default owner is refused as a
  different command, because the stored event has the owner filled in.
* An approval that dies after its ISSUED event can never be completed: each
  retry makes another lot and conflicts on the key. The request stays pending
  and can be rejected though its certificates exist. Nothing is reserved on the
  credit block meanwhile, and the check for a pending request of the same block
  is not protected against a second request at the same time.
* An archived lot can still be issued. A reversal may take from any portion of
  the lot in the right state, and the same event can be reversed repeatedly as
  long as such portions exist.
* An edited notification form leaves its older version pending, and that one can
  be decided. A design rejected in the ledger can be approved by a call that read
  the document before the replicator, once a new design was submitted. A
  submission that dies after the document was saved leaves a document that can
  be decided in place of the later one.
* A monitoring report approved in the ledger can be rejected in the operational
  database before the replicator has passed; the activity is then shown
  rejected, or verified again, while the ledger accepts no second approval.
* Programmes: a cancellation computes the new percentages from shares before they
  are rounded, so an owner that gives nothing may be shown a hundredth more than
  its account holds (seven hundredths at 64.285714%, the other owner cancels its 3).
* Programmes: two issues checked against the same programme exceed its estimate
  together; an empty list of amounts issues all that is left. A transfer whose
  ledger step throws stays processing. The sweep can show a request cancelled
  that moved its credits. What is frozen for a suspended company depends on
  whether the suspension ran before, between or after the steps of an issue
  (`S/company/company.service.ts:144` has a TODO about it).

## 4. Proofs

Every theorem below holds for all values of the constants that satisfy the
assumptions named with it; the runs show the same properties on small instances.
Every invariant and every action property of the passing runs is proved,
`AccountCoversShare` under two hypotheses about the behaviour. What is left to TLC is listed at the end of the section.

`SumFacts` is used by most proof modules. The library's `SumFunction` folds a set
with a recursive function in the order of a `CHOOSE`. That the recursion has a
solution and that the order does not matter is proved by looking at the
smallest set for which it would fail; from there on a sum is known by what happens
to it when one argument is added, removed or changed.

### CreditLedgerProofs

Assumed: `ConstantsAssumption` (finitely many projects; developers, estimates
and activities are total functions; batches are increasing sequences of positive
totals, as the DTO validates). Proved: all ten properties of run `ledger`.

* `TypeCorrect`, `RowsMatchSerials`, `SerialsPartition`, `RetirementIsFinal`. The
  inductive invariant `IInv` adds to the types that each range is non-empty and
  ends within what was issued (`RangesTyped`), that ranges of one project are
  disjoint (`RangesDisjoint`), that every issued number is covered (`RangesCover`),
  and that requests are for a positive amount (`RequestsPositive`), without which
  a split could produce an empty block. Bounds replace sets of numbers, so each
  step is linear arithmetic.
* `ReservedIsPendingAlways`, `AcceptSucceeds`, `PendingStaysWithOwner`.
  `RequestsInv` says that the reserved amount of a block is the sum of its
  pending requests and at most the block. That each one can be taken whole or
  cut off follows because one summand is at most the sum.
* `CountersAgree`, `AccountsAgree`, `OwnerKeepsFirst`. The balance of a project
  is the number of its serials that never moved; a step takes an interval out of
  that set. Accounts are sums over the projects of a developer.

### CreditRequestsProofs

Assumed: `RequestsAssumption` (the same, and that `Scope` is a function). Proved
when calls overlap in any way and die anywhere: `RequestsTypes`,
`NothingIssuedBeyond`, `ReservedAgrees`.

What these say of the rows is not inductive, since a call writes columns computed
from rows that have changed since. `IInv` therefore also constrains waiting
calls: an update is good if it turns **every** good row of its table into a good
row (`UpdateOK`), whichever it meets when it reads again, and so it must be made
of columns that are written together: `last` with `amount` (`Covers`),
`reserved` with `records` (`Reserves`). It must stay good while further request ids are
handed out, so `UpdateOK` quantifies over later sets of ids. That the reserved
amount is exactly the sum of the pending requests holds even here, which is more
than `ReservedMatchesRequests` asks; what overlap breaks is the relation to
`amount`, and with it the partition of serial numbers (run `requests_double`).

Proved under `OwnScope` (no two workers serve projects of one developer, as in
run `requests_serial`; nothing in the code enforces it, so it is a hypothesis of
these theorems and not an assumption of the module):

* `CallsStayFresh`: whatever a call waits to write is what it would write if it read
  the rows now. That is not inductive for retirement requests unless the id a
  call drew from the counter is known to be in no row and no other call yet
  (`NotYet`). A step of another worker leaves the rows in scope as they are
  (`ScopesKept`), and rows outside the scope do not enter a plan (the lemmas
  named `...Stays`).
* `RefinesLedger`: the initial state is one of `CreditLedger`, and a step is one of
  its steps when it commits (`CommitIssue`, `CommitTransfer`, `CommitRequest`,
  `CommitAccept`, `CommitDecline`) and changes no row otherwise. Each
  of the five compares the columns that a plan sets with what the operation of
  `CreditLedger` assigns; `BlockWritten` says once what a commit does to the
  mapped tables.
* `BooksStraight`, `OwnersSafe`, `NoDoubleCountingInScope`: what is proved of
  `CreditLedger` holds of the rows that three-transaction calls leave behind. The
  theorems of `CreditLedgerProofs` are used through its instance `Atomic`, which
  has the same substitution as `Ledger` (`LedgerIsAtomic`). In particular the
  claim of README.md:80 that run `requests_double` refutes holds as
  long as no two calls on the projects of a developer overlap.

### CreditReplicatorProofs

Assumed: `ReplicatorAssumption` (the bounds are natural numbers and the string
that stands for no request is not a request). Proved for any overlap of ledger
transactions and any interruptions:

* `RetirementsFindRequests`, `DecisionStays`, `ReplicatorTypes`. The invariant
  `DataInv` follows the history of a request: its id is drawn once, so one event
  makes it, every decision was made by a call that saw it applied and has a
  larger hash (`RequestsOK`), and while its own event may still be applied again,
  no decision on it has been applied (`StreamOK`).
* `DuplicatesArePaid`. The sum of extra copies is not inductive: after an
  interruption between `Apply` and `Save` the extra copy is yet to come.
  `Weight` counts the event being applied again in advance, and each
  interruption pays for one.

Proved under `OneWriter` (no two ledger transactions overlap):

* `AppliedAreRecorded`, and
* `ShowsPastStates`: the initial state of `CreditReplicator` is one of
  `ReplicaPromise`, and every step is a step of it or a stutter. `SerialInv` says
  that hashes become visible in the order of `txTime`, that a batch has no gaps,
  and that the replica shows exactly the events up to the cursor, or up to the
  next one between `Apply` and `Save` and after an interruption there (`Shown`).

That the replica catches up, the other part of `KeepsPromise`, is liveness and
stays with run `replicator`.

### ReplicatorLoopProofs

Assumed: `LoopAssumption` (the retry limit is at least 1). Proved: `LoopTypes`,
`StopNeedsAllSections`, `NoEarlyStop`. The shared counter alone does not say who
failed; the invariant reads it together with the place in the cycle: that
many of the sections before it failed in a row.

### CertificateProofs

Assumed: the assumptions of the two modules and `OwnKeys` (no two calls carry one
idempotency key; the models do not constrain it otherwise). Proved: all six
properties of run `certificates`.

* `JournalNeverChanges`: the key of a submitted command belongs to its caller
  and is not in the journal yet (`KeysInFlight`), so recording adds a row.
* `ApprovedAlwaysIssued`: an officer that holds a lot works on an existing
  request, the lot has its quantity, and from the `save` step on the event under
  the request's key names that lot (`ApprovalsInFlight`).
* `CertificateTypes`, `SupplyAlwaysConserved`, `PortionsAreProjection`,
  `OnlyReversalReturns`: each event takes from one portion what it gives to
  another. A lot is issued at most once because one that was issued never loses
  its last portion, which the supply itself says. The projection of a
  longer journal is the projection of the shorter one with one event applied.

### ProjectLifecycleProofs

Assumed: the bound on activities is a natural number. Proved: all six properties
of run `lifecycle`.

* `LifecycleTypes`, `NoSecondIssue`, `CertifierComesFirst` hold under any
  overlap and with a replicator that lags or repeats. The invariant ties
  the log to what the ledger records of an activity (`LogOK`) and each waiting
  decision to the status it has read (`CallOK`): the replicator writes a
  certifier's approval only from a revision that is in the log already.
* `DecidesOnLatest`, `IssueIsShown`, `NeverStuck` hold of orderly behaviours.
  `OInv` says that what a call has read is still so, and that tables, stage
  and ledger differ exactly by the one revision not yet applied.

### ProgrammeCreditsProofs

Assumed: `ProgrammeAssumption` (finitely many owners and requests). Proved:
`MovedAsDecidedAlways`, `CreditsAccountedAlways`, `TypeCorrect`,
`AccountsCoverShares`. For the first the
invariant says what calls know: a request being moved or settled has left
`PENDING` for good (`Claimed`), so no rejection or cancellation can touch it, and
a call that settles follows a move (`CallOK`). The second is a sum over the owners
that every ledger step changes in one place, and is inductive with the types.

`AccountsCoverShares` is about products of balance and percentage rounded to
hundredths. The lemma it rests on, `RoundTrip`, says that a share turned into a
percentage of the new balance and back is the same share, as long as the balance
is under a million credits: from there on half a unit of the last of a
percentage's six decimals is half a hundredth of a credit. So transfers and
issues do not move shares by rounding. Cancellations do, as they start from
unrounded shares, by at most a hundredth each; the attempt to prove the bound
without that hundredth failed there, and TLC then found the counterexample given
in section 3. The theorem has two hypotheses, both about behaviours:

* `[]SmallBalance`: the balance stays under a million credits.
* `[][NoIssueTakesBack]_programmeVars`: no issue of all that is left lowers
  what is issued, which it does when another issue has run past the estimate
  meanwhile. Such steps make `SharesInv` false (a later balance can be zero or
  negative), and the run does take them, so on the run's instance TLC shows
  `AccountCoversShare` without this hypothesis.

`SharesInv` adds to the property that shares and frozen amounts are never
negative: a transfer needs the first to leave the percentages of the others
alone, and a cancellation both to know that it takes no more than the share.

### Only model-checked

* All liveness: that the replica catches up (`KeepsPromise`) and that healthy tables
  do (`OthersCatchUp`). Liveness under fairness is out of reach of the
  prover used.
* `AccountCoversShare` where an issue takes credits back, on the instance of the run.

## 5. Not modelled

See `components` in `PROJECT.json`. Emission trading and the asynchronous
operations share no table with the modelled components and come next in the
plan; their two hazards are listed without a property. Of the programme flow,
creation, documents, authorisation, certification, investment and change of
ownership are left out: one call writes one row, except for investment, which
changes the owners that `ProgrammeCredits` keeps fixed. The QLDB back end is
unused in this deployment. National registries, analytics, mail, files, import
and the web client, which are most of the repository's lines, are CRUD,
read-only or pure input and output. Two calls that carry one idempotency key,
and the first use of a counter (`S/util/counter.service.ts:40`), are known
gaps described above; a property would only restate that they go wrong.

## 6. Plan

1. `AsyncOperations`: at-least-once execution with a cursor in memory and one in
   the database, back-off, and what may be executed twice.
2. `EmissionTrading`: balances of allowances, and reversal in two transactions.
3. Investment and change of ownership in `ProgrammeCredits`.
