-------------------------- MODULE CreditReplicator --------------------------
(***************************************************************************)
(* The credit block section of PgSqlReplicatorService: rows of the ledger  *)
(* table with a hash above the saved cursor are applied one by one to the  *)
(* operational database by ProcessEventService.processCreditBlock, and the *)
(* cursor is saved after each.  Applying a row and saving the cursor are   *)
(* two transactions, and the hash of a row is drawn from a sequence before *)
(* the transaction that inserts it commits.                                *)
(*                                                                         *)
(* The ledger side is reduced to which events a call writes and when; what *)
(* the rows say is the matter of CreditLedger and CreditRequests.          *)
(***************************************************************************)
EXTENDS Integers, Sequences, FiniteSets, Functions

CONSTANTS
    Blocks, Requests,
    Writers,        \* ledger transactions that can be open at the same time
    MaxEvents,      \* bound on the rows of the ledger table, and on txTime
    MaxInterrupts   \* bound on crashes and failed writes of the replicator

ASSUME ReplicatorAssumption ==
    MaxEvents \in Nat /\ MaxInterrupts \in Nat /\ "none" \notin Requests

VARIABLES
    events,      \* events[h]: the ledger row with hash h, committed or not
    visible,     \* hashes of the committed rows
    tx,          \* tx[w]: the ledger transaction of writer w
    clock,       \* source of txTime
    rows,        \* rows[b]: hash of the event the operational row b shows
    requests,    \* requests[r]: status of the credit transaction of request r
    copies,      \* copies[h]: transaction and AEF records written for event h
    cursor,      \* counter CREDIT_BLOCKS_REPLICATE_SEQ
    batch,       \* hashes of the last query still to be processed
    stage,       \* what the replicator does next: "poll", "apply" or "save"
    interrupts

ledgerVars == <<events, visible, tx, clock>>
replicaVars == <<rows, requests, copies, cursor, batch, stage, interrupts>>
vars == <<ledgerVars, replicaVars>>

-----------------------------------------------------------------------------
(* The ledger table *)

Hashes == 1 .. Len(events)

Committed == [h \in visible |-> events[h]]

On(b) == {h \in visible : events[h].block = b}

About(r) == {h \in visible : events[h].req = r}

Retired(b) == \E h \in On(b) : events[h].kind = "ACCEPT"

Live(b) == On(b) # {} /\ ~Retired(b)

Pending(r) == {events[h].kind : h \in About(r)} = {"RETIRE_REQ"}

Ev(b, kind, r) == [block |-> b, kind |-> kind, req |-> r, time |-> clock + 1]

\* The rows of each call: a split inserts the new block before the kept one.
\* The service finds a request to decide on in the operational database.
IssueRows == {<<Ev(b, "ISSUE", "none")>> : b \in {x \in Blocks : On(x) = {}}}

TransferRows ==
    {<<Ev(b, "TRANSFER", "none")>> : b \in {x \in Blocks : Live(x)}}
    \cup {<<Ev(n, "TRANSFER", "none"), Ev(b, "SPLIT", "none")>> :
            b \in {x \in Blocks : Live(x)}, n \in {x \in Blocks : On(x) = {}}}

\* A request takes its id from a counter, which no other call gets again.
Taken(r) ==
    \/ \E h \in Hashes : events[h].req = r
    \/ \E w \in Writers : /\ tx[w].stage = "computed"
                          /\ \E i \in DOMAIN tx[w].new : tx[w].new[i].req = r

RequestRows ==
    {<<Ev(b, "RETIRE_REQ", r)>> :
        b \in {x \in Blocks : Live(x)}, r \in {q \in Requests : ~Taken(q)}}

BlockOf(r) == events[CHOOSE h \in About(r) : TRUE].block

\* Mutant: the ledger alone is asked.
DecidableMutant == {r \in Requests : Pending(r)}

Decidable == {r \in Requests : requests[r] = "PENDING" /\ Pending(r)}

DecisionRows ==
    UNION {
      {<<Ev(BlockOf(r), "ACCEPT", r)>>, <<Ev(BlockOf(r), "DECLINE", r)>>}
      \cup {<<Ev(n, "ACCEPT", r), Ev(BlockOf(r), "SPLIT", "none")>> :
              n \in {x \in Blocks : On(x) = {}}}
      : r \in {q \in Decidable : ~Retired(BlockOf(q))}}

CallRows == IssueRows \cup TransferRows \cup RequestRows \cup DecisionRows

NoTx == [stage |-> "none"]

\* processGetFn fixes the rows and their txTime ...
Compute(w) ==
    /\ tx[w] = NoTx /\ clock < MaxEvents
    /\ \E new \in CallRows :
         /\ Len(events) + Len(new) <= MaxEvents
         /\ tx' = [tx EXCEPT ![w] = [stage |-> "computed", new |-> new]]
    /\ clock' = clock + 1
    /\ UNCHANGED <<events, visible, replicaVars>>

\* ... nextval numbers them when they are inserted ...
Insert(w) ==
    /\ tx[w].stage = "computed"
    /\ Len(events) + Len(tx[w].new) <= MaxEvents
    /\ events' = events \o tx[w].new
    /\ tx' = [tx EXCEPT ![w] = [stage |-> "inserted",
                  hashes |-> Len(events) + 1 .. Len(events) + Len(tx[w].new)]]
    /\ UNCHANGED <<visible, clock, replicaVars>>

\* ... and COMMIT makes them visible, all at once.
Commit(w) ==
    /\ tx[w].stage = "inserted"
    /\ visible' = visible \cup tx[w].hashes
    /\ tx' = [tx EXCEPT ![w] = NoTx]
    /\ UNCHANGED <<events, clock, replicaVars>>

\* A rollback leaves a hole in the sequence.
Rollback(w) ==
    /\ tx[w] # NoTx
    /\ tx' = [tx EXCEPT ![w] = NoTx]
    /\ UNCHANGED <<events, visible, clock, replicaVars>>

-----------------------------------------------------------------------------
(* The replicator *)

\* Mutant: the newest row comes first.
FirstMutant(S) == CHOOSE h \in S : \A k \in S : k <= h

\* "order by hash"
First(S) == CHOOSE h \in S : \A k \in S : h <= k

\* Mutant: the last row is read again.
PollMutant ==
    /\ stage = "poll"
    /\ batch' = {h \in visible : h >= cursor}
    /\ batch' # {}
    /\ stage' = "apply"
    /\ UNCHANGED <<ledgerVars, rows, requests, copies, cursor, interrupts>>

\* select ... where hash > lastSeq order by hash
Poll ==
    /\ stage = "poll"
    /\ batch' = {h \in visible : h > cursor}
    /\ batch' # {}
    /\ stage' = "apply"
    /\ UNCHANGED <<ledgerVars, rows, requests, copies, cursor, interrupts>>

\* A row older than the one shown is skipped.
Outdated(e) == rows[e.block] # 0 /\ events[rows[e.block]].time > e.time

\* handleAefRecord reads the credit transaction of an accepted retirement and
\* fails if there is none.
Throws(e) == e.kind = "ACCEPT" /\ requests[e.req] = "NONE"

\* handleTransactionRecords: a request is saved under its own id, a decision
\* updates it if it is there.
StatusAfter ==
    [RETIRE_REQ |-> "PENDING", ACCEPT |-> "COMPLETED", DECLINE |-> "DECLINED"]

Records(e) ==
    /\ e.kind \in DOMAIN StatusAfter
    /\ e.kind = "DECLINE" => requests[e.req] # "NONE"

RecordRequest(e) ==
    requests' = IF Records(e)
                THEN [requests EXCEPT ![e.req] = StatusAfter[e.kind]]
                ELSE requests

\* Issues and transfers get a credit transaction with a new id, and these and
\* retirements an AEF record: a second copy if the event is applied again.
Copied(e) == e.kind \in {"ISSUE", "TRANSFER", "ACCEPT"}

Apply ==
    LET h == First(batch)
        e == events[h]
    IN  /\ stage = "apply"
        /\ stage' = "save"
        /\ \/ /\ Outdated(e)
              /\ UNCHANGED <<rows, requests, copies>>
           \/ /\ ~Outdated(e) /\ ~Throws(e)
              /\ rows' = [rows EXCEPT ![e.block] = h]
              /\ RecordRequest(e)
              /\ copies' = [copies EXCEPT ![h] = IF Copied(e) THEN @ + 1 ELSE @]
        /\ UNCHANGED <<ledgerVars, cursor, batch, interrupts>>

\* Mutant: the cursor is never written.
SaveMutant ==
    /\ stage = "save"
    /\ batch' = batch \ {First(batch)}
    /\ stage' = IF batch' = {} THEN "poll" ELSE "apply"
    /\ UNCHANGED <<ledgerVars, rows, requests, copies, cursor, interrupts>>

Save ==
    /\ stage = "save"
    /\ cursor' = First(batch)
    /\ batch' = batch \ {First(batch)}
    /\ stage' = IF batch' = {} THEN "poll" ELSE "apply"
    /\ UNCHANGED <<ledgerVars, rows, requests, copies, interrupts>>

\* Mutant: a row that could not be processed is skipped.
InterruptMutant ==
    /\ stage # "poll" /\ interrupts < MaxInterrupts
    /\ interrupts' = interrupts + 1
    /\ cursor' = First(batch)
    /\ batch' = {} /\ stage' = "poll"
    /\ UNCHANGED <<ledgerVars, rows, requests, copies>>

\* A crash, or an operation of the section that throws: the rest of the batch
\* is dropped and the next cycle queries again from the saved cursor.
Interrupt ==
    /\ stage # "poll" /\ interrupts < MaxInterrupts
    /\ interrupts' = interrupts + 1
    /\ batch' = {} /\ stage' = "poll"
    /\ UNCHANGED <<ledgerVars, rows, requests, copies, cursor>>

-----------------------------------------------------------------------------
Init ==
    /\ events = <<>> /\ visible = {} /\ clock = 0
    /\ tx = [w \in Writers |-> NoTx]
    /\ rows = [b \in Blocks |-> 0]
    /\ requests = [r \in Requests |-> "NONE"]
    /\ copies = [h \in 1 .. MaxEvents |-> 0]
    /\ cursor = 0 /\ batch = {} /\ stage = "poll" /\ interrupts = 0

Next ==
    \/ \E w \in Writers : Compute(w) \/ Insert(w) \/ Commit(w) \/ Rollback(w)
    \/ Poll \/ Apply \/ Save \/ Interrupt

\* The loop is rescheduled every second and its interruptions are finite.
Fairness == WF_vars(Poll) /\ WF_vars(Apply) /\ WF_vars(Save)

Spec == Init /\ [][Next]_vars /\ Fairness

-----------------------------------------------------------------------------
(* Properties *)

\* Types.
TypeOK ==
    /\ Len(events) <= MaxEvents /\ visible \subseteq Hashes
    /\ rows \in [Blocks -> 0 .. MaxEvents]
    /\ requests \in [Requests -> {"NONE", "PENDING", "COMPLETED", "DECLINED"}]
    /\ copies \in [1 .. MaxEvents -> 0 .. MaxInterrupts + 1]
    /\ cursor \in 0 .. MaxEvents /\ interrupts \in 0 .. MaxInterrupts
    /\ stage \in {"poll", "apply", "save"}

Promise == INSTANCE ReplicaPromise WITH
    log <- Committed,
    view <- [rows |-> rows, requests |-> requests]

\* While ledger transactions do not overlap, the operational database always
\* shows a past state of the ledger, only moves forward and catches up, however
\* often the replicator is interrupted between applying and saving.
KeepsPromise == Promise!Spec

\* An event behind the cursor has left its transaction and AEF records.
AppliedIsRecorded ==
    \A h \in visible :
        h <= cursor /\ Copied(events[h]) => copies[h] >= 1

Extra(h) == IF copies[h] > 1 THEN copies[h] - 1 ELSE 0

\* Duplicate records come from interruptions only, at most one from each.
DuplicatesNeedInterrupts ==
    SumFunction([h \in DOMAIN copies |-> Extra(h)]) <= interrupts

\* An accepted retirement always finds the credit transaction of its request,
\* so its AEF record can be written and the stream never gets stuck on it, even
\* when ledger transactions overlap and the replicator is interrupted.
RetirementFindsItsRequest ==
    \A h \in visible : ~Throws(events[h])

\* A decided request is not shown as pending again, although an interrupted
\* replicator saves the request anew.
DecisionIsFinal ==
    [][\A r \in Requests :
         requests[r] \in {"COMPLETED", "DECLINED"} => requests'[r] # "PENDING"]_vars

\* "Eventually replicated to this from primary database via data stream"
\* (README.md:206).
EventuallyReplicated == <>[](Promise!CaughtUp)
=============================================================================
