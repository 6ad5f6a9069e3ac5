-------------------------- MODULE ProgrammeCredits --------------------------
(***************************************************************************)
(* Credits of one authorised programme shared by several owners            *)
(* (programme/programme.service.ts and the programme functions of          *)
(* programme-ledger/programme-ledger.service.ts), with the requests to     *)
(* transfer or retire them and the suspension of an owner                  *)
(* (company/company.service.ts).                                           *)
(*                                                                         *)
(* The ledger keeps a balance and a percentage per owner; an owner's share *)
(* is their rounded product.  Requests live in the operational database.   *)
(* Every service call is a chain of steps on the two databases; others run *)
(* in between and its process can die after any of them.                   *)
(*                                                                         *)
(* Abstracted: the four columns of credits that left the programme are one *)
(* (moved); accounts of the government and of the exchange are credited    *)
(* but never read; mitigation actions only bound what may be issued.  An   *)
(* update of the ledger is one step; CreditRequests shows what overlapping *)
(* ledger transactions do.  Owners and their proponent percentages do not  *)
(* change (no investment in the programme).                                *)
(***************************************************************************)
EXTENDS Integers, FiniteSets, Functions

CONSTANTS
    Owners,       \* companies that own the programme
    Government,   \* receiver of retired credits
    Requests,     \* identifiers of transfer requests
    Calls,        \* concurrent calls of the services
    Estimate,     \* creditEst, in hundredths of a credit
    Amounts,      \* amounts a caller may name, in hundredths of a credit
    MaxCalls,     \* bound: calls of the services that begin
    Proponent     \* Proponent[o]: percentage of new credits, see Whole

\* 100% in the six decimals percentages are kept with.
Whole == 100 * 1000000

ASSUME ProgrammeAssumption ==
    /\ Government \notin Owners
    /\ IsFiniteSet(Owners) /\ IsFiniteSet(Requests)
    /\ Estimate \in Nat /\ MaxCalls \in Nat
    /\ Amounts \subseteq Nat \ {0}
    /\ Proponent \in [Owners -> 1 .. Whole]

VARIABLES
    programme,   \* the programme's row in the ledger
    account,     \* account[o]: credit of the company row of o in the ledger
    applied,     \* requests named by a txRef in the history of the programme
    state,       \* state[o]: company state, operational database
    transfers,   \* table programme_transfer
    call,        \* what each call holds in memory
    swept,       \* history: requests cancelled for lack of credits
    begun        \* how many calls began

programmeVars ==
    <<programme, account, applied, state, transfers, call, swept, begun>>

Idle == [step |-> "idle"]

Begin == begun < MaxCalls /\ begun' = begun + 1

-----------------------------------------------------------------------------
\* halfUpToPrecision on n / d: toFixed rounds halves away from zero.
Nearest(n, d) ==
    LET abs(i) == IF i < 0 THEN -i ELSE i
        size == abs(n) \div abs(d)
        up == IF 2 * (abs(n) % abs(d)) >= abs(d) THEN 1 ELSE 0
    IN IF (n < 0) # (d < 0) THEN -(size + up) ELSE size + up

Share(o) == Nearest(programme.balance * programme.percent[o], Whole)
Available(o) == Share(o) - programme.frozen[o]
Issued(o, amount) == Nearest(amount * Proponent[o], Whole)

Pending == {r \in DOMAIN transfers : transfers[r].status = "PENDING"}

WithRow(r, row) ==
    [q \in DOMAIN transfers \cup {r} |-> IF q = r THEN row ELSE transfers[q]]

\* Mutant: the pending requests of the company are deleted.
WithoutPendingOfMutant(o) ==
    [r \in {s \in DOMAIN transfers : ~(s \in Pending
              /\ o \in {transfers[s].from, transfers[s].to})} |-> transfers[r]]

\* companyTransferCancel
WithoutPendingOf(o) ==
    [r \in DOMAIN transfers |->
        IF r \in Pending /\ o \in {transfers[r].from, transfers[r].to}
        THEN [transfers[r] EXCEPT !.status = "CANCELLED"]
        ELSE transfers[r]]

-----------------------------------------------------------------------------
(***************************************************************************)
(* Requests: transferRequest and retireProgramme.  One by the owner of the *)
(* credits, or a retirement by the government, is processed at once.       *)
(***************************************************************************)
Ask(r, o, to, amount) ==
    /\ Begin
    /\ r \notin DOMAIN transfers /\ to # o
    /\ amount <= Available(o)
    /\ transfers' = WithRow(r, [from |-> o, to |-> to, amount |-> amount,
                                 status |-> "PENDING"])
    /\ UNCHANGED <<programme, account, applied, state, call, swept>>

AskAtOnce(c, r, o, to, amount) ==
    /\ Begin
    /\ call[c] = Idle
    /\ r \notin DOMAIN transfers /\ to # o
    /\ amount <= Available(o)
    /\ transfers' = WithRow(r, [from |-> o, to |-> to, amount |-> amount,
                                 status |-> "PROCESSING"])
    /\ call' = [call EXCEPT ![c] = [step |-> "move", request |-> r]]
    /\ UNCHANGED <<programme, account, applied, state, swept>>

\* Mutant: the row is updated without looking at its status again.
WithdrawMutant(r, outcome) ==
    /\ Begin
    /\ r \in DOMAIN transfers
    /\ transfers[r].status # "CANCELLED"
    /\ outcome \in {"CANCELLED", "REJECTED"}
    /\ transfers' = [transfers EXCEPT ![r].status = outcome]
    /\ UNCHANGED <<programme, account, applied, state, call, swept>>

\* transferCancel and transferReject update a row that is still pending.
Withdraw(r, outcome) ==
    /\ Begin
    /\ r \in Pending
    /\ outcome \in {"CANCELLED", "REJECTED"}
    /\ transfers' = [transfers EXCEPT ![r].status = outcome]
    /\ UNCHANGED <<programme, account, applied, state, call, swept>>

-----------------------------------------------------------------------------
(***************************************************************************)
(* transferApprove and doTransfer.                                         *)
(***************************************************************************)
\* The request and both companies are read.  A processing request may be
\* approved again: that is how a call that died is repeated.
StartApproval(c, r) ==
    /\ Begin
    /\ call[c] = Idle
    /\ r \in DOMAIN transfers
    /\ transfers[r].status \notin {"CANCELLED", "APPROVED"}
    /\ \A o \in Owners \cap {transfers[r].from, transfers[r].to} :
        state[o] = "ACTIVE"
    /\ call' = [call EXCEPT ![c] =
                    [step |-> IF transfers[r].status = "PROCESSING"
                              THEN "move" ELSE "claim",
                     request |-> r]]
    /\ UNCHANGED <<programme, account, applied, state, transfers, swept>>

\* ... a suspended company makes it cancel what the company has pending.
RefuseApproval(r, o) ==
    /\ Begin
    /\ r \in DOMAIN transfers
    /\ transfers[r].status \notin {"CANCELLED", "APPROVED"}
    /\ o \in Owners \cap {transfers[r].from, transfers[r].to}
    /\ state[o] = "SUSPENDED"
    /\ o = transfers[r].from =>
        transfers[r].to \notin {w \in Owners : state[w] = "SUSPENDED"}
    /\ transfers' = WithoutPendingOf(o)
    /\ UNCHANGED <<programme, account, applied, state, call, swept>>

Claim(c) ==
    /\ call[c].step = "claim"
    /\ IF call[c].request \in Pending
       THEN /\ transfers' = [transfers EXCEPT ![call[c].request].status = "PROCESSING"]
            /\ call' = [call EXCEPT ![c] =
                            [step |-> "move", request |-> call[c].request]]
       ELSE /\ call' = [call EXCEPT ![c] = Idle]
            /\ UNCHANGED transfers
    /\ UNCHANGED <<programme, account, applied, state, swept, begun>>

\* Mutant: the giver's percentage is computed before its credits are taken.
PercentMutant(left, amount) ==
    [o \in Owners |->
        IF left = 0 THEN 0
        ELSE LET p == Nearest(Share(o) * Whole, left)
             IN IF p > Whole THEN Whole ELSE p]

\* The percentages of what is left after taking amount[o] of each share.
Percent(left, amount) ==
    [o \in Owners |->
        IF left = 0 THEN 0
        ELSE LET p == Nearest((Share(o) - amount[o]) * Whole, left)
             IN IF p > Whole THEN Whole ELSE p]

CanMove(r) ==
    LET t == transfers[r]
    IN r \notin applied /\ Share(t.from) # 0 /\ t.amount <= Available(t.from)

\* transferProgramme: the ledger moves the credits of a request, or throws
\* and leaves it processing.
Move(c) ==
    LET r == call[c].request
        t == transfers[r]
        left == programme.balance - t.amount
    IN /\ call[c].step = "move"
       /\ CanMove(r)
       /\ programme' = [programme EXCEPT
            !.balance = left,
            !.percent = Percent(left, [o \in Owners |->
                                          IF o = t.from THEN t.amount ELSE 0]),
            !.moved[t.from] = @ + t.amount]
       /\ account' = [o \in Owners |-> account[o]
                        + (IF o = t.to THEN t.amount ELSE 0)
                        - (IF o = t.from THEN t.amount ELSE 0)]
       /\ applied' = applied \cup {r}
       /\ call' = [call EXCEPT ![c] = [step |-> "settle", request |-> r,
                        shares |-> [o \in Owners |-> Share(o)']]]
       /\ UNCHANGED <<state, transfers, swept, begun>>

MoveThrows(c) ==
    /\ call[c].step = "move" /\ ~CanMove(call[c].request)
    /\ call' = [call EXCEPT ![c] = Idle]
    /\ UNCHANGED <<programme, account, applied, state, transfers, swept, begun>>

Settle(c) ==
    /\ call[c].step = "settle"
    /\ transfers' = [transfers EXCEPT ![call[c].request].status = "APPROVED"]
    /\ call' = [call EXCEPT ![c] = [step |-> "list", shares |-> call[c].shares]]
    /\ UNCHANGED <<programme, account, applied, state, swept, begun>>

\* checkPendingTransferValidity lists what is pending ...
List(c) ==
    /\ call[c].step = "list"
    /\ LET doomed == {r \in Pending : transfers[r].amount
                                        > call[c].shares[transfers[r].from]}
       IN call' = [call EXCEPT ![c] = IF doomed = {} THEN Idle
                        ELSE [step |-> "sweep", doomed |-> doomed]]
    /\ UNCHANGED <<programme, account, applied, state, transfers, swept, begun>>

\* ... and cancels one by one what the new share cannot pay, with e-mails in
\* between and without looking at the status again.
Sweep(c, r) ==
    /\ call[c].step = "sweep" /\ r \in call[c].doomed
    /\ transfers' = [transfers EXCEPT ![r].status = "CANCELLED"]
    /\ swept' = swept \cup {r}
    /\ call' = [call EXCEPT ![c] =
                    IF call[c].doomed = {r} THEN Idle
                    ELSE [step |-> "sweep", doomed |-> call[c].doomed \ {r}]]
    /\ UNCHANGED <<programme, account, applied, state, begun>>

-----------------------------------------------------------------------------
(***************************************************************************)
(* applyProgrammeCreditStatus: cancellation, or assignment to the exchange *)
(* account of the same owners, of some of their credits at once.           *)
(***************************************************************************)
Remaining(o, amount) ==
    LET n == programme.balance * programme.percent[o] - amount * Whole
    IN IF n < 0 THEN 0 ELSE n

TakeOut(amount) ==
    LET total == SumFunction(amount)
        left == programme.balance - total
    IN /\ Begin
       /\ \A o \in Owners : amount[o] > 0 =>
            amount[o] <= Available(o) /\ amount[o] <= account[o]
       /\ 0 < total /\ total <= programme.balance
       /\ programme' = [programme EXCEPT
            !.balance = left,
            !.percent = [o \in Owners |->
                IF left > 0 THEN Nearest(Remaining(o, amount[o]), left) ELSE 0],
            !.moved = [o \in Owners |-> @[o] + amount[o]]]
       /\ account' = [o \in Owners |-> account[o] - amount[o]]
       /\ UNCHANGED <<applied, state, transfers, call, swept>>

-----------------------------------------------------------------------------
(***************************************************************************)
(* issueProgrammeCredit: the ledger, then the companies, then the ledger.  *)
(***************************************************************************)
\* Mutant: the rest is computed after creditIssued has been raised.
ChangeMutant(amount) == IF amount = 0 THEN 0 ELSE amount

\* A list without entries adds up to 0, and 0 issues all that is left.
Change(amount) ==
    IF amount = 0 THEN Estimate - programme.issued ELSE amount

\* The amount is checked against the programme as it is read first ...
StartIssue(c, amount) ==
    /\ Begin
    /\ call[c] = Idle
    /\ amount <= Estimate - programme.issued
    /\ call' = [call EXCEPT ![c] = [step |-> "issue", amount |-> amount]]
    /\ UNCHANGED <<programme, account, applied, state, transfers, swept>>

\* ... and not again by issueProgrammeStatus.
Issue(c) ==
    LET amount == call[c].amount
        change == Change(amount)
        balance == programme.balance + change
    IN /\ call[c].step = "issue"
       /\ programme' = [programme EXCEPT
            !.issued = IF amount = 0 THEN Estimate ELSE @ + amount,
            !.balance = balance,
            !.percent = [o \in Owners |->
                IF balance = 0 THEN 0
                ELSE Nearest((Share(o) + Issued(o, change)) * Whole, balance)]]
       /\ account' = [o \in Owners |-> account[o] + Issued(o, change)]
       /\ call' = [call EXCEPT ![c] = [step |-> "owners", amount |-> amount]]
       /\ UNCHANGED <<applied, state, transfers, swept, begun>>

FindSuspended(c) ==
    LET suspended == {o \in Owners : state[o] = "SUSPENDED"}
    IN /\ call[c].step = "owners"
       /\ call' = [call EXCEPT ![c] =
                    IF suspended = {} THEN Idle
                    ELSE [step |-> "freezeIssued", amount |-> call[c].amount,
                          suspended |-> suspended]]
       /\ UNCHANGED <<programme, account, applied, state, transfers, swept, begun>>

\* freezeIssuedCredit
FreezeIssued(c) ==
    /\ call[c].step = "freezeIssued"
    /\ programme' = [programme EXCEPT !.frozen =
            [o \in Owners |-> @[o] + IF o \in call[c].suspended
                                     THEN Issued(o, call[c].amount) ELSE 0]]
    /\ call' = [call EXCEPT ![c] = Idle]
    /\ UNCHANGED <<account, applied, state, transfers, swept, begun>>

-----------------------------------------------------------------------------
(***************************************************************************)
(* suspend and activate of a company: its row, then the ledger, and for a  *)
(* suspension the pending requests.                                        *)
(***************************************************************************)
ChangeState(c, o) ==
    /\ Begin
    /\ call[c] = Idle
    /\ state' = [state EXCEPT ![o] = IF @ = "ACTIVE" THEN "SUSPENDED" ELSE "ACTIVE"]
    /\ call' = [call EXCEPT ![c] =
                    [step |-> IF state[o] = "ACTIVE" THEN "freeze" ELSE "unfreeze",
                     owner |-> o]]
    /\ UNCHANGED <<programme, account, applied, transfers, swept>>

\* freezeCompany: a share of 0 leaves what was frozen before.
Freeze(c) ==
    /\ call[c].step = "freeze"
    /\ programme' = [programme EXCEPT !.frozen[call[c].owner] =
                        IF Share(call[c].owner) = 0 THEN @ ELSE Share(call[c].owner)]
    /\ call' = [call EXCEPT ![c] =
                    [step |-> "cancelPending", owner |-> call[c].owner]]
    /\ UNCHANGED <<account, applied, state, transfers, swept, begun>>

CancelPending(c) ==
    /\ call[c].step = "cancelPending"
    /\ transfers' = WithoutPendingOf(call[c].owner)
    /\ call' = [call EXCEPT ![c] = Idle]
    /\ UNCHANGED <<programme, account, applied, state, swept, begun>>

Unfreeze(c) ==
    /\ call[c].step = "unfreeze"
    /\ programme' = [programme EXCEPT !.frozen[call[c].owner] = 0]
    /\ call' = [call EXCEPT ![c] = Idle]
    /\ UNCHANGED <<account, applied, state, transfers, swept, begun>>

\* The process of a call dies; no call resumes.
Die(c) ==
    /\ call[c] # Idle
    /\ call' = [call EXCEPT ![c] = Idle]
    /\ UNCHANGED <<programme, account, applied, state, transfers, swept, begun>>

-----------------------------------------------------------------------------
\* After authProgrammeStatus, which may issue some of the estimate at once.
Init ==
    \E first \in {0} \cup {a \in Amounts : a <= Estimate} :
        /\ programme = [issued |-> first, balance |-> first,
                        percent |-> Proponent,
                        frozen |-> [o \in Owners |-> 0],
                        moved |-> [o \in Owners |-> 0]]
        /\ account = [o \in Owners |-> Issued(o, first)]
        /\ applied = {} /\ swept = {} /\ begun = 0
        /\ state = [o \in Owners |-> "ACTIVE"]
        /\ transfers = << >>
        /\ call = [c \in Calls |-> Idle]

Next ==
    \/ \E r \in Requests, o \in Owners, to \in Owners \cup {Government}, a \in Amounts :
        \/ Ask(r, o, to, a)
        \/ \E c \in Calls : AskAtOnce(c, r, o, to, a)
    \/ \E r \in Requests : \E outcome \in {"CANCELLED", "REJECTED"} : Withdraw(r, outcome)
    \/ \E r \in Requests, o \in Owners : RefuseApproval(r, o)
    \/ \E c \in Calls :
        \/ \E r \in Requests : StartApproval(c, r) \/ Sweep(c, r)
        \/ Claim(c) \/ Move(c) \/ MoveThrows(c) \/ Settle(c) \/ List(c)
        \/ \E a \in {0} \cup Amounts : StartIssue(c, a)
        \/ Issue(c) \/ FindSuspended(c) \/ FreezeIssued(c)
        \/ \E o \in Owners : ChangeState(c, o)
        \/ Freeze(c) \/ CancelPending(c) \/ Unfreeze(c)
        \/ Die(c)
    \/ \E amount \in [Owners -> {0} \cup Amounts] : TakeOut(amount)

Spec == Init /\ [][Next]_programmeVars

-----------------------------------------------------------------------------
(***************************************************************************)
(* Properties                                                              *)
(***************************************************************************)
\* The tables keep their types.
TypeOK ==
    /\ programme \in [issued : Nat, balance : Int,
                      percent : [Owners -> Int], frozen : [Owners -> Int],
                      moved : [Owners -> Nat]]
    /\ account \in [Owners -> Int]
    /\ applied \subseteq DOMAIN transfers /\ swept \subseteq DOMAIN transfers
    /\ state \in [Owners -> {"ACTIVE", "SUSPENDED"}]
    /\ DOMAIN transfers \subseteq Requests
    /\ \A r \in DOMAIN transfers :
        transfers[r] \in [from : Owners, to : Owners \cup {Government},
                          amount : Amounts,
                          status : {"PENDING", "PROCESSING", "APPROVED",
                                    "REJECTED", "CANCELLED"}]
    /\ \A c \in Calls : call[c].step \in
        {"idle", "claim", "move", "settle", "list", "sweep", "issue", "owners",
         "freezeIssued", "freeze", "cancelPending", "unfreeze"}
    /\ begun \in 0 .. MaxCalls

\* The balance is what was issued less what transfers, retirements,
\* cancellations and assignments took: no step of the ledger loses or adds a
\* credit of the programme.
CreditsAccounted ==
    programme.issued = programme.balance + SumFunction(programme.moved)

\* The company account of an owner holds its share of the programme, up to a
\* hundredth for each call: two tables, rounded separately by four functions,
\* and a cancellation can round up the share of an owner that gives nothing.
AccountCoversShare == \A o \in Owners : Share(o) <= account[o] + begun

\* A request whose credits moved is approved or still processing, and one
\* that shows approved has moved its credits, whatever approvals, rejections,
\* cancellations and suspensions raced for it.  Only the sweep for lack of
\* credits may show a request cancelled that moved its credits.
MovedAsDecided ==
    \A r \in DOMAIN transfers :
        /\ transfers[r].status = "APPROVED" => r \in applied
        /\ r \in applied => \/ transfers[r].status \in {"PROCESSING", "APPROVED"}
                            \/ transfers[r].status = "CANCELLED" /\ r \in swept

\* No more credits leave a programme than were issued to it (README.md:80,
\* "preventing double counting").
NeverMoreThanIssued ==
    SumFunction(programme.moved) <= programme.issued
=============================================================================
