----------------------- MODULE ProgrammeCreditsProofs -----------------------
(***************************************************************************)
(* Proofs about ProgrammeCredits, for any owners, requests, calls, amounts *)
(* and bounds.                                                             *)
(*                                                                         *)
(* MovedAsDecided is not inductive: whether a request that moves credits   *)
(* ends in an honest status depends on what the calls in flight have seen. *)
(* IInv says that a call about to move credits holds a request that nobody *)
(* can turn back to pending or rejected, and one about to settle holds one *)
(* the ledger has applied.                                                 *)
(*                                                                         *)
(* AccountCoversShare compares two tables that round separately: RoundTrip *)
(* says that percentages of six decimals keep the hundredths of a share.   *)
(***************************************************************************)
EXTENDS ProgrammeCredits, SumFacts

Row == [from : Owners, to : Owners \cup {Government}, amount : Amounts,
        status : {"PENDING", "PROCESSING", "APPROVED", "REJECTED", "CANCELLED"}]

\* Out of reach of rejection, cancellation and suspension.
Claimed(r) ==
    \/ transfers[r].status \in {"PROCESSING", "APPROVED"}
    \/ transfers[r].status = "CANCELLED" /\ r \in swept

RequestsOK ==
    /\ transfers \in [DOMAIN transfers -> Row]
    /\ applied \subseteq DOMAIN transfers
    /\ MovedAsDecided

CallOK(k) ==
    /\ k.step \in {"claim", "move", "settle"} => k.request \in DOMAIN transfers
    /\ k.step = "move" => Claimed(k.request)
    /\ k.step = "settle" => k.request \in applied
    /\ k.step = "sweep" => k.doomed \subseteq DOMAIN transfers

IInv ==
    /\ RequestsOK
    /\ DOMAIN call = Calls
    /\ \A c \in Calls : CallOK(call[c])

\* What a step does to requests that keeps every call right about its own.
Grows ==
    /\ DOMAIN transfers \subseteq DOMAIN transfers'
    /\ applied \subseteq applied'
    /\ \A r \in DOMAIN transfers : Claimed(r) => Claimed(r)'

-----------------------------------------------------------------------------
LEMMA CallStays ==
    ASSUME NEW k, CallOK(k), Grows
    PROVE  CallOK(k)'
BY DEF CallOK, Grows

\* A step that changes what one call holds, and requests as far as Grows.
LEMMA OneCall ==
    ASSUME IInv, RequestsOK', Grows, NEW c \in Calls, NEW k, CallOK(k)',
           call' = [call EXCEPT ![c] = k]
    PROVE  IInv'
BY CallStays DEF IInv

LEMMA NoCall ==
    ASSUME IInv, RequestsOK', Grows, UNCHANGED call
    PROVE  IInv'
BY CallStays DEF IInv

LEMMA Quiet ==
    ASSUME IInv, UNCHANGED <<transfers, applied, swept>>
    PROVE  RequestsOK' /\ Grows
BY DEF IInv, RequestsOK, MovedAsDecided, Grows, Claimed

\* A step that only changes what one call holds.
LEMMA QuietCall ==
    ASSUME IInv, UNCHANGED <<transfers, applied, swept>>,
           NEW c \in Calls, NEW k, CallOK(k), call' = [call EXCEPT ![c] = k]
    PROVE  IInv'
BY Quiet, CallStays, OneCall

\* A new row.
LEMMA NewRow ==
    ASSUME IInv, NEW r \in Requests, r \notin DOMAIN transfers,
           NEW row \in Row, row.status \in {"PENDING", "PROCESSING"},
           transfers' = WithRow(r, row), UNCHANGED <<applied, swept>>
    PROVE  /\ RequestsOK' /\ Grows
           /\ DOMAIN transfers' = DOMAIN transfers \cup {r}
           /\ transfers'[r] = row
<1>1. transfers' = [s \in DOMAIN transfers \cup {r} |->
                        IF s = r THEN row ELSE transfers[s]]
  BY DEF WithRow
<1>2. RequestsOK'
  BY <1>1 DEF IInv, RequestsOK, MovedAsDecided
<1>3. Grows
  BY <1>1 DEF Grows, Claimed
<1>. QED
  BY <1>1, <1>2, <1>3

\* A row gets another status.
LEMMA NewStatus ==
    ASSUME IInv, NEW r \in DOMAIN transfers,
           NEW s \in {"PENDING", "PROCESSING", "APPROVED", "REJECTED", "CANCELLED"},
           transfers' = [transfers EXCEPT ![r].status = s],
           UNCHANGED applied, swept \subseteq swept',
           r \in applied => Claimed(r)',
           s = "APPROVED" => r \in applied,
           Claimed(r) => Claimed(r)'
    PROVE  RequestsOK' /\ Grows /\ transfers'[r].status = s
           /\ DOMAIN transfers' = DOMAIN transfers
<1>1. transfers' = [q \in DOMAIN transfers |->
        IF q = r THEN [transfers[r] EXCEPT !.status = s] ELSE transfers[q]]
  OBVIOUS
<1>2. transfers[r] \in Row
  BY DEF IInv, RequestsOK
<1>3. [transfers[r] EXCEPT !.status = s] \in Row
  BY <1>2 DEF Row
<1>4. transfers'[r].status = s
  BY <1>1, <1>2 DEF Row
<1>5. transfers' \in [DOMAIN transfers' -> Row]
  BY <1>1, <1>3 DEF IInv, RequestsOK
<1>6. MovedAsDecided'
  BY <1>1, <1>4 DEF IInv, RequestsOK, MovedAsDecided, Claimed
<1>7. RequestsOK'
  BY <1>1, <1>5, <1>6 DEF IInv, RequestsOK
<1>8. Grows
  BY <1>1 DEF Grows, Claimed
<1>. QED
  BY <1>1, <1>4, <1>7, <1>8

\* The suspension of a company cancels pending rows, which nobody has claimed.
LEMMA Cancelling ==
    ASSUME IInv, NEW o, transfers' = WithoutPendingOf(o), UNCHANGED <<applied, swept>>
    PROVE  RequestsOK' /\ Grows
<1>1. \A r \in DOMAIN transfers :
        /\ transfers[r] \in Row
        /\ [transfers[r] EXCEPT !.status = "CANCELLED"] \in Row
        /\ [transfers[r] EXCEPT !.status = "CANCELLED"].status = "CANCELLED"
  BY DEF IInv, RequestsOK, Row
<1>2. \A r \in DOMAIN transfers :
        \/ transfers'[r] = transfers[r]
        \/ /\ transfers[r].status = "PENDING"
           /\ transfers'[r] = [transfers[r] EXCEPT !.status = "CANCELLED"]
  BY DEF WithoutPendingOf, Pending
<1>3. DOMAIN transfers' = DOMAIN transfers
  BY DEF WithoutPendingOf
<1>4. transfers' \in [DOMAIN transfers -> Row]
  BY <1>1 DEF WithoutPendingOf
<1>5. RequestsOK'
  BY <1>1, <1>2, <1>3, <1>4 DEF IInv, RequestsOK, MovedAsDecided
<1>6. Grows
  BY <1>1, <1>2, <1>3 DEF Grows, Claimed
<1>. QED
  BY <1>5, <1>6

-----------------------------------------------------------------------------
(***************************************************************************)
(* The steps, one lemma per action that touches requests or what a call    *)
(* knows of one.                                                           *)
(***************************************************************************)
LEMMA AskStep ==
    ASSUME IInv, NEW r \in Requests, NEW o \in Owners,
           NEW to \in Owners \cup {Government}, NEW a \in Amounts,
           Ask(r, o, to, a)
    PROVE  IInv'
<1>. DEFINE row == [from |-> o, to |-> to, amount |-> a, status |-> "PENDING"]
<1>1. row \in Row /\ row.status \in {"PENDING", "PROCESSING"}
  BY DEF Row
<1>2. r \notin DOMAIN transfers /\ transfers' = WithRow(r, row)
      /\ UNCHANGED <<applied, swept, call>>
  BY DEF Ask
<1>. HIDE DEF row
<1>. QED
  BY <1>1, <1>2, NewRow, NoCall

LEMMA AskAtOnceStep ==
    ASSUME IInv, NEW c \in Calls, NEW r \in Requests, NEW o \in Owners,
           NEW to \in Owners \cup {Government}, NEW a \in Amounts,
           AskAtOnce(c, r, o, to, a)
    PROVE  IInv'
<1>. DEFINE row == [from |-> o, to |-> to, amount |-> a, status |-> "PROCESSING"]
            k == [step |-> "move", request |-> r]
<1>1. row \in Row /\ row.status = "PROCESSING"
  BY DEF Row
<1>2. r \notin DOMAIN transfers /\ transfers' = WithRow(r, row)
      /\ UNCHANGED <<applied, swept>> /\ call' = [call EXCEPT ![c] = k]
  BY DEF AskAtOnce
<1>. HIDE DEF row
<1>3. RequestsOK' /\ Grows /\ r \in DOMAIN transfers' /\ transfers'[r] = row
  BY <1>1, <1>2, NewRow
<1>4. CallOK(k)'
  BY <1>1, <1>3 DEF CallOK, Claimed
<1>. HIDE DEF k
<1>. QED
  BY <1>2, <1>3, <1>4, OneCall

LEMMA WithdrawStep ==
    ASSUME IInv, NEW r \in Requests, NEW outcome, Withdraw(r, outcome)
    PROVE  IInv'
<1>1. r \in DOMAIN transfers /\ ~Claimed(r) /\ r \notin applied
  BY DEF Withdraw, Pending, Claimed, IInv, RequestsOK, MovedAsDecided
<1>2. RequestsOK' /\ Grows
  BY <1>1, NewStatus DEF Withdraw
<1>. QED
  BY <1>2, NoCall DEF Withdraw

LEMMA StartApprovalStep ==
    ASSUME IInv, NEW c \in Calls, NEW r \in Requests, StartApproval(c, r)
    PROVE  IInv'
<1>. DEFINE k == [step |-> IF transfers[r].status = "PROCESSING"
                           THEN "move" ELSE "claim",
                  request |-> r]
<1>1. CallOK(k)
  BY DEF CallOK, Claimed, StartApproval
<1>2. PICK m : m = k
  OBVIOUS
<1>3. CallOK(m) /\ call' = [call EXCEPT ![c] = m]
  BY <1>1, <1>2 DEF StartApproval
<1>. QED
  BY <1>3, QuietCall DEF StartApproval

LEMMA RefuseApprovalStep ==
    ASSUME IInv, NEW r \in Requests, NEW o \in Owners, RefuseApproval(r, o)
    PROVE  IInv'
BY Cancelling, NoCall DEF RefuseApproval

LEMMA ClaimStep ==
    ASSUME IInv, NEW c \in Calls, Claim(c)
    PROVE  IInv'
<1>1. CASE call[c].request \in Pending
  <2>1. PICK r : r = call[c].request
    OBVIOUS
  <2>2. r \in DOMAIN transfers
    BY <1>1, <2>1 DEF Pending
  <2>. DEFINE k == [step |-> "move", request |-> r]
  <2>3. transfers' = [transfers EXCEPT ![r].status = "PROCESSING"]
        /\ UNCHANGED <<applied, swept>> /\ call' = [call EXCEPT ![c] = k]
    BY <1>1, <2>1 DEF Claim
  <2>4. r \notin applied
    BY <1>1, <2>1 DEF Pending, IInv, RequestsOK, MovedAsDecided
  <2>5. ~Claimed(r)
    BY <1>1, <2>1 DEF Pending, Claimed
  <2>6. RequestsOK' /\ Grows /\ transfers'[r].status = "PROCESSING"
        /\ DOMAIN transfers' = DOMAIN transfers
    BY <2>2, <2>3, <2>4, <2>5, NewStatus
  <2>7. CallOK(k)'
    BY <2>2, <2>6 DEF CallOK, Claimed
  <2>. HIDE DEF k
  <2>. QED
    BY <2>3, <2>6, <2>7, OneCall
<1>2. CASE call[c].request \notin Pending
  <2>1. CallOK(Idle)
    BY DEF CallOK, Idle
  <2>. QED
    BY <1>2, <2>1, QuietCall DEF Claim
<1>. QED
  BY <1>1, <1>2

LEMMA MoveStep ==
    ASSUME IInv, NEW c \in Calls, Move(c)
    PROVE  IInv'
<1>1. PICK r : r = call[c].request
  OBVIOUS
<1>2. r \in DOMAIN transfers /\ Claimed(r)
  BY <1>1 DEF Move, IInv, CallOK
<1>3. applied' = applied \cup {r} /\ UNCHANGED <<transfers, swept>>
  BY <1>1 DEF Move
<1>4. PICK k : call' = [call EXCEPT ![c] = k]
               /\ k.step = "settle" /\ k.request = r
  <2>. DEFINE m == [step |-> "settle", request |-> r,
                    shares |-> [o \in Owners |-> Share(o)']]
  <2>1. m.step = "settle" /\ m.request = r
    OBVIOUS
  <2>2. call' = [call EXCEPT ![c] = m]
    BY <1>1 DEF Move
  <2>. HIDE DEF m
  <2>. QED
    BY <2>1, <2>2
<1>5. RequestsOK'
  BY <1>2, <1>3 DEF IInv, RequestsOK, MovedAsDecided, Claimed
<1>6. Grows
  BY <1>3 DEF Grows, Claimed
<1>7. CallOK(k)'
  BY <1>2, <1>3, <1>4 DEF CallOK
<1>. QED
  BY <1>4, <1>5, <1>6, <1>7, OneCall

LEMMA SettleStep ==
    ASSUME IInv, NEW c \in Calls, Settle(c)
    PROVE  IInv'
<1>1. PICK r : r = call[c].request
  OBVIOUS
<1>2. r \in DOMAIN transfers /\ r \in applied
  BY <1>1 DEF Settle, IInv, CallOK
<1>3. transfers' = [transfers EXCEPT ![r].status = "APPROVED"]
      /\ UNCHANGED <<applied, swept>>
  BY <1>1 DEF Settle
<1>4. transfers'[r].status = "APPROVED"
  BY <1>2, <1>3 DEF IInv, RequestsOK, Row
<1>5. RequestsOK' /\ Grows
  BY <1>2, <1>3, <1>4, NewStatus DEF Claimed
<1>6. PICK k : call' = [call EXCEPT ![c] = k] /\ k.step = "list"
  <2>. DEFINE m == [step |-> "list", shares |-> call[c].shares]
  <2>1. m.step = "list"
    OBVIOUS
  <2>2. call' = [call EXCEPT ![c] = m]
    BY DEF Settle
  <2>. HIDE DEF m
  <2>. QED
    BY <2>1, <2>2
<1>7. CallOK(k)'
  BY <1>6 DEF CallOK
<1>. QED
  BY <1>5, <1>6, <1>7, OneCall

LEMMA ListStep ==
    ASSUME IInv, NEW c \in Calls, List(c)
    PROVE  IInv'
<1>1. PICK k : /\ call' = [call EXCEPT ![c] = k]
               /\ k = Idle \/ /\ k.step = "sweep"
                              /\ k.doomed \subseteq DOMAIN transfers
  <2>. DEFINE doomed == {r \in Pending : transfers[r].amount
                                        > call[c].shares[transfers[r].from]}
  <2>1. doomed \subseteq DOMAIN transfers
    BY DEF Pending
  <2>. DEFINE n == [step |-> "sweep", doomed |-> doomed]
              m == IF doomed = {} THEN Idle ELSE n
  <2>2. n.step = "sweep" /\ n.doomed = doomed
    OBVIOUS
  <2>3. m = Idle \/ m = n
    OBVIOUS
  <2>4. call' = [call EXCEPT ![c] = m]
    BY DEF List
  <2>. HIDE DEF doomed, m, n
  <2>. QED
    BY <2>1, <2>2, <2>3, <2>4
<1>2. CallOK(k)
  BY <1>1 DEF CallOK, Idle
<1>. QED
  BY <1>1, <1>2, QuietCall DEF List

LEMMA SweepStep ==
    ASSUME IInv, NEW c \in Calls, NEW r \in Requests, Sweep(c, r)
    PROVE  IInv'
<1>1. call[c].doomed \subseteq DOMAIN transfers /\ r \in DOMAIN transfers
  BY DEF Sweep, IInv, CallOK
<1>2. transfers' = [transfers EXCEPT ![r].status = "CANCELLED"]
      /\ swept' = swept \cup {r} /\ UNCHANGED applied
  BY DEF Sweep
<1>3. transfers'[r].status = "CANCELLED"
  BY <1>1, <1>2 DEF IInv, RequestsOK, Row
<1>4. RequestsOK' /\ Grows /\ DOMAIN transfers' = DOMAIN transfers
  BY <1>1, <1>2, <1>3, NewStatus DEF Claimed
<1>5. PICK k : /\ call' = [call EXCEPT ![c] = k]
               /\ k = Idle \/ /\ k.step = "sweep"
                              /\ k.doomed \subseteq DOMAIN transfers
  <2>. DEFINE n == [step |-> "sweep", doomed |-> call[c].doomed \ {r}]
              m == IF call[c].doomed = {r} THEN Idle ELSE n
  <2>1. n.step = "sweep" /\ n.doomed = call[c].doomed \ {r}
    OBVIOUS
  <2>2. m = Idle \/ m = n
    OBVIOUS
  <2>3. call' = [call EXCEPT ![c] = m]
    BY DEF Sweep
  <2>. HIDE DEF m, n
  <2>. QED
    BY <1>1, <2>1, <2>2, <2>3
<1>6. CallOK(k)'
  BY <1>4, <1>5 DEF CallOK, Idle
<1>. QED
  BY <1>4, <1>5, <1>6, OneCall

LEMMA CancelPendingStep ==
    ASSUME IInv, NEW c \in Calls, CancelPending(c)
    PROVE  IInv'
<1>1. RequestsOK' /\ Grows
  BY Cancelling DEF CancelPending
<1>2. CallOK(Idle)'
  BY DEF CallOK, Idle
<1>. QED
  BY <1>1, <1>2, OneCall DEF CancelPending

\* The other steps leave requests alone and forget what a call knew of one.
LEMMA OtherSteps ==
    ASSUME IInv, NEW c \in Calls,
           \/ MoveThrows(c) \/ Issue(c) \/ FindSuspended(c) \/ FreezeIssued(c)
           \/ Freeze(c) \/ Unfreeze(c) \/ Die(c)
           \/ \E a \in {0} \cup Amounts : StartIssue(c, a)
           \/ \E o \in Owners : ChangeState(c, o)
    PROVE  IInv'
<1>1. UNCHANGED <<transfers, applied, swept>>
  BY DEF MoveThrows, Issue, FindSuspended, FreezeIssued, Freeze, Unfreeze, Die,
         StartIssue, ChangeState
<1>2. PICK k : /\ call' = [call EXCEPT ![c] = k]
               /\ k.step \notin {"claim", "move", "settle", "sweep"}
  <2>1. Idle.step = "idle"
    BY DEF Idle
  <2>2. CASE MoveThrows(c) \/ FreezeIssued(c) \/ Unfreeze(c) \/ Die(c)
    BY <2>1, <2>2 DEF MoveThrows, FreezeIssued, Unfreeze, Die
  <2>3. CASE Issue(c)
    <3>. DEFINE m == [step |-> "owners", amount |-> call[c].amount]
    <3>1. m.step = "owners" /\ call' = [call EXCEPT ![c] = m]
      BY <2>3 DEF Issue
    <3>. HIDE DEF m
    <3>. QED
      BY <3>1
  <2>4. CASE FindSuspended(c)
    <3>. DEFINE suspended == {o \in Owners : state[o] = "SUSPENDED"}
                m == [step |-> "freezeIssued", amount |-> call[c].amount,
                      suspended |-> suspended]
                n == IF suspended = {} THEN Idle ELSE m
    <3>1. m.step = "freezeIssued"
      OBVIOUS
    <3>2. n = Idle \/ n = m
      OBVIOUS
    <3>3. call' = [call EXCEPT ![c] = n]
      BY <2>4 DEF FindSuspended
    <3>. HIDE DEF n, m
    <3>. QED
      BY <2>1, <3>1, <3>2, <3>3
  <2>5. CASE Freeze(c)
    <3>. DEFINE m == [step |-> "cancelPending", owner |-> call[c].owner]
    <3>1. m.step = "cancelPending" /\ call' = [call EXCEPT ![c] = m]
      BY <2>5 DEF Freeze
    <3>. HIDE DEF m
    <3>. QED
      BY <3>1
  <2>6. CASE \E a \in {0} \cup Amounts : StartIssue(c, a)
    <3>1. PICK a \in {0} \cup Amounts : StartIssue(c, a)
      BY <2>6
    <3>. DEFINE m == [step |-> "issue", amount |-> a]
    <3>2. m.step = "issue" /\ call' = [call EXCEPT ![c] = m]
      BY <3>1 DEF StartIssue
    <3>. HIDE DEF m
    <3>. QED
      BY <3>2
  <2>7. CASE \E o \in Owners : ChangeState(c, o)
    <3>1. PICK o \in Owners : ChangeState(c, o)
      BY <2>7
    <3>. DEFINE m == [step |-> IF state[o] = "ACTIVE" THEN "freeze" ELSE "unfreeze",
                      owner |-> o]
    <3>2. m.step \in {"freeze", "unfreeze"} /\ call' = [call EXCEPT ![c] = m]
      BY <3>1 DEF ChangeState
    <3>. HIDE DEF m
    <3>. QED
      BY <3>2
  <2>. QED
    BY <2>2, <2>3, <2>4, <2>5, <2>6, <2>7
<1>3. CallOK(k)
  BY <1>2 DEF CallOK
<1>. QED
  BY <1>1, <1>2, <1>3, QuietCall

-----------------------------------------------------------------------------
LEMMA InitInv == Init => IInv
<1>. SUFFICES ASSUME Init PROVE IInv
  OBVIOUS
<1>1. transfers = << >> /\ applied = {} /\ call = [c \in Calls |-> Idle]
  BY DEF Init
<1>2. DOMAIN transfers = {}
  BY <1>1
<1>3. RequestsOK
  BY <1>1, <1>2 DEF RequestsOK, MovedAsDecided
<1>4. CallOK(Idle)
  BY DEF CallOK, Idle
<1>. QED
  BY <1>1, <1>3, <1>4 DEF IInv

LEMMA NextInv == IInv /\ [Next]_programmeVars => IInv'
<1>. SUFFICES ASSUME IInv, [Next]_programmeVars PROVE IInv'
  OBVIOUS
<1>1. CASE \E r \in Requests, o \in Owners, to \in Owners \cup {Government},
              a \in Amounts :
            Ask(r, o, to, a) \/ \E c \in Calls : AskAtOnce(c, r, o, to, a)
  BY <1>1, AskStep, AskAtOnceStep
<1>2. CASE \E r \in Requests : \E outcome \in {"CANCELLED", "REJECTED"} :
            Withdraw(r, outcome)
  BY <1>2, WithdrawStep
<1>3. CASE \E r \in Requests, o \in Owners : RefuseApproval(r, o)
  BY <1>3, RefuseApprovalStep
<1>4. CASE \E c \in Calls :
            \/ \E r \in Requests : StartApproval(c, r) \/ Sweep(c, r)
            \/ Claim(c) \/ Move(c) \/ Settle(c) \/ List(c) \/ CancelPending(c)
  BY <1>4, StartApprovalStep, SweepStep, ClaimStep, MoveStep, SettleStep,
     ListStep, CancelPendingStep
<1>5. CASE \E c \in Calls :
            \/ MoveThrows(c) \/ Issue(c) \/ FindSuspended(c) \/ FreezeIssued(c)
            \/ Freeze(c) \/ Unfreeze(c) \/ Die(c)
            \/ \E a \in {0} \cup Amounts : StartIssue(c, a)
            \/ \E o \in Owners : ChangeState(c, o)
  BY <1>5, OtherSteps
<1>6. CASE \E amount \in [Owners -> {0} \cup Amounts] : TakeOut(amount)
  <2>1. UNCHANGED <<transfers, applied, swept, call>>
    BY <1>6 DEF TakeOut
  <2>. QED
    BY <2>1, Quiet, NoCall
<1>7. CASE UNCHANGED programmeVars
  BY <1>7, Quiet, NoCall DEF programmeVars
<1>. QED
  BY <1>1, <1>2, <1>3, <1>4, <1>5, <1>6, <1>7 DEF Next

\* Whatever approvals, rejections, cancellations, sweeps, suspensions and
\* crashes race for a request, its status and the ledger agree on whether its
\* credits moved.
THEOREM MovedAsDecidedAlways == Spec => []MovedAsDecided
<1>1. IInv => MovedAsDecided
  BY DEF IInv, RequestsOK
<1>. QED
  BY <1>1, InitInv, NextInv, PTL DEF Spec

-----------------------------------------------------------------------------
(* Types, and the credits of the programme.                                *)

LedgerRow == [issued : Nat, balance : Int, percent : [Owners -> Int],
              frozen : [Owners -> Int], moved : [Owners -> Nat]]

Steps == {"idle", "claim", "move", "settle", "list", "sweep", "issue", "owners",
          "freezeIssued", "freeze", "cancelPending", "unfreeze"}

\* What a call has to hold for its next step to write numbers.
CallTyped(k) ==
    /\ k.step \in Steps
    /\ k.step \in {"issue", "owners", "freezeIssued"} => k.amount \in Nat
    /\ k.step \in {"freeze", "cancelPending", "unfreeze"} => k.owner \in Owners

LedgerInv ==
    /\ programme \in LedgerRow /\ account \in [Owners -> Int]
    /\ CreditsAccounted

TablesInv ==
    /\ state \in [Owners -> {"ACTIVE", "SUSPENDED"}]
    /\ DOMAIN transfers \subseteq Requests
    /\ swept \subseteq DOMAIN transfers
    /\ begun \in 0 .. MaxCalls
    /\ \A c \in Calls : CallTyped(call[c])

LEMMA NearestType ==
    ASSUME NEW n \in Int, NEW d \in Int, d # 0
    PROVE  Nearest(n, d) \in Int
<1> DEFINE abs(i) == IF i < 0 THEN -i ELSE i
           size == abs(n) \div abs(d)
           up == IF 2 * (abs(n) % abs(d)) >= abs(d) THEN 1 ELSE 0
<1>1. abs(n) \in Int /\ abs(d) \in Int /\ abs(d) > 0
  OBVIOUS
<1> HIDE DEF abs
<1>2. size \in Int
  BY <1>1
<1>3. up \in Int
  OBVIOUS
<1> HIDE DEF size, up
<1>4. -(size + up) \in Int /\ size + up \in Int
  BY <1>2, <1>3
<1>. QED
  BY <1>4 DEF Nearest, size, up, abs

LEMMA ShareTypes ==
    ASSUME programme \in LedgerRow, NEW o \in Owners
    PROVE  /\ Share(o) \in Int
           /\ \A a \in Int : Issued(o, a) \in Int
           /\ Whole \in Int /\ Whole # 0
<1>1. Whole \in Int /\ Whole # 0
  BY DEF Whole
<1>2. programme.balance \in Int /\ programme.percent[o] \in Int /\ Proponent[o] \in Int
  BY ProgrammeAssumption, <1>1 DEF LedgerRow
<1>3. programme.balance * programme.percent[o] \in Int
  BY <1>2
<1>4. ASSUME NEW a \in Int PROVE Issued(o, a) \in Int
  <2>1. a * Proponent[o] \in Int
    BY <1>2
  <2>. QED
    BY <1>1, <2>1, NearestType DEF Issued
<1>. QED
  BY <1>1, <1>3, <1>4, NearestType DEF Share

\* moved is what SumFunction adds up.
LEMMA MovedFacts ==
    ASSUME NEW g \in [Owners -> Nat]
    PROVE  IsFiniteSet(DOMAIN g) /\ DOMAIN g = Owners
           /\ SumFunction(g) \in Nat
<1>1. DOMAIN g = Owners /\ IsFiniteSet(DOMAIN g) /\ \A y \in DOMAIN g : g[y] \in Nat
  BY ProgrammeAssumption
<1>. QED
  BY <1>1, SumType

\* A step that touches neither the balance nor what left the programme.
LEMMA FrozenOnly ==
    ASSUME LedgerInv, NEW f \in [Owners -> Int],
           programme' = [programme EXCEPT !.frozen = f], account' = account
    PROVE  LedgerInv'
<1>1. /\ programme'.issued = programme.issued /\ programme'.balance = programme.balance
      /\ programme'.moved = programme.moved /\ programme' \in LedgerRow
  BY DEF LedgerInv, LedgerRow
<1>. QED
  BY <1>1 DEF LedgerInv, CreditsAccounted

LEMMA MoveLedger ==
    ASSUME IInv, LedgerInv, NEW c \in Calls, Move(c)
    PROVE  LedgerInv'
<1> DEFINE r == call[c].request
           t == transfers[r]
           left == programme.balance - t.amount
           amount == [o \in Owners |-> IF o = t.from THEN t.amount ELSE 0]
           percent == Percent(left, amount)
           moved == [programme.moved EXCEPT ![t.from] = @ + t.amount]
           acc == [o \in Owners |-> account[o]
                        + (IF o = t.to THEN t.amount ELSE 0)
                        - (IF o = t.from THEN t.amount ELSE 0)]
<1>1. /\ programme' = [programme EXCEPT !.balance = left, !.percent = percent,
                                        !.moved = moved]
      /\ account' = acc
  BY DEF Move
<1>2. r \in DOMAIN transfers /\ t \in Row
  BY DEF Move, IInv, CallOK, RequestsOK
<1> HIDE DEF t
<1>3. t.amount \in Nat /\ t.from \in Owners
  BY <1>2, ProgrammeAssumption DEF Row
<1>4. /\ programme \in LedgerRow /\ left \in Int /\ programme.balance \in Int
      /\ programme.moved \in [Owners -> Nat] /\ programme.issued \in Nat
      /\ account \in [Owners -> Int]
  BY <1>3 DEF LedgerInv, LedgerRow
<1>5. percent \in [Owners -> Int]
  <2>1. \A o \in Owners : amount[o] \in Int
    BY <1>3
  <2> HIDE DEF amount, left
  <2>2. ASSUME NEW o \in Owners, left # 0
        PROVE  Nearest((Share(o) - amount[o]) * Whole, left) \in Int
    <3>1. (Share(o) - amount[o]) * Whole \in Int
      BY <1>4, <2>1, ShareTypes
    <3>. QED
      BY <1>4, <2>2, <3>1, NearestType
  <2>3. Whole \in Int
    BY DEF Whole
  <2>. QED
    BY <2>2, <2>3 DEF Percent
<1>6. moved \in [Owners -> Nat]
  BY <1>3, <1>4
<1>7. acc \in [Owners -> Int]
  BY <1>3, <1>4
<1>8. SumFunction(moved) = SumFunction(programme.moved) + t.amount
  <2>1. /\ DOMAIN moved = DOMAIN programme.moved
        /\ t.from \in DOMAIN programme.moved
        /\ moved[t.from] = programme.moved[t.from] + t.amount
        /\ \A y \in DOMAIN programme.moved \ {t.from} : moved[y] = programme.moved[y]
    BY <1>3, <1>4
  <2>2. \A y \in DOMAIN programme.moved : programme.moved[y] \in Int /\ moved[y] \in Int
    BY <1>4, <1>6
  <2> HIDE DEF moved
  <2>3. SumFunction(moved) = SumFunction(programme.moved)
                                - programme.moved[t.from] + moved[t.from]
    BY <1>4, <2>1, <2>2, MovedFacts, SumUpdate
  <2>. QED
    BY <1>3, <1>4, <2>1, <2>2, <2>3, MovedFacts
<1> HIDE DEF left, percent, moved, acc
<1>9. /\ programme' \in LedgerRow /\ programme'.issued = programme.issued
      /\ programme'.balance = left /\ programme'.moved = moved
  BY <1>1, <1>4, <1>5, <1>6 DEF LedgerRow
<1>10. CreditsAccounted'
  BY <1>3, <1>4, <1>8, <1>9, MovedFacts DEF LedgerInv, CreditsAccounted, left
<1>. QED
  BY <1>1, <1>7, <1>9, <1>10 DEF LedgerInv

LEMMA TakeOutLedger ==
    ASSUME LedgerInv, NEW amount \in [Owners -> {0} \cup Amounts], TakeOut(amount)
    PROVE  LedgerInv'
<1> DEFINE total == SumFunction(amount)
           left == programme.balance - total
           percent == [o \in Owners |->
                IF left > 0 THEN Nearest(Remaining(o, amount[o]), left) ELSE 0]
           moved == [o \in Owners |-> programme.moved[o] + amount[o]]
           acc == [o \in Owners |-> account[o] - amount[o]]
<1>1. /\ programme' = [programme EXCEPT !.balance = left, !.percent = percent,
                                        !.moved = moved]
      /\ account' = acc
  BY DEF TakeOut
<1>2. amount \in [Owners -> Nat]
  <2>1. \A a \in {0} \cup Amounts : a \in Nat
    BY ProgrammeAssumption
  <2>. QED
    BY <2>1
<1>3. total \in Nat
  BY <1>2, MovedFacts
<1> HIDE DEF total
<1>4. /\ programme \in LedgerRow /\ left \in Int /\ programme.balance \in Int
      /\ programme.moved \in [Owners -> Nat] /\ programme.issued \in Nat
      /\ programme.percent \in [Owners -> Int]
      /\ account \in [Owners -> Int]
  BY <1>3 DEF LedgerInv, LedgerRow
<1>5. percent \in [Owners -> Int]
  <2> HIDE DEF left
  <2>1. ASSUME NEW o \in Owners, left > 0
        PROVE  Nearest(Remaining(o, amount[o]), left) \in Int
    <3>1. /\ Whole \in Int /\ amount[o] \in Int
          /\ programme.percent[o] \in Int
      BY <1>2, <1>4 DEF Whole
    <3>2. programme.balance * programme.percent[o] - amount[o] * Whole \in Int
      BY <1>4, <3>1
    <3>3. Remaining(o, amount[o]) \in Int
      BY <3>2 DEF Remaining
    <3>. QED
      BY <1>4, <2>1, <3>3, NearestType
  <2>. QED
    BY <2>1
<1>6. moved \in [Owners -> Nat]
  BY <1>2, <1>4
<1>7. acc \in [Owners -> Int]
  BY <1>2, <1>4
<1>8. SumFunction(moved) = SumFunction(programme.moved) + total
  <2>1. /\ DOMAIN moved = Owners /\ DOMAIN amount = Owners
        /\ DOMAIN programme.moved = Owners
        /\ \A y \in Owners : /\ programme.moved[y] \in Int /\ amount[y] \in Int
                             /\ moved[y] = programme.moved[y] + amount[y]
    BY <1>2, <1>4
  <2> HIDE DEF moved
  <2>. QED
    BY <2>1, ProgrammeAssumption, SumAdd DEF total
<1> HIDE DEF left, percent, moved, acc
<1>9. /\ programme' \in LedgerRow /\ programme'.issued = programme.issued
      /\ programme'.balance = left /\ programme'.moved = moved
  BY <1>1, <1>4, <1>5, <1>6 DEF LedgerRow
<1>10. CreditsAccounted'
  BY <1>3, <1>4, <1>8, <1>9, MovedFacts DEF LedgerInv, CreditsAccounted, left
<1>. QED
  BY <1>1, <1>7, <1>9, <1>10 DEF LedgerInv

LEMMA IssueLedger ==
    ASSUME LedgerInv, NEW c \in Calls, CallTyped(call[c]), Issue(c)
    PROVE  LedgerInv'
<1> DEFINE amount == call[c].amount
           change == Change(amount)
           balance == programme.balance + change
           issued == IF amount = 0 THEN Estimate ELSE programme.issued + amount
           percent == [o \in Owners |->
                IF balance = 0 THEN 0
                ELSE Nearest((Share(o) + Issued(o, change)) * Whole, balance)]
           acc == [o \in Owners |-> account[o] + Issued(o, change)]
<1>1. /\ programme' = [programme EXCEPT !.issued = issued, !.balance = balance,
                                        !.percent = percent]
      /\ account' = acc
  BY DEF Issue
<1>2. amount \in Nat
  BY DEF CallTyped, Issue
<1> HIDE DEF amount
<1>3. /\ programme \in LedgerRow /\ programme.balance \in Int
      /\ programme.moved \in [Owners -> Nat] /\ programme.issued \in Nat
      /\ account \in [Owners -> Int] /\ Estimate \in Nat
  BY ProgrammeAssumption DEF LedgerInv, LedgerRow
<1>4. /\ change \in Int /\ balance \in Int /\ issued \in Nat
      /\ issued = programme.issued + change
      /\ balance = programme.balance + change
  BY <1>2, <1>3 DEF Change
<1> HIDE DEF change, balance, issued
<1>5. percent \in [Owners -> Int]
  <2>1. ASSUME NEW o \in Owners, balance # 0
        PROVE  Nearest((Share(o) + Issued(o, change)) * Whole, balance) \in Int
    <3>1. (Share(o) + Issued(o, change)) * Whole \in Int
      BY <1>3, <1>4, ShareTypes
    <3>. QED
      BY <1>4, <2>1, <3>1, NearestType
  <2>. QED
    BY <2>1
<1>6. acc \in [Owners -> Int]
  <2>1. \A o \in Owners : Issued(o, change) \in Int
    BY <1>3, <1>4, ShareTypes
  <2>. QED
    BY <1>3, <2>1
<1> HIDE DEF percent, acc
<1>7. /\ programme' \in LedgerRow /\ programme'.issued = issued
      /\ programme'.balance = balance /\ programme'.moved = programme.moved
  BY <1>1, <1>3, <1>4, <1>5 DEF LedgerRow
<1>8. CreditsAccounted'
  BY <1>3, <1>4, <1>7, MovedFacts DEF LedgerInv, CreditsAccounted
<1>. QED
  BY <1>1, <1>6, <1>7, <1>8 DEF LedgerInv

LEMMA FreezeLedger ==
    ASSUME LedgerInv, NEW c \in Calls, CallTyped(call[c]),
           FreezeIssued(c) \/ Freeze(c) \/ Unfreeze(c)
    PROVE  LedgerInv'
<1>1. programme \in LedgerRow /\ programme.frozen \in [Owners -> Int]
  BY DEF LedgerInv, LedgerRow
<1>2. CASE FreezeIssued(c)
  <2> DEFINE f == [o \in Owners |-> programme.frozen[o]
                    + IF o \in call[c].suspended
                      THEN Issued(o, call[c].amount) ELSE 0]
  <2>1. programme' = [programme EXCEPT !.frozen = f] /\ account' = account
    BY <1>2 DEF FreezeIssued
  <2>2. call[c].amount \in Int
    BY <1>2 DEF FreezeIssued, CallTyped
  <2>3. \A o \in Owners : Issued(o, call[c].amount) \in Int
    BY <1>1, <2>2, ShareTypes
  <2>4. f \in [Owners -> Int]
    BY <1>1, <2>3
  <2> HIDE DEF f
  <2>. QED
    BY <2>1, <2>4, FrozenOnly
<1>3. CASE Freeze(c)
  <2> DEFINE o == call[c].owner
             share == IF Share(o) = 0 THEN programme.frozen[o] ELSE Share(o)
             f == [programme.frozen EXCEPT ![o] = share]
  <2>1. programme' = [programme EXCEPT !.frozen = f] /\ account' = account
    BY <1>3 DEF Freeze
  <2>2. o \in Owners
    BY <1>3 DEF Freeze, CallTyped
  <2>3. Share(o) \in Int
    BY <1>1, <2>2, ShareTypes
  <2>4. share \in Int
    BY <1>1, <2>2, <2>3
  <2> HIDE DEF o, share
  <2>5. f \in [Owners -> Int]
    BY <1>1, <2>2, <2>4
  <2> HIDE DEF f
  <2>. QED
    BY <2>1, <2>5, FrozenOnly
<1>4. CASE Unfreeze(c)
  <2> DEFINE o == call[c].owner
             f == [programme.frozen EXCEPT ![o] = 0]
  <2>1. programme' = [programme EXCEPT !.frozen = f] /\ account' = account
    BY <1>4 DEF Unfreeze
  <2>2. o \in Owners
    BY <1>4 DEF Unfreeze, CallTyped
  <2> HIDE DEF o
  <2>3. f \in [Owners -> Int]
    BY <1>1, <2>2
  <2> HIDE DEF f
  <2>. QED
    BY <2>1, <2>3, FrozenOnly
<1>. QED
  BY <1>2, <1>3, <1>4

LEMMA LedgerStays ==
    ASSUME LedgerInv, UNCHANGED <<programme, account>> PROVE LedgerInv'
BY DEF LedgerInv, CreditsAccounted

LEMMA NextLedger ==
    IInv /\ LedgerInv /\ TablesInv /\ [Next]_programmeVars => LedgerInv'
<1> SUFFICES ASSUME IInv, LedgerInv, TablesInv, [Next]_programmeVars
             PROVE  LedgerInv'
  OBVIOUS
<1>1. \A c \in Calls : CallTyped(call[c])
  BY DEF TablesInv
<1>2. CASE \E c \in Calls : Move(c)
  BY <1>2, MoveLedger
<1>3. CASE \E c \in Calls : Issue(c)
  BY <1>1, <1>3, IssueLedger
<1>4. CASE \E c \in Calls : FreezeIssued(c) \/ Freeze(c) \/ Unfreeze(c)
  BY <1>1, <1>4, FreezeLedger
<1>5. CASE \E amount \in [Owners -> {0} \cup Amounts] : TakeOut(amount)
  BY <1>5, TakeOutLedger
<1>6. CASE \/ \E r \in Requests, o \in Owners, to \in Owners \cup {Government},
                a \in Amounts :
              Ask(r, o, to, a) \/ \E c \in Calls : AskAtOnce(c, r, o, to, a)
           \/ \E r \in Requests : \E outcome \in {"CANCELLED", "REJECTED"} :
                Withdraw(r, outcome)
           \/ \E r \in Requests, o \in Owners : RefuseApproval(r, o)
  BY <1>6, LedgerStays DEF Ask, AskAtOnce, Withdraw, RefuseApproval
<1>7. CASE \E c \in Calls :
            \/ \E r \in Requests : StartApproval(c, r) \/ Sweep(c, r)
            \/ Claim(c) \/ MoveThrows(c) \/ Settle(c) \/ List(c)
            \/ \E a \in {0} \cup Amounts : StartIssue(c, a)
            \/ FindSuspended(c)
            \/ \E o \in Owners : ChangeState(c, o)
            \/ CancelPending(c) \/ Die(c)
  BY <1>7, LedgerStays DEF StartApproval, Sweep, Claim, MoveThrows, Settle, List,
     StartIssue, FindSuspended, ChangeState, CancelPending, Die
<1>8. CASE UNCHANGED programmeVars
  BY <1>8, LedgerStays DEF programmeVars
<1>. QED
  BY <1>2, <1>3, <1>4, <1>5, <1>6, <1>7, <1>8 DEF Next

-----------------------------------------------------------------------------
(* The other tables and what the calls hold.                               *)

LEMMA RequestsDomain ==
    ASSUME TablesInv, UNCHANGED <<swept>>, DOMAIN transfers' = DOMAIN transfers
    PROVE  DOMAIN transfers' \subseteq Requests /\ swept' \subseteq DOMAIN transfers'
BY DEF TablesInv

\* A step that changes what one call holds.
LEMMA OneCallTables ==
    ASSUME TablesInv, IInv, NEW c \in Calls, NEW k, CallTyped(k),
           call' = [call EXCEPT ![c] = k],
           state' \in [Owners -> {"ACTIVE", "SUSPENDED"}],
           DOMAIN transfers' \subseteq Requests, swept' \subseteq DOMAIN transfers',
           begun' \in 0 .. MaxCalls
    PROVE  TablesInv'
<1>1. \A d \in Calls : call'[d] = IF d = c THEN k ELSE call[d]
  BY DEF IInv
<1>. QED
  BY <1>1 DEF TablesInv, CallTyped

LEMMA NoCallTables ==
    ASSUME TablesInv, UNCHANGED call,
           state' \in [Owners -> {"ACTIVE", "SUSPENDED"}],
           DOMAIN transfers' \subseteq Requests, swept' \subseteq DOMAIN transfers',
           begun' \in 0 .. MaxCalls
    PROVE  TablesInv'
BY DEF TablesInv, CallTyped

LEMMA BeginFacts ==
    ASSUME TablesInv, Begin PROVE begun' \in 0 .. MaxCalls
BY ProgrammeAssumption DEF TablesInv, Begin

\* What a step does to requests and states.
LEMMA TablesStep ==
    ASSUME IInv, TablesInv, [Next]_programmeVars
    PROVE  /\ state' \in [Owners -> {"ACTIVE", "SUSPENDED"}]
           /\ DOMAIN transfers' \subseteq Requests
           /\ swept' \subseteq DOMAIN transfers'
           /\ begun' \in 0 .. MaxCalls
<1>1. /\ state \in [Owners -> {"ACTIVE", "SUSPENDED"}]
      /\ DOMAIN transfers \subseteq Requests /\ swept \subseteq DOMAIN transfers
      /\ begun \in 0 .. MaxCalls
  BY DEF TablesInv
<1>2. CASE \E r \in Requests, o \in Owners, to \in Owners \cup {Government},
              a \in Amounts :
            Ask(r, o, to, a) \/ \E c \in Calls : AskAtOnce(c, r, o, to, a)
  <2>1. Begin /\ UNCHANGED <<state, swept>>
    BY <1>2 DEF Ask, AskAtOnce
  <2>2. \E r \in Requests : \E row : transfers' = WithRow(r, row)
    BY <1>2 DEF Ask, AskAtOnce
  <2>3. \E r \in Requests : DOMAIN transfers' = DOMAIN transfers \cup {r}
    BY <2>2 DEF WithRow
  <2>. QED
    BY <1>1, <2>1, <2>3, BeginFacts
<1>3. CASE \/ \E r \in Requests : \E outcome \in {"CANCELLED", "REJECTED"} :
                Withdraw(r, outcome)
           \/ \E r \in Requests, o \in Owners : RefuseApproval(r, o)
  <2>1. Begin /\ UNCHANGED <<state, swept>> /\ DOMAIN transfers' = DOMAIN transfers
    BY <1>3 DEF Withdraw, RefuseApproval, WithoutPendingOf
  <2>. QED
    BY <1>1, <2>1, BeginFacts
<1>4. CASE \E c \in Calls, r \in Requests : StartApproval(c, r)
  <2>1. Begin /\ UNCHANGED <<state, swept, transfers>>
    BY <1>4 DEF StartApproval
  <2>. QED
    BY <1>1, <2>1, BeginFacts
<1>5. CASE \E c \in Calls, r \in Requests : Sweep(c, r)
  <2>1. PICK c \in Calls, r \in Requests : Sweep(c, r)
    BY <1>5
  <2>2. r \in DOMAIN transfers
    BY <2>1 DEF Sweep, IInv, CallOK
  <2>3. /\ swept' = swept \cup {r} /\ DOMAIN transfers' = DOMAIN transfers
        /\ UNCHANGED <<state, begun>>
    BY <2>1 DEF Sweep
  <2>. QED
    BY <1>1, <2>2, <2>3
<1>6. CASE \E c \in Calls :
            \/ Claim(c) \/ Move(c) \/ MoveThrows(c) \/ Settle(c) \/ List(c)
            \/ Issue(c) \/ FindSuspended(c) \/ FreezeIssued(c)
            \/ Freeze(c) \/ CancelPending(c) \/ Unfreeze(c) \/ Die(c)
  <2>1. /\ DOMAIN transfers' = DOMAIN transfers /\ UNCHANGED <<state, swept, begun>>
    BY <1>6 DEF Claim, Move, MoveThrows, Settle, List, Issue, FindSuspended,
       FreezeIssued, Freeze, CancelPending, Unfreeze, Die, WithoutPendingOf
  <2>. QED
    BY <1>1, <2>1
<1>7. CASE \E c \in Calls, a \in {0} \cup Amounts : StartIssue(c, a)
  <2>1. Begin /\ UNCHANGED <<state, swept, transfers>>
    BY <1>7 DEF StartIssue
  <2>. QED
    BY <1>1, <2>1, BeginFacts
<1>8. CASE \E c \in Calls, o \in Owners : ChangeState(c, o)
  <2>1. Begin /\ UNCHANGED <<swept, transfers>>
    BY <1>8 DEF ChangeState
  <2>2. state' \in [Owners -> {"ACTIVE", "SUSPENDED"}]
    BY <1>1, <1>8 DEF ChangeState
  <2>. QED
    BY <1>1, <2>1, <2>2, BeginFacts
<1>9. CASE \E amount \in [Owners -> {0} \cup Amounts] : TakeOut(amount)
  <2>1. Begin /\ UNCHANGED <<state, swept, transfers>>
    BY <1>9 DEF TakeOut
  <2>. QED
    BY <1>1, <2>1, BeginFacts
<1>10. CASE UNCHANGED programmeVars
  BY <1>1, <1>10 DEF programmeVars
<1>. QED
  BY <1>2, <1>3, <1>4, <1>5, <1>6, <1>7, <1>8, <1>9, <1>10 DEF Next

LEMMA NextTyped ==
    ASSUME IInv, TablesInv, [Next]_programmeVars
    PROVE  \A c \in Calls : CallTyped(call'[c])
<1>1. /\ \A c \in Calls : CallTyped(call[c])
      /\ DOMAIN call = Calls
  BY DEF TablesInv, IInv
<1>2. CallTyped(Idle)
  BY DEF CallTyped, Idle, Steps
<1>3. ASSUME NEW c \in Calls, NEW k, call' = [call EXCEPT ![c] = k], CallTyped(k)
      PROVE  \A d \in Calls : CallTyped(call'[d])
  BY <1>1, <1>3
<1>4. ASSUME NEW r PROVE CallTyped([step |-> "move", request |-> r])
  BY DEF CallTyped, Steps
<1>5. CASE call' = call
  BY <1>1, <1>5
<1>6. CASE \E c \in Calls : call' = [call EXCEPT ![c] = Idle]
  BY <1>2, <1>3, <1>6
<1>7. CASE \E r \in Requests, o \in Owners, to \in Owners \cup {Government},
              a \in Amounts : \E c \in Calls : AskAtOnce(c, r, o, to, a)
  BY <1>3, <1>4, <1>7 DEF AskAtOnce
<1>8. CASE \E c \in Calls, r \in Requests : StartApproval(c, r)
  <2>1. PICK c \in Calls, r \in Requests : StartApproval(c, r)
    BY <1>8
  <2> DEFINE k == [step |-> IF transfers[r].status = "PROCESSING"
                            THEN "move" ELSE "claim",
                   request |-> r]
  <2>2. call' = [call EXCEPT ![c] = k]
    BY <2>1 DEF StartApproval
  <2>3. CallTyped(k)
    BY DEF CallTyped, Steps
  <2> HIDE DEF k
  <2>. QED
    BY <1>3, <2>2, <2>3
<1>9. CASE \E c \in Calls, r \in Requests : Sweep(c, r)
  <2>1. PICK c \in Calls, r \in Requests : Sweep(c, r)
    BY <1>9
  <2> DEFINE k == [step |-> "sweep", doomed |-> call[c].doomed \ {r}]
  <2>2. \/ call' = [call EXCEPT ![c] = Idle]
        \/ call' = [call EXCEPT ![c] = k]
    BY <2>1 DEF Sweep
  <2>3. CallTyped(k)
    BY DEF CallTyped, Steps
  <2> HIDE DEF k
  <2>. QED
    BY <1>2, <1>3, <2>2, <2>3
<1>10. CASE \E c \in Calls : Claim(c)
  BY <1>2, <1>3, <1>4, <1>10 DEF Claim
<1>11. CASE \E c \in Calls : Move(c)
  <2>1. PICK c \in Calls : Move(c)
    BY <1>11
  <2> DEFINE k == [step |-> "settle", request |-> call[c].request,
                   shares |-> [o \in Owners |-> Share(o)']]
  <2>2. call' = [call EXCEPT ![c] = k]
    BY <2>1 DEF Move
  <2>3. CallTyped(k)
    BY DEF CallTyped, Steps
  <2> HIDE DEF k
  <2>. QED
    BY <1>3, <2>2, <2>3
<1>12. CASE \E c \in Calls : Settle(c)
  <2>1. PICK c \in Calls : Settle(c)
    BY <1>12
  <2> DEFINE k == [step |-> "list", shares |-> call[c].shares]
  <2>2. call' = [call EXCEPT ![c] = k]
    BY <2>1 DEF Settle
  <2>3. CallTyped(k)
    BY DEF CallTyped, Steps
  <2> HIDE DEF k
  <2>. QED
    BY <1>3, <2>2, <2>3
<1>13. CASE \E c \in Calls : List(c)
  <2>1. PICK c \in Calls : List(c)
    BY <1>13
  <2> DEFINE doomed == {r \in Pending : transfers[r].amount
                                        > call[c].shares[transfers[r].from]}
             k == [step |-> "sweep", doomed |-> doomed]
  <2>2. \/ call' = [call EXCEPT ![c] = Idle]
        \/ call' = [call EXCEPT ![c] = k]
    BY <2>1 DEF List
  <2>3. CallTyped(k)
    BY DEF CallTyped, Steps
  <2> HIDE DEF k
  <2>. QED
    BY <1>2, <1>3, <2>2, <2>3
<1>14. CASE \E c \in Calls, a \in {0} \cup Amounts : StartIssue(c, a)
  <2>1. PICK c \in Calls, a \in {0} \cup Amounts : StartIssue(c, a)
    BY <1>14
  <2>2. CallTyped([step |-> "issue", amount |-> a])
    BY ProgrammeAssumption DEF CallTyped, Steps
  <2>. QED
    BY <1>3, <2>1, <2>2 DEF StartIssue
<1>15. CASE \E c \in Calls : Issue(c)
  <2>1. PICK c \in Calls : Issue(c)
    BY <1>15
  <2>2. call[c].amount \in Nat
    BY <1>1, <2>1 DEF Issue, CallTyped
  <2>3. CallTyped([step |-> "owners", amount |-> call[c].amount])
    BY <2>2 DEF CallTyped, Steps
  <2>. QED
    BY <1>3, <2>1, <2>3 DEF Issue
<1>16. CASE \E c \in Calls : FindSuspended(c)
  <2>1. PICK c \in Calls : FindSuspended(c)
    BY <1>16
  <2>2. call[c].amount \in Nat
    BY <1>1, <2>1 DEF FindSuspended, CallTyped
  <2> DEFINE k == [step |-> "freezeIssued", amount |-> call[c].amount,
                   suspended |-> {o \in Owners : state[o] = "SUSPENDED"}]
  <2>3. \/ call' = [call EXCEPT ![c] = Idle]
        \/ call' = [call EXCEPT ![c] = k]
    BY <2>1 DEF FindSuspended
  <2>4. CallTyped(k)
    BY <2>2 DEF CallTyped, Steps
  <2> HIDE DEF k
  <2>. QED
    BY <1>2, <1>3, <2>3, <2>4
<1>17. CASE \E c \in Calls, o \in Owners : ChangeState(c, o)
  <2>1. PICK c \in Calls, o \in Owners : ChangeState(c, o)
    BY <1>17
  <2> DEFINE k == [step |-> IF state[o] = "ACTIVE" THEN "freeze" ELSE "unfreeze",
                   owner |-> o]
  <2>2. call' = [call EXCEPT ![c] = k]
    BY <2>1 DEF ChangeState
  <2>3. CallTyped(k)
    BY DEF CallTyped, Steps
  <2> HIDE DEF k
  <2>. QED
    BY <1>3, <2>2, <2>3
<1>18. CASE \E c \in Calls : Freeze(c)
  <2>1. PICK c \in Calls : Freeze(c)
    BY <1>18
  <2>2. call[c].owner \in Owners
    BY <1>1, <2>1 DEF Freeze, CallTyped
  <2>3. CallTyped([step |-> "cancelPending", owner |-> call[c].owner])
    BY <2>2 DEF CallTyped, Steps
  <2>. QED
    BY <1>3, <2>1, <2>3 DEF Freeze
<1>19. CASE \E c \in Calls : MoveThrows(c) \/ FreezeIssued(c) \/ CancelPending(c)
                              \/ Unfreeze(c) \/ Die(c)
  BY <1>6, <1>19 DEF MoveThrows, FreezeIssued, CancelPending, Unfreeze, Die
<1>20. CASE \/ \E r \in Requests, o \in Owners, to \in Owners \cup {Government},
                  a \in Amounts : Ask(r, o, to, a)
            \/ \E r \in Requests : \E outcome \in {"CANCELLED", "REJECTED"} :
                  Withdraw(r, outcome)
            \/ \E r \in Requests, o \in Owners : RefuseApproval(r, o)
            \/ \E amount \in [Owners -> {0} \cup Amounts] : TakeOut(amount)
            \/ UNCHANGED programmeVars
  BY <1>5, <1>20 DEF Ask, Withdraw, RefuseApproval, TakeOut, programmeVars
<1>. QED
  BY <1>7, <1>8, <1>9, <1>10, <1>11, <1>12, <1>13, <1>14, <1>15, <1>16, <1>17,
     <1>18, <1>19, <1>20 DEF Next

LEMMA NextTables == IInv /\ TablesInv /\ [Next]_programmeVars => TablesInv'
<1> SUFFICES ASSUME IInv, TablesInv, [Next]_programmeVars PROVE TablesInv'
  OBVIOUS
<1>. QED
  BY TablesStep, NextTyped DEF TablesInv, CallTyped

LEMMA InitLedger == Init => LedgerInv /\ TablesInv
<1> SUFFICES ASSUME Init PROVE LedgerInv /\ TablesInv
  OBVIOUS
<1>1. PICK first \in {0} \cup {a \in Amounts : a <= Estimate} :
        /\ programme = [issued |-> first, balance |-> first,
                        percent |-> Proponent,
                        frozen |-> [o \in Owners |-> 0],
                        moved |-> [o \in Owners |-> 0]]
        /\ account = [o \in Owners |-> Issued(o, first)]
  BY DEF Init
<1>2. first \in Nat
  BY ProgrammeAssumption
<1>3. Whole \in Int
  BY DEF Whole
<1>4. Proponent \in [Owners -> Int]
  BY <1>3, ProgrammeAssumption
<1>5. programme \in LedgerRow
  BY <1>1, <1>2, <1>4 DEF LedgerRow
<1>6. account \in [Owners -> Int]
  BY <1>1, <1>2, <1>5, ShareTypes
<1>7. CreditsAccounted
  <2>1. programme.moved = [o \in Owners |-> 0]
    BY <1>1
  <2>2. SumFunction(programme.moved) = 0
    BY <2>1, ProgrammeAssumption, SumZero
  <2>. QED
    BY <1>1, <1>2, <2>2 DEF CreditsAccounted
<1>8. LedgerInv
  BY <1>5, <1>6, <1>7 DEF LedgerInv
<1>9. TablesInv
  <2>1. DOMAIN transfers = {} /\ swept = {} /\ begun = 0
    BY DEF Init
  <2>2. \A c \in Calls : call[c] = Idle
    BY DEF Init
  <2>3. CallTyped(Idle)
    BY DEF CallTyped, Idle, Steps
  <2>. QED
    BY <2>1, <2>2, <2>3, ProgrammeAssumption DEF Init, TablesInv
<1>. QED
  BY <1>8, <1>9


\* What the ledger issued to a programme is in its balance or among the
\* credits that were transferred, retired, cancelled or assigned, whatever
\* calls overlap and whichever of them die half-way.
THEOREM CreditsAccountedAlways == Spec => []CreditsAccounted
<1>1. LedgerInv => CreditsAccounted
  BY DEF LedgerInv
<1>. QED
  BY <1>1, InitInv, NextInv, InitLedger, NextLedger, NextTables, PTL DEF Spec

\* The tables keep their types.
THEOREM TypeCorrect == Spec => []TypeOK
<1>1. IInv /\ LedgerInv /\ TablesInv => TypeOK
  <2> SUFFICES ASSUME IInv, LedgerInv, TablesInv PROVE TypeOK
    OBVIOUS
  <2>1. \A r \in DOMAIN transfers : transfers[r] \in Row
    BY DEF IInv, RequestsOK
  <2>2. applied \subseteq DOMAIN transfers
    BY DEF IInv, RequestsOK
  <2>. QED
    BY <2>1, <2>2 DEF LedgerInv, TablesInv, LedgerRow, CallTyped, Steps, Row, TypeOK
<1>. QED
  BY <1>1, InitInv, NextInv, InitLedger, NextLedger, NextTables, PTL DEF Spec

-----------------------------------------------------------------------------
(* Shares and accounts: rounding.                                          *)

\* Nearest is within half of d of the fraction, and has its sign.
LEMMA NearestHalf ==
    ASSUME NEW n \in Nat, NEW d \in Nat, d > 0,
           NEW up \in {0, 1}, (up = 1) <=> (2 * (n % d) >= d),
           NEW z \in Int, z = ((n \div d) + up) * d
    PROVE  2 * n - d <= 2 * z /\ 2 * z <= 2 * n + d
<1>1. PICK s \in Int, m \in Int : /\ s = n \div d /\ m = n % d
                                  /\ 0 <= m /\ m < d /\ n = d * s + m
  OBVIOUS
<1>2. CASE up = 1
  <2>1. z = s * d + d
    BY <1>1, <1>2
  <2>2. d * s = s * d
    BY <1>1
  <2> QED
    BY <1>1, <1>2, <2>1, <2>2
<1>3. CASE up = 0
  <2>1. z = s * d
    BY <1>1, <1>3
  <2>2. d * s = s * d
    BY <1>1
  <2> QED
    BY <1>1, <1>3, <2>1, <2>2
<1> QED
  BY <1>2, <1>3

LEMMA NearestBounds ==
    ASSUME NEW n \in Int, NEW d \in Int, d # 0, NEW q, q = Nearest(n, d)
    PROVE  /\ q \in Int
           /\ d > 0 => 2 * n - d <= 2 * (q * d) /\ 2 * (q * d) <= 2 * n + d
           /\ d < 0 => 2 * n + d <= 2 * (q * d) /\ 2 * (q * d) <= 2 * n - d
           /\ n >= 0 => q * d >= 0
<1>1. PICK an \in Nat, ad \in Nat :
        /\ an = (IF n < 0 THEN -n ELSE n)
        /\ ad = (IF d < 0 THEN -d ELSE d) /\ ad > 0
  OBVIOUS
<1>2. PICK up \in {0, 1} : (up = 1) <=> (2 * (an % ad) >= ad)
  OBVIOUS
<1>3. PICK s \in Nat : s = an \div ad
  BY <1>1
<1>4. q = (IF (n < 0) # (d < 0) THEN -(s + up) ELSE s + up)
  BY <1>1, <1>2, <1>3 DEF Nearest
<1>5. PICK h \in Nat : h = s + up
  <2>1. up = 0 \/ up = 1
    BY <1>2
  <2>2. s + up \in Nat
    BY <1>3, <2>1
  <2> QED
    BY <2>2
<1>6. PICK z \in Int : z = h * ad
  BY <1>1, <1>5
<1>7. 2 * an - ad <= 2 * z /\ 2 * z <= 2 * an + ad
  BY <1>1, <1>2, <1>3, <1>5, <1>6, NearestHalf
<1>8. z >= 0
  BY <1>1, <1>5, <1>6
<1>9. q \in Int
  BY <1>2, <1>3, <1>4
<1>10. q * d = (IF n < 0 THEN -z ELSE z)
  <2>1. CASE n >= 0 /\ d > 0
    <3>1. q = h /\ ad = d
      BY <2>1, <1>1, <1>4, <1>5
    <3> QED
      BY <2>1, <3>1, <1>5, <1>6
  <2>2. CASE n >= 0 /\ d < 0
    <3>1. q = -h /\ ad = -d
      BY <2>2, <1>1, <1>4, <1>5
    <3> QED
      BY <2>2, <3>1, <1>5, <1>6
  <2>3. CASE n < 0 /\ d > 0
    <3>1. q = -h /\ ad = d
      BY <2>3, <1>1, <1>4, <1>5
    <3> QED
      BY <2>3, <3>1, <1>5, <1>6
  <2>4. CASE n < 0 /\ d < 0
    <3>1. q = h /\ ad = -d
      BY <2>4, <1>1, <1>4, <1>5
    <3> QED
      BY <2>4, <3>1, <1>5, <1>6
  <2> QED
    BY <2>1, <2>2, <2>3, <2>4
<1>11. PICK y \in Int : y = q * d
  BY <1>9
<1>12. y = (IF n < 0 THEN -z ELSE z)
  BY <1>10, <1>11
<1> QED
  BY <1>1, <1>7, <1>8, <1>9, <1>11, <1>12

\* A number less than half away is the nearest one.
LEMMA NearestIs ==
    ASSUME NEW n \in Int, NEW x \in Int,
           2 * n < 2 * x * Whole + Whole, 2 * n > 2 * x * Whole - Whole
    PROVE  Nearest(n, Whole) = x
<1>1. PICK q : q = Nearest(n, Whole)
  OBVIOUS
<1>2. q \in Int /\ 2 * n - Whole <= 2 * (q * Whole) /\ 2 * (q * Whole) <= 2 * n + Whole
  BY <1>1, NearestBounds, SMT DEF Whole
<1> QED
  BY <1>1, <1>2, SMT DEF Whole

\* A share of less than a million credits survives its percentage.
LEMMA RoundTrip ==
    ASSUME NEW x \in Int, NEW l \in Int, l # 0, -Whole < l, l < Whole
    PROVE  Nearest(l * Nearest(x * Whole, l), Whole) = x
<1>1. PICK n \in Int : n = x * Whole
  BY SMT DEF Whole
<1>2. PICK p : p = Nearest(n, l)
  OBVIOUS
<1>3. p \in Int
  BY <1>2, NearestBounds
<1>4. PICK z \in Int : z = l * p /\ z = p * l
  BY <1>3
<1>5. \/ 2 * n - l <= 2 * z /\ 2 * z <= 2 * n + l
      \/ 2 * n + l <= 2 * z /\ 2 * z <= 2 * n - l
  BY <1>2, <1>4, NearestBounds
<1>6. 2 * z < 2 * x * Whole + Whole /\ 2 * z > 2 * x * Whole - Whole
  BY <1>1, <1>5, SMT DEF Whole
<1> QED
  BY <1>1, <1>2, <1>4, <1>6, NearestIs

\* What a percentage computed for x of l credits, capped at 100, makes of them.
LEMMA ShareOfPercent ==
    ASSUME NEW x \in Nat, NEW l \in Int, -Whole < l, l < Whole,
           NEW p, p = Nearest(x * Whole, l),
           NEW percent, percent = (IF l = 0 THEN 0 ELSE IF p > Whole THEN Whole ELSE p)
    PROVE  l * percent >= 0 /\ Nearest(l * percent, Whole) <= x
<1>1. Whole \in Nat /\ Whole > 0
  BY SMT DEF Whole
<1>2. CASE l = 0
  <2>1. l * percent = 0
    BY <1>2
  <2>2. Nearest(0, Whole) = 0
    BY <1>1, NearestIs
  <2> QED
    BY <2>1, <2>2
<1>3. CASE l # 0
  <2>1. PICK n \in Nat : n = x * Whole
    BY <1>1
  <2>2. p \in Int /\ p * l >= 0 /\ (l > 0 => 2 * (p * l) <= 2 * n + l)
    BY <1>3, <2>1, NearestBounds
  <2>3. CASE p > Whole
    <3>1. l > 0
      BY <1>1, <1>3, <2>2, <2>3
    <3>2. p * l >= (Whole + 1) * l
      BY <1>1, <2>2, <2>3, <3>1
    <3>3. PICK z \in Int : z = p * l
      BY <2>2
    <3>4. (Whole + 1) * l = l * Whole + l
      BY SMT DEF Whole
    <3>5. l * Whole <= x * Whole
      BY <2>1, <2>2, <3>1, <3>2, <3>3, <3>4, SMT DEF Whole
    <3>6. l <= x
      BY <3>5, SMT DEF Whole
    <3>7. Nearest(l * Whole, Whole) = l
      BY <3>1, NearestIs, SMT DEF Whole
    <3> QED
      BY <1>1, <1>3, <2>3, <3>1, <3>6, <3>7, SMT DEF Whole
  <2>4. CASE ~(p > Whole)
    <3>1. percent = p
      BY <1>3, <2>4
    <3>2. Nearest(l * p, Whole) = x
      BY <1>3, <2>1, RoundTrip
    <3>3. l * p = p * l
      BY <2>2
    <3> QED
      BY <2>2, <3>1, <3>2, <3>3
  <2> QED
    BY <2>3, <2>4
<1> QED
  BY <1>2, <1>3

\* A cancellation computes from what is not rounded, and may round up.
LEMMA ShareAfterTakeOut ==
    ASSUME NEW n \in Nat, NEW a \in Nat, NEW l \in Nat, l < Whole,
           NEW r, r = (IF n - a * Whole < 0 THEN 0 ELSE n - a * Whole),
           NEW percent, percent = (IF l > 0 THEN Nearest(r, l) ELSE 0)
    PROVE  /\ l * percent >= 0
           /\ Nearest(l * percent, Whole) <= 0
              \/ Nearest(l * percent, Whole) <= Nearest(n, Whole) - a + 1
<1>1. Whole \in Nat /\ Whole > 0 /\ r \in Nat
  BY SMT DEF Whole
<1>2. CASE l = 0
  <2>1. l * percent = 0
    BY <1>2
  <2>2. Nearest(0, Whole) = 0
    BY <1>1, NearestIs
  <2> QED
    BY <2>1, <2>2
<1>3. CASE l > 0
  <2>1. percent = Nearest(r, l)
    BY <1>3
  <2>2. percent \in Int /\ percent * l >= 0 /\ 2 * (percent * l) <= 2 * r + l
    <3>1. r \in Int /\ l \in Int /\ l # 0 /\ r >= 0 /\ l > 0
      BY <1>1, <1>3
    <3> QED
      BY <2>1, <3>1, NearestBounds
  <2>3. PICK z \in Int : z = percent * l /\ z = l * percent
    BY <2>2
  <2>4. PICK s : s = Nearest(z, Whole)
    OBVIOUS
  <2>5. s \in Int /\ 2 * (s * Whole) <= 2 * z + Whole
    BY <1>1, <2>4, NearestBounds
  <2>6. PICK t : t = Nearest(n, Whole)
    OBVIOUS
  <2>7. t \in Int /\ 2 * n - Whole <= 2 * (t * Whole)
    BY <1>1, <2>6, NearestBounds
  <2>8. s <= 0 \/ s <= t - a + 1
    BY <2>2, <2>3, <2>5, <2>7, SMT DEF Whole
  <2> QED
    BY <2>2, <2>3, <2>4, <2>6, <2>8
<1> QED
  BY <1>2, <1>3

-----------------------------------------------------------------------------
(* Shares and accounts: the steps.                                         *)

\* Less than a million credits are in the balance: as many hundredths as Whole.
SmallBalance == -Whole < programme.balance /\ programme.balance < Whole

\* No issue of all that is left takes credits back, which it does if others
\* have run past the estimate meanwhile.
NoIssueTakesBack == programme'.issued >= programme.issued

\* Shares are never negative, so a frozen amount is not either.
SharesInv ==
    \A o \in Owners :
        /\ programme.balance * programme.percent[o] >= 0
        /\ programme.frozen[o] >= 0
        /\ Share(o) <= account[o] + begun

LEMMA IssuedIsNat ==
    ASSUME NEW change \in Nat, NEW o \in Owners
    PROVE  Issued(o, change) \in Nat /\ change * Proponent[o] \in Nat
<1>1. Proponent[o] \in Nat
  <2>1. Whole \in Int
    BY SMT DEF Whole
  <2> QED
    BY <2>1, ProgrammeAssumption
<1>2. PICK n \in Nat : n = change * Proponent[o]
  BY <1>1
<1>3. PICK s : s = Nearest(n, Whole)
  OBVIOUS
<1>4. s \in Int /\ 2 * n - Whole <= 2 * (s * Whole)
  BY <1>3, NearestBounds, SMT DEF Whole
<1>5. s \in Nat
  BY <1>4, SMT DEF Whole
<1> QED
  BY <1>2, <1>3, <1>5 DEF Issued

LEMMA ShareFacts ==
    ASSUME LedgerInv, SharesInv, NEW o \in Owners
    PROVE  /\ programme.balance \in Int /\ programme.percent[o] \in Int
           /\ programme.frozen[o] \in Int /\ account[o] \in Int
           /\ programme.balance * programme.percent[o] \in Nat
           /\ Share(o) \in Nat
<1>1. /\ programme.balance \in Int /\ programme.percent[o] \in Int
      /\ programme.frozen[o] \in Int /\ account[o] \in Int
  BY DEF LedgerInv, LedgerRow
<1>2. PICK n \in Nat : n = programme.balance * programme.percent[o]
  BY <1>1 DEF SharesInv
<1>3. PICK s : s = Nearest(n, Whole)
  OBVIOUS
<1>4. s \in Int /\ 2 * n - Whole <= 2 * (s * Whole)
  BY <1>3, NearestBounds, SMT DEF Whole
<1>5. s \in Nat
  BY <1>4, SMT DEF Whole
<1> QED
  BY <1>1, <1>2, <1>3, <1>5 DEF Share

\* A step that leaves ledger rows and accounts alone.
LEMMA SharesStay ==
    ASSUME LedgerInv, TablesInv, SharesInv, UNCHANGED <<programme, account>>,
           begun' = begun \/ begun' = begun + 1
    PROVE  SharesInv'
<1> SUFFICES ASSUME NEW o \in Owners
             PROVE  /\ programme.balance * programme.percent[o] >= 0
                    /\ programme.frozen[o] >= 0
                    /\ Share(o)' <= account[o] + begun'
  BY DEF SharesInv
<1>1. Share(o)' = Share(o)
  BY DEF Share
<1>2. begun \in Nat
  BY ProgrammeAssumption DEF TablesInv
<1> QED
  BY <1>1, <1>2, ShareFacts DEF SharesInv

LEMMA MoveShares ==
    ASSUME IInv, LedgerInv, TablesInv, SharesInv, LedgerInv', SmallBalance',
           NEW c \in Calls, Move(c)
    PROVE  SharesInv'
<1>1. PICK r, t : r = call[c].request /\ t = transfers[r]
  OBVIOUS
<1>2. r \in DOMAIN transfers /\ t \in Row
  BY <1>1 DEF Move, IInv, CallOK, RequestsOK
<1>3. t.amount \in Nat /\ t.from \in Owners
  BY <1>2, ProgrammeAssumption DEF Row
<1>4. PICK left : left = programme.balance - t.amount
  OBVIOUS
<1>5. programme \in LedgerRow /\ account \in [Owners -> Int]
  BY DEF LedgerInv
<1>6. /\ programme'.balance = left /\ programme'.frozen = programme.frozen
      /\ programme'.percent = Percent(left, [o \in Owners |->
                                  IF o = t.from THEN t.amount ELSE 0])
  BY <1>1, <1>4, <1>5 DEF Move, LedgerRow
<1>7. left \in Int /\ -Whole < left /\ left < Whole
  BY <1>6 DEF SmallBalance, LedgerInv, LedgerRow
<1>8. t.amount <= Share(t.from) - programme.frozen[t.from]
  BY <1>1 DEF Move, CanMove, Available
<1>9. begun' = begun /\ begun \in Nat
  BY ProgrammeAssumption DEF Move, TablesInv
<1> SUFFICES ASSUME NEW o \in Owners
             PROVE  /\ programme'.balance * programme'.percent[o] >= 0
                    /\ programme'.frozen[o] >= 0
                    /\ Share(o)' <= account'[o] + begun'
  BY DEF SharesInv
<1>10. PICK a \in Nat : a = (IF o = t.from THEN t.amount ELSE 0)
  BY <1>3
<1>11. PICK x : x = Share(o) - a
  OBVIOUS
<1>12. x \in Nat
  BY <1>3, <1>8, <1>10, <1>11, ShareFacts DEF SharesInv
<1>13. PICK p : p = Nearest(x * Whole, left)
  OBVIOUS
<1>14. programme'.percent[o] = (IF left = 0 THEN 0 ELSE IF p > Whole THEN Whole ELSE p)
  BY <1>6, <1>10, <1>11, <1>13 DEF Percent
<1>15. left * programme'.percent[o] >= 0 /\ Nearest(left * programme'.percent[o], Whole) <= x
  BY <1>7, <1>12, <1>13, <1>14, ShareOfPercent
<1>16. Share(o)' <= x
  BY <1>6, <1>15 DEF Share
<1>17. account'[o] = account[o] + (IF o = t.to THEN t.amount ELSE 0) - a
  BY <1>1, <1>10 DEF Move
<1>18. Share(o) <= account[o] + begun /\ programme.frozen[o] >= 0
  BY DEF SharesInv
<1>19. Share(o)' \in Int
  <2>1. programme'.percent[o] \in Int
    BY DEF LedgerInv, LedgerRow
  <2>2. PICK z \in Int : z = left * programme'.percent[o]
    BY <1>7, <2>1
  <2>3. Whole \in Int /\ Whole # 0
    BY SMT DEF Whole
  <2> QED
    BY <1>6, <2>2, <2>3, NearestType DEF Share
<1> QED
  BY <1>3, <1>6, <1>9, <1>10, <1>11, <1>12, <1>15, <1>16, <1>17, <1>18, <1>19,
     ShareFacts

LEMMA TakeOutShares ==
    ASSUME LedgerInv, TablesInv, SharesInv, LedgerInv', SmallBalance',
           NEW amount \in [Owners -> {0} \cup Amounts], TakeOut(amount)
    PROVE  SharesInv'
<1>1. amount \in [Owners -> Nat]
  <2>1. \A a \in {0} \cup Amounts : a \in Nat
    BY ProgrammeAssumption
  <2> QED
    BY <2>1
<1>2. PICK total \in Nat : total = SumFunction(amount)
  BY <1>1, MovedFacts
<1>3. PICK left : left = programme.balance - total
  OBVIOUS
<1>4. programme \in LedgerRow /\ account \in [Owners -> Int]
  BY DEF LedgerInv
<1>5. /\ programme'.balance = left /\ programme'.frozen = programme.frozen
      /\ programme'.percent = [o \in Owners |->
            IF left > 0 THEN Nearest(Remaining(o, amount[o]), left) ELSE 0]
  BY <1>2, <1>3, <1>4 DEF TakeOut, LedgerRow
<1>6. left \in Nat /\ left < Whole
  <2>1. total <= programme.balance
    BY <1>2 DEF TakeOut
  <2>2. programme.balance \in Int
    BY <1>4 DEF LedgerRow
  <2>3. left < Whole
    BY <1>5 DEF SmallBalance
  <2> QED
    BY <1>2, <1>3, <2>1, <2>2, <2>3
<1>7. begun' = begun + 1 /\ begun \in Nat
  BY ProgrammeAssumption DEF TakeOut, Begin, TablesInv
<1> SUFFICES ASSUME NEW o \in Owners
             PROVE  /\ programme'.balance * programme'.percent[o] >= 0
                    /\ programme'.frozen[o] >= 0
                    /\ Share(o)' <= account'[o] + begun'
  BY DEF SharesInv
<1>8. PICK a \in Nat : a = amount[o]
  BY <1>1
<1>9. PICK n \in Nat : n = programme.balance * programme.percent[o]
  BY ShareFacts
<1>10. PICK y : y = (IF n - a * Whole < 0 THEN 0 ELSE n - a * Whole)
  OBVIOUS
<1>11. y = Remaining(o, amount[o])
  BY <1>8, <1>9, <1>10 DEF Remaining
<1>12. programme'.percent[o] = (IF left > 0 THEN Nearest(y, left) ELSE 0)
  BY <1>5, <1>11
<1>13. /\ left * programme'.percent[o] >= 0
       /\ \/ Nearest(left * programme'.percent[o], Whole) <= 0
          \/ Nearest(left * programme'.percent[o], Whole) <= Nearest(n, Whole) - a + 1
  BY <1>6, <1>10, <1>12, ShareAfterTakeOut
<1>14. Share(o)' <= 0 \/ Share(o)' <= Share(o) - a + 1
  BY <1>5, <1>9, <1>13 DEF Share
<1>15. account'[o] = account[o] - a /\ (a > 0 => a <= account[o])
  BY <1>8 DEF TakeOut
<1>16. Share(o) <= account[o] + begun /\ programme.frozen[o] >= 0
  BY DEF SharesInv
<1>17. Share(o)' \in Int
  <2>1. programme'.percent[o] \in Int
    BY DEF LedgerInv, LedgerRow
  <2>2. PICK z \in Int : z = left * programme'.percent[o]
    BY <1>6, <2>1
  <2>3. Whole \in Int /\ Whole # 0
    BY SMT DEF Whole
  <2> QED
    BY <1>5, <2>2, <2>3, NearestType DEF Share
<1> QED
  BY <1>5, <1>7, <1>13, <1>14, <1>15, <1>16, <1>17, ShareFacts

LEMMA IssueShares ==
    ASSUME LedgerInv, TablesInv, SharesInv, LedgerInv', SmallBalance',
           NoIssueTakesBack, NEW c \in Calls, Issue(c)
    PROVE  SharesInv'
<1>1. PICK amount \in Nat : amount = call[c].amount
  BY DEF TablesInv, CallTyped, Issue
<1>2. programme \in LedgerRow /\ account \in [Owners -> Int] /\ Estimate \in Nat
  BY ProgrammeAssumption DEF LedgerInv
<1>3. PICK change \in Nat : change = Change(amount)
  <2>1. programme'.issued = (IF amount = 0 THEN Estimate ELSE programme.issued + amount)
    BY <1>1, <1>2 DEF Issue, LedgerRow
  <2>2. programme.issued \in Nat
    BY <1>2 DEF LedgerRow
  <2>3. Change(amount) \in Nat
    BY <1>1, <1>2, <2>1, <2>2 DEF Change, NoIssueTakesBack
  <2> QED
    BY <2>3
<1>4. PICK balance : balance = programme.balance + change
  OBVIOUS
<1>5. /\ programme'.balance = balance /\ programme'.frozen = programme.frozen
      /\ programme'.percent = [o \in Owners |->
            IF balance = 0 THEN 0
            ELSE Nearest((Share(o) + Issued(o, change)) * Whole, balance)]
      /\ account' = [o \in Owners |-> account[o] + Issued(o, change)]
  BY <1>1, <1>2, <1>3, <1>4 DEF Issue, LedgerRow
<1>6. balance \in Int /\ -Whole < balance /\ balance < Whole
  BY <1>5 DEF SmallBalance, LedgerInv, LedgerRow
<1>7. begun' = begun /\ begun \in Nat
  BY ProgrammeAssumption DEF Issue, TablesInv
<1> SUFFICES ASSUME NEW o \in Owners
             PROVE  /\ programme'.balance * programme'.percent[o] >= 0
                    /\ programme'.frozen[o] >= 0
                    /\ Share(o)' <= account'[o] + begun'
  BY DEF SharesInv
<1>8. PICK i \in Nat : i = Issued(o, change)
  BY IssuedIsNat
<1>9. PICK x \in Nat : x = Share(o) + i
  BY ShareFacts
<1>10. PICK n \in Nat : n = x * Whole
  BY SMT DEF Whole
<1>11. programme'.percent[o] = (IF balance = 0 THEN 0 ELSE Nearest(n, balance))
  BY <1>5, <1>8, <1>9, <1>10
<1>12. /\ balance * programme'.percent[o] >= 0
       /\ Nearest(balance * programme'.percent[o], Whole) <= x
  <2>1. CASE balance = 0
    <3>1. balance * programme'.percent[o] = 0
      BY <1>11, <2>1
    <3>2. Nearest(0, Whole) = 0
      BY NearestIs, SMT DEF Whole
    <3> QED
      BY <3>1, <3>2
  <2>2. CASE balance # 0
    <3>1. PICK p : p = Nearest(n, balance)
      OBVIOUS
    <3>2. p \in Int /\ p * balance >= 0
      BY <1>6, <2>2, <3>1, NearestBounds
    <3>3. Nearest(balance * p, Whole) = x
      BY <1>6, <1>10, <2>2, <3>1, RoundTrip
    <3>4. balance * p = p * balance
      BY <1>6, <3>2
    <3> QED
      BY <1>11, <2>2, <3>1, <3>2, <3>3, <3>4
  <2> QED
    BY <2>1, <2>2
<1>13. Share(o)' <= x
  BY <1>5, <1>12 DEF Share
<1>14. account'[o] = account[o] + i
  BY <1>5, <1>8
<1>15. Share(o) <= account[o] + begun /\ programme.frozen[o] >= 0
  BY DEF SharesInv
<1>16. Share(o)' \in Int
  <2>1. programme'.percent[o] \in Int
    BY DEF LedgerInv, LedgerRow
  <2>2. PICK z \in Int : z = balance * programme'.percent[o]
    BY <1>6, <2>1
  <2>3. Whole \in Int /\ Whole # 0
    BY SMT DEF Whole
  <2> QED
    BY <1>5, <2>2, <2>3, NearestType DEF Share
<1> QED
  BY <1>5, <1>7, <1>9, <1>12, <1>13, <1>14, <1>15, <1>16, ShareFacts

LEMMA FreezeShares ==
    ASSUME LedgerInv, TablesInv, SharesInv, NEW c \in Calls,
           FreezeIssued(c) \/ Freeze(c) \/ Unfreeze(c)
    PROVE  SharesInv'
<1>1. /\ programme \in LedgerRow /\ programme.frozen \in [Owners -> Int]
      /\ CallTyped(call[c])
  BY DEF LedgerInv, LedgerRow, TablesInv
<1>2. /\ programme'.balance = programme.balance /\ programme'.percent = programme.percent
      /\ account' = account /\ begun' = begun
  BY <1>1 DEF FreezeIssued, Freeze, Unfreeze, LedgerRow
<1> SUFFICES ASSUME NEW o \in Owners
             PROVE  /\ programme'.balance * programme'.percent[o] >= 0
                    /\ programme'.frozen[o] >= 0
                    /\ Share(o)' <= account'[o] + begun'
  BY DEF SharesInv
<1>3. Share(o)' = Share(o)
  BY <1>2 DEF Share
<1>4. programme'.frozen[o] >= 0
  <2>1. programme.frozen[o] \in Int /\ programme.frozen[o] >= 0 /\ Share(o) \in Nat
    BY ShareFacts DEF SharesInv
  <2>2. CASE FreezeIssued(c)
    <3>1. call[c].amount \in Nat
      BY <1>1, <2>2 DEF CallTyped, FreezeIssued
    <3>2. Issued(o, call[c].amount) \in Nat
      BY <3>1, IssuedIsNat
    <3>3. programme'.frozen[o] = programme.frozen[o]
            + (IF o \in call[c].suspended THEN Issued(o, call[c].amount) ELSE 0)
      BY <1>1, <2>2 DEF FreezeIssued, LedgerRow
    <3> QED
      BY <2>1, <3>2, <3>3
  <2>3. CASE Freeze(c)
    <3>1. call[c].owner \in Owners
      BY <1>1, <2>3 DEF CallTyped, Freeze
    <3>2. programme'.frozen[o] \in {programme.frozen[o], Share(o)}
      BY <1>1, <2>3, <3>1 DEF Freeze, LedgerRow
    <3> QED
      BY <2>1, <3>2
  <2>4. CASE Unfreeze(c)
    <3>1. programme'.frozen[o] \in {programme.frozen[o], 0}
      BY <1>1, <2>4 DEF Unfreeze, LedgerRow
    <3> QED
      BY <2>1, <3>1
  <2> QED
    BY <2>2, <2>3, <2>4
<1> QED
  BY <1>2, <1>3, <1>4 DEF SharesInv

LEMMA NextShares ==
    /\ IInv /\ LedgerInv /\ LedgerInv' /\ TablesInv /\ SharesInv /\ SmallBalance'
    /\ [Next]_programmeVars /\ [NoIssueTakesBack]_programmeVars
    => SharesInv'
<1> SUFFICES ASSUME IInv, LedgerInv, LedgerInv', TablesInv, SharesInv, SmallBalance',
                    [Next]_programmeVars, [NoIssueTakesBack]_programmeVars
             PROVE  SharesInv'
  OBVIOUS
<1>1. NoIssueTakesBack
  BY DEF NoIssueTakesBack, programmeVars, LedgerInv, LedgerRow
<1>2. CASE \E c \in Calls : Move(c)
  BY <1>2, MoveShares
<1>3. CASE \E c \in Calls : Issue(c)
  BY <1>1, <1>3, IssueShares
<1>4. CASE \E c \in Calls : FreezeIssued(c) \/ Freeze(c) \/ Unfreeze(c)
  BY <1>4, FreezeShares
<1>5. CASE \E amount \in [Owners -> {0} \cup Amounts] : TakeOut(amount)
  BY <1>5, TakeOutShares
<1>6. CASE \/ \E r \in Requests, o \in Owners, to \in Owners \cup {Government},
                a \in Amounts :
              Ask(r, o, to, a) \/ \E c \in Calls : AskAtOnce(c, r, o, to, a)
           \/ \E r \in Requests : \E outcome \in {"CANCELLED", "REJECTED"} :
                Withdraw(r, outcome)
           \/ \E r \in Requests, o \in Owners : RefuseApproval(r, o)
  BY <1>6, SharesStay DEF Ask, AskAtOnce, Withdraw, RefuseApproval, Begin
<1>7. CASE \E c \in Calls :
            \/ \E r \in Requests : StartApproval(c, r) \/ Sweep(c, r)
            \/ Claim(c) \/ MoveThrows(c) \/ Settle(c) \/ List(c)
            \/ \E a \in {0} \cup Amounts : StartIssue(c, a)
            \/ FindSuspended(c)
            \/ \E o \in Owners : ChangeState(c, o)
            \/ CancelPending(c) \/ Die(c)
  BY <1>7, SharesStay DEF StartApproval, Sweep, Claim, MoveThrows, Settle, List,
     StartIssue, FindSuspended, ChangeState, CancelPending, Die, Begin
<1>8. CASE UNCHANGED programmeVars
  BY <1>8, SharesStay DEF programmeVars
<1> QED
  BY <1>2, <1>3, <1>4, <1>5, <1>6, <1>7, <1>8 DEF Next

LEMMA InitShares == Init => SharesInv
<1> SUFFICES ASSUME Init, NEW o \in Owners
             PROVE  /\ programme.balance * programme.percent[o] >= 0
                    /\ programme.frozen[o] >= 0
                    /\ Share(o) <= account[o] + begun
  BY DEF SharesInv
<1>1. PICK first \in Nat :
        /\ programme = [issued |-> first, balance |-> first,
                        percent |-> Proponent,
                        frozen |-> [x \in Owners |-> 0],
                        moved |-> [x \in Owners |-> 0]]
        /\ account = [x \in Owners |-> Issued(x, first)]
        /\ begun = 0
  BY ProgrammeAssumption DEF Init
<1>2. Issued(o, first) \in Nat /\ first * Proponent[o] \in Nat
  BY <1>1, IssuedIsNat
<1>3. Share(o) = Issued(o, first)
  BY <1>1 DEF Share, Issued
<1>4. account[o] = Issued(o, first) /\ programme.frozen[o] = 0
  BY <1>1
<1>5. programme.balance * programme.percent[o] = first * Proponent[o]
  BY <1>1
<1> QED
  BY <1>1, <1>2, <1>3, <1>4, <1>5

\* While less than a million credits are in the balance and no issue takes
\* credits back, the account of every owner holds its share, up to a hundredth
\* for each call, whatever the percentages are and however calls overlap.
THEOREM AccountsCoverShares ==
    Spec /\ []SmallBalance /\ [][NoIssueTakesBack]_programmeVars => []AccountCoversShare
<1>1. SharesInv => AccountCoversShare
  BY DEF SharesInv, AccountCoversShare
<1> QED
  BY <1>1, InitInv, NextInv, InitLedger, NextLedger, NextTables, InitShares, NextShares,
     PTL DEF Spec
=============================================================================
