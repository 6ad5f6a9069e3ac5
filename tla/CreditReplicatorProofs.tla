----------------------- MODULE CreditReplicatorProofs -----------------------
(***************************************************************************)
(* Proofs about CreditReplicator, for any number of blocks, requests,      *)
(* ledger transactions, events and interruptions.                          *)
(*                                                                         *)
(* IInv is inductive whatever ledger transactions do.  That an accepted    *)
(* retirement finds its request needs the history of the request: its id   *)
(* is drawn once, so one event makes it and every decision has a larger    *)
(* hash, and the batch never holds a decision without the request unless   *)
(* the cursor is past it (RequestsOK, StreamOK).  That duplicates are paid *)
(* by interruptions needs more than the sum in the property: the event     *)
(* that is being applied again counts before its second copy is written    *)
(* (Weight), and each interruption adds one.                               *)
(*                                                                         *)
(* SerialInv is added when no two ledger transactions overlap: hashes then *)
(* become visible in the order of txTime, and the replica shows exactly    *)
(* the events up to the cursor, or one more between applying and saving    *)
(* and after an interruption there.  The safety part of ReplicaPromise     *)
(* follows, a step of one module being a step or a stutter of the other.   *)
(***************************************************************************)
EXTENDS CreditReplicator, SumFacts

Kinds == {"ISSUE", "TRANSFER", "SPLIT", "RETIRE_REQ", "ACCEPT", "DECLINE"}
Deciding == {"ACCEPT", "DECLINE"}
Event == [block : Blocks, kind : Kinds, req : Requests \cup {"none"}, time : Nat]
Statuses == {"NONE", "PENDING", "COMPLETED", "DECLINED"}

\* Requests and decisions name a request, other events none.
RowOK(e) ==
    e \in Event /\ (e.req # "none" <=> e.kind \in Deciding \cup {"RETIRE_REQ"})

NewOK(new) ==
    /\ new \in Seq(Event) /\ Len(new) \in 1 .. 2
    /\ \A i \in 1 .. Len(new) :
        /\ RowOK(new[i])
        /\ new[i].kind \in Deciding => requests[new[i].req] # "NONE"
        /\ new[i].kind = "RETIRE_REQ" => Len(new) = 1

TxOK(t) ==
    /\ t.stage \in {"none", "computed", "inserted"}
    /\ t.stage = "none" => t = NoTx
    /\ t.stage = "computed" => NewOK(t.new)
    /\ t.stage = "inserted" =>
        /\ t.hashes \subseteq Hashes
        /\ t.hashes # {}

LedgerOK ==
    /\ events \in Seq(Event) /\ Len(events) <= MaxEvents
    /\ \A h \in Hashes : RowOK(events[h])
    /\ visible \subseteq Hashes
    /\ clock \in Nat
    /\ tx = [w \in Writers |-> tx[w]]
    /\ \A w \in Writers : TxOK(tx[w])

ReplicaOK ==
    /\ rows \in [Blocks -> visible \cup {0}]
    /\ requests \in [Requests -> Statuses]
    /\ copies \in [1 .. MaxEvents -> Nat]
    /\ \A h \in 1 .. MaxEvents : copies[h] > 0 => h \in visible
    /\ cursor \in visible \cup {0}
    /\ batch \subseteq visible /\ \A h \in batch : cursor < h
    /\ stage \in {"poll", "apply", "save"}
    /\ stage = "poll" <=> batch = {}
    /\ interrupts \in 0 .. MaxInterrupts

\* The event of a request, and of a decision on it.
RequestAt(h, r) == h \in Hashes /\ events[h].kind = "RETIRE_REQ" /\ events[h].req = r
DecisionAt(h, r) == h \in Hashes /\ events[h].kind \in Deciding /\ events[h].req = r

\* An id that a call under way has drawn for a request.
Drawn(w, r) ==
    /\ tx[w].stage = "computed"
    /\ \E i \in 1 .. Len(tx[w].new) :
        tx[w].new[i].kind = "RETIRE_REQ" /\ tx[w].new[i].req = r

Names(w, r) ==
    /\ tx[w].stage = "computed"
    /\ \E i \in 1 .. Len(tx[w].new) : tx[w].new[i].req = r

RequestsSeen ==
    \A r \in Requests : requests[r] # "NONE" => \E h \in visible : RequestAt(h, r)

RequestsOK ==
    /\ \A r \in Requests, h \in Hashes : DecisionAt(h, r) => requests[r] # "NONE"
    /\ \A r \in Requests, h, i \in Hashes : RequestAt(h, r) /\ RequestAt(i, r) => h = i
    /\ \A r \in Requests, h, i \in Hashes : RequestAt(h, r) /\ DecisionAt(i, r) => h < i
    /\ \A r \in Requests, v \in Writers : Drawn(v, r) =>
        /\ \A h \in Hashes : events[h].req # r
        /\ \A w \in Writers : w # v => ~Names(w, r)

StreamOK ==
    /\ \A r \in Requests, h \in Hashes, i \in batch :
        RequestAt(h, r) /\ DecisionAt(i, r) => h <= cursor \/ h \in batch
    /\ \A r \in Requests, h \in Hashes :
        RequestAt(h, r) /\ requests[r] \in {"COMPLETED", "DECLINED"} => h <= cursor

DataInv == LedgerOK /\ ReplicaOK /\ RequestsSeen /\ RequestsOK /\ StreamOK
-----------------------------------------------------------------------------
LEMMA FirstIsLeast ==
    ASSUME NEW S \in SUBSET Nat, S # {}
    PROVE  First(S) \in S /\ \A k \in S : First(S) <= k
  BY LeastNat DEF First

\* What a call adds: the rows it can write, by the state it read.
LEMMA CallRowsShape ==
    ASSUME LedgerOK, ReplicaOK, NEW new \in CallRows
    PROVE  /\ NewOK(new)
           /\ \A i \in 1 .. Len(new) : new[i].time = clock + 1
           /\ \A i \in 1 .. Len(new) : new[i].kind = "RETIRE_REQ" => ~Taken(new[i].req)
<1>1. \A b \in Blocks, k \in Kinds, r \in Requests \cup {"none"} :
        /\ Ev(b, k, r) \in Event
        /\ Ev(b, k, r).kind = k /\ Ev(b, k, r).req = r /\ Ev(b, k, r).time = clock + 1
  BY DEF Ev, Event, LedgerOK
<1>2. \A k \in {"ISSUE", "TRANSFER", "SPLIT"}, b \in Blocks : RowOK(Ev(b, k, "none"))
  BY <1>1 DEF RowOK, Kinds, Deciding
<1>3. \A k \in {"RETIRE_REQ", "ACCEPT", "DECLINE"}, b \in Blocks, r \in Requests :
        RowOK(Ev(b, k, r))
  BY <1>1, ReplicatorAssumption DEF RowOK, Kinds, Deciding
<1>4. \A r \in Decidable : r \in Requests /\ requests[r] # "NONE" /\ BlockOf(r) \in Blocks
  <2> SUFFICES ASSUME NEW r \in Decidable
               PROVE  r \in Requests /\ requests[r] # "NONE" /\ BlockOf(r) \in Blocks
    OBVIOUS
  <2>1. r \in Requests /\ requests[r] = "PENDING" /\ Pending(r)
    BY DEF Decidable
  <2>2. About(r) # {}
    BY <2>1 DEF Pending
  <2>3. About(r) \subseteq Hashes
    BY DEF About, LedgerOK
  <2>4. PICK h \in About(r) : h = CHOOSE x \in About(r) : TRUE
    BY <2>2
  <2>5. events[h] \in Event
    BY <2>3, <2>4 DEF LedgerOK, Hashes
  <2> QED
    BY <2>1, <2>4, <2>5 DEF BlockOf, Event
<1>5. CASE new \in IssueRows
  <2>1. PICK b \in Blocks : new = <<Ev(b, "ISSUE", "none")>>
    BY <1>5 DEF IssueRows
  <2>2. Len(new) = 1 /\ new[1] = Ev(b, "ISSUE", "none") /\ new \in Seq(Event)
    BY <2>1, <1>1 DEF Kinds
  <2> QED
    BY <2>2, <1>1, <1>2 DEF NewOK, Kinds, Deciding
<1>6. CASE new \in TransferRows
  <2>1. CASE \E b \in Blocks : new = <<Ev(b, "TRANSFER", "none")>>
    <3>1. PICK b \in Blocks : new = <<Ev(b, "TRANSFER", "none")>>
      BY <2>1
    <3>2. Len(new) = 1 /\ new[1] = Ev(b, "TRANSFER", "none") /\ new \in Seq(Event)
      BY <3>1, <1>1 DEF Kinds
    <3> QED
      BY <3>2, <1>1, <1>2 DEF NewOK, Kinds, Deciding
  <2>2. CASE \E b, n \in Blocks : new = <<Ev(n, "TRANSFER", "none"), Ev(b, "SPLIT", "none")>>
    <3>1. PICK b, n \in Blocks : new = <<Ev(n, "TRANSFER", "none"), Ev(b, "SPLIT", "none")>>
      BY <2>2
    <3>2. /\ Len(new) = 2 /\ new[1] = Ev(n, "TRANSFER", "none")
          /\ new[2] = Ev(b, "SPLIT", "none") /\ new \in Seq(Event)
      BY <3>1, <1>1 DEF Kinds
    <3> QED
      BY <3>2, <1>1, <1>2 DEF NewOK, Kinds, Deciding
  <2> QED
    BY <1>6, <2>1, <2>2 DEF TransferRows
<1>7. CASE new \in RequestRows
  <2>1. PICK b \in Blocks, r \in Requests : new = <<Ev(b, "RETIRE_REQ", r)>> /\ ~Taken(r)
    BY <1>7 DEF RequestRows
  <2>2. Len(new) = 1 /\ new[1] = Ev(b, "RETIRE_REQ", r) /\ new \in Seq(Event)
    BY <2>1, <1>1 DEF Kinds
  <2> QED
    BY <2>1, <2>2, <1>1, <1>3 DEF NewOK, Kinds, Deciding
<1>8. CASE new \in DecisionRows
  <2>1. PICK r \in Decidable :
            \/ \E k \in Deciding : new = <<Ev(BlockOf(r), k, r)>>
            \/ \E n \in Blocks : new = <<Ev(n, "ACCEPT", r), Ev(BlockOf(r), "SPLIT", "none")>>
    BY <1>8 DEF DecisionRows, Deciding
  <2>2. CASE \E k \in Deciding : new = <<Ev(BlockOf(r), k, r)>>
    <3>1. PICK k \in Deciding : new = <<Ev(BlockOf(r), k, r)>>
      BY <2>2
    <3>2. Len(new) = 1 /\ new[1] = Ev(BlockOf(r), k, r) /\ new \in Seq(Event)
      BY <3>1, <1>1, <1>4 DEF Kinds, Deciding
    <3> QED
      BY <3>2, <1>1, <1>3, <1>4 DEF NewOK, Kinds, Deciding
  <2>3. CASE \E n \in Blocks : new = <<Ev(n, "ACCEPT", r), Ev(BlockOf(r), "SPLIT", "none")>>
    <3>1. PICK n \in Blocks : new = <<Ev(n, "ACCEPT", r), Ev(BlockOf(r), "SPLIT", "none")>>
      BY <2>3
    <3>2. /\ Len(new) = 2 /\ new[1] = Ev(n, "ACCEPT", r)
          /\ new[2] = Ev(BlockOf(r), "SPLIT", "none") /\ new \in Seq(Event)
      BY <3>1, <1>1, <1>4 DEF Kinds
    <3> QED
      BY <3>2, <1>1, <1>2, <1>3, <1>4 DEF NewOK, Kinds, Deciding
  <2> QED
    BY <2>1, <2>2, <2>3
<1> QED
  BY <1>5, <1>6, <1>7, <1>8 DEF CallRows
LEMMA DataInit == Init => DataInv
<1> SUFFICES ASSUME Init PROVE DataInv
  OBVIOUS
<1>1. /\ events = <<>> /\ visible = {} /\ clock = 0 /\ cursor = 0 /\ batch = {}
      /\ stage = "poll" /\ interrupts = 0 /\ Len(events) = 0 /\ Hashes = {}
  BY DEF Init, Hashes
<1>2. \A w \in Writers : tx[w] = NoTx /\ tx[w].stage = "none"
  BY DEF Init, NoTx
<1>3. \A r \in Requests : requests[r] = "NONE"
  BY DEF Init
<1>4. LedgerOK
  BY <1>1, <1>2, ReplicatorAssumption DEF Init, LedgerOK, TxOK
<1>5. ReplicaOK
  BY <1>1, ReplicatorAssumption DEF Init, ReplicaOK, Statuses
<1>6. RequestsSeen /\ RequestsOK /\ StreamOK
  BY <1>1, <1>2, <1>3 DEF RequestsSeen, RequestsOK, StreamOK, Drawn
<1> QED
  BY <1>4, <1>5, <1>6 DEF DataInv

LEMMA DataCompute ==
    ASSUME DataInv, NEW w \in Writers, Compute(w)
    PROVE  DataInv'
<1>1. PICK new \in CallRows :
        tx[w] = NoTx /\ tx' = [tx EXCEPT ![w] = [stage |-> "computed", new |-> new]]
  BY DEF Compute
<1>2. /\ clock' = clock + 1
      /\ UNCHANGED <<events, visible, rows, requests, copies, cursor, batch, stage, interrupts>>
  BY DEF Compute, replicaVars
<1>3. /\ NewOK(new)
      /\ \A i \in 1 .. Len(new) : new[i].kind = "RETIRE_REQ" => ~Taken(new[i].req)
  BY <1>1, CallRowsShape DEF DataInv
<1>4. /\ tx' = [v \in Writers |-> tx'[v]]
      /\ tx'[w].stage = "computed" /\ tx'[w].new = new
      /\ \A v \in Writers \ {w} : tx'[v] = tx[v]
  BY <1>1 DEF DataInv, LedgerOK
<1>5. LedgerOK'
  <2>1. \A v \in Writers : TxOK(tx[v])'
    <3> SUFFICES ASSUME NEW v \in Writers PROVE TxOK(tx[v])'
      OBVIOUS
    <3>1. CASE v = w
      BY <1>2, <1>3, <1>4, <3>1 DEF TxOK, NewOK
    <3>2. CASE v # w
      BY <1>2, <1>4, <3>2 DEF TxOK, NewOK, DataInv, LedgerOK, Hashes
    <3> QED
      BY <3>1, <3>2
  <2>2. clock' \in Nat
    BY <1>2 DEF DataInv, LedgerOK
  <2> QED
    BY <1>2, <1>4, <2>1, <2>2 DEF DataInv, LedgerOK, Hashes
<1>6. ReplicaOK' /\ RequestsSeen' /\ StreamOK'
  BY <1>2 DEF DataInv, ReplicaOK, RequestsSeen, StreamOK, RequestAt, DecisionAt, Hashes
<1>7. \A v \in Writers, r \in Requests : Drawn(v, r)' =>
        /\ \A h \in Hashes : events[h].req # r
        /\ \A u \in Writers : u # v => ~Names(u, r)'
  <2> SUFFICES ASSUME NEW v \in Writers, NEW r \in Requests, Drawn(v, r)'
               PROVE  /\ \A h \in Hashes : events[h].req # r
                      /\ \A u \in Writers : u # v => ~Names(u, r)'
    OBVIOUS
  <2>1. \A u \in Writers \ {w} :
            (Names(u, r)' <=> Names(u, r)) /\ (Drawn(u, r)' <=> Drawn(u, r))
    BY <1>4 DEF Names, Drawn
  <2>2. CASE v = w
    <3>1. ~Taken(r)
      BY <1>3, <1>4, <2>2 DEF Drawn
    <3>2. \A u \in Writers : Names(u, r) => Taken(r)
      <4> SUFFICES ASSUME NEW u \in Writers, Names(u, r) PROVE Taken(r)
        OBVIOUS
      <4>1. tx[u].stage = "computed" /\ NewOK(tx[u].new)
        BY DEF DataInv, LedgerOK, TxOK, Names
      <4>2. DOMAIN tx[u].new = 1 .. Len(tx[u].new)
        BY <4>1 DEF NewOK
      <4> QED
        BY <4>1, <4>2 DEF Names, Taken
    <3> QED
      BY <2>1, <2>2, <3>1, <3>2 DEF Taken
  <2>3. CASE v # w
    <3>1. Drawn(v, r)
      BY <2>1, <2>3
    <3>2. /\ \A h \in Hashes : events[h].req # r
          /\ \A u \in Writers : u # v => ~Names(u, r)
      BY <3>1 DEF DataInv, RequestsOK
    <3>3. ~Names(w, r)'
      <4> SUFFICES ASSUME NEW i \in 1 .. Len(new), new[i].req = r PROVE FALSE
        BY <1>4 DEF Names
      <4>1. RowOK(new[i]) /\ r # "none"
        BY <1>3, ReplicatorAssumption DEF NewOK
      <4>2. CASE new[i].kind = "RETIRE_REQ"
        <5>1. tx[v].stage = "computed" /\ NewOK(tx[v].new)
          BY <3>1 DEF DataInv, LedgerOK, TxOK, Drawn
        <5>2. DOMAIN tx[v].new = 1 .. Len(tx[v].new)
          BY <5>1 DEF NewOK
        <5>3. Taken(r)
          BY <3>1, <5>1, <5>2 DEF Taken, Drawn
        <5> QED
          BY <1>3, <4>2, <5>3
      <4>3. CASE new[i].kind \in Deciding
        <5>1. requests[r] # "NONE"
          BY <1>3, <4>3 DEF NewOK
        <5>2. \E h \in Hashes : events[h].req = r
          BY <5>1 DEF DataInv, RequestsSeen, RequestAt
        <5> QED
          BY <3>2, <5>2
      <4> QED
        BY <4>1, <4>2, <4>3 DEF RowOK
    <3> QED
      BY <2>1, <3>2, <3>3
  <2> QED
    BY <2>2, <2>3
<1>8. RequestsOK'
  BY <1>2, <1>7 DEF DataInv, RequestsOK, RequestAt, DecisionAt, Hashes
<1> QED
  BY <1>5, <1>6, <1>8 DEF DataInv

LEMMA DataInsert ==
    ASSUME DataInv, NEW w \in Writers, Insert(w)
    PROVE  DataInv'
<1> DEFINE new == tx[w].new
           n == Len(events)
<1>1. /\ tx[w].stage = "computed"
      /\ Len(events) + Len(new) <= MaxEvents
      /\ events' = events \o new
      /\ tx' = [tx EXCEPT ![w] = [stage |-> "inserted", hashes |-> n + 1 .. n + Len(new)]]
      /\ UNCHANGED <<visible, clock, rows, requests, copies, cursor, batch, stage, interrupts>>
  BY DEF Insert, replicaVars
<1>2. NewOK(new)
  BY <1>1 DEF DataInv, LedgerOK, TxOK
<1>3. events \in Seq(Event) /\ n \in Nat /\ Len(new) \in 1 .. 2
  BY <1>2 DEF DataInv, LedgerOK, NewOK
<1> HIDE DEF new
<1>4. /\ events' \in Seq(Event) /\ Len(events') = n + Len(new)
      /\ Hashes = 1 .. n /\ Hashes' = 1 .. n + Len(new)
      /\ Hashes \subseteq Hashes'
      /\ \A h \in Hashes : events'[h] = events[h]
      /\ \A h \in Hashes' \ Hashes :
            h > n /\ \E i \in 1 .. Len(new) : h = n + i /\ events'[h] = new[i]
  <2>1. /\ events' \in Seq(Event) /\ Len(events') = n + Len(new)
        /\ Hashes = 1 .. n /\ Hashes' = 1 .. n + Len(new)
        /\ \A h \in Hashes : events'[h] = events[h]
    BY <1>1, <1>2, <1>3 DEF NewOK, Hashes
  <2>2. \A h \in n + 1 .. n + Len(new) : h - n \in 1 .. Len(new) /\ events'[h] = new[h - n]
    BY <1>1, <1>2, <1>3 DEF NewOK
  <2> HIDE DEF n
  <2>3. \A h \in Hashes' \ Hashes : h \in n + 1 .. n + Len(new)
    BY <1>3, <2>1
  <2>4. \A h \in n + 1 .. n + Len(new) : h > n /\ h = n + (h - n)
    BY <1>3
  <2>5. Hashes \subseteq Hashes'
    BY <1>3, <2>1
  <2> QED
    BY <2>1, <2>2, <2>3, <2>4, <2>5
<1>5. /\ tx' = [v \in Writers |-> tx'[v]]
      /\ tx'[w].stage = "inserted" /\ tx'[w].hashes = n + 1 .. n + Len(new)
      /\ \A v \in Writers \ {w} : tx'[v] = tx[v]
  BY <1>1 DEF DataInv, LedgerOK
<1> HIDE DEF n
<1>6. \A r \in Requests : \A h \in Hashes' \ Hashes :
        /\ RequestAt(h, r)' => Drawn(w, r) /\ Len(new) = 1
        /\ events'[h].req = r => Names(w, r)
        /\ DecisionAt(h, r)' => requests[r] # "NONE"
  <2> SUFFICES ASSUME NEW r \in Requests, NEW h \in Hashes' \ Hashes
               PROVE  /\ RequestAt(h, r)' => Drawn(w, r) /\ Len(new) = 1
                      /\ events'[h].req = r => Names(w, r)
                      /\ DecisionAt(h, r)' => requests[r] # "NONE"
    OBVIOUS
  <2>1. PICK i \in 1 .. Len(new) : events'[h] = new[i]
    BY <1>4
  <2> QED
    BY <1>1, <1>2, <2>1 DEF RequestAt, DecisionAt, Drawn, Names, NewOK, new
<1>7. \A r \in Requests : \A h \in Hashes :
        (RequestAt(h, r)' <=> RequestAt(h, r)) /\ (DecisionAt(h, r)' <=> DecisionAt(h, r))
  BY <1>4 DEF RequestAt, DecisionAt
<1>8. LedgerOK'
  <2>1. \A v \in Writers : TxOK(tx[v])'
    <3> SUFFICES ASSUME NEW v \in Writers PROVE TxOK(tx[v])'
      OBVIOUS
    <3>1. CASE v = w
      <4>1. Hashes' = 1 .. n + Len(new)
        BY <1>4
      <4>2. n + 1 .. n + Len(new) \subseteq 1 .. n + Len(new)
        BY <1>3
      <4>3. n + 1 \in n + 1 .. n + Len(new)
        BY <1>3
      <4> QED
        BY <1>5, <3>1, <4>1, <4>2, <4>3 DEF TxOK
    <3>2. CASE v # w
      BY <1>1, <1>4, <1>5, <3>2 DEF TxOK, NewOK, DataInv, LedgerOK
    <3> QED
      BY <3>1, <3>2
  <2>2. \A h \in Hashes' : RowOK(events'[h])
    BY <1>2, <1>4 DEF DataInv, LedgerOK, NewOK
  <2>3. visible' \subseteq Hashes' /\ clock' \in Nat /\ Len(events') <= MaxEvents
    BY <1>1, <1>4 DEF DataInv, LedgerOK, n
  <2> QED
    BY <1>4, <1>5, <2>1, <2>2, <2>3 DEF LedgerOK
<1>9. ReplicaOK' /\ RequestsSeen'
  BY <1>1, <1>4, <1>7 DEF DataInv, ReplicaOK, RequestsSeen, RequestAt
<1>10. \A r \in Requests : Drawn(w, r) => \A h \in Hashes : events[h].req # r
  BY DEF DataInv, RequestsOK
<1>11. RequestsOK'
  <2>1. \A r \in Requests, h \in Hashes' : DecisionAt(h, r)' => requests'[r] # "NONE"
    BY <1>1, <1>6, <1>7 DEF DataInv, RequestsOK
  <2>2. ASSUME NEW r \in Requests, NEW h \in Hashes', NEW i \in Hashes',
               RequestAt(h, r)', RequestAt(i, r)'
        PROVE  h = i
    <3>1. CASE h \in Hashes /\ i \in Hashes
      BY <1>7, <2>2, <3>1 DEF DataInv, RequestsOK
    <3>2. CASE h \notin Hashes /\ i \notin Hashes
      BY <1>3, <1>4, <1>6, <2>2, <3>2
    <3>3. CASE h \in Hashes /\ i \notin Hashes
      BY <1>6, <1>7, <1>10, <2>2, <3>3 DEF RequestAt
    <3>4. CASE h \notin Hashes /\ i \in Hashes
      BY <1>6, <1>7, <1>10, <2>2, <3>4 DEF RequestAt
    <3> QED
      BY <3>1, <3>2, <3>3, <3>4
  <2>3. ASSUME NEW r \in Requests, NEW h \in Hashes', NEW i \in Hashes',
               RequestAt(h, r)', DecisionAt(i, r)'
        PROVE  h < i
    <3>1. CASE h \in Hashes /\ i \in Hashes
      BY <1>7, <2>3, <3>1 DEF DataInv, RequestsOK
    <3>2. CASE h \in Hashes /\ i \notin Hashes
      BY <1>3, <1>4, <3>2
    <3>3. CASE h \notin Hashes /\ i \in Hashes
      BY <1>6, <1>7, <1>10, <2>3, <3>3 DEF DecisionAt
    <3>4. CASE h \notin Hashes /\ i \notin Hashes
      <4>1. h = i
        BY <1>3, <1>4, <1>6, <2>3, <3>4
      <4> QED
        BY <2>3, <4>1 DEF RequestAt, DecisionAt, Deciding
    <3> QED
      BY <3>1, <3>2, <3>3, <3>4
  <2>4. ASSUME NEW r \in Requests, NEW v \in Writers, Drawn(v, r)'
        PROVE  /\ \A h \in Hashes' : events'[h].req # r
               /\ \A u \in Writers : u # v => ~Names(u, r)'
    <3>1. v # w /\ Drawn(v, r)
      BY <1>5, <2>4 DEF Drawn
    <3>2. \A u \in Writers : Names(u, r)' => Names(u, r)
      BY <1>5 DEF Names
    <3>3. /\ \A h \in Hashes : events[h].req # r
          /\ \A u \in Writers : u # v => ~Names(u, r)
      BY <3>1 DEF DataInv, RequestsOK
    <3> QED
      BY <1>4, <1>6, <3>1, <3>2, <3>3
  <2> QED
    BY <2>1, <2>2, <2>3, <2>4 DEF RequestsOK
<1>12. StreamOK'
  <2>1. ASSUME NEW r \in Requests, NEW h \in Hashes', NEW i \in batch',
               RequestAt(h, r)', DecisionAt(i, r)'
        PROVE  h <= cursor' \/ h \in batch'
    <3>1. i \in batch /\ i \in Hashes
      BY <1>1, <2>1 DEF DataInv, ReplicaOK, LedgerOK
    <3>2. DecisionAt(i, r)
      BY <1>7, <2>1, <3>1
    <3>3. h \in Hashes
      BY <1>6, <1>10, <2>1, <3>1, <3>2 DEF DecisionAt
    <3> QED
      BY <1>1, <1>7, <2>1, <3>1, <3>2, <3>3 DEF DataInv, StreamOK
  <2>2. ASSUME NEW r \in Requests, NEW h \in Hashes', RequestAt(h, r)',
               requests'[r] \in {"COMPLETED", "DECLINED"}
        PROVE  h <= cursor'
    <3>1. \E i \in Hashes : events[i].req = r
      BY <1>1, <2>2 DEF DataInv, RequestsSeen, RequestAt
    <3>2. h \in Hashes
      BY <1>6, <1>10, <2>2, <3>1
    <3> QED
      BY <1>1, <1>7, <2>2, <3>2 DEF DataInv, StreamOK
  <2> QED
    BY <2>1, <2>2 DEF StreamOK
<1> QED
  BY <1>8, <1>9, <1>11, <1>12 DEF DataInv
LEMMA DataCommit ==
    ASSUME DataInv, NEW w \in Writers, Commit(w)
    PROVE  DataInv'
<1>1. /\ tx[w].stage = "inserted"
      /\ visible' = visible \cup tx[w].hashes
      /\ tx' = [tx EXCEPT ![w] = NoTx]
      /\ UNCHANGED <<events, clock, rows, requests, copies, cursor, batch, stage, interrupts>>
  BY DEF Commit, replicaVars
<1>2. Hashes' = Hashes /\ visible \subseteq visible' /\ visible' \subseteq Hashes
  BY <1>1 DEF DataInv, LedgerOK, TxOK, Hashes
<1>3. /\ tx' = [v \in Writers |-> tx'[v]]
      /\ tx'[w] = NoTx /\ NoTx.stage = "none"
      /\ \A v \in Writers \ {w} : tx'[v] = tx[v]
  BY <1>1 DEF DataInv, LedgerOK, NoTx
<1>4. LedgerOK'
  <2>1. \A v \in Writers : TxOK(tx[v])'
    BY <1>1, <1>2, <1>3 DEF TxOK, NewOK, DataInv, LedgerOK, NoTx
  <2> QED
    BY <1>1, <1>2, <1>3, <2>1 DEF DataInv, LedgerOK
<1>5. ReplicaOK' /\ RequestsSeen' /\ StreamOK'
  BY <1>1, <1>2 DEF DataInv, ReplicaOK, RequestsSeen, StreamOK, RequestAt, DecisionAt
<1>6. \A v \in Writers, r \in Requests :
        (Drawn(v, r)' => Drawn(v, r)) /\ (Names(v, r)' => Names(v, r))
  BY <1>3 DEF Drawn, Names
<1>7. RequestsOK'
  BY <1>1, <1>2, <1>6 DEF DataInv, RequestsOK, RequestAt, DecisionAt
<1> QED
  BY <1>4, <1>5, <1>7 DEF DataInv

LEMMA DataRollback ==
    ASSUME DataInv, NEW w \in Writers, Rollback(w)
    PROVE  DataInv'
<1>1. /\ tx' = [tx EXCEPT ![w] = NoTx]
      /\ UNCHANGED <<events, visible, clock, rows, requests, copies, cursor, batch, stage,
                     interrupts>>
  BY DEF Rollback, replicaVars
<1>2. Hashes' = Hashes
  BY <1>1 DEF Hashes
<1>3. /\ tx' = [v \in Writers |-> tx'[v]]
      /\ tx'[w] = NoTx /\ NoTx.stage = "none"
      /\ \A v \in Writers \ {w} : tx'[v] = tx[v]
  BY <1>1 DEF DataInv, LedgerOK, NoTx
<1>4. LedgerOK'
  <2>1. \A v \in Writers : TxOK(tx[v])'
    BY <1>1, <1>2, <1>3 DEF TxOK, NewOK, DataInv, LedgerOK, NoTx
  <2> QED
    BY <1>1, <1>2, <1>3, <2>1 DEF DataInv, LedgerOK
<1>5. ReplicaOK' /\ RequestsSeen' /\ StreamOK'
  BY <1>1, <1>2 DEF DataInv, ReplicaOK, RequestsSeen, StreamOK, RequestAt, DecisionAt
<1>6. \A v \in Writers, r \in Requests :
        (Drawn(v, r)' => Drawn(v, r)) /\ (Names(v, r)' => Names(v, r))
  BY <1>3 DEF Drawn, Names
<1>7. RequestsOK'
  BY <1>1, <1>2, <1>6 DEF DataInv, RequestsOK, RequestAt, DecisionAt
<1> QED
  BY <1>4, <1>5, <1>7 DEF DataInv

\* The replicator leaves the ledger alone and forgets no request.
LEMMA LedgerStays ==
    ASSUME DataInv, UNCHANGED ledgerVars,
           \A r \in Requests : requests[r] # "NONE" => requests'[r] # "NONE"
    PROVE  /\ LedgerOK' /\ RequestsOK' /\ Hashes' = Hashes
           /\ events' = events /\ visible' = visible
           /\ \A h \in Hashes, r \in Requests :
                (RequestAt(h, r)' <=> RequestAt(h, r)) /\ (DecisionAt(h, r)' <=> DecisionAt(h, r))
<1>1. UNCHANGED <<events, visible, tx, clock>>
  BY DEF ledgerVars
<1>2. Hashes' = Hashes
  BY <1>1 DEF Hashes
<1>3. \A h \in Hashes, r \in Requests :
        (RequestAt(h, r)' <=> RequestAt(h, r)) /\ (DecisionAt(h, r)' <=> DecisionAt(h, r))
  BY <1>1, <1>2 DEF RequestAt, DecisionAt
<1>4. \A v \in Writers : TxOK(tx[v])'
  <2> SUFFICES ASSUME NEW v \in Writers PROVE TxOK(tx[v])'
    OBVIOUS
  <2>1. TxOK(tx[v]) /\ tx'[v] = tx[v]
    BY <1>1 DEF DataInv, LedgerOK
  <2>2. tx[v].stage = "computed" => NewOK(tx[v].new)'
    <3> SUFFICES ASSUME tx[v].stage = "computed" PROVE NewOK(tx[v].new)'
      OBVIOUS
    <3>1. NewOK(tx[v].new)
      BY <2>1 DEF TxOK
    <3>2. \A i \in 1 .. Len(tx[v].new) :
            tx[v].new[i].kind \in Deciding => tx[v].new[i].req \in Requests
      BY <3>1 DEF NewOK, RowOK, Event, Deciding
    <3> QED
      BY <2>1, <3>1, <3>2 DEF NewOK
  <2> QED
    BY <1>2, <2>1, <2>2 DEF TxOK
<1>5. LedgerOK'
  BY <1>1, <1>2, <1>4 DEF DataInv, LedgerOK
<1>6. RequestsOK'
  BY <1>1, <1>2, <1>3 DEF DataInv, RequestsOK, Drawn, Names
<1> QED
  BY <1>1, <1>2, <1>3, <1>5, <1>6

LEMMA DataPoll == ASSUME DataInv, Poll PROVE DataInv'
<1>1. /\ stage = "poll" /\ batch' = {h \in visible : h > cursor} /\ batch' # {}
      /\ stage' = "apply"
      /\ UNCHANGED ledgerVars
      /\ UNCHANGED <<rows, requests, copies, cursor, interrupts>>
  BY DEF Poll
<1>2. /\ LedgerOK' /\ RequestsOK' /\ Hashes' = Hashes
      /\ events' = events /\ visible' = visible
      /\ \A h \in Hashes, r \in Requests :
            (RequestAt(h, r)' <=> RequestAt(h, r)) /\ (DecisionAt(h, r)' <=> DecisionAt(h, r))
  BY <1>1, LedgerStays
<1>3. visible \subseteq Hashes /\ Hashes \subseteq Nat /\ cursor \in Nat
  BY DEF DataInv, LedgerOK, ReplicaOK, Hashes
<1>4. ReplicaOK' /\ RequestsSeen'
  <2>1. ReplicaOK'
    BY <1>1, <1>2, <1>3 DEF DataInv, ReplicaOK
  <2>2. RequestsSeen'
    BY <1>1, <1>2, <1>3 DEF DataInv, RequestsSeen, LedgerOK
  <2> QED
    BY <2>1, <2>2
<1>5. StreamOK'
  <2>1. ASSUME NEW r \in Requests, NEW h \in Hashes, NEW i \in batch',
               RequestAt(h, r), DecisionAt(i, r)
        PROVE  h <= cursor \/ h \in batch'
    <3>1. requests[r] # "NONE"
      BY <1>1, <1>3, <2>1 DEF DataInv, RequestsOK
    <3>2. PICK k \in visible : RequestAt(k, r)
      BY <3>1 DEF DataInv, RequestsSeen
    <3>3. h = k
      BY <1>3, <2>1, <3>2 DEF DataInv, RequestsOK
    <3> QED
      BY <1>1, <1>3, <3>2, <3>3
  <2>2. batch' \subseteq Hashes
    BY <1>1, <1>3
  <2> QED
    BY <1>1, <1>2, <2>1, <2>2 DEF DataInv, StreamOK
<1> QED
  BY <1>2, <1>4, <1>5 DEF DataInv

LEMMA BatchFirst ==
    ASSUME DataInv, stage # "poll"
    PROVE  /\ First(batch) \in batch /\ First(batch) \in visible
           /\ First(batch) \in Hashes /\ First(batch) \in Nat /\ First(batch) > 0
           /\ First(batch) \in 1 .. MaxEvents
           /\ cursor < First(batch)
           /\ \A k \in batch : First(batch) <= k
           /\ batch \subseteq Nat /\ cursor \in Nat
<1>1. batch # {} /\ batch \subseteq visible /\ visible \subseteq Hashes
  BY DEF DataInv, ReplicaOK, LedgerOK
<1>2. Hashes = 1 .. Len(events) /\ Len(events) \in Nat /\ Len(events) <= MaxEvents
  BY DEF DataInv, LedgerOK, Hashes
<1>3. batch \in SUBSET Nat
  BY <1>1, <1>2
<1>4. First(batch) \in batch /\ \A k \in batch : First(batch) <= k
  BY <1>1, <1>3, FirstIsLeast
<1>5. First(batch) \in Hashes /\ First(batch) \in visible
  BY <1>1, <1>4
<1>6. First(batch) \in 1 .. MaxEvents /\ First(batch) \in Nat /\ First(batch) > 0
  BY <1>2, <1>5, ReplicatorAssumption
<1>7. cursor < First(batch)
  BY <1>4 DEF DataInv, ReplicaOK
<1>8. cursor \in Nat
  BY <1>1, <1>2 DEF DataInv, ReplicaOK
<1> QED
  BY <1>3, <1>4, <1>5, <1>6, <1>7, <1>8

LEMMA DataApply == ASSUME DataInv, Apply PROVE DataInv'
<1> DEFINE h == First(batch)
           e == events[h]
<1>1. /\ stage = "apply" /\ stage' = "save"
      /\ \/ UNCHANGED <<rows, requests, copies>>
         \/ /\ ~Throws(e)
            /\ rows' = [rows EXCEPT ![e.block] = h]
            /\ RecordRequest(e)
            /\ copies' = [copies EXCEPT ![h] = IF Copied(e) THEN @ + 1 ELSE @]
      /\ UNCHANGED ledgerVars
      /\ UNCHANGED <<cursor, batch, interrupts>>
  BY DEF Apply
<1>2. /\ h \in batch /\ h \in visible /\ h \in Hashes /\ h \in Nat /\ cursor < h
      /\ h \in 1 .. MaxEvents /\ \A k \in batch : h <= k
      /\ batch \subseteq Nat /\ cursor \in Nat
  BY <1>1, BatchFirst
<1>3. RowOK(e)
  BY <1>2 DEF DataInv, LedgerOK
<1> HIDE DEF h
<1>4. \A r \in Requests : requests'[r] # requests[r] =>
        /\ e.req = r /\ e.kind \in Deciding \cup {"RETIRE_REQ"}
        /\ e.kind \in Deciding => requests[r] # "NONE" /\ requests'[r] # "PENDING"
        /\ e.kind = "RETIRE_REQ" => requests'[r] = "PENDING"
        /\ requests'[r] # "NONE"
  <2>1. CASE requests' = requests
    BY <2>1
  <2>2. CASE ~Throws(e) /\ Records(e) /\ requests' = [requests EXCEPT ![e.req] = StatusAfter[e.kind]]
    <3>1. e.kind \in {"RETIRE_REQ", "ACCEPT", "DECLINE"}
      BY <2>2 DEF Records, StatusAfter
    <3>2. /\ StatusAfter[e.kind] # "NONE"
          /\ e.kind = "RETIRE_REQ" => StatusAfter[e.kind] = "PENDING"
          /\ e.kind \in Deciding => StatusAfter[e.kind] # "PENDING"
      BY <3>1 DEF StatusAfter, Deciding
    <3>3. e.kind \in Deciding => requests[e.req] # "NONE"
      BY <2>2 DEF Records, Throws, Deciding
    <3>4. \A r \in Requests : requests'[r] = IF r = e.req THEN StatusAfter[e.kind] ELSE requests[r]
      BY <2>2 DEF DataInv, ReplicaOK
    <3> QED
      BY <3>1, <3>2, <3>3, <3>4 DEF Deciding
  <2> QED
    BY <1>1, <2>1, <2>2 DEF RecordRequest
<1>5. /\ LedgerOK' /\ RequestsOK' /\ Hashes' = Hashes
      /\ events' = events /\ visible' = visible
      /\ \A k \in Hashes, r \in Requests :
            (RequestAt(k, r)' <=> RequestAt(k, r)) /\ (DecisionAt(k, r)' <=> DecisionAt(k, r))
  BY <1>1, <1>4, LedgerStays
<1>6. rows' \in [Blocks -> visible \cup {0}]
  BY <1>1, <1>2 DEF DataInv, ReplicaOK
<1>7. requests' \in [Requests -> Statuses]
  <2>1. \A k \in DOMAIN StatusAfter : StatusAfter[k] \in Statuses
    BY DEF StatusAfter, Statuses
  <2> QED
    BY <1>1, <2>1 DEF DataInv, ReplicaOK, RecordRequest, Records
<1>8. copies' \in [1 .. MaxEvents -> Nat] /\ \A k \in 1 .. MaxEvents : copies'[k] > 0 => k \in visible
  <2>1. CASE copies' = copies
    BY <2>1 DEF DataInv, ReplicaOK
  <2>2. CASE copies' = [copies EXCEPT ![h] = IF Copied(e) THEN @ + 1 ELSE @]
    <3>1. copies \in [1 .. MaxEvents -> Nat]
      BY DEF DataInv, ReplicaOK
    <3>2. copies' \in [1 .. MaxEvents -> Nat]
      BY <1>2, <2>2, <3>1
    <3>3. \A k \in 1 .. MaxEvents : k # h => copies'[k] = copies[k]
      BY <2>2, <3>1
    <3> QED
      BY <1>2, <3>2, <3>3 DEF DataInv, ReplicaOK
  <2> QED
    BY <1>1, <2>1, <2>2
<1>9. ReplicaOK'
  BY <1>1, <1>2, <1>5, <1>6, <1>7, <1>8 DEF DataInv, ReplicaOK
<1>10. RequestsSeen'
  <2> SUFFICES ASSUME NEW r \in Requests, requests'[r] # "NONE"
               PROVE  \E k \in visible : RequestAt(k, r)
    BY <1>5 DEF RequestsSeen, DataInv, LedgerOK
  <2>1. CASE requests[r] # "NONE"
    BY <2>1 DEF DataInv, RequestsSeen
  <2>2. CASE requests[r] = "NONE"
    <3>1. e.req = r /\ e.kind = "RETIRE_REQ"
      BY <1>4, <2>2
    <3> QED
      BY <1>2, <3>1 DEF RequestAt
  <2> QED
    BY <2>1, <2>2
<1>11. StreamOK'
  <2>1. ASSUME NEW r \in Requests, NEW i \in Hashes, RequestAt(i, r),
               requests'[r] \in {"COMPLETED", "DECLINED"}
        PROVE  i <= cursor
    <3>1. CASE requests[r] = requests'[r]
      BY <2>1, <3>1 DEF DataInv, StreamOK
    <3>2. CASE requests[r] # requests'[r]
      <4>1. DecisionAt(h, r)
        BY <1>2, <1>4, <2>1, <3>2 DEF DecisionAt
      <4>2. i < h
        BY <1>2, <2>1, <4>1 DEF DataInv, RequestsOK
      <4>3. i <= cursor \/ i \in batch
        BY <1>2, <2>1, <4>1 DEF DataInv, StreamOK
      <4>4. i \notin batch
        BY <1>2, <4>2
      <4> QED
        BY <4>3, <4>4
    <3> QED
      BY <3>1, <3>2
  <2>2. batch \subseteq Hashes
    BY DEF DataInv, ReplicaOK, LedgerOK
  <2> QED
    BY <1>1, <1>5, <2>1, <2>2 DEF DataInv, StreamOK
<1> QED
  BY <1>5, <1>9, <1>10, <1>11 DEF DataInv

LEMMA DataSave == ASSUME DataInv, Save PROVE DataInv'
<1> DEFINE h == First(batch)
<1>1. /\ stage = "save" /\ cursor' = h /\ batch' = batch \ {h}
      /\ stage' = IF batch' = {} THEN "poll" ELSE "apply"
      /\ UNCHANGED ledgerVars
      /\ UNCHANGED <<rows, requests, copies, interrupts>>
  BY DEF Save
<1>2. /\ h \in batch /\ h \in visible /\ h \in Hashes /\ h \in Nat /\ cursor < h
      /\ \A k \in batch : h <= k
      /\ batch \subseteq Nat /\ cursor \in Nat
  BY <1>1, BatchFirst
<1>3. /\ LedgerOK' /\ RequestsOK' /\ Hashes' = Hashes
      /\ events' = events /\ visible' = visible
      /\ \A k \in Hashes, r \in Requests :
            (RequestAt(k, r)' <=> RequestAt(k, r)) /\ (DecisionAt(k, r)' <=> DecisionAt(k, r))
  BY <1>1, LedgerStays
<1> HIDE DEF h
<1>4. \A k \in batch' : h < k
  BY <1>1, <1>2
<1>5. ReplicaOK' /\ RequestsSeen'
  <2>1. ReplicaOK'
    BY <1>1, <1>2, <1>3, <1>4 DEF DataInv, ReplicaOK
  <2>2. RequestsSeen'
    BY <1>1, <1>2, <1>3 DEF DataInv, RequestsSeen, LedgerOK
  <2> QED
    BY <2>1, <2>2
<1>6. Hashes \subseteq Nat /\ batch \subseteq Hashes
  BY DEF Hashes, DataInv, ReplicaOK, LedgerOK
<1>7. StreamOK'
  <2>1. ASSUME NEW r \in Requests, NEW i \in Hashes, NEW k \in batch',
               RequestAt(i, r), DecisionAt(k, r)
        PROVE  i <= h \/ i \in batch'
    <3>1. i <= cursor \/ i \in batch
      BY <1>1, <2>1 DEF DataInv, StreamOK
    <3> QED
      BY <1>1, <1>2, <1>6, <3>1
  <2>2. ASSUME NEW r \in Requests, NEW i \in Hashes, RequestAt(i, r),
               requests[r] \in {"COMPLETED", "DECLINED"}
        PROVE  i <= h
    <3>1. i <= cursor
      BY <2>2 DEF DataInv, StreamOK
    <3> QED
      BY <1>2, <1>6, <3>1
  <2> QED
    BY <1>1, <1>3, <1>6, <2>1, <2>2 DEF StreamOK
<1> QED
  BY <1>3, <1>5, <1>7 DEF DataInv

LEMMA DataInterrupt == ASSUME DataInv, Interrupt PROVE DataInv'
<1>1. /\ interrupts < MaxInterrupts /\ interrupts' = interrupts + 1
      /\ batch' = {} /\ stage' = "poll"
      /\ UNCHANGED ledgerVars
      /\ UNCHANGED <<rows, requests, copies, cursor>>
  BY DEF Interrupt
<1>2. /\ LedgerOK' /\ RequestsOK' /\ Hashes' = Hashes
      /\ events' = events /\ visible' = visible
      /\ \A h \in Hashes, r \in Requests :
            (RequestAt(h, r)' <=> RequestAt(h, r)) /\ (DecisionAt(h, r)' <=> DecisionAt(h, r))
  BY <1>1, LedgerStays
<1>3. interrupts' \in 0 .. MaxInterrupts
  BY <1>1, ReplicatorAssumption DEF DataInv, ReplicaOK
<1>4. ReplicaOK' /\ RequestsSeen'
  <2>1. ReplicaOK'
    BY <1>1, <1>2, <1>3 DEF DataInv, ReplicaOK
  <2>2. RequestsSeen'
    BY <1>1, <1>2, <1>3 DEF DataInv, RequestsSeen, LedgerOK
  <2> QED
    BY <2>1, <2>2
<1>5. StreamOK'
  BY <1>1, <1>2 DEF DataInv, StreamOK
<1> QED
  BY <1>2, <1>4, <1>5 DEF DataInv

LEMMA DataStep == DataInv /\ [Next]_vars => DataInv'
<1> SUFFICES ASSUME DataInv, [Next]_vars PROVE DataInv'
  OBVIOUS
<1>1. CASE UNCHANGED vars
  <2>1. UNCHANGED ledgerVars
        /\ UNCHANGED <<rows, requests, copies, cursor, batch, stage, interrupts>>
    BY <1>1 DEF vars, replicaVars
  <2>2. /\ LedgerOK' /\ RequestsOK' /\ Hashes' = Hashes
        /\ events' = events /\ visible' = visible
        /\ \A h \in Hashes, r \in Requests :
              (RequestAt(h, r)' <=> RequestAt(h, r)) /\ (DecisionAt(h, r)' <=> DecisionAt(h, r))
    BY <2>1, LedgerStays
  <2>3. ReplicaOK' /\ RequestsSeen'
    <3>1. ReplicaOK'
      BY <2>1, <2>2 DEF DataInv, ReplicaOK
    <3>2. RequestsSeen'
      BY <2>1, <2>2 DEF DataInv, RequestsSeen, LedgerOK
    <3> QED
      BY <3>1, <3>2
  <2>4. StreamOK'
    <3>1. batch \subseteq Hashes
      BY DEF DataInv, ReplicaOK, LedgerOK
    <3> QED
      BY <2>1, <2>2, <3>1 DEF DataInv, StreamOK
  <2> QED
    BY <2>2, <2>3, <2>4 DEF DataInv
<1>2. CASE \E w \in Writers : Compute(w) \/ Insert(w) \/ Commit(w) \/ Rollback(w)
  BY <1>2, DataCompute, DataInsert, DataCommit, DataRollback
<1> QED
  BY <1>1, <1>2, DataPoll, DataApply, DataSave, DataInterrupt DEF Next
-----------------------------------------------------------------------------
(* Copies: what may still be written again is paid for by an interruption. *)

Weight(h) ==
    IF copies[h] > 0 /\ h > cursor /\ ~(stage = "save" /\ h = First(batch))
    THEN copies[h] ELSE Extra(h)

Weights == [h \in 1 .. MaxEvents |-> Weight(h)]

CopiesPaid == SumFunction(Weights) <= interrupts

CopiesInBatch ==
    stage # "poll" => \A h \in 1 .. MaxEvents : copies[h] > 0 /\ h > cursor => h \in batch

CopiesInv == CopiesPaid /\ CopiesInBatch

LEMMA WeightType ==
    ASSUME ReplicaOK
    PROVE  /\ \A h \in 1 .. MaxEvents : Weight(h) \in Nat /\ Extra(h) \in Nat
           /\ \A h \in 1 .. MaxEvents : Extra(h) <= Weight(h)
           /\ IsFiniteSet(1 .. MaxEvents)
           /\ interrupts \in Nat
<1>1. \A h \in 1 .. MaxEvents : copies[h] \in Nat
  BY DEF ReplicaOK
<1>2. \A h \in 1 .. MaxEvents : Extra(h) \in Nat /\ Extra(h) <= copies[h]
  BY <1>1 DEF Extra
<1>3. \A h \in 1 .. MaxEvents : Weight(h) \in Nat /\ Extra(h) <= Weight(h)
  BY <1>1, <1>2 DEF Weight
<1>4. IsFiniteSet(1 .. MaxEvents)
  BY FS_Interval, ReplicatorAssumption
<1> QED
  BY <1>2, <1>3, <1>4 DEF ReplicaOK

\* A step that lets one weight grow by no more than the interruptions.
LEMMA PaidStep ==
    ASSUME ReplicaOK, ReplicaOK', CopiesPaid, NEW k \in 1 .. MaxEvents,
           \A h \in 1 .. MaxEvents : h # k => Weight(h)' = Weight(h),
           Weight(k)' + interrupts <= Weight(k) + interrupts'
    PROVE  CopiesPaid'
<1> DEFINE g == Weights
           f == Weights'
<1>1. /\ DOMAIN g = 1 .. MaxEvents /\ DOMAIN f = 1 .. MaxEvents
      /\ \A h \in 1 .. MaxEvents : g[h] = Weight(h) /\ f[h] = Weight(h)'
  BY DEF Weights
<1>2. /\ \A h \in 1 .. MaxEvents : Weight(h) \in Nat
      /\ IsFiniteSet(1 .. MaxEvents) /\ interrupts \in Nat
  BY WeightType
<1>3. (\A h \in 1 .. MaxEvents : Weight(h) \in Nat)' /\ interrupts' \in Nat
  <2>1. (\A h \in 1 .. MaxEvents : copies[h] \in Nat)' /\ interrupts' \in Nat
    BY DEF ReplicaOK
  <2> QED
    BY <2>1 DEF Weight, Extra
<1>4. \A h \in 1 .. MaxEvents : g[h] \in Int /\ f[h] \in Int
  BY <1>1, <1>2, <1>3
<1>5. /\ IsFiniteSet(DOMAIN g) /\ DOMAIN f = DOMAIN g /\ k \in DOMAIN g
      /\ \A y \in DOMAIN g : g[y] \in Int /\ f[y] \in Int
      /\ \A y \in (DOMAIN g) \ {k} : f[y] = g[y]
  BY <1>1, <1>2, <1>4
<1> HIDE DEF g, f
<1>6. SumFunction(f) = SumFunction(g) - g[k] + f[k]
  BY <1>5, SumUpdate
<1>7. SumFunction(g) \in Int
  BY <1>1, <1>2, <1>4, SumType
<1>8. SumFunction(g) <= interrupts
  BY DEF CopiesPaid, g
<1>9. SumFunction(f) <= interrupts'
  BY <1>1, <1>2, <1>3, <1>4, <1>6, <1>7, <1>8
<1> QED
  BY <1>9 DEF CopiesPaid, f

LEMMA PaidStays ==
    ASSUME CopiesPaid, \A h \in 1 .. MaxEvents : Weight(h)' = Weight(h), interrupts' = interrupts
    PROVE  CopiesPaid'
<1>1. Weights' = Weights
  BY DEF Weights
<1> QED
  BY <1>1 DEF CopiesPaid

LEMMA CopiesInit == Init => CopiesInv
<1> SUFFICES ASSUME Init PROVE CopiesInv
  OBVIOUS
<1>1. /\ copies = [h \in 1 .. MaxEvents |-> 0] /\ stage = "poll" /\ interrupts = 0
  BY DEF Init
<1>2. DOMAIN Weights = 1 .. MaxEvents /\ \A h \in 1 .. MaxEvents : Weights[h] = 0
  BY <1>1 DEF Weights, Weight, Extra
<1>3. IsFiniteSet(1 .. MaxEvents)
  BY FS_Interval, ReplicatorAssumption
<1>4. SumFunction(Weights) = 0
  BY <1>2, <1>3, SumZero
<1> QED
  BY <1>1, <1>4 DEF CopiesInv, CopiesPaid, CopiesInBatch

LEMMA CopiesStep == DataInv /\ DataInv' /\ CopiesInv /\ [Next]_vars => CopiesInv'
<1> SUFFICES ASSUME DataInv, DataInv', CopiesInv, [Next]_vars PROVE CopiesInv'
  OBVIOUS
<1>1. ReplicaOK /\ ReplicaOK'
  BY DEF DataInv
<1>2. /\ \A h \in 1 .. MaxEvents : copies[h] \in Nat
      /\ copies \in [1 .. MaxEvents -> Nat] /\ interrupts \in Nat
  BY <1>1 DEF ReplicaOK
<1>3. CASE UNCHANGED replicaVars
  <2>1. \A h \in 1 .. MaxEvents : Weight(h)' = Weight(h)
    BY <1>3 DEF replicaVars, Weight, Extra
  <2> QED
    BY <1>3, <2>1, PaidStays DEF CopiesInv, CopiesInBatch, replicaVars
<1>4. CASE Poll
  <2>1. /\ stage = "poll" /\ stage' = "apply" /\ batch' = {h \in visible : h > cursor}
        /\ UNCHANGED <<copies, cursor, interrupts>>
    BY <1>4 DEF Poll
  <2>2. \A h \in 1 .. MaxEvents : Weight(h)' = Weight(h)
    BY <2>1 DEF Weight, Extra
  <2>3. CopiesInBatch'
    BY <1>1, <2>1 DEF ReplicaOK, CopiesInBatch
  <2> QED
    BY <2>1, <2>2, <2>3, PaidStays DEF CopiesInv
<1>5. CASE Apply
  <2>0. stage = "apply"
    BY <1>5 DEF Apply
  <2>2. PICK k \in 1 .. MaxEvents : k = First(batch) /\ k > cursor /\ k \in batch
    BY <2>0, BatchFirst
  <2>1. /\ stage = "apply" /\ stage' = "save" /\ UNCHANGED <<cursor, batch, interrupts>>
        /\ \/ copies' = copies
           \/ \E n \in {copies[k], copies[k] + 1} : copies' = [copies EXCEPT ![k] = n]
    BY <1>5, <2>2 DEF Apply
  <2>3. \A h \in 1 .. MaxEvents : h # k => copies'[h] = copies[h]
    BY <1>2, <2>1
  <2>4. copies'[k] \in {copies[k], copies[k] + 1}
    BY <1>2, <2>1, <2>2
  <2>5. \A h \in 1 .. MaxEvents : h # k => Weight(h)' = Weight(h)
    BY <2>1, <2>2, <2>3 DEF Weight, Extra
  <2>6. Weight(k) = copies[k]
    BY <1>2, <2>1, <2>2 DEF Weight, Extra
  <2>7. Weight(k)' <= copies[k]
    <3>1. First(batch') = k
      BY <2>1, <2>2
    <3>2. Weight(k)' = IF copies'[k] > 1 THEN copies'[k] - 1 ELSE 0
      BY <2>1, <3>1 DEF Weight, Extra
    <3> QED
      BY <1>2, <2>2, <2>4, <3>2
  <2>8. CopiesPaid'
    <3>1. /\ Weight(k) \in Nat
      BY <1>1, <2>2, WeightType
    <3>2. Weight(k)' + interrupts <= Weight(k) + interrupts'
      <4>1. Weight(k)' \in Nat
        <5>1. copies'[k] \in Nat
          BY <1>2, <2>2, <2>4
        <5> QED
          BY <5>1 DEF Weight, Extra
      <4> QED
        BY <1>2, <2>1, <2>2, <2>6, <2>7, <4>1
    <3> QED
      BY <1>1, <2>2, <2>5, <3>2, PaidStep DEF CopiesInv
  <2>9. CopiesInBatch'
    BY <2>1, <2>2, <2>3 DEF CopiesInv, CopiesInBatch
  <2> QED
    BY <2>8, <2>9 DEF CopiesInv
<1>6. CASE Save
  <2> DEFINE k == First(batch)
  <2>1. /\ stage = "save" /\ cursor' = k /\ batch' = batch \ {k}
        /\ stage' \in {"poll", "apply"} /\ UNCHANGED <<copies, interrupts>>
    BY <1>6 DEF Save
  <2>2. k \in 1 .. MaxEvents /\ cursor < k /\ cursor \in Nat /\ \A h \in batch : k <= h
    BY <2>1, BatchFirst
  <2> HIDE DEF k
  <2>3. \A h \in 1 .. MaxEvents : h > cursor /\ h < k => copies[h] = 0
    BY <1>2, <2>1, <2>2 DEF CopiesInv, CopiesInBatch
  <2>4. \A h \in 1 .. MaxEvents : Weight(h)' = Weight(h)
    <3> SUFFICES ASSUME NEW h \in 1 .. MaxEvents PROVE Weight(h)' = Weight(h)
      OBVIOUS
    <3>1. Extra(h)' = Extra(h)
      BY <2>1 DEF Extra
    <3>2. Weight(h)' = IF copies[h] > 0 /\ h > k THEN copies[h] ELSE Extra(h)
      BY <2>1, <3>1 DEF Weight
    <3>3. Weight(h) = IF copies[h] > 0 /\ h > cursor /\ h # k THEN copies[h] ELSE Extra(h)
      BY <2>1 DEF Weight, k
    <3> QED
      BY <2>2, <2>3, <3>2, <3>3
  <2>5. CopiesInBatch'
    BY <2>1, <2>2 DEF CopiesInv, CopiesInBatch
  <2> QED
    BY <2>1, <2>4, <2>5, PaidStays DEF CopiesInv
<1>7. CASE Interrupt
  <2>1. /\ stage # "poll" /\ stage' = "poll" /\ interrupts' = interrupts + 1
        /\ UNCHANGED <<copies, cursor>>
    BY <1>7 DEF Interrupt
  <2>2. PICK k \in 1 .. MaxEvents : k = First(batch) /\ cursor < k
    BY <2>1, BatchFirst
  <2>3. \A h \in 1 .. MaxEvents : Extra(h)' = Extra(h)
    BY <2>1 DEF Extra
  <2>4. \A h \in 1 .. MaxEvents : h # k => Weight(h)' = Weight(h)
    BY <2>1, <2>2, <2>3 DEF Weight
  <2>5. Weight(k)' + interrupts <= Weight(k) + interrupts'
    <3>1. copies[k] \in Nat /\ Extra(k) \in Nat /\ copies[k] <= Extra(k) + 1
      BY <1>2, <2>2 DEF Extra
    <3>2. Weight(k)' \in {copies[k], Extra(k)}
      BY <2>1, <2>3 DEF Weight, Extra
    <3>3. Extra(k) <= copies[k]
      BY <1>2, <2>2 DEF Extra
    <3>4. Weight(k) \in {copies[k], Extra(k)}
      BY DEF Weight
    <3> QED
      BY <1>2, <2>1, <3>1, <3>2, <3>3, <3>4
  <2>6. CopiesPaid'
    BY <1>1, <2>2, <2>4, <2>5, PaidStep DEF CopiesInv
  <2> QED
    BY <2>1, <2>6 DEF CopiesInv, CopiesInBatch
<1>8. CASE \E w \in Writers : Compute(w) \/ Insert(w) \/ Commit(w) \/ Rollback(w)
  <2>1. UNCHANGED replicaVars
    BY <1>8 DEF Compute, Insert, Commit, Rollback
  <2> QED
    BY <1>3, <2>1
<1>9. CASE UNCHANGED vars
  BY <1>3, <1>9 DEF vars
<1> QED
  BY <1>4, <1>5, <1>6, <1>7, <1>8, <1>9 DEF Next

-----------------------------------------------------------------------------
\* What every behaviour keeps of the ledger table, the stream and the copies.
IInv == DataInv /\ CopiesInv

THEOREM ReplicatorInvariant == Spec => []IInv
<1>1. Init => IInv
  BY DataInit, CopiesInit DEF IInv
<1>2. IInv /\ [Next]_vars => IInv'
  BY DataStep, CopiesStep DEF IInv
<1> QED
  BY <1>1, <1>2, PTL DEF Spec

\* Duplicate transaction and AEF records come from interruptions only.
THEOREM DuplicatesArePaid == Spec => []DuplicatesNeedInterrupts
<1>1. IInv => DuplicatesNeedInterrupts
  <2> SUFFICES ASSUME IInv PROVE DuplicatesNeedInterrupts
    OBVIOUS
  <2> DEFINE f == [h \in DOMAIN copies |-> Extra(h)]
             g == Weights
             d == [h \in 1 .. MaxEvents |-> Weight(h) - Extra(h)]
  <2>1. /\ \A h \in 1 .. MaxEvents : Weight(h) \in Nat /\ Extra(h) \in Nat
        /\ \A h \in 1 .. MaxEvents : Extra(h) <= Weight(h)
        /\ IsFiniteSet(1 .. MaxEvents)
        /\ interrupts \in Nat
    BY WeightType DEF IInv, DataInv
  <2>2. DOMAIN f = 1 .. MaxEvents /\ DOMAIN g = 1 .. MaxEvents /\ DOMAIN d = 1 .. MaxEvents
    BY DEF IInv, DataInv, ReplicaOK, Weights
  <2>3. \A h \in 1 .. MaxEvents :
            f[h] \in Int /\ d[h] \in Nat /\ d[h] \in Int /\ g[h] = f[h] + d[h]
    BY <2>1, <2>2 DEF Weights
  <2>4. SumFunction(g) <= interrupts
    BY DEF IInv, CopiesInv, CopiesPaid
  <2>5. f = [h \in DOMAIN copies |-> Extra(h)]
    OBVIOUS
  <2> HIDE DEF f, g, d
  <2>6. SumFunction(g) = SumFunction(f) + SumFunction(d)
    BY <2>1, <2>2, <2>3, SumAdd
  <2>7. SumFunction(f) \in Int /\ SumFunction(d) \in Nat
    BY <2>1, <2>2, <2>3, SumType
  <2>8. SumFunction(f) <= interrupts
    BY <2>1, <2>4, <2>6, <2>7
  <2> QED
    BY <2>5, <2>8 DEF DuplicatesNeedInterrupts
<1> QED
  BY <1>1, ReplicatorInvariant, PTL

\* The stream, the rows and the copies keep their types and bounds.
THEOREM ReplicatorTypes == Spec => []TypeOK
<1>1. IInv => TypeOK
  <2> SUFFICES ASSUME IInv PROVE TypeOK
    OBVIOUS
  <2> DEFINE g == Weights
  <2>1. /\ \A h \in 1 .. MaxEvents : Weight(h) \in Nat /\ Extra(h) \in Nat
        /\ \A h \in 1 .. MaxEvents : Extra(h) <= Weight(h)
        /\ IsFiniteSet(1 .. MaxEvents)
        /\ interrupts \in Nat
    BY WeightType DEF IInv, DataInv
  <2>2. DOMAIN g = 1 .. MaxEvents /\ \A h \in 1 .. MaxEvents : g[h] = Weight(h)
    BY DEF Weights
  <2>3. SumFunction(g) <= interrupts
    BY DEF IInv, CopiesInv, CopiesPaid
  <2> HIDE DEF g
  <2>4. SumFunction(g) \in Nat
    BY <2>1, <2>2, SumType
  <2>5. \A h \in 1 .. MaxEvents : Weight(h) <= SumFunction(g)
    BY <2>1, <2>2, SumBound
  <2>6. /\ copies \in [1 .. MaxEvents -> Nat]
        /\ interrupts \in 0 .. MaxInterrupts
        /\ rows \in [Blocks -> visible \cup {0}]
        /\ requests \in [Requests -> Statuses]
        /\ cursor \in visible \cup {0}
        /\ stage \in {"poll", "apply", "save"}
    BY DEF IInv, DataInv, ReplicaOK
  <2>7. /\ visible \subseteq Hashes /\ Hashes = 1 .. Len(events)
        /\ Len(events) \in Nat /\ Len(events) <= MaxEvents
    BY DEF IInv, DataInv, LedgerOK, Hashes
  <2>8. visible \cup {0} \subseteq 0 .. MaxEvents
    BY <2>7, ReplicatorAssumption
  <2>9. \A h \in 1 .. MaxEvents : copies[h] \in 0 .. MaxInterrupts + 1
    <3> SUFFICES ASSUME NEW h \in 1 .. MaxEvents PROVE copies[h] \in 0 .. MaxInterrupts + 1
      OBVIOUS
    <3>1. copies[h] \in Nat /\ Extra(h) \in Nat /\ copies[h] <= Extra(h) + 1
      BY <2>6 DEF Extra
    <3>2. Extra(h) <= interrupts
      BY <2>1, <2>3, <2>4, <2>5
    <3> QED
      BY <2>1, <2>6, <3>1, <3>2, ReplicatorAssumption
  <2> QED
    BY <2>6, <2>7, <2>8, <2>9 DEF TypeOK, Statuses
<1> QED
  BY <1>1, ReplicatorInvariant, PTL

\* An accepted retirement finds its request, however ledger transactions
\* overlap and whenever the replicator is interrupted.
THEOREM RetirementsFindRequests == Spec => []RetirementFindsItsRequest
<1>1. IInv => RetirementFindsItsRequest
  <2> SUFFICES ASSUME IInv, NEW h \in visible, events[h].kind = "ACCEPT"
               PROVE  requests[events[h].req] # "NONE"
    BY DEF RetirementFindsItsRequest, Throws
  <2>1. h \in Hashes /\ RowOK(events[h])
    BY DEF IInv, DataInv, LedgerOK
  <2>2. events[h].req \in Requests
    BY <2>1 DEF RowOK, Event, Deciding
  <2>3. DecisionAt(h, events[h].req)
    BY <2>1 DEF DecisionAt, Deciding
  <2> QED
    BY <2>1, <2>2, <2>3 DEF IInv, DataInv, RequestsOK
<1> QED
  BY <1>1, ReplicatorInvariant, PTL

\* A decided request is never shown as pending again.
THEOREM DecisionStays == Spec => DecisionIsFinal
<1>1. IInv /\ [Next]_vars =>
        [\A r \in Requests :
            requests[r] \in {"COMPLETED", "DECLINED"} => requests'[r] # "PENDING"]_vars
  <2> SUFFICES ASSUME IInv, [Next]_vars, NEW r \in Requests,
                      requests[r] \in {"COMPLETED", "DECLINED"}
               PROVE  requests'[r] # "PENDING"
    OBVIOUS
  <2>1. CASE requests' = requests
    BY <2>1
  <2>2. CASE Apply
    <3> DEFINE h == First(batch)
    <3>1. stage = "apply" /\ (RecordRequest(events[h]) \/ requests' = requests)
      BY <2>2 DEF Apply
    <3>2. h \in Hashes /\ cursor < h /\ cursor \in Nat /\ h \in Nat
      BY <3>1, BatchFirst DEF IInv
    <3> HIDE DEF h
    <3>3. ~RequestAt(h, r)
      BY <3>2 DEF IInv, DataInv, StreamOK
    <3>4. requests \in [Requests -> Statuses]
      BY DEF IInv, DataInv, ReplicaOK
    <3>5. CASE Records(events[h]) /\ events[h].req = r /\
               requests' = [requests EXCEPT ![r] = StatusAfter[events[h].kind]]
      <4>1. events[h].kind \in {"ACCEPT", "DECLINE"}
        BY <3>2, <3>3, <3>5 DEF Records, StatusAfter, RequestAt
      <4> QED
        BY <3>4, <3>5, <4>1 DEF StatusAfter
    <3> QED
      BY <3>1, <3>4, <3>5, <2>1 DEF RecordRequest
  <2> QED
    BY <2>1, <2>2 DEF Next, vars, replicaVars, Compute, Insert, Commit, Rollback, Poll, Save,
                      Interrupt
<1> QED
  BY <1>1, ReplicatorInvariant, PTL DEF Spec, DecisionIsFinal

-----------------------------------------------------------------------------
(* Without overlapping ledger transactions the replica follows the ledger. *)

OneWriter == \A v, w \in Writers : v = w

SerialLedger ==
    /\ \A w \in Writers : tx[w].stage = "inserted" =>
        /\ \E i, j \in tx[w].hashes : tx[w].hashes = {i, j}
        /\ \A h \in visible, k \in tx[w].hashes : h < k
    /\ \A w \in Writers : tx[w].stage = "computed" =>
        \A i \in 1 .. Len(tx[w].new) : tx[w].new[i].time = clock
    /\ \A h \in Hashes : events[h].time <= clock
    /\ \A h, k \in Hashes : h < k => events[h].time <= events[k].time

SerialStream ==
    /\ \A h \in visible, k \in batch : cursor < h /\ h < k => h \in batch
    /\ \A h \in visible :
        /\ Copied(events[h])
        /\ h <= cursor \/ (stage = "save" /\ h = First(batch))
        => copies[h] > 0

\* The events up to n, in the order of their hash, about a block or a request.
BlockRows(b, n) == {h \in visible : h <= n /\ events[h].block = b}
ReqRows(r, n) == {h \in visible : h <= n /\ events[h].req = r}

StatusAt(r, n) ==
    IF ReqRows(r, n) = {} THEN "NONE"
    ELSE StatusAfter[events[Promise!Latest(ReqRows(r, n))].kind]

\* The replica shows the events up to n and no others.
Shows(n) ==
    /\ \A b \in Blocks : rows[b] = Promise!Latest(BlockRows(b, n)) /\ rows[b] <= n
    /\ \A r \in Requests : requests[r] = StatusAt(r, n)

\* n is the cursor or the event behind it.
Reached(n) ==
    /\ cursor <= n
    /\ \A h \in visible : cursor < h => n <= h
    /\ stage = "save" => n = First(batch)

Shown == \E n \in visible \cup {0} : Shows(n) /\ Reached(n)

SerialInv == SerialLedger /\ SerialStream /\ Shown

LEMMA LatestLast ==
    ASSUME NEW S \in SUBSET Nat, NEW h \in S, \A k \in S : k <= h
    PROVE  Promise!Latest(S) = h
<1> DEFINE P(x) == x \in S /\ \A k \in S : k <= x
<1>1. \E x : P(x)
  OBVIOUS
<1>2. \A x, y : P(x) /\ P(y) => x = y
  OBVIOUS
<1>3. P(h)
  OBVIOUS
<1>4. Promise!Latest(S) = CHOOSE x : P(x)
  <2>1. S # {}
    OBVIOUS
  <2> QED
    BY <2>1 DEF Promise!Latest
<1> HIDE DEF P
<1>5. P(CHOOSE x : P(x))
  BY <1>1
<1> QED
  BY <1>2, <1>3, <1>4, <1>5

LEMMA LatestMember ==
    ASSUME NEW S \in SUBSET Nat, S # {}, NEW N \in Nat, \A k \in S : k <= N
    PROVE  Promise!Latest(S) \in S
<1> DEFINE T == {m \in Nat : \A k \in S : k <= m}
<1>1. PICK m \in T : \A j \in T : m <= j
  <2>1. T \subseteq Nat /\ N \in T
    OBVIOUS
  <2> QED
    BY <2>1, LeastNat
<1>2. m \in S
  <2> SUFFICES ASSUME m \notin S PROVE FALSE
    OBVIOUS
  <2>1. \A k \in S : k <= m - 1 /\ k \in Nat
    BY <1>1
  <2>2. m - 1 \in Nat
    <3>1. PICK k \in S : k \in Nat /\ k <= m - 1 /\ m \in Nat
      BY <2>1
    <3> QED
      BY <3>1
  <2>3. m - 1 \in T
    BY <2>1, <2>2
  <2> QED
    BY <1>1, <2>3
<1>3. Promise!Latest(S) = m
  BY <1>1, <1>2, LatestLast
<1> QED
  BY <1>2, <1>3

LEMMA SerialInit == Init => SerialInv
<1> SUFFICES ASSUME Init PROVE SerialInv
  OBVIOUS
<1>1. /\ Hashes = {} /\ visible = {} /\ cursor = 0 /\ batch = {} /\ stage = "poll"
  BY DEF Init, Hashes
<1>2. \A w \in Writers : tx[w].stage = "none"
  BY DEF Init, NoTx
<1>3. /\ \A b \in Blocks : rows[b] = 0 /\ BlockRows(b, 0) = {}
      /\ \A r \in Requests : requests[r] = "NONE" /\ ReqRows(r, 0) = {}
      /\ Promise!Latest({}) = 0
  BY <1>1 DEF Init, BlockRows, ReqRows, Promise!Latest
<1>4. Shows(0) /\ Reached(0)
  BY <1>1, <1>3 DEF Shows, Reached, StatusAt
<1> QED
  BY <1>1, <1>2, <1>4 DEF SerialInv, SerialLedger, SerialStream, Shown

LEMMA ReqRowsLatest ==
    ASSUME DataInv, NEW n, NEW r, ReqRows(r, n) # {}
    PROVE  Promise!Latest(ReqRows(r, n)) \in ReqRows(r, n)
<1>1. Hashes = 1 .. Len(events) /\ Len(events) \in Nat /\ visible \subseteq Hashes
  BY DEF DataInv, LedgerOK, Hashes
<1>2. ReqRows(r, n) \subseteq visible
  BY DEF ReqRows
<1>3. \A k \in visible : k \in Nat /\ k <= Len(events)
  BY <1>1
<1> QED
  BY <1>1, <1>2, <1>3, LatestMember

\* What is shown up to n does not depend on what is beyond.
LEMMA ShowsStays ==
    ASSUME DataInv, UNCHANGED <<rows, requests>>, NEW n,
           \A h \in visible : h \in visible' /\ events'[h] = events[h],
           \A h \in visible' \ visible : ~(h <= n)
    PROVE  /\ Shows(n) => Shows(n)'
           /\ {h \in visible' : h <= n} = {h \in visible : h <= n}
<1>1. {h \in visible' : h <= n} = {h \in visible : h <= n}
  OBVIOUS
<1>2. \A b : BlockRows(b, n)' = BlockRows(b, n)
  BY DEF BlockRows
<1>3. \A r : ReqRows(r, n)' = ReqRows(r, n)
  BY DEF ReqRows
<1>4. \A r : StatusAt(r, n)' = StatusAt(r, n)
  <2> SUFFICES ASSUME NEW r PROVE StatusAt(r, n)' = StatusAt(r, n)
    OBVIOUS
  <2>1. CASE ReqRows(r, n) = {}
    BY <1>3, <2>1 DEF StatusAt
  <2>2. CASE ReqRows(r, n) # {}
    <3>1. Promise!Latest(ReqRows(r, n)) \in ReqRows(r, n)
      BY <2>2, ReqRowsLatest
    <3>2. Promise!Latest(ReqRows(r, n)) \in visible
      BY <3>1 DEF ReqRows
    <3> QED
      BY <1>3, <2>2, <3>2 DEF StatusAt
  <2> QED
    BY <2>1, <2>2
<1> QED
  BY <1>1, <1>2, <1>4 DEF Shows

\* Ledger steps that show the replicator nothing new.
LEMMA StreamStays ==
    ASSUME DataInv, SerialStream, Shown, UNCHANGED replicaVars, UNCHANGED visible,
           \A h \in visible : events'[h] = events[h]
    PROVE  SerialStream' /\ Shown'
<1>1. UNCHANGED <<rows, requests, copies, cursor, batch, stage>>
  BY DEF replicaVars
<1>2. SerialStream'
  BY <1>1 DEF SerialStream, Copied
<1>3. PICK n \in visible \cup {0} : Shows(n) /\ Reached(n)
  BY DEF Shown
<1>4. Shows(n)'
  BY <1>1, <1>3, ShowsStays
<1>5. Reached(n)'
  BY <1>1, <1>3 DEF Reached
<1> QED
  BY <1>2, <1>3, <1>4, <1>5 DEF Shown

LEMMA SerialCompute ==
    ASSUME DataInv, SerialInv, OneWriter, NEW w \in Writers, Compute(w)
    PROVE  SerialInv'
<1>1. PICK new \in CallRows :
        tx[w] = NoTx /\ tx' = [tx EXCEPT ![w] = [stage |-> "computed", new |-> new]]
  BY DEF Compute
<1>2. /\ clock' = clock + 1 /\ clock \in Nat
      /\ UNCHANGED <<events, visible>> /\ UNCHANGED replicaVars
  BY DEF Compute, DataInv, LedgerOK
<1>3. \A i \in 1 .. Len(new) : new[i].time = clock + 1
  BY <1>1, CallRowsShape DEF DataInv
<1>4. tx'[w].stage = "computed" /\ tx'[w].new = new /\ \A v \in Writers : v = w
  BY <1>1 DEF DataInv, LedgerOK, OneWriter
<1>5. \A h \in Hashes : events[h].time \in Nat
  BY DEF DataInv, LedgerOK, RowOK, Event
<1>6. SerialLedger'
  <2>1. \A v \in Writers : v = w /\ tx'[v].stage = "computed" /\ tx'[v].new = new
    BY <1>4
  <2>2. \A h \in Hashes : events[h].time <= clock /\ events[h].time <= clock + 1
    BY <1>2, <1>5 DEF SerialInv, SerialLedger
  <2>3. \A h, k \in Hashes : h < k => events[h].time <= events[k].time
    BY DEF SerialInv, SerialLedger
  <2> QED
    BY <1>2, <1>3, <2>1, <2>2, <2>3 DEF SerialLedger, Hashes
<1> QED
  BY <1>2, <1>6, StreamStays DEF SerialInv

LEMMA SerialInsert ==
    ASSUME DataInv, DataInv', SerialInv, OneWriter, NEW w \in Writers, Insert(w)
    PROVE  SerialInv'
<1>1. PICK new, n : new = tx[w].new /\ n = Len(events)
  OBVIOUS
<1>2. /\ tx[w].stage = "computed" /\ events' = events \o new
      /\ tx' = [tx EXCEPT ![w] = [stage |-> "inserted", hashes |-> n + 1 .. n + Len(new)]]
      /\ UNCHANGED <<visible, clock>> /\ UNCHANGED replicaVars
  BY <1>1 DEF Insert
<1>3. NewOK(new) /\ \A i \in 1 .. Len(new) : new[i].time = clock
  BY <1>1, <1>2 DEF DataInv, LedgerOK, TxOK, SerialInv, SerialLedger
<1>4. events \in Seq(Event) /\ n \in Nat /\ new \in Seq(Event) /\ Len(new) \in 1 .. 2
  BY <1>1, <1>3 DEF DataInv, LedgerOK, NewOK
<1>5. /\ Hashes = 1 .. n /\ Hashes' = 1 .. n + Len(new)
      /\ \A h \in 1 .. n : events'[h] = events[h]
      /\ \A h \in n + 1 .. n + Len(new) : events'[h] = new[h - n] /\ h - n \in 1 .. Len(new)
  BY <1>1, <1>2, <1>4 DEF Hashes
<1>6. \A h \in n + 1 .. n + Len(new) : events'[h].time = clock
  BY <1>3, <1>5
<1>7. visible \subseteq 1 .. n
  BY <1>5 DEF DataInv, LedgerOK
<1>8. \A h \in Hashes' : h \in 1 .. n \/ h \in n + 1 .. n + Len(new)
  BY <1>4, <1>5
<1>9. clock \in Nat /\ \A h \in 1 .. n : events[h].time \in Nat /\ events[h].time <= clock
  BY <1>5 DEF DataInv, LedgerOK, RowOK, Event, SerialInv, SerialLedger
<1>10. \A h \in Hashes' : events'[h].time <= clock
  BY <1>5, <1>6, <1>8, <1>9
<1>11. ASSUME NEW h \in Hashes', NEW k \in Hashes', h < k
       PROVE  events'[h].time <= events'[k].time
  <2>1. CASE k \in 1 .. n
    <3>1. h \in 1 .. n
      BY <1>4, <1>5, <1>11, <2>1
    <3> QED
      BY <1>5, <1>11, <2>1, <3>1 DEF SerialInv, SerialLedger
  <2>2. CASE k \in n + 1 .. n + Len(new)
    BY <1>6, <1>10, <2>2
  <2> QED
    BY <1>8, <2>1, <2>2
<1>12. /\ tx'[w].stage = "inserted" /\ tx'[w].hashes = n + 1 .. n + Len(new)
       /\ \A v \in Writers : v = w
  BY <1>2 DEF DataInv, LedgerOK, OneWriter
<1>13. \E i, j \in n + 1 .. n + Len(new) : n + 1 .. n + Len(new) = {i, j}
  <2>1. PICK m \in 1 .. 2 : m = Len(new)
    BY <1>4
  <2>2. /\ n + 1 \in n + 1 .. n + m /\ n + m \in n + 1 .. n + m
        /\ \A k \in n + 1 .. n + m : k = n + 1 \/ k = n + m
    BY <1>4
  <2>3. n + 1 .. n + m = {n + 1, n + m}
    BY <2>2
  <2> QED
    BY <2>1, <2>2, <2>3
<1>14. \A h \in visible, k \in n + 1 .. n + Len(new) : h < k
  BY <1>4, <1>7
<1>15. SerialLedger'
  BY <1>2, <1>10, <1>11, <1>12, <1>13, <1>14 DEF SerialLedger
<1>16. \A h \in visible : events'[h] = events[h]
  BY <1>5, <1>7
<1> QED
  BY <1>2, <1>15, <1>16, StreamStays DEF SerialInv

LEMMA SerialCommit ==
    ASSUME DataInv, SerialInv, OneWriter, NEW w \in Writers, Commit(w)
    PROVE  SerialInv'
<1>1. /\ tx[w].stage = "inserted" /\ visible' = visible \cup tx[w].hashes
      /\ tx' = [tx EXCEPT ![w] = NoTx]
      /\ UNCHANGED <<events, clock, rows, requests, copies, cursor, batch, stage>>
  BY DEF Commit, replicaVars
<1>2. \A h \in visible, k \in tx[w].hashes : h < k
  BY <1>1 DEF SerialInv, SerialLedger
<1>3. /\ tx[w].hashes \subseteq Hashes /\ visible \subseteq Hashes
      /\ \A k \in Hashes : k \in Nat /\ k > 0
  BY <1>1 DEF DataInv, LedgerOK, TxOK, Hashes
<1>4. SerialLedger'
  <2>1. \A v \in Writers : v = w /\ tx'[v].stage = "none"
    BY <1>1 DEF DataInv, LedgerOK, OneWriter, NoTx
  <2> QED
    BY <1>1, <2>1 DEF SerialInv, SerialLedger, Hashes
<1>5. \A h \in visible' \ visible : \A k \in visible \cup {0} : k < h
  <2> SUFFICES ASSUME NEW h \in tx[w].hashes, NEW k \in visible \cup {0} PROVE k < h
    BY <1>1
  <2>1. h > 0
    BY <1>3
  <2> QED
    BY <1>2, <1>3, <2>1
<1>6. batch \subseteq visible /\ cursor \in visible \cup {0}
  BY DEF DataInv, ReplicaOK
<1>7. batch # {} => First(batch) \in batch
  BY <1>3, <1>6, FirstIsLeast
<1>8. SerialStream'
  <2>1. \A h \in visible', k \in batch : cursor < h /\ h < k => h \in batch
    <3>1. \A h \in visible' \ visible, k \in batch : ~(h < k)
      <4> SUFFICES ASSUME NEW h \in visible' \ visible, NEW k \in batch PROVE ~(h < k)
        OBVIOUS
      <4>1. k < h /\ k \in Nat /\ h \in Nat
        BY <1>1, <1>3, <1>5, <1>6
      <4> QED
        BY <4>1
    <3> QED
      BY <3>1 DEF SerialInv, SerialStream
  <2>2. \A h \in visible' \ visible : ~(h <= cursor) /\ ~(stage = "save" /\ h = First(batch))
    <3>1. stage = "save" => batch # {}
      BY DEF DataInv, ReplicaOK
    <3> QED
      BY <1>1, <1>3, <1>5, <1>6, <1>7, <3>1
  <2> QED
    BY <1>1, <2>1, <2>2 DEF SerialInv, SerialStream, Copied
<1>9. PICK n \in visible \cup {0} : Shows(n) /\ Reached(n)
  BY DEF SerialInv, Shown
<1>10. \A h \in visible' \ visible : ~(h <= n) /\ n <= h
  BY <1>1, <1>3, <1>5, <1>9
<1>11. Shows(n)'
  BY <1>1, <1>9, <1>10, ShowsStays
<1>12. Reached(n)'
  BY <1>1, <1>9, <1>10 DEF Reached
<1>13. Shown'
  BY <1>1, <1>9, <1>11, <1>12 DEF Shown
<1> QED
  BY <1>4, <1>8, <1>13 DEF SerialInv

LEMMA SerialRollback ==
    ASSUME DataInv, SerialInv, OneWriter, NEW w \in Writers, Rollback(w)
    PROVE  SerialInv'
<1>1. /\ tx' = [tx EXCEPT ![w] = NoTx]
      /\ UNCHANGED <<events, visible, clock>> /\ UNCHANGED replicaVars
  BY DEF Rollback
<1>2. \A v \in Writers : v = w /\ tx'[v].stage = "none"
  BY <1>1 DEF DataInv, LedgerOK, OneWriter, NoTx
<1>3. SerialLedger'
  BY <1>1, <1>2 DEF SerialInv, SerialLedger, Hashes
<1> QED
  BY <1>1, <1>3, StreamStays DEF SerialInv

LEMMA LedgerSerial ==
    ASSUME SerialLedger, UNCHANGED ledgerVars PROVE SerialLedger'
  BY DEF SerialLedger, ledgerVars, Hashes

LEMMA SerialPoll ==
    ASSUME DataInv, SerialInv, Poll PROVE SerialInv'
<1>1. /\ stage = "poll" /\ batch' = {h \in visible : h > cursor} /\ stage' = "apply"
      /\ UNCHANGED ledgerVars /\ UNCHANGED <<events, visible>>
      /\ UNCHANGED <<rows, requests, copies, cursor>>
  BY DEF Poll, ledgerVars
<1>2. SerialStream'
  BY <1>1 DEF SerialInv, SerialStream, Copied
<1>3. PICK n \in visible \cup {0} : Shows(n) /\ Reached(n)
  BY DEF SerialInv, Shown
<1>4. Shows(n)'
  BY <1>1, <1>3, ShowsStays
<1>5. Reached(n)'
  BY <1>1, <1>3 DEF Reached
<1>6. Shown'
  BY <1>1, <1>3, <1>4, <1>5 DEF Shown
<1> QED
  BY <1>1, <1>2, <1>6, LedgerSerial DEF SerialInv

LEMMA SerialSave ==
    ASSUME DataInv, SerialInv, Save PROVE SerialInv'
<1>1. PICK h : h = First(batch)
  OBVIOUS
<1>2. /\ stage = "save" /\ cursor' = h /\ batch' = batch \ {h}
      /\ stage' \in {"poll", "apply"}
      /\ UNCHANGED ledgerVars /\ UNCHANGED <<events, visible>>
      /\ UNCHANGED <<rows, requests, copies>>
  BY <1>1 DEF Save, ledgerVars
<1>3. /\ h \in batch /\ h \in visible /\ h \in Nat /\ cursor < h /\ cursor \in Nat
      /\ \A k \in batch : h <= k
  BY <1>1, <1>2, BatchFirst
<1>4. visible \subseteq Nat /\ batch \subseteq visible
  BY DEF DataInv, LedgerOK, ReplicaOK, Hashes
<1>5. SerialStream'
  <2>1. ASSUME NEW i \in visible, NEW k \in batch \ {h}, h < i, i < k
        PROVE  i \in batch \ {h}
    <3>1. cursor < i
      BY <1>3, <1>4, <2>1
    <3> QED
      BY <1>3, <1>4, <2>1, <3>1 DEF SerialInv, SerialStream
  <2>2. ASSUME NEW i \in visible, Copied(events[i]), i <= h
        PROVE  copies[i] > 0
    <3>1. CASE i = h
      BY <1>1, <1>2, <2>2, <3>1 DEF SerialInv, SerialStream
    <3>2. CASE i <= cursor
      BY <2>2, <3>2 DEF SerialInv, SerialStream
    <3>3. CASE cursor < i /\ i < h
      <4>1. i \in batch
        BY <1>3, <3>3 DEF SerialInv, SerialStream
      <4> QED
        BY <1>3, <1>4, <3>3, <4>1
    <3> QED
      BY <1>3, <1>4, <2>2, <3>1, <3>2, <3>3
  <2> QED
    BY <1>2, <2>1, <2>2 DEF SerialStream, Copied
<1>6. PICK n \in visible \cup {0} : Shows(n) /\ Reached(n)
  BY DEF SerialInv, Shown
<1>7. n = h
  BY <1>1, <1>2, <1>6 DEF Reached
<1>8. Shows(h)'
  BY <1>2, <1>6, <1>7, ShowsStays
<1>9. Reached(h)'
  <2>1. h <= h /\ \A k \in visible : h < k => h <= k
    BY <1>3, <1>4
  <2> QED
    BY <1>2, <2>1 DEF Reached
<1>10. Shown'
  BY <1>2, <1>3, <1>8, <1>9 DEF Shown
<1> QED
  BY <1>2, <1>5, <1>10, LedgerSerial DEF SerialInv

LEMMA SerialInterrupt ==
    ASSUME DataInv, SerialInv, Interrupt PROVE SerialInv'
<1>1. /\ batch' = {} /\ stage' = "poll"
      /\ UNCHANGED ledgerVars /\ UNCHANGED <<events, visible>>
      /\ UNCHANGED <<rows, requests, copies, cursor>>
  BY DEF Interrupt, ledgerVars
<1>2. SerialStream'
  BY <1>1 DEF SerialInv, SerialStream, Copied
<1>3. PICK n \in visible \cup {0} : Shows(n) /\ Reached(n)
  BY DEF SerialInv, Shown
<1>4. Shows(n)'
  BY <1>1, <1>3, ShowsStays
<1>5. Reached(n)'
  BY <1>1, <1>3 DEF Reached
<1>6. Shown'
  BY <1>1, <1>3, <1>4, <1>5 DEF Shown
<1> QED
  BY <1>1, <1>2, <1>6, LedgerSerial DEF SerialInv

\* Applying the next event shows it, or changes nothing if it was applied before.
LEMMA ApplyNext ==
    ASSUME DataInv, SerialInv, Apply
    PROVE  \E h \in visible :
            /\ h = First(batch) /\ cursor < h
            /\ \A k \in visible : k < h <=> k <= cursor
            /\ Shows(h)'
            /\ Shows(cursor) \/ UNCHANGED <<rows, requests>>
            /\ Copied(events[h]) => copies'[h] > 0
            /\ \A k \in 1 .. MaxEvents : copies'[k] >= copies[k]
<1>1. stage = "apply" /\ UNCHANGED <<events, visible, cursor, batch>>
  BY DEF Apply, ledgerVars
<1>2. PICK h \in visible :
        /\ h = First(batch) /\ h \in batch /\ h \in Hashes /\ h \in Nat /\ h > 0
        /\ h \in 1 .. MaxEvents
        /\ cursor < h /\ cursor \in Nat /\ \A k \in batch : h <= k
  BY <1>1, BatchFirst
<1>3. visible \subseteq Hashes /\ \A k \in Hashes : k \in Nat /\ k > 0
  BY DEF DataInv, LedgerOK, Hashes
<1>4. \A k \in visible : k < h <=> k <= cursor
  <2> SUFFICES ASSUME NEW k \in visible, k < h, ~(k <= cursor) PROVE FALSE
    BY <1>2, <1>3
  <2>1. k \in batch
    BY <1>2, <1>3 DEF SerialInv, SerialStream
  <2> QED
    BY <1>2, <1>3, <2>1
<1>5. PICK n \in visible \cup {0} : Shows(n) /\ Reached(n)
  BY DEF SerialInv, Shown
<1>6. n = cursor \/ n = h
  <2>1. n <= h /\ cursor <= n /\ n \in Nat
    BY <1>2, <1>3, <1>5 DEF Reached
  <2>2. CASE n = 0
    BY <1>2, <2>1, <2>2
  <2>3. CASE n \in visible
    BY <1>2, <1>4, <2>1, <2>3
  <2> QED
    BY <2>2, <2>3
<1>7. PICK e : e = events[h]
  OBVIOUS
<1>8. RowOK(e) /\ e.block \in Blocks /\ e.time \in Nat
  BY <1>2, <1>7 DEF DataInv, LedgerOK, RowOK, Event
<1>9. ~Outdated(e)
  <2> SUFFICES ASSUME rows[e.block] # 0 PROVE ~(events[rows[e.block]].time > e.time)
    BY DEF Outdated
  <2>1. rows[e.block] \in visible /\ rows[e.block] \in Nat /\ rows[e.block] <= h
    <3>1. rows[e.block] \in visible
      BY <1>8 DEF DataInv, ReplicaOK
    <3>2. rows[e.block] <= n
      BY <1>5, <1>8 DEF Shows
    <3>3. rows[e.block] \in Nat
      BY <1>3, <3>1
    <3>4. n \in Nat /\ n <= h
      <4>1. cursor <= h /\ h <= h
        BY <1>2
      <4> QED
        BY <1>2, <1>6, <4>1
    <3> QED
      BY <1>2, <3>1, <3>2, <3>3, <3>4
  <2>2. events[rows[e.block]].time <= e.time
    <3>1. CASE rows[e.block] = h
      BY <1>7, <1>8, <3>1
    <3>2. CASE rows[e.block] < h
      BY <1>2, <1>3, <1>7, <2>1, <3>2 DEF SerialInv, SerialLedger
    <3> QED
      BY <1>2, <2>1, <3>1, <3>2
  <2>3. events[rows[e.block]].time \in Nat
    BY <1>3, <2>1 DEF DataInv, LedgerOK, RowOK, Event
  <2> QED
    BY <1>8, <2>2, <2>3
<1>10. /\ rows' = [rows EXCEPT ![e.block] = h]
       /\ RecordRequest(e)
       /\ copies' = [copies EXCEPT ![h] = IF Copied(e) THEN @ + 1 ELSE @]
  BY <1>2, <1>7, <1>9 DEF Apply
<1>11. /\ Copied(e) => copies'[h] > 0
       /\ \A k \in 1 .. MaxEvents : copies'[k] >= copies[k]
  <2>1. copies \in [1 .. MaxEvents -> Nat]
    BY DEF DataInv, ReplicaOK
  <2>2. copies'[h] = IF Copied(e) THEN copies[h] + 1 ELSE copies[h]
    BY <1>2, <1>10, <2>1
  <2>3. \A k \in 1 .. MaxEvents : k # h => copies'[k] = copies[k]
    BY <1>10, <2>1
  <2> QED
    BY <1>2, <2>1, <2>2, <2>3
<1>12. \A b \in Blocks : rows'[b] = IF b = e.block THEN h ELSE rows[b]
  BY <1>10 DEF DataInv, ReplicaOK
<1>13. \A r \in Requests :
        requests'[r] = IF r = e.req THEN StatusAfter[e.kind] ELSE requests[r]
  <2>1. e.req \in Requests => Records(e)
    <3>1. e.kind \in Deciding => DecisionAt(h, e.req)
      BY <1>2, <1>7 DEF DecisionAt
    <3> QED
      BY <1>2, <1>8, <3>1, ReplicatorAssumption
         DEF DataInv, RequestsOK, RowOK, Records, StatusAfter, Deciding
  <2>2. e.req \notin Requests => ~Records(e)
    BY <1>8 DEF RowOK, Event, Records, StatusAfter, Deciding
  <2>3. requests \in [Requests -> Statuses]
    BY DEF DataInv, ReplicaOK
  <2> QED
    BY <1>10, <2>1, <2>2, <2>3 DEF RecordRequest
<1>14. /\ \A b \in Blocks : b # e.block => BlockRows(b, h) = BlockRows(b, cursor)
       /\ \A r \in Requests : r # e.req => ReqRows(r, h) = ReqRows(r, cursor)
  <2>1. \A k \in visible : k # h => (k <= h <=> k <= cursor)
    BY <1>2, <1>3, <1>4
  <2>2. ~(h <= cursor)
    BY <1>2
  <2>3. ASSUME NEW b \in Blocks, b # e.block PROVE BlockRows(b, h) = BlockRows(b, cursor)
    <3>1. \A k \in visible : events[k].block = b => (k <= h <=> k <= cursor)
      BY <1>7, <2>1, <2>3
    <3> QED
      BY <3>1 DEF BlockRows
  <2>4. ASSUME NEW r \in Requests, r # e.req PROVE ReqRows(r, h) = ReqRows(r, cursor)
    <3>1. \A k \in visible : events[k].req = r => (k <= h <=> k <= cursor)
      BY <1>7, <2>1, <2>4
    <3> QED
      BY <3>1 DEF ReqRows
  <2> QED
    BY <2>3, <2>4
<1>15. Promise!Latest(BlockRows(e.block, h)) = h
  <2>1. h \in BlockRows(e.block, h) /\ BlockRows(e.block, h) \in SUBSET Nat
        /\ \A k \in BlockRows(e.block, h) : k <= h
    BY <1>2, <1>3, <1>7 DEF BlockRows
  <2> QED
    BY <2>1, LatestLast
<1>16. StatusAt(e.req, h) = StatusAfter[e.kind]
  <2>1. h \in ReqRows(e.req, h) /\ ReqRows(e.req, h) \in SUBSET Nat
        /\ \A k \in ReqRows(e.req, h) : k <= h
    BY <1>2, <1>3, <1>7 DEF ReqRows
  <2>2. Promise!Latest(ReqRows(e.req, h)) = h
    BY <2>1, LatestLast
  <2> QED
    BY <1>7, <2>1, <2>2 DEF StatusAt
<1>17. /\ \A b \in Blocks : rows'[b] = Promise!Latest(BlockRows(b, h)) /\ rows'[b] <= h
       /\ \A r \in Requests : requests'[r] = StatusAt(r, h)
       /\ Shows(cursor) \/ UNCHANGED <<rows, requests>>
  <2>1. CASE n = h
    <3>1. Shows(h)
      BY <1>5, <2>1
    <3>2. \A b \in Blocks : rows'[b] = rows[b]
      BY <1>8, <1>12, <1>15, <3>1 DEF Shows
    <3>3. \A r \in Requests : requests'[r] = requests[r]
      BY <1>13, <1>16, <3>1 DEF Shows
    <3>4. rows' = rows
      BY <1>10, <3>2 DEF DataInv, ReplicaOK
    <3>5. requests' = requests
      <4>1. requests' = [r \in Requests |-> requests'[r]] /\ requests = [r \in Requests |-> requests[r]]
        BY <1>10 DEF RecordRequest, DataInv, ReplicaOK
      <4> QED
        BY <3>3, <4>1
    <3> QED
      BY <3>1, <3>4, <3>5 DEF Shows
  <2>2. CASE n = cursor
    <3>1. Shows(cursor)
      BY <1>5, <2>2
    <3>2. \A r \in Requests : r # e.req => StatusAt(r, h) = StatusAt(r, cursor)
      BY <1>14 DEF StatusAt
    <3>3. \A b \in Blocks : rows[b] \in Nat
      BY <1>3 DEF DataInv, ReplicaOK
    <3>4. \A b \in Blocks : rows'[b] = Promise!Latest(BlockRows(b, h)) /\ rows'[b] <= h
      BY <1>2, <1>12, <1>14, <1>15, <3>1, <3>3 DEF Shows
    <3>5. \A r \in Requests : requests'[r] = StatusAt(r, h)
      BY <1>13, <1>16, <3>1, <3>2 DEF Shows
    <3> QED
      BY <3>1, <3>4, <3>5
  <2> QED
    BY <1>6, <2>1, <2>2
<1>18. Shows(h)'
  <2>1. /\ \A b \in Blocks : BlockRows(b, h)' = BlockRows(b, h)
        /\ \A r \in Requests : StatusAt(r, h)' = StatusAt(r, h)
    BY <1>1 DEF BlockRows, ReqRows, StatusAt
  <2> QED
    BY <1>17, <2>1 DEF Shows
<1> QED
  BY <1>2, <1>4, <1>7, <1>11, <1>17, <1>18

LEMMA SerialApply ==
    ASSUME DataInv, SerialInv, Apply PROVE SerialInv'
<1>1. /\ stage = "apply" /\ stage' = "save" /\ UNCHANGED ledgerVars
      /\ UNCHANGED <<events, visible, cursor, batch>>
  BY DEF Apply, ledgerVars
<1>2. PICK h \in visible :
        /\ h = First(batch) /\ cursor < h
        /\ \A k \in visible : k < h <=> k <= cursor
        /\ Shows(h)'
        /\ Copied(events[h]) => copies'[h] > 0
        /\ \A k \in 1 .. MaxEvents : copies'[k] >= copies[k]
  BY ApplyNext
<1>3. visible \subseteq 1 .. MaxEvents /\ visible \subseteq Nat /\ cursor \in Nat
  BY ReplicatorAssumption DEF DataInv, LedgerOK, ReplicaOK, Hashes
<1>4. copies \in [1 .. MaxEvents -> Nat] /\ copies' \in [1 .. MaxEvents -> Nat]
  BY DataApply DEF DataInv, ReplicaOK
<1>5. SerialStream'
  <2>1. ASSUME NEW k \in visible, Copied(events[k]), k <= cursor \/ k = h
        PROVE  copies'[k] > 0
    <3>1. CASE k = h
      BY <1>2, <2>1, <3>1
    <3>2. CASE k <= cursor
      <4>1. copies[k] > 0
        BY <2>1, <3>2 DEF SerialInv, SerialStream
      <4> QED
        BY <1>2, <1>3, <1>4, <4>1
    <3> QED
      BY <2>1, <3>1, <3>2
  <2> QED
    BY <1>1, <1>2, <2>1 DEF SerialInv, SerialStream, Copied
<1>6. Reached(h)'
  BY <1>1, <1>2, <1>3 DEF Reached
<1>7. Shown'
  BY <1>1, <1>2, <1>6 DEF Shown
<1> QED
  BY <1>1, <1>5, <1>7, LedgerSerial DEF SerialInv

LEMMA SerialStep ==
    ASSUME DataInv, DataInv', SerialInv, OneWriter, [Next]_vars
    PROVE  SerialInv'
<1>1. CASE UNCHANGED vars
  <2>1. UNCHANGED ledgerVars /\ UNCHANGED replicaVars /\ UNCHANGED <<events, visible>>
    BY <1>1 DEF vars, ledgerVars
  <2> QED
    BY <2>1, LedgerSerial, StreamStays DEF SerialInv
<1>2. CASE \E w \in Writers : Compute(w) \/ Insert(w) \/ Commit(w) \/ Rollback(w)
  BY <1>2, SerialCompute, SerialInsert, SerialCommit, SerialRollback
<1> QED
  BY <1>1, <1>2, SerialPoll, SerialApply, SerialSave, SerialInterrupt DEF Next

-----------------------------------------------------------------------------
(* Refinement of ReplicaPromise. *)

LEMMA ViewIs ==
    ASSUME DataInv, NEW n, NEW rr, NEW qq,
           rr = [b \in Blocks |-> Promise!Latest(BlockRows(b, n))],
           qq = [r \in Requests |-> StatusAt(r, n)]
    PROVE  [rows |-> rr, requests |-> qq] = Promise!ViewOf({k \in visible : k <= n})
<1>1. PICK S : S = {k \in visible : k <= n}
  OBVIOUS
<1>2. \A h \in visible : Committed[h] = events[h]
  BY DEF Committed
<1>3. \A b \in Blocks : {h \in S : Committed[h].block = b} = BlockRows(b, n)
  BY <1>1, <1>2 DEF BlockRows
<1>4. \A r \in Requests : {h \in S : Committed[h].req = r} = ReqRows(r, n)
  BY <1>1, <1>2 DEF ReqRows
<1>5. ASSUME NEW r \in Requests
      PROVE  (IF {h \in S : Committed[h].req = r} = {} THEN "NONE"
              ELSE Promise!RequestStatus[
                     Committed[Promise!Latest({h \in S : Committed[h].req = r})].kind])
             = StatusAt(r, n)
  <2>1. CASE ReqRows(r, n) = {}
    BY <1>4, <2>1 DEF StatusAt
  <2>2. CASE ReqRows(r, n) # {}
    <3>1. Promise!Latest(ReqRows(r, n)) \in visible
      BY <2>2, ReqRowsLatest DEF ReqRows
    <3> QED
      BY <1>2, <1>4, <2>2, <3>1 DEF StatusAt, Promise!RequestStatus, StatusAfter
  <2> QED
    BY <2>1, <2>2
<1>6. rr = [b \in Blocks |-> Promise!Latest({h \in S : Committed[h].block = b})]
  BY <1>3
<1> QED
  BY <1>1, <1>5, <1>6 DEF Promise!ViewOf

\* A commit appends to the log of the promise.
LEMMA CommitAppends ==
    ASSUME DataInv, SerialInv, NEW w \in Writers, Commit(w)
    PROVE  Promise!Append2
<1>1. /\ tx[w].stage = "inserted" /\ visible' = visible \cup tx[w].hashes
      /\ UNCHANGED <<events, rows, requests>>
  BY DEF Commit, replicaVars
<1>2. /\ \E i, j \in tx[w].hashes : tx[w].hashes = {i, j}
      /\ \A h \in visible, k \in tx[w].hashes : h < k
  BY <1>1 DEF SerialInv, SerialLedger
<1>3. /\ tx[w].hashes \subseteq Hashes /\ visible \subseteq Hashes
      /\ \A k \in Hashes : k \in Nat
  BY <1>1 DEF DataInv, LedgerOK, TxOK, Hashes
<1>4. DOMAIN Committed = visible /\ DOMAIN Committed' = visible'
  BY DEF Committed
<1>5. \A h \in visible : h \notin tx[w].hashes
  <2> SUFFICES ASSUME NEW h \in visible, h \in tx[w].hashes PROVE FALSE
    OBVIOUS
  <2>1. h < h /\ h \in Nat
    BY <1>2, <1>3
  <2> QED
    BY <2>1
<1>6. DOMAIN Committed' \ DOMAIN Committed = tx[w].hashes
  BY <1>1, <1>4, <1>5
<1>7. \A h \in visible : h \in visible' /\ Committed'[h] = Committed[h]
  BY <1>1 DEF Committed
<1>8. \E i, j \in DOMAIN Committed' \ DOMAIN Committed :
        DOMAIN Committed' = DOMAIN Committed \cup {i, j}
  BY <1>1, <1>2, <1>4, <1>6
<1>9. UNCHANGED [rows |-> rows, requests |-> requests]
  BY <1>1
<1> QED
  BY <1>2, <1>4, <1>6, <1>7, <1>8, <1>9 DEF Promise!Append2

\* Applying an event moves what the replica shows on to it, or leaves it.
LEMMA ApplyAdvances ==
    ASSUME DataInv, SerialInv, Apply
    PROVE  Promise!Advance \/ UNCHANGED Promise!promiseVars
<1>1. UNCHANGED <<events, visible>>
  BY DEF Apply, ledgerVars
<1>2. PICK h \in visible :
        /\ cursor < h
        /\ \A k \in visible : k < h <=> k <= cursor
        /\ Shows(h)'
        /\ Shows(cursor) \/ UNCHANGED <<rows, requests>>
  BY ApplyNext
<1>3. UNCHANGED Committed
  BY <1>1 DEF Committed
<1>4. CASE UNCHANGED <<rows, requests>>
  BY <1>3, <1>4 DEF Promise!promiseVars
<1>5. CASE Shows(cursor)
  <2>1. /\ rows = [b \in Blocks |-> rows[b]] /\ requests = [r \in Requests |-> requests[r]]
        /\ rows' = [b \in Blocks |-> rows'[b]]
        /\ requests' = [r \in Requests |-> requests'[r]]
    BY DataApply DEF DataInv, ReplicaOK
  <2>2. visible \subseteq Nat
    BY DEF DataInv, LedgerOK, Hashes
  <2>3. PICK before : before = {k \in visible : k <= cursor}
    OBVIOUS
  <2>4. Promise!Before(h) = before
    BY <1>2, <2>3 DEF Promise!Before, Committed
  <2>5. {k \in visible : k <= h} = before \cup {h}
    <3>1. h \in Nat /\ \A k \in visible : k \in Nat /\ (k <= h <=> k < h \/ k = h)
      BY <2>2
    <3> QED
      BY <1>2, <2>3, <3>1
  <2>6. [rows |-> rows, requests |-> requests] = Promise!ViewOf(before)
    <3>1. rows = [b \in Blocks |-> Promise!Latest(BlockRows(b, cursor))]
      BY <1>5, <2>1 DEF Shows
    <3>2. requests = [r \in Requests |-> StatusAt(r, cursor)]
      BY <1>5, <2>1 DEF Shows
    <3> QED
      BY <2>3, <3>1, <3>2, ViewIs
  <2>7. [rows |-> rows', requests |-> requests'] = Promise!ViewOf(before \cup {h})
    <3>1. /\ \A b \in Blocks : BlockRows(b, h)' = BlockRows(b, h)
          /\ \A r \in Requests : StatusAt(r, h)' = StatusAt(r, h)
      BY <1>1 DEF BlockRows, ReqRows, StatusAt
    <3>2. /\ \A b \in Blocks : rows'[b] = Promise!Latest(BlockRows(b, h))
          /\ \A r \in Requests : requests'[r] = StatusAt(r, h)
      BY <1>2, <3>1 DEF Shows
    <3>3. rows' = [b \in Blocks |-> Promise!Latest(BlockRows(b, h))]
      BY <2>1, <3>2
    <3>4. requests' = [r \in Requests |-> StatusAt(r, h)]
      BY <2>1, <3>2
    <3> QED
      BY <2>5, <3>3, <3>4, ViewIs
  <2> QED
    BY <1>2, <1>3, <2>4, <2>6, <2>7 DEF Promise!Advance, Committed
<1> QED
  BY <1>2, <1>4, <1>5

\* Every other step changes neither the log nor what the replica shows.
LEMMA PromiseStep ==
    ASSUME DataInv, SerialInv, [Next]_vars
    PROVE  [Promise!Next]_(Promise!promiseVars)
<1>1. CASE \E w \in Writers : Commit(w)
  BY <1>1, CommitAppends DEF Promise!Next
<1>2. CASE Apply
  BY <1>2, ApplyAdvances DEF Promise!Next
<1>3. CASE \E w \in Writers : Insert(w)
  <2>1. PICK w \in Writers : Insert(w)
    BY <1>3
  <2>2. tx[w].stage = "computed" /\ events' = events \o tx[w].new
        /\ UNCHANGED <<visible, rows, requests>>
    BY <2>1 DEF Insert, replicaVars
  <2>3. PICK new : new = tx[w].new
    OBVIOUS
  <2>4. new \in Seq(Event) /\ events \in Seq(Event) /\ visible \subseteq 1 .. Len(events)
    BY <2>2, <2>3 DEF DataInv, LedgerOK, TxOK, NewOK, Hashes
  <2>5. \A h \in visible : events'[h] = events[h]
    BY <2>2, <2>3, <2>4
  <2>6. Committed' = Committed
    BY <2>2, <2>5 DEF Committed
  <2> QED
    BY <2>2, <2>6 DEF Promise!promiseVars
<1>4. CASE UNCHANGED <<events, visible, rows, requests>>
  BY <1>4 DEF Promise!promiseVars, Committed
<1>5. \/ \E w \in Writers : Commit(w) \/ Insert(w)
      \/ Apply
      \/ UNCHANGED <<events, visible, rows, requests>>
  BY DEF Next, vars, ledgerVars, replicaVars, Compute, Rollback, Poll, Save, Interrupt
<1> QED
  BY <1>1, <1>2, <1>3, <1>4, <1>5

LEMMA PromiseInit == Init => Promise!Init
<1> SUFFICES ASSUME Init PROVE Promise!Init
  OBVIOUS
<1>1. /\ visible = {} /\ rows = [b \in Blocks |-> 0]
      /\ requests = [r \in Requests |-> "NONE"]
  BY DEF Init
<1>2. DOMAIN Committed = {}
  BY <1>1 DEF Committed
<1>3. /\ \A b \in Blocks : Promise!Latest({h \in {} : Committed[h].block = b}) = 0
      /\ \A r \in Requests : {h \in {} : Committed[h].req = r} = {}
  BY DEF Promise!Latest
<1> QED
  BY <1>1, <1>2, <1>3 DEF Promise!Init, Promise!ViewOf


\* Without overlapping ledger transactions, the replica shows the events up to
\* the cursor or the one behind it, and those alone.
THEOREM SerialInvariant == OneWriter => (Spec => [](DataInv /\ SerialInv))
<1> SUFFICES ASSUME OneWriter PROVE Spec => [](DataInv /\ SerialInv)
  OBVIOUS
<1>1. Init => DataInv /\ SerialInv
  BY DataInit, SerialInit
<1>2. DataInv /\ SerialInv /\ [Next]_vars => (DataInv /\ SerialInv)'
  BY DataStep, SerialStep
<1> QED
  BY <1>1, <1>2, PTL DEF Spec

\* An event behind the cursor has its transaction and AEF records.
THEOREM AppliedAreRecorded == OneWriter => (Spec => []AppliedIsRecorded)
<1> SUFFICES ASSUME OneWriter PROVE Spec => []AppliedIsRecorded
  OBVIOUS
<1>1. DataInv /\ SerialInv => AppliedIsRecorded
  <2> SUFFICES ASSUME DataInv, SerialInv, NEW h \in visible,
                      h <= cursor, Copied(events[h])
               PROVE  copies[h] >= 1
    BY DEF AppliedIsRecorded
  <2>1. copies[h] > 0
    BY DEF SerialInv, SerialStream
  <2>2. copies[h] \in Nat
    <3>1. h \in 1 .. MaxEvents
      BY ReplicatorAssumption DEF DataInv, LedgerOK, Hashes
    <3> QED
      BY <3>1 DEF DataInv, ReplicaOK
  <2> QED
    BY <2>1, <2>2
<1> QED
  BY <1>1, SerialInvariant, PTL

\* The safety part of the promise: the operational database shows a past state
\* of the ledger at every moment and moves forward one event at a time.
THEOREM ShowsPastStates ==
    OneWriter => (Spec => Promise!Init /\ [][Promise!Next]_(Promise!promiseVars))
<1> SUFFICES ASSUME OneWriter
             PROVE  Spec => Promise!Init /\ [][Promise!Next]_(Promise!promiseVars)
  OBVIOUS
<1>1. (DataInv /\ SerialInv) /\ [Next]_vars => [Promise!Next]_(Promise!promiseVars)
  BY PromiseStep
<1> QED
  BY <1>1, PromiseInit, SerialInvariant, PTL DEF Spec
=============================================================================
