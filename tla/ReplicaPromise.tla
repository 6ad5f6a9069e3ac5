--------------------------- MODULE ReplicaPromise ---------------------------
(***************************************************************************)
(* What the operational database promises about the credit blocks: it      *)
(* shows a past state of the ledger, moves forward one event at a time and *)
(* catches up ("Eventually replicated to this from primary database via    *)
(* data stream", README.md:206).  CreditReplicator is checked to keep this *)
(* promise.                                                                *)
(***************************************************************************)
EXTENDS Integers

CONSTANTS Blocks, Requests

VARIABLES
    log,   \* log[h]: the committed credit block event with hash h
    view   \* what the operational database shows

promiseVars == <<log, view>>

Kinds == {"ISSUE", "TRANSFER", "SPLIT", "RETIRE_REQ", "ACCEPT", "DECLINE"}

\* An event carries a whole block row; here the row is the event itself.
Event == [block: Blocks, kind: Kinds, req: Requests \cup {"none"}, time: Nat]

\* Credit transaction of a retirement request, by the event that wrote it last.
RequestStatus ==
    [RETIRE_REQ |-> "PENDING", ACCEPT |-> "COMPLETED", DECLINE |-> "DECLINED"]

Latest(S) == IF S = {} THEN 0 ELSE CHOOSE h \in S : \A k \in S : k <= h

\* What a replica shows that has applied the events with the hashes in S.
ViewOf(S) ==
    [rows |-> [b \in Blocks |-> Latest({h \in S : log[h].block = b})],
     requests |-> [r \in Requests |->
        LET about == {h \in S : log[h].req = r}
        IN  IF about = {} THEN "NONE" ELSE RequestStatus[log[Latest(about)].kind]]]

Before(h) == {k \in DOMAIN log : k < h}

Init == DOMAIN log = {} /\ view = ViewOf({})

\* A ledger transaction commits one event, or two when it splits a block.
Append2 ==
    /\ \E h, k \in DOMAIN log' \ DOMAIN log :
        DOMAIN log' = DOMAIN log \cup {h, k}
    /\ \A h \in DOMAIN log :
        /\ h \in DOMAIN log' /\ log'[h] = log[h]
        /\ \A k \in DOMAIN log' \ DOMAIN log : h < k
    /\ UNCHANGED view

Advance ==
    /\ \E h \in DOMAIN log :
        view = ViewOf(Before(h)) /\ view' = ViewOf(Before(h) \cup {h})
    /\ UNCHANGED log

Next == Append2 \/ Advance

CaughtUp == view = ViewOf(DOMAIN log)

Spec == Init /\ [][Next]_promiseVars /\ []<>CaughtUp
=============================================================================
