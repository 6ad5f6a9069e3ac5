------------------------- MODULE CertificateIssuance -------------------------
(***************************************************************************)
(* Requests of project developers to turn credits into certificates        *)
(* (certificate-issuance-request/certificate.issuance.request.service.ts), *)
(* composed with the registry they issue into.                             *)
(*                                                                         *)
(* An approval is four steps with no transaction around them: the request  *)
(* is read, a new lot is saved, its ISSUED event is recorded under the key *)
(* of the request, and the request is saved.  Its officer can die between  *)
(* any two of them and approve again later; managers of the registry work  *)
(* on the same lots meanwhile.                                             *)
(***************************************************************************)
EXTENDS CertificateRegistry

CONSTANTS
    Requests,    \* identifiers of requests
    Blocks,      \* credit blocks requests are made for
    Managers,    \* the Callers behind the registry management screens
    Officers,    \* the Callers that decide requests
    IssueKey     \* IssueKey[r]: the key cert-issue-<r>

ASSUME IssuanceAssumption ==
    /\ Callers = Managers \cup Officers
    /\ Managers \cap Officers = {}
    /\ IssueKey \in [Requests -> Keys]
    /\ \A r, s \in Requests : r # s => IssueKey[r] # IssueKey[s]
    /\ \A o \in Officers : \A r \in Requests : IssueKey[r] \in KeysOf[o]
    /\ \A m \in Managers : \A r \in Requests : IssueKey[r] \notin KeysOf[m]

VARIABLES
    requests,   \* table certificate_issuance_request
    approval    \* approval[o]: what officer o holds in memory

issuanceVars == <<lots, portions, events, call, requests, approval>>

Idle == [step |-> "idle", request |-> None, lot |-> None]

-----------------------------------------------------------------------------
\* requestCertificateIssuance: one pending request per credit block.  The
\* block offers the quantity or the call is refused; it keeps no trace of it.
Request(r, b, q, w) ==
    /\ r \notin DOMAIN requests
    /\ \A s \in DOMAIN requests :
        requests[s].block = b => requests[s].status # "PENDING"
    /\ requests' = With(requests, r,
                      [block |-> b, quantity |-> q, company |-> w,
                       status |-> "PENDING", lot |-> None])
    /\ UNCHANGED <<lots, portions, events, call, approval>>

\* actionCertificateIssuanceRequest with REJECT.
Reject(o, r) ==
    /\ approval[o].step = "idle" /\ call[o] = None
    /\ r \in DOMAIN requests /\ requests[r].status = "PENDING"
    /\ requests' = [requests EXCEPT ![r].status = "REJECTED"]
    /\ UNCHANGED <<lots, portions, events, call, approval>>

\* ... with APPROVE: the request is read and must be pending ...
StartApproval(o, r) ==
    /\ approval[o].step = "idle" /\ call[o] = None
    /\ r \in DOMAIN requests /\ requests[r].status = "PENDING"
    /\ approval' = [approval EXCEPT ![o] =
                        [step |-> "lot", request |-> r, lot |-> None]]
    /\ UNCHANGED <<lots, portions, events, call, requests>>

\* ... a lot with a random identifier is saved ...
SaveLot(o, l) ==
    /\ approval[o].step = "lot"
    /\ l \notin DOMAIN lots
    /\ lots' = With(lots, l, Draft(requests[approval[o].request].quantity))
    /\ approval' = [approval EXCEPT ![o].step = "submit", ![o].lot = l]
    /\ UNCHANGED <<portions, events, call, requests>>

IssueCommand(o) ==
    LET r == approval[o].request
    IN [key |-> IssueKey[r], lot |-> approval[o].lot, type |-> "ISSUED",
        quantity |-> requests[r].quantity, source |-> None, parent |-> None,
        to |-> requests[r].company]

\* ... recordEvent looks up the key of the request: it is new ...
SubmitIssue(o) ==
    /\ approval[o].step = "submit"
    /\ Submit(o, IssueCommand(o))
    /\ approval' = [approval EXCEPT ![o].step = "record"]
    /\ UNCHANGED <<lots, portions, events, requests>>

\* Mutant: a used key is taken for a retry of this approval.
ConflictingIssueMutant(o) ==
    /\ approval[o].step = "submit"
    /\ IssueKey[approval[o].request] \in DOMAIN events
    /\ approval' = [approval EXCEPT ![o].step = "save"]
    /\ UNCHANGED <<lots, portions, events, call, requests>>

\* ... or an earlier approval used it for its own lot: a conflict.
ConflictingIssue(o) ==
    /\ approval[o].step = "submit"
    /\ IssueKey[approval[o].request] \in DOMAIN events
    /\ approval' = [approval EXCEPT ![o] = Idle]
    /\ UNCHANGED <<lots, portions, events, call, requests>>

RecordIssue(o) ==
    /\ approval[o].step = "record"
    /\ Record(o)
    /\ approval' = [approval EXCEPT ![o].step = "save"]
    /\ UNCHANGED requests

\* ... and the request is saved from memory, whatever its row says now.
SaveApproved(o) ==
    /\ approval[o].step = "save"
    /\ requests' = [requests EXCEPT ![approval[o].request].status = "APPROVED",
                                    ![approval[o].request].lot = approval[o].lot]
    /\ approval' = [approval EXCEPT ![o] = Idle]
    /\ UNCHANGED <<lots, portions, events, call>>

\* The process of the officer dies or a step of the approval throws.
AbandonApproval(o) ==
    /\ approval[o].step # "idle"
    /\ approval' = [approval EXCEPT ![o] = Idle]
    /\ call' = [call EXCEPT ![o] = None]
    /\ UNCHANGED <<lots, portions, events, requests>>

-----------------------------------------------------------------------------
IssuanceInit ==
    /\ RegistryInit
    /\ requests = <<>>
    /\ approval = [o \in Officers |-> Idle]

RegistryStep ==
    /\ RegistryNext(Managers)
    /\ UNCHANGED <<requests, approval>>

ApprovalStep(o) ==
    \/ \E r \in Requests : StartApproval(o, r) \/ Reject(o, r)
    \/ \E l \in LotIds : SaveLot(o, l)
    \/ SubmitIssue(o) \/ ConflictingIssue(o)
    \/ RecordIssue(o) \/ SaveApproved(o)
    \/ AbandonApproval(o)

IssuanceNext ==
    \/ \E r \in Requests, b \in Blocks, q \in Quantities, w \in Companies :
        Request(r, b, q, w)
    \/ \E o \in Officers : ApprovalStep(o)
    \/ RegistryStep

IssuanceSpec == IssuanceInit /\ [][IssuanceNext]_issuanceVars

-----------------------------------------------------------------------------
(* Properties.                                                              *)

LotType == [issued : Quantities, issuedAt : BOOLEAN, archived : BOOLEAN]
PortionType == [lot : LotIds, owner : Companies, state : PortionStates,
                quantity : Nat \ {0}]
EventType == [lot : LotIds, type : EventTypes \cup {"ISSUED"},
              quantity : Quantities, source : Keys \cup {None},
              parent : Keys \cup {None}, fromOwner : Companies \cup {None},
              toOwner : Companies, fromState : PortionStates \cup {None},
              toState : PortionStates]
RequestType == [block : Blocks, quantity : Quantities, company : Companies,
                status : {"PENDING", "APPROVED", "REJECTED"},
                lot : LotIds \cup {None}]

\* Types: every certificate has an owner although the column may be null, no
\* portion is empty, and a pending request has no lot.
TypeOK ==
    /\ DOMAIN lots \subseteq LotIds
    /\ \A l \in DOMAIN lots : lots[l] \in LotType
    /\ DOMAIN portions \subseteq DOMAIN events /\ DOMAIN events \subseteq Keys
    /\ \A k \in DOMAIN portions : portions[k] \in PortionType
    /\ \A k \in DOMAIN events : events[k] \in EventType
    /\ call \in [Callers -> Command \cup {None}]
    /\ DOMAIN requests \subseteq Requests
    /\ \A r \in DOMAIN requests :
        /\ requests[r] \in RequestType
        /\ (requests[r].lot # None) <=> (requests[r].status = "APPROVED")
    /\ approval \in [Officers -> [step : {"idle", "lot", "submit", "record", "save"},
                                  request : Requests \cup {None},
                                  lot : LotIds \cup {None}]]

\* "Portions are a replaceable current-state projection": the portions are
\* what replaying the journal gives, each event's quantity less what later
\* events took from it.
ProjectionOfJournal ==
    LET takers(k) == {e \in DOMAIN events : events[e].source = k}
        left(k) == events[k].quantity -
            SumFunction([e \in takers(k) |-> events[e].quantity])
    IN portions = [k \in {j \in DOMAIN events : left(j) # 0} |->
                    [lot |-> events[k].lot, owner |-> events[k].toOwner,
                     state |-> events[k].toState, quantity |-> left(k)]]

\* "The issued quantity is the immutable supply ceiling": from its issue on a
\* lot holds exactly that many certificates, before it none, and no lot is
\* issued twice.
SupplyIsConserved ==
    \A l \in DOMAIN lots :
        /\ QuantityOf(portions, l) = IF lots[l].issuedAt THEN lots[l].issued ELSE 0
        /\ Cardinality({k \in Held(events, l) : events[k].type = "ISSUED"})
            = IF lots[l].issuedAt THEN 1 ELSE 0

\* "Immutable event journal": no step changes or removes a recorded event,
\* although save() would overwrite one.
JournalIsImmutable ==
    [][\A k \in DOMAIN events :
        k \in DOMAIN events' /\ events'[k] = events[k]]_issuanceVars

InState(ps, l, s) ==
    SumFunction([k \in {h \in Held(ps, l) : ps[h].state = s} |-> ps[k].quantity])

\* Retired and cancelled certificates come back only by the reversal of an
\* event that retired or cancelled as many in the same lot.
FinalUnlessReversed ==
    [][\A l \in DOMAIN lots, s \in {"RETIRED", "CANCELLED"} :
        InState(portions', l, s) < InState(portions, l, s) =>
            \E k \in DOMAIN events' \ DOMAIN events :
                /\ events'[k].type = "REVERSED"
                /\ events[events'[k].parent].toState = s
                /\ InState(portions, l, s) - InState(portions', l, s)
                    = events[events'[k].parent].quantity]_issuanceVars

\* An approved request has its certificates: the lot it names was issued under
\* its key, in the quantity and to the company of the request.  However often
\* approvals die and are repeated, a request issues one lot.
ApprovedIsIssued ==
    \A r \in DOMAIN requests : requests[r].status = "APPROVED" =>
        /\ IssueKey[r] \in DOMAIN events
        /\ LET e == events[IssueKey[r]]
           IN /\ e.lot = requests[r].lot
              /\ e.quantity = requests[r].quantity
              /\ e.toOwner = requests[r].company
              /\ lots[e.lot].issued = requests[r].quantity
=============================================================================
