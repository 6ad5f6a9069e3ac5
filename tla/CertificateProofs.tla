-------------------------- MODULE CertificateProofs --------------------------
(***************************************************************************)
(* Proofs about CertificateIssuance for any lots, companies, callers and   *)
(* requests, provided that no two calls carry the same key (OwnKeys).      *)
(*                                                                         *)
(* The key is looked up before the lot is locked, so no property is        *)
(* inductive: KeysInFlight says that the key of a call on its way is still *)
(* new, ApprovalsInFlight what an approval has already done.  RegistryInv, *)
(* SupplyInv and Projected add what lots, portions and events know of each *)
(* other; an issue is refused by a lot with portions, so SupplyInv needs   *)
(* that a lot once issued never loses its last one.                        *)
(***************************************************************************)
EXTENDS CertificateIssuance, SumFacts

KeysInFlight ==
    /\ DOMAIN call = Callers
    /\ \A c \in Callers : call[c] # None => call[c].key \in KeysOf[c] \ DOMAIN events

\* The certificates of request r are in lot l.
IssuedAs(r, l) ==
    /\ IssueKey[r] \in DOMAIN events
    /\ events[IssueKey[r]].lot = l
    /\ events[IssueKey[r]].quantity = requests[r].quantity
    /\ events[IssueKey[r]].toOwner = requests[r].company
    /\ l \in DOMAIN lots
    /\ lots[l].issued = requests[r].quantity

ApprovalOK(o) ==
    /\ approval[o].step # "idle" =>
        approval[o].request \in Requests \cap DOMAIN requests
    /\ approval[o].step \in {"submit", "record", "save"} =>
        approval[o].lot \in LotIds
    /\ approval[o].step = "record" =>
        /\ call[o].key = IssueKey[approval[o].request]
        /\ call[o].lot = approval[o].lot
        /\ call[o].type = "ISSUED"
        /\ call[o].quantity = requests[approval[o].request].quantity
        /\ call[o].to = requests[approval[o].request].company
    /\ approval[o].step = "save" =>
        IssuedAs(approval[o].request, approval[o].lot)

ApprovalType == [step : {"idle", "lot", "submit", "record", "save"},
                 request : Requests \cup {None}, lot : LotIds \cup {None}]

Tables ==
    /\ lots \in [DOMAIN lots -> LotType]
    /\ requests \in [DOMAIN requests -> RequestType]
    /\ approval \in [Officers -> ApprovalType]

ApprovedIssued ==
    \A r \in DOMAIN requests : requests[r].status = "APPROVED" =>
        r \in Requests /\ IssuedAs(r, requests[r].lot)

ApprovalsInFlight == \A o \in Officers : ApprovalOK(o)

IInv ==
    /\ KeysInFlight
    /\ Tables
    /\ ApprovedIssued
    /\ ApprovalsInFlight

-----------------------------------------------------------------------------
(***************************************************************************)
(* The journal.                                                            *)
(***************************************************************************)
\* An event under a new key leaves the others alone.
LEMMA RecordEvents ==
    ASSUME KeysInFlight, NEW c \in Callers, Record(c)
    PROVE  /\ call[c].key \in KeysOf[c] /\ call[c].key \notin DOMAIN events
           /\ DOMAIN events' = DOMAIN events \cup {call[c].key}
           /\ events'[call[c].key] = EventOf(call[c])
           /\ \A k \in DOMAIN events : events'[k] = events[k]
<1>1. call[c].key \in KeysOf[c] /\ call[c].key \notin DOMAIN events
  BY DEF KeysInFlight, Record
<1>2. events' = With(events, call[c].key, EventOf(call[c]))
  BY DEF Record, Apply
<1>3. PICK k, e : k = call[c].key /\ e = EventOf(call[c])
  OBVIOUS
<1>4. events' = With(events, k, e)
  BY <1>2, <1>3
<1>5. /\ DOMAIN events' = DOMAIN events \cup {k}
      /\ events'[k] = e
      /\ \A j \in DOMAIN events : j # k => events'[j] = events[j]
  BY <1>4 DEF With
<1>. QED
  BY <1>1, <1>3, <1>5

LEMMA RecordKeys ==
    ASSUME OwnKeys, KeysInFlight, NEW c \in Callers, Record(c)
    PROVE  KeysInFlight'
<1>1. call' = [call EXCEPT ![c] = None]
  BY DEF Record
<1>2. \A d \in Callers : d # c => call'[d] = call[d]
  BY <1>1 DEF KeysInFlight
<1>3. call'[c] = None /\ DOMAIN call' = Callers
  BY <1>1 DEF KeysInFlight
<1>4. \A d \in Callers \ {c} : call[d] # None =>
        call[d].key \in KeysOf[d] /\ call[d].key \notin DOMAIN events'
  <2>. SUFFICES ASSUME NEW d \in Callers, d # c, call[d] # None
                PROVE  call[d].key \in KeysOf[d] /\ call[d].key \notin DOMAIN events'
    OBVIOUS
  <2>1. KeysOf[c] \cap KeysOf[d] = {}
    BY DEF OwnKeys
  <2>2. call[d].key \in KeysOf[d] /\ call[d].key \notin DOMAIN events
    BY DEF KeysInFlight
  <2>3. call[c].key \in KeysOf[c] /\ DOMAIN events' = DOMAIN events \cup {call[c].key}
    BY RecordEvents
  <2>. QED
    BY <2>1, <2>2, <2>3
<1>. QED
  BY <1>2, <1>3, <1>4 DEF KeysInFlight

LEMMA SubmitKeys ==
    ASSUME KeysInFlight, NEW c \in Callers, NEW cmd, Submit(c, cmd),
           UNCHANGED events
    PROVE  KeysInFlight'
BY DEF KeysInFlight, Submit

LEMMA FailKeys ==
    ASSUME KeysInFlight, NEW c \in Callers, UNCHANGED events,
           call' = [call EXCEPT ![c] = None]
    PROVE  KeysInFlight'
BY DEF KeysInFlight

LEMMA NextKeys ==
    ASSUME OwnKeys, KeysInFlight, [IssuanceNext]_issuanceVars
    PROVE  /\ KeysInFlight'
           /\ \A k \in DOMAIN events : k \in DOMAIN events' /\ events'[k] = events[k]
<1>0. Managers \subseteq Callers /\ Officers \subseteq Callers
  BY IssuanceAssumption
<1>1. CASE UNCHANGED <<call, events>>
  BY <1>1 DEF KeysInFlight
<1>2. CASE \E c \in Callers : Record(c)
  BY <1>2, RecordKeys, RecordEvents
<1>3. CASE \E c \in Callers : \E cmd : Submit(c, cmd) /\ UNCHANGED events
  BY <1>3, SubmitKeys
<1>4. CASE \E c \in Callers : call' = [call EXCEPT ![c] = None] /\ UNCHANGED events
  BY <1>4, FailKeys
<1>5. CASE RegistryNext(Managers)
  <2>1. CASE ManageLots
    BY <1>1, <2>1 DEF ManageLots, CreateLot, UpdateLot, ArchiveLot
  <2>2. CASE \E c \in Managers : Record(c)
    BY <1>0, <1>2, <2>2
  <2>3. CASE \E c \in Managers : \E cmd \in ManagementCommand(c) :
                Submit(c, cmd) /\ UNCHANGED <<lots, portions, events>>
    BY <1>0, <1>3, <2>3
  <2>4. CASE \E c \in Managers : Fail(c)
    BY <1>0, <1>4, <2>4 DEF Fail
  <2>. QED
    BY <1>5, <2>1, <2>2, <2>3, <2>4 DEF RegistryNext
<1>6. ASSUME NEW o \in Officers, ApprovalStep(o)
      PROVE  \/ UNCHANGED <<call, events>>
             \/ Record(o)
             \/ \E cmd : Submit(o, cmd) /\ UNCHANGED events
             \/ call' = [call EXCEPT ![o] = None] /\ UNCHANGED events
  BY <1>6 DEF ApprovalStep, StartApproval, Reject, SaveLot, SubmitIssue,
     ConflictingIssue, RecordIssue, SaveApproved, AbandonApproval
<1>7. CASE \E r \in Requests, b \in Blocks, q \in Quantities, w \in Companies :
            Request(r, b, q, w)
  BY <1>1, <1>7 DEF Request
<1>8. CASE UNCHANGED issuanceVars
  BY <1>1, <1>8 DEF issuanceVars
<1>. QED
  BY <1>0, <1>1, <1>2, <1>3, <1>4, <1>5, <1>6, <1>7, <1>8
  DEF IssuanceNext, RegistryStep

LEMMA InitKeys == IssuanceInit => KeysInFlight
BY DEF IssuanceInit, RegistryInit, KeysInFlight

\* "Immutable event journal": no step changes or removes a recorded event if
\* no two calls carry the same key, although save() overwrites the row with
\* its identifier and the key is looked up before the lock.
THEOREM JournalNeverChanges == OwnKeys => (IssuanceSpec => JournalIsImmutable)
<1>. SUFFICES ASSUME OwnKeys PROVE IssuanceSpec => JournalIsImmutable
  OBVIOUS
<1>. DEFINE Kept == \A k \in DOMAIN events :
                k \in DOMAIN events' /\ events'[k] = events[k]
<1>1. KeysInFlight /\ [IssuanceNext]_issuanceVars => KeysInFlight' /\ Kept
  BY NextKeys
<1>2. KeysInFlight /\ [IssuanceNext]_issuanceVars => [Kept]_issuanceVars
  BY <1>1
<1>. QED
  BY <1>1, <1>2, InitKeys, PTL DEF IssuanceSpec, JournalIsImmutable

-----------------------------------------------------------------------------
(***************************************************************************)
(* Approvals.  Stable is what every step leaves of what they rest on.      *)
(***************************************************************************)
Stable ==
    /\ \A r \in DOMAIN requests :
        /\ r \in DOMAIN requests'
        /\ requests'[r].quantity = requests[r].quantity
        /\ requests'[r].company = requests[r].company
    /\ \A k \in DOMAIN events : k \in DOMAIN events' /\ events'[k] = events[k]
    /\ \A l \in DOMAIN lots :
        /\ l \in DOMAIN lots'
        /\ Held(events, l) # {} => lots'[l].issued = lots[l].issued

LEMMA IssuedStays ==
    ASSUME Stable, NEW r \in DOMAIN requests, NEW l, IssuedAs(r, l)
    PROVE  IssuedAs(r, l)'
<1>1. IssueKey[r] \in Held(events, l)
  BY DEF IssuedAs, Held
<1>. QED
  BY <1>1 DEF IssuedAs, Stable

LEMMA ApprovalStays ==
    ASSUME Stable, NEW o \in Officers, ApprovalOK(o),
           approval'[o] = approval[o], call'[o] = call[o]
    PROVE  ApprovalOK(o)'
<1>1. PICK r, l : r = approval[o].request /\ l = approval[o].lot
  OBVIOUS
<1>2. approval[o].step = "save" => IssuedAs(r, l) /\ r \in DOMAIN requests
  BY <1>1 DEF ApprovalOK
<1>3. approval[o].step = "save" => IssuedAs(r, l)'
  BY <1>2, IssuedStays
<1>. QED
  BY <1>1, <1>3 DEF ApprovalOK, Stable

LEMMA ApprovedStays ==
    ASSUME Stable, ApprovedIssued,
           \A r \in DOMAIN requests' : requests'[r].status = "APPROVED" =>
                /\ r \in DOMAIN requests
                /\ requests[r].status = "APPROVED"
                /\ requests'[r].lot = requests[r].lot
    PROVE  ApprovedIssued'
<1>. SUFFICES ASSUME NEW r \in DOMAIN requests', requests'[r].status = "APPROVED"
              PROVE  r \in Requests /\ IssuedAs(r, requests[r].lot)'
  BY DEF ApprovedIssued
<1>1. PICK l : l = requests[r].lot
  OBVIOUS
<1>2. r \in DOMAIN requests /\ r \in Requests /\ IssuedAs(r, l)
      /\ requests'[r].lot = l
  BY <1>1 DEF ApprovedIssued
<1>3. IssuedAs(r, l)'
  BY <1>2, IssuedStays
<1>. QED
  BY <1>2, <1>3 DEF IssuedAs

-----------------------------------------------------------------------------
(* What the steps do to lots. *)

LEMMA NewLot ==
    ASSUME Tables, NEW l \in LotIds, l \notin DOMAIN lots, NEW q \in Quantities,
           lots' = With(lots, l, Draft(q))
    PROVE  /\ lots' \in [DOMAIN lots' -> LotType]
           /\ \A m \in DOMAIN lots : m \in DOMAIN lots' /\ lots'[m] = lots[m]
<1>1. Draft(q) \in LotType
  BY DEF Draft, LotType
<1>. QED
  BY <1>1 DEF With, Tables

LEMMA RecordLots ==
    ASSUME Tables, NEW c \in Callers, Record(c)
    PROVE  /\ lots' \in [DOMAIN lots' -> LotType] /\ DOMAIN lots' = DOMAIN lots
           /\ \A l \in DOMAIN lots : lots'[l].issued = lots[l].issued
<1>1. PICK l : l = call[c].lot
  OBVIOUS
<1>2. l \in DOMAIN lots
  BY <1>1 DEF Record, Apply, Accepts
<1>3. lots' = lots \/ lots' = [lots EXCEPT ![l].issuedAt = TRUE]
  BY <1>1 DEF Record, Apply
<1>. QED
  BY <1>2, <1>3 DEF Tables, LotType

LEMMA ManageLotsStep ==
    ASSUME Tables, ManageLots
    PROVE  /\ lots' \in [DOMAIN lots' -> LotType]
           /\ \A l \in DOMAIN lots :
                /\ l \in DOMAIN lots'
                /\ Held(events, l) # {} => lots'[l].issued = lots[l].issued
<1>1. PICK l \in LotIds :
        \/ \E q \in Quantities : CreateLot(l, q) \/ UpdateLot(l, q)
        \/ ArchiveLot(l)
  BY DEF ManageLots
<1>2. ASSUME NEW q \in Quantities, CreateLot(l, q)
      PROVE  /\ lots' \in [DOMAIN lots' -> LotType]
             /\ \A m \in DOMAIN lots : m \in DOMAIN lots' /\ lots'[m] = lots[m]
  BY <1>2, NewLot DEF CreateLot
<1>3. ASSUME NEW q \in Quantities, UpdateLot(l, q)
      PROVE  /\ lots' \in [DOMAIN lots' -> LotType] /\ DOMAIN lots' = DOMAIN lots
             /\ Held(events, l) = {}
             /\ \A m \in DOMAIN lots \ {l} : lots'[m] = lots[m]
  BY <1>3 DEF UpdateLot, HasHistory, Tables, LotType
<1>4. CASE ArchiveLot(l)
  BY <1>4 DEF ArchiveLot, Tables, LotType
<1>. QED
  BY <1>1, <1>2, <1>3, <1>4

-----------------------------------------------------------------------------
(* The steps. *)

\* A step of officer o: nothing else depends on what it holds.
LEMMA OfficerStep ==
    ASSUME IInv, KeysInFlight', Stable, Tables', ApprovedIssued',
           NEW o \in Officers, ApprovalOK(o)',
           \A p \in Officers \ {o} : approval'[p] = approval[p] /\ call'[p] = call[p]
    PROVE  IInv'
BY ApprovalStays DEF IInv, ApprovalsInFlight

\* A step that no approval notices.
LEMMA OutsideStep ==
    ASSUME IInv, KeysInFlight', Stable, Tables', ApprovedIssued',
           \A p \in Officers : approval'[p] = approval[p] /\ call'[p] = call[p]
    PROVE  IInv'
BY ApprovalStays DEF IInv, ApprovalsInFlight

LEMMA RequestStep ==
    ASSUME IInv, KeysInFlight', NEW r \in Requests, NEW b \in Blocks,
           NEW q \in Quantities, NEW w \in Companies, Request(r, b, q, w)
    PROVE  IInv'
<1>. DEFINE row == [block |-> b, quantity |-> q, company |-> w,
                    status |-> "PENDING", lot |-> None]
<1>1. row \in RequestType /\ row.status # "APPROVED"
  BY DEF RequestType
<1>2. requests' = With(requests, r, row) /\ r \notin DOMAIN requests
      /\ UNCHANGED <<lots, events, call, approval>>
  BY DEF Request
<1>. HIDE DEF row
<1>3. /\ requests' \in [DOMAIN requests' -> RequestType]
      /\ requests'[r].status # "APPROVED"
      /\ DOMAIN requests' = DOMAIN requests \cup {r}
      /\ \A s \in DOMAIN requests : requests'[s] = requests[s]
  BY <1>1, <1>2 DEF With, IInv, Tables
<1>4. Tables'
  BY <1>2, <1>3 DEF IInv, Tables
<1>5. Stable
  BY <1>2, <1>3 DEF Stable
<1>6. ApprovedIssued'
  BY <1>3, <1>5, ApprovedStays DEF IInv
<1>. QED
  BY <1>2, <1>4, <1>5, <1>6, OutsideStep

\* A request gets a status; its quantity and company stay.
LEMMA Decide ==
    ASSUME Tables, NEW r \in DOMAIN requests,
           NEW s \in {"APPROVED", "REJECTED"}, NEW l \in LotIds \cup {None},
           \/ requests' = [requests EXCEPT ![r].status = s]
           \/ requests' = [requests EXCEPT ![r].status = s, ![r].lot = l],
           UNCHANGED <<lots, events>>
    PROVE  /\ requests' \in [DOMAIN requests -> RequestType]
           /\ DOMAIN requests' = DOMAIN requests
           /\ Stable
           /\ requests'[r].status = s
           /\ \A q \in DOMAIN requests \ {r} : requests'[q] = requests[q]
           /\ requests' = [requests EXCEPT ![r].status = s, ![r].lot = l]
                => requests'[r].lot = l
<1>1. requests \in [DOMAIN requests -> RequestType]
  BY DEF Tables
<1>2. /\ requests' \in [DOMAIN requests -> RequestType]
      /\ DOMAIN requests' = DOMAIN requests
      /\ requests'[r].status = s
      /\ requests'[r].quantity = requests[r].quantity
      /\ requests'[r].company = requests[r].company
      /\ \A q \in DOMAIN requests \ {r} : requests'[q] = requests[q]
  BY <1>1 DEF RequestType
<1>3. Stable
  BY <1>2 DEF Stable
<1>. QED
  BY <1>1, <1>2, <1>3 DEF RequestType

LEMMA RejectStep ==
    ASSUME IInv, KeysInFlight', NEW o \in Officers, NEW r \in Requests, Reject(o, r)
    PROVE  IInv'
<1>1. Stable /\ requests' \in [DOMAIN requests -> RequestType]
      /\ requests'[r].status = "REJECTED"
      /\ DOMAIN requests' = DOMAIN requests
      /\ \A q \in DOMAIN requests \ {r} : requests'[q] = requests[q]
  BY Decide DEF Reject, IInv
<1>2. Tables'
  BY <1>1 DEF IInv, Tables, Reject
<1>3. ApprovedIssued'
  BY <1>1, ApprovedStays DEF IInv
<1>. QED
  BY <1>1, <1>2, <1>3, OutsideStep DEF Reject

\* A step of an approval that only changes what its officer holds.
LEMMA HeldStep ==
    ASSUME IInv, KeysInFlight', NEW o \in Officers, NEW a \in ApprovalType,
           approval' = [approval EXCEPT ![o] = a], UNCHANGED <<lots, events, requests>>,
           \A p \in Officers \ {o} : call'[p] = call[p], ApprovalOK(o)'
    PROVE  IInv'
<1>1. Stable
  BY DEF Stable
<1>2. Tables' /\ \A p \in Officers \ {o} : approval'[p] = approval[p]
  BY DEF IInv, Tables
<1>3. ApprovedIssued'
  BY <1>1, ApprovedStays DEF IInv
<1>. QED
  BY <1>1, <1>2, <1>3, OfficerStep

LEMMA IdleType == Idle \in ApprovalType /\ Idle.step = "idle"
BY DEF Idle, ApprovalType

\* An approval ends without saving its request.
LEMMA EndStep ==
    ASSUME IInv, KeysInFlight', NEW o \in Officers,
           approval' = [approval EXCEPT ![o] = Idle],
           UNCHANGED <<lots, events, requests>>,
           \A p \in Officers \ {o} : call'[p] = call[p]
    PROVE  IInv'
<1>1. approval'[o] = Idle
  BY DEF IInv, Tables
<1>2. ApprovalOK(o)'
  BY <1>1, IdleType DEF ApprovalOK
<1>. QED
  BY <1>2, IdleType, HeldStep

LEMMA StartApprovalStep ==
    ASSUME IInv, KeysInFlight', NEW o \in Officers, NEW r \in Requests,
           StartApproval(o, r)
    PROVE  IInv'
<1>. DEFINE a == [step |-> "lot", request |-> r, lot |-> None]
<1>1. a \in ApprovalType /\ a.step = "lot" /\ a.request = r
  BY DEF ApprovalType
<1>2. approval' = [approval EXCEPT ![o] = a]
      /\ UNCHANGED <<lots, events, requests, call>> /\ r \in DOMAIN requests
  BY DEF StartApproval
<1>. HIDE DEF a
<1>3. approval'[o] = a
  BY <1>2 DEF IInv, Tables
<1>4. ApprovalOK(o)'
  BY <1>1, <1>2, <1>3 DEF ApprovalOK
<1>. QED
  BY <1>1, <1>2, <1>4, HeldStep

LEMMA SaveLotStep ==
    ASSUME IInv, KeysInFlight', NEW o \in Officers, NEW l \in LotIds, SaveLot(o, l)
    PROVE  IInv'
<1>1. PICK r : r = approval[o].request
  OBVIOUS
<1>2. r \in Requests /\ r \in DOMAIN requests
  BY <1>1 DEF SaveLot, IInv, ApprovalsInFlight, ApprovalOK
<1>3. PICK q \in Quantities : q = requests[r].quantity
  BY <1>2 DEF IInv, Tables, RequestType
<1>4. lots' = With(lots, l, Draft(q)) /\ l \notin DOMAIN lots
      /\ UNCHANGED <<events, call, requests>>
  BY <1>1, <1>3 DEF SaveLot
<1>5. lots' \in [DOMAIN lots' -> LotType]
      /\ \A m \in DOMAIN lots : m \in DOMAIN lots' /\ lots'[m] = lots[m]
  BY <1>4, NewLot DEF IInv
<1>6. /\ approval' \in [Officers -> ApprovalType]
      /\ approval'[o].step = "submit" /\ approval'[o].request = r
      /\ approval'[o].lot = l
      /\ \A p \in Officers \ {o} : approval'[p] = approval[p]
  BY <1>1 DEF SaveLot, IInv, Tables, ApprovalType
<1>7. Stable
  BY <1>4, <1>5 DEF Stable
<1>8. Tables'
  BY <1>4, <1>5, <1>6 DEF IInv, Tables
<1>9. ApprovedIssued'
  BY <1>4, <1>7, ApprovedStays DEF IInv
<1>10. ApprovalOK(o)'
  BY <1>2, <1>4, <1>6 DEF ApprovalOK
<1>. QED
  BY <1>4, <1>6, <1>7, <1>8, <1>9, <1>10, OfficerStep

LEMMA SubmitIssueStep ==
    ASSUME IInv, KeysInFlight', NEW o \in Officers, SubmitIssue(o)
    PROVE  IInv'
<1>0. o \in Callers
  BY IssuanceAssumption
<1>1. PICK r, l : r = approval[o].request /\ l = approval[o].lot
  OBVIOUS
<1>2. r \in Requests /\ r \in DOMAIN requests /\ l \in LotIds
  BY <1>1 DEF SubmitIssue, IInv, ApprovalsInFlight, ApprovalOK
<1>. DEFINE a == [approval[o] EXCEPT !.step = "record"]
            k == IssueCommand(o)
<1>3. a \in ApprovalType /\ a.step = "record" /\ a.request = r /\ a.lot = l
  BY <1>1 DEF IInv, Tables, ApprovalType
<1>4. k.key = IssueKey[r] /\ k.lot = l /\ k.type = "ISSUED"
      /\ k.quantity = requests[r].quantity /\ k.to = requests[r].company
  BY <1>1 DEF IssueCommand
<1>5. call' = [call EXCEPT ![o] = k] /\ UNCHANGED <<lots, events, requests>>
      /\ approval' = [approval EXCEPT ![o] = a]
  BY DEF SubmitIssue, Submit
<1>. HIDE DEF a, k
<1>6. call'[o] = k /\ approval'[o] = a
      /\ \A p \in Officers \ {o} : call'[p] = call[p]
  BY <1>0, <1>5 DEF IInv, Tables, KeysInFlight
<1>7. ApprovalOK(o)'
  BY <1>2, <1>3, <1>4, <1>5, <1>6 DEF ApprovalOK
<1>. QED
  BY <1>3, <1>5, <1>6, <1>7, HeldStep

LEMMA RecordIssueStep ==
    ASSUME IInv, KeysInFlight', NEW o \in Officers, RecordIssue(o)
    PROVE  IInv'
<1>0. o \in Callers
  BY IssuanceAssumption
<1>1. PICK r, l, cmd : r = approval[o].request /\ l = approval[o].lot
                       /\ cmd = call[o]
  OBVIOUS
<1>2. /\ r \in Requests /\ r \in DOMAIN requests /\ l \in LotIds
      /\ cmd.key = IssueKey[r] /\ cmd.lot = l /\ cmd.type = "ISSUED"
      /\ cmd.quantity = requests[r].quantity /\ cmd.to = requests[r].company
  BY <1>1 DEF RecordIssue, IInv, ApprovalsInFlight, ApprovalOK
<1>3. Accepts(cmd)
  BY <1>1 DEF RecordIssue, Record, Apply
<1>4. l \in DOMAIN lots /\ lots[l].issued = cmd.quantity /\ cmd.to # None
  BY <1>2, <1>3 DEF Accepts, Transition
<1>5. /\ cmd.key \notin DOMAIN events
      /\ DOMAIN events' = DOMAIN events \cup {cmd.key}
      /\ events'[cmd.key] = EventOf(cmd)
      /\ \A k \in DOMAIN events : events'[k] = events[k]
  BY <1>0, <1>1, RecordEvents DEF RecordIssue, IInv
<1>6. EventOf(cmd).lot = l /\ EventOf(cmd).quantity = cmd.quantity
      /\ EventOf(cmd).toOwner = cmd.to
  BY <1>2, <1>4 DEF EventOf, TargetOwner
<1>7. /\ lots' \in [DOMAIN lots' -> LotType] /\ DOMAIN lots' = DOMAIN lots
      /\ \A m \in DOMAIN lots : lots'[m].issued = lots[m].issued
  BY <1>0, RecordLots DEF RecordIssue, IInv
<1>8. Stable
  BY <1>5, <1>7 DEF Stable, RecordIssue
<1>9. /\ approval' \in [Officers -> ApprovalType]
      /\ approval'[o].step = "save" /\ approval'[o].request = r
      /\ approval'[o].lot = l
      /\ \A p \in Officers \ {o} : approval'[p] = approval[p]
  BY <1>1 DEF RecordIssue, IInv, Tables, ApprovalType
<1>10. Tables'
  BY <1>7, <1>9 DEF IInv, Tables, RecordIssue
<1>11. ApprovedIssued'
  BY <1>8, ApprovedStays DEF IInv, RecordIssue
<1>12. IssuedAs(r, l)'
  BY <1>2, <1>4, <1>5, <1>6, <1>7 DEF IssuedAs, RecordIssue
<1>13. ApprovalOK(o)'
  BY <1>2, <1>9, <1>12 DEF ApprovalOK, IssuedAs, RecordIssue
<1>14. \A p \in Officers \ {o} : call'[p] = call[p]
  BY <1>0, IssuanceAssumption DEF RecordIssue, Record, IInv, KeysInFlight
<1>. QED
  BY <1>8, <1>9, <1>10, <1>11, <1>13, <1>14, OfficerStep

LEMMA SaveApprovedStep ==
    ASSUME IInv, KeysInFlight', NEW o \in Officers, SaveApproved(o)
    PROVE  IInv'
<1>1. PICK r, l : r = approval[o].request /\ l = approval[o].lot
  OBVIOUS
<1>2. r \in Requests /\ r \in DOMAIN requests /\ l \in LotIds /\ IssuedAs(r, l)
  BY <1>1 DEF SaveApproved, IInv, ApprovalsInFlight, ApprovalOK
<1>3. requests' = [requests EXCEPT ![r].status = "APPROVED", ![r].lot = l]
      /\ UNCHANGED <<lots, events, call>>
  BY <1>1 DEF SaveApproved
<1>4. /\ requests' \in [DOMAIN requests -> RequestType]
      /\ DOMAIN requests' = DOMAIN requests /\ Stable
      /\ \A q \in DOMAIN requests \ {r} : requests'[q] = requests[q]
      /\ requests'[r].lot = l
  BY <1>2, <1>3, Decide DEF IInv
<1>5. IssuedAs(r, l)'
  BY <1>2, <1>4, IssuedStays
<1>6. ApprovedIssued'
  <2>. SUFFICES ASSUME NEW q \in DOMAIN requests', requests'[q].status = "APPROVED"
                PROVE  q \in Requests /\ IssuedAs(q, requests[q].lot)'
    BY DEF ApprovedIssued
  <2>1. CASE q = r
    BY <1>2, <1>4, <1>5, <2>1 DEF IssuedAs
  <2>2. CASE q # r
    <3>1. PICK m : m = requests[q].lot
      OBVIOUS
    <3>2. q \in DOMAIN requests /\ q \in Requests /\ IssuedAs(q, m)
          /\ requests'[q].lot = m
      BY <1>4, <2>2, <3>1 DEF IInv, ApprovedIssued
    <3>3. IssuedAs(q, m)'
      BY <1>4, <3>2, IssuedStays
    <3>. QED
      BY <3>2, <3>3 DEF IssuedAs
  <2>. QED
    BY <2>1, <2>2
<1>7. /\ approval' \in [Officers -> ApprovalType] /\ approval'[o] = Idle
      /\ \A p \in Officers \ {o} : approval'[p] = approval[p]
  BY IdleType DEF SaveApproved, IInv, Tables
<1>8. Tables'
  BY <1>3, <1>4, <1>7 DEF IInv, Tables
<1>9. ApprovalOK(o)'
  BY <1>7, IdleType DEF ApprovalOK
<1>. QED
  BY <1>3, <1>4, <1>6, <1>7, <1>8, <1>9, OfficerStep

LEMMA RegistryKeepsApprovals ==
    ASSUME IInv, KeysInFlight', RegistryStep,
           \A k \in DOMAIN events : k \in DOMAIN events' /\ events'[k] = events[k]
    PROVE  IInv'
<1>1. UNCHANGED <<requests, approval>> /\ RegistryNext(Managers)
      /\ Managers \subseteq Callers /\ Managers \cap Officers = {}
  BY IssuanceAssumption DEF RegistryStep
<1>2. /\ lots' \in [DOMAIN lots' -> LotType]
      /\ \A l \in DOMAIN lots :
            /\ l \in DOMAIN lots'
            /\ Held(events, l) # {} => lots'[l].issued = lots[l].issued
      /\ \A o \in Officers : call'[o] = call[o]
  <2>1. CASE ManageLots
    <3>1. UNCHANGED call
      BY <2>1 DEF ManageLots, CreateLot, UpdateLot, ArchiveLot
    <3>. QED
      BY <2>1, <3>1, ManageLotsStep DEF IInv
  <2>2. ASSUME NEW m \in Managers, Record(m)
        PROVE  <1>2
    <3>1. \A o \in Officers : call'[o] = call[o]
      BY <1>1, <2>2, IssuanceAssumption DEF Record, IInv, KeysInFlight
    <3>. QED
      BY <1>1, <2>2, <3>1, RecordLots DEF IInv
  <2>3. ASSUME NEW m \in Managers, NEW k,
               call' = [call EXCEPT ![m] = k], UNCHANGED lots
        PROVE  <1>2
    <3>1. \A o \in Officers : call'[o] = call[o]
      BY <1>1, <2>3, IssuanceAssumption DEF IInv, KeysInFlight
    <3>. QED
      BY <2>3, <3>1 DEF IInv, Tables
  <2>4. CASE \E m \in Managers : \E cmd \in ManagementCommand(m) :
                Submit(m, cmd) /\ UNCHANGED <<lots, portions, events>>
    BY <2>3, <2>4 DEF Submit
  <2>5. CASE \E m \in Managers : Fail(m)
    BY <2>3, <2>5 DEF Fail
  <2>. QED
    BY <1>1, <2>1, <2>2, <2>4, <2>5 DEF RegistryNext
<1>3. Stable
  BY <1>1, <1>2 DEF Stable
<1>4. Tables'
  BY <1>1, <1>2 DEF IInv, Tables
<1>5. ApprovedIssued'
  BY <1>1, <1>3, ApprovedStays DEF IInv
<1>. QED
  BY <1>1, <1>2, <1>3, <1>4, <1>5, OutsideStep

LEMMA InitInv == IssuanceInit => IInv
<1>. SUFFICES ASSUME IssuanceInit PROVE IInv
  OBVIOUS
<1>1. KeysInFlight
  BY InitKeys
<1>2. lots = <<>> /\ requests = <<>> /\ approval = [o \in Officers |-> Idle]
  BY DEF IssuanceInit, RegistryInit
<1>3. DOMAIN lots = {} /\ DOMAIN requests = {}
  BY <1>2
<1>4. Tables
  BY <1>2, <1>3, IdleType DEF Tables
<1>5. ApprovalsInFlight
  BY <1>2, IdleType DEF ApprovalsInFlight, ApprovalOK
<1>. QED
  BY <1>1, <1>3, <1>4, <1>5 DEF IInv, ApprovedIssued

LEMMA NextInv ==
    ASSUME OwnKeys, IInv, [IssuanceNext]_issuanceVars
    PROVE  IInv'
<1>1. /\ KeysInFlight'
      /\ \A k \in DOMAIN events : k \in DOMAIN events' /\ events'[k] = events[k]
  BY NextKeys DEF IInv
<1>2. CASE RegistryStep
  BY <1>1, <1>2, RegistryKeepsApprovals
<1>3. CASE \E r \in Requests, b \in Blocks, q \in Quantities, w \in Companies :
            Request(r, b, q, w)
  BY <1>1, <1>3, RequestStep
<1>4. ASSUME NEW o \in Officers, ApprovalStep(o)
      PROVE  IInv'
  <2>1. CASE \E r \in Requests : StartApproval(o, r) \/ Reject(o, r)
    BY <1>1, <2>1, StartApprovalStep, RejectStep
  <2>2. CASE \E l \in LotIds : SaveLot(o, l)
    BY <1>1, <2>2, SaveLotStep
  <2>3. CASE SubmitIssue(o)
    BY <1>1, <2>3, SubmitIssueStep
  <2>4. CASE ConflictingIssue(o)
    BY <1>1, <2>4, EndStep DEF ConflictingIssue
  <2>5. CASE RecordIssue(o)
    BY <1>1, <2>5, RecordIssueStep
  <2>6. CASE SaveApproved(o)
    BY <1>1, <2>6, SaveApprovedStep
  <2>7. CASE AbandonApproval(o)
    <3>1. \A p \in Officers \ {o} : call'[p] = call[p]
      BY <2>7, IssuanceAssumption DEF AbandonApproval, IInv, KeysInFlight
    <3>. QED
      BY <1>1, <2>7, <3>1, EndStep DEF AbandonApproval
  <2>. QED
    BY <1>4, <2>1, <2>2, <2>3, <2>4, <2>5, <2>6, <2>7 DEF ApprovalStep
<1>5. CASE UNCHANGED issuanceVars
  <2>1. UNCHANGED <<lots, events, call, requests, approval>>
    BY <1>5 DEF issuanceVars
  <2>2. Stable
    BY <2>1 DEF Stable
  <2>3. Tables'
    BY <2>1 DEF IInv, Tables
  <2>4. ApprovedIssued'
    BY <2>1, <2>2, ApprovedStays DEF IInv
  <2>. QED
    BY <1>1, <2>1, <2>2, <2>3, <2>4, OutsideStep
<1>. QED
  BY <1>2, <1>3, <1>4, <1>5 DEF IssuanceNext

\* However often approvals die between their steps and are repeated, and
\* whatever managers do to the lots meanwhile, an approved request names the
\* lot that was issued for it.
THEOREM ApprovedAlwaysIssued == OwnKeys => (IssuanceSpec => []ApprovedIsIssued)
<1>. SUFFICES ASSUME OwnKeys PROVE IssuanceSpec => []ApprovedIsIssued
  OBVIOUS
<1>1. IInv => ApprovedIsIssued
  BY DEF IInv, ApprovedIssued, IssuedAs, ApprovedIsIssued
<1>2. IInv /\ [IssuanceNext]_issuanceVars => IInv'
  BY NextInv
<1>. QED
  BY <1>1, <1>2, InitInv, PTL DEF IssuanceSpec

-----------------------------------------------------------------------------
(***************************************************************************)
(* The registry: types, supply and the projection.                         *)
(***************************************************************************)
\* Only an issue has no source portion.
CommandFits(cmd) ==
    /\ cmd \in Command
    /\ (cmd.source = None) <=> (cmd.type = "ISSUED")

EventFits(e) ==
    /\ e \in EventType
    /\ e.lot \in DOMAIN lots
    /\ e.source \in DOMAIN events \cup {None}
    /\ e.fromState # None => e.fromOwner \in Companies

PortionFits(p) == p \in PortionType /\ p.lot \in DOMAIN lots /\ lots[p.lot].issuedAt

RegistryInv ==
    /\ lots \in [DOMAIN lots -> LotType]
    /\ DOMAIN lots \subseteq LotIds
    /\ IsFiniteSet(DOMAIN events) /\ DOMAIN events \subseteq Keys
    /\ DOMAIN portions \subseteq DOMAIN events
    /\ \A k \in DOMAIN events : EventFits(events[k])
    /\ \A k \in DOMAIN portions : PortionFits(portions[k])
    /\ \A c \in Callers : call[c] # None => CommandFits(call[c])
    /\ call = [c \in Callers |-> call[c]]

\* The new portion of a command: an owner and a state, never missing.
LEMMA TargetType ==
    ASSUME RegistryInv, NEW cmd, CommandFits(cmd), Accepts(cmd)
    PROVE  /\ cmd.source # None => cmd.source \in Held(portions, cmd.lot)
                                   /\ portions[cmd.source].quantity >= cmd.quantity
           /\ cmd.lot \in DOMAIN lots
           /\ TargetOwner(cmd) \in Companies
           /\ TargetState(cmd) \in PortionStates
<1>1. /\ cmd.source # None => cmd.source \in Held(portions, cmd.lot)
                              /\ portions[cmd.source].quantity >= cmd.quantity
      /\ cmd.lot \in DOMAIN lots
  BY DEF Accepts, SourceCovers, CommandFits
<1>2. cmd.source # None => portions[cmd.source].owner \in Companies
  BY <1>1 DEF Held, RegistryInv, PortionFits, PortionType
<1>3. cmd.to \in Companies \cup {None}
  BY DEF CommandFits, Command
<1>4. CASE cmd.type = "ISSUED"
  <2>1. cmd.to # None
    BY <1>4 DEF Accepts, Transition
  <2>2. TargetOwner(cmd) = cmd.to /\ TargetState(cmd) = "AVAILABLE"
    BY <1>4, <2>1 DEF TargetOwner, TargetState
  <2>. QED
    BY <1>1, <1>3, <2>1, <2>2 DEF PortionStates
<1>5. CASE cmd.type = "REVERSED"
  <2>1. /\ cmd.parent \in DOMAIN events /\ events[cmd.parent].fromState # None
    BY <1>5 DEF Accepts, Transition, Reversible
  <2>2. /\ events[cmd.parent].fromOwner \in Companies
        /\ events[cmd.parent].fromState \in PortionStates
    BY <2>1 DEF RegistryInv, EventFits, EventType
  <2>3. TargetOwner(cmd) = events[cmd.parent].fromOwner
    BY <1>5 DEF TargetOwner
  <2>4. TargetState(cmd) = events[cmd.parent].fromState
    BY <1>5 DEF TargetState
  <2>. QED
    BY <1>1, <2>2, <2>3, <2>4
<1>6. CASE cmd.type \notin {"ISSUED", "REVERSED"}
  <2>1. cmd.type \in DOMAIN Transition
    BY <1>6 DEF Accepts
  <2>2. TargetOwner(cmd) = IF cmd.to # None THEN cmd.to
                           ELSE portions[cmd.source].owner
    BY <1>6 DEF TargetOwner
  <2>3. TargetState(cmd) = Transition[cmd.type].to
    BY <1>6 DEF TargetState
  <2>4. cmd.source # None
    BY <1>6 DEF CommandFits
  <2>5. Transition[cmd.type].to \in PortionStates
    BY <2>1 DEF Transition, PortionStates
  <2>. QED
    BY <1>1, <1>2, <1>3, <2>2, <2>3, <2>4, <2>5
<1>. QED
  BY <1>4, <1>5, <1>6

\* What is left of the source: nothing, or the rest of its quantity.
LEMMA TakenWhole ==
    ASSUME NEW cmd, cmd.source # None, portions[cmd.source].quantity = cmd.quantity
    PROVE  /\ DOMAIN TakenFrom(cmd) = DOMAIN portions \ {cmd.source}
           /\ \A k \in DOMAIN portions \ {cmd.source} :
                TakenFrom(cmd)[k] = portions[k]
<1>1. TakenFrom(cmd) = [k \in {j \in DOMAIN portions : j # cmd.source} |-> portions[k]]
  BY DEF TakenFrom, RestrictDomain, Restrict
<1>. QED
  BY <1>1

LEMMA TakenPart ==
    ASSUME NEW cmd, cmd.source # None, portions[cmd.source].quantity # cmd.quantity
    PROVE  /\ DOMAIN TakenFrom(cmd) = DOMAIN portions
           /\ cmd.source \in DOMAIN portions =>
                TakenFrom(cmd)[cmd.source] =
                    [portions[cmd.source] EXCEPT !.quantity = @ - cmd.quantity]
           /\ \A k \in DOMAIN portions \ {cmd.source} :
                TakenFrom(cmd)[k] = portions[k]
<1>1. TakenFrom(cmd) = [portions EXCEPT ![cmd.source].quantity = @ - cmd.quantity]
  BY DEF TakenFrom
<1>. QED
  BY <1>1
\* What recordEvent does to the portions.
PortionStep(cmd) ==
    /\ portions'[cmd.key] =
        [lot |-> cmd.lot, owner |-> TargetOwner(cmd),
         state |-> TargetState(cmd), quantity |-> cmd.quantity]
    /\ \A k \in DOMAIN portions \ {cmd.source} : portions'[k] = portions[k]
    /\ cmd.source = None => DOMAIN portions' = DOMAIN portions \cup {cmd.key}
    /\ cmd.source # None /\ portions[cmd.source].quantity = cmd.quantity =>
        DOMAIN portions' = (DOMAIN portions \ {cmd.source}) \cup {cmd.key}
    /\ cmd.source # None /\ portions[cmd.source].quantity # cmd.quantity =>
        /\ DOMAIN portions' = DOMAIN portions \cup {cmd.key}
        /\ portions'[cmd.source] =
            [portions[cmd.source] EXCEPT !.quantity = @ - cmd.quantity]

LEMMA RecordPortions ==
    ASSUME RegistryInv, KeysInFlight, NEW c \in Callers, Record(c),
           NEW cmd, cmd = call[c]
    PROVE  /\ CommandFits(cmd) /\ Accepts(cmd) /\ Conserves(cmd)
           /\ cmd.key \in Keys /\ cmd.key \notin DOMAIN portions
           /\ cmd.key # cmd.source
           /\ cmd.source # None => /\ cmd.source \in Held(portions, cmd.lot)
                                   /\ portions[cmd.source].quantity >= cmd.quantity
           /\ PortionStep(cmd)
<1>1. CommandFits(cmd) /\ Accepts(cmd) /\ Conserves(cmd)
  BY DEF Record, Apply, RegistryInv
<1>2. cmd.key \in Keys /\ cmd.key \notin DOMAIN events
  BY RegistryAssumption, RecordEvents DEF RegistryInv
<1>3. cmd.key \notin DOMAIN portions
  BY <1>2 DEF RegistryInv
<1>4. cmd.source # None => cmd.source \in Held(portions, cmd.lot)
                           /\ portions[cmd.source].quantity >= cmd.quantity
  BY <1>1, TargetType
<1>5. cmd.key # cmd.source
  BY <1>2, <1>3, <1>4, RegistryAssumption DEF Held
<1>6. PICK p, t, k : /\ p = [lot |-> cmd.lot, owner |-> TargetOwner(cmd),
                             state |-> TargetState(cmd), quantity |-> cmd.quantity]
                    /\ t = TakenFrom(cmd) /\ k = cmd.key
  OBVIOUS
<1>7. portions' = With(t, k, p)
  BY <1>6 DEF Record, Apply, PortionsAfter
<1>8. /\ DOMAIN portions' = DOMAIN t \cup {k}
      /\ portions'[k] = p
      /\ \A j \in DOMAIN t : j # k => portions'[j] = t[j]
  BY <1>7 DEF With
<1>9. CASE cmd.source = None
  <2>1. t = portions
    BY <1>6, <1>9 DEF TakenFrom
  <2>. QED
    BY <1>1, <1>2, <1>3, <1>5, <1>6, <1>8, <1>9, <2>1 DEF PortionStep
<1>10. CASE cmd.source # None /\ portions[cmd.source].quantity = cmd.quantity
  <2>1. /\ DOMAIN t = DOMAIN portions \ {cmd.source}
        /\ \A j \in DOMAIN portions \ {cmd.source} : t[j] = portions[j]
    BY <1>6, <1>10, TakenWhole
  <2>. QED
    BY <1>1, <1>2, <1>3, <1>4, <1>5, <1>6, <1>8, <1>10, <2>1 DEF PortionStep
<1>11. CASE cmd.source # None /\ portions[cmd.source].quantity # cmd.quantity
  <2>1. cmd.source \in DOMAIN portions
    BY <1>4, <1>11 DEF Held
  <2>2. /\ DOMAIN t = DOMAIN portions
        /\ t[cmd.source] = [portions[cmd.source] EXCEPT !.quantity = @ - cmd.quantity]
        /\ \A j \in DOMAIN portions \ {cmd.source} : t[j] = portions[j]
    BY <1>6, <1>11, <2>1, TakenPart
  <2>. QED
    BY <1>1, <1>2, <1>3, <1>4, <1>5, <1>6, <1>8, <1>11, <2>1, <2>2 DEF PortionStep
<1>. QED
  BY <1>9, <1>10, <1>11

\* What recordEvent does to the lot.
LEMMA RecordIssuedAt ==
    ASSUME RegistryInv, NEW c \in Callers, Record(c), NEW cmd, cmd = call[c]
    PROVE  /\ lots' \in [DOMAIN lots -> LotType] /\ DOMAIN lots' = DOMAIN lots
           /\ \A l \in DOMAIN lots : lots'[l].issued = lots[l].issued
           /\ \A l \in DOMAIN lots : l # cmd.lot => lots'[l] = lots[l]
           /\ cmd.lot \in DOMAIN lots
           /\ cmd.type = "ISSUED" => lots'[cmd.lot].issuedAt = TRUE
           /\ cmd.type # "ISSUED" => lots' = lots
<1>1. PICK l : l = cmd.lot
  OBVIOUS
<1>2. l \in DOMAIN lots
  BY <1>1 DEF Record, Apply, Accepts
<1>3. \/ cmd.type = "ISSUED" /\ lots' = [lots EXCEPT ![l].issuedAt = TRUE]
      \/ cmd.type # "ISSUED" /\ lots' = lots
  BY <1>1 DEF Record, Apply
<1>4. CASE cmd.type = "ISSUED" /\ lots' = [lots EXCEPT ![l].issuedAt = TRUE]
  <2>1. lots \in [DOMAIN lots -> LotType]
    BY DEF RegistryInv
  <2>2. /\ DOMAIN lots' = DOMAIN lots
        /\ lots'[l] = [lots[l] EXCEPT !.issuedAt = TRUE]
        /\ \A m \in DOMAIN lots : m # l => lots'[m] = lots[m]
        /\ lots' = [m \in DOMAIN lots |-> lots'[m]]
    BY <1>2, <1>4
  <2>3. lots'[l] \in LotType /\ lots'[l].issuedAt = TRUE
        /\ lots'[l].issued = lots[l].issued
    BY <1>2, <2>1, <2>2 DEF LotType
  <2>. QED
    BY <1>1, <1>2, <1>4, <2>1, <2>2, <2>3
<1>5. CASE cmd.type # "ISSUED" /\ lots' = lots
  BY <1>1, <1>2, <1>5 DEF RegistryInv
<1>. QED
  BY <1>3, <1>4, <1>5

LEMMA RecordRegistry ==
    ASSUME RegistryInv, KeysInFlight, NEW c \in Callers, Record(c)
    PROVE  RegistryInv'
<1>1. PICK cmd : cmd = call[c]
  OBVIOUS
<1>2. /\ CommandFits(cmd) /\ Accepts(cmd)
      /\ cmd.key \in Keys /\ cmd.key # cmd.source
      /\ portions'[cmd.key] =
            [lot |-> cmd.lot, owner |-> TargetOwner(cmd),
             state |-> TargetState(cmd), quantity |-> cmd.quantity]
      /\ \A k \in DOMAIN portions \ {cmd.source} : portions'[k] = portions[k]
      /\ DOMAIN portions' \subseteq DOMAIN portions \cup {cmd.key}
      /\ cmd.source # None => cmd.source \in Held(portions, cmd.lot)
      /\ cmd.source # None /\ cmd.source \in DOMAIN portions' =>
            /\ portions[cmd.source].quantity # cmd.quantity
            /\ portions[cmd.source].quantity >= cmd.quantity
            /\ portions'[cmd.source] =
                [portions[cmd.source] EXCEPT !.quantity = @ - cmd.quantity]
  <2>1. /\ CommandFits(cmd) /\ Accepts(cmd)
        /\ cmd.key \in Keys /\ cmd.key # cmd.source
        /\ cmd.key \notin DOMAIN portions
        /\ cmd.source # None => cmd.source \in Held(portions, cmd.lot)
                                /\ portions[cmd.source].quantity >= cmd.quantity
        /\ PortionStep(cmd)
    BY <1>1, RecordPortions
  <2>. QED
    BY <2>1 DEF PortionStep
<1>3. /\ lots' \in [DOMAIN lots -> LotType] /\ DOMAIN lots' = DOMAIN lots
      /\ \A l \in DOMAIN lots : l # cmd.lot => lots'[l] = lots[l]
      /\ cmd.lot \in DOMAIN lots
      /\ cmd.type = "ISSUED" => lots'[cmd.lot].issuedAt = TRUE
      /\ cmd.type # "ISSUED" => lots' = lots
  BY <1>1, RecordIssuedAt
<1>4. /\ TargetOwner(cmd) \in Companies /\ TargetState(cmd) \in PortionStates
  BY <1>2, TargetType
<1>5. /\ DOMAIN events' = DOMAIN events \cup {cmd.key}
      /\ events'[cmd.key] = EventOf(cmd)
      /\ \A k \in DOMAIN events : events'[k] = events[k]
  BY <1>1, RecordEvents
<1>6. /\ cmd.lot \in LotIds /\ cmd.quantity \in Quantities
      /\ cmd.quantity \in Nat \ {0} /\ cmd.type \in EventTypes \cup {"ISSUED"}
      /\ cmd.source \in Keys \cup {None} /\ cmd.parent \in Keys \cup {None}
      /\ (cmd.source = None) <=> (cmd.type = "ISSUED")
  BY <1>2, RegistryAssumption DEF CommandFits, Command
<1>7. cmd.source # None =>
        /\ cmd.source \in DOMAIN portions /\ cmd.source \in DOMAIN events
        /\ portions[cmd.source].lot = cmd.lot
        /\ PortionFits(portions[cmd.source])
  BY <1>2 DEF Held, RegistryInv
<1>8. lots'[cmd.lot].issuedAt
  BY <1>3, <1>6, <1>7 DEF PortionFits
<1>9. ASSUME NEW k \in DOMAIN portions' PROVE PortionFits(portions[k])'
  <2>1. CASE k = cmd.key
    BY <1>2, <1>3, <1>4, <1>6, <1>8, <2>1 DEF PortionFits, PortionType
  <2>2. CASE k # cmd.key /\ k # cmd.source
    <3>1. k \in DOMAIN portions /\ portions'[k] = portions[k]
          /\ PortionFits(portions[k])
      BY <1>2, <1>9, <2>2 DEF RegistryInv
    <3>. QED
      BY <1>3, <1>8, <3>1 DEF PortionFits
  <2>3. CASE k # cmd.key /\ k = cmd.source
    <3>1. k \in DOMAIN portions
      BY <1>2, <1>9, <2>3
    <3>2. k # None
      BY <3>1, RegistryAssumption DEF RegistryInv
    <3>3. PICK p, n : p = portions[k] /\ n = cmd.quantity
      OBVIOUS
    <3>4. p \in PortionType /\ p.lot = cmd.lot
      BY <1>7, <2>3, <3>2, <3>3 DEF PortionFits
    <3>5. portions'[k] = [p EXCEPT !.quantity = @ - n] /\ p.quantity >= n
          /\ p.quantity # n /\ n \in Nat \ {0}
      BY <1>2, <1>6, <1>9, <2>3, <3>2, <3>3
    <3>6. p.quantity \in Nat /\ p.quantity - n \in Nat \ {0}
      BY <3>4, <3>5 DEF PortionType
    <3>7. portions'[k] \in PortionType /\ portions'[k].lot = cmd.lot
      BY <3>4, <3>5, <3>6 DEF PortionType
    <3>. QED
      BY <1>3, <1>8, <3>7 DEF PortionFits
  <2>. QED
    BY <2>1, <2>2, <2>3
<1>10. /\ EventOf(cmd) \in EventType /\ EventOf(cmd).lot = cmd.lot
       /\ EventOf(cmd).source = cmd.source
       /\ EventOf(cmd).fromState # None => EventOf(cmd).fromOwner \in Companies
  <2>1. PICK fo, fs, w, t :
            /\ fo = IF cmd.source = None THEN None ELSE portions[cmd.source].owner
            /\ fs = IF cmd.source = None THEN None ELSE portions[cmd.source].state
            /\ w = TargetOwner(cmd) /\ t = TargetState(cmd)
    OBVIOUS
  <2>2. /\ fo \in Companies \cup {None} /\ fs \in PortionStates \cup {None}
        /\ fs # None => fo \in Companies
    BY <1>7, <2>1 DEF PortionFits, PortionType
  <2>3. EventOf(cmd) =
            [lot |-> cmd.lot, type |-> cmd.type, quantity |-> cmd.quantity,
             source |-> cmd.source, parent |-> cmd.parent, fromOwner |-> fo,
             toOwner |-> w, fromState |-> fs, toState |-> t]
    BY <2>1 DEF EventOf
  <2>. QED
    BY <1>4, <1>6, <2>1, <2>2, <2>3 DEF EventType
<1>11. ASSUME NEW k \in DOMAIN events' PROVE EventFits(events[k])'
  <2>1. CASE k \in DOMAIN events
    <3>1. /\ events'[k] = events[k] /\ EventFits(events[k])
          /\ DOMAIN events \subseteq DOMAIN events' /\ DOMAIN lots' = DOMAIN lots
      BY <1>3, <1>5, <2>1 DEF RegistryInv
    <3>. QED
      BY <3>1 DEF EventFits
  <2>2. CASE k = cmd.key
    <3>1. PICK e : e = EventOf(cmd)
      OBVIOUS
    <3>2. /\ events'[k] = e /\ e \in EventType /\ e.lot \in DOMAIN lots'
          /\ e.fromState # None => e.fromOwner \in Companies
      BY <1>3, <1>5, <1>10, <2>2, <3>1
    <3>3. e.source \in DOMAIN events' \cup {None}
      BY <1>5, <1>7, <1>10, <3>1
    <3>. QED
      BY <3>2, <3>3 DEF EventFits
  <2>. QED
    BY <1>5, <1>11, <2>1, <2>2
<1>12. IsFiniteSet(DOMAIN events')
  BY <1>5, FS_AddElement DEF RegistryInv
<1>13. \A d \in Callers : call'[d] # None => CommandFits(call'[d])
  BY DEF RegistryInv, Record, KeysInFlight
<1>14. call' = [d \in Callers |-> call'[d]]
  BY DEF Record, KeysInFlight
<1>. QED
  BY <1>2, <1>3, <1>5, <1>9, <1>11, <1>12, <1>13, <1>14 DEF RegistryInv, CommandFits
\* A step that adds or edits lots and keeps what was issued.
LEMMA LotsRegistry ==
    ASSUME RegistryInv, lots' \in [DOMAIN lots' -> LotType],
           DOMAIN lots' \subseteq LotIds, UNCHANGED <<portions, events, call>>,
           \A l \in DOMAIN lots : /\ l \in DOMAIN lots'
                                  /\ lots'[l].issuedAt = lots[l].issuedAt
    PROVE  RegistryInv'
<1>1. UNCHANGED <<portions, events, call>>
  OBVIOUS
<1>2. ASSUME NEW k \in DOMAIN events PROVE EventFits(events[k])'
  BY <1>1 DEF RegistryInv, EventFits
<1>3. ASSUME NEW k \in DOMAIN portions PROVE PortionFits(portions[k])'
  BY <1>1 DEF RegistryInv, PortionFits
<1>. QED
  BY <1>1, <1>2, <1>3 DEF RegistryInv, CommandFits

\* A step that only starts or ends a call.
LEMMA CallRegistry ==
    ASSUME RegistryInv, UNCHANGED <<lots, portions, events>>, DOMAIN call = Callers,
           NEW c \in Callers, NEW k, call' = [call EXCEPT ![c] = k],
           k # None => CommandFits(k)
    PROVE  RegistryInv'
<1>1. /\ \A d \in Callers : d # c => call'[d] = call[d]
      /\ call'[c] = k
  OBVIOUS
<1>2. \A d \in Callers : call'[d] # None => CommandFits(call'[d])
  BY <1>1 DEF RegistryInv
<1>3. UNCHANGED <<lots, portions, events>>
  OBVIOUS
<1>4. ASSUME NEW i \in DOMAIN events PROVE EventFits(events[i])'
  BY <1>3 DEF RegistryInv, EventFits
<1>5. ASSUME NEW i \in DOMAIN portions PROVE PortionFits(portions[i])'
  BY <1>3 DEF RegistryInv, PortionFits
<1>6. call' = [d \in Callers |-> call'[d]]
  OBVIOUS
<1>. QED
  BY <1>2, <1>3, <1>4, <1>5, <1>6 DEF RegistryInv, CommandFits

\* The management screens send well-formed commands.
LEMMA ManagementFits ==
    ASSUME RegistryInv, NEW c \in Callers, NEW cmd \in ManagementCommand(c)
    PROVE  CommandFits(cmd)
<1>0. KeysOf[c] \subseteq Keys
  BY RegistryAssumption
<1>1. CASE \E k \in KeysOf[c], s \in DOMAIN portions,
              t \in EventTypes \cap DOMAIN Transition, q \in Quantities,
              w \in Companies \cup {None} :
            cmd = [key |-> k, lot |-> portions[s].lot, type |-> t,
                   quantity |-> q, source |-> s, parent |-> None, to |-> w]
  <2>1. PICK k \in KeysOf[c], s \in DOMAIN portions,
              t \in EventTypes \cap DOMAIN Transition, q \in Quantities,
              w \in Companies \cup {None} :
            cmd = [key |-> k, lot |-> portions[s].lot, type |-> t,
                   quantity |-> q, source |-> s, parent |-> None, to |-> w]
    BY <1>1
  <2>2. portions[s].lot \in LotIds /\ s \in Keys /\ s # None /\ t # "ISSUED"
    BY RegistryAssumption DEF RegistryInv, PortionFits, PortionType, Transition
  <2>. QED
    BY <1>0, <2>1, <2>2 DEF CommandFits, Command
<1>2. CASE \E k \in KeysOf[c], s \in DOMAIN portions,
              p \in {e \in DOMAIN events : "REVERSED" \in EventTypes} :
            cmd = [key |-> k, lot |-> portions[s].lot, type |-> "REVERSED",
                   quantity |-> events[p].quantity, source |-> s,
                   parent |-> p, to |-> None]
  <2>1. PICK k \in KeysOf[c], s \in DOMAIN portions,
              p \in {e \in DOMAIN events : "REVERSED" \in EventTypes} :
            cmd = [key |-> k, lot |-> portions[s].lot, type |-> "REVERSED",
                   quantity |-> events[p].quantity, source |-> s,
                   parent |-> p, to |-> None]
    BY <1>2
  <2>2. portions[s].lot \in LotIds /\ s \in Keys /\ s # None
        /\ p \in Keys /\ events[p].quantity \in Quantities
    BY RegistryAssumption DEF RegistryInv, PortionFits, PortionType, EventFits,
       EventType
  <2>. QED
    BY <1>0, <2>1, <2>2 DEF CommandFits, Command
<1>3. CASE \E k \in KeysOf[c], l \in DOMAIN lots, w \in Companies :
            cmd = [key |-> k, lot |-> l, type |-> "ISSUED",
                   quantity |-> lots[l].issued, source |-> None,
                   parent |-> None, to |-> w]
  <2>1. PICK k \in KeysOf[c], l \in DOMAIN lots, w \in Companies :
            cmd = [key |-> k, lot |-> l, type |-> "ISSUED",
                   quantity |-> lots[l].issued, source |-> None,
                   parent |-> None, to |-> w]
    BY <1>3
  <2>2. l \in LotIds /\ lots[l].issued \in Quantities
    BY DEF RegistryInv, LotType
  <2>. QED
    BY <1>0, <2>1, <2>2 DEF CommandFits, Command
<1>. QED
  BY <1>1, <1>2, <1>3 DEF ManagementCommand

LEMMA ManageLotsRegistry ==
    ASSUME RegistryInv, ManageLots
    PROVE  RegistryInv'
<1>1. PICK l \in LotIds :
        \/ \E q \in Quantities : CreateLot(l, q) \/ UpdateLot(l, q)
        \/ ArchiveLot(l)
  BY DEF ManageLots
<1>2. UNCHANGED <<portions, events, call>>
  BY <1>1 DEF CreateLot, UpdateLot, ArchiveLot
<1>3. lots \in [DOMAIN lots -> LotType] /\ DOMAIN lots \subseteq LotIds
  BY DEF RegistryInv
<1>4. ASSUME NEW q \in Quantities, CreateLot(l, q) PROVE RegistryInv'
  <2>1. Draft(q) \in LotType /\ l \notin DOMAIN lots
        /\ lots' = With(lots, l, Draft(q))
    BY <1>4 DEF CreateLot, Draft, LotType
  <2>2. /\ lots' \in [DOMAIN lots' -> LotType] /\ DOMAIN lots' = DOMAIN lots \cup {l}
        /\ \A m \in DOMAIN lots : lots'[m] = lots[m]
    BY <1>3, <2>1 DEF With
  <2>. QED
    BY <1>2, <1>3, <2>2, LotsRegistry
<1>5. ASSUME NEW q \in Quantities, UpdateLot(l, q) PROVE RegistryInv'
  <2>1. lots' = [lots EXCEPT ![l].issued = q] /\ l \in DOMAIN lots
    BY <1>5 DEF UpdateLot
  <2>2. /\ lots' \in [DOMAIN lots' -> LotType] /\ DOMAIN lots' = DOMAIN lots
        /\ \A m \in DOMAIN lots : lots'[m].issuedAt = lots[m].issuedAt
    BY <1>3, <2>1 DEF LotType
  <2>. QED
    BY <1>2, <1>3, <2>2, LotsRegistry
<1>6. CASE ArchiveLot(l)
  <2>1. lots' = [lots EXCEPT ![l].archived = TRUE] /\ l \in DOMAIN lots
    BY <1>6 DEF ArchiveLot
  <2>2. /\ lots' \in [DOMAIN lots' -> LotType] /\ DOMAIN lots' = DOMAIN lots
        /\ \A m \in DOMAIN lots : lots'[m].issuedAt = lots[m].issuedAt
    BY <1>3, <2>1 DEF LotType
  <2>. QED
    BY <1>2, <1>3, <2>2, LotsRegistry
<1>. QED
  BY <1>1, <1>4, <1>5, <1>6
LEMMA SaveLotRegistry ==
    ASSUME IInv, RegistryInv, NEW o \in Officers, NEW l \in LotIds, SaveLot(o, l)
    PROVE  RegistryInv'
<1>1. PICK r : r = approval[o].request
  OBVIOUS
<1>2. r \in DOMAIN requests
  BY <1>1 DEF SaveLot, IInv, ApprovalsInFlight, ApprovalOK
<1>3. PICK q \in Quantities : q = requests[r].quantity
  BY <1>2 DEF IInv, Tables, RequestType
<1>4. lots' = With(lots, l, Draft(q)) /\ l \notin DOMAIN lots
      /\ UNCHANGED <<portions, events, call>>
  BY <1>1, <1>3 DEF SaveLot
<1>5. Draft(q) \in LotType /\ lots \in [DOMAIN lots -> LotType]
  BY DEF Draft, LotType, RegistryInv
<1>6. /\ lots' \in [DOMAIN lots' -> LotType] /\ DOMAIN lots' = DOMAIN lots \cup {l}
      /\ \A m \in DOMAIN lots : lots'[m] = lots[m]
  BY <1>4, <1>5 DEF With
<1>7. DOMAIN lots' \subseteq LotIds
  BY <1>6 DEF RegistryInv
<1>. QED
  BY <1>4, <1>6, <1>7, LotsRegistry

LEMMA SubmitIssueRegistry ==
    ASSUME IInv, RegistryInv, NEW o \in Officers, SubmitIssue(o)
    PROVE  RegistryInv'
<1>0. o \in Callers /\ DOMAIN call = Callers
  BY IssuanceAssumption DEF IInv, KeysInFlight
<1>1. PICK r, l : r = approval[o].request /\ l = approval[o].lot
  OBVIOUS
<1>2. r \in Requests /\ r \in DOMAIN requests /\ l \in LotIds
  BY <1>1 DEF SubmitIssue, IInv, ApprovalsInFlight, ApprovalOK
<1>3. /\ requests[r].quantity \in Quantities /\ requests[r].company \in Companies
      /\ IssueKey[r] \in Keys
  BY <1>2, IssuanceAssumption DEF IInv, Tables, RequestType
<1>4. CommandFits(IssueCommand(o))
  BY <1>1, <1>2, <1>3 DEF IssueCommand, CommandFits, Command
<1>5. call' = [call EXCEPT ![o] = IssueCommand(o)] /\ UNCHANGED <<lots, portions, events>>
  BY DEF SubmitIssue, Submit
<1>. QED
  BY <1>0, <1>4, <1>5, CallRegistry

LEMMA NextRegistry ==
    ASSUME IInv, RegistryInv, [IssuanceNext]_issuanceVars
    PROVE  RegistryInv'
<1>0. /\ Managers \subseteq Callers /\ Officers \subseteq Callers
      /\ DOMAIN call = Callers /\ KeysInFlight
  BY IssuanceAssumption DEF IInv, KeysInFlight
<1>1. CASE UNCHANGED <<lots, portions, events, call>>
  <2>1. UNCHANGED <<portions, events, call>> /\ lots' \in [DOMAIN lots' -> LotType]
        /\ DOMAIN lots' \subseteq LotIds /\ lots' = lots
    BY <1>1 DEF RegistryInv
  <2>. QED
    BY <2>1, LotsRegistry
<1>2. CASE \E c \in Callers : Record(c)
  BY <1>0, <1>2, RecordRegistry
<1>3. ASSUME NEW c \in Callers, call' = [call EXCEPT ![c] = None],
             UNCHANGED <<lots, portions, events>>
      PROVE  RegistryInv'
  BY <1>0, <1>3, CallRegistry
<1>4. CASE RegistryNext(Managers)
  <2>1. ASSUME NEW c \in Managers, NEW cmd \in ManagementCommand(c),
               Submit(c, cmd), UNCHANGED <<lots, portions, events>>
        PROVE  RegistryInv'
    <3>1. CommandFits(cmd)
      BY <1>0, ManagementFits
    <3>. QED
      BY <1>0, <2>1, <3>1, CallRegistry DEF Submit
  <2>2. CASE \E c \in Managers : Record(c)
    BY <1>0, <1>2, <2>2
  <2>3. CASE \E c \in Managers : Fail(c)
    BY <1>0, <1>3, <2>3 DEF Fail
  <2>. QED
    BY <1>4, <2>1, <2>2, <2>3, ManageLotsRegistry DEF RegistryNext
<1>5. ASSUME NEW o \in Officers, ApprovalStep(o)
      PROVE  RegistryInv'
  <2>1. CASE \E l \in LotIds : SaveLot(o, l)
    BY <2>1, SaveLotRegistry
  <2>2. CASE SubmitIssue(o)
    BY <2>2, SubmitIssueRegistry
  <2>3. CASE RecordIssue(o)
    BY <1>0, <1>2, <2>3 DEF RecordIssue
  <2>4. CASE AbandonApproval(o)
    BY <1>0, <1>3, <2>4 DEF AbandonApproval
  <2>5. CASE \/ \E r \in Requests : StartApproval(o, r) \/ Reject(o, r)
             \/ ConflictingIssue(o) \/ SaveApproved(o)
    BY <1>1, <2>5 DEF StartApproval, Reject, ConflictingIssue, SaveApproved
  <2>. QED
    BY <1>5, <2>1, <2>2, <2>3, <2>4, <2>5 DEF ApprovalStep
<1>6. CASE \E r \in Requests, b \in Blocks, q \in Quantities, w \in Companies :
            Request(r, b, q, w)
  BY <1>1, <1>6 DEF Request
<1>7. CASE UNCHANGED issuanceVars
  BY <1>1, <1>7 DEF issuanceVars
<1>. QED
  BY <1>4, <1>5, <1>6, <1>7 DEF IssuanceNext, RegistryStep

LEMMA InitRegistry == IssuanceInit => RegistryInv
<1>. SUFFICES ASSUME IssuanceInit PROVE RegistryInv
  OBVIOUS
<1>1. /\ lots = <<>> /\ portions = <<>> /\ events = <<>>
      /\ call = [c \in Callers |-> None]
  BY DEF IssuanceInit, RegistryInit
<1>2. DOMAIN lots = {} /\ DOMAIN portions = {} /\ DOMAIN events = {}
  BY <1>1
<1>3. lots \in [DOMAIN lots -> LotType]
  BY <1>1, <1>2
<1>4. IsFiniteSet(DOMAIN events)
  BY <1>2, FS_EmptySet
<1>5. call = [c \in Callers |-> call[c]]
  BY <1>1
<1>. QED
  BY <1>1, <1>2, <1>3, <1>4, <1>5 DEF RegistryInv

-----------------------------------------------------------------------------
(* The rows of the requests. *)
RequestsFit ==
    /\ DOMAIN requests \subseteq Requests
    /\ \A r \in DOMAIN requests :
        (requests[r].lot # None) <=> (requests[r].status = "APPROVED")

LEMMA NextRequests ==
    ASSUME IInv, RequestsFit, [IssuanceNext]_issuanceVars
    PROVE  RequestsFit'
<1>1. CASE UNCHANGED requests
  BY <1>1 DEF RequestsFit
<1>2. ASSUME NEW r \in Requests, NEW b \in Blocks, NEW q \in Quantities,
             NEW w \in Companies, Request(r, b, q, w)
      PROVE  RequestsFit'
  <2>1. PICK row : /\ row = [block |-> b, quantity |-> q, company |-> w,
                             status |-> "PENDING", lot |-> None]
                  /\ requests' = With(requests, r, row)
    BY <1>2 DEF Request
  <2>2. row.lot = None /\ row.status # "APPROVED"
    BY <2>1
  <2>3. /\ DOMAIN requests' = DOMAIN requests \cup {r} /\ requests'[r] = row
        /\ \A s \in DOMAIN requests : s # r => requests'[s] = requests[s]
    BY <2>1 DEF With
  <2>. QED
    BY <2>2, <2>3 DEF RequestsFit
<1>3. ASSUME NEW o \in Officers, NEW r \in Requests, Reject(o, r)
      PROVE  RequestsFit'
  <2>1. /\ requests' = [requests EXCEPT ![r].status = "REJECTED"]
        /\ r \in DOMAIN requests /\ requests[r].lot = None
    BY <1>3 DEF Reject, RequestsFit
  <2>2. requests[r] \in RequestType
    BY <2>1 DEF IInv, Tables
  <2>3. /\ DOMAIN requests' = DOMAIN requests
        /\ requests'[r] = [requests[r] EXCEPT !.status = "REJECTED"]
        /\ \A s \in DOMAIN requests : s # r => requests'[s] = requests[s]
    BY <2>1
  <2>4. requests'[r].lot = None /\ requests'[r].status = "REJECTED"
    BY <2>1, <2>2, <2>3 DEF RequestType
  <2>5. /\ DOMAIN requests' \subseteq Requests
        /\ \A s \in DOMAIN requests' : s # r => requests'[s] = requests[s]
        /\ \A s \in DOMAIN requests' : s # r => s \in DOMAIN requests
    BY <2>3 DEF RequestsFit
  <2>6. /\ (requests'[r].lot # None) <=> (requests'[r].status = "APPROVED")
    BY <2>4
  <2>. QED
    BY <2>5, <2>6 DEF RequestsFit
<1>4. ASSUME NEW o \in Officers, SaveApproved(o)
      PROVE  RequestsFit'
  <2>1. PICK r, l : r = approval[o].request /\ l = approval[o].lot
    OBVIOUS
  <2>2. r \in DOMAIN requests /\ l \in LotIds /\ l # None
    BY <1>4, <2>1, RegistryAssumption
       DEF SaveApproved, IInv, ApprovalsInFlight, ApprovalOK
  <2>3. requests' = [requests EXCEPT ![r].status = "APPROVED", ![r].lot = l]
    BY <1>4, <2>1 DEF SaveApproved
  <2>4. requests[r] \in RequestType
    BY <2>2 DEF IInv, Tables
  <2>5. /\ DOMAIN requests' = DOMAIN requests
        /\ requests'[r] = [requests[r] EXCEPT !.status = "APPROVED", !.lot = l]
        /\ \A s \in DOMAIN requests : s # r => requests'[s] = requests[s]
    BY <2>2, <2>3
  <2>6. requests'[r].lot = l /\ requests'[r].status = "APPROVED"
    BY <2>4, <2>5 DEF RequestType
  <2>. QED
    BY <2>2, <2>5, <2>6 DEF RequestsFit
<1>5. CASE RegistryStep \/ UNCHANGED issuanceVars
  BY <1>1, <1>5 DEF RegistryStep, issuanceVars
<1>6. ASSUME NEW o \in Officers, ApprovalStep(o) PROVE RequestsFit'
  BY <1>1, <1>3, <1>4, <1>6 DEF ApprovalStep, StartApproval, SaveLot, SubmitIssue,
     ConflictingIssue, RecordIssue, AbandonApproval
<1>. QED
  BY <1>2, <1>5, <1>6 DEF IssuanceNext
-----------------------------------------------------------------------------
(* The supply of a lot. *)
IssuesOf(l) == {k \in Held(events, l) : events[k].type = "ISSUED"}

SupplyOf(l) ==
    /\ QuantityOf(portions, l) = IF lots[l].issuedAt THEN lots[l].issued ELSE 0
    /\ IF lots[l].issuedAt THEN \E k : IssuesOf(l) = {k} ELSE IssuesOf(l) = {}

SupplyInv == \A l \in DOMAIN lots : SupplyOf(l)

LEMMA NothingHeld ==
    ASSUME NEW ps, NEW l, Held(ps, l) = {}
    PROVE  QuantityOf(ps, l) = 0
<1>1. DOMAIN [k \in Held(ps, l) |-> ps[k].quantity] = {}
  OBVIOUS
<1>. QED
  BY <1>1, SumEmpty DEF QuantityOf

LEMMA SameHeld ==
    ASSUME NEW ps, NEW qs, NEW l, Held(ps, l) = Held(qs, l),
           \A k \in Held(ps, l) : ps[k] = qs[k]
    PROVE  QuantityOf(ps, l) = QuantityOf(qs, l)
<1>1. [k \in Held(ps, l) |-> ps[k].quantity] = [k \in Held(qs, l) |-> qs[k].quantity]
  OBVIOUS
<1>. QED
  BY <1>1 DEF QuantityOf

\* A lot was issued if and only if some portion of it is left.
LEMMA IssuedHolds ==
    ASSUME RegistryInv, NEW l \in DOMAIN lots, SupplyOf(l)
    PROVE  lots[l].issuedAt <=> Held(portions, l) # {}
<1>1. ASSUME lots[l].issuedAt, Held(portions, l) = {} PROVE FALSE
  <2>1. QuantityOf(portions, l) = 0
    BY <1>1, NothingHeld
  <2>2. lots[l].issued = 0
    BY <1>1, <2>1 DEF SupplyOf
  <2>3. lots[l].issued \in Quantities
    BY DEF RegistryInv, LotType
  <2>. QED
    BY <2>2, <2>3, RegistryAssumption
<1>2. ASSUME NEW k \in Held(portions, l) PROVE lots[l].issuedAt
  BY <1>2 DEF Held, RegistryInv, PortionFits
<1>. QED
  BY <1>1, <1>2

\* A lot that a step and its portions and events leave alone.
LEMMA SupplyStays ==
    ASSUME NEW l \in DOMAIN lots, SupplyOf(l), l \in DOMAIN lots',
           lots'[l].issuedAt = lots[l].issuedAt,
           lots[l].issuedAt => lots'[l].issued = lots[l].issued,
           Held(portions, l)' = Held(portions, l),
           \A k \in Held(portions, l) : portions'[k] = portions[k],
           Held(events, l)' = Held(events, l),
           \A k \in Held(events, l) : events'[k] = events[k]
    PROVE  SupplyOf(l)'
<1>1. QuantityOf(portions, l)' = QuantityOf(portions, l)
  <2>1. PICK ps, qs : ps = portions /\ qs = portions'
    OBVIOUS
  <2>2. Held(qs, l) = Held(ps, l) /\ \A k \in Held(ps, l) : ps[k] = qs[k]
    BY <2>1 DEF Held
  <2>3. QuantityOf(ps, l) = QuantityOf(qs, l)
    BY <2>2, SameHeld
  <2>4. QuantityOf(portions, l)' = QuantityOf(portions', l)
    BY DEF QuantityOf, Held
  <2>. QED
    BY <2>1, <2>3, <2>4
<1>2. IssuesOf(l)' = IssuesOf(l)
  BY DEF IssuesOf
<1>. QED
  BY <1>1, <1>2 DEF SupplyOf

\* recordEvent issues a lot once, and conserves the supply of any event.
LEMMA RecordSupply ==
    ASSUME RegistryInv, KeysInFlight, SupplyInv, NEW c \in Callers, Record(c)
    PROVE  SupplyInv'
<1>1. PICK cmd : cmd = call[c]
  OBVIOUS
<1>2. PICK n, K, s : n = cmd.lot /\ K = cmd.key /\ s = cmd.source
  OBVIOUS
<1>3. /\ CommandFits(cmd) /\ Accepts(cmd) /\ Conserves(cmd)
      /\ cmd.key \notin DOMAIN portions
      /\ cmd.source # None => cmd.source \in Held(portions, cmd.lot)
      /\ PortionStep(cmd)
  BY <1>1, RecordPortions
<1>4. /\ DOMAIN lots' = DOMAIN lots /\ cmd.lot \in DOMAIN lots
      /\ \A l \in DOMAIN lots : lots'[l].issued = lots[l].issued
      /\ \A l \in DOMAIN lots : l # cmd.lot => lots'[l] = lots[l]
      /\ cmd.type = "ISSUED" => lots'[cmd.lot].issuedAt = TRUE
      /\ cmd.type # "ISSUED" => lots' = lots
  BY <1>1, RecordIssuedAt
<1>5. /\ cmd.key \notin DOMAIN events
      /\ DOMAIN events' = DOMAIN events \cup {cmd.key}
      /\ events'[cmd.key].lot = cmd.lot /\ events'[cmd.key].type = cmd.type
      /\ \A k \in DOMAIN events : events'[k] = events[k]
  <2>1. /\ cmd.key \notin DOMAIN events
        /\ DOMAIN events' = DOMAIN events \cup {cmd.key}
        /\ events'[cmd.key] = EventOf(cmd)
        /\ \A k \in DOMAIN events : events'[k] = events[k]
    BY <1>1, RecordEvents
  <2>2. EventOf(cmd).lot = cmd.lot /\ EventOf(cmd).type = cmd.type
    BY DEF EventOf
  <2>. QED
    BY <2>1, <2>2
<1>6. /\ portions'[K].lot = n /\ K \in DOMAIN portions'
      /\ \A k \in DOMAIN portions \ {s} :
            k \in DOMAIN portions' /\ portions'[k] = portions[k]
      /\ \A k \in DOMAIN portions' : k \in DOMAIN portions \/ k = K
  BY <1>2, <1>3 DEF PortionStep
<1>7. s \in DOMAIN portions => portions[s].lot = n
  <2>1. s \in DOMAIN portions => s # None
    BY RegistryAssumption DEF RegistryInv
  <2>. QED
    BY <1>2, <1>3, <2>1 DEF Held
<1>8. s \in DOMAIN portions' => portions'[s].lot = n
  <2>1. ASSUME s \in DOMAIN portions, s \in DOMAIN portions', s # K
        PROVE  portions'[s].lot = n
    <3>1. s # None
      BY <2>1, RegistryAssumption DEF RegistryInv
    <3>2. portions'[s] = [portions[s] EXCEPT !.quantity = @ - cmd.quantity]
      BY <1>2, <1>3, <2>1, <3>1 DEF PortionStep
    <3>3. portions[s] \in PortionType
      BY <2>1 DEF RegistryInv, PortionFits
    <3>. QED
      BY <1>7, <2>1, <3>2, <3>3 DEF PortionType
  <2>. QED
    BY <1>6, <2>1
<1>9. ASSUME NEW l \in DOMAIN lots, l # n PROVE SupplyOf(l)'
  <2>1. Held(portions, l)' = Held(portions, l)
    <3>1. Held(portions, l) = {k \in DOMAIN portions : portions[k].lot = l}
      BY DEF Held
    <3>2. Held(portions, l)' = {k \in DOMAIN portions' : portions'[k].lot = l}
      BY DEF Held
    <3>. QED
      BY <1>6, <1>7, <1>8, <1>9, <3>1, <3>2
  <2>2. \A k \in Held(portions, l) : portions'[k] = portions[k]
    BY <1>6, <1>7, <1>9 DEF Held
  <2>3. /\ Held(events, l)' = Held(events, l)
        /\ \A k \in Held(events, l) : events'[k] = events[k]
    BY <1>2, <1>5, <1>9 DEF Held
  <2>4. SupplyOf(l)
    BY DEF SupplyInv
  <2>. QED
    BY <1>2, <1>4, <1>9, <2>1, <2>2, <2>3, <2>4, SupplyStays
<1>10. QuantityOf(portions, n)' = lots'[n].issued
  <2>1. portions' = PortionsAfter(cmd)
    BY <1>1 DEF Record, Apply
  <2>2. QuantityOf(portions, n)' = QuantityOf(portions', n)
    BY DEF QuantityOf, Held
  <2>. QED
    BY <1>2, <1>3, <1>4, <2>1, <2>2 DEF Conserves
<1>11. IssuesOf(n)' = IF cmd.type = "ISSUED" THEN IssuesOf(n) \cup {K} ELSE IssuesOf(n)
  <2>1. IssuesOf(n)' = {k \in DOMAIN events' : events'[k].lot = n
                                              /\ events'[k].type = "ISSUED"}
    BY DEF IssuesOf, Held
  <2>2. IssuesOf(n) = {k \in DOMAIN events : events[k].lot = n
                                            /\ events[k].type = "ISSUED"}
    BY DEF IssuesOf, Held
  <2>. QED
    BY <1>2, <1>5, <2>1, <2>2
<1>12. SupplyOf(n) /\ (lots[n].issuedAt <=> Held(portions, n) # {})
  BY <1>2, <1>4, IssuedHolds DEF SupplyInv
<1>13. CASE cmd.type = "ISSUED"
  <2>1. Held(portions, n) = {}
    BY <1>2, <1>3, <1>13 DEF Accepts, Transition
  <2>2. IssuesOf(n) = {}
    BY <1>12, <2>1 DEF SupplyOf
  <2>3. IssuesOf(n)' = {K}
    BY <1>11, <1>13, <2>2
  <2>4. SupplyOf(n)'
    BY <1>2, <1>4, <1>10, <1>13, <2>3 DEF SupplyOf
  <2>. QED
    BY <1>4, <1>9, <2>4 DEF SupplyInv
<1>14. CASE cmd.type # "ISSUED"
  <2>1. Held(portions, n) # {}
    BY <1>2, <1>3, <1>14 DEF CommandFits
  <2>2. lots[n].issuedAt /\ lots' = lots
    BY <1>4, <1>12, <1>14, <2>1
  <2>3. IssuesOf(n)' = IssuesOf(n)
    BY <1>11, <1>14
  <2>4. SupplyOf(n)'
    BY <1>10, <1>12, <2>2, <2>3 DEF SupplyOf
  <2>. QED
    BY <1>4, <1>9, <2>4 DEF SupplyInv
<1>. QED
  BY <1>13, <1>14

\* A new lot has no certificates, and a lot with certificates is not edited.
LEMMA LotsSupply ==
    ASSUME RegistryInv, SupplyInv, UNCHANGED <<portions, events>>,
           \A l \in DOMAIN lots :
                /\ l \in DOMAIN lots' /\ lots'[l].issuedAt = lots[l].issuedAt
                /\ Held(portions, l) # {} => lots'[l].issued = lots[l].issued,
           \A l \in DOMAIN lots' \ DOMAIN lots : ~lots'[l].issuedAt
    PROVE  SupplyInv'
<1>. SUFFICES ASSUME NEW l \in DOMAIN lots' PROVE SupplyOf(l)'
  BY DEF SupplyInv
<1>1. CASE l \in DOMAIN lots
  <2>1. SupplyOf(l) /\ (lots[l].issuedAt <=> Held(portions, l) # {})
    BY <1>1, IssuedHolds DEF SupplyInv
  <2>2. Held(portions, l)' = Held(portions, l) /\ Held(events, l)' = Held(events, l)
    OBVIOUS
  <2>. QED
    BY <1>1, <2>1, <2>2, SupplyStays
<1>2. CASE l \notin DOMAIN lots
  <2>1. /\ \A k \in DOMAIN portions : portions[k].lot \in DOMAIN lots
        /\ \A k \in DOMAIN events : events[k].lot \in DOMAIN lots
    BY DEF RegistryInv, PortionFits, EventFits
  <2>2. Held(portions, l) = {} /\ Held(events, l) = {}
    BY <1>2, <2>1 DEF Held
  <2>3. QuantityOf(portions, l) = 0
    BY <2>2, NothingHeld
  <2>4. QuantityOf(portions, l)' = 0 /\ IssuesOf(l)' = {}
    BY <2>2, <2>3 DEF IssuesOf
  <2>. QED
    BY <1>2, <2>4 DEF SupplyOf
<1>. QED
  BY <1>1, <1>2
LEMMA ManageLotsSupply ==
    ASSUME RegistryInv, SupplyInv, ManageLots
    PROVE  SupplyInv'
<1>1. PICK l \in LotIds :
        \/ \E q \in Quantities : CreateLot(l, q) \/ UpdateLot(l, q)
        \/ ArchiveLot(l)
  BY DEF ManageLots
<1>2. UNCHANGED <<portions, events>>
  BY <1>1 DEF CreateLot, UpdateLot, ArchiveLot
<1>3. lots \in [DOMAIN lots -> LotType]
  BY DEF RegistryInv
<1>4. ASSUME NEW q \in Quantities, CreateLot(l, q) PROVE SupplyInv'
  <2>1. ~Draft(q).issuedAt /\ l \notin DOMAIN lots /\ lots' = With(lots, l, Draft(q))
    BY <1>4 DEF CreateLot, Draft
  <2>2. /\ DOMAIN lots' = DOMAIN lots \cup {l} /\ lots'[l] = Draft(q)
        /\ \A m \in DOMAIN lots : lots'[m] = lots[m]
    BY <2>1 DEF With
  <2>. QED
    BY <1>2, <2>1, <2>2, LotsSupply
<1>5. ASSUME NEW q \in Quantities, UpdateLot(l, q) PROVE SupplyInv'
  <2>1. lots' = [lots EXCEPT ![l].issued = q] /\ l \in DOMAIN lots
        /\ Held(portions, l) = {}
    BY <1>5 DEF UpdateLot, HasHistory
  <2>2. /\ DOMAIN lots' = DOMAIN lots
        /\ \A m \in DOMAIN lots : lots'[m].issuedAt = lots[m].issuedAt
        /\ \A m \in DOMAIN lots : m # l => lots'[m] = lots[m]
    BY <1>3, <2>1 DEF LotType
  <2>. QED
    BY <1>2, <2>1, <2>2, LotsSupply
<1>6. CASE ArchiveLot(l)
  <2>1. lots' = [lots EXCEPT ![l].archived = TRUE] /\ l \in DOMAIN lots
    BY <1>6 DEF ArchiveLot
  <2>2. /\ DOMAIN lots' = DOMAIN lots
        /\ \A m \in DOMAIN lots : /\ lots'[m].issuedAt = lots[m].issuedAt
                                 /\ lots'[m].issued = lots[m].issued
    BY <1>3, <2>1 DEF LotType
  <2>. QED
    BY <1>2, <2>2, LotsSupply
<1>. QED
  BY <1>1, <1>4, <1>5, <1>6

LEMMA NextSupply ==
    ASSUME KeysInFlight, RegistryInv, SupplyInv, [IssuanceNext]_issuanceVars
    PROVE  SupplyInv'
<1>0. Managers \subseteq Callers /\ Officers \subseteq Callers
  BY IssuanceAssumption
<1>1. CASE UNCHANGED <<lots, portions, events>>
  <2>1. UNCHANGED <<portions, events>> /\ lots' = lots
    BY <1>1
  <2>. QED
    BY <2>1, LotsSupply
<1>2. CASE \E c \in Callers : Record(c)
  BY <1>2, RecordSupply
<1>3. ASSUME NEW o \in Officers, NEW l \in LotIds, SaveLot(o, l) PROVE SupplyInv'
  <2>1. PICK q : q = requests[approval[o].request].quantity
    OBVIOUS
  <2>2. ~Draft(q).issuedAt /\ l \notin DOMAIN lots /\ lots' = With(lots, l, Draft(q))
        /\ UNCHANGED <<portions, events>>
    BY <1>3, <2>1 DEF SaveLot, Draft
  <2>3. /\ DOMAIN lots' = DOMAIN lots \cup {l} /\ lots'[l] = Draft(q)
        /\ \A m \in DOMAIN lots : lots'[m] = lots[m]
    BY <2>2 DEF With
  <2>. QED
    BY <2>2, <2>3, LotsSupply
<1>4. CASE RegistryNext(Managers)
  BY <1>0, <1>1, <1>2, <1>4, ManageLotsSupply DEF RegistryNext, Fail
<1>5. ASSUME NEW o \in Officers, ApprovalStep(o) PROVE SupplyInv'
  BY <1>0, <1>1, <1>2, <1>3, <1>5 DEF ApprovalStep, StartApproval, Reject,
     SubmitIssue, ConflictingIssue, RecordIssue, SaveApproved, AbandonApproval
<1>6. CASE \E r \in Requests, b \in Blocks, q \in Quantities, w \in Companies :
            Request(r, b, q, w)
  BY <1>1, <1>6 DEF Request
<1>7. CASE UNCHANGED issuanceVars
  BY <1>1, <1>7 DEF issuanceVars
<1>. QED
  BY <1>4, <1>5, <1>6, <1>7 DEF IssuanceNext, RegistryStep
-----------------------------------------------------------------------------
(* Portions are what the journal leaves of its events. *)
TakersOf(ev, k) == {e \in DOMAIN ev : ev[e].source = k}
Taken(ev, k) == [e \in TakersOf(ev, k) |-> ev[e].quantity]
LeftOf(ev, k) == ev[k].quantity - SumFunction(Taken(ev, k))

Projected ==
    /\ portions = [k \in DOMAIN portions |-> portions[k]]
    /\ DOMAIN portions = {k \in DOMAIN events : LeftOf(events, k) # 0}
    /\ \A k \in DOMAIN portions :
        portions[k] = [lot |-> events[k].lot, owner |-> events[k].toOwner,
                       state |-> events[k].toState, quantity |-> LeftOf(events, k)]

LEMMA ProjectedIsProjection ==
    ASSUME Projected
    PROVE  ProjectionOfJournal
<1>. DEFINE row(k) == [lot |-> events[k].lot, owner |-> events[k].toOwner,
                       state |-> events[k].toState, quantity |-> LeftOf(events, k)]
<1>1. portions = [k \in {j \in DOMAIN events : LeftOf(events, j) # 0} |-> row(k)]
  <2>1. /\ portions = [k \in DOMAIN portions |-> portions[k]]
        /\ DOMAIN portions = {j \in DOMAIN events : LeftOf(events, j) # 0}
        /\ \A k \in DOMAIN portions : portions[k] = row(k)
    BY DEF Projected
  <2>. HIDE DEF row
  <2>. QED
    BY <2>1
<1>. QED
  BY <1>1 DEF ProjectionOfJournal, LeftOf, Taken, TakersOf

\* Journal fv is ev and one event more, under key K and with source s.
Appended(ev, fv, K, s) ==
    /\ IsFiniteSet(DOMAIN ev) /\ K \notin DOMAIN ev
    /\ DOMAIN fv = DOMAIN ev \cup {K} /\ \A k \in DOMAIN ev : fv[k] = ev[k]
    /\ fv[K].source = s /\ s # K /\ \A k \in DOMAIN ev : ev[k].source # K
    /\ \A k \in DOMAIN fv : fv[k].quantity \in Int

\* An event changes what is left of its source only.
LEMMA JournalGrows ==
    ASSUME NEW ev, NEW fv, NEW K, NEW s, Appended(ev, fv, K, s)
    PROVE  /\ LeftOf(fv, K) = fv[K].quantity
           /\ \A k \in DOMAIN ev : LeftOf(ev, k) \in Int
           /\ \A k \in DOMAIN ev : k # s => LeftOf(fv, k) = LeftOf(ev, k)
           /\ s \in DOMAIN ev => LeftOf(fv, s) = LeftOf(ev, s) - fv[K].quantity
<1>0. /\ IsFiniteSet(DOMAIN ev) /\ K \notin DOMAIN ev
      /\ DOMAIN fv = DOMAIN ev \cup {K} /\ \A k \in DOMAIN ev : fv[k] = ev[k]
      /\ fv[K].source = s /\ s # K /\ \A k \in DOMAIN ev : ev[k].source # K
      /\ \A k \in DOMAIN fv : fv[k].quantity \in Int
  BY DEF Appended
<1>. USE <1>0
<1>1. LeftOf(fv, K) = fv[K].quantity
  <2>1. DOMAIN Taken(fv, K) = {}
    BY DEF Taken, TakersOf
  <2>2. SumFunction(Taken(fv, K)) = 0
    BY <2>1, SumEmpty
  <2>3. fv[K].quantity \in Int
    OBVIOUS
  <2>. QED
    BY <2>2, <2>3 DEF LeftOf
<1>2. ASSUME NEW k \in DOMAIN ev PROVE SumFunction(Taken(ev, k)) \in Int
  <2>1. TakersOf(ev, k) \subseteq DOMAIN ev
    BY DEF TakersOf
  <2>2. IsFiniteSet(TakersOf(ev, k))
    BY <2>1, FS_Subset
  <2>3. /\ DOMAIN Taken(ev, k) = TakersOf(ev, k)
        /\ \A e \in TakersOf(ev, k) : Taken(ev, k)[e] = ev[e].quantity
        /\ \A e \in TakersOf(ev, k) : ev[e].quantity \in Int
    BY <2>1 DEF Taken
  <2>. QED
    BY <2>2, <2>3, SumType
<1>3. ASSUME NEW k \in DOMAIN ev, k # s PROVE LeftOf(fv, k) = LeftOf(ev, k)
  <2>1. TakersOf(fv, k) = TakersOf(ev, k)
    BY <1>3 DEF TakersOf
  <2>2. Taken(fv, k) = Taken(ev, k)
    BY <2>1 DEF Taken, TakersOf
  <2>. QED
    BY <2>2 DEF LeftOf
<1>4. ASSUME s \in DOMAIN ev PROVE LeftOf(fv, s) = LeftOf(ev, s) - fv[K].quantity
  <2>1. TakersOf(fv, s) = TakersOf(ev, s) \cup {K} /\ K \notin TakersOf(ev, s)
    BY DEF TakersOf
  <2>. DEFINE g == Taken(fv, s)
  <2>2. DOMAIN g = TakersOf(ev, s) \cup {K} /\ g[K] = fv[K].quantity
    BY <2>1 DEF Taken
  <2>3. Without(g, K) = Taken(ev, s)
    BY <2>1, <2>2 DEF Without, Taken, TakersOf
  <2>4. IsFiniteSet(DOMAIN g)
    <3>1. DOMAIN g \subseteq DOMAIN ev \cup {K}
      BY <2>2 DEF TakersOf
    <3>2. IsFiniteSet(DOMAIN ev \cup {K})
      BY FS_AddElement
    <3>. QED
      BY <3>1, <3>2, FS_Subset
  <2>5. \A e \in DOMAIN g : g[e] \in Int
    BY DEF Taken, TakersOf
  <2>6. K \in DOMAIN g
    BY <2>2
  <2>. HIDE DEF g
  <2>7. SumFunction(g) = g[K] + SumFunction(Without(g, K))
    BY <2>4, <2>5, <2>6, SumRemove
  <2>8. LeftOf(fv, s) = ev[s].quantity - (fv[K].quantity + SumFunction(Taken(ev, s)))
    BY <1>4, <2>2, <2>3, <2>7 DEF LeftOf, g
  <2>9. ev[s].quantity \in Int /\ fv[K].quantity \in Int
        /\ SumFunction(Taken(ev, s)) \in Int
    BY <1>2, <1>4
  <2>. QED
    BY <2>8, <2>9 DEF LeftOf
<1>5. \A k \in DOMAIN ev : LeftOf(ev, k) \in Int
  <2>. SUFFICES ASSUME NEW k \in DOMAIN ev PROVE LeftOf(ev, k) \in Int
    OBVIOUS
  <2>1. ev[k].quantity \in Int /\ SumFunction(Taken(ev, k)) \in Int
    BY <1>2
  <2>. QED
    BY <2>1 DEF LeftOf
<1>. QED
  BY <1>1, <1>3, <1>4, <1>5

LEMMA RecordProjected ==
    ASSUME RegistryInv, KeysInFlight, Projected, NEW c \in Callers, Record(c)
    PROVE  Projected'
<1>1. PICK cmd : cmd = call[c]
  OBVIOUS
<1>2. PICK K, s, q, n : K = cmd.key /\ s = cmd.source /\ q = cmd.quantity
                        /\ n = cmd.lot
  OBVIOUS
<1>3. /\ CommandFits(cmd) /\ Accepts(cmd)
      /\ cmd.key \in Keys /\ cmd.key \notin DOMAIN portions
      /\ cmd.key # cmd.source
      /\ cmd.source # None => /\ cmd.source \in Held(portions, cmd.lot)
                              /\ portions[cmd.source].quantity >= cmd.quantity
      /\ PortionStep(cmd)
  BY <1>1, RecordPortions
<1>4. /\ cmd.key \notin DOMAIN events
      /\ DOMAIN events' = DOMAIN events \cup {cmd.key}
      /\ events'[cmd.key] = EventOf(cmd)
      /\ \A k \in DOMAIN events : events'[k] = events[k]
  BY <1>1, RecordEvents
<1>5. PICK w, t : w = TargetOwner(cmd) /\ t = TargetState(cmd)
  OBVIOUS
<1>6. /\ events'[K].lot = n /\ events'[K].toOwner = w /\ events'[K].toState = t
      /\ events'[K].source = s /\ events'[K].quantity = q
  BY <1>2, <1>4, <1>5 DEF EventOf
<1>7. q \in Nat \ {0} /\ n \in LotIds
  BY <1>2, <1>3, RegistryAssumption DEF CommandFits, Command
<1>8. /\ IsFiniteSet(DOMAIN events) /\ DOMAIN portions \subseteq DOMAIN events
      /\ \A k \in DOMAIN events : /\ events[k].source # K
                                 /\ events[k].quantity \in Int
  <2>1. \A k \in DOMAIN events : EventFits(events[k])
    BY DEF RegistryInv
  <2>2. \A k \in DOMAIN events : /\ events[k].source \in DOMAIN events \cup {None}
                                 /\ events[k].quantity \in Quantities
    BY <2>1 DEF EventFits, EventType
  <2>. QED
    BY <1>2, <1>3, <1>4, <2>2, RegistryAssumption DEF RegistryInv
<1>9. /\ LeftOf(events', K) = q
      /\ \A k \in DOMAIN events : k # s => LeftOf(events', k) = LeftOf(events, k)
      /\ s \in DOMAIN events => /\ LeftOf(events', s) = LeftOf(events, s) - q
                                /\ LeftOf(events, s) \in Int
  <2>1. PICK ev, fv : ev = events /\ fv = events'
    OBVIOUS
  <2>2. /\ IsFiniteSet(DOMAIN ev) /\ K \notin DOMAIN ev
        /\ DOMAIN fv = DOMAIN ev \cup {K} /\ \A k \in DOMAIN ev : fv[k] = ev[k]
        /\ fv[K].source = s /\ s # K /\ fv[K].quantity = q
        /\ \A k \in DOMAIN ev : ev[k].source # K
    BY <1>2, <1>3, <1>4, <1>6, <1>8, <2>1
  <2>3. \A k \in DOMAIN fv : fv[k].quantity \in Int
    BY <1>7, <1>8, <2>1, <2>2
  <2>4. /\ LeftOf(fv, K) = fv[K].quantity
        /\ \A k \in DOMAIN ev : LeftOf(ev, k) \in Int
        /\ \A k \in DOMAIN ev : k # s => LeftOf(fv, k) = LeftOf(ev, k)
        /\ s \in DOMAIN ev => LeftOf(fv, s) = LeftOf(ev, s) - fv[K].quantity
    <3>1. Appended(ev, fv, K, s)
      BY <2>2, <2>3 DEF Appended
    <3>. QED
      BY <3>1, JournalGrows
  <2>. QED
    BY <2>1, <2>2, <2>4
<1>10. /\ portions'[K] = [lot |-> n, owner |-> w, state |-> t, quantity |-> q]
       /\ \A k \in DOMAIN portions \ {s} : portions'[k] = portions[k]
  BY <1>2, <1>3, <1>5 DEF PortionStep
<1>11. portions' = [k \in DOMAIN portions' |-> portions'[k]]
  <2>1. portions' = With(TakenFrom(cmd), cmd.key,
             [lot |-> cmd.lot, owner |-> TargetOwner(cmd),
              state |-> TargetState(cmd), quantity |-> cmd.quantity])
    BY <1>1 DEF Record, Apply, PortionsAfter
  <2>2. PICK a, b, d : portions' = With(a, b, d)
    BY <2>1
  <2>. QED
    BY <2>2 DEF With
<1>12. s \in DOMAIN events => s # None
  BY RegistryAssumption DEF RegistryInv
<1>13. /\ DOMAIN portions = {k \in DOMAIN events : LeftOf(events, k) # 0}
       /\ \A k \in DOMAIN portions :
            portions[k] = [lot |-> events[k].lot, owner |-> events[k].toOwner,
                           state |-> events[k].toState,
                           quantity |-> LeftOf(events, k)]
  BY DEF Projected
<1>14. s # None =>
         /\ s \in DOMAIN portions /\ s \in DOMAIN events
         /\ portions[s].quantity = LeftOf(events, s)
  BY <1>2, <1>3, <1>8, <1>13 DEF Held
<1>15. DOMAIN portions' = {k \in DOMAIN events' : LeftOf(events', k) # 0}
  <2>1. CASE s = None
    <3>1. DOMAIN portions' = DOMAIN portions \cup {K}
      BY <1>2, <1>3, <2>1 DEF PortionStep
    <3>. QED
      BY <1>2, <1>4, <1>7, <1>9, <1>12, <1>13, <2>1, <3>1
  <2>2. CASE s # None /\ LeftOf(events, s) = q
    <3>1. DOMAIN portions' = (DOMAIN portions \ {s}) \cup {K}
      BY <1>2, <1>3, <1>14, <2>2 DEF PortionStep
    <3>2. LeftOf(events', s) = 0
      BY <1>7, <1>9, <1>14, <2>2
    <3>. QED
      BY <1>2, <1>3, <1>4, <1>7, <1>9, <1>13, <2>2, <3>1, <3>2
  <2>3. CASE s # None /\ LeftOf(events, s) # q
    <3>1. DOMAIN portions' = DOMAIN portions \cup {K}
      BY <1>2, <1>3, <1>14, <2>3 DEF PortionStep
    <3>2. LeftOf(events', s) # 0
      BY <1>7, <1>9, <1>14, <2>3
    <3>. QED
      BY <1>2, <1>3, <1>4, <1>7, <1>9, <1>13, <1>14, <2>3, <3>1, <3>2
  <2>. QED
    BY <2>1, <2>2, <2>3
<1>16. ASSUME NEW k \in DOMAIN portions'
       PROVE  portions'[k] = [lot |-> events'[k].lot, owner |-> events'[k].toOwner,
                              state |-> events'[k].toState,
                              quantity |-> LeftOf(events', k)]
  <2>1. CASE k = K
    BY <1>6, <1>9, <1>10, <2>1
  <2>2. CASE k # K /\ k # s
    <3>1. k \in DOMAIN events /\ LeftOf(events', k) = LeftOf(events, k)
          /\ events'[k] = events[k]
      BY <1>2, <1>4, <1>9, <1>15, <1>16, <2>2
    <3>2. k \in DOMAIN portions
      BY <1>13, <1>15, <1>16, <3>1
    <3>. QED
      BY <1>10, <1>13, <2>2, <3>1, <3>2
  <2>3. CASE k # K /\ k = s
    <3>1. /\ s \in DOMAIN events /\ s # None /\ s \in DOMAIN portions
          /\ portions[s].quantity = LeftOf(events, s)
          /\ LeftOf(events', s) # 0 /\ LeftOf(events', s) = LeftOf(events, s) - q
          /\ LeftOf(events, s) \in Int
      BY <1>2, <1>4, <1>9, <1>12, <1>14, <1>15, <1>16, <2>3
    <3>2. portions[s].quantity # q
      BY <1>7, <3>1
    <3>3. portions'[s] = [portions[s] EXCEPT !.quantity = @ - q]
      BY <1>2, <1>3, <3>1, <3>2 DEF PortionStep
    <3>4. portions[s] = [lot |-> events[s].lot, owner |-> events[s].toOwner,
                         state |-> events[s].toState,
                         quantity |-> LeftOf(events, s)]
      BY <1>13, <3>1
    <3>5. portions'[s] = [lot |-> events[s].lot, owner |-> events[s].toOwner,
                          state |-> events[s].toState,
                          quantity |-> LeftOf(events, s) - q]
      BY <3>3, <3>4
    <3>6. events'[s] = events[s]
      BY <1>4, <3>1
    <3>. QED
      BY <2>3, <3>1, <3>5, <3>6
  <2>. QED
    BY <2>1, <2>2, <2>3
<1>17. \A k : LeftOf(events, k)' = LeftOf(events', k)
  BY DEF LeftOf, Taken, TakersOf
<1>. QED
  BY <1>11, <1>15, <1>16, <1>17 DEF Projected
LEMMA NextProjected ==
    ASSUME KeysInFlight, RegistryInv, Projected, [IssuanceNext]_issuanceVars
    PROVE  Projected'
<1>0. Managers \subseteq Callers /\ Officers \subseteq Callers
  BY IssuanceAssumption
<1>1. CASE UNCHANGED <<portions, events>>
  <2>1. \A k : LeftOf(events, k)' = LeftOf(events, k)
    BY <1>1 DEF LeftOf, Taken, TakersOf
  <2>. QED
    BY <1>1, <2>1 DEF Projected
<1>2. CASE \E c \in Callers : Record(c)
  BY <1>2, RecordProjected
<1>3. CASE RegistryNext(Managers)
  BY <1>0, <1>1, <1>2, <1>3 DEF RegistryNext, Fail, ManageLots, CreateLot,
     UpdateLot, ArchiveLot
<1>4. ASSUME NEW o \in Officers, ApprovalStep(o) PROVE Projected'
  BY <1>0, <1>1, <1>2, <1>4 DEF ApprovalStep, StartApproval, Reject, SaveLot,
     SubmitIssue, ConflictingIssue, RecordIssue, SaveApproved, AbandonApproval
<1>5. CASE \E r \in Requests, b \in Blocks, q \in Quantities, w \in Companies :
            Request(r, b, q, w)
  BY <1>1, <1>5 DEF Request
<1>6. CASE UNCHANGED issuanceVars
  BY <1>1, <1>6 DEF issuanceVars
<1>. QED
  BY <1>3, <1>4, <1>5, <1>6 DEF IssuanceNext, RegistryStep

-----------------------------------------------------------------------------
(* How much of a lot is in a state. *)
HeldIn(ps, l, s) == {h \in Held(ps, l) : ps[h].state = s}
AmountsIn(ps, l, s) == [k \in HeldIn(ps, l, s) |-> ps[k].quantity]

Portions(ps) == IsFiniteSet(DOMAIN ps) /\ \A k \in DOMAIN ps : ps[k].quantity \in Int

LEMMA InStateSum ==
    ASSUME NEW ps, Portions(ps), NEW l, NEW s
    PROVE  /\ InState(ps, l, s) = SumFunction(AmountsIn(ps, l, s))
           /\ IsFiniteSet(HeldIn(ps, l, s))
           /\ \A k \in HeldIn(ps, l, s) : AmountsIn(ps, l, s)[k] \in Int
           /\ InState(ps, l, s) \in Int
<1>1. InState(ps, l, s) = SumFunction(AmountsIn(ps, l, s))
  BY DEF InState, AmountsIn, HeldIn
<1>2. HeldIn(ps, l, s) \subseteq DOMAIN ps
  BY DEF HeldIn, Held
<1>3. IsFiniteSet(HeldIn(ps, l, s))
  BY <1>2, FS_Subset DEF Portions
<1>4. \A k \in HeldIn(ps, l, s) : AmountsIn(ps, l, s)[k] \in Int
  BY <1>2 DEF AmountsIn, Portions
<1>5. DOMAIN AmountsIn(ps, l, s) = HeldIn(ps, l, s)
  BY DEF AmountsIn
<1>6. SumFunction(AmountsIn(ps, l, s)) \in Int
  BY <1>3, <1>4, <1>5, SumType
<1>. QED
  BY <1>1, <1>3, <1>4, <1>6

\* qs is ps and a portion more.
Gained(ps, qs, K) ==
    /\ K \notin DOMAIN ps /\ DOMAIN qs = DOMAIN ps \cup {K}
    /\ \A k \in DOMAIN ps : qs[k] = ps[k]
    /\ Portions(qs)

PartIn(p, l, s) == IF p.lot = l /\ p.state = s THEN p.quantity ELSE 0

LEMMA GainedIn ==
    ASSUME NEW ps, NEW qs, NEW K, Gained(ps, qs, K), NEW l, NEW s
    PROVE  /\ InState(qs, l, s) = InState(ps, l, s) + PartIn(qs[K], l, s)
           /\ Portions(ps)
<1>1. /\ K \notin DOMAIN ps /\ DOMAIN qs = DOMAIN ps \cup {K}
      /\ \A k \in DOMAIN ps : qs[k] = ps[k]
      /\ Portions(qs)
  BY DEF Gained
<1>2. Portions(ps)
  BY <1>1, FS_Subset DEF Portions
<1>3. /\ InState(qs, l, s) = SumFunction(AmountsIn(qs, l, s))
      /\ IsFiniteSet(HeldIn(qs, l, s))
      /\ \A k \in HeldIn(qs, l, s) : AmountsIn(qs, l, s)[k] \in Int
  BY <1>1, InStateSum
<1>4. InState(ps, l, s) = SumFunction(AmountsIn(ps, l, s)) /\ InState(ps, l, s) \in Int
  BY <1>2, InStateSum
<1>5. CASE qs[K].lot = l /\ qs[K].state = s
  <2>1. HeldIn(qs, l, s) = HeldIn(ps, l, s) \cup {K} /\ K \notin HeldIn(ps, l, s)
    BY <1>1, <1>5 DEF HeldIn, Held
  <2>. DEFINE g == AmountsIn(qs, l, s)
  <2>2. DOMAIN g = HeldIn(qs, l, s) /\ K \in DOMAIN g /\ g[K] = qs[K].quantity
    BY <2>1 DEF AmountsIn
  <2>3. Without(g, K) = AmountsIn(ps, l, s)
    <3>1. \A k \in HeldIn(ps, l, s) : g[k] = ps[k].quantity
      BY <1>1, <2>1 DEF AmountsIn, HeldIn, Held
    <3>2. DOMAIN g \ {K} = HeldIn(ps, l, s)
      BY <2>1, <2>2
    <3>. HIDE DEF g
    <3>. QED
      BY <3>1, <3>2 DEF Without, AmountsIn
  <2>. HIDE DEF g
  <2>4. SumFunction(g) = g[K] + SumFunction(Without(g, K))
    BY <1>3, <2>2, SumRemove DEF g
  <2>5. PartIn(qs[K], l, s) = qs[K].quantity /\ qs[K].quantity \in Int
    BY <1>1, <1>5 DEF PartIn, Portions
  <2>6. InState(qs, l, s) = qs[K].quantity + InState(ps, l, s)
    BY <1>3, <1>4, <2>2, <2>3, <2>4 DEF g
  <2>. QED
    BY <1>2, <1>4, <2>5, <2>6
<1>6. CASE ~(qs[K].lot = l /\ qs[K].state = s)
  <2>1. HeldIn(qs, l, s) = HeldIn(ps, l, s)
    BY <1>1, <1>6 DEF HeldIn, Held
  <2>2. AmountsIn(qs, l, s) = AmountsIn(ps, l, s)
    BY <1>1, <2>1 DEF AmountsIn, HeldIn, Held
  <2>3. PartIn(qs[K], l, s) = 0
    BY <1>6 DEF PartIn
  <2>. QED
    BY <1>2, <1>3, <1>4, <2>2, <2>3
<1>. QED
  BY <1>5, <1>6

\* qs is ps after q was taken from portion S.
Reduced(ps, qs, S, q) ==
    /\ S \in DOMAIN ps /\ DOMAIN qs = DOMAIN ps /\ q \in Int
    /\ \A k \in DOMAIN ps : k # S => qs[k] = ps[k]
    /\ qs[S].lot = ps[S].lot /\ qs[S].state = ps[S].state
    /\ qs[S].quantity = ps[S].quantity - q
    /\ Portions(ps)

LEMMA ReducedIn ==
    ASSUME NEW ps, NEW qs, NEW S, NEW q, Reduced(ps, qs, S, q), NEW l, NEW s
    PROVE  /\ InState(qs, l, s) =
                InState(ps, l, s) - (IF ps[S].lot = l /\ ps[S].state = s THEN q ELSE 0)
           /\ Portions(qs)
<1>1. /\ S \in DOMAIN ps /\ DOMAIN qs = DOMAIN ps /\ q \in Int
      /\ \A k \in DOMAIN ps : k # S => qs[k] = ps[k]
      /\ qs[S].lot = ps[S].lot /\ qs[S].state = ps[S].state
      /\ qs[S].quantity = ps[S].quantity - q
      /\ Portions(ps)
  BY DEF Reduced
<1>2. Portions(qs)
  BY <1>1 DEF Portions
<1>3. /\ InState(qs, l, s) = SumFunction(AmountsIn(qs, l, s))
      /\ \A k \in HeldIn(qs, l, s) : AmountsIn(qs, l, s)[k] \in Int
  BY <1>2, InStateSum
<1>4. /\ InState(ps, l, s) = SumFunction(AmountsIn(ps, l, s)) /\ InState(ps, l, s) \in Int
      /\ IsFiniteSet(HeldIn(ps, l, s))
      /\ \A k \in HeldIn(ps, l, s) : AmountsIn(ps, l, s)[k] \in Int
  BY <1>1, InStateSum
<1>5. HeldIn(qs, l, s) = HeldIn(ps, l, s)
  BY <1>1 DEF HeldIn, Held
<1>6. CASE ps[S].lot = l /\ ps[S].state = s
  <2>. DEFINE g == AmountsIn(ps, l, s)
             h == AmountsIn(qs, l, s)
  <2>1. /\ S \in HeldIn(ps, l, s) /\ DOMAIN g = HeldIn(ps, l, s)
        /\ DOMAIN h = HeldIn(ps, l, s)
        /\ g[S] = ps[S].quantity /\ h[S] = ps[S].quantity - q
    BY <1>1, <1>5, <1>6 DEF AmountsIn, HeldIn, Held
  <2>2. \A k \in DOMAIN g \ {S} : h[k] = g[k]
    BY <1>1, <1>5 DEF AmountsIn, HeldIn, Held
  <2>3. \A k \in DOMAIN g : g[k] \in Int /\ h[k] \in Int
    BY <1>3, <1>4, <1>5, <2>1
  <2>. HIDE DEF g, h
  <2>4. SumFunction(h) = SumFunction(g) - g[S] + h[S]
    BY <1>4, <2>1, <2>2, <2>3, SumUpdate
  <2>5. ps[S].quantity \in Int
    BY <1>1 DEF Portions
  <2>6. InState(qs, l, s) = InState(ps, l, s) - ps[S].quantity + (ps[S].quantity - q)
    BY <1>3, <1>4, <2>1, <2>4 DEF g, h
  <2>. QED
    BY <1>1, <1>2, <1>4, <1>6, <2>5, <2>6
<1>7. CASE ~(ps[S].lot = l /\ ps[S].state = s)
  <2>1. S \notin HeldIn(ps, l, s)
    BY <1>7 DEF HeldIn, Held
  <2>2. AmountsIn(qs, l, s) = AmountsIn(ps, l, s)
    BY <1>1, <1>5, <2>1 DEF AmountsIn, HeldIn, Held
  <2>. QED
    BY <1>2, <1>3, <1>4, <1>7, <2>2
<1>. QED
  BY <1>6, <1>7
\* What the source loses: the quantity of the event, in its lot and state.
Loss(cmd, l, s) ==
    IF /\ cmd.source # None
       /\ portions[cmd.source].lot = l /\ portions[cmd.source].state = s
    THEN cmd.quantity ELSE 0

LEMMA RecordInState ==
    ASSUME RegistryInv, KeysInFlight, NEW c \in Callers, Record(c),
           NEW cmd, cmd = call[c], NEW l, NEW s
    PROVE  /\ InState(portions', l, s) = InState(portions, l, s) - Loss(cmd, l, s)
                                           + PartIn(portions'[cmd.key], l, s)
           /\ InState(portions, l, s) \in Int
<1>1. PICK ts, K, S, q, row :
            /\ ts = TakenFrom(cmd) /\ K = cmd.key /\ S = cmd.source
            /\ q = cmd.quantity
            /\ row = [lot |-> cmd.lot, owner |-> TargetOwner(cmd),
                      state |-> TargetState(cmd), quantity |-> cmd.quantity]
  OBVIOUS
<1>2. /\ CommandFits(cmd) /\ cmd.key \notin DOMAIN portions
      /\ cmd.source # None => cmd.source \in Held(portions, cmd.lot)
  BY RecordPortions
<1>3. portions' = With(ts, K, row)
  BY <1>1 DEF Record, Apply, PortionsAfter
<1>4. /\ DOMAIN portions' = DOMAIN ts \cup {K} /\ portions'[K] = row
      /\ \A k \in DOMAIN ts : k # K => portions'[k] = ts[k]
  BY <1>3 DEF With
<1>5. RegistryInv'
  BY RecordRegistry
<1>6. Portions(portions) /\ Portions(portions')
  <2>1. /\ IsFiniteSet(DOMAIN portions)
        /\ \A k \in DOMAIN portions : portions[k].quantity \in Int
    BY FS_Subset DEF RegistryInv, PortionFits, PortionType
  <2>2. /\ IsFiniteSet(DOMAIN events') /\ DOMAIN portions' \subseteq DOMAIN events'
        /\ \A k \in DOMAIN portions' : portions'[k].quantity \in Int
    BY <1>5 DEF RegistryInv, PortionFits, PortionType
  <2>3. IsFiniteSet(DOMAIN portions')
    BY <2>2, FS_Subset
  <2>. QED
    BY <2>1, <2>2, <2>3 DEF Portions
<1>7. q \in Nat
  BY <1>1, <1>2, RegistryAssumption DEF CommandFits, Command
<1>8. K \notin DOMAIN ts => /\ InState(portions', l, s) =
                               InState(ts, l, s) + PartIn(portions'[K], l, s)
                           /\ Portions(ts)
  <2>. SUFFICES ASSUME K \notin DOMAIN ts
                PROVE  /\ InState(portions', l, s) =
                            InState(ts, l, s) + PartIn(portions'[K], l, s)
                       /\ Portions(ts)
    OBVIOUS
  <2>1. Gained(ts, portions', K)
    BY <1>4, <1>6 DEF Gained
  <2>. QED
    BY <2>1, GainedIn
<1>9. InState(portions, l, s) \in Int
  BY <1>6, InStateSum
<1>10. CASE S = None
  <2>1. ts = portions
    BY <1>1, <1>10 DEF TakenFrom
  <2>2. Loss(cmd, l, s) = 0
    BY <1>1, <1>10 DEF Loss
  <2>. QED
    BY <1>1, <1>2, <1>8, <1>9, <2>1, <2>2
<1>11. CASE S # None /\ portions[S].quantity = q
  <2>1. /\ DOMAIN ts = DOMAIN portions \ {S}
        /\ \A k \in DOMAIN portions \ {S} : ts[k] = portions[k]
    BY <1>1, <1>11, TakenWhole
  <2>2. S \in DOMAIN portions
    BY <1>1, <1>2, <1>11 DEF Held
  <2>3. Gained(ts, portions, S)
    BY <1>6, <2>1, <2>2 DEF Gained
  <2>4. InState(portions, l, s) = InState(ts, l, s) + PartIn(portions[S], l, s)
        /\ Portions(ts)
    BY <2>3, GainedIn
  <2>5. InState(ts, l, s) \in Int
    BY <2>4, InStateSum
  <2>6. Loss(cmd, l, s) = PartIn(portions[S], l, s) /\ Loss(cmd, l, s) \in Int
    BY <1>1, <1>7, <1>11 DEF Loss, PartIn
  <2>7. InState(ts, l, s) = InState(portions, l, s) - Loss(cmd, l, s)
    BY <1>9, <2>4, <2>5, <2>6
  <2>8. K \notin DOMAIN ts
    BY <1>1, <1>2, <2>1
  <2>. QED
    BY <1>1, <1>8, <1>9, <2>7, <2>8
<1>12. CASE S # None /\ portions[S].quantity # q
  <2>1. S \in DOMAIN portions
    BY <1>1, <1>2, <1>12 DEF Held
  <2>2. /\ DOMAIN ts = DOMAIN portions
        /\ ts[S] = [portions[S] EXCEPT !.quantity = @ - q]
        /\ \A k \in DOMAIN portions \ {S} : ts[k] = portions[k]
    BY <1>1, <1>12, <2>1, TakenPart
  <2>3. portions[S] \in PortionType
    BY <2>1 DEF RegistryInv, PortionFits
  <2>4. /\ ts[S].lot = portions[S].lot /\ ts[S].state = portions[S].state
        /\ ts[S].quantity = portions[S].quantity - q
    BY <2>2, <2>3 DEF PortionType
  <2>5. Reduced(portions, ts, S, q)
    BY <1>6, <1>7, <2>1, <2>2, <2>4 DEF Reduced
  <2>6. InState(ts, l, s) = InState(portions, l, s)
            - (IF portions[S].lot = l /\ portions[S].state = s THEN q ELSE 0)
    BY <2>5, ReducedIn
  <2>7. InState(ts, l, s) = InState(portions, l, s) - Loss(cmd, l, s)
    BY <1>1, <1>12, <2>6 DEF Loss
  <2>8. K \notin DOMAIN ts
    BY <1>1, <1>2, <2>2
  <2>. QED
    BY <1>1, <1>8, <1>9, <2>7, <2>8
<1>. QED
  BY <1>10, <1>11, <1>12

\* What FinalUnlessReversed asks of a step.
OnlyReversed ==
    \A l \in DOMAIN lots, s \in {"RETIRED", "CANCELLED"} :
        InState(portions', l, s) < InState(portions, l, s) =>
            \E k \in DOMAIN events' \ DOMAIN events :
                /\ events'[k].type = "REVERSED"
                /\ events[events'[k].parent].toState = s
                /\ InState(portions, l, s) - InState(portions', l, s)
                    = events[events'[k].parent].quantity

LEMMA RecordOnlyReversed ==
    ASSUME RegistryInv, KeysInFlight, NEW c \in Callers, Record(c)
    PROVE  OnlyReversed
<1>. SUFFICES ASSUME NEW l \in DOMAIN lots, NEW s \in {"RETIRED", "CANCELLED"},
                     InState(portions', l, s) < InState(portions, l, s)
              PROVE  \E k \in DOMAIN events' \ DOMAIN events :
                        /\ events'[k].type = "REVERSED"
                        /\ events[events'[k].parent].toState = s
                        /\ InState(portions, l, s) - InState(portions', l, s)
                            = events[events'[k].parent].quantity
  BY DEF OnlyReversed
<1>1. PICK cmd : cmd = call[c]
  OBVIOUS
<1>2. PICK a, b, d, e : /\ a = InState(portions, l, s) /\ b = InState(portions', l, s)
                        /\ d = Loss(cmd, l, s)
                        /\ e = PartIn(portions'[cmd.key], l, s)
  OBVIOUS
<1>3. b = a - d + e /\ a \in Int /\ b < a
  BY <1>1, <1>2, RecordInState
<1>4. /\ CommandFits(cmd) /\ Accepts(cmd) /\ PortionStep(cmd)
      /\ cmd.source # None => cmd.source \in Held(portions, cmd.lot)
  BY <1>1, RecordPortions
<1>5. cmd.quantity \in Nat
  BY <1>4, RegistryAssumption DEF CommandFits, Command
<1>6. e \in {0, cmd.quantity} /\ (e = cmd.quantity \/ e = 0)
  BY <1>2, <1>4 DEF PartIn, PortionStep
<1>7. /\ cmd.source # None
      /\ portions[cmd.source].state = s /\ d = cmd.quantity
  <2>1. \/ d = 0
        \/ /\ cmd.source # None
           /\ portions[cmd.source].state = s /\ d = cmd.quantity
    BY <1>2 DEF Loss
  <2>2. d = 0 => FALSE
    BY <1>3, <1>5, <1>6
  <2>. QED
    BY <2>1, <2>2
<1>8. a - b = cmd.quantity
  BY <1>3, <1>5, <1>6, <1>7
<1>9. cmd.type = "REVERSED" /\ Reversible(cmd)
  <2>1. cmd.type # "ISSUED"
    BY <1>4, <1>7 DEF CommandFits
  <2>2. cmd.type \in DOMAIN Transition => Transition[cmd.type].from # s
    BY DEF Transition
  <2>. QED
    BY <1>4, <1>7, <2>1, <2>2 DEF Accepts
<1>10. /\ events[cmd.parent].quantity = cmd.quantity
       /\ events[cmd.parent].toState = s
  BY <1>7, <1>9 DEF Reversible
<1>11. /\ cmd.key \notin DOMAIN events /\ cmd.key \in DOMAIN events'
       /\ events'[cmd.key] = EventOf(cmd)
  BY <1>1, RecordEvents
<1>12. EventOf(cmd).type = "REVERSED" /\ EventOf(cmd).parent = cmd.parent
  BY <1>9 DEF EventOf
<1>. QED
  BY <1>2, <1>8, <1>10, <1>11, <1>12

LEMMA NextOnlyReversed ==
    ASSUME KeysInFlight, RegistryInv, [IssuanceNext]_issuanceVars
    PROVE  OnlyReversed
<1>0. Managers \subseteq Callers /\ Officers \subseteq Callers
  BY IssuanceAssumption
<1>1. CASE UNCHANGED portions
  <2>1. Portions(portions)
    BY FS_Subset DEF RegistryInv, PortionFits, PortionType, Portions
  <2>2. ASSUME NEW l, NEW s PROVE ~(InState(portions', l, s) < InState(portions, l, s))
    <3>1. InState(portions, l, s) \in Int
      BY <2>1, InStateSum
    <3>2. InState(portions', l, s) = InState(portions, l, s)
      BY <1>1
    <3>. QED
      BY <3>1, <3>2
  <2>. QED
    BY <2>2 DEF OnlyReversed
<1>2. CASE \E c \in Callers : Record(c)
  BY <1>2, RecordOnlyReversed
<1>3. CASE RegistryNext(Managers)
  BY <1>0, <1>1, <1>2, <1>3 DEF RegistryNext, Fail, ManageLots, CreateLot,
     UpdateLot, ArchiveLot
<1>4. ASSUME NEW o \in Officers, ApprovalStep(o) PROVE OnlyReversed
  BY <1>0, <1>1, <1>2, <1>4 DEF ApprovalStep, StartApproval, Reject, SaveLot,
     SubmitIssue, ConflictingIssue, RecordIssue, SaveApproved, AbandonApproval
<1>5. CASE \E r \in Requests, b \in Blocks, q \in Quantities, w \in Companies :
            Request(r, b, q, w)
  BY <1>1, <1>5 DEF Request
<1>6. CASE UNCHANGED issuanceVars
  BY <1>1, <1>6 DEF issuanceVars
<1>. QED
  BY <1>3, <1>4, <1>5, <1>6 DEF IssuanceNext, RegistryStep

-----------------------------------------------------------------------------
(* The invariants together. *)
FullInv == IInv /\ RegistryInv /\ RequestsFit /\ SupplyInv /\ Projected

LEMMA InitFull == IssuanceInit => FullInv
<1>. SUFFICES ASSUME IssuanceInit PROVE FullInv
  OBVIOUS
<1>1. /\ lots = <<>> /\ portions = <<>> /\ events = <<>> /\ requests = <<>>
  BY DEF IssuanceInit, RegistryInit
<1>2. /\ DOMAIN lots = {} /\ DOMAIN portions = {} /\ DOMAIN events = {}
      /\ DOMAIN requests = {}
  BY <1>1
<1>3. SupplyInv /\ RequestsFit
  BY <1>2 DEF SupplyInv, RequestsFit
<1>4. Projected
  BY <1>1, <1>2 DEF Projected
<1>. QED
  BY <1>3, <1>4, InitInv, InitRegistry DEF FullInv

LEMMA NextFull ==
    ASSUME OwnKeys, FullInv, [IssuanceNext]_issuanceVars
    PROVE  FullInv'
BY NextInv, NextRegistry, NextRequests, NextSupply, NextProjected DEF FullInv, IInv


\* The inductive invariant of the certificates: what calls and approvals on
\* their way rest on, the types, the supply of every lot and the projection.
THEOREM CertificatesInvariant == OwnKeys => (IssuanceSpec => []FullInv)
<1>. SUFFICES ASSUME OwnKeys PROVE IssuanceSpec => []FullInv
  OBVIOUS
<1>1. FullInv /\ [IssuanceNext]_issuanceVars => FullInv'
  BY NextFull
<1>. QED
  BY <1>1, InitFull, PTL DEF IssuanceSpec

\* Every row keeps its type; every portion has an owner and is not empty.
THEOREM CertificateTypes == OwnKeys => (IssuanceSpec => []TypeOK)
<1>1. FullInv => TypeOK
  <2>. SUFFICES ASSUME FullInv PROVE TypeOK
    OBVIOUS
  <2>1. /\ DOMAIN lots \subseteq LotIds
        /\ \A l \in DOMAIN lots : lots[l] \in LotType
        /\ DOMAIN portions \subseteq DOMAIN events /\ DOMAIN events \subseteq Keys
        /\ \A k \in DOMAIN portions : portions[k] \in PortionType
        /\ \A k \in DOMAIN events : events[k] \in EventType
    BY DEF FullInv, RegistryInv, PortionFits, EventFits
  <2>2. call \in [Callers -> Command \cup {None}]
    <3>1. DOMAIN call = Callers /\ \A c \in Callers : call[c] # None => CommandFits(call[c])
      BY DEF FullInv, RegistryInv, IInv, KeysInFlight
    <3>2. call = [c \in Callers |-> call[c]]
      BY DEF FullInv, RegistryInv
    <3>. QED
      BY <3>1, <3>2 DEF CommandFits
  <2>3. /\ DOMAIN requests \subseteq Requests
        /\ \A r \in DOMAIN requests :
            /\ requests[r] \in RequestType
            /\ (requests[r].lot # None) <=> (requests[r].status = "APPROVED")
    BY DEF FullInv, RequestsFit, IInv, Tables
  <2>4. approval \in [Officers -> ApprovalType]
    BY DEF FullInv, IInv, Tables
  <2>. QED
    BY <2>1, <2>2, <2>3, <2>4 DEF TypeOK, ApprovalType
<1>. QED
  BY <1>1, CertificatesInvariant, PTL

\* "The issued quantity is the immutable supply ceiling": whatever events are
\* recorded and whatever approvals die, a lot is issued once and then holds
\* exactly its quantity.
THEOREM SupplyAlwaysConserved == OwnKeys => (IssuanceSpec => []SupplyIsConserved)
<1>1. FullInv => SupplyIsConserved
  <2>. SUFFICES ASSUME FullInv, NEW l \in DOMAIN lots
                PROVE  Cardinality({k \in Held(events, l) : events[k].type = "ISSUED"})
                        = IF lots[l].issuedAt THEN 1 ELSE 0
    BY DEF FullInv, SupplyInv, SupplyOf, SupplyIsConserved
  <2>1. IF lots[l].issuedAt THEN \E k : IssuesOf(l) = {k} ELSE IssuesOf(l) = {}
    BY DEF FullInv, SupplyInv, SupplyOf
  <2>2. Cardinality(IssuesOf(l)) = IF lots[l].issuedAt THEN 1 ELSE 0
    BY <2>1, FS_EmptySet, FS_Singleton
  <2>. QED
    BY <2>2 DEF IssuesOf
<1>. QED
  BY <1>1, CertificatesInvariant, PTL

\* "Portions are a replaceable current-state projection": replaying the journal
\* always gives the portions that are stored.
THEOREM PortionsAreProjection == OwnKeys => (IssuanceSpec => []ProjectionOfJournal)
<1>1. FullInv => ProjectionOfJournal
  BY ProjectedIsProjection DEF FullInv
<1>. QED
  BY <1>1, CertificatesInvariant, PTL

\* Retired and cancelled certificates come back only by the reversal of an
\* event that retired or cancelled as many.
THEOREM OnlyReversalReturns == OwnKeys => (IssuanceSpec => FinalUnlessReversed)
<1>. SUFFICES ASSUME OwnKeys PROVE IssuanceSpec => FinalUnlessReversed
  OBVIOUS
<1>1. FullInv /\ [IssuanceNext]_issuanceVars => [OnlyReversed]_issuanceVars
  BY NextOnlyReversed DEF FullInv, IInv
<1>2. [OnlyReversed]_issuanceVars
        => [\A l \in DOMAIN lots, s \in {"RETIRED", "CANCELLED"} :
              InState(portions', l, s) < InState(portions, l, s) =>
                \E k \in DOMAIN events' \ DOMAIN events :
                    /\ events'[k].type = "REVERSED"
                    /\ events[events'[k].parent].toState = s
                    /\ InState(portions, l, s) - InState(portions', l, s)
                        = events[events'[k].parent].quantity]_issuanceVars
  BY DEF OnlyReversed
<1>. QED
  BY <1>1, <1>2, CertificatesInvariant, PTL DEF FinalUnlessReversed, IssuanceSpec
=============================================================================
