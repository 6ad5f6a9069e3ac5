------------------------ MODULE CreditRequestsProofs ------------------------
(***************************************************************************)
(* Proofs about CreditRequests when calls overlap in any way and processes *)
(* die anywhere, for any number of workers, projects and requests.         *)
(*                                                                         *)
(* A call writes columns it computed from rows that others may have        *)
(* changed since, so what holds must hold of the columns each call writes  *)
(* together: last and amount (Covers), reserved and records (Reserves),    *)
(* issued.  An update that waits is good if it turns every good row into a *)
(* good row (UpdateOK), whichever it meets when its rows are read again.   *)
(* It stays so while the counter hands out further request ids, which is   *)
(* why UpdateOK speaks of every later set of used ids.                     *)
(*                                                                         *)
(* When calls do not overlap on the projects of one developer (OwnScope),  *)
(* more is true: what waits to be written is what the call would write if  *)
(* it read the rows now (FreshCall), so its commit is one step of          *)
(* CreditLedger, and what CreditLedgerProofs proves holds of the rows.     *)
(***************************************************************************)
EXTENDS CreditRequests, SumFacts

Keys ==
    ({"project"} \X Projects) \cup ({"company"} \X Companies)
      \cup ({"block"} \X (Projects \X (Nat \ {0})))

ProjectRows(p) ==
    [issued : 0 .. CreditEst[p], balance : Int, transferred : Int, retired : Int,
     txTime : Nat,
     activities : [ActivitiesOf(p) ->
                    {"MONITORING_REPORT_VERIFIED", "VERIFICATION_REPORT_VERIFIED"}]]

AccountRows == [credit : Nat]

PendingOf(recs) == {r \in RetireIds : recs[r].status = "PENDING"}

AmountsOf(recs) == [r \in PendingOf(recs) |-> recs[r].amount]

\* What the columns reservedCreditAmount and transactionRecords say together;
\* the ids of the requests are among used.
Reserves(reserved, recs, used) ==
    /\ recs \in [RetireIds -> [amount : Nat, status : Ledger!Status]]
    /\ \A r \in RetireIds : recs[r].status # "NONE" => r \in used
    /\ \A r \in PendingOf(recs) : recs[r].amount > 0
    /\ IsFiniteSet(PendingOf(recs))
    /\ reserved = SumFunction(AmountsOf(recs))

\* What the columns serialNumber and creditAmount say together.
Covers(id, last, amount) ==
    /\ last \in Nat /\ id[2] <= last /\ last <= CreditEst[id[1]]
    /\ amount = last - id[2] + 1

BlockRows(id, used) ==
    {b \in Ledger!Block :
        /\ b.first = id[2]
        /\ Covers(id, b.last, b.amount)
        /\ Reserves(b.reserved, b.records, used)}

RowsOf(k, used) ==
    IF k[1] = "project" THEN ProjectRows(k[2])
    ELSE IF k[1] = "company" THEN AccountRows ELSE BlockRows(k[2], used)

\* An update may meet any row of its table, not only the one it was made for.
UpdateOK(k, u, used) ==
    /\ k \in Keys
    /\ \A later \in SUBSET RetireIds :
        used \subseteq later =>
            \A row \in RowsOf(k, later) : Over(u.set, row) \in RowsOf(k, later)

RevisionsOK(revs, used) ==
    \A k \in DOMAIN revs : k \in Keys /\ revs[k] \in RowsOf(k, used)

PlanOK(plan, used) ==
    /\ plan.stage = "planned"
    /\ \A k \in DOMAIN plan.updates : UpdateOK(k, plan.updates[k], used)
    /\ RevisionsOK(plan.inserts, used)

CallOK(c, used) ==
    /\ c.stage \in {"idle", "planned", "merged"}
    /\ c.stage = "planned" => PlanOK(c, used)
    /\ c.stage = "merged" => RevisionsOK(c.revisions, used)

RowsOK(rs, used) ==
    /\ used \subseteq RetireIds
    /\ \A p \in Projects : ProjectKey(p) \in DOMAIN rs
    /\ RevisionsOK(rs, used)

IInv ==
    /\ clock \in 0 .. MaxCalls
    /\ RowsOK(rows, spent)
    /\ call = [w \in Workers |-> call[w]]
    /\ \A w \in Workers : CallOK(call[w], spent)

-----------------------------------------------------------------------------
LEMMA ConstantFacts ==
    /\ NoCompany \notin Companies
    /\ Developer \in [Projects -> Companies]
    /\ CreditEst \in [Projects -> Nat]
    /\ ActivityProject \in [Activities -> Projects]
    /\ MaxCalls \in Nat
    /\ \A b \in Batches :
         /\ b \in Seq(Nat \ {0})
         /\ b # <<>>
         /\ \A j, k \in 1 .. Len(b) : j < k => b[j] < b[k]
  BY RequestsAssumption DEF Ledger!ConstantsAssumption

LEMMA OverIs ==
    ASSUME NEW f, NEW g
    PROVE  /\ DOMAIN Over(f, g) = DOMAIN f \cup DOMAIN g
           /\ \A x \in DOMAIN f : Over(f, g)[x] = f[x]
           /\ \A x \in DOMAIN g : x \notin DOMAIN f => Over(f, g)[x] = g[x]
           /\ Over(f, g) = [x \in DOMAIN Over(f, g) |-> Over(f, g)[x]]
  BY DEF Over

LEMMA OnlyIs ==
    ASSUME NEW x, NEW y
    PROVE  DOMAIN Only(x, y) = {x} /\ Only(x, y)[x] = y
  BY DEF Only

LEMMA KeyKinds ==
    /\ \A p : ProjectKey(p)[1] = "project" /\ ProjectKey(p)[2] = p
    /\ \A c : CompanyKey(c)[1] = "company" /\ CompanyKey(c)[2] = c
    /\ \A id : BlockKey(id)[1] = "block" /\ BlockKey(id)[2] = id
    /\ \A p \in Projects : ProjectKey(p) \in Keys
    /\ \A c \in Companies : CompanyKey(c) \in Keys
    /\ \A id \in Projects \X (Nat \ {0}) : BlockKey(id) \in Keys
  BY DEF ProjectKey, CompanyKey, BlockKey, Keys

LEMMA RowKinds ==
    /\ \A p, used : RowsOf(ProjectKey(p), used) = ProjectRows(p)
    /\ \A c, used : RowsOf(CompanyKey(c), used) = AccountRows
    /\ \A id, used : RowsOf(BlockKey(id), used) = BlockRows(id, used)
  BY KeyKinds DEF RowsOf

LEMMA BlockIdsAre ==
    ASSUME DOMAIN rows \subseteq Keys
    PROVE  \A id : id \in BlockIds <=> BlockKey(id) \in DOMAIN rows
<1>1. ASSUME NEW k \in DOMAIN rows, k[1] = "block" PROVE k = BlockKey(k[2])
  BY <1>1 DEF Keys, BlockKey
<1> QED
  BY <1>1, KeyKinds DEF BlockIds

LEMMA BlockIdType ==
    ASSUME NEW used, RevisionsOK(rows, used), NEW id \in BlockIds
    PROVE  /\ id \in Projects \X (Nat \ {0})
           /\ rows[BlockKey(id)] \in BlockRows(id, used)
<1>1. BlockKey(id) \in DOMAIN rows
  BY BlockIdsAre DEF RevisionsOK
<1>2. BlockKey(id) \in Keys /\ rows[BlockKey(id)] \in BlockRows(id, used)
  BY <1>1, RowKinds DEF RevisionsOK
<1>3. id \in Projects \X (Nat \ {0})
  BY <1>2 DEF Keys, BlockKey
<1> QED
  BY <1>2, <1>3

-----------------------------------------------------------------------------
(* The reserved amount and the list of requests *)

LEMMA ReservesGrow ==
    ASSUME NEW x, NEW recs, NEW used, NEW later, used \subseteq later,
           Reserves(x, recs, used)
    PROVE  Reserves(x, recs, later)
  BY DEF Reserves

LEMMA ReservesNothing ==
    ASSUME NEW recs \in [RetireIds -> [amount : Nat, status : Ledger!Status]],
           \A r \in RetireIds : recs[r].status # "PENDING",
           NEW used, \A r \in RetireIds : recs[r].status # "NONE" => r \in used
    PROVE  Reserves(0, recs, used)
<1>1. PendingOf(recs) = {}
  BY DEF PendingOf
<1>2. IsFiniteSet(PendingOf(recs))
  BY <1>1, FS_EmptySet
<1>3. DOMAIN AmountsOf(recs) = {}
  BY <1>1 DEF AmountsOf
<1>4. SumFunction(AmountsOf(recs)) = 0
  BY <1>3, SumEmpty
<1> QED
  BY <1>1, <1>2, <1>4 DEF Reserves

LEMMA ReservesBound ==
    ASSUME NEW x, NEW recs, NEW used, Reserves(x, recs, used)
    PROVE  /\ x \in Nat
           /\ PendingOf(recs) = {} <=> x = 0
           /\ \A r \in PendingOf(recs) : recs[r].amount <= x
<1> DEFINE g == AmountsOf(recs)
<1>1. /\ DOMAIN g = PendingOf(recs) /\ IsFiniteSet(DOMAIN g)
      /\ \A r \in DOMAIN g : g[r] \in Nat /\ g[r] = recs[r].amount /\ g[r] > 0
      /\ x = SumFunction(g)
  BY DEF AmountsOf, PendingOf, Reserves
<1> HIDE DEF g
<1>2. \A r \in DOMAIN g : g[r] <= SumFunction(g)
  BY <1>1, SumBound
<1>3. SumFunction(g) \in Nat
  BY <1>1, SumType
<1>4. DOMAIN g = {} => SumFunction(g) = 0
  BY SumEmpty
<1> QED
  BY <1>1, <1>2, <1>3, <1>4

\* A new request.
LEMMA ReservesMore ==
    ASSUME NEW x, NEW recs, NEW used, Reserves(x, recs, used),
           NEW r \in RetireIds, r \notin used, NEW n \in Nat, n > 0
    PROVE  Reserves(x + n, [recs EXCEPT ![r] = [amount |-> n, status |-> "PENDING"]],
                    used \cup {r})
<1> DEFINE new == [recs EXCEPT ![r] = [amount |-> n, status |-> "PENDING"]]
           g == AmountsOf(recs)
           f == AmountsOf(new)
<1>1. /\ recs \in [RetireIds -> [amount : Nat, status : Ledger!Status]]
      /\ \A q \in RetireIds : recs[q].status # "NONE" => q \in used
      /\ \A q \in PendingOf(recs) : recs[q].amount > 0
      /\ IsFiniteSet(PendingOf(recs))
  BY DEF Reserves
<1>2. /\ new \in [RetireIds -> [amount : Nat, status : Ledger!Status]]
      /\ new[r] = [amount |-> n, status |-> "PENDING"]
      /\ \A q \in RetireIds : q # r => new[q] = recs[q]
  BY <1>1 DEF Ledger!Status
<1>3. r \notin PendingOf(recs)
  BY <1>1 DEF PendingOf
<1> HIDE DEF new
<1>4. PendingOf(new) = PendingOf(recs) \cup {r}
  BY <1>2, <1>3 DEF PendingOf
<1>5. IsFiniteSet(PendingOf(new))
  <2>1. IsFiniteSet(PendingOf(recs) \cup {r})
    BY <1>1, FS_AddElement
  <2> QED
    BY <1>4, <2>1
<1>6. PendingOf(recs) \subseteq RetireIds
  BY DEF PendingOf
<1>7. /\ DOMAIN f = PendingOf(new) /\ IsFiniteSet(DOMAIN f)
      /\ \A q \in DOMAIN f : f[q] \in Int
      /\ r \in DOMAIN f /\ f[r] = n
  BY <1>2, <1>4, <1>5, <1>6 DEF AmountsOf
<1>8. Without(f, r) = g
  <2>1. DOMAIN f \ {r} = PendingOf(recs)
    BY <1>3, <1>4, <1>7
  <2>2. \A q \in PendingOf(recs) : f[q] = recs[q].amount
    BY <1>2, <1>3, <1>4, <1>6 DEF AmountsOf
  <2> QED
    BY <2>1, <2>2 DEF Without, AmountsOf
<1>9. x = SumFunction(g)
  BY DEF Reserves
<1> HIDE DEF f, g
<1>10. SumFunction(f) = n + SumFunction(g)
  BY <1>7, <1>8, SumRemove
<1>11. x \in Nat
  BY ReservesBound
<1>12. x + n = SumFunction(f)
  BY <1>9, <1>10, <1>11
<1>13. Reserves(x + n, new, used \cup {r})
  BY <1>1, <1>2, <1>4, <1>5, <1>6, <1>12 DEF Reserves, f
<1> QED
  BY <1>13 DEF new

\* A decision on a request.
LEMMA ReservesLess ==
    ASSUME NEW x, NEW recs, NEW used, Reserves(x, recs, used),
           NEW r \in RetireIds, recs[r].status = "PENDING",
           NEW status \in {"COMPLETED", "REJECTED", "CANCELLED"}
    PROVE  Reserves(x - recs[r].amount, [recs EXCEPT ![r].status = status], used)
<1> DEFINE new == [recs EXCEPT ![r].status = status]
           g == AmountsOf(recs)
           f == AmountsOf(new)
<1>1. /\ recs \in [RetireIds -> [amount : Nat, status : Ledger!Status]]
      /\ \A q \in RetireIds : recs[q].status # "NONE" => q \in used
      /\ \A q \in PendingOf(recs) : recs[q].amount > 0
      /\ IsFiniteSet(PendingOf(recs))
  BY DEF Reserves
<1>2. /\ new \in [RetireIds -> [amount : Nat, status : Ledger!Status]]
      /\ new[r].status = status
      /\ \A q \in RetireIds : q # r => new[q] = recs[q]
  BY <1>1 DEF Ledger!Status
<1>3. r \in PendingOf(recs) /\ PendingOf(recs) \subseteq RetireIds
  BY <1>1 DEF PendingOf
<1> HIDE DEF new
<1>4. PendingOf(new) = PendingOf(recs) \ {r}
  BY <1>2, <1>3 DEF PendingOf
<1>5. IsFiniteSet(PendingOf(new))
  <2>1. IsFiniteSet(PendingOf(recs) \ {r})
    BY <1>1, FS_RemoveElement
  <2> QED
    BY <1>4, <2>1
<1>6. /\ DOMAIN g = PendingOf(recs) /\ IsFiniteSet(DOMAIN g)
      /\ \A q \in DOMAIN g : g[q] \in Int
      /\ r \in DOMAIN g /\ g[r] = recs[r].amount
  BY <1>1, <1>3 DEF AmountsOf
<1>7. Without(g, r) = f
  <2>1. \A q \in PendingOf(new) : g[q] = new[q].amount
    BY <1>2, <1>3, <1>4 DEF AmountsOf
  <2> QED
    BY <1>4, <1>6, <2>1 DEF Without, AmountsOf
<1>8. x = SumFunction(g)
  BY DEF Reserves
<1>9. /\ \A q \in RetireIds : new[q].status # "NONE" => q \in used
      /\ \A q \in PendingOf(new) : new[q].amount > 0
  BY <1>1, <1>2, <1>3, <1>4
<1>10. DOMAIN f = PendingOf(new) /\ \A q \in DOMAIN f : f[q] \in Int
  BY <1>2, <1>3, <1>4 DEF AmountsOf
<1> HIDE DEF f, g
<1>11. SumFunction(g) = recs[r].amount + SumFunction(f)
  BY <1>6, <1>7, SumRemove
<1>12. SumFunction(f) \in Int
  BY <1>5, <1>10, SumType
<1>13. x - recs[r].amount = SumFunction(f)
  BY <1>1, <1>8, <1>11, <1>12
<1>14. Reserves(x - recs[r].amount, new, used)
  BY <1>2, <1>5, <1>9, <1>13 DEF Reserves, f
<1> QED
  BY <1>14 DEF new

-----------------------------------------------------------------------------
(* Updates that leave a row of its table whatever row they meet *)

LEMMA RowsGrow ==
    ASSUME NEW id, NEW used, NEW later, used \subseteq later, NEW b \in BlockRows(id, used)
    PROVE  b \in BlockRows(id, later)
  BY ReservesGrow DEF BlockRows

\* A row put together from its columns.
BlockRow(owner, id, last, amount, reserved, moved, recs) ==
    [owner |-> owner, first |-> id[2], last |-> last, amount |-> amount,
     reserved |-> reserved, notTransferred |-> moved, records |-> recs]

LEMMA BlockRowType ==
    ASSUME NEW id \in Projects \X (Nat \ {0}), NEW used,
           NEW owner \in Companies \cup {NoCompany}, NEW moved \in BOOLEAN,
           NEW last, NEW amount, Covers(id, last, amount),
           NEW reserved, NEW recs, Reserves(reserved, recs, used)
    PROVE  BlockRow(owner, id, last, amount, reserved, moved, recs) \in BlockRows(id, used)
<1>1. last \in Nat /\ amount \in Int
  BY DEF Covers
<1>2. reserved \in Int
  BY ReservesBound
<1>3. recs \in [RetireIds -> [amount : Nat, status : Ledger!Status]]
  BY DEF Reserves
<1> QED
  BY <1>1, <1>2, <1>3 DEF BlockRow, BlockRows, Ledger!Block

LEMMA BlockRowIs ==
    ASSUME NEW id \in Projects \X (Nat \ {0}), NEW used, NEW b \in BlockRows(id, used)
    PROVE  /\ b.owner \in Companies \cup {NoCompany} /\ b.notTransferred \in BOOLEAN
           /\ Covers(id, b.last, b.amount) /\ Reserves(b.reserved, b.records, used)
           /\ b.first = id[2]
           /\ b = BlockRow(b.owner, id, b.last, b.amount, b.reserved, b.notTransferred,
                           b.records)
           /\ DOMAIN b = {"owner", "first", "last", "amount", "reserved",
                          "notTransferred", "records"}
  BY DEF BlockRow, BlockRows, Ledger!Block

LEMMA UpdateWhole ==
    ASSUME NEW id \in Projects \X (Nat \ {0}), NEW used, NEW b \in BlockRows(id, used)
    PROVE  UpdateOK(BlockKey(id), Update(b), used)
<1> SUFFICES ASSUME NEW later \in SUBSET RetireIds, used \subseteq later,
                    NEW row \in BlockRows(id, later)
             PROVE  Over(b, row) \in BlockRows(id, later)
  BY KeyKinds, RowKinds DEF UpdateOK, Update
<1>1. DOMAIN b = DOMAIN row
  BY BlockRowIs
<1>2. b = [x \in DOMAIN b |-> b[x]]
  BY DEF BlockRows, Ledger!Block
<1>3. Over(b, row) = [x \in DOMAIN b |-> b[x]]
  BY <1>1 DEF Over
<1> QED
  BY <1>2, <1>3, RowsGrow

LEMMA UpdateReserves ==
    ASSUME NEW id \in Projects \X (Nat \ {0}), NEW used, NEW x, NEW recs,
           Reserves(x, recs, used)
    PROVE  UpdateOK(BlockKey(id), Update([reserved |-> x, records |-> recs]), used)
<1> DEFINE set == [reserved |-> x, records |-> recs]
<1> SUFFICES ASSUME NEW later \in SUBSET RetireIds, used \subseteq later,
                    NEW row \in BlockRows(id, later)
             PROVE  Over(set, row) \in BlockRows(id, later)
  BY KeyKinds, RowKinds DEF UpdateOK, Update
<1>1. Over(set, row) =
        BlockRow(row.owner, id, row.last, row.amount, x, row.notTransferred, recs)
  BY BlockRowIs DEF Over, BlockRow
<1> QED
  BY <1>1, BlockRowIs, BlockRowType, ReservesGrow

LEMMA UpdateOwner ==
    ASSUME NEW id \in Projects \X (Nat \ {0}), NEW used, NEW x, NEW recs,
           NEW owner \in Companies \cup {NoCompany}, NEW moved \in BOOLEAN,
           Reserves(x, recs, used)
    PROVE  UpdateOK(BlockKey(id),
                    Update([owner |-> owner, notTransferred |-> moved,
                            reserved |-> x, records |-> recs]), used)
<1> DEFINE set == [owner |-> owner, notTransferred |-> moved,
                   reserved |-> x, records |-> recs]
<1> SUFFICES ASSUME NEW later \in SUBSET RetireIds, used \subseteq later,
                    NEW row \in BlockRows(id, later)
             PROVE  Over(set, row) \in BlockRows(id, later)
  BY KeyKinds, RowKinds DEF UpdateOK, Update
<1>1. Over(set, row) = BlockRow(owner, id, row.last, row.amount, x, moved, recs)
  BY BlockRowIs DEF Over, BlockRow
<1>2. Covers(id, row.last, row.amount)
  BY BlockRowIs
<1>3. Reserves(x, recs, later)
  BY ReservesGrow
<1>4. BlockRow(owner, id, row.last, row.amount, x, moved, recs) \in BlockRows(id, later)
  BY <1>2, <1>3, BlockRowType
<1> QED
  BY <1>1, <1>4

LEMMA UpdateKept ==
    ASSUME NEW id \in Projects \X (Nat \ {0}), NEW used,
           NEW last, NEW amount, Covers(id, last, amount),
           NEW x, NEW recs, Reserves(x, recs, used)
    PROVE  UpdateOK(BlockKey(id),
                    Update([last |-> last, amount |-> amount,
                            reserved |-> x, records |-> recs]), used)
<1> DEFINE set == [last |-> last, amount |-> amount, reserved |-> x, records |-> recs]
<1> SUFFICES ASSUME NEW later \in SUBSET RetireIds, used \subseteq later,
                    NEW row \in BlockRows(id, later)
             PROVE  Over(set, row) \in BlockRows(id, later)
  BY KeyKinds, RowKinds DEF UpdateOK, Update
<1>1. Over(set, row) =
        BlockRow(row.owner, id, last, amount, x, row.notTransferred, recs)
  BY BlockRowIs DEF Over, BlockRow
<1> QED
  BY <1>1, BlockRowIs, BlockRowType, ReservesGrow

LEMMA UpdateProject ==
    ASSUME NEW p \in Projects, NEW used, NEW x \in Int, NEW y \in Int, NEW t \in Nat,
           NEW column \in {"transferred", "retired"}
    PROVE  UpdateOK(ProjectKey(p),
                    Update(Over(Only(column, y), [balance |-> x, txTime |-> t])), used)
<1> DEFINE set == Over(Only(column, y), [balance |-> x, txTime |-> t])
<1> SUFFICES ASSUME NEW row \in ProjectRows(p) PROVE Over(set, row) \in ProjectRows(p)
  BY KeyKinds, RowKinds DEF UpdateOK, Update
<1>1. CASE column = "transferred"
  <2>1. Over(set, row) = [issued |-> row.issued, balance |-> x, transferred |-> y,
            retired |-> row.retired, txTime |-> t, activities |-> row.activities]
    BY <1>1 DEF Over, Only, ProjectRows
  <2> QED
    BY <2>1 DEF ProjectRows
<1>2. CASE column = "retired"
  <2>1. Over(set, row) = [issued |-> row.issued, balance |-> x, retired |-> y,
            transferred |-> row.transferred, txTime |-> t, activities |-> row.activities]
    BY <1>2 DEF Over, Only, ProjectRows
  <2> QED
    BY <2>1 DEF ProjectRows
<1> QED
  BY <1>1, <1>2

LEMMA UpdateIssued ==
    ASSUME NEW p \in Projects, NEW used, NEW i \in 0 .. CreditEst[p], NEW x \in Int,
           NEW t \in Nat,
           NEW acts \in [ActivitiesOf(p) ->
                    {"MONITORING_REPORT_VERIFIED", "VERIFICATION_REPORT_VERIFIED"}],
           NEW where
    PROVE  UpdateOK(ProjectKey(p),
                    [where |-> where,
                     set |-> [issued |-> i, balance |-> x, txTime |-> t,
                              activities |-> acts]], used)
<1> DEFINE set == [issued |-> i, balance |-> x, txTime |-> t, activities |-> acts]
<1> SUFFICES ASSUME NEW row \in ProjectRows(p) PROVE Over(set, row) \in ProjectRows(p)
  BY KeyKinds, RowKinds DEF UpdateOK
<1>1. Over(set, row) = [issued |-> i, balance |-> x, transferred |-> row.transferred,
            retired |-> row.retired, txTime |-> t, activities |-> acts]
  BY DEF Over, ProjectRows
<1> QED
  BY <1>1 DEF ProjectRows

LEMMA UpdateAccount ==
    ASSUME NEW c \in Companies, NEW used, NEW x \in Nat
    PROVE  UpdateOK(CompanyKey(c), Update([credit |-> x]), used)
<1> SUFFICES ASSUME NEW row \in AccountRows
             PROVE  Over([credit |-> x], row) \in AccountRows
  BY KeyKinds, RowKinds DEF UpdateOK, Update
<1>1. Over([credit |-> x], row) = [credit |-> x]
  BY DEF Over, AccountRows
<1> QED
  BY <1>1 DEF AccountRows

-----------------------------------------------------------------------------
(* Plans *)

UpdatesOK(updates, used) == \A k \in DOMAIN updates : UpdateOK(k, updates[k], used)

LEMMA UpdatesTogether ==
    ASSUME NEW used, NEW f, NEW g, UpdatesOK(f, used), UpdatesOK(g, used)
    PROVE  UpdatesOK(Over(f, g), used)
  BY DEF UpdatesOK, Over

LEMMA RevisionsTogether ==
    ASSUME NEW used, NEW f, NEW g, RevisionsOK(f, used), RevisionsOK(g, used)
    PROVE  RevisionsOK(Over(f, g), used)
  BY DEF RevisionsOK, Over

LEMMA OneUpdate ==
    ASSUME NEW used, NEW k, NEW u, UpdateOK(k, u, used)
    PROVE  UpdatesOK(Only(k, u), used)
  BY DEF UpdatesOK, Only

LEMMA OneRevision ==
    ASSUME NEW used, NEW k \in Keys, NEW row \in RowsOf(k, used)
    PROVE  RevisionsOK(Only(k, row), used)
  BY DEF RevisionsOK, Only

LEMMA Nothing == ASSUME NEW used PROVE UpdatesOK(NoRows, used) /\ RevisionsOK(NoRows, used)
  BY DEF UpdatesOK, RevisionsOK, NoRows

LEMMA PlannedIs ==
    ASSUME NEW used, NEW updates, NEW inserts,
           UpdatesOK(updates, used), RevisionsOK(inserts, used)
    PROVE  PlanOK(Planned(updates, inserts), used)
  BY DEF PlanOK, Planned, UpdatesOK

LEMMA ProjectUpdates ==
    ASSUME NEW used, RowsOK(rows, used), NEW time \in Nat, NEW b,
           NEW id \in Projects \X (Nat \ {0}), NEW n \in Int,
           NEW column \in {"transferred", "retired"}
    PROVE  UpdatesOK(ProjectUpdate(b, id, n, column, time), used)
<1> DEFINE k == ProjectKey(id[1])
           p == rows[k]
<1>1. id[1] \in Projects /\ k \in DOMAIN rows
  BY DEF RowsOK
<1>2. p \in ProjectRows(id[1])
  BY <1>1, RowKinds DEF RowsOK, RevisionsOK
<1>3. p.balance - n \in Int /\ p[column] + n \in Int
  <2>1. CASE column = "transferred"
    BY <1>2, <2>1 DEF ProjectRows
  <2>2. CASE column = "retired"
    BY <1>2, <2>2 DEF ProjectRows
  <2> QED
    BY <2>1, <2>2
<1>5. UpdateOK(k, Update(Over(Only(column, p[column] + n),
                    [balance |-> p.balance - n, txTime |-> time])), used)
  BY <1>1, <1>3, UpdateProject
<1> QED
  BY <1>5, OneUpdate, Nothing DEF ProjectUpdate

LEMMA SplitRows ==
    ASSUME NEW id \in Projects \X (Nat \ {0}), NEW used, NEW b \in BlockRows(id, used),
           NEW n \in Nat, n > 0, Ledger!CanSplit(b, n),
           NEW owner \in Companies \cup {NoCompany},
           NEW recs, Reserves(0, recs, used)
    PROVE  /\ Covers(id, b.last - n, b.amount - n)
           /\ Ledger!CutOff(b, n, owner, recs).first = Ledger!SecondStart(b, n)
           /\ <<id[1], Ledger!SecondStart(b, n)>> \in Projects \X (Nat \ {0})
           /\ Ledger!CutOff(b, n, owner, recs)
                \in BlockRows(<<id[1], Ledger!SecondStart(b, n)>>, used)
<1>1. /\ b.first = id[2] /\ id[2] \in Nat /\ id[2] > 0 /\ id[1] \in Projects
      /\ b.last \in Nat /\ id[2] <= b.last /\ b.last <= CreditEst[id[1]]
      /\ b.amount = b.last - id[2] + 1
      /\ n < b.last - b.first + 1 /\ CreditEst[id[1]] \in Nat
  BY BlockRowIs, ConstantFacts DEF Covers, Ledger!CanSplit
<1>2. PICK start : start = Ledger!SecondStart(b, n)
  OBVIOUS
<1>3. start = b.last - n + 1 /\ start \in Nat /\ start > 0 /\ start <= b.last
  BY <1>1, <1>2 DEF Ledger!SecondStart
<1>4. PICK cutId : cutId = <<id[1], start>>
  OBVIOUS
<1>5. cutId \in Projects \X (Nat \ {0}) /\ cutId[1] = id[1] /\ cutId[2] = start
  BY <1>1, <1>3, <1>4
<1>6. Covers(cutId, b.last, n)
  BY <1>1, <1>3, <1>5 DEF Covers
<1>7. PICK moved \in BOOLEAN, zero \in Nat : moved = FALSE /\ zero = 0
  OBVIOUS
<1>8. BlockRow(owner, cutId, b.last, n, zero, moved, recs) \in BlockRows(cutId, used)
  BY <1>5, <1>6, <1>7, BlockRowType
<1>9. Ledger!CutOff(b, n, owner, recs) = BlockRow(owner, cutId, b.last, n, zero, moved, recs)
  BY <1>2, <1>5, <1>7 DEF Ledger!CutOff, BlockRow
<1>10. Covers(id, b.last - n, b.amount - n)
  BY <1>1 DEF Covers
<1> QED
  BY <1>2, <1>4, <1>5, <1>8, <1>9, <1>10 DEF Ledger!CutOff

LEMMA AmountIs ==
    ASSUME NEW id \in Projects \X (Nat \ {0}), NEW used, NEW b \in BlockRows(id, used),
           NEW n \in 1 .. b.amount
    PROVE  n \in Nat /\ n > 0 /\ b.amount \in Nat
<1>1. b.last \in Nat /\ id[2] \in Nat /\ b.amount = b.last - id[2] + 1 /\ id[2] <= b.last
  BY BlockRowIs DEF Covers
<1> QED
  BY <1>1

LEMMA RowMoved ==
    ASSUME NEW id, NEW used, NEW b \in BlockRows(id, used),
           NEW owner \in Companies \cup {NoCompany}
    PROVE  [b EXCEPT !.owner = owner, !.notTransferred = FALSE] \in BlockRows(id, used)
<1> DEFINE e == [b EXCEPT !.owner = owner, !.notTransferred = FALSE]
<1>1. b \in Ledger!Block
  BY DEF BlockRows
<1>2. e \in Ledger!Block
  BY <1>1 DEF Ledger!Block
<1>3. /\ e.first = b.first /\ e.last = b.last /\ e.amount = b.amount
      /\ e.reserved = b.reserved /\ e.records = b.records
  BY <1>1 DEF Ledger!Block
<1> HIDE DEF e
<1>4. e \in BlockRows(id, used)
  BY <1>2, <1>3 DEF BlockRows
<1> QED
  BY <1>4 DEF e

LEMMA RowKept ==
    ASSUME NEW id, NEW used, NEW b \in BlockRows(id, used), NEW n \in Nat,
           Covers(id, b.last - n, b.amount - n)
    PROVE  Ledger!Kept(b, n) \in BlockRows(id, used)
<1> DEFINE d == Ledger!Kept(b, n)
<1>1. b \in Ledger!Block
  BY DEF BlockRows
<1>2. b.last - n \in Nat /\ b.amount - n \in Int
  BY <1>1 DEF Covers, Ledger!Block
<1>3. d \in Ledger!Block
  BY <1>1, <1>2 DEF Ledger!Block, Ledger!Kept
<1>4. /\ d.first = b.first /\ d.last = b.last - n /\ d.amount = b.amount - n
      /\ d.reserved = b.reserved /\ d.records = b.records
  BY <1>1 DEF Ledger!Block, Ledger!Kept
<1> HIDE DEF d
<1>5. d \in BlockRows(id, used)
  BY <1>3, <1>4 DEF BlockRows
<1> QED
  BY <1>5 DEF d

LEMMA NoRecordsReserve ==
    ASSUME NEW used PROVE Reserves(0, Ledger!NoRecords, used)
<1>1. /\ Ledger!NoRecords \in [RetireIds -> [amount : Nat, status : Ledger!Status]]
      /\ \A r \in RetireIds : Ledger!NoRecords[r].status = "NONE"
  BY DEF Ledger!NoRecords, Ledger!NoRecord, Ledger!Status
<1> QED
  BY <1>1, ReservesNothing

LEMMA TransferPlan ==
    ASSUME NEW used, RowsOK(rows, used), NEW time \in Nat, NEW id \in BlockIds,
           NEW from \in Companies, NEW to \in Companies,
           NEW n \in Amounts(id), CanTransfer(id, n, from)
    PROVE  PlanOK(PlanTransfer(id, n, to, time), used)
<1>1. PICK b : b = rows[BlockKey(id)]
  OBVIOUS
<1>2. id \in Projects \X (Nat \ {0}) /\ b \in BlockRows(id, used)
  BY <1>1, BlockIdType DEF RowsOK
<1>3. n \in Nat /\ n > 0 /\ n \in Int
  BY <1>1, <1>2, AmountIs DEF Amounts
<1>4. PICK whole \in BOOLEAN : whole = (b.reserved = 0 /\ n = Ledger!Unreserved(b))
  OBVIOUS
<1>5. PICK cut : cut = Ledger!CutOff(b, n, to, Ledger!NoRecords)
  OBVIOUS
<1>6. PICK all : all = [b EXCEPT !.owner = to, !.notTransferred = FALSE]
  OBVIOUS
<1>7. all \in BlockRows(id, used)
  BY <1>2, <1>6, RowMoved
<1>10. UpdateOK(BlockKey(id), Update(all), used)
  BY <1>2, <1>7, UpdateWhole
<1>11. ~whole => /\ UpdateOK(BlockKey(id), Update(Ledger!Kept(b, n)), used)
                 /\ BlockKey(<<id[1], cut.first>>) \in Keys
                 /\ cut \in RowsOf(BlockKey(<<id[1], cut.first>>), used)
  <2> SUFFICES ASSUME ~whole
               PROVE  /\ UpdateOK(BlockKey(id), Update(Ledger!Kept(b, n)), used)
                      /\ BlockKey(<<id[1], cut.first>>) \in Keys
                      /\ cut \in RowsOf(BlockKey(<<id[1], cut.first>>), used)
    OBVIOUS
  <2>1. Ledger!CanSplit(b, n)
    BY <1>1, <1>4 DEF CanTransfer
  <2>2. Reserves(0, Ledger!NoRecords, used)
    BY NoRecordsReserve
  <2>3. /\ Covers(id, b.last - n, b.amount - n)
        /\ cut.first = Ledger!SecondStart(b, n)
        /\ <<id[1], Ledger!SecondStart(b, n)>> \in Projects \X (Nat \ {0})
        /\ cut \in BlockRows(<<id[1], Ledger!SecondStart(b, n)>>, used)
    BY <1>2, <1>3, <1>5, <2>1, <2>2, SplitRows
  <2>4. BlockKey(<<id[1], cut.first>>) \in Keys
        /\ cut \in RowsOf(BlockKey(<<id[1], cut.first>>), used)
    BY <2>3, KeyKinds, RowKinds
  <2>6. Ledger!Kept(b, n) \in BlockRows(id, used)
    BY <1>2, <1>3, <2>3, RowKept
  <2>7. UpdateOK(BlockKey(id), Update(Ledger!Kept(b, n)), used)
    BY <1>2, <2>6, UpdateWhole
  <2> QED
    BY <2>4, <2>7
<1>12. UpdatesOK(ProjectUpdate(b, id, n, "transferred", time), used)
  BY <1>2, <1>3, ProjectUpdates
<1>13. PICK u : u = Update(IF whole THEN all ELSE Ledger!Kept(b, n))
  OBVIOUS
<1>14. UpdateOK(BlockKey(id), u, used)
  BY <1>10, <1>11, <1>13
<1>15. UpdatesOK(Over(Only(BlockKey(id), u), ProjectUpdate(b, id, n, "transferred", time)), used)
  BY <1>12, <1>14, OneUpdate, UpdatesTogether
<1>16. PICK new : new = IF whole THEN NoRows ELSE Only(BlockKey(<<id[1], cut.first>>), cut)
  OBVIOUS
<1>17. RevisionsOK(new, used)
  BY <1>11, <1>16, OneRevision, Nothing
<1>18. PlanTransfer(id, n, to, time)
        = Planned(Over(Only(BlockKey(id), u), ProjectUpdate(b, id, n, "transferred", time)), new)
  BY <1>1, <1>4, <1>5, <1>6, <1>13, <1>16 DEF PlanTransfer
<1> QED
  BY <1>15, <1>17, <1>18, PlannedIs

LEMMA RequestPlan ==
    ASSUME NEW used, RowsOK(rows, used), NEW id \in BlockIds,
           NEW r \in RetireIds \ used, NEW n \in Amounts(id)
    PROVE  PlanOK(PlanRequest(id, n, r), used \cup {r})
<1>1. PICK b : b = rows[BlockKey(id)]
  OBVIOUS
<1>2. id \in Projects \X (Nat \ {0}) /\ b \in BlockRows(id, used)
  BY <1>1, BlockIdType DEF RowsOK
<1>3. n \in Nat /\ n > 0
  BY <1>1, <1>2, AmountIs DEF Amounts
<1>4. PICK recs : recs = [b.records EXCEPT ![r] = [amount |-> n, status |-> "PENDING"]]
  OBVIOUS
<1>5. Reserves(b.reserved + n, recs, used \cup {r})
  BY <1>2, <1>3, <1>4, BlockRowIs, ReservesMore
<1>6. UpdateOK(BlockKey(id), Update([reserved |-> b.reserved + n, records |-> recs]),
               used \cup {r})
  BY <1>2, <1>5, UpdateReserves
<1>7. UpdatesOK(Only(BlockKey(id), Update([reserved |-> b.reserved + n, records |-> recs])),
                used \cup {r})
  BY <1>6, OneUpdate
<1> QED
  BY <1>1, <1>4, <1>7, PlannedIs, Nothing DEF PlanRequest

\* What a pending request of a row says of the row.
LEMMA PendingIs ==
    ASSUME NEW used, RowsOK(rows, used), NEW id \in BlockIds, NEW b,
           b = rows[BlockKey(id)], NEW r \in RetireIds,
           b.records[r].status = "PENDING", NEW status \in {"COMPLETED", "REJECTED", "CANCELLED"}
    PROVE  /\ id \in Projects \X (Nat \ {0}) /\ b \in BlockRows(id, used)
           /\ b.records[r].amount \in Nat /\ b.records[r].amount > 0
           /\ r \in used
           /\ Reserves(b.reserved - b.records[r].amount,
                       Ledger!Decided(b, r, status).records, used)
<1>1. id \in Projects \X (Nat \ {0}) /\ b \in BlockRows(id, used)
  BY BlockIdType DEF RowsOK
<1>2. Reserves(b.reserved, b.records, used)
  BY <1>1, BlockRowIs
<1>3. /\ b.records[r].amount \in Nat /\ b.records[r].amount > 0 /\ r \in used
  BY <1>2 DEF Reserves, PendingOf
<1>4. Ledger!Decided(b, r, status).records = [b.records EXCEPT ![r].status = status]
  BY <1>1, BlockRowIs DEF Ledger!Decided
<1>5. Reserves(b.reserved - b.records[r].amount, [b.records EXCEPT ![r].status = status], used)
  BY <1>2, ReservesLess
<1> QED
  BY <1>1, <1>3, <1>4, <1>5

LEMMA DeclinePlan ==
    ASSUME NEW used, RowsOK(rows, used), NEW id \in BlockIds, NEW r \in RetireIds,
           CanDecline(id, r),
           NEW status \in {"REJECTED", "CANCELLED"}
    PROVE  PlanOK(PlanDecline(id, r, status), used)
<1>1. PICK b : b = rows[BlockKey(id)]
  OBVIOUS
<1>2. PICK x, recs : /\ x = b.reserved - b.records[r].amount
                     /\ recs = Ledger!Decided(b, r, status).records
  OBVIOUS
<1>3. id \in Projects \X (Nat \ {0}) /\ Reserves(x, recs, used)
  BY <1>1, <1>2, PendingIs DEF CanDecline
<1>4. UpdateOK(BlockKey(id), Update([reserved |-> x, records |-> recs]), used)
  BY <1>3, UpdateReserves
<1>5. UpdatesOK(Only(BlockKey(id), Update([reserved |-> x, records |-> recs])), used)
  BY <1>4, OneUpdate
<1> QED
  BY <1>1, <1>2, <1>5, PlannedIs, Nothing DEF PlanDecline

LEMMA AcceptPlan ==
    ASSUME NEW used, RowsOK(rows, used), NEW time \in Nat, NEW id \in BlockIds,
           NEW r \in RetireIds, CanAccept(id, r)
    PROVE  PlanOK(PlanAccept(id, r, time), used)
<1>1. PICK b : b = rows[BlockKey(id)]
  OBVIOUS
<1>2. b.records[r].status = "PENDING"
  BY <1>1 DEF CanAccept
<1>3. PICK n, recs : /\ n = b.records[r].amount
                     /\ recs = Ledger!Decided(b, r, "COMPLETED").records
  OBVIOUS
<1>4. /\ id \in Projects \X (Nat \ {0}) /\ b \in BlockRows(id, used)
      /\ n \in Nat /\ n > 0 /\ r \in used
      /\ recs = [b.records EXCEPT ![r].status = "COMPLETED"]
      /\ Reserves(b.reserved - n, recs, used)
  <2>0. PICK status \in {"COMPLETED", "REJECTED", "CANCELLED"} : status = "COMPLETED"
    OBVIOUS
  <2>1. /\ id \in Projects \X (Nat \ {0}) /\ b \in BlockRows(id, used)
        /\ b.records[r].amount \in Nat /\ b.records[r].amount > 0
        /\ r \in used
        /\ Reserves(b.reserved - b.records[r].amount,
                    Ledger!Decided(b, r, status).records, used)
    BY <1>1, <1>2, PendingIs
  <2>2. Ledger!Decided(b, r, "COMPLETED").records
            = [b.records EXCEPT ![r].status = "COMPLETED"]
    BY <2>1 DEF Ledger!Decided, BlockRows, Ledger!Block
  <2> QED
    BY <1>3, <2>0, <2>1, <2>2
<1>5. PICK whole \in BOOLEAN : whole = Ledger!WholeBlockRequested(b, r)
  BY DEF Ledger!WholeBlockRequested
<1>6. PICK cut : cut = Ledger!CutOff(b, n, NoCompany,
                                     [Ledger!NoRecords EXCEPT ![r] = recs[r]])
  OBVIOUS
<1>7. PICK gone : gone = [owner |-> NoCompany, notTransferred |-> FALSE,
                          reserved |-> 0, records |-> recs]
  OBVIOUS
<1>8. whole => UpdateOK(BlockKey(id), Update(gone), used)
  <2> SUFFICES ASSUME whole PROVE UpdateOK(BlockKey(id), Update(gone), used)
    OBVIOUS
  <2>1. PICK moved \in BOOLEAN, zero \in Nat : moved = FALSE /\ zero = 0
    OBVIOUS
  <2>2. b.reserved - n = zero
    BY <1>3, <1>4, <1>5, <2>1 DEF Ledger!WholeBlockRequested
  <2>3. Reserves(zero, recs, used)
    BY <1>4, <2>2
  <2>4. UpdateOK(BlockKey(id), Update([owner |-> NoCompany, notTransferred |-> moved,
                                       reserved |-> zero, records |-> recs]), used)
    BY <1>4, <2>3, UpdateOwner
  <2> QED
    BY <1>7, <2>1, <2>4
<1>9. ~whole => /\ UpdateOK(BlockKey(id), Update(KeptFields(b, r, n)), used)
                /\ BlockKey(<<id[1], cut.first>>) \in Keys
                /\ cut \in RowsOf(BlockKey(<<id[1], cut.first>>), used)
  <2> SUFFICES ASSUME ~whole
               PROVE  /\ UpdateOK(BlockKey(id), Update(KeptFields(b, r, n)), used)
                      /\ BlockKey(<<id[1], cut.first>>) \in Keys
                      /\ cut \in RowsOf(BlockKey(<<id[1], cut.first>>), used)
    OBVIOUS
  <2>1. Ledger!CanSplit(b, n)
    BY <1>1, <1>3, <1>5 DEF CanAccept
  <2>2. PICK taken : taken = [Ledger!NoRecords EXCEPT ![r] = recs[r]]
    OBVIOUS
  <2>3. Reserves(0, taken, used)
    <3>1. b.records \in [RetireIds -> [amount : Nat, status : Ledger!Status]]
      BY <1>4 DEF BlockRows, Ledger!Block
    <3>2. /\ recs \in [RetireIds -> [amount : Nat, status : Ledger!Status]]
          /\ recs[r].status = "COMPLETED"
      BY <1>4, <3>1 DEF Ledger!Status
    <3>3. /\ taken \in [RetireIds -> [amount : Nat, status : Ledger!Status]]
          /\ \A q \in RetireIds : q # r => taken[q].status = "NONE"
          /\ taken[r].status = "COMPLETED"
      BY <2>2, <3>2 DEF Ledger!NoRecords, Ledger!NoRecord, Ledger!Status
    <3> QED
      BY <1>4, <3>3, ReservesNothing
  <2>4. /\ Covers(id, b.last - n, b.amount - n)
        /\ cut.first = Ledger!SecondStart(b, n)
        /\ <<id[1], Ledger!SecondStart(b, n)>> \in Projects \X (Nat \ {0})
        /\ cut \in BlockRows(<<id[1], Ledger!SecondStart(b, n)>>, used)
    BY <1>4, <1>6, <2>1, <2>2, <2>3, SplitRows
  <2>5. BlockKey(<<id[1], cut.first>>) \in Keys
        /\ cut \in RowsOf(BlockKey(<<id[1], cut.first>>), used)
    BY <2>4, KeyKinds, RowKinds
  <2>6. Ledger!Kept(b, n).last = b.last - n /\ Ledger!Kept(b, n).amount = b.amount - n
    BY <1>4 DEF Ledger!Kept, BlockRows, Ledger!Block
  <2>7. KeptFields(b, r, n) = [last |-> b.last - n, amount |-> b.amount - n,
                               reserved |-> b.reserved - n, records |-> recs]
    BY <1>3, <2>6 DEF KeptFields
  <2>8. UpdateOK(BlockKey(id), Update(KeptFields(b, r, n)), used)
    BY <1>4, <2>4, <2>7, UpdateKept
  <2> QED
    BY <2>5, <2>8
<1>10. UpdatesOK(ProjectUpdate(b, id, n, "retired", time), used)
  BY <1>4, ProjectUpdates
<1>11. PICK u : u = Update(IF whole THEN gone ELSE KeptFields(b, r, n))
  OBVIOUS
<1>12. UpdateOK(BlockKey(id), u, used)
  BY <1>8, <1>9, <1>11
<1>13. UpdatesOK(Over(Only(BlockKey(id), u), ProjectUpdate(b, id, n, "retired", time)), used)
  BY <1>10, <1>12, OneUpdate, UpdatesTogether
<1>14. PICK new : new = IF whole THEN NoRows ELSE Only(BlockKey(<<id[1], cut.first>>), cut)
  OBVIOUS
<1>15. RevisionsOK(new, used)
  BY <1>9, <1>14, OneRevision, Nothing
<1>16. PlanAccept(id, r, time)
        = Planned(Over(Only(BlockKey(id), u), ProjectUpdate(b, id, n, "retired", time)), new)
  BY <1>1, <1>3, <1>5, <1>6, <1>7, <1>11, <1>14 DEF PlanAccept
<1> QED
  BY <1>13, <1>15, <1>16, PlannedIs

LEMMA BatchFacts ==
    ASSUME NEW batch \in Batches
    PROVE  /\ Len(batch) \in Nat \ {0} /\ Ledger!BatchTotal(batch) \in Nat \ {0}
           /\ \A k \in 1 .. Len(batch) :
                /\ batch[k] \in Nat /\ batch[k] <= Ledger!BatchTotal(batch)
                /\ Ledger!VintageStart(batch, k) \in Nat \ {0}
                /\ Ledger!VintageStart(batch, k) <= batch[k]
<1>1. /\ batch \in Seq(Nat \ {0}) /\ batch # <<>>
      /\ \A j, k \in 1 .. Len(batch) : j < k => batch[j] < batch[k]
  BY ConstantFacts
<1>2. Len(batch) \in Nat \ {0} /\ \A k \in 1 .. Len(batch) : batch[k] \in Nat \ {0}
  BY <1>1
<1>3. PICK m : m = Len(batch)
  OBVIOUS
<1>4. Ledger!BatchTotal(batch) = batch[m] /\ m \in 1 .. m
  BY <1>2, <1>3 DEF Ledger!BatchTotal
<1>5. ASSUME NEW k \in 1 .. Len(batch)
      PROVE  /\ batch[k] \in Nat /\ batch[k] <= Ledger!BatchTotal(batch)
             /\ Ledger!VintageStart(batch, k) \in Nat \ {0}
             /\ Ledger!VintageStart(batch, k) <= batch[k]
  <2>1. batch[k] <= batch[m]
    <3>1. CASE k = m
      BY <1>2, <1>3, <1>4, <3>1
    <3>2. CASE k < m
      BY <1>1, <1>2, <1>3, <1>4, <3>2
    <3> QED
      BY <1>2, <1>3, <3>1, <3>2
  <2>2. CASE k = 1
    BY <1>2, <1>4, <2>1, <2>2 DEF Ledger!VintageStart
  <2>3. CASE k # 1
    <3>1. k - 1 \in 1 .. Len(batch) /\ k - 1 < k
      BY <1>2, <2>3
    <3>2. batch[k - 1] \in Nat \ {0} /\ batch[k - 1] < batch[k]
      BY <1>1, <1>2, <3>1
    <3> QED
      BY <1>2, <1>4, <2>1, <2>3, <3>2 DEF Ledger!VintageStart
  <2> QED
    BY <2>2, <2>3
<1>6. Ledger!BatchTotal(batch) \in Nat \ {0}
  BY <1>2, <1>3, <1>4
<1> QED
  BY <1>2, <1>5, <1>6

LEMMA NewRowType ==
    ASSUME NEW used, NEW p \in Projects, NEW already \in Nat, NEW batch \in Batches,
           Ledger!BatchTotal(batch) <= CreditEst[p] - already,
           NEW id \in DOMAIN Ledger!NewBlocks(p, already, batch)
    PROVE  /\ id \in Projects \X (Nat \ {0})
           /\ Ledger!NewBlocks(p, already, batch)[id] \in BlockRows(id, used)
<1>1. PICK k0 \in 1 .. Len(batch) : id = <<p, already + Ledger!VintageStart(batch, k0)>>
  BY DEF Ledger!NewBlocks, Ledger!NewBlockIds
<1>2. PICK k \in 1 .. Len(batch) :
        /\ id[2] = already + Ledger!VintageStart(batch, k)
        /\ Ledger!NewBlocks(p, already, batch)[id] = Ledger!NewBlock(p, already, batch, k)
  <2>1. \E k \in 1 .. Len(batch) : id[2] = already + Ledger!VintageStart(batch, k)
    BY <1>1
  <2>2. PICK k \in 1 .. Len(batch) :
          /\ id[2] = already + Ledger!VintageStart(batch, k)
          /\ k = CHOOSE j \in 1 .. Len(batch) : id[2] = already + Ledger!VintageStart(batch, j)
    BY <2>1
  <2> QED
    BY <2>2 DEF Ledger!NewBlocks
<1>3. PICK start, last : start = Ledger!VintageStart(batch, k) /\ last = batch[k]
  OBVIOUS
<1>4. /\ start \in Nat /\ start > 0 /\ last \in Nat /\ start <= last
      /\ last <= CreditEst[p] - already /\ CreditEst[p] \in Nat
  <2>1. /\ start \in Nat \ {0} /\ last \in Nat /\ start <= last
        /\ last <= Ledger!BatchTotal(batch) /\ Ledger!BatchTotal(batch) \in Nat
    BY <1>3, BatchFacts
  <2>2. CreditEst[p] \in Nat
    BY ConstantFacts
  <2> QED
    BY <2>1, <2>2
<1>5. id[1] = p /\ id[2] = already + start /\ id = <<p, already + start>>
  BY <1>1, <1>2, <1>3
<1>6. id \in Projects \X (Nat \ {0})
  BY <1>4, <1>5
<1>7. Covers(id, already + last, last - start + 1)
  BY <1>4, <1>5 DEF Covers
<1>8. PICK zero \in Nat, moved \in BOOLEAN : zero = 0 /\ moved = TRUE
  OBVIOUS
<1>9. Reserves(zero, Ledger!NoRecords, used)
  BY <1>8, NoRecordsReserve
<1>10. Developer[p] \in Companies \cup {NoCompany}
  BY ConstantFacts
<1>11. BlockRow(Developer[p], id, already + last, last - start + 1, zero, moved,
                Ledger!NoRecords) \in BlockRows(id, used)
  BY <1>6, <1>7, <1>9, <1>10, BlockRowType
<1>12. Ledger!NewBlock(p, already, batch, k)
        = BlockRow(Developer[p], id, already + last, last - start + 1, zero, moved,
                   Ledger!NoRecords)
  BY <1>3, <1>5, <1>8 DEF Ledger!NewBlock, BlockRow
<1> QED
  BY <1>2, <1>6, <1>11, <1>12

LEMMA AccountType ==
    ASSUME \E used : RevisionsOK(rows, used), NEW c, CompanyKey(c) \in DOMAIN rows
    PROVE  rows[CompanyKey(c)].credit \in Nat
<1>1. PICK used : rows[CompanyKey(c)] \in RowsOf(CompanyKey(c), used)
  BY DEF RevisionsOK
<1>2. rows[CompanyKey(c)] \in AccountRows
  BY <1>1, RowKinds
<1> QED
  BY <1>2 DEF AccountRows

LEMMA IssuePlan ==
    ASSUME NEW used, RowsOK(rows, used), NEW time \in Nat, NEW a \in Activities,
           NEW batch \in Batches, CanIssue(a, batch)
    PROVE  PlanOK(PlanIssue(a, batch, time), used)
<1>1. PICK pid, n : pid = ActivityProject[a] /\ n = Ledger!BatchTotal(batch)
  OBVIOUS
<1>2. pid \in Projects /\ n \in Nat \ {0} /\ CreditEst[pid] \in Nat
  BY <1>1, BatchFacts, ConstantFacts
<1>3. PICK p : p = rows[ProjectKey(pid)]
  OBVIOUS
<1>4. p \in ProjectRows(pid)
  BY <1>2, <1>3, RowKinds DEF RowsOK, RevisionsOK
<1>5. n <= CreditEst[pid] - p.issued /\ p.issued \in Nat /\ p.balance \in Int
  BY <1>1, <1>3, <1>4 DEF CanIssue, ProjectRows
<1>6. PICK acc : acc = CompanyKey(Developer[pid])
  OBVIOUS
<1>7. Developer[pid] \in Companies /\ acc \in Keys
  BY <1>2, <1>6, ConstantFacts, KeyKinds
<1>8. acc \in DOMAIN rows => rows[acc].credit \in Nat
  BY <1>6, AccountType DEF RowsOK
<1>9. PICK acts : acts = [p.activities EXCEPT ![a] = "VERIFICATION_REPORT_VERIFIED"]
  OBVIOUS
<1>10. acts \in [ActivitiesOf(pid) ->
                    {"MONITORING_REPORT_VERIFIED", "VERIFICATION_REPORT_VERIFIED"}]
  BY <1>4, <1>9 DEF ProjectRows
<1>11. PICK u : u = [where |-> [txTime |-> p.txTime],
                     set |-> [issued |-> p.issued + n, balance |-> p.balance + n,
                              txTime |-> time, activities |-> acts]]
  OBVIOUS
<1>12. UpdateOK(ProjectKey(pid), u, used)
  <2>1. p.issued + n \in 0 .. CreditEst[pid] /\ p.balance + n \in Int
    BY <1>2, <1>5, ConstantFacts DEF RowsOK
  <2> QED
    BY <1>2, <1>10, <1>11, <2>1, UpdateIssued
<1>13. PICK g : g = IF acc \in DOMAIN rows
                    THEN Only(acc, Update([credit |-> rows[acc].credit + n])) ELSE NoRows
  OBVIOUS
<1>14. UpdatesOK(g, used)
  <2>1. ASSUME acc \in DOMAIN rows
        PROVE  UpdatesOK(Only(acc, Update([credit |-> rows[acc].credit + n])), used)
    <3>1. rows[acc].credit + n \in Nat
      BY <1>2, <1>8, <2>1
    <3>2. UpdateOK(acc, Update([credit |-> rows[acc].credit + n]), used)
      BY <1>6, <1>7, <3>1, UpdateAccount
    <3> QED
      BY <3>2, OneUpdate
  <2> QED
    BY <1>13, <2>1, Nothing
<1>15. UpdatesOK(Over(Only(ProjectKey(pid), u), g), used)
  BY <1>12, <1>14, OneUpdate, UpdatesTogether
<1>16. PICK new : new = Ledger!NewBlocks(pid, p.issued, batch)
  OBVIOUS
<1>17. PICK newRows : newRows = [k \in {BlockKey(id) : id \in DOMAIN new} |-> new[k[2]]]
  OBVIOUS
<1>18. RevisionsOK(newRows, used)
  <2> SUFFICES ASSUME NEW id \in DOMAIN new
               PROVE  /\ BlockKey(id) \in Keys
                      /\ newRows[BlockKey(id)] \in RowsOf(BlockKey(id), used)
    BY <1>17 DEF RevisionsOK
  <2>1. newRows[BlockKey(id)] = new[id]
    BY <1>17, KeyKinds
  <2>2. id \in Projects \X (Nat \ {0}) /\ new[id] \in BlockRows(id, used)
    BY <1>1, <1>2, <1>5, <1>16, NewRowType
  <2> QED
    BY <2>1, <2>2, KeyKinds, RowKinds
<1>19. PICK h : h = IF acc \in DOMAIN rows THEN NoRows ELSE Only(acc, [credit |-> n])
  OBVIOUS
<1>20. RevisionsOK(h, used)
  <2>1. [credit |-> n] \in RowsOf(acc, used)
    BY <1>2, <1>6, RowKinds DEF AccountRows
  <2>2. RevisionsOK(Only(acc, [credit |-> n]), used)
    BY <1>7, <2>1, OneRevision
  <2> QED
    BY <1>19, <2>2, Nothing
<1>21. RevisionsOK(Over(newRows, h), used)
  BY <1>18, <1>20, RevisionsTogether
<1>22. PlanIssue(a, batch, time) = Planned(Over(Only(ProjectKey(pid), u), g), Over(newRows, h))
  BY <1>1, <1>3, <1>6, <1>9, <1>11, <1>13, <1>16, <1>17, <1>19 DEF PlanIssue
<1> QED
  BY <1>15, <1>21, <1>22, PlannedIs

-----------------------------------------------------------------------------
(* Steps *)

Moves(w) ==
    \/ ReadIssue(w) \/ ReadTransfer(w) \/ ReadRequest(w)
    \/ ReadAccept(w) \/ ReadDecline(w)
    \/ Reread(w) \/ Commit(w) \/ Die(w)

LEMMA RowsLater ==
    ASSUME NEW used, NEW later, used \subseteq later, NEW revs, RevisionsOK(revs, used)
    PROVE  RevisionsOK(revs, later)
<1>1. \A k \in Keys : RowsOf(k, used) \subseteq RowsOf(k, later)
  BY RowsGrow DEF RowsOf
<1> QED
  BY <1>1 DEF RevisionsOK

LEMMA CallLater ==
    ASSUME NEW c, NEW used, NEW later, used \subseteq later, CallOK(c, used)
    PROVE  CallOK(c, later)
<1>1. ASSUME NEW k, NEW u, UpdateOK(k, u, used) PROVE UpdateOK(k, u, later)
  BY <1>1 DEF UpdateOK
<1> QED
  BY <1>1, RowsLater DEF CallOK, PlanOK

LEMMA InitIInv == RequestsInit => IInv
<1> SUFFICES ASSUME RequestsInit PROVE IInv
  OBVIOUS
<1>1. \A p \in Projects : NewProject(p) \in ProjectRows(p)
  BY ConstantFacts DEF NewProject, ProjectRows
<1>2. /\ DOMAIN rows = {ProjectKey(p) : p \in Projects}
      /\ \A p \in Projects : rows[ProjectKey(p)] = NewProject(p)
  BY KeyKinds DEF RequestsInit
<1>3. RevisionsOK(rows, spent)
  BY <1>1, <1>2, KeyKinds, RowKinds DEF RevisionsOK
<1>4. \A w \in Workers : CallOK(call[w], spent)
  BY DEF RequestsInit, CallOK, Idle
<1> QED
  BY <1>2, <1>3, <1>4, ConstantFacts DEF IInv, RowsOK, RequestsInit

LEMMA MergedRows ==
    ASSUME NEW used, RowsOK(rows, used), NEW plan, PlanOK(plan, used)
    PROVE  RevisionsOK(Merged(plan), used)
<1> DEFINE found == {k \in DOMAIN plan.updates :
                       k \in DOMAIN rows /\ Matches(plan.updates[k].where, rows[k])}
           merged == [k \in found |-> Over(plan.updates[k].set, rows[k])]
<1>1. RevisionsOK(merged, used)
  <2> SUFFICES ASSUME NEW k \in found
               PROVE  k \in Keys /\ Over(plan.updates[k].set, rows[k]) \in RowsOf(k, used)
    BY DEF RevisionsOK
  <2>1. UpdateOK(k, plan.updates[k], used)
    BY DEF PlanOK
  <2>2. rows[k] \in RowsOf(k, used) /\ used \in SUBSET RetireIds
    BY DEF RowsOK, RevisionsOK
  <2> QED
    BY <2>1, <2>2 DEF UpdateOK
<1>2. RevisionsOK(plan.inserts, used)
  BY DEF PlanOK
<1>3. Merged(plan) = Over(merged, plan.inserts)
  BY DEF Merged
<1> QED
  BY <1>1, <1>2, <1>3, RevisionsTogether

\* What a step leaves alone.
LEMMA MoveFacts ==
    ASSUME IInv, NEW w \in Workers, Moves(w)
    PROVE  /\ \A v \in Workers : v # w => call'[v] = call[v]
           /\ call' = [v \in Workers |-> call'[v]]
           /\ spent \subseteq spent' /\ spent' \subseteq RetireIds
           /\ clock' \in 0 .. MaxCalls
<1> USE DEF IInv, RowsOK
<1>1. ASSUME NEW plan, Read(w, plan)
      PROVE  /\ \A v \in Workers : v # w => call'[v] = call[v]
             /\ call' = [v \in Workers |-> call'[v]]
             /\ clock' \in 0 .. MaxCalls
  BY <1>1, ConstantFacts DEF Read
<1>2. CASE ReadIssue(w)
  BY <1>1, <1>2 DEF ReadIssue
<1>3. CASE ReadTransfer(w)
  BY <1>1, <1>3 DEF ReadTransfer
<1>4. CASE ReadRequest(w)
  BY <1>1, <1>4 DEF ReadRequest
<1>5. CASE ReadAccept(w)
  BY <1>1, <1>5 DEF ReadAccept
<1>6. CASE ReadDecline(w)
  BY <1>1, <1>6 DEF ReadDecline
<1>7. CASE Reread(w) \/ Commit(w) \/ Die(w)
  BY <1>7 DEF Reread, Commit, Die
<1> QED
  BY <1>2, <1>3, <1>4, <1>5, <1>6, <1>7 DEF Moves

LEMMA ReadFacts ==
    ASSUME IInv, NEW w \in Workers, NEW plan, Read(w, plan)
    PROVE  call'[w] = plan /\ rows' = rows /\ clock + 1 \in Nat
  BY ConstantFacts DEF IInv, Read

\* Rows and the call of the worker that moves stay good, for any part of the
\* ids handed out that they are good for.
LEMMA MoveKeeps ==
    ASSUME IInv, NEW w \in Workers, Moves(w),
           NEW used, used \subseteq spent, RowsOK(rows, used), CallOK(call[w], used),
           NEW later, later = used \cup (spent' \ spent)
    PROVE  RowsOK(rows', later) /\ CallOK(call'[w], later)
<1>1. /\ used \subseteq later /\ later \subseteq RetireIds
      /\ spent' = spent => later = used
      /\ \A r : spent' = spent \cup {r} /\ r \notin spent => later = used \cup {r}
  BY MoveFacts DEF RowsOK
<1>2. ASSUME NEW plan, Read(w, plan), PlanOK(plan, later)
      PROVE  RowsOK(rows', later) /\ CallOK(call'[w], later)
  <2>1. call'[w] = plan /\ rows' = rows
    BY <1>2, ReadFacts
  <2>2. CallOK(plan, later)
    BY <1>2 DEF CallOK, PlanOK
  <2>3. RevisionsOK(rows, later)
    BY <1>1, RowsLater DEF RowsOK
  <2> QED
    BY <1>1, <2>1, <2>2, <2>3 DEF RowsOK
<1>3. CASE ReadIssue(w)
  <2>1. PICK a \in Activities, batch \in Batches :
          /\ CanIssue(a, batch) /\ Read(w, PlanIssue(a, batch, clock + 1))
          /\ spent' = spent
    BY <1>3 DEF ReadIssue
  <2>2. PlanOK(PlanIssue(a, batch, clock + 1), used)
    BY <2>1, IssuePlan, ReadFacts
  <2> QED
    BY <1>1, <1>2, <2>1, <2>2
<1>4. CASE ReadTransfer(w)
  <2>1. PICK id \in BlockIds, from \in Companies, to \in Companies : \E n \in Amounts(id) :
          /\ CanTransfer(id, n, from) /\ Read(w, PlanTransfer(id, n, to, clock + 1))
          /\ spent' = spent
    BY <1>4 DEF ReadTransfer, BlockIdsOf
  <2>2. PICK n \in Amounts(id) :
          /\ CanTransfer(id, n, from) /\ Read(w, PlanTransfer(id, n, to, clock + 1))
          /\ spent' = spent
    BY <2>1
  <2>3. PlanOK(PlanTransfer(id, n, to, clock + 1), used)
    BY <2>2, TransferPlan, ReadFacts
  <2> QED
    BY <1>1, <1>2, <2>2, <2>3
<1>5. CASE ReadRequest(w)
  <2>1. PICK id \in BlockIds, from \in Companies, r \in RetireIds \ spent :
          \E n \in Amounts(id) :
            CanRequest(id, n, from) /\ Read(w, PlanRequest(id, n, r))
              /\ spent' = spent \cup {r}
    BY <1>5 DEF ReadRequest, BlockIdsOf
  <2>2. PICK n \in Amounts(id) : Read(w, PlanRequest(id, n, r)) /\ spent' = spent \cup {r}
    BY <2>1
  <2>3. r \in RetireIds \ used
    OBVIOUS
  <2>4. PlanOK(PlanRequest(id, n, r), used \cup {r})
    BY <2>3, RequestPlan
  <2> QED
    BY <1>1, <1>2, <2>2, <2>4
<1>6. CASE ReadAccept(w)
  <2>1. PICK id \in BlockIds, r \in RetireIds :
          /\ CanAccept(id, r) /\ Read(w, PlanAccept(id, r, clock + 1))
          /\ spent' = spent
    BY <1>6 DEF ReadAccept, BlockIdsOf
  <2>2. PlanOK(PlanAccept(id, r, clock + 1), used)
    BY <2>1, AcceptPlan, ReadFacts
  <2> QED
    BY <1>1, <1>2, <2>1, <2>2
<1>7. CASE ReadDecline(w)
  <2>1. PICK id \in BlockIds, r \in RetireIds, status \in {"REJECTED", "CANCELLED"} :
          CanDecline(id, r) /\ Read(w, PlanDecline(id, r, status)) /\ spent' = spent
    BY <1>7 DEF ReadDecline, BlockIdsOf
  <2>2. PlanOK(PlanDecline(id, r, status), used)
    BY <2>1, DeclinePlan
  <2> QED
    BY <1>1, <1>2, <2>1, <2>2
<1>8. CASE Reread(w)
  <2>1. /\ call[w].stage = "planned" /\ UNCHANGED <<rows, clock, spent>>
        /\ call' = [call EXCEPT ![w] = [stage |-> "merged", revisions |-> Merged(call[w])]]
    BY <1>8 DEF Reread
  <2>2. RevisionsOK(Merged(call[w]), used)
    BY <2>1, MergedRows DEF CallOK
  <2>3. CallOK([stage |-> "merged", revisions |-> Merged(call[w])], used)
    BY <2>2 DEF CallOK
  <2>4. CallOK(call'[w], used)
    BY <2>1, <2>3 DEF IInv
  <2> QED
    BY <1>1, <2>1, <2>4
<1>9. CASE Commit(w)
  <2>1. /\ call[w].stage = "merged" /\ rows' = Over(call[w].revisions, rows)
        /\ call' = [call EXCEPT ![w] = Idle] /\ UNCHANGED <<clock, spent>>
    BY <1>9 DEF Commit
  <2>2. RevisionsOK(rows', used)
    <3>1. RevisionsOK(call[w].revisions, used) /\ RevisionsOK(rows, used)
      BY <2>1 DEF CallOK, RowsOK
    <3> QED
      BY <2>1, <3>1, RevisionsTogether
  <2>3. \A p \in Projects : ProjectKey(p) \in DOMAIN rows'
    BY <2>1 DEF RowsOK, Over
  <2>4. CallOK(call'[w], used)
    BY <2>1 DEF IInv, CallOK, Idle
  <2> QED
    BY <1>1, <2>1, <2>2, <2>3, <2>4 DEF RowsOK
<1>10. CASE Die(w)
  <2>1. call' = [call EXCEPT ![w] = Idle] /\ UNCHANGED <<rows, clock, spent>>
    BY <1>10 DEF Die
  <2>2. CallOK(call'[w], used)
    BY <2>1 DEF IInv, CallOK, Idle
  <2> QED
    BY <1>1, <2>1, <2>2
<1> QED
  BY <1>3, <1>4, <1>5, <1>6, <1>7, <1>8, <1>9, <1>10 DEF Moves

LEMMA StepIInv == IInv /\ [RequestsNext]_reqVars => IInv'
<1> SUFFICES ASSUME IInv, [RequestsNext]_reqVars PROVE IInv'
  OBVIOUS
<1>1. CASE UNCHANGED reqVars
  BY <1>1 DEF reqVars, IInv
<1>2. ASSUME NEW w \in Workers, Moves(w) PROVE IInv'
  <2>1. PICK used, later : used = spent /\ later = spent'
    OBVIOUS
  <2>2. used \subseteq spent /\ later = used \cup (spent' \ spent) /\ used \subseteq later
    BY <1>2, <2>1, MoveFacts
  <2>3. RowsOK(rows, used) /\ \A v \in Workers : CallOK(call[v], used)
    BY <2>1 DEF IInv
  <2>4. RowsOK(rows', later) /\ CallOK(call'[w], later)
    BY <1>2, <2>2, <2>3, MoveKeeps
  <2>5. \A v \in Workers : v # w => CallOK(call'[v], later)
    BY <1>2, <2>2, <2>3, MoveFacts, CallLater
  <2> QED
    BY <1>2, <2>1, <2>4, <2>5, MoveFacts DEF IInv
<1> QED
  BY <1>1, <1>2 DEF RequestsNext, Moves


-----------------------------------------------------------------------------
\* What the rows, the plans and the merged revisions keep, however calls
\* interleave and wherever they die.
THEOREM RequestsInvariant == RequestsSpec => []IInv
<1> QED
  BY InitIInv, StepIInv, PTL DEF RequestsSpec

\* The rows of the three tables keep their types when calls overlap.
THEOREM RequestsTypes == RequestsSpec => []RequestsTypeOK
<1>1. IInv => RequestsTypeOK
  <2> SUFFICES ASSUME IInv PROVE RequestsTypeOK
    OBVIOUS
  <2>1. RevisionsOK(rows, spent)
    BY DEF IInv, RowsOK
  <2>2. \A p \in Projects : rows[ProjectKey(p)] \in ProjectRows(p)
    BY <2>1, RowKinds DEF IInv, RowsOK, RevisionsOK
  <2>3. ProjectColumns \in [Projects -> Ledger!ProjectRow]
    <3> SUFFICES ASSUME NEW p \in Projects
                 PROVE  /\ rows[ProjectKey(p)].issued \in Nat
                        /\ rows[ProjectKey(p)].balance \in Int
                        /\ rows[ProjectKey(p)].transferred \in Int
                        /\ rows[ProjectKey(p)].retired \in Int
      BY DEF ProjectColumns, Ledger!ProjectRow
    <3> QED
      BY <2>2, ConstantFacts DEF ProjectRows
  <2>4. \A a \in Activities : rows[ProjectKey(ActivityProject[a])].activities[a]
                \in {"MONITORING_REPORT_VERIFIED", "VERIFICATION_REPORT_VERIFIED"}
    <3> SUFFICES ASSUME NEW a \in Activities
                 PROVE  rows[ProjectKey(ActivityProject[a])].activities[a]
                \in {"MONITORING_REPORT_VERIFIED", "VERIFICATION_REPORT_VERIFIED"}
      OBVIOUS
    <3>1. ActivityProject[a] \in Projects /\ a \in ActivitiesOf(ActivityProject[a])
      BY ConstantFacts DEF ActivitiesOf
    <3> QED
      BY <2>2, <3>1 DEF ProjectRows
  <2>5. \A c \in Companies : CompanyKey(c) \in DOMAIN rows => rows[CompanyKey(c)].credit \in Nat
    BY <2>1, AccountType
  <2>6. \A id \in BlockIds : /\ id \in Projects \X (Nat \ {0})
                             /\ rows[BlockKey(id)] \in Ledger!Block
    BY <2>1, BlockIdType DEF BlockRows
  <2>7. Ledger!TypeOK
    BY <2>3, <2>4, <2>5, <2>6
       DEF ActivityStates, AccountCredits, CreditBlocks, Ledger!TypeOK
  <2> QED
    BY <2>7 DEF IInv, RowsOK, CallOK, RequestsTypeOK
<1> QED
  BY <1>1, RequestsInvariant, PTL

\* No interleaving makes a serial number beyond the estimate of the project.
THEOREM NothingIssuedBeyond == RequestsSpec => []NothingBeyondEstimate
<1>1. IInv => NothingBeyondEstimate
  <2> SUFFICES ASSUME IInv PROVE NothingBeyondEstimate
    OBVIOUS
  <2>1. RevisionsOK(rows, spent)
    BY DEF IInv, RowsOK
  <2>2. \A p \in Projects : rows[ProjectKey(p)] \in ProjectRows(p)
    BY <2>1, RowKinds DEF IInv, RowsOK, RevisionsOK
  <2>3. \A id \in BlockIds : rows[BlockKey(id)].last <= CreditEst[id[1]]
    BY <2>1, BlockIdType DEF BlockRows, Covers
  <2>4. \A p \in Projects : rows[ProjectKey(p)].issued <= CreditEst[p]
    BY <2>2, ConstantFacts DEF ProjectRows
  <2> QED
    BY <2>3, <2>4 DEF NothingBeyondEstimate
<1> QED
  BY <1>1, RequestsInvariant, PTL

\* The reserved amount of a block and its list of requests never disagree,
\* although the rest of the row may be older or newer than they are.
THEOREM ReservedAgrees == RequestsSpec => []ReservedMatchesRequests
<1>1. IInv => ReservedMatchesRequests
  <2> SUFFICES ASSUME IInv, NEW id \in BlockIds
               PROVE  LET b == rows[BlockKey(id)]
                          pending == {r \in RetireIds : b.records[r].status = "PENDING"}
                      IN  /\ b.reserved >= 0
                          /\ pending = {} <=> b.reserved = 0
                          /\ \A r \in pending : b.records[r].amount <= b.reserved
    BY DEF ReservedMatchesRequests
  <2>1. PICK b : b = rows[BlockKey(id)]
    OBVIOUS
  <2>2. Reserves(b.reserved, b.records, spent)
    BY <2>1, BlockIdType DEF IInv, RowsOK, BlockRows
  <2>3. /\ b.reserved \in Nat
        /\ PendingOf(b.records) = {} <=> b.reserved = 0
        /\ \A r \in PendingOf(b.records) : b.records[r].amount <= b.reserved
    BY <2>2, ReservesBound
  <2> QED
    BY <2>1, <2>3 DEF PendingOf
<1> QED
  BY <1>1, RequestsInvariant, PTL

-----------------------------------------------------------------------------
(* Calls on the projects of one developer that never overlap               *)

\* No two workers serve projects of one developer.
OwnScope ==
    \A v, w \in Workers : v # w =>
        \A p \in Scope[v], q \in Scope[w] : Developer[p] # Developer[q]

\* The rows a call of worker w reads and writes.
InScope(w, k) ==
    \/ k[1] = "project" /\ k[2] \in Scope[w]
    \/ k[1] = "block" /\ k[2][1] \in Scope[w]
    \/ k[1] = "company" /\ \E p \in Scope[w] : k[2] = Developer[p]

\* The request id r is in no row and in no call but that of w.
NotYet(w, r) ==
    /\ r \in spent
    /\ RowsOK(rows, spent \ {r})
    /\ \A v \in Workers \ {w} : CallOK(call[v], spent \ {r})

\* What worker w plans is what it would plan if it read the rows now.
FreshIssue(w, plan) ==
    \E a \in Activities, batch \in Batches, time \in Nat :
        /\ ActivityProject[a] \in Scope[w] /\ CanIssue(a, batch)
        /\ plan = PlanIssue(a, batch, time)

FreshTransfer(w, plan) ==
    \E id \in BlockIdsOf(w), from, to \in Companies, time \in Nat :
        \E n \in Amounts(id) :
            CanTransfer(id, n, from) /\ plan = PlanTransfer(id, n, to, time)

FreshRequest(w, plan) ==
    \E id \in BlockIdsOf(w), from \in Companies, r \in RetireIds :
        \E n \in Amounts(id) :
            NotYet(w, r) /\ CanRequest(id, n, from) /\ plan = PlanRequest(id, n, r)

FreshAccept(w, plan) ==
    \E id \in BlockIdsOf(w), r \in RetireIds, time \in Nat :
        CanAccept(id, r) /\ plan = PlanAccept(id, r, time)

FreshDecline(w, plan) ==
    \E id \in BlockIdsOf(w), r \in RetireIds, status \in {"REJECTED", "CANCELLED"} :
        CanDecline(id, r) /\ plan = PlanDecline(id, r, status)

FreshPlan(w, plan) ==
    \/ FreshIssue(w, plan) \/ FreshTransfer(w, plan) \/ FreshRequest(w, plan)
    \/ FreshAccept(w, plan) \/ FreshDecline(w, plan)

FreshCall(w) ==
    /\ call[w].stage = "planned" => FreshPlan(w, call[w])
    /\ call[w].stage = "merged" =>
         \E plan : FreshPlan(w, plan) /\ call[w].revisions = Merged(plan)

\* No row is in the scope of two workers.
LEMMA ScopesApart ==
    ASSUME OwnScope, NEW v \in Workers, NEW w \in Workers, v # w, NEW k, InScope(v, k)
    PROVE  ~InScope(w, k)
  BY DEF OwnScope, InScope

\* The rows of the projects of a worker are in its scope.
LEMMA KeysInScope ==
    ASSUME NEW w \in Workers
    PROVE  /\ \A p \in Scope[w] : /\ p \in Projects
                                  /\ InScope(w, ProjectKey(p))
                                  /\ InScope(w, CompanyKey(Developer[p]))
           /\ \A id : id[1] \in Scope[w] => InScope(w, BlockKey(id))
  BY KeyKinds, RequestsAssumption DEF InScope

-----------------------------------------------------------------------------
(* A plan stays fresh while others leave the rows in scope alone *)

\* What other workers' steps do to the rows w reads.
ScopeKept(w) ==
    \A k : InScope(w, k) =>
        /\ k \in DOMAIN rows' <=> k \in DOMAIN rows
        /\ k \in DOMAIN rows => rows'[k] = rows[k]

\* A plan of worker w updates rows that exist, and writes in its scope only.
PlanKeysOK(w, plan) ==
    /\ \A k \in DOMAIN plan.updates : InScope(w, k) /\ k \in DOMAIN rows
    /\ \A k \in DOMAIN plan.inserts : InScope(w, k)

\* A block in scope is read again as it was.
LEMMA ScopeBlock ==
    ASSUME NEW w \in Workers, IInv, IInv', ScopeKept(w), NEW id \in BlockIdsOf(w)
    PROVE  /\ id \in BlockIds /\ id[1] \in Scope[w]
           /\ id \in Projects \X (Nat \ {0})
           /\ BlockKey(id) \in DOMAIN rows
           /\ rows'[BlockKey(id)] = rows[BlockKey(id)]
           /\ ProjectKey(id[1]) \in DOMAIN rows
           /\ rows'[ProjectKey(id[1])] = rows[ProjectKey(id[1])]
           /\ id \in BlockIdsOf(w)' /\ Amounts(id)' = Amounts(id)
<1>1. id \in BlockIds /\ id[1] \in Scope[w] /\ id[1] \in Projects
  BY KeysInScope DEF BlockIdsOf
<1>2. InScope(w, BlockKey(id)) /\ InScope(w, ProjectKey(id[1]))
  BY <1>1, KeysInScope
<1>3. DOMAIN rows \subseteq Keys /\ DOMAIN rows' \subseteq Keys
  BY DEF IInv, RowsOK, RevisionsOK
<1>4. BlockKey(id) \in DOMAIN rows
  BY <1>1, <1>3, BlockIdsAre
<1>5. BlockKey(id) \in DOMAIN rows' /\ rows'[BlockKey(id)] = rows[BlockKey(id)]
  BY <1>2, <1>4 DEF ScopeKept
<1>6. id \in BlockIds'
  BY <1>5, KeyKinds DEF BlockIds
<1>7. ProjectKey(id[1]) \in DOMAIN rows /\ rows'[ProjectKey(id[1])] = rows[ProjectKey(id[1])]
  BY <1>1, <1>2 DEF IInv, RowsOK, ScopeKept
<1>8. id \in Projects \X (Nat \ {0})
  BY <1>1, BlockIdType DEF IInv, RowsOK
<1> QED
  BY <1>1, <1>4, <1>5, <1>6, <1>7, <1>8 DEF BlockIdsOf, Amounts

\* What a call adds to the project row depends on that row alone.
LEMMA ProjectUpdateStays ==
    ASSUME NEW b, NEW id, NEW n, NEW column, NEW time,
           rows'[ProjectKey(id[1])] = rows[ProjectKey(id[1])]
    PROVE  ProjectUpdate(b, id, n, column, time)' = ProjectUpdate(b, id, n, column, time)
  BY DEF ProjectUpdate

\* Each kind of plan, when the rows in scope stay.
LEMMA IssueStays ==
    ASSUME NEW w \in Workers, IInv, IInv', ScopeKept(w), NEW plan, FreshIssue(w, plan)
    PROVE  FreshIssue(w, plan)'
<1>1. PICK a \in Activities, batch \in Batches, time \in Nat :
        /\ ActivityProject[a] \in Scope[w] /\ CanIssue(a, batch)
        /\ plan = PlanIssue(a, batch, time)
  BY DEF FreshIssue
<1>2. PICK pid : pid = ActivityProject[a]
  OBVIOUS
<1>3. PICK acc : acc = CompanyKey(Developer[pid])
  OBVIOUS
<1>4. InScope(w, ProjectKey(pid)) /\ InScope(w, acc) /\ ProjectKey(pid) \in DOMAIN rows
  BY <1>1, <1>2, <1>3, KeysInScope DEF IInv, RowsOK
<1>5. /\ rows'[ProjectKey(pid)] = rows[ProjectKey(pid)]
      /\ acc \in DOMAIN rows' <=> acc \in DOMAIN rows
      /\ acc \in DOMAIN rows => rows'[acc] = rows[acc]
  BY <1>4 DEF ScopeKept
<1>6. CanIssue(a, batch)'
  BY <1>1, <1>2, <1>5 DEF CanIssue
<1>7. PICK p : p = rows[ProjectKey(pid)] /\ p = rows'[ProjectKey(pid)]
  BY <1>5
<1>8. PlanIssue(a, batch, time)' = PlanIssue(a, batch, time)
  BY <1>2, <1>3, <1>5, <1>7 DEF PlanIssue
<1> QED
  BY <1>1, <1>6, <1>8 DEF FreshIssue

LEMMA TransferStays ==
    ASSUME NEW w \in Workers, IInv, IInv', ScopeKept(w), NEW plan, FreshTransfer(w, plan)
    PROVE  FreshTransfer(w, plan)'
<1>1. PICK id \in BlockIdsOf(w), from \in Companies, to \in Companies, time \in Nat :
        \E n \in Amounts(id) :
            CanTransfer(id, n, from) /\ plan = PlanTransfer(id, n, to, time)
  BY DEF FreshTransfer
<1>2. PICK n \in Amounts(id) :
            CanTransfer(id, n, from) /\ plan = PlanTransfer(id, n, to, time)
  BY <1>1
<1>3. PICK b : b = rows[BlockKey(id)] /\ b = rows'[BlockKey(id)]
  BY ScopeBlock
<1>4. CanTransfer(id, n, from)'
  BY <1>2, <1>3 DEF CanTransfer
<1>5. PICK u : /\ u = ProjectUpdate(b, id, n, "transferred", time)
               /\ u = ProjectUpdate(b, id, n, "transferred", time)'
  BY ScopeBlock, ProjectUpdateStays
<1>6. PlanTransfer(id, n, to, time)' = PlanTransfer(id, n, to, time)
  BY <1>3, <1>5 DEF PlanTransfer
<1> QED
  BY <1>2, <1>4, <1>6, ScopeBlock DEF FreshTransfer

LEMMA AcceptStays ==
    ASSUME NEW w \in Workers, IInv, IInv', ScopeKept(w), NEW plan, FreshAccept(w, plan)
    PROVE  FreshAccept(w, plan)'
<1>1. PICK id \in BlockIdsOf(w), r \in RetireIds, time \in Nat :
        CanAccept(id, r) /\ plan = PlanAccept(id, r, time)
  BY DEF FreshAccept
<1>2. PICK b : b = rows[BlockKey(id)] /\ b = rows'[BlockKey(id)]
  BY ScopeBlock
<1>3. CanAccept(id, r)'
  BY <1>1, <1>2 DEF CanAccept
<1>4. PICK n : n = b.records[r].amount
  OBVIOUS
<1>5. PICK u : /\ u = ProjectUpdate(b, id, n, "retired", time)
               /\ u = ProjectUpdate(b, id, n, "retired", time)'
  BY ScopeBlock, ProjectUpdateStays
<1>6. PlanAccept(id, r, time)' = PlanAccept(id, r, time)
  BY <1>2, <1>4, <1>5 DEF PlanAccept
<1> QED
  BY <1>1, <1>3, <1>6, ScopeBlock DEF FreshAccept

LEMMA DeclineStays ==
    ASSUME NEW w \in Workers, IInv, IInv', ScopeKept(w), NEW plan, FreshDecline(w, plan)
    PROVE  FreshDecline(w, plan)'
<1>1. PICK id \in BlockIdsOf(w), r \in RetireIds, status \in {"REJECTED", "CANCELLED"} :
        CanDecline(id, r) /\ plan = PlanDecline(id, r, status)
  BY DEF FreshDecline
<1>2. PICK b : b = rows[BlockKey(id)] /\ b = rows'[BlockKey(id)]
  BY ScopeBlock
<1>3. CanDecline(id, r)' /\ PlanDecline(id, r, status)' = PlanDecline(id, r, status)
  BY <1>1, <1>2 DEF CanDecline, PlanDecline
<1> QED
  BY <1>1, <1>3, ScopeBlock DEF FreshDecline

LEMMA RequestStays ==
    ASSUME NEW w \in Workers, IInv, IInv', ScopeKept(w), NEW plan, FreshRequest(w, plan),
           \A r : NotYet(w, r) => NotYet(w, r)'
    PROVE  FreshRequest(w, plan)'
<1>1. PICK id \in BlockIdsOf(w), from \in Companies, r \in RetireIds :
        \E n \in Amounts(id) :
            NotYet(w, r) /\ CanRequest(id, n, from) /\ plan = PlanRequest(id, n, r)
  BY DEF FreshRequest
<1>2. PICK n \in Amounts(id) :
        NotYet(w, r) /\ CanRequest(id, n, from) /\ plan = PlanRequest(id, n, r)
  BY <1>1
<1>3. PICK b : b = rows[BlockKey(id)] /\ b = rows'[BlockKey(id)]
  BY ScopeBlock
<1>4. CanRequest(id, n, from)' /\ PlanRequest(id, n, r)' = PlanRequest(id, n, r)
  BY <1>2, <1>3 DEF CanRequest, PlanRequest
<1> QED
  BY <1>2, <1>4, ScopeBlock DEF FreshRequest

\* Any plan stays fresh when the rows in its scope stay.
LEMMA FreshStays ==
    ASSUME NEW w \in Workers, IInv, IInv', ScopeKept(w),
           \A r : NotYet(w, r) => NotYet(w, r)',
           NEW plan, FreshPlan(w, plan)
    PROVE  FreshPlan(w, plan)'
  BY IssueStays, TransferStays, RequestStays, AcceptStays, DeclineStays DEF FreshPlan

-----------------------------------------------------------------------------
(* What a plan reads and writes is in the scope of its worker *)

LEMMA PlanKeysTogether ==
    ASSUME NEW w \in Workers, NEW k, InScope(w, k), k \in DOMAIN rows, NEW u,
           NEW more, \A x \in DOMAIN more : InScope(w, x) /\ x \in DOMAIN rows,
           NEW inserts, \A x \in DOMAIN inserts : InScope(w, x)
    PROVE  PlanKeysOK(w, Planned(Over(Only(k, u), more), inserts))
  BY DEF PlanKeysOK, Planned, Over, Only

LEMMA BlockInScope ==
    ASSUME NEW w \in Workers, IInv, NEW id \in BlockIdsOf(w)
    PROVE  /\ id \in BlockIds /\ id[1] \in Scope[w]
           /\ InScope(w, BlockKey(id)) /\ BlockKey(id) \in DOMAIN rows
           /\ InScope(w, ProjectKey(id[1])) /\ ProjectKey(id[1]) \in DOMAIN rows
           /\ \A start : InScope(w, BlockKey(<<id[1], start>>))
<1>1. id \in BlockIds /\ id[1] \in Scope[w] /\ id[1] \in Projects
  BY KeysInScope DEF BlockIdsOf
<1>2. BlockKey(id) \in DOMAIN rows
  BY <1>1, BlockIdsAre DEF IInv, RowsOK, RevisionsOK
<1> QED
  BY <1>1, <1>2, KeysInScope DEF IInv, RowsOK

LEMMA ProjectUpdateInScope ==
    ASSUME NEW w \in Workers, IInv, NEW id \in BlockIdsOf(w), NEW b, NEW n, NEW column,
           NEW time
    PROVE  \A x \in DOMAIN ProjectUpdate(b, id, n, column, time) :
              InScope(w, x) /\ x \in DOMAIN rows
<1>1. DOMAIN ProjectUpdate(b, id, n, column, time) \subseteq {ProjectKey(id[1])}
  BY DEF ProjectUpdate, Only, NoRows
<1> QED
  BY <1>1, BlockInScope

\* A fresh plan writes in the scope of its worker only.
LEMMA FreshKeys ==
    ASSUME NEW w \in Workers, IInv, NEW plan, FreshPlan(w, plan)
    PROVE  PlanKeysOK(w, plan)
<1>1. CASE FreshIssue(w, plan)
  <2>1. PICK a \in Activities, batch \in Batches, time \in Nat :
          ActivityProject[a] \in Scope[w] /\ plan = PlanIssue(a, batch, time)
    BY <1>1 DEF FreshIssue
  <2>2. PICK pid, acc, new : /\ pid = ActivityProject[a] /\ acc = CompanyKey(Developer[pid])
               /\ new = Ledger!NewBlocks(pid, rows[ProjectKey(pid)].issued, batch)
    OBVIOUS
  <2>3. /\ InScope(w, ProjectKey(pid)) /\ InScope(w, acc) /\ ProjectKey(pid) \in DOMAIN rows
        /\ pid \in Scope[w]
    BY <2>1, <2>2, KeysInScope DEF IInv, RowsOK
  <2>4. \A id \in DOMAIN new : InScope(w, BlockKey(id))
    BY <2>2, <2>3, KeysInScope DEF Ledger!NewBlocks, Ledger!NewBlockIds
  <2>5. PICK p, n : p = rows[ProjectKey(pid)] /\ n = Ledger!BatchTotal(batch)
    OBVIOUS
  <2>6. PICK g : g = IF acc \in DOMAIN rows
                     THEN Only(acc, Update([credit |-> rows[acc].credit + n])) ELSE NoRows
    OBVIOUS
  <2>7. PICK h : h = IF acc \in DOMAIN rows THEN NoRows ELSE Only(acc, [credit |-> n])
    OBVIOUS
  <2>8. PICK newRows : newRows = [k \in {BlockKey(id) : id \in DOMAIN new} |-> new[k[2]]]
    OBVIOUS
  <2>9. PICK u : u = [where |-> [txTime |-> p.txTime],
                      set |-> [issued |-> p.issued + n, balance |-> p.balance + n,
                               txTime |-> time,
                               activities |-> [p.activities EXCEPT
                                                 ![a] = "VERIFICATION_REPORT_VERIFIED"]]]
    OBVIOUS
  <2>10. plan = Planned(Over(Only(ProjectKey(pid), u), g), Over(newRows, h))
    BY <2>1, <2>2, <2>5, <2>6, <2>7, <2>8, <2>9 DEF PlanIssue
  <2>11. \A x \in DOMAIN g : InScope(w, x) /\ x \in DOMAIN rows
    BY <2>3, <2>6 DEF Only, NoRows
  <2>12. \A x \in DOMAIN h : InScope(w, x)
    BY <2>3, <2>7 DEF Only, NoRows
  <2>13. \A x \in DOMAIN Over(newRows, h) : InScope(w, x)
    BY <2>4, <2>8, <2>12 DEF Over
  <2> QED
    BY <2>3, <2>10, <2>11, <2>13, PlanKeysTogether
<1>2. CASE FreshTransfer(w, plan)
  <2>1. PICK id \in BlockIdsOf(w), to \in Companies, time \in Nat :
          \E n \in Amounts(id) : plan = PlanTransfer(id, n, to, time)
    BY <1>2 DEF FreshTransfer
  <2>2. PICK n \in Amounts(id) : plan = PlanTransfer(id, n, to, time)
    BY <2>1
  <2>3. PICK b, whole, cut, more :
          /\ b = rows[BlockKey(id)]
          /\ whole = (b.reserved = 0 /\ n = Ledger!Unreserved(b))
          /\ cut = Ledger!CutOff(b, n, to, Ledger!NoRecords)
          /\ more = ProjectUpdate(b, id, n, "transferred", time)
    OBVIOUS
  <2>4. PICK u : u = Update(IF whole THEN [b EXCEPT !.owner = to, !.notTransferred = FALSE]
                                     ELSE Ledger!Kept(b, n))
    OBVIOUS
  <2>5. PICK h : h = IF whole THEN NoRows ELSE Only(BlockKey(<<id[1], cut.first>>), cut)
    OBVIOUS
  <2>6. plan = Planned(Over(Only(BlockKey(id), u), more), h)
    BY <2>2, <2>3, <2>4, <2>5 DEF PlanTransfer
  <2>7. \A x \in DOMAIN h : InScope(w, x)
    BY <2>5, BlockInScope DEF Only, NoRows
  <2>8. \A x \in DOMAIN more : InScope(w, x) /\ x \in DOMAIN rows
    BY <2>3, ProjectUpdateInScope
  <2> QED
    BY <2>6, <2>7, <2>8, BlockInScope, PlanKeysTogether
<1>3. CASE FreshRequest(w, plan)
  <2>1. PICK id \in BlockIdsOf(w) : \E u : plan = Planned(Only(BlockKey(id), u), NoRows)
    BY <1>3 DEF FreshRequest, PlanRequest
  <2> QED
    BY <2>1, BlockInScope DEF PlanKeysOK, Planned, Only, NoRows
<1>4. CASE FreshAccept(w, plan)
  <2>1. PICK id \in BlockIdsOf(w), r \in RetireIds, time \in Nat : plan = PlanAccept(id, r, time)
    BY <1>4 DEF FreshAccept
  <2>2. PICK b, n, done : /\ b = rows[BlockKey(id)] /\ n = b.records[r].amount
                          /\ done = Ledger!Decided(b, r, "COMPLETED")
    OBVIOUS
  <2>3. PICK whole, cut, more :
          /\ whole = Ledger!WholeBlockRequested(b, r)
          /\ cut = Ledger!CutOff(b, n, NoCompany,
                                 [Ledger!NoRecords EXCEPT ![r] = done.records[r]])
          /\ more = ProjectUpdate(b, id, n, "retired", time)
    OBVIOUS
  <2>4. PICK u : u = Update(IF whole
                            THEN [owner |-> NoCompany, notTransferred |-> FALSE,
                                  reserved |-> 0, records |-> done.records]
                            ELSE KeptFields(b, r, n))
    OBVIOUS
  <2>5. PICK h : h = IF whole THEN NoRows ELSE Only(BlockKey(<<id[1], cut.first>>), cut)
    OBVIOUS
  <2>6. plan = Planned(Over(Only(BlockKey(id), u), more), h)
    BY <2>1, <2>2, <2>3, <2>4, <2>5 DEF PlanAccept
  <2>7. \A x \in DOMAIN h : InScope(w, x)
    BY <2>5, BlockInScope DEF Only, NoRows
  <2>8. \A x \in DOMAIN more : InScope(w, x) /\ x \in DOMAIN rows
    BY <2>3, ProjectUpdateInScope
  <2> QED
    BY <2>6, <2>7, <2>8, BlockInScope, PlanKeysTogether
<1>5. CASE FreshDecline(w, plan)
  <2>1. PICK id \in BlockIdsOf(w) : \E u : plan = Planned(Only(BlockKey(id), u), NoRows)
    BY <1>5 DEF FreshDecline, PlanDecline
  <2> QED
    BY <2>1, BlockInScope DEF PlanKeysOK, Planned, Only, NoRows
<1> QED
  BY <1>1, <1>2, <1>3, <1>4, <1>5 DEF FreshPlan

\* Merging the plan with the rows adds no key of another scope.
LEMMA MergedKeys ==
    ASSUME NEW w \in Workers, NEW plan, PlanKeysOK(w, plan)
    PROVE  \A k \in DOMAIN Merged(plan) : InScope(w, k)
  BY DEF PlanKeysOK, Merged, Over

\* The merged revisions are the same as long as the rows in scope stay.
LEMMA MergedStays ==
    ASSUME NEW w \in Workers, NEW plan, PlanKeysOK(w, plan), ScopeKept(w)
    PROVE  Merged(plan)' = Merged(plan)
<1> DEFINE found(rs) == {k \in DOMAIN plan.updates :
                           k \in DOMAIN rs /\ Matches(plan.updates[k].where, rs[k])}
           merged(rs) == [k \in found(rs) |-> Over(plan.updates[k].set, rs[k])]
<1>1. \A k \in DOMAIN plan.updates :
        k \in DOMAIN rows /\ k \in DOMAIN rows' /\ rows'[k] = rows[k]
  BY DEF PlanKeysOK, ScopeKept
<1>2. found(rows') = found(rows)
  BY <1>1
<1>3. merged(rows') = merged(rows)
  BY <1>1, <1>2
<1>4. Merged(plan) = Over(merged(rows), plan.inserts)
  BY DEF Merged
<1>5. Merged(plan)' = Over(merged(rows'), plan.inserts)
  BY DEF Merged
<1> QED
  BY <1>3, <1>4, <1>5

-----------------------------------------------------------------------------
(* Under OwnScope every call stays fresh *)

\* A request id handed out to w stays in no row and no other call.
LEMMA NotYetStays ==
    ASSUME IInv, NEW w \in Workers, NEW v \in Workers, Moves(v),
           v # w \/ UNCHANGED <<rows, spent>>, NEW r, NotYet(w, r)
    PROVE  NotYet(w, r)'
<1>1. PICK used, later : used = spent \ {r} /\ later = spent' \ {r}
  OBVIOUS
<1>2. /\ r \in spent /\ RowsOK(rows, used) /\ \A u \in Workers \ {w} : CallOK(call[u], used)
  BY <1>1 DEF NotYet
<1>3. /\ later = used \cup (spent' \ spent) /\ used \subseteq spent
      /\ used \subseteq later /\ r \in spent'
      /\ \A u \in Workers : u # v => call'[u] = call[u]
  BY <1>1, <1>2, MoveFacts
<1>4. CASE v # w
  <2>1. RowsOK(rows', later) /\ CallOK(call'[v], later)
    BY <1>2, <1>3, <1>4, MoveKeeps
  <2>2. \A u \in Workers \ {w} : CallOK(call'[u], later)
    BY <1>2, <1>3, <2>1, CallLater
  <2> QED
    BY <1>1, <1>3, <2>1, <2>2 DEF NotYet
<1>5. CASE v = w
  BY <1>1, <1>2, <1>3, <1>5 DEF NotYet
<1> QED
  BY <1>4, <1>5

\* What a worker does leaves the rows of the others alone.
LEMMA ScopesKept ==
    ASSUME OwnScope, IInv, NEW v \in Workers, Moves(v), FreshCall(v),
           NEW w \in Workers, v # w
    PROVE  ScopeKept(w)
<1>1. CASE Commit(v)
  <2>1. /\ call[v].stage = "merged" /\ rows' = Over(call[v].revisions, rows)
    BY <1>1 DEF Commit
  <2>2. \A k \in DOMAIN call[v].revisions : InScope(v, k)
    BY <2>1, FreshKeys, MergedKeys DEF FreshCall
  <2>3. \A k \in DOMAIN call[v].revisions : ~InScope(w, k)
    BY <2>2, ScopesApart
  <2> QED
    BY <2>1, <2>3 DEF ScopeKept, Over
<1>2. CASE ~Commit(v)
  <2>1. rows' = rows
    BY <1>2 DEF Moves, ReadIssue, ReadTransfer, ReadRequest, ReadAccept, ReadDecline, Read,
           Reread, Die
  <2> QED
    BY <2>1 DEF ScopeKept
<1> QED
  BY <1>1, <1>2

\* The call of another worker stays fresh.
LEMMA CallStays ==
    ASSUME IInv, IInv', NEW w \in Workers, FreshCall(w), call'[w] = call[w],
           ScopeKept(w), \A r : NotYet(w, r) => NotYet(w, r)'
    PROVE  FreshCall(w)'
<1>1. \A plan : FreshPlan(w, plan) => FreshPlan(w, plan)' /\ Merged(plan)' = Merged(plan)
  BY FreshStays, FreshKeys, MergedStays
<1>2. call[w].stage = "planned" => FreshPlan(w, call[w])'
  <2>1. PICK c : c = call[w] /\ c = call'[w]
    OBVIOUS
  <2>2. c.stage = "planned" => FreshPlan(w, c)'
    BY <1>1, <2>1 DEF FreshCall
  <2> QED
    BY <2>1, <2>2
<1> QED
  BY <1>1, <1>2 DEF FreshCall

\* A call that read the rows just now is fresh.
LEMMA ReadFresh ==
    ASSUME IInv, IInv', NEW w \in Workers, Moves(w), call[w] = Idle
    PROVE  FreshCall(w)'
<1>1. ASSUME rows' = rows PROVE ScopeKept(w)
  BY <1>1 DEF ScopeKept
<1>2. ASSUME NEW plan, Read(w, plan), FreshPlan(w, plan)', plan.stage = "planned"
      PROVE  FreshCall(w)'
  BY <1>2, ReadFacts DEF FreshCall
<1>3. ASSUME NEW plan, Read(w, plan), plan.stage = "planned",
             \/ FreshIssue(w, plan) \/ FreshTransfer(w, plan)
             \/ FreshAccept(w, plan) \/ FreshDecline(w, plan)
      PROVE  FreshCall(w)'
  <2>1. ScopeKept(w)
    BY <1>1, <1>3, ReadFacts
  <2>2. FreshPlan(w, plan)'
    BY <1>3, <2>1, IssueStays, TransferStays, AcceptStays, DeclineStays DEF FreshPlan
  <2> QED
    BY <1>2, <1>3, <2>2
<1>4. CASE ReadIssue(w)
  <2>1. PICK a \in Activities, batch \in Batches :
          /\ ActivityProject[a] \in Scope[w] /\ CanIssue(a, batch)
          /\ Read(w, PlanIssue(a, batch, clock + 1))
    BY <1>4 DEF ReadIssue
  <2>2. PICK time \in Nat : time = clock + 1
    BY <2>1, ReadFacts
  <2>3. PICK plan : plan = PlanIssue(a, batch, time)
    OBVIOUS
  <2>4. plan.stage = "planned"
    BY <2>3 DEF PlanIssue, Planned
  <2>5. FreshIssue(w, plan)
    BY <2>1, <2>3 DEF FreshIssue
  <2> QED
    BY <1>3, <2>1, <2>2, <2>3, <2>4, <2>5
<1>5. CASE ReadTransfer(w)
  <2>1. PICK id \in BlockIdsOf(w), from \in Companies, to \in Companies :
          \E n \in Amounts(id) :
            CanTransfer(id, n, from) /\ Read(w, PlanTransfer(id, n, to, clock + 1))
    BY <1>5 DEF ReadTransfer
  <2>2. PICK n \in Amounts(id) :
            CanTransfer(id, n, from) /\ Read(w, PlanTransfer(id, n, to, clock + 1))
    BY <2>1
  <2>3. PICK time \in Nat : time = clock + 1
    BY <2>2, ReadFacts
  <2>4. PICK plan : plan = PlanTransfer(id, n, to, time)
    OBVIOUS
  <2>5. plan.stage = "planned"
    BY <2>4 DEF PlanTransfer, Planned
  <2>6. FreshTransfer(w, plan)
    BY <2>2, <2>4 DEF FreshTransfer
  <2> QED
    BY <1>3, <2>2, <2>3, <2>4, <2>5, <2>6
<1>6. CASE ReadAccept(w)
  <2>1. PICK id \in BlockIdsOf(w), r \in RetireIds :
          CanAccept(id, r) /\ Read(w, PlanAccept(id, r, clock + 1))
    BY <1>6 DEF ReadAccept
  <2>2. PICK time \in Nat : time = clock + 1
    BY <2>1, ReadFacts
  <2>3. PICK plan : plan = PlanAccept(id, r, time)
    OBVIOUS
  <2>4. plan.stage = "planned"
    BY <2>3 DEF PlanAccept, Planned
  <2>5. FreshAccept(w, plan)
    BY <2>1, <2>3 DEF FreshAccept
  <2> QED
    BY <1>3, <2>1, <2>2, <2>3, <2>4, <2>5
<1>7. CASE ReadDecline(w)
  <2>1. PICK id \in BlockIdsOf(w), r \in RetireIds, status \in {"REJECTED", "CANCELLED"} :
          CanDecline(id, r) /\ Read(w, PlanDecline(id, r, status))
    BY <1>7 DEF ReadDecline
  <2>2. PICK plan : plan = PlanDecline(id, r, status)
    OBVIOUS
  <2>3. plan.stage = "planned"
    BY <2>2 DEF PlanDecline, Planned
  <2>4. FreshDecline(w, plan)
    BY <2>1, <2>2 DEF FreshDecline
  <2> QED
    BY <1>3, <2>1, <2>2, <2>3, <2>4
<1>8. CASE ReadRequest(w)
  <2>1. PICK id \in BlockIdsOf(w), from \in Companies, r \in RetireIds \ spent :
          \E n \in Amounts(id) :
            /\ CanRequest(id, n, from) /\ Read(w, PlanRequest(id, n, r))
            /\ spent' = spent \cup {r}
    BY <1>8 DEF ReadRequest
  <2>2. PICK n \in Amounts(id) :
            /\ CanRequest(id, n, from) /\ Read(w, PlanRequest(id, n, r))
            /\ spent' = spent \cup {r}
    BY <2>1
  <2>3. ScopeKept(w) /\ rows' = rows /\ \A v \in Workers \ {w} : call'[v] = call[v]
    BY <1>1, <2>2, ReadFacts, MoveFacts
  <2>4. PICK u : u = spent /\ spent' \ {r} = u
    BY <2>2
  <2>5. NotYet(w, r)'
    BY <2>2, <2>3, <2>4 DEF IInv, NotYet
  <2>6. PICK b : b = rows[BlockKey(id)] /\ b = rows'[BlockKey(id)]
    BY <2>3
  <2>7. PICK plan : plan = PlanRequest(id, n, r)
    OBVIOUS
  <2>8. CanRequest(id, n, from)' /\ PlanRequest(id, n, r)' = plan
    BY <2>2, <2>6, <2>7 DEF CanRequest, PlanRequest
  <2>9. id \in BlockIdsOf(w)' /\ n \in Amounts(id)'
    BY <2>3, ScopeBlock
  <2>10. FreshRequest(w, plan)'
    BY <2>5, <2>8, <2>9 DEF FreshRequest
  <2>11. plan.stage = "planned"
    BY <2>7 DEF PlanRequest, Planned
  <2>12. FreshPlan(w, plan)'
    BY <2>10 DEF FreshPlan
  <2> QED
    BY <1>2, <2>2, <2>7, <2>11, <2>12
<1> QED
  BY <1>4, <1>5, <1>6, <1>7, <1>8 DEF Moves, Reread, Commit, Die, Idle

\* The call of the worker that moves is fresh again, or over.
LEMMA MoverFresh ==
    ASSUME IInv, IInv', NEW w \in Workers, Moves(w), FreshCall(w)
    PROVE  FreshCall(w)'
<1>1. CASE Reread(w)
  <2>1. PICK plan : plan = call[w]
    OBVIOUS
  <2>2. /\ plan.stage = "planned" /\ UNCHANGED <<rows, spent>>
        /\ call' = [call EXCEPT ![w] = [stage |-> "merged", revisions |-> Merged(plan)]]
    BY <1>1, <2>1 DEF Reread
  <2>3. ScopeKept(w) /\ \A r : NotYet(w, r) => NotYet(w, r)'
    BY <2>2, NotYetStays DEF ScopeKept
  <2>4. FreshPlan(w, plan)' /\ Merged(plan)' = Merged(plan)
    BY <2>1, <2>2, <2>3, FreshStays, FreshKeys, MergedStays DEF FreshCall
  <2>5. call'[w] = [stage |-> "merged", revisions |-> Merged(plan)]
    BY <2>2 DEF IInv
  <2> QED
    BY <2>4, <2>5 DEF FreshCall
<1>2. CASE Commit(w) \/ Die(w)
  <2>1. call'[w] = Idle
    BY <1>2 DEF Commit, Die, IInv
  <2> QED
    BY <2>1 DEF FreshCall, Idle
<1>3. CASE ~(Reread(w) \/ Commit(w) \/ Die(w))
  <2>1. call[w] = Idle
    BY <1>3 DEF Moves, ReadIssue, ReadTransfer, ReadRequest, ReadAccept, ReadDecline, Read
  <2> QED
    BY <2>1, ReadFresh
<1> QED
  BY <1>1, <1>2, <1>3

\* Every call of a worker is what it would be if it were made now.
Fresh == IInv /\ \A w \in Workers : FreshCall(w)

LEMMA InitFresh == RequestsInit => Fresh
<1> SUFFICES ASSUME RequestsInit PROVE Fresh
  OBVIOUS
<1>1. \A w \in Workers : call[w] = Idle
  BY DEF RequestsInit
<1> QED
  BY <1>1, InitIInv DEF Fresh, FreshCall, Idle

\* Freshness is inductive together with IInv.
LEMMA StepFresh == OwnScope /\ Fresh /\ [RequestsNext]_reqVars => Fresh'
<1> SUFFICES ASSUME OwnScope, Fresh, [RequestsNext]_reqVars PROVE Fresh'
  OBVIOUS
<1>1. IInv /\ IInv'
  BY StepIInv DEF Fresh
<1>2. CASE UNCHANGED reqVars
  <2>1. /\ \A w \in Workers : ScopeKept(w) /\ call'[w] = call[w]
        /\ \A w, r : NotYet(w, r) => NotYet(w, r)'
    BY <1>2 DEF reqVars, ScopeKept, NotYet
  <2> QED
    BY <1>1, <2>1, CallStays DEF Fresh
<1>3. ASSUME NEW v \in Workers, Moves(v) PROVE Fresh'
  <2>1. FreshCall(v)'
    BY <1>1, <1>3, MoverFresh DEF Fresh
  <2>2. ASSUME NEW w \in Workers, w # v PROVE FreshCall(w)'
    BY <1>1, <1>3, <2>2, CallStays, ScopesKept, MoveFacts, NotYetStays DEF Fresh
  <2> QED
    BY <1>1, <2>1, <2>2 DEF Fresh
<1> QED
  BY <1>2, <1>3 DEF RequestsNext, Moves

-----------------------------------------------------------------------------
(* What a commit of a fresh plan writes is one step of CreditLedger *)

\* Every row to update is found, with its where clause.
Finds(updates) ==
    \A k \in DOMAIN updates : k \in DOMAIN rows /\ Matches(updates[k].where, rows[k])

\* A commit writes exactly the rows of its plan.
LEMMA Written ==
    ASSUME NEW updates, NEW inserts, Finds(updates),
           rows' = Over(Merged(Planned(updates, inserts)), rows)
    PROVE  /\ DOMAIN rows' = DOMAIN rows \cup DOMAIN inserts
           /\ \A k \in DOMAIN updates : rows'[k] = Over(updates[k].set, rows[k])
           /\ \A k \in DOMAIN inserts : k \notin DOMAIN updates => rows'[k] = inserts[k]
           /\ \A k \in DOMAIN rows :
                k \notin DOMAIN updates /\ k \notin DOMAIN inserts => rows'[k] = rows[k]
<1> DEFINE merged == [k \in DOMAIN updates |-> Over(updates[k].set, rows[k])]
<1>1. DOMAIN updates = {k \in DOMAIN updates :
                          k \in DOMAIN rows /\ Matches(updates[k].where, rows[k])}
  BY DEF Finds
<1>2. Merged(Planned(updates, inserts)) = Over(merged, inserts)
  BY <1>1 DEF Merged, Planned
<1>3. DOMAIN updates \subseteq DOMAIN rows /\ DOMAIN merged = DOMAIN updates
  BY DEF Finds
<1>4. rows' = Over(Over(merged, inserts), rows)
  BY <1>2
<1> HIDE DEF merged
<1>5. /\ DOMAIN rows' = DOMAIN rows \cup DOMAIN inserts
      /\ \A k \in DOMAIN updates : rows'[k] = merged[k]
      /\ \A k \in DOMAIN inserts : k \notin DOMAIN updates => rows'[k] = inserts[k]
      /\ \A k \in DOMAIN rows :
           k \notin DOMAIN updates /\ k \notin DOMAIN inserts => rows'[k] = rows[k]
  BY <1>3, <1>4 DEF Over
<1> QED
  BY <1>5 DEF merged

\* The block table as CreditLedger sees it.
LEMMA BlocksAre ==
    ASSUME IInv
    PROVE  /\ DOMAIN CreditBlocks = BlockIds
           /\ \A id \in BlockIds : CreditBlocks[id] = rows[BlockKey(id)]
           /\ \A id : id \in BlockIds <=> BlockKey(id) \in DOMAIN rows
  BY BlockIdsAre DEF CreditBlocks, IInv, RowsOK, RevisionsOK

\* What a call about block id writes: set to its row, more to the row of the
\* project, and the blocks inserts.
LEMMA BlockWritten ==
    ASSUME IInv, IInv', NEW id \in BlockIds, NEW set, NEW more, NEW inserts,
           Finds(more),
           \A k \in DOMAIN more : k[1] = "project",
           \A k \in DOMAIN inserts : k[1] = "block" /\ k # BlockKey(id),
           rows' = Over(Merged(Planned(Over(Only(BlockKey(id), Update(set)), more),
                                       inserts)), rows)
    PROVE  /\ DOMAIN CreditBlocks' = BlockIds'
           /\ \A i : i \in BlockIds' <=> i \in BlockIds \/ BlockKey(i) \in DOMAIN inserts
           /\ CreditBlocks'[id] = Over(set, rows[BlockKey(id)])
           /\ \A i : BlockKey(i) \in DOMAIN inserts => CreditBlocks'[i] = inserts[BlockKey(i)]
           /\ \A i \in BlockIds : i # id /\ BlockKey(i) \notin DOMAIN inserts
                                    => CreditBlocks'[i] = CreditBlocks[i]
           /\ AccountCredits' = AccountCredits
           /\ \A k \in DOMAIN more : rows'[k] = Over(more[k].set, rows[k])
           /\ \A k \in DOMAIN rows :
                k[1] = "project" /\ k \notin DOMAIN more => rows'[k] = rows[k]
<1> DEFINE updates == Over(Only(BlockKey(id), Update(set)), more)
<1>1. /\ DOMAIN updates = {BlockKey(id)} \cup DOMAIN more
      /\ updates[BlockKey(id)] = Update(set)
      /\ \A k \in DOMAIN more : updates[k] = more[k]
  BY KeyKinds DEF Over, Only
<1>2. BlockKey(id) \in DOMAIN rows /\ Matches(Update(set).where, rows[BlockKey(id)])
  BY BlocksAre DEF Update, Matches, Always
<1> HIDE DEF updates
<1>3. Finds(updates)
  BY <1>1, <1>2 DEF Finds
<1>4. rows' = Over(Merged(Planned(updates, inserts)), rows)
  BY DEF updates
<1>5. /\ DOMAIN rows' = DOMAIN rows \cup DOMAIN inserts
      /\ \A k \in DOMAIN updates : rows'[k] = Over(updates[k].set, rows[k])
      /\ \A k \in DOMAIN inserts : k \notin DOMAIN updates => rows'[k] = inserts[k]
      /\ \A k \in DOMAIN rows :
           k \notin DOMAIN updates /\ k \notin DOMAIN inserts => rows'[k] = rows[k]
  BY <1>3, <1>4, Written
<1>6. Update(set).set = set
  BY DEF Update
<1>7. AccountCredits' = AccountCredits
  <2>1. ASSUME NEW c
        PROVE  /\ CompanyKey(c) \in DOMAIN rows' <=> CompanyKey(c) \in DOMAIN rows
               /\ CompanyKey(c) \in DOMAIN rows => rows'[CompanyKey(c)] = rows[CompanyKey(c)]
    BY <1>1, <1>5, KeyKinds
  <2> QED
    BY <2>1 DEF AccountCredits
<1>9. \A i : /\ i \in BlockIds' <=> BlockKey(i) \in DOMAIN rows'
             /\ i \in BlockIds' <=> i \in BlockIds \/ BlockKey(i) \in DOMAIN inserts
  <2>1. \A i : i \in BlockIds' <=> BlockKey(i) \in DOMAIN rows'
    <3>1. ASSUME NEW k \in DOMAIN rows', k[1] = "block" PROVE k = BlockKey(k[2])
      BY <3>1 DEF IInv, RowsOK, RevisionsOK, Keys, BlockKey
    <3> QED
      BY <3>1, KeyKinds DEF BlockIds
  <2> QED
    BY <1>5, <2>1, BlocksAre
<1>10. /\ DOMAIN CreditBlocks' = BlockIds'
       /\ \A i \in BlockIds' : CreditBlocks'[i] = rows'[BlockKey(i)]
  BY DEF CreditBlocks
<1>11. /\ CreditBlocks'[id] = Over(set, rows[BlockKey(id)])
       /\ \A i : BlockKey(i) \in DOMAIN inserts => CreditBlocks'[i] = inserts[BlockKey(i)]
       /\ \A i \in BlockIds : i # id /\ BlockKey(i) \notin DOMAIN inserts
                                => CreditBlocks'[i] = CreditBlocks[i]
  <2>1. CreditBlocks'[id] = Over(set, rows[BlockKey(id)])
    BY <1>1, <1>5, <1>6, <1>9, <1>10
  <2>2. ASSUME NEW i, BlockKey(i) \in DOMAIN inserts
        PROVE  CreditBlocks'[i] = inserts[BlockKey(i)]
    BY <1>1, <1>5, <1>9, <1>10, <2>2, KeyKinds
  <2>3. ASSUME NEW i \in BlockIds, i # id, BlockKey(i) \notin DOMAIN inserts
        PROVE  CreditBlocks'[i] = CreditBlocks[i]
    BY <1>1, <1>5, <1>9, <1>10, <2>3, KeyKinds, BlocksAre
  <2> QED
    BY <2>1, <2>2, <2>3
<1>12. /\ \A k \in DOMAIN more : rows'[k] = Over(more[k].set, rows[k])
       /\ \A k \in DOMAIN rows :
                k[1] = "project" /\ k \notin DOMAIN more => rows'[k] = rows[k]
  BY <1>1, <1>5, KeyKinds
<1> QED
  BY <1>7, <1>9, <1>10, <1>11, <1>12

\* A call that writes no project row.
LEMMA ProjectsUntouched ==
    ASSUME IInv, \A p \in Projects : rows'[ProjectKey(p)] = rows[ProjectKey(p)]
    PROVE  ProjectColumns' = ProjectColumns /\ ActivityStates' = ActivityStates
  BY ConstantFacts DEF ProjectColumns, ActivityStates

\* ProjectUpdate is ProjectMoves.
LEMMA ProjectWritten ==
    ASSUME IInv, NEW id \in BlockIds, NEW b, b = rows[BlockKey(id)], NEW n \in Int,
           NEW column \in {"transferred", "retired"}, NEW time \in Nat,
           NEW more, more = ProjectUpdate(b, id, n, column, time),
           \A k \in DOMAIN more : rows'[k] = Over(more[k].set, rows[k]),
           \A k \in DOMAIN rows :
                k[1] = "project" /\ k \notin DOMAIN more => rows'[k] = rows[k]
    PROVE  Ledger!ProjectMoves(id, n, column) /\ ActivityStates' = ActivityStates
<1>1. id[1] \in Projects /\ CreditBlocks[id] = b
  BY BlocksAre, BlockIdType DEF IInv, RowsOK
<1>2. \A p \in Projects : rows[ProjectKey(p)] \in ProjectRows(p) /\ ProjectKey(p) \in DOMAIN rows
  BY RowKinds DEF IInv, RowsOK, RevisionsOK
<1>3. CASE ~b.notTransferred
  <2>1. DOMAIN more = {}
    BY <1>3 DEF ProjectUpdate, NoRows
  <2>2. ProjectColumns' = ProjectColumns /\ ActivityStates' = ActivityStates
    BY <1>2, <2>1, ProjectsUntouched, KeyKinds
  <2> QED
    BY <1>1, <1>3, <2>2 DEF Ledger!ProjectMoves
<1>4. CASE b.notTransferred
  <2>1. PICK p : p = rows[ProjectKey(id[1])]
    OBVIOUS
  <2>2. PICK set : set = Over(Only(column, p[column] + n),
                              [balance |-> p.balance - n, txTime |-> time])
    OBVIOUS
  <2>3. more = Only(ProjectKey(id[1]), Update(set))
    BY <1>4, <2>1, <2>2 DEF ProjectUpdate
  <2>4. DOMAIN more = {ProjectKey(id[1])} /\ more[ProjectKey(id[1])].set = set
    BY <2>3 DEF Only, Update
  <2>5. /\ rows'[ProjectKey(id[1])] = Over(set, p)
        /\ \A q \in Projects : q # id[1] => rows'[ProjectKey(q)] = rows[ProjectKey(q)]
    BY <1>2, <2>1, <2>4, KeyKinds
  <2>6. PICK moved : moved = Over(set, p)
    OBVIOUS
  <2>7. p \in ProjectRows(id[1])
    BY <1>1, <1>2, <2>1
  <2>8. /\ moved.issued = p.issued /\ moved.balance = p.balance - n
        /\ moved[column] = p[column] + n /\ moved.activities = p.activities
        /\ column = "transferred" => moved.retired = p.retired
        /\ column = "retired" => moved.transferred = p.transferred
    BY <2>2, <2>6, <2>7 DEF Over, Only, ProjectRows
  <2>9. ActivityStates' = ActivityStates
    <3>1. \A q \in Projects : rows'[ProjectKey(q)].activities = rows[ProjectKey(q)].activities
      BY <2>1, <2>5, <2>6, <2>8
    <3> QED
      BY <3>1, ConstantFacts DEF ActivityStates
  <2>10. ProjectColumns' = [ProjectColumns EXCEPT ![id[1]].balance = @ - n,
                                                  ![id[1]][column] = @ + n]
    <3>1. PICK was, is : was = ProjectColumns /\ is = ProjectColumns'
      OBVIOUS
    <3>2. was[id[1]] = [issued |-> p.issued, balance |-> p.balance,
                        transferred |-> p.transferred, retired |-> p.retired]
      BY <1>1, <2>1, <3>1 DEF ProjectColumns
    <3>3. is[id[1]] = [issued |-> moved.issued, balance |-> moved.balance,
                       transferred |-> moved.transferred, retired |-> moved.retired]
      BY <1>1, <2>5, <2>6, <3>1 DEF ProjectColumns
    <3>4. \A q \in Projects : q # id[1] => is[q] = was[q]
      BY <2>5, <3>1 DEF ProjectColumns
    <3>5. was = [q \in Projects |-> was[q]] /\ is = [q \in Projects |-> is[q]]
      BY <3>1 DEF ProjectColumns
    <3>6. /\ p.issued \in Nat /\ p.balance \in Int /\ p.transferred \in Int
          /\ p.retired \in Int
      BY <2>7 DEF ProjectRows
    <3>7. CASE column = "transferred"
      <4>1. is[id[1]] = [issued |-> p.issued, balance |-> p.balance - n,
                         transferred |-> p.transferred + n, retired |-> p.retired]
        BY <2>8, <3>3, <3>7
      <4>2. is = [was EXCEPT ![id[1]].balance = @ - n, ![id[1]].transferred = @ + n]
        BY <1>1, <3>2, <3>4, <3>5, <3>6, <4>1
      <4> QED
        BY <3>1, <3>7, <4>2
    <3>8. CASE column = "retired"
      <4>1. is[id[1]] = [issued |-> p.issued, balance |-> p.balance - n,
                         transferred |-> p.transferred, retired |-> p.retired + n]
        BY <2>8, <3>3, <3>8
      <4>2. is = [was EXCEPT ![id[1]].balance = @ - n, ![id[1]].retired = @ + n]
        BY <1>1, <3>2, <3>4, <3>5, <3>6, <4>1
      <4> QED
        BY <3>1, <3>8, <4>2
    <3> QED
      BY <3>7, <3>8
  <2> QED
    BY <1>1, <1>4, <2>9, <2>10 DEF Ledger!ProjectMoves
<1> QED
  BY <1>3, <1>4

\* Writing no column changes no row.
LEMMA OverNothing ==
    ASSUME NEW k, NEW u PROVE Over(Only(k, u), NoRows) = Only(k, u)
  BY DEF Over, Only, NoRows

LEMMA FindsNothing == Finds(NoRows)
  BY DEF Finds, NoRows

\* A call that writes the row of block id and nothing else.
LEMMA OnlyBlockWritten ==
    ASSUME IInv, IInv', NEW id \in BlockIds, NEW set, NEW row,
           row = Over(set, rows[BlockKey(id)]),
           rows' = Over(Merged(Planned(Only(BlockKey(id), Update(set)), NoRows)), rows)
    PROVE  /\ CreditBlocks' = [CreditBlocks EXCEPT ![id] = row]
           /\ UNCHANGED <<ProjectColumns, ActivityStates, AccountCredits>>
<1>1. PICK none : none = NoRows
  OBVIOUS
<1>2. /\ DOMAIN none = {} /\ Finds(none)
      /\ rows' = Over(Merged(Planned(Over(Only(BlockKey(id), Update(set)), none), none)),
                      rows)
  BY <1>1, OverNothing, FindsNothing DEF NoRows
<1>3. /\ DOMAIN CreditBlocks' = BlockIds' /\ BlockIds' = BlockIds
      /\ CreditBlocks'[id] = row
      /\ \A i \in BlockIds : i # id => CreditBlocks'[i] = CreditBlocks[i]
      /\ AccountCredits' = AccountCredits
      /\ \A k \in DOMAIN rows :
           k[1] = "project" /\ k \notin DOMAIN none => rows'[k] = rows[k]
  <2>1. \A k \in DOMAIN none : k[1] = "project" /\ k[1] = "block" /\ k # BlockKey(id)
    BY <1>2
  <2>2. /\ DOMAIN CreditBlocks' = BlockIds'
        /\ \A i : i \in BlockIds' <=> i \in BlockIds \/ BlockKey(i) \in DOMAIN none
        /\ CreditBlocks'[id] = Over(set, rows[BlockKey(id)])
        /\ \A i \in BlockIds : i # id /\ BlockKey(i) \notin DOMAIN none
                                 => CreditBlocks'[i] = CreditBlocks[i]
        /\ AccountCredits' = AccountCredits
        /\ \A k \in DOMAIN rows :
             k[1] = "project" /\ k \notin DOMAIN none => rows'[k] = rows[k]
    BY <1>2, <2>1, BlockWritten
  <2> QED
    BY <1>2, <2>2
<1>4. CreditBlocks' = [CreditBlocks EXCEPT ![id] = row]
  <2>1. CreditBlocks' = [i \in BlockIds' |-> CreditBlocks'[i]]
    BY DEF CreditBlocks
  <2> QED
    BY <1>3, <2>1, BlocksAre
<1>5. ProjectColumns' = ProjectColumns /\ ActivityStates' = ActivityStates
  BY <1>2, <1>3, ProjectsUntouched, KeyKinds DEF IInv, RowsOK
<1> QED
  BY <1>3, <1>4, <1>5

\* addRetireRequest: its commit is the step RequestRetirement.
LEMMA CommitRequest ==
    ASSUME IInv, IInv', NEW w \in Workers, NEW id \in BlockIds, NEW from \in Companies,
           NEW r \in RetireIds, NEW n \in Amounts(id),
           NotYet(w, r), CanRequest(id, n, from),
           rows' = Over(Merged(PlanRequest(id, n, r)), rows)
    PROVE  Ledger!RequestRetirement
<1>1. PICK b : b = rows[BlockKey(id)]
  OBVIOUS
<1>2. CreditBlocks[id] = b /\ id \in DOMAIN CreditBlocks
  BY <1>1, BlocksAre
<1>3. id \in Projects \X (Nat \ {0}) /\ b \in BlockRows(id, spent)
  BY <1>1, BlockIdType DEF IInv, RowsOK
<1>4. PICK recs : recs = [b.records EXCEPT ![r] = [amount |-> n, status |-> "PENDING"]]
  OBVIOUS
<1>5. PICK x, set : x = b.reserved + n /\ set = [reserved |-> x, records |-> recs]
  OBVIOUS
<1>6. PICK row : row = Over(set, b)
  OBVIOUS
<1>7. PlanRequest(id, n, r) = Planned(Only(BlockKey(id), Update(set)), NoRows)
  BY <1>1, <1>4, <1>5 DEF PlanRequest
<1>8. /\ CreditBlocks' = [CreditBlocks EXCEPT ![id] = row]
      /\ UNCHANGED <<ProjectColumns, ActivityStates, AccountCredits>>
  BY <1>1, <1>6, <1>7, OnlyBlockWritten
<1>9. row = BlockRow(b.owner, id, b.last, b.amount, x, b.notTransferred, recs)
  BY <1>3, <1>5, <1>6, BlockRowIs DEF Over, BlockRow
<1>10. CreditBlocks' = [CreditBlocks EXCEPT
                          ![id].reserved = @ + n,
                          ![id].records[r] = [amount |-> n, status |-> "PENDING"]]
  <2>1. PICK was, is : was = CreditBlocks /\ is = CreditBlocks'
    OBVIOUS
  <2>2. is = [was EXCEPT ![id] = row] /\ was[id] = b
    BY <1>2, <1>8, <2>1
  <2>3. PICK c : c = [b EXCEPT !.reserved = x]
    OBVIOUS
  <2>4. c = BlockRow(b.owner, id, b.last, b.amount, x, b.notTransferred, b.records)
    BY <1>3, <2>3, BlockRowIs DEF BlockRow
  <2>5. [c EXCEPT !.records = recs] = row /\ c.records = b.records
    BY <1>9, <2>4 DEF BlockRow
  <2>6. PICK mid : mid = [was EXCEPT ![id].reserved = x]
    OBVIOUS
  <2>7. mid = [was EXCEPT ![id] = c] /\ mid[id] = c
    BY <1>2, <2>1, <2>2, <2>3, <2>6
  <2>8. is = [mid EXCEPT ![id].records = recs]
    BY <1>2, <2>1, <2>2, <2>5, <2>7
  <2>9. is = [mid EXCEPT ![id].records[r] = [amount |-> n, status |-> "PENDING"]]
    BY <1>4, <2>5, <2>7, <2>8
  <2>10. is = [was EXCEPT ![id].reserved = @ + n,
                          ![id].records[r] = [amount |-> n, status |-> "PENDING"]]
    BY <1>5, <2>2, <2>6, <2>9
  <2> QED
    BY <2>1, <2>10
<1>11. CreditBlocks[id].owner = from /\ n <= Ledger!Unreserved(CreditBlocks[id])
  BY <1>1, <1>2 DEF CanRequest
<1>12. Ledger!AddRetireRequest(id, n, from, r)
  BY <1>8, <1>10, <1>11 DEF Ledger!AddRetireRequest
<1>13. Ledger!UnusedRetireId(r)
  <2>1. PICK used : used = spent \ {r}
    OBVIOUS
  <2>2. RevisionsOK(rows, used)
    BY <2>1 DEF NotYet, RowsOK
  <2>3. \A i \in BlockIds : rows[BlockKey(i)].records[r].status = "NONE"
    BY <2>1, <2>2, BlockIdType DEF BlockRows, Reserves
  <2> QED
    BY <2>3, BlocksAre DEF Ledger!UnusedRetireId
<1>14. n \in 1 .. CreditBlocks[id].amount
  BY <1>1, <1>2 DEF Amounts
<1> QED
  BY <1>2, <1>12, <1>13, <1>14 DEF Ledger!RequestRetirement

\* retirementRequestAction, reject or cancel: its commit is the step Decline.
LEMMA CommitDecline ==
    ASSUME IInv, IInv', NEW id \in BlockIds, NEW r \in RetireIds,
           NEW status \in {"REJECTED", "CANCELLED"}, CanDecline(id, r),
           rows' = Over(Merged(PlanDecline(id, r, status)), rows)
    PROVE  Ledger!Decline
<1>1. PICK b : b = rows[BlockKey(id)]
  OBVIOUS
<1>2. CreditBlocks[id] = b /\ id \in DOMAIN CreditBlocks
  BY <1>1, BlocksAre
<1>3. id \in Projects \X (Nat \ {0}) /\ b \in BlockRows(id, spent)
  BY <1>1, BlockIdType DEF IInv, RowsOK
<1>4. PICK recs : recs = Ledger!Decided(b, r, status).records
  OBVIOUS
<1>5. PICK x, set : /\ x = b.reserved - b.records[r].amount
                    /\ set = [reserved |-> x, records |-> recs]
  OBVIOUS
<1>6. PICK row : row = Over(set, b)
  OBVIOUS
<1>7. PlanDecline(id, r, status) = Planned(Only(BlockKey(id), Update(set)), NoRows)
  BY <1>1, <1>4, <1>5 DEF PlanDecline
<1>8. /\ CreditBlocks' = [CreditBlocks EXCEPT ![id] = row]
      /\ UNCHANGED <<ProjectColumns, ActivityStates, AccountCredits>>
  BY <1>1, <1>6, <1>7, OnlyBlockWritten
<1>9. recs = [b.records EXCEPT ![r].status = status]
  BY <1>3, <1>4, BlockRowIs DEF Ledger!Decided
<1>10. row = BlockRow(b.owner, id, b.last, b.amount, x, b.notTransferred, recs)
  BY <1>3, <1>5, <1>6, BlockRowIs DEF Over, BlockRow
<1>11. CreditBlocks' = [CreditBlocks EXCEPT
                          ![id].reserved = @ - CreditBlocks[id].records[r].amount,
                          ![id].records[r].status = status]
  <2>1. PICK was, is : was = CreditBlocks /\ is = CreditBlocks'
    OBVIOUS
  <2>2. is = [was EXCEPT ![id] = row] /\ was[id] = b
    BY <1>2, <1>8, <2>1
  <2>3. PICK c : c = [b EXCEPT !.reserved = x]
    OBVIOUS
  <2>4. c = BlockRow(b.owner, id, b.last, b.amount, x, b.notTransferred, b.records)
    BY <1>3, <2>3, BlockRowIs DEF BlockRow
  <2>5. [c EXCEPT !.records = recs] = row /\ c.records = b.records
    BY <1>10, <2>4 DEF BlockRow
  <2>6. PICK mid : mid = [was EXCEPT ![id].reserved = x]
    OBVIOUS
  <2>7. mid = [was EXCEPT ![id] = c] /\ mid[id] = c
    BY <1>2, <2>1, <2>2, <2>3, <2>6
  <2>8. is = [mid EXCEPT ![id].records = recs]
    BY <1>2, <2>1, <2>2, <2>5, <2>7
  <2>9. is = [mid EXCEPT ![id].records[r].status = status]
    BY <1>9, <2>5, <2>7, <2>8
  <2>10. is = [was EXCEPT ![id].reserved = @ - was[id].records[r].amount,
                          ![id].records[r].status = status]
    BY <1>5, <2>2, <2>6, <2>9
  <2> QED
    BY <2>1, <2>10
<1>12. CreditBlocks[id].records[r].status = "PENDING"
  BY <1>1, <1>2 DEF CanDecline
<1>13. Ledger!DeclineRetirement(id, r, status)
  BY <1>8, <1>11, <1>12 DEF Ledger!DeclineRetirement
<1> QED
  BY <1>2, <1>13 DEF Ledger!Decline

\* The project row a call updates is found.
LEMMA ProjectUpdateFinds ==
    ASSUME IInv, NEW id \in BlockIds, NEW b, NEW n, NEW column, NEW time,
           NEW more, more = ProjectUpdate(b, id, n, column, time)
    PROVE  Finds(more) /\ \A k \in DOMAIN more : k[1] = "project"
<1>1. id[1] \in Projects
  BY BlockIdType DEF IInv, RowsOK
<1>2. ProjectKey(id[1]) \in DOMAIN rows
  BY <1>1 DEF IInv, RowsOK
<1>3. DOMAIN more \subseteq {ProjectKey(id[1])} /\ \A k \in DOMAIN more : more[k].where = Always
  <2>1. CASE b.notTransferred
    <3>1. PICK set : more = Only(ProjectKey(id[1]), Update(set))
      BY <2>1 DEF ProjectUpdate
    <3> QED
      BY <3>1 DEF Only, Update
  <2>2. CASE ~b.notTransferred
    BY <2>2 DEF ProjectUpdate, NoRows
  <2> QED
    BY <2>1, <2>2
<1>4. \A row : Matches(Always, row)
  BY DEF Matches, Always
<1> QED
  BY <1>2, <1>3, <1>4, KeyKinds DEF Finds

\* A call that changes the owner of block id as a whole.
LEMMA WholeMoved ==
    ASSUME IInv, IInv', NEW id \in BlockIds, NEW b, b = rows[BlockKey(id)], NEW n \in Int,
           NEW column \in {"transferred", "retired"}, NEW time \in Nat,
           NEW more, more = ProjectUpdate(b, id, n, column, time),
           NEW set, NEW row, row = Over(set, b),
           rows' = Over(Merged(Planned(Over(Only(BlockKey(id), Update(set)), more),
                                       NoRows)), rows)
    PROVE  /\ CreditBlocks' = [CreditBlocks EXCEPT ![id] = row]
           /\ Ledger!ProjectMoves(id, n, column)
           /\ UNCHANGED <<ActivityStates, AccountCredits>>
<1>1. PICK none : none = NoRows
  OBVIOUS
<1>2. /\ DOMAIN none = {} /\ Finds(more)
      /\ \A k \in DOMAIN more : k[1] = "project"
      /\ \A k \in DOMAIN none : k[1] = "block" /\ k # BlockKey(id)
      /\ rows' = Over(Merged(Planned(Over(Only(BlockKey(id), Update(set)), more), none)),
                      rows)
  BY <1>1, ProjectUpdateFinds DEF NoRows
<1>3. /\ DOMAIN CreditBlocks' = BlockIds'
      /\ \A i : i \in BlockIds' <=> i \in BlockIds \/ BlockKey(i) \in DOMAIN none
      /\ CreditBlocks'[id] = Over(set, rows[BlockKey(id)])
      /\ \A i \in BlockIds : i # id /\ BlockKey(i) \notin DOMAIN none
                               => CreditBlocks'[i] = CreditBlocks[i]
      /\ AccountCredits' = AccountCredits
      /\ \A k \in DOMAIN more : rows'[k] = Over(more[k].set, rows[k])
      /\ \A k \in DOMAIN rows :
           k[1] = "project" /\ k \notin DOMAIN more => rows'[k] = rows[k]
  BY <1>2, BlockWritten
<1>4. CreditBlocks' = [CreditBlocks EXCEPT ![id] = row]
  <2>1. CreditBlocks' = [i \in BlockIds' |-> CreditBlocks'[i]]
    BY DEF CreditBlocks
  <2>2. BlockIds' = BlockIds
    BY <1>2, <1>3
  <2> QED
    BY <1>2, <1>3, <2>1, <2>2, BlocksAre
<1>5. Ledger!ProjectMoves(id, n, column) /\ ActivityStates' = ActivityStates
  BY <1>3, ProjectWritten
<1> QED
  BY <1>3, <1>4, <1>5

\* A call that splits block id.
LEMMA PartMoved ==
    ASSUME IInv, IInv', NEW id \in BlockIds, NEW b, b = rows[BlockKey(id)], NEW n \in Int,
           NEW column \in {"transferred", "retired"}, NEW time \in Nat,
           NEW more, more = ProjectUpdate(b, id, n, column, time),
           NEW set, NEW row, row = Over(set, b),
           NEW cut, NEW cutId, cutId = <<id[1], cut.first>>, cutId # id,
           rows' = Over(Merged(Planned(Over(Only(BlockKey(id), Update(set)), more),
                                       Only(BlockKey(cutId), cut))), rows)
    PROVE  /\ CreditBlocks' = Ledger!Revise(Ledger!Split(id, row, cut))
           /\ Ledger!ProjectMoves(id, n, column)
           /\ UNCHANGED <<ActivityStates, AccountCredits>>
<1>1. PICK new : new = Only(BlockKey(cutId), cut)
  OBVIOUS
<1>2. /\ DOMAIN new = {BlockKey(cutId)} /\ new[BlockKey(cutId)] = cut /\ Finds(more)
      /\ \A k \in DOMAIN more : k[1] = "project"
      /\ \A k \in DOMAIN new : k[1] = "block" /\ k # BlockKey(id)
      /\ rows' = Over(Merged(Planned(Over(Only(BlockKey(id), Update(set)), more), new)),
                      rows)
  BY <1>1, ProjectUpdateFinds, KeyKinds DEF Only
<1>3. /\ DOMAIN CreditBlocks' = BlockIds'
      /\ \A i : i \in BlockIds' <=> i \in BlockIds \/ BlockKey(i) \in DOMAIN new
      /\ CreditBlocks'[id] = Over(set, rows[BlockKey(id)])
      /\ \A i : BlockKey(i) \in DOMAIN new => CreditBlocks'[i] = new[BlockKey(i)]
      /\ \A i \in BlockIds : i # id /\ BlockKey(i) \notin DOMAIN new
                               => CreditBlocks'[i] = CreditBlocks[i]
      /\ AccountCredits' = AccountCredits
      /\ \A k \in DOMAIN more : rows'[k] = Over(more[k].set, rows[k])
      /\ \A k \in DOMAIN rows :
           k[1] = "project" /\ k \notin DOMAIN more => rows'[k] = rows[k]
  BY <1>2, BlockWritten
<1>4. CreditBlocks' = Ledger!Revise(Ledger!Split(id, row, cut))
  <2>1. CreditBlocks' = [i \in BlockIds' |-> CreditBlocks'[i]]
    BY DEF CreditBlocks
  <2>2. \A i : BlockKey(i) \in DOMAIN new <=> i = cutId
    BY <1>2, KeyKinds
  <2>3. BlockIds' = DOMAIN CreditBlocks \cup {id, cutId}
    BY <1>3, <2>2, BlocksAre
  <2>4. /\ CreditBlocks'[id] = row /\ CreditBlocks'[cutId] = cut
        /\ \A i \in DOMAIN CreditBlocks : i # id /\ i # cutId =>
             CreditBlocks'[i] = CreditBlocks[i]
    BY <1>2, <1>3, <2>2, BlocksAre
  <2>5. PICK revs : revs = Ledger!Split(id, row, cut)
    OBVIOUS
  <2>6. DOMAIN revs = {id, cutId} /\ revs[id] = row /\ revs[cutId] = cut
    BY <2>5 DEF Ledger!Split
  <2>7. CreditBlocks' = Ledger!Revise(revs)
    BY <2>1, <2>3, <2>4, <2>6 DEF Ledger!Revise
  <2> QED
    BY <2>5, <2>7
<1>5. Ledger!ProjectMoves(id, n, column) /\ ActivityStates' = ActivityStates
  BY <1>3, ProjectWritten
<1> QED
  BY <1>3, <1>4, <1>5

\* The block cut off gets an id of its own.
LEMMA CutApart ==
    ASSUME NEW id \in Projects \X (Nat \ {0}), NEW used, NEW b \in BlockRows(id, used),
           NEW n \in Nat, Ledger!CanSplit(b, n), NEW owner, NEW recs
    PROVE  <<id[1], Ledger!CutOff(b, n, owner, recs).first>> # id
<1>1. /\ b.first = id[2] /\ id[2] \in Nat /\ b.last \in Nat
  BY BlockRowIs DEF Covers
<1>2. Ledger!CutOff(b, n, owner, recs).first = b.last - n + 1
  BY DEF Ledger!CutOff, Ledger!SecondStart
<1>3. b.last - n + 1 # id[2]
  BY <1>1 DEF Ledger!CanSplit
<1> QED
  BY <1>2, <1>3

\* transferCredits: its commit is the step Transfer.
LEMMA CommitTransfer ==
    ASSUME IInv, IInv', NEW id \in BlockIds, NEW from \in Companies, NEW to \in Companies,
           NEW n \in Amounts(id), NEW time \in Nat, CanTransfer(id, n, from),
           rows' = Over(Merged(PlanTransfer(id, n, to, time)), rows)
    PROVE  Ledger!Transfer
<1>1. PICK b : b = rows[BlockKey(id)]
  OBVIOUS
<1>2. CreditBlocks[id] = b /\ id \in DOMAIN CreditBlocks
  BY <1>1, BlocksAre
<1>3. id \in Projects \X (Nat \ {0}) /\ b \in BlockRows(id, spent)
  BY <1>1, BlockIdType DEF IInv, RowsOK
<1>4. n \in Nat /\ n \in Int /\ n \in 1 .. CreditBlocks[id].amount
  BY <1>1, <1>2, <1>3, AmountIs DEF Amounts
<1>5. PICK whole \in BOOLEAN : whole = (b.reserved = 0 /\ n = Ledger!Unreserved(b))
  OBVIOUS
<1>6. PICK cut : cut = Ledger!CutOff(b, n, to, Ledger!NoRecords)
  OBVIOUS
<1>7. PICK all : all = [b EXCEPT !.owner = to, !.notTransferred = FALSE]
  OBVIOUS
<1>8. PICK more : more = ProjectUpdate(b, id, n, "transferred", time)
  OBVIOUS
<1>9. PICK set : set = IF whole THEN all ELSE Ledger!Kept(b, n)
  OBVIOUS
<1>10. PICK new : new = IF whole THEN NoRows ELSE Only(BlockKey(<<id[1], cut.first>>), cut)
  OBVIOUS
<1>11. PlanTransfer(id, n, to, time)
         = Planned(Over(Only(BlockKey(id), Update(set)), more), new)
  BY <1>1, <1>5, <1>6, <1>7, <1>8, <1>9, <1>10 DEF PlanTransfer
<1>12. b.owner = from /\ n <= Ledger!Unreserved(b) /\ (whole \/ Ledger!CanSplit(b, n))
  BY <1>1, <1>5 DEF CanTransfer
<1>13. PICK column \in {"transferred", "retired"} : column = "transferred"
  OBVIOUS
<1>14. ASSUME NEW x, x = all \/ x = Ledger!Kept(b, n) PROVE Over(x, b) = x
  <2>1. DOMAIN b = DOMAIN x /\ x = [f \in DOMAIN x |-> x[f]]
    BY <1>3, <1>7, <1>14, BlockRowIs DEF Ledger!Kept, BlockRow
  <2> QED
    BY <2>1 DEF Over
<1>15. CASE whole
  <2>1. set = all /\ new = NoRows /\ all = Over(set, b)
    BY <1>9, <1>10, <1>14, <1>15
  <2>2. /\ CreditBlocks' = [CreditBlocks EXCEPT ![id] = all]
        /\ Ledger!ProjectMoves(id, n, column)
        /\ UNCHANGED <<ActivityStates, AccountCredits>>
    BY <1>1, <1>4, <1>8, <1>11, <1>13, <2>1, WholeMoved
  <2>3. CreditBlocks' = [CreditBlocks EXCEPT ![id].owner = to, ![id].notTransferred = FALSE]
    BY <1>2, <1>7, <2>2
  <2>4. Ledger!TransferWhole(id, n, to)
    BY <1>2, <1>5, <1>15, <2>3 DEF Ledger!TransferWhole
  <2>5. Ledger!TransferCredits(id, n, from, to)
    BY <1>2, <1>12, <1>13, <2>2, <2>4 DEF Ledger!TransferCredits
  <2> QED
    BY <1>2, <1>4, <2>5 DEF Ledger!Transfer
<1>16. CASE ~whole
  <2>1. PICK kept, cutId : kept = Ledger!Kept(b, n) /\ cutId = <<id[1], cut.first>>
    OBVIOUS
  <2>2. set = kept /\ new = Only(BlockKey(cutId), cut) /\ kept = Over(set, b)
    BY <1>9, <1>10, <1>14, <1>16, <2>1
  <2>3. cutId # id
    BY <1>3, <1>4, <1>6, <1>12, <1>16, <2>1, CutApart
  <2>4. /\ CreditBlocks' = Ledger!Revise(Ledger!Split(id, kept, cut))
        /\ Ledger!ProjectMoves(id, n, column)
        /\ UNCHANGED <<ActivityStates, AccountCredits>>
    BY <1>1, <1>4, <1>8, <1>11, <1>13, <2>1, <2>2, <2>3, PartMoved
  <2>5. Ledger!TransferPart(id, n, to)
    BY <1>2, <1>5, <1>6, <1>12, <1>16, <2>1, <2>4 DEF Ledger!TransferPart
  <2>6. Ledger!TransferCredits(id, n, from, to)
    BY <1>2, <1>12, <1>13, <2>4, <2>5 DEF Ledger!TransferCredits
  <2> QED
    BY <1>2, <1>4, <2>6 DEF Ledger!Transfer
<1> QED
  BY <1>15, <1>16

\* retirementRequestAction, accept: its commit is the step Accept.
LEMMA CommitAccept ==
    ASSUME IInv, IInv', NEW id \in BlockIds, NEW r \in RetireIds, NEW time \in Nat,
           CanAccept(id, r), rows' = Over(Merged(PlanAccept(id, r, time)), rows)
    PROVE  Ledger!Accept
<1>1. PICK b : b = rows[BlockKey(id)]
  OBVIOUS
<1>2. CreditBlocks[id] = b /\ id \in DOMAIN CreditBlocks
  BY <1>1, BlocksAre
<1>3. id \in Projects \X (Nat \ {0}) /\ b \in BlockRows(id, spent)
  BY <1>1, BlockIdType DEF IInv, RowsOK
<1>4. PICK n, done : n = b.records[r].amount /\ done = Ledger!Decided(b, r, "COMPLETED")
  OBVIOUS
<1>5. b.records[r].status = "PENDING" /\ n \in Nat /\ n \in Int
  <2>1. b.records \in [RetireIds -> [amount : Nat, status : Ledger!Status]]
    BY <1>3, BlockRowIs DEF Reserves
  <2> QED
    BY <1>1, <1>4, <2>1 DEF CanAccept
<1>6. PICK whole : whole = Ledger!WholeBlockRequested(b, r)
  OBVIOUS
<1>7. whole \in BOOLEAN /\ (whole \/ Ledger!CanSplit(b, n))
  BY <1>1, <1>4, <1>6 DEF CanAccept, Ledger!WholeBlockRequested
<1>8. PICK cut : cut = Ledger!CutOff(b, n, NoCompany,
                                     [Ledger!NoRecords EXCEPT ![r] = done.records[r]])
  OBVIOUS
<1>9. PICK recs, gone : /\ recs = done.records
                        /\ gone = [owner |-> NoCompany, notTransferred |-> FALSE,
                                   reserved |-> 0, records |-> recs]
  OBVIOUS
<1>10. PICK more : more = ProjectUpdate(b, id, n, "retired", time)
  OBVIOUS
<1>11. PICK set : set = IF whole THEN gone ELSE KeptFields(b, r, n)
  OBVIOUS
<1>12. PICK new : new = IF whole THEN NoRows ELSE Only(BlockKey(<<id[1], cut.first>>), cut)
  OBVIOUS
<1>13. PlanAccept(id, r, time) = Planned(Over(Only(BlockKey(id), Update(set)), more), new)
  BY <1>1, <1>4, <1>6, <1>8, <1>9, <1>10, <1>11, <1>12 DEF PlanAccept
<1>14. PICK column \in {"transferred", "retired"} : column = "retired"
  OBVIOUS
<1>15. /\ recs = [b.records EXCEPT ![r].status = "COMPLETED"]
       /\ done = BlockRow(b.owner, id, b.last, b.amount, b.reserved, b.notTransferred, recs)
  BY <1>3, <1>4, <1>9, BlockRowIs DEF Ledger!Decided, BlockRow
<1>16. CASE whole
  <2>1. PICK zero \in Nat, no \in BOOLEAN : zero = 0 /\ no = FALSE
    OBVIOUS
  <2>2. PICK row : row = Over(set, b)
    OBVIOUS
  <2>3. new = NoRows
    BY <1>12, <1>16
  <2>4. row = BlockRow(NoCompany, id, b.last, b.amount, zero, no, recs)
    <3>1. set = [owner |-> NoCompany, notTransferred |-> no, reserved |-> zero,
                 records |-> recs]
      BY <1>9, <1>11, <1>16, <2>1
    <3> QED
      BY <1>3, <2>2, <3>1, BlockRowIs DEF Over, BlockRow
  <2>5. /\ CreditBlocks' = [CreditBlocks EXCEPT ![id] = row]
        /\ Ledger!ProjectMoves(id, n, column)
        /\ UNCHANGED <<ActivityStates, AccountCredits>>
    BY <1>1, <1>5, <1>10, <1>13, <1>14, <2>2, <2>3, WholeMoved
  <2>6. CreditBlocks' = [CreditBlocks EXCEPT ![id].owner = NoCompany,
                                             ![id].notTransferred = FALSE,
                                             ![id].reserved = 0,
                                             ![id].records[r].status = "COMPLETED"]
    <3>1. PICK was, is : was = CreditBlocks /\ is = CreditBlocks'
      OBVIOUS
    <3>2. is = [was EXCEPT ![id] = row] /\ was[id] = b
      BY <1>2, <2>5, <3>1
    <3>3. PICK c : c = [b EXCEPT !.owner = NoCompany, !.notTransferred = no, !.reserved = zero]
      OBVIOUS
    <3>4. c = BlockRow(NoCompany, id, b.last, b.amount, zero, no, b.records)
      <4>1. b = BlockRow(b.owner, id, b.last, b.amount, b.reserved, b.notTransferred,
                         b.records)
        BY <1>3, BlockRowIs
      <4>2. PICK c1 : c1 = [b EXCEPT !.owner = NoCompany]
        OBVIOUS
      <4>3. PICK c2 : c2 = [c1 EXCEPT !.notTransferred = no]
        OBVIOUS
      <4>4. c1 = BlockRow(NoCompany, id, b.last, b.amount, b.reserved, b.notTransferred,
                          b.records)
        BY <4>1, <4>2 DEF BlockRow
      <4>5. c2 = BlockRow(NoCompany, id, b.last, b.amount, b.reserved, no, b.records)
        BY <4>3, <4>4 DEF BlockRow
      <4>6. [c2 EXCEPT !.reserved = zero]
              = BlockRow(NoCompany, id, b.last, b.amount, zero, no, b.records)
        BY <4>5 DEF BlockRow
      <4> QED
        BY <3>3, <4>2, <4>3, <4>6
    <3>5. [c EXCEPT !.records = recs] = row /\ c.records = b.records
      BY <2>4, <3>4 DEF BlockRow
    <3>6. PICK mid : mid = [was EXCEPT ![id].owner = NoCompany, ![id].notTransferred = no,
                                       ![id].reserved = zero]
      OBVIOUS
    <3>7. mid = [was EXCEPT ![id] = c] /\ mid[id] = c
      BY <1>2, <3>1, <3>2, <3>3, <3>6
    <3>8. is = [mid EXCEPT ![id].records = recs]
      BY <1>2, <3>1, <3>2, <3>5, <3>7
    <3>9. is = [mid EXCEPT ![id].records[r].status = "COMPLETED"]
      BY <1>15, <3>5, <3>7, <3>8
    <3>10. is = [was EXCEPT ![id].owner = NoCompany, ![id].notTransferred = FALSE,
                            ![id].reserved = 0, ![id].records[r].status = "COMPLETED"]
      BY <2>1, <3>6, <3>9
    <3> QED
      BY <3>1, <3>10
  <2>7. Ledger!AcceptWhole(id, r)
    BY <1>2, <1>6, <1>16, <2>6 DEF Ledger!AcceptWhole
  <2>8. Ledger!AcceptRetirement(id, r)
    BY <1>2, <1>4, <1>5, <1>14, <2>5, <2>7 DEF Ledger!AcceptRetirement
  <2> QED
    BY <1>2, <2>8 DEF Ledger!Accept
<1>17. CASE ~whole
  <2>1. PICK kept, cutId : kept = Over(set, b) /\ cutId = <<id[1], cut.first>>
    OBVIOUS
  <2>2. set = KeptFields(b, r, n) /\ new = Only(BlockKey(cutId), cut)
    BY <1>11, <1>12, <1>17, <2>1
  <2>3. cutId # id
    BY <1>3, <1>5, <1>7, <1>8, <1>17, <2>1, CutApart
  <2>4. /\ CreditBlocks' = Ledger!Revise(Ledger!Split(id, kept, cut))
        /\ Ledger!ProjectMoves(id, n, column)
        /\ UNCHANGED <<ActivityStates, AccountCredits>>
    BY <1>1, <1>5, <1>10, <1>13, <1>14, <2>1, <2>2, <2>3, PartMoved
  <2>5. kept = [Ledger!Kept(done, n) EXCEPT !.reserved = @ - n]
    <3>1. PICK last, amount, left : /\ last = b.last - n /\ amount = b.amount - n
                                    /\ left = b.reserved - n
      OBVIOUS
    <3>2. set = [last |-> last, amount |-> amount, reserved |-> left, records |-> recs]
      <4>1. Ledger!Kept(b, n).last = last /\ Ledger!Kept(b, n).amount = amount
        BY <1>3, <3>1, BlockRowIs DEF Ledger!Kept, BlockRow
      <4> QED
        BY <1>4, <1>9, <2>2, <3>1, <4>1 DEF KeptFields
    <3>3. kept = BlockRow(b.owner, id, last, amount, left, b.notTransferred, recs)
      BY <1>3, <2>1, <3>2, BlockRowIs DEF Over, BlockRow
    <3>4. PICK d : d = Ledger!Kept(done, n)
      OBVIOUS
    <3>5. d = BlockRow(b.owner, id, last, amount, b.reserved, b.notTransferred, recs)
      BY <1>15, <3>1, <3>4 DEF Ledger!Kept, BlockRow
    <3>6. kept = [d EXCEPT !.reserved = left] /\ d.reserved = b.reserved
      BY <3>3, <3>5 DEF BlockRow
    <3> QED
      BY <3>1, <3>4, <3>6
  <2>6. Ledger!AcceptPart(id, r)
    BY <1>2, <1>4, <1>6, <1>7, <1>8, <1>17, <2>4, <2>5 DEF Ledger!AcceptPart
  <2>7. Ledger!AcceptRetirement(id, r)
    BY <1>2, <1>4, <1>5, <1>14, <2>4, <2>6 DEF Ledger!AcceptRetirement
  <2> QED
    BY <1>2, <2>7 DEF Ledger!Accept
<1> QED
  BY <1>7, <1>16, <1>17

\* issueCredits: its commit is the step Issue.
LEMMA CommitIssue ==
    ASSUME IInv, IInv', NEW a \in Activities, NEW batch \in Batches, NEW time \in Nat,
           CanIssue(a, batch), rows' = Over(Merged(PlanIssue(a, batch, time)), rows)
    PROVE  Ledger!Issue
<1>1. PICK pid, n : pid = ActivityProject[a] /\ n = Ledger!BatchTotal(batch)
  OBVIOUS
<1>2. PICK pk, acc : pk = ProjectKey(pid) /\ acc = CompanyKey(Developer[pid])
  OBVIOUS
<1>3. PICK p : p = rows[pk]
  OBVIOUS
<1>4. /\ pid \in Projects /\ Developer[pid] \in Companies /\ n \in Nat /\ n > 0
      /\ pk \in DOMAIN rows /\ p \in ProjectRows(pid) /\ a \in ActivitiesOf(pid)
      /\ p.issued \in Nat /\ p.balance \in Int /\ p.transferred \in Int /\ p.retired \in Int
  <2>1. pid \in Projects /\ Developer[pid] \in Companies /\ n \in Nat \ {0}
    BY <1>1, ConstantFacts, BatchFacts
  <2>2. pk \in DOMAIN rows /\ p \in ProjectRows(pid)
    BY <1>2, <1>3, <2>1, RowKinds DEF IInv, RowsOK, RevisionsOK
  <2>3. a \in ActivitiesOf(pid)
    BY <1>1 DEF ActivitiesOf
  <2> QED
    BY <2>1, <2>2, <2>3 DEF ProjectRows
<1>5. PICK acts, i, x : /\ acts = [p.activities EXCEPT ![a] = "VERIFICATION_REPORT_VERIFIED"]
                        /\ i = p.issued + n /\ x = p.balance + n
  OBVIOUS
<1>6. PICK set : set = [issued |-> i, balance |-> x, txTime |-> time, activities |-> acts]
  OBVIOUS
<1>7. PICK u : u = [where |-> [txTime |-> p.txTime], set |-> set]
  OBVIOUS
<1>8. PICK g : g = IF acc \in DOMAIN rows
                   THEN Only(acc, Update([credit |-> rows[acc].credit + n])) ELSE NoRows
  OBVIOUS
<1>9. PICK h : h = IF acc \in DOMAIN rows THEN NoRows ELSE Only(acc, [credit |-> n])
  OBVIOUS
<1>10. PICK new : new = Ledger!NewBlocks(pid, p.issued, batch)
  OBVIOUS
<1>11. PICK newRows : newRows = [k \in {BlockKey(id) : id \in DOMAIN new} |-> new[k[2]]]
  OBVIOUS
<1>12. PICK updates, inserts : /\ updates = Over(Only(pk, u), g)
                               /\ inserts = Over(newRows, h)
  OBVIOUS
<1>13. PlanIssue(a, batch, time) = Planned(updates, inserts)
  BY <1>1, <1>2, <1>3, <1>5, <1>6, <1>7, <1>8, <1>9, <1>10, <1>11, <1>12 DEF PlanIssue
<1>14. /\ DOMAIN g = IF acc \in DOMAIN rows THEN {acc} ELSE {}
       /\ DOMAIN h = IF acc \in DOMAIN rows THEN {} ELSE {acc}
       /\ acc \in DOMAIN rows => g[acc] = Update([credit |-> rows[acc].credit + n])
       /\ acc \notin DOMAIN rows => h[acc] = [credit |-> n]
  BY <1>8, <1>9 DEF Only, NoRows
<1>15. /\ DOMAIN updates = {pk} \cup DOMAIN g /\ updates[pk] = u
       /\ acc # pk /\ acc[1] = "company" /\ pk[1] = "project"
       /\ acc \in DOMAIN rows => updates[acc] = g[acc]
  <2>1. acc # pk /\ acc[1] = "company" /\ pk[1] = "project"
    BY <1>2, KeyKinds
  <2> QED
    BY <1>12, <1>14, <2>1 DEF Over, Only
<1>16. /\ \A k \in DOMAIN newRows : k[1] = "block"
       /\ \A id : BlockKey(id) \in DOMAIN newRows <=> id \in DOMAIN new
       /\ \A id \in DOMAIN new : newRows[BlockKey(id)] = new[id]
  BY <1>11, KeyKinds
<1>17. /\ DOMAIN inserts = DOMAIN newRows \cup DOMAIN h
       /\ \A k \in DOMAIN newRows : inserts[k] = newRows[k]
       /\ acc \notin DOMAIN rows => inserts[acc] = [credit |-> n]
  BY <1>12, <1>14, <1>15, <1>16 DEF Over
<1>18. Finds(updates)
  <2>1. Matches(u.where, rows[pk])
    BY <1>3, <1>7 DEF Matches
  <2>2. acc \in DOMAIN rows => Matches(g[acc].where, rows[acc])
    BY <1>14 DEF Matches, Update, Always
  <2> QED
    BY <1>4, <1>14, <1>15, <2>1, <2>2 DEF Finds
<1>19. /\ DOMAIN rows' = DOMAIN rows \cup DOMAIN inserts
       /\ \A k \in DOMAIN updates : rows'[k] = Over(updates[k].set, rows[k])
       /\ \A k \in DOMAIN inserts : k \notin DOMAIN updates => rows'[k] = inserts[k]
       /\ \A k \in DOMAIN rows :
            k \notin DOMAIN updates /\ k \notin DOMAIN inserts => rows'[k] = rows[k]
  BY <1>13, <1>18, Written
<1>20. PICK q : q = Over(set, p)
  OBVIOUS
<1>21. /\ q.issued = i /\ q.balance = x /\ q.activities = acts
       /\ q.transferred = p.transferred /\ q.retired = p.retired
  BY <1>4, <1>6, <1>20 DEF Over, ProjectRows
<1>22. /\ rows'[pk] = q
       /\ \A r \in Projects : r # pid => rows'[ProjectKey(r)] = rows[ProjectKey(r)]
  <2>1. rows'[pk] = q
    BY <1>3, <1>7, <1>15, <1>19, <1>20
  <2>2. ASSUME NEW r \in Projects, r # pid PROVE rows'[ProjectKey(r)] = rows[ProjectKey(r)]
    <3>1. ProjectKey(r) \in DOMAIN rows /\ ProjectKey(r) # pk /\ ProjectKey(r)[1] = "project"
      BY <1>2, <2>2, KeyKinds DEF IInv, RowsOK
    <3>2. ProjectKey(r) \notin DOMAIN updates /\ ProjectKey(r) \notin DOMAIN inserts
      BY <1>14, <1>15, <1>16, <1>17, <3>1
    <3> QED
      BY <1>19, <3>1, <3>2
  <2> QED
    BY <2>1, <2>2
<1>23. ProjectColumns' = [ProjectColumns EXCEPT ![pid].issued = @ + n, ![pid].balance = @ + n]
  <2>1. PICK was, is : was = ProjectColumns /\ is = ProjectColumns'
    OBVIOUS
  <2>2. was[pid] = [issued |-> p.issued, balance |-> p.balance,
                    transferred |-> p.transferred, retired |-> p.retired]
    BY <1>2, <1>3, <1>4, <2>1 DEF ProjectColumns
  <2>3. is[pid] = [issued |-> p.issued + n, balance |-> p.balance + n,
                   transferred |-> p.transferred, retired |-> p.retired]
    <3>1. is[pid] = [issued |-> q.issued, balance |-> q.balance,
                     transferred |-> q.transferred, retired |-> q.retired]
      BY <1>2, <1>4, <1>22, <2>1 DEF ProjectColumns
    <3> QED
      BY <1>5, <1>21, <3>1
  <2>4. \A r \in Projects : r # pid => is[r] = was[r]
    BY <1>22, <2>1 DEF ProjectColumns
  <2>5. was = [r \in Projects |-> was[r]] /\ is = [r \in Projects |-> is[r]]
    BY <2>1 DEF ProjectColumns
  <2>6. PICK mid : mid = [was EXCEPT ![pid].issued = @ + n]
    OBVIOUS
  <2>7. /\ mid = [r \in Projects |-> mid[r]]
        /\ \A r \in Projects : r # pid => mid[r] = was[r]
        /\ mid[pid] = [issued |-> p.issued + n, balance |-> p.balance,
                       transferred |-> p.transferred, retired |-> p.retired]
    BY <1>4, <2>2, <2>5, <2>6
  <2>8. is = [mid EXCEPT ![pid].balance = p.balance + n]
    BY <1>4, <2>3, <2>4, <2>5, <2>7
  <2>9. is = [was EXCEPT ![pid].issued = @ + n, ![pid].balance = @ + n]
    BY <2>2, <2>6, <2>8
  <2> QED
    BY <2>1, <2>9
<1>24. ActivityStates' = [ActivityStates EXCEPT ![a] = "VERIFICATION_REPORT_VERIFIED"]
  <2>1. PICK was, is : was = ActivityStates /\ is = ActivityStates'
    OBVIOUS
  <2>2. was = [r \in Activities |-> was[r]] /\ is = [r \in Activities |-> is[r]]
    BY <2>1 DEF ActivityStates
  <2>3. is[a] = acts[a]
    BY <1>1, <1>2, <1>21, <1>22, <2>1 DEF ActivityStates
  <2>4. acts[a] = "VERIFICATION_REPORT_VERIFIED"
        /\ \A r \in ActivitiesOf(pid) : r # a => acts[r] = p.activities[r]
    BY <1>4, <1>5 DEF ProjectRows
  <2>5. ASSUME NEW r \in Activities, r # a PROVE is[r] = was[r]
    <3>1. is[r] = rows'[ProjectKey(ActivityProject[r])].activities[r]
          /\ was[r] = rows[ProjectKey(ActivityProject[r])].activities[r]
      BY <2>1 DEF ActivityStates
    <3>2. CASE ActivityProject[r] = pid
      <4>1. r \in ActivitiesOf(pid)
        BY <3>2 DEF ActivitiesOf
      <4> QED
        BY <1>2, <1>3, <1>21, <1>22, <2>4, <2>5, <3>1, <3>2, <4>1
    <3>3. CASE ActivityProject[r] # pid
      BY <1>22, <3>1, <3>3, ConstantFacts
    <3> QED
      BY <3>2, <3>3
  <2>6. is = [was EXCEPT ![a] = "VERIFICATION_REPORT_VERIFIED"]
    BY <2>2, <2>3, <2>4, <2>5
  <2> QED
    BY <2>1, <2>6
<1>25. AccountCredits' = [AccountCredits EXCEPT ![Developer[pid]] = @ + n]
  <2>1. PICK was, is, c : was = AccountCredits /\ is = AccountCredits' /\ c = Developer[pid]
    OBVIOUS
  <2>2. was = [d \in Companies |-> was[d]] /\ is = [d \in Companies |-> is[d]]
    BY <2>1 DEF AccountCredits
  <2>3. ASSUME NEW d \in Companies, d # c PROVE is[d] = was[d]
    <3>1. CompanyKey(d) # acc /\ CompanyKey(d)[1] = "company"
      BY <1>2, <2>1, <2>3, KeyKinds
    <3>2. CompanyKey(d) \notin DOMAIN updates /\ CompanyKey(d) \notin DOMAIN inserts
      BY <1>14, <1>15, <1>16, <1>17, <3>1
    <3>3. /\ CompanyKey(d) \in DOMAIN rows' <=> CompanyKey(d) \in DOMAIN rows
          /\ CompanyKey(d) \in DOMAIN rows => rows'[CompanyKey(d)] = rows[CompanyKey(d)]
      BY <1>19, <3>2
    <3> QED
      BY <2>1, <3>3 DEF AccountCredits
  <2>4. is[c] = was[c] + n
    <3>1. acc \in DOMAIN rows'
      BY <1>14, <1>17, <1>19
    <3>2. is[c] = rows'[acc].credit
      BY <1>2, <1>4, <2>1, <3>1 DEF AccountCredits
    <3>3. CASE acc \in DOMAIN rows
      <4>1. was[c] = rows[acc].credit
        BY <1>2, <1>4, <2>1, <3>3 DEF AccountCredits
      <4>2. rows'[acc] = Over([credit |-> rows[acc].credit + n], rows[acc])
        BY <1>14, <1>15, <1>19, <3>3 DEF Update
      <4>3. rows'[acc].credit = rows[acc].credit + n
        BY <4>2 DEF Over
      <4> QED
        BY <3>2, <4>1, <4>3
    <3>4. CASE acc \notin DOMAIN rows
      <4>1. was[c] = 0
        BY <1>2, <1>4, <2>1, <3>4 DEF AccountCredits
      <4>2. rows'[acc] = [credit |-> n]
        BY <1>14, <1>15, <1>17, <1>19, <3>4
      <4> QED
        BY <1>4, <3>2, <4>1, <4>2
    <3> QED
      BY <3>3, <3>4
  <2>5. is = [was EXCEPT ![c] = @ + n]
    BY <2>2, <2>3, <2>4
  <2> QED
    BY <2>1, <2>5
<1>26. CreditBlocks' = Ledger!Revise(new)
  <2>1. \A id : id \in BlockIds' <=> BlockKey(id) \in DOMAIN rows'
    <3>1. ASSUME NEW k \in DOMAIN rows', k[1] = "block" PROVE k = BlockKey(k[2])
      BY <3>1 DEF IInv, RowsOK, RevisionsOK, Keys, BlockKey
    <3> QED
      BY <3>1, KeyKinds DEF BlockIds
  <2>2. \A id : /\ BlockKey(id) \notin DOMAIN updates
                /\ BlockKey(id) \in DOMAIN inserts <=> id \in DOMAIN new
    BY <1>14, <1>15, <1>16, <1>17, KeyKinds
  <2>3. BlockIds' = DOMAIN CreditBlocks \cup DOMAIN new
    BY <1>19, <2>1, <2>2, BlocksAre
  <2>4. \A id \in DOMAIN new : rows'[BlockKey(id)] = new[id]
    BY <1>16, <1>17, <1>19, <2>2
  <2>5. \A id \in DOMAIN CreditBlocks : id \notin DOMAIN new =>
          rows'[BlockKey(id)] = CreditBlocks[id]
    BY <1>19, <2>2, BlocksAre
  <2>6. CreditBlocks' = [id \in BlockIds' |-> rows'[BlockKey(id)]]
    BY DEF CreditBlocks
  <2> QED
    BY <2>3, <2>4, <2>5, <2>6 DEF Ledger!Revise
<1>27. /\ ActivityStates[a] = "MONITORING_REPORT_VERIFIED"
       /\ n <= CreditEst[pid] - ProjectColumns[pid].issued
       /\ ProjectColumns[pid].issued = p.issued
  <2>1. /\ p.activities[a] = "MONITORING_REPORT_VERIFIED" /\ n <= CreditEst[pid] - p.issued
    BY <1>1, <1>2, <1>3 DEF CanIssue
  <2>2. ActivityStates[a] = p.activities[a] /\ ProjectColumns[pid].issued = p.issued
    BY <1>1, <1>2, <1>3, <1>4 DEF ActivityStates, ProjectColumns
  <2> QED
    BY <2>1, <2>2
<1>28. Ledger!IssueCredits(a, batch)
  BY <1>1, <1>10, <1>23, <1>24, <1>25, <1>26, <1>27 DEF Ledger!IssueCredits, Ledger!Credited
<1> QED
  BY <1>28 DEF Ledger!Issue

\* The first rows are the first state of CreditLedger.
LEMMA RefinesInit == RequestsInit => Ledger!Init
<1> SUFFICES ASSUME RequestsInit PROVE Ledger!Init
  OBVIOUS
<1>1. /\ DOMAIN rows = {ProjectKey(p) : p \in Projects}
      /\ \A p \in Projects : rows[ProjectKey(p)] = NewProject(p)
  BY KeyKinds DEF RequestsInit
<1>7. \A p \in Projects :
        /\ rows[ProjectKey(p)].issued = 0 /\ rows[ProjectKey(p)].balance = 0
        /\ rows[ProjectKey(p)].transferred = 0 /\ rows[ProjectKey(p)].retired = 0
        /\ rows[ProjectKey(p)].activities
             = [a \in ActivitiesOf(p) |-> "MONITORING_REPORT_VERIFIED"]
  <2> SUFFICES ASSUME NEW p \in Projects
               PROVE  LET row == NewProject(p)
                      IN  /\ row.issued = 0 /\ row.balance = 0
                          /\ row.transferred = 0 /\ row.retired = 0
                          /\ row.activities
                               = [a \in ActivitiesOf(p) |-> "MONITORING_REPORT_VERIFIED"]
    BY <1>1
  <2>1. PICK zero, acts :
          zero = 0 /\ acts = [a \in ActivitiesOf(p) |-> "MONITORING_REPORT_VERIFIED"]
    OBVIOUS
  <2>2. NewProject(p) = [issued |-> zero, balance |-> zero, transferred |-> zero,
                         retired |-> zero, txTime |-> zero, activities |-> acts]
    BY <2>1 DEF NewProject
  <2> QED
    BY <2>1, <2>2
<1>2. ProjectColumns = [p \in Projects |->
         [issued |-> 0, balance |-> 0, transferred |-> 0, retired |-> 0]]
  <2>1. PICK zero : zero = 0
    OBVIOUS
  <2>2. ProjectColumns = [p \in Projects |->
          [issued |-> zero, balance |-> zero, transferred |-> zero, retired |-> zero]]
    BY <1>7, <2>1 DEF ProjectColumns
  <2> QED
    BY <2>1, <2>2
<1>3. ActivityStates = [a \in Activities |-> "MONITORING_REPORT_VERIFIED"]
  <2>1. ASSUME NEW a \in Activities
        PROVE  rows[ProjectKey(ActivityProject[a])].activities[a]
                 = "MONITORING_REPORT_VERIFIED"
    <3>1. ActivityProject[a] \in Projects /\ a \in ActivitiesOf(ActivityProject[a])
      BY ConstantFacts DEF ActivitiesOf
    <3> QED
      BY <1>7, <3>1
  <2> QED
    BY <2>1 DEF ActivityStates
<1>4. AccountCredits = [c \in Companies |-> 0]
  BY <1>1, KeyKinds DEF AccountCredits
<1>5. BlockIds = {}
  BY <1>1, KeyKinds DEF BlockIds
<1>6. CreditBlocks = [id \in {} |-> {}]
  BY <1>5 DEF CreditBlocks
<1> QED
  BY <1>2, <1>3, <1>4, <1>6 DEF Ledger!Init

\* A step of CreditRequests is a step of CreditLedger when it commits, and
\* changes no row otherwise.
LEMMA RefinesStep ==
    Fresh /\ Fresh' /\ [RequestsNext]_reqVars => [Ledger!Next]_(Ledger!vars)
<1> SUFFICES ASSUME Fresh, Fresh', [RequestsNext]_reqVars
             PROVE  [Ledger!Next]_(Ledger!vars)
  OBVIOUS
<1>1. IInv /\ IInv' /\ \A w \in Workers : FreshCall(w)
  BY DEF Fresh
<1>2. ASSUME rows' = rows PROVE UNCHANGED Ledger!vars
  BY <1>2 DEF Ledger!vars, ProjectColumns, ActivityStates, AccountCredits, CreditBlocks,
     BlockIds
<1>3. CASE UNCHANGED reqVars
  BY <1>2, <1>3 DEF reqVars
<1>4. ASSUME NEW w \in Workers, Moves(w), ~Commit(w) PROVE UNCHANGED Ledger!vars
  BY <1>2, <1>4 DEF Moves, ReadIssue, ReadTransfer, ReadRequest, ReadAccept, ReadDecline,
     Read, Reread, Die
<1>5. ASSUME NEW w \in Workers, Commit(w) PROVE Ledger!Next
  <2>1. PICK plan : FreshPlan(w, plan) /\ rows' = Over(Merged(plan), rows)
    BY <1>1, <1>5 DEF Commit, FreshCall
  <2>2. CASE FreshIssue(w, plan)
    BY <1>1, <2>1, <2>2, CommitIssue DEF FreshIssue, Ledger!Next
  <2>3. CASE FreshTransfer(w, plan)
    BY <1>1, <2>1, <2>3, CommitTransfer DEF FreshTransfer, BlockIdsOf, Ledger!Next
  <2>4. CASE FreshRequest(w, plan)
    BY <1>1, <2>1, <2>4, CommitRequest DEF FreshRequest, BlockIdsOf, Ledger!Next
  <2>5. CASE FreshAccept(w, plan)
    BY <1>1, <2>1, <2>5, CommitAccept DEF FreshAccept, BlockIdsOf, Ledger!Next
  <2>6. CASE FreshDecline(w, plan)
    BY <1>1, <2>1, <2>6, CommitDecline DEF FreshDecline, BlockIdsOf, Ledger!Next
  <2> QED
    BY <2>1, <2>2, <2>3, <2>4, <2>5, <2>6 DEF FreshPlan
<1> QED
  BY <1>3, <1>4, <1>5 DEF RequestsNext, Moves

\* No call is stale when calls do not overlap on the projects of a developer:
\* what waits to be written is what the call would write if it read the rows
\* now, wherever the processes of other calls are and wherever one has died.
THEOREM CallsStayFresh == OwnScope => (RequestsSpec => []Fresh)
<1> SUFFICES ASSUME OwnScope PROVE RequestsSpec => []Fresh
  OBVIOUS
<1>1. Fresh /\ [RequestsNext]_reqVars => Fresh'
  BY StepFresh
<1> QED
  BY <1>1, InitFresh, PTL DEF RequestsSpec

\* The three transactions of a call have the effect of one step of CreditLedger
\* when calls do not overlap on the projects of a developer.
THEOREM RefinesLedger == OwnScope => (RequestsSpec => ImplementsLedger)
<1> SUFFICES ASSUME OwnScope PROVE RequestsSpec => ImplementsLedger
  OBVIOUS
<1>1. RequestsSpec => []Fresh
  BY CallsStayFresh
<1> QED
  BY <1>1, RefinesInit, RefinesStep, PTL DEF RequestsSpec, ImplementsLedger, Ledger!Spec

-----------------------------------------------------------------------------
(* What is proved of CreditLedger then holds of the rows *)

\* CreditLedger over the same rows, with the theorems about it.
Atomic == INSTANCE CreditLedgerProofs WITH
    project <- ProjectColumns, activity <- ActivityStates,
    account <- AccountCredits, blocks <- CreditBlocks

\* What CreditLedger assumes of the constants holds of those here.
LEMMA AtomicConstants == Atomic!ConstantsAssumption
<1>1. Ledger!ConstantsAssumption
  BY RequestsAssumption
<1> QED
  BY <1>1 DEF Ledger!ConstantsAssumption, Atomic!ConstantsAssumption,
              Ledger!IsFiniteSet, Atomic!IsFiniteSet

\* Ledger and Atomic are one specification under two names.
LEMMA LedgerIsAtomic == Ledger!Spec => Atomic!Spec
<1>1. Ledger!Init => Atomic!Init
  BY DEF Ledger!Init, Atomic!Init
<1>2. Ledger!vars = Atomic!vars /\ Ledger!vars' = Atomic!vars'
  BY DEF Ledger!vars, Atomic!vars
<1>3. Ledger!Issue => Atomic!Issue
  BY DEF Ledger!Issue, Atomic!Issue, Ledger!IssueCredits, Atomic!IssueCredits,
         Ledger!BatchTotal, Atomic!BatchTotal, Ledger!Credited, Atomic!Credited,
         Ledger!Revise, Atomic!Revise, Ledger!NewBlocks, Atomic!NewBlocks,
         Ledger!NewBlockIds, Atomic!NewBlockIds, Ledger!NewBlock, Atomic!NewBlock,
         Ledger!VintageStart, Atomic!VintageStart,
         Ledger!NoRecords, Atomic!NoRecords, Ledger!NoRecord, Atomic!NoRecord
<1>4. Ledger!Transfer => Atomic!Transfer
  BY DEF Ledger!Transfer, Atomic!Transfer, Ledger!TransferCredits, Atomic!TransferCredits,
         Ledger!TransferWhole, Atomic!TransferWhole, Ledger!TransferPart, Atomic!TransferPart,
         Ledger!Unreserved, Atomic!Unreserved, Ledger!CanSplit, Atomic!CanSplit,
         Ledger!ProjectMoves, Atomic!ProjectMoves, Ledger!Revise, Atomic!Revise,
         Ledger!Split, Atomic!Split, Ledger!Kept, Atomic!Kept, Ledger!CutOff, Atomic!CutOff,
         Ledger!SecondStart, Atomic!SecondStart,
         Ledger!NoRecords, Atomic!NoRecords, Ledger!NoRecord, Atomic!NoRecord
<1>5. Ledger!RequestRetirement => Atomic!RequestRetirement
  BY DEF Ledger!RequestRetirement, Atomic!RequestRetirement,
         Ledger!AddRetireRequest, Atomic!AddRetireRequest,
         Ledger!UnusedRetireId, Atomic!UnusedRetireId, Ledger!Unreserved, Atomic!Unreserved
<1>6. Ledger!Accept => Atomic!Accept
  BY DEF Ledger!Accept, Atomic!Accept, Ledger!AcceptRetirement, Atomic!AcceptRetirement,
         Ledger!AcceptWhole, Atomic!AcceptWhole, Ledger!AcceptPart, Atomic!AcceptPart,
         Ledger!WholeBlockRequested, Atomic!WholeBlockRequested,
         Ledger!Decided, Atomic!Decided, Ledger!CanSplit, Atomic!CanSplit,
         Ledger!ProjectMoves, Atomic!ProjectMoves, Ledger!Revise, Atomic!Revise,
         Ledger!Split, Atomic!Split, Ledger!Kept, Atomic!Kept, Ledger!CutOff, Atomic!CutOff,
         Ledger!SecondStart, Atomic!SecondStart,
         Ledger!NoRecords, Atomic!NoRecords, Ledger!NoRecord, Atomic!NoRecord
<1>7. Ledger!Decline => Atomic!Decline
  BY DEF Ledger!Decline, Atomic!Decline, Ledger!DeclineRetirement, Atomic!DeclineRetirement
<1>8. [Ledger!Next]_(Ledger!vars) => [Atomic!Next]_(Atomic!vars)
  BY <1>2, <1>3, <1>4, <1>5, <1>6, <1>7 DEF Ledger!Next, Atomic!Next
<1> QED
  BY <1>1, <1>8, PTL DEF Ledger!Spec, Atomic!Spec

\* Calls that do not overlap on the projects of a developer keep the books of
\* the registry straight across the four tables: each issued credit is in one
\* block, the columns of the project row count the blocks, the accounts of the
\* companies count the projects, the reserved amounts count the requests, and
\* a pending request can be accepted.
THEOREM BooksStraight ==
    OwnScope => (RequestsSpec => [](/\ Ledger!SerialsPartitionIssued
                                    /\ Ledger!CountersMatchSerials
                                    /\ Ledger!AccountsMatchProjects
                                    /\ Ledger!ReservedIsPending
                                    /\ Ledger!AcceptNeverThrows))
<1> SUFFICES ASSUME OwnScope
             PROVE  RequestsSpec => [](/\ Ledger!SerialsPartitionIssued
                                       /\ Ledger!CountersMatchSerials
                                       /\ Ledger!AccountsMatchProjects
                                       /\ Ledger!ReservedIsPending
                                       /\ Ledger!AcceptNeverThrows)
  OBVIOUS
<1>1. RequestsSpec => Ledger!Spec
  BY RefinesLedger DEF ImplementsLedger
<1>2. Atomic!Spec => []Atomic!SerialsPartitionIssued
  BY AtomicConstants, Atomic!SerialsPartition DEF Atomic!ConstantsAssumption
<1>3. Atomic!Spec => []Atomic!CountersMatchSerials
  BY AtomicConstants, Atomic!CountersAgree DEF Atomic!ConstantsAssumption
<1>4. Atomic!Spec => []Atomic!AccountsMatchProjects
  BY AtomicConstants, Atomic!AccountsAgree DEF Atomic!ConstantsAssumption
<1>5. Atomic!Spec => []Atomic!ReservedIsPending
  BY AtomicConstants, Atomic!ReservedIsPendingAlways DEF Atomic!ConstantsAssumption
<1>6. Atomic!Spec => []Atomic!AcceptNeverThrows
  BY AtomicConstants, Atomic!AcceptSucceeds DEF Atomic!ConstantsAssumption
<1>7. Atomic!SerialsPartitionIssued => Ledger!SerialsPartitionIssued
  BY DEF Ledger!SerialsPartitionIssued, Atomic!SerialsPartitionIssued,
         Ledger!BlocksOf, Atomic!BlocksOf, Ledger!Serials, Atomic!Serials
<1>8. Atomic!CountersMatchSerials => Ledger!CountersMatchSerials
  BY DEF Ledger!CountersMatchSerials, Atomic!CountersMatchSerials,
         Ledger!Unmoved, Atomic!Unmoved, Ledger!BlocksOf, Atomic!BlocksOf,
         Ledger!Serials, Atomic!Serials, Ledger!Cardinality, Atomic!Cardinality
<1>9. \A f : Atomic!SumFunction(f) = Ledger!SumFunction(f)
  BY DEF Ledger!SumFunction, Atomic!SumFunction,
         Ledger!SumFunctionOnSet, Atomic!SumFunctionOnSet,
         Ledger!FoldFunctionOnSet, Atomic!FoldFunctionOnSet,
         Ledger!MapThenFoldSet, Atomic!MapThenFoldSet
<1>10. Atomic!AccountsMatchProjects => Ledger!AccountsMatchProjects
  BY <1>9 DEF Ledger!AccountsMatchProjects, Atomic!AccountsMatchProjects,
              Ledger!IssuedOf, Atomic!IssuedOf
<1>11. Atomic!ReservedIsPending => Ledger!ReservedIsPending
  BY <1>9 DEF Ledger!ReservedIsPending, Atomic!ReservedIsPending,
              Ledger!PendingAmounts, Atomic!PendingAmounts, Ledger!Pending, Atomic!Pending
<1>12. Atomic!AcceptNeverThrows => Ledger!AcceptNeverThrows
  BY DEF Ledger!AcceptNeverThrows, Atomic!AcceptNeverThrows,
         Ledger!WholeBlockRequested, Atomic!WholeBlockRequested,
         Ledger!CanSplit, Atomic!CanSplit
<1> QED
  BY <1>1, <1>2, <1>3, <1>4, <1>5, <1>6, <1>7, <1>8, <1>10, <1>11, <1>12,
     LedgerIsAtomic, PTL

\* No credit is in two blocks, and so counted twice, when calls do not overlap
\* on the projects of a developer.
THEOREM NoDoubleCountingInScope == OwnScope => (RequestsSpec => []NoDoubleCounting)
<1> SUFFICES ASSUME OwnScope PROVE RequestsSpec => []NoDoubleCounting
  OBVIOUS
<1>1. IInv /\ Ledger!SerialsPartitionIssued => NoDoubleCounting
  <2> SUFFICES ASSUME IInv, Ledger!SerialsPartitionIssued,
                      NEW i \in BlockIds, NEW j \in BlockIds, i # j, i[1] = j[1]
               PROVE  Ledger!Serials(i) \cap Ledger!Serials(j) = {}
    BY DEF NoDoubleCounting
  <2>1. i[1] \in Projects
    BY BlockIdType DEF IInv, RowsOK
  <2>2. i \in Ledger!BlocksOf(i[1]) /\ j \in Ledger!BlocksOf(i[1])
    BY DEF Ledger!BlocksOf, CreditBlocks
  <2> QED
    BY <2>1, <2>2 DEF Ledger!SerialsPartitionIssued
<1>2. RequestsSpec => []Ledger!SerialsPartitionIssued
  BY BooksStraight, PTL
<1> QED
  BY <1>1, <1>2, RequestsInvariant, PTL

\* The steps keep what CreditLedger promises of them: a retired credit stays
\* retired, a pending request stays with its owner, and an owner who gives
\* credits of a block away gives its last ones.
THEOREM OwnersSafe ==
    OwnScope => (RequestsSpec => /\ Ledger!RetiredIsFinal
                                 /\ Ledger!PendingKeepsOwner
                                 /\ Ledger!OwnerKeepsFirstSerials)
<1> SUFFICES ASSUME OwnScope
             PROVE  RequestsSpec => /\ Ledger!RetiredIsFinal
                                    /\ Ledger!PendingKeepsOwner
                                    /\ Ledger!OwnerKeepsFirstSerials
  OBVIOUS
<1>1. RequestsSpec => Ledger!Spec
  BY RefinesLedger DEF ImplementsLedger
<1>2. Atomic!Spec => Atomic!RetiredIsFinal
  BY AtomicConstants, Atomic!RetirementIsFinal DEF Atomic!ConstantsAssumption
<1>3. Atomic!Spec => Atomic!PendingKeepsOwner
  BY AtomicConstants, Atomic!PendingStaysWithOwner DEF Atomic!ConstantsAssumption
<1>4. Atomic!Spec => Atomic!OwnerKeepsFirstSerials
  BY AtomicConstants, Atomic!OwnerKeepsFirst DEF Atomic!ConstantsAssumption
<1>5. Atomic!RetiredIsFinal => Ledger!RetiredIsFinal
  BY DEF Ledger!RetiredIsFinal, Atomic!RetiredIsFinal, Ledger!Owned, Atomic!Owned,
         Ledger!Serials, Atomic!Serials, Ledger!vars, Atomic!vars
<1>6. Atomic!PendingKeepsOwner => Ledger!PendingKeepsOwner
  BY DEF Ledger!PendingKeepsOwner, Atomic!PendingKeepsOwner, Ledger!vars, Atomic!vars
<1>7. Atomic!OwnerKeepsFirstSerials => Ledger!OwnerKeepsFirstSerials
  BY DEF Ledger!OwnerKeepsFirstSerials, Atomic!OwnerKeepsFirstSerials,
         Ledger!Owned, Atomic!Owned, Ledger!Serials, Atomic!Serials,
         Ledger!vars, Atomic!vars
<1> QED
  BY <1>1, <1>2, <1>3, <1>4, <1>5, <1>6, <1>7, LedgerIsAtomic, PTL
=============================================================================
