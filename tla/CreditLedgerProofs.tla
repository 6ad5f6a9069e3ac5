------------------------- MODULE CreditLedgerProofs -------------------------
(***************************************************************************)
(* Proofs about CreditLedger for every set of companies, activities and    *)
(* requests, every finite set of projects and every estimate.  The         *)
(* inductive invariant IInv describes the block ranges by their bounds;    *)
(* the partition of the issued serial numbers and the finality of          *)
(* retirement follow from it.  RequestsInv (the reserved credits are the   *)
(* pending requests) and CountersInv (the project columns are the unmoved  *)
(* serials) are inductive beside it.                                       *)
(***************************************************************************)
EXTENDS CreditLedger, SumFacts

-----------------------------------------------------------------------------
(* The invariant of the serial ranges *)

RangesTyped ==
    \A id \in DOMAIN blocks :
        /\ id[2] = blocks[id].first
        /\ blocks[id].amount = blocks[id].last - blocks[id].first + 1
        /\ blocks[id].first <= blocks[id].last
        /\ blocks[id].last <= project[id[1]].issued

RangesDisjoint ==
    \A i, j \in DOMAIN blocks :
        (i[1] = j[1] /\ i # j) =>
            \/ blocks[i].last < blocks[j].first
            \/ blocks[j].last < blocks[i].first

RangesCover ==
    \A p \in Projects : \A n \in 1 .. project[p].issued :
        \E id \in DOMAIN blocks :
            id[1] = p /\ blocks[id].first <= n /\ n <= blocks[id].last

RequestsPositive ==
    \A id \in DOMAIN blocks, r \in RetireIds :
        blocks[id].records[r].status = "PENDING" =>
            blocks[id].records[r].amount > 0

IInv == TypeOK /\ RangesTyped /\ RangesDisjoint /\ RangesCover /\ RequestsPositive

\* What RetiredIsFinal asks of a step: a serial number in a retired block is
\* in a retired block afterwards.
RetiredStays ==
    \A i \in DOMAIN blocks : blocks[i].owner = NoCompany =>
        \A m \in Serials(i) :
            \E j \in DOMAIN blocks' :
                /\ j[1] = i[1] /\ blocks'[j].owner = NoCompany
                /\ blocks'[j].first <= m /\ m <= blocks'[j].last

\* What an issue does to the rows: it adds blocks of project p above the
\* serials issued so far, as the project holds them before they ever move.
OnlyNewBlocks(p) ==
    /\ \A i \in DOMAIN blocks : i \in DOMAIN blocks' /\ blocks'[i] = blocks[i]
    /\ \A i \in DOMAIN blocks' \ DOMAIN blocks :
         /\ i[1] = p /\ blocks'[i].first > project[p].issued
         /\ blocks'[i].notTransferred = TRUE
         /\ blocks'[i].reserved = 0 /\ blocks'[i].records = NoRecords

-----------------------------------------------------------------------------
(* A block that keeps its serial number: transfer or retirement of a whole *)
(* block, a request, a declined request.                                   *)

LEMMA SameRange ==
    ASSUME IInv, NEW id \in DOMAIN blocks, NEW b \in Block,
           b.first = blocks[id].first, b.last = blocks[id].last,
           b.amount = blocks[id].amount,
           blocks[id].owner = NoCompany => b.owner = NoCompany,
           \A r \in RetireIds :
              b.records[r].status = "PENDING" => b.records[r].amount > 0,
           blocks' = [blocks EXCEPT ![id] = b],
           project' \in [Projects -> ProjectRow],
           \A p \in Projects : project'[p].issued = project[p].issued,
           UNCHANGED <<activity, account>>
    PROVE  IInv' /\ RetiredStays
<1>1. DOMAIN blocks' = DOMAIN blocks
  OBVIOUS
<1>2. \A i \in DOMAIN blocks : blocks'[i] = IF i = id THEN b ELSE blocks[i]
  OBVIOUS
<1>3. \A i \in DOMAIN blocks : /\ blocks'[i].first = blocks[i].first
                               /\ blocks'[i].last = blocks[i].last
                               /\ blocks'[i].amount = blocks[i].amount
  BY <1>2
<1>4. \A i \in DOMAIN blocks : i \in Projects \X (Nat \ {0})
  BY DEF IInv, TypeOK
<1>5. TypeOK'
  BY <1>1, <1>2 DEF IInv, TypeOK
<1>6. RangesTyped'
  BY <1>1, <1>3, <1>4 DEF IInv, RangesTyped
<1>7. RangesDisjoint'
  BY <1>1, <1>3 DEF IInv, RangesDisjoint
<1>8. RangesCover'
  BY <1>1, <1>3 DEF IInv, RangesCover
<1>9. RequestsPositive'
  BY <1>1, <1>2 DEF IInv, RequestsPositive
<1>10. RetiredStays
  <2> SUFFICES ASSUME NEW i \in DOMAIN blocks, blocks[i].owner = NoCompany,
                      NEW m \in Serials(i)
               PROVE  /\ blocks'[i].owner = NoCompany
                      /\ blocks'[i].first <= m /\ m <= blocks'[i].last
    BY <1>1 DEF RetiredStays
  <2>1. blocks'[i].owner = NoCompany
    BY <1>2
  <2>2. blocks[i].first \in Nat /\ blocks[i].last \in Nat
    BY DEF IInv, TypeOK, Block
  <2>. QED
    BY <1>3, <2>1, <2>2 DEF Serials
<1>. QED
  BY <1>5, <1>6, <1>7, <1>8, <1>9, <1>10 DEF IInv

(* A split: the block keeps its first serials, a new block gets the last n. *)

LEMMA SplitRows ==
    ASSUME IInv, NEW id \in DOMAIN blocks, NEW n \in Nat, n > 0,
           CanSplit(blocks[id], n), NEW kept, NEW cut,
           cut.first = SecondStart(blocks[id], n),
           blocks' = Revise(Split(id, kept, cut))
    PROVE  LET new == <<id[1], cut.first>>
           IN  /\ new \notin DOMAIN blocks /\ new # id
               /\ DOMAIN blocks' = DOMAIN blocks \cup {new}
               /\ blocks'[id] = kept /\ blocks'[new] = cut
               /\ \A i \in DOMAIN blocks : i # id => blocks'[i] = blocks[i]
               /\ blocks' = [i \in DOMAIN blocks' |-> blocks'[i]]
<1> DEFINE new == <<id[1], cut.first>>
<1>1. /\ id \in Projects \X (Nat \ {0})
      /\ blocks[id].first \in Nat /\ blocks[id].last \in Nat
      /\ id[2] = blocks[id].first
      /\ blocks[id].first < cut.first /\ cut.first <= blocks[id].last
      /\ cut.first \in Nat
  BY DEF IInv, TypeOK, RangesTyped, CanSplit, SecondStart, Block
<1>2. new \notin DOMAIN blocks
  <2> SUFFICES ASSUME new \in DOMAIN blocks PROVE FALSE
    OBVIOUS
  <2>1. new # id
    BY <1>1
  <2>2. blocks[new].first = cut.first /\ blocks[new].first <= blocks[new].last
    BY DEF IInv, RangesTyped
  <2>3. blocks[new].first \in Nat /\ blocks[new].last \in Nat
    BY DEF IInv, TypeOK, Block
  <2>4. new[1] = id[1]
    OBVIOUS
  <2>. QED
    BY <1>1, <2>1, <2>2, <2>3, <2>4 DEF IInv, RangesDisjoint
<1>3. DOMAIN blocks' = DOMAIN blocks \cup {new}
  BY DEF Revise, Split
<1>4. \A i \in DOMAIN blocks' :
        blocks'[i] = IF i = id THEN kept ELSE IF i = new THEN cut ELSE blocks[i]
  BY <1>2, <1>3 DEF Revise, Split
<1>5. blocks'[id] = kept /\ blocks'[new] = cut /\ new # id
  BY <1>2, <1>3, <1>4
<1>6. \A i \in DOMAIN blocks : i # id => blocks'[i] = blocks[i]
  BY <1>2, <1>3, <1>4
<1>7. blocks' = [i \in DOMAIN blocks' |-> blocks'[i]]
  BY DEF Revise
<1>. QED
  BY <1>2, <1>3, <1>5, <1>6, <1>7

LEMMA SplitRange ==
    ASSUME IInv, NEW id \in DOMAIN blocks, NEW n \in Nat, n > 0,
           CanSplit(blocks[id], n),
           NEW kept \in Block, NEW cut \in Block,
           kept.first = blocks[id].first, kept.last = blocks[id].last - n,
           kept.amount = blocks[id].amount - n,
           cut.first = SecondStart(blocks[id], n), cut.last = blocks[id].last,
           cut.amount = n,
           blocks[id].owner = NoCompany =>
              kept.owner = NoCompany /\ cut.owner = NoCompany,
           \A r \in RetireIds :
              kept.records[r].status = "PENDING" => kept.records[r].amount > 0,
           \A r \in RetireIds : cut.records[r].status # "PENDING",
           blocks' = Revise(Split(id, kept, cut)),
           project' \in [Projects -> ProjectRow],
           \A p \in Projects : project'[p].issued = project[p].issued,
           UNCHANGED <<activity, account>>
    PROVE  IInv' /\ RetiredStays
<1> DEFINE new == <<id[1], cut.first>>
<1>1. /\ id \in Projects \X (Nat \ {0}) /\ blocks[id] \in Block
      /\ blocks[id].first \in Nat /\ blocks[id].last \in Nat
      /\ id[2] = blocks[id].first
      /\ blocks[id].first < cut.first /\ cut.first <= blocks[id].last
      /\ cut.first \in Nat
  BY DEF IInv, TypeOK, RangesTyped, CanSplit, SecondStart, Block
<1>14. /\ blocks[id].last <= project'[id[1]].issued
      /\ blocks[id].amount = blocks[id].last - blocks[id].first + 1
      /\ project'[id[1]].issued \in Nat
  BY <1>1 DEF IInv, RangesTyped, ProjectRow
<1>2. /\ new \notin DOMAIN blocks /\ new # id
      /\ DOMAIN blocks' = DOMAIN blocks \cup {new}
      /\ blocks'[id] = kept /\ blocks'[new] = cut
      /\ \A i \in DOMAIN blocks : i # id => blocks'[i] = blocks[i]
      /\ blocks' = [i \in DOMAIN blocks' |-> blocks'[i]]
  BY SplitRows
<1>3. DOMAIN blocks' = DOMAIN blocks \cup {new}
  BY <1>2
<1>5. blocks'[id] = kept /\ blocks'[new] = cut /\ new # id
  BY <1>2
<1>6. \A i \in DOMAIN blocks : i # id => blocks'[i] = blocks[i]
  BY <1>2
<1>4. \A i \in DOMAIN blocks' :
        blocks'[i] = IF i = id THEN kept ELSE IF i = new THEN cut ELSE blocks[i]
  BY <1>3, <1>5, <1>6
<1>7. \A i \in DOMAIN blocks : /\ i \in Projects \X (Nat \ {0})
                               /\ blocks[i].first \in Nat /\ blocks[i].last \in Nat
  BY DEF IInv, TypeOK, Block
<1>8. new \in Projects \X (Nat \ {0}) /\ new[1] = id[1] /\ new[2] = cut.first
  BY <1>1
<1>9. TypeOK'
  <2>1. DOMAIN blocks' \subseteq Projects \X (Nat \ {0})
    BY <1>3, <1>8 DEF IInv, TypeOK
  <2>2. blocks' \in [DOMAIN blocks' -> Block]
    <3>1. blocks' = [i \in DOMAIN blocks' |-> blocks'[i]]
      BY <1>2
    <3>2. \A i \in DOMAIN blocks' : blocks'[i] \in Block
      BY <1>3, <1>4 DEF IInv, TypeOK
    <3>. QED
      BY <3>1, <3>2
  <2>. QED
    BY <2>1, <2>2 DEF IInv, TypeOK
<1>10. RangesTyped'
  <2> SUFFICES ASSUME NEW i \in DOMAIN blocks'
               PROVE  /\ i[2] = blocks'[i].first
                      /\ blocks'[i].amount = blocks'[i].last - blocks'[i].first + 1
                      /\ blocks'[i].first <= blocks'[i].last
                      /\ blocks'[i].last <= project'[i[1]].issued
    BY DEF RangesTyped
  <2>1. CASE i = id
    BY <1>1, <1>14, <1>5, <2>1 DEF SecondStart
  <2>2. CASE i = new
    BY <1>1, <1>14, <1>5, <1>8, <2>2 DEF SecondStart
  <2>3. CASE i # id /\ i # new
    BY <1>3, <1>6, <1>7, <2>3 DEF IInv, RangesTyped
  <2>. QED
    BY <2>1, <2>2, <2>3
<1>11. RangesDisjoint'
  <2> SUFFICES ASSUME NEW i \in DOMAIN blocks', NEW j \in DOMAIN blocks',
                      i[1] = j[1], i # j
               PROVE  \/ blocks'[i].last < blocks'[j].first
                      \/ blocks'[j].last < blocks'[i].first
    BY DEF RangesDisjoint
  <2>1. CASE i \in DOMAIN blocks \ {id} /\ j \in DOMAIN blocks \ {id}
    BY <1>6, <2>1 DEF IInv, RangesDisjoint
  <2>2. ASSUME NEW k \in DOMAIN blocks \ {id}, k[1] = id[1]
        PROVE  /\ \/ blocks'[k].last < kept.first
                  \/ kept.last < blocks'[k].first
               /\ \/ blocks'[k].last < cut.first
                  \/ cut.last < blocks'[k].first
    <3>1. \/ blocks[k].last < blocks[id].first
          \/ blocks[id].last < blocks[k].first
      BY <2>2 DEF IInv, RangesDisjoint
    <3>2. blocks'[k] = blocks[k] /\ blocks[k].first \in Nat /\ blocks[k].last \in Nat
      BY <1>6, <1>7
    <3>. QED
      BY <1>1, <3>1, <3>2
  <2>3. kept.last < cut.first
    BY <1>1 DEF SecondStart
  <2>4. CASE i = id \/ i = new
    BY <1>3, <1>5, <1>8, <2>2, <2>3, <2>4
  <2>5. CASE j = id \/ j = new
    BY <1>3, <1>5, <1>8, <2>2, <2>3, <2>5
  <2>. QED
    BY <1>3, <2>1, <2>4, <2>5
<1>12. RangesCover'
  <2> SUFFICES ASSUME NEW p \in Projects, NEW m \in 1 .. project'[p].issued
               PROVE  \E i \in DOMAIN blocks' :
                        i[1] = p /\ blocks'[i].first <= m /\ m <= blocks'[i].last
    BY DEF RangesCover
  <2>1. PICK i \in DOMAIN blocks :
            i[1] = p /\ blocks[i].first <= m /\ m <= blocks[i].last
    BY DEF IInv, RangesCover
  <2>2. CASE i # id
    BY <1>3, <1>6, <2>1, <2>2
  <2>3. CASE i = id /\ m < cut.first
    BY <1>1, <1>3, <1>5, <2>1, <2>3 DEF SecondStart
  <2>4. CASE i = id /\ ~(m < cut.first)
    BY <1>1, <1>3, <1>5, <1>8, <2>1, <2>4
  <2>. QED
    BY <2>2, <2>3, <2>4
<1>13. RequestsPositive'
  BY <1>3, <1>4 DEF IInv, RequestsPositive
<1>15. RetiredStays
  <2> SUFFICES ASSUME NEW i \in DOMAIN blocks, blocks[i].owner = NoCompany,
                      NEW m \in Serials(i)
               PROVE  \E j \in DOMAIN blocks' :
                        /\ j[1] = i[1] /\ blocks'[j].owner = NoCompany
                        /\ blocks'[j].first <= m /\ m <= blocks'[j].last
    BY DEF RetiredStays
  <2>1. m \in Nat /\ blocks[i].first <= m /\ m <= blocks[i].last
    BY <1>7 DEF Serials
  <2>2. CASE i # id
    BY <1>3, <1>6, <2>1, <2>2
  <2>3. CASE i = id /\ m < cut.first
    BY <1>1, <1>3, <1>5, <2>1, <2>3 DEF SecondStart
  <2>4. CASE i = id /\ ~(m < cut.first)
    BY <1>1, <1>3, <1>5, <1>8, <2>1, <2>4
  <2>. QED
    BY <2>2, <2>3, <2>4
<1>. QED
  BY <1>9, <1>10, <1>11, <1>12, <1>13, <1>15 DEF IInv

-----------------------------------------------------------------------------
(* The vintages of a batch follow each other without gap or overlap.        *)

LEMMA BatchFacts ==
    ASSUME NEW batch \in Batches
    PROVE  /\ Len(batch) \in Nat \ {0}
           /\ BatchTotal(batch) \in Nat \ {0}
           /\ \A k \in 1 .. Len(batch) :
                /\ batch[k] \in Nat \ {0}
                /\ batch[k] <= BatchTotal(batch)
                /\ VintageStart(batch, k) \in Nat \ {0}
                /\ VintageStart(batch, k) <= batch[k]
           /\ \A j, k \in 1 .. Len(batch) :
                j < k => batch[j] < VintageStart(batch, k)
<1>1. batch \in Seq(Nat \ {0}) /\ batch # <<>>
  BY ConstantsAssumption
<1>2. \A j, k \in 1 .. Len(batch) : j < k => batch[j] < batch[k]
  BY ConstantsAssumption
<1>3. Len(batch) \in Nat \ {0}
  BY <1>1
<1>4. \A k \in 1 .. Len(batch) : batch[k] \in Nat \ {0}
  BY <1>1
<1>5. \A k \in 1 .. Len(batch) : batch[k] <= BatchTotal(batch)
  <2> TAKE k \in 1 .. Len(batch)
  <2>1. CASE k = Len(batch)
    BY <1>3, <1>4, <2>1 DEF BatchTotal
  <2>2. CASE k < Len(batch)
    BY <1>2, <1>3, <1>4, <2>2 DEF BatchTotal
  <2>. QED
    BY <1>3, <2>1, <2>2
<1>6. ASSUME NEW k \in 1 .. Len(batch)
      PROVE  /\ VintageStart(batch, k) \in Nat \ {0}
             /\ VintageStart(batch, k) <= batch[k]
  <2>1. CASE k = 1
    BY <1>4, <2>1 DEF VintageStart
  <2>2. CASE k # 1
    <3>1. k - 1 \in 1 .. Len(batch) /\ k - 1 < k
      BY <1>3, <2>2
    <3>. QED
      BY <1>2, <1>4, <2>2, <3>1 DEF VintageStart
  <2>. QED
    BY <2>1, <2>2
<1>7. ASSUME NEW j \in 1 .. Len(batch), NEW k \in 1 .. Len(batch), j < k
      PROVE  batch[j] < VintageStart(batch, k)
  <2>1. k - 1 \in 1 .. Len(batch) /\ k # 1 /\ (j = k - 1 \/ j < k - 1)
    BY <1>3, <1>7
  <2>2. batch[j] <= batch[k - 1]
    BY <1>2, <1>4, <2>1
  <2>. QED
    BY <1>4, <2>1, <2>2 DEF VintageStart
<1>8. BatchTotal(batch) \in Nat \ {0}
  BY <1>3, <1>4 DEF BatchTotal
<1>. QED
  BY <1>3, <1>4, <1>5, <1>6, <1>7, <1>8

LEMMA BatchCovers ==
    ASSUME NEW batch \in Batches, NEW m \in 1 .. BatchTotal(batch)
    PROVE  \E k \in 1 .. Len(batch) :
              VintageStart(batch, k) <= m /\ m <= batch[k]
<1> DEFINE T == {k \in 1 .. Len(batch) : m <= batch[k]}
<1>1. Len(batch) \in T
  BY BatchFacts DEF BatchTotal
<1>2. T \subseteq Nat /\ T # {}
  BY <1>1, BatchFacts
<1>3. PICK k \in T : \A j \in T : k <= j
  BY <1>2, LeastNat
<1>4. VintageStart(batch, k) <= m
  <2>1. CASE k = 1
    BY <2>1 DEF VintageStart
  <2>2. CASE k # 1
    <3>1. k - 1 \in 1 .. Len(batch) /\ k - 1 \notin T
      BY <1>3, <2>2, BatchFacts
    <3>2. ~(m <= batch[k - 1]) /\ batch[k - 1] \in Nat
      BY <3>1, BatchFacts
    <3>. QED
      BY <2>2, <3>2 DEF VintageStart
  <2>. QED
    BY <2>1, <2>2
<1>. QED
  BY <1>3, <1>4

LEMMA NewBlocksFacts ==
    ASSUME NEW p \in Projects, NEW already \in Nat, NEW batch \in Batches
    PROVE  LET new == NewBlocks(p, already, batch)
           IN  /\ DOMAIN new = NewBlockIds(p, already, batch)
               /\ \A k \in 1 .. Len(batch) :
                    new[<<p, already + VintageStart(batch, k)>>]
                        = NewBlock(p, already, batch, k)
<1> DEFINE new == NewBlocks(p, already, batch)
<1>1. DOMAIN new = NewBlockIds(p, already, batch)
  BY DEF NewBlocks
<1>2. ASSUME NEW k \in 1 .. Len(batch)
      PROVE  new[<<p, already + VintageStart(batch, k)>>]
                = NewBlock(p, already, batch, k)
  <2> DEFINE id == <<p, already + VintageStart(batch, k)>>
             Vintage(j) == id[2] = already + VintageStart(batch, j)
             chosen == CHOOSE j \in 1 .. Len(batch) : Vintage(j)
  <2>1. id \in NewBlockIds(p, already, batch)
    BY DEF NewBlockIds
  <2>2. chosen \in 1 .. Len(batch) /\ Vintage(chosen)
    <3>1. \E j \in 1 .. Len(batch) : Vintage(j)
      BY <1>2
    <3>. QED
      BY <3>1
  <2>3. new[id] = NewBlock(p, already, batch, chosen)
    BY <2>1 DEF NewBlocks
  <2>4. chosen = k
    <3> HIDE DEF chosen
    <3>1. VintageStart(batch, chosen) = VintageStart(batch, k)
      BY <2>2, BatchFacts
    <3>2. \A i, j \in 1 .. Len(batch) :
             i < j => VintageStart(batch, i) < VintageStart(batch, j)
      BY BatchFacts
    <3>. QED
      BY <2>2, <3>1, <3>2, BatchFacts
  <2>. QED
    BY <2>3, <2>4
<1>. QED
  BY <1>1, <1>2

LEMMA IssueIInv ==
    ASSUME IInv, NEW a \in Activities, NEW batch \in Batches,
           IssueCredits(a, batch)
    PROVE  IInv' /\ RetiredStays /\ OnlyNewBlocks(ActivityProject[a])
<1> DEFINE p == ActivityProject[a]
           n == BatchTotal(batch)
           issued == project[p].issued
           new == NewBlocks(p, issued, batch)
           newId(k) == <<p, issued + VintageStart(batch, k)>>
<1>1. /\ p \in Projects /\ Developer[p] \in Companies
      /\ issued \in Nat /\ n \in Nat \ {0}
  BY ConstantsAssumption, BatchFacts DEF IInv, TypeOK, ProjectRow
<1>2. /\ project' \in [Projects -> ProjectRow]
      /\ project'[p].issued = issued + n
      /\ \A q \in Projects : q # p => project'[q] = project[q]
  BY <1>1 DEF IssueCredits, IInv, TypeOK, ProjectRow
<1> HIDE DEF p, n
<1>3. blocks' = Revise(new)
  BY DEF IssueCredits, p
<1>4. DOMAIN new = {newId(k) : k \in 1 .. Len(batch)}
  BY <1>1, NewBlocksFacts DEF NewBlockIds
<1>5. \A k \in 1 .. Len(batch) : new[newId(k)] = NewBlock(p, issued, batch, k)
  BY <1>1, NewBlocksFacts
<1> HIDE DEF new
<1>6. \A k \in 1 .. Len(batch) :
        /\ NewBlock(p, issued, batch, k) \in Block
        /\ NewBlock(p, issued, batch, k).first = issued + VintageStart(batch, k)
        /\ NewBlock(p, issued, batch, k).last = issued + batch[k]
        /\ NewBlock(p, issued, batch, k).amount
              = batch[k] - VintageStart(batch, k) + 1
        /\ issued + batch[k] \in Nat
        /\ \A r \in RetireIds :
              NewBlock(p, issued, batch, k).records[r].status = "NONE"
  BY <1>1, BatchFacts DEF NewBlock, Block, NoRecords, NoRecord, Status
<1>7. \A k \in 1 .. Len(batch) :
        /\ newId(k) \in Projects \X (Nat \ {0})
        /\ newId(k)[1] = p /\ newId(k)[2] = issued + VintageStart(batch, k)
  BY <1>1, BatchFacts
<1>8. \A i \in DOMAIN blocks : /\ i \in Projects \X (Nat \ {0})
                               /\ blocks[i] \in Block
                               /\ blocks[i].first \in Nat
                               /\ blocks[i].last \in Nat
                               /\ blocks[i].first <= blocks[i].last
                               /\ i[2] = blocks[i].first
                               /\ blocks[i].last <= project[i[1]].issued
  BY DEF IInv, TypeOK, RangesTyped, Block
<1>9. ASSUME NEW k \in 1 .. Len(batch), newId(k) \in DOMAIN blocks
      PROVE  FALSE
  <2>1. /\ blocks[newId(k)].first = issued + VintageStart(batch, k)
        /\ blocks[newId(k)].first <= blocks[newId(k)].last
        /\ blocks[newId(k)].last <= issued
    BY <1>7, <1>8, <1>9
  <2>2. VintageStart(batch, k) \in Nat \ {0}
    BY BatchFacts
  <2>. QED
    BY <1>1, <1>8, <1>9, <2>1, <2>2
<1>10. DOMAIN blocks' = DOMAIN blocks \cup {newId(k) : k \in 1 .. Len(batch)}
  BY <1>3, <1>4 DEF Revise
<1>11. \A i \in DOMAIN blocks : i \in DOMAIN blocks' /\ blocks'[i] = blocks[i]
  BY <1>3, <1>4, <1>9, <1>10 DEF Revise
<1>12. \A k \in 1 .. Len(batch) :
          /\ newId(k) \in DOMAIN blocks'
          /\ blocks'[newId(k)] = NewBlock(p, issued, batch, k)
  BY <1>3, <1>4, <1>5, <1>10 DEF Revise
<1>13. \A i \in DOMAIN blocks' :
          i \notin DOMAIN blocks => \E k \in 1 .. Len(batch) : i = newId(k)
  BY <1>10
<1> HIDE DEF newId, issued
<1>14. TypeOK'
  <2>1. DOMAIN blocks' \subseteq Projects \X (Nat \ {0})
    BY <1>7, <1>8, <1>13
  <2>2. blocks' \in [DOMAIN blocks' -> Block]
    <3>1. blocks' = [i \in DOMAIN blocks' |-> blocks'[i]]
      BY <1>3 DEF Revise
    <3>2. \A i \in DOMAIN blocks' : blocks'[i] \in Block
      BY <1>6, <1>8, <1>11, <1>12, <1>13
    <3>. QED
      BY <3>1, <3>2
  <2>3. activity' \in [Activities ->
            {"MONITORING_REPORT_VERIFIED", "VERIFICATION_REPORT_VERIFIED"}]
    BY DEF IssueCredits, IInv, TypeOK
  <2>4. account' \in [Companies -> Nat]
    BY <1>1 DEF IssueCredits, Credited, IInv, TypeOK, n, p
  <2>. QED
    BY <1>2, <2>1, <2>2, <2>3, <2>4 DEF TypeOK
<1>15. RangesTyped'
  <2> SUFFICES ASSUME NEW i \in DOMAIN blocks'
               PROVE  /\ i[2] = blocks'[i].first
                      /\ blocks'[i].amount = blocks'[i].last - blocks'[i].first + 1
                      /\ blocks'[i].first <= blocks'[i].last
                      /\ blocks'[i].last <= project'[i[1]].issued
    BY DEF RangesTyped
  <2>1. CASE i \in DOMAIN blocks
    <3>1. i[1] \in Projects /\ project[i[1]].issued \in Nat
      BY <1>8, <2>1 DEF IInv, TypeOK, ProjectRow
    <3>2. project[i[1]].issued <= project'[i[1]].issued
      BY <1>1, <1>2, <3>1 DEF issued
    <3>3. blocks[i].amount = blocks[i].last - blocks[i].first + 1
      BY <2>1 DEF IInv, RangesTyped
    <3>4. project'[i[1]].issued \in Nat
      BY <1>2, <3>1 DEF ProjectRow
    <3>. QED
      BY <1>8, <1>11, <2>1, <3>1, <3>2, <3>3, <3>4
  <2>2. CASE i \notin DOMAIN blocks
    <3>1. PICK k \in 1 .. Len(batch) : i = newId(k)
      BY <1>13, <2>2
    <3>2. /\ VintageStart(batch, k) \in Nat /\ batch[k] \in Nat
          /\ VintageStart(batch, k) <= batch[k] /\ batch[k] <= n
      BY BatchFacts DEF n
    <3>3. blocks'[i] = NewBlock(p, issued, batch, k) /\ i[1] = p
      BY <1>7, <1>12, <3>1
    <3>4. i[2] = issued + VintageStart(batch, k)
      BY <1>7, <3>1
    <3>5. issued + batch[k] <= project'[i[1]].issued
      BY <1>1, <1>2, <3>2, <3>3
    <3>. QED
      BY <1>1, <1>6, <3>2, <3>3, <3>4, <3>5
  <2>. QED
    BY <2>1, <2>2
<1>16. \A i \in DOMAIN blocks : i[1] = p => blocks[i].last <= issued
  BY <1>8 DEF issued
<1>17. RangesDisjoint'
  <2> SUFFICES ASSUME NEW i \in DOMAIN blocks', NEW j \in DOMAIN blocks',
                      i[1] = j[1], i # j
               PROVE  \/ blocks'[i].last < blocks'[j].first
                      \/ blocks'[j].last < blocks'[i].first
    BY DEF RangesDisjoint
  <2>1. ASSUME NEW u \in DOMAIN blocks, NEW k \in 1 .. Len(batch), u[1] = newId(k)[1]
        PROVE  blocks'[u].last < blocks'[newId(k)].first
    <3>1. blocks'[u].last \in Nat /\ blocks'[u].last <= issued
      BY <1>7, <1>8, <1>11, <1>16, <2>1
    <3>2. blocks'[newId(k)].first = issued + VintageStart(batch, k)
      BY <1>6, <1>12
    <3>3. VintageStart(batch, k) \in Nat \ {0}
      BY BatchFacts
    <3>. QED
      BY <1>1, <3>1, <3>2, <3>3
  <2>2. ASSUME NEW k \in 1 .. Len(batch), NEW m \in 1 .. Len(batch), k < m
        PROVE  blocks'[newId(k)].last < blocks'[newId(m)].first
    <3>1. blocks'[newId(k)].last = issued + batch[k]
      BY <1>6, <1>12
    <3>2. blocks'[newId(m)].first = issued + VintageStart(batch, m)
      BY <1>6, <1>12
    <3>3. /\ batch[k] \in Nat /\ VintageStart(batch, m) \in Nat
          /\ batch[k] < VintageStart(batch, m)
      BY <2>2, BatchFacts
    <3>. QED
      BY <1>1, <3>1, <3>2, <3>3
  <2>3. CASE i \in DOMAIN blocks /\ j \in DOMAIN blocks
    BY <1>11, <2>3 DEF IInv, RangesDisjoint
  <2>4. CASE i \in DOMAIN blocks /\ j \notin DOMAIN blocks
    BY <1>13, <2>1, <2>4
  <2>5. CASE i \notin DOMAIN blocks /\ j \in DOMAIN blocks
    BY <1>13, <2>1, <2>5
  <2>6. CASE i \notin DOMAIN blocks /\ j \notin DOMAIN blocks
    <3>1. PICK k \in 1 .. Len(batch), m \in 1 .. Len(batch) :
            i = newId(k) /\ j = newId(m)
      BY <1>13, <2>6
    <3>2. k < m \/ m < k
      BY <3>1, BatchFacts
    <3>. QED
      BY <2>2, <3>1, <3>2
  <2>. QED
    BY <2>3, <2>4, <2>5, <2>6
<1>18. RangesCover'
  <2> SUFFICES ASSUME NEW q \in Projects, NEW m \in 1 .. project'[q].issued
               PROVE  \E i \in DOMAIN blocks' :
                        i[1] = q /\ blocks'[i].first <= m /\ m <= blocks'[i].last
    BY DEF RangesCover
  <2>1. CASE m \in 1 .. project[q].issued
    BY <1>11, <2>1 DEF IInv, RangesCover
  <2>2. CASE m \notin 1 .. project[q].issued
    <3>1. q = p /\ m - issued \in 1 .. n
      BY <1>1, <1>2, <2>2 DEF issued
    <3>2. PICK k \in 1 .. Len(batch) :
            VintageStart(batch, k) <= m - issued /\ m - issued <= batch[k]
      BY <3>1, BatchCovers DEF n
    <3>3. /\ newId(k)[1] = q
          /\ blocks'[newId(k)].first <= m
          /\ m <= blocks'[newId(k)].last
      <4>1. /\ blocks'[newId(k)].first = issued + VintageStart(batch, k)
            /\ blocks'[newId(k)].last = issued + batch[k]
        BY <1>6, <1>12
      <4>2. VintageStart(batch, k) \in Nat /\ batch[k] \in Nat
        BY BatchFacts
      <4>3. m \in Int
        BY <1>2 DEF ProjectRow
      <4>. QED
        BY <1>1, <1>7, <3>1, <3>2, <4>1, <4>2, <4>3
    <3>. QED
      BY <1>12, <3>3
  <2>. QED
    BY <2>1, <2>2
<1>19. RequestsPositive'
  BY <1>6, <1>11, <1>12, <1>13 DEF IInv, RequestsPositive
<1>20. RetiredStays
  BY <1>8, <1>11 DEF RetiredStays, Serials
<1>21. OnlyNewBlocks(p)
  <2>1. ASSUME NEW i \in DOMAIN blocks' \ DOMAIN blocks
        PROVE  /\ i[1] = p /\ blocks'[i].first > issued
               /\ blocks'[i].notTransferred = TRUE
               /\ blocks'[i].reserved = 0 /\ blocks'[i].records = NoRecords
    <3>1. PICK k \in 1 .. Len(batch) : i = newId(k)
      BY <1>13
    <3>2. blocks'[i] = NewBlock(p, issued, batch, k) /\ i[1] = p
      BY <1>7, <1>12, <3>1
    <3>3. VintageStart(batch, k) \in Nat \ {0}
      BY BatchFacts
    <3>. QED
      BY <1>1, <1>6, <3>2, <3>3 DEF NewBlock
  <2>. QED
    BY <1>11, <2>1 DEF OnlyNewBlocks, issued
<1>. QED
  BY <1>14, <1>15, <1>17, <1>18, <1>19, <1>20, <1>21 DEF IInv, p

-----------------------------------------------------------------------------
(* What a call other than an issue does to the block rows: it rewrites one  *)
(* row without moving its serials, or it splits it.                         *)

Rewritten(id, b) ==
    /\ b.first = blocks[id].first /\ b.last = blocks[id].last
    /\ b.amount = blocks[id].amount
    /\ blocks' = [blocks EXCEPT ![id] = b]

Divided(id, n, kept, cut) ==
    /\ CanSplit(blocks[id], n)
    /\ kept.first = blocks[id].first /\ kept.last = blocks[id].last - n
    /\ kept.amount = blocks[id].amount - n
    /\ kept.owner = blocks[id].owner
    /\ kept.notTransferred = blocks[id].notTransferred
    /\ cut.first = SecondStart(blocks[id], n) /\ cut.last = blocks[id].last
    /\ cut.amount = n /\ cut.notTransferred = FALSE /\ cut.reserved = 0
    /\ blocks' = Revise(Split(id, kept, cut))

\* The requests of a block after request r was settled.
Settled(b, r, status) == [b.records EXCEPT ![r].status = status]

LEMMA ProjectMovesFacts ==
    ASSUME IInv, NEW id \in DOMAIN blocks, NEW n \in Nat,
           NEW column \in {"transferred", "retired"},
           ProjectMoves(id, n, column)
    PROVE  /\ project' \in [Projects -> ProjectRow]
           /\ \A p \in Projects : project'[p].issued = project[p].issued
<1>1. id[1] \in Projects
  BY DEF IInv, TypeOK
<1>2. CASE column = "transferred"
  BY <1>1, <1>2 DEF IInv, TypeOK, ProjectMoves, ProjectRow
<1>3. CASE column = "retired"
  BY <1>1, <1>3 DEF IInv, TypeOK, ProjectMoves, ProjectRow
<1>. QED
  BY <1>2, <1>3

LEMMA BlockFacts ==
    ASSUME IInv, NEW id \in DOMAIN blocks
    PROVE  /\ blocks[id] \in Block
           /\ blocks[id].amount \in Nat /\ blocks[id].reserved \in Int
           /\ \A r \in RetireIds :
                /\ blocks[id].records[r].amount \in Nat
                /\ blocks[id].records[r].status = "PENDING" =>
                        blocks[id].records[r].amount > 0
           /\ NoRecords \in [RetireIds -> [amount : Nat, status : Status]]
<1>1. blocks[id] \in Block
  BY DEF IInv, TypeOK
<1>2. blocks[id].amount \in Nat
  BY <1>1 DEF IInv, RangesTyped, Block
<1>. QED
  BY <1>1, <1>2 DEF IInv, Block, RequestsPositive, NoRecords, NoRecord, Status

LEMMA KeptFacts ==
    ASSUME NEW b \in Block, NEW n \in Nat, CanSplit(b, n)
    PROVE  /\ Kept(b, n) \in Block
           /\ Kept(b, n).first = b.first /\ Kept(b, n).last = b.last - n
           /\ Kept(b, n).amount = b.amount - n
           /\ Kept(b, n).reserved = b.reserved
           /\ Kept(b, n).notTransferred = b.notTransferred
           /\ Kept(b, n).records = b.records /\ Kept(b, n).owner = b.owner
<1>1. /\ b.first \in Nat /\ b.last \in Nat /\ b.amount \in Int
      /\ b.last - n \in Nat /\ b.amount - n \in Int
  BY DEF Block, CanSplit
<1>2. Kept(b, n).last = b.last - n /\ Kept(b, n).amount = b.amount - n
  BY DEF Kept, Block
<1>3. Kept(b, n) \in Block
  <2>1. \A x \in Nat, y \in Int : [b EXCEPT !.last = x, !.amount = y] \in Block
    BY DEF Block
  <2>. QED
    BY <1>1, <2>1 DEF Kept
<1>. QED
  BY <1>2, <1>3 DEF Kept, Block

LEMMA RecordFacts ==
    ASSUME NEW b \in Block, NEW r \in RetireIds,
           NEW rec \in [amount : Nat, status : Status]
    PROVE  LET recs == [b.records EXCEPT ![r] = rec]
           IN  /\ recs \in [RetireIds -> [amount : Nat, status : Status]]
               /\ recs[r] = rec
               /\ \A q \in RetireIds : q # r => recs[q] = b.records[q]
  BY DEF Block

LEMMA SettledFacts ==
    ASSUME NEW b \in Block, NEW r \in RetireIds, NEW outcome \in Status
    PROVE  /\ Settled(b, r, outcome)
                 \in [RetireIds -> [amount : Nat, status : Status]]
           /\ Settled(b, r, outcome)[r].amount = b.records[r].amount
           /\ Settled(b, r, outcome)[r].status = outcome
           /\ \A q \in RetireIds :
                 q # r => Settled(b, r, outcome)[q] = b.records[q]
  BY DEF Settled, Block

LEMMA TransferShape ==
    ASSUME IInv, NEW id \in DOMAIN blocks, NEW from \in Companies,
           NEW to \in Companies, NEW n \in 1 .. blocks[id].amount,
           TransferCredits(id, n, from, to)
    PROVE  \/ \E b \in Block :
                /\ Rewritten(id, b) /\ n = b.amount
                /\ blocks[id].reserved = 0 /\ b.reserved = 0
                /\ b.records = blocks[id].records
                /\ b.owner = to /\ b.notTransferred = FALSE
           \/ \E kept, cut \in Block :
                /\ Divided(id, n, kept, cut)
                /\ kept.reserved = blocks[id].reserved
                /\ kept.records = blocks[id].records
                /\ cut.owner = to /\ cut.records = NoRecords
<1>1. n \in Nat /\ n > 0
  BY BlockFacts
<1>2. CASE TransferWhole(id, n, to)
  <2> DEFINE b == [blocks[id] EXCEPT !.owner = to, !.notTransferred = FALSE]
  <2>1. blocks' = [blocks EXCEPT ![id] = b]
    BY <1>2 DEF TransferWhole
  <2>2. /\ b \in Block /\ b.first = blocks[id].first /\ b.last = blocks[id].last
        /\ b.amount = blocks[id].amount /\ b.records = blocks[id].records
        /\ b.reserved = blocks[id].reserved
        /\ b.owner = to /\ b.notTransferred = FALSE
    BY BlockFacts DEF Block
  <2> HIDE DEF b
  <2>3. blocks[id].reserved = 0 /\ n = blocks[id].amount
    BY <1>2, BlockFacts DEF TransferWhole, Unreserved
  <2>. QED
    BY <2>1, <2>2, <2>3 DEF Rewritten
<1>3. CASE TransferPart(id, n, to)
  <2> DEFINE kept == Kept(blocks[id], n)
             cut == CutOff(blocks[id], n, to, NoRecords)
  <2>1. CanSplit(blocks[id], n) /\ blocks' = Revise(Split(id, kept, cut))
    BY <1>3 DEF TransferPart
  <2>2. /\ kept \in Block /\ kept.first = blocks[id].first
        /\ kept.last = blocks[id].last - n /\ kept.amount = blocks[id].amount - n
        /\ kept.reserved = blocks[id].reserved
        /\ kept.notTransferred = blocks[id].notTransferred
        /\ kept.records = blocks[id].records /\ kept.owner = blocks[id].owner
    BY <1>1, <2>1, BlockFacts, KeptFacts
  <2>3. /\ cut \in Block /\ cut.first = SecondStart(blocks[id], n)
        /\ cut.last = blocks[id].last /\ cut.amount = n
        /\ cut.notTransferred = FALSE /\ cut.reserved = 0
        /\ cut.owner = to /\ cut.records = NoRecords
    BY <1>1, <2>1, BlockFacts DEF CutOff, Block, CanSplit, SecondStart
  <2> HIDE DEF kept, cut
  <2>. QED
    BY <2>1, <2>2, <2>3 DEF Divided
<1>. QED
  BY <1>2, <1>3 DEF TransferCredits

LEMMA RequestShape ==
    ASSUME IInv, NEW id \in DOMAIN blocks, NEW from \in Companies,
           NEW r \in RetireIds, NEW n \in 1 .. blocks[id].amount,
           AddRetireRequest(id, n, from, r)
    PROVE  \E b \in Block :
              /\ Rewritten(id, b) /\ b.reserved = blocks[id].reserved + n
              /\ b.records = [blocks[id].records EXCEPT
                                ![r] = [amount |-> n, status |-> "PENDING"]]
              /\ b.owner = blocks[id].owner
              /\ b.notTransferred = blocks[id].notTransferred
<1> DEFINE rec == [amount |-> n, status |-> "PENDING"]
           recs == [blocks[id].records EXCEPT ![r] = rec]
           reserved == blocks[id].reserved + n
           b == [blocks[id] EXCEPT !.reserved = reserved, !.records = recs]
<1>1. n \in Nat /\ reserved \in Int
  BY BlockFacts
<1>2. blocks' = [blocks EXCEPT ![id] = b]
  BY DEF AddRetireRequest
<1>3. rec \in [amount : Nat, status : Status]
  BY <1>1 DEF Status
<1> HIDE DEF rec
<1>4. recs \in [RetireIds -> [amount : Nat, status : Status]]
  BY <1>3, BlockFacts, RecordFacts
<1> HIDE DEF recs, reserved
<1>5. /\ b \in Block /\ b.first = blocks[id].first /\ b.last = blocks[id].last
      /\ b.amount = blocks[id].amount /\ b.records = recs
      /\ b.reserved = reserved /\ b.owner = blocks[id].owner
      /\ b.notTransferred = blocks[id].notTransferred
  BY <1>1, <1>4, BlockFacts DEF Block
<1> HIDE DEF b
<1>6. b.reserved = blocks[id].reserved + n
  BY <1>5 DEF reserved
<1>7. b.records = [blocks[id].records EXCEPT
                      ![r] = [amount |-> n, status |-> "PENDING"]]
  BY <1>5 DEF recs, rec
<1>. QED
  BY <1>2, <1>5, <1>6, <1>7 DEF Rewritten

LEMMA AcceptShape ==
    ASSUME IInv, NEW id \in DOMAIN blocks, NEW r \in RetireIds,
           AcceptRetirement(id, r)
    PROVE  LET n == blocks[id].records[r].amount
               recs == Settled(blocks[id], r, "COMPLETED")
           IN  /\ n \in Nat /\ n > 0
               /\ \/ \E b \in Block :
                       /\ Rewritten(id, b) /\ n = b.amount
                       /\ blocks[id].reserved = n /\ b.reserved = 0
                       /\ b.records = recs
                       /\ b.owner = NoCompany /\ b.notTransferred = FALSE
                  \/ \E kept, cut \in Block :
                       /\ Divided(id, n, kept, cut)
                       /\ kept.reserved = blocks[id].reserved - n
                       /\ kept.records = recs
                       /\ cut.owner = NoCompany
                       /\ cut.records = [NoRecords EXCEPT ![r] = recs[r]]
<1> DEFINE n == blocks[id].records[r].amount
           recs == Settled(blocks[id], r, "COMPLETED")
<1>1. n \in Nat /\ n > 0
  BY BlockFacts DEF AcceptRetirement
<1>2. recs \in [RetireIds -> [amount : Nat, status : Status]]
  <2>1. blocks[id] \in Block /\ "COMPLETED" \in Status
    BY BlockFacts DEF Status
  <2>. QED
    BY <2>1, SettledFacts
<1>3. CASE AcceptWhole(id, r)
  <2> DEFINE c == [blocks[id] EXCEPT !.owner = NoCompany,
                                     !.notTransferred = FALSE]
             b == [c EXCEPT !.reserved = 0, !.records = recs]
  <2>1. blocks' = [blocks EXCEPT ![id] = b]
    BY <1>3 DEF AcceptWhole, Settled
  <2> HIDE DEF recs
  <2>2. /\ c \in Block /\ c.owner = NoCompany /\ c.first = blocks[id].first
        /\ c.last = blocks[id].last /\ c.amount = blocks[id].amount
        /\ c.notTransferred = FALSE
    BY BlockFacts DEF Block
  <2> HIDE DEF c
  <2>3. b \in Block
    <3>1. \A x \in Int : [c EXCEPT !.reserved = x, !.records = recs] \in Block
      BY <1>2, <2>2 DEF Block
    <3>2. 0 \in Int
      OBVIOUS
    <3>. QED
      BY <3>1, <3>2, Zenon
  <2>4. /\ b.first = c.first /\ b.last = c.last /\ b.amount = c.amount
        /\ b.records = recs /\ b.owner = c.owner /\ b.reserved = 0
        /\ b.notTransferred = c.notTransferred
    BY <2>2 DEF Block
  <2>5. blocks[id].reserved = n /\ blocks[id].amount = n
    BY <1>3 DEF AcceptWhole, WholeBlockRequested
  <2> HIDE DEF b, n
  <2>6. Rewritten(id, b)
    BY <2>1, <2>2, <2>4 DEF Rewritten
  <2>. QED
    BY <1>1, <2>2, <2>3, <2>4, <2>5, <2>6 DEF n, recs
<1>4. CASE AcceptPart(id, r)
  <2> DEFINE done == [blocks[id] EXCEPT !.records = recs]
             reserved == blocks[id].reserved - n
             kept == [Kept(done, n) EXCEPT !.reserved = reserved]
             cutRecs == [NoRecords EXCEPT ![r] = recs[r]]
             cut == CutOff(blocks[id], n, NoCompany, cutRecs)
  <2>1. Decided(blocks[id], r, "COMPLETED") = done
    BY DEF Decided, Settled
  <2>2. recs[r] \in [amount : Nat, status : Status]
    BY <1>2
  <2> HIDE DEF recs
  <2>3. /\ done \in Block /\ done.first = blocks[id].first
        /\ done.last = blocks[id].last /\ done.amount = blocks[id].amount
        /\ done.reserved = blocks[id].reserved /\ done.records = recs
        /\ done.owner = blocks[id].owner
        /\ done.notTransferred = blocks[id].notTransferred
    BY <1>2, BlockFacts DEF Block
  <2> HIDE DEF done
  <2>4. Kept(done, n).reserved = blocks[id].reserved
    BY <2>3 DEF Kept, Block
  <2>5. CanSplit(blocks[id], n) /\ blocks' = Revise(Split(id, kept, cut))
    BY <1>4, <2>1, <2>3, <2>4 DEF AcceptPart, CutOff, SecondStart
  <2>6. /\ Kept(done, n) \in Block /\ Kept(done, n).first = blocks[id].first
        /\ Kept(done, n).last = blocks[id].last - n
        /\ Kept(done, n).amount = blocks[id].amount - n
        /\ Kept(done, n).records = recs /\ Kept(done, n).owner = done.owner
        /\ Kept(done, n).notTransferred = done.notTransferred
    BY <1>1, <2>3, <2>5, KeptFacts DEF CanSplit
  <2>7. reserved \in Int
    BY <1>1, BlockFacts
  <2> HIDE DEF reserved
  <2>8. /\ kept \in Block /\ kept.first = blocks[id].first
        /\ kept.last = blocks[id].last - n /\ kept.amount = blocks[id].amount - n
        /\ kept.records = recs /\ kept.owner = blocks[id].owner
        /\ kept.reserved = reserved
        /\ kept.notTransferred = blocks[id].notTransferred
    BY <2>3, <2>6, <2>7 DEF Block
  <2>9. cutRecs \in [RetireIds -> [amount : Nat, status : Status]]
    BY <2>2, BlockFacts DEF NoRecords, NoRecord
  <2> HIDE DEF cutRecs
  <2>10. /\ cut \in Block /\ cut.first = SecondStart(blocks[id], n)
         /\ cut.last = blocks[id].last /\ cut.amount = n /\ cut.records = cutRecs
         /\ cut.owner = NoCompany /\ cut.reserved = 0
         /\ cut.notTransferred = FALSE
    BY <1>1, <2>5, <2>9, BlockFacts DEF CutOff, Block, CanSplit, SecondStart
  <2> HIDE DEF kept, cut, n
  <2>11. Divided(id, n, kept, cut)
    BY <2>5, <2>8, <2>10 DEF Divided
  <2>. QED
    BY <1>1, <2>8, <2>10, <2>11 DEF n, recs, reserved, cutRecs
<1>. QED
  BY <1>1, <1>3, <1>4 DEF AcceptRetirement

LEMMA DeclineShape ==
    ASSUME IInv, NEW id \in DOMAIN blocks, NEW r \in RetireIds,
           NEW status \in Status, status # "PENDING",
           DeclineRetirement(id, r, status)
    PROVE  \E b \in Block :
              /\ Rewritten(id, b)
              /\ b.reserved = blocks[id].reserved - blocks[id].records[r].amount
              /\ b.records = Settled(blocks[id], r, status)
              /\ b.owner = blocks[id].owner
              /\ b.notTransferred = blocks[id].notTransferred
<1> DEFINE recs == Settled(blocks[id], r, status)
           reserved == blocks[id].reserved - blocks[id].records[r].amount
           b == [blocks[id] EXCEPT !.reserved = reserved, !.records = recs]
<1>1. blocks' = [blocks EXCEPT ![id] = b]
  BY DEF DeclineRetirement, Settled
<1>2. /\ recs \in [RetireIds -> [amount : Nat, status : Status]]
      /\ reserved \in Int
  <2>1. blocks[id] \in Block
    BY BlockFacts
  <2>2. recs \in [RetireIds -> [amount : Nat, status : Status]]
    BY <2>1, SettledFacts
  <2>3. reserved \in Int
    BY BlockFacts
  <2>. QED
    BY <2>2, <2>3
<1> HIDE DEF recs, reserved
<1>3. /\ b \in Block /\ b.first = blocks[id].first /\ b.last = blocks[id].last
      /\ b.amount = blocks[id].amount /\ b.records = recs
      /\ b.owner = blocks[id].owner /\ b.reserved = reserved
      /\ b.notTransferred = blocks[id].notTransferred
  BY <1>2, BlockFacts DEF Block
<1> HIDE DEF b
<1>4. Rewritten(id, b)
  BY <1>1, <1>3 DEF Rewritten
<1>. QED
  BY <1>3, <1>4 DEF recs, reserved

-----------------------------------------------------------------------------
(* The other actions keep the invariant of the serial ranges                *)

LEMMA TransferIInv ==
    ASSUME IInv, NEW id \in DOMAIN blocks, NEW from \in Companies,
           NEW to \in Companies, NEW n \in 1 .. blocks[id].amount,
           TransferCredits(id, n, from, to)
    PROVE  IInv' /\ RetiredStays
<1>1. n \in Nat /\ n > 0
  BY BlockFacts
<1>2. /\ project' \in [Projects -> ProjectRow]
      /\ \A p \in Projects : project'[p].issued = project[p].issued
      /\ UNCHANGED <<activity, account>>
  BY <1>1, ProjectMovesFacts DEF TransferCredits
<1>3. blocks[id].owner # NoCompany
  BY ConstantsAssumption DEF TransferCredits
<1>4. ASSUME NEW b \in Block, Rewritten(id, b), b.records = blocks[id].records
      PROVE  IInv' /\ RetiredStays
  <2>1. \A r \in RetireIds :
          b.records[r].status = "PENDING" => b.records[r].amount > 0
    BY <1>4, BlockFacts
  <2>. QED
    BY <1>2, <1>3, <1>4, <2>1, SameRange DEF Rewritten
<1>5. ASSUME NEW kept \in Block, NEW cut \in Block, Divided(id, n, kept, cut),
             kept.records = blocks[id].records, cut.records = NoRecords
      PROVE  IInv' /\ RetiredStays
  <2>1. \A r \in RetireIds :
          kept.records[r].status = "PENDING" => kept.records[r].amount > 0
    BY <1>5, BlockFacts
  <2>2. \A r \in RetireIds : cut.records[r].status # "PENDING"
    BY <1>5 DEF NoRecords, NoRecord
  <2>. QED
    BY <1>1, <1>2, <1>3, <1>5, <2>1, <2>2, SplitRange DEF Divided
<1>. QED
  BY <1>4, <1>5, TransferShape

LEMMA RequestIInv ==
    ASSUME IInv, NEW id \in DOMAIN blocks, NEW from \in Companies,
           NEW r \in RetireIds, NEW n \in 1 .. blocks[id].amount,
           AddRetireRequest(id, n, from, r)
    PROVE  IInv' /\ RetiredStays
<1>1. PICK b \in Block :
        /\ Rewritten(id, b) /\ b.owner = blocks[id].owner
        /\ b.records = [blocks[id].records EXCEPT
                          ![r] = [amount |-> n, status |-> "PENDING"]]
  BY RequestShape
<1>2. \A q \in RetireIds :
        b.records[q].status = "PENDING" => b.records[q].amount > 0
  BY <1>1, BlockFacts DEF Block
<1>3. UNCHANGED <<project, activity, account>>
  BY DEF AddRetireRequest
<1>4. project' \in [Projects -> ProjectRow]
  BY <1>3 DEF IInv, TypeOK
<1>. QED
  BY <1>1, <1>2, <1>3, <1>4, SameRange DEF Rewritten

LEMMA AcceptIInv ==
    ASSUME IInv, NEW id \in DOMAIN blocks, NEW r \in RetireIds,
           AcceptRetirement(id, r)
    PROVE  IInv' /\ RetiredStays
<1> DEFINE n == blocks[id].records[r].amount
           recs == Settled(blocks[id], r, "COMPLETED")
<1>1. n \in Nat /\ n > 0
  BY AcceptShape
<1>2. /\ project' \in [Projects -> ProjectRow]
      /\ \A p \in Projects : project'[p].issued = project[p].issued
      /\ UNCHANGED <<activity, account>>
  BY <1>1, ProjectMovesFacts DEF AcceptRetirement
<1>3. /\ recs[r].status # "PENDING"
      /\ \A q \in RetireIds : recs[q].status = "PENDING" => recs[q].amount > 0
  <2>1. blocks[id] \in Block
    BY BlockFacts
  <2>2. "COMPLETED" \in Status
    BY DEF Status
  <2>3. /\ recs[r].amount = n /\ recs[r].status = "COMPLETED"
        /\ \A q \in RetireIds : q # r => recs[q] = blocks[id].records[q]
    BY <2>1, <2>2, SettledFacts
  <2> HIDE DEF recs, n
  <2>. QED
    BY <2>3, BlockFacts
<1>4. ASSUME NEW b \in Block, Rewritten(id, b), b.owner = NoCompany,
             b.records = recs
      PROVE  IInv' /\ RetiredStays
  BY <1>2, <1>3, <1>4, SameRange DEF Rewritten
<1>5. ASSUME NEW kept \in Block, NEW cut \in Block, Divided(id, n, kept, cut),
             kept.records = recs, cut.owner = NoCompany,
             cut.records = [NoRecords EXCEPT ![r] = recs[r]]
      PROVE  IInv' /\ RetiredStays
  <2>1. \A q \in RetireIds : cut.records[q].status # "PENDING"
    BY <1>3, <1>5 DEF NoRecords, NoRecord
  <2>2. \A q \in RetireIds :
          kept.records[q].status = "PENDING" => kept.records[q].amount > 0
    BY <1>3, <1>5
  <2>3. blocks[id].owner = NoCompany =>
            kept.owner = NoCompany /\ cut.owner = NoCompany
    BY <1>5 DEF Divided
  <2>4. Divided(id, n, kept, cut)
    BY <1>5
  <2> HIDE DEF n, recs
  <2>. QED
    BY <1>1, <1>2, <2>1, <2>2, <2>3, <2>4, SplitRange DEF Divided
<1>6. \/ \E b \in Block :
            /\ Rewritten(id, b) /\ n = b.amount
            /\ blocks[id].reserved = n /\ b.reserved = 0
            /\ b.records = recs
            /\ b.owner = NoCompany /\ b.notTransferred = FALSE
      \/ \E kept, cut \in Block :
            /\ Divided(id, n, kept, cut)
            /\ kept.reserved = blocks[id].reserved - n
            /\ kept.records = recs
            /\ cut.owner = NoCompany
            /\ cut.records = [NoRecords EXCEPT ![r] = recs[r]]
  BY AcceptShape
<1> HIDE DEF n, recs
<1>. QED
  BY <1>4, <1>5, <1>6

LEMMA DeclineIInv ==
    ASSUME IInv, NEW id \in DOMAIN blocks, NEW r \in RetireIds,
           NEW status \in Status, status # "PENDING",
           DeclineRetirement(id, r, status)
    PROVE  IInv' /\ RetiredStays
<1>1. PICK b \in Block :
        /\ Rewritten(id, b) /\ b.owner = blocks[id].owner
        /\ b.records = Settled(blocks[id], r, status)
  BY DeclineShape
<1>2. \A q \in RetireIds :
        b.records[q].status = "PENDING" => b.records[q].amount > 0
  <2>1. blocks[id] \in Block
    BY BlockFacts
  <2>2. /\ b.records[r].status = status
        /\ \A q \in RetireIds : q # r => b.records[q] = blocks[id].records[q]
    BY <1>1, <2>1, SettledFacts
  <2>. QED
    BY <2>2, BlockFacts
<1>3. UNCHANGED <<project, activity, account>>
  BY DEF DeclineRetirement
<1>4. project' \in [Projects -> ProjectRow]
  BY <1>3 DEF IInv, TypeOK
<1>. QED
  BY <1>1, <1>2, <1>3, <1>4, SameRange DEF Rewritten

-----------------------------------------------------------------------------
(* The requests of a block: reservedCreditAmount is their sum, so a block   *)
(* that changes hands as a whole has no pending request left.               *)

ReservesPending(b) ==
    /\ IsFiniteSet(Pending(b))
    /\ b.reserved <= b.amount
    /\ b.reserved = SumFunction(PendingAmounts(b))

RequestsInv == \A id \in DOMAIN blocks : ReservesPending(blocks[id])

\* What PendingKeepsOwner asks of a step.
OwnerStays ==
    \A id \in DOMAIN blocks, r \in RetireIds :
        (/\ blocks[id].records[r].status = "PENDING"
         /\ blocks'[id].records[r].status = "PENDING")
        => blocks'[id].owner = blocks[id].owner

LEMMA NothingPending ==
    ASSUME NEW b, 0 <= b.amount, b.reserved = 0,
           \A r \in RetireIds : b.records[r].status # "PENDING"
    PROVE  ReservesPending(b)
<1>1. Pending(b) = {}
  BY DEF Pending
<1>2. IsFiniteSet(Pending(b))
  BY <1>1, FS_EmptySet
<1>3. DOMAIN PendingAmounts(b) = {}
  BY <1>1 DEF PendingAmounts
<1>4. SumFunction(PendingAmounts(b)) = 0
  BY <1>3, SumEmpty
<1>. QED
  BY <1>2, <1>4 DEF ReservesPending

LEMMA PendingFacts ==
    ASSUME NEW b \in Block, ReservesPending(b)
    PROVE  /\ DOMAIN PendingAmounts(b) = Pending(b)
           /\ Pending(b) \subseteq RetireIds
           /\ \A r \in Pending(b) : PendingAmounts(b)[r] = b.records[r].amount
           /\ \A r \in Pending(b) : PendingAmounts(b)[r] \in Nat
           /\ \A r \in RetireIds :
                 r \in Pending(b) <=> b.records[r].status = "PENDING"
  BY DEF PendingAmounts, Pending, Block

LEMMA PendingBound ==
    ASSUME NEW b \in Block, ReservesPending(b), NEW r \in Pending(b)
    PROVE  /\ b.records[r].amount <= b.reserved
           /\ \A q \in Pending(b) \ {r} :
                 b.records[r].amount + b.records[q].amount <= b.reserved
<1> DEFINE g == PendingAmounts(b)
<1>1. /\ DOMAIN g = Pending(b) /\ IsFiniteSet(DOMAIN g)
      /\ \A q \in DOMAIN g : g[q] = b.records[q].amount /\ g[q] \in Nat
      /\ b.reserved = SumFunction(g)
  BY PendingFacts DEF ReservesPending
<1> HIDE DEF g
<1>2. g[r] <= SumFunction(g)
  BY <1>1, SumBound
<1>3. ASSUME NEW q \in Pending(b) \ {r}
      PROVE  g[r] + g[q] <= SumFunction(g)
  <2> DEFINE h == Without(g, r)
  <2>1. SumFunction(g) = g[r] + SumFunction(h)
    BY <1>1, SumRemove
  <2>2. /\ DOMAIN h = DOMAIN g \ {r} /\ IsFiniteSet(DOMAIN h)
        /\ \A x \in DOMAIN h : h[x] = g[x] /\ h[x] \in Nat
    BY <1>1, FS_RemoveElement DEF Without
  <2> HIDE DEF h
  <2>3. h[q] <= SumFunction(h) /\ h[q] = g[q]
    BY <1>1, <2>2, SumBound
  <2>4. SumFunction(h) \in Nat
    BY <2>2, SumType
  <2>. QED
    BY <1>1, <2>1, <2>2, <2>3, <2>4
<1>. QED
  BY <1>1, <1>2, <1>3

LEMMA AfterRequest ==
    ASSUME NEW b \in Block, ReservesPending(b), NEW r \in RetireIds,
           b.records[r].status # "PENDING",
           NEW n \in Nat, n <= b.amount - b.reserved,
           NEW c \in Block, c.amount = b.amount, c.reserved = b.reserved + n,
           c.records = [b.records EXCEPT
                          ![r] = [amount |-> n, status |-> "PENDING"]]
    PROVE  ReservesPending(c)
<1>1. /\ c.records[r].amount = n /\ c.records[r].status = "PENDING"
      /\ \A q \in RetireIds : q # r => c.records[q] = b.records[q]
  BY DEF Block
<1>2. Pending(c) = Pending(b) \cup {r} /\ r \notin Pending(b)
  BY <1>1 DEF Pending
<1>3. IsFiniteSet(Pending(c))
  BY <1>2, FS_AddElement DEF ReservesPending
<1> DEFINE g == PendingAmounts(c)
<1>4. DOMAIN g = Pending(c) /\ \A q \in Pending(c) : g[q] = c.records[q].amount
  BY DEF PendingAmounts
<1>5. /\ r \in DOMAIN g /\ g[r] = n
      /\ \A q \in DOMAIN g : g[q] \in Int
  BY <1>1, <1>2, <1>4 DEF Pending, Block
<1>6. Without(g, r) = PendingAmounts(b)
  <2>1. DOMAIN g \ {r} = Pending(b)
    BY <1>2, <1>4
  <2>2. \A q \in Pending(b) : g[q] = b.records[q].amount
    BY <1>1, <1>2, <1>4 DEF Pending
  <2> HIDE DEF g
  <2>. QED
    BY <2>1, <2>2 DEF Without, PendingAmounts
<1> HIDE DEF g
<1>7. SumFunction(g) = n + SumFunction(PendingAmounts(b))
  BY <1>3, <1>4, <1>5, <1>6, SumRemove
<1>8. b.reserved \in Int /\ b.amount \in Int
  BY DEF Block
<1>. QED
  BY <1>3, <1>7, <1>8 DEF ReservesPending, g

LEMMA AfterSettled ==
    ASSUME NEW b \in Block, ReservesPending(b), NEW r \in RetireIds,
           b.records[r].status = "PENDING",
           NEW status \in Status, status # "PENDING",
           NEW c \in Block, c.records = Settled(b, r, status),
           c.reserved = b.reserved - b.records[r].amount,
           c.reserved <= c.amount
    PROVE  ReservesPending(c)
<1>1. /\ c.records[r].status # "PENDING"
      /\ \A q \in RetireIds : q # r => c.records[q] = b.records[q]
  BY SettledFacts
<1>2. Pending(c) = Pending(b) \ {r} /\ r \in Pending(b)
  BY <1>1 DEF Pending
<1>3. IsFiniteSet(Pending(c))
  BY <1>2, FS_RemoveElement DEF ReservesPending
<1> DEFINE g == PendingAmounts(b)
<1>4. /\ DOMAIN g = Pending(b) /\ IsFiniteSet(DOMAIN g)
      /\ \A q \in DOMAIN g : g[q] = b.records[q].amount /\ g[q] \in Nat
      /\ b.reserved = SumFunction(g)
  BY PendingFacts DEF ReservesPending
<1> HIDE DEF g
<1>5. Without(g, r) = PendingAmounts(c)
  <2>1. DOMAIN g \ {r} = Pending(c)
    BY <1>2, <1>4
  <2>2. \A q \in Pending(c) : g[q] = c.records[q].amount
    BY <1>1, <1>2, <1>4 DEF Pending
  <2>. QED
    BY <2>1, <2>2 DEF Without, PendingAmounts
<1>6. SumFunction(g) = g[r] + SumFunction(PendingAmounts(c))
  BY <1>2, <1>4, <1>5, SumRemove
<1>7. SumFunction(PendingAmounts(c)) \in Nat
  <2>1. /\ DOMAIN PendingAmounts(c) = Pending(c)
        /\ \A q \in Pending(c) : PendingAmounts(c)[q] \in Nat
    BY DEF PendingAmounts, Pending, Block
  <2>. QED
    BY <1>3, <2>1, SumType
<1>8. g[r] = b.records[r].amount /\ g[r] \in Nat
  BY <1>2, <1>4
<1>9. c.reserved = SumFunction(PendingAmounts(c))
  BY <1>4, <1>6, <1>7, <1>8
<1>. QED
  BY <1>3, <1>9 DEF ReservesPending

LEMMA SameRequests ==
    ASSUME NEW b, ReservesPending(b), NEW c, c.records = b.records,
           c.reserved = b.reserved, c.reserved <= c.amount
    PROVE  ReservesPending(c)
<1>1. Pending(c) = Pending(b)
  BY DEF Pending
<1>2. PendingAmounts(c) = PendingAmounts(b)
  BY <1>1 DEF PendingAmounts
<1>. QED
  BY <1>1, <1>2 DEF ReservesPending

\* From the row a call rewrites, or the two it leaves, to all rows.
LEMMA RewrittenRequests ==
    ASSUME RequestsInv, NEW id \in DOMAIN blocks, NEW b, Rewritten(id, b),
           ReservesPending(b),
           \A r \in RetireIds :
              (/\ blocks[id].records[r].status = "PENDING"
               /\ b.records[r].status = "PENDING")
              => b.owner = blocks[id].owner
    PROVE  RequestsInv' /\ OwnerStays
<1>1. /\ DOMAIN blocks' = DOMAIN blocks
      /\ \A i \in DOMAIN blocks : blocks'[i] = IF i = id THEN b ELSE blocks[i]
  BY DEF Rewritten
<1>2. \A i \in DOMAIN blocks' : ReservesPending(blocks'[i])
  BY <1>1 DEF RequestsInv
<1>3. RequestsInv'
  BY <1>2 DEF RequestsInv, ReservesPending, Pending, PendingAmounts
<1>4. OwnerStays
  BY <1>1 DEF OwnerStays
<1>. QED
  BY <1>3, <1>4

LEMMA DividedRequests ==
    ASSUME IInv, RequestsInv, NEW id \in DOMAIN blocks,
           NEW n \in Nat, n > 0, NEW kept, NEW cut, Divided(id, n, kept, cut),
           ReservesPending(kept), ReservesPending(cut)
    PROVE  RequestsInv' /\ OwnerStays
<1> DEFINE new == <<id[1], cut.first>>
<1>1. /\ new \notin DOMAIN blocks /\ new # id
      /\ DOMAIN blocks' = DOMAIN blocks \cup {new}
      /\ blocks'[id] = kept /\ blocks'[new] = cut
      /\ \A i \in DOMAIN blocks : i # id => blocks'[i] = blocks[i]
      /\ blocks' = [i \in DOMAIN blocks' |-> blocks'[i]]
  BY SplitRows DEF Divided
<1>2. \A i \in DOMAIN blocks' : ReservesPending(blocks'[i])
  BY <1>1 DEF RequestsInv
<1>3. RequestsInv'
  BY <1>2 DEF RequestsInv, ReservesPending, Pending, PendingAmounts
<1>4. kept.owner = blocks[id].owner
  BY DEF Divided
<1> HIDE DEF new
<1>5. OwnerStays
  BY <1>1, <1>4 DEF OwnerStays
<1>. QED
  BY <1>3, <1>5

LEMMA IssueRequests ==
    ASSUME IInv, IInv', RequestsInv, NEW p, OnlyNewBlocks(p)
    PROVE  RequestsInv' /\ OwnerStays
<1>1. ASSUME NEW i \in DOMAIN blocks' PROVE ReservesPending(blocks'[i])
  <2>1. CASE i \in DOMAIN blocks
    BY <2>1 DEF RequestsInv, OnlyNewBlocks
  <2>2. CASE i \notin DOMAIN blocks
    <3>1. blocks'[i].reserved = 0 /\ blocks'[i].records = NoRecords
      BY <2>2 DEF OnlyNewBlocks
    <3>2. \A r \in RetireIds : blocks'[i].records[r].status # "PENDING"
      BY <3>1 DEF NoRecords, NoRecord
    <3>3. 0 <= blocks'[i].amount
      BY DEF IInv, TypeOK, RangesTyped, Block
    <3>. QED
      BY <3>1, <3>2, <3>3, NothingPending
  <2>. QED
    BY <2>1, <2>2
<1>2. RequestsInv'
  BY <1>1 DEF RequestsInv, ReservesPending, Pending, PendingAmounts
<1>. QED
  BY <1>2 DEF OwnerStays, OnlyNewBlocks

LEMMA TransferRequests ==
    ASSUME IInv, RequestsInv, NEW id \in DOMAIN blocks, NEW from \in Companies,
           NEW to \in Companies, NEW n \in 1 .. blocks[id].amount,
           TransferCredits(id, n, from, to)
    PROVE  RequestsInv' /\ OwnerStays
<1>1. /\ blocks[id] \in Block /\ ReservesPending(blocks[id])
      /\ n \in Nat /\ n > 0 /\ n <= blocks[id].amount - blocks[id].reserved
      /\ blocks[id].amount \in Nat /\ blocks[id].reserved \in Int
  BY BlockFacts DEF RequestsInv, TransferCredits, Unreserved
<1>2. ASSUME NEW b \in Block, Rewritten(id, b), blocks[id].reserved = 0,
             b.reserved = 0, b.records = blocks[id].records
      PROVE  RequestsInv' /\ OwnerStays
  <2>1. b.reserved <= b.amount
    BY <1>1, <1>2 DEF Rewritten
  <2>2. ReservesPending(b)
    BY <1>1, <1>2, <2>1, SameRequests
  <2>3. ASSUME NEW r \in RetireIds, blocks[id].records[r].status = "PENDING"
        PROVE  FALSE
    <3>1. r \in Pending(blocks[id])
      BY <2>3 DEF Pending
    <3>2. blocks[id].records[r].amount <= 0
      BY <1>1, <1>2, <3>1, PendingBound
    <3>. QED
      BY <2>3, <3>2, BlockFacts
  <2>. QED
    BY <1>2, <2>2, <2>3, RewrittenRequests
<1>3. ASSUME NEW kept \in Block, NEW cut \in Block, Divided(id, n, kept, cut),
             kept.reserved = blocks[id].reserved,
             kept.records = blocks[id].records, cut.records = NoRecords
      PROVE  RequestsInv' /\ OwnerStays
  <2>1. kept.reserved <= kept.amount
    BY <1>1, <1>3 DEF Divided
  <2>2. ReservesPending(kept)
    BY <1>1, <1>3, <2>1, SameRequests
  <2>3. cut.reserved = 0 /\ 0 <= cut.amount
    BY <1>1, <1>3 DEF Divided
  <2>4. \A r \in RetireIds : cut.records[r].status # "PENDING"
    BY <1>3 DEF NoRecords, NoRecord
  <2>5. ReservesPending(cut)
    BY <2>3, <2>4, NothingPending
  <2>. QED
    BY <1>1, <1>3, <2>2, <2>5, DividedRequests
<1>. QED
  BY <1>2, <1>3, TransferShape

LEMMA RequestRequests ==
    ASSUME IInv, RequestsInv, NEW id \in DOMAIN blocks, NEW from \in Companies,
           NEW r \in RetireIds, UnusedRetireId(r),
           NEW n \in 1 .. blocks[id].amount, AddRetireRequest(id, n, from, r)
    PROVE  RequestsInv' /\ OwnerStays
<1>1. /\ blocks[id] \in Block /\ ReservesPending(blocks[id])
      /\ n \in Nat /\ n <= blocks[id].amount - blocks[id].reserved
      /\ blocks[id].records[r].status # "PENDING"
  BY BlockFacts DEF RequestsInv, AddRetireRequest, Unreserved, UnusedRetireId
<1>2. PICK b \in Block :
        /\ Rewritten(id, b) /\ b.reserved = blocks[id].reserved + n
        /\ b.records = [blocks[id].records EXCEPT
                          ![r] = [amount |-> n, status |-> "PENDING"]]
        /\ b.owner = blocks[id].owner
  BY RequestShape
<1>3. b.amount = blocks[id].amount
  BY <1>2 DEF Rewritten
<1>4. ReservesPending(b)
  BY <1>1, <1>2, <1>3, AfterRequest
<1>. QED
  BY <1>2, <1>4, RewrittenRequests

LEMMA AcceptRequests ==
    ASSUME IInv, RequestsInv, NEW id \in DOMAIN blocks, NEW r \in RetireIds,
           AcceptRetirement(id, r)
    PROVE  RequestsInv' /\ OwnerStays
<1> DEFINE n == blocks[id].records[r].amount
           recs == Settled(blocks[id], r, "COMPLETED")
<1>1. /\ blocks[id] \in Block /\ ReservesPending(blocks[id])
      /\ blocks[id].records[r].status = "PENDING" /\ r \in Pending(blocks[id])
      /\ "COMPLETED" \in Status
  BY BlockFacts DEF RequestsInv, AcceptRetirement, Pending, Status
<1>2. /\ n \in Nat /\ n > 0
      /\ \/ \E b \in Block :
              /\ Rewritten(id, b) /\ n = b.amount
              /\ blocks[id].reserved = n /\ b.reserved = 0
              /\ b.records = recs
              /\ b.owner = NoCompany /\ b.notTransferred = FALSE
         \/ \E kept, cut \in Block :
              /\ Divided(id, n, kept, cut)
              /\ kept.reserved = blocks[id].reserved - n
              /\ kept.records = recs
              /\ cut.owner = NoCompany
              /\ cut.records = [NoRecords EXCEPT ![r] = recs[r]]
  BY AcceptShape
<1>3. /\ recs[r].status = "COMPLETED"
      /\ \A q \in RetireIds : q # r => recs[q] = blocks[id].records[q]
  BY <1>1, SettledFacts
<1>4. ASSUME NEW b \in Block, Rewritten(id, b), n = b.amount,
             blocks[id].reserved = n, b.reserved = 0, b.records = recs
      PROVE  RequestsInv' /\ OwnerStays
  <2>1. /\ b.reserved = blocks[id].reserved - blocks[id].records[r].amount
        /\ b.reserved <= b.amount
    BY <1>2, <1>4
  <2>2. ReservesPending(b)
    BY <1>1, <1>4, <2>1, AfterSettled
  <2>3. ASSUME NEW q \in RetireIds, blocks[id].records[q].status = "PENDING",
               b.records[q].status = "PENDING"
        PROVE  FALSE
    <3>1. q \in Pending(blocks[id]) \ {r}
      BY <1>3, <1>4, <2>3 DEF Pending
    <3>2. n + blocks[id].records[q].amount <= n
      BY <1>1, <1>4, <3>1, PendingBound
    <3> HIDE DEF n
    <3>. QED
      BY <1>2, <2>3, <3>2, BlockFacts
  <2>. QED
    BY <1>4, <2>2, <2>3, RewrittenRequests
<1>5. ASSUME NEW kept \in Block, NEW cut \in Block, Divided(id, n, kept, cut),
             kept.reserved = blocks[id].reserved - n, kept.records = recs,
             cut.records = [NoRecords EXCEPT ![r] = recs[r]]
      PROVE  RequestsInv' /\ OwnerStays
  <2>1. /\ kept.reserved = blocks[id].reserved - blocks[id].records[r].amount
        /\ kept.reserved <= kept.amount
    BY <1>1, <1>2, <1>5, BlockFacts DEF Divided, ReservesPending
  <2>2. ReservesPending(kept)
    BY <1>1, <1>5, <2>1, AfterSettled
  <2>3. cut.reserved = 0 /\ 0 <= cut.amount
    BY <1>2, <1>5 DEF Divided
  <2>4. \A q \in RetireIds : cut.records[q].status # "PENDING"
    BY <1>3, <1>5 DEF NoRecords, NoRecord
  <2>5. ReservesPending(cut)
    BY <2>3, <2>4, NothingPending
  <2> HIDE DEF n
  <2>. QED
    BY <1>2, <1>5, <2>2, <2>5, DividedRequests
<1> HIDE DEF n, recs
<1>. QED
  BY <1>2, <1>4, <1>5

LEMMA DeclineRequests ==
    ASSUME IInv, RequestsInv, NEW id \in DOMAIN blocks, NEW r \in RetireIds,
           NEW status \in Status, status # "PENDING",
           DeclineRetirement(id, r, status)
    PROVE  RequestsInv' /\ OwnerStays
<1>1. /\ blocks[id] \in Block /\ ReservesPending(blocks[id])
      /\ blocks[id].records[r].status = "PENDING"
  BY BlockFacts DEF RequestsInv, DeclineRetirement
<1>2. PICK b \in Block :
        /\ Rewritten(id, b) /\ b.owner = blocks[id].owner
        /\ b.reserved = blocks[id].reserved - blocks[id].records[r].amount
        /\ b.records = Settled(blocks[id], r, status)
  BY DeclineShape
<1>3. b.reserved <= b.amount
  BY <1>1, <1>2, BlockFacts DEF Rewritten, ReservesPending
<1>4. ReservesPending(b)
  BY <1>1, <1>2, <1>3, AfterSettled
<1>. QED
  BY <1>2, <1>4, RewrittenRequests

LEMMA StepRequests ==
    IInv /\ RequestsInv /\ [Next]_vars => RequestsInv' /\ OwnerStays
<1> SUFFICES ASSUME IInv, RequestsInv, [Next]_vars
             PROVE  RequestsInv' /\ OwnerStays
  OBVIOUS
<1>1. CASE Issue
  <2>1. PICK a \in Activities, batch \in Batches : IssueCredits(a, batch)
    BY <1>1 DEF Issue
  <2>2. IInv' /\ OnlyNewBlocks(ActivityProject[a])
    BY <2>1, IssueIInv
  <2>. QED
    BY <2>2, IssueRequests
<1>2. CASE Transfer
  BY <1>2, TransferRequests DEF Transfer
<1>3. CASE RequestRetirement
  BY <1>3, RequestRequests DEF RequestRetirement
<1>4. CASE Accept
  BY <1>4, AcceptRequests DEF Accept
<1>5. CASE Decline
  <2>1. PICK id \in DOMAIN blocks, r \in RetireIds,
             status \in {"REJECTED", "CANCELLED"} : DeclineRetirement(id, r, status)
    BY <1>5 DEF Decline
  <2>2. status \in Status /\ status # "PENDING"
    BY DEF Status
  <2>. QED
    BY <2>1, <2>2, DeclineRequests
<1>6. CASE UNCHANGED vars
  <2>1. blocks' = blocks
    BY <1>6 DEF vars
  <2>. QED
    BY <2>1 DEF RequestsInv, ReservesPending, Pending, PendingAmounts, OwnerStays
<1>. QED
  BY <1>1, <1>2, <1>3, <1>4, <1>5, <1>6 DEF Next

-----------------------------------------------------------------------------
(* Every step keeps the invariant of the serial ranges                      *)

LEMMA InitIInv == Init => IInv
<1> SUFFICES ASSUME Init PROVE IInv
  OBVIOUS
<1>1. DOMAIN blocks = {}
  BY DEF Init
<1>2. blocks \in [DOMAIN blocks -> Block]
  BY <1>1 DEF Init
<1>3. TypeOK
  BY <1>1, <1>2 DEF Init, TypeOK, ProjectRow
<1>. QED
  BY <1>1, <1>3 DEF Init, IInv, RangesTyped, RangesDisjoint, RangesCover,
                    RequestsPositive

LEMMA StepIInv == IInv /\ [Next]_vars => IInv' /\ RetiredStays
<1> SUFFICES ASSUME IInv, [Next]_vars PROVE IInv' /\ RetiredStays
  OBVIOUS
<1>1. CASE Issue
  BY <1>1, IssueIInv DEF Issue
<1>2. CASE Transfer
  BY <1>2, TransferIInv DEF Transfer
<1>3. CASE RequestRetirement
  BY <1>3, RequestIInv DEF RequestRetirement
<1>4. CASE Accept
  BY <1>4, AcceptIInv DEF Accept
<1>5. CASE Decline
  <2>1. PICK id \in DOMAIN blocks, r \in RetireIds,
             status \in {"REJECTED", "CANCELLED"} : DeclineRetirement(id, r, status)
    BY <1>5 DEF Decline
  <2>2. status \in Status /\ status # "PENDING"
    BY DEF Status
  <2>. QED
    BY <2>1, <2>2, DeclineIInv
<1>6. CASE UNCHANGED vars
  <2>1. IInv'
    BY <1>6 DEF vars, IInv, TypeOK, RangesTyped, RangesDisjoint, RangesCover,
                RequestsPositive
  <2>2. RetiredStays
    <3>1. blocks' = blocks
      BY <1>6 DEF vars
    <3>2. \A i \in DOMAIN blocks :
             blocks[i].first \in Nat /\ blocks[i].last \in Nat
      BY DEF IInv, TypeOK, Block
    <3>. QED
      BY <3>1, <3>2 DEF RetiredStays, Serials
  <2>. QED
    BY <2>1, <2>2
<1>. QED
  BY <1>1, <1>2, <1>3, <1>4, <1>5, <1>6 DEF Next

-----------------------------------------------------------------------------
(* The serials a step moves: the whole of a block or its last ones.         *)

Taken(id, n) ==
    \/ \E b \in Block :
          Rewritten(id, b) /\ n = b.amount /\ b.notTransferred = FALSE
    \/ \E kept, cut \in Block : Divided(id, n, kept, cut)

LastSerials(id, n) == blocks[id].last - n + 1 .. blocks[id].last

\* Serial m of project p is in a block that never changed hands.
InUnmoved(p, m) ==
    \E i \in DOMAIN blocks :
        /\ i[1] = p /\ blocks[i].notTransferred
        /\ blocks[i].first <= m /\ m <= blocks[i].last

LEMMA RangeFacts ==
    ASSUME IInv, NEW id \in DOMAIN blocks
    PROVE  /\ blocks[id] \in Block /\ blocks[id].notTransferred \in BOOLEAN
           /\ blocks[id].first \in Nat \ {0} /\ blocks[id].last \in Nat
           /\ blocks[id].first <= blocks[id].last
           /\ blocks[id].amount = blocks[id].last - blocks[id].first + 1
           /\ id[1] \in Projects /\ project[id[1]] \in ProjectRow
           /\ project[id[1]].issued \in Nat
           /\ blocks[id].last <= project[id[1]].issued
<1>1. /\ blocks[id] \in Block /\ id \in Projects \X (Nat \ {0})
      /\ project \in [Projects -> ProjectRow]
  BY DEF IInv, TypeOK
<1>. QED
  BY <1>1 DEF IInv, RangesTyped, Block, ProjectRow

UnmovedMembers ==
    \A p \in Projects : \A m : m \in Unmoved(p) <=> m \in Int /\ InUnmoved(p, m)

LEMMA UnmovedByBounds == IInv => UnmovedMembers
<1> SUFFICES ASSUME IInv PROVE UnmovedMembers
  OBVIOUS
<1>1. \A i \in DOMAIN blocks : \A m :
        m \in Serials(i) <=> m \in Int /\ blocks[i].first <= m /\ m <= blocks[i].last
  BY RangeFacts DEF Serials
<1>. QED
  BY <1>1 DEF UnmovedMembers, Unmoved, BlocksOf, InUnmoved

LEMMA UnmovedFacts ==
    ASSUME IInv, NEW p \in Projects
    PROVE  /\ Unmoved(p) \subseteq 1 .. project[p].issued
           /\ project[p].issued \in Nat
           /\ IsFiniteSet(Unmoved(p)) /\ Cardinality(Unmoved(p)) \in Nat
<1>1. project[p].issued \in Nat
  BY DEF IInv, TypeOK, ProjectRow
<1>2. \A m : m \in Unmoved(p) <=> m \in Int /\ InUnmoved(p, m)
  BY UnmovedByBounds DEF UnmovedMembers
<1>3. Unmoved(p) \subseteq 1 .. project[p].issued
  <2> SUFFICES ASSUME NEW m \in Unmoved(p)
               PROVE  m \in 1 .. project[p].issued
    OBVIOUS
  <2>1. PICK i \in DOMAIN blocks :
            i[1] = p /\ blocks[i].first <= m /\ m <= blocks[i].last
    BY <1>2 DEF InUnmoved
  <2>2. m \in Int
    BY <1>2
  <2>. QED
    BY <1>1, <2>1, <2>2, RangeFacts
<1>4. IsFiniteSet(1 .. project[p].issued)
  BY <1>1, FS_Interval
<1>5. IsFiniteSet(Unmoved(p))
  BY <1>3, <1>4, FS_Subset
<1>. QED
  BY <1>1, <1>3, <1>5, FS_CardinalityType

LEMMA TakenSerials ==
    ASSUME IInv, IInv', NEW id \in DOMAIN blocks, NEW n \in Nat, n > 0,
           Taken(id, n), NEW p \in Projects
    PROVE  /\ n <= blocks[id].amount
           /\ Unmoved(p)' = IF blocks[id].notTransferred /\ p = id[1]
                            THEN Unmoved(p) \ LastSerials(id, n)
                            ELSE Unmoved(p)
<1>1. /\ blocks[id].notTransferred \in BOOLEAN
      /\ blocks[id].first \in Nat \ {0} /\ blocks[id].last \in Nat
      /\ blocks[id].first <= blocks[id].last
      /\ blocks[id].amount = blocks[id].last - blocks[id].first + 1
  BY RangeFacts
<1>2. \A i \in DOMAIN blocks : /\ blocks[i].first \in Nat /\ blocks[i].last \in Nat
  BY RangeFacts
<1>3. \A m : m \in LastSerials(id, n) <=>
        m \in Int /\ blocks[id].last - n + 1 <= m /\ m <= blocks[id].last
  BY <1>1 DEF LastSerials
<1>4. ASSUME NEW i \in DOMAIN blocks, i # id, i[1] = id[1], NEW m \in Int,
             blocks[i].first <= m, m <= blocks[i].last,
             blocks[id].first <= m, m <= blocks[id].last
      PROVE  FALSE
  BY <1>1, <1>2, <1>4 DEF IInv, RangesDisjoint
<1>5. /\ \A m : m \in Unmoved(p) <=> m \in Int /\ InUnmoved(p, m)
      /\ \A m : m \in Unmoved(p)' <=> m \in Int /\ InUnmoved(p, m)'
  <2>1. UnmovedMembers /\ UnmovedMembers'
    BY UnmovedByBounds, PTL
  <2>. QED
    BY <2>1 DEF UnmovedMembers
<1> DEFINE moved(m) == blocks[id].notTransferred /\ p = id[1]
                        /\ m \in LastSerials(id, n)
<1>6. ASSUME NEW b \in Block, Rewritten(id, b), n = b.amount,
             b.notTransferred = FALSE
      PROVE  /\ n <= blocks[id].amount
             /\ \A m \in Int : InUnmoved(p, m)' <=> InUnmoved(p, m) /\ ~moved(m)
  <2>1. /\ DOMAIN blocks' = DOMAIN blocks
        /\ \A i \in DOMAIN blocks : blocks'[i] = IF i = id THEN b ELSE blocks[i]
        /\ n = blocks[id].amount
    BY <1>6 DEF Rewritten
  <2>2. \A m \in Int : m \in LastSerials(id, n) <=>
           blocks[id].first <= m /\ m <= blocks[id].last
    BY <1>1, <1>3, <2>1
  <2>3. ASSUME NEW m \in Int, InUnmoved(p, m)'
        PROVE  InUnmoved(p, m) /\ ~moved(m)
    <3>1. PICK i \in DOMAIN blocks' :
            /\ i[1] = p /\ blocks'[i].notTransferred
            /\ blocks'[i].first <= m /\ m <= blocks'[i].last
      BY <2>3 DEF InUnmoved
    <3>2. i # id /\ i \in DOMAIN blocks /\ blocks'[i] = blocks[i]
      BY <1>6, <2>1, <3>1
    <3>. QED
      BY <1>4, <2>2, <3>1, <3>2 DEF InUnmoved
  <2>4. ASSUME NEW m \in Int, InUnmoved(p, m), ~moved(m)
        PROVE  InUnmoved(p, m)'
    <3>1. PICK i \in DOMAIN blocks :
            /\ i[1] = p /\ blocks[i].notTransferred
            /\ blocks[i].first <= m /\ m <= blocks[i].last
      BY <2>4 DEF InUnmoved
    <3>2. i # id
      BY <2>2, <2>4, <3>1
    <3>. QED
      BY <2>1, <3>1, <3>2 DEF InUnmoved
  <2> HIDE DEF moved
  <2>5. n <= blocks[id].amount
    BY <1>1, <2>1
  <2>. QED
    BY <2>3, <2>4, <2>5
<1>7. ASSUME NEW kept \in Block, NEW cut \in Block, Divided(id, n, kept, cut)
      PROVE  /\ n <= blocks[id].amount
             /\ \A m \in Int : InUnmoved(p, m)' <=> InUnmoved(p, m) /\ ~moved(m)
  <2> DEFINE new == <<id[1], cut.first>>
  <2>1. /\ new \notin DOMAIN blocks /\ new # id
        /\ DOMAIN blocks' = DOMAIN blocks \cup {new}
        /\ blocks'[id] = kept /\ blocks'[new] = cut
        /\ \A i \in DOMAIN blocks : i # id => blocks'[i] = blocks[i]
        /\ blocks' = [i \in DOMAIN blocks' |-> blocks'[i]]
    BY <1>7, SplitRows DEF Divided
  <2>2. /\ kept.first = blocks[id].first /\ kept.last = blocks[id].last - n
        /\ kept.notTransferred = blocks[id].notTransferred
        /\ cut.notTransferred = FALSE
        /\ n <= blocks[id].amount
    BY <1>1, <1>7 DEF Divided, CanSplit
  <2> HIDE DEF new
  <2>3. ASSUME NEW m \in Int, InUnmoved(p, m)'
        PROVE  InUnmoved(p, m) /\ ~moved(m)
    <3>1. PICK i \in DOMAIN blocks' :
            /\ i[1] = p /\ blocks'[i].notTransferred
            /\ blocks'[i].first <= m /\ m <= blocks'[i].last
      BY <2>3 DEF InUnmoved
    <3>2. i # new /\ i \in DOMAIN blocks
      BY <2>1, <2>2, <3>1
    <3>3. CASE i = id
      <4>1. blocks[id].first <= m /\ m <= blocks[id].last - n /\ blocks[id].notTransferred
        BY <2>1, <2>2, <3>1, <3>3
      <4>2. m \notin LastSerials(id, n)
        BY <1>1, <1>3, <4>1
      <4>3. m <= blocks[id].last
        BY <1>1, <4>1
      <4>. QED
        BY <3>1, <3>3, <4>1, <4>2, <4>3 DEF InUnmoved
    <3>4. CASE i # id
      <4>1. blocks'[i] = blocks[i]
        BY <2>1, <3>2, <3>4
      <4>2. m \in LastSerials(id, n) =>
               blocks[id].first <= m /\ m <= blocks[id].last
        BY <1>1, <1>3, <2>2
      <4>. QED
        BY <1>4, <3>1, <3>2, <3>4, <4>1, <4>2 DEF InUnmoved
    <3>. QED
      BY <3>3, <3>4
  <2>4. ASSUME NEW m \in Int, InUnmoved(p, m), ~moved(m)
        PROVE  InUnmoved(p, m)'
    <3>1. PICK i \in DOMAIN blocks :
            /\ i[1] = p /\ blocks[i].notTransferred
            /\ blocks[i].first <= m /\ m <= blocks[i].last
      BY <2>4 DEF InUnmoved
    <3>2. CASE i = id
      <4>1. m <= blocks[id].last - n
        BY <1>1, <1>3, <2>4, <3>1, <3>2
      <4>. QED
        BY <2>1, <2>2, <3>1, <3>2, <4>1 DEF InUnmoved
    <3>3. CASE i # id
      BY <2>1, <3>1, <3>3 DEF InUnmoved
    <3>. QED
      BY <3>2, <3>3
  <2> HIDE DEF moved
  <2>. QED
    BY <2>2, <2>3, <2>4
<1>8. /\ n <= blocks[id].amount
      /\ \A m \in Int : InUnmoved(p, m)' <=> InUnmoved(p, m) /\ ~moved(m)
  <2> HIDE DEF moved
  <2>. QED
    BY <1>6, <1>7 DEF Taken
<1>. QED
  BY <1>5, <1>8

\* The last n serials of a block leave Unmoved together, n of them.
LEMMA TakenCount ==
    ASSUME IInv, NEW id \in DOMAIN blocks, NEW n \in Nat, n > 0,
           n <= blocks[id].amount, blocks[id].notTransferred
    PROVE  /\ Cardinality(Unmoved(id[1]) \ LastSerials(id, n))
                = Cardinality(Unmoved(id[1])) - n
           /\ Cardinality(Unmoved(id[1])) - n \in Nat
<1> DEFINE U == Unmoved(id[1])
           L == LastSerials(id, n)
<1>1. /\ blocks[id].first \in Nat \ {0} /\ blocks[id].last \in Nat
      /\ blocks[id].amount = blocks[id].last - blocks[id].first + 1
      /\ id[1] \in Projects
  BY RangeFacts
<1>2. L \subseteq U
  <2> SUFFICES ASSUME NEW m \in L PROVE m \in U
    OBVIOUS
  <2>1. m \in Int /\ blocks[id].first <= m /\ m <= blocks[id].last
    BY <1>1 DEF LastSerials
  <2>. QED
    BY <1>1, <2>1, UnmovedByBounds DEF UnmovedMembers, InUnmoved
<1>3. IsFiniteSet(U) /\ Cardinality(U) \in Nat
  BY <1>1, UnmovedFacts
<1>4. Cardinality(L) = n
  <2>1. blocks[id].last - n + 1 \in Int /\ blocks[id].last \in Int
    BY <1>1
  <2>2. Cardinality(L) = IF blocks[id].last - n + 1 > blocks[id].last THEN 0
                         ELSE blocks[id].last - (blocks[id].last - n + 1) + 1
    BY <2>1, FS_Interval DEF LastSerials
  <2> HIDE DEF L
  <2>. QED
    BY <1>1, <2>2
<1> HIDE DEF U, L
<1>5. U \cap L = L
  BY <1>2
<1>6. Cardinality(U \ L) = Cardinality(U) - n
  BY <1>3, <1>4, <1>5, FS_Difference
<1>7. Cardinality(U \ L) \in Nat
  BY <1>3, FS_Difference, FS_CardinalityType
<1>. QED
  BY <1>6, <1>7 DEF U, L

\* The counters of the project row of p agree with the blocks.
RowCounts(p) ==
    /\ project[p].balance = Cardinality(Unmoved(p))
    /\ project[p].issued = project[p].balance + project[p].transferred
                                               + project[p].retired
    /\ project[p].issued <= CreditEst[p]

CountersInv == \A p \in Projects : RowCounts(p)

LEMMA TakenCounters ==
    ASSUME IInv, IInv', CountersInv, NEW id \in DOMAIN blocks,
           NEW n \in Nat, n > 0, Taken(id, n),
           NEW column \in {"transferred", "retired"}, ProjectMoves(id, n, column)
    PROVE  CountersInv'
<1>1. /\ id[1] \in Projects /\ project \in [Projects -> ProjectRow]
      /\ blocks[id].notTransferred \in BOOLEAN
  BY RangeFacts DEF IInv, TypeOK
<1>2. n <= blocks[id].amount
  BY <1>1, TakenSerials
<1> SUFFICES ASSUME NEW p \in Projects
             PROVE  RowCounts(p)'
  BY DEF CountersInv
<1>3. RowCounts(p) /\ project[p] \in ProjectRow
  BY <1>1 DEF CountersInv
<1>4. CASE blocks[id].notTransferred /\ p = id[1]
  <2>1. Unmoved(p)' = Unmoved(p) \ LastSerials(id, n)
    BY <1>4, TakenSerials
  <2>2. Cardinality(Unmoved(p)') = Cardinality(Unmoved(p)) - n
    BY <1>2, <1>4, <2>1, TakenCount
  <2>3. project' = [project EXCEPT ![id[1]].balance = @ - n, ![id[1]][column] = @ + n]
    BY <1>4 DEF ProjectMoves
  <2>4. /\ project'[p].issued = project[p].issued
        /\ project'[p].balance = project[p].balance - n
        /\ project'[p].transferred + project'[p].retired
              = project[p].transferred + project[p].retired + n
        /\ project'[p].transferred \in Int /\ project'[p].retired \in Int
    <3>1. CASE column = "transferred"
      BY <1>1, <1>3, <1>4, <2>3, <3>1 DEF ProjectRow
    <3>2. CASE column = "retired"
      BY <1>1, <1>3, <1>4, <2>3, <3>2 DEF ProjectRow
    <3>. QED
      BY <3>1, <3>2
  <2>5. /\ project[p].balance \in Int /\ project[p].transferred \in Int
        /\ project[p].retired \in Int /\ project[p].issued \in Int
    BY <1>3 DEF ProjectRow
  <2>6. project'[p].balance = Cardinality(Unmoved(p)')
    BY <1>3, <2>2, <2>4 DEF RowCounts
  <2>7. project'[p].issued = project'[p].balance + project'[p].transferred
                                                 + project'[p].retired
    BY <1>3, <2>4, <2>5 DEF RowCounts
  <2>. QED
    BY <1>3, <2>4, <2>6, <2>7 DEF RowCounts
<1>5. CASE ~(blocks[id].notTransferred /\ p = id[1])
  <2>1. Unmoved(p)' = Unmoved(p)
    BY <1>5, TakenSerials
  <2>2. project'[p] = project[p]
    BY <1>1, <1>5 DEF ProjectMoves
  <2>3. Cardinality(Unmoved(p)') = Cardinality(Unmoved(p))
    BY <2>1
  <2>. QED
    BY <1>3, <2>2, <2>3 DEF RowCounts
<1>. QED
  BY <1>4, <1>5

\* A call that leaves the project rows and the serials where they are.
LEMMA QuietCounters ==
    ASSUME CountersInv, NEW id \in DOMAIN blocks, NEW b \in Block,
           Rewritten(id, b), b.notTransferred = blocks[id].notTransferred,
           project' = project
    PROVE  CountersInv'
<1>1. /\ DOMAIN blocks' = DOMAIN blocks
      /\ \A i \in DOMAIN blocks : /\ blocks'[i].first = blocks[i].first
                                  /\ blocks'[i].last = blocks[i].last
                                  /\ blocks'[i].notTransferred
                                        = blocks[i].notTransferred
  BY DEF Rewritten
<1>2. ASSUME NEW p \in Projects PROVE Unmoved(p)' = Unmoved(p)
  <2>1. BlocksOf(p)' = BlocksOf(p)
    BY <1>1 DEF BlocksOf
  <2>2. {i \in BlocksOf(p) : blocks[i].notTransferred}'
            = {i \in BlocksOf(p) : blocks[i].notTransferred}
    BY <1>1, <2>1 DEF BlocksOf
  <2>3. \A i \in BlocksOf(p) : Serials(i)' = Serials(i)
    BY <1>1 DEF BlocksOf, Serials
  <2>. QED
    BY <2>1, <2>2, <2>3 DEF Unmoved
<1>. QED
  BY <1>2 DEF CountersInv, RowCounts

LEMMA CountUp ==
    ASSUME NEW k \in Nat, NEW n \in Nat
    PROVE  IsFiniteSet(k + 1 .. k + n) /\ Cardinality(k + 1 .. k + n) = n
<1> DEFINE lo == k + 1
           hi == k + n
<1>1. lo \in Int /\ hi \in Int /\ (lo > hi <=> n = 0) /\ hi - lo + 1 = n
  OBVIOUS
<1> HIDE DEF lo, hi
<1>2. IsFiniteSet(lo .. hi) /\ Cardinality(lo .. hi) = n
  BY <1>1, FS_Interval
<1>. QED
  BY <1>2 DEF lo, hi

LEMMA IssueCounters ==
    ASSUME IInv, IInv', CountersInv, NEW a \in Activities, NEW batch \in Batches,
           IssueCredits(a, batch), OnlyNewBlocks(ActivityProject[a])
    PROVE  CountersInv'
<1> DEFINE p == ActivityProject[a]
           n == BatchTotal(batch)
           issued == project[p].issued
           New == issued + 1 .. issued + n
<1>1. /\ p \in Projects /\ issued \in Nat /\ n \in Nat \ {0}
      /\ project \in [Projects -> ProjectRow] /\ CreditEst[p] \in Nat
  BY ConstantsAssumption, BatchFacts DEF IInv, TypeOK, ProjectRow
<1>2. /\ project' = [project EXCEPT ![p].issued = @ + n, ![p].balance = @ + n]
      /\ n <= CreditEst[p] - issued
  BY DEF IssueCredits
<1> HIDE DEF n
<1>3. /\ project'[p].issued = issued + n
      /\ project'[p].balance = project[p].balance + n
      /\ project'[p].transferred = project[p].transferred
      /\ project'[p].retired = project[p].retired
      /\ \A q \in Projects : q # p => project'[q] = project[q]
  BY <1>1, <1>2 DEF ProjectRow
<1>4. UnmovedMembers /\ UnmovedMembers'
  BY UnmovedByBounds, PTL
<1>5. ASSUME NEW q \in Projects, NEW m \in Int, InUnmoved(q, m)
      PROVE  InUnmoved(q, m)'
  BY <1>5 DEF InUnmoved, OnlyNewBlocks
<1>6. ASSUME NEW q \in Projects, NEW m \in Int, InUnmoved(q, m)'
      PROVE  InUnmoved(q, m) \/ (q = p /\ m \in New)
  <2>1. PICK i \in DOMAIN blocks' :
          /\ i[1] = q /\ blocks'[i].notTransferred
          /\ blocks'[i].first <= m /\ m <= blocks'[i].last
    BY <1>6 DEF InUnmoved
  <2>2. CASE i \in DOMAIN blocks
    BY <2>1, <2>2 DEF InUnmoved, OnlyNewBlocks
  <2>3. CASE i \notin DOMAIN blocks
    <3>1. q = p /\ blocks'[i].first > issued
      BY <2>1, <2>3 DEF OnlyNewBlocks
    <3>2. /\ blocks'[i].last <= project'[q].issued
          /\ blocks'[i].first \in Nat /\ blocks'[i].last \in Nat
      BY <2>1 DEF IInv, TypeOK, RangesTyped, Block
    <3>. QED
      BY <1>1, <1>3, <2>1, <3>1, <3>2
  <2>. QED
    BY <2>2, <2>3
<1>7. ASSUME NEW m \in New
      PROVE  InUnmoved(p, m)'
  <2>1. m \in Int /\ m \in 1 .. project'[p].issued
    BY <1>1, <1>3
  <2>2. PICK i \in DOMAIN blocks' :
           i[1] = p /\ blocks'[i].first <= m /\ m <= blocks'[i].last
    BY <1>1, <2>1 DEF IInv, RangesCover
  <2>3. CASE i \in DOMAIN blocks
    <3>1. blocks'[i].last \in Nat /\ blocks'[i].last <= issued
      BY <2>2, <2>3, RangeFacts DEF OnlyNewBlocks
    <3>. QED
      BY <1>1, <2>2, <3>1
  <2>4. CASE i \notin DOMAIN blocks
    BY <2>2, <2>4 DEF InUnmoved, OnlyNewBlocks
  <2>. QED
    BY <2>3, <2>4
<1>8. Unmoved(p)' = Unmoved(p) \cup New
  <2>1. \A m : m \in Unmoved(p) <=> m \in Int /\ InUnmoved(p, m)
    BY <1>1, <1>4 DEF UnmovedMembers
  <2>2. \A m : m \in Unmoved(p)' <=> m \in Int /\ InUnmoved(p, m)'
    BY <1>1, <1>4 DEF UnmovedMembers
  <2>3. New \subseteq Int
    BY <1>1
  <2> HIDE DEF New, p
  <2>. QED
    BY <1>1, <1>5, <1>6, <1>7, <2>1, <2>2, <2>3
<1>9. ASSUME NEW q \in Projects, q # p PROVE Unmoved(q)' = Unmoved(q)
  <2>1. \A m : m \in Unmoved(q) <=> m \in Int /\ InUnmoved(q, m)
    BY <1>4 DEF UnmovedMembers
  <2>2. \A m : m \in Unmoved(q)' <=> m \in Int /\ InUnmoved(q, m)'
    BY <1>4 DEF UnmovedMembers
  <2> HIDE DEF New, p
  <2>. QED
    BY <1>5, <1>6, <1>9, <2>1, <2>2
<1>10. Cardinality(Unmoved(p)') = Cardinality(Unmoved(p)) + n
  <2>1. IsFiniteSet(New) /\ Cardinality(New) = n
    BY <1>1, CountUp
  <2>2. Unmoved(p) \subseteq 1 .. issued /\ IsFiniteSet(Unmoved(p))
    BY <1>1, UnmovedFacts
  <2>3. Unmoved(p) \cap New = {}
    BY <1>1, <2>2
  <2>4. Cardinality(Unmoved(p)) \in Nat
    BY <2>2, FS_CardinalityType
  <2>5. Cardinality(Unmoved(p) \cap New) = 0
    BY <2>3, FS_EmptySet
  <2> HIDE DEF New, p
  <2>6. Cardinality(Unmoved(p) \cup New) = Cardinality(Unmoved(p)) + n - 0
    BY <2>1, <2>2, <2>5, FS_Union
  <2>. QED
    BY <1>1, <1>8, <2>4, <2>6
<1> SUFFICES ASSUME NEW q \in Projects
             PROVE  RowCounts(q)'
  BY DEF CountersInv
<1>11. CASE q = p
  <2>1. RowCounts(p) /\ project[p] \in ProjectRow
    BY <1>1 DEF CountersInv
  <2> HIDE DEF p
  <2>. QED
    BY <1>1, <1>2, <1>3, <1>10, <1>11, <2>1 DEF RowCounts, ProjectRow
<1>12. CASE q # p
  <2>1. Cardinality(Unmoved(q)') = Cardinality(Unmoved(q))
    BY <1>9, <1>12
  <2>2. project'[q] = project[q] /\ RowCounts(q)
    BY <1>3, <1>12 DEF CountersInv
  <2>. QED
    BY <2>1, <2>2 DEF RowCounts
<1>. QED
  BY <1>11, <1>12

LEMMA StepCounters == IInv /\ CountersInv /\ [Next]_vars => CountersInv'
<1> SUFFICES ASSUME IInv, CountersInv, [Next]_vars PROVE CountersInv'
  OBVIOUS
<1>0. IInv'
  BY StepIInv
<1>1. CASE Issue
  <2>1. PICK a \in Activities, batch \in Batches : IssueCredits(a, batch)
    BY <1>1 DEF Issue
  <2>. QED
    BY <1>0, <2>1, IssueIInv, IssueCounters
<1>2. CASE Transfer
  <2>0. PICK id \in DOMAIN blocks, from, to \in Companies :
           \E n \in 1 .. blocks[id].amount : TransferCredits(id, n, from, to)
    BY <1>2 DEF Transfer
  <2>1. PICK n \in 1 .. blocks[id].amount : TransferCredits(id, n, from, to)
    BY <2>0
  <2>2. n \in Nat /\ n > 0
    BY BlockFacts
  <2>3. Taken(id, n)
    BY <2>1, TransferShape DEF Taken
  <2>4. ProjectMoves(id, n, "transferred")
    BY <2>1 DEF TransferCredits
  <2>. QED
    BY <1>0, <2>2, <2>3, <2>4, TakenCounters
<1>3. CASE RequestRetirement
  <2>0. PICK id \in DOMAIN blocks, from \in Companies, r \in RetireIds :
           \E n \in 1 .. blocks[id].amount : AddRetireRequest(id, n, from, r)
    BY <1>3 DEF RequestRetirement
  <2>1. PICK n \in 1 .. blocks[id].amount : AddRetireRequest(id, n, from, r)
    BY <2>0
  <2>2. project' = project
    BY <2>1 DEF AddRetireRequest
  <2>3. \E b \in Block : /\ Rewritten(id, b)
                         /\ b.notTransferred = blocks[id].notTransferred
    BY <2>1, RequestShape
  <2>. QED
    BY <2>2, <2>3, QuietCounters
<1>4. CASE Accept
  <2>1. PICK id \in DOMAIN blocks, r \in RetireIds : AcceptRetirement(id, r)
    BY <1>4 DEF Accept
  <2> DEFINE n == blocks[id].records[r].amount
             recs == Settled(blocks[id], r, "COMPLETED")
  <2>2. /\ n \in Nat /\ n > 0
        /\ \/ \E b \in Block :
                /\ Rewritten(id, b) /\ n = b.amount
                /\ blocks[id].reserved = n /\ b.reserved = 0
                /\ b.records = recs
                /\ b.owner = NoCompany /\ b.notTransferred = FALSE
           \/ \E kept, cut \in Block :
                /\ Divided(id, n, kept, cut)
                /\ kept.reserved = blocks[id].reserved - n
                /\ kept.records = recs
                /\ cut.owner = NoCompany
                /\ cut.records = [NoRecords EXCEPT ![r] = recs[r]]
    BY <2>1, AcceptShape
  <2>3. ProjectMoves(id, n, "retired")
    BY <2>1 DEF AcceptRetirement
  <2> HIDE DEF n, recs
  <2>4. Taken(id, n)
    BY <2>2 DEF Taken
  <2>. QED
    BY <1>0, <2>2, <2>3, <2>4, TakenCounters
<1>5. CASE Decline
  <2>1. PICK id \in DOMAIN blocks, r \in RetireIds,
             status \in {"REJECTED", "CANCELLED"} : DeclineRetirement(id, r, status)
    BY <1>5 DEF Decline
  <2>2. status \in Status /\ status # "PENDING"
    BY DEF Status
  <2>3. project' = project
    BY <2>1 DEF DeclineRetirement
  <2>4. \E b \in Block : /\ Rewritten(id, b)
                         /\ b.notTransferred = blocks[id].notTransferred
    BY <2>1, <2>2, DeclineShape
  <2>. QED
    BY <2>3, <2>4, QuietCounters
<1>6. CASE UNCHANGED vars
  BY <1>6 DEF vars, CountersInv, RowCounts, Unmoved, BlocksOf, Serials
<1>. QED
  BY <1>1, <1>2, <1>3, <1>4, <1>5, <1>6 DEF Next

-----------------------------------------------------------------------------
(* The accounts of the companies follow the issues of their projects.       *)

LEMMA IssuedOfFacts ==
    ASSUME IInv, NEW c
    PROVE  /\ DOMAIN IssuedOf(c) = {q \in Projects : Developer[q] = c}
           /\ IsFiniteSet(DOMAIN IssuedOf(c))
           /\ \A q \in DOMAIN IssuedOf(c) :
                IssuedOf(c)[q] = project[q].issued /\ IssuedOf(c)[q] \in Nat
<1>1. DOMAIN IssuedOf(c) = {q \in Projects : Developer[q] = c}
  BY DEF IssuedOf
<1>2. IsFiniteSet(DOMAIN IssuedOf(c))
  <2>1. DOMAIN IssuedOf(c) \in SUBSET Projects
    BY <1>1
  <2>. QED
    BY <2>1, ConstantsAssumption, FS_Subset
<1>3. \A q \in Projects : project[q].issued \in Nat
  BY DEF IInv, TypeOK, ProjectRow
<1>. QED
  BY <1>1, <1>2, <1>3 DEF IssuedOf

LEMMA IssueAccounts ==
    ASSUME IInv, AccountsMatchProjects, NEW a \in Activities,
           NEW batch \in Batches, IssueCredits(a, batch)
    PROVE  AccountsMatchProjects'
<1> DEFINE p == ActivityProject[a]
           n == BatchTotal(batch)
<1>1. /\ p \in Projects /\ Developer[p] \in Companies /\ n \in Nat
      /\ project \in [Projects -> ProjectRow] /\ account \in [Companies -> Nat]
  BY ConstantsAssumption, BatchFacts DEF IInv, TypeOK
<1>2. /\ project' = [project EXCEPT ![p].issued = @ + n, ![p].balance = @ + n]
      /\ account' = [account EXCEPT ![Developer[p]] = @ + n]
  BY DEF IssueCredits, Credited
<1> HIDE DEF n, p
<1>3. /\ project'[p].issued = project[p].issued + n
      /\ \A q \in Projects : q # p => project'[q].issued = project[q].issued
  BY <1>1, <1>2 DEF ProjectRow
<1> SUFFICES ASSUME NEW c \in Companies
             PROVE  account'[c] = SumFunction(IssuedOf(c)')
  BY DEF AccountsMatchProjects
<1> DEFINE g == IssuedOf(c)
           h == [q \in {x \in Projects : Developer[x] = c} |-> project'[q].issued]
<1>4. IssuedOf(c)' = h
  BY DEF IssuedOf
<1>5. account[c] = SumFunction(g)
  BY DEF AccountsMatchProjects
<1>6. /\ DOMAIN g = {x \in Projects : Developer[x] = c} /\ IsFiniteSet(DOMAIN g)
      /\ DOMAIN h = DOMAIN g
      /\ \A q \in DOMAIN g : g[q] = project[q].issued /\ g[q] \in Nat
      /\ \A q \in DOMAIN g : h[q] = project'[q].issued
  BY IssuedOfFacts
<1> HIDE DEF g, h
<1>7. CASE c = Developer[p]
  <2>1. p \in DOMAIN g
    BY <1>1, <1>6, <1>7
  <2>2. h[p] = g[p] + n /\ g[p] \in Nat
    BY <1>3, <1>6, <2>1
  <2>3. \A q \in DOMAIN g \ {p} : h[q] = g[q]
    BY <1>3, <1>6
  <2>4. \A q \in DOMAIN g : g[q] \in Int /\ h[q] \in Int
    BY <1>1, <1>6, <2>2, <2>3
  <2>5. SumFunction(h) = SumFunction(g) - g[p] + h[p]
    BY <1>6, <2>1, <2>3, <2>4, SumUpdate
  <2>6. account'[c] = account[c] + n /\ account[c] \in Nat
    BY <1>1, <1>2, <1>7
  <2>. QED
    BY <1>1, <1>4, <1>5, <2>2, <2>5, <2>6
<1>8. CASE c # Developer[p]
  <2>1. account'[c] = account[c]
    BY <1>1, <1>2, <1>8
  <2>2. \A q \in DOMAIN g : h[q] = g[q]
    BY <1>3, <1>6, <1>8
  <2>3. g = h
    <3>1. g = [q \in DOMAIN g |-> g[q]]
      BY DEF g, IssuedOf
    <3>2. h = [q \in DOMAIN g |-> h[q]]
      BY <1>6 DEF h
    <3>. QED
      BY <2>2, <3>1, <3>2
  <2>. QED
    BY <1>4, <1>5, <2>1, <2>3
<1>. QED
  BY <1>7, <1>8

LEMMA OtherAccounts ==
    ASSUME AccountsMatchProjects, account' = account,
           \A p \in Projects : project'[p].issued = project[p].issued
    PROVE  AccountsMatchProjects'
<1>1. \A c \in Companies : IssuedOf(c)' = IssuedOf(c)
  BY DEF IssuedOf
<1>. QED
  BY <1>1 DEF AccountsMatchProjects

LEMMA StepAccounts ==
    IInv /\ AccountsMatchProjects /\ [Next]_vars => AccountsMatchProjects'
<1> SUFFICES ASSUME IInv, AccountsMatchProjects, [Next]_vars
             PROVE  AccountsMatchProjects'
  OBVIOUS
<1>1. CASE Issue
  BY <1>1, IssueAccounts DEF Issue
<1>2. CASE Transfer
  <2>0. PICK id \in DOMAIN blocks, from, to \in Companies :
           \E n \in 1 .. blocks[id].amount : TransferCredits(id, n, from, to)
    BY <1>2 DEF Transfer
  <2>1. PICK n \in 1 .. blocks[id].amount : TransferCredits(id, n, from, to)
    BY <2>0
  <2>2. n \in Nat
    BY BlockFacts
  <2>3. ProjectMoves(id, n, "transferred") /\ account' = account
    BY <2>1 DEF TransferCredits
  <2>. QED
    BY <2>2, <2>3, ProjectMovesFacts, OtherAccounts
<1>3. CASE Accept
  <2>1. PICK id \in DOMAIN blocks, r \in RetireIds : AcceptRetirement(id, r)
    BY <1>3 DEF Accept
  <2>2. /\ ProjectMoves(id, blocks[id].records[r].amount, "retired")
        /\ account' = account
    BY <2>1 DEF AcceptRetirement
  <2>. QED
    BY <2>2, BlockFacts, ProjectMovesFacts, OtherAccounts
<1>4. CASE RequestRetirement \/ Decline \/ UNCHANGED vars
  <2>1. project' = project /\ account' = account
    BY <1>4 DEF RequestRetirement, AddRetireRequest, Decline, DeclineRetirement, vars
  <2>. QED
    BY <2>1, OtherAccounts
<1>. QED
  BY <1>1, <1>2, <1>3, <1>4 DEF Next

-----------------------------------------------------------------------------
(* The owner keeps the first serials of a block, whatever a call takes.     *)

\* Serial m of project p is in a block of company c after the step.
OwnedNext(c, p, m) ==
    \E j \in DOMAIN blocks' :
        /\ j[1] = p /\ blocks'[j].owner = c
        /\ blocks'[j].first <= m /\ m <= blocks'[j].last

KeepsFirst ==
    \A i \in DOMAIN blocks : \A m, n \in Serials(i) :
        m < n /\ OwnedNext(blocks[i].owner, i[1], n)
            => OwnedNext(blocks[i].owner, i[1], m)

\* The block of a serial number is the only one with that number.
LEMMA OneBlock ==
    ASSUME IInv', NEW i \in DOMAIN blocks', NEW j \in DOMAIN blocks',
           i[1] = j[1], NEW m \in Int,
           blocks'[i].first <= m, m <= blocks'[i].last,
           blocks'[j].first <= m, m <= blocks'[j].last
    PROVE  i = j
<1>1. /\ blocks'[i].first \in Nat /\ blocks'[i].last \in Nat
      /\ blocks'[j].first \in Nat /\ blocks'[j].last \in Nat
  BY DEF IInv, TypeOK, Block
<1>. QED
  BY <1>1 DEF IInv, RangesDisjoint

LEMMA TakenKeepsFirst ==
    ASSUME IInv, IInv', NEW id \in DOMAIN blocks, NEW n \in Nat, n > 0,
           \/ \E b \in Block : Rewritten(id, b)
           \/ \E kept, cut \in Block : Divided(id, n, kept, cut)
    PROVE  KeepsFirst
<1> SUFFICES ASSUME NEW i \in DOMAIN blocks, NEW k \in Serials(i),
                    NEW m \in Serials(i), k < m,
                    OwnedNext(blocks[i].owner, i[1], m)
             PROVE  OwnedNext(blocks[i].owner, i[1], k)
  BY DEF KeepsFirst
<1>1. /\ blocks[i].first \in Nat /\ blocks[i].last \in Nat
      /\ blocks[i].first <= k /\ m <= blocks[i].last
      /\ k \in Int /\ m \in Int
      /\ blocks[i].first <= m /\ k <= blocks[i].last
  BY RangeFacts DEF Serials
<1>2. PICK j \in DOMAIN blocks' :
        /\ j[1] = i[1] /\ blocks'[j].owner = blocks[i].owner
        /\ blocks'[j].first <= m /\ m <= blocks'[j].last
  BY DEF OwnedNext
<1>3. ASSUME NEW b \in Block, Rewritten(id, b)
      PROVE  OwnedNext(blocks[i].owner, i[1], k)
  <2>1. /\ i \in DOMAIN blocks'
        /\ blocks'[i].first = blocks[i].first /\ blocks'[i].last = blocks[i].last
    BY <1>3 DEF Rewritten
  <2>2. i = j
    BY <1>1, <1>2, <2>1, OneBlock
  <2>. QED
    BY <1>1, <1>2, <2>1, <2>2 DEF OwnedNext
<1>4. ASSUME NEW kept \in Block, NEW cut \in Block, Divided(id, n, kept, cut)
      PROVE  OwnedNext(blocks[i].owner, i[1], k)
  <2> DEFINE new == <<id[1], cut.first>>
  <2>1. /\ new \notin DOMAIN blocks /\ new # id
        /\ DOMAIN blocks' = DOMAIN blocks \cup {new}
        /\ blocks'[id] = kept /\ blocks'[new] = cut
        /\ \A x \in DOMAIN blocks : x # id => blocks'[x] = blocks[x]
        /\ blocks' = [x \in DOMAIN blocks' |-> blocks'[x]]
    BY <1>4, SplitRows DEF Divided
  <2>2. /\ kept.first = blocks[id].first /\ kept.last = blocks[id].last - n
        /\ kept.owner = blocks[id].owner
        /\ cut.first = blocks[id].last - n + 1 /\ cut.last = blocks[id].last
    BY <1>4 DEF Divided, SecondStart
  <2>3. new[1] = id[1]
    OBVIOUS
  <2> HIDE DEF new
  <2>4. CASE i # id
    <3>1. blocks'[i] = blocks[i] /\ i \in DOMAIN blocks'
      BY <2>1, <2>4
    <3>2. i = j
      BY <1>1, <1>2, <3>1, OneBlock
    <3>. QED
      BY <1>1, <1>2, <3>1, <3>2 DEF OwnedNext
  <2>5. CASE i = id /\ k <= blocks[id].last - n
    BY <1>1, <2>1, <2>2, <2>5 DEF OwnedNext
  <2>6. CASE i = id /\ ~(k <= blocks[id].last - n)
    <3>1. /\ blocks'[new].first <= k /\ k <= blocks'[new].last
          /\ blocks'[new].first <= m /\ m <= blocks'[new].last
      BY <1>1, <2>1, <2>2, <2>6
    <3>2. new \in DOMAIN blocks' /\ new[1] = i[1]
      BY <2>1, <2>3, <2>6
    <3>3. new = j
      BY <1>1, <1>2, <3>1, <3>2, OneBlock
    <3>. QED
      BY <1>2, <3>1, <3>2, <3>3 DEF OwnedNext
  <2>. QED
    BY <2>4, <2>5, <2>6
<1>. QED
  BY <1>3, <1>4

LEMMA StepKeepsFirst == IInv /\ [Next]_vars => KeepsFirst
<1> SUFFICES ASSUME IInv, [Next]_vars PROVE KeepsFirst
  OBVIOUS
<1>0. IInv'
  BY StepIInv
<1>1. ASSUME \A i \in DOMAIN blocks : i \in DOMAIN blocks' /\ blocks'[i] = blocks[i]
      PROVE  KeepsFirst
  <2>1. \A i \in DOMAIN blocks : \A m \in Serials(i) :
          blocks[i].first <= m /\ m <= blocks[i].last
    BY RangeFacts DEF Serials
  <2>. QED
    BY <1>1, <2>1 DEF KeepsFirst, OwnedNext
<1>2. CASE Issue
  <2>1. PICK a \in Activities, batch \in Batches : IssueCredits(a, batch)
    BY <1>2 DEF Issue
  <2>2. OnlyNewBlocks(ActivityProject[a])
    BY <2>1, IssueIInv
  <2>. QED
    BY <1>1, <2>2 DEF OnlyNewBlocks
<1>3. CASE Transfer
  <2>1. PICK id \in DOMAIN blocks, from, to \in Companies :
           \E n \in 1 .. blocks[id].amount : TransferCredits(id, n, from, to)
    BY <1>3 DEF Transfer
  <2>2. PICK n \in 1 .. blocks[id].amount : TransferCredits(id, n, from, to)
    BY <2>1
  <2>3. n \in Nat /\ n > 0
    BY BlockFacts
  <2>4. \/ \E b \in Block : Rewritten(id, b)
        \/ \E kept, cut \in Block : Divided(id, n, kept, cut)
    BY <2>2, TransferShape
  <2>. QED
    BY <1>0, <2>3, <2>4, TakenKeepsFirst
<1>4. CASE RequestRetirement
  <2>1. PICK id \in DOMAIN blocks, from \in Companies, r \in RetireIds :
           \E n \in 1 .. blocks[id].amount : AddRetireRequest(id, n, from, r)
    BY <1>4 DEF RequestRetirement
  <2>2. \E b \in Block : Rewritten(id, b)
    BY <2>1, RequestShape
  <2>. QED
    BY <1>0, <2>2, TakenKeepsFirst
<1>5. CASE Accept
  <2>1. PICK id \in DOMAIN blocks, r \in RetireIds : AcceptRetirement(id, r)
    BY <1>5 DEF Accept
  <2> DEFINE n == blocks[id].records[r].amount
             recs == Settled(blocks[id], r, "COMPLETED")
  <2>2. /\ n \in Nat /\ n > 0
        /\ \/ \E b \in Block :
                /\ Rewritten(id, b) /\ n = b.amount
                /\ blocks[id].reserved = n /\ b.reserved = 0
                /\ b.records = recs
                /\ b.owner = NoCompany /\ b.notTransferred = FALSE
           \/ \E kept, cut \in Block :
                /\ Divided(id, n, kept, cut)
                /\ kept.reserved = blocks[id].reserved - n
                /\ kept.records = recs
                /\ cut.owner = NoCompany
                /\ cut.records = [NoRecords EXCEPT ![r] = recs[r]]
    BY <2>1, AcceptShape
  <2> HIDE DEF n, recs
  <2>3. \/ \E b \in Block : Rewritten(id, b)
        \/ \E kept, cut \in Block : Divided(id, n, kept, cut)
    BY <2>2
  <2>. QED
    BY <1>0, <2>2, <2>3, TakenKeepsFirst
<1>6. CASE Decline
  <2>1. PICK id \in DOMAIN blocks, r \in RetireIds,
             status \in {"REJECTED", "CANCELLED"} : DeclineRetirement(id, r, status)
    BY <1>6 DEF Decline
  <2>2. status \in Status /\ status # "PENDING"
    BY DEF Status
  <2>3. \E b \in Block : Rewritten(id, b)
    BY <2>1, <2>2, DeclineShape
  <2>. QED
    BY <1>0, <2>3, TakenKeepsFirst
<1>7. CASE UNCHANGED vars
  BY <1>1, <1>7 DEF vars
<1>. QED
  BY <1>2, <1>3, <1>4, <1>5, <1>6, <1>7 DEF Next

-----------------------------------------------------------------------------
(* The theorems                                                             *)

\* The inductive invariant holds in every reachable state.
THEOREM InductiveInvariant == Spec => []IInv
<1>1. IInv /\ [Next]_vars => IInv'
  BY StepIInv
<1>. QED
  BY <1>1, InitIInv, PTL DEF Spec

\* The tables keep their types, whatever the constants are.
THEOREM TypeCorrect == Spec => []TypeOK
<1>1. IInv => TypeOK
  BY DEF IInv
<1>. QED
  BY <1>1, InductiveInvariant, PTL

\* Ids, amounts and serial ranges of the block rows always agree.
THEOREM RowsMatchSerials == Spec => []RowMatchesSerial
<1>1. IInv => RowMatchesSerial
  BY DEF IInv, TypeOK, RangesTyped, RowMatchesSerial, Block
<1>. QED
  BY <1>1, InductiveInvariant, PTL

\* No credit is lost, counted twice or invented by issuing, splitting,
\* transferring and retiring: the blocks partition the issued serial numbers.
THEOREM SerialsPartition == Spec => []SerialsPartitionIssued
<1>1. ASSUME IInv PROVE SerialsPartitionIssued
  <2> SUFFICES ASSUME NEW p \in Projects
               PROVE  /\ \A i, j \in BlocksOf(p) :
                            i # j => Serials(i) \cap Serials(j) = {}
                      /\ UNION {Serials(id) : id \in BlocksOf(p)}
                            = 1 .. project[p].issued
    BY DEF SerialsPartitionIssued
  <2>1. \A i \in BlocksOf(p) :
          /\ i \in DOMAIN blocks /\ i[1] = p /\ i[2] \in Nat \ {0}
          /\ blocks[i].first \in Nat /\ blocks[i].last \in Nat
          /\ blocks[i].first = i[2] /\ blocks[i].last <= project[p].issued
    BY <1>1 DEF IInv, TypeOK, RangesTyped, Block, BlocksOf
  <2>2. \A i, j \in BlocksOf(p) : i # j => Serials(i) \cap Serials(j) = {}
    <3> SUFFICES ASSUME NEW i \in BlocksOf(p), NEW j \in BlocksOf(p), i # j,
                        NEW m \in Serials(i), m \in Serials(j)
                 PROVE  FALSE
      OBVIOUS
    <3>1. \/ blocks[i].last < blocks[j].first
          \/ blocks[j].last < blocks[i].first
      BY <1>1, <2>1 DEF IInv, RangesDisjoint
    <3>. QED
      BY <2>1, <3>1 DEF Serials
  <2>3. project[p].issued \in Nat
    BY <1>1 DEF IInv, TypeOK, ProjectRow
  <2>4. ASSUME NEW m \in UNION {Serials(id) : id \in BlocksOf(p)}
        PROVE  m \in 1 .. project[p].issued
    <3>1. PICK i \in BlocksOf(p) : m \in Serials(i)
      OBVIOUS
    <3>. QED
      BY <2>1, <2>3, <3>1 DEF Serials
  <2>5. ASSUME NEW m \in 1 .. project[p].issued
        PROVE  m \in UNION {Serials(id) : id \in BlocksOf(p)}
    <3>1. PICK i \in DOMAIN blocks :
            i[1] = p /\ blocks[i].first <= m /\ m <= blocks[i].last
      BY <1>1 DEF IInv, RangesCover
    <3>2. i \in BlocksOf(p)
      BY <3>1 DEF BlocksOf
    <3>3. m \in Serials(i)
      BY <2>1, <2>3, <3>1, <3>2 DEF Serials
    <3>. QED
      BY <3>2, <3>3
  <2>. QED
    BY <2>2, <2>4, <2>5
<1>. QED
  BY <1>1, InductiveInvariant, PTL

\* A retired credit stays retired, in every step of every execution: nothing
\* issues, transfers or splits a credit back to a company.
THEOREM RetirementIsFinal == Spec => RetiredIsFinal
<1>1. ASSUME IInv, IInv', RetiredStays
      PROVE  Owned(NoCompany) \subseteq Owned(NoCompany)'
  <2> SUFFICES ASSUME NEW credit \in Owned(NoCompany)
               PROVE  credit \in Owned(NoCompany)'
    OBVIOUS
  <2>1. PICK i \in DOMAIN blocks :
          blocks[i].owner = NoCompany /\ credit \in {i[1]} \X Serials(i)
    BY DEF Owned
  <2>2. PICK m \in Serials(i) : credit = <<i[1], m>>
    BY <2>1
  <2>3. PICK j \in DOMAIN blocks' :
          /\ j[1] = i[1] /\ blocks'[j].owner = NoCompany
          /\ blocks'[j].first <= m /\ m <= blocks'[j].last
    BY <1>1, <2>1, <2>2 DEF RetiredStays
  <2>4. /\ blocks[i].first \in Nat /\ blocks[i].last \in Nat
        /\ blocks'[j].first \in Nat /\ blocks'[j].last \in Nat
    BY <1>1 DEF IInv, TypeOK, Block
  <2>5. m \in blocks'[j].first .. blocks'[j].last
    BY <2>2, <2>3, <2>4 DEF Serials
  <2>. QED
    BY <2>2, <2>3, <2>5 DEF Owned, Serials
<1>2. IInv /\ IInv' /\ [Next]_vars
        => [Owned(NoCompany) \subseteq Owned(NoCompany)']_vars
  BY <1>1, StepIInv
<1>. QED
  BY <1>2, InductiveInvariant, PTL DEF Spec, RetiredIsFinal

\* The requests of every block are kept with its reserved credits, always.
THEOREM RequestsInvariant == Spec => []RequestsInv
<1>1. Init => RequestsInv
  BY DEF Init, RequestsInv
<1>2. IInv /\ RequestsInv /\ [Next]_vars => RequestsInv'
  BY StepRequests
<1>. QED
  BY <1>1, <1>2, InductiveInvariant, PTL DEF Spec

\* reservedCreditAmount, moved up and down by four functions and cut by two,
\* is the sum of the requests still pending and fits in the block.
THEOREM ReservedIsPendingAlways == Spec => []ReservedIsPending
<1>1. RequestsInv => ReservedIsPending
  BY DEF RequestsInv, ReservesPending, ReservedIsPending
<1>. QED
  BY <1>1, RequestsInvariant, PTL

\* retirementRequestAction can accept every pending request: either it asks
\* for the whole block or something is left to split off.
THEOREM AcceptSucceeds == Spec => []AcceptNeverThrows
<1>1. ASSUME IInv, RequestsInv PROVE AcceptNeverThrows
  <2> SUFFICES ASSUME NEW id \in DOMAIN blocks, NEW r \in RetireIds,
                      blocks[id].records[r].status = "PENDING"
               PROVE  \/ WholeBlockRequested(blocks[id], r)
                      \/ CanSplit(blocks[id], blocks[id].records[r].amount)
    BY DEF AcceptNeverThrows
  <2> DEFINE b == blocks[id]
             n == b.records[r].amount
  <2>1. b \in Block /\ ReservesPending(b) /\ r \in Pending(b)
    BY <1>1, BlockFacts DEF RequestsInv, Pending
  <2>2. n <= b.reserved /\ b.reserved <= b.amount
    BY <2>1, PendingBound DEF ReservesPending
  <2>3. /\ n \in Nat /\ b.amount \in Nat /\ b.reserved \in Int
        /\ b.first \in Nat /\ b.last \in Nat
        /\ b.amount = b.last - b.first + 1
    BY <1>1, <2>1, BlockFacts DEF IInv, RangesTyped, Block
  <2>4. CASE n = b.amount
    BY <2>2, <2>3, <2>4 DEF WholeBlockRequested
  <2>5. CASE n < b.amount
    BY <2>3, <2>5 DEF CanSplit
  <2>. QED
    BY <2>2, <2>3, <2>4, <2>5
<1>. QED
  BY <1>1, InductiveInvariant, RequestsInvariant, PTL

\* While a request is pending its block stays with the company that asked.
THEOREM PendingStaysWithOwner == Spec => PendingKeepsOwner
<1>1. ASSUME IInv, RequestsInv, [Next]_vars
      PROVE  [\A id \in DOMAIN blocks, r \in RetireIds :
                (/\ blocks[id].records[r].status = "PENDING"
                 /\ blocks'[id].records[r].status = "PENDING")
                => blocks'[id].owner = blocks[id].owner]_vars
  BY <1>1, StepRequests DEF OwnerStays
<1>. QED
  BY <1>1, InductiveInvariant, RequestsInvariant, PTL DEF Spec, PendingKeepsOwner


\* The project columns, moved by three functions from the flag of one block,
\* agree with the serial numbers of all blocks in every reachable state.
THEOREM CountersAgree == Spec => []CountersMatchSerials
<1>1. Init => CountersInv
  <2> SUFFICES ASSUME Init, NEW p \in Projects PROVE RowCounts(p)
    BY DEF CountersInv
  <2>1. Unmoved(p) = {}
    BY DEF Init, Unmoved, BlocksOf
  <2>2. /\ project[p].balance = 0 /\ project[p].issued = 0
        /\ project[p].transferred = 0 /\ project[p].retired = 0
    BY DEF Init
  <2>3. CreditEst[p] \in Nat
    BY ConstantsAssumption
  <2>. QED
    BY <2>1, <2>2, <2>3, FS_EmptySet DEF RowCounts
<1>2. CountersInv => CountersMatchSerials
  BY DEF CountersInv, RowCounts, CountersMatchSerials
<1>. QED
  BY <1>1, <1>2, StepCounters, InductiveInvariant, PTL DEF Spec

\* The account of each company is the sum of what its projects were issued.
THEOREM AccountsAgree == Spec => []AccountsMatchProjects
<1>1. Init => AccountsMatchProjects
  <2> SUFFICES ASSUME Init, NEW c \in Companies
               PROVE  account[c] = SumFunction(IssuedOf(c))
    BY DEF AccountsMatchProjects
  <2>1. \A q \in DOMAIN IssuedOf(c) : IssuedOf(c)[q] = 0
    BY DEF Init, IssuedOf
  <2>2. IsFiniteSet(DOMAIN IssuedOf(c))
    BY InitIInv, IssuedOfFacts
  <2>3. SumFunction(IssuedOf(c)) = 0
    BY <2>1, <2>2, SumZero
  <2>. QED
    BY <2>3 DEF Init
<1>. QED
  BY <1>1, StepAccounts, InductiveInvariant, PTL DEF Spec

\* Whatever is transferred or retired from a block, its owner gives away the
\* last serial numbers and keeps the first ones.
THEOREM OwnerKeepsFirst == Spec => OwnerKeepsFirstSerials
<1>1. ASSUME IInv, IInv', KeepsFirst
      PROVE  \A c \in Companies, id \in DOMAIN blocks :
               \A m, n \in Serials(id) :
                 LET lost(k) == <<id[1], k>> \notin Owned(c)'
                 IN  blocks[id].owner = c /\ m < n /\ lost(m) => lost(n)
  <2>1. ASSUME NEW c, NEW p, NEW k \in Int
        PROVE  <<p, k>> \in Owned(c)' <=> OwnedNext(c, p, k)
    <3>1. \A j \in DOMAIN blocks' :
            k \in Serials(j)' <=> blocks'[j].first <= k /\ k <= blocks'[j].last
      BY <1>1 DEF IInv, TypeOK, Block, Serials
    <3>. QED
      BY <3>1 DEF Owned, OwnedNext
  <2>2. \A i \in DOMAIN blocks : Serials(i) \subseteq Int
    BY DEF Serials
  <2>. QED
    BY <1>1, <2>1, <2>2 DEF KeepsFirst
<1>2. IInv /\ IInv' /\ [Next]_vars
        => [\A c \in Companies, id \in DOMAIN blocks :
              \A m, n \in Serials(id) :
                 LET lost(k) == <<id[1], k>> \notin Owned(c)'
                 IN  blocks[id].owner = c /\ m < n /\ lost(m) => lost(n)]_vars
  BY <1>1, StepKeepsFirst
<1>. QED
  BY <1>2, InductiveInvariant, PTL DEF Spec, OwnerKeepsFirstSerials
=============================================================================
