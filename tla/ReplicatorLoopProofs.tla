------------------------ MODULE ReplicatorLoopProofs ------------------------
(***************************************************************************)
(* Proofs about ReplicatorLoop for every retry limit from 1 on, every set  *)
(* of poisoned and late tables and any number of passing failures.  The    *)
(* shared counter says nothing by itself of which sections failed: the     *)
(* inductive invariant IInv reads it together with the place in the cycle. *)
(***************************************************************************)
EXTENDS ReplicatorLoop, TLAPS

-----------------------------------------------------------------------------
(* The inductive invariant *)

\* The shared counter counts failures in a row: so many of x, y and z, the
\* sharing sections from the last one that ran backwards, are failed.
FailedInARow(x, y, z) ==
    /\ retries["table"] >= 1 => x \in failed
    /\ retries["table"] >= 2 => y \in failed
    /\ retries["table"] >= 3 => z \in failed

RowOfFailures ==
    /\ at \in {"itmo", "timer", "programmes"} =>
            FailedInARow("credit_blocks", "project", "programmes")
    /\ at \in {"company", "project"} =>
            FailedInARow("programmes", "credit_blocks", "project")
    /\ at = "credit_blocks" =>
            FailedInARow("project", "programmes", "credit_blocks")

\* A cycle adds three failures at most, k of them up to the section that runs
\* next; badCycles itself is only counted up to the limit.
AtMost(k) ==
    retries["table"] <= 3 * badCycles + k \/ badCycles > RetryLimit

FailuresPerCycle ==
    /\ at \in {"timer", "programmes"} => AtMost(0)
    /\ at \in {"company", "project"} => AtMost(1)
    /\ at = "credit_blocks" => AtMost(2)
    /\ at = "itmo" => AtMost(3)

IInv ==
    /\ TypeOK /\ badCycles \in Nat
    /\ RowOfFailures /\ FailuresPerCycle
    /\ StopsOnlyIfAllFail /\ GivesUpNoSooner

-----------------------------------------------------------------------------
(* The steps *)

LEMMA InitIInv == Init => IInv
  BY LoopAssumption
     DEF Init, IInv, TypeOK, Tables, RowOfFailures, FailedInARow,
         FailuresPerCycle, AtMost, StopsOnlyIfAllFail, GivesUpNoSooner

LEMMA SucceedIInv ==
    ASSUME IInv, NEW t \in Tables, Succeed(t)
    PROVE  IInv'
<1>1. /\ retries["table"] \in 0 .. RetryLimit + 1
      /\ retries["company"] \in 0 .. RetryLimit + 1
      /\ DOMAIN retries = {"table", "company"} /\ RetryLimit \in Nat
  BY LoopAssumption DEF IInv, TypeOK
<1>2. CASE t = "company"
  <2>1. retries'["table"] = retries["table"] /\ badCycles' = badCycles
    BY <1>1, <1>2 DEF Succeed, Cleared, CounterOf, Sharing
  <2>2. at = "company" /\ at' = "project" /\ failed' = failed \ {"company"}
    BY <1>2 DEF Succeed, Following
  <2>3. TypeOK'
    BY <1>1, <1>2, <2>2 DEF IInv, TypeOK, Succeed, Cleared, CounterOf, Tables
  <2>. QED
    BY <2>1, <2>2, <2>3
       DEF IInv, RowOfFailures, FailedInARow, FailuresPerCycle, AtMost,
           StopsOnlyIfAllFail, GivesUpNoSooner
<1>3. CASE t # "company"
  <2>1. retries'["table"] = 0 /\ badCycles' = 0
    BY <1>1, <1>3 DEF Succeed, Cleared, CounterOf, Sharing
  <2>2. at' \in {"company", "credit_blocks", "itmo"} /\ failed' \subseteq failed
    BY <1>3 DEF Succeed, Following, Tables
  <2>3. TypeOK'
    BY <1>1, <1>3, <2>2 DEF IInv, TypeOK, Succeed, Cleared, CounterOf, Tables
  <2>. QED
    BY <1>1, <2>1, <2>2, <2>3
       DEF IInv, RowOfFailures, FailedInARow, FailuresPerCycle, AtMost,
           StopsOnlyIfAllFail, GivesUpNoSooner
<1>. QED
  BY <1>2, <1>3

LEMMA FailIInv ==
    ASSUME IInv, NEW t \in Tables, Fail(t)
    PROVE  IInv'
<1>1. /\ retries["table"] \in 0 .. RetryLimit + 1
      /\ retries["company"] \in 0 .. RetryLimit + 1
      /\ DOMAIN retries = {"table", "company"} /\ RetryLimit \in Nat \ {0}
      /\ badCycles \in Nat /\ badCycles' = badCycles /\ at = t
      /\ failed' = failed \cup {t}
  BY LoopAssumption DEF IInv, TypeOK, Fail
<1>2. /\ missing' \subseteq Tables /\ behind' \subseteq Tables
      /\ failed' \subseteq Tables /\ outages' \in 0 .. MaxOutages
  BY LoopAssumption DEF IInv, TypeOK, Fail
<1>3. CASE Exhausted(t)
  <2>1. at' = "stopped" /\ retries' = retries
    BY <1>3 DEF Fail
  <2>2. TypeOK'
    BY <1>2, <2>1 DEF IInv, TypeOK
  <2>3. CASE t = "company"
    BY <1>1, <2>1, <2>2, <2>3
       DEF IInv, RowOfFailures, FailuresPerCycle, StopsOnlyIfAllFail,
           GivesUpNoSooner
  <2>4. CASE t # "company"
    <3>1. retries["table"] = RetryLimit + 1
      BY <1>1, <1>3, <2>4 DEF Exhausted, CounterOf
    <3>2. Sharing = {"programmes", "project", "credit_blocks"}
      BY DEF Sharing, Tables, CounterOf
    <3>3. Sharing \subseteq failed'
      BY <1>1, <2>4, <3>1, <3>2 DEF IInv, RowOfFailures, FailedInARow, Tables
    <3>4. 3 * (badCycles + 1) > RetryLimit + 1
      BY <1>1, <2>4, <3>1 DEF IInv, FailuresPerCycle, AtMost, Tables
    <3>. QED
      BY <1>1, <2>1, <2>2, <3>3, <3>4
         DEF IInv, RowOfFailures, FailuresPerCycle, StopsOnlyIfAllFail,
             GivesUpNoSooner, Sharing, Tables, CounterOf
  <2>. QED
    BY <2>3, <2>4
<1>4. CASE ~Exhausted(t)
  <2>1. /\ at' = Following(t)
        /\ retries' = [retries EXCEPT ![CounterOf(t)] = @ + 1]
    BY <1>4 DEF Fail, AfterFailure, Counted
  <2>2. TypeOK'
    BY <1>1, <1>2, <1>4, <2>1
       DEF IInv, TypeOK, Exhausted, Following, CounterOf, Tables
  <2>3. CASE t = "company"
    <3>1. retries'["table"] = retries["table"] /\ at' = "project"
      BY <1>1, <2>1, <2>3 DEF CounterOf, Following
    <3>. QED
      BY <1>1, <2>2, <2>3, <3>1
         DEF IInv, RowOfFailures, FailedInARow, FailuresPerCycle, AtMost,
             StopsOnlyIfAllFail, GivesUpNoSooner
  <2>4. CASE t # "company"
    <3>1. retries'["table"] = retries["table"] + 1
      BY <1>1, <2>1, <2>4 DEF CounterOf
    <3>2. /\ t = "programmes" => at' = "company"
          /\ t = "project" => at' = "credit_blocks"
          /\ t = "credit_blocks" => at' = "itmo"
      BY <2>1 DEF Following
    <3>3. RowOfFailures'
      BY <1>1, <2>4, <3>1, <3>2 DEF IInv, RowOfFailures, FailedInARow, Tables
    <3>4. FailuresPerCycle'
      BY <1>1, <2>4, <3>1, <3>2 DEF IInv, FailuresPerCycle, AtMost, Tables
    <3>. QED
      BY <1>1, <2>2, <2>4, <3>2, <3>3, <3>4
         DEF IInv, StopsOnlyIfAllFail, GivesUpNoSooner, Tables
  <2>. QED
    BY <2>3, <2>4
<1>. QED
  BY <1>3, <1>4

LEMMA ItmoIInv ==
    ASSUME IInv, Itmo
    PROVE  IInv'
<1>1. /\ retries["table"] \in 0 .. RetryLimit + 1 /\ RetryLimit \in Nat
      /\ badCycles \in Nat /\ badCycles' \in Nat
      /\ badCycles' = badCycles + 1 \/ badCycles' > RetryLimit
  BY LoopAssumption DEF IInv, TypeOK, Itmo
<1>2. /\ at = "itmo" /\ at' \in {"timer", "crashed"}
      /\ retries' = retries /\ failed' = failed
  BY DEF Itmo
<1>3. TypeOK'
  BY LoopAssumption DEF IInv, TypeOK, Itmo
<1>4. RowOfFailures'
  BY <1>2 DEF IInv, RowOfFailures, FailedInARow
<1>5. FailuresPerCycle'
  BY <1>1, <1>2 DEF IInv, FailuresPerCycle, AtMost
<1>. QED
  BY <1>1, <1>2, <1>3, <1>4, <1>5
     DEF IInv, StopsOnlyIfAllFail, GivesUpNoSooner

\* The other steps leave the counters, the failures and the stop alone.
LEMMA OtherIInv ==
    ASSUME IInv,
           \/ Timer \/ UNCHANGED vars
           \/ \E t \in Tables : CreateTable(t) \/ Write(t)
    PROVE  IInv'
<1>1. /\ retries' = retries /\ failed' = failed /\ badCycles' = badCycles
      /\ at' = at \/ (at = "timer" /\ at' = "programmes")
  BY DEF Timer, CreateTable, Write, vars
<1>2. TypeOK'
  BY DEF IInv, TypeOK, Timer, CreateTable, Write, vars, Tables
<1>. QED
  BY <1>1, <1>2
     DEF IInv, RowOfFailures, FailedInARow, FailuresPerCycle, AtMost,
         StopsOnlyIfAllFail, GivesUpNoSooner

-----------------------------------------------------------------------------
(* The theorems *)

\* The counter and the failures recorded for the sections stay in step,
\* whatever fails and passes.
THEOREM InductiveInvariant == Spec => []IInv
<1>1. IInv /\ [Next]_vars => IInv'
  BY SucceedIInv, FailIInv, ItmoIInv, OtherIInv DEF Next, Section
<1>. QED
  BY <1>1, InitIInv, PTL DEF Spec

\* The loop's variables keep their types: no counter passes retryLimit + 1.
THEOREM LoopTypes == Spec => []TypeOK
<1>1. IInv => TypeOK
  BY DEF IInv
<1>. QED
  BY <1>1, InductiveInvariant, PTL

\* One table that keeps failing never stops the replicator unless it is the
\* company table: the sections beside it reset the counter they share.
THEOREM StopNeedsAllSections == Spec => []StopsOnlyIfAllFail
<1>1. IInv => StopsOnlyIfAllFail
  BY DEF IInv
<1>. QED
  BY <1>1, InductiveInvariant, PTL

\* The replicator does not give up before a third of retryLimit cycles have
\* passed without a success in the sections that share the counter.
THEOREM NoEarlyStop == Spec => []GivesUpNoSooner
<1>1. IInv => GivesUpNoSooner
  BY DEF IInv
<1>. QED
  BY <1>1, InductiveInvariant, PTL
=============================================================================
