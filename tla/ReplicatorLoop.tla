--------------------------- MODULE ReplicatorLoop ---------------------------
(***************************************************************************)
(* The control of PgSqlReplicatorService.replicate: one cycle reads the    *)
(* four ledger tables in order, each in a try block of its own, then runs  *)
(* the daily ITMO import outside of any, and reschedules itself.  A table  *)
(* may not exist yet when the service starts, an event may fail every      *)
(* time it is processed, and any section may fail now and then.  What a    *)
(* section does to the rows is the matter of CreditReplicator.             *)
(***************************************************************************)
EXTENDS Integers, FiniteSets

CONSTANTS
    Poisoned,      \* tables holding an event whose processing always fails
    LateTables,    \* tables the national service creates after this one starts
    MaxOutages,    \* bound on the failures that pass by themselves
    ItmoEnabled,   \* ITMOSystem.enable
    RetryLimit     \* retryLimit, 10 in the code

Tables == {"programmes", "company", "project", "credit_blocks"}

ASSUME LoopAssumption ==
    /\ Poisoned \subseteq Tables /\ LateTables \subseteq Tables
    /\ MaxOutages \in Nat /\ RetryLimit \in Nat \ {0} /\ ItmoEnabled \in BOOLEAN

VARIABLES
    at,            \* the section that runs next, "timer", "stopped" or "crashed"
    retries,       \* retryCountTable and retryCountCTable
    missing,       \* tables that do not exist yet
    behind,        \* tables with committed events not replicated yet
    failed,        \* tables whose section failed when it last ran
    badCycles,     \* cycles since a section that shares retryCountTable succeeded
    outages

vars == <<at, retries, missing, behind, failed, badCycles, outages>>

-----------------------------------------------------------------------------
Following(t) ==
    CASE t = "programmes" -> "company"
      [] t = "company"    -> "project"
      [] t = "project"    -> "credit_blocks"
      [] t = "credit_blocks" -> "itmo"

\* Three sections count their failures in one variable, company has its own.
CounterOf(t) == IF t = "company" THEN "company" ELSE "table"

Sharing == {t \in Tables : CounterOf(t) = "table"}

\* The query finds no table, or an event it returns cannot be processed.
MustFail(t) == t \in missing \/ (t \in Poisoned /\ t \in behind)

\* Mutant: the counter is never reset.
ClearedMutant(t) == retries

Cleared(t) == [retries EXCEPT ![CounterOf(t)] = 0]

\* All events are replicated and the counter starts again.
Succeed(t) ==
    /\ at = t /\ ~MustFail(t)
    /\ behind' = behind \ {t}
    /\ retries' = Cleared(t)
    /\ at' = Following(t)
    /\ failed' = failed \ {t}
    /\ badCycles' = IF t \in Sharing THEN 0 ELSE badCycles
    /\ UNCHANGED <<missing, outages>>

\* Mutant: off by one.
ExhaustedMutant(t) == retries[CounterOf(t)] > RetryLimit + 1

Exhausted(t) == retries[CounterOf(t)] > RetryLimit

\* Mutant: two for each failure.
CountedMutant(n) == n + 2

Counted(n) == n + 1

\* Mutant: one try block around all the sections.
AfterFailureMutant(t) == "timer"

AfterFailure(t) == Following(t)

\* The catch block: stop for good above the limit, else count and go on.
Fail(t) ==
    /\ at = t
    /\ MustFail(t) \/ outages > 0
    /\ outages' = IF MustFail(t) THEN outages ELSE outages - 1
    /\ failed' = failed \cup {t}
    /\ IF Exhausted(t)
       THEN /\ at' = "stopped"
            /\ UNCHANGED retries
       ELSE /\ at' = AfterFailure(t)
            /\ retries' = [retries EXCEPT ![CounterOf(t)] = Counted(@)]
    /\ UNCHANGED <<missing, behind, badCycles>>

\* The ITMO import is skipped, done, or throws out of replicateActions.
Itmo ==
    /\ at = "itmo"
    /\ at' \in IF ItmoEnabled /\ outages > 0 THEN {"timer", "crashed"} ELSE {"timer"}
    /\ outages' = IF at' = "crashed" THEN outages - 1 ELSE outages
    /\ badCycles' = IF badCycles <= RetryLimit THEN badCycles + 1 ELSE badCycles
    /\ UNCHANGED <<retries, missing, behind, failed>>

\* setTimeout(replicateActions, 1000)
Timer ==
    /\ at = "timer"
    /\ at' = "programmes"
    /\ UNCHANGED <<retries, missing, behind, failed, badCycles, outages>>

\* The national service creates a table, and a call commits an event to one.
CreateTable(t) ==
    /\ t \in missing
    /\ missing' = missing \ {t}
    /\ UNCHANGED <<at, retries, behind, failed, badCycles, outages>>

Write(t) ==
    /\ t \notin missing /\ t \notin behind
    /\ behind' = behind \cup {t}
    /\ UNCHANGED <<at, retries, missing, failed, badCycles, outages>>

-----------------------------------------------------------------------------
Init ==
    /\ at = "programmes"
    /\ retries = [c \in {"table", "company"} |-> 0]
    /\ missing = LateTables
    /\ behind = {} /\ failed = {} /\ badCycles = 0
    /\ outages = MaxOutages

Section(t) == Succeed(t) \/ Fail(t)

Next ==
    \/ \E t \in Tables : Section(t) \/ CreateTable(t) \/ Write(t)
    \/ Itmo \/ Timer

\* The event loop runs what is scheduled; the tables are created in the end.
Fairness ==
    /\ WF_vars(\E t \in Tables : Section(t)) /\ WF_vars(Itmo) /\ WF_vars(Timer)
    /\ \A t \in Tables : WF_vars(CreateTable(t))

Spec == Init /\ [][Next]_vars /\ Fairness

-----------------------------------------------------------------------------
(* Properties *)

Halted == at \in {"stopped", "crashed"}

\* Types.
TypeOK ==
    /\ at \in Tables \cup {"itmo", "timer", "stopped", "crashed"}
    /\ retries \in [{"table", "company"} -> 0 .. RetryLimit + 1]
    /\ missing \subseteq Tables /\ behind \subseteq Tables /\ failed \subseteq Tables
    /\ outages \in 0 .. MaxOutages

\* A table that keeps failing alone never stops the replicator, because the
\* sections next to it set the counter they share back to 0; the company
\* table, which has its own counter, does.
StopsOnlyIfAllFail ==
    at = "stopped" => "company" \in failed \/ Sharing \subseteq failed

\* retryLimit counts failures, not cycles: with three failures in a cycle the
\* replicator gives up in a third of that many cycles, but never sooner.
GivesUpNoSooner ==
    (at = "stopped" /\ "company" \notin failed) =>
        3 * (badCycles + 1) > RetryLimit + 1

\* Every committed event is replicated unless its own table is bad: a section
\* that fails does not hold up the sections after it.
OthersCatchUp ==
    \A t \in Tables \ Poisoned : t \in behind ~> (t \notin behind \/ Halted)
=============================================================================
