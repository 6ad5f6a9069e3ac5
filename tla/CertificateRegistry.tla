------------------------- MODULE CertificateRegistry -------------------------
(***************************************************************************)
(* The certificate registry (certificate-registry/                         *)
(* certificate.registry.service.ts): lots of certificates, the journal of  *)
(* their events and the portions that hold the certificates now.           *)
(*                                                                         *)
(* Every event carries an idempotency key, from which the identifiers of   *)
(* the event and of the portion it creates are derived: events and         *)
(* portions are functions of the key.  recordEvent looks the key up BEFORE *)
(* it locks the lot, so a call is two steps here, Submit and Record, and   *)
(* other calls may run between them.  What follows the lock is one step.   *)
(***************************************************************************)
EXTENDS Integers, FiniteSets, Functions

CONSTANTS
    LotIds,      \* identifiers of certificate lots
    Companies,   \* companies that can own certificates
    Keys,        \* idempotency keys
    Callers,     \* concurrent calls of recordEvent
    KeysOf,      \* KeysOf[c]: the keys call c may carry
    Quantities,  \* the quantities of lots and events
    EventTypes,  \* the types of event the calls record, ISSUED apart
    None         \* no source, no parent, no recipient, no call

ASSUME RegistryAssumption ==
    /\ KeysOf \in [Callers -> SUBSET Keys]
    /\ Quantities \subseteq Nat \ {0}
    /\ None \notin Keys \cup Companies \cup LotIds

VARIABLES
    lots,      \* table certificate_lot, a function of the lots that exist
    portions,  \* table certificate_portion, by the key of the creating event
    events,    \* table certificate_ledger_event, by idempotency key
    call       \* call[c]: the command that passed the key check, or None

\* No two calls carry the same key.
OwnKeys == \A c, d \in Callers : c # d => KeysOf[c] \cap KeysOf[d] = {}

Command == [key : Keys, lot : LotIds, type : EventTypes \cup {"ISSUED"},
            quantity : Quantities, source : Keys \cup {None},
            parent : Keys \cup {None}, to : Companies \cup {None}]

\* save(): inserts a row or overwrites the one with its identifier.
With(table, id, row) ==
    [i \in DOMAIN table \cup {id} |-> IF i = id THEN row ELSE table[i]]

-----------------------------------------------------------------------------
(* The states a portion can be in and the simple events that change them.   *)

Transition ==
    [TRANSFERRED              |-> [from |-> "AVAILABLE", to |-> "AVAILABLE"],
     RETIRED                  |-> [from |-> "AVAILABLE", to |-> "RETIRED"],
     CANCELLED                |-> [from |-> "AVAILABLE", to |-> "CANCELLED"],
     ASSIGNED_TO_EXCHANGE     |-> [from |-> "AVAILABLE", to |-> "EXCHANGE"],
     UNASSIGNED_FROM_EXCHANGE |-> [from |-> "EXCHANGE", to |-> "AVAILABLE"],
     WITHHELD                 |-> [from |-> "AVAILABLE", to |-> "WITHHELD"],
     RELEASED                 |-> [from |-> "WITHHELD", to |-> "AVAILABLE"]]

PortionStates == {"AVAILABLE", "RETIRED", "CANCELLED", "EXCHANGE", "WITHHELD"}

Held(ps, l) == {k \in DOMAIN ps : ps[k].lot = l}
QuantityOf(ps, l) == SumFunction([k \in Held(ps, l) |-> ps[k].quantity])
HasHistory(l) == Held(events, l) \cup Held(portions, l) # {}

\* The guards on an event that takes from a source portion.
SourceCovers(cmd) ==
    /\ cmd.source \in Held(portions, cmd.lot)
    /\ portions[cmd.source].quantity >= cmd.quantity

Reversible(cmd) ==
    /\ cmd.parent \in DOMAIN events
    /\ events[cmd.parent].lot = cmd.lot
    /\ events[cmd.parent].quantity = cmd.quantity
    /\ events[cmd.parent].fromState # None
    /\ portions[cmd.source].state = events[cmd.parent].toState

\* Mutant: the state of the source portion is not checked.
AcceptsMutant(cmd) ==
    /\ cmd.lot \in DOMAIN lots
    /\ \/ /\ cmd.type = "ISSUED"
          /\ Held(portions, cmd.lot) = {}
          /\ lots[cmd.lot].issued = cmd.quantity
          /\ cmd.to # None
       \/ /\ cmd.type = "REVERSED"
          /\ SourceCovers(cmd) /\ Reversible(cmd)
       \/ /\ cmd.type \in DOMAIN Transition
          /\ SourceCovers(cmd)
          /\ cmd.type = "TRANSFERRED" => cmd.to # None

Accepts(cmd) ==
    /\ cmd.lot \in DOMAIN lots
    /\ \/ /\ cmd.type = "ISSUED"
          /\ Held(portions, cmd.lot) = {}
          /\ lots[cmd.lot].issued = cmd.quantity
          /\ cmd.to # None
       \/ /\ cmd.type = "REVERSED"
          /\ SourceCovers(cmd) /\ Reversible(cmd)
       \/ /\ cmd.type \in DOMAIN Transition
          /\ SourceCovers(cmd)
          /\ portions[cmd.source].state = Transition[cmd.type].from
          /\ cmd.type = "TRANSFERRED" => cmd.to # None

TargetState(cmd) ==
    IF cmd.type = "ISSUED" THEN "AVAILABLE"
    ELSE IF cmd.type = "REVERSED" THEN events[cmd.parent].fromState
    ELSE Transition[cmd.type].to

\* Mutant: the owner of the source portion is no longer the default.
TargetOwnerMutant(cmd) ==
    IF cmd.type = "REVERSED" THEN events[cmd.parent].fromOwner ELSE cmd.to

TargetOwner(cmd) ==
    IF cmd.type = "REVERSED" THEN events[cmd.parent].fromOwner
    ELSE IF cmd.to # None THEN cmd.to ELSE portions[cmd.source].owner

-----------------------------------------------------------------------------
(* What recordEvent does once it holds the lock on the lot.                 *)

\* The source portion is removed when nothing is left of it.
TakenFrom(cmd) ==
    IF cmd.source = None THEN portions
    ELSE IF portions[cmd.source].quantity = cmd.quantity
         THEN RestrictDomain(portions, LAMBDA k : k # cmd.source)
         ELSE [portions EXCEPT ![cmd.source].quantity = @ - cmd.quantity]

PortionsAfter(cmd) ==
    With(TakenFrom(cmd), cmd.key,
         [lot |-> cmd.lot, owner |-> TargetOwner(cmd),
          state |-> TargetState(cmd), quantity |-> cmd.quantity])

\* Mutant: the event keeps the recipient of the command, not the new owner.
EventOfMutant(cmd) ==
    [lot |-> cmd.lot, type |-> cmd.type, quantity |-> cmd.quantity,
     source |-> cmd.source, parent |-> cmd.parent,
     fromOwner |-> IF cmd.source = None THEN None
                   ELSE portions[cmd.source].owner,
     toOwner |-> cmd.to,
     fromState |-> IF cmd.source = None THEN None
                   ELSE portions[cmd.source].state,
     toState |-> TargetState(cmd)]

EventOf(cmd) ==
    [lot |-> cmd.lot, type |-> cmd.type, quantity |-> cmd.quantity,
     source |-> cmd.source, parent |-> cmd.parent,
     fromOwner |-> IF cmd.source = None THEN None
                   ELSE portions[cmd.source].owner,
     toOwner |-> TargetOwner(cmd),
     fromState |-> IF cmd.source = None THEN None
                   ELSE portions[cmd.source].state,
     toState |-> TargetState(cmd)]

\* assertLotConservation: otherwise the transaction is rolled back.
Conserves(cmd) == QuantityOf(PortionsAfter(cmd), cmd.lot) = lots[cmd.lot].issued

Apply(cmd) ==
    /\ Accepts(cmd)
    /\ Conserves(cmd)
    /\ portions' = PortionsAfter(cmd)
    /\ events' = With(events, cmd.key, EventOf(cmd))
    /\ lots' = IF cmd.type = "ISSUED"
               THEN [lots EXCEPT ![cmd.lot].issuedAt = TRUE] ELSE lots

-----------------------------------------------------------------------------
(* The steps of a call.                                                     *)

\* Mutant: the key is not looked up.
SubmitMutant(c, cmd) ==
    /\ call[c] = None
    /\ cmd.key \in KeysOf[c]
    /\ call' = [call EXCEPT ![c] = cmd]

\* The key is new, so the call goes on; a call with a known key ends here,
\* with the recorded event or with a conflict, and changes nothing.
Submit(c, cmd) ==
    /\ call[c] = None
    /\ cmd.key \in KeysOf[c] \ DOMAIN events
    /\ call' = [call EXCEPT ![c] = cmd]

Record(c) ==
    /\ call[c] # None
    /\ Apply(call[c])
    /\ call' = [call EXCEPT ![c] = None]

\* The call is refused, loses a race for a unique index, or its process dies.
Fail(c) ==
    /\ call[c] # None
    /\ call' = [call EXCEPT ![c] = None]
    /\ UNCHANGED <<lots, portions, events>>

\* The commands of the management screens: what would be accepted right now.
ManagementCommand(c) ==
    LET simple == {[key |-> k, lot |-> portions[s].lot, type |-> t,
                    quantity |-> q, source |-> s, parent |-> None, to |-> w] :
                   k \in KeysOf[c], s \in DOMAIN portions,
                   t \in EventTypes \cap DOMAIN Transition, q \in Quantities,
                   w \in Companies \cup {None}}
        reversal == {[key |-> k, lot |-> portions[s].lot, type |-> "REVERSED",
                      quantity |-> events[p].quantity, source |-> s,
                      parent |-> p, to |-> None] :
                     k \in KeysOf[c], s \in DOMAIN portions,
                     p \in {e \in DOMAIN events : "REVERSED" \in EventTypes}}
        issue == {[key |-> k, lot |-> l, type |-> "ISSUED",
                   quantity |-> lots[l].issued, source |-> None,
                   parent |-> None, to |-> w] :
                  k \in KeysOf[c], l \in DOMAIN lots, w \in Companies}
    IN {cmd \in simple \cup reversal \cup issue : Accepts(cmd)}

-----------------------------------------------------------------------------
(* Management of lots; each call locks the lot and is one step.             *)

Draft(q) == [issued |-> q, issuedAt |-> FALSE, archived |-> FALSE]

CreateLot(l, q) ==
    /\ l \notin DOMAIN lots
    /\ lots' = With(lots, l, Draft(q))
    /\ UNCHANGED <<portions, events, call>>

\* Mutant: a lot can be edited after its issue.
UpdateLotMutant(l, q) ==
    /\ l \in DOMAIN lots
    /\ ~lots[l].archived
    /\ lots' = [lots EXCEPT ![l].issued = q]
    /\ UNCHANGED <<portions, events, call>>

UpdateLot(l, q) ==
    /\ l \in DOMAIN lots
    /\ ~lots[l].archived
    /\ ~HasHistory(l)
    /\ lots' = [lots EXCEPT ![l].issued = q]
    /\ UNCHANGED <<portions, events, call>>

ArchiveLot(l) ==
    /\ l \in DOMAIN lots
    /\ ~lots[l].archived
    /\ ~HasHistory(l)
    /\ lots' = [lots EXCEPT ![l].archived = TRUE]
    /\ UNCHANGED <<portions, events, call>>

ManageLots ==
    \E l \in LotIds :
        \/ \E q \in Quantities : CreateLot(l, q) \/ UpdateLot(l, q)
        \/ ArchiveLot(l)

-----------------------------------------------------------------------------
RegistryInit ==
    /\ lots = <<>>
    /\ portions = <<>>
    /\ events = <<>>
    /\ call = [c \in Callers |-> None]

\* The steps of the calls behind the management screens and of the lots.
RegistryNext(managers) ==
    \/ \E c \in managers :
        \/ \E cmd \in ManagementCommand(c) :
            Submit(c, cmd) /\ UNCHANGED <<lots, portions, events>>
        \/ Record(c)
        \/ Fail(c)
    \/ ManageLots
=============================================================================
