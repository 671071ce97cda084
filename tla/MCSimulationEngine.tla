------------------------- MODULE MCSimulationEngine -------------------------
(***************************************************************************)
(* The ledger of an engine by itself, and the engine.                       *)
(*                                                                          *)
(* The ledger: one currency whose amounts can be finer than its minor unit  *)
(* (grain 2, so 1 and 3 are ties), one that has no minor unit (grain 1) and *)
(* one that is not supported.                                               *)
(*                                                                          *)
(* The engine, in three executions: one that schedules much and logs        *)
(* nothing, one that logs any batch, and one with an adapter that behaves.  *)
(***************************************************************************)
EXTENDS Ledger, SimulationEngine, TLC

CONSTANTS alice, bob, bank, usd, jpy, xxx, e1, e2

MCAccounts == {alice, bob, bank}
MCCurrencies == {usd, jpy, xxx}
MCGrain == usd :> 2 @@ jpy :> 1
MCCreditAccounts == {bank}
MCCreditPairs == {<<bob, jpy>>}

MCOpenings ==
    {<<alice, usd>> :> 7 @@ <<bob, usd>> :> 1 @@ <<alice, jpy>> :> 1,
     <<alice, usd>> :> 5 @@ <<bank, usd>> :> -3,
     <<alice, usd>> :> -2 @@ <<bob, jpy>> :> -2}

(* Transfers whose two sides agree before, after, or neither before nor after
   rounding; one leg, two legs, an account on both sides, no leg at all, a
   negative leg and a leg without an account. *)
Legs ==
    {alice :> 1, alice :> 2, alice :> 3, bob :> 2, bank :> 2, bank :> 4,
     alice :> 1 @@ bob :> 1, bob :> 3 @@ bank :> 1, bob :> -1, BlankAccount :> 1, <<>>}

(* Where the grain is 1 nothing rounds away; a second entry needs no bad legs. *)
PlainLegs == {alice :> 1, alice :> 2, bob :> 2, bank :> 2}

Wanted(i, legs, c) ==
    {[id |-> i, debit |-> d, credit |-> k, currency |-> c] : d \in legs, k \in legs}

MCRequests ==
    Wanted(e1, Legs, usd) \cup Wanted(e2, PlainLegs, usd)
    \cup Wanted(e1, PlainLegs \cup {bob :> -1}, jpy) \cup Wanted(e2, PlainLegs, jpy)
    \cup {[id |-> BlankId, debit |-> alice :> 2, credit |-> bob :> 2, currency |-> usd],
          [id |-> e1, debit |-> alice :> 2, credit |-> bob :> 2, currency |-> xxx]}
-----------------------------------------------------------------------------
Profile(honest, priorities, uuidLimit, maxSchedules, maxWrites, maxEvents) ==
    [honest |-> honest, priorities |-> priorities, uuidLimit |-> uuidLimit,
     maxSchedules |-> maxSchedules, maxWrites |-> maxWrites, maxEvents |-> maxEvents]

MCProfiles ==
    {Profile(FALSE, {0, 1}, 1, 3, 0, 0),
     Profile(FALSE, {0}, 2, 2, 1, 2),
     Profile(TRUE, {0}, 4, 2, 0, 3)}
-----------------------------------------------------------------------------
VARIABLE part      \* "ledger" or "engine"; fixed

LedgerOpenings == {Opened(o) : o \in {p \in Openings : Constructible(p)}}

(* What the other part starts with does not matter. *)
MCInit ==
    /\ Init
    /\ EngineInit
    /\ \/ part = "ledger" /\ profile = CHOOSE p \in Profiles : TRUE
       \/ part = "engine" /\ opening = CHOOSE o \in LedgerOpenings : TRUE

MCNext ==
    /\ \/ part = "ledger" /\ Next /\ UNCHANGED engineVars
       \/ part = "engine" /\ EngineNext /\ UNCHANGED vars
    /\ UNCHANGED part

MCSpec ==
    /\ MCInit
    /\ [][MCNext]_<<part, vars, engineVars>>
    /\ EngineFairness
=============================================================================
