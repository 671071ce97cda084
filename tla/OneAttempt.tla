------------------------------ MODULE OneAttempt ------------------------------
(***************************************************************************)
(* What a one-time run promises, from the code that claims it              *)
(* (scripts/run_defense_v5_locked_development.py, "Execute one authorized   *)
(* run"): an attempt is consumed before anything is executed, only the      *)
(* attempt that consumed it executes, once, and from then on nothing gives  *)
(* it back.  LockedAttempt implements it.                                   *)
(***************************************************************************)
CONSTANTS
    Attempts,   \* calls of the runner
    NoAttempt

VARIABLES
    consumed,   \* the call that consumed the attempt, or NoAttempt
    executed    \* the calls that have begun to execute

attemptVars == <<consumed, executed>>

AttemptInit == consumed = NoAttempt /\ executed = {}

Consume(a) == consumed = NoAttempt /\ consumed' = a /\ UNCHANGED executed

Execute(a) == consumed = a /\ executed = {} /\ executed' = {a} /\ UNCHANGED consumed

(* A power loss may undo what has not led to anything yet. *)
Forget == executed = {} /\ consumed' = NoAttempt /\ UNCHANGED executed

AttemptNext == Forget \/ \E a \in Attempts : Consume(a) \/ Execute(a)

AttemptSpec == AttemptInit /\ [][AttemptNext]_attemptVars
=============================================================================
