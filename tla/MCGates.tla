------------------------------- MODULE MCGates -------------------------------
(***************************************************************************)
(* What a request passes before it costs anything: the views' gates, which *)
(* ask a limiter for room, and the fixed-window limiter itself, in the     *)
(* shared cache.  Endpoints takes a limiter for one atomic step, and       *)
(* FixedWindow shows what that step is worth; they share no state, so each *)
(* is explored with the other at rest.                                     *)
(***************************************************************************)
EXTENDS Endpoints, TLC

CONSTANTS
    r1, r2,
    Calls,                      \* FixedWindow's requests
    MaxRuns, Window, MaxTime

VARIABLES
    half,       \* which of the two is explored
    sound, now, count, expires, at, retry,
    inside      \* FixedWindow's pc

Limiter == INSTANCE FixedWindow WITH Requests <- Calls, pc <- inside

ASSUME LimiterAssumption == Limiter!FixedWindowAssumption

windowVars == <<sound, now, count, expires, at, retry, inside>>

\* An endpoint of which everything is asked and nothing wrong.
Mounted == [requests |-> {r1}, required |-> FALSE, enforced |-> FALSE, enabled |-> TRUE,
            budget |-> 0, maxBytes |-> 3, maxFiles |-> 3, maxSize |-> 4]

\* Two requests that share a budget; one long body, under a cap and, parsed
\* by the middleware, under none; an endpoint with nothing behind it.
Crowded == [Mounted EXCEPT !.requests = {r1, r2}, !.required = TRUE, !.budget = 1,
                           !.maxBytes = 1, !.maxFiles = 1, !.maxSize = 3]
Sifted == [Mounted EXCEPT !.enforced = TRUE, !.maxBytes = 0, !.maxFiles = 2, !.maxSize = 2]
Empty == [Mounted EXCEPT !.requests = {r1, r2}, !.enabled = FALSE, !.budget = 1,
                         !.maxBytes = 1, !.maxFiles = 1, !.maxSize = 2]

Served == {Mounted, Crowded, Sifted, Empty}

\* The middleware's parse under a cap.
CsrfEnforced == {[Mounted EXCEPT !.enforced = TRUE]}

CallSymmetry == Permutations(Calls)

AtRest == setup = Mounted /\ route = [r \in Requests |-> "read"]

MCInit ==
    /\ Init
    /\ Limiter!Init
    /\ \/ half = "views" /\ sound
       \/ half = "limiter" /\ AtRest

MCNext ==
    /\ UNCHANGED half
    /\ \/ half = "views" /\ Next /\ UNCHANGED windowVars
       \/ half = "limiter" /\ Limiter!Next /\ UNCHANGED vars

MCSpec == MCInit /\ [][MCNext]_<<half, vars, windowVars>>

-----------------------------------------------------------------------------
(* A refusal costs nothing, a body is parsed no further than its cap, and  *)
(* an answer tells what was done.                                          *)
RefusedBeforeWork ==
    TypeOK /\ RefusalCostsNothing /\ ParsesNoMoreThanTheCap /\ AnswerTellsTheEffect

(* No window of a sound cache lets more than max_runs through.             *)
LimitHolds == Limiter!TypeOK /\ Limiter!LimitHolds

(* Nobody is refused in a window that still had room, and whoever waits as *)
(* told comes back in the next one.                                        *)
RefusalIsFair == Limiter!RefusedOnlyWhenFull /\ Limiter!RetryMeetsNextWindow
=============================================================================
