----------------------------- MODULE FixedWindow -----------------------------
(***************************************************************************)
(* FixedWindowThrottle.consume (agent/fixed_window_throttle.py), called by *)
(* the requests of one key from any number of workers over one shared      *)
(* cache.  Each cache call is atomic; between two of them anything may     *)
(* happen, the clock included.                                             *)
(***************************************************************************)
EXTENDS Naturals, FiniteSets

CONSTANTS
    Requests,   \* bound: the requests that are made
    MaxRuns,    \* max_runs
    Window,     \* per_seconds
    MaxTime     \* bound: the clock stops here

FixedWindowAssumption ==
    /\ MaxRuns \in Nat \ {0}
    /\ Window \in Nat \ {0}
    /\ MaxTime \in Nat
    /\ IsFiniteSet(Requests)

VARIABLES
    sound,      \* TRUE: the cache loses no counter, and consume returns within
                \* the window it was called in; FALSE: neither is promised
    now,        \* the clock, in seconds
    count,      \* each window's counter, 0 when the key is absent
    expires,    \* when its key does
    pc,         \* where each request is
    at,         \* the time it read
    retry       \* what a refused one is told to wait

vars == <<sound, now, count, expires, pc, at, retry>>

Bucket(t) == t \div Window
Buckets == 0 .. Bucket(MaxTime)

Inside == {"adding", "incrementing", "reseeding"}

TypeOK ==
    /\ sound \in BOOLEAN
    /\ now \in 0 .. MaxTime
    /\ count \in [Buckets -> Nat]
    /\ expires \in [Buckets -> 0 .. MaxTime + Window]
    /\ pc \in [Requests -> {"idle", "admitted", "refused"} \union Inside]
    /\ at \in [Requests -> 0 .. MaxTime]
    /\ retry \in [Requests -> 0 .. Window]
    /\ \A r \in Requests : retry[r] = 0 <=> pc[r] # "refused"

Init ==
    /\ sound \in BOOLEAN
    /\ now = 0
    /\ count = [b \in Buckets |-> 0]
    /\ expires = [b \in Buckets |-> 0]
    /\ pc = [r \in Requests |-> "idle"]
    /\ at = [r \in Requests |-> 0]
    /\ retry = [r \in Requests |-> 0]

-----------------------------------------------------------------------------
Present(b) == count[b] > 0 /\ now < expires[b]

Seed(b) ==
    /\ count' = [count EXCEPT ![b] = 1]
    /\ expires' = [expires EXCEPT ![b] = now + Window]

GoTo(r, where) == pc' = [pc EXCEPT ![r] = where]

Call(r) ==
    /\ pc[r] = "idle"
    /\ GoTo(r, "adding")
    /\ at' = [at EXCEPT ![r] = now]
    /\ UNCHANGED <<now, count, expires, retry>>

(* set in the place of add.                                                *)
AddAnyway(r) ==
    /\ pc[r] = "adding"
    /\ \/ GoTo(r, "admitted") /\ Seed(Bucket(at[r]))
       \/ /\ Present(Bucket(at[r]))
          /\ GoTo(r, "incrementing")
          /\ UNCHANGED <<count, expires>>
    /\ UNCHANGED <<now, at, retry>>

\* cache.add: the first of a window is let through by having made its counter.
Add(r) ==
    /\ pc[r] = "adding"
    /\ IF Present(Bucket(at[r]))
       THEN GoTo(r, "incrementing") /\ UNCHANGED <<count, expires>>
       ELSE GoTo(r, "admitted") /\ Seed(Bucket(at[r]))
    /\ UNCHANGED <<now, at, retry>>

(* A wait counted from the call, not to the window's end.                  *)
RetryAfterWindow(t) == Window + 1

\* Until the next window begins.
RetryAfter(t) ==
    LET wait == (Bucket(t) + 1) * Window - t
    IN  IF wait < 1 THEN 1 ELSE wait

(* A limit that the last admitted call already meets.                      *)
IncrementStrict(r) ==
    LET b == Bucket(at[r])
    IN  /\ pc[r] = "incrementing"
        /\ IF Present(b)
           THEN /\ count' = [count EXCEPT ![b] = @ + 1]
                /\ IF count[b] + 1 < MaxRuns
                   THEN GoTo(r, "admitted") /\ UNCHANGED retry
                   ELSE /\ GoTo(r, "refused")
                        /\ retry' = [retry EXCEPT ![r] = RetryAfter(at[r])]
           ELSE GoTo(r, "reseeding") /\ UNCHANGED <<count, retry>>
        /\ UNCHANGED <<now, expires, at>>

\* cache.incr, which raises when the key is gone.
Increment(r) ==
    LET b == Bucket(at[r])
    IN  /\ pc[r] = "incrementing"
        /\ IF Present(b)
           THEN /\ count' = [count EXCEPT ![b] = @ + 1]
                /\ IF count[b] + 1 <= MaxRuns
                   THEN GoTo(r, "admitted") /\ UNCHANGED retry
                   ELSE /\ GoTo(r, "refused")
                        /\ retry' = [retry EXCEPT ![r] = RetryAfter(at[r])]
           ELSE GoTo(r, "reseeding") /\ UNCHANGED <<count, retry>>
        /\ UNCHANGED <<now, expires, at>>

\* cache.add once more; whether it added anything is not looked at.
Reseed(r) ==
    /\ pc[r] = "reseeding"
    /\ GoTo(r, "admitted")
    /\ IF Present(Bucket(at[r])) THEN UNCHANGED <<count, expires>> ELSE Seed(Bucket(at[r]))
    /\ UNCHANGED <<now, at, retry>>

Evict(b) ==
    /\ ~sound
    /\ Present(b)
    /\ count' = [count EXCEPT ![b] = 0]
    /\ UNCHANGED <<now, expires, pc, at, retry>>

Tick ==
    /\ now < MaxTime
    /\ sound => \A r \in Requests : pc[r] \in Inside => Bucket(now + 1) = Bucket(at[r])
    /\ now' = now + 1
    /\ UNCHANGED <<count, expires, pc, at, retry>>

Over ==
    /\ now = MaxTime
    /\ \A r \in Requests : pc[r] \notin Inside \union {"idle"}
    /\ UNCHANGED vars

Next ==
    /\ UNCHANGED sound
    /\ \/ \E r \in Requests : Call(r) \/ Add(r) \/ Increment(r) \/ Reseed(r)
       \/ \E b \in Buckets : Evict(b)
       \/ Tick
       \/ Over

Spec == Init /\ [][Next]_vars

-----------------------------------------------------------------------------
Of(b, outcome) == {r \in Requests : pc[r] = outcome /\ Bucket(at[r]) = b}

(* While the cache keeps its counters and its callers do not dawdle, no    *)
(* window lets more than max_runs through, however the calls of different  *)
(* workers interleave.                                                     *)
LimitHolds ==
    sound => \A b \in Buckets : Cardinality(Of(b, "admitted")) <= MaxRuns

(* Nobody is refused in a window that still had room, evictions or not.    *)
RefusedOnlyWhenFull ==
    \A r \in Requests : pc[r] = "refused" =>
        Cardinality(Of(Bucket(at[r]), "admitted")) >= MaxRuns

(* A refused client is never told to come back at once, and one that does  *)
(* wait as told comes back in the very next window.                        *)
RetryMeetsNextWindow ==
    \A r \in Requests : pc[r] = "refused" =>
        retry[r] >= 1 /\ Bucket(at[r] + retry[r]) = Bucket(at[r]) + 1
=============================================================================
