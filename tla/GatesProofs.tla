------------------------------ MODULE GatesProofs ------------------------------
(***************************************************************************)
(* What MCGates checks on small instances, for every endpoint, number of   *)
(* requests, limit, window and time: the limiter first, the gates after.   *)
(*                                                                         *)
(* The limiter: a counter never passes what its window let through, unless *)
(* the window is full already; in a sound cache it lives as long as its    *)
(* window, so a window that is full stays refused.  The cache may forget   *)
(* as it likes for the other half: whoever is refused met a full window.   *)
(*                                                                         *)
(* The gates: where a request stands says what it has passed, what a       *)
(* parser has read is in the files it has kept, and what was done is what  *)
(* was answered.  Requests are taken one at a time; a step of one leaves   *)
(* what is known of the others alone, but for the purse they share.        *)
(***************************************************************************)
EXTENDS MCGates, FiniteSetTheorems, TLAPS

-----------------------------------------------------------------------------
(* The limiter.                                                            *)

(* The window of a time begins by it and ends after it.                    *)
LEMMA BucketBounds ==
    ASSUME NEW t \in Nat
    PROVE  /\ Limiter!Bucket(t) \in Nat
           /\ Limiter!Bucket(t) * Window <= t
           /\ t < (Limiter!Bucket(t) + 1) * Window
BY LimiterAssumption DEF Limiter!FixedWindowAssumption, Limiter!Bucket

LEMMA BucketOf ==
    ASSUME NEW t \in Nat, NEW b \in Nat, b * Window <= t, t < (b + 1) * Window
    PROVE  Limiter!Bucket(t) = b
BY LimiterAssumption DEF Limiter!FixedWindowAssumption, Limiter!Bucket

LEMMA BucketInRange ==
    ASSUME NEW t \in 0 .. MaxTime
    PROVE  Limiter!Bucket(t) \in Limiter!Buckets
<1>1. t \in Nat /\ MaxTime \in Nat /\ t <= MaxTime /\ Window \in Nat \ {0}
  BY LimiterAssumption DEF Limiter!FixedWindowAssumption
<1>2. Limiter!Bucket(t) <= Limiter!Bucket(MaxTime)
  BY <1>1 DEF Limiter!Bucket
<1>3. QED BY <1>1, <1>2, BucketBounds DEF Limiter!Buckets

\* How many calls of a window were let through.
Through(b) == Cardinality(Limiter!Of(b, "admitted"))

\* A counter is passed only by a window that is full: it counts the calls let
\* through, and those refused once max_runs were.
CountsWhatItLetThrough ==
    \A b \in Limiter!Buckets : count[b] <= Through(b) \/ Through(b) >= MaxRuns

\* What a refused call met, and what it was told.
RefusedInFull ==
    \A r \in Calls : inside[r] = "refused" =>
        /\ \A b \in Limiter!Buckets : b = Limiter!Bucket(at[r]) => Through(b) >= MaxRuns
        /\ retry[r] = (Limiter!Bucket(at[r]) + 1) * Window - at[r]

\* A sound cache holds a window's counter for as long as the window lasts,
\* and so for as long as any of its calls does.
CounterOutlivesWindow ==
    /\ \A r \in Calls : inside[r] \in Limiter!Inside => Limiter!Bucket(at[r]) = Limiter!Bucket(now)
    /\ \A r \in Calls : inside[r] # "reseeding"
    /\ \A r \in Calls : inside[r] = "incrementing" => count[Limiter!Bucket(at[r])] > 0
    /\ \A b \in Limiter!Buckets : count[b] > 0 => expires[b] >= (b + 1) * Window
    /\ \A b \in Limiter!Buckets : Through(b) <= count[b] /\ Through(b) <= MaxRuns

LimiterInv ==
    /\ Limiter!TypeOK
    /\ CountsWhatItLetThrough
    /\ RefusedInFull
    /\ sound => CounterOutlivesWindow

\* The limiter's module has its own instance of FiniteSets.
LEMMA LimiterFiniteSets ==
    /\ \A S : Limiter!IsFiniteSet(S) <=> IsFiniteSet(S)
    /\ \A S : Limiter!Cardinality(S) = Cardinality(S)
<1>1. \A S : Limiter!IsFiniteSet(S) <=> IsFiniteSet(S)
  BY DEF Limiter!IsFiniteSet, IsFiniteSet
<1>2. \A S : Limiter!Cardinality(S) = Cardinality(S)
  BY DEF Limiter!Cardinality, Cardinality
<1>3. QED BY <1>1, <1>2

LEMMA ThroughType == \A b : Through(b) \in Nat /\ IsFiniteSet(Limiter!Of(b, "admitted"))
<1>1. \A b : Limiter!Of(b, "admitted") \in SUBSET Calls
  BY DEF Limiter!Of
<1>2. IsFiniteSet(Calls)
  BY LimiterAssumption, LimiterFiniteSets DEF Limiter!FixedWindowAssumption
<1>3. \A b : IsFiniteSet(Limiter!Of(b, "admitted"))
  BY <1>1, <1>2, FS_Subset
<1>4. \A S : IsFiniteSet(S) => Cardinality(S) \in Nat
  BY FS_CardinalityType
<1>5. QED BY <1>3, <1>4 DEF Through

LEMMA LimiterInit == Limiter!Init => LimiterInv
<1> SUFFICES ASSUME Limiter!Init PROVE LimiterInv
  OBVIOUS
<1>1. Limiter!TypeOK
  BY LimiterAssumption DEF Limiter!FixedWindowAssumption, Limiter!Init, Limiter!TypeOK, Limiter!Inside
<1>2. \A b : Through(b) = 0
  <2>1. \A b : Limiter!Of(b, "admitted") = {}
    BY DEF Limiter!Of, Limiter!Init
  <2>2. QED BY <2>1, FS_EmptySet DEF Through
<1>3. QED BY <1>1, <1>2, LimiterAssumption
  DEF LimiterInv, CountsWhatItLetThrough, RefusedInFull, CounterOutlivesWindow,
      Limiter!FixedWindowAssumption, Limiter!Init, Limiter!Inside

(* A call that moves on is let through or it is not; the time it read is   *)
(* set before that and stays.                                              *)
LEMMA ThroughSteps ==
    ASSUME NEW r \in Calls, NEW where, Limiter!TypeOK, Limiter!GoTo(r, where),
           inside[r] \notin {"admitted", "refused"},
           \/ UNCHANGED at
           \/ where # "admitted" /\ at' = [at EXCEPT ![r] = now]
    PROVE  \A b : Through(b)' = IF where = "admitted" /\ b = Limiter!Bucket(at[r])
                                THEN Through(b) + 1 ELSE Through(b)
<1>1. inside' = [inside EXCEPT ![r] = where] /\ r \in DOMAIN inside /\ DOMAIN inside = Calls
  BY DEF Limiter!GoTo, Limiter!TypeOK
<1>2. ASSUME NEW b, where = "admitted", b = Limiter!Bucket(at[r])
      PROVE  Through(b)' = Through(b) + 1
  <2>1. Limiter!Of(b, "admitted")' = Limiter!Of(b, "admitted") \union {r}
    BY <1>1, <1>2 DEF Limiter!Of, Limiter!Bucket
  <2>2. r \notin Limiter!Of(b, "admitted")
    BY DEF Limiter!Of
  <2>3. QED BY <2>1, <2>2, ThroughType, FS_AddElement DEF Through
<1>3. ASSUME NEW b, ~(where = "admitted" /\ b = Limiter!Bucket(at[r]))
      PROVE  Through(b)' = Through(b)
  <2>1. Limiter!Of(b, "admitted")' = Limiter!Of(b, "admitted")
    BY <1>1, <1>3 DEF Limiter!Of, Limiter!Bucket, Limiter!TypeOK
  <2>2. QED BY <2>1 DEF Through
<1>4. QED BY <1>2, <1>3

LEMMA LimiterCall ==
    ASSUME LimiterInv, NEW r \in Calls, Limiter!Call(r), UNCHANGED sound
    PROVE  LimiterInv'
<1>1. /\ inside[r] = "idle" /\ Limiter!GoTo(r, "adding")
      /\ at' = [at EXCEPT ![r] = now]
      /\ UNCHANGED <<now, count, expires, retry, sound>>
      /\ Limiter!TypeOK
  BY DEF Limiter!Call, LimiterInv
<1>2. \A b : Through(b)' = Through(b)
  <2>1. inside[r] \notin {"admitted", "refused"} /\ "adding" # "admitted"
    BY <1>1
  <2>2. QED BY <1>1, <2>1, ThroughSteps
<1>3. inside' = [inside EXCEPT ![r] = "adding"]
  BY <1>1 DEF Limiter!GoTo
<1>4. Limiter!TypeOK'
  BY <1>1, <1>3 DEF Limiter!TypeOK, Limiter!Inside
<1>5. \A q \in Calls : q # r => inside'[q] = inside[q] /\ at'[q] = at[q]
  BY <1>1, <1>3 DEF Limiter!TypeOK
<1>6. inside'[r] = "adding" /\ at'[r] = now
  BY <1>1, <1>3 DEF Limiter!TypeOK
<1>7. CountsWhatItLetThrough'
  BY <1>1, <1>2 DEF LimiterInv, CountsWhatItLetThrough, Limiter!Buckets, Limiter!Bucket
<1>8. RefusedInFull'
  BY <1>1, <1>2, <1>5, <1>6 DEF LimiterInv, RefusedInFull, Limiter!Bucket, Limiter!Buckets
<1>9. sound' => CounterOutlivesWindow'
  BY <1>1, <1>2, <1>5, <1>6
  DEF LimiterInv, CounterOutlivesWindow, Limiter!Bucket, Limiter!Buckets, Limiter!Inside
<1>10. QED BY <1>4, <1>7, <1>8, <1>9 DEF LimiterInv

(* A counter made for a window: the first of its calls that is let through *)
(* has nobody before it, where the cache is sound.                         *)
LEMMA LimiterSeeds ==
    ASSUME LimiterInv, NEW r \in Calls, inside[r] \in {"adding", "reseeding"},
           ~Limiter!Present(Limiter!Bucket(at[r])), Limiter!Seed(Limiter!Bucket(at[r])),
           Limiter!GoTo(r, "admitted"), UNCHANGED <<now, at, retry, sound>>
    PROVE  LimiterInv'
<1> DEFINE c == Limiter!Bucket(at[r])
<1>1. /\ Limiter!TypeOK
      /\ MaxRuns \in Nat \ {0} /\ Window \in Nat \ {0} /\ MaxTime \in Nat
      /\ now \in Nat /\ at[r] \in Nat
      /\ now \in 0 .. MaxTime /\ at[r] \in 0 .. MaxTime
  BY LimiterAssumption DEF LimiterInv, Limiter!TypeOK, Limiter!FixedWindowAssumption
<1>2. c \in Limiter!Buckets /\ c \in Nat
  BY <1>1, BucketInRange, BucketBounds
<1>3. \A b : Through(b)' = IF b = c THEN Through(b) + 1 ELSE Through(b)
  BY <1>1, ThroughSteps
<1>4. /\ inside' = [inside EXCEPT ![r] = "admitted"]
      /\ count' = [count EXCEPT ![c] = 1]
      /\ expires' = [expires EXCEPT ![c] = now + Window]
  BY DEF Limiter!GoTo, Limiter!Seed
<1>5. Limiter!TypeOK'
  BY <1>1, <1>2, <1>4 DEF Limiter!TypeOK, Limiter!Inside
<1>6. \A b \in Limiter!Buckets : Through(b) \in Nat /\ count[b] \in Nat
  BY <1>1, ThroughType DEF Limiter!TypeOK
<1>7. CountsWhatItLetThrough'
  <2>1. \A b \in Limiter!Buckets : count'[b] = IF b = c THEN 1 ELSE count[b]
    BY <1>1, <1>4 DEF Limiter!TypeOK
  <2>2. QED BY <1>1, <1>3, <1>6, <2>1 DEF LimiterInv, CountsWhatItLetThrough, Limiter!Buckets, Limiter!Bucket
<1>8. RefusedInFull'
  <2>1. \A q \in Calls : inside'[q] = "refused" => inside[q] = "refused"
    BY <1>1, <1>4 DEF Limiter!TypeOK
  <2>2. \A b : Through(b) \in Nat /\ Through(b)' \in Nat /\ Through(b)' >= Through(b)
    BY <1>3, ThroughType
  <2>3. /\ Limiter!Buckets' = Limiter!Buckets
        /\ \A q \in Calls : Limiter!Bucket(at[q])' = Limiter!Bucket(at[q])
    BY DEF Limiter!Bucket, Limiter!Buckets
  <2>4. UNCHANGED <<at, retry>> /\ RefusedInFull
    BY DEF LimiterInv
  <2>5. QED BY <1>1, <2>1, <2>2, <2>3, <2>4 DEF RefusedInFull
<1>9. ASSUME sound PROVE CounterOutlivesWindow'
  <2>1. CounterOutlivesWindow
    BY <1>9 DEF LimiterInv
  <2>2. c = Limiter!Bucket(now)
    BY <2>1 DEF CounterOutlivesWindow, Limiter!Inside
  <2>3. c * Window <= now /\ now < (c + 1) * Window /\ now + Window >= (c + 1) * Window
    BY <1>1, <2>2, BucketBounds
  <2>4. count[c] = 0
    BY <1>1, <1>2, <1>6, <2>1, <2>3 DEF CounterOutlivesWindow, Limiter!Present, Limiter!TypeOK
  <2>5. Through(c) = 0
    BY <1>2, <1>6, <2>1, <2>4 DEF CounterOutlivesWindow
  <2>6. \A b \in Limiter!Buckets :
           /\ count'[b] = IF b = c THEN 1 ELSE count[b]
           /\ expires'[b] = IF b = c THEN now + Window ELSE expires[b]
    BY <1>1, <1>4 DEF Limiter!TypeOK
  <2>7. \A b \in Limiter!Buckets : count'[b] > 0 => expires'[b] >= (b + 1) * Window
    BY <2>1, <2>3, <2>6 DEF CounterOutlivesWindow
  <2>8. \A b \in Limiter!Buckets : Through(b)' <= count'[b] /\ Through(b)' <= MaxRuns
    BY <1>1, <1>3, <1>6, <2>1, <2>5, <2>6 DEF CounterOutlivesWindow
  <2>9. \A q \in Calls : q # r => inside'[q] = inside[q]
    BY <1>1, <1>4 DEF Limiter!TypeOK
  <2>10. inside'[r] = "admitted"
    BY <1>1, <1>4 DEF Limiter!TypeOK
  <2>11. \A q \in Calls : inside'[q] = "incrementing" => count'[Limiter!Bucket(at[q])] > 0
    <3>1. \A q \in Calls : Limiter!Bucket(at[q]) \in Limiter!Buckets
      BY <1>1, BucketInRange DEF Limiter!TypeOK
    <3>2. QED BY <2>1, <2>6, <2>9, <2>10, <3>1 DEF CounterOutlivesWindow
  <2>12. QED BY <2>1, <2>7, <2>8, <2>9, <2>10, <2>11
    DEF CounterOutlivesWindow, Limiter!Inside, Limiter!Bucket, Limiter!Buckets
<1>10. QED BY <1>5, <1>7, <1>8, <1>9 DEF LimiterInv

\* A step that lets nobody through and leaves the counters.
LEMMA LimiterMovesOn ==
    ASSUME LimiterInv, NEW r \in Calls, NEW where \in {"incrementing", "reseeding"},
           inside[r] \in {"adding", "incrementing"}, Limiter!GoTo(r, where),
           UNCHANGED <<sound, now, count, expires, at, retry>>,
           where = "incrementing" => count[Limiter!Bucket(at[r])] > 0,
           where = "reseeding" => ~sound
    PROVE  LimiterInv'
<1>1. inside[r] \notin {"admitted", "refused"} /\ where \notin {"admitted", "refused"} /\ Limiter!TypeOK
  BY DEF LimiterInv
<1>2. \A b : Through(b)' = Through(b)
  BY <1>1, ThroughSteps
<1>3. inside' = [inside EXCEPT ![r] = where]
  BY DEF Limiter!GoTo
<1>4. Limiter!TypeOK'
  BY <1>1, <1>3 DEF Limiter!TypeOK, Limiter!Inside
<1>5. \A q \in Calls : inside'[q] = IF q = r THEN where ELSE inside[q]
  BY <1>1, <1>3 DEF Limiter!TypeOK
<1>6. /\ Limiter!Buckets' = Limiter!Buckets
      /\ \A q \in Calls : Limiter!Bucket(at[q])' = Limiter!Bucket(at[q])
      /\ Limiter!Bucket(now)' = Limiter!Bucket(now)
  BY DEF Limiter!Bucket, Limiter!Buckets
<1>7. CountsWhatItLetThrough'
  BY <1>2, <1>6 DEF LimiterInv, CountsWhatItLetThrough
<1>8. RefusedInFull'
  BY <1>1, <1>2, <1>5, <1>6 DEF LimiterInv, RefusedInFull
<1>9. sound' => CounterOutlivesWindow'
  BY <1>2, <1>5, <1>6 DEF LimiterInv, CounterOutlivesWindow, Limiter!Inside
<1>10. QED BY <1>4, <1>7, <1>8, <1>9 DEF LimiterInv

LEMMA LimiterAdd ==
    ASSUME LimiterInv, NEW r \in Calls, Limiter!Add(r), UNCHANGED sound
    PROVE  LimiterInv'
<1>1. CASE Limiter!Present(Limiter!Bucket(at[r]))
  BY <1>1, LimiterMovesOn DEF Limiter!Add, Limiter!Present
<1>2. CASE ~Limiter!Present(Limiter!Bucket(at[r]))
  BY <1>2, LimiterSeeds DEF Limiter!Add
<1>3. QED BY <1>1, <1>2

\* What a refused call is told: its window's end, which is yet to come.
LEMMA RetryAfterIs ==
    ASSUME NEW t \in Nat
    PROVE  /\ Limiter!RetryAfter(t) = (Limiter!Bucket(t) + 1) * Window - t
           /\ Limiter!RetryAfter(t) \in 1 .. Window
           /\ Limiter!Bucket(t + Limiter!RetryAfter(t)) = Limiter!Bucket(t) + 1
<1> DEFINE b == Limiter!Bucket(t)
<1>1. b \in Nat /\ b * Window <= t /\ t < (b + 1) * Window /\ Window \in Nat \ {0}
  BY BucketBounds, LimiterAssumption DEF Limiter!FixedWindowAssumption
<1>2. /\ (b + 1) * Window \in Nat /\ (b + 1) * Window = b * Window + Window
      /\ (b + 2) * Window = (b + 1) * Window + Window /\ b * Window \in Nat
  BY <1>1
<1>3. Limiter!RetryAfter(t) = (b + 1) * Window - t
  BY <1>1, <1>2 DEF Limiter!RetryAfter
<1>4. Limiter!RetryAfter(t) \in 1 .. Window
  <2> HIDE DEF b
  <2>1. QED BY <1>1, <1>2, <1>3
<1>5. t + Limiter!RetryAfter(t) = (b + 1) * Window
  <2> HIDE DEF b
  <2>1. QED BY <1>1, <1>2, <1>3
<1>6. Limiter!Bucket((b + 1) * Window) = b + 1
  <2> HIDE DEF b
  <2>1. b + 1 \in Nat /\ (b + 1) + 1 = b + 2
    BY <1>1
  <2>2. (b + 1) * Window < ((b + 1) + 1) * Window
    BY <1>1, <1>2, <2>1
  <2>3. QED BY <1>2, <2>1, <2>2, BucketOf
<1>7. QED BY <1>3, <1>4, <1>5, <1>6

\* The counter goes up, and the call is let through or refused by what it says.
LEMMA LimiterCounts ==
    ASSUME LimiterInv, NEW r \in Calls, NEW where \in {"admitted", "refused"},
           inside[r] = "incrementing", Limiter!GoTo(r, where),
           count' = [count EXCEPT ![Limiter!Bucket(at[r])] = @ + 1],
           where = "admitted" <=> count[Limiter!Bucket(at[r])] + 1 <= MaxRuns,
           retry' = IF where = "admitted" THEN retry
                    ELSE [retry EXCEPT ![r] = Limiter!RetryAfter(at[r])],
           UNCHANGED <<sound, now, expires, at>>
    PROVE  LimiterInv'
<1> DEFINE c == Limiter!Bucket(at[r])
<1>1. /\ Limiter!TypeOK
      /\ MaxRuns \in Nat \ {0} /\ Window \in Nat \ {0}
      /\ at[r] \in Nat /\ at[r] \in 0 .. MaxTime
  BY LimiterAssumption DEF LimiterInv, Limiter!TypeOK, Limiter!FixedWindowAssumption
<1>2. c \in Limiter!Buckets /\ c \in Nat
  BY <1>1, BucketInRange, BucketBounds
<1>3. \A b : Through(b)' = IF where = "admitted" /\ b = c THEN Through(b) + 1 ELSE Through(b)
  BY <1>1, ThroughSteps
<1>4. inside' = [inside EXCEPT ![r] = where]
  BY DEF Limiter!GoTo
<1>5. \A q \in Calls :
        /\ inside'[q] = IF q = r THEN where ELSE inside[q]
        /\ retry'[q] = IF q = r /\ where = "refused" THEN Limiter!RetryAfter(at[r]) ELSE retry[q]
  BY <1>1, <1>4 DEF Limiter!TypeOK
<1>6. Limiter!RetryAfter(at[r]) = (c + 1) * Window - at[r] /\ Limiter!RetryAfter(at[r]) \in 1 .. Window
  BY <1>1, RetryAfterIs
<1>7. Limiter!TypeOK'
  <2>1. retry' \in [Calls -> 0 .. Window] /\ inside' \in [Calls -> {"idle", "admitted", "refused"} \union Limiter!Inside]
    BY <1>1, <1>4, <1>6 DEF Limiter!TypeOK
  <2>2. count' \in [Limiter!Buckets -> Nat]
    BY <1>1, <1>2 DEF Limiter!TypeOK
  <2>3. \A q \in Calls : retry'[q] = 0 <=> inside'[q] # "refused"
    BY <1>1, <1>5, <1>6 DEF Limiter!TypeOK
  <2>4. Limiter!Buckets' = Limiter!Buckets
    BY DEF Limiter!Buckets, Limiter!Bucket
  <2>5. QED BY <1>1, <2>1, <2>2, <2>3, <2>4 DEF Limiter!TypeOK
<1>8. /\ Limiter!Buckets' = Limiter!Buckets
      /\ \A q \in Calls : Limiter!Bucket(at[q])' = Limiter!Bucket(at[q])
      /\ Limiter!Bucket(now)' = Limiter!Bucket(now)
  BY DEF Limiter!Bucket, Limiter!Buckets
<1>9. \A b : Through(b) \in Nat /\ Through(b)' \in Nat
  BY <1>3, ThroughType
<1>10. \A b \in Limiter!Buckets :
          /\ count[b] \in Nat
          /\ count'[b] = IF b = c THEN count[b] + 1 ELSE count[b]
  BY <1>1 DEF Limiter!TypeOK
<1>11. CountsWhatItLetThrough
  BY DEF LimiterInv
<1> HIDE DEF c
<1>12. CountsWhatItLetThrough'
  <2>1. SUFFICES ASSUME NEW b \in Limiter!Buckets
                 PROVE  count'[b] <= Through(b)' \/ Through(b)' >= MaxRuns
    BY <1>8 DEF CountsWhatItLetThrough
  <2>2. count[b] <= Through(b) \/ Through(b) >= MaxRuns
    BY <1>11 DEF CountsWhatItLetThrough
  <2>3. CASE b # c
    BY <1>3, <1>10, <2>2, <2>3
  <2>4. CASE b = c /\ where = "admitted"
    BY <1>1, <1>3, <1>9, <1>10, <2>2, <2>4
  <2>5. CASE b = c /\ where = "refused"
    <3>1. ~(count[c] + 1 <= MaxRuns)
      BY <2>5 DEF c
    <3>2. QED BY <1>1, <1>3, <1>9, <1>10, <2>2, <2>5, <3>1
  <2>6. QED BY <2>3, <2>4, <2>5
<1>13. RefusedInFull'
  <2>1. SUFFICES ASSUME NEW q \in Calls, inside'[q] = "refused"
                 PROVE  /\ \A b \in Limiter!Buckets : b = Limiter!Bucket(at[q]) => Through(b)' >= MaxRuns
                        /\ retry'[q] = (Limiter!Bucket(at[q]) + 1) * Window - at[q]
    BY <1>8 DEF RefusedInFull
  <2>2. CASE q # r
    <3>1. /\ \A b \in Limiter!Buckets : b = Limiter!Bucket(at[q]) => Through(b) >= MaxRuns
          /\ retry[q] = (Limiter!Bucket(at[q]) + 1) * Window - at[q]
      BY <1>5, <2>1, <2>2 DEF LimiterInv, RefusedInFull
    <3>2. \A b : Through(b)' >= Through(b)
      BY <1>3, <1>9
    <3>3. QED BY <1>1, <1>5, <1>9, <2>2, <3>1, <3>2
  <2>3. CASE q = r
    <3>1. where = "refused" /\ ~(count[c] + 1 <= MaxRuns)
      BY <1>5, <2>1, <2>3 DEF c
    <3>2. \A b \in Limiter!Buckets : b = c => Through(b)' >= MaxRuns
      <4>1. \A b \in Limiter!Buckets : b = c => count[b] <= Through(b) \/ Through(b) >= MaxRuns
        BY <1>11 DEF CountsWhatItLetThrough
      <4>2. QED BY <1>1, <1>3, <1>9, <1>10, <3>1, <4>1
    <3>3. QED BY <1>5, <1>6, <2>3, <3>1, <3>2 DEF c
  <2>4. QED BY <2>2, <2>3
<1>14. ASSUME sound PROVE CounterOutlivesWindow'
  <2>1. CounterOutlivesWindow
    BY <1>14 DEF LimiterInv
  <2>2. \A b \in Limiter!Buckets : Through(b)' <= count'[b] /\ Through(b)' <= MaxRuns
    <3>1. where = "admitted" => count[c] + 1 <= MaxRuns
      BY DEF c
    <3>2. QED BY <1>1, <1>2, <1>3, <1>9, <1>10, <2>1, <3>1 DEF CounterOutlivesWindow
  <2>3. \A b \in Limiter!Buckets : count'[b] > 0 => expires'[b] >= (b + 1) * Window
    <3>1. count[c] > 0
      BY <2>1 DEF CounterOutlivesWindow, c
    <3>2. QED BY <1>10, <2>1, <3>1 DEF CounterOutlivesWindow
  <2>4. \A q \in Calls : inside'[q] = "incrementing" => count'[Limiter!Bucket(at[q])] > 0
    <3>1. \A q \in Calls : Limiter!Bucket(at[q]) \in Limiter!Buckets
      BY <1>1, BucketInRange DEF Limiter!TypeOK
    <3>2. QED BY <1>5, <1>10, <2>1, <3>1 DEF CounterOutlivesWindow
  <2>5. QED BY <1>5, <1>8, <2>1, <2>2, <2>3, <2>4 DEF CounterOutlivesWindow, Limiter!Inside
<1>15. QED BY <1>7, <1>12, <1>13, <1>14 DEF LimiterInv

LEMMA LimiterIncrement ==
    ASSUME LimiterInv, NEW r \in Calls, Limiter!Increment(r), UNCHANGED sound
    PROVE  LimiterInv'
<1> DEFINE c == Limiter!Bucket(at[r])
<1>1. CASE ~Limiter!Present(c)
  <2>1. ~sound
    <3>1. SUFFICES ASSUME sound PROVE FALSE
      OBVIOUS
    <3>2. CounterOutlivesWindow /\ inside[r] = "incrementing" /\ Limiter!TypeOK
      BY <3>1 DEF LimiterInv, Limiter!Increment
    <3>3. /\ at[r] \in 0 .. MaxTime /\ now \in Nat /\ c = Limiter!Bucket(now)
          /\ count[c] > 0
      BY <3>2, LimiterAssumption
      DEF CounterOutlivesWindow, Limiter!Inside, Limiter!TypeOK, Limiter!FixedWindowAssumption
    <3>4. c \in Limiter!Buckets
      BY <3>3, BucketInRange
    <3>5. expires[c] >= (c + 1) * Window
      BY <3>2, <3>3, <3>4 DEF CounterOutlivesWindow
    <3>6. now < (c + 1) * Window /\ c \in Nat
      BY <3>3, BucketBounds
    <3>7. expires[c] \in Nat /\ (c + 1) * Window \in Nat
      BY <3>2, <3>4, <3>6, LimiterAssumption DEF Limiter!TypeOK, Limiter!FixedWindowAssumption
    <3>8. now < expires[c]
      <4> HIDE DEF c
      <4>1. QED BY <3>3, <3>5, <3>6, <3>7
    <3>9. QED BY <1>1, <3>3, <3>8 DEF Limiter!Present
  <2>2. QED BY <1>1, <2>1, LimiterMovesOn DEF Limiter!Increment
<1>2. CASE Limiter!Present(c) /\ count[c] + 1 <= MaxRuns
  <2>1. Limiter!GoTo(r, "admitted") /\ UNCHANGED <<sound, now, expires, at, retry>>
        /\ inside[r] = "incrementing" /\ count' = [count EXCEPT ![c] = @ + 1]
    BY <1>2 DEF Limiter!Increment
  <2>2. QED BY <1>2, <2>1, LimiterCounts
<1>3. CASE Limiter!Present(c) /\ ~(count[c] + 1 <= MaxRuns)
  <2>1. Limiter!GoTo(r, "refused") /\ UNCHANGED <<sound, now, expires, at>>
        /\ inside[r] = "incrementing" /\ count' = [count EXCEPT ![c] = @ + 1]
        /\ retry' = [retry EXCEPT ![r] = Limiter!RetryAfter(at[r])]
    BY <1>3 DEF Limiter!Increment
  <2>2. QED BY <1>3, <2>1, LimiterCounts
<1>4. QED BY <1>1, <1>2, <1>3

LEMMA LimiterReseed ==
    ASSUME LimiterInv, NEW r \in Calls, Limiter!Reseed(r), UNCHANGED sound
    PROVE  LimiterInv'
<1>1. CASE ~Limiter!Present(Limiter!Bucket(at[r]))
  BY <1>1, LimiterSeeds DEF Limiter!Reseed
<1>2. CASE Limiter!Present(Limiter!Bucket(at[r]))
  <2>1. /\ inside[r] = "reseeding" /\ Limiter!GoTo(r, "admitted") /\ Limiter!TypeOK
        /\ UNCHANGED <<now, at, retry, count, expires, sound>>
    BY <1>2 DEF LimiterInv, Limiter!Reseed
  <2>2. ~sound
    BY <2>1 DEF LimiterInv, CounterOutlivesWindow
  <2>3. \A b : /\ Through(b) \in Nat /\ Through(b)' \in Nat
                /\ Through(b)' >= Through(b)
    BY <2>1, ThroughSteps, ThroughType
  <2>4. inside' = [inside EXCEPT ![r] = "admitted"]
    BY <2>1 DEF Limiter!GoTo
  <2>5. \A q \in Calls : inside'[q] = IF q = r THEN "admitted" ELSE inside[q]
    BY <2>1, <2>4 DEF Limiter!TypeOK
  <2>6. Limiter!TypeOK'
    BY <2>1, <2>4 DEF Limiter!TypeOK, Limiter!Inside
  <2>7. /\ Limiter!Buckets' = Limiter!Buckets
        /\ \A q \in Calls : Limiter!Bucket(at[q])' = Limiter!Bucket(at[q])
    BY <2>1 DEF Limiter!Bucket, Limiter!Buckets
  <2>8. MaxRuns \in Nat /\ \A b \in Limiter!Buckets : count[b] \in Nat
    BY <2>1, LimiterAssumption DEF Limiter!TypeOK, Limiter!FixedWindowAssumption
  <2>9. CountsWhatItLetThrough'
    BY <2>1, <2>3, <2>7, <2>8 DEF LimiterInv, CountsWhatItLetThrough
  <2>10. RefusedInFull'
    BY <2>1, <2>3, <2>5, <2>7, <2>8 DEF LimiterInv, RefusedInFull
  <2>11. QED BY <2>1, <2>2, <2>6, <2>9, <2>10 DEF LimiterInv
<1>3. QED BY <1>1, <1>2

LEMMA LimiterEvict ==
    ASSUME LimiterInv, NEW b \in Limiter!Buckets, Limiter!Evict(b), UNCHANGED sound
    PROVE  LimiterInv'
<1>1. /\ ~sound /\ count' = [count EXCEPT ![b] = 0]
      /\ UNCHANGED <<sound, now, expires, inside, at, retry>>
      /\ Limiter!TypeOK
  BY DEF LimiterInv, Limiter!Evict
<1>2. /\ \A c : Through(c)' = Through(c) /\ Through(c) \in Nat
      /\ Limiter!Buckets' = Limiter!Buckets
      /\ \A q \in Calls : Limiter!Bucket(at[q])' = Limiter!Bucket(at[q])
  BY <1>1, ThroughType DEF Through, Limiter!Of, Limiter!Bucket, Limiter!Buckets
<1>3. Limiter!TypeOK'
  BY <1>1 DEF Limiter!TypeOK
<1>4. \A c \in Limiter!Buckets : count'[c] \in {0, count[c]}
  BY <1>1 DEF Limiter!TypeOK
<1>5. MaxRuns \in Nat \ {0}
  BY LimiterAssumption DEF Limiter!FixedWindowAssumption
<1>6. CountsWhatItLetThrough'
  BY <1>2, <1>4, <1>5 DEF LimiterInv, CountsWhatItLetThrough
<1>7. RefusedInFull'
  BY <1>1, <1>2 DEF LimiterInv, RefusedInFull
<1>8. QED BY <1>1, <1>3, <1>6, <1>7 DEF LimiterInv

LEMMA LimiterTick == ASSUME LimiterInv, Limiter!Tick, UNCHANGED sound PROVE LimiterInv'
<1>1. /\ now < MaxTime /\ now' = now + 1
      /\ UNCHANGED <<sound, count, expires, inside, at, retry>>
      /\ Limiter!TypeOK
  BY DEF LimiterInv, Limiter!Tick
<1>2. /\ \A b : Through(b)' = Through(b)
      /\ Limiter!Buckets' = Limiter!Buckets
      /\ \A q \in Calls : Limiter!Bucket(at[q])' = Limiter!Bucket(at[q])
  BY <1>1 DEF Through, Limiter!Of, Limiter!Bucket, Limiter!Buckets
<1>3. Limiter!TypeOK'
  BY <1>1, LimiterAssumption DEF Limiter!TypeOK, Limiter!FixedWindowAssumption, Limiter!Buckets, Limiter!Bucket
<1>4. CountsWhatItLetThrough' /\ RefusedInFull'
  BY <1>1, <1>2 DEF LimiterInv, CountsWhatItLetThrough, RefusedInFull
<1>5. ASSUME sound PROVE CounterOutlivesWindow'
  <2>1. \A r \in Calls : inside[r] \in Limiter!Inside => Limiter!Bucket(now + 1) = Limiter!Bucket(at[r])
    BY <1>5 DEF Limiter!Tick
  <2>2. Limiter!Bucket(now)' = Limiter!Bucket(now + 1)
    BY <1>1 DEF Limiter!Bucket
  <2>3. QED BY <1>1, <1>2, <1>5, <2>1, <2>2 DEF LimiterInv, CounterOutlivesWindow, Limiter!Inside
<1>6. QED BY <1>1, <1>3, <1>4, <1>5 DEF LimiterInv

LEMMA LimiterNext == LimiterInv /\ [Limiter!Next]_windowVars => LimiterInv'
<1> SUFFICES ASSUME LimiterInv, [Limiter!Next]_windowVars PROVE LimiterInv'
  OBVIOUS
<1>1. ASSUME NEW r \in Calls, UNCHANGED sound,
             Limiter!Call(r) \/ Limiter!Add(r) \/ Limiter!Increment(r) \/ Limiter!Reseed(r)
      PROVE  LimiterInv'
  BY <1>1, LimiterCall, LimiterAdd, LimiterIncrement, LimiterReseed
<1>2. ASSUME NEW b \in Limiter!Buckets, UNCHANGED sound, Limiter!Evict(b) PROVE LimiterInv'
  BY <1>2, LimiterEvict
<1>3. CASE UNCHANGED sound /\ Limiter!Tick
  BY <1>3, LimiterTick
<1>4. CASE UNCHANGED windowVars
  BY <1>4 DEF windowVars, LimiterInv, CountsWhatItLetThrough, RefusedInFull, CounterOutlivesWindow,
              Through, Limiter!TypeOK, Limiter!Of, Limiter!Bucket, Limiter!Buckets, Limiter!Inside
<1>5. CASE Limiter!Over
  BY <1>4, <1>5 DEF Limiter!Over, Limiter!vars, windowVars
<1>6. QED BY <1>1, <1>2, <1>3, <1>4, <1>5 DEF Limiter!Next

LEMMA LimiterInductive == MCSpec => []LimiterInv
<1>1. MCInit => LimiterInv
  BY LimiterInit DEF MCInit
<1>2. LimiterInv /\ [MCNext]_<<half, vars, windowVars>> => LimiterInv'
  BY LimiterNext DEF MCNext
<1>3. QED BY <1>1, <1>2, PTL DEF MCSpec

(* No window of a sound cache lets more than max_runs through, however the *)
(* cache calls of its requests interleave.                                 *)
THEOREM LimitAlwaysHolds == MCSpec => []LimitHolds
<1>1. LimiterInv => LimitHolds
  BY LimiterFiniteSets
  DEF LimiterInv, CounterOutlivesWindow, LimitHolds, Limiter!LimitHolds, Through
<1>2. QED BY <1>1, LimiterInductive, PTL

(* Whatever the cache forgets, nobody is refused in a window that had room *)
(* left, and whoever waits as told comes back in the very next window.     *)
THEOREM RefusalIsAlwaysFair == MCSpec => []RefusalIsFair
<1>1. ASSUME LimiterInv PROVE RefusalIsFair
  <2>1. Limiter!TypeOK /\ RefusedInFull
    BY <1>1 DEF LimiterInv
  <2>2. SUFFICES ASSUME NEW r \in Calls, inside[r] = "refused"
                 PROVE  /\ Through(Limiter!Bucket(at[r])) >= MaxRuns
                        /\ retry[r] >= 1
                        /\ Limiter!Bucket(at[r] + retry[r]) = Limiter!Bucket(at[r]) + 1
    BY LimiterFiniteSets
    DEF RefusalIsFair, Limiter!RefusedOnlyWhenFull, Limiter!RetryMeetsNextWindow, Through
  <2>3. at[r] \in 0 .. MaxTime /\ at[r] \in Nat
    BY <2>1, LimiterAssumption DEF Limiter!TypeOK, Limiter!FixedWindowAssumption
  <2>4. retry[r] = Limiter!RetryAfter(at[r])
    BY <2>1, <2>2, <2>3, RetryAfterIs DEF RefusedInFull
  <2>5. QED BY <2>1, <2>2, <2>3, <2>4, RetryAfterIs, BucketInRange DEF RefusedInFull
<1>2. QED BY <1>1, LimiterInductive, PTL

-----------------------------------------------------------------------------
(* The gates.                                                              *)

States == {"new", "sifting", "authorizing", "routing", "paying",
           "reading", "judging", "serving", "renaming", "answered"}
Codes == {0, 200, 201, 204, 400, 401, 403, 404, 405, 409, 410, 413, 415, 429}
Granted == {200, 201, 204}

\* TypeOK but for the bounds of a body, each request's state a function.
Typed ==
    /\ setup \in Setups
    /\ pc \in [Requests -> States]
    /\ route \in [Requests -> Routes]
    /\ user \in [Requests -> {"unknown", "anonymous", "barred", "known"}]
    /\ paid \subseteq Requests
    /\ file \in [Requests -> File]
    /\ files \in [Requests -> Seq(File)]
    /\ parsed \in [Requests -> Nat]
    /\ exceeded \in [Requests -> BOOLEAN]
    /\ status \in [Requests -> Codes]
    /\ done \subseteq [what : Routes, by : Requests]
    /\ held \in BOOLEAN

\* What the parser has read is in the files it has kept and the one it is in,
\* but for the chunk that stopped it.
ParsedBody(r) ==
    /\ file[r].left <= file[r].size
    /\ file[r].left = 0 => file[r] = None
    /\ Len(files[r]) <= MaxFiles
    /\ file[r].left > 0 => Len(files[r]) < MaxFiles
    /\ \A i \in DOMAIN files[r] : files[r][i].left = 0
    /\ parsed[r] <= Len(files[r]) * MaxSize + (file[r].size - file[r].left)
                        + (IF exceeded[r] THEN 1 ELSE 0)
    /\ exceeded[r] => file[r].left > 0 /\ MaxBytes > 0
    /\ MaxBytes > 0 /\ ~Enforced => parsed[r] <= MaxBytes + (IF exceeded[r] THEN 1 ELSE 0)

\* Ahead of the view's own reading of a body.
Ahead == {"new", "sifting", "authorizing", "routing", "paying"}

Served200(r) == pc[r] \in {"serving", "renaming"} \/ status[r] \in Granted

\* How far a request has come says what it has passed.
Passed(r) ==
    /\ status[r] = 0 <=> pc[r] # "answered"
    /\ pc[r] \in Ahead =>
          /\ r \notin paid /\ ~exceeded[r]
          /\ ~Enforced => parsed[r] = 0
    /\ pc[r] \in Ahead \ {"sifting"} => file[r].left = 0
    /\ pc[r] = "sifting" => Enforced
    /\ pc[r] \in {"sifting", "judging"} => route[r] \in Uploads
    /\ pc[r] = "judging" => exceeded[r] \/ file[r].left = 0
    /\ pc[r] = "paying" => Limited(r)
    /\ pc[r] = "renaming" => route[r] = "rename"
    /\ route[r] \notin Uploads => ~exceeded[r] /\ file[r].left = 0
    /\ Served200(r) => ~exceeded[r] /\ file[r].left = 0
    /\ pc[r] \in {"routing", "paying", "reading", "judging"} \/ Served200(r) =>
          user[r] \in IF Required THEN {"known"} ELSE {"known", "anonymous"}
    /\ pc[r] \in {"reading", "judging"} \/ Served200(r) => (Limited(r) => r \in paid)
    /\ status[r] \in {401, 405, 410, 429} \/ user[r] = "barred" =>
          /\ r \notin paid
          /\ ~Enforced => parsed[r] = 0
    /\ user[r] = "barred" => pc[r] = "answered"

\* What was done is what was answered.
Done ==
    /\ \A d \in done : d.what = route[d.by] /\ status[d.by] \in Granted
    /\ \A r \in Requests : status[r] \in Granted =>
          \/ [what |-> route[r], by |-> r] \in done
          \/ route[r] = "rename" /\ status[r] = 200 /\ ~held
    /\ ~held => \E d \in done : d.what = "delete"

WithinBudget == Budget > 0 => \A r \in Requests : Cardinality(Purse(r)) <= Budget

GatesInv ==
    /\ Typed
    /\ \A r \in Requests : ParsedBody(r) /\ Passed(r)
    /\ Done
    /\ WithinBudget

LEMMA SetupType ==
    ASSUME setup \in Setups
    PROVE  /\ Required \in BOOLEAN /\ Enforced \in BOOLEAN /\ Enabled \in BOOLEAN
           /\ Budget \in Nat /\ MaxBytes \in Nat /\ MaxFiles \in Nat /\ MaxSize \in Nat
           /\ IsFiniteSet(Requests)
BY EndpointsAssumption
DEF Required, Enforced, Enabled, Budget, MaxBytes, MaxFiles, MaxSize, Requests

LEMMA GatesInit == Init => GatesInv
<1> SUFFICES ASSUME Init PROVE GatesInv
  OBVIOUS
<1>1. /\ Required \in BOOLEAN /\ Enforced \in BOOLEAN /\ MaxSize \in Nat
      /\ MaxBytes \in Nat /\ MaxFiles \in Nat /\ Budget \in Nat
  BY SetupType DEF Init
<1>2. None \in File
  BY <1>1 DEF None, File
<1>3. Typed
  BY <1>1, <1>2 DEF Init, Typed, States, Codes
<1>4. ASSUME NEW r \in Requests PROVE ParsedBody(r)
  BY <1>1 DEF Init, ParsedBody, None
<1>5. ASSUME NEW r \in Requests PROVE Passed(r)
  BY <1>1 DEF Init, Passed, None, Ahead, Served200, Granted
<1>6. Done
  BY DEF Init, Done, Granted
<1>7. WithinBudget
  BY <1>1, FS_EmptySet DEF Init, WithinBudget, Purse
<1>8. QED BY <1>3, <1>4, <1>5, <1>6, <1>7 DEF GatesInv

\* A step of r leaves every other request alone, and nothing that is done by
\* it undone.
Touches(r) ==
    /\ UNCHANGED <<setup, route>>
    /\ \A q \in Requests : q # r =>
          /\ pc'[q] = pc[q] /\ user'[q] = user[q]
          /\ file'[q] = file[q] /\ files'[q] = files[q] /\ parsed'[q] = parsed[q]
          /\ exceeded'[q] = exceeded[q] /\ status'[q] = status[q]
          /\ q \in paid' <=> q \in paid

(* A step of one request leaves what is known of the others alone.         *)
LEMMA Elsewhere ==
    ASSUME GatesInv, NEW r \in Requests, Touches(r), NEW q \in Requests, q # r
    PROVE  ParsedBody(q)' /\ Passed(q)'
<1>1. /\ ParsedBody(q) /\ Passed(q)
      /\ UNCHANGED <<setup, route>>
      /\ pc'[q] = pc[q] /\ user'[q] = user[q]
      /\ file'[q] = file[q] /\ files'[q] = files[q] /\ parsed'[q] = parsed[q]
      /\ exceeded'[q] = exceeded[q] /\ status'[q] = status[q]
      /\ q \in paid' <=> q \in paid
  BY DEF GatesInv, Touches
<1>2. /\ MaxSize' = MaxSize /\ MaxFiles' = MaxFiles /\ MaxBytes' = MaxBytes
      /\ Enforced' = Enforced /\ Required' = Required /\ Budget' = Budget
  BY <1>1 DEF MaxSize, MaxFiles, MaxBytes, Enforced, Required, Budget
<1>3. ParsedBody(q)'
  BY <1>1, <1>2 DEF ParsedBody, None
<1>4. Passed(q)'
  BY <1>1, <1>2 DEF Passed, Served200, Limited
<1>5. QED BY <1>3, <1>4

LEMMA StepKeeps ==
    ASSUME GatesInv, NEW r \in Requests, Touches(r),
           Typed', ParsedBody(r)', Passed(r)', Done', WithinBudget'
    PROVE  GatesInv'
<1>1. Requests' = Requests
  BY DEF Touches, Requests
<1>2. ASSUME NEW q \in Requests PROVE ParsedBody(q)' /\ Passed(q)'
  <2>1. CASE q = r
    BY <2>1
  <2>2. CASE q # r
    BY <2>2, Elsewhere
  <2>3. QED BY <2>1, <2>2
<1>3. QED BY <1>1, <1>2 DEF GatesInv

\* A step of r that only moves it on or turns it away: nothing is counted,
\* read or done.
LEMMA MovesAlong ==
    ASSUME GatesInv, NEW r \in Requests,
           UNCHANGED <<setup, route, paid, body, done, held>>,
           pc' \in [Requests -> States],
           user' \in [Requests -> {"unknown", "anonymous", "barred", "known"}],
           status' \in [Requests -> Codes],
           \A q \in Requests : q # r =>
              pc'[q] = pc[q] /\ user'[q] = user[q] /\ status'[q] = status[q],
           status[r] \notin Granted, status'[r] \notin Granted,
           Passed(r)'
    PROVE  GatesInv'
<1>1. Touches(r)
  BY DEF Touches, body
<1>2. /\ MaxSize' = MaxSize /\ MaxFiles' = MaxFiles /\ MaxBytes' = MaxBytes
      /\ Enforced' = Enforced /\ Budget' = Budget /\ Requests' = Requests
  BY DEF MaxSize, MaxFiles, MaxBytes, Enforced, Budget, Requests
<1>3. Typed'
  <2>1. File' = File
    BY <1>2 DEF File
  <2>2. QED BY <1>2, <2>1 DEF GatesInv, Typed, body
<1>4. ParsedBody(r)'
  BY <1>2 DEF GatesInv, ParsedBody, body, None
<1>5. Done'
  <2>1. ASSUME NEW d \in done PROVE d.what = route[d.by] /\ status'[d.by] \in Granted
    <3>1. d.by \in Requests /\ d.what = route[d.by] /\ status[d.by] \in Granted
      BY DEF GatesInv, Typed, Done
    <3>2. QED BY <3>1
  <2>2. ASSUME NEW q \in Requests, status'[q] \in Granted
        PROVE  \/ [what |-> route[q], by |-> q] \in done
               \/ route[q] = "rename" /\ status'[q] = 200 /\ ~held
    BY <2>2 DEF GatesInv, Done
  <2>3. QED BY <1>2, <2>1, <2>2 DEF GatesInv, Done
<1>6. WithinBudget'
  BY <1>2 DEF GatesInv, WithinBudget, Purse
<1>7. QED BY <1>1, <1>3, <1>4, <1>5, <1>6, StepKeeps

\* Where a step leaves r, and with which answer.
Left(r, where, code) ==
    /\ pc' \in [Requests -> States] /\ pc'[r] = where
    /\ status' \in [Requests -> Codes] /\ status'[r] = code
    /\ \A q \in Requests : q # r => pc'[q] = pc[q] /\ status'[q] = status[q]

LEMMA Leaving ==
    ASSUME Typed, NEW r \in Requests
    PROVE  /\ \A where \in States : GoTo(r, where) => Left(r, where, status[r])
           /\ \A code \in Codes : Answer(r, code) => Left(r, "answered", code)
<1>1. ASSUME NEW where \in States, GoTo(r, where) PROVE Left(r, where, status[r])
  BY <1>1 DEF Typed, GoTo, Left
<1>2. ASSUME NEW code \in Codes, Answer(r, code) PROVE Left(r, "answered", code)
  <2>1. pc' = [pc EXCEPT ![r] = "answered"] /\ "answered" \in States
    BY <1>2 DEF Answer, States
  <2>2. status' = [status EXCEPT ![r] = code]
    BY <1>2 DEF Answer
  <2>3. /\ pc' \in [Requests -> States] /\ pc'[r] = "answered"
        /\ \A q \in Requests : q # r => pc'[q] = pc[q]
    BY <2>1 DEF Typed
  <2>4. /\ status' \in [Requests -> Codes] /\ status'[r] = code
        /\ \A q \in Requests : q # r => status'[q] = status[q]
    BY <2>2 DEF Typed
  <2>5. QED BY <2>3, <2>4 DEF Left
<1>3. QED BY <1>1, <1>2

LEMMA Turned ==
    ASSUME GatesInv, NEW r \in Requests, NEW where, NEW code, Left(r, where, code),
           UNCHANGED <<setup, route, paid, body, done, held>>,
           user' \in [Requests -> {"unknown", "anonymous", "barred", "known"}],
           \A q \in Requests : q # r => user'[q] = user[q],
           status[r] = 0, code \notin Granted, Passed(r)'
    PROVE  GatesInv'
<1>1. 0 \notin Granted
  BY DEF Granted
<1>2. QED BY <1>1, MovesAlong DEF Left

-----------------------------------------------------------------------------
LEMMA ArriveKeeps ==
    ASSUME GatesInv, UNCHANGED setup, NEW r \in Requests, Arrive(r)
    PROVE  GatesInv'
<1>1. /\ Typed /\ Passed(r) /\ pc[r] = "new" /\ status[r] = 0
      /\ Enforced' = Enforced /\ Required' = Required /\ Budget' = Budget
      /\ UNCHANGED <<setup, route, user, paid, body, done, held>>
  BY DEF GatesInv, Arrive, Passed, Enforced, Required, Budget
<1>2. PICK where \in States, code \in Codes :
          /\ Left(r, where, code)
          /\ \/ where = "sifting" /\ code = 0 /\ Enforced /\ route[r] \in Uploads
             \/ where = "authorizing" /\ code = 0
  BY <1>1, Leaving DEF Arrive, States, Codes
<1>3. pc'[r] = where /\ status'[r] = code
  BY <1>2 DEF Left
<1>4. Passed(r)'
  BY <1>1, <1>2, <1>3 DEF Passed, Ahead, Served200, Granted, Limited, body, Runs, Uploads
<1>5. code \notin Granted
  BY <1>2 DEF Granted
<1>6. QED BY <1>1, <1>2, <1>4, <1>5, Turned DEF Typed

LEMMA RouteKeeps ==
    ASSUME GatesInv, UNCHANGED setup, NEW r \in Requests, Route(r)
    PROVE  GatesInv'
<1>1. /\ Typed /\ Passed(r) /\ pc[r] = "routing" /\ status[r] = 0
      /\ Enforced' = Enforced /\ Required' = Required /\ Budget' = Budget
      /\ UNCHANGED <<setup, route, user, paid, body, done, held>>
  BY DEF GatesInv, Route, Passed, Enforced, Required, Budget
<1>2. PICK where \in States, code \in Codes :
          /\ Left(r, where, code)
          /\ \/ where = "answered" /\ code \in {405, 410}
             \/ where = "paying" /\ code = 0 /\ Limited(r)
             \/ where \in {"serving", "reading"} /\ code = 0 /\ ~Limited(r)
  BY <1>1, Leaving DEF Route, States, Codes
<1>3. pc'[r] = where /\ status'[r] = code
  BY <1>2 DEF Left
<1>4. Passed(r)'
  BY <1>1, <1>2, <1>3 DEF Passed, Ahead, Served200, Granted, Limited, body, Runs, Uploads
<1>5. code \notin Granted
  BY <1>2 DEF Granted
<1>6. QED BY <1>1, <1>2, <1>4, <1>5, Turned DEF Typed

LEMMA ReadRunKeeps ==
    ASSUME GatesInv, UNCHANGED setup, NEW r \in Requests, ReadRun(r)
    PROVE  GatesInv'
<1>1. /\ Typed /\ Passed(r) /\ pc[r] = "reading" /\ status[r] = 0 /\ route[r] \in Runs
      /\ Enforced' = Enforced /\ Required' = Required /\ Budget' = Budget
      /\ UNCHANGED <<setup, route, user, paid, body, done, held>>
  BY DEF GatesInv, ReadRun, Passed, Enforced, Required, Budget
<1>2. PICK where \in States, code \in Codes :
          /\ Left(r, where, code)
          /\ \/ where = "answered" /\ code \in {400, 404, 409}
             \/ where = "serving" /\ code = 0
  BY <1>1, Leaving DEF ReadRun, States, Codes
<1>3. pc'[r] = where /\ status'[r] = code
  BY <1>2 DEF Left
<1>4. Passed(r)'
  BY <1>1, <1>2, <1>3 DEF Passed, Ahead, Served200, Granted, Limited, body, Runs, Uploads
<1>5. code \notin Granted
  BY <1>2 DEF Granted
<1>6. QED BY <1>1, <1>2, <1>4, <1>5, Turned DEF Typed

LEMMA EndBodyKeeps ==
    ASSUME GatesInv, UNCHANGED setup, NEW r \in Requests, EndBody(r)
    PROVE  GatesInv'
<1>1. /\ Typed /\ Passed(r) /\ pc[r] \in {"sifting", "reading"} /\ status[r] = 0
      /\ route[r] \in Uploads /\ (exceeded[r] \/ file[r].left = 0)
      /\ Enforced' = Enforced /\ Required' = Required /\ Budget' = Budget
      /\ UNCHANGED <<setup, route, user, paid, body, done, held>>
  BY DEF GatesInv, EndBody, Passed, Enforced, Required, Budget
<1>2. PICK where \in States, code \in Codes :
          /\ Left(r, where, code)
          /\ \/ where = "authorizing" /\ code = 0 /\ pc[r] = "sifting"
             \/ where = "judging" /\ code = 0 /\ pc[r] = "reading"
  BY <1>1, Leaving DEF EndBody, States, Codes
<1>3. pc'[r] = where /\ status'[r] = code
  BY <1>2 DEF Left
<1>4. Passed(r)'
  BY <1>1, <1>2, <1>3 DEF Passed, Ahead, Served200, Granted, Limited, body, Runs, Uploads
<1>5. code \notin Granted
  BY <1>2 DEF Granted
<1>6. QED BY <1>1, <1>2, <1>4, <1>5, Turned DEF Typed

LEMMA JudgeKeeps ==
    ASSUME GatesInv, UNCHANGED setup, NEW r \in Requests, Judge(r)
    PROVE  GatesInv'
<1>1. /\ Typed /\ Passed(r) /\ pc[r] = "judging" /\ status[r] = 0
      /\ Enforced' = Enforced /\ Required' = Required /\ Budget' = Budget
      /\ UNCHANGED <<setup, route, user, paid, body, done, held>>
  BY DEF GatesInv, Judge, Passed, Enforced, Required, Budget
<1>2. PICK where \in States, code \in Codes :
          /\ Left(r, where, code)
          /\ \/ where = "answered" /\ code \in {413, 400, 415}
             \/ where = "serving" /\ code = 0 /\ ~exceeded[r]
  BY <1>1, Leaving DEF Judge, States, Codes
<1>3. pc'[r] = where /\ status'[r] = code
  BY <1>2 DEF Left
<1>4. Passed(r)'
  BY <1>1, <1>2, <1>3 DEF Passed, Ahead, Served200, Granted, Limited, body, Runs, Uploads
<1>5. code \notin Granted
  BY <1>2 DEF Granted
<1>6. QED BY <1>1, <1>2, <1>4, <1>5, Turned DEF Typed

LEMMA ProbeKeeps ==
    ASSUME GatesInv, UNCHANGED setup, NEW r \in Requests, Probe(r)
    PROVE  GatesInv'
<1>1. /\ Typed /\ Passed(r) /\ pc[r] = "serving" /\ status[r] = 0 /\ route[r] = "rename"
      /\ Enforced' = Enforced /\ Required' = Required /\ Budget' = Budget
      /\ UNCHANGED <<setup, route, user, paid, body, done, held>>
  BY DEF GatesInv, Probe, Passed, Enforced, Required, Budget
<1>2. PICK where \in States, code \in Codes :
          /\ Left(r, where, code)
          /\ \/ where = "answered" /\ code \in {400, 403, 404}
             \/ where = "renaming" /\ code = 0
  BY <1>1, Leaving DEF Probe, States, Codes
<1>3. pc'[r] = where /\ status'[r] = code
  BY <1>2 DEF Left
<1>4. Passed(r)'
  BY <1>1, <1>2, <1>3 DEF Passed, Ahead, Served200, Granted, Limited, body, Runs, Uploads
<1>5. code \notin Granted
  BY <1>2 DEF Granted
<1>6. QED BY <1>1, <1>2, <1>4, <1>5, Turned DEF Typed

LEMMA AuthorizeKeeps ==
    ASSUME GatesInv, UNCHANGED setup, NEW r \in Requests, Authorize(r)
    PROVE  GatesInv'
<1>1. /\ Typed /\ Passed(r) /\ pc[r] = "authorizing" /\ status[r] = 0
      /\ Required \in BOOLEAN
      /\ Enforced' = Enforced /\ Required' = Required /\ Budget' = Budget
      /\ UNCHANGED <<setup, route, paid, body, done, held>>
  BY SetupType DEF GatesInv, Typed, Authorize, Passed, Enforced, Required, Budget
<1>2. PICK u \in {"anonymous", "barred", "known"} :
          /\ user' = [user EXCEPT ![r] = u]
          /\ IF u = "anonymous" /\ Required THEN Answer(r, 401)
             ELSE IF u = "barred" THEN Answer(r, 403)
             ELSE GoTo(r, "routing")
  BY DEF Authorize
<1>3. PICK where \in States, code \in Codes :
          /\ Left(r, where, code)
          /\ \/ where = "answered" /\ code = 401 /\ u = "anonymous"
             \/ where = "answered" /\ code = 403 /\ u = "barred"
             \/ /\ where = "routing" /\ code = 0
                /\ u \in IF Required THEN {"known"} ELSE {"known", "anonymous"}
  BY <1>1, <1>2, Leaving DEF States, Codes
<1>4. /\ pc'[r] = where /\ status'[r] = code /\ user'[r] = u
      /\ user' \in [Requests -> {"unknown", "anonymous", "barred", "known"}]
      /\ \A q \in Requests : q # r => user'[q] = user[q]
  BY <1>1, <1>2, <1>3 DEF Left, Typed
<1>5. Passed(r)'
  BY <1>1, <1>3, <1>4 DEF Passed, Ahead, Served200, Granted, Limited, body
<1>6. code \notin Granted
  BY <1>3 DEF Granted
<1>7. QED BY <1>1, <1>3, <1>4, <1>5, <1>6, Turned

\* Who pays counts against the purse he pays from, and against no other.
LEMMA PayKeeps ==
    ASSUME GatesInv, UNCHANGED setup, NEW r \in Requests, Pay(r)
    PROVE  GatesInv'
<1>1. /\ Typed /\ Passed(r) /\ ParsedBody(r) /\ pc[r] = "paying" /\ status[r] = 0
      /\ Limited(r) /\ Budget \in Nat /\ Budget > 0 /\ IsFiniteSet(Requests)
      /\ Enforced' = Enforced /\ Required' = Required /\ Budget' = Budget
      /\ Requests' = Requests
      /\ UNCHANGED <<setup, route, user, body, done, held>>
  BY SetupType
  DEF GatesInv, Typed, Pay, Passed, Limited, Enforced, Required, Budget, Requests
<1>2. CASE Answer(r, 429) /\ UNCHANGED paid
  <2>1. Left(r, "answered", 429)
    BY <1>1, <1>2, Leaving DEF Codes
  <2>2. Passed(r)'
    BY <1>1, <1>2, <2>1 DEF Passed, Left, Ahead, Served200, Granted, Limited, body
  <2>3. /\ user' \in [Requests -> {"unknown", "anonymous", "barred", "known"}]
        /\ UNCHANGED <<setup, route, paid, body, done, held>>
        /\ \A q \in Requests : q # r => user'[q] = user[q]
    BY <1>1, <1>2 DEF Typed
  <2>4. 429 \notin Granted
    BY DEF Granted
  <2>5. QED BY <1>1, <2>1, <2>2, <2>3, <2>4, Turned
<1>3. CASE GoTo(r, "reading") /\ Cardinality(Purse(r)) < Budget /\ paid' = paid \union {r}
  <2>1. Left(r, "reading", 0)
    BY <1>1, <1>3, Leaving DEF States
  <2>2. Passed(r)'
    BY <1>1, <1>3, <2>1 DEF Passed, Left, Ahead, Served200, Granted, Limited, body
  <2>3. Touches(r)
    BY <1>1, <1>3, <2>1 DEF Touches, Left, body
  <2>4. /\ MaxSize' = MaxSize /\ MaxFiles' = MaxFiles /\ MaxBytes' = MaxBytes
        /\ File' = File
    BY <1>1 DEF MaxSize, MaxFiles, MaxBytes, File
  <2>5. Typed'
    BY <1>1, <1>3, <2>1, <2>4 DEF Typed, Left, body
  <2>6. ParsedBody(r)'
    BY <1>1, <2>4 DEF ParsedBody, body, None
  <2>7. Done'
    <3>1. \A q \in Requests : status'[q] \in Granted <=> status[q] \in Granted
      BY <1>1, <2>1 DEF Left
    <3>2. \A d \in done : d.by \in Requests
      BY <1>1 DEF Typed
    <3>3. \A q \in Requests : status'[q] = status[q]
      BY <1>1, <2>1 DEF Left
    <3>4. Done
      BY DEF GatesInv
    <3>5. QED BY <1>1, <3>1, <3>2, <3>3, <3>4 DEF Done
  <2>8. ASSUME NEW q \in Requests PROVE Cardinality(Purse(q)') <= Budget
    <3>1. /\ IsFiniteSet(Purse(q)) /\ IsFiniteSet(Purse(r))
          /\ Cardinality(Purse(q)) \in Nat /\ Cardinality(Purse(r)) \in Nat
      BY <1>1, FS_Subset, FS_CardinalityType DEF Typed, Purse
    <3>2. CASE route[q] \in Runs <=> route[r] \in Runs
      <4>1. Purse(q)' = Purse(r) \union {r}
        BY <1>1, <1>3, <3>2 DEF Purse
      <4>2. r \notin Purse(r)
        BY <1>1 DEF Passed, Ahead, Purse
      <4>3. Cardinality(Purse(q)') = Cardinality(Purse(r)) + 1
        BY <3>1, <4>1, <4>2, FS_AddElement
      <4>4. QED BY <1>1, <1>3, <3>1, <4>3
    <3>3. CASE ~(route[q] \in Runs <=> route[r] \in Runs)
      <4>1. Purse(q)' = Purse(q)
        BY <1>1, <1>3, <3>3 DEF Purse
      <4>2. QED BY <1>1, <4>1 DEF GatesInv, WithinBudget
    <3>4. QED BY <3>2, <3>3
  <2>9. WithinBudget'
    BY <1>1, <2>8 DEF WithinBudget
  <2>10. QED BY <2>2, <2>3, <2>5, <2>6, <2>7, <2>9, StepKeeps
<1>4. QED BY <1>2, <1>3 DEF Pay

-----------------------------------------------------------------------------
\* A step of r that answers it, having worked.
LEMMA Worked ==
    ASSUME GatesInv, NEW r \in Requests, NEW code, Left(r, "answered", code),
           UNCHANGED <<setup, route, user, paid, body>>,
           done' \subseteq [what : Routes, by : Requests], held' \in BOOLEAN,
           Passed(r)', Done'
    PROVE  GatesInv'
<1>1. Touches(r)
  BY DEF Touches, Left, body
<1>2. /\ MaxSize' = MaxSize /\ MaxFiles' = MaxFiles /\ MaxBytes' = MaxBytes
      /\ Enforced' = Enforced /\ Budget' = Budget /\ Requests' = Requests
      /\ File' = File
  BY DEF MaxSize, MaxFiles, MaxBytes, Enforced, Budget, Requests, File
<1>3. Typed'
  BY <1>2 DEF GatesInv, Typed, Left, body
<1>4. ParsedBody(r)'
  BY <1>2 DEF GatesInv, ParsedBody, body, None
<1>5. WithinBudget'
  BY <1>2 DEF GatesInv, WithinBudget, Purse
<1>6. QED BY <1>1, <1>3, <1>4, <1>5, StepKeeps

\* The one thing it was asked for.
LEMMA Granting ==
    ASSUME GatesInv, NEW r \in Requests, NEW code \in Granted, Left(r, "answered", code),
           UNCHANGED <<setup, route, user, paid, body>>,
           pc[r] \in {"serving", "renaming"},
           done' = done \union {[what |-> route[r], by |-> r]},
           held' = held \/ (route[r] = "delete" /\ held' = FALSE)
    PROVE  GatesInv'
<1>1. /\ Typed /\ Passed(r) /\ Done /\ status[r] = 0
      /\ Enforced' = Enforced /\ Required' = Required /\ Budget' = Budget
      /\ Requests' = Requests
  BY DEF GatesInv, Passed, Enforced, Required, Budget, Requests
<1>2. /\ done' \subseteq [what : Routes, by : Requests]
      /\ held' \in BOOLEAN
  <2>1. route[r] \in Routes
    BY <1>1 DEF Typed
  <2>2. [what |-> route[r], by |-> r] \in [what : Routes, by : Requests]
    BY <2>1
  <2>3. done' \subseteq [what : Routes, by : Requests]
    BY <1>1, <2>2 DEF Typed
  <2>4. held' \in BOOLEAN
    BY <1>1 DEF Typed
  <2>5. QED BY <2>3, <2>4
<1>3. Passed(r)'
  BY <1>1 DEF Passed, Left, Ahead, Served200, Granted, Limited, body
<1>4. Done'
  <2>1. /\ \A q \in Requests \ {r} : status'[q] = status[q]
        /\ status'[r] = code
    BY DEF Left
  <2>2. ASSUME NEW d \in done' PROVE d.what = route[d.by] /\ status'[d.by] \in Granted
    <3>1. CASE d = [what |-> route[r], by |-> r]
      BY <2>1, <3>1
    <3>2. CASE d \in done
      <4>1. d.by \in Requests
        BY <1>1, <3>2 DEF Typed
      <4>2. QED BY <1>1, <2>1, <3>2, <4>1 DEF Done
    <3>3. QED BY <3>1, <3>2
  <2>3. ASSUME NEW q \in Requests, status'[q] \in Granted
        PROVE  \/ [what |-> route[q], by |-> q] \in done'
               \/ route[q] = "rename" /\ status'[q] = 200 /\ ~held'
    <3>1. CASE q = r
      BY <3>1
    <3>2. CASE q # r
      <4>1. status[q] \in Granted /\ status'[q] = status[q]
        BY <2>1, <2>3, <3>2
      <4>2. CASE [what |-> route[q], by |-> q] \in done
        BY <4>2
      <4>3. CASE route[q] = "rename" /\ status[q] = 200 /\ ~held
        BY <4>1, <4>3
      <4>4. QED BY <1>1, <4>1, <4>2, <4>3 DEF Done
    <3>3. QED BY <3>1, <3>2
  <2>4. ASSUME ~held' PROVE \E d \in done' : d.what = "delete"
    <3>1. CASE route[r] = "delete"
      <4>1. [what |-> route[r], by |-> r] \in done'
        OBVIOUS
      <4>2. [what |-> route[r], by |-> r].what = "delete"
        BY <3>1
      <4>3. QED BY <4>1, <4>2
    <3>2. CASE route[r] # "delete"
      <4>1. ~held
        BY <2>4, <3>2
      <4>2. QED BY <1>1, <4>1 DEF Done
    <3>3. QED BY <3>1, <3>2
  <2>5. QED BY <1>1, <2>2, <2>3, <2>4 DEF Done
<1>5. QED BY <1>2, <1>3, <1>4, Worked

LEMMA ServeKeeps ==
    ASSUME GatesInv, UNCHANGED setup, NEW r \in Requests, Serve(r)
    PROVE  GatesInv'
<1>1. /\ Typed /\ Passed(r) /\ pc[r] = "serving" /\ status[r] = 0
      /\ Enforced' = Enforced /\ Required' = Required /\ Budget' = Budget
      /\ UNCHANGED <<setup, route, user, paid, body, held>>
  BY DEF GatesInv, Serve, Passed, Enforced, Required, Budget
<1>2. CASE Answer(r, Success(r)) /\ done' = done \union {[what |-> route[r], by |-> r]}
  <2>1. Success(r) \in Codes \cap Granted
    BY DEF Success, Codes, Granted
  <2>2. QED BY <1>1, <1>2, <2>1, Leaving, Granting
<1>3. CASE Answer(r, 403) /\ UNCHANGED done
  <2>1. Left(r, "answered", 403)
    BY <1>1, <1>3, Leaving DEF Codes
  <2>2. Passed(r)'
    BY <1>1, <1>3, <2>1 DEF Passed, Left, Ahead, Served200, Granted, Limited, body
  <2>3. /\ user' \in [Requests -> {"unknown", "anonymous", "barred", "known"}]
        /\ UNCHANGED <<setup, route, paid, body, done, held>>
        /\ \A q \in Requests : q # r => user'[q] = user[q]
    BY <1>1, <1>3 DEF Typed
  <2>4. 403 \notin Granted
    BY DEF Granted
  <2>5. QED BY <1>1, <2>1, <2>2, <2>3, <2>4, Turned
<1>4. QED BY <1>2, <1>3 DEF Serve

LEMMA ServeReadKeeps ==
    ASSUME GatesInv, UNCHANGED setup, NEW r \in Requests, ServeRead(r)
    PROVE  GatesInv'
<1>1. /\ Typed /\ Passed(r) /\ pc[r] = "serving" /\ status[r] = 0 /\ route[r] = "read"
      /\ Enforced' = Enforced /\ Required' = Required /\ Budget' = Budget
      /\ UNCHANGED <<setup, route, user, paid, body, held>>
  BY DEF GatesInv, ServeRead, Passed, Enforced, Required, Budget
<1>2. CASE Answer(r, 200) /\ done' = done \union {[what |-> "read", by |-> r]}
  BY <1>1, <1>2, Leaving, Granting DEF Codes, Granted
<1>3. ASSUME NEW code \in {403, 404}, Answer(r, code), UNCHANGED done PROVE GatesInv'
  <2>1. Left(r, "answered", code)
    BY <1>1, <1>3, Leaving DEF Codes
  <2>2. Passed(r)'
    BY <1>1, <1>3, <2>1 DEF Passed, Left, Ahead, Served200, Granted, Limited, body
  <2>3. /\ user' \in [Requests -> {"unknown", "anonymous", "barred", "known"}]
        /\ UNCHANGED <<setup, route, paid, body, done, held>>
        /\ \A q \in Requests : q # r => user'[q] = user[q]
    BY <1>1, <1>3 DEF Typed
  <2>4. code \notin Granted
    BY <1>3 DEF Granted
  <2>5. QED BY <1>1, <2>1, <2>2, <2>3, <2>4, Turned
<1>4. QED BY <1>2, <1>3 DEF ServeRead

LEMMA DeleteKeeps ==
    ASSUME GatesInv, UNCHANGED setup, NEW r \in Requests, Delete(r)
    PROVE  GatesInv'
<1>1. /\ Typed /\ Passed(r) /\ pc[r] = "serving" /\ status[r] = 0 /\ route[r] = "delete"
      /\ Enforced' = Enforced /\ Required' = Required /\ Budget' = Budget
      /\ UNCHANGED <<setup, route, user, paid, body>>
  BY DEF GatesInv, Delete, Passed, Enforced, Required, Budget
<1>2. CASE /\ Answer(r, 204) /\ held' = FALSE
           /\ done' = done \union {[what |-> "delete", by |-> r]}
  <2>1. Left(r, "answered", 204) /\ 204 \in Granted
    BY <1>1, <1>2, Leaving DEF Codes, Granted
  <2>2. /\ done' = done \union {[what |-> route[r], by |-> r]}
        /\ route[r] = "delete" /\ held' = FALSE
        /\ pc[r] \in {"serving", "renaming"}
    BY <1>1, <1>2
  <2>3. QED BY <1>1, <2>1, <2>2, Granting
<1>3. CASE Answer(r, 403) /\ UNCHANGED <<done, held>>
  <2>1. Left(r, "answered", 403)
    BY <1>1, <1>3, Leaving DEF Codes
  <2>2. Passed(r)'
    BY <1>1, <1>3, <2>1 DEF Passed, Left, Ahead, Served200, Granted, Limited, body
  <2>3. /\ user' \in [Requests -> {"unknown", "anonymous", "barred", "known"}]
        /\ UNCHANGED <<setup, route, paid, body, done, held>>
        /\ \A q \in Requests : q # r => user'[q] = user[q]
    BY <1>1, <1>3 DEF Typed
  <2>4. 403 \notin Granted
    BY DEF Granted
  <2>5. QED BY <1>1, <2>1, <2>2, <2>3, <2>4, Turned
<1>4. QED BY <1>2, <1>3 DEF Delete

\* A rename that finds its thread gone did nothing, and says 200 all the same.
LEMMA RenameKeeps ==
    ASSUME GatesInv, UNCHANGED setup, NEW r \in Requests, Rename(r)
    PROVE  GatesInv'
<1>1. /\ Typed /\ Passed(r) /\ Done /\ pc[r] = "renaming" /\ status[r] = 0
      /\ route[r] = "rename"
      /\ Enforced' = Enforced /\ Required' = Required /\ Budget' = Budget
      /\ Requests' = Requests
      /\ UNCHANGED <<setup, route, user, paid, body, held>>
  BY DEF GatesInv, Rename, Passed, Enforced, Required, Budget, Requests
<1>2. Left(r, "answered", 200)
  BY <1>1, Leaving DEF Rename, Codes
<1>3. CASE held
  BY <1>1, <1>2, <1>3, Granting DEF Rename, Granted
<1>4. CASE ~held
  <2>1. done' = done
    BY <1>4 DEF Rename
  <2>2. Passed(r)'
    BY <1>1, <1>2, <2>1 DEF Passed, Left, Ahead, Served200, Granted, Limited, body
  <2>3. /\ \A q \in Requests \ {r} : status'[q] = status[q]
        /\ status'[r] = 200
    BY <1>2 DEF Left
  <2>4. ASSUME NEW d \in done PROVE d.what = route[d.by] /\ status'[d.by] \in Granted
    <3>1. d.by \in Requests
      BY <1>1 DEF Typed
    <3>2. QED BY <1>1, <2>3, <3>1 DEF Done, Granted
  <2>5. Done'
    BY <1>1, <1>4, <2>1, <2>3, <2>4 DEF Done
  <2>6. QED BY <1>1, <1>2, <2>1, <2>2, <2>5, Worked DEF Typed
<1>5. QED BY <1>3, <1>4

-----------------------------------------------------------------------------
\* A step of the parser in r's body.
LEMMA Parses ==
    ASSUME GatesInv, NEW r \in Requests,
           UNCHANGED <<setup, pc, route, user, paid, status, done, held>>,
           Parsing(r),
           file' \in [Requests -> File], files' \in [Requests -> Seq(File)],
           parsed' \in [Requests -> Nat], exceeded' \in [Requests -> BOOLEAN],
           \A q \in Requests : q # r =>
              /\ file'[q] = file[q] /\ files'[q] = files[q]
              /\ parsed'[q] = parsed[q] /\ exceeded'[q] = exceeded[q],
           exceeded'[r] => Guarded(r),
           ParsedBody(r)'
    PROVE  GatesInv'
<1>1. /\ Typed /\ Passed(r)
      /\ MaxSize' = MaxSize /\ MaxFiles' = MaxFiles /\ MaxBytes' = MaxBytes
      /\ Enforced' = Enforced /\ Required' = Required /\ Budget' = Budget
      /\ Requests' = Requests /\ File' = File
  BY DEF GatesInv, MaxSize, MaxFiles, MaxBytes, Enforced, Required, Budget, Requests, File
<1>2. Touches(r)
  BY DEF Touches
<1>3. Typed'
  BY <1>1 DEF Typed
<1>4. Passed(r)'
  BY <1>1 DEF Passed, Parsing, Guarded, Ahead, Served200, Granted, Limited
<1>5. Done'
  BY <1>1 DEF GatesInv, Done
<1>6. WithinBudget'
  BY <1>1 DEF GatesInv, WithinBudget, Purse
<1>7. QED BY <1>2, <1>3, <1>4, <1>5, <1>6, StepKeeps

LEMMA NoneIsAFile == ASSUME setup \in Setups PROVE None \in File
BY SetupType DEF None, File

LEMMA OpenFileKeeps ==
    ASSUME GatesInv, UNCHANGED setup, NEW r \in Requests, OpenFile(r)
    PROVE  GatesInv'
<1>1. /\ Typed /\ Passed(r) /\ ParsedBody(r) /\ Parsing(r)
      /\ MaxSize \in Nat /\ MaxFiles \in Nat /\ MaxBytes \in Nat
      /\ MaxSize' = MaxSize /\ MaxFiles' = MaxFiles /\ MaxBytes' = MaxBytes
      /\ Enforced' = Enforced /\ None \in File
      /\ file[r].left = 0 /\ Len(files[r]) < MaxFiles
      /\ UNCHANGED <<setup, pc, route, user, paid, parsed, exceeded, status, done, held>>
  BY SetupType, NoneIsAFile
  DEF GatesInv, Typed, OpenFile, MaxSize, MaxFiles, MaxBytes, Enforced
<1>2. /\ ~exceeded[r] /\ file[r] = None
      /\ files[r] \in Seq(File) /\ parsed[r] \in Nat /\ Len(files[r]) \in Nat
  BY <1>1 DEF Parsing, ParsedBody, Typed
<1>3. PICK size \in 0 .. MaxSize, mine \in BOOLEAN, allowed \in BOOLEAN :
          LET f == [size |-> size, left |-> size, mine |-> mine, allowed |-> allowed]
          IN  IF size = 0 THEN Keep(r, f)
              ELSE file' = [file EXCEPT ![r] = f] /\ UNCHANGED files
  BY DEF OpenFile
<1> DEFINE f == [size |-> size, left |-> size, mine |-> mine, allowed |-> allowed]
<1>4. f \in File /\ f.left = size /\ f.size = size
  BY <1>1 DEF File
<1>5. Len(files[r]) * MaxSize \in Nat /\ parsed[r] <= Len(files[r]) * MaxSize
  <2>1. /\ None.size = 0 /\ None.left = 0
        /\ parsed[r] <= Len(files[r]) * MaxSize + (None.size - None.left) + 0
    BY <1>1, <1>2 DEF ParsedBody, None
  <2>2. Len(files[r]) * MaxSize \in Nat
    BY <1>1, <1>2
  <2>3. QED BY <1>2, <2>1, <2>2
<1> HIDE DEF f
<1>6. CASE size = 0
  <2>1. /\ files' = [files EXCEPT ![r] = Append(files[r], f)]
        /\ file' = [file EXCEPT ![r] = None]
    BY <1>3, <1>6 DEF Keep, f
  <2>2. /\ Append(files[r], f) \in Seq(File)
        /\ Len(Append(files[r], f)) = Len(files[r]) + 1
        /\ \A i \in DOMAIN Append(files[r], f) :
              Append(files[r], f)[i] = IF i <= Len(files[r]) THEN files[r][i] ELSE f
        /\ \A i \in DOMAIN Append(files[r], f) : i <= Len(files[r]) => i \in DOMAIN files[r]
    BY <1>2, <1>4
  <2>3. (Len(files[r]) + 1) * MaxSize = Len(files[r]) * MaxSize + MaxSize
    BY <1>1, <1>2
  <2>4. /\ file' \in [Requests -> File] /\ files' \in [Requests -> Seq(File)]
        /\ file'[r] = None /\ files'[r] = Append(files[r], f)
        /\ \A q \in Requests : q # r => file'[q] = file[q] /\ files'[q] = files[q]
    BY <1>1, <2>1, <2>2 DEF Typed
  <2>5. \A i \in DOMAIN files'[r] : files'[r][i].left = 0
    BY <1>1, <1>4, <1>6, <2>2, <2>4 DEF ParsedBody
  <2>6. None.size = 0 /\ None.left = 0
    BY DEF None
  <2>7. parsed[r] <= Len(files'[r]) * MaxSize + (None.size - None.left) + 0
    <3>1. parsed[r] <= Len(files[r]) * MaxSize + MaxSize
      BY <1>1, <1>2, <1>5
    <3>2. Len(files'[r]) * MaxSize = Len(files[r]) * MaxSize + MaxSize
      BY <2>2, <2>3, <2>4
    <3>3. QED BY <1>1, <1>2, <1>5, <2>6, <3>1, <3>2
  <2>8. /\ parsed'[r] = parsed[r] /\ exceeded'[r] = FALSE
        /\ Len(files'[r]) <= MaxFiles
        /\ MaxBytes > 0 /\ ~Enforced => parsed[r] <= MaxBytes + 0
    BY <1>1, <1>2, <2>2, <2>4 DEF ParsedBody
  <2>9. ParsedBody(r)'
    BY <1>1, <1>2, <2>2, <2>4, <2>5, <2>6, <2>7, <2>8 DEF ParsedBody, None
  <2>10. QED BY <1>1, <1>2, <2>4, <2>9, Parses DEF Typed
<1>7. CASE size # 0
  <2>1. file' = [file EXCEPT ![r] = f] /\ UNCHANGED files
    BY <1>3, <1>7 DEF f
  <2>2. /\ file' \in [Requests -> File] /\ file'[r] = f
        /\ \A q \in Requests : q # r => file'[q] = file[q]
    BY <1>1, <1>4, <2>1 DEF Typed
  <2>3. parsed[r] <= Len(files[r]) * MaxSize + (f.size - f.left) + 0
    BY <1>2, <1>4, <1>5
  <2>4. ParsedBody(r)'
    BY <1>1, <1>2, <1>4, <1>7, <2>1, <2>2, <2>3 DEF ParsedBody
  <2>5. QED BY <1>1, <1>2, <2>1, <2>2, <2>4, Parses DEF Typed
<1>8. QED BY <1>6, <1>7

LEMMA ReceiveKeeps ==
    ASSUME GatesInv, UNCHANGED setup, NEW r \in Requests, Receive(r)
    PROVE  GatesInv'
<1> DEFINE f == [file[r] EXCEPT !.left = @ - 1]
<1>1. /\ Typed /\ Passed(r) /\ ParsedBody(r) /\ Parsing(r)
      /\ MaxSize \in Nat /\ MaxFiles \in Nat /\ MaxBytes \in Nat
      /\ Enforced \in BOOLEAN
      /\ MaxSize' = MaxSize /\ MaxFiles' = MaxFiles /\ MaxBytes' = MaxBytes
      /\ Enforced' = Enforced /\ None \in File
      /\ file[r].left > 0
      /\ UNCHANGED <<setup, pc, route, user, paid, status, done, held>>
  BY SetupType, NoneIsAFile
  DEF GatesInv, Typed, Receive, MaxSize, MaxFiles, MaxBytes, Enforced
<1>2. /\ ~exceeded[r] /\ file[r] \in File
      /\ files[r] \in Seq(File) /\ parsed[r] \in Nat /\ Len(files[r]) \in Nat
      /\ ~Guarded(r) => Enforced
  BY <1>1 DEF Parsing, Guarded, Passed, Typed
<1>3. /\ file[r].left \in 1 .. MaxSize /\ file[r].size \in 0 .. MaxSize
      /\ file[r].left <= file[r].size
      /\ Len(files[r]) < MaxFiles
  BY <1>1, <1>2 DEF File, ParsedBody
<1>4. f \in File /\ f.left = file[r].left - 1 /\ f.size = file[r].size
  BY <1>1, <1>2, <1>3 DEF File
<1> DEFINE kept == Len(files[r]) * MaxSize
<1>5. /\ kept \in Nat
      /\ parsed[r] <= kept + (file[r].size - file[r].left)
  BY <1>1, <1>2, <1>3 DEF ParsedBody
<1>6. /\ parsed' = [parsed EXCEPT ![r] = parsed[r] + 1]
      /\ parsed' \in [Requests -> Nat] /\ parsed'[r] = parsed[r] + 1
      /\ \A q \in Requests : q # r => parsed'[q] = parsed[q]
  BY <1>1 DEF Receive, Typed
<1> HIDE DEF f, kept
<1>7. CASE Guarded(r) /\ MaxBytes > 0 /\ parsed[r] + 1 > MaxBytes
  <2>1. exceeded' = [exceeded EXCEPT ![r] = TRUE] /\ UNCHANGED <<file, files>>
    BY <1>7 DEF Receive
  <2>2. /\ exceeded' \in [Requests -> BOOLEAN] /\ exceeded'[r] = TRUE
        /\ \A q \in Requests : q # r => exceeded'[q] = exceeded[q]
    BY <1>1, <2>1 DEF Typed
  <2>3. parsed[r] + 1 <= kept + (file[r].size - file[r].left) + 1
    BY <1>2, <1>3, <1>5
  <2>4. ~Enforced => parsed[r] + 1 <= MaxBytes + 1
    BY <1>1, <1>2, <1>7 DEF ParsedBody
  <2>5. ParsedBody(r)'
    BY <1>1, <1>2, <1>3, <1>6, <1>7, <2>1, <2>2, <2>3, <2>4 DEF ParsedBody, None, kept
  <2>6. QED BY <1>1, <1>6, <1>7, <2>1, <2>2, <2>5, Parses DEF Typed
<1>8. CASE ~(Guarded(r) /\ MaxBytes > 0 /\ parsed[r] + 1 > MaxBytes)
  <2>1. /\ IF f.left = 0 THEN Keep(r, f)
           ELSE file' = [file EXCEPT ![r] = f] /\ UNCHANGED files
        /\ UNCHANGED exceeded
    BY <1>8 DEF Receive, f
  <2>2. MaxBytes > 0 /\ ~Enforced => parsed[r] + 1 <= MaxBytes
    BY <1>1, <1>2, <1>8
  <2>3. CASE f.left = 0
    <3>1. /\ files' = [files EXCEPT ![r] = Append(files[r], f)]
          /\ file' = [file EXCEPT ![r] = None]
      BY <2>1, <2>3 DEF Keep
    <3>2. /\ Append(files[r], f) \in Seq(File)
          /\ Len(Append(files[r], f)) = Len(files[r]) + 1
          /\ \A i \in DOMAIN Append(files[r], f) :
                Append(files[r], f)[i] = IF i <= Len(files[r]) THEN files[r][i] ELSE f
          /\ \A i \in DOMAIN Append(files[r], f) : i <= Len(files[r]) => i \in DOMAIN files[r]
      BY <1>2, <1>4
    <3>3. (Len(files[r]) + 1) * MaxSize = kept + MaxSize
      BY <1>1, <1>2 DEF kept
    <3>4. /\ file' \in [Requests -> File] /\ files' \in [Requests -> Seq(File)]
          /\ file'[r] = None /\ files'[r] = Append(files[r], f)
          /\ \A q \in Requests : q # r => file'[q] = file[q] /\ files'[q] = files[q]
      BY <1>1, <3>1, <3>2 DEF Typed
    <3>5. \A i \in DOMAIN files'[r] : files'[r][i].left = 0
      BY <1>1, <2>3, <3>2, <3>4 DEF ParsedBody
    <3>6. None.size = 0 /\ None.left = 0
      BY DEF None
    <3>7. parsed[r] + 1 <= Len(files'[r]) * MaxSize + (None.size - None.left) + 0
      <4>1. parsed[r] + 1 <= kept + MaxSize
        BY <1>1, <1>2, <1>3, <1>4, <1>5, <2>3
      <4>2. Len(files'[r]) * MaxSize = kept + MaxSize
        BY <3>2, <3>3, <3>4
      <4>3. QED BY <1>1, <1>2, <1>5, <3>6, <4>1, <4>2
    <3>8. ParsedBody(r)'
      BY <1>1, <1>2, <1>3, <1>6, <2>1, <2>2, <3>2, <3>4, <3>5, <3>6, <3>7 DEF ParsedBody, None
    <3>9. QED BY <1>1, <1>2, <1>6, <2>1, <3>4, <3>8, Parses DEF Typed
  <2>4. CASE f.left # 0
    <3>1. file' = [file EXCEPT ![r] = f] /\ UNCHANGED <<files, exceeded>>
      BY <2>1, <2>4
    <3>2. /\ file' \in [Requests -> File] /\ file'[r] = f
          /\ \A q \in Requests : q # r => file'[q] = file[q]
      BY <1>1, <1>4, <3>1 DEF Typed
    <3>3. /\ f.left > 0 /\ f.left <= f.size
          /\ parsed[r] + 1 <= kept + (f.size - f.left) + 0
      BY <1>2, <1>3, <1>4, <1>5, <2>4
    <3>4. ParsedBody(r)'
      BY <1>1, <1>2, <1>3, <1>6, <2>2, <3>1, <3>2, <3>3 DEF ParsedBody, kept
    <3>5. QED BY <1>1, <1>2, <1>6, <3>1, <3>2, <3>4, Parses DEF Typed
  <2>5. QED BY <2>3, <2>4
<1>9. QED BY <1>7, <1>8

-----------------------------------------------------------------------------
LEMMA GatesNext == GatesInv /\ [Next]_vars => GatesInv'
<1> SUFFICES ASSUME GatesInv, [Next]_vars PROVE GatesInv'
  OBVIOUS
<1>1. CASE UNCHANGED vars
  <2>1. /\ UNCHANGED <<setup, pc, route, user, paid, file, files, parsed, exceeded,
                       status, done, held>>
        /\ MaxSize' = MaxSize /\ MaxFiles' = MaxFiles /\ MaxBytes' = MaxBytes
        /\ Enforced' = Enforced /\ Required' = Required /\ Budget' = Budget
        /\ Requests' = Requests /\ File' = File
    BY <1>1 DEF vars, body, MaxSize, MaxFiles, MaxBytes, Enforced, Required, Budget,
                Requests, File
  <2>2. Typed'
    BY <2>1 DEF GatesInv, Typed
  <2>3. ASSUME NEW q \in Requests PROVE ParsedBody(q)' /\ Passed(q)'
    <3>1. ParsedBody(q) /\ Passed(q)
      BY DEF GatesInv
    <3>2. ParsedBody(q)'
      BY <2>1, <3>1 DEF ParsedBody, None
    <3>3. Passed(q)'
      BY <2>1, <3>1 DEF Passed, Served200, Limited
    <3>4. QED BY <3>2, <3>3
  <2>4. Done' /\ WithinBudget'
    BY <2>1 DEF GatesInv, Done, WithinBudget, Purse
  <2>5. QED BY <2>1, <2>2, <2>3, <2>4 DEF GatesInv
<1>2. CASE UNCHANGED setup /\ Over
  BY <1>1, <1>2 DEF Over
<1>3. ASSUME UNCHANGED setup, NEW r \in Requests, Step(r) PROVE GatesInv'
  <2>1. CASE Arrive(r)
    BY <1>3, <2>1, ArriveKeeps
  <2>2. CASE Authorize(r)
    BY <1>3, <2>2, AuthorizeKeeps
  <2>3. CASE Route(r)
    BY <1>3, <2>3, RouteKeeps
  <2>4. CASE Pay(r)
    BY <1>3, <2>4, PayKeeps
  <2>5. CASE ReadRun(r)
    BY <1>3, <2>5, ReadRunKeeps
  <2>6. CASE OpenFile(r)
    BY <1>3, <2>6, OpenFileKeeps
  <2>7. CASE Receive(r)
    BY <1>3, <2>7, ReceiveKeeps
  <2>8. CASE EndBody(r)
    BY <1>3, <2>8, EndBodyKeeps
  <2>9. CASE Judge(r)
    BY <1>3, <2>9, JudgeKeeps
  <2>10. CASE Serve(r)
    BY <1>3, <2>10, ServeKeeps
  <2>11. CASE ServeRead(r)
    BY <1>3, <2>11, ServeReadKeeps
  <2>12. CASE Probe(r)
    BY <1>3, <2>12, ProbeKeeps
  <2>13. CASE Rename(r)
    BY <1>3, <2>13, RenameKeeps
  <2>14. CASE Delete(r)
    BY <1>3, <2>14, DeleteKeeps
  <2>15. QED BY <1>3, <2>1, <2>2, <2>3, <2>4, <2>5, <2>6, <2>7, <2>8, <2>9, <2>10,
                <2>11, <2>12, <2>13, <2>14 DEF Step
<1>4. QED BY <1>1, <1>2, <1>3 DEF Next

LEMMA GatesInductive == MCSpec => []GatesInv
<1>1. MCInit => GatesInv
  BY GatesInit DEF MCInit
<1>2. GatesInv /\ [MCNext]_<<half, vars, windowVars>> => GatesInv'
  <2>1. [MCNext]_<<half, vars, windowVars>> => [Next]_vars
    BY DEF MCNext
  <2>2. QED BY <2>1, GatesNext
<1>3. QED BY <1>1, <1>2, PTL DEF MCSpec

LEMMA PaidForByInvariant == GatesInv => WorkIsPaidFor
<1> SUFFICES ASSUME GatesInv, NEW d \in done
             PROVE  /\ user[d.by] \in IF Required THEN {"known"} ELSE {"known", "anonymous"}
                    /\ Limited(d.by) =>
                          d.by \in paid /\ Cardinality(Purse(d.by)) <= Budget
  BY DEF WorkIsPaidFor
<1>1. /\ d.by \in Requests /\ status[d.by] \in Granted
  BY DEF GatesInv, Typed, Done
<1>2. Passed(d.by)
  BY <1>1 DEF GatesInv
<1>3. QED BY <1>1, <1>2 DEF GatesInv, Passed, Served200, WithinBudget, Limited

(* Whatever is mounted and however its requests interleave, work is done   *)
(* for nobody the endpoint turns away, and what a limiter stands before    *)
(* was counted by it, within its budget.                                   *)
THEOREM WorkIsAlwaysPaidFor == MCSpec => []WorkIsPaidFor
BY GatesInductive, PaidForByInvariant, PTL

\* A setup in which the middleware's parse is under no cap; elsewhere
\* EndpointsEnforced.cfg finds the cap passed.
CapIsTheViews == \A s \in Setups : s.enforced => s.maxBytes = 0

LEMMA WithinCapByInvariant == GatesInv /\ CapIsTheViews => AcceptedWithinTheCap
<1> SUFFICES ASSUME GatesInv, CapIsTheViews, MaxBytes > 0, NEW r \in Requests,
                    route[r] \in Uploads, status[r] \in {200, 201}
             PROVE  parsed[r] <= MaxBytes /\ file[r] = None
  BY DEF AcceptedWithinTheCap
<1>1. Typed /\ ParsedBody(r) /\ Passed(r)
  BY DEF GatesInv
<1>2. ~Enforced /\ MaxBytes \in Nat /\ parsed[r] \in Nat
  <2>1. setup \in Setups
    BY <1>1 DEF Typed
  <2>2. setup.enforced => setup.maxBytes = 0
    BY <2>1 DEF CapIsTheViews
  <2>3. QED BY <1>1, <2>1, <2>2, SetupType DEF Typed, Enforced, MaxBytes
<1>3. ~exceeded[r] /\ file[r].left = 0
  BY <1>1 DEF Passed, Served200, Granted
<1>4. QED BY <1>1, <1>2, <1>3 DEF ParsedBody

(* Where the middleware parses nothing under a cap, whatever is stored or  *)
(* transcribed came whole, in a body within the cap.                       *)
THEOREM UploadsAreCapped == CapIsTheViews => (MCSpec => []AcceptedWithinTheCap)
<1> SUFFICES ASSUME CapIsTheViews PROVE MCSpec => []AcceptedWithinTheCap
  OBVIOUS
<1>1. GatesInv => AcceptedWithinTheCap
  BY WithinCapByInvariant
<1>2. QED BY <1>1, GatesInductive, PTL

LEMMA RefusalByInvariant ==
    GatesInv => TypeOK /\ RefusalCostsNothing /\ AnswerTellsTheEffect
<1> SUFFICES ASSUME GatesInv PROVE TypeOK /\ RefusalCostsNothing /\ AnswerTellsTheEffect
  OBVIOUS
<1>1. /\ Typed /\ Done /\ setup \in Setups
      /\ \A r \in Requests : ParsedBody(r) /\ Passed(r)
  BY DEF GatesInv, Typed
<1>2. MaxBytes \in Nat /\ MaxFiles \in Nat /\ MaxSize \in Nat
  BY <1>1, SetupType
<1>3. ASSUME NEW r \in Requests
      PROVE  /\ file[r] \in File /\ files[r] \in Seq(File)
             /\ Len(files[r]) <= MaxFiles
             /\ \A i \in DOMAIN files[r] : files[r][i].left = 0
             /\ parsed[r] \in 0 .. MaxFiles * MaxSize
  <2>1. /\ ParsedBody(r) /\ file[r] \in File /\ files[r] \in Seq(File)
        /\ parsed[r] \in Nat /\ Len(files[r]) \in Nat
    BY <1>1 DEF Typed
  <2>2. /\ file[r].left \in Nat /\ file[r].size \in Nat /\ file[r].size <= MaxSize
    BY <1>2, <2>1 DEF File
  <2> DEFINE kept == Len(files[r]) * MaxSize
             most == MaxFiles * MaxSize
  <2>3. /\ kept \in Nat /\ most \in Nat
    BY <1>2, <2>1
  <2>4. parsed[r] <= kept + (file[r].size - file[r].left) + (IF exceeded[r] THEN 1 ELSE 0)
    BY <2>1 DEF ParsedBody
  <2>5. kept <= most
    <3>1. \A a, b, c \in Nat : a <= b => a * c <= b * c
      <4>1. SUFFICES ASSUME NEW a \in Nat, NEW b \in Nat, NEW c \in Nat, a <= b
                     PROVE  a * c <= b * c
        OBVIOUS
      <4>2. (b - a) * c \in Nat /\ b * c = a * c + (b - a) * c
        BY <4>1
      <4>3. QED BY <4>2
    <3>2. QED BY <1>2, <2>1, <3>1 DEF ParsedBody
  <2>6. Len(files[r]) < MaxFiles => kept + MaxSize <= most
    <3>1. ASSUME Len(files[r]) < MaxFiles PROVE kept + MaxSize <= most
      <4>1. MaxFiles - Len(files[r]) - 1 \in Nat
        BY <1>2, <2>1, <3>1
      <4>2. /\ most = kept + MaxSize + (MaxFiles - Len(files[r]) - 1) * MaxSize
            /\ (MaxFiles - Len(files[r]) - 1) * MaxSize \in Nat
        BY <1>2, <2>1, <4>1
      <4>3. QED BY <1>2, <2>3, <4>2
    <3>2. QED BY <3>1
  <2>7. parsed[r] <= most
    <3> HIDE DEF kept, most
    <3>1. CASE file[r].left = 0
      <4>1. ~exceeded[r] /\ file[r].size = 0
        BY <2>1, <3>1 DEF ParsedBody, None
      <4>2. QED BY <2>1, <2>3, <2>4, <2>5, <3>1, <4>1
    <3>2. CASE file[r].left > 0
      <4>1. Len(files[r]) < MaxFiles
        BY <2>1, <3>2 DEF ParsedBody
      <4>2. QED BY <1>2, <2>1, <2>2, <2>3, <2>4, <2>6, <3>2, <4>1
    <3>3. QED BY <2>2, <3>1, <3>2
  <2>8. QED BY <2>1, <2>3, <2>7 DEF ParsedBody
<1>4. TypeOK
  BY <1>1, <1>3 DEF TypeOK, Typed, States, Codes, Passed
<1>5. RefusalCostsNothing
  BY <1>1 DEF RefusalCostsNothing, Passed
<1>6. AnswerTellsTheEffect
  <2>1. SUFFICES ASSUME NEW r \in Requests
                 PROVE  \/ status[r] \in Granted <=> [what |-> route[r], by |-> r] \in done
                        \/ /\ route[r] = "rename" /\ status[r] = 200
                           /\ \E d \in done : d.what = "delete"
    BY DEF AnswerTellsTheEffect, Granted
  <2>2. [what |-> route[r], by |-> r] \in done => status[r] \in Granted
    BY <1>1 DEF Done
  <2>3. QED BY <1>1, <2>2 DEF Done
<1>7. QED BY <1>4, <1>5, <1>6

LEMMA ParsedWithinCapByInvariant == GatesInv /\ CapIsTheViews => ParsesNoMoreThanTheCap
<1> SUFFICES ASSUME GatesInv, CapIsTheViews, NEW r \in Requests, MaxBytes > 0
             PROVE  parsed[r] <= MaxBytes + 1
  BY DEF ParsesNoMoreThanTheCap
<1>1. /\ setup \in Setups /\ parsed[r] \in Nat /\ ParsedBody(r)
  BY DEF GatesInv, Typed
<1>2. MaxBytes \in Nat /\ ~Enforced
  <2>1. setup.enforced => setup.maxBytes = 0
    BY <1>1 DEF CapIsTheViews
  <2>2. QED BY <1>1, <2>1, SetupType DEF Enforced, MaxBytes
<1>3. parsed[r] <= MaxBytes + (IF exceeded[r] THEN 1 ELSE 0)
  BY <1>1, <1>2 DEF ParsedBody
<1>4. QED BY <1>1, <1>2, <1>3

(* A request refused by its user, method, backend or limiter was not       *)
(* counted and had no body read by the view, and an answer of success was  *)
(* given for work done, and for nothing else: for every setup.             *)
THEOREM RefusalsCostNothing ==
    MCSpec => [](TypeOK /\ RefusalCostsNothing /\ AnswerTellsTheEffect)
BY GatesInductive, RefusalByInvariant, PTL

(* And where the middleware parses nothing under a cap, the view has no    *)
(* more of a body parsed than the cap and the chunk that passes it.        *)
THEOREM RefusedAheadOfWork == CapIsTheViews => (MCSpec => []RefusedBeforeWork)
<1> SUFFICES ASSUME CapIsTheViews PROVE MCSpec => []RefusedBeforeWork
  OBVIOUS
<1>1. GatesInv => RefusedBeforeWork
  BY RefusalByInvariant, ParsedWithinCapByInvariant DEF RefusedBeforeWork
<1>2. QED BY <1>1, GatesInductive, PTL
=============================================================================
