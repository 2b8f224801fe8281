---------------------------- MODULE StoresProofs ----------------------------
(***************************************************************************)
(* What MCStores checks on small instances, for any number of threads,     *)
(* runs, mounts, scopes and rows.                                          *)
(*                                                                         *)
(* Threads: with one request at a time in a thread, and a run that was     *)
(* left finalized before the next, a run in flight is the last its page    *)
(* shows, and finds the row as it was when it entered: a fresh run's is    *)
(* what it continues, if its page showed it, and a branch's is not there.  *)
(* A thread always holds what its last run went on from, and that run.     *)
(*                                                                         *)
(* Scopes: of two prefixes of one key one begins the other, so a key tells *)
(* its scope, and a row's key and its history agree on whose it is.        *)
(***************************************************************************)
EXTENDS MCStores, FiniteSetTheorems, TLAPS

-----------------------------------------------------------------------------
(* Threads.                                                                *)

\* One page at a time in a thread, and what it left finalized before it goes
\* on; ThreadStoreLate.cfg and ThreadStoreOverlap.cfg show what is lost else.
OneAtATime == ~Late /\ ~Overlap

Busy == InFlight \union {"leaving"}

\* A run has a thread from its first step on, and whoever has a snapshot or is
\* resumed has taken one.
Assigned ==
    /\ \A r \in Runs : run[r] \in {"idle", "missing"} => source[r] = NoRun
    /\ \A r \in Runs : run[r] \in Busy => target[r] \in Threads
    /\ \A r \in Runs : snapshot[r] # <<>> => run[r] # "idle"
    /\ \A r \in Runs : source[r] # NoRun => run[source[r]] # "idle"

Alone ==
    \A q, r \in Runs :
        q # r /\ run[q] \in Busy /\ run[r] \in Busy => target[q] # target[r]

\* The runs a conversation can hold: let in, and streaming or past it.
Begun(r) == run[r] \in {"streaming", "ending", "leaving", "done"}

\* The row of r's thread is still what it was when r entered it.
Unsaved(r) ==
    exists[target[r]] => /\ source[r] = NoRun => row[target[r]] = prior[r] \/ apart[r]
                         /\ ~Branches(r)

Kept(r) == exists[target[r]] /\ row[target[r]] = Append(prior[r], r)

Shown(r) ==
    /\ screen[target[r]] # <<>> /\ Last(screen[target[r]]) = r
    /\ screen[target[r]] = Append(prior[r], r) \/ (source[r] # NoRun /\ apart[r])

\* What a run in flight leaves of its thread's row and screen.
Underway(r) ==
    /\ run[r] = "gating" =>
          /\ exists[target[r]] => MatchesClient(target[r])
          /\ source[r] # NoRun
    /\ run[r] = "streaming" => Shown(r) /\ Unsaved(r)
    /\ run[r] = "ending" => Shown(r) /\ Kept(r)
    /\ run[r] = "leaving" => Shown(r) /\ (Unsaved(r) \/ Kept(r))

\* What a thread holds and shows ends in a run that has begun, and what it
\* holds is what that run went on from, and it.
Threaded(t) ==
    /\ screen[t] # <<>> => Last(screen[t]) \in Runs /\ Begun(Last(screen[t]))
    /\ exists[t] => /\ Last(row[t]) \in Runs /\ Begun(Last(row[t]))
                    /\ row[t] = Append(prior[Last(row[t])], Last(row[t]))

AtRest(t) == Quiet(t) /\ exists[t] => MatchesClient(t)

ThreadInv ==
    /\ TypeOK
    /\ Assigned
    /\ Alone
    /\ \A r \in Runs : Underway(r)
    /\ \A t \in Threads : Threaded(t)
    /\ ThreadMatchesClient

\* A run that has begun stays so, and goes on from where it went on.
Lasting ==
    \A q \in Runs : Begun(q) =>
        /\ Begun(q)' /\ prior'[q] = prior[q]
        /\ source'[q] = source[q] /\ apart'[q] = apart[q]

LEMMA ThreadInit == Init => ThreadInv
BY ThreadStoreAssumption
DEF Init, ThreadInv, TypeOK, RunStates, Assigned, Alone, Underway, Threaded,
    ThreadMatchesClient, Busy, InFlight

(* A thread that is not touched matches its client's as before.            *)
LEMMA StillMatches ==
    ASSUME ThreadInv, NEW u \in Threads, Lasting, MatchesClient(u),
           row'[u] = row[u], screen'[u] = screen[u]
    PROVE  MatchesClient(u)'
<1> DEFINE r == Last(screen[u])
<1>1. r \in Runs /\ Begun(r)
  BY DEF ThreadInv, Threaded, MatchesClient
<1>2. prior'[r] = prior[r] /\ source'[r] = source[r] /\ apart'[r] = apart[r]
  BY <1>1 DEF Lasting
<1>3. QED BY <1>2 DEF MatchesClient

\* What no step touches of a run and of its thread is as it was.
LEMMA OtherRuns ==
    ASSUME ThreadInv, Lasting, NEW q \in Runs,
           run'[q] = run[q], target'[q] = target[q], source'[q] = source[q],
           prior'[q] = prior[q], apart'[q] = apart[q],
           \A s \in Runs : run[s] # "idle" => target'[s] = target[s],
           run[q] \in Busy => /\ exists'[target[q]] = exists[target[q]]
                              /\ row'[target[q]] = row[target[q]]
                              /\ screen'[target[q]] = screen[target[q]]
    PROVE  Underway(q)'
<1>1. CASE run[q] \notin Busy
  BY <1>1 DEF Underway, Busy, InFlight
<1>2. CASE run[q] \in Busy
  <2>1. source[q] # NoRun => target'[source[q]] = target[source[q]]
    BY DEF ThreadInv, TypeOK, Assigned
  <2>2. Branches(q)' <=> Branches(q)
    BY <2>1 DEF Branches
  <2>3. Underway(q) /\ target[q] \in Threads
    BY <1>2 DEF ThreadInv, Assigned
  <2>4. (Unsaved(q)' <=> Unsaved(q)) /\ (Kept(q)' <=> Kept(q)) /\ (Shown(q)' <=> Shown(q))
    BY <1>2, <2>2 DEF Unsaved, Kept, Shown
  <2>5. PICK t \in Threads : t = target[q]
    BY <2>3
  <2>6. MatchesClient(t) => MatchesClient(t)'
    BY <1>2, <2>5, StillMatches
  <2>7. run[q] = "gating" /\ exists'[target'[q]] => MatchesClient(t)'
    BY <1>2, <2>3, <2>5, <2>6 DEF Underway
  <2>8. run[q] = "gating" => (exists[target[q]] => MatchesClient(target[q]))'
    BY <2>5, <2>7 DEF MatchesClient
  <2>9. QED BY <1>2, <2>3, <2>4, <2>8 DEF Underway
<1>3. QED BY <1>1, <1>2

(* A thread that is not touched is at rest or not, as before.              *)
LEMMA OtherThreads ==
    ASSUME ThreadInv, Lasting, NEW u \in Threads,
           exists'[u] = exists[u], row'[u] = row[u], screen'[u] = screen[u],
           \A q \in Runs : run[q] \in Busy /\ target[q] = u =>
              run'[q] \in Busy /\ target'[q] = u
    PROVE  AtRest(u)' /\ Threaded(u)'
<1>1. Quiet(u)' => Quiet(u)
  BY DEF Quiet, Busy
<1>2. AtRest(u)'
  BY <1>1, StillMatches DEF AtRest, ThreadInv, ThreadMatchesClient
<1>3. Threaded(u)
  BY DEF ThreadInv
<1>4. Threaded(u)'
  BY <1>3 DEF Threaded, Lasting
<1>5. QED BY <1>2, <1>4

LEMMA Appended ==
    ASSUME NEW p \in Seq(Runs), NEW r \in Runs
    PROVE  /\ Append(p, r) \in Seq(Runs) /\ Append(p, r) # <<>>
           /\ Last(Append(p, r)) = r
<1>1. /\ Append(p, r) \in Seq(Runs) /\ Len(Append(p, r)) = Len(p) + 1 /\ Len(p) \in Nat
      /\ Append(p, r)[Len(p) + 1] = r
  OBVIOUS
<1>2. Len(<<>>) = 0
  OBVIOUS
<1>3. QED BY <1>1, <1>2 DEF Last

(* What one at a time means: a request enters a thread no run is under way *)
(* in.                                                                     *)
LEMMA FreeIsQuiet ==
    ASSUME OneAtATime, NEW t \in Threads, Free(t)
    PROVE  \A q \in Runs : run[q] \in Busy => target[q] # t
BY DEF OneAtATime, Free, Busy

-----------------------------------------------------------------------------
LEMMA FreshKeeps ==
    ASSUME OneAtATime, ThreadInv, NEW r \in Runs, NEW t \in Threads, Fresh(r, t)
    PROVE  ThreadInv'
<1>1. /\ TypeOK /\ Assigned /\ Alone /\ run[r] = "idle" /\ source[r] = NoRun
      /\ \A q \in Runs : run[q] \in Busy => target[q] # t
      /\ screen[t] \in Seq(Runs) /\ Append(screen[t], r) \in Seq(Runs)
      /\ Append(screen[t], r) # <<>> /\ Last(Append(screen[t], r)) = r
      /\ UNCHANGED <<exists, row, source, snapshot>>
  BY FreeIsQuiet, Appended DEF ThreadInv, Assigned, Fresh, TypeOK
<1>2. /\ run' = [run EXCEPT ![r] = "streaming"]
      /\ target' = [target EXCEPT ![r] = t]
      /\ prior' = [prior EXCEPT ![r] = screen[t]]
      /\ screen' = [screen EXCEPT ![t] = Append(screen[t], r)]
      /\ apart' = [apart EXCEPT ![r] = exists[t] /\ row[t] # screen[t]]
  BY DEF Fresh
<1>3. TypeOK'
  BY <1>1, <1>2 DEF TypeOK, RunStates, InFlight
<1>4. /\ run'[r] = "streaming" /\ target'[r] = t /\ prior'[r] = screen[t]
      /\ screen'[t] = Append(screen[t], r)
      /\ apart'[r] <=> exists[t] /\ row[t] # screen[t]
      /\ \A q \in Runs : q # r => /\ run'[q] = run[q] /\ target'[q] = target[q]
                                  /\ prior'[q] = prior[q] /\ apart'[q] = apart[q]
      /\ \A u \in Threads : u # t => screen'[u] = screen[u]
  BY <1>1, <1>2 DEF TypeOK
<1>5. Assigned'
  <2>1. ASSUME NEW q \in Runs, source'[q] # NoRun PROVE run'[source'[q]] # "idle"
    <3>1. source[q] \in Runs /\ run[source[q]] # "idle" /\ source'[q] = source[q]
      BY <1>1, <2>1 DEF Assigned, TypeOK
    <3>2. run'[source[q]] # "idle"
      BY <1>4, <3>1
    <3>3. QED BY <3>1, <3>2
  <2>2. ASSUME NEW q \in Runs
        PROVE  /\ run'[q] \in {"idle", "missing"} => source'[q] = NoRun
               /\ run'[q] \in Busy => target'[q] \in Threads
               /\ snapshot[q] # <<>> => run'[q] # "idle"
    BY <1>1, <1>4 DEF Assigned, Busy, InFlight
  <2>3. QED BY <1>1, <2>1, <2>2 DEF Assigned
<1>6. Alone'
  BY <1>1, <1>4 DEF Alone
<1>7. Lasting
  BY <1>1, <1>4 DEF Lasting, Begun
<1>8. ASSUME NEW q \in Runs PROVE Underway(q)'
  <2>1. CASE q = r
    <3>1. Shown(r)'
      BY <1>1, <1>4 DEF Shown
    <3>2. Unsaved(r)'
      BY <1>1, <1>4 DEF Unsaved, Branches
    <3>3. QED BY <1>4, <2>1, <3>1, <3>2 DEF Underway
  <2>2. CASE q # r
    <3>1. run[q] \in Busy => target[q] \in Threads /\ target[q] # t
      BY <1>1 DEF Assigned
    <3>2. QED BY <1>1, <1>4, <1>7, <2>2, <3>1, OtherRuns
  <2>3. QED BY <2>1, <2>2
<1>9. ASSUME NEW u \in Threads PROVE AtRest(u)' /\ Threaded(u)'
  <2>1. CASE u = t
    <3>1. AtRest(t)'
      BY <1>4 DEF AtRest, Quiet, InFlight
    <3>2. Threaded(t)
      BY DEF ThreadInv
    <3>3. Threaded(t)'
      BY <1>1, <1>4, <1>7, <3>2 DEF Threaded, Lasting, Begun
    <3>4. QED BY <2>1, <3>1, <3>3
  <2>2. CASE u # t
    BY <1>1, <1>4, <1>7, <2>2, OtherThreads DEF Busy, InFlight
  <2>3. QED BY <2>1, <2>2
<1>10. QED BY <1>3, <1>5, <1>6, <1>8, <1>9 DEF ThreadInv, ThreadMatchesClient, AtRest

LEMMA ResumeMissingKeeps ==
    ASSUME OneAtATime, ThreadInv, NEW r \in Runs, NEW s \in Runs, NEW t \in Threads,
           ResumeMissing(r, s, t)
    PROVE  ThreadInv'
<1>1. /\ TypeOK /\ Assigned /\ Alone /\ run[r] = "idle"
      /\ run' = [run EXCEPT ![r] = "missing"]
      /\ UNCHANGED <<exists, row, screen, target, source, prior, snapshot, apart>>
  BY DEF ThreadInv, ResumeMissing
<1>2. TypeOK'
  BY <1>1 DEF TypeOK, RunStates
<1>3. /\ run'[r] = "missing"
      /\ \A q \in Runs : q # r => run'[q] = run[q]
  BY <1>1 DEF TypeOK
<1>4. Assigned'
  BY <1>1, <1>3 DEF Assigned, Busy, InFlight
<1>5. Alone'
  BY <1>1, <1>3 DEF Alone, Busy, InFlight
<1>6. Lasting
  BY <1>1, <1>3 DEF Lasting, Begun
<1>7. ASSUME NEW q \in Runs PROVE Underway(q)'
  <2>1. CASE q = r
    BY <1>3, <2>1 DEF Underway
  <2>2. CASE q # r
    BY <1>1, <1>3, <1>6, <2>2, OtherRuns
  <2>3. QED BY <2>1, <2>2
<1>8. ASSUME NEW u \in Threads PROVE AtRest(u)' /\ Threaded(u)'
  BY <1>1, <1>3, <1>6, OtherThreads DEF Busy, InFlight
<1>9. QED BY <1>2, <1>4, <1>5, <1>7, <1>8 DEF ThreadInv, ThreadMatchesClient, AtRest

LEMMA ResumeKeeps ==
    ASSUME OneAtATime, ThreadInv, NEW r \in Runs, NEW s \in Runs, NEW t \in Threads,
           Resume(r, s, t)
    PROVE  ThreadInv'
<1>1. /\ TypeOK /\ Assigned /\ Alone /\ run[r] = "idle"
      /\ run[s] # "idle" /\ s # NoRun /\ snapshot[s] \in Seq(Runs)
      /\ \A q \in Runs : run[q] \in Busy => target[q] # t
      /\ UNCHANGED <<exists, row, screen, snapshot, apart>>
  BY FreeIsQuiet, ThreadStoreAssumption DEF ThreadInv, Assigned, Resume, TypeOK
<1>2. /\ run' = [run EXCEPT ![r] = "gating"]
      /\ target' = [target EXCEPT ![r] = t]
      /\ source' = [source EXCEPT ![r] = s]
      /\ prior' = [prior EXCEPT ![r] = snapshot[s]]
  BY DEF Resume
<1>3. TypeOK'
  BY <1>1, <1>2 DEF TypeOK, RunStates, InFlight
<1>4. /\ run'[r] = "gating" /\ target'[r] = t /\ source'[r] = s
      /\ \A q \in Runs : q # r =>
            /\ run'[q] = run[q] /\ target'[q] = target[q]
            /\ prior'[q] = prior[q] /\ source'[q] = source[q]
  BY <1>1, <1>2 DEF TypeOK
<1>5. Assigned'
  <2>1. ASSUME NEW q \in Runs, source'[q] # NoRun PROVE run'[source'[q]] # "idle"
    <3>1. CASE q = r
      BY <1>1, <1>4, <3>1
    <3>2. CASE q # r
      BY <1>1, <1>4, <2>1, <3>2 DEF Assigned, TypeOK
    <3>3. QED BY <3>1, <3>2
  <2>2. ASSUME NEW q \in Runs
        PROVE  /\ run'[q] \in {"idle", "missing"} => source'[q] = NoRun
               /\ run'[q] \in Busy => target'[q] \in Threads
               /\ snapshot[q] # <<>> => run'[q] # "idle"
    BY <1>1, <1>4 DEF Assigned, Busy, InFlight
  <2>3. QED BY <1>1, <2>1, <2>2 DEF Assigned
<1>6. Alone'
  BY <1>1, <1>4 DEF Alone
<1>7. Lasting
  BY <1>1, <1>4 DEF Lasting, Begun
<1>8. exists[t] => MatchesClient(t)'
  <2>1. Quiet(t)
    BY <1>1 DEF Quiet, Busy
  <2>2. exists[t] => MatchesClient(t)
    BY <2>1 DEF ThreadInv, ThreadMatchesClient
  <2>3. QED BY <1>1, <1>7, <2>2, StillMatches
<1>9. ASSUME NEW q \in Runs PROVE Underway(q)'
  <2>1. CASE q = r
    <3>1. exists'[target'[r]] => MatchesClient(target[r])'
      BY <1>1, <1>4, <1>8
    <3>2. source'[r] # NoRun
      BY <1>1, <1>4
    <3>3. QED BY <1>4, <2>1, <3>1, <3>2 DEF Underway
  <2>2. CASE q # r
    BY <1>1, <1>4, <1>7, <2>2, OtherRuns
  <2>3. QED BY <2>1, <2>2
<1>10. ASSUME NEW u \in Threads PROVE AtRest(u)' /\ Threaded(u)'
  <2>1. CASE u = t
    <3>1. AtRest(t)'
      BY <1>4 DEF AtRest, Quiet, InFlight
    <3>2. Threaded(t)
      BY DEF ThreadInv
    <3>3. Threaded(t)'
      BY <1>1, <1>7, <3>2 DEF Threaded, Lasting
    <3>4. QED BY <2>1, <3>1, <3>3
  <2>2. CASE u # t
    BY <1>1, <1>4, <1>7, <2>2, OtherThreads DEF Busy, InFlight
  <2>3. QED BY <2>1, <2>2
<1>11. QED BY <1>3, <1>5, <1>6, <1>9, <1>10 DEF ThreadInv, ThreadMatchesClient, AtRest

-----------------------------------------------------------------------------
\* A step of a run within its own thread.
LEMMA ActingKeeps ==
    ASSUME ThreadInv, TypeOK', NEW r \in Runs, run[r] \in Busy,
           UNCHANGED <<target, source, prior>>,
           \A q \in Runs : q # r => run'[q] = run[q],
           run'[r] \in Busy \union {"refused", "done"},
           \A q \in Runs : q # r => snapshot'[q] = snapshot[q],
           \A u \in Threads : u # target[r] =>
              exists'[u] = exists[u] /\ row'[u] = row[u] /\ screen'[u] = screen[u],
           Lasting, \A q \in Runs : q # r => apart'[q] = apart[q],
           Underway(r)', Threaded(target[r])',
           run'[r] \notin Busy => (exists[target[r]] => MatchesClient(target[r]))'
    PROVE  ThreadInv'
<1>1. TypeOK /\ Assigned /\ Alone
  BY DEF ThreadInv
<1>2. Assigned'
  <2>1. ASSUME NEW q \in Runs, source[q] # NoRun PROVE run'[source[q]] # "idle"
    <3>1. source[q] \in Runs /\ run[source[q]] # "idle"
      BY <1>1, <2>1 DEF Assigned, TypeOK
    <3>2. run'[r] # "idle"
      BY DEF Busy, InFlight
    <3>3. QED BY <3>1, <3>2
  <2>2. ASSUME NEW q \in Runs
        PROVE  /\ run'[q] \in {"idle", "missing"} => source'[q] = NoRun
               /\ run'[q] \in Busy => target'[q] \in Threads
               /\ snapshot'[q] # <<>> => run'[q] # "idle"
    <3>1. CASE q = r
      BY <1>1, <3>1 DEF Assigned, Busy, InFlight
    <3>2. CASE q # r
      BY <1>1, <3>2 DEF Assigned
    <3>3. QED BY <3>1, <3>2
  <2>3. QED BY <2>1, <2>2 DEF Assigned
<1>3. Alone'
  BY <1>1 DEF Alone
<1>4. ASSUME NEW q \in Runs PROVE Underway(q)'
  <2>1. CASE q = r
    BY <2>1
  <2>2. CASE q # r
    <3>1. run[q] \in Busy => target[q] \in Threads /\ target[q] # target[r]
      BY <1>1, <2>2 DEF Assigned, Alone
    <3>2. QED BY <1>1, <2>2, <3>1, OtherRuns
  <2>3. QED BY <2>1, <2>2
<1>5. ASSUME NEW u \in Threads PROVE AtRest(u)' /\ Threaded(u)'
  <2>1. CASE u = target[r]
    BY <2>1 DEF AtRest, Quiet, Busy
  <2>2. CASE u # target[r]
    BY <2>2, OtherThreads
  <2>3. QED BY <2>1, <2>2
<1>6. QED BY <1>2, <1>3, <1>4, <1>5 DEF ThreadInv, ThreadMatchesClient, AtRest

LEMMA GateKeeps ==
    ASSUME ThreadInv, NEW r \in Runs, Gate(r)
    PROVE  ThreadInv'
<1>1. /\ TypeOK /\ Assigned /\ Underway(r) /\ run[r] = "gating" /\ target[r] \in Threads
      /\ UNCHANGED <<exists, row, target, source, prior, snapshot>>
  BY DEF ThreadInv, Assigned, Gate, Busy, InFlight
<1>2. PICK t \in Threads : t = target[r]
  BY <1>1
<1>3. Threaded(t) /\ source[r] # NoRun
  BY <1>1 DEF ThreadInv, Underway
<1>4. CASE Branches(r) /\ exists[target[r]]
  <2>1. run' = [run EXCEPT ![r] = "refused"] /\ UNCHANGED <<screen, apart>>
    BY <1>4 DEF Gate
  <2>2. run'[r] = "refused" /\ \A q \in Runs : q # r => run'[q] = run[q]
    BY <1>1, <2>1 DEF TypeOK
  <2>3. TypeOK'
    BY <1>1, <2>1 DEF TypeOK, RunStates
  <2>4. Underway(r)' /\ Lasting
    BY <1>1, <2>1, <2>2 DEF Underway, Lasting, Begun
  <2>5. MatchesClient(t)'
    BY <1>1, <1>2, <1>4, <2>1, <2>4, StillMatches DEF Underway
  <2>6. (exists[target[r]] => MatchesClient(target[r]))'
    BY <1>1, <1>2, <2>5 DEF MatchesClient
  <2>7. Threaded(t)'
    BY <1>1, <1>3, <2>1, <2>4 DEF Threaded, Lasting
  <2>8. Threaded(target[r])'
    BY <1>1, <1>2, <2>7 DEF Threaded
  <2>9. QED BY <1>1, <2>1, <2>2, <2>3, <2>4, <2>6, <2>8, ActingKeeps DEF Busy, InFlight
<1>5. CASE ~(Branches(r) /\ exists[target[r]])
  <2>1. /\ run' = [run EXCEPT ![r] = "streaming"]
        /\ screen' = [screen EXCEPT ![target[r]] = Append(screen[target[r]], r)]
        /\ apart' = [apart EXCEPT ![r] = screen[target[r]] # prior[r]]
    BY <1>5 DEF Gate, Continue
  <2>2. /\ screen[t] \in Seq(Runs) /\ Append(screen[t], r) \in Seq(Runs)
        /\ Append(screen[t], r) # <<>> /\ Last(Append(screen[t], r)) = r
    BY <1>1, Appended DEF TypeOK
  <2>3. /\ run'[r] = "streaming" /\ \A q \in Runs : q # r => run'[q] = run[q]
        /\ screen'[t] = Append(screen[t], r)
        /\ \A u \in Threads : u # t => screen'[u] = screen[u]
        /\ apart'[r] <=> screen[t] # prior[r]
        /\ \A q \in Runs : q # r => apart'[q] = apart[q]
    BY <1>1, <1>2, <2>1 DEF TypeOK
  <2>4. TypeOK'
    BY <1>1, <1>2, <2>1, <2>2 DEF TypeOK, RunStates, InFlight
  <2>5. Lasting
    BY <1>1, <2>3 DEF Lasting, Begun
  <2>6. Shown(r)'
    BY <1>1, <1>2, <1>3, <2>2, <2>3 DEF Shown
  <2>7. Unsaved(r)'
    BY <1>1, <1>3, <1>5 DEF Unsaved, Branches
  <2>8. Underway(r)'
    BY <2>3, <2>6, <2>7 DEF Underway
  <2>9. Threaded(t)'
    BY <1>1, <1>3, <2>2, <2>3, <2>5 DEF Threaded, Lasting, Begun
  <2>10. Threaded(target[r])'
    BY <1>1, <1>2, <2>9 DEF Threaded
  <2>11. QED BY <1>1, <1>2, <2>3, <2>4, <2>5, <2>8, <2>10, ActingKeeps DEF Busy, InFlight
<1>6. QED BY <1>4, <1>5

\* A step that leaves the rows, the screens and what runs go on from.
LEMMA StillThreaded ==
    ASSUME ThreadInv, NEW r \in Runs, target[r] \in Threads, Lasting,
           UNCHANGED <<exists, row, screen, target>>
    PROVE  Threaded(target[r])'
<1>1. Threaded(target[r])
  BY DEF ThreadInv
<1>2. QED BY <1>1 DEF Threaded, Lasting

LEMMA CheckpointKeeps ==
    ASSUME ThreadInv, NEW r \in Runs, Checkpoint(r)
    PROVE  ThreadInv'
<1>1. /\ TypeOK /\ Underway(r) /\ run[r] = "streaming" /\ target[r] \in Threads
      /\ prior[r] \in Seq(Runs) /\ Append(prior[r], r) \in Seq(Runs)
      /\ snapshot' = [snapshot EXCEPT ![r] = Append(prior[r], r)]
      /\ UNCHANGED <<exists, row, screen, run, target, source, prior, apart>>
  BY Appended DEF ThreadInv, Assigned, Checkpoint, TypeOK, Busy, InFlight
<1>2. TypeOK'
  BY <1>1 DEF TypeOK
<1>3. \A q \in Runs : q # r => snapshot'[q] = snapshot[q]
  BY <1>1 DEF TypeOK
<1>4. Underway(r)'
  BY <1>1 DEF Underway, Shown, Unsaved, Branches
<1>5. Lasting
  BY <1>1 DEF Lasting, Begun
<1>6. QED BY <1>1, <1>2, <1>3, <1>4, <1>5, StillThreaded, ActingKeeps DEF Busy, InFlight

\* What a save leaves.
LEMMA Saving ==
    ASSUME TypeOK, NEW r \in Runs, target[r] \in Threads, Save(r)
    PROVE  /\ exists' \in [Threads -> BOOLEAN] /\ row' \in [Threads -> Seq(Runs)]
           /\ exists'[target[r]] /\ row'[target[r]] = Append(prior[r], r)
           /\ Last(row'[target[r]]) = r
           /\ \A u \in Threads : u # target[r] => exists'[u] = exists[u] /\ row'[u] = row[u]
           /\ \A t \in Threads : exists'[t] <=> row'[t] # <<>>
<1>1. /\ Append(prior[r], r) \in Seq(Runs) /\ Append(prior[r], r) # <<>>
      /\ Last(Append(prior[r], r)) = r
  BY Appended DEF TypeOK
<1>2. QED BY <1>1 DEF TypeOK, Save

\* The saved thread is its last run's, and matches its client's.
LEMMA SavedThread ==
    ASSUME ThreadInv, NEW r \in Runs, target[r] \in Threads, Save(r), Lasting, Begun(r),
           Shown(r), UNCHANGED <<screen, target, source, prior, apart>>
    PROVE  Threaded(target[r])' /\ MatchesClient(target[r])'
<1>1. TypeOK /\ Threaded(target[r])
  BY DEF ThreadInv
<1>2. row'[target[r]] = Append(prior[r], r) /\ Last(row'[target[r]]) = r
  BY <1>1, Saving
<1>3. Threaded(target[r])'
  BY <1>1, <1>2 DEF Threaded, Lasting
<1>4. MatchesClient(target[r])'
  BY <1>2 DEF MatchesClient, Shown
<1>5. QED BY <1>3, <1>4

LEMMA FinishKeeps ==
    ASSUME ThreadInv, NEW r \in Runs, Finish(r)
    PROVE  ThreadInv'
<1>1. /\ TypeOK /\ Underway(r) /\ run[r] = "streaming" /\ target[r] \in Threads
      /\ run' = [run EXCEPT ![r] = "ending"] /\ Save(r)
      /\ UNCHANGED <<screen, target, source, prior, snapshot, apart>>
  BY DEF ThreadInv, Assigned, Finish, Busy, InFlight
<1>2. run'[r] = "ending" /\ \A q \in Runs : q # r => run'[q] = run[q]
  BY <1>1 DEF TypeOK
<1>3. TypeOK'
  BY <1>1, Saving DEF TypeOK, RunStates, InFlight
<1>4. Underway(r)' /\ Shown(r)
  BY <1>1, <1>2, Saving DEF Underway, Shown, Kept
<1>5. Lasting /\ Begun(r)
  BY <1>1, <1>2 DEF Lasting, Begun
<1>6. Threaded(target[r])'
  BY <1>1, <1>4, <1>5, SavedThread
<1>7. QED BY <1>1, <1>2, <1>3, <1>4, <1>5, <1>6, Saving, ActingKeeps DEF Busy, InFlight

LEMMA ReturnKeeps ==
    ASSUME ThreadInv, NEW r \in Runs, Return(r)
    PROVE  ThreadInv'
<1>1. /\ TypeOK /\ Underway(r) /\ run[r] = "ending" /\ target[r] \in Threads
      /\ run' = [run EXCEPT ![r] = "done"]
      /\ UNCHANGED <<exists, row, screen, target, source, prior, snapshot, apart>>
  BY DEF ThreadInv, Assigned, Return, Busy, InFlight
<1>2. run'[r] = "done" /\ \A q \in Runs : q # r => run'[q] = run[q]
  BY <1>1 DEF TypeOK
<1>3. TypeOK'
  BY <1>1 DEF TypeOK, RunStates
<1>4. Underway(r)' /\ Lasting
  BY <1>1, <1>2 DEF Underway, Lasting, Begun
<1>5. MatchesClient(target[r])'
  BY <1>1 DEF Underway, Shown, Kept, MatchesClient
<1>6. QED BY <1>1, <1>2, <1>3, <1>4, <1>5, StillThreaded, ActingKeeps DEF Busy, InFlight

LEMMA DisconnectKeeps ==
    ASSUME ThreadInv, NEW r \in Runs, Disconnect(r)
    PROVE  ThreadInv'
<1>1. /\ TypeOK /\ Underway(r) /\ run[r] \in {"streaming", "ending"} /\ target[r] \in Threads
      /\ run' = [run EXCEPT ![r] = "leaving"]
      /\ UNCHANGED <<exists, row, screen, target, source, prior, snapshot, apart>>
  BY DEF ThreadInv, Assigned, Disconnect, Busy, InFlight
<1>2. run'[r] = "leaving" /\ \A q \in Runs : q # r => run'[q] = run[q]
  BY <1>1 DEF TypeOK
<1>3. TypeOK'
  BY <1>1 DEF TypeOK, RunStates
<1>4. Underway(r)'
  BY <1>1, <1>2 DEF Underway, Shown, Kept, Unsaved, Branches
<1>5. Lasting
  BY <1>1, <1>2 DEF Lasting, Begun
<1>6. QED BY <1>1, <1>2, <1>3, <1>4, <1>5, StillThreaded, ActingKeeps DEF Busy, InFlight

LEMMA FinalizeKeeps ==
    ASSUME ThreadInv, NEW r \in Runs, Finalize(r)
    PROVE  ThreadInv'
<1>1. /\ TypeOK /\ Underway(r) /\ run[r] = "leaving" /\ target[r] \in Threads
      /\ run' = [run EXCEPT ![r] = "done"] /\ Save(r)
      /\ UNCHANGED <<screen, target, source, prior, snapshot, apart>>
  BY DEF ThreadInv, Assigned, Finalize, Busy, InFlight
<1>2. run'[r] = "done" /\ \A q \in Runs : q # r => run'[q] = run[q]
  BY <1>1 DEF TypeOK
<1>3. TypeOK'
  BY <1>1, Saving DEF TypeOK, RunStates
<1>4. Underway(r)' /\ Shown(r)
  BY <1>1, <1>2 DEF Underway
<1>5. Lasting /\ Begun(r)
  BY <1>1, <1>2 DEF Lasting, Begun
<1>6. Threaded(target[r])' /\ MatchesClient(target[r])'
  BY <1>1, <1>4, <1>5, SavedThread
<1>7. QED BY <1>1, <1>2, <1>3, <1>4, <1>5, <1>6, Saving, ActingKeeps DEF Busy, InFlight

-----------------------------------------------------------------------------
\* The thread list's requests find nobody in the thread.
LEMMA ListKeeps ==
    ASSUME OneAtATime, ThreadInv, TypeOK', NEW t \in Threads, Free(t),
           UNCHANGED <<run, target, source, prior, snapshot, apart>>,
           \A u \in Threads : u # t =>
              exists'[u] = exists[u] /\ row'[u] = row[u] /\ screen'[u] = screen[u],
           (exists[t] => MatchesClient(t))', Threaded(t)'
    PROVE  ThreadInv'
<1>1. \A q \in Runs : run[q] \in Busy => target[q] \in Threads /\ target[q] # t
  BY FreeIsQuiet DEF ThreadInv, Assigned
<1>2. Assigned' /\ Alone' /\ Lasting
  BY DEF ThreadInv, Assigned, Alone, Lasting, Begun
<1>3. ASSUME NEW q \in Runs PROVE Underway(q)'
  BY <1>1, <1>2, OtherRuns
<1>4. ASSUME NEW u \in Threads PROVE AtRest(u)' /\ Threaded(u)'
  <2>1. CASE u = t
    BY <2>1 DEF AtRest
  <2>2. CASE u # t
    BY <1>2, <2>2, OtherThreads
  <2>3. QED BY <2>1, <2>2
<1>5. QED BY <1>2, <1>3, <1>4 DEF ThreadInv, ThreadMatchesClient, AtRest

LEMMA ReloadKeeps ==
    ASSUME OneAtATime, ThreadInv, NEW t \in Threads, Reload(t)
    PROVE  ThreadInv'
<1>1. /\ TypeOK /\ Threaded(t) /\ Free(t) /\ exists[t]
      /\ screen' = [screen EXCEPT ![t] = row[t]]
      /\ UNCHANGED <<exists, row, run, target, source, prior, snapshot, apart>>
  BY DEF ThreadInv, Reload
<1>2. /\ TypeOK' /\ screen'[t] = row[t] /\ row[t] # <<>>
      /\ \A u \in Threads : u # t => screen'[u] = screen[u]
  BY <1>1 DEF TypeOK
<1>3. Threaded(t)' /\ MatchesClient(t)'
  BY <1>1, <1>2 DEF Threaded, MatchesClient, Begun
<1>4. QED BY <1>1, <1>2, <1>3, ListKeeps

LEMMA DeleteKeeps ==
    ASSUME OneAtATime, ThreadInv, NEW t \in Threads, Delete(t)
    PROVE  ThreadInv'
<1>1. /\ TypeOK /\ Free(t)
      /\ exists' = [exists EXCEPT ![t] = FALSE]
      /\ row' = [row EXCEPT ![t] = <<>>]
      /\ screen' = [screen EXCEPT ![t] = <<>>]
      /\ UNCHANGED <<run, target, source, prior, snapshot, apart>>
  BY DEF ThreadInv, Delete
<1>2. /\ TypeOK' /\ screen'[t] = <<>> /\ ~exists'[t]
      /\ \A u \in Threads : u # t =>
            exists'[u] = exists[u] /\ row'[u] = row[u] /\ screen'[u] = screen[u]
  BY <1>1 DEF TypeOK
<1>3. Threaded(t)'
  BY <1>2 DEF Threaded
<1>4. QED BY <1>1, <1>2, <1>3, ListKeeps

LEMMA ThreadNext == OneAtATime /\ ThreadInv /\ [Next]_vars => ThreadInv'
<1> SUFFICES ASSUME OneAtATime, ThreadInv, [Next]_vars PROVE ThreadInv'
  OBVIOUS
<1>1. CASE UNCHANGED vars
  <2>1. TypeOK' /\ Assigned' /\ Alone' /\ Lasting
    BY <1>1 DEF ThreadInv, vars, TypeOK, Assigned, Alone, Lasting, Begun
  <2>2. ASSUME NEW q \in Runs PROVE Underway(q)'
    BY <1>1, <2>1, OtherRuns DEF vars
  <2>3. ASSUME NEW u \in Threads PROVE AtRest(u)' /\ Threaded(u)'
    BY <1>1, <2>1, OtherThreads DEF vars
  <2>4. QED BY <2>1, <2>2, <2>3 DEF ThreadInv, ThreadMatchesClient, AtRest
<1>2. ASSUME NEW r \in Runs, NEW t \in Threads,
             \/ Fresh(r, t)
             \/ \E s \in Runs : ResumeMissing(r, s, t) \/ Resume(r, s, t)
      PROVE  ThreadInv'
  BY <1>2, FreshKeeps, ResumeMissingKeeps, ResumeKeeps
<1>3. ASSUME NEW r \in Runs,
             \/ Gate(r) \/ Checkpoint(r)
             \/ Finish(r) \/ Return(r) \/ Disconnect(r) \/ Finalize(r)
      PROVE  ThreadInv'
  BY <1>3, GateKeeps, CheckpointKeeps, FinishKeeps, ReturnKeeps, DisconnectKeeps,
     FinalizeKeeps
<1>4. ASSUME NEW t \in Threads, Reload(t) \/ Delete(t) PROVE ThreadInv'
  BY <1>4, ReloadKeeps, DeleteKeeps
<1>5. QED BY <1>1, <1>2, <1>3, <1>4 DEF Next, Over

LEMMA ThreadInductive == OneAtATime => (MCSpec => []ThreadInv)
<1> SUFFICES ASSUME OneAtATime PROVE MCSpec => []ThreadInv
  OBVIOUS
<1>1. MCInit => ThreadInv
  BY ThreadInit DEF MCInit
<1>2. ThreadInv /\ [MCNext]_<<store, vars, ledger>> => ThreadInv'
  <2>1. [MCNext]_<<store, vars, ledger>> => [Next]_vars
    BY DEF MCNext
  <2>2. QED BY <2>1, ThreadNext
<1>3. QED BY <1>1, <1>2, PTL DEF MCSpec

(* Where a thread is at rest, its stored row is what the last run on its   *)
(* client's screen went on from, and that run, however its runs ended; and *)
(* it is the screen, unless that run was resumed on a page that showed     *)
(* anything else than the snapshot.                                        *)
THEOREM RowsAreAlwaysKept == OneAtATime => (MCSpec => []RowsAreKept)
<1> SUFFICES ASSUME OneAtATime PROVE MCSpec => []RowsAreKept
  OBVIOUS
<1>1. ThreadInv => RowsAreKept
  BY DEF ThreadInv, RowsAreKept
<1>2. QED BY <1>1, ThreadInductive, PTL

-----------------------------------------------------------------------------
LEMMA ToSetAppended ==
    ASSUME NEW p \in Seq(Runs), NEW r \in Runs
    PROVE  ToSet(p) \subseteq ToSet(Append(p, r))
BY DEF ToSet

\* Who saves is in flight, and finds the row as its Underway says.
LEMMA SavesWhatItMay ==
    ASSUME ThreadInv, [Next]_vars, NEW r \in Runs, Saved(r)
    PROVE  /\ target[r] \in Threads /\ Save(r)
           /\ Unsaved(r) \/ Kept(r)
<1>1. /\ TypeOK /\ Assigned /\ Underway(r)
      /\ run[r] \in {"streaming", "leaving"} /\ run'[r] \in {"ending", "done"}
      /\ run'[r] # run[r] /\ (run[r] = "streaming" => run'[r] = "ending")
  BY DEF ThreadInv, Saved
<1>2. Finish(r) \/ Finalize(r)
  <2>1. ~UNCHANGED vars
    BY <1>1 DEF vars
  <2>2. ASSUME NEW q \in Runs, NEW t \in Threads,
               \/ Fresh(q, t)
               \/ \E s \in Runs : ResumeMissing(q, s, t) \/ Resume(q, s, t)
        PROVE  FALSE
    <3>1. run[q] = "idle" /\ \A p \in Runs : p # q => run'[p] = run[p]
      BY <1>1, <2>2 DEF Fresh, ResumeMissing, Resume, TypeOK
    <3>2. QED BY <1>1, <3>1
  <2>3. ASSUME NEW q \in Runs,
               Gate(q) \/ Checkpoint(q) \/ Return(q) \/ Disconnect(q)
        PROVE  FALSE
    <3>1. /\ \A p \in Runs : p # q => run'[p] = run[p]
          /\ \/ run[q] \in {"gating", "ending"}
             \/ run'[q] \in {"streaming", "leaving"}
      BY <1>1, <2>3 DEF Gate, Continue, Checkpoint, Return, Disconnect, TypeOK
    <3>2. QED BY <1>1, <3>1
  <2>4. ASSUME NEW q \in Runs, q # r, Finish(q) \/ Finalize(q) PROVE FALSE
    <3>1. \A p \in Runs : p # q => run'[p] = run[p]
      BY <1>1, <2>4 DEF Finish, Finalize, TypeOK
    <3>2. QED BY <1>1, <2>4, <3>1
  <2>5. ASSUME NEW t \in Threads, Reload(t) \/ Delete(t) PROVE FALSE
    BY <1>1, <2>5 DEF Reload, Delete
  <2>6. QED BY <2>1, <2>2, <2>3, <2>4, <2>5 DEF Next, Over
<1>3. Save(r)
  BY <1>2 DEF Finish, Finalize
<1>4. QED BY <1>1, <1>3 DEF Assigned, Underway, Busy, InFlight

LEMMA TurnsKept ==
    ASSUME ThreadInv, [Next]_vars, NEW t \in Threads, exists[t], exists'[t]
    PROVE  \/ ToSet(row[t]) \subseteq ToSet(row'[t])
           \/ \E r \in Runs : /\ Saved(r)
                              /\ target[r] = t
                              /\ IF source[r] = NoRun THEN apart[r] ELSE ~Branches(r)
<1>1. TypeOK
  BY DEF ThreadInv
<1>2. CASE row'[t] = row[t]
  BY <1>2
<1>3. ASSUME NEW r \in Runs, Saved(r) PROVE
         \/ ToSet(row[t]) \subseteq ToSet(row'[t])
         \/ target[r] = t /\ IF source[r] = NoRun THEN apart[r] ELSE ~Branches(r)
  <2>1. /\ Save(r) /\ (Unsaved(r) \/ Kept(r)) /\ target[r] \in Threads
        /\ prior[r] \in Seq(Runs)
    BY <1>1, <1>3, SavesWhatItMay DEF TypeOK
  <2>2. CASE target[r] # t
    <3>1. row'[t] = row[t]
      BY <1>1, <2>1, <2>2, Saving
    <3>2. QED BY <3>1
  <2>3. CASE target[r] = t
    <3>1. row'[t] = Append(prior[r], r)
      BY <1>1, <2>1, <2>3, Saving
    <3>2. CASE Kept(r)
      BY <2>3, <3>1, <3>2 DEF Kept
    <3>3. CASE Unsaved(r)
      BY <2>1, <2>3, <3>1, <3>3, ToSetAppended DEF Unsaved
    <3>4. QED BY <2>1, <3>2, <3>3
  <2>4. QED BY <2>2, <2>3
<1>4. ASSUME \A r \in Runs : ~Saved(r) PROVE row'[t] = row[t]
  <2>1. ASSUME NEW r \in Runs, Finish(r) \/ Finalize(r) PROVE FALSE
    <3>1. Saved(r)
      BY <1>1, <2>1 DEF Finish, Finalize, Saved, TypeOK
    <3>2. QED BY <1>4, <3>1
  <2>2. ASSUME NEW u \in Threads, Delete(u) PROVE row'[t] = row[t]
    <3>1. u # t
      BY <1>1, <2>2 DEF Delete, TypeOK
    <3>2. QED BY <1>1, <2>2, <3>1 DEF Delete, TypeOK
  <2>3. CASE UNCHANGED vars
    BY <2>3 DEF vars
  <2>4. ASSUME NEW r \in Runs, NEW u \in Threads, NEW s \in Runs,
               \/ Fresh(r, u) \/ ResumeMissing(r, s, u) \/ Resume(r, s, u)
               \/ Gate(r) \/ Checkpoint(r) \/ Return(r) \/ Disconnect(r)
        PROVE  row' = row
    BY <2>4 DEF Fresh, ResumeMissing, Resume, Gate, Continue, Checkpoint, Return, Disconnect
  <2>5. ASSUME NEW u \in Threads, Reload(u) PROVE row' = row
    BY <2>5 DEF Reload
  <2>6. QED BY <2>1, <2>2, <2>3, <2>4, <2>5 DEF Next, Over
<1>5. QED BY <1>2, <1>3, <1>4

LEMMA BranchesLand ==
    ASSUME ThreadInv, [Next]_vars, NEW r \in Runs, Saved(r), Branches(r)
    PROVE  ~exists[target[r]] \/ row[target[r]] = Append(prior[r], r)
BY SavesWhatItMay DEF Unsaved, Kept

(* No step loses a turn from a stored thread, but by deleting the thread,  *)
(* by a resume within it or from a page that never loaded it, and a branch *)
(* lands on no stored conversation.                                        *)
THEOREM TurnsAreAlwaysKept == OneAtATime => (MCSpec => TurnsAreKept)
<1> SUFFICES ASSUME OneAtATime PROVE MCSpec => TurnsAreKept
  OBVIOUS
<1>1. ThreadInv /\ [MCNext]_<<store, vars, ledger>> =>
        [\A t \in Threads : exists[t] /\ exists'[t] =>
            \/ ToSet(row[t]) \subseteq ToSet(row'[t])
            \/ \E r \in Runs : /\ Saved(r)
                               /\ target[r] = t
                               /\ IF source[r] = NoRun THEN apart[r] ELSE ~Branches(r)]_vars
  BY TurnsKept DEF MCNext
<1>2. ThreadInv /\ [MCNext]_<<store, vars, ledger>> =>
        [\A r \in Runs : Saved(r) /\ Branches(r) =>
            ~exists[target[r]] \/ row[target[r]] = Append(prior[r], r)]_vars
  BY BranchesLand DEF MCNext
<1>3. QED BY <1>1, <1>2, ThreadInductive, PTL
          DEF MCSpec, TurnsAreKept, NoTurnLost, BranchLandsOnNothing

-----------------------------------------------------------------------------
(* Scopes.                                                                 *)

Names == Seq(Symbols)

(* Names that are joined, and what a prefix or suffix of one says.         *)
LEMMA PrefixIs ==
    ASSUME NEW s \in Names, NEW t \in Names
    PROVE  Steps!IsPrefix(s, t) <=>
              Len(s) <= Len(t) /\ \A i \in 1 .. Len(s) : s[i] = t[i]
<1>1. /\ SubSeq(s, 1, Len(s)) = s
      /\ Len(s) \in Nat /\ Len(t) \in Nat
      /\ s \in [1 .. Len(s) -> Symbols] /\ t \in [1 .. Len(t) -> Symbols]
  BY DEF Names
<1>2. CASE Len(s) <= Len(t)
  <2>1. /\ SubSeq(t, 1, Len(s)) \in Seq(Symbols)
        /\ Len(SubSeq(t, 1, Len(s))) = Len(s)
        /\ \A i \in 1 .. Len(s) : SubSeq(t, 1, Len(s))[i] = t[i]
    BY <1>1, <1>2 DEF Names
  <2>2. SubSeq(t, 1, Len(s)) = s <=> \A i \in 1 .. Len(s) : s[i] = t[i]
    BY <1>1, <2>1
  <2>3. QED BY <1>1, <1>2, <2>2 DEF Steps!IsPrefix
<1>3. CASE ~(Len(s) <= Len(t))
  BY <1>3 DEF Steps!IsPrefix
<1>4. QED BY <1>2, <1>3

LEMMA Joined ==
    ASSUME NEW p \in Names, NEW w \in Names
    PROVE  /\ p \o w \in Names
           /\ Len(p \o w) = Len(p) + Len(w)
           /\ Len(p) \in Nat /\ Len(w) \in Nat
           /\ \A i \in 1 .. Len(p) : (p \o w)[i] = p[i]
           /\ \A i \in 1 .. Len(w) : (p \o w)[Len(p) + i] = w[i]
<1>1. p \in Seq(Symbols) /\ w \in Seq(Symbols)
  BY DEF Names
<1>2. p \o w \in Seq(Symbols) /\ Len(p \o w) = Len(p) + Len(w)
  BY <1>1
<1>3. \A i \in 1 .. Len(p) + Len(w) :
         (p \o w)[i] = IF i <= Len(p) THEN p[i] ELSE w[i - Len(p)]
  BY <1>1
<1>4. Len(p) \in Nat /\ Len(w) \in Nat
  BY <1>1
<1>5. ASSUME NEW i \in 1 .. Len(w) PROVE (p \o w)[Len(p) + i] = w[i]
  <2>1. Len(p) + i \in 1 .. Len(p) + Len(w) /\ ~(Len(p) + i <= Len(p)) /\ Len(p) + i - Len(p) = i
    BY <1>4
  <2>2. QED BY <1>3, <2>1
<1>6. QED BY <1>2, <1>3, <1>4, <1>5 DEF Names

LEMMA JoinedHasPrefix ==
    ASSUME NEW p \in Names, NEW w \in Names
    PROVE  Steps!IsPrefix(p, p \o w)
<1> DEFINE k == p \o w
<1>1. /\ k \in Names /\ Len(k) = Len(p) + Len(w) /\ Len(p) \in Nat /\ Len(w) \in Nat
      /\ \A i \in 1 .. Len(p) : k[i] = p[i]
  BY Joined
<1> HIDE DEF k
<1>2. Steps!IsPrefix(p, k)
  BY <1>1, PrefixIs
<1>3. QED BY <1>2 DEF k

LEMMA JoinedCancels ==
    ASSUME NEW p \in Names, NEW v \in Names, NEW w \in Names, p \o v = p \o w
    PROVE  v = w
<1> DEFINE k == p \o v
<1>1. /\ Len(k) = Len(p) + Len(v) /\ Len(p) \in Nat /\ Len(v) \in Nat
      /\ \A i \in 1 .. Len(v) : k[Len(p) + i] = v[i]
  BY Joined
<1>2. /\ Len(k) = Len(p) + Len(w) /\ Len(w) \in Nat
      /\ \A i \in 1 .. Len(w) : k[Len(p) + i] = w[i]
  BY Joined
<1> HIDE DEF k
<1>3. Len(v) = Len(w) /\ \A i \in 1 .. Len(v) : v[i] = w[i]
  BY <1>1, <1>2
<1>4. QED BY <1>3 DEF Names

LEMMA Unjoined ==
    ASSUME NEW p \in Names, NEW w \in Names
    PROVE  SubSeq(p \o w, Len(p) + 1, Len(p \o w)) = w
<1> DEFINE k == p \o w
<1>1. /\ k \in Seq(Symbols) /\ Len(k) = Len(p) + Len(w) /\ Len(p) \in Nat /\ Len(w) \in Nat
      /\ \A i \in 1 .. Len(w) : k[Len(p) + i] = w[i]
  BY Joined DEF Names
<1> HIDE DEF k
<1> DEFINE tail == SubSeq(k, Len(p) + 1, Len(k))
<1>2. \A i \in Len(p) + 1 .. Len(k) : k[i] \in Symbols
  BY <1>1
<1>3. /\ tail \in Seq(Symbols) /\ Len(tail) = Len(w)
      /\ \A i \in 1 .. Len(w) : tail[i] = k[Len(p) + i]
  BY <1>1, <1>2
<1> HIDE DEF tail
<1>4. w \in Seq(Symbols) /\ \A i \in 1 .. Len(w) : tail[i] = w[i]
  BY <1>1, <1>3 DEF Names
<1>5. tail = w
  BY <1>1, <1>3, <1>4
<1>6. QED BY <1>5 DEF tail, k

LEMMA JoinedHasSuffix ==
    ASSUME NEW p \in Names, NEW w \in Names
    PROVE  Steps!IsSuffix(w, p \o w)
<1> DEFINE k == p \o w
<1>1. /\ k \in Names /\ Len(k) = Len(p) + Len(w) /\ Len(p) \in Nat /\ Len(w) \in Nat
      /\ \A i \in 1 .. Len(w) : k[Len(p) + i] = w[i]
  BY Joined
<1> HIDE DEF k
<1>2. ASSUME NEW s \in Names
      PROVE  /\ Steps!Reverse(s) \in Names /\ Len(Steps!Reverse(s)) = Len(s)
             /\ \A i \in 1 .. Len(s) : Steps!Reverse(s)[i] = s[Len(s) - i + 1]
  <2>1. s \in Seq(Symbols) /\ Len(s) \in Nat
    BY DEF Names
  <2>2. \A i \in 1 .. Len(s) : (Len(s) - i) + 1 \in 1 .. Len(s)
    BY <2>1
  <2>3. \A i \in 1 .. Len(s) : s[(Len(s) - i) + 1] \in Symbols
    BY <2>1, <2>2
  <2>4. [i \in 1 .. Len(s) |-> s[(Len(s) - i) + 1]] \in Seq(Symbols)
    BY <2>1, <2>3
  <2>5. QED BY <2>1, <2>4 DEF Steps!Reverse, Names
<1>3. ASSUME NEW i \in 1 .. Len(w) PROVE Steps!Reverse(w)[i] = Steps!Reverse(k)[i]
  <2>1. /\ Steps!Reverse(w)[i] = w[Len(w) - i + 1]
        /\ Steps!Reverse(k)[i] = k[Len(k) - i + 1]
    <3>1. i \in 1 .. Len(k) /\ k \in Names
      BY <1>1
    <3>2. Steps!Reverse(w)[i] = w[Len(w) - i + 1]
      BY <1>2
    <3>3. Steps!Reverse(k)[i] = k[Len(k) - i + 1]
      BY <1>2, <3>1
    <3>4. QED BY <3>2, <3>3
  <2>2. Len(w) - i + 1 \in 1 .. Len(w) /\ Len(k) - i + 1 = Len(p) + (Len(w) - i + 1)
    BY <1>1
  <2>3. k[Len(p) + (Len(w) - i + 1)] = w[Len(w) - i + 1]
    BY <1>1, <2>2
  <2>4. QED BY <2>1, <2>2, <2>3
<1>4. Steps!IsPrefix(Steps!Reverse(w), Steps!Reverse(k))
  <2>1. /\ Steps!Reverse(w) \in Names /\ Len(Steps!Reverse(w)) = Len(w)
        /\ Steps!Reverse(k) \in Names /\ Len(Steps!Reverse(k)) = Len(k)
    <3>1. k \in Names
      BY <1>1
    <3>2. /\ Steps!Reverse(w) \in Names /\ Len(Steps!Reverse(w)) = Len(w)
      BY <1>2
    <3>3. /\ Steps!Reverse(k) \in Names /\ Len(Steps!Reverse(k)) = Len(k)
      BY <1>2, <3>1
    <3>4. QED BY <3>2, <3>3
  <2>2. Len(w) <= Len(k)
    BY <1>1
  <2>3. QED BY <1>3, <2>1, <2>2, PrefixIs
<1>5. QED BY <1>4 DEF Steps!IsSuffix, k

\* Of two names that begin a third, one begins the other.
LEMMA PrefixesMeet ==
    ASSUME NEW p \in Names, NEW q \in Names, NEW w \in Names,
           Steps!IsPrefix(p, q \o w)
    PROVE  Steps!IsPrefix(p, q) \/ Steps!IsPrefix(q, p)
<1>1. /\ q \o w \in Names /\ Len(p) \in Nat /\ Len(q) \in Nat
      /\ \A i \in 1 .. Len(p) : p[i] = (q \o w)[i]
      /\ \A i \in 1 .. Len(q) : q[i] = (q \o w)[i]
  BY Joined, PrefixIs DEF Names
<1>2. CASE Len(p) <= Len(q)
  BY <1>1, <1>2, PrefixIs
<1>3. CASE Len(q) <= Len(p)
  BY <1>1, <1>3, PrefixIs
<1>4. QED BY <1>1, <1>2, <1>3

-----------------------------------------------------------------------------
LEMMA MountNames ==
    ASSUME NEW m \in Mounts
    PROVE  Steps!Prefix(m) \in Names
<1>1. ScopeOf[m] \in Names
  BY LedgerAssumption DEF Steps!ScopesAssumption, Names
<1>2. Steps!Separator \in Names
  BY LedgerAssumption DEF Steps!ScopesAssumption, Names
<1>3. QED BY <1>1, <1>2, Joined DEF Steps!Prefix

\* A mount's key belongs to its own scope, and to no other.
LEMMA KeysAreApart ==
    ASSUME NEW m \in Mounts, NEW n \in Mounts, NEW r \in RunIds
    PROVE  /\ Steps!Key(n, r) \in Names
           /\ Steps!Mine(m, Steps!Key(n, r)) <=> ScopeOf[m] = ScopeOf[n]
<1>1. /\ Steps!Prefix(m) \in Names /\ Steps!Prefix(n) \in Names /\ r \in Names
      /\ ScopeOf[m] # ScopeOf[n] =>
            /\ ~Steps!IsPrefix(Steps!Prefix(m), Steps!Prefix(n))
            /\ ~Steps!IsPrefix(Steps!Prefix(n), Steps!Prefix(m))
  BY MountNames, LedgerAssumption DEF Steps!ScopesAssumption, Names
<1>2. Steps!Mine(m, Steps!Key(n, r)) => ScopeOf[m] = ScopeOf[n]
  BY <1>1, PrefixesMeet DEF Steps!Mine, Steps!Key
<1>3. ScopeOf[m] = ScopeOf[n] => Steps!Prefix(m) = Steps!Prefix(n)
  BY DEF Steps!Prefix
<1>4. Steps!IsPrefix(Steps!Prefix(n), Steps!Prefix(n) \o r)
  BY <1>1, JoinedHasPrefix
<1>5. QED BY <1>1, <1>2, <1>3, <1>4, Joined DEF Steps!Mine, Steps!Key

LEMMA KeyIsReadBack ==
    ASSUME NEW m \in Mounts, NEW r \in RunIds
    PROVE  Steps!Unkey(m, Steps!Key(m, r)) = r
<1>1. Steps!Prefix(m) \in Names /\ r \in Names
  BY MountNames, LedgerAssumption DEF Steps!ScopesAssumption, Names
<1>2. QED BY <1>1, KeysAreApart, Unjoined DEF Steps!Unkey, Steps!Key

\* An older row's key belongs to no scope.
LEMMA OldKeysAreNobodys ==
    ASSUME NEW m \in Mounts, NEW r \in RunIds
    PROVE  ~Steps!Mine(m, r)
BY LedgerAssumption DEF Steps!ScopesAssumption, Steps!Mine

\* Two keys of mounts are the same when their scopes and their run ids are.
LEMMA SameKey ==
    ASSUME NEW m \in Mounts, NEW n \in Mounts, NEW r \in RunIds, NEW q \in RunIds
    PROVE  Steps!Key(m, r) = Steps!Key(n, q) <=> ScopeOf[m] = ScopeOf[n] /\ r = q
<1>1. Steps!Prefix(m) \in Names /\ r \in Names /\ q \in Names
  BY MountNames, LedgerAssumption DEF Steps!ScopesAssumption, Names
<1>2. Steps!Key(m, r) = Steps!Key(n, q) => ScopeOf[m] = ScopeOf[n]
  BY KeysAreApart
<1>3. ScopeOf[m] = ScopeOf[n] => Steps!Prefix(m) = Steps!Prefix(n)
  BY DEF Steps!Prefix
<1>4. QED BY <1>1, <1>2, <1>3, JoinedCancels DEF Steps!Key

-----------------------------------------------------------------------------
LedgerRow ==
    [table : Steps!Tables, key : Names, parent : Steps!Parents,
     scope : SUBSET {ScopeOf[m] : m \in Mounts}, wrote : RunIds]

\* Whose a row is, by its key as by its history.
Written(entry) ==
    \/ entry.scope = {} /\ entry.key = entry.wrote
    \/ \E m \in Mounts : entry.scope = {ScopeOf[m]} /\ entry.key = Steps!Key(m, entry.wrote)

\* The rows another needs: a run's own, and its parent's.
Rooted(entry) ==
    /\ entry.table # "run" => \E first \in ledger : first.table = "run" /\ first.key = entry.key
    /\ entry.parent # NoParent =>
          \E m \in Mounts, first \in ledger :
             /\ entry.scope = {ScopeOf[m]}
             /\ first.table = "run" /\ first.key = Steps!Key(m, entry.parent)

LedgerInv ==
    /\ Steps!IsFiniteSet(ledger) /\ Steps!Cardinality(ledger) <= MaxRows
    /\ ledger \subseteq LedgerRow
    /\ \A entry \in ledger : Written(entry) /\ Rooted(entry)

(* FiniteSets by way of the instance is FiniteSets.                        *)
LEMMA LedgerSets ==
    /\ Steps!IsFiniteSet(ledger) <=> IsFiniteSet(ledger)
    /\ Steps!Cardinality(ledger) = Cardinality(ledger)
BY DEF Steps!IsFiniteSet, IsFiniteSet, Steps!Cardinality, Cardinality

LEMMA LedgerInit == Steps!Init => LedgerInv
<1>1. SUFFICES ASSUME ledger = {} PROVE LedgerInv
  BY DEF Steps!Init
<1>2. IsFiniteSet(ledger) /\ Cardinality(ledger) = 0 /\ MaxRows \in Nat
  BY <1>1, FS_EmptySet, LedgerAssumption DEF Steps!ScopesAssumption
<1>3. QED BY <1>1, <1>2, LedgerSets DEF LedgerInv

(* A row is added next to the rows it needs, and says whose it is.         *)
LEMMA Added ==
    ASSUME LedgerInv, NEW entry \in LedgerRow, Steps!Add(entry),
           Written(entry), Rooted(entry)'
    PROVE  LedgerInv'
<1>1. ledger' = ledger \union {entry} /\ Cardinality(ledger) < MaxRows /\ MaxRows \in Nat
  BY LedgerSets, LedgerAssumption DEF Steps!Add, Steps!ScopesAssumption
<1>2. IsFiniteSet(ledger') /\ Cardinality(ledger') <= MaxRows
  <2>1. IsFiniteSet(ledger) /\ Cardinality(ledger) \in Nat
    BY LedgerSets, FS_CardinalityType DEF LedgerInv
  <2>2. IsFiniteSet(ledger') /\ (Cardinality(ledger') = Cardinality(ledger) \/ Cardinality(ledger') = Cardinality(ledger) + 1)
    BY <1>1, <2>1, FS_AddElement
  <2>3. QED BY <1>1, <2>1, <2>2
<1>3. ASSUME NEW other \in ledger' PROVE Written(other)' /\ Rooted(other)'
  <2>1. CASE other = entry
    BY <2>1 DEF Written, Steps!Key, Steps!Prefix, Steps!Separator
  <2>2. CASE other \in ledger
    <3>1. Written(other) /\ Rooted(other)
      BY <2>2 DEF LedgerInv
    <3>2. QED BY <1>1, <3>1 DEF Written, Rooted
  <2>3. QED BY <1>1, <2>1, <2>2
<1>4. ledger' \subseteq LedgerRow
  BY <1>1 DEF LedgerInv
<1>5. QED BY <1>2, <1>3, <1>4 DEF LedgerInv, Steps!IsFiniteSet, IsFiniteSet, Steps!Cardinality, Cardinality

LEMMA WriteKeeps ==
    ASSUME LedgerInv, NEW table \in Steps!Tables, NEW m \in Mounts, NEW r \in RunIds,
           NEW p \in Steps!Parents, Steps!Write(table, m, r, p),
           table # "run" => Steps!GetBy("run", m, r) # {},
           p # NoParent => Steps!GetBy("snapshot", m, p) # {}
    PROVE  LedgerInv'
<1> DEFINE entry == [table |-> table, key |-> Steps!Key(m, r), parent |-> p,
                     scope |-> {ScopeOf[m]}, wrote |-> r]
<1>1. Steps!Add(entry) /\ ledger \subseteq ledger'
  BY DEF Steps!Write, Steps!Add
<1>2. entry \in LedgerRow /\ Written(entry)
  BY KeysAreApart DEF LedgerRow, Written
<1>3. table # "run" => \E first \in ledger : first.table = "run" /\ first.key = Steps!Key(m, r)
  BY DEF Steps!GetBy, Steps!Out, Steps!Under
<1>4. p # NoParent => \E first \in ledger : first.table = "run" /\ first.key = Steps!Key(m, p)
  <2>1. SUFFICES ASSUME p # NoParent
                 PROVE  \E first \in ledger : first.table = "run" /\ first.key = Steps!Key(m, p)
    OBVIOUS
  <2>2. PICK saved \in ledger : saved.table = "snapshot" /\ saved.key = Steps!Key(m, p)
    BY <2>1 DEF Steps!GetBy, Steps!Out, Steps!Under
  <2>3. Rooted(saved)
    BY DEF LedgerInv
  <2>4. QED BY <2>2, <2>3 DEF Rooted
<1>5. Rooted(entry)'
  BY <1>1, <1>3, <1>4 DEF Rooted, Steps!Key, Steps!Prefix, Steps!Separator
<1> HIDE DEF entry
<1>6. QED BY <1>1, <1>2, <1>5, Added

LEMMA LegacyKeeps ==
    ASSUME LedgerInv, NEW r \in RunIds, Steps!Legacy(r)
    PROVE  LedgerInv'
<1> DEFINE entry == [table |-> "run", key |-> r, parent |-> NoParent,
                     scope |-> {}, wrote |-> r]
<1>1. Steps!Add(entry)
  BY DEF Steps!Legacy
<1>2. entry \in LedgerRow /\ Written(entry) /\ Rooted(entry)'
  BY LedgerAssumption
  DEF LedgerRow, Written, Rooted, Steps!Tables, Steps!Parents, Names, Steps!ScopesAssumption
<1> HIDE DEF entry
<1>3. QED BY <1>1, <1>2, Added

LEMMA LedgerStays == LedgerInv /\ UNCHANGED ledger => LedgerInv'
<1> SUFFICES ASSUME LedgerInv, UNCHANGED ledger PROVE LedgerInv'
  OBVIOUS
<1>1. IsFiniteSet(ledger)' /\ (Cardinality(ledger) <= MaxRows)'
  BY LedgerSets DEF LedgerInv
<1>2. ASSUME NEW entry \in ledger PROVE Written(entry)' /\ Rooted(entry)'
  <2>1. Written(entry) /\ Rooted(entry)
    BY DEF LedgerInv
  <2>2. QED BY <2>1 DEF Written, Rooted
<1>3. QED BY <1>1, <1>2 DEF LedgerInv, Steps!IsFiniteSet, IsFiniteSet, Steps!Cardinality, Cardinality

LEMMA LedgerNext == LedgerInv /\ [Steps!Next]_ledger => LedgerInv'
<1> SUFFICES ASSUME LedgerInv, [Steps!Next]_ledger PROVE LedgerInv'
  OBVIOUS
<1>1. CASE UNCHANGED ledger
  BY <1>1, LedgerStays
<1>2. ASSUME NEW m \in Mounts, NEW r \in RunIds, NEW p \in Steps!Parents,
             Steps!RegisterRun(m, r, p)
      PROVE  LedgerInv'
  BY <1>2, WriteKeeps DEF Steps!RegisterRun, Steps!Tables
<1>3. ASSUME NEW m \in Mounts, NEW r \in RunIds, NEW table \in Steps!Tables \ {"run"},
             Steps!Record(table, m, r)
      PROVE  LedgerInv'
  BY <1>3, WriteKeeps DEF Steps!Record, Steps!Parents
<1>4. ASSUME NEW r \in RunIds, Steps!Legacy(r) PROVE LedgerInv'
  BY <1>4, LegacyKeeps
<1>5. QED BY <1>1, <1>2, <1>3, <1>4 DEF Steps!Next, Steps!Full

LEMMA LedgerInductive == MCSpec => []LedgerInv
<1>1. MCInit => LedgerInv
  BY LedgerInit DEF MCInit
<1>2. LedgerInv /\ [MCNext]_<<store, vars, ledger>> => LedgerInv'
  <2>1. [MCNext]_<<store, vars, ledger>> => [Steps!Next]_ledger
    BY DEF MCNext
  <2>2. QED BY <2>1, LedgerNext
<1>3. QED BY <1>1, <1>2, PTL DEF MCSpec

\* Of the rows there are, a scope's own are those whose keys are its own.
LEMMA OwnByKey ==
    ASSUME LedgerInv, NEW m \in Mounts, NEW entry \in ledger
    PROVE  /\ Steps!Mine(m, entry.key) <=> ScopeOf[m] \in entry.scope
           /\ \A r \in RunIds : entry.key = Steps!Key(m, r) <=>
                                  ScopeOf[m] \in entry.scope /\ entry.wrote = r
           /\ ScopeOf[m] \in entry.scope => Steps!Unkey(m, entry.key) = entry.wrote
<1>1. entry.wrote \in RunIds /\ Written(entry)
  BY DEF LedgerInv, LedgerRow
<1>2. CASE entry.scope = {} /\ entry.key = entry.wrote
  <2>1. ~Steps!Mine(m, entry.key)
    BY <1>1, <1>2, OldKeysAreNobodys
  <2>2. \A r \in RunIds : Steps!Mine(m, Steps!Key(m, r))
    BY KeysAreApart
  <2>3. QED BY <1>2, <2>1, <2>2
<1>3. ASSUME NEW n \in Mounts,
             entry.scope = {ScopeOf[n]}, entry.key = Steps!Key(n, entry.wrote)
      PROVE  /\ Steps!Mine(m, entry.key) <=> ScopeOf[m] \in entry.scope
             /\ \A r \in RunIds : entry.key = Steps!Key(m, r) <=>
                                    ScopeOf[m] \in entry.scope /\ entry.wrote = r
             /\ ScopeOf[m] \in entry.scope => Steps!Unkey(m, entry.key) = entry.wrote
  <2>1. Steps!Mine(m, entry.key) <=> ScopeOf[m] \in entry.scope
    BY <1>1, <1>3, KeysAreApart
  <2>2. \A r \in RunIds : entry.key = Steps!Key(m, r) <=>
                           ScopeOf[m] \in entry.scope /\ entry.wrote = r
    BY <1>1, <1>3, SameKey
  <2>3. ScopeOf[m] \in entry.scope => Steps!Unkey(m, entry.key) = entry.wrote
    <3>1. ScopeOf[m] \in entry.scope => entry.key = Steps!Key(m, entry.wrote)
      BY <1>1, <2>2
    <3>2. QED BY <1>1, <3>1, KeyIsReadBack
  <2>4. QED BY <2>1, <2>2, <2>3
<1>4. QED BY <1>1, <1>2, <1>3 DEF Written

LEMMA ApartByInvariant == LedgerInv => ScopesAreApart
<1> SUFFICES ASSUME LedgerInv PROVE ScopesAreApart
  OBVIOUS
<1>1. Steps!TypeOK
  <2>1. ASSUME NEW entry \in ledger
        PROVE  /\ DOMAIN entry = {"table", "key", "parent", "scope", "wrote"}
               /\ entry.table \in Steps!Tables
               /\ entry.parent \in Steps!Parents
               /\ entry.wrote \in RunIds
               /\ Steps!IsSuffix(entry.wrote, entry.key)
               /\ entry.table # "run" =>
                     \E first \in ledger : first.table = "run" /\ first.key = entry.key
    <3>1. entry \in LedgerRow /\ Written(entry) /\ Rooted(entry)
      BY DEF LedgerInv
    <3>2. entry.wrote \in Names /\ <<>> \in Names
      BY <3>1, LedgerAssumption DEF LedgerRow, Steps!ScopesAssumption, Names
    <3>3. CASE entry.key = entry.wrote
      <4>1. <<>> \o entry.wrote = entry.wrote
        BY <3>2 DEF Names
      <4>2. QED BY <3>2, <3>3, <4>1, JoinedHasSuffix, <3>1 DEF LedgerRow, Rooted
    <3>4. CASE \E m \in Mounts : entry.key = Steps!Key(m, entry.wrote)
      <4>1. Steps!IsSuffix(entry.wrote, entry.key)
        BY <3>2, <3>4, JoinedHasSuffix, MountNames DEF Steps!Key
      <4>2. QED BY <3>1, <4>1 DEF LedgerRow, Rooted
    <3>5. QED BY <3>1, <3>3, <3>4 DEF Written
  <2>2. QED BY <2>1 DEF Steps!TypeOK, LedgerInv
<1>2. Steps!FindsItsOwn
  <2>1. SUFFICES ASSUME NEW m \in Mounts, NEW r \in RunIds, NEW table \in Steps!Tables
                 PROVE  Steps!GetBy(table, m, r) =
                           Steps!Wire({entry \in Steps!Of(m) :
                                          entry.table = table /\ entry.wrote = r})
    BY DEF Steps!FindsItsOwn
  <2> DEFINE asked == {entry \in ledger : entry.table = table /\ entry.key = Steps!Key(m, r)}
             own == {entry \in Steps!Of(m) : entry.table = table /\ entry.wrote = r}
  <2>2. asked = own
    BY OwnByKey DEF Steps!Of
  <2>3. \A entry \in own : Steps!Unkey(m, entry.key) = entry.wrote
    BY OwnByKey DEF Steps!Of
  <2> HIDE DEF asked, own
  <2>4. Steps!Out(m, own) = Steps!Wire(own)
    BY <2>3 DEF Steps!Out, Steps!Wire
  <2>5. QED BY <2>2, <2>4 DEF Steps!GetBy, Steps!Under, asked, own
<1>3. Steps!ListsItsOwn
  <2>1. SUFFICES ASSUME NEW m \in Mounts, NEW p \in Steps!Parents
                 PROVE  Steps!ListRuns(m, p) =
                           Steps!Wire({entry \in Steps!Of(m) :
                                          /\ entry.table = "run"
                                          /\ p = NoParent \/ entry.parent = p})
    BY DEF Steps!ListsItsOwn
  <2> DEFINE asked == {entry \in ledger : /\ entry.table = "run"
                                          /\ p = NoParent \/ entry.parent = p
                                          /\ Steps!Mine(m, entry.key)}
             own == {entry \in Steps!Of(m) : /\ entry.table = "run"
                                             /\ p = NoParent \/ entry.parent = p}
  <2>2. asked = own
    BY OwnByKey DEF Steps!Of
  <2>3. \A entry \in own : Steps!Unkey(m, entry.key) = entry.wrote
    BY OwnByKey DEF Steps!Of
  <2> HIDE DEF asked, own
  <2>4. Steps!Out(m, own) = Steps!Wire(own)
    BY <2>3 DEF Steps!Out, Steps!Wire
  <2>5. QED BY <2>2, <2>4 DEF Steps!ListRuns, asked, own
<1>4. Steps!LineageClosed
  <2>1. SUFFICES ASSUME NEW m \in Mounts, NEW shown \in Steps!ListRuns(m, NoParent),
                        shown.parent # NoParent
                 PROVE  Steps!GetBy("run", m, shown.parent) # {}
    BY DEF Steps!LineageClosed
  <2>2. PICK entry \in ledger : /\ Steps!Mine(m, entry.key)
                                /\ shown = [entry EXCEPT !.key = Steps!Unkey(m, entry.key)]
    BY DEF Steps!ListRuns, Steps!Out
  <2>3. entry \in LedgerRow /\ Rooted(entry) /\ ScopeOf[m] \in entry.scope
    BY <2>2, OwnByKey DEF LedgerInv
  <2>4. shown.parent = entry.parent
    BY <2>2, <2>3 DEF LedgerRow
  <2>5. PICK n \in Mounts, first \in ledger :
           /\ entry.scope = {ScopeOf[n]}
           /\ first.table = "run" /\ first.key = Steps!Key(n, entry.parent)
    BY <2>1, <2>3, <2>4 DEF Rooted
  <2>6. Steps!Key(n, entry.parent) = Steps!Key(m, entry.parent)
    BY <2>3, <2>5 DEF Steps!Key, Steps!Prefix
  <2>7. first \in Steps!Under("run", Steps!Key(m, shown.parent))
    BY <2>4, <2>5, <2>6 DEF Steps!Under
  <2>8. QED BY <2>7 DEF Steps!GetBy, Steps!Out
<1>5. QED BY <1>1, <1>2, <1>3, <1>4 DEF ScopesAreApart

(* Whatever mounts share a ledger, under whatever scopes of which no       *)
(* prefix begins another's, each finds and lists what its own scope wrote, *)
(* under the ids it wrote it by, and every parent of what it lists.        *)
THEOREM ScopesAreAlwaysApart == MCSpec => []ScopesAreApart
BY LedgerInductive, ApartByInvariant, PTL
=============================================================================
