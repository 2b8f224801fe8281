------------------------------ MODULE Endpoints ------------------------------
(***************************************************************************)
(* What stands between a request and the work it asks for: the user, the   *)
(* method, the backend, the limiter, the body, in the order each view asks *)
(* for them.  Routes: a run, a resumed one, an upload, a clip, a rename    *)
(* and a deletion of one thread or file, and a read of any of the others   *)
(* (threads/, attachments/<id>/, runs/, tools/, skills/).                  *)
(*                                                                         *)
(* A multipart body is parsed chunk by chunk, a chunk being one unit of    *)
(* size.  Where Enforced, CsrfViewMiddleware reads request.POST ahead of   *)
(* the view, and with it the whole body: Django keeps what it parsed, and  *)
(* an upload handler inserted afterwards is handed nothing.                *)
(***************************************************************************)
EXTENDS Naturals, Sequences, FiniteSets, SequencesExt

CONSTANT
    Setups  \* how an endpoint may be mounted and asked, a record each:
            \*   requests            the requests it gets
            \*   required            require_authenticated
            \*   enforced            csrf_exempt is FALSE and the middleware is installed
            \*   enabled             a store and a backend are configured
            \*   budget              what each limiter admits in its window, 0 for no limiter
            \*   maxBytes            attachment_max_bytes, transcription_max_bytes
            \*   maxFiles, maxSize   bounds: files in a body, chunks of a file

ASSUME EndpointsAssumption ==
    \A s \in Setups :
        /\ {s.required, s.enforced, s.enabled} \subseteq BOOLEAN
        /\ {s.budget, s.maxBytes, s.maxFiles, s.maxSize} \subseteq Nat
        /\ IsFiniteSet(s.requests)

VARIABLES
    setup,      \* which of them this is
    pc,         \* where each request is
    route,
    user,       \* whom aauthorize found
    paid,       \* requests a limiter counted
    file,       \* the file the parser is in
    files,      \* request.FILES, in order
    parsed,     \* chunks the parser has read
    exceeded,   \* CappedUploadHandler.exceeded
    status,     \* the answer, 0 before it
    done,       \* what was done: [what, by]
    held        \* the store has the thread that is renamed or deleted

body == <<file, files, parsed, exceeded>>
vars == <<setup, pc, route, user, paid, body, status, done, held>>

Requests == setup.requests
Required == setup.required
Enforced == setup.enforced
Enabled == setup.enabled
Budget == setup.budget
MaxBytes == setup.maxBytes
MaxFiles == setup.maxFiles
MaxSize == setup.maxSize

Runs == {"run", "resume"}
Uploads == {"upload", "clip"}
Details == {"read", "rename", "delete"}
Routes == Runs \union Uploads \union Details

None == [size |-> 0, left |-> 0, mine |-> FALSE, allowed |-> FALSE]
File == [size : 0 .. MaxSize, left : 0 .. MaxSize, mine : BOOLEAN, allowed : BOOLEAN]

TypeOK ==
    /\ setup \in Setups
    /\ pc \in [Requests -> {"new", "sifting", "authorizing", "routing", "paying",
                            "reading", "judging", "serving", "renaming", "answered"}]
    /\ route \in [Requests -> Routes]
    /\ user \in [Requests -> {"unknown", "anonymous", "barred", "known"}]
    /\ paid \subseteq Requests
    /\ \A r \in Requests :
          /\ file[r] \in File /\ files[r] \in Seq(File)
          /\ Len(files[r]) <= MaxFiles
          /\ \A i \in DOMAIN files[r] : files[r][i].left = 0
          /\ parsed[r] \in 0 .. MaxFiles * MaxSize
    /\ exceeded \in [Requests -> BOOLEAN]
    /\ status \in [Requests -> {0, 200, 201, 204, 400, 401, 403, 404, 405, 409, 410, 413, 415, 429}]
    /\ \A r \in Requests : status[r] = 0 <=> pc[r] # "answered"
    /\ done \subseteq [what : Routes, by : Requests]
    /\ held \in BOOLEAN

Init ==
    /\ setup \in Setups
    /\ pc = [r \in Requests |-> "new"]
    /\ route \in [Requests -> Routes]
    /\ user = [r \in Requests |-> "unknown"]
    /\ paid = {} /\ done = {} /\ held = TRUE
    /\ file = [r \in Requests |-> None]
    /\ files = [r \in Requests |-> <<>>]
    /\ parsed = [r \in Requests |-> 0]
    /\ exceeded = [r \in Requests |-> FALSE]
    /\ status = [r \in Requests |-> 0]

-----------------------------------------------------------------------------
GoTo(r, where) == pc' = [pc EXCEPT ![r] = where] /\ UNCHANGED status

Answer(r, code) ==
    /\ pc' = [pc EXCEPT ![r] = "answered"]
    /\ status' = [status EXCEPT ![r] = code]

(* The view parses first and asks who is there afterwards.                 *)
ArriveParsing(r) ==
    /\ pc[r] = "new"
    /\ GoTo(r, IF route[r] \in Uploads THEN "sifting" ELSE "authorizing")
    /\ UNCHANGED <<route, user, paid, body, done, held>>

\* An uploading POST passes the middleware, which parses it or does not.
Arrive(r) ==
    /\ pc[r] = "new"
    /\ \/ GoTo(r, "sifting") /\ Enforced /\ route[r] \in Uploads
       \/ GoTo(r, "authorizing") /\ ~(Enforced /\ route[r] \in Uploads)
    /\ UNCHANGED <<route, user, paid, body, done, held>>

\* aauthorize: 401 for nobody, 403 for somebody the predicate rejects.
Authorize(r) ==
    /\ pc[r] = "authorizing"
    /\ \E u \in {"anonymous", "barred", "known"} :
          /\ user' = [user EXCEPT ![r] = u]
          /\ IF u = "anonymous" /\ Required THEN Answer(r, 401)
             ELSE IF u = "barred" THEN Answer(r, 403)
             ELSE GoTo(r, "routing")
    /\ UNCHANGED <<route, paid, body, done, held>>

Limited(r) == Budget > 0 /\ route[r] \in Runs \union {"clip"}

\* The method, then whether there is anything behind the route.
Route(r) ==
    /\ pc[r] = "routing"
    /\ \/ Answer(r, 405)
       \/ Answer(r, 410) /\ route[r] \in Uploads /\ ~Enabled
       \/ /\ route[r] \in Uploads => Enabled
          /\ GoTo(r, IF Limited(r) THEN "paying"
                     ELSE IF route[r] \in Details THEN "serving" ELSE "reading")
    /\ UNCHANGED <<route, user, paid, body, done, held>>

\* throttle counts runs, transcribe_throttle clips.
Purse(r) == {q \in paid : route[q] \in Runs <=> route[r] \in Runs}

(* The limiter is asked, and only a full window of its own stops it.       *)
PayLate(r) ==
    /\ pc[r] = "paying"
    /\ \/ GoTo(r, "reading") /\ Cardinality(Purse(r)) <= Budget /\ paid' = paid \union {r}
       \/ Answer(r, 429) /\ Cardinality(Purse(r)) > Budget /\ UNCHANGED paid
    /\ UNCHANGED <<route, user, body, done, held>>

\* _throttled.
Pay(r) ==
    /\ pc[r] = "paying"
    /\ \/ GoTo(r, "reading") /\ Cardinality(Purse(r)) < Budget /\ paid' = paid \union {r}
       \/ Answer(r, 429) /\ Cardinality(Purse(r)) >= Budget /\ UNCHANGED paid
    /\ UNCHANGED <<route, user, body, done, held>>

\* RunAgentInput; then, of a resumed run, its snapshot and the row it would
\* land on.
ReadRun(r) ==
    /\ pc[r] = "reading" /\ route[r] \in Runs
    /\ \/ Answer(r, 400)
       \/ Answer(r, 404) /\ route[r] = "resume"
       \/ Answer(r, 409) /\ route[r] = "resume"
       \/ GoTo(r, "serving")
    /\ UNCHANGED <<route, user, paid, body, done, held>>

-----------------------------------------------------------------------------
\* Django's multipart parser, in the middleware or in the view.

Parsing(r) == pc[r] \in {"sifting", "reading"} /\ route[r] \in Uploads /\ ~exceeded[r]
Guarded(r) == pc[r] = "reading"

\* Once parsed, a body is not parsed again.
Fresh(r) == Guarded(r) => ~Enforced

Keep(r, f) ==
    /\ files' = [files EXCEPT ![r] = Append(@, f)]
    /\ file' = [file EXCEPT ![r] = None]

OpenFile(r) ==
    /\ Parsing(r) /\ Fresh(r)
    /\ file[r].left = 0 /\ Len(files[r]) < MaxFiles
    /\ \E size \in 0 .. MaxSize, mine \in BOOLEAN, allowed \in BOOLEAN :
          LET f == [size |-> size, left |-> size, mine |-> mine, allowed |-> allowed]
          IN  IF size = 0 THEN Keep(r, f)
              ELSE file' = [file EXCEPT ![r] = f] /\ UNCHANGED files
    /\ UNCHANGED <<pc, route, user, paid, parsed, exceeded, status, done, held>>

(* The count starts again with every file.                                 *)
ReceivePerFile(r) ==
    LET f == [file[r] EXCEPT !.left = @ - 1]
    IN  /\ Parsing(r) /\ file[r].left > 0
        /\ parsed' = [parsed EXCEPT ![r] = @ + 1]
        /\ IF Guarded(r) /\ MaxBytes > 0 /\ f.size - f.left > MaxBytes
           THEN exceeded' = [exceeded EXCEPT ![r] = TRUE] /\ UNCHANGED <<file, files>>
           ELSE /\ IF f.left = 0 THEN Keep(r, f)
                   ELSE file' = [file EXCEPT ![r] = f] /\ UNCHANGED files
                /\ UNCHANGED exceeded
        /\ UNCHANGED <<pc, route, user, paid, status, done, held>>

\* receive_data_chunk: one chunk more, of whichever file, and the parser
\* stops where the sum passes the cap.
Receive(r) ==
    LET f == [file[r] EXCEPT !.left = @ - 1]
    IN  /\ Parsing(r) /\ file[r].left > 0
        /\ parsed' = [parsed EXCEPT ![r] = @ + 1]
        /\ IF Guarded(r) /\ MaxBytes > 0 /\ parsed[r] + 1 > MaxBytes
           THEN exceeded' = [exceeded EXCEPT ![r] = TRUE] /\ UNCHANGED <<file, files>>
           ELSE /\ IF f.left = 0 THEN Keep(r, f)
                   ELSE file' = [file EXCEPT ![r] = f] /\ UNCHANGED files
                /\ UNCHANGED exceeded
        /\ UNCHANGED <<pc, route, user, paid, status, done, held>>

EndBody(r) ==
    /\ pc[r] \in {"sifting", "reading"} /\ route[r] \in Uploads
    /\ exceeded[r] \/ file[r].left = 0
    /\ GoTo(r, IF pc[r] = "sifting" THEN "authorizing" ELSE "judging")
    /\ UNCHANGED <<route, user, paid, body, done, held>>

-----------------------------------------------------------------------------
Mine(r) == SelectSeq(files[r], LAMBDA f : f.mine)

(* The file that did arrive is taken, though the parser was stopped.       *)
JudgeWhatCame(r) ==
    /\ pc[r] = "judging"
    /\ IF Len(Mine(r)) # 1 THEN Answer(r, IF exceeded[r] THEN 413 ELSE 400)
       ELSE IF ~Mine(r)[1].allowed THEN Answer(r, 415)
       ELSE GoTo(r, "serving")
    /\ UNCHANGED <<route, user, paid, body, done, held>>

\* The size, the one file under the field, its declared type.
Judge(r) ==
    /\ pc[r] = "judging"
    /\ IF exceeded[r] THEN Answer(r, 413)
       ELSE IF Len(Mine(r)) # 1 THEN Answer(r, 400)
       ELSE IF ~Mine(r)[1].allowed THEN Answer(r, 415)
       ELSE GoTo(r, "serving")
    /\ UNCHANGED <<route, user, paid, body, done, held>>

Success(r) == IF route[r] = "upload" THEN 201 ELSE 200

(* The store's refusal is taken for an answer like the others.             *)
ServeAnyway(r) ==
    /\ pc[r] = "serving" /\ route[r] \notin Details
    /\ Answer(r, Success(r))
    /\ \/ done' = done \union {[what |-> route[r], by |-> r]}
       \/ user[r] = "anonymous" /\ UNCHANGED done
    /\ UNCHANGED <<route, user, paid, body, held>>

\* The work itself.  A store that keeps nothing for an anonymous caller
\* refuses.
Serve(r) ==
    /\ pc[r] = "serving" /\ route[r] \notin Details
    /\ \/ Answer(r, Success(r)) /\ done' = done \union {[what |-> route[r], by |-> r]}
       \/ /\ user[r] = "anonymous" /\ route[r] = "upload"
          /\ Answer(r, 403) /\ UNCHANGED done
    /\ UNCHANGED <<route, user, paid, body, held>>

\* What is not there, or is somebody else's, is not found.
ServeRead(r) ==
    /\ pc[r] = "serving" /\ route[r] = "read"
    /\ \/ Answer(r, 200) /\ done' = done \union {[what |-> "read", by |-> r]}
       \/ Answer(r, 403) /\ user[r] = "anonymous" /\ UNCHANGED done
       \/ Answer(r, 404) /\ UNCHANGED done
    /\ UNCHANGED <<route, user, paid, body, held>>

\* ThreadsView._rename: a title, a thread to give it to, and then the rename,
\* which finds the thread or, if it went in between, nothing.
Probe(r) ==
    /\ pc[r] = "serving" /\ route[r] = "rename"
    /\ \/ Answer(r, 400)
       \/ Answer(r, 403) /\ user[r] = "anonymous"
       \/ Answer(r, 404) /\ ~held
       \/ GoTo(r, "renaming") /\ held
    /\ UNCHANGED <<route, user, paid, body, done, held>>

Rename(r) ==
    /\ pc[r] = "renaming"
    /\ Answer(r, 200)
    /\ done' = IF held THEN done \union {[what |-> "rename", by |-> r]} ELSE done
    /\ UNCHANGED <<route, user, paid, body, held>>

(* A store that refuses has nothing to delete.                             *)
DeleteQuietly(r) ==
    /\ pc[r] = "serving" /\ route[r] = "delete"
    /\ Answer(r, 204)
    /\ \/ done' = done \union {[what |-> "delete", by |-> r]} /\ held' = FALSE
       \/ user[r] = "anonymous" /\ UNCHANGED <<done, held>>
    /\ UNCHANGED <<route, user, paid, body>>

\* What is not there is as good as deleted.
Delete(r) ==
    /\ pc[r] = "serving" /\ route[r] = "delete"
    /\ \/ /\ Answer(r, 204) /\ held' = FALSE
          /\ done' = done \union {[what |-> "delete", by |-> r]}
       \/ Answer(r, 403) /\ user[r] = "anonymous" /\ UNCHANGED <<done, held>>
    /\ UNCHANGED <<route, user, paid, body>>

Over == (\A r \in Requests : pc[r] = "answered") /\ UNCHANGED vars

Step(r) ==
    \/ Arrive(r) \/ Authorize(r) \/ Route(r) \/ Pay(r)
    \/ ReadRun(r) \/ OpenFile(r) \/ Receive(r) \/ EndBody(r)
    \/ Judge(r) \/ Serve(r) \/ ServeRead(r) \/ Probe(r) \/ Rename(r) \/ Delete(r)

Next ==
    /\ UNCHANGED setup
    /\ Over \/ \E r \in Requests : Step(r)

Spec == Init /\ [][Next]_vars

-----------------------------------------------------------------------------
(* "An oversized upload aborts mid-stream rather than spooling the whole   *)
(* body": the view has no more of a body parsed than the cap and a chunk.  *)
ParsesNoMoreThanTheCap ==
    MaxBytes > 0 => \A r \in Requests : parsed[r] <= MaxBytes + 1

(* "The maximum accepted upload size in bytes, enforced server-side": what *)
(* is stored or transcribed came whole, in a body within the cap.          *)
AcceptedWithinTheCap ==
    MaxBytes > 0 => \A r \in Requests :
        route[r] \in Uploads /\ status[r] \in {200, 201} =>
            parsed[r] <= MaxBytes /\ file[r] = None

(* "A throttled request costs nothing more", and neither does one without  *)
(* a user, a method or a backend: none has its body read by the view, and  *)
(* only one the limiter has counted takes from the budget.                 *)
RefusalCostsNothing ==
    \A r \in Requests :
        status[r] \in {401, 405, 410, 429} \/ user[r] = "barred" =>
            /\ r \notin paid
            /\ ~Enforced => parsed[r] = 0

(* The provider is called for nobody the endpoint turns away, and never    *)
(* more often than a limiter admits: a run or a clip that started was      *)
(* counted, however the requests interleave.                               *)
WorkIsPaidFor ==
    \A d \in done :
        /\ user[d.by] \in IF Required THEN {"known"} ELSE {"known", "anonymous"}
        /\ Limited(d.by) => d.by \in paid /\ Cardinality(Purse(d.by)) <= Budget

(* An answer tells what happened: a success did the one thing asked for,   *)
(* and whatever else is answered did nothing; only a rename may find its   *)
(* thread gone since it looked.                                            *)
AnswerTellsTheEffect ==
    \A r \in Requests :
        \/ status[r] \in {200, 201, 204} <=> [what |-> route[r], by |-> r] \in done
        \/ /\ route[r] = "rename" /\ status[r] = 200
           /\ \E d \in done : d.what = "delete"
=============================================================================
