# django-ag-ui, modelled

`django_ag_ui` serves a pydantic-ai agent over the AG-UI protocol from Django:
one POST starts a run and streams its events as SSE, and a handful of JSON
views read and change what runs leave behind. This directory models the parts
of it whose correctness depends on order: tasks racing inside one stream, a
client that leaves at any moment, requests that meet in a store, a
conversation rebuilt from several records of it; and what goes with a run
beside its messages, which must arrive whole or be refused aloud.

`PROJECT.json` lists the components, the runs, the mutated definitions every
property is tested against, the source lines behind every definition, the
hazards and the theorems. Paths below are relative to `src/django_ag_ui/`.

## The system

One run is a stack of async generators, composed by `AgentSession.stream`
(innermost last):

    guarded_stream > heartbeat_stream |pump 1| encode_stream > _persist_on_error
      > RunTranscript.observe > stamp_approval_prompts > inject_subagent_events
      |pump 2| inject_invalidation_events > inject_compaction_events
      > drop_reasoning_events > transform_stream > native events (the provider)

A generator runs only when its consumer asks for the next item. The two pumps
are the exceptions: tasks that drive the part of the stack to their right and
hand each item over through a queue of one place, going on only after the
consumer has come back for more. Tools, delegations to subagents and
post-commit callbacks run beside the stack and reach it through context-local
sinks. When a run leaves (by completing, by an error, by a disconnect) it
stores its conversation and writes an audit record; other requests read and
continue what was stored.

### Inventory

| component | state | operations | interacts through | hard | correct when |
|---|---|---|---|---|---|
| `pump_in_lockstep`, `discard_tasks` (`agent/utils.py`) | a queue, its unfinished count, the upstream generator | pull, put, join, end, fail, unwind | queue; task cancellation | cancelled at any await | upstream is never ahead of the client; a discarded pump leaves upstream closed |
| `inject_subagent_events` | two queues, two `get()` tasks, `ended` | drain, wait, show, take, discard | the sink, its pump | ties, tasks that hold results, leaving at every yield | nothing lost, repeated or shown late; ends settled |
| `SubAgentObserver`, `subagent_lifecycle`, `subagent_progress` | the sink and the delegation in hand | announce start, steps, close | `put_nowait` on the sink | parallel tool calls | a start follows its call, all of it precedes the next event |
| `heartbeat_stream` | one `get()` task, a timer | beat, take, discard | its pump | the timer racing a chunk | a beat costs no chunk, a silence is beaten |
| `publish_invalidation`, `inject_invalidation_events` | a sink | append; copy, clear, yield | list shared with worker threads | append from a thread | each published once, at once |
| `CompactionObserver`, `inject_compaction_events` | a sink | record; drain | same context | order against the turn | directly above its turn |
| `drop_reasoning_events`, `stamp_approval_prompts` | names of calls seen | drop; stamp | stream | names known only from earlier events | other events untouched; the right words |
| `guarded_stream` | what it must close | close in order, finalize | `aclose()`, a shielded task | closing a running generator | the provider stops; the run is recorded |
| `AgentSession` | a transcript, memoised prior messages | complete, fail, cancel | stores, audit | leaving while a save is under way | every exit recorded and stored |
| `RunTranscript` | drafts, pending calls, results, activities | `add`, `messages`, `with_streamed_ids` | observes the stream | stream and dump differ | stored as streamed; ids on what they named |
| `continued_history`, `lend_stored_ids` | none | cut, lend | a snapshot, a post, a row | repeated texts, edits | the row reads as the run; ids kept |
| `DjangoAGUIView` | spec names, the built agent | gates, resume, tool names | throttle, stores | the order of gates; concurrent requests | no work unpaid, no thread overwritten, one owner per name |
| `ThreadsView` | none | list, detail, rename, delete | conversation store, activity source | logs with repeats, lost anchors | reads as it was shown |
| `RunsView` | none | list | step store | which prompt is the run's own | newest first, named by its question |
| `AttachmentsView`, `TranscribeView`, `CappedUploadHandler` | bytes counted | gates, capped parse, store or call | middleware, throttle | a body parsed before the cap | nothing over the cap is accepted |
| `FixedWindowThrottle` | counters in a shared cache | `add`, `incr`, re-seed | cache | workers interleaving; evictions | the limit holds, refusals are fair |
| `ScopedStepStore` | a prefix | every method of the store | one ledger for several mounts | names that begin alike | a mount sees its own scope |
| `ToolsView`, `AGUIServer` | tool names | catalogue, mount | shared sources | duplicates across five sources, a registry that grows | the catalogue agrees with the run; nothing unguarded is offered |
| `OutcomeAGUIAdapter`, `stamp_outcome` | none | stamp a result streamed and dumped | stream, dump | results out of order | a stored thread says of a call what the stream said |
| `strip_binary_content` | none | filter | stored messages | text beside bytes | no bytes, nothing else lost |
| `chart_activity`, `chart_points_delta`, `ChartSpec`, `chart_limits`, `suggestions_activity` | none; the client holds the chart | draw, move, offer | events; a client that refuses in silence | stale shapes, limits, loss, reloads | what was accepted is drawn, and drawn again |
| `build_untrusted_context`, `attachment_context_items`, `render_untrusted_context` and their channel | none | collect, fence, cut | instructions or a tool | the budget's edge, two carriers, a forged fence | a fenced prefix, told if cut, by one channel |
| skills; configuration, system checks; OpenAI backend | fixed at start | read | - | - | not modelled: no state, or one outbound call |

## Modules

| module | models | variables and actions against the code |
|---|---|---|
| `LockstepPump` | `agent/utils.py` | `pump` is the await the task is suspended at, `queue`/`unfinished` the `asyncio.Queue`, `ready` the loop's FIFO for the tasks whose order matters; `Produce`, `Put`, `Join`, `Unwind` |
| `SubagentStage` | `inject_subagent_events` with `SubAgentObserver` | `pgetter`/`pheld` and `getter`/`held` are the two `get()` tasks and their results; `LoopTop` is the drain, the end check and the wait; `ShowProgress`, `TakeItem`, `TakeEnd`, `TakeError`, the resumptions from each yield, `Abandon`, `Settle`; `Start`, `Step`, `Close` are a delegation's announcements |
| `AnnouncementChannel` | what that stage promises | no tasks: `Announce`, `ShowNext`, `HandOver`, `Finish` |
| `SubagentStageProofs`, `TranscriptProofs`, `RunEndProofs`, `NoticesProofs`, `GatesProofs`, `ReadsProofs`, `StoresProofs` | theorems | each extends the `MC` module whose properties it proves, with that module's constants left open |
| `Selections` | comprehensions with an `if`, dicts filled in order | `Sift`, `Firsts`, `Times`: operators only |
| `SequenceLemmas` | lemmas | what those three, flattening and concatenation do with a sequence that grows |
| `HeartbeatStage` | `heartbeat_stream` | as above with one `get()` task and a timer (`Tick`, `TimerExpires`) |
| `Teardown` | `guarded_stream`'s `except` clause over the whole stack | one variable per generator and pump; a disconnect reaches the guard at its own yield or by cancelling its await, which may be that of a save (`NativeResult`, `ErrorSaves`); discards settle inside out |
| `RunExits` | the three exits in `AgentSession` and the finalizer task | `store` is one of five kinds; `row` says who wrote it and how much |
| `Notices` | both sinks, the stages that empty them, reasoning, prompts | `at` is the one generator running; `_drain` is `Copy` then `Clear`; a tool's progress is `call`; `Words` is the fold of the registry's `confirm=` under the project's own words |
| `LiveActivities` | charts, deltas, suggestions | `Draw`, `Move`, `MoveDeclared`, `Suggest` are the four calls a project makes, each with its refusals as guards; `pending` is what is under way; the client holds `content` and shows `drawn` |
| `ClientContext` | the client's context, its manifest, the fence, the channel | one step per item of the walk (`SkipBlank`, `Take`, `BreakOff`); texts are sequences of tokens; `Manifest` takes the first mention of every ref |
| `Endpoints` | gates of the agent, attachment, transcription, thread and reading views; `CappedUploadHandler` | `pc` walks authorise, method, backend, limiter, parse, judge, serve; a rename is `Probe`, then `Rename` |
| `FixedWindow` | `FixedWindowThrottle` | `Add`, `Increment`, `Reseed` as separate cache calls, clock and evictions between |
| `ThreadStore` | resume, fork, the 409 gate, whole-row saves, delete | a conversation is the sequence of its turns; a page appends its turn to what it shows, also where the run goes on from a snapshot; a run that has saved is `ending` until its stream ends, and one left there is saved again |
| `ScopedSteps` | `ScopedStepStore` | names are symbol sequences, because the prefix is the point |
| `RunIndex` | `RunsView` | snapshots as messages of parts; `List`, one row per await, `Respond` |
| `RestoredThread` | `_with_activities` | what the client shows against log and row |
| `ToolNames` | name precedence in the view, the server's checks, the catalogue | five sources, construction, first run, later runs; the two registries and the server grow between any of them |
| `Transcript` | `RunTranscript`, `OutcomeAGUIAdapter`, `strip_binary_content` | the run is written part by part as stream and as dump; `add`, `messages`, `with_streamed_ids` and what is done to a stored message as operators |
| `ResumedThread` | `continued_history`, `lend_stored_ids`, `_prior_messages` | each turn posts, edits or resumes; its run completes, or fails with a snapshot of its last boundary or with none; the row is rebuilt |

Composition: `SubagentStage` and `HeartbeatStage` extend `LockstepPump`.
`Teardown` takes both stages and both pumps at the grain a disconnect sees
them. `RunExits` and `Teardown` meet in `guarded_stream`: the one says that a
finalizer starts only after the closes, the other what it does. `Endpoints`
takes a limiter as one atomic step, and `FixedWindow` is what stands behind
that step. `ResumedThread` takes the id pairing of a completed run from
`Transcript`.

`ToolNames` takes from `ClientContext` whether a run asks for the context tool,
which is any of the two. `RestoredThread` puts back what `LiveActivities` sends.

The `MC` modules give the constants and, where several components are small,
put them side by side: a variable chooses which one a behaviour explores and
the rest stay in their initial states. They share no variables, so this
checks each of them exactly as it would be alone, in one start of TLC. A
property of such a module is the conjunction of the component's named parts.

## Runs

| run | question | properties |
|---|---|---|
| `subagent_sequential` | does the racing stage implement the channel, and is it live? | `ImplementsChannel`, `AnnouncedIsShown`, `DiscardSettles`, `TypeOK` |
| `subagent_parallel` | what holds when delegations announce at any time? | `Lockstep`, `ProgressInPlace`, `NothingLeftRunning`, `EventsInOrder` |
| `run_end` | is every exit recorded, does a disconnect unwind, what does a beat cost? | `ExitRecorded`, `FinalizerWritesAlone`, `ProviderClosedFirst`, `DisconnectSettles`, `TeardownEnds`; `ChunksInLockstep`, `ChunkDelivered`, `NeverSilentForEver` |
| `notices` | is everything told once, in its place? is what is pushed drawn, what the client says fenced? | `NoInvalidationLost`, `ToldAtOnce`, `NoticesInPlace`, `AsksInWords`; `DrawsWhatIsPushed`; `ContextIsFenced` |
| `gates` | what does a refused request cost? does the limit hold? | `RefusedBeforeWork`, `AcceptedWithinTheCap`, `WorkIsPaidFor`, `LimitHolds`, `RefusalIsFair` |
| `reads` | do the reading views tell the truth? | `RowsAreNamed`, `NewestFirst`, `ThreadIsRestored`, `ToolsAreOwned` |
| `stores` | does a thread keep its turns, a scope its runs? | `RowsAreKept`, `TurnsAreKept`, `ScopesAreApart` |
| `messages` | is a run stored as it was shown? | `CutShortIsStored`, `LendsWhatItHolds`, `PlainRunsKeepTheirIds`, `StoredAsStreamed`, `RowReadsAsTheRun`, `IdsAreKept` |
| `notices_threaded` | the same with callbacks in worker threads | `NoInvalidationLost` is violated |
| `endpoints_enforced` | the cap behind the CSRF middleware | `AcceptedWithinTheCap` is violated |
| `thread_store_late` | a finalizer slower than the next turn | `ThreadMatchesClient` is violated |
| `thread_store_overlap` | two pages in one thread | `BranchLandsOnNothing` is violated |

### Bounds, and why they are enough

- *Stages.* Three items (two under fairness), two delegations of up to three
  announcements. One item is on its way at a time, so the second already
  meets everything the first left; two announcements are what it takes for
  one to be held by a task while another is queued, a third for a close to
  follow both. The sequential run has no symmetry, since it checks liveness.
- *Run end.* Three recorded events; five kinds of store. Of the heartbeat three
  chunks and an interval of three units: a chunk may land before, at and after
  expiry, and after a first beat. `Teardown` has no
  constant: it covers every await and every yield at which a disconnect can
  find the stack, with and without a heartbeat: the stage's wait and the
  provider's pull, the pumps' `join()`, `_on_complete`'s save (418) in pump 2
  with the provider's generator suspended under `transform_stream`, and
  `_persist_on_error`'s (289) under the encoder with the stage suspended at
  `RUN_ERROR`.
- *Notices.* Two calls in one turn or in two, two turns, so that a notice can
  be of the turn before, of this one or after the last event. Two calls to
  approve, between them every source a question has: the call's own words, the
  registry's, a phrase, a blank phrase, none.
- *Activities.* Limits of two labels, three points, two prompts of two
  characters, so that a spec can be inside one limit and outside another, and
  each limit is met and passed by one; two events under way, enough for a
  snapshot to be lost from under the delta that was sent after it.
- *Context.* Up to three entries, blank, short and long, under budgets of
  nothing, one, and three to five tokens: a walk can end before, on and behind
  its budget, with nothing, a blank or more to follow. Two messages of either
  role whose two carriers are each missing, empty, plain or full of repeats.
- *Gates.* Two requests on a budget of one; up to three files of four chunks
  against caps of one and three: a file over the cap, one at it, and files
  that pass it together. Four calls on a limit of two in windows of three
  seconds cross one boundary.
- *Reads.* Three runs with a limit of two; histories of five messages. A
  thread of three messages, two activities and three pushes: a chart that is
  drawn twice around another one. Three names over five sources, two of them
  those the package gives its own tools, and two registrations after
  construction (`MaxLate`), so that one may precede the first run and the
  other follow it, and a name may come late to two sources.
- *Stores.* Two threads and four runs: a run, its continuation, its fork and
  the fork's continuation. The scopes `<<"a">>` and `<<"a", "b">>` are the shortest pair
  of which one begins the other, and one run id reads like the rest of it.
- *Messages.* Five parts of two texts, six of one text (a split and a join
  that cancel out need six), four with activities or parentless calls, two
  with calls that end in each of five ways and hand over files (results of
  different outcomes that finish in another order need two calls). Three runs
  of a thread (`MaxTurns` counts the next one's turn, so it is 4): a run, one
  that edits or resumes it or fails beside it, and one that resumes either.

`CHECK_DEADLOCK FALSE` stands in `Reads.cfg` only: a mount that is refused
for a name collision never serves, and a thread read after a cut has no
further step. Everywhere else finishing is an explicit stuttering action, so a
deadlock is a stuck program.

### Fairness

Weak fairness of what the event loop owes: a task that is ready gets its
turn, a wait whose timer expired wakes, a cancelled task unwinds, a client
that stays goes on reading (`Resume`). Nothing is asked of the provider, of a
tool, of a delegation, or of a store that hangs: they may stay silent for
ever, and a client may leave at any await. So `AnnouncedIsShown` and
`NeverSilentForEver` hold over a silent upstream, which is what the stages
are for. `DisconnectSettles` uses that `wait_for` has a timeout (the request
is let go whatever the store does) and that a store other than the hanging
one answers (the run gets recorded).

### History variables

Some variables record what the code does not keep, for a property to refer to,
and no action reads them: `refused` in `Teardown` (closes that met a running
generator), `apart` in `ThreadStore` (the run's page showed something else than
the row it is saved onto or the snapshot it continues), `late` in `ToolNames`
(which also bounds the growth), `whole` and `diverged` in `ResumedThread` (the
row's last run left all of itself in the ledger; some run went on from another
conversation than its page's) and each message's `of`, the id the client first
saw it under.

## What is proved

TLC checks the properties above on small instances; the theorems below state
them of the same specifications (`MCSpec`, or `Spec`) for every value of the
constants: any number of items, chunks, turns, calls, threads, runs, requests,
scopes, names, any limits, caps and times, the bounds of the runs among them.
What the modules themselves fix (the kinds of store, the routes, the five
sources of tools) are ranges the code has. In an `MC` module with several
parts a theorem is about the part that moves, and the lemma that proves its
step (`LimiterNext`, `GatesNext`, `ThreadNext`, `LedgerNext`, ...) is stated
of that part's own next-state relation, without the others.

| theorem | says | hypothesis |
|---|---|---|
| `SubagentStageProofs` | | |
| `TypeCorrect` | `Spec => []TypeOK` | |
| `LockstepHolds` | upstream is asked only once the client has every earlier item and is back for more | |
| `EventsInOrderHolds` | whatever hands an item over hands over the next one, and nothing else counts one | |
| `NothingLeftRunningHolds` | a closed stage leaves no pump and no open upstream | |
| `ProgressIsAlwaysInPlace` | no announcement is overtaken by a later item, ahead of its call, or lost at the end | |
| `StageImplementsTheChannel` | every step of the stage is one of `AnnouncementChannel` or a stutter | `~Parallel` |
| `RunEndProofs` | | |
| `ChunksAreAlwaysInLockstep` | no beat costs, repeats or reorders a chunk, or lets the pump run ahead | |
| `ExitsAreAlwaysRecorded` | no run that is over goes unrecorded, none unstored that its store would take | |
| `TheFinalizerWritesAlone` | once a run is being finalized nothing else writes its row or record | |
| `ProviderIsAlwaysClosedFirst` | wherever a disconnect finds the stack, its two saves included, the provider is closed and no pump is left before the run is finalized; no close meets a running generator | |
| `NoticesProofs` | | |
| `InvalidationsAreNeverLost` | each invalidation heard of is in exactly one place | `~Threaded` |
| `WritesAreToldAtOnce` | the client hears of a write ahead of all the run produced after it | `~Threaded` |
| `ApprovalsAskInWords` | an interrupt asks in the words of its call, its phrase or the question | |
| `NoticesStandInPlace` | a compaction is shown above its turn's thinking and answer; the provider's events come whole and in order | |
| `WhatIsPushedIsDrawn` | once all has arrived, or after a reload, the client draws the numbers; a snapshot under way mends a spoilt chart | |
| `ContextIsAlwaysFenced` | the block is the first `max_chars` of what was said, tells of a cut, closes only at its end, goes by one channel; the manifest is the users', once each, in order | |
| `TranscriptProofs` | | |
| `CutShortIsAlwaysStored` | what is stored of a run cut short is what was streamed: texts, calls, results, once each, in order | |
| `LentIdsHold` | a lent id names on the client what the dumped message says, and one message | |
| `OutcomesAreStoredAsStreamed` | a stored result says of its call what the stream said; no bytes are stored | |
| `GatesProofs` | | |
| `LimitAlwaysHolds` | no window of a sound cache lets more than `max_runs` through | |
| `RefusalIsAlwaysFair` | nobody is refused in a window with room; who waits as told is in the next | |
| `WorkIsAlwaysPaidFor` | work is done for nobody turned away, and was counted within the budget | |
| `RefusalsCostNothing` | a refusal takes nothing and reads nothing; answers tell what was done | |
| `UploadsAreCapped` | what is accepted came whole, in a body within the cap | `CapIsTheViews` |
| `RefusedAheadOfWork` | and no body is parsed further than the cap and a chunk | `CapIsTheViews` |
| `ReadsProofs` | | |
| `ToolNamesAreOwned` | each name known from the start is the first source's, and the catalogue agrees; of late ones only those named below are offered twice, and no ungated spec is offered | |
| `ThreadsReadBackAsShown` | a reload has every activity where the client was shown it, drawn as it was last | |
| `RowsAreAlwaysNamed` | a row of the index is named by its own run's question | |
| `AnswersAreNewestFirst` | an answer is the newest runs, newest first, none between left out | |
| `StoresProofs` | | |
| `RowsAreAlwaysKept` | a thread at rest has the row its client shows, or, after a resume on a page that showed something else, what that run went on from | `OneAtATime` |
| `TurnsAreAlwaysKept` | turns leave a thread with it, by a resume within it or from a page that never loaded it; a branch lands on nothing stored | `OneAtATime` |
| `ScopesAreAlwaysApart` | a mount finds and lists its own scope's runs and every parent of them | |

*The hypotheses* are the settings of the passing runs, and what each excludes
is a setting the code allows and in which the property is false. Four runs show
it: callbacks in worker threads (`notices_threaded`), a cap behind a middleware
that parses first (`endpoints_enforced`), a finalizer slower than the next turn
or two pages in one thread (`thread_store_late`, `thread_store_overlap`;
`OneAtATime` excludes both). `Parallel`, tools that run beside one another,
costs the order among announcements, as the first of the statements below
tells, and nothing else: `ProgressIsAlwaysInPlace` needs no hypothesis.

*The assumptions* are on constants only, are named in the modules that declare
them, and TLC evaluates each. Besides sizes that are numbers they are: requests,
delegations and the calls of a limiter are finite sets (there is no other kind,
and the cardinalities in the properties need it); intervals and windows are
positive; in `Steps!ScopesAssumption` names are sequences over `Symbols` and
no prefix begins another's (see below); in `Thread!RestoredThreadAssumption` no
activity has the id of a message and none is called `None`; in
`TranscriptAssumption` no call has the id of a message (the one is the
provider's, the other a uuid of the adapter's; a call without a parent is filed under
its own id among those), calls end in the five ways pydantic-ai knows, and no
activity's content is what stands for "changed by a delta".

### The inductive invariants

*The subagent stage.* Neither lockstep nor order is inductive: that `sent =
produced` when the pump pulls says nothing of how it comes to pull.
`LockstepInv` follows the one item that is under way. It is in the pump's
hand (`putting`), in the queue or with the `get()` task (`Passing`), or at the
client with the stage still at its yield (`AtClient`); otherwise the client
has everything (`AtRest`). `unfinished` is one exactly from the put to the
return from the yield, so `join()` returns only in `AtRest`, where pulling is
right. The stage delivers only an item that is `Undelivered`, whose number is
`sent + 1`: order. `EventsInOrder` speaks of the step that hands over
(`HandsOver`, the one into the yield of an event), so that an item handed over
twice breaks it although no number changes. `Live` separates the stage before its `finally` from after
it; after it the pump is `cancelled` or `done`, and `done` means the upstream
generator has run its own `finally`: teardown. Each lemma covers one action,
and one of them (`StageMoves`) what every turn of the stage has in common.

*The channel.* `LockstepInv` says nothing of announcements, which race the
items through a second `get()` task. `RaceInv` gives what is in the loop's
ready queue for every state of the two tasks (`ReadyInv`) and what they hold
(`HandsInv`). The case that matters is `ready = <<"stage", Progress>>`: the
stage is about to take an item while the progress task, woken after it, still
waits for its turn. `OvertakingInv` says that then all that is queued was
announced after the item was produced; that there is nothing queued behind an
end marker; and that with one tool at a time this state is never reached.
`EndInv` adds that upstream's end finds no delegation open. From these `Effects`
sorts every step by what it does to an announcement (`Announcing`, `Getting`,
`Draining`, `Showing`, `Handing`, `Leaving`, or nothing), and the rest of the
argument knows those seven and no tasks: `PlacedInv`, that what was announced
is shown or pending, and pending only if it is younger than what the client
has; and `OrderInv`, that shown, in hand and queued, one after the other, are
what was announced. The refinement maps `Announcing` to `Announce`, `Draining`
and `Showing` to `ShowNext`, `Handing` to `HandOver`, `Leaving` to `Finish`, and
the others to a stutter.

*The heartbeat.* The same item under way (`OnItsWay`), with one task fewer and
a timer. New is that a beat goes out in the middle of the wait and leaves the
`get()` task standing: `BeatsAside` is the lemma for the timer, the beat and
the return from it at once.

*The end of a run.* What has been written by a run that is over depends on who
was to write it, so `ExitsInv` says for every place the stream, the guard and
the finalizer can be at what has been written by then (`Recorded`, `Stored`),
and `ExitTaken` that a finalizer is there exactly when a disconnect closed the
stream. `TeardownInv` is about the nesting of five generators and two pumps:
for every place a driver is at it gives, outermost first, where what it drives
may be: under a save the encoder is inside the stack and the stage at its
yield, or pump 2 inside `transform_stream` and the provider's generator at
its result. That no close is refused follows, since the driver of each is done.

*Notices.* `CountInv` adds up, for each write, the times its invalidation is in
the sink, in the outer stage and at the client. The copy and the clear of
`_drain` pass through a state in which it is in two places, and `CopyIsWhole`
says that the copy is then still the sink; that is what a worker thread breaks.
`TellInv` adds order: every event is either held or said (`SaidSoFar`), said
once and before it is delivered (`SaidFirst`), an invalidation stands before
all that was said after it (`InOrder`), and behind the end of the stream
nothing is left in either sink (`Drained`). `PlacesInv` needs no count: it is
about `Pipeline`, the client's events, the two stages' and the sink of
compactions as one sequence. A stage that hands over moves the border between
two of its parts and nothing else, so the only steps that change it append, and
what is above a compaction stays above it. `NoticesProofs` has this with worker
threads too, since they reach the other sink only. `WordsInv` relates the names that
the prompt stage has learnt to what is still on its way to it: when the run
finishes, every call that waits for approval is known by name.

*The transcript.* `Inv` relates what is kept to what was streamed, event by event.
Of the transcript (`Good`) it says that every text the client has is in one
draft, whole, and every draft's text is the client's; that the calls in drafts are
those that ended, counted; that drafts and results stand in the order in which
calls ended and results came, which `Ordered` states as long as no call
without a parent used an id again; and the same, without order, of reasoning and of
activities, where `Settled` says what a snapshot that does not replace and a delta leave.
None of that is inductive alone: a call that ends is filed under the parent its start
named, and lands in its place only if that draft is still the last. `Fits` has
this from the run: while a response streams, its text's draft is the last one
(`TextIsLast`), the pending call names that draft (`CallPends`), and what the
run asked is waiting or answered (`AllAsked`). `Goes` is what the steps that
start and end no call have in common, so each needs one lemma.
That lent ids hold needs no more: an id is lent by position only where count and content
agree, and the content of what is kept is by `Inv` that of the wire. For the
outcomes, `Tells` says that every result streamed is told by a dumped message, or by an
answer that the run has and will dump with its round (`AnswersTell`), and that there
is no dumped result or answer that was not streamed.

*Activities.* `PushInv` looks ahead: `Replay`, the client with all that is under
way applied to it, shows the numbers the project pushed. An event that arrives
moves from the one side of the fold to the other and leaves its value alone; one
that is lost leaves a client that takes no delta before the next snapshot.

*The context.* `ContextInv` says at each item of the walk what has been passed on:
the first `max_chars` of the text of the items before it, how much of the budget
is left, and whether something was cut. `FirstsOrdered` and `PartsAhead` give the
manifest's order, whatever repeats in either carrier.

*The limiter.* That a window lets no more than `max_runs` through is a fact
about callers between their cache calls. `LimiterInv` bounds the calls let
through by the counter while the cache is sound, keeps a counter present as
long as its window lasts, and for fairness says that a counter runs ahead of
the calls let through only where the window is full.

*The gates.* `Passed` says for each place of a request what it has got through;
`ParsedBody` that what a parser has read is the sum of the files it kept and of
the one in its hand; `Done` that work was done exactly where a success was
answered; `WithinBudget` counts the purse that requests share. A step touches
one request, and `Elsewhere` is the lemma that the others' parts stand.

*Reading.* `ToolsInv` holds what the constructor saw to (`Constructed`) against
registries that grow afterwards: what the agent has was there at construction
or registered since (`BuiltOf`), and what a run gets besides leaves out nothing
but what an earlier source has (`GivenRun`). `IndexInv` says that what is listed is a stretch
of the newest runs of the moment of the request, and that the rows answered so
far are named after it, position by position.
`ThreadGood` is about the sequence a reload gives, `RestoredIn`, and what the three
things that can happen to its log and row do to it: a message stored is appended; a push
of an activity not seen before is appended, also behind messages that are not
stored yet; a push of one seen before redraws it where it stands.

*Stores.* `ThreadInv` describes the runs in flight: alone in their thread, each
shows what it will save or is `apart` (`Shown`), and finds the row as it was
when it entered (`Unsaved`) or has saved it (`Kept`). What a thread holds and
what it shows end in a run that has begun (`Threaded`), and such a run goes on
from what it went on from, whatever other runs do (`Lasting`). `LedgerInv` keeps, beside each row, whose
it is and by which id (`Written`), and the rows it needs (`Rooted`).
`PrefixesMeet` is the lemma the scopes rest on: two prefixes of one key begin
one another, so by the assumption a key tells its scope.

## What is only model-checked

- Liveness (`AnnouncedIsShown`, `DiscardSettles`, `DisconnectSettles`,
  `TeardownEnds`, `ChunkDelivered`, `NeverSilentForEver`): fairness and
  `ENABLED` are out of the prover's reach.
- `PlainRunsKeepTheirIds` of `Transcript`, and `RowReadsAsTheRun` and `IdsAreKept`
  of `ResumedThread`. The first is the converse of `LentIdsHold`, that ids which can
  be lent are: its invariant would have to pair the two records position by
  position while a response is half dumped. The other two compare rows over a history of
  turns, of which any may be resumed. Neither has been attempted.

What a definition computes over a sequence can be proved here although the
library's induction theorems cannot be used: `SetInduction` and
`AppendInduction` in `SequenceLemmas` take the set of the cases in which a fact
holds in place of the fact. What that needs is that the definition is a function or a
fold (`Sift`, `Firsts`, `FlattenSeq`) and not an operator that takes an operator.

## Statements the code does not keep

Four of them are runs, with the lines quoted in `PROJECT.json` under
`findings`: an invalidation published from a worker thread between the two
halves of `_drain`; an upload cap inserted after the middleware has parsed; a
late finalizer over a newer turn; a branch over a conversation saved since it
was admitted. These were met on the way and are told in
words; where a property comes near one, it is stated to say what does hold.

- `agent/inject_subagent_events.py:64`. The stage is at the yield of an event
  and a delegation beside the suspended upstream announces its last step and
  its close. The pending `progress.get()` task takes the step; the close stays
  queued. Resumed, the stage drains the queue first, so `SUBAGENT_FINISHED`
  reaches the client ahead of the last step, which the task still holds;
  against `agent/subagent_progress.py:48-50`.
- `agent/heartbeat_stream.py:83`. The timer expires, and before the stage has
  its turn the pump puts a chunk: `done` is empty and a beat goes out with a
  chunk queued, against lines 63-64. The chunk follows.
- `agent/guarded_stream.py:75`. A cancellation that finds pump 2 in `join()`
  leaves the provider's generator suspended, since the pump was not inside it
  and its close reaches only the stage below; the guard's own `aclose()` is
  what stops the provider, against "no-op" at 42-43.
- `agent/agent_session.py:527` with `agent/run_transcript.py:79`. A client
  that leaves at the yield of `RUN_FINISHED`: the completed row is replaced by
  the finalizer's, and the run is audited as cancelled.
- `agent/agent_session.py:527`. A save that raises in the finalizer keeps the
  audit after it from being written, against `agent/guarded_stream.py:106-111`
  as to the record.
- `agent/publish_invalidation.py:61`. A worker thread that outlives a
  disconnected run still finds the sink: `True`, though nobody listens (58-59).
- `agent/fixed_window_throttle.py:92`. `add`, eviction, two callers re-seed:
  the second `add` is refused and not looked at, so a call goes uncounted,
  against "the first call in it" (86-87). `LimitHolds` is for a cache that
  keeps its counters and a `consume` that returns within its window.
- `agent/runs_view.py:212`. A wordless prompt that pydantic-ai merges with a
  tool round's returns is passed over, and the run is named after an older
  question, against 183-185. `NamedByItsOwnQuestion` leaves such runs out
  (`joined`).
- `persistence/threads_view.py:164`. A delete between `exists()` and
  `rename()`: 200 for a rename of nothing, against 162-163.
  `AnswerTellsTheEffect` excepts exactly that.
- `agent/agui_view.py:342`. "Every name here is fixed at construction", and
  nothing keeps it so: the agent is built once (293), of the `@tool` registry
  and the specs there are at the first run, while every run reads the registry
  and the server again. A `@tool` registered behind the first run is listed by
  `tools/` and reserved against the MCP bridge, and the agent does not offer
  it, so an MCP tool of that name is gone as well, against
  `agent/tools_view.py:48-49`; an MCP tool registered then under the name of
  the agent's spec tool is offered beside it, which stops the run. A
  `SpecRegistry` grown ahead of the first run puts on the agent what the
  catalogue does not list; grown by a spec without permissions, the endpoint
  answers every run with an error, which is what
  `agent/agui_server.py:539-542` moves to construction; grown by one called
  `read_attachment`, that name is offered twice. So `OwnedByTheFirst` and
  `CatalogueAgrees` are about the names no source was given late (`Fixed`), and
  `GrowthIsHarmless` says which late ones can be offered twice.
- `agent/agent_session.py:289` and `418`. A save that raises while the client
  stays: the adapter makes `RUN_ERROR` of the one and asks the provider's
  generator for nothing more; the other ends the encoder above the stage's
  yield. `guarded_stream` acts on a disconnect only, so that the provider's
  generator, or the stage and what its pump holds, is left suspended to the
  event loop's finalizer of async generators, which is not modelled
  (`SaveRaised`); the guard's closes (`agent/guarded_stream.py:42-43`) are for
  the disconnects, at these awaits too.
- `agent/lend_stored_ids.py:43`. What a failed run streamed behind its last
  snapshot is in the row and on the page, and not in the history a resume
  continues. If the resumed answer repeats those words and a later run on the
  page fails, the row has both, and the next resume lends the lost one's id to
  the resumed answer: "a lookup would hand a later "ok" the id of an earlier
  one" is what the walk is against. The words are the same
  (`IdKeepsItsWords`); `KeepsShownIds` is for threads in which no run went on
  from another conversation than its page's (`diverged`).
- `agent/agent_session.py:493`. A page that resumes without loading the thread
  again posts its new turn and goes on showing what it has, as
  `docs/step-persistence.md:142-144` has it; where that is not what the snapshot
  holds, the row is the snapshot and the turn, and page and row differ from
  then on, against "matching the client". `ThreadMatchesClient` lets exactly
  those runs be (`apart`), and asks of their row that it is what they went on
  from; `NoTurnLost` excepts, beside a resume within its thread, a page that
  never loaded what is stored.
- `agent/outcome_agui_adapter.py:213`. A run that uses a call id twice: the
  dump gives both results the later outcome, where the stream gave each its
  own. Line 106 says that ids are unique within a thread;
  `OutcomesAsStreamed` leaves the case out.
- `agent/build_client_context_toolset.py:7`. The name is public "so a caller can
  reserve" it, and no code of the package does: a project's own
  `get_client_context` beside `delivery="tool"` stops the run. `GrowthIsHarmless`
  excepts that name.
- `agent/run_transcript.py:374`. A text a tool spoke that equals a split
  answer passes count and content, and the answer gets the tool text's id,
  against 199. The words under the id are the same, which `LendsWhatItHolds`
  asks for.
- `agent/run_transcript.py:124`. A call without a parent that uses a call id
  again lands in the first one's message, against 122-123. `CallsLandInOrder`
  leaves that case out.

## Assumptions and what is left out

- `ScopesAssumption`: no scope's prefix begins another's, nor a run id from
  before the scoping. Scope names without a colon, as the docs choose them,
  keep to it; the code does not ask for it.
- A multipart body is parsed by the view's handlers or by the middleware;
  that an ASGI server spools the raw body ahead of both is not in the model.
- Interrupts of calls that earlier runs made, and interrupts without a call
  id, are not in `Notices`.
- `ResumedThread` dumps no activities, so the prefix pairing in
  `lend_stored_ids` (119-141) is not exercised, nor is the guard against ids
  that are already carried or reserved, which no fresh id meets.
  A run that fails or is cancelled has streamed a text, or a call, its result
  and perhaps a text, and leaves a snapshot of any prefix with no call pending
  that holds an answer, or none at all (`Boundaries`): where the harness
  checkpoints is its own. That its pending calls are answered in the snapshot
  is the harness's too.
- *Outcomes.* The returns of provider-executed tools, which the dump does not
  match, and a result event that a tool makes up itself are left out. What
  becomes of upstream's `error` and `encryptedValue` is upstream's.
- *Charts.* The client's limits are those the module of limits names; whether
  the two sides' constants agree is outside the repository. One chart and one
  row of suggestions, each under one id; a label's words are left out. That a
  spec declared to a delta is the one drawn last is the caller's promise.
- *Context.* A value may hold text that looks like another section's heading:
  "this is labelling, not sanitisation" (`render_untrusted_context.py:49`).
  `FenceHolds` is about the markers and labels. That instructions are rendered
  anew for every model request is pydantic-ai's.
- An endpoint with `agent_factory`, `toolsets=` or `capabilities=` of its own
  is left out of `ToolNames`.
- The text of errors is left out, and of a rename the title.
- *Not modelled.* Skills, a catalogue fixed at start; settings and system checks,
  read once and validated; the OpenAI transcription backend, one outbound call;
  which views a mount has, decided at start.
- Code outside the repository (pydantic-ai's event stream, Django's upload
  parser, the stores and auth of django-spec-agents, the cache) is the
  environment, modelled from how the code here calls it.

## Plan

In the order of worth:

1. *Proofs.* `PlainRunsKeepTheirIds`, by an invariant that pairs the dump with the
   transcript position by position; then the rows of a resumed thread.
2. *Composition.* `RunExits` with `ThreadStore`, so that a save that raises or
   hangs meets the other runs of its thread; `LiveActivities` with `RestoredThread`, so that
   what is restored is what was pushed.
3. *Models.* Interrupts that earlier runs left, answered in a later one.
