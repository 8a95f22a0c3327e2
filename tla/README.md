# SyLog: a TLA+ verification development

This directory models SyLog's asynchronous logging pipeline, its routing cache, its
renderers and its rotating file sink in TLA+, checks the models with TLC and proves every
invariant of the passing runs, and a refinement, with TLAPS. Paths such as `src/logger.cpp` are relative to the repository's root; the map
in `PROJECT.json` names the lines that each definition models.

## 1. Inventory

| Part | State | Operations | What makes it correct |
|---|---|---|---|
| `WorkersEventQueue` (`src/async/workers_event_queue.*`) | `size_` (reserved slots), the Workers queue, `space_m_`, `cv_space_` | `try_push`, `push_blocking`, `try_pop`, `pop_blocking`, `close`, `notify_all` | slots are counted exactly and bounded; order and content are kept; waiting ends |
| Delivery strategies (`src/delivery.cpp`) | none | `drop_when_full`, `block_when_full` | dropping never waits, blocking waits only while it must |
| `SinkCrossbar` (`src/async/sink_crossbar.*`) | `lanes_`, `running_`; per lane: route, queue, worker, `drain_on_stop` | `configure`, `start`, `close`, `request_stop`, `flush`, `submit`, `lane_loop_` | one lane per route; a graceful stop drains; a stop returns |
| `Pipeline` lifecycle (`src/logger.cpp`) | `routes`, `cfg`, `running`, `accepting`, `crossbar` | `configure`, `add_route`, `clear_routes`, `start`, `close`, `request_stop`, `flush`, `submit` | flags, routes and crossbar agree; nothing accepted is lost by reconfiguring |
| Routing and endpoint cache (`src/logger.cpp`) | `endpoint_cache`, `dirty_cache`, `global_filters` | `cached_route_mask_`, `compute_cache_entry_`, `cached_min_priority`, `dispatch_sync_` | the cache changes no result; the right routes get the event |
| Filters (`src/logger.cpp`, `logger.hpp`) | prefixes, minimum priority | `pass`, `allow`, `deny` | deny before allow, prefix match |
| `Logger`, events and severities (`logger.hpp`, `event.hpp`, `severity.hpp`) | endpoint | `enabled`, `log*`, `make_event_` | the early return hides no matching event; a fatal event is flushed when its call returns |
| Renderers (`src/renderers`, `renderer.hpp`) | pattern, flags; the reused buffer | `render` | tokens expand to their values; JSON parses back to the event; colouring changes nothing else |
| `ConsoleSink` (`src/sinks/console_sink.cpp`) | the C stream | `write`, `flush` | – (a mutex around each) |
| `RotatingFileSink` (`src/sinks/file_sink.cpp`, `sink.hpp`) | stream, `current_size`, `opened_day`, the files | construction, `write`, `flush`, `ok`, rotation | size limit, order of archives, no loss across a crash in a rotation |
| `sylogctl`, benchmarks, examples | – | – | see section 7 |

How they interact: a `Logger` asks the cache whether its severity is enabled, then
`Pipeline::submit` looks the route mask up again, applies the global filters and either
writes synchronously (`dispatch_sync_`) or copies the `shared_ptr` to the crossbar under
`worker_m` and pushes into the queue of every lane the mask names. Each lane's worker pops,
filters again, renders and writes. Lifecycle operations run on any thread: routes change
under `state_m`, the crossbar under `worker_m`, which is held while workers are joined;
the cache has `cache_m` and the atomic `dirty_cache`.

What is hard here: atomics and a condition variable that is notified without its mutex;
state read under one lock and used under another; queues closed, drained, replaced or
destroyed under producers; lookups that overlap changes of the routes; file rotation in
several steps with failures, crashes and midnight in between. `PROJECT.json` lists these
hazards with their lines.

## 2. Modules

| Module | Models | Used by |
|---|---|---|
| `EventChannel` | abstract: a bounded first-in first-out channel with one consumer | `CrossbarLane` (refinement) |
| `CrossbarLane` | one lane: queue, producers, worker, stopping thread, one step per atomic operation | `MCCrossbarLane`, `CrossbarLaneProofs` |
| `RouteFilters` | filters and `compute_cache_entry_` as operators | `RouteCache` |
| `RouteCache` | cache, enabling test, synchronous dispatch, changes of routes and filters | `MCRouteCache`, `RouteCacheProofs` |
| `PipelineLifecycle` | lifecycle operations over a heap of crossbars and lanes, with logging threads | `MCPipelineLifecycle`, `PipelineLifecycleProofs` |
| `Renderers` | rendering of one event after another for a route, with the three renderers as operators | `MCRenderers`, `RenderersProofs`, `JsonRendererProofs` |
| `RotatingFileSink` | the file sink over a failing file system in a crashing process | `MCRotatingFileSink`, `RotatingFileSinkProofs` |

**CrossbarLane.** `ppc`, `wpc` and `spc` are the places of the producers in `submit`, of
the worker in `lane_loop_` and of the thread that runs `stop_lanes_` with `worker_m` held,
on behalf of `close()`, `request_stop()` or `configure()`. `start()` may come whenever
`worker_m` is free: after another thread has cleared `accepting` and before it gets the
mutex, too, in which case it sets `accepting` again; and after a graceful stop, before the
crossbar is replaced, in which case a new worker finds its queue closed. `Reconfigure` is
`SinkCrossbar::configure`, which drops the lane, after stopping it if the crossbar runs, and
`ReplaceCrossbar` the end of `close()`; a producer that got the lane earlier goes on using
it (`spc = "dropped"`). `size_` is the
atomic counter; `items` and `closed` are the Workers `BlockingQueue`, which is not part of
the repository and is specified by what the adapter relies on: `push` fails once closed,
`pop` takes the oldest event and may end once the queue is closed or the token stopped,
`try_pop` fails only on an empty queue. `reserve_slot_` is a load and a compare-exchange;
`cv_space_.wait` is three steps (load `accepting`, load `size_`, block), between which
notifications, sent without `space_m_`, can fall. The holder of `space_m_` and the wait
set of `cv_space_` are functions of `ppc`. After `request_stop()` has replaced the queue
(`QueueDestroyed`), what a call inside the old one does is undefined and it takes no step.
A route without a sink, which discards its events, is left out.

**RouteCache.** Each critical section of `state_m` or `cache_m` and each access to
`dirty_cache` is a step of a call. A mask is the set of its bits, numbered from 1, and
`MaskBits` stands for 64. The configuration is synchronous. `copied` is the copy of the
routes that `dispatch_sync_` takes, later than the one the mask was made for. `stable`,
`kept` and `wrote` are history: whether a route or filter changed during the call, how many
routes have stayed in place under the same global filters since it began, and which routes
it wrote to.
`EditFilter` is `EndpointFilter::allow`/`deny` on a filter that a route already holds.

**PipelineLifecycle.** `crossbars` and `lanes` are the heap, so that a producer can go on
using a crossbar that has been replaced. A lane's queue is the channel that `CrossbarLane`
implements, with unlimited room, and a worker is its consumer; lookups return a current
mask. A lane that was never started has worker `"none"`. `worker_m` is held through the
states `closing`, `joining` and `rebuild`. The destructor of a crossbar, which stops its
lanes without draining, runs when the last holder lets go. `LogAt` is `Logger::log_at` for
a normal or a fatal severity; a fatal event is dispatched synchronously through a copy of
the routes (`DispatchSync` takes it under `state_m`, `WriteSync` writes to one sink after
the other without the lock) and then flushed through the lanes of the crossbar that is
current by then. A
sink is a `ConsoleSink`: `out[r]` is all its stream has received, `flushed[r]` how much of
it has been flushed. `calm` is history: no change of the routes has overlapped the call.

**Renderers.** A text is a sequence of symbols: a character that the code treats specially,
or a run of characters in which it treats none so (a word, a number, a date). `Tokens` is
the order in which `PatternRenderer` replaces its tokens, `replace_all` its loop of `find`
and `replace`; `EscapeChar` is the switch of `json_escape_append`. `"SOH"` stands for the
controls without a short escape and `"HIGH"` for bytes from 0x80. The reference definitions
are `Expand`, which reads a pattern once from left to right, and a JSON parser, which takes
the words `nan` and `inf` for numbers, as lenient parsers do. The symbols
are a constant; loops and the parser are recursive functions over positions of a text.

**RotatingFileSink.** `files[0]` is the active file, `files[k]` the archive `path.k`, each
a sequence of records; `buffer` is what the `ofstream` holds. Every rename and open of a
rotation is a step; `Crash` and `Midnight` can come between any two. A failing operation
leaves the file system as it is; a failing write hands over a prefix of the buffer; a failing
`file_size` makes `file_size_or_zero` return 0 for a file that may be opened and appended to
all the same. `unseen` is history: the bytes `current_size` is short of because of that.

Definitions marked "Mutant" model no code: each is a faulty variant of the definition
after it, kept to show that some property notices the fault (`mutants` in `PROJECT.json`).

## 3. Runs

Passing runs:

| Run | Bounds | Shows |
|---|---|---|
| `lane` | 2 producers, one with 2 events, the other with 1 that the route filters out, 2 slots, any number of `start`, `close`, `request_stop`, `configure` | `SlotAccounting`, `DrainComplete`, `NothingLost`, `ProducerOrder`, `LaneRefinement`; under fairness `StopReturns`, `QueuedIsProcessed`, `DroppingReturns` |
| `cache` | 1 thread, 3 changes, 1 filter edit, 2 mask bits, 4 kinds of routes | `CacheCoherent`, `DeliveryExact`, `StaleMaskHarmless` |
| `lifecycle` | 1 thread with 4 operations, 1 producer with 2 events, 2 routes | `LanesMatchRoutes`, `RunningAgrees`, `GracefulLosesNothing`, `CloseFlushes`, `RouteOrder`, `FatalFlushed`; under fairness `CallsReturn` |
| `file_rotation` | 5 records of size 1 or 3, limit 2, 0 or 2 archives, 1 crash, 1 step with failures, 1 midnight | `SizeTracks`, `ActiveBounded`, `LogInOrder`, `NewestKept`, `ForgetsWhenFull`, `OneDay`, `OkMeansRecorded` |
| `render` | patterns of up to 3 pieces, 6 messages, 5 severities; JSON texts of up to 2 symbols, 9 lists of fields, all flags | `PatternExpands`, `AnsiOnlyColours`, `JsonRoundTrip` |

Each of these but `render` also checks its module's `TypeOK`. They have about 370,000
(`lane`), 690,000 (`cache`), 790,000 (`lifecycle`), 2,200,000 (`file_rotation`) and 29,000
(`render`) distinct states; `lane` and `lifecycle`, with their liveness properties, take a
few minutes, the others less than one.

`ActiveBounded` is a property of steps: no step of a `write()` lets the active file grow past
the limit. As a property of states it would also speak of a long file found at a start.

Why the bounds suffice to see the interesting cases: in `lane` three events for two slots
make producers wait, fail their compare-exchange, be refused at close and leave two events
of one producer in the queue. In `cache` the routes outnumber the mask bits, an
endpoint is a prefix of the other, and priorities lie on both sides of `trace` and `error`;
three changes suffice to add, clear and add a route within one call, so that a bit of its
mask names another route when it is used. That the last property holds for any number of
threads is proved (section 5).
Four operations reach add, start, add again (rebuilding running lanes), close, with events
logged at every point. Five records overflow two archives, with over-long records that fill
a file alone. In `render` the pieces include lone braces and a token's bare name, so that
tokens appear whole, broken and adjacent, messages contain tokens replaced earlier, at the
same time and later than the message itself, and severities lie on and between thresholds;
one event follows another in every order.

Runs that show a disagreement between the code and what the repository says of it:

| Run | Property | Shows |
|---|---|---|
| `lane_lost_wakeup` | `BlockedProducerWakes` | a producer between its predicate and blocking misses the notification and sleeps on with capacity available or the pipeline stopped |
| `lane_destroyed_queue` | `NoCallInDestroyedQueue` | `request_stop()` destroys a queue that a producer is still using |
| `cache_stale_entry` | `OptimizationOnly` | a stale cache entry is stored after another thread has consumed the dirty flag, and hides a route |
| `cache_fallback` | `SevereFallsBack` | a `Logger` never reaches the emergency fallback when no route matches |
| `life_start_race` | `RunningAgrees` | `start()` overlapping `configure()` or `close()` leaves `running` true over an idle crossbar |
| `life_early_events` | `QueuedUntilStarted` | an event queued before `start()` is thrown away with its lane by a later `add_route`, although its route is still there |
| `file_failed_rename` | `KeepsArchives` | a failed rename is ignored and the active file truncated |

Limits met while modelling that have no run of their own, and how the properties are stated
because of them:

- `GracefulLosesNothing` speaks of lanes that have had a worker; what happens to events
  queued before `start()` is the subject of `life_early_events`. `configure()` and `close()`
  discard them as `add_route` does; `clear_routes` too, which the property allows since
  the route is meant to go.
- A lane that `add_route` or `clear_routes` drops from a crossbar that is not running is not
  closed, so that a producer that waits for room in it is woken by nobody, not even by
  `close()`. `BlockedProducerWakes` leaves dropped lanes out.
- Two overlapping `add_route` calls may configure the crossbar in the reverse order of
  their changes; `LanesMatchRoutes` is checked and proved for one thread of lifecycle operations.
- A route without a severity filter counts as `trace` in the cache, so custom severities
  below 100 are cut off by `Logger::enabled`; `DeliveryExact` starts at `trace`.
- `EndpointFilter::allow` on a filter in use does not invalidate the cache;
  `CacheCoherent` and `DeliveryExact` are stated without such edits.
- While `close()` drains, a producer writes synchronously and may overtake its own queued
  events, as a fatal event always may; `RouteOrder` allows a synchronous write, and nothing
  else, to overtake.
- The flush after a fatal event goes through the crossbar's lanes. While `add_route` or
  `clear_routes` has changed the routes and not yet the crossbar, the event can be written
  to a sink that has no lane (or was cleared) and is not flushed, although
  `docs/api/lifecycle.md` says of `flush()` that it "Flushes configured sinks";
  `FatalFlushed` excludes calls that such a change overlaps.
- A message (or file or function name) that contains the text of a token replaced later,
  such as `{file}`, has it expanded; `PatternExpands` excludes those values. In a pattern
  with a `{` outside its tokens a value, even an empty one, may complete a token:
  `{{message}file}` with an empty message is the file name. `PatternExpands` then asks
  that no value is empty or begins with a token's name or `}`. A name is one symbol: one
  pieced together from two texts (`{fi` and `le}`) is outside the model.
- `AnsiConsoleRenderer` colours the first occurrence of the severity's name in the line,
  which may be in the pattern's own text or in a field before the severity.
- `std::format` writes `nan` and `inf` for doubles that JSON cannot express; the line is
  then not JSON. `JsonRoundTrip` says that no more than that value is affected.
- If `file_size` fails when the file is opened, `current_size` starts at 0 over a file that
  is appended to, and the limit can be passed by the bytes that were there; `SizeTracks`
  and `ActiveBounded` say by exactly how much.
- After a restart, daily rotation does not rotate a file of an earlier day, because the
  day is taken from the clock when the file is opened; `OneDay` is about one sink object.

## 4. Fairness

Weak fairness of the steps of each thread once it is inside a call, and of the workers:
the operating system runs every thread that can run. Mutexes need no more than that here,
since a thread holds `space_m_` for a bounded number of steps and `worker_m` until workers
that are themselves fair have exited, and each run makes a bounded number of calls. Nobody
is obliged to call `submit`, `start` or `close`, and a spurious wake-up is never owed.

## 5. Proofs

`CrossbarLaneProofs` proves, for any finite set of producers, any capacity and any number
of events:

- `TypeCorrect`: `TypeOK`; in particular the unsigned `size_` never goes below zero;
- `SlotsAreAccounted`: `SlotAccounting`, for a configured capacity of zero as well;
- `GracefulCloseDrains`: `DrainComplete`;
- `AcceptedIsKept`: `NothingLost`;
- `OrderIsKept`: `ProducerOrder`;
- `LaneImplementsChannel`: `LaneRefinement`, the lane implements `EventChannel`.

The inductive invariant is `LaneInv`. `SlotAccounting` alone is not inductive: a successful
compare-exchange needs the value of `n` to be below the capacity (`SawRoom`), and a push
needs a reserved slot that it gives up. `DrainComplete` needs to know that the draining
loop runs only after the queue was closed, and which values the flags have at each stage
of stopping, starting again and dropping the lane (`Stages`). The refinement needs that a producer's current event has not
entered before (`FreshEvent`), and `SlotAccounting` for the room in the channel: the
channel is shown to have room because the pushing producer itself holds a slot.

`NothingLost` and `ProducerOrder` rest on the lemma `EventMoves`: whatever the interleaving
of flags, locks and wake-ups, a step lets one fresh event enter the queue, moves its head to
the worker's hand, hands that to the sink or the filter, or moves no event. `NothingLost` is
inductive beside `LaneInv`. Order needs both: an entering event is new (`FreshEvent`), and
by `NothingLost` every event in the lane was accepted before, so the new one is its
producer's latest.

`RouteCacheProofs` proves, for any events, routes, filters and mask width:

- `OneLoggerCoherent` and `OneLoggerDeliversExactly`: `CacheCoherent` and `DeliveryExact`,
  which speak of the time before a filter is edited in place, for one logging thread (the
  assumption `Solo`, without which `cache_stale_entry` shows the contrary);
- `StaleMasksAreHarmless`: `StaleMaskHarmless`, for any number of threads and edits;
- `CacheTypesHold`: `TypeOK`, for any number of threads and edits.

The first two rest on `Serves`: an entry names each of the first n routes that may take the
endpoint, and asks for no higher priority than they do. A computed entry serves the routes it
was computed from (`ComputedServes`), and goes on serving them when others are added behind
(`AddingKeeps`). The invariant `CacheInv` says that an entry about to be stored is current or
the dirty flag is set, and that what a call will find or has got serves the routes that have
stayed in place since it began (`KeptCall`); an edit ends it for good, so what is inductive
is `EditedOrCacheInv`. `StaleMaskHarmless` needs less (`HarmlessInv`): a call's copy begins
with the routes that have stayed in place, for which, once it is about to dispatch, the
global filters passed. `TypeOK` needs that
the routes stay well-formed under edits (`TableOK`), since a minimum priority is read from
a severity filter.

`RotatingFileSinkProofs` proves every invariant of the run `file_rotation`, for any rotation
modes, numbers of archives, limits, record sizes, days, crashes and failures:

- `SinkTypesHold`: `TypeOK`; no file is ever named beyond `path.keep`;
- `SizeIsTracked` and `ActiveIsBounded`: `SizeTracks` and `ActiveBounded`;
- `DaysAreKeptApart` and `OkIsTruthful`: `OneDay` and `OkMeansRecorded`;
- `LogStaysInOrder`: `LogInOrder`;
- `NewestIsKept` and `ForgetsOnlyWhenFull`: `NewestKept` and `ForgetsWhenFull`.

The base is `SinkInv`: beside the types, the range of the renaming loop's index, what each
place in `write()` implies for stream and buffer (`Streams`), and that records have been
numbered up to `n` (`Known`). Two case lemmas then replace the code's steps. For the active
file (the first four properties after `TypeOK`) a step keeps the text, appends the record
in hand, empties the file, or tears the buffer off (`Keeps`, `Records`, `Empties`, `Tears`);
`SizeTracks` follows because `Bytes` of a concatenation is a sum, `ActiveBounded`, an action
property, from it and `Fits`: a record that is about to be put fits or finds the file empty. `LogInOrder` is
inductive beside `SinkInv`: whatever fails, a step shortens files at their end, adds the
record in hand, which is the newest, to the active file, or lets one file take the place of
the next older one (`Shortens`, `Grows`, `Replaces`); an ignored failure can destroy an
archive but not misplace one. Until something fails more can be said of the whole log: a
step leaves it, gains a record at its end, shifts one archive into a free name, discards
the file when no archives are kept, or loses the buffer (`SameLog`, `Gains`, `Shifts`,
`Discards`, `LosesBuffer`).
`Hole` says why a shift destroys only the oldest archive: the name the loop writes to
next is free, unless it is the last, until some operation fails. `NewestKept` is inductive
with a cut (`KeptFrom`) that only rises. `ForgetsWhenFull` needs that
without crashes the archives have no gap but the one the rotation is moving (`Gapless`,
`Vacated`), and that a record can only have been forgotten when all names were taken
(`Full`). `Bytes` is a recursive function; the few facts about it are proved from a
least counterexample, with the predicate given as a set.

`PipelineLifecycleProofs` proves every invariant of the run `lifecycle`, for any number of
producers, operations, routes and events:

- `LifecycleTypesHold`: `TypeOK`, for any number of lifecycle threads too;
- `LanesFollowRoutes`: `LanesMatchRoutes`;
- `RunningIsTrue`: `RunningAgrees`;
- `NothingIsLost`: `GracefulLosesNothing`;
- `CloseHasFlushed`: `CloseFlushes`;
- `FatalIsFlushed`: `FatalFlushed`;
- `SinksAreInOrder`: `RouteOrder`.

All but the first assume `Admins = {a}`: one thread calls the lifecycle operations, while any
number of threads log. It cannot be dropped: `life_start_race` shows that
overlapping operations leave `running` true over an idle crossbar, two overlapping
`add_route` calls leave lanes that are not the routes, and `configure()` overlapping
`start()` replaces a crossbar whose lanes already hold events. The arguments:

- `Phases` ties the place of an operation to which operation it is; `Matching` adds that
  the crossbar follows the routes except inside `add_route` and `clear_routes`, whose copy
  is then what the routes are.
- `Steady` is what `running` needs: crossbars share no lanes (`Disjoint`), the flags at
  each place of an operation (`Status`), and a worker only runs in the current crossbar and
  only exits from a closed or forcibly stopped lane (`WorkersOK`).
- `Safe`: every accepted event is written, or queued in a lane that no worker has left, or
  in a lane that was replaced before it ever started, or was stopped by `request_stop()`.
  What makes it inductive is that a graceful exit needs an empty queue which was closed
  before, so no producer with an old crossbar can add to it.
- `CloseFlushed` adds that the flush of `close()` covers everything its drained lanes
  wrote, and that later steps only append to a sink and only advance what is flushed.
- `History` bounds what has been seen of a producer by its latest event. A fatal event is
  in no queue (`Straight`); in an undisturbed call it is only in sinks of configured routes,
  and the crossbar it is flushed through has a lane for each of them (`Flushing`).
- For the order, routes and lanes of a crossbar are distinct (`RoutesDistinct`), so an event
  is pushed once per sink (`Pending`); each queue is in order, what workers wrote to a sink
  precedes what the current lane still holds (`Ahead`), and so a sink is in order except
  for synchronous writes (`SinkInOrder`). A lane is only replaced when its worker has
  drained it or will write nothing more, which is where `Steady` is used.

`RenderersProofs` and `JsonRendererProofs` prove every invariant of the run `render`, for
any set of symbols that contains those the renderers write themselves, any patterns, events
and fields, and one event after another in the same buffer:

- `PatternSafety`: `PatternExpands`;
- `ColourSafety`: `AnsiOnlyColours`;
- `JsonSafety`: `JsonRoundTrip`.

The state is simple here (`RenderInv`: after an event, the buffer is its rendering); the
work is in what the recursive functions compute. Each is first shown to exist and to satisfy its equation, by a least counterexample with the predicate
given as a set (`WFMin`), since induction theorems with an operator parameter cannot be
instantiated.

- Patterns. The loop of `replace_all` for one token equals a one-pass expansion of that
  token (its invariant: what has been written, followed by what is left to search). The
  heart is the lemma `Fusion`: expanding the tokens so far in one pass and then the next
  one is expanding all of them in one pass, provided that the values inserted so far do not
  contain that token and can neither begin nor complete one. Applied from the first token to
  the last it gives `Expand`.
- Colours. `find` returns the first occurrence or none, so that removing the two inserted
  symbols gives the pattern's text back; of the tests of `ansi_for`, the first that succeeds
  is the one of the highest severity reached.
- JSON. `Stands` says where a text stands in a longer one. A string's escapes are read back
  symbol by symbol, by induction downwards from its closing quote (`StringRead`); members
  are read from the last to the first (`MembersAt`, `RestAt`), the fields by induction on
  their number (`FieldsRead`), the optional members by cases on the flags (`IsOption`). That
  the escaped text contains no bare quote, backslash or control is what keeps a string
  from ending early.

The assumptions are those named in the modules (`LaneAssumption`, `CacheAssumption`,
`MaskBitsAssumption`, `SinkAssumption`, `LifecycleAssumption`, `RenderAssumption`); TLC
evaluates them in every run. `RenderAssumption` says that the symbols the renderers write
are symbols, that a number, `nan` and `inf` are neither a quote nor a brace, and that renderers and events
are well-typed. `MaxWrites` is positive because the record in hand is numbered 1 before the
first `write()`.

Only model-checked: liveness (`StopReturns`, `QueuedIsProcessed`, `DroppingReturns`,
`CallsReturn`), which is out of the prover's reach.
The properties that a run shows violated have no theorem, except `RunningAgrees`, which is
proved for one lifecycle thread.

## 6. Plan

Done: the lane, the cache, the lifecycle with fatal events and flushing, the renderers, the
file sink; a theorem for every invariant of the passing runs, and the refinement of the
abstract channel.

Next: what overlapping lifecycle operations do guarantee (one event, one sink, at most
once); in the file sink, how many archives one failed rename can cost.

## 7. Not modelled

- Message formatting with `std::format`; `global_min_priority`, which is never read.
- `ConsoleSink`'s mutex and the choice of the stream: a write or a flush is one step.
- Custom severities with only one of `force_sync` and `flush_after`.
- Sinks or filters that log themselves: they would take locks their caller holds.
- The data race on `cfg` between `submit` and `configure`: the mode is read at any time,
  which covers both values of the flag.
- The text format of dates and file names, and bytes within a record.
- `sylogctl`, benchmarks, examples, build files: clients and tooling without state.
