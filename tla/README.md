# Verification of tslua-dcs

TLA+ models of the programs in this repository, TLC configurations that check
them on small instances, and theorems checked by TLAPS. The repository is a set
of TypeScript packages compiled to Lua 5.1 for the flight simulator DCS World.
Its core is an HTTP server that one Lua thread drives from a timer.

To check everything, run in this directory

    tlc -workers 2 -config sched_safety.cfg MCScheduler     # and the other runs of section 8
    tlapm ConnectionSchedulerProofs.tla                     # and the other modules of section 9

## 1. The system

| Component | Source (`src/packages/`) | State it keeps | Operations | Hard behaviour |
|---|---|---|---|---|
| Connection scheduler | `tslua-http/src/scheduler.ts` | connections in service order, a record per connection, the body budget, the running pump's budgets, closed and pumping flags | `pump`, `close`, `connectionCount` | handlers that re-enter; partial reads and writes; sockets that fail anywhere; deadlines read from a stale clock value; shared budgets; fairness of the service order |
| Head reader | `tslua-http/src/request-head-reader.ts` | buffer, next line, lines so far | `push` | heads cut anywhere; limits at their boundary; framing headers |
| Server options | `tslua-http/src/options.ts` | none | `resolveServerOptions` | values that disable a bound |
| HttpServer facade | `tslua-http/src/server.ts`, `request.ts`, `query-params.ts`, ... | none of its own | forwards to the scheduler; parses request line, query, URI | two readings of the request line that must agree |
| Application | `tslua-http-api/src/application.ts`, `path.ts` | handlers, error log | `use`, `get`, ..., `handleRequest` | a middleware that calls `next` late, twice or with an error; shared request state; errors after a partial response |
| DCS bridge | `tslua-dcs-bridge/src/core/bridge.ts`, `gui`, `mission` | last pump time, token | `/health`, `/rpc`, `pump`, `close` | results that cannot be encoded; two environments; mission reload |
| CLI | `tslua-dcs-bridge/scripts/dcs-bridge.mjs` | files in Saved Games and in the DCS install | `install`, `uninstall`, `launch`, `loadMission`, `runBundle` | failures between steps; repeated installs; polling races |
| luatest runner | `tslua-luatest/src/runner.ts` | suite tree, results, mode | `describe`, `test`, hooks, `run`, `configure` | hooks that fail half way; focus; auto-run; declarations while running |
| luatest mocks | `tslua-luatest/src/mock.ts` | call log, once queue, restorable spies | `fn`, `spyOn`, `restoreAllMocks` | nested spies restored in any order |
| luatest matchers | `tslua-luatest/src/equality.ts`, `expect.ts` | none | deep equality, one assertion per matcher | tables that contain each other; the assumption that a pair under comparison is equal |
| JSON, Base64 | `tslua-json`, `tslua-base64` | the length of a decoded sparse array | encode, decode | cycles, sharing, sparse arrays, surrogates, padding |
| Mission doubles | `tslua-dcs-mission-types_test/doubles` | groups, units, event handlers, scheduled functions | spawn, destroy, add and remove handlers, schedule, `advanceTime` | callbacks that change the lists they are called from, or raise |
| Test app | `tslua-dcs-testapp/src/index.ts` | globals `app`, `functionId` | loading the script | hot reload |
| Logger, OpenAPI builder, lua51 launcher, DCS type packages, benchmarks | | | | not state machines of interest |

How they interact: DCS calls a timer callback, which calls `pump` of the bridge
or the test app, which calls `HttpServer.pump`, which is the scheduler's. The
scheduler calls the request handler synchronously; for an `Application` that
runs the middleware stack; for the bridge a middleware evaluates Lua, which may
do anything, including calling `pump` or `close` again. The CLI talks HTTP to
the bridge from another process. There is one thread on the server's side:
interleaving comes from re-entrant callbacks, from clients, and from the clock.

What makes each part correct:

* scheduler: budgets are respected and nothing leaks; each connection is
  served once, answered once, and ends; the order loses nobody and is fair;
  `close` is final.
* head reader: the verdict depends on the bytes, not on how they were cut;
  limits hold at their boundary; framing that disagrees is refused.
* application: a request is answered once, by its own handlers with the
  parameters of their routes; an error reaches its own request's error handler.
* bridge: no code runs for a refused request; the answer says whether code ran
  and carries the request's id.
* CLI: install and uninstall are idempotent and inverse; a failed install can
  be repeated; a running game keeps accepting requests; the game's own text is
  never lost.
* runner: each declared test is reported exactly once, with its status;
  teardown runs for what was set up; a failing or forgotten test never passes.
* mocks: a mock records every call; once no spy is active the object is what it
  was.
* matchers: tables are equal exactly when nothing tells them apart.
* codecs: decoding accepts the grammar, encoding inverts it, what is not
  representable is refused.
* mission doubles: groups and units agree; no birth and no scheduled function is
  lost or repeated.

## 2. The plan

| | Item | State |
|---|---|---|
| 1 | `ConnectionScheduler`: properties, abstract specification, invariant, proofs | done (sections 3, 4, 9) |
| 2 | `RequestHeadReader` and `RequestTarget` against their references | done (section 7) |
| 3 | `Application` on `PathRoutes` | done (section 5) |
| 4 | `BridgeRpc`: from the headers of `POST /rpc` to the answer | done (section 7) |
| 5 | `BridgeInstaller`: install and uninstall against a running game | done (section 5) |
| 6 | `TestRunner`, `Mocks`, `DeepEquality` | done (sections 6, 7) |
| 7 | JSON and Base64 against their references | done (section 7) |
| 8 | `MissionWorld` | done (section 6) |
| 9 | The scheduler's refinement and its step properties as theorems | done (section 9) |
| 10 | Theorems for `Application`, `BridgeInstaller` and `Mocks` | done (section 9) |
| 11 | The polling of `loadMission` against a mission that loads and pauses, and the bridge's pump clock | left |
| 12 | `ReportedOnce` and `GreenIsGreen` of `TestRunner` as theorems, its recursive operators as recursive functions | done (section 9) |
| 13 | The properties of `MissionWorld` as theorems, its recursive operators as recursive functions | done (section 9) |

The proofs of a component are in a module of their own that extends it
(`...Proofs`); `InductionLemmas` is shared by them.

Modules: `ConnectionScheduler`, `PathRoutes`, `BridgeInstaller`, `TestRunner`,
`Mocks` and `MissionWorld` stand alone; `Application` extends `PathRoutes`;
`SchedulerExchange` composes the scheduler with `HttpExchange`; `Codecs` collects
the pure functions (`JsonDecoder`, `JsonEncoder`, `JsonLexer`, `Base64`,
`RequestHeadReader`, `RequestTarget`, `BridgeRpc`, `DeepEquality`) with the
references they are compared with (`CodecReferences`). An `MC` module gives each
the values a `.cfg` cannot write. How they join: the scheduler takes the head
reader as its verdict (`accepted`, `head`, `body`), which `HeadVerdict` justifies,
and the application as a handler that returns a response, raises, pumps or
closes; `Application` in turn relies on `OneHandler`, one handler at a time.

## 3. The scheduler's model

`ConnectionScheduler.tla` models `scheduler.ts` whole. A step is the code
between two points where the outside decides: a clock reading, a socket call,
the handler's outcome. `pc` is where the thread is:

| `pc` | In the code | Actions |
|---|---|---|
| `idle` | outside `pump` | `Pump`, `Close`, `CallAfterClose` |
| `accept` | accept loop of `pumpOnce` | `AcceptClient`, `EndAccepting` |
| `visit` | head of the loop in `visitAll` | `BeginVisit`, `ClockCheckThrows`, `EndPump` (with `reorder`), `EndClosedPump` |
| `read` | `visit`, reading | `RequestExpired`, `ReadRefused`, `ReceiveAll`, `ReceivePart`, `ReceiveFails`, `VisitThrows` |
| `dispatch` | `visit`, ready | `Dispatch`, `DispatchRefused`, `VisitThrows` |
| `handler` | inside `this.handler(...)` | `HandlerReturns`, `HandlerFails`, `HandlerClosedServer`, `VisitThrows`, and `Pump`, `Close` re-entrantly |
| `write` | `visit`, writing | `ResponseExpired`, `WriteRefused`, `SendAll`, `SendPart`, `SendFails`, `VisitThrows` |
| `closing` | the loop of `close` | `ReleaseNext`, `CloseReturns` |

Variables keep the code's names (`connections`, `bufferedBodyBytes`, `closed`,
`pumping`, `budget`, `stats`); `conn` holds the Connection objects, `current`
and `visitIo` are `visit`'s locals. `history` is auxiliary: it counts handler
runs, delivered bytes and pumps without a visit, and how a connection ended; no
guard reads it.

Abstractions:

* Time is kept as distances. The code stores deadlines and compares them with
  `lastNow`; the model stores what is left of each, so there is no clock to
  bound. A reading advances it by `d`; a clock set back reads as `d = 0`, as
  `now()` has it. Only the deadlines the connection's state still reads age.
* The reading that decides a visit's deadlines is taken once, before its reads
  and writes (`BeginVisit`), as in the code. The time a handler takes shows in
  the reading `startResponse` makes after it.
* A payload is its length. A request is the length of its head, of its declared
  body, and whether `RequestHeadReader` accepts it; what a client sends beyond
  it is ignored by the code and, being part of a chunk, present in the model.
* A slot of `Clients` stands for one connection after another: closed
  Connection objects are unreachable in the code.
* `stats.bytesRead` and `bytesWritten` are what `budget.io` has lost and are not
  kept twice. The budget object is cleared at the end of a pump: the next one
  overwrites it before anything reads it.
* `reorder`'s early return leaves the list `Reorder` would rebuild.
* A `send` that reports no error but fewer bytes is `SendPart`.
* `close()` is the only loop taken apart although nothing re-enters it; its steps
  show that a connection closed earlier in the pump is met again harmlessly.
* All error responses have one length.

Not in the model: errors raised by the clock before the first visit of a pump (at
its start, in the accept loop) or by a log transport outside a visit or in the catch
itself, socket calls that re-enter the server, the wording and levels of logs.

## 4. The scheduler's properties

`SchedulerProperties.tla` states them, each with the code it is about.
Safety: `BodyBudgetExact`, `WithinBodyBudget`, `ServiceOrder`, `HandlerOnce`,
`OneHandler`, `ClosedForGood`, `VisitWithinPumpBudget`, `VisitGapBounded`.
Steps: `StatsBalance`, `HandlersWithinBudget`, `CompleteDelivery`,
`OverdueNeverProgresses`. Liveness: `ReadyIsDispatched`, `EveryConnectionEnds`.
`OneHandler` and `VisitWithinPumpBudget` are proved and checked by no run.

`StatsBalance` holds of every pump, the one whose handler closes the server
included. There `close()` counts nothing: of the connections it releases
(`DroppedByClose`) the visited one alone is counted, by its visit, and the property
says so instead of leaving that pump out.

`HttpExchange.tla` is the promise of the server in fifty lines: an exchange is
received, handled at most once or refused, answered once, delivered whole or
dropped; one handler at a time; after a stop things are only dropped.
`SchedulerExchange.tla` maps the scheduler's state to it (`PhaseOf`), and
`ImplementsExchange` says every behaviour of the scheduler is one of its.

## 5. The application and the installer

`Application.tla` models `application.ts` on the routes of `PathRoutes.tla`
(`path.ts`). A handler is its author's choice of operations, so a step is one
operation of a handler, and `calls` is the call stack: one frame per running
handler, in the code the JavaScript stack below `handleRequest`.

| In the code | Action |
|---|---|
| `handleRequest`: filter the registered handlers, initial status, first handler | `HandleRequest` |
| the closure `next()` of a handler: next stack item and its path parameters | `CallNext`, `CallKeptNext` (from another handler), `LateNext` (from a timer) |
| `next(err)`, an error in a handler, in `json()` | `CallNextWithError`, `Act` |
| a handler catches what its `next()` or its own `json()` raised; the error passes a frame; the catch of `handleRequest` and the error handler | `Catch`, `Unwind` |
| `use`, `get`, ... ; `useGlobalErrorHandler`, at any time | `Register`, `UseGlobalErrorHandler` |
| a handler keeps its `next`, writes the response, returns | `KeepNext`, `Act`, `Return` |

The request object is shared by the handlers of a request and so is
`exchange[r].params`; `sent` is the response the scheduler serializes when
`handleRequest` returns. A path parameter is matched greedily with back-off, as
Lua's patterns are. `setHeader` is left out, so the type of an answer is what
`send` and `json` make of it; statuses are 404, 200, 500 and "what a handler set".

The handlers of a request are a filter over the registered ones (`StackOf`), a
recursive function over their number, because the proofs reason about it.
`RegistrationAssumption` says that the program registers a finite sequence.

Properties: `AnsweredOnce`, `OneHandleRequest`, `OwnParameters` (until a handler
first calls `next`, see section 10), `MisdescribedIsRecorded`.

`BridgeInstaller.tla` models `install` and `uninstall` of `dcs-bridge.mjs`, one
file operation a step, and what surrounds them: a game that starts with a
profile, loads its hook and its missions, stops and is updated, and
`dcs-profile.mjs`, which picks the profile written to last. Every write may fail
before it changes anything or leave the beginning of its contents, which ends the
command. `disk` is the Saved Games folders, `scripting` the text of
`MissionScripting.lua` as pieces (anchor, line ends, begin and end marks) or the
absence of the file, which ends an install and leaves an uninstall nothing to
strip, `backup` its copy, `dcs` the running game with the tokens its bridges read when they were
loaded, `pc` the next operation of the command (a command that finds no profile, no
install or no bundle in `dist/` ends where it begins). A token is a number. A cut
write of it leaves nothing, a beginning, which the bridge reads as another token, or
all of it but the line end (`Token`, `TokenCuts`).
`FilesAssumption`: there is a first text, texts are finite, and the begin and end
marks of the loader, which are comments of this program, are not in a text of
DCS's own.

Properties: `RunningGameKeepsAccepting`, `InstallLoads` (the loader stands directly
behind the first anchor, also after a reinstall that changes nothing),
`UninstallRestores`, `OneFailureKeepsTheText`.

## 6. luatest and the mission doubles

`TestRunner.tla` models `runner.ts`. A step is a declaration (`DeclareTest`,
`OpenSuite`, `CloseSuite`, `DeclareHook`), `Configure`, `Run` or `ScriptEnds`
(the sentinel of `index.ts`). Executing a tree is one step, as no other code runs
between its bodies: `runSuite`, `runTest`, `shouldRun`, `hasRunnable` and
`reportNotRun` are operators with the code's names, and `log` is the order in
which bodies ran. Where the code descends the tree by calling itself, the model
has a recursive function of how deep it may still go, of which the number of
declarations is bound enough; the loop over a suite's children is `InTurn`, each
child adding an outcome (results, bodies run, `usedOnly` afterwards) to those
before it. The environment chooses which bodies fail, at most
`MaxFailing`; a body that declares a test or calls `run()` fails too, and one
that calls `test.only` in deferred mode also leaves `usedOnly` set (`focusing`).

`run()` refuses to be called from a test only, so `Run` is possible at the top level
and in a describe body. There it executes the open block half collected and empties
the root; the block goes on being collected, is no longer a child of the root in
deferred mode, and is executed once more, complete, in auto-run mode. The error of a
`run()` with a failed test passes that body, which becomes a failing test of the
block. `cut` holds the blocks this has happened to; it is auxiliary. The bodies that
such a `run()` executes declare nothing. An execution is begun with `Begin`, whose
`whole` says that it is `run()`'s, in which the hooks of the root count.

`ReportedOnce` and `GreenIsGreen` say what holds of every script: a test is reported
once, and a script that ends with status 0 has reported every test and no failure;
of the tests of a cut block, only that they are reported at most twice.
`FailureNeverPasses`, what the README of luatest says, is violated by such a block
(section 10). And, for each execution, `HooksAroundTests`,
`SetUpAndTearDown` and `StatusesAgree`, whose expectations (`Selected`, `IsSetUp`,
`Blocked`, `Status`) are made from the declarations alone, not from the walk over
the tree. Executions in which a body calls `test.only` are not held against the
last two: what is focused changes half way through them.

`Mocks.tla` models `mock.ts`: every mock with its queue, settings, calls and
results; `slot` is the method as the class and the instance hold it, `own` what a
spy will put back, `active` whether it is still to. A mock may be made of another
one, so a call goes through several: `CallPath` follows it, and `invoke` records
it in each. A mock only calls what was made before it, so a call meets no mock
twice and what it does to one cannot change what the next one does; the path is
as good as the recursion of the code. `Undone` takes the spies off one by one. `NewestSpyIsInPlace`,
`EveryMockRecordsTheOutcome`, `LastSettingWins`, and the violated
`RestoredIsOriginal`.

`MissionWorld.tla` models groups and their units, event handlers and scheduled
functions of the mission doubles (`state.ts`, `world.ts`, `environment.ts`). The
world is one record, as `state.ts` keeps it, and operations are functions of it,
because callbacks call the operations again before the first one has returned.
An event handler counts the births, removes itself, destroys the group being
spawned, spawns it again, or raises; a scheduled function spawns, cancels or
delays another, schedules one, or raises, and asks to run again at once, later
or never. The loops over handlers, units and due functions are recursive
functions over their rounds. Of a loop that calls back into itself (a handler that
respawns a group is called by the loop over handlers, and its births go through that
loop again) the inner one is an operator of its own: the handler has left by then, so
it does not go deeper. Unit and function ids only grow, so the lists that are kept in
the order of their ids are sets. `GroupsMatchUnits`, `BirthsAreReportedOnce`, `FunctionsRunInOrder`,
`NoFunctionIsLost`.

## 7. The pure functions

`Codecs.tla` calls each function once with every input of a bounded set and
compares the answer with `CodecReferences.tla`, which defines the same thing
without the algorithm.

| Function | Module, source | Reference |
|---|---|---|
| `decode`, `parseString`, `parseNumber` | `JsonDecoder`, `JsonLexer`; `tslua-json` | a grammar that cuts a text at its outer commas; `Meaning` |
| `encode`, `quoteString`, `formatNumber`, `Neighbour` | `JsonEncoder`, `JsonLexer` | `Unfold` of the heap; what is written reads back; the neighbour is adjacent as a number, except upwards from nines alone |
| `encode64`, `decodeText` | `Base64`; `tslua-base64` | the bits of the text |
| `push`, fragment by fragment | `RequestHeadReader`; `request-head-reader.ts` | the lines of the whole text |
| `complete` | `RequestHeadReader` | the faults a head has |
| `requestLine`, and `readRequestHead`, `getQueryParams` | `RequestTarget`; `request.ts`, `query-params.ts` | one reading of the line against the other; the query between two question marks |
| `decodeUriComponent` | `RequestTarget` | what a character stands for by its position |
| `rpc`: `refuseUntrusted`, `dispatch`, `encodeResponse`, `encodeError` | `BridgeRpc`; `bridge.ts` | `RpcTellsWhatHappened` |
| `deepEqual` | `DeepEquality`; `equality.ts` | a path of fields that tells two tables apart |

Texts are sequences of what the code tells apart: JSON tokens for the recursive
descent, characters and escapes for literals, sextets for Base64, CR, LF and
"other" for a head. A heap maps names to tables, so tables share and contain each
other. `decode` keeps the length of an array with holes beside the table, as
`DECODED_ARRAY_LENGTHS` does, and `TextReadsBack` encodes what it has decoded.
Whether a heap may be written is decided from the documentation's rules on lists,
holes and names (`IsArray`, `IsObject`), not with the encoder's own `Shape`.
Upwards from nines alone `stepDigits` drops the carry (section 10), and the property
keeps what does hold there: the candidate lies below the decimal, so it cannot be
taken for the value. `RpcTellsWhatHappened` says that the caller's Lua runs only for a
request without an origin, of the JSON media type and with the token, and that every
trusted request is answered by the service, except with an id too large for a double.
In `DeepEquality` an `objectContaining` may not contain a table that leads back
to itself: the code's comparison does not end then.

## 8. Runs

Distinct states; symmetry is used in `sched_safety` and `sched_pending_budget`
only, and in no run with liveness.

| Run | Question | Instance | States |
|---|---|---|---|
| `sched_safety` | do the scheduler's safety and step properties, its service order and the refinement of `HttpExchange` hold? | 2 slots; requests without a body, with one of 2 bytes, refused; responses within and over the limit; chunks of 2, visits and pumps of 3 bytes; a budget for one body, not two; one dispatch a pump; timeouts of 3, 2, 2 and a clock that advances between and inside pumps | 1.3 M |
| `sched_live` | is a complete request dispatched, does every connection end? | 3 slots, 3 visits, 1 dispatch and 1 accept a pump, a clock that advances between pumps | 0.39 M |
| `sched_starvation` | the same with 2 visits a pump | violated, see section 10 | |
| `sched_pending_budget` | do waiting responses hold body budget? | violated, see section 10 | |
| `app_requests` | is each request answered once, by its own handlers? | 2 requests, 3 handlers (without a route, two routes with one parameter under two names), 3 activations, 2 calls of `next` each | 2.9 M |
| `install_steps` | can installs be repeated, undone and cut short? | 2 profiles, 3 versions of the game of which one has no anchor, 1 failed write, 2 tokens; an update may leave no `MissionScripting.lua` | 1.0 M |
| `luatest_runs` | what runs, in which order, and what is reported? | scripts of 4 declarations: 2 tests, 2 suites, 2 hooks, 1 flag, 1 failing body; `run()` at the top level and in describe bodies | 0.80 M |
| `luatest_run_inside` | does a script with a failed or lost test never end with status 0? | violated, see section 10 | |
| `luatest_mocks` | do spies come off and mocks record? | 3 mocks, 4 calls or settings | 3.7 M |
| `luatest_restore` | is the original back once no spy is active? | violated, see section 10 | |
| `mission_doubles` | do callbacks leave the world consistent? | 2 group names, groups of up to 2 units, all 5 handlers, 2 scheduled functions, 12 runs in one `advanceTime`, 4 operations of the script | 0.69 M |
| `codecs` | do the pure functions do what they promise? | JSON texts of 5 tokens (6 of brackets), heaps of 2 tables, literals of 4, Base64 of 4 bytes, heads of 7 bytes in every fragmentation, 3 headers, lines of 6 characters, all RPC requests, pairs of 2 by 2 tables | 0.92 M |

Why the bounds are enough. The scheduler's byte limits make every comparison fall
on both sides and at equality (a chunk cut by the visit's allowance, a visit cut
by the pump's budget, a pump whose bytes are spent, a head and body in one chunk,
a body over several visits), and timeouts of one to three units let a deadline
pass before, during and after the visit that meets it. No state constraint is
used: times are distances and slots are reused, so those runs cover behaviours of
any length. In `sched_safety` a pump that runs out of time leaves a connection
unreached, and `reorder` moves it before the visited one; in `sched_live` every
connection is visited and one may be refused. A list with a connection visited, one
refused and one unreached in the same pump is met by `sched_starvation`, and
`SpecServiceOrder` proves the order for lists of any length. In `app_requests` three activations let a handler call
`next` twice and a third one belong to the other request. In `install_steps` one
fault can hit every write, between every step of the game, and a second command
start from what it left; `OneFailureKeepsTheText` says "one" because it is not
true of two. Two tests and two suites give every nesting in which focus, skips
and hooks of one suite can reach another's test. Three mocks give a spy on a spy
and a mock of a mock. Four operations of the mission script are enough for a
group, a handler and two functions that change each other, and with 12 runs in one
`advanceTime` every such call comes to its end: a larger bound reaches no more
states. Wherever the script or the environment may simply stop at a bound, or a
function is called once, the configuration turns the deadlock check off; the
scheduler's runs check it: a closed server still accepts calls, which do nothing
(`CallAfterClose`).

Fairness. Only the scheduler has liveness properties. `Fairness` is weak fairness
of `Pump` and of the steps inside a pump: the README of tslua-http requires the
host to call `pump` again and again, and everything below it is one thread that
runs on, non-blocking sockets included. `TimedSpec` adds that infinitely many
pumps find the clock advanced, which timeouts need and a wall clock does. Nothing
is assumed of clients, sockets or the handler's outcome except that a handler
returns. `sched_live` lets time pass between pumps only: with a clock that spends
every pump's time before the visit a ready request may wait for ever, and no
comment promises otherwise. The other components have nothing that goes on by
itself: they run when a script, a request or a user calls them.

## 9. Proofs

Every theorem is `Spec => []P` or `Spec => A` for all values of the constants that
satisfy the named assumptions; nothing else is assumed.

| Module | Theorems | On |
|---|---|---|
| `ConnectionSchedulerProofs` | `SpecIInv`, `SpecTypeOK`, `SpecHandlerOnce`, `SpecOneHandler`, `SpecClosedForGood`, `SpecServiceOrder`, `SpecVisitGapBounded`, `SpecWithinBodyBudget`, `SpecVisitWithinPumpBudget` | the scheduler's invariants |
| `SchedulerAccountProofs` | `SpecAccountInv`, `SpecBodyBudgetExact`, `SpecHandlersWithinBudget`, `SpecCompleteDelivery`, `SpecOverdueNeverProgresses`, `SpecStatsBalance`, `SpecImplementsExchange` | its accounts, what its steps may never do, and the refinement of `HttpExchange` |
| `ApplicationProofs` | `SpecAppInv`, `SpecOneHandleRequest`, `SpecRunsOwnStack`, `SpecOwnParameters`, `SpecMisdescribedIsRecorded`, `SpecAnsweredOnce` | `Application` |
| `BridgeInstallerProofs` | `SpecInstallerInv`, `SpecTextInv`, `SpecRunningGameKeepsAccepting`, `SpecOneFailureKeepsTheText`, `SpecInstallLoads`, `SpecUninstallRestores` | `BridgeInstaller` |
| `MocksProofs` | `SpecMocksInv`, `SpecNewestSpyIsInPlace`, `SpecEveryMockRecordsTheOutcome`, `SpecLastSettingWins`, `SpecRestoresAll` | `Mocks` |
| `TestRunnerProofs` | `SpecRunnerInv`, `SpecReportedOnce`, `SpecGreenIsGreen`, `SpecStatusesAgree`, `SpecSetUpAndTearDown` | `TestRunner` |
| `MissionWorldProofs` | `SpecWorldInv`, `SpecGroupsMatchUnits`, `SpecBirthsAreReportedOnce`, `SpecFunctionsRunInOrder`, `SpecNoFunctionIsLost` | `MissionWorld` |
| `InductionLemmas` | lemmas only | induction and recursion over the naturals |

A theorem named after a property of section 8 proves that property. TLC has checked
each inductive invariant (`IInv /\ AccountInv`, `AppInv`, `InstallerInv`,
`MocksInv`, `RunnerInv /\ FlagsFit(nodes)`, `WorldInv`) on the constants of the run of its component
before it was proved.

Assumptions. The scheduler's are what `resolveServerOptions` enforces
(`options.ts:158-191`), with integers for times, that the sets of requests,
response lengths and clock advances have their types, and that there are finitely
many client slots, however many: `BodyBudgetExact` is a sum over them. Sets of
requests may be infinite. `RegistrationAssumption` and `FilesAssumption` are in
section 5; `FunctionsAssumption` says that the test's functions, the original
method and "no value" are different and are no mocks. `MissionWorld` assumes that
there is a group name, that its bounds are naturals and that handlers are of the five
kinds.

### The scheduler

None of the properties is inductive. `HandlerOnce` needs to know that a
connection still reading or ready has not been handled (`ConnOK`). `OneHandler`
needs the agreement of the program point with the visited connection
(`StageInv`): that only the visited connection can be in a handler, and that a
re-entrant call finds `pumping` set. `ServiceOrder` needs that the connections
from the visited one on are still open (`VisitInv`), so that a visit never
touches a closed connection, and that the list has no duplicates (`OrderInv`).
`VisitGapBounded` needs the same bound inside pumps (`GapInv`): a pump that does
not reach a connection moves it forward by at least one place. `IInv` is their
conjunction, in `SchedulerInvariant.tla`.

The proof has one lemma per action (`PumpInv`, `AcceptClientInv`, ...), on top of
lemmas for what several actions share: what a visit's update of one connection
preserves (`VisitStep`), what refusing and failing do (`RefuseStep`, `FailStep`),
what an action that only reads the clock preserves (`ElapseFacts`,
`SilentStep`), and what the operators on a connection return (`ConsumeFacts`,
`AppendBodyFacts`, ...). `EndPump` rests on `ReorderFacts`: the place of a
connection is one more than the number of kept ones before it, which is an
injection of a finite set into an interval of its own cardinality and hence onto
it, so `Reorder` lists every kept connection once; and on `UnreachedMovesUp`:
an unreached connection has fewer of them before it than its old index.

`AccountInv` is inductive together with `IInv`. `DeliveryInv` ties what a
connection has delivered to its write position, and gives `CompleteDelivery`;
`PaidInv` ties handlers started to what is left of the pump's dispatches;
`CountInv` counts, while a pump runs, the connections that are no longer open: those
it has counted, and those `close()` has released, of which the visit that closed the
server counts one (`CountedDropped`). It gives `StatsBalance` for every pump. `BodyBudgetExact` is a sum defined by recursion
over the set of slots: the module proves that such a sum exists, that it changes by
what one slot changes, and that of zeros it is zero, and then that each action
changes `bufferedBodyBytes` and one reservation by the same amount.
`OverdueNeverProgresses` and `HandlersWithinBudget` need `IInv` only: which
deadline a state still reads, and that a visit checks it before it moves.

The refinement maps initial states to initial states and every step to a step of
`HttpExchange` or a stutter. A visit moves one slot, and its phase as one of the
promise's actions says (`PhaseOf` before and after); what the other slots' phases
rest on does not change. The abstract handler's exclusion comes from `StageInv`,
its "handled at most once" from `ConnOK`, its whole deliveries from `DeliveryInv`.

### The application

`AppInv` speaks of every frame on the call stack, not only of the innermost: each
one but the error handler's stands for an entry of its own request's stack
(`RunsOwnStack`), and so does every `next()` a handler has kept; only the outermost
frame can be `handleRequest`'s, and the request it is for is the one being handled
(`OneHandleRequest`, which is inductive with `FrameInv`). A handler reads the
request's shared parameters, and `ParamsInv` says they are its own while it is
innermost and has not called `next()`: the frames below it have called one, so no
return gives a wrong set to a handler that still counts. `DescribedInv` extends
`MisdescribedIsRecorded` to the response while it is written. Most actions leave
all frames but the innermost alone (`StayInv`), or remove that one (`PopInv`).

### The installer

The proofs about `MissionScripting.lua` hold for texts of any length. A text is
`Plain` when it has no end mark, and a begin mark, which only a cut write leaves,
only behind an anchor; `Sound` when it is plain, or a plain text with one loader
behind its first anchor. The lemmas: stripping a patched plain text gives it back
(`StripPatched`: the first begin mark of a patched text is the one patching put
there, as the first anchor comes before any other), stripping a plain text changes
nothing, every beginning of a sound text is sound (`SoundCut`), which is what a
failed write leaves, and a plain text patched has one end mark. So `TextInv` is
inductive, and `UninstallRestores` and `InstallLoads` follow. `FilesInv` says what a
command has written or removed by the time it gets to each of its operations, while
a game may start, load and stop between any two. `OneFailureKeepsTheText` needs
`KeepInv`: as long as nothing has failed, the text in the file and the one in the
command's hands come from the first text, no backup is of anything else, and
nothing is patched without a backup; so one failure can spoil the file or the
backup, not both.

### The mocks

Spies form a stack as long as they are restored latest first (`StackInv`): each
active one will put back the one below it, the lowest the original, and the
uppermost is in place. `restoreAllMocks` goes through them from the top, by
induction (`UndoneAll`). A mock calls only what was made before it (`CalleesInv`),
so the path of a call goes strictly down until it stops (`PathDescends`) and then
stays where it is (`PathStops`): every call comes to its end, and every mock on its
path records the outcome of the last function on it.

### The runner

The proofs hold for scripts of any size. A declaration's parent comes before it
(`IsTree`), so what holds of the root, and of a node when it holds of its parent,
holds of all (`TreeInduction`); that gives the facts about paths and about what is
`Below` a suite. `Lists(rs, N, T, X)` says that `rs` reports every test of `T` once
and names nothing else but nodes of `N` that are no tests, with records of `X`
only. It is proved of one record, of two parts joined (`ListsJoin`), of children
executed in turn (`InTurnLists`), then, by induction on the depth, of the walks
that do not run anything (`ReportNotRunLists`) and of those that do (`RunLists`).
`ReportedOnce` alone is not inductive: `RunnerInv` adds that the declarations are a
tree, that the open describe bodies are the path to the current suite, that only
blocks are pending, that the open one is pending or cut by a `run()`, and that the
list of results is of the blocks not pending (`Accounted`). Of a cut block `Accounted`
says less: while it is open each of its tests is reported once at most, once it is
complete twice at most (`Complete`), and there may be tests that are not. A `run()`
in the body of a pending block reports its tests and makes it cut, which is the step
that keeps the account. `GreenIsGreen` follows with what `RunnerInv` says of a script
that goes on and has no cut block: it has reported no failure, as each failure ends
it, and only the describe body of a cut block can have swallowed one.

`StatusesAgree` compares two accounts of one execution: `Expected`, from the
declarations and the failing bodies alone, and what the walk over the tree reports.
`Settled` says that the two speak of the same execution. First the flags: a walk
enters a suite exactly when a test below it is `Selected` (`HasRunnableChosen`), and
`AnyFailing` of a list of hooks is that one of them fails (`HooksFail`), so a test
that is run passes or fails as `Fails` says (`VerdictIs`). Then one suite has three
cases: nothing in it is selected (`NothingChosen`), its own beforeAll fails
(`OwnHooks`), or its children are walked in turn (`InsideLive`). `SuiteStatuses`
joins them into one step and `RunStatuses` iterates it over the depth; `BlockAgrees`
and `RootAgrees` are its results for a block of the auto-run mode and for `run()`.
The count needs `RunLists` again: no result is reported twice in one execution.
Whether the root's hooks count is the execution's own `whole`; that `todo` and a
throwing body are flags of tests only is `FlagsFit`, an invariant of every
declaration.

`SetUpAndTearDown` is about positions in the log of one execution. `Enclosed(log, e, s)`
says that whatever the execution runs within the suite `s` lies between its beforeAll
and its afterAll hooks. `Places` and `LogFits` say what the log of one node of the tree
holds: only entries of that node and what is below it, each suite of it `Enclosed`.
`InTurnPlaces` joins the logs of children walked in turn, `SuiteLogs` puts the hooks of
a suite around them, and `RunLogs` iterates that over the depth. `Rounded` is the
conclusion for a whole execution, `RootRounded` for `run()` and `BlockRounded` for a
block of the auto-run mode, in which the root's hooks do not run. `EnclosedOnce` then
counts: what lies around everything else lies there once.

### The mission

`WorldInv` says that the world is `Consistent`: every unit's group exists in the
records, a group lists units of its own only and all of them that exist (`Listed`),
existing groups have different names (`Named`), and handlers are registered once
(`Distinct`). `GroupsMatchUnits` is a part of it, and not inductive: that a unit is
listed by its own group only is what makes destroying one group leave the others'
units alone.

A call of the script runs loops, and in them callbacks that run loops. For each loop
there is a function from its rounds to worlds (`ToldInside`, `BornInside`, `Told`,
`BornGroup`, `Rounds`; it exists by `RecursionExists`). The worlds of the first four
are in `After(w)`: consistent, with no unit removed and no handler added, and the
functions as they were. The lemmas go from the innermost loop outwards: `ReactsOk`,
`ReportInsideOk`, `SpawnInsideOk`, `OnEventIs`, `DispatchOk`, `SpawnGroupOk`, `DoOk`,
`RunNextIs`, `RunDueOk`.

`BirthsAreReportedOnce` takes the same way a second time. `Reported(h, w, v, S)` says
that between the worlds w and v handler h, if it stays and nothing raises, is told
once of every unit of `S` and of every new one, and that what it was told of others
does not change. It composes (`ReportedThen`), so it holds along a loop
(`ReportedAlong`): over the handlers with the unit whose birth it is (`ToldReported`,
where `Distinct` makes it once), over the units of a group with these units
(`BornReported`), and over the functions that run with none (`RunDueReported`). The
copy that `dispatchEvent` takes is what the proof rests on: the loop's bounds and its
handlers are those of the world it began in.

`FunctionsRunInOrder` and `NoFunctionIsLost` come from one invariant of
`advanceTime`'s loop (`Advancing`): every run is in order, time is where the last one
ran, every function there was at the beginning is still scheduled, has run, or was
changed by another one, and an error means that the last one raised and is gone. A
round runs the earliest due function (`NextDueIs`), and a callback changes no other
than function 1 (`Done`).

The loop of `advanceTime` is modelled as far as `MaxRuns` functions, and an
`AdvanceTime` in which more are due does not happen; the theorems hold for every
`MaxRuns`, so for every call that ends. That every call ends is not stated.

### Induction

The prover's backends are first-order, and the library's induction theorems take
a predicate as a parameter. `InductionLemmas` has them for sets instead: a set that
holds 0 and with every number its successor holds all (`NatSetInduction`), a function
defined by recursion over `0..m` exists (`RecursionExists`) and stays in a set its
steps stay in (`RecursionStays`). That serves operators written as recursive
functions of a number or, in `SchedulerAccountProofs`, of a finite set. A function
that looks back further than one number (`Chain`, from a node to its parent) exists
by `CourseOfValues`.

### What is only model-checked

* The liveness properties `ReadyIsDispatched` and `EveryConnectionEnds`: fairness
  and `ENABLED` are out of the prover's reach.
* Of `TestRunner`, that the each hooks of a test stand around its body:
  `HooksAroundTests`.
* `Codecs`: decoders, encoders and matchers recurse over texts and heaps; their
  references are recursive too. TLC compares them on bounded inputs.
* The four violated properties, of section 10.

`OneHandler`, `VisitWithinPumpBudget`, `RunsOwnStack` and what `SpecRestoresAll`
says are proved and are no property of a run.

Operators headed MISTAKE are used by no action. Each is a plausible slip in the
definition after it; putting it in that definition's place makes the property
named for it in `PROJECT.json` fail, which shows the property is about the code.

## 10. Where the code and its documentation differ

Shown by runs:

* `sched_starvation`. `scheduler.ts:91-94` and tslua-http's `README.md:75-77` say
  that a connection that loses out in one pump is first in the next, however
  many clients arrive. `reorder` (`scheduler.ts:244-252`) puts unreached
  connections before refused ones. With more connections than visits per pump,
  the newcomers of each pump are unreached and go first, take the dispatches of
  the next, and the refused request is reached after the budget is spent again.
  TLC finds the cycle for 3 connections, 2 visits and 1 dispatch; the defaults
  (32 visits, 4 dispatches, 4 accepts, 64 connections) have the same shape from
  36 open connections on. What does hold is `VisitGapBounded`: nobody goes
  unvisited for long. And with no more connections than visits, `sched_live`
  shows that refused requests are dispatched.
* `sched_pending_budget`. `scheduler.ts:74` says a connection holds its declared
  body until dispatch, and the README's memory bound (lines 112-116) that
  waiting responses do not count. A request that times out in `READING_BODY` is
  answered 408 through `startResponse` (`scheduler.ts:514-523`), which drops the
  chunks but not `reserved`, so the budget stays taken until the response is
  sent or expires. `BodyBudgetExact` holds all the same: the counter is right
  about what the connections hold, and it is given back in the end.
* `luatest_restore`. `mock.ts:233-234` says that `mockRestore()` puts the original
  back. A second spy on a method saves the first spy's mock and writes it back
  even when that spy has been restored before. Restored latest first, as
  `restoreAllMocks()` does, spies come off right (`NewestSpyIsInPlace`).
* `luatest_run_inside`. `run()` called in a describe body executes the block half
  collected and forgets it (`runner.ts:564-571`). The error for a failed test leaves
  the describe body and becomes a failing test of a block that is no child of the
  root any more, tests declared later never run, and the script ends with status 0;
  the README (`tslua-luatest/README.md:111-112`, `129-131`) says that a failing test
  makes the script fail and declared tests that never ran end it with status 1. In
  auto-run mode the block's tests are reported twice.

Seen while modelling, without a run that shows it:

* An id such as `1e999` decodes to `math.huge`, which `json.encode` refuses: neither
  the result nor an error can be encoded with it, and `handleRpcBody` raises out of
  its own catch (`bridge.ts:182`), so the caller gets a bare 500 although `eval` may
  have run; the comment at `bridge.ts:246` promises a response body.
  `RpcTellsWhatHappened` names the exception.
* `tslua-luatest/README.md:374-375` says that `mockReturnValue` wins over
  `mockImplementation` once the queue is empty, "as in Jest". The code
  (`mock.ts:169`) and `tests/mock.ts:74-77` let the last of the two win, and
  `LastSettingWins` states what the code does, against that line of the README.
* From nines alone, stepping up, `stepDigits` of tslua-json (`index.ts:155`) returns
  `"1"` without the carry its comment describes, "9.99 -> 10.0" (`index.ts:191`).
  Subnormals get there: 183*2^-1074 rounds to 9e-322 at one digit, which reads as
  less. The candidate never reads back as the value, so what may be missed is a
  shorter text, not a right one.
* When a handler closes the server, the statistics `pump()` returns count the visited
  connection as closed and none of the others that `close()` has released
  (`scheduler.ts:127-133`, `216-217`, `331`), so they do not add up with what was
  open before it. `StatsBalance` states the difference.
* `install` promises a backup that keeps the original (`tests/cli.test.mjs:84`). The
  backup is written once (`dcs-bridge.mjs:141`): after an update of the game, or
  when it was cut short, it is an old or a partial text.
* A failed write leaves an empty or a cut token file that later installs keep
  (`dcs-bridge.mjs:124`); a cut one is read as a token (`token.ts:24`). An
  `uninstall` with the mission open stops there. A `MissionScripting.lua` cut within
  the block has a begin mark without an end mark, which `stripLoader` leaves alone.
* After its `next()` returns, a handler reads the parameters of the last route
  that ran (`application.ts:365`), which `tests/application.ts` does not expect;
  `app.errors` only grows.
* `eval` with a number or a boolean as `params` is answered -32001, as if the code
  had failed, not -32602 (`bridge.ts:139-146`): nothing ran.
* `usedOnly` is set before a `test.only` in a body is refused, and never reset; a
  failing `beforeAll` reports skipped and todo tests as failed (both in the model).
* A unit that a handler destroys is still reported as born to the handlers after
  it (`world.ts:221`).
* An `objectContaining` in a cyclic expected value is compared without end
  (`equality.ts`).
* `resolveServerOptions` says that it rejects values that disable a bound, and
  lets NaN pass where 0 is allowed and infinity everywhere (`options.ts:178`).

## 11. Not modelled

* In the scheduler: errors raised by the clock at the start of a pump or in the
  accept loop, by a log transport outside a visit or in the catch, socket calls that
  re-enter the server, wording and levels of logs.
* In luatest: declarations made by a body that a `run()` in a describe body executes.
* `server.ts` forwards to the scheduler; `response.ts` assembles a string of which
  only the length matters to it; `constants.ts` is a table.
* Of the bridge, `/health`, its pump clock and `lua-paths.ts`; of the CLI, the
  commands that talk to a running bridge and `build-mission.mjs`. Their hard part,
  which mission answers while another one loads, is decided inside DCS.
* `expect.ts` is one assertion per matcher on top of `deepEqual`, `format.ts` is
  wording; `sortKeys`, indentation and the search for the shortest decimal in
  tslua-json are left out.
* Controllers, warehouses, markers and menus of the mission doubles: values that
  are set and read back.
* The logger (a level comparison before a call), the OpenAPI builder (fields set
  on a document), the test app (one server and one timer), the lua51 launcher,
  benchmarks and scripts keep no state worth an invariant.
* The DCS type packages declare types of a foreign interface. They are most of the
  repository's lines and have no behaviour to model, which is why the share of
  lines these modules stand for stays small.
