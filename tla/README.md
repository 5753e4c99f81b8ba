# OptiMaestro: TLA+ models, model checking and proofs

OptiMaestro is two cooperating processes around a set of shared files.

* **optiserver** (`server/`) accepts HTTP clients, answers them from the shared
  files and tells the optimizer, by signals and over a Unix domain socket, when a
  configuration changed or a calculation is wanted. It is single threaded: every
  object owns one task of MaestroCore's cooperative scheduler and `main()` calls
  `scheduler_work` in a loop.
* **optimizer** (`optimizer/`) is a daemon with a polling main loop, four signal
  flags and a pool of worker threads. Each run fetches electricity prices and
  weather into `cache.db`, adds up the readings of the electricity meter and
  writes the report files that optiserver serves.

Paths below are relative to the repository's root.

## 1. Inventory

| Component | State | Operations | Talks to | Hard part, and what makes it correct |
|---|---|---|---|---|
| TCP listener, `server/src/tcp/tcp_server.c` | state, `client_fd` | accept, hand over, dispose | HTTP server (callback) | one slot for descriptors, overwritten unchecked: no accepted client is lost |
| HTTP server, `server/src/http/http_server.c` | state, error state, retries, `client_fd` | make connections, retry the listener | listener, Opti server (callbacks) | one slot; a start that fails half way: both ends agree whether the server is up |
| HTTP connection, `server/src/http/http_connection.c` | state, retries, buffer, request, status, stored response, `weather_done` | read first line, headers, body; validate; respond; dispose | its instance (callbacks) | fragments, slow clients, callbacks set later than the task starts: one reply, for the request that was sent |
| Opti server, `server/src/opti/opti_server.c`, `server/src/main.c` | state, `http_connection`, instances | hand over, dispose, SIGINT | connection, instance | one slot; a signal between any two tasks |
| Request instance, `server/src/opti/opti_instance.c` | state, endpoint, latest meter reading | parse, build the response of the endpoint, dispose | connection's record, files, meter store, optimizer | frees its connection from a callback; a waiting connection always has a live instance |
| Unix socket, `common/src/unix_domain_socket.c` | listening descriptor, queue of the kernel | listen, connect, accept, one read | optiserver to optimizer | a command may be refused, or dropped although it was sent |
| Optimizer daemon, `optimizer/src/main.c` | four flags, next run, socket | start, run, reload, kill | socket, signals, optimizer run | signals during the work that clears them: what was asked for is done |
| Optimizer run, `optimizer/src/optimizer.c` | configuration, paths | init, reload, run | pool, cache, calculations | early returns; paths freed and used |
| Cache handlers, `electricity_cache_handler.c`, `weather_cache_handler.c` | none | one task each: check, fetch, store | SQL cache, web services | several locked sections for one fetch |
| SQL cache, `optimizer/src/sqlite_helpers.c` | SQLite handle, mutex, tables facility, weather, spots | look up, insert, prune, read | workers, optiserver's reads | worker against worker on one handle, optimizer against optiserver on one file |
| Meter store, `common/src/meter_reading_store.c` | SQLite table in WAL mode | insert, read a range | optiserver writes, optimizer reads | the answer to the meter against what is stored, restarts |
| Consumption analysis, `optimizer/src/consumption_analysis.c` | profile of today and of past days | add up readings; costs, price windows, estimates | meter store, cache, reports | gaps, exchanged meters, midnight, rounding |
| Calculations, `optimizer/src/calculations.c` | price results, a mutex of the report tasks | sums, rankings, reports | cache, facility files | missing prices; an error path that keeps the mutex |
| Config merge, `post_config` in `opti_instance.c` | a facility file | parse updates, merge them into the lines | facility file | a pure algorithm on lines: GET shows what POST wrote |
| Facility configs, `common/src/facility.c` | list of facilities | parse the directory | optimizer, optiserver | a file read while it is being written |
| Price and weather clients, `elprisjustnu.c`, `meteo.c` | parsed answers | build URLs, fetch, parse | web services | malformed and empty answers |
| MaestroCore | scheduler, pool, lists, file and JSON helpers | | everything | a submodule, its files are not part of the repository |
| SQLite, `lib/` | | | | vendored |

`PROJECT.json` lists every one of them with its status, and under "hazards" what
in this code is hard to test, at its line, with the properties that are for it.

## 2. Plan

The order is that of the damage done when the part is wrong.

| | Modules | Abstract specification | Runs | Theorems | State |
|---|---|---|---|---|---|
| A | `ServerState`, `HttpConnection`, `OptiInstance`, composed in `OptiServer` | `RequestService` | chain, requests, live, nullcall | types, hand-over chain, refinement, how a client is served | done |
| B | `OptimizerDaemon`, composed with optiserver's requests in `ConfigRequests` | | daemon, recalc | types, config and run on their way | done |
| C | `SqlHelper`, composed with workers and runs in `OptimizerCache` | | cache, race | types, consistency, ownership, fetches that are whole and stay | done |
| D | `MeterIngest` | | ingest, lostcommit | types, the three invariants, what is lost only by a COMMIT | done |
| E | `ConfigFile`, the lines of a facility file and their merge, in `FacilityFiles`, the directory and POST /config | a map from keys to values, updated (`PostIsAnUpdate`) | config | types, `PostIsAnUpdate`, `StaysLoadable` | done |
| F | `SpotPrices`, averages, marks, windows, periods and estimates, in `Reports`, the report tasks and the analysis | each computation against a definition without its loop | reports | types and all five invariants | done; solar gains left |
| G | `FiniteLemmas`, what the proofs about sums, folds and numberings share | | | lemmas only | done |

## 3. Modules and the code they model

Names are those of the source wherever TLA+ allows it, so `ConnReadHeaders` is
`http_server_connection_worktask_read_headers`, `Prune` is
`sql_helper_prune_cache_locked`, and so on; `map` in `PROJECT.json` gives the
lines of every definition.

### The server: `ServerState`, `HttpConnection`, `OptiInstance`, `OptiServer`

`ServerState` declares the process: the slots and states of the three servers,
a record for each connection and each instance, and the scheduler. A round of
`scheduler_work` runs every live task once; `pending` is what it has still to
run. MaestroCore's order of tasks is not known, so any order is allowed, and a
task created in a round may or may not run in that round.

An action is one call of one task in one state: everything the C function does
until it returns, callbacks included. `TcpHandOver` thus includes
`http_server_on_accept`, and `ConnDispose` includes `osi_on_dispose` which frees
both connection and instance. `Sigint` is `handle_sigint` between any two tasks.

The data is cut down to what the control depends on. A request is a record: what
kind of first line it has, whether the method is known, what its path names,
what its headers are like, whether a body is announced, and how many of its three
parts the client really sends. Reading takes any number of parts at a time. An
endpoint answers with any code it can answer with. A path names an endpoint, none,
or one of the two that `worktask_request_validate` takes itself (`BuiltIn`):
"/echo" and "api/v1/echo", of which only the first is given its body back
(`ReplyOf`). `OptiDispose` disposes of the two listeners; that `opti_s_dispose`
closes the cache handle and the meter store too (opti_server.c:294 and 300) is left
out, for no state of these modules is in them.

`RequestService` is what a client sees: it is let in, gets at most one reply and
then sees its connection closed, or is turned away. `OptiServer` implements it
with a refinement mapping that reads the phase of a client off its connection's
record (`PhaseOf`).

### The cache: `SqlHelper`, `OptimizerCache`

`SqlHelper` is the database and the locking: `disk` is what is committed, `view`
what the optimizer's handle sees. SQLite runs in rollback mode without a busy
timeout, so a COMMIT finds a reader and fails, the transaction stays open
("stuck") and keeps new readers out; the code looks at neither BEGIN nor COMMIT.
`OptimizerCache` is `optimizer_run`: tasks in a queue, workers that take them, and
for each the steps between which the mutex is not held: check, fetch, lookup of
the facility, insert, commit, prune. Killing the process is possible between any
two steps.

A facility is inserted under its exact place and looked up within 0.0001 degrees
and in no order (sqlite_helpers.c:221-224). `Near` says which keys the lookup does
not tell apart, and `IdsOf` gives any row of such a key, so that the weather of two
neighbours may be stored under one id, as in the code.

Time is the number of the run; a fetch of run r brings the weather of r, or of r
up to `r + Horizon` for a forecast. `Configured` says which facilities a run finds
configured. The history variable `refused` is set when a COMMIT fails: from then on
a ROLLBACK takes other workers' rows with it, and what three of the invariants say
is no longer true of the code.

### The daemon: `OptimizerDaemon`, `ConfigRequests`

`OptimizerDaemon` is `main()`: start in three steps (configuration, socket,
signal handlers), the loop that looks at one flag per round in the order of its
branches, and `uds_server_step`, which accepts a connection and reads it once.
A run and a reload have a beginning and an end, and signals and connections come
in between. `ConfigRequests` adds optiserver's endpoints as sequences of steps
(`Steps`): POST /config opens the file (which empties it), saves it, sends USR2,
the socket commands "reload" and "run", and USR1; /recalc and the start of
optiserver only use the socket. A socket command is a connect and, later, a
write; the daemon may take the connection in between.

Two history variables: `ran`, a run has begun, and `lost`, the commands that the
socket refused, that ended with the daemon or that were tried and failed. Both
are reset by a request and by the save. An interrupt from a terminal only arrives
when the loop is about to look at its flag: an earlier one would wait in the flag
until then. A restart of optiserver is modelled where the code brings it about, a
SIGPIPE of its write; a kill from outside is not.

### The meter: `MeterIngest`

POST /ingest, GET /power/current, the store, and `load_global_meter_rows` with
`build_profile` of the consumption analysis. INSERT, COMMIT and the answer are three
steps, the first two may fail, and optiserver may be killed before, between and
after them. A COMMIT that fails is rolled back by SQLite (`sqlite3VdbeHalt` in the
vendored source) and not looked at by the code, which then answers 200 (`AnswerOk`);
the history variable `uncommitted` holds the readings this happens to. The optimizer
reads the rows at one moment and builds the profile at a later one, when the day may
be another. The model's clock ticks: a day has `Day` ticks; the register counts what
the house uses, readings may be lost and the meter exchanged. `DayIndex` divides as
C does, towards zero. Rows of one second come in the order of their ids; the clock
is never set back.

### Facility files: `ConfigFile`, `FacilityFiles`

`ConfigFile` is a file as a sequence of lines and what the code computes from it:
`Lookup` is `osi_copy_config_value` (the first line of the key that has a value),
`Updates` the table after `osi_parse_config_updates`, `Merge` is
`osi_merge_config_updates`. A line has a key, a value and a newline that the last
one may lack; what is appended is then glued to it (`Joined`). Values are model
values; a value that is cut or glued is `Garbled`. What the optimizer can load
(`Usable`) is a file with a line for each obligatory key, where the older
`price_class` counts as `energy_zone` (`HasObligatory`, facility.c:33-42).

`FacilityFiles` is the directory and POST /config. A facility is found by the name
in its lines; only when no file has it is the file called after it, and
`osi_build_facility_filename` sends different names to one file, which the
constant `FileOf` allows. Which of several files `readdir()` gives first is open.
Opening the file empties it, writing it may be cut short anywhere
(`Truncations`), and the process may be killed before, in and after the write.
A body with a `name` is copied into a buffer that nothing reads, and one byte
is written behind it (`CrashInParse`).

### Reports: `SpotPrices`, `Reports`

`SpotPrices` holds the computations on the prices of a day as operators:
`Cheapness` (`calc_daily_averages_threadtask` and the classification),
`SpotAtBucket`, `BestWindow`, `Period` (`minmax_price_windows`) and `Estimate`
(`estimate_tomorrow_spots`). The code's doubles are exact integers here: a
quotient is compared by its numerator, an estimate is given in parts of a unit.

`Reports` is what `optimizer_run` does after its caches are filled:
`calc_create_reports`, whose tasks run one after the other because `tp_wait` is
called in the loop, and `consumption_analysis_create_reports`. Each task loads
(`Load`, `LoadFacility`), which reads the clock and the table anew, and then
writes its files one by one under the mutex; every write and every load may fail,
and the process may be killed between any two steps. `calc_create_reports` may fail
as a whole, which ends the run (`CreateReportsFails`). A report is the prices it was
made from; the properties say what those prices have to be and what the operators
above make of them.

There are two clocks. Files are named by the local date (`Date`), prices are looked
for by `epoch_now_day` (`Day`), a function of MaestroUtils that is taken to give
midnight UTC. A date therefore has three parts: from local midnight to midnight UTC,
an hour or two in which `Day` is still the day before; the morning; and the
afternoon, when tomorrow's prices are fetched. `Tick` goes from each to the next,
between any two steps of a run. An analysis names its files by the date it took when
it loaded its facility, a task by that of the write (`OfToday`). The prices of a day
begin at local midnight; the code takes them to begin an hour before midnight UTC,
which in summer is an hour late: `lead` is that hour, and it changes on the day the
clocks do. What was used and what it costs is not modelled here.

## 4. What is checked

| Run | Bounds | Distinct states | What it shows |
|---|---|---|---|
| `chain` | 3 clients, 1 kind of request, failing accept and connection, SIGINT | 898 237 | no client is lost in the chain, no callback is called before it is set, the inductive invariant, a waiting connection has its worker, nobody is taken further after SIGINT |
| `requests` | 2 clients, a POST and a GET of "api/v1/echo" in any fragments, failing start, store and allocations | 2 093 417 | 200 only for requests that can be served; refinement of `RequestService`; the scheduler never holds a task of a freed object |
| `live` | 2 clients, a POST and an unknown method for "/echo" in any fragments or never | 422 020 | every client is served to the end; refinement with fairness |
| `cache` | 2 workers, 1 price class, 3 facility keys of which two are near, exchanged between 3 runs, every fault, a reader | 353 802 | consistent tables, every time of the latest fetch there and fresh; rows of their own facility, whole commits, what was stored stays, as long as no commit was refused; every run ends |
| `daemon` | 2 configs, a backlog of 1, every fault | 1 277 906 | a POST answered 200 has its config loaded or still to be loaded, a run begun or still to begin, and in the end reports made with it |
| `ingest` | 4 ticks (2 midnights), 3 readings, every fault | 5 553 261 | what a meter was answered agrees with what is stored, but for a COMMIT that failed; nothing is counted twice, and nothing is missed while readings keep coming |
| `config` | 3 files, 2 names, 3 keys and the old one, 8 installations, 5 bodies, 1 write cut short, every fault | 518 940 | a POST answered 200 updates the settings in its file, and leaves it loadable |
| `reports` | 1 facility with panels, 2 dates, 3 hours of 2 slots, 1 fault of any kind | 218 768 | after a run left in peace the reports of the date are fresh and whole; marks, windows, periods and estimates are right; a run ends |

Four more runs end in a violation on purpose: they check what a comment, a guide or
the README says, and the code does something else (section 7).

Why the bounds are enough. The chain has three slots of one entry each, so three
clients are the first number at which a slot could be overwritten while the next is
full; what they ask for does not matter to it, so they all ask for the same.
`MaxRetries = 1` and 3 attempts of the listener let every counter run out. First
lines and headers that are malformed are answered by the path an unknown method
takes; that 200 is never their answer is proved for every set of requests. Two
workers are needed for every race on the mutex and the tables; in the run `race`
they insert for one key and for two. The three keys of `cache` are configured in
turn (`Exchanged`): a facility alone, then two neighbours, then the first again, so
that in the third run rows of the first are old enough to be pruned (`Retention =
1`; weather of run 1 is gone in run 3), facilities that are no longer configured
lose their rows, and two workers store under one id at the same time. A backlog of 1
makes the queue full with two waiting connections, where the real one has 5. Two
configs distinguish an old one from a new one. Four ticks with days of two ticks
contain two midnights, a gap longer than `MaxGap` and a step larger than `MaxStep`.
Three files are the facility's, the one its name would give and the template; the
installations contain a file without its last newline and one with a key twice, and
after one write that is cut short every POST works on what it left. Three hours of
two slots are the smallest day on which hours and quarters differ and an hour can be
left out or added; two dates with a change of the clock between them are a day of
its own length before each of the two calendars; runs before midnight UTC, in the
morning and in the afternoon see every combination of the two days and of prices for
tomorrow. One fault is enough for a run to be disturbed and the next to repair it;
killing a process that hangs is not counted. Two facilities were beyond five
minutes; the facilities share nothing but the mutex and the list, and `AfterTask`
and `AfterFacility` are exercised by the two tasks of the one.

Symmetry is used for clients and workers, in runs without liveness properties
only; the action property `StopsTaking` treats all clients alike.

Deadlock is checked in every run. Where the program stops, an action says so:
`Ended` and `Finished` stutter when the process is over or the bound on runs is
reached.

### Fairness

* `OptiServer!FairSpec` has weak fairness of `Work`, some task or a new round:
  `main()` never stops calling `scheduler_work`. Fairness of a single task is not
  assumed; it follows from the rounds. Nothing is assumed of clients.
* `OptimizerCache!FairSpec` has weak fairness of each worker's steps and of the end
  of a run: threads are scheduled, and a blocking fetch returns one way or the
  other, which is assumed of MaestroCore's HTTP client. `EndRun` waits in `tp_wait`.
  Nothing is assumed of optiserver's reads.
* `ConfigRequests!FairSpec` has weak fairness of the daemon and of optiserver's
  request under way: both processes keep running, and a run and a reload end.
  `SavedIsReported` says in its own premise that interrupts come to an end.
* `Reports!Spec` has weak fairness of `RunStep`: the run is one thread of control,
  which the system schedules. Nothing is assumed of the fetch, the clock or a
  crash, and a task that waits for a mutex nobody gives back has no step.

### Mutants

Every property of a passing run has a definition that changes the model as a
plausible bug would (named in `PROJECT.json`, defined beside the original): a slot
handed over without waiting, a task not destroyed, a retry that is not counted, a
mutex given back before the commit or kept by a prune, a transaction that is not
begun, a daemon told before the file is written, a reading answered before its
commit, an updated line without its newline, a loop that passes over the last
window, a failed write that keeps the mutex. TLC finds the property violated in each.

## 5. What is proved

For every value of the constants that the named ASSUMEs allow; TLC evaluates these
assumptions in every run.

**`OptiServerProofs`.** `TypeCorrect`: `Spec => []TypeInv`, whatever fails.
`TypeOK` alone is not inductive: a reply has a status only because a connection
enters RESPONDING with one (`StatusSet`), a slot holds a descriptor only because
the state that hands it over was entered with one (`SlotsFilled`).
`HandOverSafe`: `Spec => []HandOverInv`, with `NeverCallsNull` and
`NeverLosesClient` as consequences, provided the listener opens at start and
instances can be allocated (without the first the run `nullcall` shows the
crash). That no slot is overwritten holds by timing alone: the invariant says for
each slot in use which tasks have still to run in this round (`HttpTakesInTime`,
`OptiTakesInTime`) and how far a connection without callbacks can have got
(`ConnWaitsInTime`). It holds for every order of tasks in a round.

In the same module `Refines`: `Spec => ImplementsService`. Initial states
map to initial states; each step of a connection is a stutter, an answer or a
close, for which the lemma needs from `TypeInv` that the reply has a status.

**`OptiServerServing`.** Four theorems about one client among any number of others.
A step is first reduced to what it does to that client: `Touch(c)` lists the
dozen ways, and `EachTouched` shows that every action is one of them for every
`c`. The invariants then only have to survive `Touch`. `TasksHaveObjects`:
`ClientLifetime` says which objects and tasks exist in each state of a connection,
`OptiSlot` that a connection in the slot of the Opti server has no instance yet,
`StoppedServers` that no server has a task after SIGINT. `NobodyTakenAfterStop` is
an action property from the same invariant. `WaitersAreServed` needs allocations
to succeed; `OnlyServableAnswered` nothing: its invariant follows a request
through the parts that have been read.

**`OptimizerCacheProofs`.** `TypeCorrect`, which includes that the mutex is held
exactly by the worker in a locked section. `TablesStayConsistent`: no weather
without its facility and no facility twice, in what is committed and in what the
handle sees, whatever is refused or killed. `RowsStayWithTheirFacility`: until a
commit is refused, weather is stored under the id of the facility it was fetched
for, or of one that the lookup does not tell from it; the invariant `Own` adds that
an id a worker still holds has either such a facility or none, which AUTOINCREMENT
guarantees as long as no insert is rolled back (`Extends`: ids are never given
twice). `LatestTimesStayFresh`, with every fault: the invariant `FreshInv` says it of
both what is committed and what the handle sees, for every fetch rather than the
latest one, as "each of its times has a row at least as recent".
`LatestFetchStaysWhole`: rows of one id and one run are of one fetch, or of two near
facilities that share the id, one stored over the other.
`WhatIsStoredStays`: the invariant `StoredInv` follows a fetch through the insert,
the commit and the three statements of the prune, and through those of the other
workers; it needs that rows are kept until their day is over (`RunsPerDay <=
Retention + 1`; the code keeps them 30 days). These three end with the first refused
COMMIT, not with the first reader: with one that is rolled back they are not true,
from three workers on, since ids are then given away twice.

**`ConfigRequestsProofs`.** `TypeCorrect`. `ConfigOnItsWay`: the invariant
(`ConfigInv`) says that from the socket's reload command on the config is loaded,
queued, flagged or recorded as lost; the flag alone would not do, for a reload
under way clears it. `RunOnItsWay`: the invariant (`RunInv`) adds what makes the
last signal of a POST sufficient: while a run that began before the save is still
going, the daemon has not accepted the connection the run command is written
into, so either that command waits in the queue or it was lost.

**`MeterIngestProofs`.** `ToldTheTruth`: the invariant `ToldInv` says which readings
have come through their COMMIT, well or not, which of them are stored, and where the
one being answered stands. `StoredWhereCommitsWork` draws the conclusion for a disk
on which no COMMIT fails: there every accepted reading is stored for good, as the
guide says, so that the unchecked COMMIT is all there is to it. `CountsNothingTwice`
and `MissesNothing`: `OrderInv` says that rows are stored in the order of their
times, with registers and use that grow together, and `AnalysisInv` that the rows
the optimizer has read are such a sequence. A profile's two totals are then sums
over two disjoint sets of pairs of neighbours, and what is counted of a growing
quantity in disjoint pairs is no more than it grew (`CountedOnce`), and all of it if
no pair is left out (`CountedAll`).

**`FacilityFilesProofs`.** `PostUpdates` and `LoadableStays`: what a POST answered
200 has left in the file is `Merge` of the file that was there and the updates
(`FileInv`, through all steps of the write). `MergeShape` then says line by line
what a merge is: each old line as it was or with its new value, the last one whole
or glued, and behind it the missing keys once each (`Ranks` of `FiniteLemmas`
numbers them). Reading a key back is finding the first such line with a value
(`LookupMerged`). A POST opens one file and writes it later; the part `WriteInv` of
the invariant says that the file about to be written is still as empty as `fopen`
left it. A facility stays loadable although the keys a POST sets are those of its
table: a line with the old key of the zone is one of those a merge leaves as they
are.

**`ReportsProofs`.** `TypeCorrect`: the place of a run in its two lists.
`RunsLeaveFreshReports`: `Spec => []FreshAfterRun`, for any number of facilities.
The invariant (`FreshInv`) has a part for each thing that is behind the run: the
tasks before the present one have reported the newest prices (`TasksFresh`), the
facilities before it are analysed (`FacilitiesFresh`), what is loaded is of the day
(`DataFresh`), and the files of the present one that are already written are fresh
(`WritesFresh`). While nothing disturbs the run neither the date nor the day changes, so
that a file that is written again gets what it had (`Stays`), under the name it had.

The other four say that what a report shows is right for any prices. They share one
invariant, `PriceInv`, which ties a report to what is stored: a stored day has
either no prices or as many as it is long (`StoredOk`); an analysis that has loaded
holds the prices of that table (`ReportOk`); and a task adds to the sum of its prices
nothing from behind them, unless the day is too short for the calculation
(`HourlyOk`). `PricesAreOfTheirTime`:
the index arithmetic of `SpotAtBucket` gives a bucket the price of its slot, with
one price an hour or one a slot, and of a period the price that is printed and every
price in it are near the extreme. `RecommendsTheBestWindow`: the fold over the
starts keeps the better of the best so far and the next, so at its end the result is
the first of the best. `EstimatesAreSensible`: with days as long as today an
estimate is a linear combination, with the weights as coefficients, of one or two
days and today; its sum (`SumLinear`) and the order of its slots follow from those.
`MarksAlwaysAgree`: if an hour is above or below the average then one of its slots is
(`SumBounds`), and the thresholds of the marks are the same multiples for both. They
assume of the constants (`ReportConstants`) what the code's types say: prices and
over-read values are integers, trends are not negative and weights are positive, and
that the service has at least as many prices as the longest day, from which a fetch
keeps those of the day.

**`FiniteLemmas`.** What the others cite. `SetInduction` and `SubsetInduction` are
induction over a finite set for a set of subsets instead of an operator, which is what
makes them usable here. The community modules' `MapThenSumSet` is a recursive
function, and the library's induction theorems cannot be instantiated; that it exists
is proved by induction on the size of the set (`AddsExists`), then that any element
may be added last (`SumAny`), and from it that sums are linear and bounded (`SumWith`,
`SumLinear`, `SumBounds`). `Ranks` numbers a finite set of numbers in their order.

## 6. What is only model-checked, and what is not modelled

Out of the prover's reach and left to TLC: liveness (`EveryClientServed`,
`ImplementsFairService`, `SavedIsReported`, `RunEnds` of the cache and of the
reports), which needs fairness and ENABLED. Every
safety invariant and every action property that a passing run checks is stated by a
theorem of section 5.

Not modelled:

* the solar gains of the calculations, the peaks and the series of the 7 and 30
  day reports, the text of responses and reports (data, no control of its own);
* the parsing of the answers of the price and weather services, with the division
  by `price_count` of an empty answer (elprisjustnu.c:178), and the conversion of
  the numbers in a facility file;
* MaestroCore and SQLite beyond what the program relies on;
* an interruption of a task in its middle by SIGINT; failing disks under
  `cache.db`; reports of two facilities at a time.

Some things the code gets wrong by itself, in one step and whatever happens around
it, so that no property of several steps has them as a hazard: a refused
`connect()` leaks its descriptor (unix_domain_socket.c:26); a second dispose of
the listener closes descriptor 0 (tcp_server.c:258, main.c:44); nothing leads out
of TCP_SERVER_ERROR (tcp_server.c:201, modelled as it is); a failing
`sql_helper_insert_spots` returns without ROLLBACK (sqlite_helpers.c:494); a
clock that is set back reorders meter rows (meter_reading_store.c:314, the model's
clock only ticks); paths are freed and not cleared (optimizer.c:115).

`WaiterHasWorker` is checked and proved without failing allocations: with them
(`osi_on_request` ignores `scheduler_create_task`, opti_instance.c:2270) a
connection may wait for ever. Some properties name a case in which the code does not
do what it should, and hold but for it; section 7 says what it does then.
`RowsOfTheirFacility`, `LatestFetchWhole` and `StoredStays` hold until a COMMIT is
refused: one that is rolled back takes the AUTOINCREMENT counter back, and a held id
may then be another facility's. `PostIsAnUpdate` names the glued line, `RunEnds` of
the reports the mutex that is left, `MarksAgree` the days whose average is read from
behind the prices, `AnswersAreTrue` the COMMIT that failed (which `lostcommit` shows),
`OkOnlyIfServableButEcho` the reply of the echo. No property is about these hazards,
and the list in `PROJECT.json` says so: the lock a forgotten handle leaves
(optimizer.c:284), the use of two days in the first bar of the history
(consumption_analysis.c:382), a POST that is merged into the file of another facility
(opti_instance.c:1131), and the shift between the local day and that of the prices
(consumption_analysis.c:195).

## 7. Where the code and its documentation part

Shown by runs:

* `nullcall`: the listener that could not be opened at start is opened by a retry
  30 seconds later, when `opti_s_init` has long given up: the first client makes
  a connection call callbacks that are NULL (http_connection.c:327;
  http_connection.h:65-67 says they are set by the dependent module).
* `race`: the prune of one worker deletes the facility row another has just
  created; the weather it then inserts is lost (sqlite_helpers.c:276).
* `recalc`: GET /recalc is answered 200, and the daemon has closed the connection
  before the command was in it (main.c:90; README.md:421).
* `lostcommit`: a reading whose COMMIT fails is answered 200 and is in no table
  (meter_reading_store.c:287); docs/p1-ingest-testing.md:13 and 26 say that accepted
  readings are persisted and remain in the database.

Seen while modelling, and not checked by a run of its own:

* "/echo" is answered 200 without a look at the status (http_connection.c:353);
  hence `OkOnlyIfServableButEcho`. "api/v1/echo", which is accepted as the echo too
  (322), is given nothing but the reason phrase and is routed to no endpoint.
* A 400 loses the JSON body its endpoint built: the reason phrase is sent.
* The retry limits allow one call more than their name says.
* SIGINT leaves clients unanswered.
* `optiserver-daemon.service` reloads with SIGUSR2, which optiserver does not
  handle.
* A run asked for by the signals of a POST is made with the old config when the
  socket is gone, because the loop looks at USR1 before USR2 (main.c:186).
* The day index of the consumption history divides towards zero
  (consumption_analysis.c:382): the first day of the history counts two days of
  use.
* `osi_parse_meter_reading_json` joins optional fields by `||`: of sag and swell
  counters of several phases, and of `long_power_fail` and the monthly peak's
  time, only the first is read when it is there.
* A read that finds a commit pending is answered as an empty cache
  (sqlite_helpers.c:321 and 367; README.md:228 "Returns cached weather data").
* A facility is looked up within 0.0001 degrees, though it is unique by its exact place
  (sqlite_helpers.c:221-224 against 76 and 179): the weather of a second facility that
  near is stored under the first one's id, over its weather, and the next prune
  deletes the row of the second.
* `calc_create_reports` failing as a whole leaves the cache's handle open
  (optimizer.c:284); if its last commit had been refused its lock stays until the
  daemon is restarted, and every read and every run finds a locked cache.
* A fetch that fails is only logged, and its answer is copied from the structure
  the failed call left behind (elprisjustnu.c:122, meteo.c:358-371); what that is
  depends on MaestroUtils. The models let a fetch fail and let the process die.

POST /config:

* One that makes a new file does not write the `name` of its query into it, so
  that a GET with that name answers 404 unless the body says it too
  (README.md:204); the file then has an empty name, and the optimizer does not load it.
* One for a facility that does not exist does not "create a new config"
  (README.md:204) where the file name made from its name is taken: by a facility that
  was renamed, by one whose name is sanitised alike, or by the template. It is merged
  into that file (opti_instance.c:1132-1140), and changes that facility's settings.
* Keys it appends are glued to a last line without a newline, and both are lost
  (opti_instance.c:1486).
* The file is emptied before it is written: a full disk or a kill in between
  leaves a part of it, and the optimizer may load that part.
* `osi_parse_config_updates` writes one byte behind a buffer it leaks
  (opti_instance.c:1413).

Reports:

* A summary that cannot be opened leaves the mutex of the calculations locked
  (calculations.c:456-461). The next task waits for ever, and with it the daemon,
  which then does not see SIGTERM either.
* From late March to late October the code's day is not the local one. Today's
  window has 92 of the 96 quarters of a day whose tomorrow is not known, so that
  the quarterly report is refused and the hourly average reads four values behind
  the array; costs and windows are an hour late; an installation started after 13
  takes the first hour of tomorrow for today's prices.
* With 24 prices a day each "hourly" entry is an average of four hours, and the
  entries behind them are 0 / 0.
* A negative daily average makes equal prices EXPENSIVE, and an average of 0 is a
  divisor of the deviation; a negative average of today turns the estimate of
  tomorrow upside down.
* `start_hour` of a price period and the price printed with it are indices of
  slots, right only for 24 prices a day.
* The history series has UTC days without the hour the other reports take off.
* Midnight between two tasks puts the prices of one day into the files of the next;
  an analysis that began before midnight writes its files under the old date.
* Between local midnight and midnight UTC, one hour or two, the files of the new date
  are made with the prices of the day before as today's and those of the date itself
  as tomorrow's (consumption_analysis.c:191-195 and 1118, calculations.c:546); the
  first run after midnight UTC writes them anew.
* The use of a day is added up from midnight UTC (consumption_analysis.c:332) and
  charged at the prices of the 24 hours that begin an hour earlier (195): the use of
  the last hour is that of the next date, at the prices of this one's first.
* GET /average-hourly reads `YYYYMMDD-SP24-SE3.json`, which nothing writes
  (README.md:310), and /average-daily ignores `data.calcs.dir`.

## 8. Running it

In this directory, with TLC and the community modules on the path:
`tlc -config MCOptiServer_chain.cfg MCOptiServer.tla`, and so on: each
configuration is named after its module and its run. Every passing run ends
within four minutes on two cores. `tlapm ConfigRequestsProofs.tla` (and the other
seven modules with theorems) checks the proofs.
