# Time Shield: a verification project

Time Shield is a header-only C++ library for working with time. Two of its
subsystems keep state and run threads: the Qt-like **timers**
(`TimerScheduler.hpp`) and the **NTP stack** (`ntp_client*.hpp`,
`ntp_time_service.hpp`). Most of the rest are pure functions: the calendar, time
zones, texts, and values that combine them. This project models both: the
first as state machines whose interleavings are explored and whose safety
properties are proved for any number of threads; the second as
operators that are compared, moment by moment, with a calendar on the wall and
with each other, and, as far as dates, weekdays, clocks and years go, proved to
agree with it at every moment. Paths below are relative to `include/time_shield/`.

## 1. Inventory

| component | state | operations | interacts with | what is hard | modelled |
|---|---|---|---|---|---|
| `TimerScheduler`, `Timer` (`TimerScheduler.hpp`) | registry of timer states, queue of deadlines with lazy cancellation, `m_thread`, three flags, one mutex and condition variable; per timer: interval, generation, active, single-shot, running, external-owner flag, callback | `run`, `process`, `stop`, destructor; `Timer::start/stop/stop_and_wait/set_*`, destructor, `single_shot` | user callbacks run on the worker or on the thread that calls `process()`, and call back into the timers | calls from any thread and from callbacks, callbacks that throw, entries cancelled lazily, spin waits, joins, states that own themselves | yes |
| `NtpClientPoolT` (`ntp_client_pool.hpp`) | servers with `next_allowed`, `backoff`, `fail_count`; configuration; last samples; atomic offset | `measure`, `measure_n`, `apply_samples`, `set_servers`, `add_server`, `clear_servers`, `set_config`, getters | one `NtpClient` per query; owned by a runner | the mutex is released around every query; rate limit and back-off; liars and late answers | yes |
| `BasicPoolRunner` (`ntp_client_pool_runner.hpp`) | thread, stop/force/running flags, a mutex for the pool and one for waiting, statistics | `start`, `stop`, `force_measure`, `measure_now`, `run_loop` | calls the pool from its thread and from the caller's | notifications without the mutex, two measurements that compete for the same servers, statistics written outside the mutex | yes |
| `NtpTimeServiceT` (`ntp_time_service.hpp`) | life-cycle state, process state, the current runner, cached offset, interval, custom servers and configuration | `init`, `shutdown`, `apply_config_now`, `offset_us`/`utc_time_us`, `set_*`, process exit | owns one runner at a time | transitions outside of the mutex, process exit racing all of them | yes |
| `NtpClient`, its core and packet (`ntp_client.hpp`, `ntp_client/ntp_client_core.hpp`, `ntp_client/ntp_packet.hpp`) | a host, a port, the last result | `query` | a transport | lost, late, repeated answers; 64-bit fixed-point timestamps and the end of their era | yes |
| Transports (`ntp_client/udp_transport*.hpp`, `wsa_guard.hpp`) | a socket | `transact` | the operating system | timeouts, datagrams of others | POSIX, as steps of the client |
| Calendar (`date_time_conversions.hpp`, `detail/`, `date_conversions.hpp`, `unix_time_conversions.hpp`, `time_unit_conversions.hpp`, `iso_week_conversions.hpp`, `workday_conversions.hpp`, `validation.hpp`) | none | timestamp to date and back, boundaries of periods, weekdays, ISO weeks, workdays | | negative time, leap years, turns of years, 64-bit multiplication by reciprocals, overflow | all but floating point |
| Time zones (`time_zone_*.hpp`) | none | zone to zone with daylight saving, offsets | calendar | gaps and overlaps at the change, rules that changed | yes |
| Parsers (`time_parser.hpp`, `time_format_parser.hpp`) | fields read so far | ISO 8601 texts, formats, names, timeframes | calendar, zones | optional fields, contradictions, ranges | all but letter case and floating point |
| Formatters (`time_formatting.hpp`) | none | formats, fixed forms | calendar, zones | agreement with the parsers | yes |
| `DateTime` (`DateTime.hpp`) | a moment of UTC and an offset | from and to fields and texts, periods, arithmetic | calendar, zones, texts | another day, month or year in the offset than in UTC | yes |
| Clocks (`time_utils.hpp`, `ZonedClock.hpp`) | anchor of the realtime clock; a zone or an offset | now, the offset of a moment | `NtpTimeService`, zones | lazily initialised anchor | `ZonedClock` without its source of time |
| `DeadlineTimer`, `ElapsedTimer`, `CpuTickTimer` | a time point and a flag | start, stop, extend, query | steady clock | saturation at the ends of the clock | no |
| `MoonPhase`, Julian, OLE, astronomy | none | conversion | calendar | floating point | no |
| aliases, types, constants, MQL5 port, examples | none | forwarding, declarations | | | no |

How the parts interact. `NtpTimeServiceT` owns at most one `BasicPoolRunner`;
the runner owns a pool and calls it from its own thread and from
`measure_now()`; the pool makes one `NtpClient` per query, and that one makes
one transaction with a server. User code calls the service, the timers and the
pure functions; the timers call user code back. The pure functions call each
other and nothing else, except that the wall clock can be told to use the
service's offset.

What makes each component correct, in a sentence:

- **timers**: a timer fires once for each deadline, never early, never after
  `stop_and_wait()` or its destructor returned; a running worker serves what is
  due; `stop()` leaves no thread and no state behind;
- **pool**: no server is asked too soon, back-off follows the failures in a
  row, and a minority of wrong servers does not move the offset;
- **pool runner**: `stop()` ends the thread, a forced measurement is made, two
  measurements do not mix;
- **service**: one transition at a time, one runner at a time, `m_state` tells
  the truth, nothing runs once the process has exited, nobody waits for ever;
- **client**: what is stored is wrong by no more than the delay explains, or
  is marked as a failure;
- **calendar, zones, text, moments**: agreement with a calendar whose pages are
  turned day by day; inverse functions that are inverse; one moment whatever
  way it is written.

## 2. Plan

The order was by how little a unit test sees.

| step | modules | state |
|---|---|---|
| 1 | `TimerScheduler`, its contract, its proofs (`TimerSchedulerProofs`) | done |
| 2 | `NtpEstimate`, `NtpEstimateInputs`, their proofs, `NtpClientPool` | done |
| 3 | `NtpTimeService`, its proofs | done |
| 4 | `NtpPoolRunner` (composed with the pool), the proofs of both (`NtpPoolRunnerProofs`) | done |
| 5 | calendar: `Word64`, `FastDate`, `Calendar`, `CalendarPeriods`, `IsoWeek`, `Workdays`, `CalendarWalk` against `CivilCalendar`, their proofs (`FastDateProofs`, `CalendarProofs`) | done |
| 6 | time zones: `TimeZones` | done |
| 7 | texts: `Text`, `IsoWeekText`, `TimeFormatting`, `FormatParser`, `TimeParser` | done |
| 8 | NTP packets and the client's query: `NtpClient`, its proofs | done |
| 9 | moments with an offset: `DateTimes` | done |
| 10 | the service composed with the real runner instead of its summary | open |
| 11 | `DeadlineTimer`: its saturation, and the multiplication of `add_sec()` and `start_sec()` before it | open |

Theorems still worth proving, beyond those of section 6: the rules of the time
zones (`ZonesRoundTrip`), which are Sundays of a month and thus in reach of the
lemmas about weekdays and periods, and `DateTime`'s views (`LocalTimesAgree`, but for
its texts), which are the same functions at a shifted moment.

## 3. The models

Every module names the source's own identifiers: a variable `m_queue` is the
member `m_queue`. Program counters have the names `pc` and `call`. The grain is
the same everywhere: **a critical section is one step, and so is an atomic
access, a call of foreign code or a join outside of one**. Where a section does
nothing that blocks, making it one step loses no behaviour: other threads cannot
see its middle.

An operator whose comment begins with *Defective* is not part of the model.
It is a variant of the definition below it with a plausible programming error;
putting it in the definition's place makes one of the properties fail, which is how the
sensitivity of every checked property was established (the list is `mutants` in
`PROJECT.json`).

### TimerScheduler (`TimerScheduler.hpp`)

One action per critical section of `m_mutex` or of a callback mutex and per
atomic access outside of them.

- *Timer states* are identities: `Timers` (owned by a `Timer` object) and
  `Shots` (made by `Timer::single_shot`). `life` follows the object, from
  `fresh` to `dead`; shared and weak pointers are not data but the predicate
  `Referenced`.
- *The queue* is a set of entries `[fire, state, gen]`. The priority queue's
  order is kept where it shows: the worker sleeps until the least `fire`, and a
  batch is executed in the order of `fire`. Cancelled entries stay until they
  are due, as in the code.
- *A call* that has several steps is in `call[thread]`: `Start` reads the
  interval and the clock, `StartTimer` is the locked part; `StopAndWait`,
  `WaitReturns`; `Destroy`, `Drained`, `Disown`, `ClearCallback`, `Erase`;
  `SingleShot`, `ArmShot`, `StartTimer`; `RequestStop`, `StopJoined`,
  `ClearOrphan`, `Teardown`. Setters and `Stop` are single steps.
- *The worker* is `WorkerTop`, `WakeEmpty`, `WakeUntil`: one pass of
  `worker_loop`, entered from the top or from either wait, whose predicates are
  evaluated again on waking. `signalled` holds the workers notified while they wait; a
  notification with nobody waiting is lost, as it is in the code. Spurious wakeups are not
  modelled: both waits test a predicate.
- *Execution*, by the worker or by `Process`: `CollectDueTimers` (drops
  cancelled entries, sets `m_is_running`), `FetchCallback`, the callback, during
  which the thread may call the API again, `CallbackReturns` or
  `CallbackThrows`, `ShotClears`, `ShotErases`, `FinalizeTimer`.

Callers follow the rules the header asserts or C++ imposes (the head of the module
lists them): nobody uses a `Timer` that is being destroyed, `process()` is not
called while a worker runs, `stop_and_wait()` not from the timer's own callback.
Time is in ticks; the id map is a set because ids are never used again.

**TimerContract** is what remains for the owner of a timer: one deadline or
none, taken once, run in order, followed by the next deadline one interval
later. No ids, generations, notifications or locks.
**TimerSchedulerContract** maps the detailed state to it: the deadline is the
one live entry of the queue. **MCTimerScheduler** adds model values.

### NtpEstimate and NtpClientPool (`ntp_client_pool.hpp`)

`NtpEstimate` has the pure part: `Median` (`nth_element` by its specification,
C++ division), `MedianMadTrim`, `BestDelayOffset` (the scan, with its treatment
of delays that are not positive), `IsValid`, `Smooth`. A vector of offsets is a
function on a finite set, the indices of the samples it was taken from, because
its order decides nothing; the samples themselves are a sequence, because of
two with the same delay the first is kept. The smoothing factor is
a rational, the `double` product is the exact quotient truncated.
`NtpEstimateInputs` builds the inputs, one sample per step, and states what the
algorithms owe to each of them; `MCNtpEstimate` only gives it numbers.

`NtpClientPool` is the measurement, one step per critical section of `m_mtx`:
`PickServers` (every eligible server, or any choice of them: the generator is
random), `QueryBegin`, `QueryEnd` for each server, `Update` and `Blend` (the
load and the store of the atomic offset, which are separate with smoothing),
`PublishSamples`; beside it `ApplySamples`, `SetConfig`, `SetServers`,
`AddServer`. A query ends in any of `Answers(s)`: a failure, a timely answer
(wrong only from a liar), a late answer (always possibly wrong). Of
`ServerState` only the fields that are read are kept.

### NtpPoolRunner (`ntp_client_pool_runner.hpp`)

EXTENDS the pool: a `do_measure()` takes `m_pool_mtx` (`DoMeasure`), lets the
pool do its steps (`PoolStep`), releases it (`Unlock`) and stores its result
(`StoreStats`). The worker's loop has a step between its look at the flags
(`CheckFlags`) and its sleep (`Block`), because `stop()` and `force_measure()`
notify without `m_cv_mtx`: a notification that falls there is lost and only
`TimesOut` saves the request. The interval is abstract, a sleep may time out at
any moment. `Start`, `CreateThread` (which may fail), `Stop`, `StopNotify`,
`Join`, `StopEnd` belong to one owner, `ForceMeasure`, `ForceStore`,
`ForceNotify`, `MeasureNow` to any thread.

### NtpTimeService (`ntp_time_service.hpp`)

One step per critical section of `m_mtx`; inside a transition (`init`,
`apply_config_now`, `shutdown`, the `atexit` handler) one per call of a runner.
A call waits at `enter` until no transition is under way (`Wait`, `NotifyAll`,
the condition variable), begins (`InitBegins`, `ApplyBegins`, `ShutdownBegins`,
`ExitBegins`), proceeds outside of the mutex (`StopOld`, `StartRunner`,
`MeasureNow`, `Decide`, `Discard`, `StopRunner`), and ends in a locked section
(`Publish`, `Settle`) and a notification (`Notify`). A runner that was stopped
stays on the thread's stack through all of this and is destroyed when the function
returns (`Leave`); only a new runner that is given up is destroyed before the
transition ends (`Discard`). `offset_us()` is
`OffsetCall`, `EnsureStarted`, perhaps a whole `init()`, `ReadOffset`. The exit
handler runs once, on a thread of its own (`Exiter`), and may begin at any moment
of the others' calls.

A runner is what the service sees of it: allocated, active, built with a
configuration and an interval, with a last offset that its own thread changes
(`RunnerMeasures`). Allocation, thread creation and the first measurement may
each fail.

### NtpClient (`ntp_client.hpp`, `ntp_client/`)

One client, whose `query()` is `Query` (the stamp), `Send` (after the name was
resolved, on a socket of its own), `Receive` (`recvfrom` writes the first
datagram that reaches the port), `Parse` (the time of arrival, validation,
arithmetic, the stores) or `TransactFails` at any point of the way. The network
is a set of datagrams that may be lost, delayed, delivered twice and delivered
to a later query that was given the same port; servers are synchronised, unsynchronised,
sending a kiss of death, or no NTP servers. Servers and network are external.
Timestamps are what NTP makes of them: 32-bit seconds since 1900 that wrap and
binary fractions rounded down (`ToNtp`, `UnixUs`). `parse_server_packet` tests
what the code tests, in its order.

### The pure functions

They are operators, with the names of the C++ functions (an overload gets a
suffix for its argument: `_ts`, `_ms`, `_date`, `_text`). A day has
`HOURS_PER_DAY * MIN_PER_HOUR * SEC_PER_MIN` seconds, so that TLC's 32-bit
integers can hold centuries; the library is the instance 24, 60, 60 and 1000.
Division and remainder are those of C++, towards zero, wherever the code has
them. Where the code throws, the value is `invalid_argument`; where it leaves a
variable unassigned, `uninitialized`.

- `Word64`: unsigned 64-bit words as eight bytes, with the high half of their
  128-bit product, which the reciprocals of `fast_date.hpp` need.
- `FastDate` (`detail/fast_date.hpp`): days to dates and back, in words.
- `Calendar`: units, floor arithmetic, validation, timestamps to dates and
  back, the legacy functions that count back from `MAX_YEAR`.
- `CalendarPeriods`: start and end of every period, and what a timestamp tells
  about its year, month and day.
- `IsoWeek`, `Workdays`: week dates; the workdays of a month.
- `TimeZones`: offsets, the rules of Europe and North America, 25 named zones.
- `Text`: a text is a sequence of items. Digits and punctuation are single
  characters; a name ("Monday", "CET", "minutes") is one item, and the case of
  letters is left out. Formatters compose pieces (`Num`, `Mark`) that are
  rendered to items; parsers move a position over them.
- `IsoWeekText`, `TimeFormatting`: the text of week dates; every command of a
  format, every fixed form.
- `FormatParser`: a format as rules, one per command, and the resolution of the
  fields they assign (date, day of the year, ISO week, seconds since 1970, hours
  of twelve) with the tests for contradictions.
- `TimeParser`: ISO 8601 texts, zones, months, timeframes, times of day.
- `DateTimes`: `DateTime`, a record of a moment and an offset, and `ZonedClock`
  at a given moment. Members whose name a free function has are called
  `local_...` or `zoned_...`.

`CivilCalendar` is the abstract specification: nothing of it is taken from the
code. Seconds of a day pass, and the day after the last of a month is the first
of the next; the day of the year adds up the months before it. `CalendarWalk` is
a clock that shows what the library says of each moment (`shown`), through
windows of days, one after the other; that what it shows is a behaviour of
`CivilCalendar` is a refinement (`CivilSpec`). What the other functions say at
each of its moments are invariants, with the numbers of the wall calendar as the
reference: those from a timestamp to a date and back (`CalendarAgrees`), the bounds
of periods (`PeriodsNest`), workdays (`WorkdaysCount`) and ISO weeks
(`IsoWeekAgrees`). `MCValues` takes that walk through its windows and states
in the same way what the run `values` asks of zones, texts and `DateTime`.

## 4. What is checked

Each row is one run of TLC; the bounds are in the `.cfg`.

| run | actors and bounds | what it shows |
|---|---|---|
| `worker` | one worker, one `Timer`, two application threads; intervals 0 and 1, both modes, clock to 2, generations to 3; with fairness | `EachFiringOnce`, `ActiveHasTicket`, `SleepIsJustified`, `StopAndWaitDrains`, `DueIsServed`, `CallsReturn`, `TypeOK` |
| `contract` | a repeating `Timer` and a helper, two generations of workers, `process()`, `stop()`, `~TimerScheduler`, waits from callbacks, throwing callbacks | `ImplementsContract`: every step is one of `TimerContract` or invisible; `StatesAreHeld`, `WorkerHasJoiner`, `StopJoinsWorker` |
| `estimate` | every sequence of up to 3 samples of any kind and of up to 5 timely ones, five offsets of both signs | the estimators against reference definitions: `MedianIsMedian`, `TrimResistsOutlier`, `TimelyDecide`, `SmoothingConverges` |
| `pool` | two threads, three servers of which one lies, late and failed answers, batches, reconfiguration; clock to 1, back-off 1, 2, 3 | `OffsetTrusted`, `BackoffIsExact` |
| `runner` | the worker, its owner, another caller, one server; with fairness | `NotTooSoon`, `SamplesExplainOffset`, `StopIsComplete`, `StopReturns`, `ForceIsServed` |
| `service` | two callers and the exit handler, three runner objects, two intervals, two configurations, one successful setter, one offset besides 0; with fairness | `TransitionIsExclusive`, `OneActiveRunner`, `StateTellsRunner`, `ExitIsFinal`, `ConfigIsInForce`, `SleepersHaveWaker`, `CallsReturn`, `TypeOK` |
| `client` | one client, one port, two datagrams under way, servers 5 µs ahead or 2 behind, clocks not to be trusted off by 4; clock from 2 to 6 | `AnswerIsTrusted`: a stored offset is wrong by no more than half the delay and the rounding, across the end of the era; a failure is marked as one |
| `values` | a leap year, 28 turns of years from -397 to 2797 with the ends of their Februaries, the changes of summer time of four years | `CivilSpec`, `CalendarAgrees`, `PeriodsNest`, `IsoWeekAgrees`, `WorkdaysCount`, `ZonesRoundTrip`, `TextRoundTrip`, `FieldsMustAgree`, `LocalTimesAgree` |

The other four runs are the findings of section 5.

### Bounds, and why they are enough

*Timers.* Two ticks let a timer with interval 1 be collected, rescheduled and
collected again, and let a callback that began at 0 end after the next deadline.
Interval 0 is the boundary at which a reschedule is due at once. A generation
counts the starts, stops and reschedules of one timer; three of them contain
stop and restart within one callback, the deepest case the code
distinguishes (the entry's generation, a newer one, and the one after the
reschedule). `MaxCalls` limits calls, `MaxGen` what is collected. Nothing relates
two timers but the order of a batch, the shared wait and the collection itself:
`contract` has two of them for that. In `contract`, `Modes` is `{FALSE}`: a
single-shot timer restarted in its callback breaks the contract, which is the
finding `restart_in_callback`.

*Deadlock.* TLC checks for it in `worker`, `pool`, `runner` and `client`. It does not where
the system may stop: in `contract` a thread may wait for a timer from the
callback of another one of the same pass and hang (see section 5), and nothing happens any
more after `~TimerScheduler`; `service` ends when the process has exited;
`estimate` stops at the longest input and `values` at the end of a window. Where
setters may be called at any time a deadlock of the other threads does not show
as one, which is why `CallsReturn`, `StopReturns` and `ForceIsServed` are
stated.

*Pool.* Three servers with one liar is the least number at which a majority of
honest samples exists with `min_valid_samples` of three. The back-off reaches
its maximum after three failures in a row, and two threads can fail on one
server at once. `Permutations` of the threads and of the two honest servers are
sound because no liveness is checked there and no definition distinguishes
them. The VIEW drops `m_last_samples`, which no action reads, and the order of
the samples collected so far, on which the medians and the properties of this
run do not depend.

*Runner.* One server is the hardest case for two measurements that compete for
it; the flags, the mutex and the condition variable do not know about servers.
The sleep's length is abstract, so no bound applies to it.

*Service.* An `apply_config_now()` has two runner objects at once, and a call
that has ended its transition may still have a stopped one until it returns:
two callers and the exit handler never have more than three between them, and
identities are used again, so neither allocation nor the number of transitions
is bounded. No property of the run distinguishes offsets, and one that is not 0
stands for them. A third
caller adds no new state of a transition, because a transition excludes all
others (proved for any number of callers, section 6).

*Client.* A second of three microseconds and eight fractions has every kind of
rounding; an era of seven seconds ends within the run for a server that is 5 µs
ahead, so that its answers wrap and ours do not. Two datagrams are an old answer
and the one to the present query. The VIEW hides the stored fields during a
query: they are stored whole at its end.

*Values.* The day has 24 hours of 2 minutes of 2 seconds, 96 seconds; a second
has its 1000 milliseconds. That keeps hours, and with them zones, as they are,
and lets timestamps of twelve centuries and the milliseconds of 1910 to 2030
(`MsRange`) fit into TLC's integers; `MIN_YEAR` is -400 and `MAX_YEAR` 2800,
`INT64_MAX` a number near TLC's own. Of a day the first, a middle and the last
second are looked at, and both sides of every hour at which a zone changes. The
years lie on both sides of 0, of 1970, of the range 1970..2099 that
`start_of_year()` treats separately, of centuries that are leap years and of
some that are not; the zone years are those around the changes of the rules in
2002 and 2007. What does not depend on the length of a day (days to dates,
weeks, workdays) is looked at as it is in the library.

### Fairness

`FairSpec` is used for liveness only. Weak fairness of the clock (the timers),
of each thread that is inside the library, of the worker and of the runner's
loop: they are ordinary operating-system threads, and nothing they wait for in
these steps is withheld for ever: mutexes are held for bounded sections, sleeps
and queries have timeouts, callbacks are assumed to return. No action by which a thread
decides to call the library is fair. `CallsReturn` of the service, `StopReturns` and
`ForceIsServed` hold once new calls cease to arrive: neither a mutex nor a
condition variable promises a turn, and TLC does find the starving schedule
without that premise.

## 5. Findings

Each is a run that TLC must find violated, with the sentence of the documentation it
contradicts quoted in `PROJECT.json`.

| run | what happens |
|---|---|
| `two_stops` | Two threads call `TimerScheduler::stop()`. The second has nothing to join but clears the flags and returns while the worker runs. |
| `restart_in_callback` | A single-shot timer is started from its own callback. `finalize_timer` tests `m_is_single_shot` before it compares generations and deactivates it. |
| `exit_offset` | `offset_us()` passes its first test, then the process begins to exit. It returns 0 and not the cached offset. |
| `end_of_year` | On 1 January of a leap year, after 00:00:00, `end_of_year()` names the end of 30 December: `is_leap_year_ts()` takes the day for one of the year before. |

### Other behaviours of the timers and of the NTP stack

No run reports these, because no sentence of the documentation speaks of them
or because they need a use the runs exclude:

- A helper's callback that throws: the exception is swallowed, the rest of the
  lambda is skipped, the state stays registered and holds itself until `stop()`.
- Two threads in `process()` may hold entries of one timer; the first to
  finish clears `m_is_running` for both, and `stop_and_wait()` returns early.
  (`worker.cfg` with two pollers shows it.)
- `stop()` between the registration and the start of a helper made by another
  thread clears a callback that is not set yet; the helper then keeps itself
  alive. (`contract.cfg` with two application threads shows it.)
- A callback that waits for, or destroys, a timer collected in the same pass waits
  for itself; two callbacks on two threads can wait for each other.
- A `Timer` built while `stop()` runs may drop out of the registry: it says
  `is_active()` and never fires.
- `init()` starts the thread, which measures at once, and then calls
  `measure_now()`. With no more servers than `sample_servers` one of the two
  finds no eligible server; if it is `measure_now()`, `init()` fails and
  discards a runner that works.
- `last_measure_ok()` and the samples may come from different measurements:
  results are stored after the mutex is released.
- `set_servers()` during a measurement invalidates the indices it holds (undefined
  behaviour; `Querying` keeps it out), and `min_valid_samples` 0 with no valid
  sample reads an empty vector (`ConfigAssumption` keeps it out).
- A `backoff_initial` below `min_interval` shortens the pause between queries.
- A `backoff_max` of 0 with a `backoff_initial` does not switch the back-off
  off: the first failure waits for `backoff_initial`, the second not at all, the
  third for `backoff_initial` again, because 0 also means that there was no
  failure yet. (The proof of `BackoffIsExact` needs `MaximumCounts`, which
  excludes it.)
- `TrimResistsOutlier` is as strong as it can be: of -6, 1 and 3 the trim drops
  -6, so one server of three can move the estimate out of the range of the
  other two.
- Answers from after the end of the NTP era in 2036 are refused: their seconds
  read as a time before 1970.
- One `NtpClient` used by two threads mixes the fields of two queries; the last
  error is one slot per thread, for all clients.
- On Windows a failed `WSAStartup` returns from `query()` without resetting the
  delay and the stratum of the query before.

### Other behaviours of the pure functions

Found by the walk, and kept out of the properties by named conditions where they
would break them (`NewYearOfLeap`, `EndOfFarLeap`, `YearIsRight`,
`WeekdayIsRight`, `EasternEnd`, `OldCetDay`, `Writable`):

- On 1 January of a leap year, after 00:00:00, `is_leap_year_ts`,
  `num_days_in_year_ts`, `month_of_year`, `day_of_month` and the legacy functions
  take the year for the one before; at 00:00:00 of 1 January
  `legacy::to_date_time` leaves the time of day unassigned.
- `start_of_year` on 31 December of a leap year outside 1970..2099 returns that
  day, and what is built on it (`day_of_year`, workdays of a timestamp) follows.
- Before 1970 `is_workday(ts)`, `is_day_off(ts)`, `days_since_epoch` and
  `sec_of_day` divide towards zero. In `DateTime` only `utc_is_workday()` asks
  for the date: it and `utc_is_weekend()` can both be true.
- Before year 1 `day_of_week_date` divides the year towards zero: -495-11-20 is
  a 2 and should be a 1; ISO weeks and `%a` follow.
- `is_valid_date` exchanges day and year when the third number cannot be a day,
  `to_timestamp` only when it is 1970 or more: 5, 3, 1900 passes the test and
  becomes a date of the year 5 (`DateTime::try_from_components` included).
  `MIN_YEAR` passes too, and its timestamp overflows.
- A moment whose milliseconds do not fit becomes `ERROR_TIMESTAMP`;
  `DateTime` takes it for a time and subtracts the offset from it.
- `hour24_to_12` makes 12 of every hour from 13 on.
- `to_string` writes the first character of a format twice when it is no
  command; `try_parse_format` knows no `%ss`; `to_string_ms` takes milliseconds
  for seconds in `%s` and `%j`; a negative year gets two signs from `%F`, and
  `%y`, `%C` write what no parser reads.
- A fraction of a second of more than three digits is refused
  (`time_parser.hpp:571`), where the comment on line 561 says one to nine.
- `sec_of_day("1:2:3:zzz")` is accepted.
- `gmt_to_et` ends summer time an hour late; `cet_to_gmt` of a year before 2002
  treats the whole day of the change in October as winter.

## 6. What is proved

The proof modules extend the components' modules, so theorem and run speak of the
same definitions. All hold for any sets of threads, timers, runners, servers
and any values of the bounds, under these named assumptions on the constants:
`SchedulerAssumption`, `NilAssumption`, `ConstantsAssumption`,
`PoolAssumption`, `ConfigAssumption`, `RunnerAssumption`, `InputAssumption` (threads, objects and `Nil` are
different things, numbers are numbers, and there are finitely many servers),
`UnitsAssumption` and `ClockAssumption`
of the client (units are positive, there are no fewer fractions of a second
than microseconds, and a run begins after 1970 and lasts less than an era by
every clock), `UnitsAssumption`, `YearsAssumption` and `RangeAssumption` of the calendar (units
are positive, year 1 is among the library's years, `MAX_YEAR` ends an era of 400
years, the exception is no number, the least timestamp in milliseconds is no whole
number of seconds, and `ERROR_TIMESTAMP` is beyond those whose milliseconds fit), and `YearRangeAssumption` and
`WindowsAssumption` of the walk (its windows begin on dates of the library's years,
those an `int32_t` can hold, and end within them). TLC evaluates them in the runs.

Some theorems need more than the model does, and say so before the arrow. Each
of these premises is a way of using the library, and what happens
outside of it is known:

| premise | it says | without it |
|---|---|---|
| `OneStopper` | one thread calls `run()`, `stop()` and the destructor | `two_stops` |
| `OneExecutor` | and timers are executed by the worker or by one thread in `process()` | two pollers clear one `m_is_running` (section 5) |
| `OneApp` | one thread besides the worker uses the timers | a `stop()` between registration and start of a helper leaks it (section 5) |
| `PeriodicTimers` | no `Timer` is made single-shot (helpers are), and 0 is an interval, the one a timer has at first | `restart_in_callback` |
| `FairBatches` | samples given to `apply_samples()` contain no more lies than there are liars | a caller may pass anything |
| `MaximumCounts` | `backoff_max` is positive, or there is no back-off | it begins again after every second failure (section 5) |

**TimerSchedulerProofs.** `TypeInv` is `TypeOK` with what a call and an
execution have in hand: a call that is pushing has a state and a time
(`CallOK`), a thread that executes has an entry of its batch (`ExecOK`). Types
alone are not inductive, since `StartTimer` builds an entry from `call`. From it
follow

- `TypeCorrect`;
- `NoLostWakeup` (`SleepIsJustified`): each step that fills the queue or asks
  for a stop also notifies, and a worker goes to sleep only in the step that looks;
- `FiringsAreUnique` (`EachFiringOnce`) and `ActiveTimersHaveTickets`
  (`ActiveHasTicket`), both from `TicketInv`: beside the two properties it
  says that no entry has a generation above its timer's (`GenBound`, so that a
  new generation is new among the entries) and that a state nobody has made is
  inactive (`FreshInactive`). `Once` and `TicketHeld` are the two properties again,
  thread by thread and with the place where the entry is. `ExecOK` matters here
  too: the only entry a thread may let go of is the one it has executed, and
  the same step deactivates the timer, reschedules it, or finds it superseded
  by a newer entry.

`ShapeInv`, where a thread can be and what it can be calling there, and
`ShotsInv`, that a helper is started once and by the thread that makes it, carry
the second half of the module, which follows the life of a timer's state.

- `RegistryIsHeld`: whatever is registered is held, so that no weak pointer in
  `m_timers` ever expires. `RegInv` says by whom: a `Timer`, or a helper's
  callback, its maker, or the lambda about to unregister it.
- `WorkersAreJoined` (`WorkerHasJoiner`) and `StopJoinsTheWorker`
  (`StopJoinsWorker`), both under `OneStopper`. `JoinInv`: a live worker is the
  one in `m_thread` or the one that a `stop()` took from it and is joining, and
  past the join there is none.
- `StopAndWaitDrainsTheTimer` (`StopAndWaitDrains`) under `OneExecutor`, from
  `DrainInv`: `m_is_running` is set for every entry in a thread's hands. With
  `Once` (no second entry of the timer in the batch) and `JoinInv` (no second
  worker), the flag is cleared only behind the last callback.
- `NothingIsLost` (`StatesAreHeld`) under `OneApp`, from `LeakInv`: a helper
  that is registered no more and still refers to itself is in the list of
  orphans of the `stop()` that took it out.
- `TimersKeepTheContract`: the refinement, under `PeriodicTimers`. Initial
  states map to initial states and each action to the one of `TimerContract` it is
  named for, or to a stutter. `ContractInv` adds to `ShotsInv` what the mapping needs
  (`FromNow`: a deadline on its way into the queue is an interval after a
  moment that has been); that the live entry of a timer, and so its deadline, is
  unique is `Once`.

**NtpEstimateProofs** is about the operators, for vectors of any size.
`NthIsUnique` and the counting lemmas before it make `CHOOSE` in `NthElement`
a function of how many values lie on either side. From it follow `MedianSplits`,
`MedianIsUnbiased` (truncation is symmetric) and `MajorityDecides`;
`TrimIsUnbiased` and `TrimResists` add that what is kept by the trim is mirrored, and
that the deviation of half the values is within the range of all but one.
`SmoothingApproaches` is arithmetic with a quotient. `best_delay_offset()` is a
recursive function on 0 .. n: the library's induction theorems cannot be
used, but a least counterexample can, a minimal index at which the claim fails,
and that is how `FastestDecides` and `OnlyTimelyCount` are proved.
**NtpEstimateInputsProofs** applies these to the states of `NtpEstimateInputs`:
`MediansAreMedians`, `OutliersAreResisted`, `TimelyAnswersDecide` and
`SmoothingIsSteady` are the four properties of the run `estimate`, for samples
of any number and size.

**NtpTimeServiceProofs.** One invariant, `IInv`, proves all seven safety
properties of the run. Its parts: `Exclusive`, transitional values of
`m_state` and threads inside a transition correspond; `OneOwner`, the runner
objects that exist are `m_runner` and those on the stacks of threads, each of them once;
`HolderOwns`, what the thread inside holds at each of its steps: which
of the runners on its stack is active (a new one not before the old one is joined), that no
runner outside of its stack is, and that `m_state` says so; `AtRest`, the truth of `m_state` when nobody is
inside; `IdleHands`, a thread outside holds no runner but the stopped ones it
destroys when it returns; `ActiveExists`, only allocated runners run; `ExitOrder`, where the exit handler is once the
process is exiting; `ConfigKept`, the running runner and the one that is being
started have the stored configuration and interval (setters are refused
meanwhile). None is inductive without `HolderOwns`: the properties speak of
rest, the steps that establish them happen during a transition. `OneOwner` is
needed because a stopped runner outlives the transition: the call that destroys it
while another one is under way must not destroy that one's runner.

**NtpPoolRunnerProofs** has the pool first.

- `OffsetsAreTrusted` (`OffsetTrusted`), under `FairBatches`. `PoolIInv` counts
  liars: those whose answer a measurement has, and those it has still to hear
  (`Unheard`), are together no more than there are, because a server is asked
  once (`AskedOnce`). `Demanding` is the antecedent of the property itself:
  medians, and more than twice as many valid samples as liars; then the liars
  are a minority of what is valid and `MajorityDecides` applies.
- `BackoffsAreExact` (`BackoffIsExact`), under `MaximumCounts`. `Demanded(n)` is
  the closed form after n failures, `NextRung` that one failure leads to the next one,
  `ServersInv` that every server is on its rung, also when it is removed
  and added again during a query.

Then the runner. `IInv` is `RunnerTypeOK`, `Types` of the pool's state,
`Turns` (who is inside the pool's steps holds the mutex, hence at most one),
`StillAllowed` (a server picked and not yet asked is still eligible: time only
moves on and no other measurement marks it, by `Turns`) and `Joinable` (the
relation of `m_thread`, `m_is_running`, the worker's and the owner's program
counters). `QueriesAreSpaced` needs `StillAllowed`, `StopsAreComplete` needs
`Joinable`. `RunnerKeepsToThePool` shows that every step of the runner is one of
the pool or leaves it alone, so that `MeasuredOffsetsAreTrusted` follows from
the pool's theorem. `SamplesAreExplained` (`SamplesExplainOffset`) needs
`Explained`: while a thread is between the store of the offset and that of the
samples, the samples in its hands are those that explain the offset, and by
`Turns` there is one such thread.

**NtpClientProofs.** `AnswersAreTrusted` says of any units of time, any leads
and errors of the servers' clocks and any number of datagrams and ports what
the run checks of one instance. `AnswerIsTrusted` is not inductive alone; `IInv`
adds where every time on the wire comes from (`Genuine`): a request was stamped
by this client no later than now; if the header is one the client accepts, the
two times of the server were written by a clock with the lead `lead`, and the four
times are in order: sent, received, answered, now. `FractionRoundTrip`,
`SecondsRoundTrip` and `TimestampRoundTrip` show that a time that went through
NTP's seconds and fractions is read as itself or one microsecond less, or, when
the era has ended, refused by `IsUnixTime`; `MeasuredIsStorable` derives from
it the bound on offset and delay by linear arithmetic.

**FastDateProofs** is about `fast_date.hpp`, which turns days into dates and back
with 64-bit reciprocals instead of divisions. A word is the number its eight
bytes make (`Value`); a product, column by column with its carries (`Carries`),
is the product of the numbers, and its high half the quotient by 2^64. What is
left are facts about numbers: a reciprocal times a count of days, shifted, is the
century, the year, the month and the day of the month for as many days as an era
can have. `DatesComeBack` says of every date of an `int32_t` year that its number
of days leads back to it, in the 64 bits the code has. The year is bounded because
the code returns it as an `int32_t`; the days are counted backwards from the end of a
far era, as in the code, so that no number is negative.

**CalendarProofs** relates `Calendar` and `CalendarPeriods` to
`CivilCalendar`, for every date and moment and any length of minute, hour and
day. The state is that of the wall calendar; `CivilInv` says that its date
exists and its weekday is the one counted from 1970 (`WallCalendar`).

- `DaysAreCounted`: `date_to_unix_day()`, by eras of 400 years and a table of
  months that begin in March, is the number that adding up years and months
  gives; `DaysGoBy`: it and the legacy one grow by one per page;
  `WeekdaysByZeller`: the weekday of a date is that of its number (from year 1
  on; before it, see section 5).
- `MomentsAreTold` and `ClocksAreTold`: a moment is whole days and seconds, and
  `split_unix_day()`, the weekday, the bounds of day and week, the hour, the
  minute and the minute of the day are read off it. The lemmas about division (`Quotients`,
  `FloorQuotients`, `TruncQuotients`) say what division rounded down and
  division towards zero make of such a sum. Functions of the second kind,
  `is_workday()`, `days_since_epoch()` and `sec_of_day()`, are right from 1970 on
  and stated for that.
- `TimestampsAreMade`: `to_timestamp()` of every date and time of the library's
  years leads to its moment, and so does the legacy function, which counts whole
  cycles of 400, 100 and 4 years back from `MAX_YEAR` (`CyclesAddUp`,
  `TopOfTheYears`).
- `YearsAreCounted`: the year by such cycles is right before `MAX_YEAR`, except
  at exactly those moments at which it is one too few, on 1 January of a leap
  year after 00:00:00 (`NewYearOfLeap`): the 366 days of a leap year that are left contain
  a year of 365 and a day, and `YearsBack` says that this is the only
  case. It is the cause of the finding `end_of_year`, and the theorem says that
  there is no other. `CycleDigits` shows that taking off whole cycles finds their numbers.
- `YearsAreBegun`: `start_of_year()` and with it `day_of_year()` are right in
  every year but on the days of `EndOfFarLeap`. `YearBegins` follows the three
  branches of the code. They count cycles of seconds, and the lemmas before it
  carry each from seconds to days: a cycle of seconds is one of days, and the time
  of the day stays out of it. `DayInEra` and `YearsBegun` then find the
  place of a year in its era of 400 years or, from 1970 to 2099, in its four
  years. The exception comes out as the one day at which the fourth year of a
  cycle is taken for complete.
- `PartsAreTold` (`PartsOfDatesAreTold`): `month_of_year()`, `day_of_month()` and
  `legacy_to_date_time()` look the day of the year up in a table.
  `CommonTables` and `TablesOfTheYear` show that the tables and the days before
  each month agree, in common years and, by the code's detour around 29 February,
  in leap years.
- `LibraryTellsTheCalendar` (`CivilSpec`) is the refinement: for any windows and any
  seconds of their days, and any length of the day, each step of the walk shows the next
  second of a day or the next page of the calendar. Its invariant `WalkInv` says that
  the date shown is the one whose number of days `now` has (`DatesComeBack` and
  `DaysAreCounted` together), the weekday the one of that number, and the
  time the rest; that one page on is one day on is `DaysGoBy`.
- `CalendarsAgree` (`CalendarAgrees`) is the invariant of the walk in full: `WalkInv`
  makes each of its moments one of the wall calendar (`AskedOnTheWall`), where the
  theorems above apply. `AllWaysLead` adds the ways back through `struct tm` and
  through dates turned round, `TooFar` that a moment whose milliseconds do not fit
  is `ERROR_TIMESTAMP`, whichever end of the range it is beyond.

- `PeriodsAreNested` (`PeriodsNest`): the bounds of minutes, hours, days, weeks, months
  and years, in seconds and, within `MsRange`, in milliseconds. The code takes the remainder
  towards zero and corrects it; `FloorsAreQuotients` says that what comes out is the
  quotient rounded down, and `PeriodsSurround` that such a quotient bounds a period
  around the moment. The bounds of months follow from those of the year
  (`YearsAround`) and the parts of the date; `MillisecondsAreDivided` and `MillisecondsFit`
  carry seconds to milliseconds, where the last second of the range needs that the
  least `int64_t` is no whole number of seconds.
- `WorkdaysAreCounted` (`WorkdaysCount`): the code counts workdays from either end of the
  month. `DaysInOrder` says of any set of days of a month that those up to one of
  them and those from it on are together one more than all, which ties the two
  directions together. `WorkdaysAreFound`: the days that the code's test takes for workdays
  are those of the wall calendar; `MonthsHaveWorkdays`: there are at least three
  in every month, so that a first and a last one exist.
- `WeeksAgree` (`IsoWeekAgrees`): days whose number is a multiple of 7 are
  Thursdays, because 1970-01-01 was one (`IsoWeekdays`), so that a week is a quotient by 7 of
  the distance to the first Thursday of a year, which is one of its first seven days
  (`FirstThursdays`). `WeeksOfYears` shows that a year has a 53rd week exactly if it begins
  or ends on a Thursday; `ThursdaysInYears`, that the Thursday of a day in the
  library's years is in one of them, also for the first days of year 1.

**Only model-checked.** Liveness (`DueIsServed`, `CallsReturn`, `StopReturns`,
`ForceIsServed`) is out of the prover's reach. Of the run `values`, `ZonesRoundTrip`,
`TextRoundTrip`, `FieldsMustAgree` and `LocalTimesAgree` are not proved; its other five
are. Parsers and
formatters are recursive over their texts, and what they compute is induction
over data.

## 7. What is not modelled

- `DeadlineTimer`: its `start` and `add` saturate at the end of the clock.
  (`add_sec` and `start_sec` convert seconds to the clock's ticks before that,
  which overflows for more than 292 years; a look at the code, not a run, says
  so.) `ElapsedTimer` and `CpuTickTimer` are a start time and a flag.
- The system's clock and its anchor in `now_realtime_us()`, and
  `ZonedClock`'s choice between it and NTP: they only read clocks.
- The Windows transport: the same calls through WinSock. Sockets are the
  operating system's state.
- Floating point: seconds with a fraction, Julian and OLE dates, astronomy, the
  phases of the moon. A model checker has no floating-point numbers.
- The case of letters in texts, and allocation failures.
- Declarations, constants, one-line aliases; the MQL5 port (a second
  implementation in another language); examples and build files.

Inside the modelled components: statistics that nobody reads, texts of error
messages, moving a pool (done before it is shared), and a `std::thread`
constructor that throws in `TimerScheduler::run`, whose handling the code does
not have.
