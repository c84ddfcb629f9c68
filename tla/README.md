# NIPXI: TLA+ models, model checking and proofs

NIPXI drives a PXI rack that charges and discharges lithium-ion batteries: a
source-measure unit (SMU) sources or sinks current, an Ethernet relay bank
connects one battery at a time to it, a DMM and DAQ measure, and SQLite keeps
the records. What makes it correct is that current flows only into the battery
under test, that every way out of a run ends with the output off and the relays
open, and that when this cannot be confirmed somebody is told. This directory
models the parts that carry this argument, checks them with TLC and proves the
most important invariants with TLAPS for every value of the constants.

## 1. Inventory

| Part | State it keeps | Operations | Hard behaviour | What makes it correct |
|---|---|---|---|---|
| `orchestration/concurrent_supervisor.py`, `global_emergency_stop.py`, `fault_bus.py` | worker list, recorded faults, first fault, event | `run()`, `trigger()`, `report()`, `wait_for_fault()` | threads, event set outside the lock, timed-out waits and joins | every fault reaches every worker; no live thread is taken for a stopped one; the reason is the first fault; `run()` returns |
| `group_worker.py`, `group_runtime.py`, `test_control/storage_session.py` | thread, sessions, storage, cancellation token | `_run()`, `connect()`, `disconnect()`, `request_stop()` | failures of one step of several, a stop at any moment | no failure and no open session goes unreported |
| `supervisor.py`, `worker_lifecycle.py` | lifecycle state, completed and failed group | `start()`, `stop()`, `status()` | check-then-assign shared by two threads | groups run in order, none but the entered one begins after a stop |
| `hardware/smu.py` | NI-DCPower session, last known output | configure, enable, disable, emergency off, source a point | commands lost or half executed, bounded retry | True means off; a refusal tells what the last attempt found |
| `hardware/relay_eth.py` | socket, connected flag | `open()`, `open_all()`, `close()`, reconnect, emergency off | lost link, late answers, repeated commands | a normal return means the bank is as asked; the interlock |
| `test_control/hardware_manager.py` | devices and their connected flags | `connect_all()` (strict, lenient), `disconnect_all()`, atexit | partial connection, unverified shutdown | a live output keeps its session and is announced |
| `charge_sequence.py`, `discharge_sequence.py`, `battery_operation_sequence.py`, `safety_monitor.py`, `battery_presence_precheck.py`, Group -> ALL in `test.py` | position, result per position | one position's run, fault classification, the loop | exceptions inside finally and except clauses, Ctrl+C, failing database | PASS means safe; a fault ends the group; the output only ever meets the selected battery |
| `utils/cancellation.py`, `utils/safety_fault.py`, `utils/errors.py` | token; a blocking screen; exception families | request, check, acknowledge | Ctrl+C at any moment, an operator who never answers | see above |
| the sampling loop of the two sequences, `SafetyMonitor.check()`, `battery_diagnostics.py` (removal), NTC classification | DMM failure counter, previous sample, clock | one iteration: token, timeout, SMU, DMM, NTC, safety check, end condition, sleep | a retry that skips the check, a stale previous sample, a battery pulled out between two readings | unsafe current is bounded; a completed run is real; a removal is no end of charge and no taper is a removal; the loop ends |
| `data/storage.py`, `rotation.py`, `scripts/backfill_run_sequence.py` | an index database with rows and a counter, a telemetry database per month, a connection per session | open and migrate, allocate a run id, start and finish a row, record, close, backfill, export | several connections to one file, nested retries, commits that fail and leave a transaction, crash and restart, a month that changes | a number is handed out once and no two rows carry it; what was acknowledged stays; a row names the file its telemetry is in; every call returns |
| `orchestration/` topology, workers, resource graph, ownership, execution plan, arbiter | configuration; who owns what | discover, validate, batch, claim, release | two sources of conflicts, greedy batches | the gate lets no run pass in which groups share, and refuses no other; the plan neither shares nor blocks |
| `safety_sweep.py`, `cycle_sequence.py`, `monitor_battery*.py`, `proto_test_sequence.py`, `hardware/sense_router.py`, the console in `test.py` | devices left on by an earlier process, rows of the operation and of its phases | the sweep, the menu, five operations | one more level of `run_guarded()` inside a cycle, a second relay bank closed around a reading, Ctrl+C | the menu is only shown over safe devices; nothing is connected between two uses; the sense path is released; the rows agree; Ctrl+C ends every operation |
| `main.py`, `test_executor.py`, `battery_test.py`, `charge_cycle.py`, `discharge_cycle.py` | channel, output, relay, exit code | the unattended run over all channels | a `continue` that leaves a relay closed, a check that reads a current | no relay moves under a live output |
| DMM, DAQ, NTC, menus, screens, reports, configuration | little or none | reads, printing, validation | | not planned, see PROJECT.json |

How they interact: `ConcurrentSupervisor.run()` starts one thread per worker;
each worker's `run_group` is the Group -> ALL loop of `test.py`; that loop calls
the presence pre-check and a sequence per position; a sequence calls the relay
and SMU drivers and, through `run_guarded()`, the safety monitor; the hardware
manager brackets the run. The fault bus, the cancellation token and the
lifecycle are the only state two threads share, with the index database, which
is also shared between processes. `ConcurrentSupervisor` is built
and tested in the repository and not yet called by `main.py` or `test.py`.

Everything in the code that is hard to test is listed in PROJECT.json under
"hazards", each at its line with the properties that would catch it.

## 2. Modules

**ConcurrentRun** (checked by `MCConcurrentRun`, proved in
`ConcurrentRunProofs`) is the multi-group run. One variable per attribute the
threads keep (the comments beside the declarations name them); `pc[w]` is where
worker `w`'s thread is, `spc` where the supervisor's thread is. A step is one
access to state that another thread can see, so `transition_to()` is
`TransitionCheck` followed by `TransitionAssign`, `stop()` is
`StopSetsFlag`, `StopReadsState`, `StopChecks`, `StopAssigns`, and `report()` is
`ReportRecord` (under the lock) followed by `ReportSetEvent`. What a group does
with its batteries is abstracted to how `run_group` ends: it returns True, it
fails, or it blocks on the SAFETY FAULT screen first.

**GroupRun** (`MCGroupRun`, `GroupRunProofs`) opens `run_group`: connecting in
strict or lenient mode, the loop over the positions, the pre-check, the charge or
discharge sequence, `run_guarded()` and the two shutdowns, the classification and
the teardown. `out` and `contact` are the real output and the real relay,
`connected` is what the drivers believe. The drivers appear by what a call of
them promises: `emergency_output_off()` never raises and its True is a readback;
a relay call either does exactly what it says or raises leaving the bank in one
of the states the driver can leave it in. Every database call may raise.

**SMUDriver** (`MCSMUDriver`, `SMUDriverProofs`) and **RelayDriver**
(`MCRelayDriver`, `RelayDriverProofs`) model the two drivers themselves, against devices that are marked external in the map: an
instrument whose commands may be lost or take effect although the call raised,
and a bank behind a socket that drops, resets, ignores commands and answers
late. Their properties are the promises `GroupRun` relies on, with one exception,
which `late` records: an answer that comes after its deadline is taken for the
answer to the next command. A late answer within the call (`"own"`) can deceive
the one readback of `open_all()` and the state the interlock relies on, but not the
two readbacks that end `close()`; answers left in the socket by earlier calls
(`"before"`) can collect until they imitate those too. `GroupRun` uses the promises
without these cases. `After` is the mask a prefix of the commands on the way
leaves, when a socket is closed before all of them are executed.

**SamplingLoop** (`MCSamplingLoop`, `SamplingLoopProofs`) opens what `GroupRun`
calls `SamplingEnds`: the stabilisation wait and the loop, for a charge or a
discharge. `pc` is the reading the iteration is at; `sample` holds what it has
read, `prev` and `fails` are the code's `prev_i` and `consecutive_dmm_failures`.
Floating-point quantities are integer levels, since the code only compares them.
The battery is external: each quantity moves by at most one level per iteration,
it may overheat or leave its limits, and it may be pulled out between any two
readings. Two assumptions carry names: `SetpointAssumption` is what
`validate_group_test_config()` enforces, `GradualAssumption` says that a real
taper needs more iterations from half the commanded current to the cutoff than
the DMM may fail in a row. No line of the code checks the second (with
`charge_current_a` 1.0 A, `CHARGE_CUTOFF_A` 0.15 A and three failures it asks for
less than 0.11 A per second); for a commanded current of at most twice the
cutoff it is false and every genuine end of charge is reported as a removal.
`unseen`, `late` and `removal` are history. The throttling of NTC log entries
(`last_ntc_state`) and the diagnostic statistics are left out.

**RunStorage** (`MCRunStorage`, `RunStorageProofs`) is the index database and the telemetry files,
with several sessions (processes, or the phases of a cycle). `index` is what is
committed, `merged` what of it is in the main file and not only in the
write-ahead log, `tele` the telemetry file of each month. A step is one SQLite
transaction or one attempt at one: `open()` is `OpenStorage`, `Attempt`,
`SeedCommits`, `ReadColumns`, `Alter` per missing column, with `OpenFails` for
the retry; the allocator is `AllocBegin` and `AllocCommit`. SQLite itself (the
write lock, a busy database, a commit that raises with or without its effect, the
death of a process) is external. The backfill script runs beside the sessions,
nothing in the code keeps them apart: `BackfillReads` is its read of the highest
number, `BackfillRows` and `BackfillSeed` are its two commits, and `BackfillFails`
ends it before either. `care` is history and records what uniqueness turns on:
whether a session was ever open beside the script (`"beside"`), or opened after it
died between its commits (`"late"`). `ExportAnswers` is the forensic export's
lookup, on the main file alone: it raises where the columns are only in the
write-ahead log. **SequenceIssuer** is what the documentation
promises of the run counter: a number is handed out once and numbers grow.
`RunStorage` implements it (`ImplementsIssuer`, the abstract counter being the
committed one).

**ExecutionPlanning** (`MCExecutionPlanning`, `ExecutionPlanningProofs`) has the
planning functions under their names, over any configuration from a catalogue: `discover_workers`,
`conflicts`, `check_ownership`, then `build_execution_plan()` one worker at a time
(`PlaceWorker`) and `MakeSteps`. The repository executes no plan yet;
`StartWorker` and `FinishWorker` are an executor that knows only the plan and
claims from the arbiter what it uses. The gate is compared with `Uses`, every device
a group names in whatever role, for groups that run at once (`AtOnce`); `TwoRoles`
is the one kind of sharing it lets pass.

**Operations** (`MCOperations`, `OperationsProofs`) is the console: the startup sweep, the menu, and
the operations Monitor Battery, Monitor Battery Scan, Proto Test, Charge (as
Discharge) and Cycle. `live` says of each device whether its output is on or a
relay closed. `exc` and `frame` are the exception in flight and whose
`run_guarded()` it is in, so that a cycle's phase runs the same actions one level
down. The sense path (`SenseConnects`, `SenseReleases`, and the final reading that
takes it again) is here; the sampling loop is one step, since `SamplingLoop` has
it, and `connect_all()` is one step, since `GroupRun` has it. `disconnect_all()` is
`DisconnectOutput`, `DisconnectBank` (which opens the bank) and
`DisconnectSessions`. A SAFETY FAULT screen is a place of its own (`Screens`), where
the program stays until the operator presses ENTER (`Acknowledge`, which is not
part of `Program`).

**LegacyRun** (`MCLegacyRun`) is `main.py`: connect, the channels with a charge
and a discharge each, the shutdowns, the exit code. It has no run records. Its
`disconnect_all()` is `MainDisconnects` (the output), `MainOpensRelays` and
`MainClosesSessions`, with a screen after each of the first two where it fails.
`disconnect_all()` can only meet a live output that `emergency_stop()` has already
failed to switch off and logged, so its own order of output and relays is not
what `RelaysMoveOnDeadOutput` depends on; the channels' is.

The MC modules only give the constants values.

## 3. Runs

| Run | Bounds | Shows |
|---|---|---|
| `concurrent` | 2 workers, 2 and 1 groups | safety and liveness of the multi-group run (about 250 000 states) |
| `smu` | 3 attempts (the configured value) | any sequence of SMU calls, safety |
| `relay` | 2 channels, at most 8 faults in a behaviour | any sequence of relay calls (about 1 270 000 states) |
| `group` | 3 positions, both modes, failing database | one Group -> ALL run, safety and termination |
| `sampling` | 3 voltage levels within the limits, 5 current levels, 2 failures in a row, timeout after 4 samples | one charge or discharge loop, safety and termination (about 700 000 states) |
| `storage` | 2 sessions, 2 attempts per retry loop, 1 row from before the counter, 2 months, 2 calls of a session, any number of runs of the script, 1 fault or crash | the storage layer, refinement, safety and termination (about 850 000 states) |
| `planning` | every configuration of 3 groups over 3 SMUs and 5 sets of devices, and a disabled and an SMU-less group | gate, batches, execution of the plan (about 1 070 000 states) |
| `operations` | 2 positions, 2 repetitions, 2 operations in a row, 3 failing database calls in each | sweep, five operations, safety and the answer to Ctrl+C (about 386 000 states) |
| `legacy` | 3 channels | the unattended run |

Why the bounds are enough to be interesting: two workers give every race between
a reporting worker, another one and the supervisor, and two groups make a stop
between groups possible; three positions have a first, a middle and a last one,
so that a fault can leave positions unattempted; two channels suffice to violate
the interlock; eight faults allow a call to fail, its retry to fail and its
emergency all-off to fail in two calls in a row, and late answers to collect over
several calls (seven are what it takes to deceive `close()`, which is why
`ReturnMeansBank` has `late # "before"`); four samples allow a
sample, as many failures as are tolerated and one more, and a verdict after
them, with a taper one level slower than the failures could hide. The numbers of
workers, groups and positions are unbounded in the proofs. Two storage sessions
give every race for the lock, and a busy lock, which is not counted as a fault, can
use up any attempt; two calls and one fault let a session run, the script die, be
run again and a session follow, or a write fail and its retry meet the lock (a crash
after a failed commit, which takes two faults, is left to the proofs, where faults
are not bounded); three groups make a chain of conflicts and a
batch of two; three failing database calls are what it takes to leave the sense
path of a cycle closed (`SenseReleased` says that fewer do not), and a second
operation starts from what the first one left. CHECK_DEADLOCK is off where the
system may stop: the console at its exit, storage out of calls, a finished plan,
the end of `main.py`.

Fairness. `concurrent` assumes that the operating system runs every thread
that can run (weak fairness of each worker's and of the supervisor's steps). A
worker inside `run_group` is only assumed to come back once its token is
cancelled (the sequences check it at every sample), and nobody is assumed to
press ENTER. `group` assumes that a driver or database call returns or
raises, which the timeouts justify, and that sampling ends, which its own
timeout does (`LoopEnds` of `sampling` shows it, assuming that every call returns
or raises); `group` does not assume that the operator acknowledges.
`storage` assumes that a session inside `open()` or `begin_new_run_id()` goes on (weak fairness per
session: SQLite's busy timeout bounds the wait for the lock) and not that anyone
calls. `operations` assumes that the console's thread runs, not that the operator
chooses anything or presses ENTER, and Monitor Battery is not assumed to end by
itself; so `CancelledEnds` says that after Ctrl+C an operation gets as far as the
menu, the end of the program or a SAFETY FAULT screen.
`planning` assumes that the executor goes on.

Three further runs check a sentence of the documentation that the code does not
live up to; PROJECT.json "findings" quotes it:

| Run | Sentence | What TLC finds |
|---|---|---|
| `safe_before_next` | verified-safe before the next position | an unverified shutdown after a battery fault is a FAIL |
| `export_not_found` | "not found" means not in the index | with the tables in the file since an earlier clean close, a row committed before a crash is in the write-ahead log only, which `immutable=1` does not read |
| `partial_backfill` | numbers are unique by construction, and a backfill after a partial pass never collides | the script dies between its two commits, and the next session is handed an old row's new number |

Met while modelling and not given a run of its own.

Supervision and drivers: a stop request that races with
`start()` can make `transition_to()` raise or overwrite ABORTED, so a requested
stop may be reported as a failure (`group_worker.py:103-106` says it is skipped)
and a state may follow one the table does not allow (`worker_lifecycle.py:59`);
several workers may each show a SAFETY FAULT screen
(`concurrent_supervisor.py:45-48` wants one); a late relay answer can satisfy the
readback of the next command (`relay_eth.py:110-112`); `smu.py:767` says "never
electrically confirmed enabled" when only the last attempt was not; a relay
timeout is classified FAIL and not STATION_FAULT, because the driver raises the
same `NIPXITimeoutError` as the sampling loop; `test.py:5321` announces a
verified safe state without looking at the shutdown's verdict; a worker that
reports and ends between the timed-out wait and the poll leaves `run()` with
`faulted=False` and a tripped bus (`concurrent_supervisor.py:78-79` says iff); an
exception after the enable and before the try leaves `source_dc_voltage_point()`
with the output commanded on (`smu.py:998-999`: always disabled); a connection
reset after `relay on`, or an answer that does not parse, leaves `close()` without
an all-off attempt (`relay_eth.py:117-121`); the presence pre-check's relay calls
are outside every try, so the position's function does raise (`test.py:4686`,
`battery_presence_precheck.py:112`); after a failed reconnect `connected` is False
and `disconnect_all()` skips `open_all()` (`hardware_manager.py:64-65`).

Planning: `check_ownership()` accepts a run in which one group's sense matrix is
another's position matrix, the hole `GateMissesOnlyTwoRoles` leaves open and
describes (`resource_ownership.py:11-14` and `:37-38` say that every matrix has at most
one owner); `resource_graph` joins names across roles although `topology.py:40-45` keeps them
apart; the plan does not look at sense routing at all (the gate does).

Operations: the proto test's `relay.open()` stands outside its try, so a relay
fault there leaves the row unfinished and skips the shutdown, it has no TIMEOUT
branch, and `proto_test_sequence.py:244` logs "verified OFF" although the driver
only logged CRITICAL; a relay fault in the monitor's pre-check escapes a function
that "never raises" (`test.py:4211`) and leaves its row open; in a cycle, an
exception outside `STATION_HARDWARE_EXCEPTIONS` is FAILED in the phase's row and
STATION_FAULT in the cycle's; `charge_sequence.py:241` promises to disconnect the
sense path on every exit path, and `log_event()` between `connect()` and the try is
one it does not cover (the final reading repairs it for a single fault);
`_make_phase_storage()` does not close a storage whose `start_run_summary()` raised;
`DMMMeasurementLostError` is recorded SAFETY_VIOLATION first and rewritten
STATION_FAULT later (the model has it as a station fault).

Storage and the legacy run: a session open beside the running backfill script can
also be handed a number the script has just given away, or the script can give
away one the session holds (the usage text asks for the script to be run before
the first new run; nothing enforces it); `raw_hardware_log` entries may land in another month's
file than the run's telemetry; `TestRunResult.success` is documented as "True only
if every tested channel completed both" (`test_executor.py:82`) but every channel is
marked completed; the `continue` at `battery_test.py:102` leaves the relay closed.

## 4. Proofs

`ConcurrentRunProofs`, for any number of workers and of groups per worker:

- `TypeCorrect`: `TypeOK` is inductive as it stands.
- `FirstFaultIsTheReason`: `StopReasonIsFirstFault` needs `BusInv`: the origin
  is the head of the reports, the event is only set once there is one, and the
  supervisor is past its wait only when the event was set.
- `LiveThreadsAreAccountedFor`: `NoThreadLeftUnnoticed` needs `ThreadInv`: a
  dead thread stays dead, so the verdicts recorded for the workers before the
  loop's index stay true while the others are joined.

`GroupRunProofs`, for any number of positions, with or without a failing
database:

- `TypeCorrect`.
- `PassIsSafe` by `SafeInv`: between the verified `emergency_output_off()` and
  the result the output stays off, and after `relay.open()` the relay is open;
  every other way to the classification carries an exception.
- `EnergisesSelectedBattery` and `CancelledRunEnergisesNoOther` (`CancelInv`):
  action properties; the output is switched on only in `Arm`, which is reached
  only through a relay call that returned and a token that was not requested.
- `ShutdownBeforeNextPosition` by `HotInv`: an enabled output that nothing has
  commanded off is only possible inside the run, or with an exception in flight
  that ends the group.
- `SessionOfLiveOutputIsKept` and `LiveOutputIsTold` by `EndInv`: after
  `disconnect_all()` an output that is on was unverified, so its session was
  kept and the screen was shown.

`SamplingLoopProofs`, for any limits and setpoints that pass validation, any
number of tolerated failures and any timeout, from one inductive invariant
`IInv`, needed because no property says what is read when:

- `UnseenIsBounded` by `UnseenInv` (at most one iteration more than the failures
  counted) and `SampleInv` (what was read of a connected battery is still true
  when it is checked, so a sample that passes resets the count);
- `NoFalseRemoval` by `PrevInv`: `prev_i` lags behind the current by at most one
  level more than the failures counted, which `GradualAssumption` makes too
  little for the detector;
- `RemovalIsCaught` by `RemovalInv`: after a removal the previous sample stays in
  the constant-current phase until a sample shows voltage limit and no current,
  a mixed sample included;
- `CompletionIsReal`, `TypeCorrect`, and `CancelIsPrompt` by `LateInv`.

`SMUDriverProofs`, for any number of attempts: `VerifiedOffIsOff` and
`LastVerdictIsTrue`. The two properties are inductive together with `CallInv` (only
`source_dc_voltage_point()` has a finally with a pending result), which keeps what
another method returns from being taken for `emergency_output_off()`'s answer.

`RelayDriverProofs`, for any number of channels and of faults. The driver does not
know which command an answer belongs to, so the invariants follow the commands
whose answers have not been taken, executed or not, as one stream (`Pending`,
`Cmd`), with lemmas for what `Execute`, `Send` and `Receive` do to it:

- `InterlockHolds` and the first half of `ReturnIsTrue` by `NoLateInv`: a call that
  began on a quiet link and met no late answer has at most its own command in the
  stream, and past the verified all-off only its own relay can be on;
- the other half of `ReturnIsTrue` by `CloseInv`: with late answers of its own,
  `Place` says which commands can stand at which distance from the end of the
  stream and `Extent` how long it can be, so that the readback that lets `close()`
  return is its own and the last command of all.

Trying to prove the second half without `late # "before"` failed, and TLC with more
faults showed why: that claim is false.

`RunStorageProofs`, for any number of sessions, retries, rows from before the
counter and months; the bounds on calls and faults are not used:

- `StorageImplementsIssuer`, the refinement: initial states map to initial states
  and every step is an `Issue`, a `Skip` or a stutter (`IssuerStep`). It needs
  `LockInv` (one writer; a transaction never lowers the counter) and `SessionInv`
  (what a session holds at each step of `open()` and `begin_new_run_id()`).
- `NumbersGrow` about the abstract sequence (`StrictlyIncreasing` is inductive with
  `BelowCounter`), and with the refinement `IssuedNumbersGrow` about the storage.
- `NumbersAreUnique` by `QuietInv`: while `care` is kept, `NumberInv` says that
  numbers lie below the counter except between the two commits of the backfill or
  after it died there, and `Alone` that no session is then at work. It says nothing
  once a session was open beside the script; `partial_backfill` and the remark above
  show what then goes wrong.
- `TelemetryIsFound` by `TelemetryInv` (a run id is written to one file only, and no
  two sessions share one) and `AcknowledgedIsKept` by `AckInv` (an acknowledged
  write is both in the committed state and in the open transaction).

`ExecutionPlanningProofs`, for every catalogue and number of groups:

- `GateHasOneHole`: `OwnershipMeaning` shows what `check_ownership()` computes for
  every set of groups (`Clash`, a definition of the proofs only), and from it that
  a refused run shares something and that what an accepted one shares is a matrix
  in `TwoRoles`.
- `PlanLeavesNothingToRefuse` by `BatchInv` (no batch holds a conflict; a worker
  depends on those of earlier batches it conflicts with), `OrderInv` (every
  selected worker is placed before the first step is made, nothing starts before
  the last), `StartInv` and `ClaimInv`. `StartsApart` is the argument: a worker that
  may start and one that is running are in different batches if they share
  anything, and the later one waits for the earlier. `TypeCorrect` also shows that
  the loop has a next worker (`LeastExists`, from the well-foundedness of `<`).

`OperationsProofs`, for any number of positions, repetitions, operations and
failing database calls:

- `SweepLeavesSafe` by `SweepInv`: a device that answered is safe once the sweep
  has left it.
- `NothingConnectedBetween` by `ShapeInv` (which operation and frame can be where)
  and `DeadInv`: from the verified output and the opened relay to the next use
  neither comes back on.
- `SensePathIsReleased` by `SenseInv`, which counts the failed calls it takes to
  get past the finally and past each final reading.
- `CycleRowsTellTheSame` by `WayInv` and `RowInv`: what the phase's row says while
  an exception passes through the phase's guard, the reclassification, the cycle's
  guard and the classification.

`ConcurrentRunProofs` and `GroupRunProofs` also have:

- `FailuresAreReported`, `OpenSessionsAreReported` and `StopAdmitsOneGroup` by
  `FateInv`: per worker, a failed group or an open session is on its way to the bus
  or has got there (`FailInv`, `SessionInv`), and what a worker can have begun since
  a stop follows from where it is in `start()` (`StopInv`).
- `FaultsEndTheGroup` by `OrderInv`: positions before the loop's have a result that
  lets it go on, positions after it have none.

The assumptions are those of the modules: at least one worker, group, position,
repetition, session and attempt, at least two relay channels, natural numbers for
the bounds, the fields of a catalogue entry, and the two of `SamplingLoop`. `TypeOK` is proved for every module with
proofs that has one, and not repeated as an invariant of the runs. The inductive
invariants were checked by TLC on small instances before they were proved.

Only model-checked: all liveness (`RunReturns`, `FaultReachesEveryWorker`,
`StopEndsWorker`, `RunEndsOrWaits`, `LoopEnds`, `CallsReturn`, `PlanCompletes`,
`CancelledEnds`: fairness and ENABLED are outside the prover), and
`RelaysMoveOnDeadOutput` of LegacyRun, which nothing else relies on.

## 5. Not modelled, and the plan

Done: supervision, drivers, the group run and the sampling loop, storage with its
abstract specification, planning, the console's operations with the sweep and the
sense path, each with proofs of every safety property its run checks; the legacy
run, model-checked. What is left:

1. `RelaysMoveOnDeadOutput` of the legacy run as a theorem;
2. the promises of the drivers as abstract specifications that `SMUDriver` and
   `RelayDriver` implement and that `GroupRun` uses, in place of the calls' outcomes
   written out in each module.

Left out for good, with the reasons in PROJECT.json: floating-point conversions,
formatting, screens and reports, configuration data and its validators, the
serial relay and the simulator, Telnet negotiation, the raw hardware log (a best
effort writer that swallows its failures), CSV files, the legacy executor's result
files and `state_machine.py`, which nothing uses. `test.py`'s discovery and
functional-validation menus are scripts of single driver calls.
