# simpleipmi in TLA+

simpleipmi manages a computer from a second one wired to it. Two halves make it up.
`exoanchor/` is the agent: one asyncio process that accepts plans, skills and chat
requests from an operator or a language model, executes them on the managed host
over SSH or over an emulated keyboard, asks for confirmation before dangerous
steps, and survives restarts. `hosts/` is what is wired to the managed host: the
server of a CM4 or Orange Pi board, the firmware of the USB keyboard it drives
over a serial line, and a board that is a host in itself (ESP32-S3).

This directory holds TLA+ models of that code, the TLC configurations that check
them on small instances, and TLAPS proofs of what matters most for all instances.

## 1. The system: parts, state, hazards

The agent (`exoanchor/`):

| Part | State it keeps | Operations | What makes it correct | Status |
| --- | --- | --- | --- | --- |
| Plan executor (`core/plan_executor.py`) | `_current_run`, `_paused`, `_abort_event`, `_confirmation_future`, `_lock`; each run's steps, state, index | start, resume saved, pause, resume, abort, confirm; the coroutine `_run_current_plan` | one executor; a guarded step needs its own approval; a pause and an abort hold; outcomes are final | modelled, proved |
| Run store and recovery (`core/run_store.py`, `memory/run_memory.py`) | one JSON snapshot per run, replaced atomically | save, load, recover at startup | a served record is never a zombie, claims nothing that did not happen, and is not rewritten once final | modelled, proved |
| Skill tasks (`core/executor.py`, `core/context.py`) | `_current_task`, `_current_context`, `_execution_task`, `_abort_event`; per task state, paused, history | run, run in background, abort, pause, resume; scripted and guided loops | one task; abort and pause hold; loops are bounded | partly, proved |
| Agent sessions (`runtime/sessions.py`) | a record per session on disk; bindings to runs and tasks in memory | start, dispatch, bind, follow an event, resume, abort | a session tells the state of its child, and its end is revised by a resumption only | partly, proved |
| Event hub (`runtime/events.py`) | event history, subscribers and their queues | publish, replay, subscribe | nothing lost or doubled between the replay and the live events | partly, proved |
| Passive monitor (`core/passive.py`) | running flag, task, timers, per service a restart counter and a cooldown | start, stop, check cycle, action | one loop that a stop ends; restarts are spaced | partly, proved |
| SSH channel, driver, tool executor (`channels/ssh.py`, `action/driver.py`, `tools/executor.py`) | backend, connection, `_connect_lock` | connect, close, run, stream, fall back to the keyboard | a command is executed once | partly, proved |
| CLI (`cli/watchers.py`, `cli/app.py`) | per terminal: what it read and answered | follow a run by stream or by polling, ask, answer | an answer settles the step asked about | partly, proved |
| Workload panel (`api/routes.py`, `runtime/workloads.py`) | none; the target has processes, a pid file, a password | list, create, set up, start, stop, restart, verify, console | a workload is not run twice, and its console can log in | partly, proved |
| Memory (`memory/run_memory.py`, `fact_store.py`, `artifact_store.py`) | a snapshot per task and run, artifacts, `facts.json` | save step by step, repair at startup | the files agree with each other after every crash and failed write | modelled, proved |

The hosts (`hosts/`):

| Part | State it keeps | Operations | What makes it correct | Status |
| --- | --- | --- | --- | --- |
| Serial HID frames (`server/modules/hid.py`, `firmware/src/main.cpp`) | parser state | frame, parse, dispatch, answer | messages are taken whole and in order; the parser finds back after a fault | modelled, the first proved |
| HID of the bridge chip (`firmware/src/usb_hid.cpp`) | modifiers, slots, buttons | key down and up, combo, mouse, reset | a key the host sees is one that is held | modelled, proved |
| HID through the USB gadget (`server/modules/hid.py`) | the same, shared by several clients that come and go; open devices | the same, with writes in a thread pool; open, close, a new server | the host sees what the manager counts as pressed, and some browser pressed it | modelled, proved |
| Orange Pi host (`armhost-orangepi4`) | the same, devices that may be missing | the same, start, stop, crash | an orderly stop leaves no key pressed | partly, proved |
| Power buttons (`server/modules/gpio_ctrl.py`) | lines, presses, log | press, set up, clean up | no line stays high at rest while a server is up | partly, proved |
| ESP32-S3 host (`esphost-esp32s3/firmware`) | one pulse, a counter that wraps, Wi-Fi | request, `update()`, side by side | a press lasts and ends, but for one race | partly, the first proved |
| Serial link and flashing (`server/modules/hid.py`, `esp32_flasher.py`) | bridge objects, the chip's EN and BOOT lines | open, heartbeat, choose a port, flash, reset, cancel | the chip is back in its application; esptool has the port for itself | partly, proved |
| Video capture (`server/modules/video.py`) | device, last frame, loop | start, stop, capture, stream | the picture comes back with the card | modelled |
| Web terminal (`server/modules/terminal.py`) | sessions, shells, PTYs, readers | connect, create, read, disconnect, clean up | nothing outlives its connection | modelled, proved |

How they interact. In the agent, handlers and coroutines share one event loop:
between two awaits nothing else runs, across an await everything may. `_emit_run`
saves a run's snapshot and then awaits every callback; the built-in one (event hub,
sessions) never suspends, a WebSocket client's does. A run's handlers reach its
coroutine only through the executor's attributes and one future. Sessions follow
runs and tasks inside the publication of an event; terminals follow the event
stream and answer by HTTP. A restart keeps the records on disk and loses everything
else. On the boards the servers are event loops too, with a thread pool for device
writes; the firmware of the bridge runs one message at a time, that of the ESP32-S3
host runs the web server's task beside the main loop.

The hazards, each at its line, are in `PROJECT.json`.

## 2. Modules

| Module | Models |
| --- | --- |
| `PlanRun` | the plan executor: all handlers, the coroutine await by await |
| `PlanRecovery` (extends `PlanRun`) | the store across crashes, shutdowns, startup repair, `resume_saved_run` |
| `HostLease` | abstract: exclusive, permitted use of the managed host |
| `PlanLease` (extends `PlanRun`) | the refinement mapping from plans to `HostLease` |
| `SkillTask` | skill tasks: the executor, the scripted and the guided loop |
| `SkillLease` (extends `SkillTask`) | the refinement mapping from skill tasks to `HostLease` |
| `AgentSession`, `EventHub`, `PassiveMonitor`, `ShellChannel`, `ConfirmWatch`, `Workloads`, `TaskMemory` | the parts around the executors |
| `Agent` | these seven side by side |
| `PowerButton`, `EspHost` | power and reset buttons, over GPIO from the CM4 and on the ESP32-S3 |
| `ChipHid`, `GadgetHid`, `OrangeHid` | the three keyboards |
| `HidFrames`, `HidLink` | the serial protocol byte by byte; the life of the link, flashing |
| `HidChecksum` | the checksum of the frames, and what the line makes of a byte |
| `VideoCapture`, `WebTerminal` | the two streams of the board |
| `Host` | these side by side |
| `PlanRun_proofs`, `PlanSafety_proofs`, `PlanOutcome_proofs` | theorems about plans: types; one executor, approval, abort; store, order, pause, outcomes |
| `PlanLease_proofs`, `PlanRecovery_proofs`, `SkillTask_proofs`, `Host_proofs`, `Agent_proofs` | theorems about the module each is named after |
| `MCPlanRun`, `MCPlanLease`, `MCPlanRecovery`, `MCSkillTask` | instances for TLC |
| `MCHost`, `MCAgent` | `Host` with scripts of messages and the real checksum, `Agent` with a symmetry |

### State and actions of `PlanRun`

`run[r]` is the `PlanRunStatus` object, `store[r]` its file; `current`, `paused`,
`abort` and `confirmation` are the executor's attributes (`confirmation` names the
coroutine that created the future, `future[t]` is that future's result);
`starting` is the run whose starter holds `_lock` inside its emit. `task[t]` is
the coroutine created when run `t` was started: `pc` the await it is suspended at,
`run` the run it captured, `i` its local index. Positions are 1-based.

An action is the code between two awaits. `Launch` and `CreateTask` are
`start_plan` before and after its emit. `LoopHead`, `WakePaused` and `Unpaused`
are the top of the loop around `_wait_if_paused`; `Prepared` follows
`_prepare_step` and decides by policy and supervision; `Asking` and `Answered` are
`_request_confirmation` after its two awaits; `ToolReturns`, `ToolRaises` and the
`Evaluate...` actions are the outcome of a step, one action per answer of the
evaluator; `Finally` is the finally clause. Where a coroutine cannot be
interrupted its pc is in `Holding`, and every other action waits for it.

Abstractions: a step is its identifier, the policy verdict of its call and its
`dangerous` flag; identifiers are distinct (the code takes the first match of a
duplicate); a tool call is its outcome; the evaluator may answer anything its code
accepts, and an exception in it is the answer `continue`, as in the code. A
configured tool executor and run store are assumed. The history variables
`approved`, `aborting`, `ran` and `late` record what the operator and the host
have seen; no action reads them.

`EmitYields` says whether a WebSocket client is connected. Many properties hold
only without one; which ones is part of the result.

### `PlanRecovery`

`Crash` has no guard: a process may die in the middle of anything, and memory is
reset to what the store says. `Shutdown` is the orderly stop, where cancellation
reaches the coroutine. `Recover` repairs one snapshot; a crash may come between
two of them. `ResumeSaved` starts a run with the steps of a recoverable record.

### `SkillTask`

`job[t]` is a `Task`, its `ExecutionContext` and the await its coroutine is
suspended at; `current`, `context`, `handle` and `abort` are the executor's
attributes (`handle` is `_execution_task`, set only by `run_skill_async`).
`RunSkill` runs in the request up to its first notification, `RunSkillAsync` only
creates the coroutine. `Cancelled` delivers the cancellation: inside the try block
of `_execute_prepared_skill` it is the outcome, in the three places outside it
(before the first step, in the "start" and in the "end" notification) it leaves
the executor occupied. The scripted loop is `ScriptHead` to `Noted`, the guided
one `GuidedHead` to `Rested`. A tool call and the wait, notification or
postcondition that follows it without a change of state are one await. `Asked` is
`_evaluate_policy` and what its verdict leads to, `verdict` what it said of the call in
flight, or `unasked`: the actions of a recovery list (`executor.py:790` and `805`) are
taken without it. The guard, the vision backend and the loop detector may answer anything they can:
stop, go on, act; the detector only after `LoopWindow` records. Two consequences of
one history are kept: when the detector fired and recovery is used up the guard,
asked in the same round, fires too (`looping`).

Step kinds, checkpoints and progress are left out: no control decision reads them.
The history variables `told`, `cut` and `early` record who was current at an abort, which
background tasks it cancelled, and whether a task was started before the last had left
the executor; no action reads them.

### The parts around the executors

`AgentSession`: `disk[s]` is the stored record, `bound` the two binding maps, a
child the sequence of states it publishes (what `PlanRun` and `SkillTask` let it
be), `request[s]` where the HTTP request that started the session is suspended.
`Restart` ends the children on disk and loses the bindings; no code looks at the
sessions then, so those it leaves open are remembered in `orphans`.

`EventHub`: an event is its number and whether the client's matcher takes it.
`StreamOpens` (the per-session stream) subscribes and reads the history in one
step; the WebSocket subscribes first and reads the replay in a task of its own,
between which at most `Burst` events come. Queues and replays are filled in the order
of the events, whose numbers only grow, and emptied from their front; so each is the
set of its events, of which the least comes next.

`PassiveMonitor`: `loop[l]` is a task of `_monitor_loop`, `handle` is `_task`,
`stopping` the loops a `stop()` waits for. Time is a counter; a service fails and
recovers as it likes. An action by a skill swallows the cancellation.

`ShellChannel`: a call is what asked for it (tool, skill step, endpoint, console,
check, connect, close) and where it is suspended. A command in flight may reach
the target or not, and be answered, late or broken off, in every combination. With the
system's ssh it may also return though nothing was delivered: exit status 255 is a result
like any other there.

`ConfirmWatch`: `PlanRun` seen from a terminal, as the steps it waits on one after
the other. A terminal reads the event stream (old events first) or polls, looks
whether the run still waits on that step, asks and answers.

`Workloads`: a request is the sequence of commands its endpoint sends
(`Program`), each awaited; `server`, `pid` and `password` are the target's. What
the shell commands do is read off the text `runtime/workloads.py` builds. A `start.sh` is
taken to become its server; one that spawns it leaves the wrapper's number in
`server.pid` (`workloads.py:419`), which a stop then kills in its place.

`TaskMemory`: a save is several writes in one stretch of code without an await, each
of them atomic, and `writer` says which comes next; the process may die, or a write
may raise, between any two. `live[x]` is the task or run in this process, `snapshot`,
`artifacts` and `file` are what is on disk, `ledger` the facts in memory. The repair at
startup reads the newest `ScanLimit` task snapshots, and every run.

### The hosts

`PowerButton` has one action per await of a press, `Tick` for the time that passes
while it sleeps. `EspHost` has one action per statement of a pulse, because its
two tasks are not coroutines: the board has two cores, the web server's task is pinned to
neither, and no lock is taken. `raced` records that `update()` has found over a pulse
that `_startPulse` was still beginning; no action reads it.

`ChipHid`, `GadgetHid`, `OrangeHid`: one action per message, per write, and per
await respectively; a key is in the modifiers or in a slot of the report. What
could not be told by the host afterwards (a lost report, two reports in the pool at
once) is kept in `spoilt` and `unclean` and excepted. `GadgetHid` has the life of the
manager too: devices that open or do not, `stop()`, which closes them and releases
nothing, a browser that leaves, for which nothing is released either, and a new server
after an orderly end or a crash. Which browser pressed a key is kept in `owner`, so that a
key that stays down after its browser went is told from one that nobody pressed.

`HidFrames` sends and parses bytes; the checksum and what the line makes of a byte it
garbles are constant operators. In `MCHost` they are those of `HidChecksum`, where the
checksum is the code's, computed from its table.

`HidLink` has one record per `SerialHIDBridge` ever made, because old
ones may still be open, and the state of the chip as its two lines make it. A request is a
flash or a reset; only flashing looks at `_flashing`, so resets overlap everything.
`Cancel` is `CancelledError` at any of its awaits, which the except clause of
`flash_firmware` (`esp32_flasher.py:307`) does not catch: no recovery, the link stays
closed, and a sequence of line changes that has begun goes on in its pool thread (`gone`).
`Anew` is the end of the server anywhere and the start of the next, which sets both
lines high but does not reset the chip, unless EN was low. Taken for granted: pins that
were set up work (a failed write is logged and swallowed), and an esptool whose
request is gone no longer drives the port.

`VideoCapture` tells pictures apart by whether the card that took them is still
plugged in. `WebTerminal` keeps a shell, a PTY and a reader per connection.

### One run for several parts

The parts of `Host` share no state, nor do those of `Agent`: they meet only
through what each module takes as its input. A behaviour therefore picks one part in
its initial state (`focus`) and only that part moves, while the others rest in an
initial state of theirs. The state space is the sum of those of the parts, not the
product, and each invariant is checked in every reachable state of its part. A proof
needs of the composition only that each step is a step of the part or leaves its
variables alone (the lemmas named `...Moves`). `HidChecksum`, which needs `Bitwise`, is
kept out of `Host`, because the provers cannot handle that module.

## 3. Runs

| Run | Instance | Shows |
| --- | --- | --- |
| `PlanAlone` | one run of each of 32 two-step plans, grown to at most three steps, fair scheduling, no client | `TypeOK`, `CompletedLeavesNothing`, `StoreIsCurrent`, `AbortHoldsTools`, `PauseHoldsTools`; `AbortEnds` and `RunEnds` under fairness |
| `PlanOverlap` | two runs of two steps, no evaluator, a client | with both coroutines alive, `NoUnapprovedTool`, `OutcomeIsFinal`, `StepOnce` still hold, however early the second run is started |
| `PlanIsLease` | two runs, one step and one added, no client | `SingleExecutor`, `WaitingIsAnswerable`, and `IsLease`, the refinement |
| `RecoveryTwice` | two runs of two steps, the second new or resumed, crash and shutdown anywhere | `NoZombieRun`, `DoneWasRun`, `RecordIsFinal`, `SkipSurvives` |
| `SkillTasks` | two tasks, a script (two steps, two tries) or a guided skill (four actions, one recovery attempt of two actions), a client | `TypeOK`, `GuidedIsBounded`, `TaskIsAlone`, `CallsAreWanted` |
| `Agent` | two sessions and three children, two event clients, two monitor loops and two services, three calls, two terminals, three panel requests, two tasks and a run in the memory | `SessionsFollow`, `EndIsFinal`, `StreamIsGapless`, `StopHolds`, `RestartsAreSpaced`, `NoSecondCopy`, `AnswersItsStep`, `WorkloadIsOne`, `MemoryIsSound` |
| `Host` | two presses of two buttons, two typing clients, a key more than slots, all frame types and the longest text, two flashes or resets at a time and two bridge objects, a card that comes and goes, a terminal more than sessions | `PartsTypeOK`, `ReleasedAtRest`, `KeysAccountedFor`, `FramesSurvive`, `FlashingIsClean`, `NoOrphanShell`, `PressLasts`; `PressEnds` and `FramesComeBack` under fairness |
| `SkillAbort` | one task, no client, fair | violates `AbortedTaskEnds` |
| `PlanCrossed` | three runs of one guarded step, a client | violates `NoUnapprovedTool` |
| `PlanLostAbort` | one guarded step, a client, fair | violates `AbortEnds` |
| `RecoveryRepeats` | two runs of two plain steps | violates `DoneNotRepeated` |
| `EspTwoCores` | one pulse at a time, both tasks side by side | violates `PressIsTimed` |

Deadlock is not checked: when every identifier is used and nothing is active the
system rests.

Bounds of the plans and skills. Two steps give a step before and after every pause,
abort and crash, and a third (added) step gives `skip` a target further away than
the next one and `add_step` and `skip` an order. `MaxSteps` also stops an evaluator
that adds steps for ever; nothing in the code does. Two runs are enough to overlap
and to resume one from the other; the crossed confirmation needs three. For skills,
four guided actions leave room for a recovery of two actions and one action before
and after it, or for a recovery that passes the limit, and `LoopWindow` 1 (5 in the
code) only lets the detector fire earlier.

Bounds of the agent's parts. `MaxDeaths` 1 (restarts, for sessions): what one leaves
behind is final. `MaxEvents` 4 exceeds the history (3), which exceeds the replay
(2), so that old events fall out. `Burst` 2 is the replay's length: the WebSocket's
task gets its first turn before more events than that; after more, the older of them
would be sent behind the newer ones of the replay. `Loops` 2: a stop that overlaps a start leaves at most one loop
behind. `MaxTime` 4 is two cooldowns. `MaxConnects` 2 lets one connection replace
another under a running command. `Steps` 3: a terminal can be two steps behind.
`MaxServers` 3: every panel request may start one. `ScanLimit` 1 (500 in the code) and
`KeptFailures` 1 (100): a second task is beyond both. `MaxSaves` 4 and `MaxLosses` 2
let a save be cut off, be repaired, and the repair be cut off too.

Bounds of the hosts' parts. `LogMax` 2 (100 in the code) lets the log overflow.
`Wrap` 8 (2^32) lets the counter wrap within three long presses (16 and 5 in
`EspTwoCores`). `...Slots` 1 or 2 (6)
and a key more lets a report overflow. `MaxFaults` 1 for the line: each fault is
followed by enough frames to bring the parser back. `Requests` 2: two
flashes or resets, or threads they left, at a time, which overlap in every order (the
theorem is for any number). `MaxBridges` 2, `Patience` 2 (3): an old and a new link of one server; the next
server has two of its own. `MaxGlitches` 2 for video. `MaxLeaks` 1 and
`MaxSessions` 2 for terminals, with three connections.

Symmetry. Runs, tasks and panel requests are interchangeable; the symmetry is used
in runs of safety properties only.

Fairness. `FairSpec` of plans and skills is weak fairness of the creation of a task
and of each coroutine: the loop serves every ready coroutine, and tools and the
evaluator have timeouts. No handler is fair: nobody has to answer, pause or resume.
In `Host` two parts have fairness. ESP32-S3: time passes, a handler that began goes
on, and so does the main loop, each in a task of its own. Video: the server starts again when
it has stopped, the capture loop and the generator of the stream go on. Nobody has to press, plug or look.

## 4. What the checks show

### Violations

`PlanCrossed`. A run is terminal before its "finished" emit returns. While a slow
client holds that emit, a second plan is accepted; the first run's finally clause
then empties the executor under it; a third plan starts; the second coroutine,
back from its own emit, awaits `self._confirmation_future`, which is now the third
run's. Approving the third run executes the second run's guarded step. With three
runs TLC also finds `StepOnce` and `OutcomeIsFinal` violated: a coroutine reads
`_current_run` only when it first runs, so two of them may capture the same run. All of
it takes a start that `has_active_run` lets through while another run is still current;
section 5 says what holds without such starts.

`PlanLostAbort`. `abort_run` resolves a confirmation future if there is one. If
the abort comes while the step is being announced there is none yet, and
`_request_confirmation` does not look at the abort event: the run waits.

`RecoveryRepeats`. The index saved with a run is the last step dispatched, not the
first one to be done. A run paused after a step finished is resumed, after a
restart, with that finished step.

`SkillAbort`. A task that runs in its request polls only `is_paused` while it is
paused, so an abort never reaches it. In the background the cancellation does;
but one that comes before the coroutine's first step leaves `_current_task` in
state running, and every later task is refused.

`EspTwoCores`. `_startPulse` marks the pulse before it notes the pin and the end
time. On the other core `update()` sees a pulse whose end time is the last one's,
ends it, and only then the button is pressed: nothing will release it.

### Exceptions in the passing properties

Each of these is a real behaviour of the code that a property has to except; the
property says what still holds.

- `SessionsFollow`: a session that was open when the server died stays open; a
  run that was paused before the session was bound to it publishes to nobody.
- `StopHolds`: a start while a stop waits leaves a loop no stop reaches, because
  `stop()` forgets the task there is by then. `RestartsAreSpaced` holds all the same:
  the cooldown is noted before the restart is awaited.
- `TaskIsAlone`: a skill is accepted as soon as the state of the last task is not "running"
  (`executor.py:80`), hence while that task is paused, has given up, or announces
  its end; the two then share `_current_context`, and the first to end empties the
  executor under the other. The endpoints of skills do not ask `get_current_task()`.
- `NoSecondCopy`: a step of a skill is typed on the keyboard after its answer over
  ssh was lost, so it may run twice. A broken command forgets the client in use by
  then (`ssh.py:292`), which may be a newer one; no command is repeated for that.
  Over the system's ssh a step of a skill is reported as done whatever ssh came back with,
  also when the target could not be reached (`driver.py:160`): nothing ran then.
- `AnswersItsStep`: the answer names the run, not the step. When the dashboard, or
  another terminal, answers while a prompt stands, the answer goes to the next step.
- `WorkloadIsOne`: requests that overlap are kept apart by nothing, and a start does
  not look whether the workload runs; the rest (a stop that failed ends a restart)
  holds. A stop by pattern matches the command's own shell and so reports no
  success; verify succeeds whatever runs; a created workload is written below a
  directory named `~` and never found again.
- `MemoryIsSound`: an unfinished task with `ScanLimit` newer snapshots is never
  repaired. `facts.json` may lag behind the snapshots (it never claims more than they
  do), and `tasks.latest` stays "running" after the repair of that task.
- `KeysAccountedFor`: with two clients a report may be overtaken in the thread pool; with
  none in flight the next one repairs it. On the gadget nothing is released when a browser
  leaves (`main.py:257`) or when the manager is stopped (`hid.py:551`), and a new server
  does not know what the host still sees. Such keys stay down until a browser releases
  them; the property counts a key as accounted for when a browser pressed it and none
  released it, present or gone.
- `PressLasts`, `PressEnds`: a press whose end lies behind the wrap of the counter ends at
  once. After the race of `EspTwoCores` (`raced`) a press may be short, or not end; the
  properties say that nothing else does that.
- `FlashingIsClean`: a flash cancelled, or whose server died, between its entry into the
  boot loader and its way back leaves the chip there until the next flash (`cut`); a
  cancelled request leaves the link closed. A reset meanwhile may reopen the port under
  esptool (`crossed`).
- `FramesSurvive`: the two checksums agree on payloads of up to 253 bytes only; for
  254 and 255 the chip's covers no byte or one. After a fault the parser may swallow
  one longest payload.
- `NoOrphanShell`: when a shell cannot be spawned both ends of its PTY stay open
  (`leaked`); no session points to them.
- `FramesComeBack`: until a new picture is taken the viewer sees the old one, with
  no sign of it.

Two related cases no property states: an orderly shutdown cancels the coroutine of a
plan, which records the run as aborted by the user, so startup finds a final record
and the run cannot be resumed, while after a crash it can. And the first heartbeat
after the serial link was opened, if unanswered, gives the link up (`hid.py:397`).

## 5. Proofs

TLAPS checks the following for every value of the constants. Every safety property a
passing run checks is a theorem, except the two parts of `FramesSurvive` about faults on
the line.

| Theorems | Properties |
| --- | --- |
| `TypeCorrect` (`PlanRun_proofs`) | `TypeOK` of `PlanRun`, with and without a client |
| `PatientAlone`, `PatientApproved`, `PatientAnswerable` (`PlanSafety_proofs`) | `SingleExecutor`, `NoUnapprovedTool`, `WaitingIsAnswerable`; with and without a client, for patient callers |
| `PatientNothingLeft`, `PatientOnce`, `PatientFinal`, `PatientPrompt` (`PlanOutcome_proofs`) | `CompletedLeavesNothing`, `StepOnce`, `OutcomeIsFinal`, and that an abort lets at most one more call through; the same |
| `ExecutorAlone`, `ToolsApproved`, `WaitsAnswerable` (`PlanSafety_proofs`), `NothingLeft`, `StepsOnce`, `OutcomesFinal` (`PlanOutcome_proofs`) | the same six properties without a client, as corollaries: no caller has to be patient then |
| `AbortHolds`, `PauseHolds` (`PlanOutcome_proofs`) | `AbortHoldsTools`, `PauseHoldsTools`; no client |
| `StoreHolds` (`PlanOutcome_proofs`) | `StoreIsCurrent`, with and without a client |
| `PlanImplementsLease` (`PlanLease_proofs`) | `IsLease`: every step of a plan is a step of `HostLease` or leaves it unchanged; no client |
| `NoZombies`, `RecordsFinal`, `DoneWasCalled`, `SkipsSurvive` (`PlanRecovery_proofs`) | `NoZombieRun`, `RecordIsFinal`, `DoneWasRun`, `SkipSurvives` |
| `TypeCorrect`, `GuidedBounded`, `TasksAlone`, `CallsWanted` (`SkillTask_proofs`) | `TypeOK`, `GuidedIsBounded`, `TaskIsAlone`, `CallsAreWanted`, with and without a client |
| `SkillsImplementLease` (`SkillTask_proofs`) | every step of a skill task is a step of `HostLease` or leaves it unchanged; with and without a client, for patient callers |
| `ButtonsReleased`, `NoOrphans`, `KeysAreAccountedFor`, `FlashingClean`, `PressesLast` (`Host_proofs`) | `ReleasedAtRest`, `NoOrphanShell`, `KeysAccountedFor`, `FlashingIsClean`, `PressLasts` |
| `PartsTypes`, `FramesWhole` (`Host_proofs`) | `PartsTypeOK`; `FramesAreWhole`, the first part of `FramesSurvive`: without a fault every message of up to 253 bytes is handled with its last byte, once and in order, whatever the checksum |
| `TypeCorrect`, `SessionsHold`, `EndsHold`, `StreamsGapless`, `StoppedIsStill`, `RestartsSpaced`, `CommandsOnce`, `AnswersMeetTheirStep`, `WorkloadsAreOne`, `MemoryHolds` (`Agent_proofs`) | `TypeOK`, `SessionsFollow`, `EndIsFinal`, `StreamIsGapless`, `StopHolds`, `RestartsAreSpaced`, `NoSecondCopy`, `AnswersItsStep`, `WorkloadIsOne`, `MemoryIsSound` |

Few of these properties are inductive. What strengthens them, and why:

- Plans. `TypeInv` holds the types; its interesting conjunct is that a live coroutine's
  position is inside its plan or one past it, through insertion and skipping. `SafeInv`
  says for each pc what the executor's attributes and the run's state must be: a live
  coroutine runs the current run, which is not terminal until it is finishing; a run is
  waiting exactly while its coroutine asks or waits, and then the future is its own; a
  coroutine confirmed or at its tool was approved if it had to be. `StopInv` adds what an
  accepted abort leaves behind: until the finally clause the abort event is set, or the
  pending future already carries an answer.
- `CourseInv` adds the order of the steps: identifiers stay distinct through insertion
  (`Numbered`), every step behind the coroutine has its outcome (`Behind`), no step after it
  had its call (`Ahead`), and nothing can pause a run between the look at the pause and
  the call. Outcomes are then final because a step is written only where the coroutine
  stands, or skipped ahead of it.
- `StoreInv` holds with a client too: a snapshot differs from its run only where a
  coroutine stands between an assignment and its emit, and a coroutine about to be
  created is not such an excuse.
- Clients. `PatientCallers` says that nobody starts a plan while another is current, that
  is, callers ask `get_current_run()` and not `has_active_run()`, which is false
  already while a run's "finished" emit is on its way. It is a hypothesis about the callers'
  steps (`[][...]_vars`), and without a client it holds of the code (`UnwatchedIsPatient`):
  no emit suspends then. So an early start is the one cause of what `PlanCrossed` finds;
  with patient callers `SafeInv` and `CourseInv` are inductive with a client too. Two
  properties need that there is none (`EmitYields = FALSE`): an abort or a pause that
  arrives while a step is announced to a client is looked at only after the call, so
  that of `AbortHoldsTools` only "at most one call" remains (`AbortIsPrompt`), and of
  `PauseHoldsTools` nothing. `PlanLostAbort` is the same window, before a confirmation.
  `PlanRecovery` assumes `NoClient`: with a client a shutdown during the "finished" emit
  makes an aborted run of a completed one.
- Recovery. `RecInv`: while the server is up, `SafeInv`; while it is down there is no
  coroutine and memory is the store; always, a record that differs from its run is
  unfinished, so that startup repairs it. `DataInv` follows what records claim: each step
  that a record has as done or skipped is accounted for in that run or in the one it
  was resumed from. One lemma per kind of step shows that a coroutine makes at most one more
  claim, for the step it called (`Edited`).
- Skills. `JobInv`: a task with an outcome is over, or gave up and looks once more.
  `Budget`: what is left of the limits at each await of the guided loop. `Alone`: unless a
  task was started early, `_current_task` is exactly the task that has not left the
  executor. Patient callers of skills (`PatientTasks`) start one when `get_current_task()`
  is None; then nothing is started early (`StaysPatient`), so the holder of the lease is
  `_current_task`. A client does no harm here, because the executor is emptied after
  the last notification, not before. The stop a job heeds is the cancellation (`cut`): an
  abort of a task in its request is no more than a request (`SkillAbort`). A skill gets no
  permits, so that the lease asks for a "free" verdict of each call but those of the
  `Trusted` steps, which are the actions of its recovery list.
- Keyboards. What counts as pressed is what the report being written contains, or what the
  host saw last (`GadgetCurrent`, `OrangeCurrent`). Keys are each in one slot
  (`ChipDistinct`), so that removing one removes it. Each key that counts as pressed has an
  owner (`GadgetOwned`).
- Link. A line that is low is held low by a request or a thread at a named step, or, for
  BOOT, by a flash that was cut short; the chip is in its boot loader only while a request
  is on its way from there, or after such a flash (`LinkLinesHeld`). As long as nothing
  crossed, one request is under way, only the current bridge may be open, and it is closed
  before esptool starts (`LinkPortIsFree`).
- ESP32-S3. Unless it raced, the loop's task lets go of a pulse only while the web server's
  task begins none (`EspApart`); the end of a pulse is ahead by what is left of it
  (`EspAhead`); and a pulse found over is over (`EspOver`).
- Power buttons. The property is inductive once the types are known. Terminals: a session is
  there exactly while its handler is open, and the sessions are finite, so that they can be
  counted.
- Frames. While nothing was lost or garbled, the bytes on the wire and those the parser has
  taken are together the frame of the last message that was sent (`FramesInOrder`): for each
  state of the parser the invariant says how much of that frame is left to read. So the
  checksum is compared with itself, whichever it is.
- Sessions. Who is bound to a child follows it, and who follows a child of this server is
  bound to it; a run whose request is held has no coroutine yet and nobody bound.
- Hub. The history is the last numbers (`HubKept`); a WebSocket before its first turn has
  everything since it subscribed in its queue, and no more than is replayed
  (`HubWaiting`); from some event on a client has or will get all that match
  (`HubFlows`), and the rest of its replay comes before the rest of its queue (`HubApart`).
- Monitor. Unless a start overlapped a stop, the loop `stop()` reaches is the one there is;
  the time of the last restart is what the code remembers.
- Channel, terminals of operators: for each place a call or a terminal can be suspended
  at, what it has sent, lost, and knows.
- Workloads. While one request at a time controls the workload, one server runs, the one
  `server.pid` names, and who is about to start one has cleared the way. (`PanelPrograms` tells
  which position of which endpoint's program does what.)
- Memory. Snapshots the repair has still to look at are in `todo`; a completed task is
  saved as nothing else; the ledger and the file tell only what snapshots show already, so
  that a crash between two writes leaves them agreeing.

Assumptions on constants are in the modules: `ConstantsOK`, `SkillConstantsOK`,
`HostConstants`, `FrameConstants`, `AgentConstants`. Most say that a limit is a number, or that an
identifier is not also the name for nobody. Three say more. No press of the ESP32-S3 host
is longer than the one that forces the power off, which bounds the ghost `age`. The
boards' keyboards have a slot. And `Burst`, the events before a WebSocket's first turn, is
no more than the history and the replay hold: nothing in the code enforces it, and the
stream is not gapless without it. Of the checksum and of a garbled byte `PartsTypes` and
`FramesWhole` need only that they are bytes (their hypothesis `ByteLine`; both are `uint8_t`
in the firmware).

Only model-checked, and why:

- Liveness under fairness: `AbortEnds`, `RunEnds`, `PressEnds`, `FramesComeBack`.
- The parts of `FramesSurvive` about faults, `HandledInOrder` and `FaultPasses`. They
  depend on which changes this checksum detects, hence on its bitwise definition, and on what
  the parser makes of bytes it takes for a frame, an induction over the stream.
- `PlanOverlap`: two runs, a client and callers who are not patient. The proof would have to
  say which coroutines may share a run; with three runs the properties fail.

## 6. What could be added

- Plans and skill tasks together as users of one `HostLease`: `routes.py` keeps them
  apart only where it asks both (`routes.py:172`), and the endpoints of skills do not.
- A proof of what `PlanOverlap` checks: two runs of which the second is started early.

## 7. What is not modelled

- Policy and guard: stateless matching of text; their verdict is an input of
  `PlanRun` and `SkillTask`.
- Intent parsing, prompts and the LLM client: text and an external service; what
  they decide is an input.
- Skill store, recorder and library: files and parsing. The recorder's hook is never
  called by the code, so that it records nothing.
- Token counters, knowledge, conversations, the model registry: small stores no control
  decision reads, except the resolver of chat messages.
- Vision: its answers are inputs.
- Authentication and system information: stateless.
- Dashboards: browser clients of the API, present as the requests they send.

Of the parts that are modelled partly: Python skills' own code, the scan of serial
ports, file transfer, HID and power actions of the driver, the choice of a workload
by name, the frozen screen (which repeats the black one, with a timer of its own),
the other modules of the Orange Pi host, which repeat those of the CM4, and the HID
code of the ESP32-S3 host, which is the file `ChipHid` models. `PROJECT.json` lists
every component with its status. In the models of the agent's executors time is not
modelled: a timeout is an outcome that may come at any moment.
