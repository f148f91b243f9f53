# Verification of rtos-apps

TLA+ models of the RTOS Application Layer, model-checked with TLC and, for the
most important safety properties, proved with TLAPS.  The models are translated
from the C sources under `src/`; `PROJECT.json` names, for every definition,
the lines that it stands for.

## 1. The system

The repository is a library of components for applications on a real-time
kernel.  Two applications carry the logic:

* the **audio application** (`audio/`): threads that process audio pipelines at
  the pace of the SAI interrupt;
* the **TSN application** (`tsn/`): cyclic tasks on a synchronised clock, and
  the motor control, serial and alarm applications on top of them.

Both hand statistics to an asynchronous thread (`async/`, `stats/`).

### Inventory

| Component | Source | State | Operations | Model |
|---|---|---|---|---|
| Audio application | `audio/audio.c`, `play_pipeline.c` | handler, pipeline count, per thread: handle, queue of 10 events, mutex, semaphore; `reset_mut`; interrupt mask | RUN, STOP, DATA and RESET events, the reset protocol, the SAI interrupt | `AudioApp` |
| Audio pipeline framework | `audio/audio_pipeline.c`, `audio_element.c` | table of pipelines, stages, buffers, shared buffers | init, run, reset, exit | `AudioPipeline` |
| Audio buffer | `audio/audio_buffer.[ch]` | storage, read and write index | init, write, read, silence, reset | `AudioBuffer` |
| SAI elements, SAI driver | `audio/audio_element_sai_*.c`, `sai_drv.c` | started flag, FIFO levels | run, reset, set up, close | `AudioPipeline` and the outcomes in `AudioApp` |
| Routing, sine, DTMF | `audio/audio_element_routing.c`, `..._sine.c`, `..._dtmf.c` | routing table under a mutex | run, reset, connect, disconnect | as elements of `AudioPipeline`, without samples |
| AVTP elements, AVB control | `audio/audio_element_avtp_*.c`, `audio_avb.c` | streams, connected flags, stack handle, buffers of the sources, element mutexes | connect, disconnect, run, reset, start, stop | `AvbStreams` |
| PLL element | `audio/audio_element_pll.c` | control loop | run | not modelled: numeric |
| Cyclic tasks | `tsn/cyclic_task.c`, `tsn_task.c` | schedule, timer, event queue of 1, sockets, link status | start, stop, timer call-back, cycle, send, receive | `CyclicTask` |
| Motor controller | `tsn/motor/controller.c` | state, restart delay, stopped flag, event queue of 1 | cycle, button, client command | `Controller` |
| Control strategies | `tsn/motor/control_strategies.c`, `scenarios.c` | current and previous strategy, stage, motors, scenario position, identification | reset, prepare, startup, init, loop, change of strategy | `ControlStrategy` |
| Io device | `tsn/motor/io_device.c` | state, status bits, requested current, index delay | cycle, button, drive | `IoDevice` |
| Network of motors | `tsn/motor/*` over `tsn/cyclic_task.c` | frames of a period | loss, silence, timer errors | `MotorControl` |
| Asynchronous calls, statistics | `async/async.c`, `stats/`, the `..._stats_dump` and `..._stats_print` functions of `tsn/` | queue of 16 calls, counters, snapshots, pending flags | call, dump, print, periodic function | `AsyncStats`, `StatsMailbox` |
| TSN application | `tsn/tsn_app.c`, and init and exit of every task | what is allocated, opened, started, registered | start, failure of any call, exit | `TsnApp` |
| User button | `tsn/user_button.c` | two slots for queues, interrupt mask, semaphore | press, interrupt, task, register, unregister | `UserButton` |
| TSN sockets | `tsn/tsn_task.c` | batch of frames, zero copy buffers | transmit, transmit done, receive | `TsnSocket`, `CyclicTask` |
| Alarm task | `tsn/alarm_task.c` | armed callback, queue | monitor, send | `AlarmTask` |
| Serial io device | `tsn/serial_iodevice.c` | ring of bytes, read position, semaphore, queues of lines | UART callback and task, loop, reception | `SerialDevice` |
| Trajectories, current control, motor tables | `tsn/motor/*` | floating point | | not modelled, see section 7 |
| Monitoring, logging | `tsn/motor/*monitoring*`, `log/` | counters, text | | not modelled |

### How they interact

* The SAI interrupt masks itself and posts a DATA event to every data thread.
  Thread 0 unmasks it after a successful run.  A thread whose run fails takes
  `reset_mut`, resets its pipeline, posts RESET_ASYNC to the others, takes each
  one's semaphore, runs, and posts DATA to the others.  The control thread
  starts and stops all this under the threads' mutexes.
* The pipelines of two threads may share a buffer: the user's buffer is a second
  pair of indices on the storage of the owner.
* A cyclic task waits for its timer's events on a queue of depth one.  Every
  frame carries the time of the cycle it was sent for; a receiver uses only the
  frame of its own cycle.
* The AVB stack asks the control thread to connect and disconnect streams; the
  request is passed to every pipeline in the table.  A stream is shown to and
  hidden from the data threads under its element's mutex.
* The controller's loop runs on the received frames, a strategy computes the
  currents, the devices apply them and answer.  Buttons and the command client
  post to queues that the loop empties.
* A cyclic thread copies its statistics and queues a call to print the copy; a
  pending flag per copy keeps it from copying again before they are printed.
* Tasks act by themselves as soon as they are started (threads, timers, the UART,
  stack call-backs, the button's registrations): start, failure and exit must
  leave none of them without what it uses.

### What is hard

Interleavings of data threads, control thread and interrupt on several cores;
full queues whose loss nobody notices; events that outlive the run they were
sent for; streams that vanish while they are read; snapshots that are printed
while they are written; a start that fails half-way; threads that wait on each other; a timer that is restarted while its
interrupt is pending; clocks that jump; frames of other periods; strategy
changes in any stage of a strategy; faults and losses while motors are driven.
`PROJECT.json` lists each hazard at its line with the properties that cover it,
and, where a property holds with an exception only, the exception.

## 2. Modules

```
AudioApp          <- AudioAppProofs
AudioBuffer       <- AudioPipeline <- MCAudioPipeline (configurations)
AudioPipeline     <- AudioPipelineProofs
AvbStreams        <- AvbStreamsProofs
AvbStreams        <- MCAvbStreams (entities)
ControlStrategy   <- Controller <- ControllerProofs
Controller, IoDevice <- MotorControl
MotorControl, ControllerProofs <- MotorControlProofs
CyclicTask        <- CyclicTaskProofs
StatsMailbox      <= AsyncStats <- AsyncStatsProofs
UserButton, TsnSocket, AlarmTask, SerialDevice <- TsnApp <- MCTsnApp (nodes)
TsnApp            <- TsnAppProofs
```

`A <- B`: B extends A; `A <= B`: B implements A (`INSTANCE A WITH ...`).  Names follow the source: a state variable has the name
of the C variable, an action that of the function or of the step in it.  A
definition introduced by `Variant:` is not part of any specification; it is a
wrong version of the definition after it, used to show that the properties can
fail.

## 3. The models and what the runs show

### Audio application (`AudioApp`)

A data thread is a sequence of steps: receive, lock its mutex, look at the
handler, run, and on failure the steps of `audio_reset`, one action for each
access to shared state.  `CtrlTask` is `audio_run` and `audio_stop`, also split
at each mutex.  The interrupt posts to the threads one by one, because they run
on other cores.  Audio samples are abstracted to whether the run succeeds; only
SAI elements fail, and only after they were started.

| Run | Configuration | Shows |
|---|---|---|
| `audio_single` | 1 pipeline, queue of 3 | a running pipeline always has a wake-up to come (`WakeUpPending`, `Streaming`), the assertion "handler couldn't restart" holds, commands end, no deadlock |
| `audio_dual` | 2 pipelines, queue of 2 | stop never frees a pipeline in use, the interrupt is closed for good, a reset is a rendezvous of all the pipelines and leaves no semaphore or event behind, a requested reset comes |
| `audio_reset_stop`, `audio_stale_handle` | 2 pipelines | the disagreements of section 6 |

Bounds.  Two threads are all the roles there are: initiator, and another one to
be reset; the parent and a child.  The queue of ten is cut to 2 or 3 where a
full queue is to happen (a smaller queue loses events earlier and nothing else)
and is 10, as in the code, in `AudioAppStop.cfg`, so that its counterexample is
real.  Deadlock is not checked in `audio_dual`, because a
STOP and a reset may indeed block each other (`audio_reset_stop`); `audio_single`
checks it.

Fairness.  The kernel schedules every thread and serves every interrupt (weak
fairness).  The control thread takes mutexes that data threads take again and
again; after each event a data thread blocks on its queue, and the kernel hands
a released mutex to its waiter, hence strong fairness on the two locking loops.
Nobody has to send commands.

### Motor control (`ControlStrategy`, `Controller`, `IoDevice`, `MotorControl`)

A cycle of a controller or of a device is one action: the cyclic task calls the
loop from one thread, and button and client only post to queues that the loop
reads.  The floating point control laws become the set of their outcomes (wait,
go on, done, error); the pointers to motors, the scenario loaded and the
counters of the identification are kept.

`MotorControl` composes them in a period: first the controller, then each
device.  In any period a frame may be lost, a node may be silent, a loop may run
with a timer error, a device may get a message without a current for it, and a
drive may fail.

| Run | Configuration | Shows |
|---|---|---|
| `controller` | 2 motors, all 6 strategies, client | a current is requested only when all devices were heard; STOP holds until GO; GO resumes; a restart is delayed; no stage of a strategy uses what another has not set up (`StagesPrepared`) |
| `motor_network` | 2 devices, 2 faults, 1 press, device 1 may fail | no device is driven by anything but this period's current; a fault releases everybody; and finally, without drive faults, all are controlled |

Bounds.  Two motors are the maximum of the code (`NB_IO_DEVICE_MAX`) and the
smallest number for the two-motor strategies.  Delays of some thousand periods
(`RESTART_DELAY_MS`, `STAY_INDEX_DELAY_MS`) are cut to 2: they count down one by
one and only "is it over" is tested.  Two faults allow one on each side, or the
second while the first is being recovered from; a button press and the client
make changes of strategy happen in any state.

Fairness.  The cyclic tasks keep running (that they do is what `CyclicTask`
shows), a user starts every device, and a drive is initialised and reaches its
index at last: strong fairness, as the device must be in its turn.

Assumption.  Frames sent by a loop with a timer error are not accepted.
`CyclicTask` shows the one exception: when the error is an early wake-up the
frame carries a time to come.  It is listed under the hazards.

### Cyclic tasks (`CyclicTask`)

Each node has a clock, a timer, a queue of depth one and a thread that is
waiting, checking its schedule, stopping or starting its timer.  Time is
discrete and kept relative to the current second: at the end of a second all
stored times are shifted, so the state space is finite without an end of time.
The environment makes clocks jump, delays threads, loses and holds back frames
and makes starts fail, `MaxFaults` times.

| Run | Configuration | Shows |
|---|---|---|
| `cyclic_node` | 1 node, 3 faults | the schedule follows the timer, restarts do not cause restarts, the node always recovers |
| `cyclic_network` | controller and device, 1 fault | only fresh frames are used, and in the end both hear each other in every period |

Not in a run: with an odd period and offset 0, which `cyclic_task_start` accepts,
the time a device's frame is expected for and the one it is sent with differ by
1 ns and TLC refutes `AllLinked` without any fault.

Bounds.  A second has 8 units and a period 2: the latest first wake-up (1.5 s, an
offset and a period) comes before the 2 s timeout, as with the periods the
applications use.  A clock is off by one unit or right, which is less than a
period, and enough to leave the schedule.  Frames older than the previous second
are forgotten: no cycle can expect them.  Three faults in one node cover a fault
during the recovery from a fault during a recovery.  `tsn_task.c:41` and 48 cut the
difference of clock and schedule to 32 bits, the model does not: up to two seconds it is
the same, but in the code a task that is late by a multiple of 2^32 ns (4.3 s)
would find itself on time.

Fairness.  Time passes, timers fire, threads run; a clock that lost its master
is synchronised again at last.

### Audio pipelines (`AudioBuffer`, `AudioPipeline`)

`AudioBuffer` is the ring of `audio_buffer.c` counted in periods: in the code all
lengths on the data path are one period and sizes a number of periods, and with
a period that is a power of two the mask wraps at the same place (the application
chooses the periods; a comment in `audio_buffer.c` asks for sizes that are powers
of two, the code does not check it).  `AudioPipeline` is the rest: `SetConfig` fills in
defaults, `EarlyConfigCheck` and `ConfigCheck` accept or refuse, `Create` lays the
buffers over the storage, `SharedBufferFind` attaches a `shared_user` buffer to
the storage of its owner.  `InitPipeline`, `InitPipelineFails`, `SaiSetup` and
`Fail` are the loop and the error path of `audio_run`; `CommandStop` and
`ExitPipeline` are `audio_stop`.

`RunElement` runs one element of one thread: it writes the outputs, then releases
the inputs; a SAI sink that starts puts a period of silence ahead of its input
and fills the FIFO twice.  An element is one step although the code copies sample
by sample: within a pipeline nothing else touches its buffers, and between
pipelines `SharedOneLate` says that owner and reader are at different periods of
the ring, so that finer steps would meet nothing.  `RunElementFails` is a SAI FIFO
out of range.  A failure ends the thread's period; when all threads are done
`ResetPipelines` resets every pipeline and restarts.

The model keeps no samples but when each period of storage was written.  Assumed:
every thread finishes its period before the next interrupt, which the DATA queue
and the FIFO checks are there for; the owner of a shared buffer is configured in
an earlier pipeline (otherwise the code logs an error and leaves the buffer
without storage); and no storage is given with a `base` of its own, which
`audio_pipeline.c:450` and 463 would leave out of sizes and offsets.

| Run | Configurations | Shows |
|---|---|---|
| `audio_pipeline` | all 2916 chains source, routing, sink over two buffers with raw ids 0..2, two storages and 0, 1 or 3 periods; one wide, one too deep; seven that share buffers | see below |

* `FreshInRun`, `RingsDrained`: a configuration accepted without a warning about
  its buffers passes this period's samples from element to element and leaves
  nothing behind, after any failures and resets.  Without the premise TLC finds a
  buffer with two readers, which the check only warns of, reading old samples.
  Buffers may lie on one storage, of which the check warns as well
  (`audio_pipeline.c:343-352`); their samples stay apart in time, unless silence is
  written there: ahead of a shared buffer by a reset, or by a SAI sink that starts
  while samples of another buffer are in the storage.  `SilenceApart` excludes these.
  `RingsDrained` counts with `audio_buf_avail`, which is right for sizes that the mask
  wraps at, and of more than one period.
* `SharedOneLate`: a reader in another thread is one period late, whatever the
  order of the threads.  It needs readers at index 0 when the owner starts
  (`aligned`): a SAI sink or a routing element does not reset its inputs, and TLC
  shows that after an odd number of runs and a reset the reader gets the samples
  being written.  On a ring of two periods a starting sink's silence may overwrite
  the owner's first period.  `SharedOnce` is what the check does not refuse but sharing
  needs: a storage of several periods for the shared buffer alone, written by one
  element of its owner's pipeline, and no reader named twice in a pipeline.  All the
  configurations of the run that share buffers are of this kind.
* `SharesWithItsOwner`: holds while no RUN has failed.  A RUN that fails after its
  first pipeline leaves it in the table; the next reader finds that one's buffer.

Bounds.  Four slots, as in the code; two failing RUNs for lack of a resource, so
that with three pipelines the table fills up.  Refused configurations and full
tables may fail any number of times.

### AVB streams (`AvbStreams`)

The control thread executes one request of the stack at a time (`op`): it goes
through the pipelines of the table, and in each through the steps of
`avtp_source_connect` or `..._disconnect`, which are actions of their own because
the data threads run meanwhile: create, show under the mutex; hide under the mutex,
destroy, clear the handle.  A data thread (`dpc`) runs its source, the elements in
between, and its sink, one stream after the other, or resets them.  `running` and
the fact that STOP waits for the data threads come from `AudioApp`
(`NoUseAfterExit`).  The buffers of a source are counted in periods (`level`).

| Run | Configuration | Shows |
|---|---|---|
| `avb_streams` | 2 pipelines with both elements, 3 slots, one stream per element, CRF stream at index 1, 1 failing RUN, 2 entities | `StreamUsedLive`, `StreamsFollowStack`, `SourceBuffered` |

* `StreamUsedLive`: a run uses no stream that is destroyed.  A reset takes no
  mutex, and TLC refutes the same for it.
* `StreamsFollowStack`: streams are those the stack has connected.  Three
  exceptions, each refuted by TLC without it: a message to disconnect has an index
  only, and one with the index of the CRF stream is taken for that; the check of
  the index lets one too many through, whose stream is not disconnected by STOP; and
  after a RUN that failed, pipelines left in the table get streams, too.
* `SourceBuffered`: after a source has run there is a period in each buffer, and
  never more than fit, because a stream that starts again is put off from an empty
  buffer.  The buffers are taken to have AUDIO_PIPELINE_AVB_MAX_BUFFER_SIZE periods,
  the most that the source lets into them.  No code sees to that: a storage of 0 has
  two periods (`audio_pipeline.c:18`, 701-703), and a user who wants the property
  has to configure more.

Bounds.  The entities have fewer streams than AVTP_RX_STREAM_N: with that many, which
`audio_element_avtp_source.c:532` allows, the index that is one too many (lines 248,
260) lies behind the array `stream[]` (line 68), and the model has no memory there to
write to.  Two threads so that a request goes through more than one pipeline; a third
slot for what a failed RUN leaves.  The indices 0 and 1 contain all cases: the
default and the real index of the CRF stream, the last stream, one too many.
Deadlock is not checked: when leftover pipelines have filled the table and the
control thread cannot RUN, nothing is left to do.

### Statistics and asynchronous calls (`AsyncStats`, `StatsMailbox`)

The functions that dump and print statistics differ in names only, so there is one
model of them all: an owner has counters, a copy and, in most cases, a pending
flag.  `Dump`, `Copy`, `Called` and `CallFailed` are the cyclic thread's steps, and
`Receive`, `Printed`, `Timeout` and `FuncDone` those of the asynchronous thread.
`StatsMailbox` is what the owners rely on: a box that is filled when empty and
emptied when read.

| Run | Configuration | Shows |
|---|---|---|
| `async_stats` | three owners: with a flag, without one (serial), with one never cleared (motor network statistics); queue of 2, 2 samples each | the mailbox is implemented (`MailboxSpec`), no sample is lost or printed twice, flags are cleared at last |

Bounds.  Two places in the queue let a call without a flag crowd out the others.
Two samples: one in the copy while the other is counted.  Fairness: both threads
are scheduled; nobody has to dump.

### TSN application (`TsnApp`, `UserButton`, `TsnSocket`, `AlarmTask`, `SerialDevice`)

Start and exit are sequences of steps (`AppSteps`, `AppExit`) put together the way
the functions call each other; a step that fails undoes what the error paths of
all its callers undo, or is ignored where the caller ignores it.  `held` is what is
acquired and `Acting` what of it acts by itself.  A pointer may outlive what it
points to: `known` is what has been acquired once, also if the function that acquired
it has failed and given it back (`GivenBack`: a timer that gets no call-back, a client
that gets no thread).  So `command_client_start` fails in two ways: without memory
there is no client; without a thread there is a freed one, which
`controller_init` goes on with.  `ClientEnds` is the client's thread
that returns because it gets no socket.  When a node has started, its parts do their
work: the button's interrupt and task, the sockets' batches, the alarm monitor, the
serial device from the UART's bytes to lines in frames.

| Run | Configuration | Shows |
|---|---|---|
| `tsn_app` | every mode, alarm role, zero copy or not, motor code compiled in or not, with two failing calls; work in the nodes where it differs | `NoDangling`, `NothingLeft`, `BuffersOwned`, `LinesIntact`, `PressSeen`, `AlarmHeard` |

* `NoDangling`: what can run finds what it uses: what it needs (`Needs`), and,
  for the cyclic task (`Uses`), the timer that it stops and restarts
  (`tsn_task.c:384`, 400) and the client whose state a controller's loop reads
  (`controller.c:187`), if there are pointers to them.  TLC refutes it without any of
  these exceptions:
  - the timer is destroyed just before the cyclic task is aborted
    (`tsn_task.c:608-612`), and likewise when its call-back cannot be set; the task can
    use it between the two, and nowhere else;
  - a client whose thread cannot be created is freed (`command_client.c:112-121`), the
    pointer stays, and the loop reads it in every cycle;
  - an alarm task whose call-back cannot be set goes on without its queue;
  - the registration with the button is never given back by an io device, nor
    by a controller that fails at start;
  - the context of a serial device that fails or exits is freed while UART and
    thread run.
* `NothingLeft`: of the cyclic and the alarm task nothing is left but zero copy
  buffers, the socket they are missing from, and an alarm task without its call-back.  If
  only the code of the node's own mode is compiled in, nothing is released
  twice, but: the motors of a controller (unregistered through a freed
  strategy), a client that could not be started, which `controller_exit`
  aborts, closes and frees again, the thread of a client that has returned, and
  the cyclic task of an io device.  With the code of other modes compiled in,
  their contexts are released, too, although they were never initialised.
* `BuffersOwned`: a buffer is written only when the stack has given it back.  The
  state "pending" of a batch is another matter: `tsn_net_transmit_done` compares
  what was sent since its last call with the whole batch, so with batches of several
  frames TLC refutes that a pending socket sends again.
* `LinesIntact`: a frame of feedback ends with the one end of line in it.  That it
  is one line, or the end of one that is longer than the buffer, holds where no
  byte was lost, and bytes are lost: the task reads at most 50 per idle event
  (`serial_iodevice.c:142`), so they pile up in the ring of 256 until it overruns, and
  the receiver may overrun, too; `lpuart_cb` ignores both (line 76).  What comes
  between such a loss and the next end of line has no place in a line
  (`Torn`, `ByteLost`), and frames with such bytes may splice two lines: TLC refutes
  the property without that condition.  The frames after that are whole lines again,
  which is what an overrun must not change.
* `PressSeen`, `AlarmHeard`: no press and no alarm is forgotten with the interrupt
  masked or the call-back disarmed.

Bounds.  Two failing calls: one that is ignored and one that ends the start; after
that the code has given up.  Batches of 1 to 3 frames; lines up to 3 bytes with a
buffer of 2 and a ring of 3, so that lines wrap, overflow the buffer, pile up and overrun
the ring in any of these states, with a queue of one line.  Deadlock is not checked,
because a node that is off stays off.

Fairness.  Interrupts that are unmasked and pending are served, the tasks of button
and alarm run when they can, and the sender of alarms goes on sending (it does so
while there is an alarm): an alarm that came before the call-back was armed is
found when the next one arrives.

## 4. Abstract specification

`StatsMailbox` has one box per owner of statistics.  `AsyncStats` implements it
with the refinement mapping `BoxOf`: a box is full while the owner's call is in the
queue and being read while the asynchronous thread executes it; its content is the
copy.  Nothing in the implementation is called a box: that the pending flag, which
is set before the call is queued and cleared after the print or a failed call,
makes one is what the refinement says.  TLC checks it for three owners
(`MailboxSpec` in `async_stats`), TLAPS proves it for any number.

For the other components an abstract state machine would restate their properties:
the reset protocol promises a rendezvous (`ResetBarrier`), the network of motors
the current of this period or none (`DrivenByFreshIq`), a stream to be there when
used (`StreamUsedLive`).

## 5. Proofs

All proofs hold for every value of the constants that satisfies the modules'
assumptions.

* `AudioAppProofs`.  `TypeCorrect`, and `Safety`: the invariant `SafetyInv`,
  from which `PipelinesOutliveCalls` (`NoUseAfterExit`) and
  `InterruptsOfOpenDevice` (`IrqOnlyWhileOpen`) follow for any number of threads
  and any depth of queue.  `NoUseAfterExit` alone is not inductive: one needs to
  know who owns the mutexes (`MutexesHeld`: the control thread has those of all
  threads below its loop index), what each step of a command has set up
  (`CommandState`), and that a set handler means an open device and live
  pipelines, and a thread inside a call means a set handler (`HandlerState`).
  `OneReset` (`ResetExclusive`) follows from the reset mutex alone.
  The reset of the pipelines is a rendezvous, for any number of
  threads and any depth of queue, a queue that loses requests included.  The
  invariant (`Rendezvous`) follows each request: it is in one place, queued, in work
  or completed on the semaphore (`OnePlace`); while it is anywhere, the owner of
  `reset_mut` has sent it and not yet waited for it (`AskedByOwner`), so that no
  completion outlives its reset; and who is past the wait for thread j knows that j
  has reset (`Progress`).  From it `BarrierHolds` (`ResetBarrier`) and
  `NothingLeftBehind` (`NoStaleCompletion`), both under `OneNarrower`: RUN commands
  configure all N threads, or always the same smaller number.  Then the number of
  pipelines, which is the range of the loops of `audio_reset`, changes only while no
  thread is in a handler call (`CountStaysInCalls`), although a thread left over from a
  wider configuration may be in one while others start and stop.  With the two threads
  of the code there is only one smaller number, so `ResetOfTwoThreads` needs no
  assumption on the commands.  With three numbers TLC refutes `NoStaleCompletion`: a
  left over thread asks two pipelines to reset and waits for one.
  `HandlerRestarts` (`RestartSucceeds`) needs no such assumption.  `ParentIsWokenUp`
  (`WakeUpPending`): while the pipeline runs, an event is queued, the interrupt is
  unmasked or on its way, or a step of the thread is under way that leads to one of
  these; proved for RUN commands of one pipeline, where the parent waits for nobody.
  With several it is false: see section 6.
* `ControllerProofs`.  `ControllerInvariant`: the conjunction of the type
  invariant, the well-formed strategy context, `StoppedMeansStop`,
  `IqNeedsAllDevices` and `DelayCounts` (cycles heard in a row plus the remaining
  delay are the whole delay).  From it `StopHeld`, `IqOnlyWithAllDevices` and,
  as an action property, `RestartDelayed`.  `DelayCounts` is what makes the last
  one inductive: the counter says how long all the devices have answered.
  `StagesAlwaysPrepared` (`StagesPrepared`), for any length of
  the identification: its invariant follows what each operation sets up: pointers
  both NULL or both set from PREPARE on (`PairedSoFar`), the scenario of the
  strategy (`Loaded`), the first measured motor being the static one while the
  second is measured (`Identified`); and which operations have run
  (`RunsFromReset`): a controller outside of CONTROL begins with RESET again.
  `GoResumes` (`ResumesStrategy`) rests on the saved strategy being the interrupted
  one while stopped (`Remembered`), because nothing but a command changes the
  strategy then.
* `MotorControlProofs`.  The invariant `MotorInv` of the controller and its devices,
  for any number of faults and presses, any drives that fail and any delays (the
  network has one or two devices): the commands on their way are those of the
  controller's last cycle (`CommandsOfNow`); a device in remote control obeys the
  one of this period (`ObeysCommand`), because its network error bit, set at the end
  of every cycle, is cleared by nothing else (`NetworkDoubted`); feedback without an
  error comes from a device without a fault (`FaultsReported`).  From it
  `FreshIqOnly`, `FaultStops`, `MissingFrees` and `AlignedFirst`, the four safety
  properties of the run `motor_network`.
* `CyclicTaskProofs`.  For any period, number of nodes, faults and clock errors.
  `ScheduleFollowsTimer` (`ScheduleTracksTimer`): a waiting thread without an event
  expects the coming expiry of its timer.  Inductively (`ScheduleInv`) a schedule is the
  coming expiry, the last one, or a period behind, and then the thread notices.
  `RestartsComeToAnEnd` (`RestartsSettle`): after two restarts in a row without a fault
  nothing is left of the old timer.  `RestartInv` names the four ways to be in between.
  It is proved under `ShortPeriod`: offset and period take less than half a second, as
  with all the periods the applications use; for longer ones it is false, as the first
  wake-up comes after the timeout (`cyclic_task.c:199`).  `FramesAreFresh` (`FreshFrames`) needs of the frames under way
  that one sent on schedule is not older than its header (`FramesInv`).  The provers know
  little of division: `DivBounds` is all that is used, and `LeastNatural` replaces
  induction.
* `AudioPipelineProofs`.  For any configurations, any number of pipelines, elements and
  buffers, any sizes, and any RUN commands that fail.  `PipelinesInOrder`: the table has
  what failed RUN commands left, and behind it the pipelines of the threads in their
  order (`Layout`), each made of its configuration with its rings inside their storages
  (`MadeOf`), and its readers on a shared buffer of an earlier one (`Shares`).  From it
  `ReadersShareWithOwners` (`SharesWithItsOwner`).  `WritersInPhase`: a buffer that the
  check says nothing of is carried from one element to a later one (`CarriedOnce`), and
  between two elements the writer of its ring is ahead by the silence and the period on
  its way (`Ahead`), except in a thread that waits for the reset; only writers reset
  rings, and that is enough.  From it `RingsAreDrained` (`RingsDrained`).
  `NothingStale` (`FreshInRun`) adds that rings on different storages have no cell in
  common (`CellsApart`, from `StoragesFollow`: storages follow each other) and that the
  silence of sinks goes elsewhere (`SilenceElsewhere`).  `ReadersOneLate`
  (`SharedOneLate`): in a period all readers of a shared buffer, in whatever threads,
  are at one index k, which holds the last period, and the owner writes the index
  after it (`RingAt`); a starting sink writes its silence before k, which is the
  owner's index only if there are two.  The next period has the next k, and a reset
  begins at 0 over the owner's silence (`LateBegins`).  `Wrap`, `Numbered` and
  `StorageOff` are recursive functions: that they are defined and in their bounds is
  shown on the least argument where they would not be (`LeastNatural`).
* `AsyncStatsProofs`.  `ImplementsMailbox`: initial states and steps of `AsyncStats`
  are those of `StatsMailbox`, or stutter.  The invariant it needs says that a
  flagged owner is in at most one place of queue, asynchronous thread and dump
  function, and is so only with its flag set.  `NoSampleLost` adds the count of
  samples; that calls with a flag cannot fill the queue by themselves is the
  pigeonhole principle, from the cardinality of the set of owners
  (`RoomAssumption`: the code has 16 places for at most 12 owners).
* `AvbStreamsProofs`.  `StreamsLive` (`StreamUsedLive`): a stream that a run found
  connected stays so, because the run holds the mutex of the element (`RunLocks`)
  in a slot no other thread has (`OwnSlots`), and what is connected lives
  (`ConnectedLive`), because the control thread destroys only what it has hidden
  (`Working`).  `SourcesBuffered` (`SourceBuffered`) adds the bounds that the level
  of each buffer has before and after the source has run (`LevelBounds`).
  `StreamsAreOfStack` (`StreamsFollowStack`), with any number of elements, slots,
  streams and messages: the invariant `FollowInv` says which handles a pipeline may
  hold at each step of a request (`HandlesFollow`), that the request under way is one
  the stack has made (`Asked`), and, while no RUN has failed, that the table has the
  running pipelines and nothing else (`TableOfThreads`).
* `TsnAppProofs`.  `BuffersAreOwned` (`BuffersOwned`), for any number of frames in a
  batch: without a pending batch all buffers are the task's (`SocketInv`), which makes
  the early end of "pending" after a batch sent in part harmless.  `LinesAreIntact`
  (`LinesIntact`), for any sizes of buffer and ring, any lengths of lines and any losses:
  what is in buffer and ring continues what was read before, or has lost its place
  (`Follows`), and the buffer begins with a line, or where an overflow has erased a
  buffer full of one, or with what has no place (`Starts`).  An overrun of the ring
  changes only bytes that nobody has read, up to the first end of line
  (`FollowsTorn`).
  `NothingDangles` (`NoDangling`) and `NothingIsLeft` (`NothingLeft`), for every set of
  configurations and any number of failing calls.  Neither is inductive: while
  something is undone or released, what matters is what comes next.  The invariant
  (`LifeInvariant`) has two parts.  `LifeInv` says for each phase what a node has: while
  it starts, what the steps so far have acquired (`InitInv`); while a failure is
  undone or the node exits, that but for a prefix v of the sequence of releases
  (`UndoInv`, `ExitInv`); when it runs, everything (`RunInv`); when it is off, what cannot
  be given back (`OffInv`); a client and its thread are `Optional`, and never more than
  that.  `KnownInv` is about what the pointers outlive: where a pointer can be
  known at all (`KnownSoFar`), that the thread is released right after its timer
  (`TimerGone`), and that a client is there while it is used and when it is
  released (`ClientKept`, `ClientExit`, `ClientMisused`), unless it could not be started.
  What remains are facts about the sequences themselves.  A point of a
  sequence is a place where the start may fail, with what was acquired before and what
  is undone (`Point`); there is a lemma for each function of the code on what its points
  are, given those of the functions it calls, and on how a caller's error path (`Inside`)
  or its indifference (`Ignored`) changes them, up to `rtos_apps_tsn_init` in each mode
  (`AppPoints`) and `rtos_apps_tsn_exit` (`AppExitReleases`, `ExitOrder`): thread, timer,
  alarm monitor and client thread are released before what they need (`Precedes`),
  the thread next to its timer (`NextTo`), and nothing is released twice but what is
  known (`Repeats`).  The conclusion excepts just what the property does.

Assumptions on the constants are in the modules that declare them, and TLC evaluates
them.  `MaxPacketsAssumption` (a batch has a frame) and `CommandLenAssumption` (the
buffer of a line has a place) are true of the code's macros.

All safety invariants of the passing runs are proved; the restrictions are those named
above (`OneNarrower`, one pipeline for `WakeUpPending`, `ShortPeriod`, one or two motor
devices).  Only model-checked: everything about liveness, which is out of TLAPS's reach.

## 6. Findings

| Run | What the code does |
|---|---|
| `audio_reset_stop` | STOP and a reset take mutexes and semaphores crosswise: deadlock |
| `audio_stale_handle` | an event left from a run with two pipelines is executed on the freed pipeline after a run with one |

No run of its own has the following: a pipeline that fails again between its restart and
the end of the reset returns at once, because the reset covers it (comment at
`audio.c:257`), but the reset is over without it.  If it is the parent, nobody unmasks
the interrupt any more, and without a STOP every thread waits on an empty queue: asked
for "the interrupt is unmasked or served, or a thread has an event or works" as an
invariant of two pipelines, TLC shows such an end.  This is why `WakeUpPending` is about
one pipeline.

The exceptions that the properties above make, and the hazards' notes, name what
else the models show the code to do where no text of the repository says otherwise.

## 7. Not modelled

* Sample values, control laws, PLL regulation, trajectories, the conversion of
  scenarios: floating point.
* Logging, formatting, message layout and monitoring's counters: no effect on
  control.
* AVB: the source of the clock domain, AECP responses, the format of streams, and
  the data of the CRF stream.  They keep no state that the rest looks at.
* SAI FIFO levels and DMA, the mapping of channels, DTMF.
* The copying mode of the sockets and the headers of frames; `rtos_apps_async_exit`
  and `rtos_apps_user_button_exit`, which nothing calls.
* Creation of the threads of the audio application at start-up, which is
  sequential; that of the TSN application is `TsnApp`.
* Kernel, SAI hardware, motor drive, AVB stack, UART and network are external: they
  appear as the outcomes the code may see.

Seen while reading, and outside of what these models tell apart:
`play_pipeline.c` frees its context twice when `audio_avb_init` fails (line 106), and its
lines 130 and 142 name a field `genavb_handle` where the structure has `avb_handle`,
so that a build with the AVB stack would not compile as it is;
`serial_iodevice.c:333` copies the handle of the asynchronous thread before
`cyclic_task_init` has set it, so the serial statistics are dumped to no thread, and
at line 170 a line is not freed when its queue is full; the CRF stream is not
destroyed by STOP.

## 8. What is left

The composition of `AudioApp` and `AvbStreams`: what the second assumes of STOP is a
theorem of the first, but they share no state so far.
