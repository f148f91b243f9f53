------------------------------ MODULE CyclicTask ------------------------------
(***************************************************************************)
(* The cyclic tasks of tsn/cyclic_task.c over tsn/tsn_task.c: a controller *)
(* and its io devices, each woken up once per period by a timer on its     *)
(* gPTP clock, which exchange frames stamped with the time of their cycle. *)
(*                                                                         *)
(* A node's thread takes the timer's events from a queue of depth one and  *)
(* checks that it is on schedule; else it calls its loop with an error and *)
(* restarts the timer at one of the next seconds.                          *)
(*                                                                         *)
(* Time is discrete.  now runs through one second; every other instant is  *)
(* kept relative to the start of that second, so that the formulas of the  *)
(* code stand as they are and time never ends.  A node's clock is off by   *)
(* skew.  The environment may interfere MaxFaults times: make a clock      *)
(* jump, delay a thread, lose or delay a frame, make a start fail.         *)
(***************************************************************************)
EXTENDS Integers, Sequences, FiniteSetsExt

CONSTANTS
  NumDevices,      \* num_io_devices
  NSECS_PER_SEC,   \* units of time in a second
  Period,          \* config.period_ns
  Offset,          \* config.offset
  RxLen,           \* frames that a socket holds (external)
  MaxSkew,         \* bound on the error of a clock
  MaxFaults        \* bound on the faults of the environment

ASSUME NumDevicesAssumption == NumDevices \in 0..2   \* MAX_PEERS
ASSUME TimeAssumption == NSECS_PER_SEC \in Nat \ {0} /\ Period \in Nat \ {0}
ASSUME OffsetAssumption == Offset \in 0..1           \* APP_OFFSET_MAX
ASSUME BoundsAssumption == RxLen \in Nat \ {0} /\ MaxSkew \in Nat /\ MaxFaults \in Nat

Controller == 0
Devices    == 1..NumDevices
Node       == 0..NumDevices
Peers(n)   == IF n = Controller THEN Devices ELSE {Controller}
Link       == {l \in Node \X Node : l[2] \in Peers(l[1])}   \* receiver, sender

VARIABLES
  now,             \* the time in the current second
  skew,            \* error of each clock
  pc,              \* where each thread is in main_cyclic
  since,           \* when the thread began to wait
  sched_time,      \* task->sched_time
  clock_discont,   \* task->clock_discont
  queue,           \* the event queue, of depth one, is full
  timer,           \* off, running, or lost: no longer on the clock
  expiry,          \* next expiry of a running timer
  rx,              \* per link, the frames in the receiving socket
  link_status,     \* per link, whether the last cycle received its frame
  late,            \* frames that the network holds back
  faults,          \* how often the environment has interfered
  restarts         \* history: restarts since the last cycle or fault

vars == <<now, skew, pc, since, sched_time, clock_discont, queue, timer, expiry,
          rx, link_status, late, faults, restarts>>

Timeout == 2 * NSECS_PER_SEC

\* cyclic_task_set_period: the division drops half a unit of an odd period.
TransferTime == ((Offset + 1) * Period) \div 2

\* Variant: all nodes wake up at the same time.
PeriodOffsetNone(n) == 0

\* The devices run a transfer time after the controller.
PeriodOffset(n) == IF n = Controller THEN 0 ELSE TransferTime

Clock(n) == now + skew[n]

\* The code cuts the difference to 32 bits: within two seconds it is the same, and what
\* is further off but looks on time after that is left out.
SchedErr(n) == Clock(n) - sched_time[n]

\* A frame: the time of its header, and for the properties the time of the
\* sender's clock when it was sent and whether a cycle on schedule sent it.
Frame(n) == [sched_time |-> sched_time[n], sent |-> Clock(n),
             on_time |-> SchedErr(n) \in 0..Period-1]

Set(f, x, v) == [f EXCEPT ![x] = v]

\* Restarts in a row are counted up to one more than any property allows.
MaxRestarts == 3
CountRestart(n) ==
  restarts' = Set(restarts, n, IF restarts[n] = MaxRestarts THEN MaxRestarts
                               ELSE restarts[n] + 1)

Fault ==
  /\ faults < MaxFaults
  /\ faults' = faults + 1
  /\ restarts' = [n \in Node |-> 0]

\* The nodes are powered up at any time: one in boot has no sockets yet.
Init ==
  /\ now = 0
  /\ skew = [n \in Node |-> 0]
  /\ pc = [n \in Node |-> "boot"]
  /\ since = [n \in Node |-> 0]
  /\ sched_time = [n \in Node |-> 0]
  /\ clock_discont = [n \in Node |-> FALSE]
  /\ queue = [n \in Node |-> FALSE]
  /\ timer = [n \in Node |-> "off"]
  /\ expiry = [n \in Node |-> 0]
  /\ rx = [l \in Link |-> <<>>]
  /\ link_status = [l \in Link |-> FALSE]
  /\ late = {}
  /\ faults = 0
  /\ restarts = [n \in Node |-> 0]

-----------------------------------------------------------------------------
(* The timer                                                               *)

\* timer_callback: the event is dropped when the queue is full.
TimerCallback(n) == queue' = Set(queue, n, TRUE)

TimerExpires(n) ==
  /\ timer[n] = "running"
  /\ Clock(n) = expiry[n]
  /\ expiry' = Set(expiry, n, expiry[n] + Period)
  /\ TimerCallback(n)
  /\ UNCHANGED <<now, skew, pc, since, sched_time, clock_discont, timer, rx,
                 link_status, late, faults, restarts>>

\* A timer whose clock has jumped reports it with a negative count, once, or
\* is never heard of again.
TimerDiscont(n) ==
  /\ timer[n] = "lost"
  /\ timer' = Set(timer, n, "off")
  /\ clock_discont' = Set(clock_discont, n, TRUE)
  /\ TimerCallback(n)
  /\ UNCHANGED <<now, skew, pc, since, sched_time, expiry, rx, link_status,
                 late, faults, restarts>>

\* tsn_task_start.  The timer first expires a period after start_time.
StartTime(n) ==
  LET second == ((Clock(n) + NSECS_PER_SEC \div 2) \div NSECS_PER_SEC + 1)
                  * NSECS_PER_SEC
  IN  (second \div Period) * Period + PeriodOffset(n)

\* cyclic_task_start, at start-up or at the end of a restart
Start(n) ==
  /\ pc[n] \in {"boot", "start"}
  /\ Period * (NSECS_PER_SEC \div Period) = NSECS_PER_SEC
  /\ timer' = Set(timer, n, "running")
  /\ sched_time' = Set(sched_time, n, StartTime(n) + Period)
  /\ expiry' = Set(expiry, n, StartTime(n) + Period)
  /\ pc' = Set(pc, n, "wait")
  /\ since' = Set(since, n, now)
  /\ UNCHANGED <<now, skew, clock_discont, queue, rx, link_status, late,
                 faults, restarts>>

\* Reading the clock or starting the timer fails: both callers ignore it and
\* sched_time stays what it was.
StartFails(n) ==
  /\ pc[n] \in {"boot", "start"}
  /\ Fault
  /\ pc' = Set(pc, n, "wait")
  /\ since' = Set(since, n, now)
  /\ UNCHANGED <<now, skew, sched_time, clock_discont, queue, timer, expiry,
                 rx, link_status, late>>

\* cyclic_task_stop
Stop(n) ==
  /\ pc[n] = "stop"
  /\ timer' = Set(timer, n, "off")
  /\ expiry' = Set(expiry, n, 0)
  /\ pc' = Set(pc, n, "start")
  /\ UNCHANGED <<now, skew, since, sched_time, clock_discont, queue, rx,
                 link_status, late, faults, restarts>>

-----------------------------------------------------------------------------
(* Frames                                                                  *)

\* What a link's socket holds after a frame arrived.
Arrive(q, f) == IF Len(q) < RxLen THEN Append(q, f) ELSE q

\* cyclic_net_transmit by sender n, in the loop: the controller's stream goes
\* to all devices, a device's to the controller.  The frame does not reach
\* the receivers in lost; sent is what the sockets held before.
Transmit(n, sent, lost) ==
  rx' = [l \in Link |-> IF l[2] = n /\ l[1] \notin lost /\ pc[l[1]] # "boot"
                        THEN Arrive(sent[l], Frame(n)) ELSE sent[l]]

\* A frame that does not reach a receiver is lost or comes later.
Network(n, lost) ==
  IF lost = {} THEN restarts' = Set(restarts, n, 0) /\ UNCHANGED <<late, faults>>
  ELSE /\ Fault
       /\ late' \in {late, late \cup {<<<<m, n>>, Frame(n)>> : m \in lost}}

Receivers(n) == {m \in Node : n \in Peers(m)}

LateArrives ==
  \E a \in late :
    /\ late' = late \ {a}
    /\ rx' = Set(rx, a[1], Arrive(rx[a[1]], a[2]))
    /\ UNCHANGED <<now, skew, pc, since, sched_time, clock_discont, queue,
                   timer, expiry, link_status, faults, restarts>>

\* Variant: the time in the header is not looked at.
UsableAny(n, q) == DOMAIN q

\* The frames of this cycle: cyclic_net_receive drops every frame until one
\* has the right time.  (src_id follows from the stream.)
Usable(n, q) == {i \in DOMAIN q : q[i].sched_time = sched_time[n] - TransferTime}

NetReceive(n, q) ==
  IF Usable(n, q) = {} THEN <<>> ELSE SubSeq(q, Min(Usable(n, q)) + 1, Len(q))

Received(n) ==
  [l \in Link |-> IF l[1] = n THEN NetReceive(n, rx[l]) ELSE rx[l]]

-----------------------------------------------------------------------------
(* The thread                                                              *)

\* The loop is called with an error: it sends all the same.
LoopError(n, lost) ==
  /\ lost \subseteq Receivers(n)
  /\ Transmit(n, rx, lost)
  /\ pc' = Set(pc, n, "stop")

ReceiveEvent(n) ==
  /\ pc[n] = "wait"
  /\ queue[n]
  /\ queue' = Set(queue, n, FALSE)
  /\ pc' = Set(pc, n, "check")
  /\ UNCHANGED <<now, skew, since, sched_time, clock_discont, timer, expiry,
                 rx, link_status, late, faults, restarts>>

\* Variant: the thread goes on waiting.
ReceiveTimeoutWaits(n) ==
  /\ pc[n] = "wait"
  /\ ~queue[n]
  /\ now - since[n] >= Timeout
  /\ since' = Set(since, n, now)
  /\ UNCHANGED <<now, skew, pc, sched_time, clock_discont, queue, timer,
                 expiry, rx, link_status, late, faults, restarts>>

ReceiveTimeout(n) ==
  /\ pc[n] = "wait"
  /\ ~queue[n]
  /\ now - since[n] >= Timeout
  /\ LoopError(n, {})
  /\ CountRestart(n)
  /\ UNCHANGED <<now, skew, since, sched_time, clock_discont, queue, timer,
                 expiry, link_status, late, faults>>

\* Variant: the flag is not reset.
ClockDiscontKeepsFlag(n) ==
  /\ pc[n] = "check"
  /\ clock_discont[n]
  /\ LoopError(n, {})
  /\ CountRestart(n)
  /\ UNCHANGED <<now, skew, since, sched_time, clock_discont, queue, timer,
                 expiry, link_status, late, faults>>

ClockDiscont(n) ==
  /\ pc[n] = "check"
  /\ clock_discont[n]
  /\ clock_discont' = Set(clock_discont, n, FALSE)
  /\ LoopError(n, {})
  /\ CountRestart(n)
  /\ UNCHANGED <<now, skew, since, sched_time, queue, timer, expiry,
                 link_status, late, faults>>

\* Variant: a missed period is only counted.
OffScheduleEarly(n) == SchedErr(n) < 0

\* tsn_task_stats_start: late by a period, or early.
OffSchedule(n) == SchedErr(n) >= Period \/ SchedErr(n) < 0

Reschedule(n) ==
  /\ pc[n] = "check"
  /\ ~clock_discont[n]
  /\ OffSchedule(n)
  /\ LoopError(n, {})
  /\ CountRestart(n)
  /\ UNCHANGED <<now, skew, since, sched_time, clock_discont, queue, timer,
                 expiry, link_status, late, faults>>

\* Receive, loop, tsn_task_stats_end.
Cycle(n, lost) ==
  /\ pc[n] = "check"
  /\ ~clock_discont[n]
  /\ ~OffSchedule(n)
  /\ lost \subseteq Receivers(n)
  /\ Transmit(n, Received(n), lost)
  /\ Network(n, lost)
  /\ link_status' = [l \in Link |-> IF l[1] = n THEN Usable(n, rx[l]) # {}
                                    ELSE link_status[l]]
  /\ sched_time' = Set(sched_time, n, sched_time[n] + Period)
  /\ pc' = Set(pc, n, "wait")
  /\ since' = Set(since, n, now)
  /\ UNCHANGED <<now, skew, clock_discont, queue, timer, expiry>>

-----------------------------------------------------------------------------
(* Time and faults                                                         *)

\* Nothing of what happens at this instant is left to do.
Idle(n) ==
  /\ pc[n] \in {"boot", "wait"}
  /\ pc[n] = "wait" => ~queue[n] /\ now - since[n] < Timeout
Due(n) == timer[n] = "running" /\ Clock(n) = expiry[n]

\* Instants older than this are never compared with a schedule again.
Oldest == -(2 * NSECS_PER_SEC + MaxSkew)
Shift(t) == IF t - NSECS_PER_SEC < Oldest THEN Oldest ELSE t - NSECS_PER_SEC
ShiftFrame(f) == [sched_time |-> Shift(f.sched_time), sent |-> Shift(f.sent),
                  on_time |-> f.on_time]

AdvanceClock ==
  IF now + 1 < NSECS_PER_SEC
  THEN now' = now + 1 /\ UNCHANGED <<since, sched_time, expiry, rx, late>>
  ELSE /\ now' = 0
       /\ since' = [n \in Node |-> Shift(since[n])]
       /\ sched_time' = [n \in Node |-> Shift(sched_time[n])]
       /\ expiry' = [n \in Node |-> IF timer[n] = "running" THEN Shift(expiry[n]) ELSE 0]
       /\ rx' = [l \in Link |-> [i \in DOMAIN rx[l] |-> ShiftFrame(rx[l][i])]]
       /\ late' = {}

\* Interrupts are immediate, and a thread that is not delayed is done with
\* its work of an instant before the next one.
Tick ==
  /\ \A n \in Node : ~Due(n) /\ Idle(n)
  /\ AdvanceClock
  /\ UNCHANGED <<skew, pc, clock_discont, queue, timer, link_status, faults,
                 restarts>>

\* Some thread is kept from running.
Delay ==
  /\ \A n \in Node : ~Due(n)
  /\ \E n \in Node : ~Idle(n)
  /\ AdvanceClock
  /\ Fault
  /\ UNCHANGED <<skew, pc, clock_discont, queue, timer, link_status>>

SetClock(n, s) ==
  /\ skew' = Set(skew, n, s)
  /\ timer' = Set(timer, n, IF timer[n] = "running" THEN "lost" ELSE timer[n])
  /\ expiry' = Set(expiry, n, 0)
  /\ UNCHANGED <<now, pc, since, sched_time, clock_discont, queue, rx,
                 link_status, late>>

\* The clock loses its gPTP master, or finds it again.
ClockJump(n) ==
  /\ Fault
  /\ \E s \in -MaxSkew..MaxSkew \ {skew[n]} : SetClock(n, s)

ClockSync(n) ==
  /\ skew[n] # 0
  /\ SetClock(n, 0)
  /\ restarts' = Set(restarts, n, 0)
  /\ UNCHANGED faults

-----------------------------------------------------------------------------

Thread(n) ==
  \/ Start(n)
  \/ Stop(n)
  \/ ReceiveEvent(n)
  \/ ReceiveTimeout(n)
  \/ ClockDiscont(n)
  \/ Reschedule(n)
  \/ Cycle(n, {})

Next ==
  \/ \E n \in Node :
       \/ TimerExpires(n)
       \/ TimerDiscont(n)
       \/ Thread(n)
       \/ StartFails(n)
       \/ \E lost \in SUBSET Receivers(n) \ {{}} : Cycle(n, lost)
       \/ ClockJump(n)
       \/ ClockSync(n)
  \/ LateArrives
  \/ Tick
  \/ Delay

\* Timers, threads and time go on; gPTP synchronises every clock at last.
Fairness ==
  /\ WF_vars(Tick)
  /\ \A n \in Node :
       /\ WF_vars(TimerExpires(n))
       /\ WF_vars(Thread(n))
       /\ WF_vars(ClockSync(n))

Spec == Init /\ [][Next]_vars /\ Fairness

-----------------------------------------------------------------------------
(* Properties                                                              *)

\* A thread that has caught up waits for the very cycle that its timer will
\* announce: no dropped, early or left-over event shifts the schedule.  (At the
\* instant of an expiry, before the interrupt, a thread with a left-over event may
\* already have done the cycle.)
ScheduleTracksTimer ==
  \A n \in Node :
    timer[n] = "running" /\ pc[n] = "wait" /\ ~queue[n] /\ ~Due(n)
      => sched_time[n] = expiry[n]

\* A node restarts at most twice in a row without a new fault: the restart
\* cannot feed itself with events that the old timer left behind.
RestartsSettle == \A n \in Node : restarts[n] <= 2

\* Whatever happened before, in the end every node is awake in every period and
\* never restarts again: lost timers and failed starts are noticed.
Recovers == <>[](\A n \in Node : restarts[n] = 0 /\ timer[n] = "running")

\* The frame that a cycle uses, if its sender was on schedule, was sent less
\* than a period and the transfer time before by the clocks of the two nodes:
\* held back frames and frames left in a socket during a restart are dropped.
FreshFrames ==
  [][\A n \in Node, l \in Link :
       l[1] = n /\ pc[n] = "check" /\ pc'[n] = "wait" /\ link_status'[l]
         => LET f == rx[l][Len(rx[l]) - Len(NetReceive(n, rx[l]))]
            IN  f.on_time => Clock(n) - f.sent < TransferTime + Period]_vars

\* When the faults are over every node receives a frame of each peer in every
\* cycle, whichever order the nodes were started and restarted in.
AllLinked == <>[](\A l \in Link : link_status[l])
=============================================================================
