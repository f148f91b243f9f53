--------------------------- MODULE CyclicTaskProofs ---------------------------
(***************************************************************************)
(* The schedule of a cyclic task follows its timer, its restarts come to   *)
(* an end and the frames that it uses are those of its cycle, whatever the *)
(* clocks and the network do: proofs of the safety properties of           *)
(* CyclicTask, for all periods and any number of faults.                   *)
(***************************************************************************)
EXTENDS CyclicTask, TLAPS, WellFoundedInduction

-----------------------------------------------------------------------------
(* Arithmetic                                                              *)

LEMMA DivBounds ==
  ASSUME NEW a \in Int, NEW b \in Nat \ {0}
  PROVE  /\ a \div b \in Int
         /\ b * (a \div b) <= a
         /\ a < b * (a \div b) + b
BY SMT

\* Every set of natural numbers has a least one.
LEMMA LeastNatural ==
  ASSUME NEW S \in SUBSET Nat, S # {}
  PROVE  \E x \in S : \A y \in S : x <= y
<1> DEFINE Less == {p \in Nat \X Nat : p[1] < p[2]}
<1>1. IsWellFoundedOn(Less, Nat)
  BY NatLessThanWellFounded DEF OpToRel
<1>2. \A x, y \in Nat : <<y, x>> \in Less <=> y < x
  OBVIOUS
<1> HIDE DEF Less
<1>3. \E x \in S : \A y \in S : ~(<<y, x>> \in Less)
  BY <1>1, WFMin
<1>4. PICK x \in S : \A y \in S : ~(<<y, x>> \in Less)
  BY <1>3
<1>5. ASSUME NEW y \in S PROVE x <= y
  <2>1. x \in Nat /\ y \in Nat /\ ~(y < x)
    BY <1>2, <1>4
  <2> QED
    BY <2>1
<1> QED
  BY <1>5

LEMMA TransferTimeBounds == TransferTime \in Nat /\ TransferTime <= Period
<1>1. CASE Offset = 0
  BY <1>1, TimeAssumption, DivBounds DEF TransferTime
<1>2. CASE Offset = 1
  BY <1>2, TimeAssumption, DivBounds DEF TransferTime
<1> QED
  BY <1>1, <1>2, OffsetAssumption

\* The first expiry is after the start, and at most a second and a half, the
\* offset and a period later.
LEMMA StartTimeBounds ==
  ASSUME NEW n \in Node, Clock(n) \in Int
  PROVE  /\ StartTime(n) \in Int
         /\ Clock(n) < StartTime(n) + Period
         /\ StartTime(n) <= Clock(n) + NSECS_PER_SEC + NSECS_PER_SEC \div 2 + TransferTime
<1> DEFINE half == NSECS_PER_SEC \div 2
           seconds == (Clock(n) + half) \div NSECS_PER_SEC
           second == (seconds + 1) * NSECS_PER_SEC
           periods == second \div Period
<1>1. half \in Nat
  <2>1. half \in Int /\ NSECS_PER_SEC < 2 * half + 2
    BY TimeAssumption, DivBounds
  <2> QED
    BY <2>1, TimeAssumption
<1>2. PeriodOffset(n) \in 0..TransferTime
  BY TransferTimeBounds DEF PeriodOffset
<1>3. /\ seconds \in Int
      /\ NSECS_PER_SEC * seconds <= Clock(n) + half
      /\ Clock(n) + half < NSECS_PER_SEC * seconds + NSECS_PER_SEC
  <2> DEFINE shifted == Clock(n) + half
  <2>1. shifted \in Int
    BY <1>1
  <2> HIDE DEF shifted
  <2>2. /\ shifted \div NSECS_PER_SEC \in Int
        /\ NSECS_PER_SEC * (shifted \div NSECS_PER_SEC) <= shifted
        /\ shifted < NSECS_PER_SEC * (shifted \div NSECS_PER_SEC) + NSECS_PER_SEC
    BY <2>1, TimeAssumption, DivBounds
  <2> QED
    BY <2>2 DEF shifted
<1>4. StartTime(n) = periods * Period + PeriodOffset(n)
  BY DEF StartTime
<1> HIDE DEF half, seconds
<1> second = NSECS_PER_SEC * seconds + NSECS_PER_SEC
  BY <1>3, TimeAssumption
<1>5. /\ second \in Int
      /\ Clock(n) + half < second
      /\ second <= Clock(n) + half + NSECS_PER_SEC
  BY <1>1, <1>3, TimeAssumption
<1> HIDE DEF second
<1>6. /\ periods \in Int
      /\ Period * periods <= second
      /\ second < Period * periods + Period
  BY <1>5, TimeAssumption, DivBounds
<1> HIDE DEF periods
<1>7. periods * Period = Period * periods /\ Period * periods \in Int
  BY <1>6, TimeAssumption
<1> QED
  BY <1>1, <1>2, <1>4, <1>5, <1>6, <1>7, TimeAssumption, TransferTimeBounds DEF half

-----------------------------------------------------------------------------
(* Type correctness                                                        *)

TypeNode ==
  /\ now \in 0..NSECS_PER_SEC-1
  /\ skew \in [Node -> -MaxSkew..MaxSkew]
  /\ pc \in [Node -> {"boot", "wait", "check", "stop", "start"}]
  /\ since \in [Node -> Int]
  /\ sched_time \in [Node -> Int]
  /\ clock_discont \in [Node -> BOOLEAN]
  /\ queue \in [Node -> BOOLEAN]
  /\ timer \in [Node -> {"off", "running", "lost"}]
  /\ expiry \in [Node -> Int]
  /\ faults \in 0..MaxFaults
  /\ restarts \in [Node -> 0..MaxRestarts]

LEMMA ShiftType == \A t \in Int : Shift(t) \in Int
BY TimeAssumption, BoundsAssumption DEF Shift, Oldest

LEMMA TypeInit == Init => TypeNode
BY TimeAssumption, BoundsAssumption DEF Init, TypeNode, MaxRestarts

LEMMA TypeTime ==
  ASSUME TypeNode, AdvanceClock, UNCHANGED <<skew, pc, clock_discont, queue, timer>>,
         faults' \in 0..MaxFaults, restarts' \in [Node -> 0..MaxRestarts]
  PROVE  TypeNode'
<1>1. CASE now + 1 < NSECS_PER_SEC
  BY <1>1, TimeAssumption DEF AdvanceClock, TypeNode
<1>2. CASE ~(now + 1 < NSECS_PER_SEC)
  <2>1. now' \in 0..NSECS_PER_SEC-1
    BY <1>2, TimeAssumption DEF AdvanceClock
  <2>2. /\ since' \in [Node -> Int]
        /\ sched_time' \in [Node -> Int]
        /\ expiry' \in [Node -> Int]
    BY <1>2, ShiftType DEF AdvanceClock, TypeNode
  <2> QED
    BY <2>1, <2>2 DEF TypeNode
<1> QED
  BY <1>1, <1>2

LEMMA TypeNext ==
  ASSUME TypeNode, [Next]_vars
  PROVE  TypeNode'
<1> USE TimeAssumption, BoundsAssumption DEF TypeNode, Set, MaxRestarts
<1>1. ASSUME NEW n \in Node, TimerExpires(n) PROVE TypeNode'
  BY <1>1 DEF TimerExpires, TimerCallback
<1>2. ASSUME NEW n \in Node, TimerDiscont(n) PROVE TypeNode'
  BY <1>2 DEF TimerDiscont, TimerCallback
<1>3. ASSUME NEW n \in Node, Thread(n) PROVE TypeNode'
  <2>1. CASE Start(n)
    <3>1. StartTime(n) \in Int
      BY StartTimeBounds DEF Clock
    <3> QED
      BY <2>1, <3>1 DEF Start
  <2>2. CASE Stop(n)
    BY <2>2 DEF Stop
  <2>3. CASE ReceiveEvent(n)
    BY <2>3 DEF ReceiveEvent
  <2>4. CASE ReceiveTimeout(n)
    BY <2>4 DEF ReceiveTimeout, LoopError, CountRestart
  <2>5. CASE ClockDiscont(n)
    BY <2>5 DEF ClockDiscont, LoopError, CountRestart
  <2>6. CASE Reschedule(n)
    BY <2>6 DEF Reschedule, LoopError, CountRestart
  <2>7. CASE Cycle(n, {})
    BY <2>7 DEF Cycle, Network
  <2> QED
    BY <1>3, <2>1, <2>2, <2>3, <2>4, <2>5, <2>6, <2>7 DEF Thread
<1>4. ASSUME NEW n \in Node, StartFails(n) PROVE TypeNode'
  BY <1>4 DEF StartFails, Fault
<1>5. ASSUME NEW n \in Node, NEW lost, Cycle(n, lost) PROVE TypeNode'
  BY <1>5 DEF Cycle, Network, Fault
<1>6. ASSUME NEW n \in Node, ClockJump(n) PROVE TypeNode'
  BY <1>6 DEF ClockJump, SetClock, Fault
<1>7. ASSUME NEW n \in Node, ClockSync(n) PROVE TypeNode'
  BY <1>7 DEF ClockSync, SetClock
<1>8. CASE LateArrives
  BY <1>8 DEF LateArrives
<1>9. CASE Tick
  BY <1>9, TypeTime DEF Tick
<1>10. CASE Delay
  BY <1>10, TypeTime DEF Delay, Fault
<1>11. CASE UNCHANGED vars
  BY <1>11 DEF vars
<1> QED
  BY <1>1, <1>2, <1>3, <1>4, <1>5, <1>6, <1>7, <1>8, <1>9, <1>10, <1>11 DEF Next

\* Clocks, schedules, timers and counters keep their types.
THEOREM NodesTyped == Spec => []TypeNode
BY TypeInit, TypeNext, PTL DEF Spec

-----------------------------------------------------------------------------
(* The schedule and the timer                                              *)

\* The schedule is the coming expiry, the last one, or one that the thread
\* has missed by a period and will notice.
Coming(n) ==
  \/ sched_time[n] = expiry[n]
  \/ sched_time[n] = expiry[n] + Period /\ Clock(n) = expiry[n]
Last(n)   == sched_time[n] = expiry[n] - Period /\ sched_time[n] <= Clock(n)
Missed(n) == SchedErr(n) >= Period

ScheduleInv(n) ==
  /\ pc[n] \in {"boot", "start"} => timer[n] # "running"
  /\ timer[n] = "running" =>
       /\ Period <= NSECS_PER_SEC
       /\ Clock(n) <= expiry[n]
       /\ Coming(n) \/ Last(n) \/ Missed(n)
       /\ pc[n] = "wait" /\ ~queue[n] => Coming(n)

\* Only a period that divides a second starts a timer.
LEMMA PeriodFits ==
  ASSUME Period * (NSECS_PER_SEC \div Period) = NSECS_PER_SEC
  PROVE  Period <= NSECS_PER_SEC
<1> DEFINE q == NSECS_PER_SEC \div Period
<1>1. q \in Int /\ Period * q = NSECS_PER_SEC
  BY TimeAssumption, DivBounds
<1> HIDE DEF q
<1>2. q >= 1
  BY <1>1, TimeAssumption
<1> QED
  BY <1>1, <1>2, TimeAssumption

\* Time passes over no expiry, and no instant that still matters is too old.
LEMMA ScheduleTime ==
  ASSUME TypeNode, NEW n \in Node, ScheduleInv(n), ~Due(n), AdvanceClock,
         UNCHANGED <<skew, pc, queue, timer>>
  PROVE  ScheduleInv(n)'
<1> USE TimeAssumption, BoundsAssumption DEF TypeNode
<1>1. CASE timer[n] # "running"
  BY <1>1 DEF ScheduleInv
<1>2. CASE timer[n] = "running" /\ now + 1 < NSECS_PER_SEC
  BY <1>2 DEF ScheduleInv, AdvanceClock, Due, Coming, Last, Missed, Clock, SchedErr
<1>3. CASE timer[n] = "running" /\ ~(now + 1 < NSECS_PER_SEC)
  <2>1. /\ now = NSECS_PER_SEC - 1
        /\ now' = 0
        /\ sched_time'[n] = Shift(sched_time[n])
        /\ expiry'[n] = Shift(expiry[n])
    BY <1>3 DEF AdvanceClock
  <2>2. /\ skew[n] \in -MaxSkew..MaxSkew
        /\ sched_time[n] \in Int
        /\ expiry[n] \in Int
    OBVIOUS
  <2>3. Clock(n) < expiry[n]
    BY <1>3, <2>1, <2>2 DEF ScheduleInv, Due, Clock
  <2>4. expiry'[n] = expiry[n] - NSECS_PER_SEC
    BY <2>1, <2>2, <2>3 DEF Shift, Oldest, Clock
  <2>5. Clock(n)' = Clock(n) + 1 - NSECS_PER_SEC
    BY <2>1, <2>2 DEF Clock
  <2>6. CASE sched_time[n] = expiry[n]
    <3>1. sched_time'[n] = expiry'[n] /\ Clock(n)' <= expiry'[n]
      <4>1. sched_time'[n] = expiry'[n]
        BY <2>1, <2>6
      <4>2. Clock(n) \in Int
        BY <2>2 DEF Clock
      <4>3. Clock(n)' <= expiry'[n]
        BY <2>2, <2>3, <2>4, <2>5, <4>2
      <4> QED
        BY <4>1, <4>3
    <3> QED
      BY <1>3, <3>1 DEF ScheduleInv, Coming
  <2>7. CASE Last(n) /\ sched_time[n] # expiry[n]
    <3>1. sched_time'[n] = sched_time[n] - NSECS_PER_SEC
      BY <1>3, <2>1, <2>2, <2>3, <2>7 DEF ScheduleInv, Shift, Oldest, Clock, Last
    <3> QED
      BY <1>3, <2>1, <2>2, <2>3, <2>4, <2>5, <2>7, <3>1
      DEF ScheduleInv, Coming, Last, Clock
  <2>8. CASE Missed(n) /\ sched_time[n] # expiry[n]
    <3>1. Missed(n)'
      BY <1>3, <2>1, <2>2, <2>8 DEF ScheduleInv, Shift, Oldest, Clock, Missed, SchedErr
    <3> QED
      BY <1>3, <2>1, <2>2, <2>3, <2>4, <2>5, <2>8, <3>1 DEF ScheduleInv, Coming, Clock
  <2> QED
    BY <1>3, <2>3, <2>6, <2>7, <2>8, <2>2 DEF ScheduleInv, Coming, Clock
<1> QED
  BY <1>1, <1>2, <1>3

LEMMA ScheduleNext ==
  ASSUME TypeNode, NEW n \in Node, ScheduleInv(n), [Next]_vars
  PROVE  ScheduleInv(n)'
<1> USE TimeAssumption, BoundsAssumption DEF TypeNode, Set
<1> USE DEF ScheduleInv, Coming, Last, Missed, Clock, SchedErr
<1>1. ASSUME NEW m \in Node, TimerExpires(m) PROVE ScheduleInv(n)'
  BY <1>1 DEF TimerExpires, TimerCallback
<1>2. ASSUME NEW m \in Node, TimerDiscont(m) PROVE ScheduleInv(n)'
  BY <1>2 DEF TimerDiscont, TimerCallback
<1>3. ASSUME NEW m \in Node, NEW lost, Cycle(m, lost) PROVE ScheduleInv(n)'
  BY <1>3 DEF Cycle, OffSchedule
<1>4. ASSUME NEW m \in Node, Thread(m) PROVE ScheduleInv(n)'
  <2>1. CASE Start(m)
    <3>1. /\ StartTime(m) \in Int
          /\ Clock(m) < StartTime(m) + Period
          /\ Period <= NSECS_PER_SEC
      BY <2>1, StartTimeBounds, PeriodFits DEF Start
    <3> QED
      BY <2>1, <3>1 DEF Start
  <2>2. CASE Stop(m)
    BY <2>2 DEF Stop
  <2>3. CASE ReceiveEvent(m)
    BY <2>3 DEF ReceiveEvent
  <2>4. CASE ReceiveTimeout(m)
    BY <2>4 DEF ReceiveTimeout, LoopError
  <2>5. CASE ClockDiscont(m)
    BY <2>5 DEF ClockDiscont, LoopError
  <2>6. CASE Reschedule(m)
    BY <2>6 DEF Reschedule, LoopError
  <2> QED
    BY <1>3, <1>4, <2>1, <2>2, <2>3, <2>4, <2>5, <2>6 DEF Thread
<1>5. ASSUME NEW m \in Node, StartFails(m) PROVE ScheduleInv(n)'
  BY <1>5 DEF StartFails
<1>6. ASSUME NEW m \in Node, ClockJump(m) PROVE ScheduleInv(n)'
  BY <1>6 DEF ClockJump, SetClock
<1>7. ASSUME NEW m \in Node, ClockSync(m) PROVE ScheduleInv(n)'
  BY <1>7 DEF ClockSync, SetClock
<1>8. CASE LateArrives
  BY <1>8 DEF LateArrives
<1>9. CASE Tick
  BY <1>9, ScheduleTime DEF Tick
<1>10. CASE Delay
  BY <1>10, ScheduleTime DEF Delay
<1>11. CASE UNCHANGED vars
  BY <1>11 DEF vars
<1> QED
  BY <1>1, <1>2, <1>3, <1>4, <1>5, <1>6, <1>7, <1>8, <1>9, <1>10, <1>11 DEF Next

ScheduleKept == \A n \in Node : ScheduleInv(n)

\* A thread that has caught up waits for the cycle that its timer will announce,
\* whatever interrupts, delays and clock jumps came before.
THEOREM ScheduleFollowsTimer == Spec => []ScheduleTracksTimer
<1>1. Init => ScheduleKept
  BY DEF Init, ScheduleKept, ScheduleInv
<1>2. TypeNode /\ ScheduleKept /\ [Next]_vars => ScheduleKept'
  BY ScheduleNext DEF ScheduleKept
<1>3. TypeNode /\ ScheduleKept => ScheduleTracksTimer
  BY DEF ScheduleKept, ScheduleTracksTimer, ScheduleInv, Coming, Due
<1> QED
  BY <1>1, <1>2, <1>3, NodesTyped, PTL DEF Spec

-----------------------------------------------------------------------------
(* Restarts in a row                                                       *)

\* The thread is about to start its timer; from the second restart on nothing
\* is left of the old one.
Restarting(n) ==
  /\ pc[n] = "stop" \/ (pc[n] = "start" /\ timer[n] = "off")
  /\ restarts[n] = 2 =>
       /\ ~queue[n] /\ ~clock_discont[n]
       /\ pc[n] = "stop" => timer[n] = "running" /\ Clock(n) < expiry[n]

\* An event of the old timer comes before the first of the new one.
LeftOver(n) ==
  /\ restarts[n] = 1
  /\ timer[n] = "running"
  /\ sched_time[n] = expiry[n] /\ Clock(n) < expiry[n]
  /\ (pc[n] = "wait" /\ queue[n]) \/ (pc[n] = "check" /\ ~queue[n])

\* The first expiry comes before the thread gives up.
Awaited(n) ==
  /\ pc[n] = "wait" /\ ~queue[n] /\ ~clock_discont[n]
  /\ timer[n] = "running"
  /\ sched_time[n] = expiry[n] /\ Clock(n) <= expiry[n]
  /\ expiry[n] - Clock(n) < since[n] + Timeout - now

\* The thread is called on schedule.
Announced(n) ==
  /\ ~clock_discont[n]
  /\ timer[n] = "running"
  /\ sched_time[n] = Clock(n) /\ Clock(n) < expiry[n]
  /\ (pc[n] = "wait" /\ queue[n]) \/ (pc[n] = "check" /\ ~queue[n])

RestartInv(n) ==
  /\ clock_discont[n] => queue[n] \/ pc[n] = "check"
  /\ restarts[n] <= 2
  /\ restarts[n] = 0 \/ Restarting(n) \/ LeftOver(n) \/ Awaited(n) \/ Announced(n)

\* Less than half a second for the offset and a first period: then the timer
\* first expires within the two seconds that the thread waits for it.
ShortPeriod == TransferTime + Period < NSECS_PER_SEC - NSECS_PER_SEC \div 2

LEMMA FirstExpiry ==
  ASSUME ShortPeriod, NEW n \in Node, Clock(n) \in Int
  PROVE  StartTime(n) + Period - Clock(n) < Timeout
<1>1. NSECS_PER_SEC \div 2 \in Int
  BY TimeAssumption, DivBounds
<1> QED
  BY <1>1, StartTimeBounds, TransferTimeBounds, TimeAssumption DEF ShortPeriod, Timeout

\* What other nodes do leaves a node alone.
Untouched(n) ==
  UNCHANGED <<now, skew[n], pc[n], since[n], sched_time[n], clock_discont[n],
              queue[n], timer[n], expiry[n], restarts[n]>>

LEMMA RestartUntouched ==
  ASSUME NEW n \in Node, RestartInv(n), Untouched(n)
  PROVE  RestartInv(n)'
BY DEF Untouched, RestartInv, Restarting, LeftOver, Awaited, Announced, Clock

LEMMA RestartTick ==
  ASSUME TypeNode, NEW n \in Node, RestartInv(n), Tick
  PROVE  RestartInv(n)'
<1> USE TimeAssumption, BoundsAssumption DEF TypeNode
<1>1. ~Due(n) /\ Idle(n) /\ AdvanceClock
  BY DEF Tick
<1>2. UNCHANGED <<skew, pc, clock_discont, queue, timer, restarts>>
  BY DEF Tick
<1>3. CASE restarts[n] = 0
  BY <1>2, <1>3 DEF RestartInv
<1>4. CASE restarts[n] # 0
  <2>1. Awaited(n) /\ Clock(n) < expiry[n] /\ now - since[n] < Timeout
    BY <1>1, <1>4 DEF RestartInv, Idle, Due, Restarting, LeftOver, Announced, Awaited, Clock
  <2>2. CASE now + 1 < NSECS_PER_SEC
    BY <1>1, <1>2, <2>1, <2>2 DEF AdvanceClock, RestartInv, Awaited, Clock, Timeout
  <2>3. CASE ~(now + 1 < NSECS_PER_SEC)
    <3>1. /\ now = NSECS_PER_SEC - 1
          /\ now' = 0
          /\ since'[n] = Shift(since[n])
          /\ sched_time'[n] = Shift(sched_time[n])
          /\ expiry'[n] = Shift(expiry[n])
      BY <1>1, <2>1, <2>3 DEF AdvanceClock, Awaited
    <3>2. /\ skew[n] \in -MaxSkew..MaxSkew
          /\ since[n] \in Int
          /\ expiry[n] \in Int
      OBVIOUS
    <3>3. since'[n] = since[n] - NSECS_PER_SEC
      BY <2>1, <3>1, <3>2 DEF Shift, Oldest, Timeout
    <3>4. expiry'[n] = expiry[n] - NSECS_PER_SEC /\ sched_time'[n] = expiry'[n]
      BY <2>1, <3>1, <3>2 DEF Shift, Oldest, Clock, Awaited
    <3>5. Awaited(n)'
      BY <1>2, <2>1, <3>1, <3>2, <3>3, <3>4 DEF Awaited, Clock, Timeout
    <3> QED
      BY <1>2, <3>5 DEF RestartInv
  <2> QED
    BY <2>2, <2>3
<1> QED
  BY <1>3, <1>4

LEMMA RestartNext ==
  ASSUME ShortPeriod, TypeNode, NEW n \in Node, RestartInv(n), [Next]_vars
  PROVE  RestartInv(n)'
<1> USE TimeAssumption, BoundsAssumption DEF TypeNode, Set
<1>1. ASSUME NEW m \in Node, TimerExpires(m) PROVE RestartInv(n)'
  <2>1. CASE m = n
    <3>1. /\ timer[n] = "running" /\ Clock(n) = expiry[n]
          /\ expiry'[n] = expiry[n] + Period
          /\ queue'[n] = TRUE
          /\ UNCHANGED <<now, skew, pc, sched_time, clock_discont, timer, restarts>>
      BY <1>1, <2>1 DEF TimerExpires, TimerCallback
    <3>2. CASE Awaited(n)
      <4>1. Announced(n)'
        BY <3>1, <3>2 DEF Awaited, Announced, Clock
      <4> QED
        BY <3>1, <4>1 DEF RestartInv
    <3>3. CASE Restarting(n)
      <4>1. Restarting(n)'
        BY <3>1, <3>3 DEF Restarting, Clock
      <4> QED
        BY <3>1, <4>1 DEF RestartInv
    <3>4. Clock(n) \in Int /\ (restarts[n] = 0 \/ Restarting(n) \/ Awaited(n))
      BY <3>1 DEF RestartInv, LeftOver, Announced, Clock
    <3> QED
      BY <3>1, <3>2, <3>3, <3>4 DEF RestartInv
  <2>2. CASE m # n
    <3>1. Untouched(n)
      BY <1>1, <2>2 DEF TimerExpires, TimerCallback, Untouched
    <3> QED
      BY <3>1, RestartUntouched
  <2> QED
    BY <2>1, <2>2
<1>2. ASSUME NEW m \in Node, TimerDiscont(m) PROVE RestartInv(n)'
  BY <1>2 DEF TimerDiscont, TimerCallback,
     RestartInv, Restarting, LeftOver, Awaited, Announced, Clock
<1>3. ASSUME NEW m \in Node, NEW lost, Cycle(m, lost) PROVE RestartInv(n)'
  <2>1. CASE restarts'[n] = 0
    BY <1>3, <2>1 DEF Cycle, RestartInv
  <2>2. CASE restarts'[n] # 0
    <3>1. m # n /\ restarts'[n] = restarts[n]
      BY <1>3, <2>2 DEF Cycle, Network, Fault
    <3>2. Untouched(n)
      BY <1>3, <3>1 DEF Cycle, Untouched
    <3> QED
      BY <3>2, RestartUntouched
  <2> QED
    BY <2>1, <2>2
<1>4. ASSUME NEW m \in Node, Thread(m) PROVE RestartInv(n)'
  <2>1. CASE Start(m) /\ m = n
    <3>1. /\ StartTime(n) \in Int
          /\ Clock(n) < StartTime(n) + Period
          /\ StartTime(n) + Period - Clock(n) < Timeout
      BY StartTimeBounds, FirstExpiry DEF Clock
    <3>2. /\ pc'[n] = "wait" /\ timer'[n] = "running" /\ restarts'[n] = restarts[n]
          /\ queue'[n] = queue[n] /\ clock_discont'[n] = clock_discont[n]
          /\ sched_time'[n] = StartTime(n) + Period
          /\ expiry'[n] = StartTime(n) + Period
          /\ since'[n] = now /\ UNCHANGED <<now, skew>>
      BY <2>1 DEF Start
    <3>3. restarts[n] \in 0..2 /\ (restarts[n] = 2 => ~queue[n])
      BY <2>1 DEF Start, RestartInv, Restarting, LeftOver, Awaited, Announced
    <3>4. clock_discont[n] => queue[n]
      BY <2>1 DEF Start, RestartInv
    <3>5. CASE queue[n] /\ restarts[n] # 0
      <4>1. LeftOver(n)'
        BY <3>1, <3>2, <3>3, <3>5 DEF LeftOver, Clock
      <4> QED
        BY <3>2, <3>3, <3>5, <4>1 DEF RestartInv
    <3>6. CASE ~queue[n] /\ restarts[n] # 0
      <4>1. Awaited(n)'
        BY <3>1, <3>2, <3>3, <3>4, <3>6 DEF Awaited, Clock, Timeout
      <4> QED
        BY <3>2, <3>3, <3>4, <3>6, <4>1 DEF RestartInv
    <3> QED
      BY <3>2, <3>4, <3>5, <3>6 DEF RestartInv
  <2>2. CASE Stop(m) /\ m = n
    BY <2>2 DEF Stop, RestartInv, Restarting, LeftOver, Awaited, Announced, Clock
  <2>3. CASE ReceiveEvent(m) /\ m = n
    BY <2>3 DEF ReceiveEvent,
       RestartInv, Restarting, LeftOver, Awaited, Announced, Clock
  <2>4. CASE ReceiveTimeout(m) /\ m = n
    <3>1. restarts[n] = 0 /\ ~queue[n] /\ ~clock_discont[n]
      BY <2>4 DEF ReceiveTimeout, Timeout,
         RestartInv, Restarting, LeftOver, Awaited, Announced, Clock
    <3>2. /\ pc'[n] = "stop" /\ restarts'[n] = 1
          /\ clock_discont'[n] = clock_discont[n]
      BY <2>4, <3>1 DEF ReceiveTimeout, LoopError, CountRestart, MaxRestarts
    <3>3. Restarting(n)'
      BY <3>2 DEF Restarting
    <3> QED
      BY <3>1, <3>2, <3>3 DEF RestartInv
  <2>5. CASE ClockDiscont(m) /\ m = n
    <3>1. pc'[n] = "stop" /\ ~clock_discont'[n]
      BY <2>5 DEF ClockDiscont, LoopError
    <3>2. restarts[n] \in 0..1 /\ restarts'[n] = restarts[n] + 1
      BY <2>5 DEF ClockDiscont, CountRestart, MaxRestarts,
         RestartInv, Restarting, LeftOver, Awaited, Announced, Clock
    <3>3. UNCHANGED <<now, skew, queue, timer, expiry>>
      BY <2>5 DEF ClockDiscont
    <3>4. restarts[n] = 1 => LeftOver(n)
      BY <2>5 DEF ClockDiscont, RestartInv, Restarting, Awaited, Announced
    <3>5. Restarting(n)'
      <4>1. CASE restarts[n] = 0
        BY <3>1, <3>2, <4>1 DEF Restarting
      <4>2. CASE restarts[n] = 1
        BY <3>1, <3>2, <3>3, <3>4, <4>2, <2>5 DEF Restarting, LeftOver, Clock, ClockDiscont
      <4> QED
        BY <3>2, <4>1, <4>2
    <3> QED
      BY <3>1, <3>2, <3>5 DEF RestartInv
  <2>6. CASE Reschedule(m) /\ m = n
    <3>1. pc'[n] = "stop" /\ ~clock_discont'[n]
      BY <2>6 DEF Reschedule, LoopError
    <3>2. restarts[n] = 0 \/ LeftOver(n)
      <4>1. ~Restarting(n) /\ ~Awaited(n)
        BY <2>6 DEF Reschedule, Restarting, Awaited
      <4>2. ~Announced(n)
        BY <2>6 DEF Reschedule, OffSchedule, SchedErr, Announced, Clock
      <4> QED
        BY <4>1, <4>2 DEF RestartInv
    <3>3. restarts[n] \in 0..1 /\ restarts'[n] = restarts[n] + 1
      BY <2>6, <3>2 DEF Reschedule, CountRestart, MaxRestarts, LeftOver
    <3>4. UNCHANGED <<now, skew, queue, timer, expiry>> /\ pc[n] = "check"
      BY <2>6 DEF Reschedule
    <3>5. Restarting(n)'
      <4>1. CASE restarts[n] = 0
        BY <3>1, <3>3, <4>1 DEF Restarting
      <4>2. CASE restarts[n] = 1
        BY <3>1, <3>2, <3>3, <3>4, <4>2 DEF Restarting, LeftOver, Clock
      <4> QED
        BY <3>3, <4>1, <4>2
    <3> QED
      BY <3>1, <3>3, <3>5 DEF RestartInv
  <2>7. CASE m # n /\ ~\E lost : Cycle(m, lost)
    <3>1. Untouched(n)
      BY <1>4, <2>7 DEF Thread, Untouched, Start, Stop, ReceiveEvent, ReceiveTimeout,
           ClockDiscont, Reschedule, LoopError, CountRestart
    <3> QED
      BY <3>1, RestartUntouched
  <2> QED
    BY <1>3, <1>4, <2>1, <2>2, <2>3, <2>4, <2>5, <2>6, <2>7 DEF Thread
<1>5. ASSUME NEW m \in Node, StartFails(m) PROVE RestartInv(n)'
  BY <1>5 DEF StartFails, Fault,
     RestartInv, Restarting, LeftOver, Awaited, Announced, Clock
<1>6. ASSUME NEW m \in Node, ClockJump(m) PROVE RestartInv(n)'
  BY <1>6 DEF ClockJump, SetClock, Fault,
     RestartInv, Restarting, LeftOver, Awaited, Announced, Clock
<1>7. ASSUME NEW m \in Node, ClockSync(m) PROVE RestartInv(n)'
  BY <1>7 DEF ClockSync, SetClock,
     RestartInv, Restarting, LeftOver, Awaited, Announced, Clock
<1>8. CASE LateArrives
  BY <1>8 DEF LateArrives,
     RestartInv, Restarting, LeftOver, Awaited, Announced, Clock
<1>9. CASE Tick
  BY <1>9, RestartTick
<1>10. CASE Delay
  BY <1>10 DEF Delay, Fault,
     RestartInv, Restarting, LeftOver, Awaited, Announced, Clock
<1>11. CASE UNCHANGED vars
  BY <1>11 DEF vars,
     RestartInv, Restarting, LeftOver, Awaited, Announced, Clock
<1> QED
  BY <1>1, <1>2, <1>3, <1>4, <1>5, <1>6, <1>7, <1>8, <1>9, <1>10, <1>11 DEF Next

RestartsKept == \A n \in Node : RestartInv(n)

\* A node restarts at most twice in a row without a new fault, when the offset and
\* a period take less than half a second.
THEOREM RestartsComeToAnEnd ==
  ASSUME ShortPeriod
  PROVE  Spec => []RestartsSettle
<1>1. Init => RestartsKept
  BY DEF Init, RestartsKept, RestartInv
<1>2. TypeNode /\ RestartsKept /\ [Next]_vars => RestartsKept'
  BY ShortPeriod, RestartNext DEF RestartsKept
<1>3. RestartsKept => RestartsSettle
  BY DEF RestartsKept, RestartsSettle, RestartInv
<1> QED
  BY <1>1, <1>2, <1>3, NodesTyped, PTL DEF Spec

-----------------------------------------------------------------------------
(* Frames                                                                  *)

\* A frame of a cycle on schedule is sent at the time of its header or later.
Stamped == {f \in [sched_time : Int, sent : Int, on_time : BOOLEAN] :
              f.on_time => f.sched_time <= f.sent}

FramesInv ==
  /\ rx \in [Link -> Seq(Stamped)]
  /\ late \in SUBSET (Link \X Stamped)

LEMMA FrameStamped ==
  ASSUME TypeNode, NEW n \in Node
  PROVE  Frame(n) \in Stamped
<1> DEFINE t == sched_time[n]
           u == Clock(n)
           o == SchedErr(n) \in 0..Period-1
<1>1. t \in Int /\ u \in Int /\ SchedErr(n) = u - t
  BY TimeAssumption, BoundsAssumption DEF TypeNode, Clock, SchedErr
<1>2. o \in BOOLEAN /\ (o => t <= u)
  BY <1>1, TimeAssumption
<1>3. Frame(n) = [sched_time |-> t, sent |-> u, on_time |-> o]
  BY DEF Frame
<1> HIDE DEF t, u, o
<1> QED
  BY <1>1, <1>2, <1>3 DEF Stamped

LEMMA ArriveStamped ==
  ASSUME NEW q \in Seq(Stamped), NEW f \in Stamped
  PROVE  Arrive(q, f) \in Seq(Stamped)
BY DEF Arrive

LEMMA TransmitStamped ==
  ASSUME TypeNode, NEW n \in Node, NEW lost, NEW sent \in [Link -> Seq(Stamped)],
         Transmit(n, sent, lost)
  PROVE  rx' \in [Link -> Seq(Stamped)]
BY FrameStamped, ArriveStamped DEF Transmit

\* The second turns: the order of the instants stays, also that of the old ones.
LEMMA ShiftStamped ==
  ASSUME NEW q \in Seq(Stamped)
  PROVE  [i \in DOMAIN q |-> ShiftFrame(q[i])] \in Seq(Stamped)
<1>1. ASSUME NEW f \in Stamped PROVE ShiftFrame(f) \in Stamped
  <2>1. PICK t \in Int, u \in Int, o \in BOOLEAN :
          f = [sched_time |-> t, sent |-> u, on_time |-> o] /\ (o => t <= u)
    BY DEF Stamped
  <2>2. ShiftFrame(f) = [sched_time |-> Shift(t), sent |-> Shift(u), on_time |-> o]
    BY <2>1 DEF ShiftFrame
  <2>3. t <= u => Shift(t) <= Shift(u)
    BY TimeAssumption, BoundsAssumption DEF Shift, Oldest
  <2>4. Shift(t) \in Int /\ Shift(u) \in Int
    BY ShiftType
  <2> QED
    BY <2>1, <2>2, <2>3, <2>4 DEF Stamped
<1>2. \A i \in DOMAIN q : q[i] \in Stamped
  OBVIOUS
<1> QED
  BY <1>1, <1>2

\* The frame that a cycle uses has the time of the cycle before it; the frames
\* after it stay in the socket.
LEMMA UsedFrame ==
  ASSUME NEW n \in Node, NEW q \in Seq(Stamped), Usable(n, q) # {}
  PROVE  /\ NetReceive(n, q) \in Seq(Stamped)
         /\ Len(q) - Len(NetReceive(n, q)) \in Usable(n, q)
<1> DEFINE used == Min(Usable(n, q))
<1>1. Usable(n, q) \in SUBSET Nat /\ Usable(n, q) \subseteq 1..Len(q)
  BY DEF Usable
<1>2. \E i \in Usable(n, q) : \A j \in Usable(n, q) : i <= j
  BY <1>1, LeastNatural
<1>3. used \in Usable(n, q)
  BY <1>2 DEF Min
<1>4. NetReceive(n, q) = SubSeq(q, used + 1, Len(q))
  BY DEF NetReceive
<1> HIDE DEF used
<1>5. used \in 1..Len(q)
  BY <1>1, <1>3
<1>6. /\ SubSeq(q, used + 1, Len(q)) \in Seq(Stamped)
      /\ Len(SubSeq(q, used + 1, Len(q))) = Len(q) - used
  BY <1>5
<1> QED
  BY <1>3, <1>4, <1>5, <1>6

LEMMA ReceivedStamped ==
  ASSUME NEW n \in Node, rx \in [Link -> Seq(Stamped)]
  PROVE  Received(n) \in [Link -> Seq(Stamped)]
<1>1. ASSUME NEW q \in Seq(Stamped) PROVE NetReceive(n, q) \in Seq(Stamped)
  <2>1. CASE Usable(n, q) = {}
    BY <2>1 DEF NetReceive
  <2>2. CASE Usable(n, q) # {}
    BY <2>2, UsedFrame
  <2> QED
    BY <2>1, <2>2
<1> QED
  BY <1>1 DEF Received

LEMMA FramesTime ==
  ASSUME FramesInv, AdvanceClock
  PROVE  FramesInv'
<1>1. CASE now + 1 < NSECS_PER_SEC
  BY <1>1 DEF FramesInv, AdvanceClock
<1>2. CASE ~(now + 1 < NSECS_PER_SEC)
  <2>1. /\ rx' = [l \in Link |-> [i \in DOMAIN rx[l] |-> ShiftFrame(rx[l][i])]]
        /\ late' = {}
    BY <1>2 DEF AdvanceClock
  <2>2. ASSUME NEW l \in Link
        PROVE  [i \in DOMAIN rx[l] |-> ShiftFrame(rx[l][i])] \in Seq(Stamped)
    BY ShiftStamped DEF FramesInv
  <2> QED
    BY <2>1, <2>2 DEF FramesInv
<1> QED
  BY <1>1, <1>2

LEMMA FramesNext ==
  ASSUME TypeNode, FramesInv, [Next]_vars
  PROVE  FramesInv'
<1>1. ASSUME NEW n \in Node, TimerExpires(n) PROVE FramesInv'
  BY <1>1 DEF TimerExpires, FramesInv
<1>2. ASSUME NEW n \in Node, TimerDiscont(n) PROVE FramesInv'
  BY <1>2 DEF TimerDiscont, FramesInv
<1>3. ASSUME NEW n \in Node, NEW lost, Cycle(n, lost) PROVE FramesInv'
  <2>1. rx' \in [Link -> Seq(Stamped)]
    BY <1>3, ReceivedStamped, TransmitStamped DEF Cycle, FramesInv
  <2>2. ASSUME NEW m \in lost PROVE <<<<m, n>>, Frame(n)>> \in Link \X Stamped
    BY <1>3, FrameStamped DEF Cycle, Receivers, Link
  <2>3. late' = late \/ late' = late \cup {<<<<m, n>>, Frame(n)>> : m \in lost}
    BY <1>3 DEF Cycle, Network
  <2> QED
    BY <2>1, <2>2, <2>3 DEF FramesInv
<1>4. ASSUME NEW n \in Node, Thread(n) PROVE FramesInv'
  <2>1. CASE Start(n) \/ Stop(n) \/ ReceiveEvent(n)
    BY <2>1 DEF Start, Stop, ReceiveEvent, FramesInv
  <2>2. CASE ReceiveTimeout(n) \/ ClockDiscont(n) \/ Reschedule(n)
    BY <2>2, TransmitStamped DEF ReceiveTimeout, ClockDiscont, Reschedule, LoopError, FramesInv
  <2> QED
    BY <1>3, <1>4, <2>1, <2>2 DEF Thread
<1>5. ASSUME NEW n \in Node, StartFails(n) PROVE FramesInv'
  BY <1>5 DEF StartFails, FramesInv
<1>6. ASSUME NEW n \in Node, ClockJump(n) PROVE FramesInv'
  BY <1>6 DEF ClockJump, SetClock, FramesInv
<1>7. ASSUME NEW n \in Node, ClockSync(n) PROVE FramesInv'
  BY <1>7 DEF ClockSync, SetClock, FramesInv
<1>8. CASE LateArrives
  <2>1. PICK a \in late : /\ late' = late \ {a}
                          /\ rx' = [rx EXCEPT ![a[1]] = Arrive(rx[a[1]], a[2])]
    BY <1>8 DEF LateArrives, Set
  <2>2. Arrive(rx[a[1]], a[2]) \in Seq(Stamped)
    BY <2>1, ArriveStamped DEF FramesInv
  <2> QED
    BY <2>1, <2>2 DEF FramesInv
<1>9. CASE Tick
  BY <1>9, FramesTime DEF Tick
<1>10. CASE Delay
  BY <1>10, FramesTime DEF Delay
<1>11. CASE UNCHANGED vars
  BY <1>11 DEF vars, FramesInv
<1> QED
  BY <1>1, <1>2, <1>3, <1>4, <1>5, <1>6, <1>7, <1>8, <1>9, <1>10, <1>11 DEF Next

\* Only a cycle on schedule takes a thread from its check back to waiting.
LEMMA CycleStep ==
  ASSUME TypeNode, NEW n \in Node, Next, pc[n] = "check", pc'[n] = "wait"
  PROVE  \E lost : Cycle(n, lost)
<1> USE DEF TypeNode, Set
<1>1. ASSUME NEW m \in Node, Thread(m), ~\E lost : Cycle(m, lost) PROVE FALSE
  BY <1>1 DEF Thread, Start, Stop, ReceiveEvent, ReceiveTimeout, ClockDiscont,
     Reschedule, LoopError
<1>2. ASSUME NEW m \in Node,
             TimerExpires(m) \/ TimerDiscont(m) \/ StartFails(m) \/ ClockJump(m) \/ ClockSync(m)
      PROVE  FALSE
  BY <1>2 DEF TimerExpires, TimerDiscont, StartFails, ClockJump, ClockSync, SetClock
<1>3. ~LateArrives /\ ~Tick /\ ~Delay
  BY DEF LateArrives, Tick, Delay
<1>4. PICK m \in Node : \E lost : Cycle(m, lost)
  BY <1>1, <1>2, <1>3 DEF Next
<1>5. m = n
  BY <1>4 DEF Cycle
<1> QED
  BY <1>4, <1>5

\* The frame that a cycle uses was sent less than a period and the transfer time
\* before, if its sender was on schedule: whatever the network holds back and
\* whatever gathers in the sockets.
THEOREM FramesAreFresh == Spec => FreshFrames
<1> DEFINE Fresh == \A n \in Node, l \in Link :
       l[1] = n /\ pc[n] = "check" /\ pc'[n] = "wait" /\ link_status'[l]
         => LET f == rx[l][Len(rx[l]) - Len(NetReceive(n, rx[l]))]
            IN  f.on_time => Clock(n) - f.sent < TransferTime + Period
<1>1. Init => FramesInv
  BY DEF Init, FramesInv
<1>2. TypeNode /\ FramesInv /\ [Next]_vars => FramesInv'
  BY FramesNext
<1>3. ASSUME TypeNode, FramesInv, Next PROVE Fresh
  <2>1. SUFFICES ASSUME NEW n \in Node, NEW l \in Link, l[1] = n, pc[n] = "check",
                        pc'[n] = "wait", link_status'[l]
                 PROVE  LET f == rx[l][Len(rx[l]) - Len(NetReceive(n, rx[l]))]
                        IN  f.on_time => Clock(n) - f.sent < TransferTime + Period
    OBVIOUS
  <2> DEFINE used == Len(rx[l]) - Len(NetReceive(n, rx[l]))
             f    == rx[l][used]
  <2>2. PICK lost : Cycle(n, lost)
    BY <1>3, <2>1, CycleStep
  <2>3. used \in Usable(n, rx[l]) /\ rx[l] \in Seq(Stamped)
    BY <1>3, <2>1, <2>2, UsedFrame DEF Cycle, FramesInv
  <2> HIDE DEF used
  <2>4. f \in Stamped /\ f.sched_time = sched_time[n] - TransferTime
    BY <2>3 DEF Usable
  <2>5. Clock(n) - sched_time[n] < Period /\ Clock(n) \in Int /\ sched_time[n] \in Int
    BY <1>3, <2>2, TimeAssumption, BoundsAssumption
    DEF Cycle, OffSchedule, SchedErr, Clock, TypeNode
  <2> HIDE DEF f
  <2>6. f.on_time => Clock(n) - f.sent < TransferTime + Period
    BY <2>4, <2>5, TimeAssumption, TransferTimeBounds DEF Stamped
  <2> QED
    BY <2>6 DEF f, used
<1>4. ASSUME UNCHANGED vars, TypeNode PROVE Fresh
  BY <1>4 DEF vars
<1>5. TypeNode /\ FramesInv /\ [Next]_vars => [Fresh]_vars
  BY <1>3
<1> HIDE DEF Fresh
<1>6. Spec => [][Fresh]_vars
  BY <1>1, <1>2, <1>5, NodesTyped, PTL DEF Spec
<1> QED
  BY <1>6 DEF FreshFrames, Fresh
===============================================================================
