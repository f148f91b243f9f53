--------------------------- MODULE ControllerProofs ---------------------------
(***************************************************************************)
(* Proofs about Controller and its strategies, for one or two motors, any  *)
(* restart delay, any number of identification steps and any configured    *)
(* first strategy: what holds the motors still, and that a stage of a      *)
(* strategy finds what its own earlier stages set up, whatever the order   *)
(* of interruptions, button presses and commands.                          *)
(***************************************************************************)
EXTENDS Controller, TLAPS

\* The result tables of the identification are not left.
IdInRange(c) == c.id_state # "DONE" => c.id_motor < IdMotors

GoodContext(c) == c \in Context /\ IdInRange(c)

NoIq(c) == \A m \in Motor : c.iq[m] = "zero"

-----------------------------------------------------------------------------
(* The operators on strategy contexts                                      *)

LEMMA DriveType ==
  ASSUME NEW c, GoodContext(c), NEW motors
  PROVE  /\ GoodContext(Drive(c, motors)) /\ Drive(c, motors).current = c.current
         /\ Drive(c, motors).id_state = c.id_state
         /\ Drive(c, motors).id_motor = c.id_motor
BY DEF GoodContext, Context, IdInRange, Drive

LEMMA ResetIqType ==
  ASSUME NEW c, GoodContext(c)
  PROVE  /\ GoodContext(ResetIq(c)) /\ ResetIq(c).current = c.current
         /\ NoIq(ResetIq(c))
BY DEF GoodContext, Context, IdInRange, ResetIq, NoIq

LEMMA StopMotorType ==
  ASSUME NEW c, GoodContext(c), NEW motor
  PROVE  /\ GoodContext(StopMotor(c, motor)) /\ StopMotor(c, motor).current = c.current
         /\ StopMotor(c, motor).id_state = c.id_state
         /\ StopMotor(c, motor).id_motor = c.id_motor
BY DEF GoodContext, Context, IdInRange, StopMotor

LEMMA LoadScenarioType ==
  ASSUME NEW c, GoodContext(c), NEW s \in {"none", "synchronized", "interlaced"}
  PROVE  GoodContext(LoadScenario(c, s)) /\ LoadScenario(c, s).current = c.current
BY DEF GoodContext, Context, IdInRange, LoadScenario

LEMMA AlternateType ==
  ASSUME NEW c, GoodContext(c)
  PROVE  GoodContext(Alternate(c)) /\ Alternate(c).current = c.current
BY DEF GoodContext, Context, IdInRange, Alternate

LEMMA PairMotorsType ==
  ASSUME NEW c, GoodContext(c), NumMotors = 2
  PROVE  GoodContext(PairMotors(c)) /\ PairMotors(c).current = c.current
<1> DEFINE d == IF c.dynamic = NULL THEN FirstMotor ELSE c.dynamic
           s == IF c.static = NULL THEN SecondMotor ELSE c.static
<1>1. FirstMotor \in Motor /\ SecondMotor \in Motor
  BY DEF FirstMotor, SecondMotor, Motor
<1>2. c \in Context
  BY DEF GoodContext
<1>3. d \in Motor \cup {NULL} /\ s \in Motor \cup {NULL}
  BY <1>1, <1>2 DEF Context
<1>4. PairMotors(c) = [c EXCEPT !.dynamic = d, !.static = s]
  BY <1>2 DEF PairMotors, Context
<1> HIDE DEF d, s
<1>5. QED
  BY <1>2, <1>3, <1>4 DEF GoodContext, Context, IdInRange

\* The table of measured motors after one more entry.
LEMMA IdEntry ==
  ASSUME NEW c, c \in Context, NEW k \in 0..IdMotors-1
  PROVE  [c.id EXCEPT ![k] = c.dynamic] \in [0..IdMotors-1 -> Motor \cup {NULL}]
BY DEF Context

LEMMA NextStepType ==
  ASSUME NEW c, GoodContext(c), c.id_state # "DONE"
  PROVE  GoodContext(NextStep(c)) /\ NextStep(c).current = c.current
<1>1. /\ c \in Context
      /\ c.id_motor \in 0..IdMotors-1
      /\ c.id_i \in 0..IdSteps
  BY DEF GoodContext, IdInRange, IdMotors, Context
<1>2. CASE c.id_i + 1 < IdSteps
  <2>1. NextStep(c) = [c EXCEPT !.id_i = @ + 1, !.id_state = "ACCELERATING"]
    BY <1>2 DEF NextStep
  <2>2. c.id_i + 1 \in 0..IdSteps
    BY <1>1, <1>2, IdStepsAssumption
  <2>3. QED
    BY <1>1, <2>1, <2>2 DEF GoodContext, Context, IdInRange, IdState, IdMotors
<1>3. CASE ~(c.id_i + 1 < IdSteps) /\ c.id_motor + 1 < IdMotors
  <2> DEFINE t == [c.id EXCEPT ![c.id_motor] = c.dynamic]
             k == c.id_motor + 1
             d == Alternate(c)
  <2>1. NextStep(c) = [d EXCEPT !.id = t, !.id_i = 0, !.id_motor = k,
                                !.id_state = "ACCELERATING"]
    BY <1>1, <1>3 DEF NextStep, Alternate, Context
  <2>2. t \in [0..IdMotors-1 -> Motor \cup {NULL}]
    BY <1>1, IdEntry
  <2>3. k \in 0..IdMotors /\ k < IdMotors /\ 0 \in 0..IdSteps
    BY <1>1, <1>3, IdStepsAssumption DEF IdMotors
  <2>4. d \in Context /\ d.current = c.current
    BY AlternateType DEF GoodContext
  <2> HIDE DEF t, d, k
  <2>5. NextStep(c) \in Context
    BY <2>1, <2>2, <2>3, <2>4 DEF Context, IdState
  <2>6. /\ NextStep(c).id_state = "ACCELERATING" /\ NextStep(c).id_motor = k
        /\ NextStep(c).current = c.current
    BY <2>1, <2>4 DEF Context
  <2>7. QED
    BY <2>3, <2>5, <2>6 DEF GoodContext, IdInRange
<1>4. CASE ~(c.id_i + 1 < IdSteps) /\ ~(c.id_motor + 1 < IdMotors)
  <2> DEFINE t == [c.id EXCEPT ![c.id_motor] = c.dynamic]
             k == c.id_motor + 1
             d == Alternate(c)
  <2>1. NextStep(c) = [d EXCEPT !.id = t, !.id_i = IdSteps, !.id_motor = k,
                                !.id_state = "DONE"]
    BY <1>1, <1>4 DEF NextStep, Alternate, Context
  <2>2. t \in [0..IdMotors-1 -> Motor \cup {NULL}]
    BY <1>1, IdEntry
  <2>3. k \in 0..IdMotors /\ IdSteps \in 0..IdSteps
    BY <1>1, <1>4, IdStepsAssumption DEF IdMotors
  <2>4. d \in Context /\ d.current = c.current
    BY AlternateType DEF GoodContext
  <2> HIDE DEF t, d, k
  <2>5. NextStep(c) \in Context
    BY <2>1, <2>2, <2>3, <2>4 DEF Context, IdState
  <2>6. /\ NextStep(c).id_state = "DONE" /\ NextStep(c).id_motor = k
        /\ NextStep(c).current = c.current
    BY <2>1, <2>4 DEF Context
  <2>7. QED
    BY <2>3, <2>5, <2>6 DEF GoodContext, IdInRange
<1>5. QED
  BY <1>2, <1>3, <1>4

-----------------------------------------------------------------------------
(* The operations of the strategies                                        *)

\* An operation leaves the type and the current strategy alone.
GoodOutcome(c, o) ==
  /\ GoodContext(o.ctx) /\ o.ctx.current = c.current
  /\ o.rc \in {"OK", "WAIT", "ERROR"}
  /\ o.rc = "ERROR" => o.ctx = c /\ c.current # STOP

LEMMA ResetOutcome ==
  ASSUME NEW c, GoodContext(c), NEW o \in StrategyReset(c)
  PROVE  GoodOutcome(c, o)
<1> DEFINE r == ResetMotors(c)
           n == [r EXCEPT !.dynamic = NULL, !.static = NULL]
<1>1. GoodContext(r) /\ r.current = c.current
  BY ResetIqType, LoadScenarioType DEF ResetMotors
<1>2. o \in {Outcome("OK", r), Outcome("OK", n)}
  BY DEF StrategyReset
<1> HIDE DEF r
<1>3. GoodContext(n) /\ n.current = c.current
  <2>1. /\ r \in Context
        /\ r.id_state # "DONE" => r.id_motor < IdMotors
    BY <1>1 DEF GoodContext, IdInRange
  <2>2. n \in Context
    BY <2>1 DEF Context
  <2>3. n.id_state = r.id_state /\ n.id_motor = r.id_motor /\ n.current = r.current
    BY <2>1 DEF Context
  <2> HIDE DEF n
  <2>4. QED
    BY <1>1, <2>1, <2>2, <2>3 DEF GoodContext, IdInRange
<1> HIDE DEF n
<1>4. CASE o = Outcome("OK", r)
  BY <1>1, <1>4 DEF Outcome, GoodOutcome
<1>5. CASE o = Outcome("OK", n)
  BY <1>3, <1>5 DEF Outcome, GoodOutcome
<1>6. QED
  BY <1>2, <1>4, <1>5

LEMMA PrepareOutcome ==
  ASSUME NEW c, GoodContext(c), NEW o \in StrategyPrepare(c)
  PROVE  GoodOutcome(c, o)
<1>1. CASE c.current \notin TwoMotorStrategy
  BY <1>1 DEF StrategyPrepare, Outcome, GoodOutcome
<1>2. CASE c.current \in TwoMotorStrategy /\ NumMotors # 2
  <2>1. c.current # STOP
    BY <1>2 DEF TwoMotorStrategy, INTERLACED, IDENTIFICATION, STOP
  <2>2. QED
    BY <1>2, <2>1 DEF StrategyPrepare, InterlacedPrepare, Outcome, GoodOutcome
<1>3. CASE c.current \in TwoMotorStrategy /\ NumMotors = 2
  <2>1. GoodContext(PairMotors(c)) /\ PairMotors(c).current = c.current
    BY <1>3, PairMotorsType
  <2>2. GoodContext(Alternate(PairMotors(c))) /\ Alternate(PairMotors(c)).current = c.current
    BY <2>1, AlternateType
  <2>3. o \in {Outcome("OK", PairMotors(c)), Outcome("WAIT", Alternate(PairMotors(c)))}
    BY <1>3 DEF StrategyPrepare, InterlacedPrepare
  <2>4. QED
    BY <2>1, <2>2, <2>3 DEF Outcome, GoodOutcome
<1>4. QED
  BY <1>1, <1>2, <1>3

LEMMA StartupOutcome ==
  ASSUME NEW c, GoodContext(c), NEW o \in StrategyStartup(c)
  PROVE  GoodOutcome(c, o)
<1>1. CASE c.current \in TwoMotorStrategy
  <2> DEFINE held == Drive(c, {c.static})
             both == Drive(held, {c.dynamic})
  <2>1. GoodContext(held) /\ held.current = c.current
    BY DriveType
  <2>2. GoodContext(both) /\ both.current = c.current
    BY <2>1, DriveType
  <2>3. GoodContext(Alternate(both)) /\ Alternate(both).current = c.current
    BY <2>2, AlternateType
  <2>4. o \in {Outcome("WAIT", held), Outcome("WAIT", both),
               Outcome("WAIT", Alternate(both)), Outcome("OK", both)}
    BY <1>1 DEF StrategyStartup, InterlacedStartup, TwoMotorStrategy, INTERLACED,
                IDENTIFICATION, STOP
  <2> HIDE DEF held, both
  <2>5. QED
    BY <2>1, <2>2, <2>3, <2>4 DEF Outcome, GoodOutcome
<1>2. CASE c.current \notin TwoMotorStrategy
  <2>1. GoodContext(Drive(c, Motor)) /\ Drive(c, Motor).current = c.current
    BY DriveType
  <2>2. o \in {Outcome("WAIT", Drive(c, Motor)), Outcome("OK", Drive(c, Motor))}
    BY <1>2 DEF StrategyStartup, StopStartup, GenericStartup
  <2>3. QED
    BY <2>1, <2>2 DEF Outcome, GoodOutcome
<1>3. QED
  BY <1>1, <1>2

LEMMA IdentificationInitOutcome ==
  ASSUME NEW c, GoodContext(c), NEW o \in IdentificationInit(c)
  PROVE  GoodOutcome(c, o)
<1> DEFINE d == LoadScenario(c, "interlaced")
<1>1. GoodContext(d) /\ d.current = c.current
  BY LoadScenarioType
<1>2. o = Outcome("OK", [d EXCEPT !.id_state = "ACCELERATING", !.id_i = 0,
                                  !.id_motor = 0])
  BY DEF IdentificationInit
<1>3. 0 \in 0..IdSteps /\ 0 \in 0..IdMotors /\ 0 < IdMotors
  BY IdStepsAssumption DEF IdMotors
<1> HIDE DEF d
<1>4. QED
  BY <1>1, <1>2, <1>3 DEF Outcome, GoodOutcome, GoodContext, Context, IdInRange, IdState

LEMMA InitOutcome ==
  ASSUME NEW c, GoodContext(c), NEW o \in StrategyInit(c)
  PROVE  GoodOutcome(c, o)
<1>1. c.current \in Strategy
  BY DEF GoodContext, Context
<1> USE DEF SYNCHRONIZED, FOLLOW, HOLD_INDEX, INTERLACED, STOP, IDENTIFICATION
<1>2. CASE c.current = SYNCHRONIZED
  <2>1. o = Outcome("OK", LoadScenario(c, "synchronized"))
    BY <1>2 DEF StrategyInit
  <2>2. QED
    BY <2>1, LoadScenarioType DEF Outcome, GoodOutcome
<1>3. CASE c.current = FOLLOW
  <2>1. o \in FollowInit(c)
    BY <1>3 DEF StrategyInit
  <2>2. o.ctx = c /\ o.rc \in {"OK", "ERROR"}
    BY <2>1 DEF FollowInit, Outcome
  <2>3. QED
    BY <1>3, <2>2 DEF GoodOutcome
<1>4. CASE c.current = INTERLACED
  <2>1. o = Outcome("OK", LoadScenario(c, "interlaced"))
    BY <1>4 DEF StrategyInit
  <2>2. QED
    BY <2>1, LoadScenarioType DEF Outcome, GoodOutcome
<1>5. CASE c.current = IDENTIFICATION
  <2>1. o \in IdentificationInit(c)
    BY <1>5 DEF StrategyInit
  <2>2. QED
    BY <2>1, IdentificationInitOutcome
<1>6. CASE c.current \in {HOLD_INDEX, STOP}
  <2>1. o = Outcome("OK", c)
    BY <1>6 DEF StrategyInit
  <2>2. QED
    BY <2>1 DEF Outcome, GoodOutcome
<1>7. QED
  BY <1>1, <1>2, <1>3, <1>4, <1>5, <1>6 DEF Strategy

LEMMA IdentificationLoopOutcome ==
  ASSUME NEW c, GoodContext(c), NEW o \in IdentificationLoop(c)
  PROVE  GoodOutcome(c, o)
<1> DEFINE both == Drive(c, {c.dynamic, c.static})
           free == StopMotor(Drive(c, {c.static}), c.dynamic)
<1>1. GoodContext(both) /\ both.current = c.current /\ both.id_state = c.id_state
      /\ both.id_motor = c.id_motor
  BY DriveType
<1>2. GoodContext(Drive(c, {c.static})) /\ Drive(c, {c.static}).current = c.current
      /\ Drive(c, {c.static}).id_motor = c.id_motor
  BY DriveType
<1>3. GoodContext(free) /\ free.current = c.current /\ free.id_motor = c.id_motor
  BY <1>2, StopMotorType
<1>4. c.id_state \in IdState
  BY DEF GoodContext, Context
<1> HIDE DEF both, free
<1>5. CASE c.id_state = "ACCELERATING"
  <2>1. o \in {Outcome("OK", both), Outcome("OK", [both EXCEPT !.id_state = "COASTING"])}
    BY <1>5 DEF IdentificationLoop, both
  <2>2. QED
    BY <1>1, <1>5, <2>1 DEF Outcome, GoodOutcome, GoodContext, Context, IdInRange, IdState
<1>6. CASE c.id_state = "COASTING"
  <2>1. o \in {Outcome("OK", free), Outcome("OK", [free EXCEPT !.id_state = "STOPPING"])}
    BY <1>6 DEF IdentificationLoop, free
  <2>2. c.id_motor < IdMotors
    BY <1>6 DEF GoodContext, IdInRange
  <2>3. QED
    BY <1>3, <2>1, <2>2 DEF Outcome, GoodOutcome, GoodContext, Context, IdInRange, IdState
<1>7. CASE c.id_state = "STOPPING"
  <2>1. o \in {Outcome("OK", both), Outcome("OK", NextStep(both))}
    BY <1>7 DEF IdentificationLoop, both
  <2>2. GoodContext(NextStep(both)) /\ NextStep(both).current = c.current
    BY <1>1, <1>7, NextStepType
  <2>3. QED
    BY <1>1, <2>1, <2>2 DEF Outcome, GoodOutcome
<1>8. CASE c.id_state = "DONE"
  <2>1. o = Outcome("OK", ResetIq(c))
    BY <1>8 DEF IdentificationLoop
  <2>2. QED
    BY <2>1, ResetIqType DEF Outcome, GoodOutcome
<1>9. QED
  BY <1>4, <1>5, <1>6, <1>7, <1>8 DEF IdState

LEMMA LoopOutcome ==
  ASSUME NEW c, GoodContext(c), NEW o \in StrategyLoop(c)
  PROVE  GoodOutcome(c, o)
<1>1. c.current \in Strategy
  BY DEF GoodContext, Context
<1> USE DEF SYNCHRONIZED, FOLLOW, HOLD_INDEX, INTERLACED, STOP, IDENTIFICATION
<1>2. CASE c.current = SYNCHRONIZED
  <2>1. o \in SynchronizedLoop(c)
    BY <1>2 DEF StrategyLoop
  <2>2. QED
    BY <1>2, <2>1, DriveType DEF SynchronizedLoop, Outcome, GoodOutcome
<1>3. CASE c.current = FOLLOW
  <2>1. o \in FollowLoop(c)
    BY <1>3 DEF StrategyLoop
  <2>2. QED
    BY <1>3, <2>1, DriveType DEF FollowLoop, Outcome, GoodOutcome
<1>4. CASE c.current = HOLD_INDEX
  <2>1. o \in HoldIndexLoop(c)
    BY <1>4 DEF StrategyLoop
  <2>2. QED
    BY <1>4, <2>1, DriveType DEF HoldIndexLoop, Outcome, GoodOutcome
<1>5. CASE c.current = INTERLACED
  <2> DEFINE both == Drive(c, {c.dynamic, c.static})
  <2>1. o \in {Outcome("ERROR", c), Outcome("OK", both), Outcome("OK", Alternate(both))}
    BY <1>5 DEF StrategyLoop, InterlacedLoop
  <2>2. GoodContext(both) /\ both.current = c.current
    BY DriveType
  <2> HIDE DEF both
  <2>3. GoodContext(Alternate(both)) /\ Alternate(both).current = c.current
    BY <2>2, AlternateType
  <2>4. QED
    BY <1>5, <2>1, <2>2, <2>3 DEF Outcome, GoodOutcome
<1>6. CASE c.current = STOP
  <2>1. o \in StopLoop(c)
    BY <1>6 DEF StrategyLoop
  <2>2. QED
    BY <2>1, ResetIqType DEF StopLoop, Outcome, GoodOutcome
<1>7. CASE c.current = IDENTIFICATION
  <2>1. o \in IdentificationLoop(c)
    BY <1>7 DEF StrategyLoop
  <2>2. QED
    BY <2>1, IdentificationLoopOutcome
<1>8. QED
  BY <1>1, <1>2, <1>3, <1>4, <1>5, <1>6, <1>7 DEF Strategy

\* Whatever stage a strategy is in, its operation has a good outcome.
LEMMA OperationOutcome ==
  ASSUME NEW c, GoodContext(c), NEW p \in Operation(c)
  PROVE  GoodOutcome(c, p)
<1>1. c.state \in StrategyState
  BY DEF GoodContext, Context
<1>2. CASE c.state = "RESET"
  BY <1>2, ResetOutcome DEF Operation
<1>3. CASE c.state = "PREPARE"
  BY <1>3, PrepareOutcome DEF Operation
<1>4. CASE c.state = "STARTUP"
  BY <1>4, StartupOutcome DEF Operation
<1>5. CASE c.state = "INIT"
  BY <1>5, InitOutcome DEF Operation
<1>6. CASE c.state = "CONTROL"
  BY <1>6, LoopOutcome DEF Operation
<1>7. QED
  BY <1>1, <1>2, <1>3, <1>4, <1>5, <1>6 DEF StrategyState

\* What a run of the state machine promises to the controller.
LEMMA StateMachineOutcome ==
  ASSUME NEW c, GoodContext(c), NEW o \in StateMachine(c)
  PROVE  GoodOutcome(c, o)
<1>1. c.state \in StrategyState
  BY DEF GoodContext, Context
<1>2. PICK p \in Operation(c) :
        o = Outcome(p.rc, IF p.rc = "OK" THEN [p.ctx EXCEPT !.state = After(c.state)]
                          ELSE p.ctx)
  BY DEF StateMachine
<1>3. GoodOutcome(c, p)
  BY OperationOutcome
<1>4. After(c.state) \in StrategyState
  BY DEF After, StrategyState
<1> DEFINE s == After(c.state)
<1>5. GoodContext([p.ctx EXCEPT !.state = s]) /\ [p.ctx EXCEPT !.state = s].current = c.current
  <2> HIDE DEF s
  <2>1. s \in StrategyState
    BY <1>4 DEF s
  <2>2. QED
    BY <1>3, <2>1 DEF GoodOutcome, GoodContext, Context, IdInRange
<1> HIDE DEF s
<1>6. o.rc = p.rc /\ o.ctx = IF p.rc = "OK" THEN [p.ctx EXCEPT !.state = s] ELSE p.ctx
  BY <1>2 DEF Outcome, s
<1>7. QED
  BY <1>3, <1>5, <1>6 DEF GoodOutcome

\* The calls of the controller.
LEMMA StrategyCalls ==
  ASSUME NEW c, GoodContext(c)
  PROVE  /\ GoodContext(ResetStrategy(c)) /\ ResetStrategy(c).current = c.current
            /\ ResetStrategy(c).iq = c.iq
         /\ GoodContext(NextStrategy(c)) /\ NextStrategy(c).iq = c.iq
         /\ GoodContext(PreviousStrategy(c)) /\ PreviousStrategy(c).iq = c.iq
         /\ GoodContext(SetStrategy(c, STOP)) /\ SetStrategy(c, STOP).current = STOP
            /\ SetStrategy(c, STOP).iq = c.iq
<1>1. c \in Context /\ IdInRange(c) /\ "RESET" \in StrategyState
  BY DEF GoodContext, StrategyState
<1>2. STOP \in Strategy /\ c.current \in Strategy /\ c.old \in Strategy
      /\ (c.current + 1) % 6 \in Strategy
  BY <1>1 DEF Context, STOP, Strategy
<1>3. GoodContext(ResetStrategy(c)) /\ ResetStrategy(c).current = c.current
      /\ ResetStrategy(c).iq = c.iq
  BY <1>1 DEF ResetStrategy, GoodContext, Context, IdInRange
<1>4. GoodContext(NextStrategy(c)) /\ NextStrategy(c).iq = c.iq
  <2> DEFINE n == (c.current + 1) % 6
  <2>1. NextStrategy(c) = [c EXCEPT !.old = c.current, !.current = n, !.state = "RESET"]
    BY DEF NextStrategy
  <2>2. n \in Strategy
    BY <1>2
  <2> HIDE DEF n
  <2>3. QED
    BY <1>1, <1>2, <2>1, <2>2 DEF GoodContext, Context, IdInRange
<1>5. GoodContext(PreviousStrategy(c)) /\ PreviousStrategy(c).iq = c.iq
  BY <1>1, <1>2 DEF PreviousStrategy, GoodContext, Context, IdInRange
<1>6. GoodContext(SetStrategy(c, STOP)) /\ SetStrategy(c, STOP).current = STOP
      /\ SetStrategy(c, STOP).iq = c.iq
  BY <1>1, <1>2 DEF SetStrategy, GoodContext, Context, IdInRange
<1>7. QED
  BY <1>3, <1>4, <1>5, <1>6

-----------------------------------------------------------------------------
(* Types, the STOP strategy and the requested currents                     *)

\* The inductive invariant.  While a device is missing, the cycles counted
\* by history and the remaining delay add up to the configured delay; the
\* decrement that takes the delay below zero leaves the state.
DelayCounts ==
  state = "IO_DEVICE_MISSING" =>
    restart_delay >= 0 /\ streak + restart_delay = RestartDelay

ControllerInv ==
  /\ ControllerTypeOK
  /\ GoodContext(strategy)
  /\ StoppedMeansStop
  /\ IqNeedsAllDevices
  /\ DelayCounts

LEMMA InitialContextGood ==
  ASSUME NEW first \in Strategy
  PROVE  GoodContext(InitialContext(first)) /\ NoIq(InitialContext(first))
<1>1. 0 \in 0..IdSteps /\ 0 \in 0..IdMotors /\ 0 < IdMotors
  BY IdStepsAssumption DEF IdMotors
<1>2. QED
  BY <1>1 DEF GoodContext, InitialContext, Context, IdInRange, NoIq,
              StrategyState, IdState

LEMMA ControllerInitInv == ControllerInit => ControllerInv
<1> SUFFICES ASSUME ControllerInit PROVE ControllerInv
  OBVIOUS
<1>1. PICK first \in FirstStrategies : strategy = InitialContext(first)
  BY DEF ControllerInit
<1>2. GoodContext(strategy) /\ NoIq(strategy)
  BY <1>1, InitialContextGood, FirstStrategiesAssumption
<1>3. strategy \in Context
  BY <1>2 DEF GoodContext
<1>4. restart_delay \in -1..RestartDelay /\ streak \in 0..RestartDelay + 1
  BY RestartDelayAssumption DEF ControllerInit
<1>5. resume \in Strategy
  BY DEF ControllerInit, NULL, Strategy
<1>6. ControllerTypeOK
  BY <1>3, <1>4, <1>5 DEF ControllerInit, ControllerTypeOK, ControllerState
<1>7. QED
  BY <1>2, <1>6
  DEF ControllerInit, ControllerInv, StoppedMeansStop, IqNeedsAllDevices, NoIq,
      DelayCounts

\* The strategy after the currents were reset and the button was looked at.
LEMMA AtStart ==
  ASSUME ControllerInv
  PROVE  /\ GoodContext(StrategyAtStart) /\ NoIq(StrategyAtStart)
         /\ stopped => StrategyAtStart.current = STOP
<1> DEFINE c == ResetIq(strategy)
<1>1. GoodContext(c) /\ NoIq(c) /\ c.current = strategy.current
  BY ResetIqType DEF ControllerInv
<1>2. GoodContext(NextStrategy(c)) /\ NextStrategy(c).iq = c.iq
  BY <1>1, StrategyCalls
<1>3. StrategyAtStart = IF button /\ ~stopped THEN NextStrategy(c) ELSE c
  BY DEF StrategyAtStart
<1> HIDE DEF c
<1>4. QED
  BY <1>1, <1>2, <1>3 DEF ControllerInv, StoppedMeansStop, NoIq

\* Counting the cycles with all devices.
LEMMA StreakType ==
  ASSUME ControllerTypeOK, NEW heard, CountStreak(heard)
  PROVE  /\ streak' \in 0..RestartDelay + 1
         /\ Connected(heard) => streak' > 0
         /\ ~Connected(heard) => streak' = 0
         /\ Connected(heard) /\ streak <= RestartDelay => streak' = streak + 1
BY RestartDelayAssumption DEF ControllerTypeOK, CountStreak

\* A cycle that requests no current and touches neither stopped nor resume.
LEMMA QuietCycle ==
  ASSUME ControllerInv, GoodContext(strategy'), NoIq(strategy'),
         state' \in ControllerState, restart_delay' \in -1..RestartDelay,
         button' \in BOOLEAN, client' \in {"GO", "STOP"},
         streak' \in 0..RestartDelay + 1, ran' \subseteq StrategyState,
         UNCHANGED <<stopped, resume>>,
         stopped => strategy'.current = STOP /\ state' # "STANDBY",
         DelayCounts'
  PROVE  ControllerInv'
BY DEF ControllerInv, ControllerTypeOK, StoppedMeansStop, IqNeedsAllDevices, NoIq,
       GoodContext

LEMMA RunStrategyInv ==
  ASSUME ControllerInv, NEW heard, RunStrategy(heard)
  PROVE  ControllerInv'
<1> DEFINE s == StrategyAtStart
<1>1. GoodContext(s) /\ NoIq(s) /\ (stopped => s.current = STOP)
  BY AtStart
<1>2. PICK c \in Commanded : ClientCommand(c) /\
        \E o \in StateMachine(c) :
          /\ strategy' = o.ctx
          /\ state' = IF o.rc = "ERROR" THEN "STANDBY" ELSE "CONTROL"
          /\ ran' = IF o.rc = "ERROR" THEN {}
                    ELSE IF c.current # strategy.current THEN {c.state}
                    ELSE ran \cup {c.state}
  BY DEF RunStrategy
<1> HIDE DEF s
<1>3. GoodContext(c) /\ NoIq(c)
  <2>1. c \in {s, SetStrategy(s, STOP), PreviousStrategy(s)}
    BY DEF Commanded, s
  <2>2. QED
    BY <1>1, <2>1, StrategyCalls DEF NoIq
<1>4. /\ stopped' \in BOOLEAN /\ resume' \in Strategy
      /\ stopped' => c.current = STOP
  <2>1. ControllerTypeOK /\ s.current \in Strategy
    BY <1>1 DEF ControllerInv, GoodContext, Context
  <2>2. CASE stopped' = TRUE /\ c = SetStrategy(s, STOP) /\ resume' = s.current
    BY <1>1, <2>1, <2>2, StrategyCalls
  <2>3. CASE stopped' = FALSE /\ UNCHANGED resume
    BY <2>1, <2>3 DEF ControllerTypeOK
  <2>4. CASE c = s /\ UNCHANGED <<stopped, resume>>
    BY <1>1, <2>1, <2>4 DEF ControllerTypeOK
  <2>5. QED
    BY <1>2, <2>2, <2>3, <2>4 DEF ClientCommand, s
<1>5. PICK o \in StateMachine(c) :
        /\ strategy' = o.ctx
        /\ state' = IF o.rc = "ERROR" THEN "STANDBY" ELSE "CONTROL"
        /\ ran' = IF o.rc = "ERROR" THEN {}
                  ELSE IF c.current # strategy.current THEN {c.state}
                  ELSE ran \cup {c.state}
  BY <1>2
<1>6. GoodOutcome(c, o)
  BY <1>3, StateMachineOutcome
<1>7. streak' \in 0..RestartDelay + 1 /\ streak' > 0
  BY StreakType DEF RunStrategy, ControllerInv
<1>8. c.state \in StrategyState
  BY <1>3 DEF GoodContext, Context
<1>9. ControllerTypeOK'
  <2>1. ControllerTypeOK
    BY DEF ControllerInv
  <2>2. strategy' \in Context
    BY <1>5, <1>6 DEF GoodOutcome, GoodContext
  <2>3. state' \in ControllerState /\ ran' \subseteq StrategyState
    BY <1>5, <1>8, <2>1 DEF ControllerTypeOK, ControllerState
  <2>4. UNCHANGED <<restart_delay, client>> /\ button' = FALSE
    BY DEF RunStrategy
  <2>5. QED
    BY <1>4, <1>7, <2>1, <2>2, <2>3, <2>4 DEF ControllerTypeOK
<1>10. StoppedMeansStop'
  BY <1>4, <1>5, <1>6 DEF StoppedMeansStop, GoodOutcome
<1>11. IqNeedsAllDevices'
  BY <1>3, <1>5, <1>6, <1>7 DEF IqNeedsAllDevices, GoodOutcome, NoIq
<1>12. GoodContext(strategy')
  BY <1>5, <1>6 DEF GoodOutcome
<1>13. DelayCounts'
  BY <1>5 DEF DelayCounts
<1>14. QED
  BY <1>9, <1>10, <1>11, <1>12, <1>13 DEF ControllerInv, GoodContext, IdInRange

\* The other cycles: the strategy of StrategyAtStart, reset or not.
LEMMA AtStartReset ==
  ASSUME ControllerInv
  PROVE  LET r == ResetStrategy(StrategyAtStart)
         IN  GoodContext(r) /\ NoIq(r) /\ (stopped => r.current = STOP)
<1>1. GoodContext(StrategyAtStart) /\ NoIq(StrategyAtStart)
      /\ (stopped => StrategyAtStart.current = STOP)
  BY AtStart
<1>2. QED
  BY <1>1, StrategyCalls DEF NoIq

LEMMA LoseDeviceInv ==
  ASSUME ControllerInv, NEW heard, LoseDevice(heard)
  PROVE  ControllerInv'
<1>1. GoodContext(strategy') /\ NoIq(strategy') /\ (stopped => strategy'.current = STOP)
  BY AtStart DEF LoseDevice
<1>2. ControllerTypeOK /\ streak' = 0 /\ streak' \in 0..RestartDelay + 1
  BY StreakType DEF LoseDevice, ControllerInv
<1>3. state' = "IO_DEVICE_MISSING" /\ restart_delay' = RestartDelay /\ DelayCounts'
  BY <1>2, RestartDelayAssumption DEF LoseDevice, DelayCounts
<1>4. state' \in ControllerState /\ state' # "STANDBY" /\ button' \in BOOLEAN
      /\ client' \in {"GO", "STOP"} /\ ran' \subseteq StrategyState
      /\ UNCHANGED <<stopped, resume>>
  BY <1>2 DEF LoseDevice, ControllerTypeOK, ControllerState, Interrupted
<1>5. restart_delay' \in -1..RestartDelay
  BY <1>3, RestartDelayAssumption
<1>6. QED
  BY <1>1, <1>2, <1>3, <1>4, <1>5, QuietCycle

LEMMA StillMissingInv ==
  ASSUME ControllerInv, NEW heard, StillMissing(heard)
  PROVE  ControllerInv'
<1>1. GoodContext(strategy') /\ NoIq(strategy') /\ (stopped => strategy'.current = STOP)
  BY AtStart DEF StillMissing
<1>2. ControllerTypeOK /\ streak' = 0 /\ streak' \in 0..RestartDelay + 1
  BY StreakType DEF StillMissing, ControllerInv
<1>3. state' = "IO_DEVICE_MISSING" /\ restart_delay' = RestartDelay /\ DelayCounts'
  BY <1>2, RestartDelayAssumption DEF StillMissing, DelayCounts
<1>4. state' \in ControllerState /\ state' # "STANDBY" /\ button' \in BOOLEAN
      /\ client' \in {"GO", "STOP"} /\ ran' \subseteq StrategyState
      /\ UNCHANGED <<stopped, resume>>
  BY <1>2 DEF StillMissing, ControllerTypeOK, ControllerState
<1>5. restart_delay' \in -1..RestartDelay
  BY <1>3, RestartDelayAssumption
<1>6. QED
  BY <1>1, <1>2, <1>3, <1>4, <1>5, QuietCycle

LEMMA DelayRestartInv ==
  ASSUME ControllerInv, NEW heard, DelayRestart(heard)
  PROVE  ControllerInv'
<1>1. GoodContext(strategy') /\ NoIq(strategy') /\ (stopped => strategy'.current = STOP)
  BY AtStart DEF DelayRestart
<1>2. ControllerTypeOK /\ DelayCounts
  BY DEF ControllerInv
<1>3. streak + restart_delay = RestartDelay /\ streak <= RestartDelay
      /\ restart_delay \in 1..RestartDelay
  <2>1. restart_delay >= 0 /\ streak + restart_delay = RestartDelay
    BY <1>2 DEF DelayCounts, DelayRestart
  <2>2. QED
    BY <1>2, <2>1, RestartDelayAssumption DEF DelayRestart, ControllerTypeOK
<1>4. streak' = streak + 1 /\ streak' \in 0..RestartDelay + 1
  BY <1>2, <1>3, StreakType DEF DelayRestart
<1>5. restart_delay' = restart_delay - 1 /\ restart_delay' \in -1..RestartDelay
  BY <1>3, RestartDelayAssumption DEF DelayRestart
<1>6. DelayCounts'
  BY <1>2, <1>3, <1>4, <1>5, RestartDelayAssumption
  DEF DelayCounts, ControllerTypeOK, DelayRestart
<1>7. state' \in ControllerState /\ state' # "STANDBY" /\ button' \in BOOLEAN
      /\ client' \in {"GO", "STOP"} /\ ran' \subseteq StrategyState
      /\ UNCHANGED <<stopped, resume>>
  BY <1>2 DEF DelayRestart, ControllerTypeOK, ControllerState
<1>8. QED
  BY <1>1, <1>4, <1>5, <1>6, <1>7, QuietCycle

LEMMA RestartInv ==
  ASSUME ControllerInv, NEW heard, Restart(heard)
  PROVE  ControllerInv' /\ streak' > RestartDelay
<1>1. GoodContext(strategy') /\ NoIq(strategy') /\ (stopped => strategy'.current = STOP)
  BY AtStartReset DEF Restart
<1>2. ControllerTypeOK /\ DelayCounts
  BY DEF ControllerInv
<1>3. streak = RestartDelay
  BY <1>2, RestartDelayAssumption DEF Restart, DelayCounts, ControllerTypeOK
<1>4. streak' = RestartDelay + 1 /\ streak' \in 0..RestartDelay + 1
  BY <1>2, <1>3, StreakType, RestartDelayAssumption DEF Restart
<1>5. restart_delay' \in -1..RestartDelay /\ state' = "CONTROL" /\ DelayCounts'
  BY RestartDelayAssumption DEF Restart, DelayCounts
<1>6. state' \in ControllerState /\ button' \in BOOLEAN
      /\ client' \in {"GO", "STOP"} /\ ran' \subseteq StrategyState
      /\ UNCHANGED <<stopped, resume>>
  BY <1>2 DEF Restart, ControllerTypeOK, ControllerState
<1>7. ControllerInv'
  BY <1>1, <1>4, <1>5, <1>6, QuietCycle
<1>8. QED
  BY <1>4, <1>7, RestartDelayAssumption

LEMMA StandbyCycleInv ==
  ASSUME ControllerInv, NEW heard, StandbyCycle(heard)
  PROVE  ControllerInv'
<1> DEFINE c == ResetIq(strategy)
<1>1. GoodContext(c) /\ NoIq(c)
  BY ResetIqType DEF ControllerInv
<1>2. GoodContext(ResetStrategy(c)) /\ NoIq(ResetStrategy(c))
  BY <1>1, StrategyCalls DEF NoIq
<1>3. GoodContext(strategy') /\ NoIq(strategy')
  BY <1>1, <1>2 DEF StandbyCycle
<1>4. ~stopped /\ ControllerTypeOK
  BY DEF ControllerInv, StoppedMeansStop, StandbyCycle
<1>5. streak' \in 0..RestartDelay + 1
  BY <1>4, StreakType DEF StandbyCycle
<1>6. state' \in {"CONTROL", "STANDBY"} /\ DelayCounts'
  BY DEF StandbyCycle, DelayCounts
<1>7. QED
  BY <1>3, <1>4, <1>5, <1>6, QuietCycle
  DEF StandbyCycle, ControllerTypeOK, ControllerState

LEMMA OtherThreadsInv ==
  ASSUME ControllerInv, PressButton \/ ClientMessage
  PROVE  ControllerInv'
<1>1. UNCHANGED <<state, restart_delay, stopped, strategy, streak, ran, resume>>
  BY DEF PressButton, ClientMessage
<1>2. button' \in BOOLEAN /\ client' \in {"GO", "STOP"}
  BY DEF PressButton, ClientMessage, ControllerInv, ControllerTypeOK
<1>3. QED
  BY <1>1, <1>2 DEF ControllerInv, ControllerTypeOK, GoodContext, IdInRange,
     StoppedMeansStop, IqNeedsAllDevices, DelayCounts

LEMMA ControllerStepInv ==
  ASSUME ControllerInv, [ControllerNext]_controllerVars
  PROVE  ControllerInv'
<1>1. ASSUME NEW heard \in SUBSET Device, ControllerLoop(heard)
      PROVE  ControllerInv'
  BY <1>1, LoseDeviceInv, RunStrategyInv, StillMissingInv, DelayRestartInv,
     RestartInv, StandbyCycleInv DEF ControllerLoop
<1>2. CASE PressButton \/ ClientMessage
  BY <1>2, OtherThreadsInv
<1>3. CASE UNCHANGED controllerVars
  BY <1>3 DEF controllerVars, ControllerInv, ControllerTypeOK, GoodContext, IdInRange,
     StoppedMeansStop, IqNeedsAllDevices, DelayCounts
<1>4. QED
  BY <1>1, <1>2, <1>3 DEF ControllerNext

-----------------------------------------------------------------------------
(* Theorems                                                                *)

\* The inductive invariant of the controller.
THEOREM ControllerInvariant == ControllerSpec => []ControllerInv
<1>1. ControllerInit => ControllerInv
  BY ControllerInitInv
<1>2. ControllerInv /\ [ControllerNext]_controllerVars => ControllerInv'
  BY ControllerStepInv
<1>3. QED
  BY <1>1, <1>2, PTL DEF ControllerSpec

\* Every variable keeps its type: no operation of any strategy writes outside
\* the tables of the identification, and restart_delay stays above -2.
THEOREM ControllerTypeCorrect == ControllerSpec => []ControllerTypeOK
<1>1. ControllerInv => ControllerTypeOK
  BY DEF ControllerInv
<1>2. QED
  BY <1>1, ControllerInvariant, PTL

\* While the command client holds the motors stopped, STOP is the current
\* strategy and has not failed, whatever button and network do.
THEOREM StopHeld == ControllerSpec => []StoppedMeansStop
<1>1. ControllerInv => StoppedMeansStop
  BY DEF ControllerInv
<1>2. QED
  BY <1>1, ControllerInvariant, PTL

\* A current is requested only by a cycle that heard every device.
THEOREM IqOnlyWithAllDevices == ControllerSpec => []IqNeedsAllDevices
<1>1. ControllerInv => IqNeedsAllDevices
  BY DEF ControllerInv
<1>2. QED
  BY <1>1, ControllerInvariant, PTL

\* Control starts again only when the devices have answered in more cycles in
\* a row than the restart delay counts.
THEOREM RestartDelayed == ControllerSpec => RestartIsDelayed
<1>1. ControllerInv /\ [ControllerNext]_controllerVars =>
        (state = "IO_DEVICE_MISSING" /\ state' = "CONTROL" => streak' > RestartDelay)
  <2> SUFFICES ASSUME ControllerInv, [ControllerNext]_controllerVars,
                      state = "IO_DEVICE_MISSING", state' = "CONTROL"
               PROVE  streak' > RestartDelay
    OBVIOUS
  <2>1. PICK heard \in SUBSET Device : Restart(heard)
    BY DEF ControllerNext, ControllerLoop, LoseDevice, RunStrategy, StillMissing,
       DelayRestart, StandbyCycle, PressButton, ClientMessage, controllerVars
  <2>2. QED
    BY <2>1, RestartInv
<1>2. ControllerInv /\ [ControllerNext]_controllerVars =>
        [state = "IO_DEVICE_MISSING" /\ state' = "CONTROL" => streak' > RestartDelay]_controllerVars
  BY <1>1
<1>3. QED
  BY <1>2, ControllerInvariant, PTL DEF ControllerSpec, RestartIsDelayed

-----------------------------------------------------------------------------
(* The inductive invariant                                                 *)

Unpaired(c) == c.dynamic = NULL /\ c.static = NULL
Paired(c) == \/ c.dynamic = 1 /\ c.static = 2
             \/ c.dynamic = 2 /\ c.static = 1

\* Pointers are both NULL or both set from PREPARE on, and set after it.
PairedSoFar(c) ==
  c.current \in TwoMotorStrategy =>
    /\ c.state = "PREPARE" => Unpaired(c) \/ Paired(c)
    /\ c.state \in {"STARTUP", "INIT", "CONTROL"} => Paired(c)

Loaded(c) ==
  c.state = "CONTROL" =>
    /\ c.current = SYNCHRONIZED => \A m \in Motor : c.scenario[m] = "synchronized"
    /\ c.current = INTERLACED => \A m \in Motor : c.scenario[m] = "interlaced"

\* While the second motor is identified the first one is the static motor.
Identified(c) ==
  IF c.id_state = "DONE"
  THEN (c.id[0] = 1 /\ c.id[1] = 2) \/ (c.id[0] = 2 /\ c.id[1] = 1)
  ELSE /\ c.id_i < IdSteps /\ c.id_motor \in {0, 1}
       /\ c.id_motor = 1 => c.id[0] = c.static

Identifying(c) ==
  c.current = IDENTIFICATION /\ c.state = "CONTROL" => Identified(c)

Prepared(c) == PairedSoFar(c) /\ Loaded(c) /\ Identifying(c)

\* The stages before stage s have all run, and those before CONTROL if it has.
StagesRun(s, r) ==
  /\ s # "RESET" => "RESET" \in r
  /\ s \in {"STARTUP", "INIT", "CONTROL"} => "PREPARE" \in r
  /\ s \in {"INIT", "CONTROL"} => "STARTUP" \in r
  /\ s = "CONTROL" => "INIT" \in r
  /\ "CONTROL" \in r => {"RESET", "PREPARE", "STARTUP", "INIT"} \subseteq r

\* A controller that does not run its strategy begins with RESET again.
RunsFromReset ==
  IF state = "CONTROL"
  THEN /\ StagesRun(strategy.state, ran)
       /\ ~NoIq(strategy) => {"RESET", "PREPARE"} \subseteq ran
  ELSE ran = {}

StagesInv == ControllerInv /\ Prepared(strategy) /\ RunsFromReset

-----------------------------------------------------------------------------
(* The operations of the strategies                                        *)

\* Contexts that agree on all that the stages set up.
Agree(c, d) ==
  /\ d.dynamic = c.dynamic /\ d.static = c.static /\ d.scenario = c.scenario
  /\ d.id_state = c.id_state /\ d.id_i = c.id_i /\ d.id_motor = c.id_motor /\ d.id = c.id

LEMMA DriveAgrees ==
  ASSUME NEW c, c \in Context, NEW motors
  PROVE  /\ Agree(c, Drive(c, motors)) /\ Drive(c, motors) \in Context
         /\ Drive(c, motors).state = c.state
BY DEF Agree, Context, Drive

LEMMA ResetIqAgrees ==
  ASSUME NEW c, c \in Context
  PROVE  /\ Agree(c, ResetIq(c)) /\ ResetIq(c) \in Context
         /\ ResetIq(c).current = c.current /\ ResetIq(c).state = c.state
BY DEF Agree, Context, ResetIq

LEMMA StopMotorAgrees ==
  ASSUME NEW c, c \in Context, NEW motor
  PROVE  Agree(c, StopMotor(c, motor)) /\ StopMotor(c, motor) \in Context
BY DEF Agree, Context, StopMotor

LEMMA AlternateKeepsPair ==
  ASSUME NEW c, c \in Context, Paired(c)
  PROVE  /\ Paired(Alternate(c)) /\ Alternate(c).scenario = c.scenario
         /\ Alternate(c).state = c.state
BY DEF Paired, Context, Alternate

\* The context that a failed operation leaves is its own.
LEMMA ResetStage ==
  ASSUME NEW c, GoodContext(c), NEW p \in StrategyReset(c)
  PROVE  /\ p.rc = "OK" /\ NoIq(p.ctx)
         /\ c.current \in TwoMotorStrategy => Unpaired(p.ctx)
<1> DEFINE r == ResetMotors(c)
<1>1. NoIq(ResetIq(c)) /\ ResetIq(c) \in Context
  BY ResetIqType DEF GoodContext
<1>2. NoIq(r) /\ r \in Context
  BY <1>1 DEF ResetMotors, LoadScenario, Context, NoIq
<1> HIDE DEF r
<1>3. /\ p.rc = "OK"
      /\ p.ctx = IF c.current \in TwoMotorStrategy
                 THEN [r EXCEPT !.dynamic = NULL, !.static = NULL] ELSE r
  BY DEF StrategyReset, Outcome, r
<1> QED
  BY <1>2, <1>3 DEF Unpaired, NoIq, Context

LEMMA PairMotorsPairs ==
  ASSUME NEW c, c \in Context, Unpaired(c) \/ Paired(c)
  PROVE  /\ Paired(PairMotors(c))
         /\ PairMotors(c).iq = c.iq /\ PairMotors(c).state = c.state
BY DEF Unpaired, Paired, Context, PairMotors, FirstMotor, SecondMotor, NULL

LEMMA PrepareStage ==
  ASSUME NEW c, GoodContext(c), c.current \in TwoMotorStrategy => Unpaired(c) \/ Paired(c),
         NEW p \in StrategyPrepare(c)
  PROVE  /\ p.ctx.iq = c.iq /\ p.ctx.state = c.state
         /\ c.current \in TwoMotorStrategy =>
              \/ p.rc = "ERROR" /\ p.ctx = c
              \/ Paired(p.ctx)
<1>1. CASE c.current \notin TwoMotorStrategy \/ NumMotors # 2
  BY <1>1 DEF StrategyPrepare, InterlacedPrepare, Outcome
<1>2. CASE c.current \in TwoMotorStrategy /\ NumMotors = 2
  <2> DEFINE d == PairMotors(c)
  <2>1. Paired(d) /\ d.iq = c.iq /\ d.state = c.state /\ d \in Context
    BY <1>2, PairMotorsPairs, PairMotorsType DEF GoodContext
  <2>2. p.ctx \in {d, Alternate(d)}
    BY <1>2 DEF StrategyPrepare, InterlacedPrepare, Outcome
  <2> HIDE DEF d
  <2>3. Paired(Alternate(d)) /\ Alternate(d).iq = d.iq /\ Alternate(d).state = d.state
    BY <2>1, AlternateKeepsPair DEF Alternate, Context
  <2> QED
    BY <2>1, <2>2, <2>3
<1> QED
  BY <1>1, <1>2

LEMMA StartupStage ==
  ASSUME NEW c, GoodContext(c), c.current \in TwoMotorStrategy => Paired(c),
         NEW p \in StrategyStartup(c)
  PROVE  /\ p.ctx.state = c.state
         /\ c.current \in TwoMotorStrategy => Paired(p.ctx)
<1> DEFINE held == Drive(c, {c.static})
           both == Drive(held, {c.dynamic})
<1> USE DEF TwoMotorStrategy, INTERLACED, IDENTIFICATION, STOP
<1>1. CASE c.current \in TwoMotorStrategy
  <2>1. p.ctx \in {held, both, Alternate(both)}
    BY <1>1 DEF StrategyStartup, InterlacedStartup, Outcome
  <2>2. Paired(held) /\ held \in Context /\ held.state = c.state
    BY <1>1, DriveAgrees DEF GoodContext, Agree, Paired
  <2> HIDE DEF held
  <2>3. Paired(both) /\ both \in Context /\ both.state = c.state
    BY <2>2, DriveAgrees DEF Agree, Paired
  <2> HIDE DEF both
  <2> QED
    BY <2>1, <2>2, <2>3, AlternateKeepsPair
<1>2. CASE c.current \notin TwoMotorStrategy
  <2>1. p.ctx = Drive(c, Motor)
    BY <1>2 DEF StrategyStartup, StopStartup, GenericStartup, Outcome
  <2> QED
    BY <1>2, <2>1, DriveAgrees DEF GoodContext
<1> QED
  BY <1>1, <1>2

LEMMA InitStage ==
  ASSUME NEW c, GoodContext(c), NEW p \in StrategyInit(c)
  PROVE  /\ p.ctx.iq = c.iq /\ p.ctx.dynamic = c.dynamic /\ p.ctx.static = c.static
         /\ c.current = SYNCHRONIZED => \A m \in Motor : p.ctx.scenario[m] = "synchronized"
         /\ c.current = INTERLACED => \A m \in Motor : p.ctx.scenario[m] = "interlaced"
         /\ c.current = IDENTIFICATION => Identified(p.ctx)
<1>1. c \in Context /\ c.current \in Strategy
  BY DEF GoodContext, Context
<1> USE DEF SYNCHRONIZED, FOLLOW, HOLD_INDEX, INTERLACED, STOP, IDENTIFICATION
<1>2. ASSUME NEW s
      PROVE  LET d == LoadScenario(c, s)
             IN  /\ d.iq = c.iq /\ d.dynamic = c.dynamic /\ d.static = c.static
                 /\ \A m \in Motor : d.scenario[m] = s
  BY <1>1 DEF LoadScenario, Context
<1>3. CASE c.current = SYNCHRONIZED
  <2>1. p.ctx = LoadScenario(c, "synchronized")
    BY <1>3 DEF StrategyInit, Outcome
  <2> QED
    BY <1>2, <1>3, <2>1
<1>4. CASE c.current = INTERLACED
  <2>1. p.ctx = LoadScenario(c, "interlaced")
    BY <1>4 DEF StrategyInit, Outcome
  <2> QED
    BY <1>2, <1>4, <2>1
<1>5. CASE c.current = IDENTIFICATION
  <2> DEFINE d == LoadScenario(c, "interlaced")
  <2>1. p.ctx = [d EXCEPT !.id_state = "ACCELERATING", !.id_i = 0, !.id_motor = 0]
    BY <1>5 DEF StrategyInit, IdentificationInit, Outcome
  <2>2. d \in Context /\ d.iq = c.iq /\ d.dynamic = c.dynamic /\ d.static = c.static
    BY <1>2, LoadScenarioType DEF GoodContext
  <2> HIDE DEF d
  <2>3. /\ p.ctx.id_state = "ACCELERATING" /\ p.ctx.id_i = 0 /\ p.ctx.id_motor = 0
        /\ p.ctx.iq = d.iq /\ p.ctx.dynamic = d.dynamic /\ p.ctx.static = d.static
    BY <2>1, <2>2 DEF Context
  <2> QED
    BY <1>5, <2>2, <2>3, IdStepsAssumption DEF Identified
<1>6. CASE c.current \in {FOLLOW, HOLD_INDEX, STOP}
  <2>1. p.ctx = c
    BY <1>6 DEF StrategyInit, FollowInit, Outcome
  <2> QED
    BY <1>6, <2>1
<1> QED
  BY <1>1, <1>3, <1>4, <1>5, <1>6 DEF Strategy

\* A loop that walks blocks changes the places of the motors at most.
LEMMA InterlacedLoopStage ==
  ASSUME NEW c, c \in Context, Paired(c), NEW p \in InterlacedLoop(c)
  PROVE  Paired(p.ctx) /\ p.ctx.scenario = c.scenario
<1> DEFINE both == Drive(c, {c.dynamic, c.static})
<1>1. p.ctx \in {c, both, Alternate(both)}
  BY DEF InterlacedLoop, Outcome
<1>2. Paired(both) /\ both \in Context /\ both.scenario = c.scenario
  BY DriveAgrees DEF Agree, Paired
<1> HIDE DEF both
<1> QED
  BY <1>1, <1>2, AlternateKeepsPair

\* The end of a step: the motor that was measured is entered, and becomes the
\* static one.
LEMMA NextStepStage ==
  ASSUME NEW c, c \in Context, c.id_state = "STOPPING", Paired(c), Identified(c)
  PROVE  Paired(NextStep(c)) /\ Identified(NextStep(c))
<1>1. /\ c.id_i \in 0..IdSteps /\ c.id_motor \in {0, 1}
      /\ c.id \in [{0, 1} -> Motor \cup {NULL}]
      /\ c.id_motor = 1 => c.id[0] = c.static
  BY DEF Context, IdMotors, Identified
<1>2. CASE c.id_i + 1 < IdSteps
  <2>1. NextStep(c) = [c EXCEPT !.id_i = @ + 1, !.id_state = "ACCELERATING"]
    BY <1>2 DEF NextStep
  <2>2. /\ NextStep(c).dynamic = c.dynamic /\ NextStep(c).static = c.static
        /\ NextStep(c).id = c.id /\ NextStep(c).id_motor = c.id_motor
        /\ NextStep(c).id_i = c.id_i + 1 /\ NextStep(c).id_state = "ACCELERATING"
    BY <2>1 DEF Context
  <2> QED
    BY <1>1, <1>2, <2>2 DEF Paired, Identified
<1>3. CASE ~(c.id_i + 1 < IdSteps)
  <2> DEFINE t == [c.id EXCEPT ![c.id_motor] = c.dynamic]
             i == IF c.id_motor = 0 THEN 0 ELSE IdSteps
             s == IF c.id_motor = 0 THEN "ACCELERATING" ELSE "DONE"
  <2>1. NextStep(c) = [c EXCEPT !.dynamic = c.static, !.static = c.dynamic, !.id = t,
                                !.id_i = i, !.id_motor = c.id_motor + 1, !.id_state = s]
    <3> DEFINE d == Alternate(c)
    <3>1. NextStep(c) = [d EXCEPT !.id = t, !.id_i = i, !.id_motor = c.id_motor + 1,
                                  !.id_state = s]
      <4>1. d.id = c.id /\ d.id_motor = c.id_motor
        BY DEF Alternate, Context
      <4>2. CASE c.id_motor = 0
        BY <1>1, <1>3, <4>1, <4>2 DEF NextStep, IdMotors
      <4>3. CASE c.id_motor = 1
        BY <1>1, <1>3, <4>1, <4>3 DEF NextStep, IdMotors
      <4> QED
        BY <1>1, <4>2, <4>3
    <3> QED
      BY <3>1 DEF Alternate, Context
  <2>2. /\ t[c.id_motor] = c.dynamic
        /\ c.id_motor = 1 => t[0] = c.static
    BY <1>1
  <2> HIDE DEF t, i, s
  <2>3. /\ NextStep(c).dynamic = c.static /\ NextStep(c).static = c.dynamic
        /\ NextStep(c).id = t /\ NextStep(c).id_i = i
        /\ NextStep(c).id_motor = c.id_motor + 1 /\ NextStep(c).id_state = s
    BY <2>1 DEF Context
  <2>4. CASE c.id_motor = 0
    BY <2>2, <2>3, <2>4, IdStepsAssumption DEF Paired, Identified, i, s
  <2>5. CASE c.id_motor = 1
    BY <2>2, <2>3, <2>5 DEF Paired, Identified, s
  <2> QED
    BY <1>1, <2>4, <2>5
<1> QED
  BY <1>2, <1>3

LEMMA IdentificationLoopStage ==
  ASSUME NEW c, c \in Context, Paired(c), Identified(c), NEW p \in IdentificationLoop(c)
  PROVE  Paired(p.ctx) /\ Identified(p.ctx)
<1> DEFINE both == Drive(c, {c.dynamic, c.static})
           held == Drive(c, {c.static})
           free == StopMotor(held, c.dynamic)
<1>1. Agree(c, both) /\ both \in Context
  BY DriveAgrees
<1>2. Agree(c, held) /\ held \in Context
  BY DriveAgrees
<1> HIDE DEF held
<1>3. Agree(c, free) /\ free \in Context
  BY <1>2, StopMotorAgrees DEF Agree
<1>4. c.id_state \in IdState
  BY DEF Context
<1>5. ASSUME NEW d, d \in Context, Agree(c, d)
      PROVE  Paired(d) /\ Identified(d)
  BY <1>5 DEF Agree, Paired, Identified
<1>6. ASSUME NEW d, d \in Context, Agree(c, d), NEW s \in {"COASTING", "STOPPING"},
             c.id_state # "DONE"
      PROVE  Paired([d EXCEPT !.id_state = s]) /\ Identified([d EXCEPT !.id_state = s])
  BY <1>6 DEF Agree, Paired, Identified, Context
<1> HIDE DEF both, free
<1>7. CASE c.id_state = "ACCELERATING"
  <2>1. p.ctx \in {both, [both EXCEPT !.id_state = "COASTING"]}
    BY <1>7 DEF IdentificationLoop, Outcome, both
  <2> QED
    BY <1>1, <1>5, <1>6, <1>7, <2>1
<1>8. CASE c.id_state = "COASTING"
  <2>1. p.ctx \in {free, [free EXCEPT !.id_state = "STOPPING"]}
    BY <1>8 DEF IdentificationLoop, Outcome, free, held
  <2> QED
    BY <1>3, <1>5, <1>6, <1>8, <2>1
<1>9. CASE c.id_state = "STOPPING"
  <2>1. p.ctx \in {both, NextStep(both)}
    BY <1>9 DEF IdentificationLoop, Outcome, both
  <2>2. Paired(both) /\ Identified(both) /\ both.id_state = "STOPPING"
    BY <1>1, <1>5, <1>9 DEF Agree
  <2> QED
    BY <1>1, <2>1, <2>2, NextStepStage
<1>10. CASE c.id_state = "DONE"
  <2>1. p.ctx = ResetIq(c)
    BY <1>10 DEF IdentificationLoop, Outcome
  <2> QED
    BY <1>5, <2>1, ResetIqAgrees
<1> QED
  BY <1>4, <1>7, <1>8, <1>9, <1>10 DEF IdState

LEMMA LoopStage ==
  ASSUME NEW c, GoodContext(c), Prepared(c), c.state = "CONTROL", NEW p \in StrategyLoop(c)
  PROVE  /\ c.current \in TwoMotorStrategy => Paired(p.ctx)
         /\ c.current = SYNCHRONIZED => \A m \in Motor : p.ctx.scenario[m] = "synchronized"
         /\ c.current = INTERLACED => \A m \in Motor : p.ctx.scenario[m] = "interlaced"
         /\ c.current = IDENTIFICATION => Identified(p.ctx)
<1>1. c \in Context
  BY DEF GoodContext
<1> USE DEF SYNCHRONIZED, FOLLOW, HOLD_INDEX, INTERLACED, STOP, IDENTIFICATION,
            TwoMotorStrategy
<1>2. CASE c.current = SYNCHRONIZED
  <2>1. p.ctx \in {c, Drive(c, Motor)}
    BY <1>2 DEF StrategyLoop, SynchronizedLoop, Outcome
  <2>2. Drive(c, Motor).scenario = c.scenario
    BY <1>1, DriveAgrees DEF Agree
  <2> QED
    BY <1>2, <2>1, <2>2 DEF Prepared, Loaded
<1>3. CASE c.current = INTERLACED
  <2>1. p \in InterlacedLoop(c)
    BY <1>3 DEF StrategyLoop
  <2> QED
    BY <1>1, <1>3, <2>1, InterlacedLoopStage DEF Prepared, PairedSoFar, Loaded
<1>4. CASE c.current = IDENTIFICATION
  <2>1. p \in IdentificationLoop(c)
    BY <1>4 DEF StrategyLoop
  <2> QED
    BY <1>1, <1>4, <2>1, IdentificationLoopStage DEF Prepared, PairedSoFar, Identifying
<1> QED
  BY <1>2, <1>3, <1>4

\* Only PREPARE and STARTUP wait.
LEMMA InitAndLoopNeverWait ==
  ASSUME NEW c, GoodContext(c), NEW p \in StrategyInit(c) \cup StrategyLoop(c)
  PROVE  p.rc # "WAIT"
<1>1. c.current \in Strategy /\ c.id_state \in IdState
  BY DEF GoodContext, Context
<1> USE DEF SYNCHRONIZED, FOLLOW, HOLD_INDEX, INTERLACED, STOP, IDENTIFICATION
<1>2. CASE p \in StrategyInit(c)
  BY <1>1, <1>2 DEF StrategyInit, FollowInit, IdentificationInit, Outcome, Strategy
<1>3. CASE p \in StrategyLoop(c)
  <2>1. CASE c.current = IDENTIFICATION
    <3>1. p \in IdentificationLoop(c)
      BY <1>3, <2>1 DEF StrategyLoop
    <3> QED
      BY <1>1, <3>1 DEF IdentificationLoop, IdState, Outcome
  <2>2. CASE c.current # IDENTIFICATION
    <3>1. p \in SynchronizedLoop(c) \cup FollowLoop(c) \cup HoldIndexLoop(c)
                  \cup InterlacedLoop(c) \cup StopLoop(c)
      BY <1>1, <1>3, <2>2 DEF StrategyLoop, Strategy
    <3> QED
      BY <3>1 DEF SynchronizedLoop, FollowLoop, HoldIndexLoop, InterlacedLoop, StopLoop, Outcome
  <2> QED
    BY <2>1, <2>2
<1> QED
  BY <1>2, <1>3

\* A run of the state machine prepares what the next stage needs, and computes
\* currents in two stages only.
LEMMA StageRuns ==
  ASSUME NEW c, GoodContext(c), Prepared(c), NoIq(c), NEW o \in StateMachine(c)
  PROVE  /\ Prepared(o.ctx)
         /\ o.ctx.state \in {c.state, After(c.state)}
         /\ ~NoIq(o.ctx) => c.state \in {"STARTUP", "CONTROL"}
<1>1. /\ c.state \in StrategyState /\ c.current \in Strategy
  BY DEF GoodContext, Context
<1>2. PICK p \in Operation(c) :
        o = Outcome(p.rc, IF p.rc = "OK" THEN [p.ctx EXCEPT !.state = After(c.state)]
                          ELSE p.ctx)
  BY DEF StateMachine
<1>3. /\ p.ctx \in Context /\ p.ctx.current = c.current
      /\ p.rc \in {"OK", "WAIT", "ERROR"} /\ (p.rc = "ERROR" => p.ctx = c)
  BY OperationOutcome DEF GoodOutcome, GoodContext
<1> DEFINE s == After(c.state)
           x == p.ctx
           n == [x EXCEPT !.state = s]
<1>4. o.ctx = IF p.rc = "OK" THEN n ELSE x
  BY <1>2 DEF Outcome
<1>5. /\ Agree(x, n) /\ n.current = x.current /\ n.iq = x.iq /\ n.state = s
  BY <1>3 DEF Agree, Context
<1> HIDE DEF n, x
<1>6. CASE p.rc = "ERROR"
  BY <1>3, <1>4, <1>6 DEF x
<1>7. /\ Paired(n) <=> Paired(x)
      /\ Unpaired(n) <=> Unpaired(x)
      /\ Identified(n) <=> Identified(x)
      /\ NoIq(n) <=> NoIq(x)
      /\ n.scenario = x.scenario
  BY <1>5 DEF Agree, Paired, Unpaired, Identified, NoIq
<1>8. CASE c.state = "RESET"
  <2>1. p \in StrategyReset(c) /\ s = "PREPARE"
    BY <1>8 DEF Operation, After
  <2>2. p.rc = "OK" /\ NoIq(x) /\ (c.current \in TwoMotorStrategy => Unpaired(x))
    BY <2>1, ResetStage DEF x
  <2> QED
    BY <1>3, <1>4, <1>5, <1>7, <2>1, <2>2 DEF Prepared, PairedSoFar, Loaded, Identifying, x
<1>9. CASE c.state = "PREPARE" /\ p.rc # "ERROR"
  <2>1. p \in StrategyPrepare(c) /\ s = "STARTUP"
    BY <1>9 DEF Operation, After
  <2>2. x.iq = c.iq /\ x.state = "PREPARE" /\ (c.current \in TwoMotorStrategy => Paired(x))
    BY <1>9, <2>1, PrepareStage DEF Prepared, PairedSoFar, x
  <2> QED
    BY <1>3, <1>4, <1>5, <1>7, <1>9, <2>1, <2>2
    DEF Prepared, PairedSoFar, Loaded, Identifying, NoIq, x
<1>10. CASE c.state = "STARTUP"
  <2>1. p \in StrategyStartup(c) /\ s = "INIT"
    BY <1>10 DEF Operation, After
  <2>2. x.state = "STARTUP" /\ (c.current \in TwoMotorStrategy => Paired(x))
    BY <1>10, <2>1, StartupStage DEF Prepared, PairedSoFar, x
  <2> QED
    BY <1>3, <1>4, <1>5, <1>7, <1>10, <2>1, <2>2
    DEF Prepared, PairedSoFar, Loaded, Identifying, x
<1>11. CASE c.state = "INIT" /\ p.rc # "ERROR"
  <2>1. p \in StrategyInit(c) /\ s = "CONTROL"
    BY <1>11 DEF Operation, After
  <2>2. p.rc = "OK"
    BY <1>3, <1>11, <2>1, InitAndLoopNeverWait
  <2>3. /\ x.iq = c.iq /\ x.dynamic = c.dynamic /\ x.static = c.static
        /\ c.current = SYNCHRONIZED => \A m \in Motor : x.scenario[m] = "synchronized"
        /\ c.current = INTERLACED => \A m \in Motor : x.scenario[m] = "interlaced"
        /\ c.current = IDENTIFICATION => Identified(x)
    BY <2>1, InitStage DEF x
  <2>4. c.current \in TwoMotorStrategy => Paired(x)
    BY <1>11, <2>3 DEF Prepared, PairedSoFar, Paired
  <2> QED
    BY <1>3, <1>4, <1>5, <1>7, <1>11, <2>1, <2>2, <2>3, <2>4
    DEF Prepared, PairedSoFar, Loaded, Identifying, NoIq, x
<1>12. CASE c.state = "CONTROL" /\ p.rc # "ERROR"
  <2>1. p \in StrategyLoop(c) /\ s = "CONTROL"
    BY <1>12 DEF Operation, After
  <2>2. p.rc = "OK"
    BY <1>3, <1>12, <2>1, InitAndLoopNeverWait
  <2>3. /\ c.current \in TwoMotorStrategy => Paired(x)
        /\ c.current = SYNCHRONIZED => \A m \in Motor : x.scenario[m] = "synchronized"
        /\ c.current = INTERLACED => \A m \in Motor : x.scenario[m] = "interlaced"
        /\ c.current = IDENTIFICATION => Identified(x)
    BY <1>12, <2>1, LoopStage DEF x
  <2> QED
    BY <1>3, <1>4, <1>5, <1>7, <1>12, <2>1, <2>2, <2>3
    DEF Prepared, PairedSoFar, Loaded, Identifying, x
<1> QED
  BY <1>1, <1>6, <1>8, <1>9, <1>10, <1>11, <1>12 DEF StrategyState

-----------------------------------------------------------------------------
(* The controller                                                          *)

LEMMA ResetIsPrepared ==
  ASSUME NEW c, c.state = "RESET"
  PROVE  Prepared(c)
BY DEF Prepared, PairedSoFar, Loaded, Identifying

\* The beginning of a cycle, and a command, leave the stage alone or go back to
\* RESET.
LEMMA AtStartPrepared ==
  ASSUME StagesInv
  PROVE  /\ Prepared(StrategyAtStart)
         /\ \/ StrategyAtStart.state = "RESET"
            \/ /\ StrategyAtStart.state = strategy.state
               /\ StrategyAtStart.current = strategy.current
<1> DEFINE c == ResetIq(strategy)
<1>1. /\ Agree(strategy, c) /\ c \in Context
      /\ c.current = strategy.current /\ c.state = strategy.state
  BY ResetIqAgrees DEF StagesInv, ControllerInv, GoodContext
<1> HIDE DEF c
<1>2. Prepared(c)
  BY <1>1 DEF StagesInv, Agree, Prepared, PairedSoFar, Loaded, Identifying, Paired, Unpaired,
              Identified
<1>3. NextStrategy(c).state = "RESET"
  BY <1>1 DEF NextStrategy, Context
<1>4. StrategyAtStart \in {c, NextStrategy(c)}
  BY DEF StrategyAtStart, c
<1> QED
  BY <1>1, <1>2, <1>3, <1>4, ResetIsPrepared

LEMMA CommandPrepared ==
  ASSUME StagesInv, NEW c \in Commanded
  PROVE  /\ GoodContext(c) /\ NoIq(c) /\ Prepared(c)
         /\ \/ c.state = "RESET"
            \/ c.state = strategy.state /\ c.current = strategy.current
<1> DEFINE s == StrategyAtStart
<1>1. GoodContext(s) /\ NoIq(s)
  BY AtStart DEF StagesInv
<1>2. /\ Prepared(s)
      /\ s.state = "RESET" \/ (s.state = strategy.state /\ s.current = strategy.current)
  BY AtStartPrepared
<1> HIDE DEF s
<1>3. /\ GoodContext(SetStrategy(s, STOP)) /\ SetStrategy(s, STOP).iq = s.iq
      /\ GoodContext(PreviousStrategy(s)) /\ PreviousStrategy(s).iq = s.iq
  BY <1>1, StrategyCalls
<1>4. /\ SetStrategy(s, STOP) = s \/ SetStrategy(s, STOP).state = "RESET"
      /\ PreviousStrategy(s).state = "RESET"
  BY <1>1 DEF GoodContext, Context, SetStrategy, PreviousStrategy
<1>5. c \in {s, SetStrategy(s, STOP), PreviousStrategy(s)}
  BY DEF Commanded, s
<1> QED
  BY <1>1, <1>2, <1>3, <1>4, <1>5, ResetIsPrepared DEF NoIq

\* The history of operations grows by the stage that is run.
LEMMA StagesRunGrows ==
  ASSUME NEW s \in StrategyState, NEW t \in {s, After(s)}, NEW r, StagesRun(s, r)
  PROVE  /\ StagesRun(t, r \cup {s})
         /\ s \in {"STARTUP", "CONTROL"} => {"RESET", "PREPARE"} \subseteq r
BY DEF StagesRun, StrategyState, After

LEMMA RunStrategyStages ==
  ASSUME StagesInv, NEW heard, RunStrategy(heard)
  PROVE  Prepared(strategy') /\ RunsFromReset'
<1>1. PICK c \in Commanded : ClientCommand(c) /\
        \E o \in StateMachine(c) :
          /\ strategy' = o.ctx
          /\ state' = IF o.rc = "ERROR" THEN "STANDBY" ELSE "CONTROL"
          /\ ran' = IF o.rc = "ERROR" THEN {}
                    ELSE IF c.current # strategy.current THEN {c.state}
                    ELSE ran \cup {c.state}
  BY DEF RunStrategy
<1>2. PICK o \in StateMachine(c) :
        /\ strategy' = o.ctx
        /\ state' = IF o.rc = "ERROR" THEN "STANDBY" ELSE "CONTROL"
        /\ ran' = IF o.rc = "ERROR" THEN {}
                  ELSE IF c.current # strategy.current THEN {c.state}
                  ELSE ran \cup {c.state}
  BY <1>1
<1>3. /\ GoodContext(c) /\ NoIq(c) /\ Prepared(c)
      /\ c.state = "RESET" \/ (c.state = strategy.state /\ c.current = strategy.current)
  BY CommandPrepared
<1>4. /\ Prepared(o.ctx) /\ o.ctx.state \in {c.state, After(c.state)}
      /\ ~NoIq(o.ctx) => c.state \in {"STARTUP", "CONTROL"}
  BY <1>3, StageRuns
<1>5. CASE o.rc = "ERROR"
  BY <1>2, <1>4, <1>5 DEF RunsFromReset
<1>6. CASE o.rc # "ERROR"
  <2> DEFINE r == IF c.current # strategy.current THEN {} ELSE ran
  <2>1. ran' = r \cup {c.state} /\ state' = "CONTROL"
    BY <1>2, <1>6
  <2>2. StagesRun(c.state, r)
    <3>1. StagesRun(strategy.state, ran)
      BY DEF StagesInv, RunsFromReset, RunStrategy
    <3> QED
      BY <1>3, <3>1 DEF StagesRun
  <2> HIDE DEF r
  <2>3. c.state \in StrategyState
    BY <1>3 DEF GoodContext, Context
  <2>4. StagesRun(o.ctx.state, ran') /\ (~NoIq(o.ctx) => {"RESET", "PREPARE"} \subseteq ran')
    BY <1>4, <2>1, <2>2, <2>3, StagesRunGrows
  <2> QED
    BY <1>2, <1>4, <2>1, <2>4 DEF RunsFromReset, NoIq
<1> QED
  BY <1>5, <1>6

\* The other cycles request nothing, and begin with RESET if they begin at all.
LEMMA OtherCyclesStages ==
  ASSUME StagesInv, NEW heard,
         \/ LoseDevice(heard) \/ StillMissing(heard) \/ DelayRestart(heard)
         \/ Restart(heard) \/ StandbyCycle(heard)
  PROVE  Prepared(strategy') /\ RunsFromReset'
<1> DEFINE s == StrategyAtStart
           c == ResetIq(strategy)
<1>1. Prepared(s)
  BY AtStartPrepared
<1>2. LET r == ResetStrategy(s) IN r.state = "RESET" /\ NoIq(r)
  BY AtStart, AtStartReset DEF StagesInv, ResetStrategy, GoodContext, Context
<1>3. GoodContext(c) /\ NoIq(c) /\ Prepared(c)
  <2>1. Agree(strategy, c) /\ c.current = strategy.current /\ c.state = strategy.state
    BY ResetIqAgrees DEF StagesInv, ControllerInv, GoodContext
  <2>2. GoodContext(c) /\ NoIq(c)
    BY ResetIqType DEF StagesInv, ControllerInv
  <2> HIDE DEF c
  <2> QED
    BY <2>1, <2>2 DEF StagesInv, Agree, Prepared, PairedSoFar, Loaded, Identifying, Paired,
                      Unpaired, Identified
<1>4. LET r == ResetStrategy(c) IN r.state = "RESET" /\ NoIq(r)
  BY <1>3 DEF ResetStrategy, GoodContext, Context, NoIq
<1>5. ASSUME NEW r, r.state = "RESET", NoIq(r), strategy' = r, ran' = {}
      PROVE  Prepared(strategy') /\ RunsFromReset'
  BY <1>5, ResetIsPrepared DEF RunsFromReset, StagesRun, NoIq
<1> HIDE DEF s, c
<1>6. state # "CONTROL" => ran = {}
  BY DEF StagesInv, RunsFromReset
<1>7. CASE LoseDevice(heard)
  BY <1>1, <1>7 DEF LoseDevice, Interrupted, RunsFromReset, s
<1>8. CASE StillMissing(heard) \/ DelayRestart(heard)
  BY <1>1, <1>6, <1>8 DEF StillMissing, DelayRestart, RunsFromReset, s
<1>9. CASE Restart(heard)
  BY <1>2, <1>5, <1>6, <1>9 DEF Restart, s
<1>10. CASE StandbyCycle(heard) /\ button
  BY <1>4, <1>5, <1>6, <1>10 DEF StandbyCycle, c
<1>11. CASE StandbyCycle(heard) /\ ~button
  BY <1>3, <1>6, <1>11 DEF StandbyCycle, RunsFromReset, c
<1> QED
  BY <1>7, <1>8, <1>9, <1>10, <1>11

LEMMA StagesStep ==
  ASSUME StagesInv, [ControllerNext]_controllerVars
  PROVE  StagesInv'
<1>1. ControllerInv'
  BY ControllerStepInv DEF StagesInv
<1>2. CASE \E heard \in SUBSET Device : ControllerLoop(heard)
  <2>1. Prepared(strategy') /\ RunsFromReset'
    BY <1>2, RunStrategyStages, OtherCyclesStages DEF ControllerLoop
  <2> QED
    BY <1>1, <2>1 DEF StagesInv, Prepared, PairedSoFar, Loaded, Identifying, Paired, Unpaired,
                      Identified
<1>3. CASE PressButton \/ ClientMessage \/ UNCHANGED controllerVars
  <2>1. UNCHANGED <<state, strategy, ran>>
    BY <1>3 DEF PressButton, ClientMessage, controllerVars
  <2> QED
    BY <1>1, <2>1 DEF StagesInv, RunsFromReset, NoIq, Prepared, PairedSoFar, Loaded,
                      Identifying, Paired, Unpaired, Identified
<1> QED
  BY <1>2, <1>3 DEF ControllerNext

LEMMA StagesInit == ControllerInit => StagesInv
<1> SUFFICES ASSUME ControllerInit PROVE StagesInv
  OBVIOUS
<1>1. PICK first \in FirstStrategies : strategy = InitialContext(first)
  BY DEF ControllerInit
<1>2. strategy.state = "RESET" /\ NoIq(strategy)
  BY <1>1 DEF InitialContext, NoIq
<1>3. Prepared(strategy)
  BY <1>2, ResetIsPrepared
<1>4. RunsFromReset
  BY <1>2 DEF RunsFromReset, StagesRun, ControllerInit
<1> QED
  BY <1>3, <1>4, ControllerInitInv DEF StagesInv

-----------------------------------------------------------------------------
(* The strategy to come back to                                            *)

\* Only a controller configured to STOP comes back from STOP to STOP.
ComesBack(c) == c.current = STOP /\ c.old = STOP => STOP \in FirstStrategies

\* While the motors are stopped the interrupted strategy is remembered.
Remembered ==
  stopped => IF resume # STOP THEN strategy.old = resume
             ELSE strategy.old # STOP \/ STOP \in FirstStrategies

ResumeInv == ControllerInv /\ ComesBack(strategy) /\ Remembered

LEMMA HelpersKeepOld ==
  ASSUME NEW c, GoodContext(c)
  PROVE  /\ ResetIq(c).old = c.old /\ Alternate(c).old = c.old
         /\ \A motors : Drive(c, motors).old = c.old
         /\ \A motor : StopMotor(c, motor).old = c.old
         /\ \A s : LoadScenario(c, s).old = c.old
         /\ PairMotors(c).old = c.old
BY DEF GoodContext, Context, ResetIq, Alternate, Drive, StopMotor, LoadScenario, PairMotors

LEMMA ResetKeepsOld ==
  ASSUME NEW c, GoodContext(c), NEW p \in StrategyReset(c)
  PROVE  p.ctx.old = c.old
<1> DEFINE r == ResetMotors(c)
<1>1. GoodContext(r) /\ r.old = c.old
  BY ResetIqType, LoadScenarioType, HelpersKeepOld DEF ResetMotors
<1> HIDE DEF r
<1>2. p.ctx \in {r, [r EXCEPT !.dynamic = NULL, !.static = NULL]}
  BY DEF StrategyReset, Outcome, r
<1> QED
  BY <1>1, <1>2 DEF GoodContext, Context

LEMMA PrepareKeepsOld ==
  ASSUME NEW c, GoodContext(c), NEW p \in StrategyPrepare(c)
  PROVE  p.ctx.old = c.old
<1>1. CASE p.ctx = c
  BY <1>1
<1>2. CASE p.ctx # c
  <2>1. p.ctx \in {PairMotors(c), Alternate(PairMotors(c))} /\ NumMotors = 2
    BY <1>2 DEF StrategyPrepare, InterlacedPrepare, Outcome
  <2>2. GoodContext(PairMotors(c))
    BY <2>1, PairMotorsType
  <2> QED
    BY <2>1, <2>2, HelpersKeepOld
<1> QED
  BY <1>1, <1>2

LEMMA StartupKeepsOld ==
  ASSUME NEW c, GoodContext(c), NEW p \in StrategyStartup(c)
  PROVE  p.ctx.old = c.old
<1> DEFINE held == Drive(c, {c.static})
           both == Drive(held, {c.dynamic})
<1>1. p.ctx \in {held, both, Alternate(both), Drive(c, Motor)}
  BY DEF StrategyStartup, InterlacedStartup, StopStartup, GenericStartup, Outcome
<1>2. GoodContext(held) /\ held.old = c.old
  BY DriveType, HelpersKeepOld
<1> HIDE DEF held
<1>3. GoodContext(both) /\ both.old = c.old
  BY <1>2, DriveType, HelpersKeepOld
<1> HIDE DEF both
<1> QED
  BY <1>1, <1>2, <1>3, HelpersKeepOld

LEMMA InitKeepsOld ==
  ASSUME NEW c, GoodContext(c), NEW p \in StrategyInit(c)
  PROVE  p.ctx.old = c.old
<1> DEFINE d == LoadScenario(c, "interlaced")
<1>1. GoodContext(d) /\ d.old = c.old
  BY LoadScenarioType, HelpersKeepOld
<1>2. p.ctx \in {c, d, LoadScenario(c, "synchronized"),
                 [d EXCEPT !.id_state = "ACCELERATING", !.id_i = 0, !.id_motor = 0]}
  BY DEF StrategyInit, FollowInit, IdentificationInit, Outcome
<1>3. LoadScenario(c, "synchronized").old = c.old
  BY HelpersKeepOld
<1> HIDE DEF d
<1>4. [d EXCEPT !.id_state = "ACCELERATING", !.id_i = 0, !.id_motor = 0].old = d.old
  BY <1>1 DEF GoodContext, Context
<1> QED
  BY <1>1, <1>2, <1>3, <1>4

LEMMA NextStepKeepsOld ==
  ASSUME NEW c, GoodContext(c)
  PROVE  NextStep(c).old = c.old
BY DEF GoodContext, Context, NextStep, Alternate

LEMMA LoopKeepsOld ==
  ASSUME NEW c, GoodContext(c), NEW p \in StrategyLoop(c)
  PROVE  p.ctx.old = c.old
<1> DEFINE both == Drive(c, {c.dynamic, c.static})
           held == Drive(c, {c.static})
           free == StopMotor(held, c.dynamic)
<1>1. c.current \in Strategy /\ c.id_state \in IdState
  BY DEF GoodContext, Context
<1>2. GoodContext(both) /\ both.old = c.old
  BY DriveType, HelpersKeepOld
<1>3. GoodContext(held) /\ held.old = c.old
  BY DriveType, HelpersKeepOld
<1> HIDE DEF held
<1>4. GoodContext(free) /\ free.old = c.old
  BY <1>3, StopMotorType, HelpersKeepOld
<1> USE DEF SYNCHRONIZED, FOLLOW, HOLD_INDEX, INTERLACED, STOP, IDENTIFICATION
<1> HIDE DEF both, free
<1>5. CASE c.current # IDENTIFICATION
  <2>1. p.ctx \in {c, both, Alternate(both), ResetIq(c), Drive(c, Motor),
                   Drive(c, Motor \ {Master})}
    BY <1>1, <1>5 DEF StrategyLoop, Strategy, SynchronizedLoop, FollowLoop, HoldIndexLoop,
                      InterlacedLoop, StopLoop, Outcome, both
  <2> QED
    BY <1>2, <2>1, HelpersKeepOld
<1>6. CASE c.current = IDENTIFICATION
  <2>1. p \in IdentificationLoop(c)
    BY <1>6 DEF StrategyLoop
  <2>2. p.ctx \in {both, free, [both EXCEPT !.id_state = "COASTING"],
                   [free EXCEPT !.id_state = "STOPPING"], NextStep(both), ResetIq(c)}
    BY <1>1, <2>1 DEF IdentificationLoop, IdState, Outcome, both, free, held
  <2>3. /\ [both EXCEPT !.id_state = "COASTING"].old = both.old
        /\ [free EXCEPT !.id_state = "STOPPING"].old = free.old
    BY <1>2, <1>4 DEF GoodContext, Context
  <2>4. NextStep(both).old = c.old
    BY <1>2, NextStepKeepsOld
  <2>5. ResetIq(c).old = c.old
    BY HelpersKeepOld
  <2> QED
    BY <1>2, <1>4, <2>2, <2>3, <2>4, <2>5
<1> QED
  BY <1>5, <1>6

LEMMA StateMachineKeepsOld ==
  ASSUME NEW c, GoodContext(c), NEW o \in StateMachine(c)
  PROVE  o.ctx.old = c.old
<1>1. c.state \in StrategyState
  BY DEF GoodContext, Context
<1>2. PICK p \in Operation(c) :
        o = Outcome(p.rc, IF p.rc = "OK" THEN [p.ctx EXCEPT !.state = After(c.state)]
                          ELSE p.ctx)
  BY DEF StateMachine
<1>3. p \in StrategyReset(c) \cup StrategyPrepare(c) \cup StrategyStartup(c)
            \cup StrategyInit(c) \cup StrategyLoop(c)
  BY <1>1 DEF Operation, StrategyState
<1>4. p.ctx.old = c.old
  BY <1>3, ResetKeepsOld, PrepareKeepsOld, StartupKeepsOld, InitKeepsOld, LoopKeepsOld
<1>5. p.ctx \in Context
  BY OperationOutcome DEF GoodOutcome, GoodContext
<1> QED
  BY <1>2, <1>4, <1>5 DEF Outcome, Context

\* The beginning of a cycle forgets what to come back to only when the button
\* chooses another strategy, which a stopped controller does not allow.
LEMMA AtStartComesBack ==
  ASSUME ResumeInv
  PROVE  /\ ComesBack(StrategyAtStart)
         /\ stopped => StrategyAtStart.old = strategy.old
<1> DEFINE c == ResetIq(strategy)
<1>1. /\ c.old = strategy.old /\ c.current = strategy.current /\ c \in Context
  BY ResetIqType, HelpersKeepOld DEF ResumeInv, ControllerInv, GoodContext
<1> HIDE DEF c
<1>2. ComesBack(c)
  BY <1>1 DEF ResumeInv, ComesBack
<1>3. ComesBack(NextStrategy(c))
  <2>1. NextStrategy(c).old = c.current /\ NextStrategy(c).current = (c.current + 1) % 6
    BY <1>1 DEF NextStrategy, Context
  <2> QED
    BY <2>1 DEF ComesBack, STOP
<1>4. StrategyAtStart = IF button /\ ~stopped THEN NextStrategy(c) ELSE c
  BY DEF StrategyAtStart, c
<1> QED
  BY <1>1, <1>2, <1>3, <1>4

\* A cycle that runs the strategy, with or without a command.
LEMMA RunStrategyResumes ==
  ASSUME ResumeInv, NEW heard, RunStrategy(heard)
  PROVE  /\ ComesBack(strategy') /\ Remembered'
         /\ stopped /\ ~stopped' =>
              IF resume # STOP THEN strategy'.current = resume
              ELSE strategy'.current # STOP \/ STOP \in FirstStrategies
<1> DEFINE s == StrategyAtStart
<1>1. PICK c \in Commanded : ClientCommand(c) /\ \E o \in StateMachine(c) : strategy' = o.ctx
  BY DEF RunStrategy
<1>2. PICK o \in StateMachine(c) : strategy' = o.ctx
  BY <1>1
<1>3. /\ GoodContext(s) /\ (stopped => s.current = STOP)
      /\ ComesBack(s) /\ (stopped => s.old = strategy.old)
  BY AtStart, AtStartComesBack DEF ResumeInv
<1>4. c \in {s, SetStrategy(s, STOP), PreviousStrategy(s)}
  BY DEF Commanded
<1>5. GoodContext(c)
  BY <1>3, <1>4, StrategyCalls
<1>6. strategy'.current = c.current /\ strategy'.old = c.old
  BY <1>2, <1>5, StateMachineOutcome, StateMachineKeepsOld DEF GoodOutcome
<1>7. SetStrategy(s, STOP).current = STOP
      /\ SetStrategy(s, STOP).old = IF s.current = STOP THEN s.old ELSE s.current
  BY <1>3 DEF SetStrategy, GoodContext, Context
<1>8. PreviousStrategy(s).current = s.old /\ PreviousStrategy(s).old = s.current
  BY <1>3 DEF PreviousStrategy, GoodContext, Context
<1>9. \/ c = SetStrategy(s, STOP) /\ stopped' /\ resume' = s.current
      \/ c = PreviousStrategy(s) /\ stopped /\ ~stopped'
      \/ c = s /\ UNCHANGED <<stopped, resume>>
  BY <1>1 DEF ClientCommand
<1> HIDE DEF s
<1>10. CASE c = SetStrategy(s, STOP) /\ stopped' /\ resume' = s.current
  BY <1>3, <1>6, <1>7, <1>10 DEF ComesBack, Remembered
<1>11. CASE c = PreviousStrategy(s) /\ stopped /\ ~stopped'
  BY <1>3, <1>6, <1>8, <1>11 DEF ResumeInv, ComesBack, Remembered
<1>12. CASE c = s /\ UNCHANGED <<stopped, resume>>
  BY <1>3, <1>6, <1>12 DEF ResumeInv, ComesBack, Remembered
<1> QED
  BY <1>9, <1>10, <1>11, <1>12

LEMMA OtherCyclesResume ==
  ASSUME ResumeInv, NEW heard,
         \/ LoseDevice(heard) \/ StillMissing(heard) \/ DelayRestart(heard)
         \/ Restart(heard) \/ StandbyCycle(heard)
  PROVE  ComesBack(strategy') /\ Remembered' /\ UNCHANGED stopped
<1> DEFINE s == StrategyAtStart
           c == ResetIq(strategy)
<1>1. UNCHANGED <<stopped, resume>>
  BY DEF LoseDevice, StillMissing, DelayRestart, Restart, StandbyCycle
<1>2. GoodContext(s) /\ ComesBack(s) /\ (stopped => s.old = strategy.old)
  BY AtStart, AtStartComesBack DEF ResumeInv
<1>3. GoodContext(c) /\ ComesBack(c) /\ c.old = strategy.old
  BY ResetIqType, HelpersKeepOld DEF ResumeInv, ControllerInv, ComesBack
<1>4. strategy' \in {s, ResetStrategy(s), c, ResetStrategy(c)}
  BY DEF LoseDevice, StillMissing, DelayRestart, Restart, StandbyCycle
<1> HIDE DEF s, c
<1>5. ASSUME NEW d \in {s, c}
      PROVE  ResetStrategy(d).old = d.old /\ ResetStrategy(d).current = d.current
  BY <1>2, <1>3, <1>5 DEF GoodContext, Context, ResetStrategy
<1>6. ComesBack(strategy') /\ (stopped => strategy'.old = strategy.old)
  BY <1>2, <1>3, <1>4, <1>5 DEF ComesBack
<1> QED
  BY <1>1, <1>6 DEF ResumeInv, Remembered

LEMMA ResumeStep ==
  ASSUME ResumeInv, [ControllerNext]_controllerVars
  PROVE  /\ ResumeInv'
         /\ stopped /\ ~stopped' =>
              IF resume # STOP THEN strategy'.current = resume
              ELSE strategy'.current # STOP \/ STOP \in FirstStrategies
<1>1. ControllerInv'
  BY ControllerStepInv DEF ResumeInv
<1>2. CASE \E heard \in SUBSET Device : ControllerLoop(heard)
  <2>1. PICK heard \in SUBSET Device : ControllerLoop(heard)
    BY <1>2
  <2>2. CASE RunStrategy(heard)
    BY <1>1, <2>2, RunStrategyResumes DEF ResumeInv, ComesBack
  <2>3. CASE ~RunStrategy(heard)
    BY <1>1, <2>1, <2>3, OtherCyclesResume DEF ControllerLoop, ResumeInv, ComesBack
  <2> QED
    BY <2>2, <2>3
<1>3. CASE PressButton \/ ClientMessage \/ UNCHANGED controllerVars
  <2>1. UNCHANGED <<stopped, strategy, resume>>
    BY <1>3 DEF PressButton, ClientMessage, controllerVars
  <2> QED
    BY <1>1, <2>1 DEF ResumeInv, ComesBack, Remembered
<1> QED
  BY <1>2, <1>3 DEF ControllerNext

LEMMA ResumeInit == ControllerInit => ResumeInv
<1> SUFFICES ASSUME ControllerInit PROVE ResumeInv
  OBVIOUS
<1>1. PICK first \in FirstStrategies : strategy = InitialContext(first)
  BY DEF ControllerInit
<1> QED
  BY <1>1, ControllerInitInv
  DEF ResumeInv, ComesBack, Remembered, InitialContext, ControllerInit

-----------------------------------------------------------------------------
(* Theorems                                                                *)

\* Whatever the order of interruptions, button presses and commands, a stage
\* of a strategy finds what its own earlier stages set up: pointers, scenario
\* and tables are there when they are used without a check, and a current is
\* computed only after RESET and PREPARE.
THEOREM StagesAlwaysPrepared == ControllerSpec => []StagesPrepared
<1>1. StagesInv => StagesPrepared
  <2> SUFFICES ASSUME StagesInv PROVE StagesPrepared
    OBVIOUS
  <2>1. strategy \in Context /\ Prepared(strategy) /\ RunsFromReset
    BY DEF StagesInv, ControllerInv, GoodContext
  <2>2. DrivesPrepared
    <3>1. (\E m \in Motor : strategy.iq[m] = "computed") => ~NoIq(strategy)
      BY DEF NoIq
    <3> QED
      BY <2>1, <3>1 DEF DrivesPrepared, RunsFromReset, StagesRun
  <2>3. MotorsPaired
    BY <2>1 DEF MotorsPaired, Prepared, PairedSoFar, Paired
  <2>4. ScenarioLoaded
    BY <2>1 DEF ScenarioLoaded, Prepared, Loaded
  <2>5. IdentifiesBothMotors
    <3> SUFFICES ASSUME strategy.current = IDENTIFICATION, strategy.state = "CONTROL"
                 PROVE  IF strategy.id_state = "DONE"
                        THEN {strategy.id[k] : k \in 0..IdMotors-1} = 1..2
                        ELSE strategy.id_i < IdSteps /\ strategy.id_motor < IdMotors
      BY DEF IdentifiesBothMotors
    <3>1. Identified(strategy)
      BY <2>1 DEF Prepared, Identifying
    <3>2. 0..IdMotors-1 = {0, 1}
      BY DEF IdMotors
    <3>3. {strategy.id[k] : k \in 0..IdMotors-1} = {strategy.id[0], strategy.id[1]}
      BY <3>2
    <3> QED
      BY <3>1, <3>3 DEF Identified, IdMotors
  <2> QED
    BY <2>2, <2>3, <2>4, <2>5 DEF StagesPrepared
<1> QED
  BY <1>1, StagesInit, StagesStep, PTL DEF ControllerSpec

\* GO brings back the strategy that the STOP command interrupted, whatever the
\* button and the network did meanwhile; if that was STOP, it leaves it, unless
\* the controller is configured to begin with STOP.
THEOREM GoResumes == ControllerSpec => ResumesStrategy
<1>1. ResumeInv /\ [ControllerNext]_controllerVars => ResumeInv'
  BY ResumeStep
<1>2. ResumeInv /\ [ControllerNext]_controllerVars =>
        [stopped /\ ~stopped' =>
           IF resume # STOP THEN strategy'.current = resume
           ELSE strategy'.current # STOP \/ STOP \in FirstStrategies]_controllerVars
  BY ResumeStep
<1> QED
  BY <1>1, <1>2, ResumeInit, PTL DEF ControllerSpec, ResumesStrategy
===============================================================================
