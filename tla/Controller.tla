------------------------------ MODULE Controller ------------------------------
(***************************************************************************)
(* The motor controller of tsn/motor/controller.c: once per period it      *)
(* takes the feedback of the io devices, runs the control strategy when    *)
(* all of them are connected, and sends the requested currents.            *)
(*                                                                         *)
(* A cycle is one action, with the set of devices whose feedback of this   *)
(* period arrived and carried no error: controller_net_receive sets their  *)
(* "connected" flags just before the loop and the loop clears them at its  *)
(* end.  A cycle after a timer error runs without any reception.  Button   *)
(* and command client are other threads: they act between cycles.          *)
(***************************************************************************)
EXTENDS ControlStrategy

CONSTANTS
  RestartDelay,    \* RESTART_DELAY_MS in task periods
  FirstStrategies, \* what control_strategy may be configured to
  HasClient        \* cmd_client

ASSUME RestartDelayAssumption == RestartDelay \in Nat
ASSUME FirstStrategiesAssumption == FirstStrategies \subseteq Strategy
ASSUME HasClientAssumption == HasClient \in BOOLEAN

VARIABLES
  state,           \* ctx->state
  restart_delay,   \* ctx->restart_delay
  stopped,         \* ctx->stopped
  strategy,        \* ctx->strategy: the strategy context
  button,          \* event_queue (its depth is 1) holds BUTTON_PRESSED
  client,          \* state of the command client
  streak,          \* history: cycles in a row with all devices connected
  ran,             \* history: the operations run since the last interruption
  resume           \* history: the strategy that a STOP command interrupted

controllerVars == <<state, restart_delay, stopped, strategy, button, client,
                    streak, ran, resume>>

Device == Motor                \* NB_MOTORS_MAX is 1
ControllerState == {"CONTROL", "IO_DEVICE_MISSING", "STANDBY"}

ControllerInit ==
  /\ state = "CONTROL"
  /\ restart_delay = 0
  /\ stopped = FALSE
  /\ \E first \in FirstStrategies : strategy = InitialContext(first)
  /\ button = FALSE
  /\ client = "GO"
  /\ streak = 0
  /\ ran = {}
  /\ resume = NULL

\* controller_send: what the devices are told after a cycle.
Action == IF state = "IO_DEVICE_MISSING" THEN "HOLD" ELSE "APPLY_IQ"
RequestedIq(d) == strategy.iq[d]

-----------------------------------------------------------------------------
(* The loop                                                                *)

Connected(heard) == heard = Device

CountStreak(heard) ==
  streak' = IF ~Connected(heard) THEN 0
            ELSE IF streak > RestartDelay THEN streak ELSE streak + 1

Interrupted == ran' = {}

\* Variant: the currents of the last cycle stay requested.
StrategyAtStartKeepsIq ==
  IF button /\ ~stopped THEN NextStrategy(strategy) ELSE strategy

\* Variant: the button is obeyed while the client has stopped the motors.
StrategyAtStartIgnoresStop ==
  IF button THEN NextStrategy(ResetIq(strategy)) ELSE ResetIq(strategy)

\* Every cycle forgets the currents of the last one; the button changes the
\* strategy unless the client has stopped the motors.
StrategyAtStart ==
  IF button /\ ~stopped THEN NextStrategy(ResetIq(strategy))
  ELSE ResetIq(strategy)

\* State CONTROL, a device does not answer.
LoseDevice(heard) ==
  /\ state = "CONTROL"
  /\ ~Connected(heard)
  /\ state' = "IO_DEVICE_MISSING"
  /\ restart_delay' = RestartDelay
  /\ strategy' = StrategyAtStart
  /\ button' = FALSE
  /\ Interrupted
  /\ CountStreak(heard)
  /\ UNCHANGED <<stopped, client, resume>>

\* The command client is obeyed once per change of its state; c is the
\* strategy after the command.
ClientCommand(c) ==
  \/ /\ HasClient /\ client = "STOP" /\ ~stopped
     /\ stopped' = TRUE
     /\ c = SetStrategy(StrategyAtStart, STOP)
     /\ resume' = StrategyAtStart.current
  \/ /\ HasClient /\ client = "GO" /\ stopped
     /\ stopped' = FALSE
     /\ c = PreviousStrategy(StrategyAtStart)
     /\ UNCHANGED resume
  \/ /\ HasClient => (client = "STOP") = stopped
     /\ c = StrategyAtStart
     /\ UNCHANGED <<stopped, resume>>

Commanded == {StrategyAtStart, SetStrategy(StrategyAtStart, STOP),
              PreviousStrategy(StrategyAtStart)}

\* State CONTROL, all devices answer: one operation of the strategy.
RunStrategy(heard) ==
  /\ state = "CONTROL"
  /\ Connected(heard)
  /\ button' = FALSE
  /\ CountStreak(heard)
  /\ \E c \in Commanded :
       /\ ClientCommand(c)
       /\ \E o \in StateMachine(c) :
            /\ strategy' = o.ctx
            /\ state' = IF o.rc = "ERROR" THEN "STANDBY" ELSE "CONTROL"
            /\ ran' = IF o.rc = "ERROR" THEN {}
                      ELSE IF c.current # strategy.current THEN {c.state}
                      ELSE ran \cup {c.state}
  /\ UNCHANGED <<restart_delay, client>>

\* Variant: the delay is not restarted by a device that misses again.
StillMissingKeepsDelay(heard) ==
  /\ state = "IO_DEVICE_MISSING"
  /\ ~Connected(heard)
  /\ strategy' = StrategyAtStart
  /\ button' = FALSE
  /\ CountStreak(heard)
  /\ UNCHANGED <<state, restart_delay, stopped, client, ran, resume>>

\* State IO_DEVICE_MISSING, a device does not answer.
StillMissing(heard) ==
  /\ state = "IO_DEVICE_MISSING"
  /\ ~Connected(heard)
  /\ restart_delay' = RestartDelay
  /\ strategy' = StrategyAtStart
  /\ button' = FALSE
  /\ CountStreak(heard)
  /\ UNCHANGED <<state, stopped, client, ran, resume>>

\* State IO_DEVICE_MISSING, all devices answer again but not for long enough.
DelayRestart(heard) ==
  /\ state = "IO_DEVICE_MISSING"
  /\ Connected(heard)
  /\ restart_delay # 0
  /\ restart_delay' = restart_delay - 1
  /\ strategy' = StrategyAtStart
  /\ button' = FALSE
  /\ CountStreak(heard)
  /\ UNCHANGED <<state, stopped, client, ran, resume>>

\* Variant: the strategy goes on where it was interrupted.
RestartKeepsStrategy(heard) ==
  /\ state = "IO_DEVICE_MISSING"
  /\ Connected(heard)
  /\ restart_delay = 0
  /\ restart_delay' = -1
  /\ strategy' = StrategyAtStart
  /\ state' = "CONTROL"
  /\ button' = FALSE
  /\ CountStreak(heard)
  /\ UNCHANGED <<stopped, client, ran, resume>>

\* if (!ctx->restart_delay--): the test is made before the decrement.
Restart(heard) ==
  /\ state = "IO_DEVICE_MISSING"
  /\ Connected(heard)
  /\ restart_delay = 0
  /\ restart_delay' = -1
  /\ strategy' = ResetStrategy(StrategyAtStart)
  /\ state' = "CONTROL"
  /\ button' = FALSE
  /\ CountStreak(heard)
  /\ UNCHANGED <<stopped, client, ran, resume>>

\* State STANDBY: the button restarts the strategy that failed; nothing else
\* is looked at.
StandbyCycle(heard) ==
  /\ state = "STANDBY"
  /\ strategy' = IF button THEN ResetStrategy(ResetIq(strategy))
                 ELSE ResetIq(strategy)
  /\ state' = IF button THEN "CONTROL" ELSE "STANDBY"
  /\ button' = FALSE
  /\ CountStreak(heard)
  /\ UNCHANGED <<restart_delay, stopped, client, ran, resume>>

ControllerLoop(heard) ==
  \/ LoseDevice(heard)
  \/ RunStrategy(heard)
  \/ StillMissing(heard)
  \/ DelayRestart(heard)
  \/ Restart(heard)
  \/ StandbyCycle(heard)

-----------------------------------------------------------------------------
(* The other threads                                                       *)

\* The user button task posts to every registered queue without waiting.
PressButton ==
  /\ ~button
  /\ button' = TRUE
  /\ UNCHANGED <<state, restart_delay, stopped, strategy, client, streak, ran,
                 resume>>

\* command_client_task: only a STOP event leaves GO and only a start message
\* leaves STOP.
ClientMessage ==
  /\ HasClient
  /\ client' = IF client = "GO" THEN "STOP" ELSE "GO"
  /\ UNCHANGED <<state, restart_delay, stopped, strategy, button, streak, ran,
                 resume>>

ControllerNext ==
  \/ \E heard \in SUBSET Device : ControllerLoop(heard)
  \/ PressButton
  \/ ClientMessage

ControllerSpec == ControllerInit /\ [][ControllerNext]_controllerVars

-----------------------------------------------------------------------------
(* Properties                                                              *)

\* Every variable of the controller has its type; restart_delay is an int
\* that the last decrement leaves at -1.
ControllerTypeOK ==
  /\ state \in ControllerState
  /\ restart_delay \in -1..RestartDelay
  /\ stopped \in BOOLEAN
  /\ strategy \in Context
  /\ button \in BOOLEAN
  /\ client \in {"GO", "STOP"}
  /\ streak \in 0..RestartDelay + 1
  /\ ran \subseteq StrategyState
  /\ resume \in Strategy

\* A current is requested only by a cycle in state CONTROL that heard every
\* device: controller_loop resets the currents before anything else.
IqNeedsAllDevices ==
  (\E m \in Motor : strategy.iq[m] = "computed") => state = "CONTROL" /\ streak > 0

\* While the command client holds the motors stopped, STOP is the current
\* strategy: neither the button nor an interruption of the network changes
\* it, and it never fails.
StoppedMeansStop == stopped => strategy.current = STOP /\ state # "STANDBY"

\* GO brings back the strategy that the STOP command interrupted, and if that
\* was STOP itself (chosen with the button) it leaves it
\* (control_strategy_previous_strategy).
ResumesStrategy ==
  [][stopped /\ ~stopped' =>
       IF resume # STOP THEN strategy'.current = resume
       ELSE strategy'.current # STOP \/ STOP \in FirstStrategies]_controllerVars

\* After an interruption control starts again only when all the devices have
\* answered in more than RESTART_DELAY_MS worth of cycles in a row.
RestartIsDelayed ==
  [][state = "IO_DEVICE_MISSING" /\ state' = "CONTROL" => streak' > RestartDelay]_controllerVars

\* A current is computed only by a strategy that was reset and prepared since
\* the last change of strategy or interruption, and its loop runs only after
\* all of its four operations: nothing is left over from before.
DrivesPrepared ==
  state = "CONTROL" =>
    /\ (\E m \in Motor : strategy.iq[m] = "computed") => {"RESET", "PREPARE"} \subseteq ran
    /\ "CONTROL" \in ran => {"RESET", "PREPARE", "STARTUP", "INIT"} \subseteq ran

\* The two-motor strategies use their pointers from STARTUP on without a
\* check: they are never NULL there and refer to different motors.
MotorsPaired ==
  strategy.current \in TwoMotorStrategy
    /\ strategy.state \in {"STARTUP", "INIT", "CONTROL"}
  => {strategy.dynamic, strategy.static} = 1..2

\* A loop that walks a scenario finds the scenario of its own strategy
\* loaded: get_scenario_block never reads a NULL block list, and
\* next_block_scenario never divides by a size of zero.
ScenarioLoaded ==
  strategy.state = "CONTROL" =>
    /\ strategy.current = SYNCHRONIZED =>
         \A m \in Motor : strategy.scenario[m] = "synchronized"
    /\ strategy.current = INTERLACED =>
         \A m \in Motor : strategy.scenario[m] = "interlaced"

\* The identification stays inside its result tables while it measures, and
\* when it is done it has measured each motor once.
IdentifiesBothMotors ==
  strategy.current = IDENTIFICATION /\ strategy.state = "CONTROL" =>
    IF strategy.id_state = "DONE"
    THEN {strategy.id[k] : k \in 0..IdMotors-1} = 1..2
    ELSE strategy.id_i < IdSteps /\ strategy.id_motor < IdMotors

\* Whatever the order of interruptions, button presses and commands, a stage of
\* a strategy finds what its own earlier stages set up.
StagesPrepared ==
  /\ DrivesPrepared
  /\ MotorsPaired
  /\ ScenarioLoaded
  /\ IdentifiesBothMotors
=============================================================================
