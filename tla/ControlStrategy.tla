---------------------------- MODULE ControlStrategy ----------------------------
(***************************************************************************)
(* The control strategies of tsn/motor/control_strategies.c as operators   *)
(* on a strategy context: the state machine RESET, PREPARE, STARTUP, INIT, *)
(* CONTROL that runs one operation of the current strategy per cycle, and  *)
(* the calls that change the strategy.                                     *)
(*                                                                         *)
(* Positions, trajectories and currents are abstracted: a requested        *)
(* current is either zero or the result of a computation, and a            *)
(* comparison of a position with a target may go either way.  So an        *)
(* operation maps a context to the set of its outcomes, a return code and  *)
(* the context it leaves.                                                  *)
(***************************************************************************)
EXTENDS Integers

CONSTANTS
  NumMotors,       \* num_motors, one per io device
  IdSteps          \* identification.i_max

ASSUME NumMotorsAssumption == NumMotors \in 1..2   \* NB_IO_DEVICE_MAX
ASSUME IdStepsAssumption == IdSteps \in Nat \ {0}

Motor == 1..NumMotors
NULL  == 0

\* The motor list is built with slist_add_head: the last one registered is
\* the first one visited.
FirstMotor  == 2
SecondMotor == 1
Master      == 1            \* id 256: motor 0 of io device 1

SYNCHRONIZED   == 0
FOLLOW         == 1
HOLD_INDEX     == 2
INTERLACED     == 3
STOP           == 4
IDENTIFICATION == 5
Strategy == 0..5
TwoMotorStrategy == {INTERLACED, IDENTIFICATION}

StrategyState == {"RESET", "PREPARE", "STARTUP", "INIT", "CONTROL"}
IdState == {"ACCELERATING", "COASTING", "STOPPING", "DONE"}
IdMotors == 2               \* IDENTIFICATION_MAX_MOTOR

Context ==
  [current  : Strategy,
   old      : Strategy,
   state    : StrategyState,
   dynamic  : Motor \cup {NULL},      \* interlaced_context.motor_dynamic
   static   : Motor \cup {NULL},      \* interlaced_context.motor_static
   scenario : [Motor -> {"none", "synchronized", "interlaced"}],
   iq       : [Motor -> {"zero", "computed"}],
   id_state : IdState,
   id_i     : 0..IdSteps,
   id_motor : 0..IdMotors,
   id       : [0..IdMotors-1 -> Motor \cup {NULL}]]

InitialContext(first) ==
  [current |-> first, old |-> first, state |-> "RESET",
   dynamic |-> NULL, static |-> NULL,
   scenario |-> [m \in Motor |-> "none"], iq |-> [m \in Motor |-> "zero"],
   id_state |-> "ACCELERATING", id_i |-> 0, id_motor |-> 0,
   id |-> [k \in 0..IdMotors-1 |-> NULL]]

-----------------------------------------------------------------------------
(* Helpers                                                                 *)

Outcome(rc, c) == [rc |-> rc, ctx |-> c]

\* The requested currents: those of motors are computed, the rest is kept.
Drive(c, motors) ==
  [c EXCEPT !.iq = [m \in Motor |-> IF m \in motors THEN "computed" ELSE @[m]]]
ResetIq(c) == [c EXCEPT !.iq = [m \in Motor |-> "zero"]]
StopMotor(c, motor) ==
  [c EXCEPT !.iq = [m \in Motor |-> IF m = motor THEN "zero" ELSE @[m]]]
LoadScenario(c, s) == [c EXCEPT !.scenario = [m \in Motor |-> s]]
Alternate(c) == [c EXCEPT !.dynamic = c.static, !.static = c.dynamic]

-----------------------------------------------------------------------------
(* The operations of the strategies                                        *)

ResetMotors(c) == LoadScenario(ResetIq(c), "none")

StrategyReset(c) ==
  {Outcome("OK", IF c.current \in TwoMotorStrategy
                 THEN [ResetMotors(c) EXCEPT !.dynamic = NULL, !.static = NULL]
                 ELSE ResetMotors(c))}

\* Pointers that an alternation left behind are kept.
PairMotors(c) ==
  [c EXCEPT !.dynamic = IF @ = NULL THEN FirstMotor ELSE @,
            !.static  = IF @ = NULL THEN SecondMotor ELSE @]

\* strategy_interlaced_prepare: the static motor is at a notch or not.
InterlacedPrepare(c) ==
  IF NumMotors # 2 THEN {Outcome("ERROR", c)}
  ELSE {Outcome("OK", PairMotors(c)), Outcome("WAIT", Alternate(PairMotors(c)))}

StrategyPrepare(c) ==
  IF c.current \in TwoMotorStrategy THEN InterlacedPrepare(c)
  ELSE {Outcome("OK", c)}

\* strategy_interlaced_startup: the static motor is held until it is at its
\* notch, then the dynamic one is aligned, then they change places if the
\* static one is not at its own relative zero.
InterlacedStartup(c) ==
  LET held == Drive(c, {c.static})
      both == Drive(held, {c.dynamic})
  IN  {Outcome("WAIT", held), Outcome("WAIT", both),
       Outcome("WAIT", Alternate(both)), Outcome("OK", both)}

\* All motors are moved to their relative zero, or held there.
GenericStartup(c) == {Outcome(rc, Drive(c, Motor)) : rc \in {"WAIT", "OK"}}

\* All motors are held where they are until STOP_DELAY cycles have passed.
StopStartup(c) == {Outcome("WAIT", Drive(c, Motor)), Outcome("OK", Drive(c, Motor))}

StrategyStartup(c) ==
  CASE c.current \in TwoMotorStrategy -> InterlacedStartup(c)
    [] c.current = STOP -> StopStartup(c)
    [] OTHER -> GenericStartup(c)

FollowInit(c) == {Outcome(IF NumMotors < 2 THEN "ERROR" ELSE "OK", c)}

IdentificationInit(c) ==
  {Outcome("OK", [LoadScenario(c, "interlaced") EXCEPT
                    !.id_state = "ACCELERATING", !.id_i = 0, !.id_motor = 0])}

StrategyInit(c) ==
  CASE c.current = SYNCHRONIZED -> {Outcome("OK", LoadScenario(c, "synchronized"))}
    [] c.current = FOLLOW -> FollowInit(c)
    [] c.current = INTERLACED -> {Outcome("OK", LoadScenario(c, "interlaced"))}
    [] c.current = IDENTIFICATION -> IdentificationInit(c)
    [] OTHER -> {Outcome("OK", c)}

\* Margins are checked before any current is computed.
SynchronizedLoop(c) == {Outcome("ERROR", c), Outcome("OK", Drive(c, Motor))}

\* strategy_follow_loop: the master is let free.
FollowLoop(c) ==
  {Outcome("ERROR", c), Outcome("OK", Drive(c, Motor \ {Master}))}

\* strategy_interlaced_loop: at the end of a block the motors change places.
InterlacedLoop(c) ==
  LET both == Drive(c, {c.dynamic, c.static})
  IN  {Outcome("ERROR", c), Outcome("OK", both), Outcome("OK", Alternate(both))}

\* The end of one step of the identification of the dynamic motor.
NextStep(c) ==
  IF c.id_i + 1 < IdSteps
  THEN [c EXCEPT !.id_i = @ + 1, !.id_state = "ACCELERATING"]
  ELSE IF c.id_motor + 1 < IdMotors
  THEN [Alternate(c) EXCEPT !.id[c.id_motor] = c.dynamic, !.id_i = 0,
                            !.id_motor = @ + 1, !.id_state = "ACCELERATING"]
  ELSE [Alternate(c) EXCEPT !.id[c.id_motor] = c.dynamic, !.id_i = IdSteps,
                            !.id_motor = @ + 1, !.id_state = "DONE"]

IdentificationLoop(c) ==
  LET both == Drive(c, {c.dynamic, c.static})
      free == StopMotor(Drive(c, {c.static}), c.dynamic)
  IN  CASE c.id_state = "ACCELERATING" ->
             {Outcome("OK", both),
              Outcome("OK", [both EXCEPT !.id_state = "COASTING"])}
        [] c.id_state = "COASTING" ->
             {Outcome("OK", free),
              Outcome("OK", [free EXCEPT !.id_state = "STOPPING"])}
        [] c.id_state = "STOPPING" ->
             {Outcome("OK", both), Outcome("OK", NextStep(both))}
        [] c.id_state = "DONE" -> {Outcome("OK", ResetIq(c))}

StopLoop(c) == {Outcome("OK", ResetIq(c))}
HoldIndexLoop(c) == {Outcome("OK", Drive(c, Motor))}

StrategyLoop(c) ==
  CASE c.current = SYNCHRONIZED -> SynchronizedLoop(c)
    [] c.current = FOLLOW -> FollowLoop(c)
    [] c.current = HOLD_INDEX -> HoldIndexLoop(c)
    [] c.current = INTERLACED -> InterlacedLoop(c)
    [] c.current = STOP -> StopLoop(c)
    [] c.current = IDENTIFICATION -> IdentificationLoop(c)

-----------------------------------------------------------------------------
(* The state machine and the calls of the controller                       *)

Operation(c) ==
  CASE c.state = "RESET"   -> StrategyReset(c)
    [] c.state = "PREPARE" -> StrategyPrepare(c)
    [] c.state = "STARTUP" -> StrategyStartup(c)
    [] c.state = "INIT"    -> StrategyInit(c)
    [] c.state = "CONTROL" -> StrategyLoop(c)

After(state) ==
  CASE state = "RESET"   -> "PREPARE"
    [] state = "PREPARE" -> "STARTUP"
    [] state = "STARTUP" -> "INIT"
    [] OTHER             -> "CONTROL"

\* control_strategy_state_machine: the state advances on OK; an error is
\* reported to the controller and leaves the state as it is.
StateMachine(c) ==
  {Outcome(o.rc, IF o.rc = "OK" THEN [o.ctx EXCEPT !.state = After(c.state)]
                 ELSE o.ctx) : o \in Operation(c)}

ResetStrategy(c) == [c EXCEPT !.state = "RESET"]

PreviousStrategy(c) ==
  [c EXCEPT !.current = c.old, !.old = c.current, !.state = "RESET"]

NextStrategy(c) ==
  [c EXCEPT !.old = c.current, !.current = (c.current + 1) % 6,
            !.state = "RESET"]

\* Variant: the strategy to come back to is saved even without a change.
SetStrategyAlways(c, new) ==
  [c EXCEPT !.old = c.current, !.current = new, !.state = "RESET"]

SetStrategy(c, new) ==
  IF c.current = new THEN c
  ELSE [c EXCEPT !.old = c.current, !.current = new, !.state = "RESET"]
=============================================================================
