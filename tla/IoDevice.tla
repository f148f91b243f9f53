------------------------------- MODULE IoDevice -------------------------------
(***************************************************************************)
(* The io devices of tsn/motor/io_device.c, one motor each.  Once per      *)
(* period a device takes the command of the controller, if it arrived in   *)
(* this period, runs its state machine and sends feedback.                 *)
(*                                                                         *)
(* The motor drive behind motor_control_api.c is external: it keeps the    *)
(* requested current and whether its current loop is closed, it tells that *)
(* it is initialised and where it is, and it may go into its fault state.  *)
(***************************************************************************)
EXTENDS Integers

CONSTANTS
  NumDevices,      \* io devices on the network
  StayIndexDelay   \* STAY_INDEX_DELAY_MS in task periods

ASSUME NumDevicesAssumption == NumDevices \in Nat \ {0}
ASSUME StayIndexDelayAssumption == StayIndexDelay \in Nat

VARIABLES
  io_state,          \* ctx->state
  status,            \* ctx->status: a set of error bits
  control_action,    \* ctx->control_action
  iq_req,            \* ctx->motors_controlled[0].iq_req
  offset_reached,    \* ctx->offset_reached
  stay_index_delay,  \* ctx->stay_index_delay
  pressed,           \* event_queue (its depth is 1) holds BUTTON_PRESSED
  drive_iq,          \* the drive's iq_external_command
  current_loop,      \* the drive's bEnableCurrentPI
  drive_fault        \* the drive is in its fault state

ioVars == <<io_state, status, control_action, iq_req, offset_reached,
            stay_index_delay, pressed, drive_iq, current_loop, drive_fault>>

IoDevice == 1..NumDevices
IoState  == {"WAIT_FOR_INPUT", "INIT", "STAY_INDEX", "REMOTE_CONTROL",
             "FREERUNNING", "MOTOR_FAULT"}
ErrorBit == {"FAULT", "NETWORK"}
Iq       == {"zero", "computed"}

NoFrame == [action |-> "none", iq |-> "zero", valid |-> FALSE]

\* What one device gets from a SET_IQ message: the action, its own current,
\* and whether the message holds exactly one current for its motor.
Command == [action : {"HOLD", "APPLY_IQ"}, iq : Iq, valid : BOOLEAN]

IoInit ==
  /\ io_state = [d \in IoDevice |-> "WAIT_FOR_INPUT"]
  /\ status = [d \in IoDevice |-> {}]
  /\ control_action = [d \in IoDevice |-> "HOLD"]
  /\ iq_req = [d \in IoDevice |-> "zero"]
  /\ offset_reached = [d \in IoDevice |-> FALSE]
  /\ stay_index_delay = [d \in IoDevice |-> 0]
  /\ pressed = [d \in IoDevice |-> FALSE]
  /\ drive_iq = [d \in IoDevice |-> "zero"]
  /\ current_loop = [d \in IoDevice |-> FALSE]
  /\ drive_fault = [d \in IoDevice |-> FALSE]

-----------------------------------------------------------------------------
(* One cycle of a device                                                   *)

Set(f, d, v) == [f EXCEPT ![d] = v]

\* Variant: a message without a current for this motor is not an error.
ReceivedStatusTrusting(d, frame) ==
  IF frame = NoFrame THEN status[d] ELSE status[d] \ {"NETWORK"}

\* Variant: a good message does not clear the error.
ReceivedStatusSticky(d, frame) == status[d]

\* io_device_net_receive: the network error bit, set at the end of every
\* loop, is cleared by a good message.
ReceivedStatus(d, frame) ==
  IF frame = NoFrame THEN status[d]
  ELSE IF frame.valid THEN status[d] \ {"NETWORK"}
  ELSE status[d] \cup {"NETWORK"}
ReceivedAction(d, frame) ==
  IF frame = NoFrame THEN control_action[d] ELSE frame.action
ReceivedIq(d, frame) ==
  IF frame = NoFrame \/ ~frame.valid THEN iq_req[d] ELSE frame.iq

\* The error bits after the drive was looked at.
FaultStatus(d, frame) ==
  ReceivedStatus(d, frame) \cup (IF drive_fault[d] THEN {"FAULT"} ELSE {})

\* REMOTE_CONTROL is entered, and kept, only in a period without any error
\* in which the controller says APPLY_IQ.
ControlState(d, frame, s) ==
  IF FaultStatus(d, frame) = {} /\ ReceivedAction(d, frame) = "APPLY_IQ"
  THEN IF s = "FREERUNNING" \/ (s = "STAY_INDEX" /\ offset_reached[d])
       THEN "REMOTE_CONTROL" ELSE s
  ELSE IF s = "REMOTE_CONTROL" THEN "FREERUNNING" ELSE s

\* The state in which the cycle runs: the button starts a device that waits
\* for it, a fault of the drive ends everything.
RunState(d, frame) ==
  LET started == IF pressed[d] /\ io_state[d] = "WAIT_FOR_INPUT" THEN "INIT"
                 ELSE io_state[d]
  IN  ControlState(d, frame, IF drive_fault[d] THEN "MOTOR_FAULT" ELSE started)

\* Sending feedback starts once the motor holds its offset.
Sends(d, s) ==
  s \in {"STAY_INDEX", "REMOTE_CONTROL", "FREERUNNING", "MOTOR_FAULT"}
    /\ offset_reached'[d]

\* WAIT_FOR_INPUT, MOTOR_FAULT: the state function does nothing.
StateIdle(d, frame, s) ==
  /\ s \in {"WAIT_FOR_INPUT", "MOTOR_FAULT"}
  /\ io_state' = Set(io_state, d, s)
  /\ iq_req' = Set(iq_req, d, ReceivedIq(d, frame))
  /\ UNCHANGED <<offset_reached, stay_index_delay, drive_iq>>

\* io_device_state_init, until the drive says that it is initialised
StateInit(d, frame, s, initialized) ==
  /\ s = "INIT"
  /\ io_state' = Set(io_state, d, IF initialized THEN "STAY_INDEX" ELSE s)
  /\ iq_req' = Set(iq_req, d, ReceivedIq(d, frame))
  /\ stay_index_delay' = IF initialized
                         THEN Set(stay_index_delay, d, StayIndexDelay)
                         ELSE stay_index_delay
  /\ offset_reached' = IF initialized THEN Set(offset_reached, d, FALSE)
                       ELSE offset_reached
  /\ UNCHANGED drive_iq

\* Variant: the first cycle at the index is enough.
StateStayIndexImpatient(d, frame, s, at_index) ==
  /\ s = "STAY_INDEX"
  /\ io_state' = Set(io_state, d, s)
  /\ iq_req' = Set(iq_req, d, ReceivedIq(d, frame))
  /\ offset_reached' = IF at_index THEN Set(offset_reached, d, TRUE)
                       ELSE offset_reached
  /\ stay_index_delay' = IF at_index /\ stay_index_delay[d] # 0
                         THEN Set(stay_index_delay, d, stay_index_delay[d] - 1)
                         ELSE stay_index_delay
  /\ UNCHANGED drive_iq

\* io_device_stay_index: the delay counts the cycles at the index only.  It
\* wraps once the offset is reached, when nothing depends on it any more: it
\* stays 0 here.
StateStayIndex(d, frame, s, at_index) ==
  /\ s = "STAY_INDEX"
  /\ io_state' = Set(io_state, d, s)
  /\ iq_req' = Set(iq_req, d, ReceivedIq(d, frame))
  /\ offset_reached' = IF at_index /\ stay_index_delay[d] = 0
                       THEN Set(offset_reached, d, TRUE) ELSE offset_reached
  /\ stay_index_delay' = IF at_index /\ stay_index_delay[d] # 0
                         THEN Set(stay_index_delay, d, stay_index_delay[d] - 1)
                         ELSE stay_index_delay
  /\ UNCHANGED drive_iq

\* io_device_state_remote_control
StateRemoteControl(d, frame, s) ==
  /\ s = "REMOTE_CONTROL"
  /\ io_state' = Set(io_state, d, s)
  /\ iq_req' = Set(iq_req, d, ReceivedIq(d, frame))
  /\ drive_iq' = Set(drive_iq, d, ReceivedIq(d, frame))
  /\ UNCHANGED <<offset_reached, stay_index_delay>>

\* Variant: the drive keeps the last current.
StateFreeRunningKeepsIq(d, s) ==
  /\ s = "FREERUNNING"
  /\ io_state' = Set(io_state, d, s)
  /\ UNCHANGED <<iq_req, drive_iq, offset_reached, stay_index_delay>>

\* io_device_state_freerunning: the received current is forgotten.
StateFreeRunning(d, s) ==
  /\ s = "FREERUNNING"
  /\ io_state' = Set(io_state, d, s)
  /\ iq_req' = Set(iq_req, d, "zero")
  /\ drive_iq' = Set(drive_iq, d, "zero")
  /\ UNCHANGED <<offset_reached, stay_index_delay>>

\* The current loop is opened by a timer error and by FREERUNNING.
CurrentLoop(s, timer_ok) == timer_ok /\ s # "FREERUNNING"

\* io_device_loop.  The drive's answers initialized and at_index are inputs.
IoLoop(d, frame, timer_ok, initialized, at_index) ==
  LET s == RunState(d, frame) IN
  /\ \/ StateIdle(d, frame, s)
     \/ StateInit(d, frame, s, initialized)
     \/ StateStayIndex(d, frame, s, at_index)
     \/ StateRemoteControl(d, frame, s)
     \/ StateFreeRunning(d, s)
  /\ control_action' = Set(control_action, d, ReceivedAction(d, frame))
  /\ status' = Set(status, d, FaultStatus(d, frame) \cup {"NETWORK"})
  /\ current_loop' = Set(current_loop, d, CurrentLoop(s, timer_ok))
  /\ pressed' = Set(pressed, d, FALSE)
  /\ UNCHANGED drive_fault

\* What io_device_send puts into the feedback of this cycle.
FeedbackOf(d, frame) ==
  IF Sends(d, io_state'[d]) THEN FaultStatus(d, frame) ELSE {"none"}

-----------------------------------------------------------------------------
(* The user and the drive                                                  *)

PressIoButton(d) ==
  /\ ~pressed[d]
  /\ pressed' = Set(pressed, d, TRUE)
  /\ UNCHANGED <<io_state, status, control_action, iq_req, offset_reached,
                 stay_index_delay, drive_iq, current_loop, drive_fault>>

\* The drive enters or leaves its fault state by itself.
DriveFault(d) ==
  /\ drive_fault' = Set(drive_fault, d, ~drive_fault[d])
  /\ UNCHANGED <<io_state, status, control_action, iq_req, offset_reached,
                 stay_index_delay, pressed, drive_iq, current_loop>>
=============================================================================
