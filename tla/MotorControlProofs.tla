-------------------------- MODULE MotorControlProofs --------------------------
(***************************************************************************)
(* The safety of the composition, for any number of faults and presses and *)
(* whatever drives fail: no device drives its motor with anything but the  *)
(* current of this period, a fault or a missing device releases all of     *)
(* them, and only aligned motors are taken over.                           *)
(***************************************************************************)
EXTENDS MotorControl, ControllerProofs

-----------------------------------------------------------------------------
(* The inductive invariant                                                 *)

NodesTypeOK ==
  /\ io_state \in [IoDevice -> IoState]
  /\ status \in [IoDevice -> SUBSET ErrorBit]
  /\ offset_reached \in [IoDevice -> BOOLEAN]
  /\ stay_index_delay \in [IoDevice -> Nat]
  /\ drive_iq \in [IoDevice -> Iq]
  /\ current_loop \in [IoDevice -> BOOLEAN]
  /\ feedback \in [IoDevice -> SUBSET (ErrorBit \cup NoFeedback)]
  /\ done \subseteq {0} \cup IoDevice

\* The commands of a period are those of the controller's last cycle.
CommandsOfNow ==
  \A d \in IoDevice :
    command[d] # NoFrame =>
      0 \in done /\ command[d] = [action |-> Action, iq |-> strategy.iq[d], valid |-> TRUE]

\* The network error bit is set whenever a device has begun to work.
NetworkDoubted ==
  \A d \in IoDevice : io_state[d] # "WAIT_FOR_INPUT" => "NETWORK" \in status[d]

\* A device that has run and is controlled remotely obeys the command of this period.
ObeysCommand ==
  \A d \in IoDevice \cap done :
    io_state[d] = "REMOTE_CONTROL" =>
      command[d] # NoFrame /\ command[d].action = "APPLY_IQ" /\ drive_iq[d] = command[d].iq

FreeMeansZero ==
  \A d \in IoDevice : io_state[d] = "FREERUNNING" => drive_iq[d] = "zero"

\* A motor whose offset was found has stayed at its index.
Aligned ==
  \A d \in IoDevice :
    /\ io_state[d] = "STAY_INDEX" /\ offset_reached[d] => stay_index_delay[d] = 0
    /\ io_state[d] \in {"REMOTE_CONTROL", "FREERUNNING"} =>
         offset_reached[d] /\ stay_index_delay[d] = 0

\* Feedback without an error comes from a device without a fault.
FaultsReported == \A d \in IoDevice : feedback[d] = {} => "FAULT" \notin status[d]

\* The controller has no current for anybody when it has run since a fault.
NoCurrentOnFault == fault_seen => \A d \in IoDevice : command[d].iq # "computed"

\* Nobody has sent feedback in this period before its turn.
FeedbackInTurn ==
  /\ turn \in 0..NumDevices
  /\ \A d \in IoDevice : feedback[d] # NoFeedback => turn = 0 \/ d < turn

NodesInv ==
  /\ NodesTypeOK /\ FeedbackInTurn
  /\ CommandsOfNow /\ NetworkDoubted /\ ObeysCommand /\ FreeMeansZero /\ Aligned
  /\ FaultsReported /\ NoCurrentOnFault

MotorInv == ControllerInv /\ NodesInv

-----------------------------------------------------------------------------
(* A cycle of a device                                                     *)

\* The commands a device may get: what the network leaves of them.
Frames(d) == {command[d], NoFrame, OtherCommand}

LEMMA FrameTypes ==
  ASSUME MotorInv, NEW d \in IoDevice, NEW frame \in Frames(d)
  PROVE  /\ frame.valid => frame = command[d] /\ frame # NoFrame
         /\ frame # NoFrame => frame.action \in {"HOLD", "APPLY_IQ"}
         /\ frame.iq \in Iq
<1>1. \/ command[d] = NoFrame
      \/ command[d] = [action |-> Action, iq |-> strategy.iq[d], valid |-> TRUE]
  BY DEF MotorInv, NodesInv, CommandsOfNow
<1>2. strategy.iq[d] \in Iq
  BY OneMotorPerDevice DEF MotorInv, ControllerInv, ControllerTypeOK, Context, IoDevice, Motor, Iq
<1>3. Action \in {"HOLD", "APPLY_IQ"}
  BY DEF Action
<1> QED
  BY <1>1, <1>2, <1>3 DEF Frames, NoFrame, OtherCommand, Iq

\* Remote control needs a good command of this period.
LEMMA RemoteNeedsCommand ==
  ASSUME MotorInv, NEW d \in IoDevice, NEW frame \in Frames(d),
         RunState(d, frame) = "REMOTE_CONTROL"
  PROVE  /\ frame = command[d] /\ frame # NoFrame /\ frame.valid
         /\ frame.action = "APPLY_IQ"
         /\ io_state[d] \in {"FREERUNNING", "STAY_INDEX", "REMOTE_CONTROL"}
         /\ io_state[d] = "STAY_INDEX" => offset_reached[d]
<1>1. io_state[d] \in IoState /\ status[d] \in SUBSET ErrorBit
  BY DEF MotorInv, NodesInv, NodesTypeOK
<1>2. FaultStatus(d, frame) = {} /\ ReceivedAction(d, frame) = "APPLY_IQ"
  BY DEF RunState, ControlState
<1>3. /\ io_state[d] \in {"FREERUNNING", "STAY_INDEX", "REMOTE_CONTROL"}
      /\ io_state[d] = "STAY_INDEX" => offset_reached[d]
  BY <1>1, <1>2 DEF RunState, ControlState, FaultStatus
<1>4. "NETWORK" \in status[d]
  BY <1>3 DEF MotorInv, NodesInv, NetworkDoubted
<1>5. frame # NoFrame /\ frame.valid
  BY <1>2, <1>4 DEF FaultStatus, ReceivedStatus
<1> QED
  BY <1>2, <1>3, <1>5, FrameTypes DEF ReceivedAction

\* The states in which a device lets its motor run free or holds it.
LEMMA RunStates ==
  ASSUME MotorInv, NEW d \in IoDevice, NEW frame
  PROVE  /\ RunState(d, frame) \in IoState
         /\ RunState(d, frame) = "FREERUNNING" => io_state[d] \in {"FREERUNNING", "REMOTE_CONTROL"}
         /\ RunState(d, frame) = "STAY_INDEX" => io_state[d] = "STAY_INDEX"
<1>1. io_state[d] \in IoState
  BY DEF MotorInv, NodesInv, NodesTypeOK
<1> QED
  BY <1>1 DEF RunState, ControlState, IoState

\* What a cycle leaves of a device.
LEMMA DeviceCycle ==
  ASSUME MotorInv, NEW d \in IoDevice, NEW frame \in Frames(d), NEW timer_ok \in BOOLEAN,
         NEW initialized \in BOOLEAN, NEW at_index \in BOOLEAN,
         IoLoop(d, frame, timer_ok, initialized, at_index)
  PROVE  /\ io_state' \in [IoDevice -> IoState]
         /\ status' \in [IoDevice -> SUBSET ErrorBit]
         /\ offset_reached' \in [IoDevice -> BOOLEAN]
         /\ stay_index_delay' \in [IoDevice -> Nat]
         /\ drive_iq' \in [IoDevice -> Iq]
         /\ current_loop' \in [IoDevice -> BOOLEAN]
         /\ \A e \in IoDevice \ {d} :
              /\ io_state'[e] = io_state[e] /\ status'[e] = status[e]
              /\ offset_reached'[e] = offset_reached[e]
              /\ stay_index_delay'[e] = stay_index_delay[e]
              /\ drive_iq'[e] = drive_iq[e]
         /\ status'[d] = FaultStatus(d, frame) \cup {"NETWORK"}
         /\ io_state'[d] = "REMOTE_CONTROL" =>
              /\ command[d] # NoFrame /\ command[d].action = "APPLY_IQ"
              /\ drive_iq'[d] = command[d].iq
         /\ io_state'[d] = "FREERUNNING" => drive_iq'[d] = "zero"
         /\ io_state'[d] = "STAY_INDEX" /\ offset_reached'[d] => stay_index_delay'[d] = 0
         /\ io_state'[d] \in {"REMOTE_CONTROL", "FREERUNNING"} =>
              offset_reached'[d] /\ stay_index_delay'[d] = 0
<1> DEFINE s == RunState(d, frame)
<1>1. /\ io_state \in [IoDevice -> IoState] /\ status \in [IoDevice -> SUBSET ErrorBit]
      /\ offset_reached \in [IoDevice -> BOOLEAN] /\ stay_index_delay \in [IoDevice -> Nat]
      /\ drive_iq \in [IoDevice -> Iq] /\ current_loop \in [IoDevice -> BOOLEAN]
  BY DEF MotorInv, NodesInv, NodesTypeOK
<1>2. /\ frame.valid => frame = command[d] /\ frame # NoFrame
      /\ frame.iq \in Iq
  BY FrameTypes
<1>3. /\ s \in IoState
      /\ s = "FREERUNNING" => io_state[d] \in {"FREERUNNING", "REMOTE_CONTROL"}
      /\ s = "STAY_INDEX" => io_state[d] = "STAY_INDEX"
  BY RunStates
<1>4. s = "REMOTE_CONTROL" =>
        /\ frame = command[d] /\ frame # NoFrame /\ frame.valid
        /\ frame.action = "APPLY_IQ"
        /\ io_state[d] \in {"FREERUNNING", "STAY_INDEX", "REMOTE_CONTROL"}
        /\ io_state[d] = "STAY_INDEX" => offset_reached[d]
  BY RemoteNeedsCommand
<1>5. s \in {"REMOTE_CONTROL", "FREERUNNING"} => offset_reached[d] /\ stay_index_delay[d] = 0
  BY <1>3, <1>4 DEF MotorInv, NodesInv, Aligned
<1>6. s = "STAY_INDEX" /\ offset_reached[d] => stay_index_delay[d] = 0
  BY <1>3 DEF MotorInv, NodesInv, Aligned
<1>7. /\ status' \in [IoDevice -> SUBSET ErrorBit]
      /\ status'[d] = FaultStatus(d, frame) \cup {"NETWORK"}
      /\ \A e \in IoDevice \ {d} : status'[e] = status[e]
  <2>1. FaultStatus(d, frame) \in SUBSET ErrorBit
    BY <1>1 DEF FaultStatus, ReceivedStatus, ErrorBit
  <2> QED
    BY <1>1, <2>1 DEF IoLoop, Set, ErrorBit
<1>8. current_loop' \in [IoDevice -> BOOLEAN]
  BY <1>1 DEF IoLoop, Set, CurrentLoop
<1> HIDE DEF s
<1>9. CASE StateIdle(d, frame, s)
  BY <1>1, <1>7, <1>8, <1>9 DEF StateIdle, Set, IoState
<1>10. CASE StateInit(d, frame, s, initialized)
  BY <1>1, <1>7, <1>8, <1>10, StayIndexDelayAssumption DEF StateInit, Set, IoState
<1>11. CASE StateStayIndex(d, frame, s, at_index)
  <2>1. /\ io_state' = [io_state EXCEPT ![d] = "STAY_INDEX"] /\ UNCHANGED drive_iq
        /\ offset_reached' = IF at_index /\ stay_index_delay[d] = 0
                             THEN [offset_reached EXCEPT ![d] = TRUE] ELSE offset_reached
        /\ stay_index_delay' = IF at_index /\ stay_index_delay[d] # 0
                               THEN [stay_index_delay EXCEPT ![d] = stay_index_delay[d] - 1]
                               ELSE stay_index_delay
        /\ s = "STAY_INDEX"
    BY <1>11 DEF StateStayIndex, Set
  <2>2. stay_index_delay' \in [IoDevice -> Nat]
    BY <1>1, <2>1
  <2>3. offset_reached'[d] => stay_index_delay'[d] = 0
    BY <1>1, <1>6, <2>1
  <2> QED
    BY <1>1, <1>7, <1>8, <2>1, <2>2, <2>3 DEF IoState
<1>12. CASE StateRemoteControl(d, frame, s)
  <2>1. /\ io_state' = [io_state EXCEPT ![d] = "REMOTE_CONTROL"]
        /\ drive_iq' = [drive_iq EXCEPT ![d] = ReceivedIq(d, frame)]
        /\ UNCHANGED <<offset_reached, stay_index_delay>> /\ s = "REMOTE_CONTROL"
    BY <1>12 DEF StateRemoteControl, Set
  <2>2. ReceivedIq(d, frame) = frame.iq
    BY <1>4, <2>1 DEF ReceivedIq
  <2> QED
    BY <1>1, <1>2, <1>4, <1>5, <1>7, <1>8, <2>1, <2>2 DEF IoState
<1>13. CASE StateFreeRunning(d, s)
  <2>1. /\ io_state' = [io_state EXCEPT ![d] = "FREERUNNING"]
        /\ drive_iq' = [drive_iq EXCEPT ![d] = "zero"]
        /\ UNCHANGED <<offset_reached, stay_index_delay>> /\ s = "FREERUNNING"
    BY <1>13 DEF StateFreeRunning, Set
  <2> QED
    BY <1>1, <1>5, <1>7, <1>8, <2>1 DEF IoState, Iq
<1> QED
  BY <1>9, <1>10, <1>11, <1>12, <1>13 DEF IoLoop, s

-----------------------------------------------------------------------------
(* The initial states and the controller's turn                            *)

LEMMA MotorInitInv == Init => MotorInv
<1> SUFFICES ASSUME Init PROVE MotorInv
  OBVIOUS
<1>1. ControllerInv
  BY ControllerInitInv DEF Init
<1>2. NodesTypeOK
  BY DEF Init, IoInit, NodesTypeOK, IoState, ErrorBit, Iq, NoFeedback
<1>3. \A d \in IoDevice : command[d] = NoFrame /\ feedback[d] = {"none"}
  BY DEF Init, NoCommands, NoFeedback
<1>4. CommandsOfNow /\ NoCurrentOnFault
  BY <1>3 DEF CommandsOfNow, NoCurrentOnFault, Init
<1>5. NetworkDoubted /\ ObeysCommand /\ FreeMeansZero /\ Aligned /\ FaultsReported
  BY DEF Init, IoInit, NetworkDoubted, ObeysCommand, FreeMeansZero, Aligned, FaultsReported
<1>6. FeedbackInTurn
  BY <1>3, NumDevicesAssumption DEF Init, FeedbackInTurn, NoFeedback
<1> QED
  BY <1>1, <1>2, <1>4, <1>5, <1>6 DEF MotorInv, NodesInv

\* The turns go round.
LEMMA TurnsGoRound ==
  ASSUME turn \in 0..NumDevices, NextTurn
  PROVE  turn' = IF turn = NumDevices THEN 0 ELSE turn + 1
BY NumDevicesAssumption DEF NextTurn

\* A cycle of the controller is a step of its own module.
LEMMA ControllerCycleInv ==
  ASSUME ControllerInv, NEW heard \in SUBSET Device, ControllerLoop(heard)
  PROVE  /\ ControllerInv'
         /\ heard # Device => \A m \in Motor : strategy'.iq[m] # "computed"
<1>1. ControllerInv'
  BY ControllerStepInv DEF ControllerNext
<1>2. heard # Device => streak' = 0
  BY StreakType DEF ControllerInv, ControllerLoop, Connected, LoseDevice, RunStrategy,
                    StillMissing, DelayRestart, Restart, StandbyCycle
<1>3. IqNeedsAllDevices'
  BY <1>1 DEF ControllerInv
<1> QED
  BY <1>1, <1>2, <1>3 DEF IqNeedsAllDevices

\* What a period's first step leaves, whatever the controller did in it.
LEMMA PeriodStarts ==
  ASSUME NodesInv, NEW ran_now \in SUBSET {0}, StartPeriod(ran_now)
  PROVE  /\ NodesTypeOK' /\ FeedbackInTurn' /\ NetworkDoubted' /\ ObeysCommand'
         /\ FreeMeansZero' /\ Aligned' /\ FaultsReported'
<1>1. /\ turn = 0 /\ done' = ran_now /\ turn' \in 0..NumDevices
      /\ feedback' = [d \in IoDevice |-> {"none"}]
      /\ UNCHANGED ioVars
  BY TurnsGoRound, NumDevicesAssumption DEF StartPeriod, NodesInv, FeedbackInTurn, NoFeedback
<1>2. NodesTypeOK'
  BY <1>1 DEF NodesInv, NodesTypeOK, NoFeedback, ioVars
<1>3. FeedbackInTurn' /\ FaultsReported'
  BY <1>1 DEF FeedbackInTurn, FaultsReported, NoFeedback
<1>4. ObeysCommand'
  BY <1>1 DEF ObeysCommand, IoDevice
<1>5. NetworkDoubted' /\ FreeMeansZero' /\ Aligned'
  BY <1>1 DEF NodesInv, NetworkDoubted, FreeMeansZero, Aligned, ioVars
<1> QED
  BY <1>2, <1>3, <1>4, <1>5

LEMMA ControllerTurnInv ==
  ASSUME MotorInv, NEW lost \in SUBSET Device, ControllerTurn(lost)
  PROVE  MotorInv'
<1>1. Heard(lost) \in SUBSET Device
  BY DEF Heard
<1>2. /\ ControllerInv'
      /\ Heard(lost) # Device => \A m \in Motor : strategy'.iq[m] # "computed"
  BY <1>1, ControllerCycleInv DEF MotorInv, ControllerTurn
<1>3. \A d \in IoDevice :
        command'[d] = [action |-> Action', iq |-> strategy'.iq[d], valid |-> TRUE]
  BY DEF ControllerTurn, SendCommands
<1>4. done' = {0}
  BY DEF ControllerTurn, StartPeriod
<1>5. CommandsOfNow'
  BY <1>3, <1>4 DEF CommandsOfNow
<1>6. NoCurrentOnFault'
  <2> SUFFICES ASSUME FaultLatched, NEW d \in IoDevice
               PROVE  command'[d].iq # "computed"
    BY DEF NoCurrentOnFault, ControllerTurn
  <2>1. PICK e \in IoDevice : feedback[e] # {}
    BY DEF FaultLatched, MotorInv, NodesInv, FaultsReported
  <2>2. e \in Device /\ d \in Motor
    BY OneMotorPerDevice DEF IoDevice, Device, Motor
  <2>3. Heard(lost) # Device
    BY <2>1, <2>2 DEF Heard
  <2>4. strategy'.iq[d] # "computed"
    BY <1>2, <2>2, <2>3
  <2>5. command'[d].iq = strategy'.iq[d]
    BY DEF ControllerTurn, SendCommands
  <2> QED
    BY <2>4, <2>5
<1>7. /\ NodesTypeOK' /\ FeedbackInTurn' /\ NetworkDoubted' /\ ObeysCommand'
      /\ FreeMeansZero' /\ Aligned' /\ FaultsReported'
  BY PeriodStarts DEF MotorInv, ControllerTurn
<1> QED
  BY <1>2, <1>5, <1>6, <1>7 DEF MotorInv, NodesInv

\* A controller that does not send leaves no command.
LEMMA NoCommandsInv ==
  ASSUME command' = NoCommands
  PROVE  CommandsOfNow' /\ NoCurrentOnFault'
<1>1. \A d \in IoDevice : command'[d] = NoFrame
  BY DEF NoCommands
<1> QED
  BY <1>1 DEF CommandsOfNow, NoCurrentOnFault, NoFrame

LEMMA ControllerMissesInv ==
  ASSUME MotorInv, ControllerTimerError \/ ControllerSilent
  PROVE  MotorInv'
<1>1. ControllerInv'
  <2>1. CASE ControllerTimerError
    BY <2>1, ControllerCycleInv DEF MotorInv, ControllerTimerError
  <2>2. CASE ControllerSilent
    BY <2>2, ControllerStepInv DEF MotorInv, ControllerSilent
  <2> QED
    BY <2>1, <2>2
<1>2. CommandsOfNow' /\ NoCurrentOnFault'
  BY NoCommandsInv DEF ControllerTimerError, ControllerSilent
<1>3. /\ NodesTypeOK' /\ FeedbackInTurn' /\ NetworkDoubted' /\ ObeysCommand'
      /\ FreeMeansZero' /\ Aligned' /\ FaultsReported'
  BY PeriodStarts DEF MotorInv, ControllerTimerError, ControllerSilent
<1> QED
  BY <1>1, <1>2, <1>3 DEF MotorInv, NodesInv

-----------------------------------------------------------------------------
(* The turn of a device and the other steps                                *)

\* A device's turn passes: its period is over and feedback came from it at most.
LEMMA DevicePeriodTurn ==
  ASSUME NodesInv, NEW d \in IoDevice, DevicePeriod(d)
  PROVE  /\ feedback[d] = NoFeedback
         /\ (\A e \in IoDevice \ {d} : feedback'[e] = feedback[e]) => FeedbackInTurn'
<1>1. turn = d /\ d \in 1..NumDevices /\ turn' = IF turn = NumDevices THEN 0 ELSE turn + 1
  BY TurnsGoRound DEF DevicePeriod, NodesInv, FeedbackInTurn, IoDevice
<1>2. feedback[d] = NoFeedback
  BY <1>1 DEF NodesInv, FeedbackInTurn
<1> QED
  BY <1>1, <1>2, NumDevicesAssumption DEF NodesInv, FeedbackInTurn, IoDevice

\* What a device's cycle disturbs, with the feedback it may have sent.
LEMMA DeviceCycleInv ==
  ASSUME MotorInv, NEW d \in IoDevice, NEW frame \in Frames(d), NEW timer_ok \in BOOLEAN,
         NEW initialized \in BOOLEAN, NEW at_index \in BOOLEAN,
         DevicePeriod(d), IoLoop(d, frame, timer_ok, initialized, at_index),
         done' = done \cup {d},
         NEW f \in {FeedbackOf(d, frame), NoFeedback}, feedback' = Set(feedback, d, f)
  PROVE  MotorInv'
<1>1. UNCHANGED <<controllerVars, command, fault_seen>>
  BY DEF DevicePeriod
<1>2. ControllerInv' /\ UNCHANGED <<state, strategy>>
  BY <1>1, ControllerStepInv DEF MotorInv, controllerVars
<1>3. Action' = Action
  BY <1>2 DEF Action
<1>4. CommandsOfNow' /\ NoCurrentOnFault'
  BY <1>1, <1>2, <1>3 DEF MotorInv, NodesInv, CommandsOfNow, NoCurrentOnFault
<1>5. /\ io_state' \in [IoDevice -> IoState]
      /\ status' \in [IoDevice -> SUBSET ErrorBit]
      /\ offset_reached' \in [IoDevice -> BOOLEAN]
      /\ stay_index_delay' \in [IoDevice -> Nat]
      /\ drive_iq' \in [IoDevice -> Iq]
      /\ current_loop' \in [IoDevice -> BOOLEAN]
  BY DeviceCycle
<1>6. \A e \in IoDevice \ {d} :
        /\ io_state'[e] = io_state[e] /\ status'[e] = status[e]
        /\ offset_reached'[e] = offset_reached[e]
        /\ stay_index_delay'[e] = stay_index_delay[e]
        /\ drive_iq'[e] = drive_iq[e]
  BY DeviceCycle
<1>7. status'[d] = FaultStatus(d, frame) \cup {"NETWORK"}
  BY DeviceCycle
<1>8. /\ io_state'[d] = "REMOTE_CONTROL" =>
           /\ command[d] # NoFrame /\ command[d].action = "APPLY_IQ"
           /\ drive_iq'[d] = command[d].iq
      /\ io_state'[d] = "FREERUNNING" => drive_iq'[d] = "zero"
      /\ io_state'[d] = "STAY_INDEX" /\ offset_reached'[d] => stay_index_delay'[d] = 0
      /\ io_state'[d] \in {"REMOTE_CONTROL", "FREERUNNING"} =>
           offset_reached'[d] /\ stay_index_delay'[d] = 0
  BY DeviceCycle
<1>9. f \in SUBSET (ErrorBit \cup NoFeedback) /\ (f = {} => "FAULT" \notin status'[d])
  <2>1. FaultStatus(d, frame) \in SUBSET ErrorBit
    BY <1>5, <1>7 DEF ErrorBit
  <2>2. f \in {FaultStatus(d, frame), NoFeedback}
    BY DEF FeedbackOf, NoFeedback
  <2> QED
    BY <1>7, <2>1, <2>2 DEF NoFeedback
<1>10. /\ feedback \in [IoDevice -> SUBSET (ErrorBit \cup NoFeedback)]
       /\ done \subseteq {0} \cup IoDevice
  BY DEF MotorInv, NodesInv, NodesTypeOK
<1>11. /\ feedback' \in [IoDevice -> SUBSET (ErrorBit \cup NoFeedback)]
       /\ feedback'[d] = f /\ \A e \in IoDevice \ {d} : feedback'[e] = feedback[e]
  BY <1>9, <1>10 DEF Set
<1>12. NodesTypeOK'
  BY <1>5, <1>10, <1>11 DEF NodesTypeOK
<1>13. FeedbackInTurn'
  BY <1>11, DevicePeriodTurn DEF MotorInv
<1>14. NetworkDoubted'
  BY <1>6, <1>7 DEF MotorInv, NodesInv, NetworkDoubted
<1>15. ObeysCommand'
  BY <1>1, <1>6, <1>8 DEF MotorInv, NodesInv, ObeysCommand
<1>16. FreeMeansZero' /\ Aligned'
  BY <1>6, <1>8 DEF MotorInv, NodesInv, FreeMeansZero, Aligned
<1>17. FaultsReported'
  BY <1>6, <1>9, <1>11 DEF MotorInv, NodesInv, FaultsReported
<1> QED
  BY <1>2, <1>4, <1>12, <1>13, <1>14, <1>15, <1>16, <1>17 DEF MotorInv, NodesInv

LEMMA DeviceRunsInv ==
  ASSUME MotorInv, NEW d \in IoDevice, NEW frame \in Frames(d),
         NEW initialized \in BOOLEAN, NEW at_index \in BOOLEAN,
         DeviceRuns(d, frame, initialized, at_index)
  PROVE  MotorInv'
BY DeviceCycleInv DEF DeviceRuns

LEMMA DeviceTimerErrorInv ==
  ASSUME MotorInv, NEW d \in IoDevice, NEW initialized \in BOOLEAN, NEW at_index \in BOOLEAN,
         DeviceTimerError(d, initialized, at_index)
  PROVE  MotorInv'
<1>1. DevicePeriod(d) /\ IoLoop(d, NoFrame, FALSE, initialized, at_index)
      /\ done' = done \cup {d} /\ feedback' = feedback
  BY DEF DeviceTimerError
<1>2. feedback[d] = NoFeedback
  BY <1>1, DevicePeriodTurn DEF MotorInv
<1>3. feedback' = Set(feedback, d, NoFeedback)
  BY <1>1, <1>2 DEF MotorInv, NodesInv, NodesTypeOK, Set
<1>4. NoFrame \in Frames(d)
  BY DEF Frames
<1> QED
  BY <1>1, <1>3, <1>4, DeviceCycleInv

LEMMA DeviceSilentInv ==
  ASSUME MotorInv, NEW d \in IoDevice, DeviceSilent(d)
  PROVE  MotorInv'
<1>1. DevicePeriod(d) /\ UNCHANGED <<controllerVars, command, fault_seen, ioVars, feedback, done>>
  BY DEF DeviceSilent, DevicePeriod
<1>2. ControllerInv' /\ UNCHANGED <<state, strategy>>
  BY <1>1, ControllerStepInv DEF MotorInv, controllerVars
<1>3. FeedbackInTurn'
  BY <1>1, DevicePeriodTurn DEF MotorInv
<1>4. CommandsOfNow'
  BY <1>1, <1>2 DEF MotorInv, NodesInv, CommandsOfNow, Action
<1> QED
  BY <1>1, <1>2, <1>3, <1>4
  DEF MotorInv, NodesInv, NodesTypeOK, NetworkDoubted, ObeysCommand, FreeMeansZero, Aligned,
      FaultsReported, NoCurrentOnFault, ioVars

\* A step between the turns disturbs nothing the nodes' invariant is about.
LEMMA BetweenTurnsInv ==
  ASSUME MotorInv, ControllerInv',
         UNCHANGED <<state, strategy, io_state, status, offset_reached, stay_index_delay,
                     drive_iq, current_loop, turn, command, feedback, done, fault_seen>>
  PROVE  MotorInv'
<1>1. CommandsOfNow'
  BY DEF MotorInv, NodesInv, CommandsOfNow, Action
<1> QED
  BY <1>1 DEF MotorInv, NodesInv, NodesTypeOK, FeedbackInTurn, NetworkDoubted, ObeysCommand,
              FreeMeansZero, Aligned, FaultsReported, NoCurrentOnFault

LEMMA MotorStepInv ==
  ASSUME MotorInv, [Next]_vars
  PROVE  MotorInv'
<1>1. CASE \E lost \in SUBSET Device : ControllerTurn(lost)
  BY <1>1, ControllerTurnInv
<1>2. CASE ControllerTimerError \/ ControllerSilent
  BY <1>2, ControllerMissesInv
<1>3. CASE \E d \in IoDevice : DeviceNext(d)
  <2>1. PICK d \in IoDevice : DeviceNext(d)
    BY <1>3
  <2>2. ASSUME NEW initialized \in BOOLEAN, NEW at_index \in BOOLEAN,
               DeviceTurn(d, initialized, at_index)
        PROVE  MotorInv'
    BY <2>2, DeviceRunsInv DEF DeviceTurn, Frames
  <2>3. ASSUME NEW initialized \in BOOLEAN, NEW at_index \in BOOLEAN,
               NEW frame \in {NoFrame, OtherCommand},
               DeviceFaultyTurn(d, frame, initialized, at_index)
        PROVE  MotorInv'
    BY <2>3, DeviceRunsInv DEF DeviceFaultyTurn, Frames
  <2>4. ASSUME NEW initialized \in BOOLEAN, NEW at_index \in BOOLEAN,
               DeviceTimerError(d, initialized, at_index)
        PROVE  MotorInv'
    BY <2>4, DeviceTimerErrorInv
  <2>5. CASE DeviceSilent(d)
    BY <2>5, DeviceSilentInv
  <2>6. CASE UserStarts(d) \/ DriveFails(d)
    <3>1. UNCHANGED <<controllerVars, io_state, status, offset_reached, stay_index_delay,
                      drive_iq, current_loop, turn, command, feedback, done, fault_seen>>
      BY <2>6 DEF UserStarts, PressIoButton, DriveFails, DriveFault
    <3>2. ControllerInv' /\ UNCHANGED <<state, strategy>>
      BY <3>1, ControllerStepInv DEF MotorInv, controllerVars
    <3> QED
      BY <3>1, <3>2, BetweenTurnsInv
  <2> QED
    BY <2>1, <2>2, <2>3, <2>4, <2>5, <2>6 DEF DeviceNext
<1>4. CASE UserPress \/ Client
  <2>1. ControllerInv'
    BY <1>4, ControllerStepInv DEF MotorInv, UserPress, Client, ControllerNext
  <2>2. UNCHANGED <<state, strategy, ioVars, turn, command, feedback, done, fault_seen>>
    BY <1>4 DEF UserPress, Client, PressButton, ClientMessage
  <2> QED
    BY <2>1, <2>2, BetweenTurnsInv DEF ioVars
<1>5. CASE UNCHANGED vars
  <2>1. ControllerInv'
    BY <1>5, ControllerStepInv DEF MotorInv, vars
  <2> QED
    BY <1>5, <2>1, BetweenTurnsInv DEF vars, controllerVars, ioVars
<1> QED
  BY <1>1, <1>2, <1>3, <1>4, <1>5 DEF Next

\* A device that has run and is controlled remotely has the controller's current.
LEMMA RemoteMeansCommanded ==
  ASSUME MotorInv, NEW d \in done \ {0}, io_state[d] = "REMOTE_CONTROL"
  PROVE  /\ d \in IoDevice /\ d \in Motor /\ 0 \in done
         /\ Action = "APPLY_IQ" /\ command[d] # NoFrame
         /\ drive_iq[d] = command[d].iq /\ drive_iq[d] = strategy.iq[d]
<1>1. d \in IoDevice /\ d \in Motor
  BY OneMotorPerDevice DEF MotorInv, NodesInv, NodesTypeOK, IoDevice, Motor
<1>2. command[d] # NoFrame /\ command[d].action = "APPLY_IQ" /\ drive_iq[d] = command[d].iq
  BY <1>1 DEF MotorInv, NodesInv, ObeysCommand
<1>3. 0 \in done /\ command[d] = [action |-> Action, iq |-> strategy.iq[d], valid |-> TRUE]
  BY <1>1, <1>2 DEF MotorInv, NodesInv, CommandsOfNow
<1> QED
  BY <1>1, <1>2, <1>3

-----------------------------------------------------------------------------
(* Theorems                                                                *)

\* The inductive invariant of the controller and the devices together.
THEOREM MotorInvariant == Spec => []MotorInv
<1>1. Init => MotorInv
  BY MotorInitInv
<1>2. MotorInv /\ [Next]_vars => MotorInv'
  BY MotorStepInv
<1> QED
  BY <1>1, <1>2, PTL DEF Spec

\* A device that has run its loop drives its motor only with a current that
\* the controller computed in this very period, after hearing every device.
THEOREM FreshIqOnly == Spec => []DrivenByFreshIq
<1>1. MotorInv => DrivenByFreshIq
  <2> SUFFICES ASSUME MotorInv, NEW d \in done \ {0}, Driven(d)
               PROVE  0 \in done /\ state = "CONTROL" /\ streak > 0
                        /\ strategy.iq[d] = "computed"
    BY DEF DrivenByFreshIq
  <2>1. d \in Motor /\ 0 \in done /\ strategy.iq[d] = "computed"
    BY RemoteMeansCommanded DEF Driven
  <2> QED
    BY <2>1 DEF MotorInv, ControllerInv, IqNeedsAllDevices
<1> QED
  BY <1>1, MotorInvariant, PTL

\* Once a drive fault was latched and the controller has run since, no device
\* that runs its loop drives its motor.
THEOREM FaultStops == Spec => []FaultStopsAll
<1>1. MotorInv => FaultStopsAll
  <2> SUFFICES ASSUME MotorInv, fault_seen, NEW d \in done \ {0}, Driven(d)
               PROVE  FALSE
    BY DEF FaultStopsAll
  <2>1. d \in IoDevice /\ command[d].iq = "computed"
    BY RemoteMeansCommanded DEF Driven
  <2> QED
    BY <2>1 DEF MotorInv, NodesInv, NoCurrentOnFault
<1> QED
  BY <1>1, MotorInvariant, PTL

\* A period in which the controller misses a device leaves no device that has
\* run in it in remote control, and no current in a free one.
THEOREM MissingFrees == Spec => []MissingFreesAll
<1>1. MotorInv => MissingFreesAll
  <2> SUFFICES ASSUME MotorInv, state = "IO_DEVICE_MISSING", NEW d \in done \ {0}
               PROVE  io_state[d] # "REMOTE_CONTROL"
                        /\ (io_state[d] = "FREERUNNING" => drive_iq[d] = "zero")
    BY DEF MissingFreesAll
  <2>1. io_state[d] # "REMOTE_CONTROL"
    BY RemoteMeansCommanded DEF Action
  <2>2. d \in IoDevice
    BY DEF MotorInv, NodesInv, NodesTypeOK
  <2> QED
    BY <2>1, <2>2 DEF MotorInv, NodesInv, FreeMeansZero
<1> QED
  BY <1>1, MotorInvariant, PTL

\* A motor is taken over only after it was held at its index for the delay.
THEOREM AlignedFirst == Spec => []AlignedBeforeRemote
<1>1. MotorInv => AlignedBeforeRemote
  BY DEF MotorInv, NodesInv, Aligned, AlignedBeforeRemote
<1> QED
  BY <1>1, MotorInvariant, PTL
===============================================================================
