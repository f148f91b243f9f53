----------------------------- MODULE MotorControl -----------------------------
(***************************************************************************)
(* The controller and the io devices on the network (tsn/motor over        *)
(* tsn/cyclic_task.c).  The nodes share a time base: in every period the   *)
(* controller runs first and the devices half a period later.  A frame is  *)
(* usable only in the period it was scheduled for (cyclic_net_receive      *)
(* drops the others), so a message that is not taken in its turn is gone.  *)
(*                                                                         *)
(* What may go wrong, MaxFaults times in all: a frame is lost, a node      *)
(* stays silent for a period (it starts late, or its timer restarts), a    *)
(* node runs its loop after a timer error and sends what nobody will       *)
(* accept, a device gets a command that has no current for it.  The drives *)
(* of FaultyDrives may go into fault at any time.                          *)
(***************************************************************************)
EXTENDS Controller, IoDevice

CONSTANTS
  MaxFaults,       \* bound on network and timer faults
  MaxPresses,      \* bound on presses of the controller's button
  FaultyDrives     \* devices whose drive may fail

ASSUME OneMotorPerDevice == NumDevices = NumMotors
ASSUME MaxFaultsAssumption == MaxFaults \in Nat
ASSUME MaxPressesAssumption == MaxPresses \in Nat
ASSUME FaultyDrivesAssumption == FaultyDrives \subseteq IoDevice

VARIABLES
  turn,            \* who runs next: 0 is the controller
  command,         \* SET_IQ messages of this period, by receiver
  feedback,        \* status in the FEEDBACK messages of this period, by sender
  faults, presses, \* how often the environment has interfered
  done,            \* history: who ran a loop in this period
  fault_seen       \* history: a fault was latched when the controller last ran

vars == <<controllerVars, ioVars, turn, command, feedback, faults, presses,
          done, fault_seen>>

NoFeedback == {"none"}
NoCommands == [d \in IoDevice |-> NoFrame]

\* A command of a controller configured for fewer devices.
OtherCommand == [action |-> "APPLY_IQ", iq |-> "zero", valid |-> FALSE]

Init ==
  /\ ControllerInit
  /\ IoInit
  /\ turn = 0
  /\ command = NoCommands
  /\ feedback = [d \in IoDevice |-> NoFeedback]
  /\ faults = 0
  /\ presses = 0
  /\ done = {}
  /\ fault_seen = FALSE

NextTurn == turn' = (turn + 1) % (NumDevices + 1)

\* The environment is charged n faults.
Charge(n) ==
  /\ faults + n <= MaxFaults
  /\ faults' = faults + n

FaultLatched == \E d \in IoDevice : "FAULT" \in status[d]

-----------------------------------------------------------------------------
(* The controller's turn                                                   *)

\* Variant: a device that answers is connected whatever it reports.
HeardAll(lost) == {d \in Device : feedback[d] # NoFeedback} \ lost

\* controller_net_receive: a status other than 0 is not "connected".
Heard(lost) == {d \in Device : feedback[d] = {}} \ lost

SendCommands ==
  command' = [d \in IoDevice |->
                [action |-> Action', iq |-> strategy'.iq[d], valid |-> TRUE]]

StartPeriod(ran_now) ==
  /\ turn = 0
  /\ feedback' = [d \in IoDevice |-> NoFeedback]
  /\ done' = ran_now
  /\ NextTurn
  /\ UNCHANGED <<ioVars, presses>>

ControllerTurn(lost) ==
  /\ StartPeriod({0})
  /\ ControllerLoop(Heard(lost))
  /\ SendCommands
  /\ fault_seen' = FaultLatched
  /\ IF lost = {} THEN UNCHANGED faults ELSE Charge(1)

ControllerTimerError ==
  /\ StartPeriod({})
  /\ ControllerLoop({})
  /\ command' = NoCommands
  /\ fault_seen' = FaultLatched
  /\ Charge(1)

ControllerSilent ==
  /\ StartPeriod({})
  /\ command' = NoCommands
  /\ Charge(1)
  /\ UNCHANGED <<controllerVars, fault_seen>>

-----------------------------------------------------------------------------
(* A device's turn                                                         *)

DevicePeriod(d) ==
  /\ turn = d
  /\ NextTurn
  /\ UNCHANGED <<controllerVars, command, presses, fault_seen>>

DeviceRuns(d, frame, initialized, at_index) ==
  /\ DevicePeriod(d)
  /\ IoLoop(d, frame, TRUE, initialized, at_index)
  /\ feedback' = Set(feedback, d, FeedbackOf(d, frame))
  /\ done' = done \cup {d}

DeviceTurn(d, initialized, at_index) ==
  /\ DeviceRuns(d, command[d], initialized, at_index)
  /\ UNCHANGED faults

DeviceFaultyTurn(d, frame, initialized, at_index) ==
  /\ DeviceRuns(d, frame, initialized, at_index)
  /\ Charge(1)

DeviceTimerError(d, initialized, at_index) ==
  /\ DevicePeriod(d)
  /\ IoLoop(d, NoFrame, FALSE, initialized, at_index)
  /\ done' = done \cup {d}
  /\ Charge(1)
  /\ UNCHANGED feedback

DeviceSilent(d) ==
  /\ DevicePeriod(d)
  /\ Charge(1)
  /\ UNCHANGED <<ioVars, feedback, done>>

-----------------------------------------------------------------------------

UserPress ==
  /\ presses < MaxPresses
  /\ presses' = presses + 1
  /\ PressButton
  /\ UNCHANGED <<ioVars, turn, command, feedback, faults, done, fault_seen>>

UserStarts(d) ==
  /\ io_state[d] = "WAIT_FOR_INPUT"
  /\ PressIoButton(d)
  /\ UNCHANGED <<controllerVars, turn, command, feedback, faults, presses,
                 done, fault_seen>>

Client ==
  /\ ClientMessage
  /\ UNCHANGED <<ioVars, turn, command, feedback, faults, presses, done,
                 fault_seen>>

DriveFails(d) ==
  /\ d \in FaultyDrives
  /\ DriveFault(d)
  /\ UNCHANGED <<controllerVars, turn, command, feedback, faults, presses,
                 done, fault_seen>>

DeviceNext(d) ==
  \/ \E initialized, at_index \in BOOLEAN :
       \/ DeviceTurn(d, initialized, at_index)
       \/ \E frame \in {NoFrame, OtherCommand} :
            DeviceFaultyTurn(d, frame, initialized, at_index)
       \/ DeviceTimerError(d, initialized, at_index)
  \/ DeviceSilent(d)
  \/ UserStarts(d)
  \/ DriveFails(d)

Next ==
  \/ \E lost \in SUBSET Device : ControllerTurn(lost)
  \/ ControllerTimerError
  \/ ControllerSilent
  \/ \E d \in IoDevice : DeviceNext(d)
  \/ UserPress
  \/ Client

\* The timers of the nodes keep firing, the user starts every device, and a
\* drive is initialised and reaches its index at last.
Fairness ==
  /\ WF_vars(ControllerTurn({}))
  /\ \A d \in IoDevice :
       /\ SF_vars(DeviceTurn(d, TRUE, TRUE))
       /\ WF_vars(UserStarts(d))

Spec == Init /\ [][Next]_vars /\ Fairness

-----------------------------------------------------------------------------
(* Properties                                                              *)

Driven(d) ==
  io_state[d] = "REMOTE_CONTROL" /\ drive_iq[d] = "computed" /\ current_loop[d]

\* A device that has run its loop drives its motor only with a current that
\* the controller computed in this very period, in state CONTROL and after
\* hearing every device: nothing stale is applied over losses, restarts and
\* timer errors on either side.
DrivenByFreshIq ==
  \A d \in done \ {0} :
    Driven(d) => 0 \in done /\ state = "CONTROL" /\ streak > 0
                   /\ strategy.iq[d] = "computed"

\* Once a device has latched a drive fault and the controller has run since,
\* no device that runs its loop drives its motor, whatever the drive's state,
\* the button and the strategies do afterwards.
FaultStopsAll ==
  fault_seen => \A d \in done \ {0} : ~Driven(d)

\* A period in which the controller misses a device leaves no device that has
\* run in it in REMOTE_CONTROL: the others are let free too.
MissingFreesAll ==
  state = "IO_DEVICE_MISSING" =>
    \A d \in done \ {0} :
      io_state[d] # "REMOTE_CONTROL" /\ (io_state[d] = "FREERUNNING" => drive_iq[d] = "zero")

\* The controller takes over a motor only after it was held at its index for
\* the whole STAY_INDEX_DELAY_MS.
AlignedBeforeRemote ==
  \A d \in IoDevice :
    io_state[d] \in {"REMOTE_CONTROL", "FREERUNNING"} =>
      offset_reached[d] /\ stay_index_delay[d] = 0

\* If no drive fails, finitely many losses, restarts and timer errors are
\* overcome: in the end every device is remotely controlled for good.
AllControlled ==
  [](\A d \in IoDevice : ~drive_fault[d])
    => <>[](\A d \in IoDevice : io_state[d] = "REMOTE_CONTROL")
=============================================================================
