------------------------------ MODULE UserButton ------------------------------
(***************************************************************************)
(* The user button of tsn/user_button.c: an interrupt that masks itself, a *)
(* task that tells the registered event queues of a press and unmasks it.  *)
(***************************************************************************)
EXTENDS Naturals, FiniteSets

CONSTANTS
  EventQueue,       \* the event queues, of depth one, that may be registered
  MAX_EVENT_QUEUES

VARIABLES
  active,     \* the flag of the hardware, which stays set until it is cleared
  irq,        \* the interrupt is unmasked
  sem,        \* the semaphore
  button_pc,  \* where user_button_task is
  slots,      \* the queues registered, by slot; {} if the slot is not used
  event,      \* the queues that hold an event
  owed        \* history: registered queues that have not heard of the last press

buttonVars == <<active, irq, sem, button_pc, slots, event, owed>>

Slot == 1..MAX_EVENT_QUEUES
Registered == UNION {slots[i] : i \in Slot}

\* rtos_apps_user_button_init
ButtonInit ==
  /\ active = FALSE
  /\ irq = TRUE
  /\ sem = 0
  /\ button_pc = "take"
  /\ slots = [i \in Slot |-> {}]
  /\ event = {}
  /\ owed = {}

-----------------------------------------------------------------------------

\* A press that finds the flag set is one with the press before.
Press ==
  /\ ~active
  /\ active' = TRUE
  /\ owed' = Registered
  /\ UNCHANGED <<irq, sem, button_pc, slots, event>>

\* rtos_apps_user_button_irq.  "ISR may be triggered multiple times even though
\* the ISR bit has been cleared": it may also come without a press.
Irq ==
  /\ irq
  /\ irq' = FALSE
  /\ sem' = sem + 1
  /\ UNCHANGED <<active, button_pc, slots, event, owed>>

SemTake ==
  /\ button_pc = "take" /\ sem > 0
  /\ sem' = sem - 1
  /\ button_pc' = "check"
  /\ UNCHANGED <<active, irq, slots, event, owed>>

\* Variant: without a press the interrupt stays masked.
CheckMasked ==
  /\ button_pc = "check"
  /\ button_pc' = IF active THEN "event" ELSE "take"
  /\ UNCHANGED <<active, irq, sem, slots, event, owed>>

Check ==
  /\ button_pc = "check"
  /\ button_pc' = IF active THEN "event" ELSE "enable"
  /\ UNCHANGED <<active, irq, sem, slots, event, owed>>

\* rtos_apps_user_button_event does not wait: a queue that is full has an event.
Event ==
  /\ button_pc = "event"
  /\ button_pc' = "clear"
  /\ event' = event \cup Registered
  /\ owed' = owed \ Registered
  /\ UNCHANGED <<active, irq, sem, slots>>

Clear ==
  /\ button_pc = "clear"
  /\ button_pc' = "enable"
  /\ active' = FALSE
  /\ UNCHANGED <<irq, sem, slots, event, owed>>

EnableIrq ==
  /\ button_pc = "enable"
  /\ button_pc' = "take"
  /\ irq' = TRUE
  /\ UNCHANGED <<active, sem, slots, event, owed>>

UserButtonTask == SemTake \/ Check \/ Event \/ Clear \/ EnableIrq

-----------------------------------------------------------------------------
(* What the motor applications call                                        *)

FreeSlots == {i \in Slot : slots[i] = {}}
Lowest(S) == CHOOSE i \in S : \A j \in S : i <= j

RegisterQueue(q) ==
  /\ FreeSlots # {}
  /\ slots' = [slots EXCEPT ![Lowest(FreeSlots)] = {q}]
  /\ UNCHANGED <<active, irq, sem, button_pc, event, owed>>

UnregisterQueue(q) ==
  /\ LET used == {i \in Slot : slots[i] = {q}} IN
     slots' = IF used = {} THEN slots ELSE [slots EXCEPT ![Lowest(used)] = {}]
  /\ owed' = owed \ {q}
  /\ UNCHANGED <<active, irq, sem, button_pc, event>>

\* button_press_event_check and its like empty the queue in every cycle.
EventCheck(q) ==
  /\ q \in event
  /\ event' = event \ {q}
  /\ UNCHANGED <<active, irq, sem, button_pc, slots, owed>>
===============================================================================
