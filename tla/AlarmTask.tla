------------------------------- MODULE AlarmTask ------------------------------
(***************************************************************************)
(* The alarm monitor of tsn/alarm_task.c: a thread that the network stack  *)
(* wakes up through a callback, which must be enabled again each time, and *)
(* the io device that sends it an alarm every ten seconds.                 *)
(***************************************************************************)
EXTENDS Naturals

CONSTANT QueueLength  \* TASK_DEFAULT_QUEUE_LENGTH

VARIABLES
  frames,    \* alarms in the receive socket
  callback,  \* the callback is enabled
  notices,   \* sockets in a_task->queue_h
  alarm_pc   \* where main_alarm_monitor is

alarmVars == <<frames, callback, notices, alarm_pc>>

\* tsn_net_receive_set_cb enables the callback.
AlarmsInit ==
  /\ frames = 0
  /\ callback = TRUE
  /\ notices = 0
  /\ alarm_pc = "wait"

\* An alarm arrives, if the callback is enabled net_callback is called, once.  It
\* does not wait for room in the queue.  main_alarm_io sleeps so long between
\* two alarms that one at most arrives while the monitor is at work.
AlarmArrives ==
  /\ frames = 0 \/ (alarm_pc = "wait" /\ notices = 0)
  /\ frames' = frames + 1
  /\ callback' = FALSE
  /\ notices' = IF callback /\ notices < QueueLength THEN notices + 1 ELSE notices
  /\ UNCHANGED alarm_pc

MonitorWakes ==
  /\ alarm_pc = "wait" /\ notices > 0
  /\ notices' = notices - 1
  /\ alarm_pc' = "receive"
  /\ UNCHANGED <<frames, callback>>

\* Variant: one frame for each wake-up.
MonitorReceivesOne ==
  /\ alarm_pc = "receive"
  /\ IF frames > 0 THEN frames' = frames - 1 ELSE UNCHANGED frames
  /\ alarm_pc' = "enable"
  /\ UNCHANGED <<callback, notices>>

\* The thread takes all the frames, and then enables the callback.
MonitorReceives ==
  /\ alarm_pc = "receive"
  /\ IF frames > 0 THEN frames' = frames - 1 /\ UNCHANGED alarm_pc
                   ELSE alarm_pc' = "enable" /\ UNCHANGED frames
  /\ UNCHANGED <<callback, notices>>

\* tsn_net_receive_enable_cb.  The stack may look at frames that arrived in the
\* meantime, and call back for them at once; nothing here relies on it.
MonitorEnables ==
  /\ alarm_pc = "enable"
  /\ alarm_pc' = "wait"
  /\ \/ callback' = TRUE /\ UNCHANGED notices
     \/ frames > 0 /\ notices < QueueLength /\ notices' = notices + 1 /\ callback' = FALSE
  /\ UNCHANGED frames

MainAlarmMonitor == MonitorWakes \/ MonitorReceives \/ MonitorEnables
===============================================================================
