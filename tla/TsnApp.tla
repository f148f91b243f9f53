-------------------------------- MODULE TsnApp --------------------------------
(***************************************************************************)
(* The TSN application of tsn/tsn_app.c: what it acquires when it starts,  *)
(* what a failure on the way gives back, what runs in between, and what it *)
(* releases when it exits.  A node is started in one of the modes of the   *)
(* application, with one peer.                                             *)
(*                                                                         *)
(* What is acquired is named by its part of the program and its kind:      *)
(* memory, queues, semaphores and sockets, but also what acts by itself:   *)
(* threads, timers, interrupts and registrations that are called back.     *)
(***************************************************************************)
EXTENDS UserButton, TsnSocket, AlarmTask, SerialDevice, SequencesExt

CONSTANTS
  Nodes,       \* the configurations that are started, see NodeAssumption
  MaxFailures  \* bound on the calls that fail while a node starts

ASSUME NodeAssumption ==
  Nodes \subseteq [mode : {"NETWORK_ONLY", "CONTROLLER", "IO_DEVICE", "SERIAL"},
                   alarm : {"monitor", "io_device"},
                   zero_copy : BOOLEAN,
                   packets : 1..MaxPackets,
                   built : SUBSET {"CONTROLLER", "IO_DEVICE"},  \* CONFIG_RTOS_APPS_MOTOR_*
                   traffic : BOOLEAN,   \* whether the model lets it do its work
                   exits : BOOLEAN]     \* and whether it calls rtos_apps_tsn_exit

VARIABLES
  node,      \* what is started
  phase,     \* "init", "undo" after a failure, "run", "exit", "off"
  at,        \* the step of rtos_apps_tsn_init to come
  held,      \* what is acquired
  known,     \* what has been: the pointers to it are left when it is gone
  todo,      \* what is released next
  misused,   \* history: what was released without being held
  failed,    \* history: the steps that failed
  alarm_on   \* a_task.type is set

lifeVars == <<node, phase, at, held, known, todo, misused, failed, alarm_on>>
vars == <<lifeVars, buttonVars, socketVars, alarmVars, serialVars>>

-----------------------------------------------------------------------------
(* What each function acquires.  A step acquires something and, if it      *)
(* fails, undoes what the error path of its function undoes; then the      *)
(* caller undoes its own part, and so on, or goes on regardless.           *)

Get(r, undo) == [get |-> {r}, undo |-> undo, fail |-> "abort"]
Call(r, undo) == [get |-> {}, undo |-> undo, fail |-> "abort"]

\* The steps of a function whose caller ends with undo if they fail.
Inside(steps, undo) ==
  [k \in DOMAIN steps |->
     IF steps[k].fail = "abort" THEN [steps[k] EXCEPT !.undo = @ \o undo] ELSE steps[k]]

\* The caller ignores a failure: it goes on with its next step, or is done.
Ignored(steps, fail) == [k \in DOMAIN steps |-> [steps[k] EXCEPT !.fail = fail]]

When(condition, steps) == IF condition THEN steps ELSE <<>>

\* tsn_task_net_exit.  The buffers of a zero copy socket are not freed.
NetExit(o, rx, tx) ==
  When(rx, << <<o, "rx_iovec">>, <<o, "rx_sock">> >>)
    \o When(tx, << <<o, "tx_iovec">>, <<o, "tx_sock">> >>)

\* tsn_task_net_init.  A socket whose zero copy buffers (tsn_net_transmit_init)
\* cannot be had is not closed.
NetInit(o, rx, tx, zero_copy) ==
  When(rx, <<Get(<<o, "rx_sock">>, <<>>), Get(<<o, "rx_iovec">>, << <<o, "rx_sock">> >>)>>)
    \o Inside(
         When(tx, <<Get(<<o, "tx_sock">>, <<>>),
                    Get(<<o, "tx_iovec">>, << <<o, "tx_sock">> >>)>>
                  \o When(zero_copy, <<Get(<<o, "tx_buffers">>, <<>>)>>)),
         NetExit(o, rx, FALSE))

\* tsn_task_register.  A timer is created and given its callback in one step,
\* which fails without a timer, or after one was created and destroyed.
TaskRegister(o, rx, tx, zero_copy, timer) ==
  <<Get(<<o, "task">>, <<>>)>>
    \o Inside(
         NetInit(o, rx, tx, zero_copy)
           \o Inside(<<Get(<<o, "thread">>, <<>>)>>
                       \o When(timer, <<Get(<<o, "timer">>, << <<o, "thread">> >>)>>),
                     NetExit(o, rx, tx)),
         << <<o, "task">> >>)

\* tsn_task_unregister
TaskUnregister(o, rx, tx, timer) ==
  When(timer, << <<o, "timer">> >>) \o << <<o, "thread">> >> \o NetExit(o, rx, tx)
    \o << <<o, "task">> >>

\* Variant: a failure leaves the queue.
CyclicTaskInitKeepsQueue(zero_copy) ==
  <<Get(<<"cyclic", "queue">>, <<>>)>> \o TaskRegister("cyclic", TRUE, TRUE, zero_copy, TRUE)

\* cyclic_task_init
CyclicTaskInit(zero_copy) ==
  <<Get(<<"cyclic", "queue">>, <<>>)>>
    \o Inside(TaskRegister("cyclic", TRUE, TRUE, zero_copy, TRUE), << <<"cyclic", "queue">> >>)

\* Variant: the queue goes first.
CyclicTaskExitQueueFirst ==
  << <<"cyclic", "queue">> >> \o TaskUnregister("cyclic", TRUE, TRUE, TRUE)

\* cyclic_task_exit
CyclicTaskExit == TaskUnregister("cyclic", TRUE, TRUE, TRUE) \o << <<"cyclic", "queue">> >>

\* command_client_start: the memory of a client and its thread.  It fails without
\* either, or after the memory was had and freed.
CommandClientStart ==
  [get |-> {<<"controller", "client">>, <<"controller", "client_thread">>},
   undo |-> <<>>, fail |-> "abort"]

\* controller_init.  Its errors destroy the event queue, or nothing when the
\* clock cannot be read; a command client that does not start, or is not asked for, is ignored.
ControllerSteps(zero_copy) ==
  LET undo == << <<"controller", "event_queue">> >> IN
  <<Get(<<"controller", "event_queue">>, <<>>),
    Get(<<"controller", "registered">>, undo),
    Get(<<"controller", "strategy">>, undo),
    Get(<<"controller", "motors">>, <<>>)>>
    \o Ignored(<<CommandClientStart>>, "next")
    \o Inside(<<Get(<<"controller", "monitoring">>, <<>>)>> \o CyclicTaskInit(zero_copy), undo)

\* controller_exit.  A client is stopped if there is a pointer to it; a context
\* that was not initialised has no motors.
ControllerExit(initialised, client) ==
  << <<"controller", "monitoring">> >>
    \o When(client, << <<"controller", "client_thread">>, <<"controller", "client">> >>)
    \o << <<"controller", "registered">>, <<"controller", "event_queue">>,
          <<"controller", "strategy">> >>
    \o When(initialised, << <<"controller", "motors">> >>)

\* io_device_init
IoDeviceSteps(zero_copy) ==
  <<Get(<<"io_device", "motors">>, <<>>), Get(<<"io_device", "event_queue">>, <<>>)>>
    \o Inside(<<Get(<<"io_device", "registered">>, <<>>), Get(<<"io_device", "monitoring">>, <<>>)>>
                \o CyclicTaskInit(zero_copy),
              << <<"io_device", "event_queue">> >>)

\* io_device_exit.  A context that was not initialised has no motors.
IoDeviceExit(initialised) ==
  CyclicTaskExit \o << <<"io_device", "monitoring">>, <<"io_device", "event_queue">> >>
    \o When(initialised, << <<"io_device", "motors">> >>)

\* serial_iodevice_init.  Its errors free the context, and nothing else.
SerialSteps(zero_copy) ==
  <<Get(<<"serial", "ctx">>, <<>>)>>
    \o Inside(<<Get(<<"serial", "queue">>, <<>>), Get(<<"serial", "sem">>, <<>>),
                Get(<<"serial", "uart">>, <<>>), Get(<<"serial", "thread">>, <<>>)>>
                \o CyclicTaskInit(zero_copy),
              << <<"serial", "ctx">> >>)

\* serial_iodevice_exit.  Nothing stops the UART.
SerialExit ==
  << <<"serial", "thread">>, <<"serial", "sem">>, <<"serial", "queue">>, <<"serial", "ctx">> >>

\* alarm_task_monitor_init, alarm_task_io_init
AlarmSteps(c) ==
  IF c.alarm = "monitor"
  THEN <<Get(<<"alarm", "queue">>, <<>>)>>
         \o Inside(TaskRegister("alarm", TRUE, FALSE, c.zero_copy, FALSE)
                     \o <<Call("tsn_net_receive_set_cb", <<>>)>>,
                   << <<"alarm", "queue">> >>)
  ELSE TaskRegister("alarm", FALSE, TRUE, c.zero_copy, FALSE)

\* alarm_task_exit
AlarmExit(c) ==
  IF c.alarm = "monitor"
  THEN TaskUnregister("alarm", TRUE, FALSE, FALSE) \o << <<"alarm", "queue">> >>
  ELSE TaskUnregister("alarm", FALSE, TRUE, FALSE)

\* rtos_apps_tsn_init.  Whether the alarm task starts is ignored.
AppSteps(c) ==
  <<Get(<<"app", "ctx">>, <<>>)>>
    \o Inside(CASE c.mode = "CONTROLLER" -> ControllerSteps(c.zero_copy)
                [] c.mode = "IO_DEVICE" -> IoDeviceSteps(c.zero_copy)
                [] c.mode = "SERIAL" -> SerialSteps(c.zero_copy)
                [] OTHER -> CyclicTaskInit(c.zero_copy),
              << <<"app", "ctx">> >>)
    \o Ignored(AlarmSteps(c), "done")

Motors == {"CONTROLLER", "IO_DEVICE"}  \* app_mode MOTOR_NETWORK

\* rtos_apps_tsn_exit.  What an io device has is released in every mode and what a
\* controller has on both sides of a motor network, if it is compiled in; the
\* context of the application is not freed.
AppExit(c, alarm, client) ==
  When(alarm, AlarmExit(c))
    \o CyclicTaskExit
    \o When("IO_DEVICE" \in c.built, IoDeviceExit(c.mode = "IO_DEVICE"))
    \o When("CONTROLLER" \in c.built /\ c.mode \in Motors, ControllerExit(c.mode = "CONTROLLER", client))
    \o When(c.mode = "SERIAL", SerialExit)

-----------------------------------------------------------------------------
(* Start, exit, and what happens in between                                *)

Init ==
  /\ node \in Nodes
  /\ phase = "init" /\ at = 1
  /\ held = {} /\ known = {} /\ todo = <<>> /\ misused = {} /\ failed = {}
  /\ alarm_on = FALSE
  /\ ButtonInit /\ SocketInit /\ AlarmsInit /\ SerialInit
  /\ n = node.packets

Step == AppSteps(node)[at]

\* The next step, or the end of the start.
GoOn ==
  IF at = Len(AppSteps(node))
  THEN phase' = "run" /\ at' = 0
  ELSE phase' = "init" /\ at' = at + 1

Acquire ==
  /\ phase = "init"
  /\ held' = held \cup Step.get
  /\ known' = known \cup Step.get
  /\ GoOn
  /\ alarm_on' = (at = Len(AppSteps(node)))
  /\ IF \E r \in Step.get : r[2] = "registered"
       THEN \E q \in EventQueue : RegisterQueue(q)
       ELSE UNCHANGED buttonVars
  /\ UNCHANGED <<node, todo, misused, failed, socketVars, alarmVars, serialVars>>

\* What a function that fails may have had and given back, with the pointer to it
\* left as it was: a timer whose callback, a client whose thread cannot be had.
GivenBack == Step.get \cap {<<"cyclic", "timer">>, <<"controller", "client">>}

Fail ==
  /\ phase = "init" /\ Cardinality(failed) < MaxFailures
  /\ failed' = failed \cup {at}
  /\ known' \in {known, known \cup GivenBack}
  /\ phase' = "undo" /\ todo' = Step.undo
  /\ UNCHANGED <<node, at, held, misused, alarm_on, buttonVars, socketVars, alarmVars, serialVars>>

Undone ==
  /\ phase = "undo" /\ todo = <<>>
  /\ CASE Step.fail = "abort" -> phase' = "off" /\ at' = 0
       [] Step.fail = "next" -> GoOn
       [] Step.fail = "done" -> phase' = "run" /\ at' = 0
  /\ UNCHANGED <<node, held, known, todo, misused, failed, alarm_on,
                 buttonVars, socketVars, alarmVars, serialVars>>

Exit ==
  /\ phase = "run" /\ node.exits
  /\ phase' = "exit" /\ todo' = AppExit(node, alarm_on, <<"controller", "client">> \in known)
  /\ UNCHANGED <<node, at, held, known, misused, failed, alarm_on,
                 buttonVars, socketVars, alarmVars, serialVars>>

Exited ==
  /\ phase = "exit" /\ todo = <<>>
  /\ phase' = "off"
  /\ UNCHANGED <<node, at, held, known, todo, misused, failed, alarm_on,
                 buttonVars, socketVars, alarmVars, serialVars>>

\* Of what is released, what is not there.  The motors of a controller are
\* unregistered from its strategy.
Missing(r) ==
  \/ r \notin held
  \/ r = <<"controller", "motors">> /\ <<"controller", "strategy">> \notin held

Release ==
  /\ todo # <<>>
  /\ LET r == Head(todo) IN
     /\ held' = held \ {r}
     /\ misused' = IF Missing(r) THEN misused \cup {r} ELSE misused
     /\ IF r = <<"controller", "registered">> /\ r \in held
          THEN \E q \in EventQueue : UnregisterQueue(q)
          ELSE UNCHANGED buttonVars
  /\ todo' = Tail(todo)
  /\ UNCHANGED <<node, phase, at, known, failed, alarm_on, socketVars, alarmVars, serialVars>>

\* The thread of a client that gets no socket ends by itself.
ClientEnds ==
  /\ <<"controller", "client_thread">> \in held
  /\ held' = held \ {<<"controller", "client_thread">>}
  /\ UNCHANGED <<node, phase, at, known, todo, misused, failed, alarm_on,
                 buttonVars, socketVars, alarmVars, serialVars>>

\* The work of the threads begins when all has started.
Works(thread) == phase = "run" /\ node.traffic /\ thread \in held

\* A motor application polls its event queue.
ButtonStep(A) ==
  /\ node.mode \in Motors /\ node.traffic
  /\ A
  /\ UNCHANGED <<lifeVars, socketVars, alarmVars, serialVars>>

SocketStep(A) ==
  /\ node.mode = "NETWORK_ONLY" /\ node.zero_copy
  /\ Works(<<"cyclic", "thread">>)
  /\ A
  /\ UNCHANGED <<lifeVars, buttonVars, alarmVars, serialVars>>

AlarmStep(A) ==
  /\ node.mode = "NETWORK_ONLY" /\ node.alarm = "monitor" /\ alarm_on
  /\ Works(<<"alarm", "thread">>)
  /\ A
  /\ UNCHANGED <<lifeVars, buttonVars, socketVars, serialVars>>

SerialStep(A) ==
  /\ node.mode = "SERIAL" /\ Works(<<"serial", "thread">>)
  /\ A
  /\ UNCHANGED <<lifeVars, buttonVars, socketVars, alarmVars>>

Next ==
  \/ Acquire \/ Fail \/ Undone \/ Exit \/ Exited \/ Release \/ ClientEnds
  \/ ButtonStep(Press \/ Irq \/ UserButtonTask)
  \/ ButtonStep(<<"cyclic", "thread">> \in held /\ \E q \in EventQueue : EventCheck(q))
  \/ SocketStep(TransmitDone \/ TransmitSock \/ FrameSent)
  \/ AlarmStep(AlarmArrives \/ MainAlarmMonitor)
  \/ SerialStep(\/ ByteArrives \/ ByteLost \/ IdleLine \/ CommandSent
                \/ UartRxTask \/ NetReceive \/ SerialLoop)

\* The tasks of the button and of the alarm go on when they can, an interrupt that
\* is unmasked is served, and the sender of alarms goes on sending them.
Fairness ==
  /\ WF_vars(ButtonStep(active /\ Irq)) /\ WF_vars(ButtonStep(UserButtonTask))
  /\ WF_vars(AlarmStep(AlarmArrives)) /\ WF_vars(AlarmStep(MainAlarmMonitor))

Spec == Init /\ [][Next]_vars /\ Fairness

-----------------------------------------------------------------------------
(* Properties                                                              *)

Acting == {<<"cyclic", "thread">>, <<"cyclic", "timer">>, <<"alarm", "thread">>,
           <<"serial", "thread">>, <<"serial", "uart">>, <<"controller", "client_thread">>,
           <<"controller", "registered">>, <<"io_device", "registered">>}

\* What the code behind a thread, a timer, an interrupt or a registration needs, but
\* for what nothing releases: the UART and the buffers of a zero copy socket.
Needs(a) ==
  CASE a = <<"cyclic", "thread">> ->
         {<<"app", "ctx">>} \cup ({"cyclic"} \X {"task", "queue", "rx_sock", "rx_iovec", "tx_sock", "tx_iovec"})
           \cup (CASE node.mode = "CONTROLLER" -> {"controller"} \X {"event_queue", "strategy", "motors", "monitoring"}
                   [] node.mode = "IO_DEVICE" -> {"io_device"} \X {"event_queue", "motors", "monitoring"}
                   [] node.mode = "SERIAL" -> {"serial"} \X {"ctx", "queue"}
                   [] OTHER -> {})
    [] a = <<"cyclic", "timer">> -> {<<"app", "ctx">>, <<"cyclic", "task">>, <<"cyclic", "queue">>}
    [] a = <<"alarm", "thread">> ->
         {<<"app", "ctx">>, <<"alarm", "task">>}
           \cup ({"alarm"} \X (IF node.alarm = "monitor" THEN {"queue", "rx_sock", "rx_iovec"}
                                                         ELSE {"tx_sock", "tx_iovec"}))
    [] a = <<"serial", "thread">> -> {"serial"} \X {"ctx", "sem", "queue"}
    [] a = <<"serial", "uart">> -> {"serial"} \X {"ctx", "sem"}
    [] a = <<"controller", "client_thread">> -> {<<"controller", "client">>}
    [] a[2] = "registered" -> {<<a[1], "event_queue">>}

\* The cyclic task also restarts its timer, and the loop of a controller reads the
\* state of its client, if there is a pointer to it.
Uses(a) ==
  Needs(a) \cup IF a = <<"cyclic", "thread">>
                THEN known \cap {<<"cyclic", "timer">>, <<"controller", "client">>}
                ELSE {}

CallbackFailed == \E k \in failed : AppSteps(node)[k].get = {}

ClientFailed == \E k \in failed : <<"controller", "client">> \in AppSteps(node)[k].get

\* The code behind a thread, a timer, an interrupt or a registration finds what it
\* uses while it can run, in every mode, whatever fails at the start, and while the
\* node gives up or exits: but
\*  - the cyclic task can restart a timer that tsn_task_unregister or a failed
\*    tsn_task_register has just destroyed, until they abort it next;
\*  - the cyclic task of a controller reads the client that was freed because its
\*    thread could not be created;
\*  - an alarm task whose callback cannot be set goes on without its queue;
\*  - when the node gives up, or exits, the button and the UART are not stopped
\*    before what they use is gone, nor the task of the UART.  The button of a
\*    controller is stopped at the exit.
NoDangling ==
  \A a \in Acting \cap held : \A r \in Uses(a) \ held :
     \/ r = <<"cyclic", "timer">> /\ todo # <<>> /\ Head(todo) = <<"cyclic", "thread">>
     \/ a = <<"cyclic", "thread">> /\ r = <<"controller", "client">> /\ ClientFailed
     \/ a = <<"alarm", "thread">> /\ CallbackFailed
     \/ phase \in {"undo", "exit", "off"}
          /\ \/ a = <<"io_device", "registered">>
             \/ a = <<"controller", "registered">> /\ phase # "exit"
             \/ a[1] = "serial"

\* When the node is down, whatever failed, nothing of its cyclic and alarm tasks is
\* left but the zero copy buffers and the socket they are missing from, and an
\* alarm task whose callback cannot be set.  If only what runs is compiled in,
\* nothing is released twice, or by means of what is already gone, but the motors
\* of a controller, its client if it could not be started, a thread of the client
\* that ended by itself, and the cyclic task of an io device.
NothingLeft ==
  phase = "off" =>
    /\ \A r \in held :
         \/ r[1] \notin {"cyclic", "alarm"}
         \/ node.zero_copy /\ r[2] \in {"tx_buffers", "tx_sock", "tx_iovec"}
         \/ r[1] = "alarm" /\ CallbackFailed
    /\ node.built \subseteq {node.mode} =>
         \/ \A r \in misused :
              \/ r = <<"controller", "motors">>
              \/ r = <<"controller", "client_thread">>
              \/ r = <<"controller", "client">> /\ ClientFailed
         \/ node.mode = "IO_DEVICE" /\ \A r \in misused : r[1] = "cyclic"

\* Every event queue that is registered when the button is pressed gets an event,
\* or has one, or is unregistered: no press is lost with the interrupt masked.
PressSeen == \A q \in EventQueue : (q \in owed) ~> (q \notin owed)

\* An alarm that arrived is received, at the latest after the next one: the thread
\* takes all the frames it finds, for it is called back once for many of them.
AlarmHeard == (frames > 0) ~> (frames = 0 \/ phase # "run")

\* Frames are only written to buffers that the stack has given back, all of them,
\* also after a batch that was sent in part.
BuffersOwned == tx_pc = "send" => InState("task") = Buffers

\* A frame of feedback ends with the one end of line in it.  If no byte was lost
\* since the end of line before, it is one line, whole or without as much at its
\* beginning as fills the buffer, and never bytes of two: also when the bytes pile
\* up in the ring buffer because the task reads less of them than come in, an
\* overrun spoils the line it happens in, and those that follow are whole again.
LineIntact(f) ==
  /\ f # <<>> /\ f[Len(f)].eol
  /\ \A k \in 1..Len(f)-1 : ~f[k].eol
  /\ (\A k \in 1..Len(f) : f[k].place # 0) =>
       /\ \A k \in 1..Len(f)-1 : f[k+1].place = f[k].place + 1
       /\ f[1].place % MAX_SERIAL_COMMAND_LEN = 1

LinesIntact == \A k \in DOMAIN feedback_rx_queue : LineIntact(feedback_rx_queue[k])
===============================================================================
