------------------------------- MODULE AudioApp -------------------------------
(***************************************************************************)
(* The audio application of audio/audio.c: data threads that process one   *)
(* pipeline each, the control thread that starts and stops them, and the   *)
(* SAI transmit interrupt that paces them.                                 *)
(*                                                                         *)
(* Every data thread owns a mutex, a semaphore and a message queue.  The   *)
(* interrupt posts a DATA event to every active thread and masks itself;   *)
(* thread 0 (the parent pipeline) unmasks it once it has processed its     *)
(* event.  A thread whose pipeline fails runs the reset protocol of        *)
(* audio_reset: it resets its own pipeline, asks the others to reset,      *)
(* waits for all of them on their semaphores and restarts everybody.       *)
(*                                                                         *)
(* Audio data is abstracted to "did the pipeline run succeed".  Only the   *)
(* SAI elements make a run fail, and only once they are started, that is   *)
(* after a first successful run (sai_source_element_run,                   *)
(* sai_sink_element_run).                                                  *)
(***************************************************************************)
EXTENDS Integers, Sequences

CONSTANTS
  N,               \* thread_count, at most AUDIO_APP_MAX_DATA_THREADS
  QLen,            \* depth of a data thread's queue (10 in the code)
  PipelineCounts,  \* numbers of pipelines the RUN commands configure
  ClientStops      \* whether the client ever sends a STOP command

ASSUME NAssumption == N \in Nat \ {0}
ASSUME QLenAssumption == QLen \in Nat \ {0}
ASSUME PipelineCountsAssumption == PipelineCounts \subseteq 1..N
ASSUME ClientStopsAssumption == ClientStops \in BOOLEAN

VARIABLES
  handler,         \* ctx->handler is set: the application is running
  pipeline_count,  \* ctx->pipeline_count
  handle,          \* thread_data_ctx[i].handle: what the pointer refers to
  started,         \* the SAI elements of pipeline i are started
  mqueue,          \* thread_data_ctx[i].mqueue_h
  mutex,           \* thread_data_ctx[i].mutex
  async_sem,       \* thread_data_ctx[i].async_sem
  reset_mut,       \* owner of ctx->reset_mut, or NoOwner
  irq,             \* the SAI transmit interrupt is unmasked
  sai_open,        \* the SAI device is set up
  isr,             \* next thread data_send_event posts to, or Idle
  pc, event, idx,  \* a data thread: its place, the received event, its loop
  cpc, ci, ccount, \* the control thread: its place, its loop, the new count
  covered          \* history: pipelines reset since reset_mut was last taken

threadVars == <<pc, event, idx>>
ctrlVars   == <<cpc, ci, ccount>>
appVars    == <<handler, pipeline_count, handle, sai_open>>
vars == <<handler, pipeline_count, handle, started, mqueue, mutex, async_sem,
          reset_mut, irq, sai_open, isr, pc, event, idx, cpc, ci, ccount,
          covered>>

Thread  == 0..N-1
NoOwner == -1
Idle    == -1
Event   == {"DATA", "RESET_ASYNC"}

\* Where a data thread is inside a call through the handler.
InHandler == {"run", "trylock", "reset_self", "send_reset", "wait", "restart",
              "send_restart", "unlock_reset"}

\* Where it owns its mutex.
InMutex == InHandler \cup {"check", "unlock", "halted"}

PC  == {"receive", "lock"} \cup InMutex
CPC == {"idle", "init", "run_lock", "run_unlock", "kick",
        "stop_lock", "stop_unlock", "exit", "close"}

Init ==
  /\ handler = FALSE
  /\ pipeline_count = 0
  /\ handle = [t \in Thread |-> "none"]
  /\ started = [t \in Thread |-> FALSE]
  /\ mqueue = [t \in Thread |-> <<>>]
  /\ mutex = [t \in Thread |-> "free"]
  /\ async_sem = [t \in Thread |-> 0]
  /\ reset_mut = NoOwner
  /\ irq = FALSE
  /\ sai_open = FALSE
  /\ isr = Idle
  /\ pc = [t \in Thread |-> "receive"]
  /\ event = [t \in Thread |-> "DATA"]
  /\ idx = [t \in Thread |-> 0]
  /\ cpc = "idle"
  /\ ci = 0
  /\ ccount = 0
  /\ covered = {}

-----------------------------------------------------------------------------
(* Helpers                                                                 *)

\* rtos_mqueue_send with RTOS_NO_WAIT: a full queue loses the event, and no
\* caller looks at the return value (the interrupt only counts it).
Send(i, e) ==
  mqueue' = [mqueue EXCEPT ![i] = IF Len(@) < QLen THEN Append(@, e) ELSE @]

GoTo(t, where) == pc' = [pc EXCEPT ![t] = where]

\* The results audio_pipeline_run may return for the pipeline of thread t.
RunResults(t) == IF started[t] THEN {TRUE, FALSE} ELSE {TRUE}

\* One turn of a "for all pipelines but mine" loop of audio_reset.
NextIdx(t) == idx' = [idx EXCEPT ![t] = @ + 1]
LoopDone(t, next) ==
  /\ idx[t] >= pipeline_count
  /\ idx' = [idx EXCEPT ![t] = 0]
  /\ GoTo(t, next)

-----------------------------------------------------------------------------
(* Data thread: data_task, play_pipeline_run and audio_reset               *)

Receive(t) ==
  /\ pc[t] = "receive"
  /\ mqueue[t] # <<>>
  /\ event' = [event EXCEPT ![t] = Head(mqueue[t])]
  /\ mqueue' = [mqueue EXCEPT ![t] = Tail(@)]
  /\ GoTo(t, "lock")
  /\ UNCHANGED <<appVars, ctrlVars, idx, started, mutex, async_sem, reset_mut,
                 irq, isr, covered>>

Lock(t) ==
  /\ pc[t] = "lock"
  /\ mutex[t] = "free"
  /\ mutex' = [mutex EXCEPT ![t] = "data"]
  /\ GoTo(t, "check")
  /\ UNCHANGED <<appVars, ctrlVars, event, idx, started, mqueue, async_sem,
                 reset_mut, irq, isr, covered>>

\* Variant: a thread that finds no handler goes back to its queue at once.
CheckHandlerKeepsMutex(t) ==
  /\ pc[t] = "check"
  /\ GoTo(t, IF handler THEN "run" ELSE "receive")
  /\ UNCHANGED <<appVars, ctrlVars, event, idx, started, mqueue, mutex,
                 async_sem, reset_mut, irq, isr, covered>>

\* if (ctx->handler)
CheckHandler(t) ==
  /\ pc[t] = "check"
  /\ GoTo(t, IF handler THEN "run" ELSE "unlock")
  /\ UNCHANGED <<appVars, ctrlVars, event, idx, started, mqueue, mutex,
                 async_sem, reset_mut, irq, isr, covered>>

\* Variant: the interrupt stays masked after a successful run.
RunDataStaysMasked(t) ==
  /\ pc[t] = "run"
  /\ event[t] = "DATA"
  /\ \E ok \in RunResults(t) :
       /\ started' = [started EXCEPT ![t] = TRUE]
       /\ GoTo(t, IF ok THEN "unlock" ELSE "trylock")
  /\ UNCHANGED <<appVars, ctrlVars, event, idx, mqueue, mutex, async_sem,
                 reset_mut, irq, isr, covered>>

\* handler->run on a DATA event.  On success thread 0 unmasks the interrupt.
RunData(t) ==
  /\ pc[t] = "run"
  /\ event[t] = "DATA"
  /\ \E ok \in RunResults(t) :
       /\ started' = [started EXCEPT ![t] = TRUE]
       /\ irq' = (irq \/ (ok /\ t = 0))
       /\ GoTo(t, IF ok THEN "unlock" ELSE "trylock")
  /\ UNCHANGED <<appVars, ctrlVars, event, idx, mqueue, mutex, async_sem,
                 reset_mut, isr, covered>>

\* Variant: the asynchronous reset is not acknowledged.
RunResetAsyncSilent(t) ==
  /\ pc[t] = "run"
  /\ event[t] = "RESET_ASYNC"
  /\ started' = [started EXCEPT ![t] = FALSE]
  /\ covered' = covered \cup {t}
  /\ GoTo(t, "unlock")
  /\ UNCHANGED <<appVars, ctrlVars, event, idx, mqueue, mutex, async_sem,
                 reset_mut, irq, isr>>

\* handler->run on a RESET_ASYNC event.
RunResetAsync(t) ==
  /\ pc[t] = "run"
  /\ event[t] = "RESET_ASYNC"
  /\ started' = [started EXCEPT ![t] = FALSE]
  /\ async_sem' = [async_sem EXCEPT ![t] = @ + 1]
  /\ covered' = covered \cup {t}
  /\ GoTo(t, "unlock")
  /\ UNCHANGED <<appVars, ctrlVars, event, idx, mqueue, mutex, reset_mut, irq,
                 isr>>

\* audio_reset: take reset_mut without waiting, or give up.
TryLockReset(t) ==
  /\ pc[t] = "trylock"
  /\ IF reset_mut = NoOwner
     THEN reset_mut' = t /\ covered' = {} /\ GoTo(t, "reset_self")
     ELSE UNCHANGED <<reset_mut, covered>> /\ GoTo(t, "unlock")
  /\ UNCHANGED <<appVars, ctrlVars, event, idx, started, mqueue, mutex,
                 async_sem, irq, isr>>

\* Variant: the initiator resets the others only.
ResetSelfMissing(t) ==
  /\ pc[t] = "reset_self"
  /\ covered' = covered \cup {t}
  /\ idx' = [idx EXCEPT ![t] = 0]
  /\ GoTo(t, "send_reset")
  /\ UNCHANGED <<appVars, ctrlVars, event, started, mqueue, mutex, async_sem,
                 reset_mut, irq, isr>>

ResetSelf(t) ==
  /\ pc[t] = "reset_self"
  /\ started' = [started EXCEPT ![t] = FALSE]
  /\ covered' = covered \cup {t}
  /\ idx' = [idx EXCEPT ![t] = 0]
  /\ GoTo(t, "send_reset")
  /\ UNCHANGED <<appVars, ctrlVars, event, mqueue, mutex, async_sem, reset_mut,
                 irq, isr>>

\* Variant: the reset request is posted twice.
SendResetTwice(t) ==
  /\ pc[t] = "send_reset"
  /\ \/ /\ idx[t] < pipeline_count
        /\ mqueue' = [mqueue EXCEPT ![idx[t]] =
             IF idx[t] # t /\ Len(@) + 1 < QLen
             THEN @ \o <<"RESET_ASYNC", "RESET_ASYNC">> ELSE @]
        /\ NextIdx(t)
        /\ UNCHANGED pc
     \/ LoopDone(t, "wait") /\ UNCHANGED mqueue
  /\ UNCHANGED <<appVars, ctrlVars, event, started, mutex, async_sem,
                 reset_mut, irq, isr, covered>>

SendReset(t) ==
  /\ pc[t] = "send_reset"
  /\ \/ /\ idx[t] < pipeline_count
        /\ IF idx[t] = t THEN UNCHANGED mqueue ELSE Send(idx[t], "RESET_ASYNC")
        /\ NextIdx(t)
        /\ UNCHANGED pc
     \/ LoopDone(t, "wait") /\ UNCHANGED mqueue
  /\ UNCHANGED <<appVars, ctrlVars, event, started, mutex, async_sem,
                 reset_mut, irq, isr, covered>>

\* Variant: the semaphores are polled instead of waited for.
WaitResetPolls(t) ==
  /\ pc[t] = "wait"
  /\ \/ /\ idx[t] < pipeline_count
        /\ async_sem' = [async_sem EXCEPT ![idx[t]] =
             IF idx[t] # t /\ @ > 0 THEN @ - 1 ELSE @]
        /\ NextIdx(t)
        /\ UNCHANGED pc
     \/ LoopDone(t, "restart") /\ UNCHANGED async_sem
  /\ UNCHANGED <<appVars, ctrlVars, event, started, mqueue, mutex, reset_mut,
                 irq, isr, covered>>

\* rtos_sem_take with RTOS_WAIT_FOREVER on every other thread's semaphore.
WaitReset(t) ==
  /\ pc[t] = "wait"
  /\ \/ /\ idx[t] < pipeline_count
        /\ IF idx[t] = t
           THEN UNCHANGED async_sem
           ELSE /\ async_sem[idx[t]] > 0
                /\ async_sem' = [async_sem EXCEPT ![idx[t]] = @ - 1]
        /\ NextIdx(t)
        /\ UNCHANGED pc
     \/ LoopDone(t, "restart") /\ UNCHANGED async_sem
  /\ UNCHANGED <<appVars, ctrlVars, event, started, mqueue, mutex, reset_mut,
                 irq, isr, covered>>

\* Variant: the initiator leaves the interrupt masked.
RestartStaysMasked(t) ==
  /\ pc[t] = "restart"
  /\ \E ok \in RunResults(t) :
       /\ started' = [started EXCEPT ![t] = TRUE]
       /\ GoTo(t, IF ok THEN "send_restart" ELSE "halted")
  /\ UNCHANGED <<appVars, ctrlVars, event, idx, mqueue, mutex, async_sem,
                 reset_mut, irq, isr, covered>>

\* The initiator's own run; a failure is the assertion "handler couldn't
\* restart".  Thread 0 unmasks the interrupt before the others are restarted.
Restart(t) ==
  /\ pc[t] = "restart"
  /\ \E ok \in RunResults(t) :
       /\ started' = [started EXCEPT ![t] = TRUE]
       /\ irq' = (irq \/ (ok /\ t = 0))
       /\ GoTo(t, IF ok THEN "send_restart" ELSE "halted")
  /\ UNCHANGED <<appVars, ctrlVars, event, idx, mqueue, mutex, async_sem,
                 reset_mut, isr, covered>>

SendRestart(t) ==
  /\ pc[t] = "send_restart"
  /\ \/ /\ idx[t] < pipeline_count
        /\ IF idx[t] = t THEN UNCHANGED mqueue ELSE Send(idx[t], "DATA")
        /\ NextIdx(t)
        /\ UNCHANGED pc
     \/ LoopDone(t, "unlock_reset") /\ UNCHANGED mqueue
  /\ UNCHANGED <<appVars, ctrlVars, event, started, mutex, async_sem,
                 reset_mut, irq, isr, covered>>

UnlockReset(t) ==
  /\ pc[t] = "unlock_reset"
  /\ reset_mut' = NoOwner
  /\ GoTo(t, "unlock")
  /\ UNCHANGED <<appVars, ctrlVars, event, idx, started, mqueue, mutex,
                 async_sem, irq, isr, covered>>

Unlock(t) ==
  /\ pc[t] = "unlock"
  /\ mutex' = [mutex EXCEPT ![t] = "free"]
  /\ GoTo(t, "receive")
  /\ UNCHANGED <<appVars, ctrlVars, event, idx, started, mqueue, async_sem,
                 reset_mut, irq, isr, covered>>

DataTask(t) ==
  \/ Receive(t) \/ Lock(t) \/ CheckHandler(t) \/ RunData(t)
  \/ RunResetAsync(t) \/ TryLockReset(t) \/ ResetSelf(t) \/ SendReset(t)
  \/ WaitReset(t) \/ Restart(t) \/ SendRestart(t) \/ UnlockReset(t) \/ Unlock(t)

-----------------------------------------------------------------------------
(* SAI interrupt: rx_callback and data_send_event.  The threads run on     *)
(* other cores, so they may act between two sends of the interrupt.        *)

Interrupt ==
  /\ irq /\ sai_open
  /\ isr = Idle
  /\ irq' = FALSE
  /\ isr' = 0
  /\ UNCHANGED <<appVars, ctrlVars, threadVars, started, mqueue, mutex,
                 async_sem, reset_mut, covered>>

InterruptSend ==
  /\ isr # Idle
  /\ IF isr < pipeline_count
     THEN Send(isr, "DATA") /\ isr' = isr + 1
     ELSE UNCHANGED mqueue /\ isr' = Idle
  /\ UNCHANGED <<appVars, ctrlVars, threadVars, started, mutex, async_sem,
                 reset_mut, irq, covered>>

-----------------------------------------------------------------------------
(* Control thread: audio_run and audio_stop.  A RUN while running and a    *)
(* STOP while stopped change nothing.                                      *)

CtrlGoTo(where) == cpc' = where /\ ci' = 0

CommandRun(n) ==
  /\ cpc = "idle"
  /\ ~handler
  /\ CtrlGoTo("init")
  /\ ccount' = n
  /\ UNCHANGED <<appVars, threadVars, started, mqueue, mutex, async_sem,
                 reset_mut, irq, isr, covered>>

\* play_pipeline_init of pipeline ci.  A failure leaves audio_run at once:
\* the pipelines initialised before are kept.
InitPipeline ==
  /\ cpc = "init"
  /\ ci < ccount
  /\ \/ /\ handle' = [handle EXCEPT ![ci] = "live"]
        /\ started' = [started EXCEPT ![ci] = FALSE]
        /\ ci' = ci + 1
        /\ UNCHANGED cpc
     \/ /\ handle' = [handle EXCEPT ![ci] = "none"]
        /\ CtrlGoTo("idle")
        /\ UNCHANGED started
  /\ UNCHANGED <<handler, pipeline_count, sai_open, ccount, threadVars, mqueue,
                 mutex, async_sem, reset_mut, irq, isr, covered>>

SaiSetup ==
  /\ cpc = "init"
  /\ ci = ccount
  /\ \/ sai_open' = TRUE /\ CtrlGoTo("run_lock")
     \/ UNCHANGED sai_open /\ CtrlGoTo("idle")
  /\ UNCHANGED <<handler, pipeline_count, handle, ccount, threadVars, started,
                 mqueue, mutex, async_sem, reset_mut, irq, isr, covered>>

\* The mutexes of the pipelines are taken in the order of the threads.
CtrlLock(where, count) ==
  /\ cpc = where
  /\ ci < count
  /\ mutex[ci] = "free"
  /\ mutex' = [mutex EXCEPT ![ci] = "ctrl"]
  /\ ci' = ci + 1
  /\ UNCHANGED <<appVars, cpc, ccount, threadVars, started, mqueue, async_sem,
                 reset_mut, irq, isr, covered>>

CtrlUnlock(where, count, next) ==
  /\ cpc = where
  /\ IF ci < count
     THEN mutex' = [mutex EXCEPT ![ci] = "free"] /\ ci' = ci + 1 /\ UNCHANGED cpc
     ELSE CtrlGoTo(next) /\ UNCHANGED mutex
  /\ UNCHANGED <<appVars, ccount, threadVars, started, mqueue, async_sem,
                 reset_mut, irq, isr, covered>>

RunLock == CtrlLock("run_lock", ccount)

SetHandler ==
  /\ cpc = "run_lock"
  /\ ci = ccount
  /\ handler' = TRUE
  /\ pipeline_count' = ccount
  /\ CtrlGoTo("run_unlock")
  /\ UNCHANGED <<handle, sai_open, ccount, threadVars, started, mqueue, mutex,
                 async_sem, reset_mut, irq, isr, covered>>

RunUnlock == CtrlUnlock("run_unlock", ccount, "kick")

\* The first event of every thread.
Kick ==
  /\ cpc = "kick"
  /\ IF ci < ccount
     THEN Send(ci, "DATA") /\ ci' = ci + 1 /\ UNCHANGED cpc
     ELSE CtrlGoTo("idle") /\ UNCHANGED mqueue
  /\ UNCHANGED <<appVars, ccount, threadVars, started, mutex, async_sem,
                 reset_mut, irq, isr, covered>>

\* Variant: the handler is cleared without waiting for the data threads.
CommandStopUnlocked ==
  /\ ClientStops
  /\ cpc = "idle"
  /\ handler
  /\ handler' = FALSE
  /\ CtrlGoTo("exit")
  /\ UNCHANGED <<pipeline_count, handle, sai_open, ccount, threadVars, started,
                 mqueue, mutex, async_sem, reset_mut, irq, isr, covered>>

CommandStop ==
  /\ ClientStops
  /\ cpc = "idle"
  /\ handler
  /\ CtrlGoTo("stop_lock")
  /\ UNCHANGED <<appVars, ccount, threadVars, started, mqueue, mutex,
                 async_sem, reset_mut, irq, isr, covered>>

\* Variant: only the parent's mutex is taken.
StopLockParent ==
  /\ cpc = "stop_lock"
  /\ ci < pipeline_count
  /\ mutex[0] = "free"
  /\ mutex' = [mutex EXCEPT ![0] = "ctrl"]
  /\ ci' = pipeline_count
  /\ UNCHANGED <<appVars, cpc, ccount, threadVars, started, mqueue, async_sem,
                 reset_mut, irq, isr, covered>>

StopLock == CtrlLock("stop_lock", pipeline_count)

ClearHandler ==
  /\ cpc = "stop_lock"
  /\ ci = pipeline_count
  /\ handler' = FALSE
  /\ CtrlGoTo("stop_unlock")
  /\ UNCHANGED <<pipeline_count, handle, sai_open, ccount, threadVars, started,
                 mqueue, mutex, async_sem, reset_mut, irq, isr, covered>>

StopUnlock == CtrlUnlock("stop_unlock", pipeline_count, "exit")

\* handler->exit of every pipeline, then sai_close.
ExitPipeline ==
  /\ cpc = "exit"
  /\ IF ci < pipeline_count
     THEN handle' = [handle EXCEPT ![ci] = "freed"] /\ ci' = ci + 1 /\ UNCHANGED cpc
     ELSE CtrlGoTo("close") /\ UNCHANGED handle
  /\ UNCHANGED <<handler, pipeline_count, sai_open, ccount, threadVars, started,
                 mqueue, mutex, async_sem, reset_mut, irq, isr, covered>>

SaiClose ==
  /\ cpc = "close"
  /\ sai_open' = FALSE
  /\ irq' = FALSE
  /\ CtrlGoTo("idle")
  /\ UNCHANGED <<handler, pipeline_count, handle, ccount, threadVars, started,
                 mqueue, mutex, async_sem, reset_mut, isr, covered>>

CtrlTask ==
  \/ \E n \in PipelineCounts : CommandRun(n)
  \/ InitPipeline \/ SaiSetup \/ RunLock \/ SetHandler \/ RunUnlock \/ Kick
  \/ CommandStop \/ StopLock \/ ClearHandler \/ StopUnlock \/ ExitPipeline
  \/ SaiClose

Next ==
  \/ \E t \in Thread : DataTask(t)
  \/ Interrupt
  \/ InterruptSend
  \/ CtrlTask

Spec == Init /\ [][Next]_vars

\* Fairness.  Threads are scheduled and interrupts are served (WF).  A mutex or
\* a semaphore the control thread contends for is handed over when it is
\* released: the data thread blocks on its queue after every event, and the
\* kernel wakes the waiting control thread (SF on the two locking loops).
\* Nothing makes a client send commands.
Fairness ==
  /\ \A t \in Thread : WF_vars(DataTask(t))
  /\ WF_vars(Interrupt)
  /\ WF_vars(InterruptSend)
  /\ WF_vars(CtrlTask /\ cpc # "idle")
  /\ SF_vars(RunLock)
  /\ SF_vars(StopLock)

FairSpec == Spec /\ Fairness

-----------------------------------------------------------------------------
(* Properties                                                              *)

\* Every variable has its type.
TypeCtrl ==
  /\ handler \in BOOLEAN
  /\ pipeline_count \in 0..N
  /\ handle \in [Thread -> {"none", "live", "freed"}]
  /\ sai_open \in BOOLEAN
  /\ cpc \in CPC
  /\ ci \in 0..N
  /\ ccount \in 0..N

TypeThread ==
  /\ pc \in [Thread -> PC]
  /\ event \in [Thread -> Event]
  /\ idx \in [Thread -> Nat]

TypeShared ==
  /\ started \in [Thread -> BOOLEAN]
  /\ mqueue \in [Thread -> Seq(Event)]
  /\ mutex \in [Thread -> {"free", "data", "ctrl"}]
  /\ async_sem \in [Thread -> Nat]
  /\ reset_mut \in Thread \cup {NoOwner}
  /\ irq \in BOOLEAN
  /\ isr \in Nat \cup {Idle}
  /\ covered \in SUBSET Thread

TypeOK == TypeCtrl /\ TypeThread /\ TypeShared

\* A data thread inside a handler call works on a pipeline that exists:
\* audio_stop never frees the pipeline of an active thread under its feet.
NoUseAfterExit ==
  \A t \in Thread : pc[t] \in InHandler /\ t < pipeline_count => handle[t] = "live"

\* The same without looking at pipeline_count: "pipeline_ctx handle for current
\* thread" (audio.c:53).  A thread left over from a wider configuration breaks it.
HandleIsCurrent ==
  \A t \in Thread : pc[t] \in InHandler => handle[t] = "live"

\* The interrupt of a closed SAI device is never left unmasked: no data thread
\* unmasks it after sai_close.
IrqOnlyWhileOpen == irq => sai_open

\* At most one thread runs the reset protocol, the one reset_mut says.
InReset == InHandler \ {"run", "trylock"}
ResetExclusive ==
  \A t \in Thread : pc[t] \in InReset => reset_mut = t

\* The strengthening of NoUseAfterExit and IrqOnlyWhileOpen that every step
\* keeps: who owns the mutexes, and what is set up while the handler is set.
MutexesHeld ==
  /\ \A t \in Thread : pc[t] \in InMutex => mutex[t] = "data"
  /\ cpc \in {"run_lock", "stop_lock"} =>
       \A t \in Thread : t < ci => mutex[t] = "ctrl"
  /\ cpc = "run_unlock" =>
       \A t \in Thread : ci <= t /\ t < ccount => mutex[t] = "ctrl"
  /\ cpc = "stop_unlock" =>
       \A t \in Thread : ci <= t /\ t < pipeline_count => mutex[t] = "ctrl"

CommandState ==
  /\ cpc \in {"init", "run_lock", "stop_unlock", "exit", "close"} => ~handler
  /\ cpc = "stop_lock" => handler
  /\ cpc \in {"init", "run_lock"} => ccount > 0
  /\ cpc = "init" => \A t \in Thread : t < ci => handle[t] = "live"
  /\ cpc = "run_lock" => sai_open /\ \A t \in Thread : t < ccount => handle[t] = "live"
  /\ cpc = "run_unlock" => ccount = pipeline_count

HandlerState ==
  /\ handler =>
       /\ sai_open
       /\ pipeline_count > 0
       /\ \A t \in Thread : t < pipeline_count => handle[t] = "live"
  /\ \A t \in Thread :
       pc[t] \in InHandler => pipeline_count > 0 /\ (t < pipeline_count => handler)

SafetyInv == MutexesHeld /\ CommandState /\ HandlerState /\ IrqOnlyWhileOpen

\* The assertion of audio_reset, "handler couldn't restart", never fires: the
\* initiator's pipeline is still in its reset state when it is run again.
RestartSucceeds == \A t \in Thread : pc[t] # "halted"

\* When the initiator restarts, every active pipeline has been reset since it
\* took reset_mut (the rendezvous of RESET_ASYNC events and semaphores).
ResetBarrier ==
  \A t \in Thread : pc[t] = "restart" => 0..(pipeline_count - 1) \subseteq covered

\* No trace of a finished reset is left behind: outside the protocol no
\* semaphore is given and no RESET_ASYNC is on its way, so that the next
\* initiator cannot take an old completion for a new one.
NoStaleCompletion ==
  reset_mut = NoOwner =>
    \A t \in Thread :
      /\ async_sem[t] = 0
      /\ \A k \in DOMAIN mqueue[t] : mqueue[t][k] = "DATA"
      /\ pc[t] \in {"lock", "check", "run"} => event[t] = "DATA"

\* While the application runs, the parent pipeline has a wake-up to come: the
\* interrupt is unmasked, or it is being served, or an event is queued or in
\* processing.  (One pipeline.)
WakeUpPending ==
  handler /\ cpc \in {"idle", "stop_lock"} =>
    \/ irq
    \/ isr = 0
    \/ mqueue[0] # <<>>
    \/ pc[0] \notin {"receive", "unlock"}

\* A running parent pipeline is run again and again until it is stopped.
Streaming == handler ~> (pc[0] = "run" \/ ~handler)

\* Every RUN and every STOP command is finished.
CommandsFinish == (cpc # "idle") ~> (cpc = "idle")

\* A pipeline whose reset was requested is reset: an initiator that waits for a
\* thread with a RESET_ASYNC in its queue gets past it, unless a STOP interferes.
RequestedReset ==
  \A t \in Thread, j \in Thread :
    (/\ pc[t] = "wait" /\ idx[t] = j /\ j # t
     /\ \E k \in DOMAIN mqueue[j] : mqueue[j][k] = "RESET_ASYNC")
      ~> (~(pc[t] = "wait" /\ idx[t] = j) \/ cpc = "stop_lock")

\* "wait for asynchronous reset execution" (audio.c:278): the wait of an
\* initiator ends.
ResetCompletes == \A t \in Thread : (pc[t] = "wait") ~> (pc[t] = "restart")
=============================================================================
