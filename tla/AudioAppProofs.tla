---------------------------- MODULE AudioAppProofs ----------------------------
(***************************************************************************)
(* Proofs about AudioApp, for any number of threads and any queue depth.   *)
(*                                                                         *)
(* Types first, then what outlives what: mutexes, pipelines, interrupt.    *)
(* Then the reset protocol of audio_reset, a rendezvous: who restarts has  *)
(* reset everybody, and a finished reset leaves nothing behind.  At last   *)
(* the wake-ups of a single pipeline, which no lost event puts to sleep.   *)
(***************************************************************************)
EXTENDS AudioApp, TLAPS

\* The constants the places and the events range over.
LEMMA PCValues ==
  /\ "receive" \in PC
  /\ "lock" \in PC
  /\ "check" \in PC
  /\ "unlock" \in PC
  /\ "halted" \in PC
  /\ "run" \in PC
  /\ "trylock" \in PC
  /\ "reset_self" \in PC
  /\ "send_reset" \in PC
  /\ "wait" \in PC
  /\ "restart" \in PC
  /\ "send_restart" \in PC
  /\ "unlock_reset" \in PC
BY DEF PC, InMutex, InHandler

LEMMA CPCValues ==
  /\ "idle" \in CPC
  /\ "init" \in CPC
  /\ "run_lock" \in CPC
  /\ "run_unlock" \in CPC
  /\ "kick" \in CPC
  /\ "stop_lock" \in CPC
  /\ "stop_unlock" \in CPC
  /\ "exit" \in CPC
  /\ "close" \in CPC
BY DEF CPC

LEMMA EventValues == "DATA" \in Event /\ "RESET_ASYNC" \in Event
BY DEF Event

LEMMA ThreadRange == \A i : i \in Thread <=> i \in 0..(N - 1)
BY DEF Thread

LEMMA NoOwnerIsNoThread == NoOwner \notin Thread
BY DEF NoOwner, Thread

LEMMA HandlerCallsHoldMutex == InHandler \subseteq InMutex
BY DEF InMutex

LEMMA ZeroInRange == 0 \in 0..N
BY NAssumption

LEMMA CountUp == \A i, m \in 0..N : i < m => i + 1 \in 0..N
BY NAssumption

\* Posting an event keeps the queues well-formed, full or not.
LEMMA SendType ==
  ASSUME mqueue \in [Thread -> Seq(Event)], NEW i, NEW e \in Event, Send(i, e)
  PROVE  mqueue' \in [Thread -> Seq(Event)]
<1> DEFINE new == IF Len(mqueue[i]) < QLen THEN Append(mqueue[i], e) ELSE mqueue[i]
<1>1. CASE i \in Thread
  <2>1. new \in Seq(Event)
    BY <1>1
  <2>2. mqueue' = [mqueue EXCEPT ![i] = new]
    BY DEF Send
  <2>3. QED
    BY <1>1, <2>1, <2>2
<1>2. CASE i \notin Thread
  BY <1>2 DEF Send
<1>3. QED
  BY <1>1, <1>2

\* What the three parties leave alone.
LEMMA ThreadFrame ==
  ASSUME NEW t \in Thread, DataTask(t)
  PROVE  UNCHANGED <<handler, pipeline_count, handle, sai_open, cpc, ci, ccount, isr>>
BY DEF DataTask, Receive, Lock, CheckHandler, RunData, RunResetAsync,
       TryLockReset, ResetSelf, SendReset, WaitReset, Restart, SendRestart,
       UnlockReset, Unlock, appVars, ctrlVars

LEMMA CtrlFrame ==
  ASSUME CtrlTask
  PROVE  UNCHANGED <<pc, event, idx, async_sem, reset_mut, isr, covered>>
BY DEF CtrlTask, CommandRun, InitPipeline, SaiSetup, RunLock, SetHandler,
       RunUnlock, Kick, CommandStop, StopLock, ClearHandler, StopUnlock,
       ExitPipeline, SaiClose, CtrlLock, CtrlUnlock, threadVars

LEMMA InterruptFrame ==
  ASSUME Interrupt \/ InterruptSend
  PROVE  UNCHANGED <<handler, pipeline_count, handle, sai_open, cpc, ci, ccount,
                     pc, event, idx, started, mutex, async_sem, reset_mut, covered>>
BY DEF Interrupt, InterruptSend, appVars, ctrlVars, threadVars

-----------------------------------------------------------------------------
(* Type correctness, one group of variables at a time                      *)

LEMMA TypeInit == Init => TypeOK
<1> SUFFICES ASSUME Init PROVE TypeOK
  OBVIOUS
<1>1. TypeCtrl
  BY ZeroInRange, CPCValues DEF Init, TypeCtrl
<1>2. pc \in [Thread -> PC] /\ event \in [Thread -> Event]
  BY PCValues, EventValues DEF Init
<1>3. idx \in [Thread -> Nat] /\ async_sem \in [Thread -> Nat]
  BY DEF Init
<1>4. started \in [Thread -> BOOLEAN] /\ mqueue \in [Thread -> Seq(Event)]
  BY DEF Init
<1>5. mutex \in [Thread -> {"free", "data", "ctrl"}]
  BY DEF Init
<1>6. reset_mut \in Thread \cup {NoOwner} /\ irq \in BOOLEAN
      /\ isr \in Nat \cup {Idle} /\ covered \in SUBSET Thread
  BY DEF Init
<1>7. QED
  BY <1>1, <1>2, <1>3, <1>4, <1>5, <1>6 DEF TypeOK, TypeThread, TypeShared

LEMMA TypeDataTask ==
  ASSUME TypeOK, NEW t \in Thread, DataTask(t)
  PROVE  TypeOK'
<1> USE DEF TypeOK, GoTo, NextIdx, LoopDone, RunResults
<1>1. TypeCtrl'
  BY ThreadFrame DEF TypeCtrl
<1>2. TypeThread'
  <2> USE PCValues DEF TypeThread
  <2>1. CASE Receive(t)
    BY <2>1 DEF Receive, TypeShared
  <2>2. CASE Lock(t)
    BY <2>2 DEF Lock
  <2>3. CASE CheckHandler(t)
    BY <2>3 DEF CheckHandler
  <2>4. CASE RunData(t)
    BY <2>4 DEF RunData
  <2>5. CASE RunResetAsync(t)
    BY <2>5 DEF RunResetAsync
  <2>6. CASE TryLockReset(t)
    BY <2>6 DEF TryLockReset
  <2>7. CASE ResetSelf(t)
    BY <2>7 DEF ResetSelf
  <2>8. CASE SendReset(t)
    BY <2>8 DEF SendReset
  <2>9. CASE WaitReset(t)
    BY <2>9 DEF WaitReset
  <2>10. CASE Restart(t)
    BY <2>10 DEF Restart
  <2>11. CASE SendRestart(t)
    BY <2>11 DEF SendRestart
  <2>12. CASE UnlockReset(t)
    BY <2>12 DEF UnlockReset
  <2>13. CASE Unlock(t)
    BY <2>13 DEF Unlock
  <2>14. QED
    BY <2>1, <2>2, <2>3, <2>4, <2>5, <2>6, <2>7, <2>8, <2>9, <2>10, <2>11, <2>12, <2>13 DEF DataTask
<1>3. TypeShared'
  <2> USE EventValues DEF TypeShared
  <2>1. CASE Receive(t)
    BY <2>1 DEF Receive
  <2>2. CASE Lock(t)
    BY <2>2 DEF Lock
  <2>3. CASE CheckHandler(t)
    BY <2>3 DEF CheckHandler
  <2>4. CASE RunData(t)
    BY <2>4 DEF RunData
  <2>5. CASE RunResetAsync(t)
    BY <2>5 DEF RunResetAsync
  <2>6. CASE TryLockReset(t)
    BY <2>6 DEF TryLockReset
  <2>7. CASE ResetSelf(t)
    BY <2>7 DEF ResetSelf
  <2>8. CASE SendReset(t)
    BY <2>8, SendType DEF SendReset
  <2>9. CASE WaitReset(t)
    BY <2>9 DEF WaitReset
  <2>10. CASE Restart(t)
    BY <2>10 DEF Restart
  <2>11. CASE SendRestart(t)
    BY <2>11, SendType DEF SendRestart
  <2>12. CASE UnlockReset(t)
    BY <2>12 DEF UnlockReset
  <2>13. CASE Unlock(t)
    BY <2>13 DEF Unlock
  <2>14. QED
    BY <2>1, <2>2, <2>3, <2>4, <2>5, <2>6, <2>7, <2>8, <2>9, <2>10, <2>11, <2>12, <2>13 DEF DataTask
<1>4. QED
  BY <1>1, <1>2, <1>3

LEMMA TypeInterrupt ==
  ASSUME TypeOK, Interrupt \/ InterruptSend
  PROVE  TypeOK'
<1> USE DEF TypeOK
<1>1. TypeCtrl' /\ TypeThread'
  BY InterruptFrame DEF TypeCtrl, TypeThread
<1>2. TypeShared'
  <2>1. CASE Interrupt
    BY <2>1 DEF Interrupt, TypeShared
  <2>2. CASE InterruptSend
    BY <2>2, EventValues, SendType DEF InterruptSend, TypeShared, Idle
  <2>3. QED
    BY <2>1, <2>2
<1>3. QED
  BY <1>1, <1>2

LEMMA TypeCtrlTask ==
  ASSUME TypeOK, CtrlTask
  PROVE  TypeOK'
<1> USE DEF TypeOK, CtrlGoTo
<1>1. TypeThread'
  BY CtrlFrame DEF TypeThread
<1>2. TypeCtrl'
  <2> USE CPCValues, ZeroInRange, CountUp DEF TypeCtrl, appVars
  <2>1. ASSUME NEW n \in PipelineCounts, CommandRun(n) PROVE TypeCtrl'
    BY <2>1, PipelineCountsAssumption DEF CommandRun
  <2>2. CASE InitPipeline
    BY <2>2 DEF InitPipeline
  <2>3. CASE SaiSetup
    BY <2>3 DEF SaiSetup
  <2>4. CASE RunLock
    BY <2>4 DEF RunLock, CtrlLock
  <2>5. CASE SetHandler
    BY <2>5 DEF SetHandler
  <2>6. CASE RunUnlock
    BY <2>6 DEF RunUnlock, CtrlUnlock
  <2>7. CASE Kick
    BY <2>7 DEF Kick
  <2>8. CASE CommandStop
    BY <2>8 DEF CommandStop
  <2>9. CASE StopLock
    BY <2>9 DEF StopLock, CtrlLock
  <2>10. CASE ClearHandler
    BY <2>10 DEF ClearHandler
  <2>11. CASE StopUnlock
    BY <2>11 DEF StopUnlock, CtrlUnlock
  <2>12. CASE ExitPipeline
    BY <2>12 DEF ExitPipeline
  <2>13. CASE SaiClose
    BY <2>13 DEF SaiClose
  <2>14. QED
    BY <2>1, <2>2, <2>3, <2>4, <2>5, <2>6, <2>7, <2>8, <2>9, <2>10, <2>11, <2>12, <2>13 DEF CtrlTask
<1>3. TypeShared'
  <2> USE CtrlFrame, EventValues DEF TypeShared
  <2>1. ASSUME NEW n \in PipelineCounts, CommandRun(n) PROVE TypeShared'
    BY <2>1 DEF CommandRun
  <2>2. CASE InitPipeline
    BY <2>2 DEF InitPipeline
  <2>3. CASE SaiSetup
    BY <2>3 DEF SaiSetup
  <2>4. CASE RunLock
    BY <2>4 DEF RunLock, CtrlLock
  <2>5. CASE SetHandler
    BY <2>5 DEF SetHandler
  <2>6. CASE RunUnlock
    BY <2>6 DEF RunUnlock, CtrlUnlock
  <2>7. CASE Kick
    BY <2>7, SendType DEF Kick
  <2>8. CASE CommandStop
    BY <2>8 DEF CommandStop
  <2>9. CASE StopLock
    BY <2>9 DEF StopLock, CtrlLock
  <2>10. CASE ClearHandler
    BY <2>10 DEF ClearHandler
  <2>11. CASE StopUnlock
    BY <2>11 DEF StopUnlock, CtrlUnlock
  <2>12. CASE ExitPipeline
    BY <2>12 DEF ExitPipeline
  <2>13. CASE SaiClose
    BY <2>13 DEF SaiClose
  <2>14. QED
    BY <2>1, <2>2, <2>3, <2>4, <2>5, <2>6, <2>7, <2>8, <2>9, <2>10, <2>11, <2>12, <2>13 DEF CtrlTask
<1>4. QED
  BY <1>1, <1>2, <1>3

\* Every variable keeps its type, whatever the number of threads, the depth of
\* their queues and the configurations that are run.
THEOREM TypeCorrect == Spec => []TypeOK
<1>1. TypeOK /\ [Next]_vars => TypeOK'
  <2> SUFFICES ASSUME TypeOK, [Next]_vars PROVE TypeOK'
    OBVIOUS
  <2>1. CASE UNCHANGED vars
    BY <2>1 DEF vars, TypeOK, TypeCtrl, TypeThread, TypeShared
  <2>2. QED
    BY <2>1, TypeDataTask, TypeInterrupt, TypeCtrlTask DEF Next
<1>2. QED
  BY <1>1, TypeInit, PTL DEF Spec

-----------------------------------------------------------------------------
(* The pipelines and the interrupt outlive their users                     *)

\* A data thread moves only itself and its own mutex, and unmasks the
\* interrupt only as thread 0 inside a handler call.
LEMMA DataTaskMoves ==
  ASSUME TypeOK, NEW t \in Thread, DataTask(t)
  PROVE  /\ \A u \in Thread \ {t} : pc'[u] = pc[u] /\ mutex'[u] = mutex[u]
         /\ mutex'[t] \in {mutex[t], "data", "free"}
         /\ pc'[t] \in InMutex =>
              mutex'[t] = "data" \/ (pc[t] \in InMutex /\ mutex'[t] = mutex[t])
         /\ mutex'[t] # mutex[t] => mutex[t] = "free" \/ pc[t] \in InMutex
         /\ pc'[t] \in InHandler => pc[t] \in InHandler \/ handler
         /\ irq' # irq => t = 0 /\ pc[t] \in InHandler
<1> USE DEF TypeOK, TypeThread, TypeShared, GoTo, NextIdx, LoopDone, RunResults, InMutex, InHandler
<1>1. CASE Receive(t)
  BY <1>1 DEF Receive
<1>2. CASE Lock(t)
  <2>1. pc' = [pc EXCEPT ![t] = "check"] /\ mutex' = [mutex EXCEPT ![t] = "data"]
        /\ mutex[t] = "free" /\ irq' = irq
    BY <1>2 DEF Lock
  <2>2. pc'[t] = "check" /\ mutex'[t] = "data"
    BY <2>1
  <2>3. \A u \in Thread \ {t} : pc'[u] = pc[u] /\ mutex'[u] = mutex[u]
    BY <2>1
  <2>4. pc'[t] \notin InHandler
    BY <2>2
  <2>5. mutex[t] = "free" /\ irq' = irq
    BY <2>1
  <2> HIDE DEF InHandler, InMutex
  <2>6. QED
    BY <2>2, <2>3, <2>4, <2>5
<1>3. CASE CheckHandler(t)
  BY <1>3 DEF CheckHandler
<1>4. CASE RunData(t)
  BY <1>4 DEF RunData
<1>5. CASE RunResetAsync(t)
  BY <1>5 DEF RunResetAsync
<1>6. CASE TryLockReset(t)
  BY <1>6 DEF TryLockReset
<1>7. CASE ResetSelf(t)
  BY <1>7 DEF ResetSelf
<1>8. CASE SendReset(t)
  BY <1>8 DEF SendReset
<1>9. CASE WaitReset(t)
  BY <1>9 DEF WaitReset
<1>10. CASE Restart(t)
  BY <1>10 DEF Restart
<1>11. CASE SendRestart(t)
  BY <1>11 DEF SendRestart
<1>12. CASE UnlockReset(t)
  BY <1>12 DEF UnlockReset
<1>13. CASE Unlock(t)
  BY <1>13 DEF Unlock
<1>14. QED
  BY <1>1, <1>2, <1>3, <1>4, <1>5, <1>6, <1>7, <1>8, <1>9, <1>10, <1>11, <1>12, <1>13 DEF DataTask

LEMMA SafetyDataTask ==
  ASSUME TypeOK, SafetyInv, NEW t \in Thread, DataTask(t)
  PROVE  SafetyInv'
<1> USE ThreadFrame, DataTaskMoves DEF SafetyInv
<1>1. MutexesHeld'
  <2>1. \A u \in Thread : mutex[u] = "ctrl" => mutex'[u] = "ctrl"
    BY DEF MutexesHeld
  <2>2. \A u \in Thread : pc'[u] \in InMutex => mutex'[u] = "data"
    BY DEF MutexesHeld
  <2>3. QED
    BY <2>1, <2>2 DEF MutexesHeld
<1>2. CommandState'
  BY DEF CommandState
<1>3. HandlerState'
  BY DEF HandlerState
<1>4. IrqOnlyWhileOpen'
  BY ThreadRange, NAssumption DEF IrqOnlyWhileOpen, HandlerState, TypeOK, TypeCtrl
<1>5. QED
  BY <1>1, <1>2, <1>3, <1>4

LEMMA SafetyInterrupt ==
  ASSUME TypeOK, SafetyInv, Interrupt \/ InterruptSend
  PROVE  SafetyInv'
<1>1. irq' => irq
  BY DEF Interrupt, InterruptSend
<1>2. QED
  BY <1>1, InterruptFrame
     DEF SafetyInv, MutexesHeld, CommandState, HandlerState, IrqOnlyWhileOpen

\* The control thread's loops over the mutexes of the pipelines.
LEMMA LockLoop ==
  ASSUME TypeOK, MutexesHeld, NEW where \in {"run_lock", "stop_lock"},
         NEW count \in 0..N, CtrlLock(where, count)
  PROVE  MutexesHeld'
<1> USE DEF TypeOK, TypeCtrl, TypeShared, CtrlLock
<1>1. ci \in Thread /\ ci' = ci + 1 /\ cpc' = where /\ cpc = where
  BY NAssumption DEF Thread
<1>2. \A t \in Thread : mutex'[t] = IF t = ci THEN "ctrl" ELSE mutex[t]
  OBVIOUS
<1>3. \A t \in Thread : pc'[t] \in InMutex => mutex'[t] = "data"
  BY <1>2 DEF MutexesHeld, threadVars
<1>4. \A t \in Thread : t < ci' => mutex'[t] = "ctrl"
  BY <1>1, <1>2, ThreadRange DEF MutexesHeld
<1>5. QED
  BY <1>1, <1>3, <1>4 DEF MutexesHeld

LEMMA UnlockLoop ==
  ASSUME TypeOK, MutexesHeld, NEW where, NEW count \in 0..N, NEW next,
         \/ where = "run_unlock" /\ count = ccount /\ next = "kick"
         \/ where = "stop_unlock" /\ count = pipeline_count /\ next = "exit",
         CtrlUnlock(where, count, next)
  PROVE  MutexesHeld'
<1> USE DEF TypeOK, TypeCtrl, TypeShared, CtrlUnlock, CtrlGoTo, appVars, threadVars
<1>1. CASE ci >= count
  BY <1>1 DEF MutexesHeld
<1>2. CASE ci < count
  <2>1. ci \in Thread /\ ci' = ci + 1 /\ cpc' = where /\ cpc = where
    BY <1>2, NAssumption DEF Thread
  <2>2. \A t \in Thread : mutex'[t] = IF t = ci THEN "free" ELSE mutex[t]
    BY <1>2
  <2>3. \A t \in Thread : ci <= t /\ t < count => mutex[t] = "ctrl"
    BY <2>1 DEF MutexesHeld
  <2>4. mutex[ci] = "ctrl"
    BY <1>2, <2>1, <2>3, ThreadRange
  <2>5. \A t \in Thread : pc'[t] \in InMutex => mutex'[t] = "data"
    BY <2>2, <2>4 DEF MutexesHeld
  <2>6. \A t \in Thread : ci' <= t /\ t < count => mutex'[t] = "ctrl"
    BY <2>1, <2>2, <2>3, ThreadRange
  <2>7. UNCHANGED <<ccount, pipeline_count>>
    OBVIOUS
  <2>8. QED
    BY <2>1, <2>5, <2>6, <2>7 DEF MutexesHeld
<1>3. QED
  BY <1>1, <1>2

LEMMA SafetyCtrlTask ==
  ASSUME TypeOK, SafetyInv, CtrlTask
  PROVE  SafetyInv'
<1> USE CtrlFrame, ThreadRange DEF SafetyInv, CtrlGoTo, TypeOK, TypeCtrl, appVars
<1>1. ASSUME NEW n \in PipelineCounts, CommandRun(n) PROVE SafetyInv'
  BY <1>1, PipelineCountsAssumption, NAssumption
     DEF CommandRun, MutexesHeld, CommandState, HandlerState, IrqOnlyWhileOpen
<1>2. CASE InitPipeline
  <2>1. MutexesHeld'
    BY <1>2 DEF InitPipeline, MutexesHeld
  <2>2. CommandState'
    BY <1>2 DEF InitPipeline, CommandState
  <2>3. HandlerState'
    BY <1>2 DEF InitPipeline, HandlerState, CommandState
  <2>4. IrqOnlyWhileOpen'
    BY <1>2 DEF InitPipeline, IrqOnlyWhileOpen
  <2>5. QED
    BY <2>1, <2>2, <2>3, <2>4
<1>3. CASE SaiSetup
  <2>1. MutexesHeld'
    BY <1>3 DEF SaiSetup, MutexesHeld
  <2>2. CommandState'
    BY <1>3 DEF SaiSetup, CommandState
  <2>3. HandlerState'
    BY <1>3 DEF SaiSetup, HandlerState
  <2>4. IrqOnlyWhileOpen'
    BY <1>3 DEF SaiSetup, IrqOnlyWhileOpen
  <2>5. QED
    BY <2>1, <2>2, <2>3, <2>4
<1>4. CASE RunLock
  <2>1. MutexesHeld'
    BY <1>4, LockLoop DEF RunLock
  <2>2. CommandState'
    BY <1>4 DEF RunLock, CtrlLock, CommandState
  <2>3. HandlerState'
    BY <1>4 DEF RunLock, CtrlLock, HandlerState
  <2>4. IrqOnlyWhileOpen'
    BY <1>4 DEF RunLock, CtrlLock, IrqOnlyWhileOpen
  <2>5. QED
    BY <2>1, <2>2, <2>3, <2>4
<1>5. CASE SetHandler
  <2>1. MutexesHeld'
    BY <1>5 DEF SetHandler, MutexesHeld
  <2>2. CommandState'
    BY <1>5 DEF SetHandler, CommandState
  <2>3. HandlerState'
    BY <1>5 DEF SetHandler, HandlerState, CommandState
  <2>4. IrqOnlyWhileOpen'
    BY <1>5 DEF SetHandler, IrqOnlyWhileOpen
  <2>5. QED
    BY <2>1, <2>2, <2>3, <2>4
<1>6. CASE RunUnlock
  <2>1. MutexesHeld'
    BY <1>6, UnlockLoop DEF RunUnlock
  <2>2. CommandState'
    BY <1>6 DEF RunUnlock, CtrlUnlock, CommandState
  <2>3. HandlerState'
    BY <1>6 DEF RunUnlock, CtrlUnlock, HandlerState
  <2>4. IrqOnlyWhileOpen'
    BY <1>6 DEF RunUnlock, CtrlUnlock, IrqOnlyWhileOpen
  <2>5. QED
    BY <2>1, <2>2, <2>3, <2>4
<1>7. CASE Kick
  <2>1. MutexesHeld'
    BY <1>7 DEF Kick, MutexesHeld
  <2>2. CommandState'
    BY <1>7 DEF Kick, CommandState
  <2>3. HandlerState'
    BY <1>7 DEF Kick, HandlerState
  <2>4. IrqOnlyWhileOpen'
    BY <1>7 DEF Kick, IrqOnlyWhileOpen
  <2>5. QED
    BY <2>1, <2>2, <2>3, <2>4
<1>8. CASE CommandStop
  <2>1. MutexesHeld'
    BY <1>8 DEF CommandStop, MutexesHeld
  <2>2. CommandState'
    BY <1>8 DEF CommandStop, CommandState
  <2>3. HandlerState'
    BY <1>8 DEF CommandStop, HandlerState
  <2>4. IrqOnlyWhileOpen'
    BY <1>8 DEF CommandStop, IrqOnlyWhileOpen
  <2>5. QED
    BY <2>1, <2>2, <2>3, <2>4
<1>9. CASE StopLock
  <2>1. MutexesHeld'
    BY <1>9, LockLoop DEF StopLock
  <2>2. CommandState'
    BY <1>9 DEF StopLock, CtrlLock, CommandState
  <2>3. HandlerState'
    BY <1>9 DEF StopLock, CtrlLock, HandlerState
  <2>4. IrqOnlyWhileOpen'
    BY <1>9 DEF StopLock, CtrlLock, IrqOnlyWhileOpen
  <2>5. QED
    BY <2>1, <2>2, <2>3, <2>4
<1>10. CASE ClearHandler
  <2>1. MutexesHeld'
    BY <1>10 DEF ClearHandler, MutexesHeld
  <2>2. CommandState'
    BY <1>10 DEF ClearHandler, CommandState
  <2>3. HandlerState'
    BY <1>10, HandlerCallsHoldMutex DEF ClearHandler, HandlerState, MutexesHeld
  <2>4. IrqOnlyWhileOpen'
    BY <1>10 DEF ClearHandler, IrqOnlyWhileOpen
  <2>5. QED
    BY <2>1, <2>2, <2>3, <2>4
<1>11. CASE StopUnlock
  <2>1. MutexesHeld'
    BY <1>11, UnlockLoop DEF StopUnlock
  <2>2. CommandState'
    BY <1>11 DEF StopUnlock, CtrlUnlock, CommandState
  <2>3. HandlerState'
    BY <1>11 DEF StopUnlock, CtrlUnlock, HandlerState
  <2>4. IrqOnlyWhileOpen'
    BY <1>11 DEF StopUnlock, CtrlUnlock, IrqOnlyWhileOpen
  <2>5. QED
    BY <2>1, <2>2, <2>3, <2>4
<1>12. CASE ExitPipeline
  <2>1. MutexesHeld'
    BY <1>12 DEF ExitPipeline, MutexesHeld
  <2>2. CommandState'
    BY <1>12 DEF ExitPipeline, CommandState
  <2>3. HandlerState'
    BY <1>12 DEF ExitPipeline, HandlerState, CommandState
  <2>4. IrqOnlyWhileOpen'
    BY <1>12 DEF ExitPipeline, IrqOnlyWhileOpen
  <2>5. QED
    BY <2>1, <2>2, <2>3, <2>4
<1>13. CASE SaiClose
  <2>1. MutexesHeld'
    BY <1>13 DEF SaiClose, MutexesHeld
  <2>2. CommandState'
    BY <1>13 DEF SaiClose, CommandState
  <2>3. HandlerState'
    BY <1>13 DEF SaiClose, HandlerState, CommandState
  <2>4. IrqOnlyWhileOpen'
    BY <1>13 DEF SaiClose, IrqOnlyWhileOpen
  <2>5. QED
    BY <2>1, <2>2, <2>3, <2>4
<1>14. QED
  BY <1>1, <1>2, <1>3, <1>4, <1>5, <1>6, <1>7, <1>8, <1>9, <1>10, <1>11, <1>12, <1>13 DEF CtrlTask

\* The strengthening is an invariant, whatever the number of threads.
THEOREM Safety == Spec => []SafetyInv
<1>1. Init => SafetyInv
  BY DEF Init, SafetyInv, MutexesHeld, CommandState, HandlerState,
         IrqOnlyWhileOpen, InMutex, InHandler
<1>2. TypeOK /\ SafetyInv /\ [Next]_vars => SafetyInv'
  <2> SUFFICES ASSUME TypeOK, SafetyInv, [Next]_vars PROVE SafetyInv'
    OBVIOUS
  <2>1. CASE UNCHANGED vars
    BY <2>1 DEF vars, SafetyInv, MutexesHeld, CommandState, HandlerState,
                IrqOnlyWhileOpen
  <2>2. QED
    BY <2>1, SafetyDataTask, SafetyInterrupt, SafetyCtrlTask DEF Next
<1>3. QED
  BY <1>1, <1>2, TypeCorrect, PTL DEF Spec

\* audio_stop frees no pipeline an active data thread is still working on.
THEOREM PipelinesOutliveCalls == Spec => []NoUseAfterExit
<1>1. SafetyInv => NoUseAfterExit
  BY DEF SafetyInv, HandlerState, NoUseAfterExit
<1>2. QED
  BY <1>1, Safety, PTL

\* No data thread unmasks the interrupt of a closed SAI device.
THEOREM InterruptsOfOpenDevice == Spec => []IrqOnlyWhileOpen
<1>1. SafetyInv => IrqOnlyWhileOpen
  BY DEF SafetyInv
<1>2. QED
  BY <1>1, Safety, PTL

\* Only the owner of reset_mut is inside the reset protocol.
THEOREM OneReset == Spec => []ResetExclusive
<1>1. Init => ResetExclusive
  BY DEF Init, ResetExclusive, InReset, InHandler
<1>2. TypeOK /\ ResetExclusive /\ [Next]_vars => ResetExclusive'
  <2> SUFFICES ASSUME TypeOK, ResetExclusive, [Next]_vars PROVE ResetExclusive'
    OBVIOUS
  <2> USE DEF ResetExclusive
  <2>1. ASSUME NEW t \in Thread, DataTask(t) PROVE ResetExclusive'
    <3> USE <2>1 DEF TypeOK, TypeThread, GoTo, NextIdx, LoopDone, RunResults,
                     InReset, InHandler
    <3>1. CASE Receive(t)
      BY <3>1 DEF Receive
    <3>2. CASE Lock(t)
      BY <3>2 DEF Lock
    <3>3. CASE CheckHandler(t)
      BY <3>3 DEF CheckHandler
    <3>4. CASE RunData(t)
      BY <3>4 DEF RunData
    <3>5. CASE RunResetAsync(t)
      BY <3>5 DEF RunResetAsync
    <3>6. CASE TryLockReset(t)
      BY <3>6, NoOwnerIsNoThread DEF TryLockReset
    <3>7. CASE ResetSelf(t)
      BY <3>7 DEF ResetSelf
    <3>8. CASE SendReset(t)
      BY <3>8 DEF SendReset
    <3>9. CASE WaitReset(t)
      BY <3>9 DEF WaitReset
    <3>10. CASE Restart(t)
      BY <3>10 DEF Restart
    <3>11. CASE SendRestart(t)
      BY <3>11 DEF SendRestart
    <3>12. CASE UnlockReset(t)
      BY <3>12 DEF UnlockReset
    <3>13. CASE Unlock(t)
      BY <3>13 DEF Unlock
    <3>14. QED
      BY <3>1, <3>2, <3>3, <3>4, <3>5, <3>6, <3>7, <3>8, <3>9, <3>10, <3>11, <3>12, <3>13 DEF DataTask
  <2>2. CASE Interrupt \/ InterruptSend
    BY <2>2, InterruptFrame
  <2>3. CASE CtrlTask
    BY <2>3, CtrlFrame
  <2>4. CASE UNCHANGED vars
    BY <2>4 DEF vars
  <2>5. QED
    BY <2>1, <2>2, <2>3, <2>4 DEF Next
<1>3. QED
  BY <1>1, <1>2, TypeCorrect, PTL DEF Spec

-----------------------------------------------------------------------------
(* The initiator's own restart                                             *)

ResetState ==
  \A t \in Thread : pc[t] \in {"send_reset", "wait", "restart"} => ~started[t]

\* The assertion of audio_reset, "handler couldn't restart", never fires,
\* whatever is configured.
THEOREM HandlerRestarts == Spec => []RestartSucceeds
<1>1. Init => ResetState /\ RestartSucceeds
  BY DEF Init, ResetState, RestartSucceeds
<1>2. TypeOK /\ ResetState /\ RestartSucceeds /\ [Next]_vars => ResetState' /\ RestartSucceeds'
  <2> SUFFICES ASSUME TypeOK, ResetState, RestartSucceeds, [Next]_vars
               PROVE  ResetState' /\ RestartSucceeds'
    OBVIOUS
  <2>1. /\ pc \in [Thread -> PC] /\ started \in [Thread -> BOOLEAN]
    BY DEF TypeOK, TypeThread, TypeShared
  <2>2. ASSUME NEW t \in Thread, DataTask(t)
        PROVE  ResetState' /\ RestartSucceeds'
    <3> USE <2>1, <2>2 DEF ResetState, RestartSucceeds, GoTo, NextIdx, LoopDone
    <3>1. CASE Receive(t)
      BY <3>1 DEF Receive
    <3>2. CASE Lock(t)
      BY <3>2 DEF Lock
    <3>3. CASE CheckHandler(t)
      BY <3>3 DEF CheckHandler
    <3>4. CASE RunData(t)
      BY <3>4 DEF RunData
    <3>5. CASE RunResetAsync(t)
      BY <3>5 DEF RunResetAsync
    <3>6. CASE TryLockReset(t)
      BY <3>6 DEF TryLockReset
    <3>7. CASE ResetSelf(t)
      BY <3>7 DEF ResetSelf
    <3>8. CASE SendReset(t)
      BY <3>8 DEF SendReset
    <3>9. CASE WaitReset(t)
      BY <3>9 DEF WaitReset
    <3>10. CASE Restart(t)
      BY <3>10 DEF Restart, RunResults
    <3>11. CASE SendRestart(t)
      BY <3>11 DEF SendRestart
    <3>12. CASE UnlockReset(t)
      BY <3>12 DEF UnlockReset
    <3>13. CASE Unlock(t)
      BY <3>13 DEF Unlock
    <3> QED
      BY <3>1, <3>2, <3>3, <3>4, <3>5, <3>6, <3>7, <3>8, <3>9, <3>10, <3>11, <3>12, <3>13
      DEF DataTask
  <2>3. CASE Interrupt \/ InterruptSend
    BY <2>3, InterruptFrame DEF ResetState, RestartSucceeds
  <2>4. CASE CtrlTask
    <3>1. \A t \in Thread : started'[t] => started[t]
      BY <2>1, <2>4 DEF CtrlTask, CommandRun, InitPipeline, SaiSetup, RunLock, SetHandler,
                 RunUnlock, Kick, CommandStop, StopLock, ClearHandler, StopUnlock,
                 ExitPipeline, SaiClose, CtrlLock, CtrlUnlock
    <3> QED
      BY <2>4, <3>1, CtrlFrame DEF ResetState, RestartSucceeds
  <2>5. CASE UNCHANGED vars
    BY <2>5 DEF vars, ResetState, RestartSucceeds
  <2> QED
    BY <2>2, <2>3, <2>4, <2>5 DEF Next
<1> QED
  BY <1>1, <1>2, TypeCorrect, PTL DEF Spec

-----------------------------------------------------------------------------
(* Requests on their way                                                   *)

HasRequest(q) == \E k \in DOMAIN q : q[k] = "RESET_ASYNC"
OneRequest(q) ==
  \A k, l \in DOMAIN q : q[k] = "RESET_ASYNC" /\ q[l] = "RESET_ASYNC" => k = l

LEMMA DataIsNoRequest ==
  ASSUME NEW q \in Seq(Event)
  PROVE  /\ HasRequest(Append(q, "DATA")) => HasRequest(q)
         /\ OneRequest(q) => OneRequest(Append(q, "DATA"))
BY DEF HasRequest, OneRequest

LEMMA FirstRequest ==
  ASSUME NEW q \in Seq(Event), ~HasRequest(q)
  PROVE  OneRequest(Append(q, "RESET_ASYNC")) /\ OneRequest(q)
BY DEF HasRequest, OneRequest

LEMMA RequestTaken ==
  ASSUME NEW q \in Seq(Event), q # <<>>, OneRequest(q)
  PROVE  /\ OneRequest(Tail(q))
         /\ HasRequest(Tail(q)) => HasRequest(q) /\ Head(q) = "DATA"
         /\ Head(q) = "RESET_ASYNC" => HasRequest(q)
         /\ Head(q) \in Event
<1>1. Tail(q) \in Seq(Event) /\ Len(Tail(q)) = Len(q) - 1 /\ Len(q) \in Nat \ {0}
  OBVIOUS
<1>2. \A k \in DOMAIN Tail(q) : k + 1 \in DOMAIN q /\ Tail(q)[k] = q[k + 1] /\ k + 1 # 1
  BY <1>1
<1>3. 1 \in DOMAIN q /\ Head(q) = q[1] /\ q[1] \in Event
  BY <1>1
<1>4. OneRequest(Tail(q))
  <2> SUFFICES ASSUME NEW k \in DOMAIN Tail(q), NEW l \in DOMAIN Tail(q),
                      Tail(q)[k] = "RESET_ASYNC", Tail(q)[l] = "RESET_ASYNC"
               PROVE  k = l
    BY DEF OneRequest
  <2>1. k + 1 = l + 1
    BY <1>2 DEF OneRequest
  <2> QED
    BY <1>1, <2>1
<1>5. HasRequest(Tail(q)) => HasRequest(q) /\ Head(q) = "DATA"
  <2> SUFFICES ASSUME NEW k \in DOMAIN Tail(q), Tail(q)[k] = "RESET_ASYNC"
               PROVE  HasRequest(q) /\ Head(q) = "DATA"
    BY DEF HasRequest
  <2>1. k + 1 \in DOMAIN q /\ q[k + 1] = "RESET_ASYNC" /\ k + 1 # 1
    BY <1>2
  <2> QED
    BY <1>3, <2>1 DEF HasRequest, OneRequest, Event
<1> QED
  BY <1>3, <1>4, <1>5 DEF HasRequest

\* Posting DATA asks for nothing.
LEMMA SendDataAsksNothing ==
  ASSUME mqueue \in [Thread -> Seq(Event)], \A j \in Thread : OneRequest(mqueue[j]),
         NEW i, Send(i, "DATA")
  PROVE  \A j \in Thread : /\ OneRequest(mqueue'[j])
                           /\ HasRequest(mqueue'[j]) => HasRequest(mqueue[j])
<1> SUFFICES ASSUME NEW j \in Thread
             PROVE  /\ OneRequest(mqueue'[j])
                    /\ HasRequest(mqueue'[j]) => HasRequest(mqueue[j])
  OBVIOUS
<1>1. mqueue'[j] \in {mqueue[j], Append(mqueue[j], "DATA")}
  BY DEF Send
<1> QED
  BY <1>1, DataIsNoRequest

-----------------------------------------------------------------------------
(* The inductive invariant of the rendezvous                               *)

Places == {"lock", "check", "run"}
Working(j) == pc[j] \in Places /\ event[j] = "RESET_ASYNC"

\* Thread j was asked to reset, and its completion was not taken yet.
Asked(j) == HasRequest(mqueue[j]) \/ Working(j) \/ async_sem[j] > 0

\* The initiator has asked thread j and has not yet waited for it.
AskedByOwner(j) ==
  /\ reset_mut \in Thread \ {j} /\ j < pipeline_count
  /\ \/ pc[reset_mut] = "send_reset" /\ j < idx[reset_mut]
     \/ pc[reset_mut] = "wait" /\ idx[reset_mut] <= j

\* A request is in one place: queued, in work, or completed.
OnePlace(j) ==
  /\ OneRequest(mqueue[j])
  /\ HasRequest(mqueue[j]) => ~Working(j) /\ async_sem[j] = 0
  /\ Working(j) => async_sem[j] = 0
  /\ async_sem[j] <= 1

Request(j) ==
  /\ OnePlace(j)
  /\ async_sem[j] > 0 => j \in covered
  /\ Asked(j) => AskedByOwner(j)

\* What an initiator knows to be reset.
Progress(t) ==
  /\ pc[t] \in {"send_reset", "wait", "restart"} => t \in covered
  /\ pc[t] = "wait" => \A j \in Thread : j < idx[t] => j \in covered
  /\ pc[t] = "restart" => \A j \in Thread : j < pipeline_count => j \in covered

Rendezvous == \A j \in Thread : Request(j) /\ Progress(j)

ResetInv == TypeOK /\ SafetyInv /\ ResetExclusive /\ Rendezvous

\* The loops of a thread in a handler call keep their range.
CountStays == (\E v \in Thread : pc[v] \in InHandler) => pipeline_count' = pipeline_count

\* Steps that ask for nothing, complete nothing and leave the protocol alone.
LEMMA QuietStep ==
  ASSUME ResetInv,
         \A j \in Thread : /\ OneRequest(mqueue'[j])
                           /\ HasRequest(mqueue'[j]) => HasRequest(mqueue[j]),
         UNCHANGED <<async_sem, covered, reset_mut, event>>, CountStays,
         \A v \in Thread :
           \/ pc'[v] = pc[v] /\ idx'[v] = idx[v]
           \/ /\ pc[v] \notin {"send_reset", "wait"}
              /\ pc'[v] \notin {"send_reset", "wait", "restart"}
              /\ pc'[v] \in Places => pc[v] \in Places
  PROVE  Rendezvous'
<1> SUFFICES ASSUME NEW j \in Thread PROVE Request(j)' /\ Progress(j)'
  BY DEF Rendezvous
<1>1. Request(j) /\ Progress(j)
  BY DEF ResetInv, Rendezvous
<1>2. Working(j)' => Working(j)
  BY DEF Working
<1>3. Asked(j)' => Asked(j)
  BY <1>2 DEF Asked
<1>4. AskedByOwner(j) => AskedByOwner(j)'
  BY DEF AskedByOwner, CountStays, InHandler
<1>5. OnePlace(j)'
  BY <1>1, <1>2 DEF Request, OnePlace
<1>6. Request(j)'
  BY <1>1, <1>3, <1>4, <1>5 DEF Request
<1>7. Progress(j)'
  BY <1>1 DEF Progress, CountStays, InHandler
<1> QED
  BY <1>6, <1>7

LEMMA QueuesAsked ==
  ASSUME ResetInv
  PROVE  /\ mqueue \in [Thread -> Seq(Event)] /\ pc \in [Thread -> PC]
         /\ event \in [Thread -> Event] /\ idx \in [Thread -> Nat]
         /\ async_sem \in [Thread -> Nat] /\ covered \in SUBSET Thread
         /\ reset_mut \in Thread \cup {NoOwner} /\ pipeline_count \in 0..N
         /\ \A j \in Thread : OneRequest(mqueue[j])
BY DEF ResetInv, TypeOK, TypeCtrl, TypeThread, TypeShared, Rendezvous, Request, OnePlace

\* The places in the reset protocol.
LEMMA OwnerIn ==
  ASSUME ResetInv, NEW u \in Thread,
         pc[u] \in {"reset_self", "send_reset", "wait", "restart", "send_restart", "unlock_reset"}
  PROVE  reset_mut = u
<1>1. pc[u] \in InReset
  BY DEF InReset, InHandler
<1> QED
  BY <1>1 DEF ResetInv, ResetExclusive

LEMMA ReceiveRendezvous ==
  ASSUME ResetInv, NEW u \in Thread, Receive(u)
  PROVE  Rendezvous'
<1>1. /\ mqueue' = [mqueue EXCEPT ![u] = Tail(mqueue[u])] /\ mqueue[u] # <<>>
      /\ event' = [event EXCEPT ![u] = Head(mqueue[u])] /\ pc' = [pc EXCEPT ![u] = "lock"]
      /\ pc[u] = "receive" /\ UNCHANGED <<idx, async_sem, reset_mut, covered, pipeline_count>>
  BY DEF Receive, GoTo, appVars
<1> SUFFICES ASSUME NEW j \in Thread PROVE Request(j)' /\ Progress(j)'
  BY DEF Rendezvous
<1>2. Request(j) /\ Progress(j)
  BY DEF ResetInv, Rendezvous
<1>3. AskedByOwner(j) => AskedByOwner(j)'
  BY <1>1, QueuesAsked DEF AskedByOwner
<1>4. Progress(j)'
  BY <1>1, <1>2, QueuesAsked DEF Progress
<1>5. CASE j # u
  <2>1. mqueue'[j] = mqueue[j] /\ (Working(j)' <=> Working(j)) /\ async_sem'[j] = async_sem[j]
    BY <1>1, <1>5, QueuesAsked DEF Working
  <2> QED
    BY <1>1, <1>2, <1>3, <1>4, <2>1 DEF Request, OnePlace, Asked
<1>6. CASE j = u
  <2> DEFINE q == mqueue[u]
  <2>1. /\ OneRequest(Tail(q))
        /\ HasRequest(Tail(q)) => HasRequest(q) /\ Head(q) = "DATA"
        /\ Head(q) = "RESET_ASYNC" => HasRequest(q)
    BY <1>1, QueuesAsked, RequestTaken
  <2>2. mqueue'[j] = Tail(q) /\ (Working(j)' <=> Head(q) = "RESET_ASYNC")
    BY <1>1, <1>6, QueuesAsked DEF Working, Places
  <2> HIDE DEF q
  <2>3. OneRequest(mqueue[j]) /\ (HasRequest(q) => async_sem[j] = 0) /\ q = mqueue[j]
    BY <1>2, <1>6 DEF Request, OnePlace, q
  <2>4. OnePlace(j)'
    BY <1>1, <1>2, <2>1, <2>2, <2>3 DEF Request, OnePlace
  <2>5. Asked(j)' => Asked(j)
    BY <1>1, <2>1, <2>2, <2>3 DEF Asked
  <2> QED
    BY <1>1, <1>2, <1>3, <1>4, <2>4, <2>5 DEF Request
<1> QED
  BY <1>5, <1>6

LEMMA RunResetAsyncRendezvous ==
  ASSUME ResetInv, NEW u \in Thread, RunResetAsync(u)
  PROVE  Rendezvous'
<1>1. /\ async_sem' = [async_sem EXCEPT ![u] = async_sem[u] + 1]
      /\ covered' = covered \cup {u} /\ pc' = [pc EXCEPT ![u] = "unlock"]
      /\ pc[u] = "run" /\ event[u] = "RESET_ASYNC"
      /\ UNCHANGED <<idx, mqueue, event, reset_mut, pipeline_count>>
  BY DEF RunResetAsync, GoTo, appVars
<1> SUFFICES ASSUME NEW j \in Thread PROVE Request(j)' /\ Progress(j)'
  BY DEF Rendezvous
<1>2. Request(j) /\ Progress(j)
  BY DEF ResetInv, Rendezvous
<1>3. AskedByOwner(j) => AskedByOwner(j)'
  BY <1>1, QueuesAsked DEF AskedByOwner
<1>4. Progress(j)'
  BY <1>1, <1>2, QueuesAsked DEF Progress
<1>5. CASE j # u
  <2>1. (Working(j)' <=> Working(j)) /\ async_sem'[j] = async_sem[j]
    BY <1>1, <1>5, QueuesAsked DEF Working
  <2> QED
    BY <1>1, <1>2, <1>3, <1>4, <2>1 DEF Request, OnePlace, Asked
<1>6. CASE j = u
  <2>1. Working(j) /\ ~Working(j)'
    BY <1>1, <1>6, QueuesAsked DEF Working, Places
  <2>2. async_sem[j] = 0 /\ async_sem'[j] = 1 /\ ~HasRequest(mqueue[j]) /\ j \in covered'
    BY <1>1, <1>2, <1>6, <2>1, QueuesAsked DEF Request, OnePlace
  <2> QED
    BY <1>1, <1>2, <1>3, <1>4, <2>1, <2>2 DEF Request, OnePlace, Asked
<1> QED
  BY <1>5, <1>6

LEMMA TryLockRendezvous ==
  ASSUME ResetInv, NEW u \in Thread, TryLockReset(u)
  PROVE  Rendezvous'
<1>1. pc[u] = "trylock" /\ UNCHANGED <<mqueue, event, idx, async_sem, pipeline_count>>
  BY DEF TryLockReset, appVars
<1>2. CASE reset_mut # NoOwner
  <2>1. pc' = [pc EXCEPT ![u] = "unlock"] /\ UNCHANGED <<reset_mut, covered>>
    BY <1>2 DEF TryLockReset, GoTo
  <2> QED
    BY <1>1, <2>1, QueuesAsked, QuietStep DEF Places, CountStays
<1>3. CASE reset_mut = NoOwner
  <2>1. reset_mut' = u /\ covered' = {} /\ pc' = [pc EXCEPT ![u] = "reset_self"]
    BY <1>3 DEF TryLockReset, GoTo
  <2> SUFFICES ASSUME NEW j \in Thread PROVE Request(j)' /\ Progress(j)'
    BY DEF Rendezvous
  <2>2. OnePlace(j) /\ ~Asked(j)
    BY <1>3, NoOwnerIsNoThread DEF ResetInv, Rendezvous, Request, AskedByOwner
  <2>3. pc[j] \notin {"send_reset", "wait", "restart"}
    BY <1>3, OwnerIn, NoOwnerIsNoThread
  <2>4. ~Working(j)'
    BY <1>1, <2>1, <2>2, QueuesAsked DEF Asked, Working, Places
  <2>5. Request(j)'
    BY <1>1, <2>2, <2>4, QueuesAsked DEF Asked, Request, OnePlace
  <2>6. Progress(j)'
    BY <2>1, <2>3, QueuesAsked DEF Progress
  <2> QED
    BY <2>5, <2>6
<1> QED
  BY <1>2, <1>3

\* The initiator's own steps change only its place, its loop and what it posts,
\* takes or covers.
LEMMA ResetSelfRendezvous ==
  ASSUME ResetInv, NEW u \in Thread, ResetSelf(u)
  PROVE  Rendezvous'
<1>1. /\ covered' = covered \cup {u} /\ idx' = [idx EXCEPT ![u] = 0]
      /\ pc' = [pc EXCEPT ![u] = "send_reset"] /\ pc[u] = "reset_self"
      /\ UNCHANGED <<mqueue, event, async_sem, reset_mut, pipeline_count>>
  BY DEF ResetSelf, GoTo, appVars
<1>2. reset_mut = u
  BY <1>1, OwnerIn
<1> SUFFICES ASSUME NEW j \in Thread PROVE Request(j)' /\ Progress(j)'
  BY DEF Rendezvous
<1>3. Request(j) /\ Progress(j)
  BY DEF ResetInv, Rendezvous
<1>4. ~Asked(j)
  BY <1>1, <1>2, <1>3 DEF Request, AskedByOwner
<1>5. ~Working(j)'
  BY <1>1, <1>4, QueuesAsked DEF Asked, Working, Places
<1>6. Request(j)'
  BY <1>1, <1>3, <1>4, <1>5, QueuesAsked DEF Asked, Request, OnePlace
<1>7. Progress(j)'
  BY <1>1, <1>3, QueuesAsked DEF Progress
<1> QED
  BY <1>6, <1>7

LEMMA SendResetRendezvous ==
  ASSUME ResetInv, NEW u \in Thread, SendReset(u)
  PROVE  Rendezvous'
<1>1. /\ pc[u] = "send_reset" /\ UNCHANGED <<event, async_sem, reset_mut, covered>>
      /\ pipeline_count' = pipeline_count
  BY DEF SendReset, appVars
<1>2. reset_mut = u
  BY <1>1, OwnerIn
<1> SUFFICES ASSUME NEW j \in Thread PROVE Request(j)' /\ Progress(j)'
  BY DEF Rendezvous
<1>3. Request(j) /\ Progress(j) /\ Progress(u)
  BY DEF ResetInv, Rendezvous
<1>4. j \in Nat /\ j < N
  BY NAssumption DEF Thread
<1>5. CASE idx[u] < pipeline_count
  <2>1. idx' = [idx EXCEPT ![u] = idx[u] + 1] /\ UNCHANGED pc
    BY <1>2, <1>5, QueuesAsked, NAssumption DEF SendReset, NextIdx, LoopDone
  <2>2. IF idx[u] = u THEN UNCHANGED mqueue ELSE Send(idx[u], "RESET_ASYNC")
    BY <1>2, <1>5, QueuesAsked, NAssumption DEF SendReset, LoopDone
  <2>3. Progress(j)'
    BY <1>1, <1>2, <1>3, <2>1, QueuesAsked DEF Progress
  <2>4. Working(j)' <=> Working(j)
    BY <1>1, <2>1 DEF Working
  <2>5. AskedByOwner(j) => AskedByOwner(j)'
    BY <1>1, <1>2, <1>4, <2>1, QueuesAsked DEF AskedByOwner
  <2>6. CASE j # idx[u] \/ j = u
    <3>1. mqueue'[j] = mqueue[j]
      BY <2>2, <2>6, QueuesAsked DEF Send
    <3> QED
      BY <1>1, <1>3, <2>3, <2>4, <2>5, <3>1 DEF Request, OnePlace, Asked
  <2>7. CASE j = idx[u] /\ j # u
    <3>1. ~Asked(j)
      BY <1>1, <1>2, <1>3, <1>4, <2>7 DEF Request, AskedByOwner
    <3>2. mqueue'[j] \in {mqueue[j], Append(mqueue[j], "RESET_ASYNC")}
      BY <2>2, <2>7, QueuesAsked DEF Send
    <3>3. OneRequest(mqueue'[j])
      BY <3>1, <3>2, FirstRequest, QueuesAsked DEF Asked
    <3>4. AskedByOwner(j)'
      BY <1>1, <1>2, <1>4, <1>5, <2>1, <2>7, QueuesAsked DEF AskedByOwner
    <3>5. ~Working(j)' /\ async_sem'[j] = 0
      BY <1>1, <2>4, <3>1, QueuesAsked DEF Asked
    <3> QED
      BY <1>1, <1>3, <2>3, <3>3, <3>4, <3>5 DEF Request, OnePlace
  <2> QED
    BY <2>6, <2>7
<1>6. CASE ~(idx[u] < pipeline_count)
  <2>1. idx' = [idx EXCEPT ![u] = 0] /\ pc' = [pc EXCEPT ![u] = "wait"] /\ UNCHANGED mqueue
    BY <1>6 DEF SendReset, LoopDone, GoTo
  <2>2. Working(j)' <=> Working(j)
    BY <1>1, <2>1, QueuesAsked DEF Working, Places
  <2>3. AskedByOwner(j) => AskedByOwner(j)'
    BY <1>1, <1>2, <1>4, <2>1, QueuesAsked DEF AskedByOwner
  <2>4. Progress(j)'
    BY <1>1, <1>3, <1>4, <2>1, QueuesAsked, ThreadRange DEF Progress
  <2> QED
    BY <1>1, <1>3, <2>1, <2>2, <2>3, <2>4 DEF Request, OnePlace, Asked
<1> QED
  BY <1>5, <1>6

LEMMA WaitResetRendezvous ==
  ASSUME ResetInv, NEW u \in Thread, WaitReset(u)
  PROVE  Rendezvous'
<1>1. pc[u] = "wait" /\ UNCHANGED <<mqueue, event, reset_mut, covered, pipeline_count>>
  BY DEF WaitReset, appVars
<1>2. reset_mut = u
  BY <1>1, OwnerIn
<1> SUFFICES ASSUME NEW j \in Thread PROVE Request(j)' /\ Progress(j)'
  BY DEF Rendezvous
<1>3. Request(j) /\ Progress(j) /\ Progress(u) /\ u \in covered
  BY <1>1 DEF ResetInv, Rendezvous, Progress
<1>4. j \in Nat /\ j < N
  BY NAssumption DEF Thread
<1>5. CASE idx[u] < pipeline_count
  <2>1. idx' = [idx EXCEPT ![u] = idx[u] + 1] /\ UNCHANGED pc
    BY <1>2, <1>5, QueuesAsked, NAssumption DEF WaitReset, NextIdx, LoopDone
  <2>2. IF idx[u] = u THEN UNCHANGED async_sem
        ELSE /\ async_sem[idx[u]] > 0
             /\ async_sem' = [async_sem EXCEPT ![idx[u]] = async_sem[idx[u]] - 1]
    BY <1>2, <1>5, QueuesAsked, NAssumption DEF WaitReset, LoopDone
  <2>3. Working(j)' <=> Working(j)
    BY <1>1, <2>1 DEF Working
  <2>4. idx[u] \in Thread
    BY <1>2, <1>5, QueuesAsked, ThreadRange, NAssumption
  <2>5. idx[u] \in covered
    BY <1>3, <2>2, <2>4 DEF ResetInv, Rendezvous, Request
  <2>6. Progress(j)'
    <3>1. CASE j = u
      <4>1. \A i \in Thread : i < idx[u] + 1 => i \in covered
        <5> SUFFICES ASSUME NEW i \in Thread, i < idx[u] + 1 PROVE i \in covered
          OBVIOUS
        <5>1. i < idx[u] \/ i = idx[u]
          BY <2>4, ThreadRange, NAssumption
        <5> QED
          BY <1>1, <1>3, <2>5, <5>1 DEF Progress
      <4> QED
        BY <1>1, <1>3, <2>1, <3>1, <4>1, QueuesAsked DEF Progress
    <3>2. CASE j # u
      BY <1>1, <1>3, <2>1, <3>2, QueuesAsked DEF Progress
    <3> QED
      BY <3>1, <3>2
  <2>7. CASE j # idx[u] \/ j = u
    <3>1. async_sem'[j] = async_sem[j]
      BY <2>2, <2>7, QueuesAsked
    <3>2. Asked(j)' => Asked(j)
      BY <1>1, <2>3, <3>1 DEF Asked
    <3>3. AskedByOwner(j) => AskedByOwner(j)'
      BY <1>1, <1>2, <1>4, <2>1, <2>7, QueuesAsked DEF AskedByOwner
    <3> QED
      BY <1>1, <1>3, <2>3, <2>6, <3>1, <3>2, <3>3 DEF Request, OnePlace
  <2>8. CASE j = idx[u] /\ j # u
    <3>1. async_sem[j] = 1 /\ async_sem'[j] = 0 /\ ~HasRequest(mqueue[j]) /\ ~Working(j)
      BY <1>3, <2>2, <2>8, QueuesAsked DEF Request, OnePlace
    <3> QED
      BY <1>1, <1>3, <2>3, <2>6, <3>1 DEF Request, OnePlace, Asked
  <2> QED
    BY <2>7, <2>8
<1>6. CASE ~(idx[u] < pipeline_count)
  <2>1. idx' = [idx EXCEPT ![u] = 0] /\ pc' = [pc EXCEPT ![u] = "restart"] /\ UNCHANGED async_sem
    BY <1>6 DEF WaitReset, LoopDone, GoTo
  <2>2. ~Asked(j)
    <3>1. j < pipeline_count => ~(idx[u] <= j)
      BY <1>4, <1>6, QueuesAsked, NAssumption
    <3> QED
      BY <1>1, <1>2, <1>3, <3>1 DEF Request, AskedByOwner
  <2>3. ~Working(j)'
    BY <1>1, <2>1, <2>2, QueuesAsked DEF Asked, Working, Places
  <2>4. Request(j)'
    BY <1>1, <1>3, <2>1, <2>2, <2>3 DEF Request, OnePlace, Asked
  <2>5. \A i \in Thread : i < pipeline_count => i \in covered
    <3> SUFFICES ASSUME NEW i \in Thread, i < pipeline_count PROVE i \in covered
      OBVIOUS
    <3>1. i < idx[u]
      BY <1>6, QueuesAsked, ThreadRange, NAssumption
    <3> QED
      BY <1>1, <1>3, <3>1 DEF Progress
  <2>6. Progress(j)'
    BY <1>1, <1>3, <2>1, <2>5, QueuesAsked DEF Progress
  <2> QED
    BY <2>4, <2>6
<1> QED
  BY <1>5, <1>6

LEMMA UnlockResetRendezvous ==
  ASSUME ResetInv, NEW u \in Thread, UnlockReset(u)
  PROVE  Rendezvous'
<1>1. /\ pc[u] = "unlock_reset" /\ pc' = [pc EXCEPT ![u] = "unlock"] /\ reset_mut' = NoOwner
      /\ UNCHANGED <<mqueue, event, idx, async_sem, covered, pipeline_count>>
  BY DEF UnlockReset, GoTo, appVars
<1>2. reset_mut = u
  BY <1>1, OwnerIn
<1> SUFFICES ASSUME NEW j \in Thread PROVE Request(j)' /\ Progress(j)'
  BY DEF Rendezvous
<1>3. Request(j) /\ Progress(j)
  BY DEF ResetInv, Rendezvous
<1>4. ~Asked(j)
  BY <1>1, <1>2, <1>3 DEF Request, AskedByOwner
<1>5. ~Working(j)'
  BY <1>1, <1>4, QueuesAsked DEF Asked, Working, Places
<1>6. Request(j)'
  BY <1>1, <1>3, <1>4, <1>5 DEF Request, OnePlace, Asked
<1>7. Progress(j)'
  BY <1>1, <1>3, QueuesAsked DEF Progress
<1> QED
  BY <1>6, <1>7

-----------------------------------------------------------------------------
(* The other steps                                                         *)

\* Steps of a data thread outside the rendezvous.
LEMMA OtherDataRendezvous ==
  ASSUME ResetInv, NEW u \in Thread,
         \/ Lock(u) \/ CheckHandler(u) \/ RunData(u)
         \/ Restart(u) \/ SendRestart(u) \/ Unlock(u)
  PROVE  Rendezvous'
<1>1. UNCHANGED <<async_sem, covered, reset_mut, event>>
  BY DEF Lock, CheckHandler, RunData, Restart, SendRestart, Unlock
<1>2. UNCHANGED mqueue \/ \E i \in Nat : Send(i, "DATA")
  BY QueuesAsked DEF Lock, CheckHandler, RunData, Restart, SendRestart, Unlock
<1>3. \A j \in Thread : OneRequest(mqueue'[j]) /\ (HasRequest(mqueue'[j]) => HasRequest(mqueue[j]))
  BY <1>2, QueuesAsked, SendDataAsksNothing
<1>4. \A v \in Thread :
        \/ pc'[v] = pc[v] /\ idx'[v] = idx[v]
        \/ /\ pc[v] \notin {"send_reset", "wait"}
           /\ pc'[v] \notin {"send_reset", "wait", "restart"}
           /\ pc'[v] \in Places => pc[v] \in Places
  <2> USE QueuesAsked DEF Places, GoTo
  <2>1. CASE Lock(u)
    BY <2>1 DEF Lock
  <2>2. CASE CheckHandler(u)
    BY <2>2 DEF CheckHandler
  <2>3. CASE RunData(u)
    BY <2>3 DEF RunData
  <2>4. CASE Restart(u)
    BY <2>4 DEF Restart
  <2>5. CASE SendRestart(u)
    BY <2>5 DEF SendRestart, NextIdx, LoopDone
  <2>6. CASE Unlock(u)
    BY <2>6 DEF Unlock
  <2> QED
    BY <2>1, <2>2, <2>3, <2>4, <2>5, <2>6
<1>5. CountStays
  BY DEF CountStays, appVars, Lock, CheckHandler, RunData, Restart, SendRestart, Unlock
<1> QED
  BY <1>1, <1>3, <1>4, <1>5, QuietStep

LEMMA DataTaskRendezvous ==
  ASSUME ResetInv, NEW u \in Thread, DataTask(u)
  PROVE  Rendezvous'
BY ReceiveRendezvous, RunResetAsyncRendezvous, TryLockRendezvous, ResetSelfRendezvous,
   SendResetRendezvous, WaitResetRendezvous, UnlockResetRendezvous, OtherDataRendezvous
   DEF DataTask

\* The interrupt and the control thread post nothing but DATA.
LEMMA OthersRendezvous ==
  ASSUME ResetInv, CountStays, Interrupt \/ InterruptSend \/ CtrlTask \/ UNCHANGED vars
  PROVE  Rendezvous'
<1>1. UNCHANGED <<async_sem, covered, reset_mut, event, pc, idx>>
  BY InterruptFrame, CtrlFrame DEF vars
<1>2. UNCHANGED mqueue \/ \E i : Send(i, "DATA")
  <2>1. CASE Interrupt \/ InterruptSend
    BY <2>1 DEF Interrupt, InterruptSend
  <2>2. CASE CtrlTask
    BY <2>2 DEF CtrlTask, CommandRun, InitPipeline, SaiSetup, RunLock, SetHandler,
                RunUnlock, Kick, CommandStop, StopLock, ClearHandler, StopUnlock,
                ExitPipeline, SaiClose, CtrlLock, CtrlUnlock
  <2>3. CASE UNCHANGED vars
    BY <2>3 DEF vars
  <2> QED
    BY <2>1, <2>2, <2>3
<1>3. \A j \in Thread : OneRequest(mqueue'[j]) /\ (HasRequest(mqueue'[j]) => HasRequest(mqueue[j]))
  BY <1>2, QueuesAsked, SendDataAsksNothing
<1> QED
  BY <1>1, <1>3, QuietStep

\* At most one of the numbers of pipelines that RUN commands configure is less than N.  With
\* two threads, which is AUDIO_APP_MAX_DATA_THREADS, there is no other.  With 1, 2 and 3
\* pipelines on three threads, TLC refutes NoStaleCompletion: a thread that the first of three
\* runs has left over asks two pipelines to reset and waits for one.
OneNarrower == \A m, n \in PipelineCounts : m # N /\ n # N => m = n

\* The counts are those of RUN commands.
Configured == {pipeline_count, ccount} \subseteq PipelineCounts \cup {0}

LEMMA TwoThreadsOneNarrower ==
  ASSUME N <= 2
  PROVE  OneNarrower
BY NAssumption, PipelineCountsAssumption DEF OneNarrower

LEMMA AlwaysConfigured ==
  ASSUME Configured, [Next]_vars
  PROVE  Configured'
<1>1. ASSUME NEW n \in PipelineCounts, CommandRun(n) PROVE Configured'
  BY <1>1 DEF CommandRun, Configured, appVars
<1>2. CASE SetHandler
  BY <1>2 DEF SetHandler, Configured
<1>3. CASE /\ CtrlTask
           /\ ~SetHandler
           /\ \A n \in PipelineCounts : ~CommandRun(n)
  <2>1. UNCHANGED <<pipeline_count, ccount>>
    BY <1>3 DEF CtrlTask, InitPipeline, SaiSetup, RunLock, RunUnlock, Kick, CommandStop,
                StopLock, ClearHandler, StopUnlock, ExitPipeline, SaiClose, CtrlLock,
                CtrlUnlock, appVars
  <2> QED
    BY <2>1 DEF Configured
<1>4. CASE ~CtrlTask
  <2>1. UNCHANGED <<pipeline_count, ccount>>
    BY <1>4, ThreadFrame, InterruptFrame DEF Next, vars
  <2> QED
    BY <2>1 DEF Configured
<1> QED
  BY <1>1, <1>2, <1>3, <1>4

\* A RUN command changes the number of pipelines only while no thread is in a handler call: one
\* for all threads has taken all their mutexes, one for fewer comes after one for as many, which
\* changes nothing, or after one for all threads, which were waited for when it was stopped.
LEMMA CountStaysInCalls ==
  ASSUME OneNarrower, TypeOK, SafetyInv, Configured, [Next]_vars
  PROVE  CountStays
<1> SUFFICES ASSUME NEW v \in Thread, pc[v] \in InHandler PROVE pipeline_count' = pipeline_count
  BY DEF CountStays
<1>1. CASE SetHandler
  <2>1. cpc = "run_lock" /\ ci = ccount /\ pipeline_count' = ccount
    BY <1>1 DEF SetHandler
  <2>2. ~handler /\ pipeline_count # 0 /\ ccount # 0 /\ ~(v < pipeline_count)
    BY <2>1 DEF SafetyInv, CommandState, HandlerState
  <2>3. ~(v < ccount)
    BY <2>1, HandlerCallsHoldMutex DEF SafetyInv, MutexesHeld
  <2>4. v < N
    BY NAssumption DEF Thread
  <2>5. pipeline_count # N /\ ccount # N
    BY <2>2, <2>3, <2>4
  <2> QED
    BY <2>1, <2>2, <2>5 DEF OneNarrower, Configured
<1>2. CASE CtrlTask /\ ~SetHandler
  BY <1>2 DEF CtrlTask, CommandRun, InitPipeline, SaiSetup, RunLock, RunUnlock, Kick,
              CommandStop, StopLock, ClearHandler, StopUnlock, ExitPipeline, SaiClose,
              CtrlLock, CtrlUnlock, appVars
<1>3. CASE ~CtrlTask
  BY <1>3, ThreadFrame, InterruptFrame DEF Next, vars
<1> QED
  BY <1>1, <1>2, <1>3

LEMMA RendezvousInit == Init => Configured /\ Rendezvous
<1> SUFFICES ASSUME Init PROVE Configured /\ Rendezvous
  OBVIOUS
<1>1. \A j \in Thread : /\ mqueue[j] = <<>> /\ async_sem[j] = 0
                        /\ pc[j] = "receive"
  BY DEF Init
<1>2. \A j \in Thread : ~Asked(j) /\ OnePlace(j) /\ Progress(j)
  BY <1>1 DEF Asked, OnePlace, Progress, HasRequest, OneRequest, Working, Places
<1> QED
  BY <1>1, <1>2, NAssumption DEF Init, Configured, Rendezvous, Request

\* The rendezvous: a request is in one place, it was posted by the owner of
\* reset_mut and is waited for, and the initiator knows what was reset.
THEOREM RendezvousHolds ==
  ASSUME OneNarrower
  PROVE  Spec => []Rendezvous
<1>1. /\ TypeOK /\ SafetyInv /\ ResetExclusive
      /\ Configured /\ Rendezvous
      /\ [Next]_vars
      => Configured' /\ Rendezvous'
  <2> SUFFICES ASSUME ResetInv, Configured, [Next]_vars PROVE Configured' /\ Rendezvous'
    BY DEF ResetInv
  <2>1. Configured'
    BY AlwaysConfigured
  <2>2. CountStays
    BY CountStaysInCalls DEF ResetInv
  <2>3. Rendezvous'
    BY <2>2, DataTaskRendezvous, OthersRendezvous DEF Next
  <2> QED
    BY <2>1, <2>3
<1> QED
  BY <1>1, RendezvousInit, TypeCorrect, Safety, OneReset, PTL DEF Spec

\* When the initiator restarts the pipelines, all the active ones have been reset
\* since it took reset_mut, also when it is itself a thread left over from a wider
\* configuration.
THEOREM BarrierHolds ==
  ASSUME OneNarrower
  PROVE  Spec => []ResetBarrier
<1>1. TypeOK /\ Rendezvous => ResetBarrier
  <2> SUFFICES ASSUME TypeOK, Rendezvous, NEW t \in Thread, pc[t] = "restart"
               PROVE  0..(pipeline_count - 1) \subseteq covered
    BY DEF ResetBarrier
  <2>1. \A j \in Thread : j < pipeline_count => j \in covered
    BY DEF Rendezvous, Progress
  <2>2. \A j \in 0..(pipeline_count - 1) : j \in Thread /\ j < pipeline_count
    BY NAssumption DEF TypeOK, TypeCtrl, Thread
  <2> QED
    BY <2>1, <2>2
<1> QED
  BY <1>1, RendezvousHolds, TypeCorrect, PTL

\* A finished reset leaves nothing behind: outside the protocol no semaphore is
\* given and no thread is asked to reset.
THEOREM NothingLeftBehind ==
  ASSUME OneNarrower
  PROVE  Spec => []NoStaleCompletion
<1>1. TypeOK /\ Rendezvous => NoStaleCompletion
  <2> SUFFICES ASSUME TypeOK, Rendezvous, reset_mut = NoOwner, NEW t \in Thread
               PROVE  /\ async_sem[t] = 0
                      /\ \A k \in DOMAIN mqueue[t] : mqueue[t][k] = "DATA"
                      /\ pc[t] \in {"lock", "check", "run"} => event[t] = "DATA"
    BY DEF NoStaleCompletion
  <2>1. ~Asked(t)
    BY NoOwnerIsNoThread DEF Rendezvous, Request, AskedByOwner
  <2>2. mqueue[t] \in Seq(Event) /\ async_sem[t] \in Nat /\ event[t] \in Event
    BY DEF TypeOK, TypeThread, TypeShared
  <2>3. async_sem[t] = 0
    BY <2>1, <2>2 DEF Asked
  <2>4. \A k \in DOMAIN mqueue[t] : mqueue[t][k] = "DATA"
    BY <2>1, <2>2 DEF Asked, HasRequest, Event
  <2>5. pc[t] \in {"lock", "check", "run"} => event[t] = "DATA"
    BY <2>1, <2>2 DEF Asked, Working, Places, Event
  <2> QED
    BY <2>3, <2>4, <2>5
<1> QED
  BY <1>1, RendezvousHolds, TypeCorrect, PTL

\* With at most two threads, which is AUDIO_APP_MAX_DATA_THREADS, both hold whatever
\* the RUN commands configure.
THEOREM ResetOfTwoThreads ==
  ASSUME N <= 2
  PROVE  Spec => [](ResetBarrier /\ NoStaleCompletion)
<1>1. OneNarrower
  BY TwoThreadsOneNarrower
<1>2. Spec => []ResetBarrier
  BY <1>1, BarrierHolds
<1>3. Spec => []NoStaleCompletion
  BY <1>1, NothingLeftBehind
<1> QED
  BY <1>2, <1>3, PTL

-----------------------------------------------------------------------------
(* The wake-ups of a single pipeline                                       *)

\* Something will call the parent pipeline once more.
Signal == irq \/ isr = 0 \/ mqueue[0] # <<>>

\* The other threads have nothing to do, and nobody asks for a reset.
OnlyParent ==
  /\ pipeline_count \in 0..1 /\ ccount \in 0..1
  /\ \A t \in Thread \ {0} : pc[t] = "receive" /\ mqueue[t] = <<>>
  /\ ~HasRequest(mqueue[0])
  /\ pc[0] \in Places => event[0] = "DATA"
  /\ pc[0] \notin InReset => reset_mut = NoOwner

\* Until the first event is posted the handler alone promises nothing.
Kicked == cpc # "run_unlock" /\ ~(cpc = "kick" /\ ci = 0)

WakeUp ==
  /\ cpc \in {"run_unlock", "kick"} => handler /\ ccount = 1
  /\ pc[0] \in {"send_restart", "unlock_reset"} => Signal
  /\ handler /\ Kicked => Signal \/ pc[0] \notin {"receive", "unlock"}

LEMMA ParentIsThread == 0 \in Thread
BY NAssumption DEF Thread

\* An event posted to the parent wakes it up, be its queue full or not.
LEMMA SendWakes ==
  ASSUME TypeOK, OnlyParent, Send(0, "DATA")
  PROVE  /\ mqueue'[0] # <<>>
         /\ ~HasRequest(mqueue'[0])
         /\ \A t \in Thread \ {0} : mqueue'[t] = mqueue[t]
<1>1. mqueue \in [Thread -> Seq(Event)] /\ mqueue[0] \in Seq(Event)
  BY ParentIsThread DEF TypeOK, TypeShared
<1>2. CASE Len(mqueue[0]) < QLen
  <2>1. mqueue' = [mqueue EXCEPT ![0] = Append(mqueue[0], "DATA")]
    BY <1>2 DEF Send
  <2>2. ~HasRequest(Append(mqueue[0], "DATA")) /\ Append(mqueue[0], "DATA") # <<>>
    BY <1>1, DataIsNoRequest DEF OnlyParent
  <2> QED
    BY <1>1, <2>1, <2>2, ParentIsThread
<1>3. CASE ~(Len(mqueue[0]) < QLen)
  <2>1. mqueue' = mqueue /\ mqueue[0] # <<>>
    BY <1>1, <1>3, QLenAssumption DEF Send
  <2> QED
    BY <2>1 DEF OnlyParent
<1> QED
  BY <1>2, <1>3

\* The handler is set while a data thread calls it.
LEMMA HandlerCalled ==
  ASSUME TypeOK, SafetyInv, OnlyParent, pc[0] \in InHandler
  PROVE  handler /\ pipeline_count = 1
BY ParentIsThread DEF SafetyInv, HandlerState, OnlyParent

LEMMA WakeUpDataTask ==
  ASSUME TypeOK, SafetyInv, OnlyParent, WakeUp, NEW t \in Thread, DataTask(t)
  PROVE  OnlyParent' /\ WakeUp'
<1>1. t = 0
  BY DEF OnlyParent, DataTask, Receive, Lock, CheckHandler, RunData, RunResetAsync,
         TryLockReset, ResetSelf, SendReset, WaitReset, Restart, SendRestart,
         UnlockReset, Unlock
<1>2. UNCHANGED <<handler, pipeline_count, cpc, ci, ccount, isr>> /\ Kicked' = Kicked
  BY ThreadFrame DEF Kicked
<1>3. /\ pc \in [Thread -> PC] /\ event \in [Thread -> Event] /\ idx \in [Thread -> Nat]
      /\ mqueue \in [Thread -> Seq(Event)] /\ mqueue[0] \in Seq(Event)
      /\ irq \in BOOLEAN
  BY ParentIsThread DEF TypeOK, TypeThread, TypeShared
<1> USE <1>1, <1>2, <1>3, ParentIsThread
<1>4. ASSUME UNCHANGED mqueue, irq => irq',
             \A u \in Thread \ {0} : pc'[u] = pc[u],
             pc'[0] \in Places => event'[0] = "DATA",
             pc'[0] \notin InReset => reset_mut' = NoOwner,
             pc'[0] \in {"send_restart", "unlock_reset"} => Signal',
             handler /\ Kicked => Signal' \/ pc'[0] \notin {"receive", "unlock"}
      PROVE  OnlyParent' /\ WakeUp'
  BY <1>4 DEF OnlyParent, WakeUp
<1> USE DEF GoTo, NextIdx, LoopDone, InReset, InHandler, Places
<1>5. CASE Receive(t)
  <2>1. /\ pc' = [pc EXCEPT ![0] = "lock"]
        /\ event' = [event EXCEPT ![0] = Head(mqueue[0])]
        /\ mqueue' = [mqueue EXCEPT ![0] = Tail(mqueue[0])]
        /\ mqueue[0] # <<>> /\ pc[0] = "receive" /\ reset_mut' = reset_mut
    BY <1>5 DEF Receive
  <2>2. ~HasRequest(Tail(mqueue[0])) /\ Head(mqueue[0]) = "DATA"
    BY <2>1, FirstRequest, RequestTaken DEF OnlyParent, Event
  <2> QED
    BY <2>1, <2>2 DEF OnlyParent, WakeUp
<1>6. CASE Lock(t)
  BY <1>4, <1>6 DEF Lock, OnlyParent, WakeUp
<1>7. CASE CheckHandler(t)
  BY <1>4, <1>7 DEF CheckHandler, OnlyParent, WakeUp
<1>8. CASE RunData(t)
  BY <1>4, <1>8 DEF RunData, OnlyParent, WakeUp, Signal
<1>9. CASE RunResetAsync(t)
  BY <1>9 DEF RunResetAsync, OnlyParent
<1>10. CASE TryLockReset(t)
  BY <1>4, <1>10 DEF TryLockReset, OnlyParent, WakeUp
<1>11. CASE ResetSelf(t)
  BY <1>4, <1>11 DEF ResetSelf, OnlyParent, WakeUp
<1>12. CASE SendReset(t) \/ WaitReset(t) \/ SendRestart(t)
  <2>1. pipeline_count = 1
    BY <1>12, HandlerCalled DEF SendReset, WaitReset, SendRestart
  <2>2. UNCHANGED <<mqueue, irq, event, reset_mut>>
    BY <1>12, <2>1 DEF SendReset, WaitReset, SendRestart
  <2>3. \/ UNCHANGED pc
        \/ /\ pc' = [pc EXCEPT ![0] = "wait"]
           /\ pc[0] = "send_reset"
        \/ /\ pc' = [pc EXCEPT ![0] = "restart"]
           /\ pc[0] = "wait"
        \/ /\ pc' = [pc EXCEPT ![0] = "unlock_reset"]
           /\ pc[0] = "send_restart"
    BY <1>12 DEF SendReset, WaitReset, SendRestart
  <2> QED
    BY <1>4, <2>2, <2>3 DEF OnlyParent, WakeUp, Signal
<1>13. CASE Restart(t)
  BY <1>4, <1>13 DEF Restart, OnlyParent, WakeUp, Signal
<1>14. CASE UnlockReset(t)
  BY <1>4, <1>14 DEF UnlockReset, OnlyParent, WakeUp, Signal
<1>15. CASE Unlock(t)
  BY <1>4, <1>15 DEF Unlock, OnlyParent, WakeUp, Signal
<1> QED
  BY <1>5, <1>6, <1>7, <1>8, <1>9, <1>10, <1>11, <1>12, <1>13, <1>14, <1>15 DEF DataTask

LEMMA WakeUpInterrupt ==
  ASSUME TypeOK, SafetyInv, OnlyParent, WakeUp, Interrupt \/ InterruptSend
  PROVE  OnlyParent' /\ WakeUp'
<1>1. UNCHANGED <<handler, pipeline_count, cpc, ci, ccount, pc, event, reset_mut>>
  BY InterruptFrame
<1>2. Kicked' = Kicked
  BY <1>1 DEF Kicked
<1>3. CASE Interrupt
  BY <1>1, <1>2, <1>3 DEF Interrupt, OnlyParent, WakeUp, Signal, Idle
<1>4. CASE InterruptSend /\ isr < pipeline_count
  <2>1. isr = 0 /\ Send(0, "DATA")
    BY <1>4 DEF InterruptSend, OnlyParent, TypeOK, TypeShared, Idle
  <2>2. Signal'
    BY <2>1, SendWakes DEF Signal
  <2> QED
    BY <1>1, <1>2, <2>1, <2>2, SendWakes DEF OnlyParent, WakeUp
<1>5. CASE InterruptSend /\ ~(isr < pipeline_count)
  <2>1. UNCHANGED <<mqueue, irq>>
    BY <1>5 DEF InterruptSend
  <2>2. pc[0] \in {"send_restart", "unlock_reset"} => isr # 0
    BY <1>5, HandlerCalled DEF InHandler
  <2>3. handler => isr # 0
    BY <1>5 DEF SafetyInv, HandlerState
  <2> QED
    BY <1>1, <1>2, <2>1, <2>2, <2>3 DEF OnlyParent, WakeUp, Signal
<1> QED
  BY <1>3, <1>4, <1>5

LEMMA WakeUpCtrlTask ==
  ASSUME PipelineCounts \subseteq {1}, TypeOK, SafetyInv, OnlyParent, WakeUp, CtrlTask
  PROVE  OnlyParent' /\ WakeUp'
<1>1. UNCHANGED <<pc, event, isr, reset_mut>>
  BY CtrlFrame
<1>2. pc[0] \in {"send_restart", "unlock_reset"} => handler
  BY HandlerCalled DEF InHandler
<1> USE <1>1 DEF CtrlGoTo
<1>3. ASSUME NEW n \in PipelineCounts, CommandRun(n) PROVE OnlyParent' /\ WakeUp'
  BY <1>3 DEF CommandRun, OnlyParent, WakeUp, Signal, Kicked, appVars
<1>4. CASE InitPipeline \/ SaiSetup
  <2>1. ~handler /\ cpc' \in {"init", "idle", "run_lock"}
    BY <1>4 DEF InitPipeline, SaiSetup, SafetyInv, CommandState
  <2> QED
    BY <1>2, <1>4, <2>1 DEF InitPipeline, SaiSetup, OnlyParent, WakeUp
<1>5. CASE RunLock \/ StopLock
  BY <1>5 DEF RunLock, StopLock, CtrlLock, OnlyParent, WakeUp, Signal, Kicked, appVars
<1>6. CASE SetHandler
  <2>1. ccount = 1
    BY <1>6 DEF SetHandler, SafetyInv, CommandState, OnlyParent
  <2>2. ~handler
    BY <1>6 DEF SetHandler, SafetyInv, CommandState
  <2> QED
    BY <1>2, <1>6, <2>1, <2>2 DEF SetHandler, OnlyParent, WakeUp, Kicked
<1>7. CASE RunUnlock
  <2>1. /\ cpc = "run_unlock" /\ (cpc' = "run_unlock" \/ (cpc' = "kick" /\ ci' = 0))
        /\ UNCHANGED <<handler, pipeline_count, ccount, mqueue, irq>>
    BY <1>7 DEF RunUnlock, CtrlUnlock, appVars
  <2> QED
    BY <2>1 DEF OnlyParent, WakeUp, Signal, Kicked
<1>8. CASE Kick
  <2>1. handler /\ ccount = 1 /\ ci \in Nat
    BY <1>8 DEF Kick, WakeUp, TypeOK, TypeCtrl
  <2>2. UNCHANGED <<handler, pipeline_count, ccount, irq>>
    BY <1>8 DEF Kick, appVars
  <2>3. CASE ci = 0
    <3>1. Send(0, "DATA") /\ cpc' = "kick"
      BY <1>8, <2>1, <2>3 DEF Kick
    <3> QED
      BY <2>1, <2>2, <3>1, SendWakes DEF OnlyParent, WakeUp, Signal
  <2>4. CASE ci # 0
    <3>1. Kicked /\ UNCHANGED mqueue /\ cpc' = "idle"
      BY <1>8, <2>1, <2>4 DEF Kick, Kicked
    <3> QED
      BY <2>1, <2>2, <3>1 DEF OnlyParent, WakeUp, Signal
  <2> QED
    BY <2>3, <2>4
<1>9. CASE CommandStop
  BY <1>9 DEF CommandStop, OnlyParent, WakeUp, Signal, Kicked, appVars
<1>10. CASE ClearHandler \/ StopUnlock \/ ExitPipeline \/ SaiClose
  <2>1. /\ ~handler' /\ cpc' \in {"stop_unlock", "exit", "close", "idle"}
        /\ UNCHANGED <<pipeline_count, ccount, mqueue>>
    BY <1>10 DEF ClearHandler, StopUnlock, CtrlUnlock, ExitPipeline, SaiClose, SafetyInv,
       CommandState, appVars
  <2>2. pc[0] \in {"send_restart", "unlock_reset"} => Signal'
    <3>1. CASE ClearHandler
      BY <3>1 DEF ClearHandler, WakeUp, Signal
    <3>2. CASE StopUnlock \/ ExitPipeline \/ SaiClose
      BY <1>2, <3>2 DEF StopUnlock, CtrlUnlock, ExitPipeline, SaiClose, SafetyInv, CommandState
    <3> QED
      BY <1>10, <3>1, <3>2
  <2> QED
    BY <2>1, <2>2 DEF OnlyParent, WakeUp
<1> QED
  BY <1>3, <1>4, <1>5, <1>6, <1>7, <1>8, <1>9, <1>10 DEF CtrlTask

\* While the application runs with one pipeline, the pipeline has a wake-up to
\* come: the interrupt unmasked or being served, or an event queued or in work,
\* whatever events a full queue loses and however often the pipeline is reset.
THEOREM ParentIsWokenUp ==
  ASSUME PipelineCounts \subseteq {1}
  PROVE  Spec => []WakeUpPending
<1>1. Init => OnlyParent /\ WakeUp
  BY ParentIsThread DEF Init, OnlyParent, WakeUp, HasRequest, Places
<1>2. /\ TypeOK /\ SafetyInv
      /\ OnlyParent /\ WakeUp
      /\ [Next]_vars
      => OnlyParent' /\ WakeUp'
  <2> SUFFICES ASSUME TypeOK, SafetyInv, OnlyParent, WakeUp, [Next]_vars
               PROVE  OnlyParent' /\ WakeUp'
    OBVIOUS
  <2>1. CASE UNCHANGED vars
    BY <2>1 DEF vars, OnlyParent, WakeUp, Signal, Kicked
  <2> QED
    BY <2>1, WakeUpDataTask, WakeUpInterrupt, WakeUpCtrlTask DEF Next
<1>3. WakeUp => WakeUpPending
  BY DEF WakeUp, WakeUpPending, Signal, Kicked
<1> QED
  BY <1>1, <1>2, <1>3, TypeCorrect, Safety, PTL DEF Spec
===============================================================================
