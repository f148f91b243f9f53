------------------------------ MODULE AsyncStats ------------------------------
(***************************************************************************)
(* The asynchronous calls of async/async.c, and the statistics that the    *)
(* cyclic thread hands over to be printed or sent by the asynchronous      *)
(* thread: tsn_task.c, cyclic_task.c, serial_iodevice.c and motor/.        *)
(*                                                                         *)
(* An owner of statistics counts in stats and hands over a copy, snap.     *)
(* Most owners keep the threads apart with a pending flag: the cyclic      *)
(* thread copies only when it is clear, the print function clears it.      *)
(* An owner in Unflagged has none (serial_iodevice_stats_dump), and one in *)
(* SentOnce never clears it (motor_stats_send).                            *)
(* Counters that a copy does not reset (net_socket_stats_dump and others)  *)
(* are looked at here by what they gained since the last copy.             *)
(***************************************************************************)
EXTENDS Naturals, Sequences, FiniteSets

CONSTANTS
  Owner,         \* the structures that have statistics
  Unflagged,     \* those without a pending flag
  SentOnce,      \* those whose flag is never cleared after a success
  ASYNC_NUM_MSG, \* depth of the queue of calls
  MaxSamples     \* bound on the samples that an owner counts

Flagged == Owner \ Unflagged

ASSUME OwnerAssumption == Unflagged \subseteq Owner /\ SentOnce \subseteq Flagged
ASSUME QueueAssumption == ASYNC_NUM_MSG \in Nat \ {0}

\* A controller of two motors, which has the most, has 12 owners with a flag and
\* the queue 16 places.
ASSUME RoomAssumption == IsFiniteSet(Owner) /\ Cardinality(Flagged) <= ASYNC_NUM_MSG

VARIABLES
  queue,      \* async->queue: the calls, by the owner of their data
  async,      \* the asynchronous thread waits or runs async->func
  printing,   \* the owner whose call it executes, if any
  stats,      \* samples counted since the last copy
  snap,       \* the copy
  pending,    \* the flag
  dump,       \* where the cyclic thread is in a ..._stats_dump function
  dumping,    \* and the owner it dumps, if any
  total,      \* history: samples counted, per owner
  printed,    \* history: samples printed, of the owners that reset theirs
  crowded     \* history: a call failed with an unflagged owner's in the queue

vars == <<queue, async, printing, stats, snap, pending, dump, dumping, total,
          printed, crowded>>

Queued == {queue[i] : i \in DOMAIN queue}

\* rtos_apps_async_init; the owners are set to zero.
Init ==
  /\ queue = <<>>
  /\ async = "wait"
  /\ printing = {}
  /\ stats = [o \in Owner |-> 0]
  /\ snap = [o \in Owner |-> 0]
  /\ pending = [o \in Owner |-> FALSE]
  /\ dump = "idle"
  /\ dumping = {}
  /\ total = [o \in Owner |-> 0]
  /\ printed = [o \in Owner |-> 0]
  /\ crowded = FALSE

-----------------------------------------------------------------------------
(* The cyclic thread                                                       *)

\* The thread counts a sample, in tsn_task_stats_start and elsewhere.
Count(o) ==
  /\ dump = "idle"
  /\ total[o] < MaxSamples
  /\ stats' = [stats EXCEPT ![o] = @ + 1]
  /\ total' = [total EXCEPT ![o] = @ + 1]
  /\ UNCHANGED <<queue, async, printing, snap, pending, dump, dumping, printed, crowded>>

\* Variant: the flag is not looked at.
DumpAlways(o) ==
  /\ dump = "idle"
  /\ dump' = "copy"
  /\ dumping' = {o}
  /\ UNCHANGED <<queue, async, printing, stats, snap, pending, total, printed, crowded>>

\* A dump function returns at once when the last snapshot is still pending.
Dump(o) ==
  /\ dump = "idle"
  /\ o \in Flagged => ~pending[o]
  /\ dump' = "copy"
  /\ dumping' = {o}
  /\ UNCHANGED <<queue, async, printing, stats, snap, pending, total, printed, crowded>>

\* It copies the statistics, resets them and sets the flag.  The statistics of
\* an unflagged owner are never reset.
Copy(o) ==
  /\ dump = "copy" /\ dumping = {o}
  /\ snap' = [snap EXCEPT ![o] = stats[o]]
  /\ IF o \in Flagged
       THEN /\ stats' = [stats EXCEPT ![o] = 0]
            /\ pending' = [pending EXCEPT ![o] = TRUE]
       ELSE UNCHANGED <<stats, pending>>
  /\ dump' = "call"
  /\ UNCHANGED <<queue, async, printing, dumping, total, printed, crowded>>

\* rtos_apps_async_call does not wait.
Called(o) ==
  /\ dump = "call" /\ dumping = {o}
  /\ Len(queue) < ASYNC_NUM_MSG
  /\ queue' = Append(queue, o)
  /\ dump' = "idle"
  /\ dumping' = {}
  /\ UNCHANGED <<async, printing, stats, snap, pending, total, printed, crowded>>

\* Variant: a failed call leaves the flag set.
CallFailedForgotten(o) ==
  /\ dump = "call" /\ dumping = {o}
  /\ Len(queue) >= ASYNC_NUM_MSG
  /\ dump' = "idle"
  /\ dumping' = {}
  /\ crowded' = TRUE
  /\ UNCHANGED <<queue, async, printing, stats, snap, pending, total, printed>>

\* The call fails when the queue is full: the snapshot is dropped.
CallFailed(o) ==
  /\ dump = "call" /\ dumping = {o}
  /\ Len(queue) >= ASYNC_NUM_MSG
  /\ pending' = [pending EXCEPT ![o] = FALSE]
  /\ dump' = "idle"
  /\ dumping' = {}
  /\ crowded' = (crowded \/ Queued \cap Unflagged # {})
  /\ UNCHANGED <<queue, async, printing, stats, snap, total, printed>>

-----------------------------------------------------------------------------
(* The asynchronous thread                                                 *)

\* Variant: the flag is cleared before the snapshot is read.
ReceiveClears ==
  /\ async = "wait" /\ printing = {} /\ queue # <<>>
  /\ printing' = {Head(queue)}
  /\ queue' = Tail(queue)
  /\ pending' = [pending EXCEPT ![Head(queue)] = FALSE]
  /\ UNCHANGED <<async, stats, snap, dump, dumping, total, printed, crowded>>

\* async_call_process takes a call and begins to execute it.
Receive ==
  /\ async = "wait" /\ printing = {} /\ queue # <<>>
  /\ printing' = {Head(queue)}
  /\ queue' = Tail(queue)
  /\ UNCHANGED <<async, stats, snap, pending, dump, dumping, total, printed, crowded>>

\* The call ends.  If the period has elapsed meanwhile, async->func is next.
Printed(o) ==
  /\ printing = {o}
  /\ printing' = {}
  /\ printed' = [printed EXCEPT ![o] = IF o \in Flagged THEN @ + snap[o] ELSE @]
  /\ pending' = [pending EXCEPT ![o] = o \in SentOnce]
  /\ async' \in {"wait", "func"}
  /\ UNCHANGED <<queue, stats, snap, dump, dumping, total, crowded>>

\* async_task: no call came in a period.
Timeout ==
  /\ async = "wait" /\ printing = {} /\ queue = <<>>
  /\ async' = "func"
  /\ UNCHANGED <<queue, printing, stats, snap, pending, dump, dumping, total, printed, crowded>>

\* async->func returns.
FuncDone ==
  /\ async = "func"
  /\ async' = "wait"
  /\ UNCHANGED <<queue, printing, stats, snap, pending, dump, dumping, total, printed, crowded>>

-----------------------------------------------------------------------------

CyclicStep(o) == Dump(o) \/ Copy(o) \/ Called(o) \/ CallFailed(o)
AsyncStep == Receive \/ (\E o \in Owner : Printed(o)) \/ Timeout \/ FuncDone

Next ==
  \/ \E o \in Owner : Count(o) \/ CyclicStep(o)
  \/ AsyncStep

\* Both threads are scheduled; a dump function that has begun ends, but nobody
\* has to dump.
Fairness ==
  /\ WF_vars(AsyncStep)
  /\ WF_vars(\E o \in Owner : Copy(o) \/ Called(o) \/ CallFailed(o))

Spec == Init /\ [][Next]_vars /\ Fairness

-----------------------------------------------------------------------------
(* Properties                                                              *)

\* Type invariant.
TypeOK ==
  /\ queue \in Seq(Owner) /\ Len(queue) <= ASYNC_NUM_MSG
  /\ async \in {"wait", "func"}
  /\ printing \in SUBSET Owner
  /\ dump \in {"idle", "copy", "call"}
  /\ dumping \in SUBSET Owner
  /\ stats \in [Owner -> Nat]
  /\ snap \in [Owner -> Nat]
  /\ pending \in [Owner -> BOOLEAN]

\* The box of an owner as the two threads see it.
BoxOf(o) ==
  IF o \in printing THEN "read" ELSE IF o \in Queued THEN "full" ELSE "empty"

Mailbox == INSTANCE StatsMailbox WITH
  Owner   <- Flagged,
  box     <- [o \in Flagged |-> BoxOf(o)],
  content <- [o \in Flagged |-> IF BoxOf(o) = "empty" THEN 0 ELSE snap[o]]

\* The pending flags make a mailbox of the queue and the snapshots: a snapshot
\* is not overwritten while its call is in the queue or the asynchronous thread
\* prints it, and is printed once.
MailboxSpec == Mailbox!Spec

\* The snapshot of o is on its way to the asynchronous thread.
HandedOver(o) == o \in Queued \cup printing \/ (dump = "call" /\ dumping = {o})

\* Every sample is in the counters, in a snapshot on its way, or printed, once:
\* also when print and dump interleave.  A call can fail, and its samples be
\* lost, only if calls without a flag are in the queue: those with one never
\* fill a queue that has a place for each.
SamplesConserved ==
  \A o \in Flagged :
    ~crowded => total[o] = printed[o] + stats[o]
                           + (IF HandedOver(o) THEN snap[o] ELSE 0)

\* A flag is cleared at last, so that the owner is heard of again, also after a
\* failed call.
FlagsClear == \A o \in Flagged \ SentOnce : pending[o] ~> ~pending[o]
===============================================================================
