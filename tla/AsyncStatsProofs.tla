--------------------------- MODULE AsyncStatsProofs ---------------------------
(***************************************************************************)
(* The hand-over of statistics implements StatsMailbox, for any owners,    *)
(* any depth of the queue and any number of samples.                       *)
(***************************************************************************)
EXTENDS AsyncStats, FiniteSetTheorems, TLAPS

\* A call of an owner with a flag is in the queue at most once.
QueuedOnce ==
  \A i, j \in DOMAIN queue :
    queue[i] = queue[j] /\ queue[i] \in Flagged => i = j

\* One call is executed at a time, and no other of its owner is in the queue.
PrintsOne ==
  /\ \A o, p \in printing : o = p
  /\ \A o \in Flagged : o \in printing => o \notin Queued

\* The flag of an owner is set while its call is in the queue or executed.
FlagHeld == \A o \in Flagged : o \in Queued \cup printing => pending[o]

\* The cyclic thread copies over a snapshot that nobody is to read, and sets its
\* flag before it calls.
CopiesFree ==
  \A o \in Flagged : o \in dumping =>
    /\ o \notin Queued \cup printing
    /\ dump = "call" => pending[o]

Inv == TypeOK /\ QueuedOnce /\ PrintsOne /\ FlagHeld /\ CopiesFree

-----------------------------------------------------------------------------

\* A call at the end of the queue adds its owner to those in the queue.
LEMMA AppendQueued ==
  ASSUME NEW S, NEW q \in Seq(S), NEW x \in S
  PROVE  /\ Append(q, x) \in Seq(S)
         /\ {Append(q, x)[i] : i \in DOMAIN Append(q, x)}
              = {q[i] : i \in DOMAIN q} \cup {x}
<1> DEFINE r == Append(q, x)
<1>1. r \in Seq(S) /\ Len(r) = Len(q) + 1
  OBVIOUS
<1>2. DOMAIN r = 1..Len(q) + 1 /\ DOMAIN q = 1..Len(q) /\ Len(q) \in Nat
  BY <1>1
<1>3. r[Len(q) + 1] = x /\ \A i \in 1..Len(q) : r[i] = q[i]
  OBVIOUS
<1> HIDE DEF r
<1>4. {r[i] : i \in 1..Len(q) + 1} = {q[i] : i \in 1..Len(q)} \cup {x}
  BY <1>2, <1>3
<1> QED
  BY <1>1, <1>2, <1>4 DEF r

\* The call at the head of the queue and those behind it are all there are.
LEMMA TailQueued ==
  ASSUME NEW S, NEW q \in Seq(S), q # <<>>
  PROVE  /\ Head(q) \in S /\ Tail(q) \in Seq(S) /\ Len(Tail(q)) = Len(q) - 1
         /\ Head(q) = q[1] /\ \A i \in DOMAIN Tail(q) : i + 1 \in DOMAIN q /\ Tail(q)[i] = q[i + 1]
         /\ {q[i] : i \in DOMAIN q} = {Tail(q)[i] : i \in DOMAIN Tail(q)} \cup {Head(q)}
<1> DEFINE t == Tail(q)
<1>1. /\ Head(q) \in S /\ t \in Seq(S) /\ Len(t) = Len(q) - 1 /\ Len(q) \in Nat \ {0}
      /\ DOMAIN q = 1..Len(q) /\ DOMAIN t = 1..Len(q) - 1
  OBVIOUS
<1>2. Head(q) = q[1] /\ \A i \in 1..Len(q) - 1 : t[i] = q[i + 1]
  BY <1>1
<1> HIDE DEF t
<1>3. \A i \in DOMAIN t : i + 1 \in DOMAIN q /\ t[i] = q[i + 1]
  BY <1>1, <1>2
<1>4. \A i \in DOMAIN q : i = 1 \/ (i - 1 \in DOMAIN t /\ t[i - 1] = q[i])
  BY <1>1, <1>2
<1>5. {q[i] : i \in DOMAIN q} = {t[i] : i \in DOMAIN t} \cup {Head(q)}
  <2>1. ASSUME NEW i \in DOMAIN q PROVE q[i] \in {t[j] : j \in DOMAIN t} \cup {Head(q)}
    BY <1>2, <1>4
  <2>2. ASSUME NEW i \in DOMAIN t PROVE t[i] \in {q[j] : j \in DOMAIN q}
    BY <1>3
  <2>3. Head(q) \in {q[j] : j \in DOMAIN q}
    BY <1>1, <1>2
  <2> QED
    BY <2>1, <2>2, <2>3
<1> QED
  BY <1>1, <1>2, <1>3, <1>5 DEF t

-----------------------------------------------------------------------------

\* rtos_apps_async_call adds its owner to those in the queue.
LEMMA CalledQueue ==
  ASSUME TypeOK, NEW o \in Owner, Called(o)
  PROVE  queue' \in Seq(Owner) /\ Queued' = Queued \cup {o}
<1>1. queue \in Seq(Owner) /\ queue' = Append(queue, o)
  BY DEF Called, TypeOK
<1> QED
  BY <1>1, AppendQueued DEF Queued

\* async_call_process takes the call at the head of the queue.
LEMMA ReceiveQueue ==
  ASSUME TypeOK, Receive
  PROVE  \E h \in Owner :
           /\ printing = {} /\ printing' = {h}
           /\ queue' \in Seq(Owner) /\ Len(queue') = Len(queue) - 1
           /\ h = queue[1] /\ 1 \in DOMAIN queue
           /\ \A i \in DOMAIN queue' : /\ i + 1 \in DOMAIN queue /\ i \in Nat \ {0}
                                        /\ queue'[i] = queue[i + 1]
           /\ Queued = Queued' \cup {h}
<1>1. PICK q : q = queue
  OBVIOUS
<1>2. q \in Seq(Owner) /\ q # <<>> /\ queue' = Tail(q) /\ printing = {} /\ printing' = {Head(q)}
  BY <1>1 DEF Receive, TypeOK
<1>3. /\ Head(q) \in Owner /\ Tail(q) \in Seq(Owner) /\ Len(Tail(q)) = Len(q) - 1
      /\ Head(q) = q[1]
      /\ \A i \in DOMAIN Tail(q) : i + 1 \in DOMAIN q /\ Tail(q)[i] = q[i + 1]
      /\ {q[i] : i \in DOMAIN q} = {Tail(q)[i] : i \in DOMAIN Tail(q)} \cup {Head(q)}
  BY <1>2, TailQueued
<1>4. Queued = Queued' \cup {Head(q)}
  <2>1. Queued = {q[i] : i \in DOMAIN q}
    BY <1>1 DEF Queued
  <2>2. Queued' = {Tail(q)[i] : i \in DOMAIN Tail(q)}
    BY <1>2 DEF Queued
  <2> QED
    BY <1>3, <2>1, <2>2
<1>5. 1 \in DOMAIN q /\ \A i \in DOMAIN Tail(q) : i \in Nat \ {0}
  BY <1>2, <1>3
<1> QED
  BY <1>1, <1>2, <1>3, <1>4, <1>5

-----------------------------------------------------------------------------

LEMMA InitInv == Init => Inv
BY OwnerAssumption, QueueAssumption
DEF Init, Inv, TypeOK, QueuedOnce, PrintsOne, FlagHeld, CopiesFree, Queued, Flagged

\* Every step of the two threads preserves the invariant.
LEMMA NextInv == Inv /\ [Next]_vars => Inv'
<1> SUFFICES ASSUME Inv, [Next]_vars PROVE Inv'
  OBVIOUS
<1> USE DEF Inv
<1>1. ASSUME NEW o \in Owner, Count(o) PROVE Inv'
  BY <1>1 DEF Count, TypeOK, QueuedOnce, PrintsOne, FlagHeld, CopiesFree, Queued
<1>2. ASSUME NEW o \in Owner, Dump(o) PROVE Inv'
  BY <1>2 DEF Dump, TypeOK, QueuedOnce, PrintsOne, FlagHeld, CopiesFree, Queued
<1>3. ASSUME NEW o \in Owner, Copy(o) PROVE Inv'
  <2>1. TypeOK'
    <3>1. stats' \in [Owner -> Nat] /\ pending' \in [Owner -> BOOLEAN]
      <4>1. CASE o \in Flagged
        <5>1. stats' = [stats EXCEPT ![o] = 0] /\ pending' = [pending EXCEPT ![o] = TRUE]
          BY <1>3, <4>1 DEF Copy
        <5> QED
          BY <5>1 DEF TypeOK
      <4>2. CASE o \notin Flagged
        BY <1>3, <4>2 DEF Copy, TypeOK
      <4> QED
        BY <4>1, <4>2
    <3>2. snap' \in [Owner -> Nat]
      BY <1>3 DEF Copy, TypeOK
    <3> QED
      BY <1>3, <3>1, <3>2 DEF Copy, TypeOK
  <2>2. QueuedOnce' /\ PrintsOne'
    BY <1>3 DEF Copy, QueuedOnce, PrintsOne, Queued
  <2>3. \A p \in Flagged : (pending[p] => pending'[p]) /\ (p = o => pending'[p])
    BY <1>3 DEF Copy, TypeOK, Flagged
  <2>4. queue' = queue /\ printing' = printing /\ dumping' = dumping /\ dumping = {o}
    BY <1>3 DEF Copy
  <2>5. FlagHeld' /\ CopiesFree'
    BY <2>3, <2>4 DEF FlagHeld, CopiesFree, Queued
  <2> QED
    BY <2>1, <2>2, <2>5
<1>4. ASSUME NEW o \in Owner, Called(o) PROVE Inv'
  <2>1. queue \in Seq(Owner) /\ queue' = Append(queue, o) /\ Len(queue) < ASYNC_NUM_MSG
    BY <1>4 DEF Called, TypeOK
  <2>2. queue' \in Seq(Owner) /\ Queued' = Queued \cup {o}
    BY <1>4, CalledQueue
  <2>3. TypeOK'
    BY <1>4, <2>1, <2>2, QueueAssumption DEF Called, TypeOK
  <2>4. o \in Flagged => o \notin Queued \cup printing
    BY <1>4 DEF Called, CopiesFree
  <2>5. QueuedOnce'
    <3>1. \A i \in DOMAIN queue' :
            \/ i \in DOMAIN queue /\ queue'[i] = queue[i]
            \/ i = Len(queue) + 1 /\ queue'[i] = o
      BY <2>1
    <3>2. \A i \in DOMAIN queue : queue[i] \in Queued
      BY DEF Queued
    <3> QED
      BY <3>1, <3>2, <2>4 DEF QueuedOnce
  <2>6. PrintsOne' /\ FlagHeld' /\ CopiesFree'
    <3>1. pending' = pending /\ printing' = printing /\ dumping' = {}
      BY <1>4 DEF Called
    <3>2. o \in Flagged => pending[o]
      BY <1>4 DEF Called, CopiesFree
    <3> QED
      BY <3>1, <3>2, <2>2, <2>4 DEF PrintsOne, FlagHeld, CopiesFree
  <2> QED
    BY <2>3, <2>5, <2>6
<1>5. ASSUME NEW o \in Owner, CallFailed(o) PROVE Inv'
  <2>1. o \in Flagged => o \notin Queued \cup printing
    BY <1>5 DEF CallFailed, CopiesFree
  <2> QED
    BY <1>5, <2>1 DEF CallFailed, TypeOK, QueuedOnce, PrintsOne, FlagHeld, CopiesFree, Queued, Flagged
<1>6. CASE Receive
  <2>1. PICK h \in Owner :
          /\ printing = {} /\ printing' = {h}
          /\ queue' \in Seq(Owner) /\ Len(queue') = Len(queue) - 1
          /\ h = queue[1] /\ 1 \in DOMAIN queue
          /\ \A i \in DOMAIN queue' : /\ i + 1 \in DOMAIN queue /\ i \in Nat \ {0}
                                       /\ queue'[i] = queue[i + 1]
          /\ Queued = Queued' \cup {h}
    BY <1>6, ReceiveQueue
  <2>2. TypeOK'
    <3>1. Len(queue') <= ASYNC_NUM_MSG
      BY <2>1, QueueAssumption DEF TypeOK
    <3> QED
      BY <1>6, <2>1, <3>1 DEF Receive, TypeOK
  <2>3. QueuedOnce'
    BY <2>1 DEF QueuedOnce
  <2>4. h \in Flagged => h \notin Queued'
    BY <2>1 DEF QueuedOnce, Queued
  <2>5. PrintsOne' /\ FlagHeld' /\ CopiesFree'
    BY <1>6, <2>1, <2>4 DEF Receive, PrintsOne, FlagHeld, CopiesFree
  <2> QED
    BY <2>2, <2>3, <2>5
<1>7. ASSUME NEW o \in Owner, Printed(o) PROVE Inv'
  <2>1. TypeOK'
    BY <1>7 DEF Printed, TypeOK
  <2>2. QueuedOnce' /\ PrintsOne' /\ CopiesFree'
    BY <1>7 DEF Printed, QueuedOnce, PrintsOne, CopiesFree, Queued
  <2>3. FlagHeld'
    BY <1>7 DEF Printed, TypeOK, FlagHeld, PrintsOne, Queued
  <2> QED
    BY <2>1, <2>2, <2>3
<1>8. CASE Timeout \/ FuncDone
  BY <1>8 DEF Timeout, FuncDone, TypeOK, QueuedOnce, PrintsOne, FlagHeld, CopiesFree, Queued
<1>9. CASE UNCHANGED vars
  BY <1>9 DEF vars, TypeOK, QueuedOnce, PrintsOne, FlagHeld, CopiesFree, Queued
<1> QED
  BY <1>1, <1>2, <1>3, <1>4, <1>5, <1>6, <1>7, <1>8, <1>9 DEF Next, CyclicStep, AsyncStep

THEOREM Invariance == Spec => []Inv
<1>1. Init => Inv
  BY InitInv
<1>2. Inv /\ [Next]_vars => Inv'
  BY NextInv
<1> QED
  BY <1>1, <1>2, PTL DEF Spec
-----------------------------------------------------------------------------

Box     == [o \in Flagged |-> BoxOf(o)]
Content == [o \in Flagged |-> IF BoxOf(o) = "empty" THEN 0 ELSE snap[o]]

\* A step of the threads is one of the mailbox or leaves it as it is.
LEMMA NextMailbox == Inv /\ [Next]_vars => [Mailbox!Next]_<<Box, Content>>
<1> SUFFICES ASSUME Inv, [Next]_vars PROVE [Mailbox!Next]_<<Box, Content>>
  OBVIOUS
<1> USE DEF Inv
<1>1. ASSUME UNCHANGED <<queue, printing, snap>>
      PROVE  UNCHANGED <<Box, Content>>
  BY <1>1 DEF Box, Content, BoxOf, Queued
<1>2. ASSUME NEW o \in Owner, Count(o) \/ Dump(o) \/ CallFailed(o)
      PROVE  UNCHANGED <<Box, Content>>
  BY <1>1, <1>2 DEF Count, Dump, CallFailed
<1>3. ASSUME NEW o \in Owner, Copy(o)
      PROVE  UNCHANGED <<Box, Content>>
  <2>1. \A p \in Flagged : p = o => BoxOf(p) = "empty"
    BY <1>3 DEF Copy, CopiesFree, BoxOf
  <2>2. \A p \in Flagged : BoxOf(p)' = BoxOf(p)
    BY <1>3 DEF Copy, BoxOf, Queued
  <2>3. \A p \in Flagged : p # o => snap'[p] = snap[p]
    BY <1>3 DEF Copy, TypeOK, Flagged
  <2> QED
    BY <2>1, <2>2, <2>3 DEF Box, Content
<1>4. ASSUME NEW o \in Owner, Called(o)
      PROVE  [Mailbox!Next]_<<Box, Content>>
  <2>1. Queued' = Queued \cup {o} /\ printing' = printing /\ snap' = snap
    BY <1>4, CalledQueue DEF Called
  <2>2. \A p \in Flagged : p # o => BoxOf(p)' = BoxOf(p)
    BY <2>1 DEF BoxOf
  <2>3. CASE o \notin Flagged
    BY <2>1, <2>2, <2>3 DEF Box, Content
  <2>4. CASE o \in Flagged
    <3>1. BoxOf(o) = "empty" /\ BoxOf(o)' = "full"
      BY <1>4, <2>1, <2>4 DEF Called, CopiesFree, BoxOf
    <3>2. Box' = [Box EXCEPT ![o] = "full"] /\ Box[o] = "empty"
      BY <2>2, <2>4, <3>1 DEF Box
    <3>3. Content' \in [Flagged -> Nat]
      BY <2>1 DEF Content, TypeOK, Flagged
    <3>4. \A p \in Flagged \ {o} : Content'[p] = Content[p]
      BY <2>1, <2>2 DEF Content
    <3>5. Mailbox!Put(o)
      BY <3>2, <3>3, <3>4 DEF Mailbox!Put, Box, Content
    <3> QED
      BY <2>4, <3>5 DEF Mailbox!Next
  <2> QED
    BY <2>3, <2>4
<1>5. CASE Receive
  <2>1. PICK h \in Owner :
          Queued = Queued' \cup {h} /\ printing = {} /\ printing' = {h} /\ snap' = snap
    BY <1>5, ReceiveQueue DEF Receive
  <2>2. h \in Flagged => h \notin Queued'
    BY NextInv, <2>1 DEF PrintsOne
  <2>3. \A p \in Flagged : p # h => BoxOf(p)' = BoxOf(p)
    BY <2>1 DEF BoxOf
  <2>4. CASE h \notin Flagged
    BY <2>1, <2>3, <2>4 DEF Box, Content
  <2>5. CASE h \in Flagged
    <3>1. BoxOf(h) = "full" /\ BoxOf(h)' = "read"
      BY <2>1, <2>2, <2>5 DEF BoxOf
    <3>2. Box' = [Box EXCEPT ![h] = "read"] /\ Box[h] = "full"
      BY <2>3, <2>5, <3>1 DEF Box
    <3>3. Content' = Content
      BY <2>1, <2>3, <3>1 DEF Content
    <3>4. Mailbox!Read(h)
      BY <3>2, <3>3 DEF Mailbox!Read, Box, Content
    <3> QED
      BY <2>5, <3>4 DEF Mailbox!Next
  <2> QED
    BY <2>4, <2>5
<1>6. ASSUME NEW o \in Owner, Printed(o)
      PROVE  [Mailbox!Next]_<<Box, Content>>
  <2>1. printing = {o} /\ printing' = {} /\ queue' = queue /\ snap' = snap
    BY <1>6 DEF Printed
  <2>2. \A p \in Flagged : p # o => BoxOf(p)' = BoxOf(p)
    BY <2>1 DEF BoxOf, Queued
  <2>3. CASE o \notin Flagged
    BY <2>1, <2>2, <2>3 DEF Box, Content
  <2>4. CASE o \in Flagged
    <3>1. BoxOf(o) = "read" /\ BoxOf(o)' = "empty"
      BY <2>1, <2>4 DEF PrintsOne, BoxOf, Queued
    <3>2. Box' = [Box EXCEPT ![o] = "empty"] /\ Box[o] = "read"
      BY <2>2, <2>4, <3>1 DEF Box
    <3>3. Content' = [Content EXCEPT ![o] = 0]
      BY <2>1, <2>2, <2>4, <3>1 DEF Content
    <3>4. Mailbox!Empty(o)
      BY <3>2, <3>3 DEF Mailbox!Empty, Box, Content
    <3> QED
      BY <2>4, <3>4 DEF Mailbox!Next
  <2> QED
    BY <2>3, <2>4
<1>7. CASE Timeout \/ FuncDone \/ UNCHANGED vars
  BY <1>1, <1>7 DEF Timeout, FuncDone, vars
<1> QED
  BY <1>2, <1>3, <1>4, <1>5, <1>6, <1>7 DEF Next, CyclicStep, AsyncStep

\* The queue, the flags and the snapshots implement the mailbox: what is handed
\* over is neither changed nor replaced until it has been printed.
THEOREM ImplementsMailbox == Spec => MailboxSpec
<1>1. Init => Mailbox!Init
  BY DEF Init, Mailbox!Init, BoxOf, Queued
<1>2. Inv /\ [Next]_vars => [Mailbox!Next]_<<Box, Content>>
  BY NextMailbox
<1> QED
  BY <1>1, <1>2, Invariance, PTL DEF Spec, MailboxSpec, Mailbox!Spec, Box, Content
-----------------------------------------------------------------------------

\* A queue that holds calls with a flag only has room for one more.
LEMMA FlaggedFit ==
  ASSUME Inv, NEW o \in Flagged, o \notin Queued, Queued \cap Unflagged = {}
  PROVE  Len(queue) < ASYNC_NUM_MSG
<1> DEFINE Others == Flagged \ {o}
<1>1. IsFiniteSet(Flagged) /\ IsFiniteSet(Others)
  BY RoomAssumption, FS_Subset DEF Flagged
<1>2. Cardinality(Others) = Cardinality(Flagged) - 1 /\ Cardinality(Flagged) \in Nat
  BY <1>1, FS_RemoveElement, FS_CardinalityType
<1>3. queue \in Seq(Owner) /\ Len(queue) \in Nat /\ DOMAIN queue = 1..Len(queue)
  BY DEF Inv, TypeOK
<1>4. \A i \in 1..Len(queue) : queue[i] \in Others
  BY <1>3 DEF Queued, Flagged
<1>5. queue \in [1..Len(queue) -> Others]
  BY <1>3, <1>4
<1>6. IsFiniteSet(1..Len(queue)) /\ Cardinality(1..Len(queue)) = Len(queue)
  BY <1>3, FS_Interval
<1> HIDE DEF Others
<1>7. CASE Cardinality(Others) < Len(queue)
  <2>1. \E i, j \in 1..Len(queue) : i # j /\ queue[i] = queue[j]
    BY <1>1, <1>5, <1>6, <1>7, FS_PigeonHole
  <2> QED
    BY <1>3, <1>4, <2>1 DEF Inv, QueuedOnce, Others
<1>8. CASE Len(queue) <= Cardinality(Others)
  BY <1>2, <1>3, <1>8, RoomAssumption, QueueAssumption
<1> QED
  BY <1>2, <1>3, <1>7, <1>8

HistoryOK ==
  /\ total \in [Owner -> Nat] /\ printed \in [Owner -> Nat] /\ crowded \in BOOLEAN
  /\ SamplesConserved

\* Every step moves samples from one place to the next.
LEMMA NextConserves == Inv /\ HistoryOK /\ [Next]_vars => HistoryOK'
<1> SUFFICES ASSUME Inv, HistoryOK, [Next]_vars PROVE HistoryOK'
  OBVIOUS
<1> DEFINE Held(o) == IF HandedOver(o) THEN snap[o] ELSE 0
<1>0. /\ stats \in [Owner -> Nat] /\ snap \in [Owner -> Nat]
      /\ total \in [Owner -> Nat] /\ printed \in [Owner -> Nat]
      /\ Flagged \subseteq Owner
  BY DEF Inv, TypeOK, HistoryOK, Flagged
<1>1. ASSUME NEW o \in Owner, Count(o) PROVE HistoryOK'
  <2>1. \A p \in Flagged : HandedOver(p)' = HandedOver(p)
    BY <1>1 DEF Count, HandedOver, Queued
  <2>2. /\ total' = [total EXCEPT ![o] = @ + 1] /\ stats' = [stats EXCEPT ![o] = @ + 1]
        /\ printed' = printed /\ snap' = snap /\ crowded' = crowded
    BY <1>1 DEF Count
  <2> QED
    BY <1>0, <2>1, <2>2 DEF HistoryOK, SamplesConserved
<1>2. ASSUME NEW o \in Owner, Dump(o) PROVE HistoryOK'
  <2>1. \A p \in Flagged : HandedOver(p)' = HandedOver(p)
    BY <1>2 DEF Dump, HandedOver, Queued
  <2> QED
    BY <1>2, <2>1 DEF Dump, HistoryOK, SamplesConserved
<1>3. ASSUME NEW o \in Owner, Copy(o) PROVE HistoryOK'
  <2>1. /\ total' = total /\ printed' = printed /\ crowded' = crowded
        /\ snap' = [snap EXCEPT ![o] = stats[o]]
        /\ o \in Flagged => stats' = [stats EXCEPT ![o] = 0]
        /\ o \notin Flagged => stats' = stats
    BY <1>3 DEF Copy
  <2>2. \A p \in Flagged : p # o => HandedOver(p)' = HandedOver(p)
    BY <1>3 DEF Copy, HandedOver, Queued
  <2>3. o \in Flagged => ~HandedOver(o) /\ HandedOver(o)'
    BY <1>3 DEF Copy, HandedOver, Inv, CopiesFree, Queued
  <2>4. \A p \in Flagged : stats'[p] + Held(p)' = stats[p] + Held(p)
    <3>1. ASSUME NEW p \in Flagged, p # o PROVE stats'[p] + Held(p)' = stats[p] + Held(p)
      BY <1>0, <2>1, <2>2, <3>1
    <3>2. o \in Flagged => stats'[o] + Held(o)' = stats[o] + Held(o)
      BY <1>0, <2>1, <2>3
    <3> QED
      BY <3>1, <3>2
  <2>5. \A p \in Flagged : stats'[p] \in Nat /\ Held(p)' \in Nat
    BY <1>0, <2>1
  <2>6. \A p \in Flagged : stats[p] \in Nat /\ Held(p) \in Nat /\ printed[p] \in Nat
    BY <1>0
  <2>7. \A p \in Flagged : ~crowded => total[p] = printed[p] + stats[p] + Held(p)
    BY DEF HistoryOK, SamplesConserved
  <2> HIDE DEF Held
  <2>8. \A p \in Flagged : ~crowded' => total'[p] = printed'[p] + stats'[p] + Held(p)'
    BY <2>1, <2>4, <2>5, <2>6, <2>7
  <2> QED
    BY <2>1, <2>8 DEF HistoryOK, SamplesConserved, Held
<1>4. ASSUME NEW o \in Owner, Called(o) PROVE HistoryOK'
  <2>1. Queued' = Queued \cup {o}
    BY <1>4, CalledQueue DEF Inv
  <2>2. \A p \in Flagged : HandedOver(p)' = HandedOver(p)
    BY <1>4, <2>1 DEF Called, HandedOver
  <2> QED
    BY <1>4, <2>2 DEF Called, HistoryOK, SamplesConserved
<1>5. ASSUME NEW o \in Owner, CallFailed(o) PROVE HistoryOK'
  <2>1. total' = total /\ printed' = printed /\ stats' = stats /\ snap' = snap /\ crowded' \in BOOLEAN
    BY <1>5 DEF CallFailed, HistoryOK
  <2>2. CASE crowded'
    BY <2>1, <2>2 DEF HistoryOK, SamplesConserved
  <2>3. CASE ~crowded'
    <3>1. ~crowded /\ Queued \cap Unflagged = {} /\ Len(queue) >= ASYNC_NUM_MSG
      BY <1>5, <2>3 DEF CallFailed
    <3>2. o \in Flagged => o \notin Queued
      BY <1>5 DEF CallFailed, Inv, CopiesFree
    <3>3. Len(queue) \in Nat
      BY DEF Inv, TypeOK
    <3>4. o \notin Flagged
      BY <3>1, <3>2, <3>3, FlaggedFit, QueueAssumption
    <3>5. \A p \in Flagged : HandedOver(p)' = HandedOver(p)
      BY <1>5, <3>4 DEF CallFailed, HandedOver, Queued
    <3> QED
      BY <2>1, <3>1, <3>5 DEF HistoryOK, SamplesConserved
  <2> QED
    BY <2>2, <2>3
<1>6. CASE Receive
  <2>1. PICK h \in Owner : Queued = Queued' \cup {h} /\ printing = {} /\ printing' = {h}
    BY <1>6, ReceiveQueue DEF Inv
  <2>2. \A p \in Flagged : HandedOver(p)' = HandedOver(p)
    BY <1>6, <2>1 DEF Receive, HandedOver
  <2> QED
    BY <1>6, <2>2 DEF Receive, HistoryOK, SamplesConserved
<1>7. ASSUME NEW o \in Owner, Printed(o) PROVE HistoryOK'
  <2>1. /\ total' = total /\ stats' = stats /\ snap' = snap /\ crowded' = crowded
        /\ o \in Flagged => printed' = [printed EXCEPT ![o] = @ + snap[o]]
        /\ o \notin Flagged => printed' = [printed EXCEPT ![o] = @]
        /\ printing = {o} /\ printing' = {} /\ queue' = queue /\ dump' = dump
        /\ dumping' = dumping
    BY <1>7 DEF Printed
  <2>2. \A p \in Flagged : p # o => HandedOver(p)' = HandedOver(p)
    BY <2>1 DEF HandedOver, Queued
  <2>3. o \in Flagged => HandedOver(o) /\ ~HandedOver(o)'
    BY <2>1 DEF HandedOver, Inv, PrintsOne, CopiesFree, Queued
  <2>4. printed' \in [Owner -> Nat] /\ \A p \in Flagged : p # o => printed'[p] = printed[p]
    BY <1>0, <2>1
  <2>5. ASSUME NEW p \in Flagged, ~crowded'
        PROVE  total'[p] = printed'[p] + stats'[p] + Held(p)'
    <3>1. total[p] = printed[p] + stats[p] + Held(p)
      BY <2>1, <2>5 DEF HistoryOK, SamplesConserved
    <3>2. CASE p # o
      BY <2>1, <2>2, <2>4, <3>1, <3>2
    <3>3. CASE p = o
      <4>1. printed'[p] = printed[p] + snap[p] /\ Held(p) = snap[p] /\ Held(p)' = 0
        BY <1>0, <2>1, <2>3, <3>3
      <4>2. printed[p] \in Nat /\ stats[p] \in Nat /\ snap[p] \in Nat
        BY <1>0
      <4> HIDE DEF Held
      <4> QED
        BY <2>1, <3>1, <4>1, <4>2
    <3> QED
      BY <3>2, <3>3
  <2> QED
    BY <2>1, <2>4, <2>5 DEF HistoryOK, SamplesConserved
<1>8. CASE Timeout \/ FuncDone \/ UNCHANGED vars
  <2>1. UNCHANGED <<queue, printing, stats, snap, dump, dumping, total, printed, crowded>>
    BY <1>8 DEF Timeout, FuncDone, vars
  <2>2. \A p \in Flagged : HandedOver(p)' = HandedOver(p)
    BY <2>1 DEF HandedOver, Queued
  <2> QED
    BY <2>1, <2>2 DEF HistoryOK, SamplesConserved
<1> QED
  BY <1>1, <1>2, <1>3, <1>4, <1>5, <1>6, <1>7, <1>8 DEF Next, CyclicStep, AsyncStep

\* Unless calls without a flag crowd the queue, every sample is counted, on its
\* way or printed, exactly once.
THEOREM NoSampleLost == Spec => []SamplesConserved
<1>1. ASSUME Init PROVE HistoryOK
  <2>1. \A o \in Owner : total[o] = 0 /\ printed[o] = 0 /\ stats[o] = 0
    BY <1>1 DEF Init
  <2>2. \A o : ~HandedOver(o)
    BY <1>1 DEF Init, HandedOver, Queued
  <2>3. SamplesConserved
    BY <2>1, <2>2 DEF SamplesConserved, Flagged
  <2> QED
    BY <1>1, <2>3 DEF Init, HistoryOK
<1>2. Inv /\ HistoryOK /\ [Next]_vars => HistoryOK'
  BY NextConserves
<1>3. HistoryOK => SamplesConserved
  BY DEF HistoryOK
<1> QED
  BY <1>1, <1>2, <1>3, Invariance, PTL DEF Spec
===============================================================================
