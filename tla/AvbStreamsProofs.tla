--------------------------- MODULE AvbStreamsProofs ---------------------------
(***************************************************************************)
(* The AVB streams that runs use and those that the AVB stack has          *)
(* connected, and the periods in the buffers of the sources, for any       *)
(* number of data threads, pipelines and streams, any size of the buffers  *)
(* and any number of RUN commands that fail.                               *)
(***************************************************************************)
EXTENDS AvbStreams, TLAPS

StreamState == [connected : BOOLEAN, handle : {"null", "live", "destroyed"}, first_start : BOOLEAN]

Operation ==
  {Idle} \cup [kind : {"connect", "disconnect"}, e : Element, i : Index, p : Slot,
               at : {"begin", "show", "destroy", "clear"}]

Place ==
  {Idle} \cup {d \in [kind : {"run", "reset"}, e : Element, i : Index,
                      at : {"check", "use", "not", "lock"}] :
                 d.at \in {"use", "not"} => d.i < StreamN}

TypeOK ==
  /\ entity \subseteq Element \X Index
  /\ slot_of \in [Thread -> Slot \cup {NONE}]
  /\ running \in BOOLEAN
  /\ pipelines \subseteq Slot
  /\ stream \in [Slot -> [Element -> [Index -> StreamState]]]
  /\ level \in [Slot -> [Index -> Int]]
  /\ mutex \in [Slot -> [Element -> {"free", "data"}]]
  /\ op \in Operation
  /\ dpc \in [Thread -> Place]
  /\ wanted \subseteq (Element \cup {"crf"}) \X Index

\* While the application is stopped, nobody works on a stream.
StoppedIdle == ~running => op = Idle /\ \A t \in Thread : dpc[t] = Idle

\* While it runs, every data thread has a pipeline of its own.
OwnSlots ==
  running => /\ \A t \in Thread : slot_of[t] \in Slot
             /\ \A t, u \in Thread : slot_of[t] = slot_of[u] => t = u

\* A stream that is shown as connected lives.
ConnectedLive ==
  \A p \in Slot, e \in Element, i \in Index :
    stream[p][e][i].connected => stream[p][e][i].handle = "live"

\* The control thread shows a stream when it lives, and destroys one that is hidden.
Working ==
  /\ op # Idle /\ op.at = "show" => Its.handle = "live"
  /\ op # Idle /\ op.at \in {"destroy", "clear"} => ~Its.connected

\* A run holds the mutex of the element it is in.
RunLocks ==
  \A t \in Thread :
    dpc[t].kind = "run" /\ dpc[t].at # "lock" => mutex[slot_of[t]][dpc[t].e] = "data"

\* What a run found connected stays so.
UsesConnected == \A t \in Thread : Doing(t, "run", "use") => That(t).connected

StreamInv ==
  /\ TypeOK /\ StoppedIdle /\ OwnSlots
  /\ ConnectedLive /\ Working /\ RunLocks /\ UsesConnected

-----------------------------------------------------------------------------

\* A data thread changes first_start only, and no stream's connection.
SameStreams ==
  /\ stream' \in [Slot -> [Element -> [Index -> StreamState]]]
  /\ \A p \in Slot, e \in Element, i \in Index :
       /\ stream'[p][e][i].connected = stream[p][e][i].connected
       /\ stream'[p][e][i].handle = stream[p][e][i].handle

SetsStream(p, e, i, s) == stream' = [stream EXCEPT ![p][e][i] = s]

OneStream(p, e, i, s) ==
  /\ stream' \in [Slot -> [Element -> [Index -> StreamState]]]
  /\ \A q \in Slot, f \in Element, j \in Index :
       stream'[q][f][j] = IF q = p /\ f = e /\ j = i THEN s ELSE stream[q][f][j]

\* The type and the fields of the streams after one of them is set.
LEMMA StreamSet ==
  ASSUME TypeOK, NEW p \in Slot, NEW e \in Element, NEW i \in Index, NEW s \in StreamState,
         SetsStream(p, e, i, s)
  PROVE  OneStream(p, e, i, s)
  BY DEF TypeOK, SetsStream, OneStream

\* Setting first_start is such a step.
LEMMA FirstStart ==
  ASSUME TypeOK, NEW p \in Slot, NEW e \in Element, NEW i \in Index, NEW b \in BOOLEAN,
         stream' = [stream EXCEPT ![p][e][i].first_start = b]
  PROVE  SameStreams
<1> DEFINE s == [stream[p][e][i] EXCEPT !.first_start = b]
<1>1. /\ s \in StreamState
      /\ s.connected = stream[p][e][i].connected /\ s.handle = stream[p][e][i].handle
  <2>1. stream[p][e][i] \in StreamState
    BY DEF TypeOK
  <2> QED
    BY <2>1 DEF StreamState
<1>2. SetsStream(p, e, i, s)
  BY DEF SetsStream
<1> HIDE DEF s
<1>3. OneStream(p, e, i, s)
  BY <1>1, <1>2, StreamSet
<1> QED
  BY <1>1, <1>3 DEF SameStreams, OneStream

\* Setting the mutex of one pipeline leaves the others alone.
LEMMA MutexSet ==
  ASSUME TypeOK, NEW t \in Thread, slot_of[t] \in Slot, NEW e \in Element,
         NEW v \in {"free", "data"}, SetMutex(t, e, v)
  PROVE  /\ mutex' \in [Slot -> [Element -> {"free", "data"}]]
         /\ mutex'[slot_of[t]][e] = v
         /\ \A p \in Slot : p # slot_of[t] => mutex'[p] = mutex[p]
  BY DEF TypeOK, SetMutex

\* A step of a data thread keeps the invariant if it keeps the streams and the
\* mutexes of the other pipelines, and the place it moves to is justified.
LEMMA DataStep ==
  ASSUME StreamInv, NEW t \in Thread, NEW d \in Place, running,
         Move(t, d), SameStreams,
         UNCHANGED <<entity, slot_of, running, pipelines, op, wanted>>,
         level' \in [Slot -> [Index -> Int]],
         mutex' \in [Slot -> [Element -> {"free", "data"}]],
         \A p \in Slot : p # slot_of[t] => mutex'[p] = mutex[p],
         d.kind = "run" /\ d.at # "lock" => mutex'[slot_of[t]][d.e] = "data",
         d.kind = "run" /\ d.at = "use" => stream[slot_of[t]][d.e][d.i].connected
  PROVE  StreamInv'
<1>1. /\ dpc' \in [Thread -> Place] /\ dpc'[t] = d
      /\ \A u \in Thread : u # t => dpc'[u] = dpc[u]
  BY DEF Move, StreamInv, TypeOK
<1>2. TypeOK'
  BY <1>1 DEF StreamInv, TypeOK, SameStreams
<1>3. /\ \A u \in Thread : slot_of[u] \in Slot
      /\ \A u, v \in Thread : slot_of[u] = slot_of[v] => u = v
  BY DEF StreamInv, OwnSlots
<1>4. \A u \in Thread : dpc[u] \in Place
  BY DEF StreamInv, TypeOK
<1>5. RunLocks'
  BY <1>1, <1>3 DEF StreamInv, RunLocks
<1>6. \A u \in Thread : dpc'[u].kind = "run" =>
        /\ dpc'[u].e \in Element /\ dpc'[u].i \in Index
        /\ That(u)'.connected = stream[slot_of[u]][dpc'[u].e][dpc'[u].i].connected
  <2>1. \A u \in Thread : dpc'[u] \in Place
    BY <1>1
  <2>2. \A u \in Thread : dpc'[u].kind = "run" => dpc'[u].e \in Element /\ dpc'[u].i \in Index
    BY <2>1 DEF Place, Idle
  <2> QED
    BY <2>2, <1>3 DEF SameStreams, That
<1>7. UsesConnected'
  <2> SUFFICES ASSUME NEW u \in Thread, Doing(u, "run", "use")'
               PROVE  That(u)'.connected
    BY DEF UsesConnected
  <2>1. /\ dpc'[u].kind = "run" /\ dpc'[u].at = "use"
        /\ That(u)'.connected = stream[slot_of[u]][dpc'[u].e][dpc'[u].i].connected
    BY <1>6 DEF Doing
  <2>2. CASE u = t
    BY <1>1, <2>1, <2>2
  <2>3. CASE u # t
    <3>1. dpc'[u] = dpc[u]
      BY <1>1, <2>3
    <3>2. That(u).connected
      BY <2>1, <3>1 DEF StreamInv, UsesConnected, Doing
    <3> QED
      BY <2>1, <3>1, <3>2 DEF That
  <2> QED
    BY <2>2, <2>3
<1>8. Working'
  <2>1. op # Idle => op.p \in Slot /\ op.e \in Element /\ op.i \in Index
    BY DEF StreamInv, TypeOK, Operation
  <2> QED
    BY <2>1 DEF StreamInv, Working, Its, SameStreams
<1>9. ConnectedLive'
  <2> SUFFICES ASSUME NEW p \in Slot, NEW e \in Element, NEW i \in Index,
                      stream'[p][e][i].connected
               PROVE  stream'[p][e][i].handle = "live"
    BY DEF ConnectedLive
  <2>1. stream[p][e][i].connected /\ stream'[p][e][i].handle = stream[p][e][i].handle
    BY DEF SameStreams
  <2> QED
    BY <2>1 DEF StreamInv, ConnectedLive
<1>10. StoppedIdle' /\ OwnSlots'
  BY DEF StreamInv, StoppedIdle, OwnSlots
<1> QED
  BY <1>2, <1>5, <1>7, <1>8, <1>9, <1>10 DEF StreamInv

\* A step of the control thread that changes one stream, which is not in use if it
\* is no longer connected.
LEMMA ControlStep ==
  ASSUME StreamInv, op # Idle, op' \in Operation,
         NEW s \in StreamState, SetsStream(op.p, op.e, op.i, s),
         s.connected => s.handle = "live",
         ~s.connected => ~Its.connected \/ mutex[op.p][op.e] = "free",
         op' # Idle /\ op'.at = "show" => op'.p = op.p /\ op'.e = op.e /\ op'.i = op.i /\ s.handle = "live",
         op' # Idle /\ op'.at \in {"destroy", "clear"} =>
           op'.p = op.p /\ op'.e = op.e /\ op'.i = op.i /\ ~s.connected,
         UNCHANGED <<entity, slot_of, running, pipelines, level, mutex, dpc, wanted>>
  PROVE  StreamInv'
<1>1. op.p \in Slot /\ op.e \in Element /\ op.i \in Index /\ running
  BY DEF StreamInv, TypeOK, Operation, StoppedIdle
<1>2. OneStream(op.p, op.e, op.i, s)
  BY <1>1, StreamSet DEF StreamInv
<1>3. /\ stream' \in [Slot -> [Element -> [Index -> StreamState]]]
      /\ \A q \in Slot, f \in Element, j \in Index :
           stream'[q][f][j] =
             IF q = op.p /\ f = op.e /\ j = op.i THEN s ELSE stream[q][f][j]
  BY <1>2 DEF OneStream
<1>4. TypeOK'
  BY <1>3 DEF StreamInv, TypeOK
<1>5. ConnectedLive'
  BY <1>3 DEF StreamInv, ConnectedLive
<1>6. Working'
  BY <1>1, <1>3 DEF Working, Its
<1>7. UsesConnected'
  <2> SUFFICES ASSUME NEW t \in Thread, dpc[t].kind = "run", dpc[t].at = "use"
               PROVE  That(t)'.connected
    BY DEF UsesConnected, Doing
  <2>1. slot_of[t] \in Slot /\ dpc[t].e \in Element /\ dpc[t].i \in Index
    <3>1. dpc[t] \in Place
      BY DEF StreamInv, TypeOK
    <3> QED
      BY <1>1, <3>1 DEF StreamInv, OwnSlots, Place, Idle
  <2>2. That(t).connected /\ mutex[slot_of[t]][dpc[t].e] = "data"
    BY DEF StreamInv, UsesConnected, RunLocks, Doing
  <2>3. That(t)' = stream'[slot_of[t]][dpc[t].e][dpc[t].i]
    BY DEF That
  <2>4. CASE slot_of[t] = op.p /\ dpc[t].e = op.e /\ dpc[t].i = op.i
    <3>1. Its = That(t)
      BY <2>4 DEF Its, That
    <3>2. s.connected
      BY <2>2, <2>4, <3>1
    <3> QED
      BY <1>1, <1>3, <2>3, <2>4, <3>2
  <2>5. CASE ~(slot_of[t] = op.p /\ dpc[t].e = op.e /\ dpc[t].i = op.i)
    <3>1. That(t)' = That(t)
      BY <1>3, <2>1, <2>3, <2>5 DEF That
    <3> QED
      BY <2>2, <3>1
  <2> QED
    BY <2>4, <2>5
<1>8. StoppedIdle' /\ OwnSlots' /\ RunLocks'
  BY <1>1 DEF StreamInv, StoppedIdle, OwnSlots, RunLocks
<1> QED
  BY <1>4, <1>5, <1>6, <1>7, <1>8 DEF StreamInv

\* A step of the control thread that changes no stream.
LEMMA RequestStep ==
  ASSUME StreamInv, op' \in Operation, running,
         op' # Idle => op'.at = "begin",
         wanted' \subseteq (Element \cup {"crf"}) \X Index,
         UNCHANGED <<entity, slot_of, running, pipelines, stream, level, mutex, dpc>>
  PROVE  StreamInv'
<1>1. TypeOK'
  BY DEF StreamInv, TypeOK
<1>2. Working'
  BY DEF Working
<1>3. ConnectedLive' /\ RunLocks' /\ OwnSlots' /\ StoppedIdle'
  BY DEF StreamInv, ConnectedLive, RunLocks, OwnSlots, StoppedIdle
<1>4. UsesConnected'
  BY DEF StreamInv, UsesConnected, Doing, That
<1> QED
  BY <1>1, <1>2, <1>3, <1>4 DEF StreamInv

\* A request starts with the first pipeline in the table, and goes on with the next.
LEMMA FirstRequest ==
  ASSUME TypeOK, NEW k \in {"connect", "disconnect"}, NEW e \in Element, NEW i \in Index,
         NEW o \in Request(k, e, i)
  PROVE  o \in Operation /\ o # Idle /\ o.at = "begin"
  BY DEF TypeOK, Request, First, Operation, Idle

LEMMA NextRequest ==
  ASSUME TypeOK, op # Idle, NEW o \in NextSlot
  PROVE  o \in Operation /\ (o # Idle => o.at = "begin")
<1>1. CASE o = Idle
  BY <1>1 DEF Operation
<1>2. CASE o # Idle
  <2>1. PICK p \in pipelines : o = [op EXCEPT !.p = p, !.at = "begin"]
    BY <1>2 DEF NextSlot, First
  <2> QED
    BY <2>1 DEF TypeOK, Operation
<1> QED
  BY <1>1, <1>2

\* A stopped application: nobody uses a stream.
LEMMA QuietStep ==
  ASSUME StreamInv, TypeOK', OwnSlots', ConnectedLive',
         op = Idle, \A t \in Thread : dpc[t] = Idle, UNCHANGED <<op, dpc>>
  PROVE  StreamInv'
<1>1. Working' /\ StoppedIdle'
  BY DEF Working, StoppedIdle
<1>2. RunLocks' /\ UsesConnected'
  BY DEF RunLocks, UsesConnected, Doing, Idle
<1> QED
  BY <1>1, <1>2 DEF StreamInv

\* New pipelines get slots that are free, each one of its own.
LEMMA AllocationsAreSlots ==
  ASSUME NEW k \in 1..N, NEW slots \in Allocations(k)
  PROVE  /\ \A t \in 0..k-1 : slots[t] \in Slot /\ slots[t] \notin pipelines
         /\ \A t, u \in 0..k-1 : slots[t] = slots[u] => t = u
<1>1. /\ slots \in [0..k-1 -> Free]
      /\ \A t \in 0..k-1, s \in Int : s \in 0..t-1 => slots[s] < slots[t]
  BY DEF Allocations
<1>2. \A t \in 0..k-1 : slots[t] \in Slot /\ slots[t] \notin pipelines
  BY <1>1 DEF Free
<1>3. \A t, u \in 0..k-1 : t < u => slots[t] < slots[u]
  BY <1>1
<1>4. \A t, u \in 0..k-1 : slots[t] = slots[u] => t = u
  <2> SUFFICES ASSUME NEW t \in 0..k-1, NEW u \in 0..k-1, slots[t] = slots[u], t # u
               PROVE  FALSE
    OBVIOUS
  <2>1. slots[t] \in Int /\ slots[u] \in Int
    BY <1>2, NumbersAssumption DEF Slot
  <2>2. t < u \/ u < t
    BY ThreadAssumption
  <2> QED
    BY <1>3, <2>1, <2>2
<1> QED
  BY <1>2, <1>4

\* What a RUN does to the table and to the streams, whether it fails later or not.
LEMMA RunInitStep ==
  ASSUME TypeOK, ConnectedLive, NEW k \in 1..N, RunInit(k),
         running' \in BOOLEAN, UNCHANGED <<entity, mutex, op, dpc, wanted>>
  PROVE  /\ TypeOK' /\ ConnectedLive'
         /\ \A t \in 0..k-1 : slot_of'[t] \in Slot
         /\ \A t, u \in 0..k-1 : slot_of'[t] = slot_of'[u] => t = u
<1>1. PICK slots \in Allocations(k) :
        /\ pipelines' = pipelines \cup {slots[t] : t \in 0..k-1}
        /\ slot_of' = [t \in Thread |-> IF t < k THEN slots[t] ELSE slot_of[t]]
        /\ stream' = [p \in Slot |-> IF p \in pipelines THEN stream[p] ELSE Closed]
        /\ level' = [p \in Slot |-> IF p \in pipelines THEN level[p] ELSE [i \in Index |-> 0]]
  BY DEF RunInit
<1>2. /\ \A t \in 0..k-1 : slots[t] \in Slot /\ slots[t] \notin pipelines
      /\ \A t, u \in 0..k-1 : slots[t] = slots[u] => t = u
  BY AllocationsAreSlots
<1>3. \A t \in 0..k-1 : t \in Thread /\ t < k
  BY ThreadAssumption DEF Thread
<1>4. \A t \in Thread : t < k => t \in 0..k-1
  BY ThreadAssumption DEF Thread
<1>5. \A t \in 0..k-1 : slot_of'[t] = slots[t]
  BY <1>1, <1>3
<1>6. pipelines' \subseteq Slot
  BY <1>1, <1>2 DEF TypeOK
<1>7. slot_of' \in [Thread -> Slot \cup {NONE}]
  BY <1>1, <1>2, <1>4 DEF TypeOK
<1>8. Closed \in [Element -> [Index -> StreamState]]
  BY DEF Closed, Fresh, StreamState
<1>9. stream' \in [Slot -> [Element -> [Index -> StreamState]]]
  BY <1>1, <1>8 DEF TypeOK
<1>10. level' \in [Slot -> [Index -> Int]]
  BY <1>1 DEF TypeOK
<1>11. TypeOK'
  BY <1>6, <1>7, <1>9, <1>10 DEF TypeOK
<1>12. ConnectedLive'
  <2> SUFFICES ASSUME NEW p \in Slot, NEW e \in Element, NEW i \in Index,
                      stream'[p][e][i].connected
               PROVE  stream'[p][e][i].handle = "live"
    BY DEF ConnectedLive
  <2>1. CASE p \in pipelines
    BY <1>1, <2>1 DEF ConnectedLive
  <2>2. CASE p \notin pipelines
    <3>1. stream'[p][e][i] = Fresh
      BY <1>1, <2>2 DEF Closed
    <3> QED
      BY <3>1 DEF Fresh
  <2> QED
    BY <2>1, <2>2
<1> QED
  BY <1>2, <1>5, <1>11, <1>12

-----------------------------------------------------------------------------

\* The invariant holds at first, and the control thread's RUN, STOP and requests keep it.
LEMMA StreamInit == Init => StreamInv
<1> SUFFICES ASSUME Init PROVE StreamInv
  OBVIOUS
<1>1. Closed \in [Element -> [Index -> StreamState]]
  BY DEF Closed, Fresh, StreamState
<1>2. TypeOK
  <2>1. entity \subseteq Element \X Index
    BY EntityAssumption DEF Init, Element, Index
  <2>2. /\ slot_of \in [Thread -> Slot \cup {NONE}]
        /\ stream \in [Slot -> [Element -> [Index -> StreamState]]]
        /\ level \in [Slot -> [Index -> Int]]
        /\ mutex \in [Slot -> [Element -> {"free", "data"}]]
    BY <1>1 DEF Init
  <2>3. op \in Operation /\ dpc \in [Thread -> Place]
    BY DEF Init, Operation, Place
  <2> QED
    BY <2>1, <2>2, <2>3 DEF Init, TypeOK
<1>3. ConnectedLive
  BY DEF Init, ConnectedLive, Closed, Fresh
<1>4. OwnSlots /\ StoppedIdle /\ Working
  BY DEF Init, OwnSlots, StoppedIdle, Working
<1>5. RunLocks /\ UsesConnected
  BY DEF Init, RunLocks, UsesConnected, Doing, Idle
<1> QED
  BY <1>2, <1>3, <1>4, <1>5 DEF StreamInv

LEMMA RunStep == StreamInv /\ (Run \/ RunFails) => StreamInv'
<1> SUFFICES ASSUME StreamInv, Run \/ RunFails PROVE StreamInv'
  OBVIOUS
<1>1. /\ ~running /\ op = Idle /\ UNCHANGED <<op, dpc>>
      /\ running' \in BOOLEAN /\ UNCHANGED <<entity, mutex, wanted>>
  BY DEF Run, RunFails, StreamInv, TypeOK
<1>2. \A t \in Thread : dpc[t] = Idle
  BY <1>1 DEF StreamInv, StoppedIdle
<1>3. PICK k \in 1..N : RunInit(k) /\ (running' => k = N)
  <2>1. CASE Run
    BY <2>1, ThreadAssumption DEF Run
  <2>2. CASE RunFails
    BY <1>1, <2>2 DEF RunFails
  <2> QED
    BY <2>1, <2>2
<1>4. /\ TypeOK' /\ ConnectedLive'
      /\ \A t \in 0..k-1 : slot_of'[t] \in Slot
      /\ \A t, u \in 0..k-1 : slot_of'[t] = slot_of'[u] => t = u
  BY <1>1, <1>3, RunInitStep DEF StreamInv
<1>5. OwnSlots'
  BY <1>3, <1>4 DEF OwnSlots, Thread
<1> QED
  BY <1>1, <1>2, <1>4, <1>5, QuietStep

LEMMA StopStep == StreamInv /\ Stop => StreamInv'
<1> SUFFICES ASSUME StreamInv, Stop PROVE StreamInv'
  OBVIOUS
<1> DEFINE gone == {slot_of[t] : t \in Thread}
<1>1. \A p \in Slot, e \in Element, i \in Index :
        /\ stream'[p][e][i] \in StreamState
        /\ stream'[p][e][i] = Fresh \/ stream'[p][e][i] = stream[p][e][i]
  <2>1. \A p \in Slot, e \in Element, i \in Index :
          stream'[p][e][i] = IF p \in gone /\ i < StreamN THEN Fresh ELSE stream[p][e][i]
    BY DEF Stop, Left
  <2>2. \A p \in Slot, e \in Element, i \in Index : stream[p][e][i] \in StreamState
    BY DEF StreamInv, TypeOK
  <2>3. Fresh \in StreamState
    BY DEF Fresh, StreamState
  <2> QED
    BY <2>1, <2>2, <2>3
<1>2. stream' \in [Slot -> [Element -> [Index -> StreamState]]]
  <2>1. \A p \in Slot : Left(p) \in [Element -> [Index -> StreamState]]
    <3>1. Fresh \in StreamState
      BY DEF Fresh, StreamState
    <3> QED
      BY <3>1 DEF Left, StreamInv, TypeOK
  <2>2. \A p \in Slot : stream[p] \in [Element -> [Index -> StreamState]]
    BY DEF StreamInv, TypeOK
  <2>3. stream' = [p \in Slot |-> IF p \in gone THEN Left(p) ELSE stream[p]]
    BY DEF Stop
  <2> HIDE DEF gone
  <2> QED
    BY <2>1, <2>2, <2>3
<1>3. level' \in [Slot -> [Index -> Int]]
  BY DEF Stop, StreamInv, TypeOK
<1>4. TypeOK'
  BY <1>2, <1>3 DEF Stop, StreamInv, TypeOK
<1>5. ConnectedLive'
  <2> SUFFICES ASSUME NEW p \in Slot, NEW e \in Element, NEW i \in Index,
                      stream'[p][e][i].connected
               PROVE  stream'[p][e][i].handle = "live"
    BY DEF ConnectedLive
  <2>1. stream'[p][e][i] = stream[p][e][i]
    BY <1>1 DEF Fresh
  <2> QED
    BY <2>1 DEF StreamInv, ConnectedLive
<1>6. OwnSlots'
  BY DEF Stop, OwnSlots
<1> QED
  BY <1>4, <1>5, <1>6, QuietStep DEF Stop

LEMMA ControlsStep == StreamInv /\ AudioAvbCtrl => StreamInv'
<1> SUFFICES ASSUME StreamInv, AudioAvbCtrl PROVE StreamInv'
  OBVIOUS
<1> USE DEF tableVars, stackVars
<1>1. CASE MediaStackConnect
  <2>1. PICK s \in Audible \ wanted :
          /\ wanted' = wanted \cup {s}
          /\ s[1] = "crf" \/ op' \in Request("connect", s[1], s[2])
          /\ s[1] = "crf" => op' = op
    BY <1>1, Zenon DEF MediaStackConnect
  <2>2. /\ s \in (Element \cup {"crf"}) \X Index
        /\ s[1] = "crf" \/ s[1] \in Element
        /\ s[2] \in Index
    BY CrfAssumption DEF Audible, StreamInv, TypeOK, Index
  <2>3. op' \in Operation /\ (op' # Idle => op'.at = "begin")
    <3>1. CASE s[1] = "crf"
      BY <1>1, <2>1, <3>1 DEF MediaStackConnect, Receives, Operation
    <3>2. CASE s[1] # "crf"
      BY <2>1, <2>2, <3>2, FirstRequest DEF StreamInv
    <3> QED
      BY <3>1, <3>2
  <2>4. wanted' \subseteq (Element \cup {"crf"}) \X Index
    BY <2>1, <2>2 DEF StreamInv, TypeOK
  <2> QED
    BY <1>1, <2>3, <2>4, RequestStep DEF MediaStackConnect, Receives
<1>2. CASE MediaStackDisconnect
  <2>1. PICK s \in wanted :
          /\ wanted' = wanted \ {s}
          /\ \/ op' = op
             \/ op' \in Request("disconnect", IF s[1] = "crf" THEN "source" ELSE s[1], s[2])
    BY <1>2, Zenon DEF MediaStackDisconnect
  <2>2. /\ (IF s[1] = "crf" THEN "source" ELSE s[1]) \in Element
        /\ s[2] \in Index
    BY DEF StreamInv, TypeOK, Element
  <2>3. op' \in Operation /\ (op' # Idle => op'.at = "begin")
    <3>1. CASE op' = op
      BY <1>2, <3>1 DEF MediaStackDisconnect, Receives, Operation
    <3>2. CASE op' # op
      BY <2>1, <2>2, <3>2, FirstRequest DEF StreamInv
    <3> QED
      BY <3>1, <3>2
  <2>4. wanted' \subseteq (Element \cup {"crf"}) \X Index
    BY <2>1 DEF StreamInv, TypeOK
  <2> QED
    BY <1>2, <2>3, <2>4, RequestStep DEF MediaStackDisconnect, Receives
<1> HIDE DEF tableVars, stackVars
<1>3. op # Idle => /\ op \in Operation /\ op.p \in Slot /\ op.e \in Element /\ op.i \in Index
                   /\ running /\ Its \in StreamState
  BY DEF StreamInv, TypeOK, Operation, StoppedIdle, Its
<1>4. ASSUME op # Idle, op' \in NextSlot, UNCHANGED <<tableVars, stream, level, mutex, dpc, stackVars>>
      PROVE  StreamInv'
  <2>1. op' \in Operation /\ (op' # Idle => op'.at = "begin")
    BY <1>4, NextRequest DEF StreamInv
  <2>2. wanted' \subseteq (Element \cup {"crf"}) \X Index
    BY <1>4 DEF StreamInv, TypeOK, stackVars
  <2> QED
    BY <1>3, <1>4, <2>1, <2>2, RequestStep DEF tableVars, stackVars
<1>5. ASSUME op # Idle, NEW s \in StreamState, SetIts(s),
             s.connected => s.handle = "live",
             ~s.connected => ~Its.connected \/ mutex[op.p][op.e] = "free",
             op' \in NextSlot \/ \E at \in {"show", "destroy", "clear"} :
                                  /\ op' = [op EXCEPT !.at = at]
                                  /\ at = "show" => s.handle = "live"
                                  /\ at # "show" => ~s.connected,
             UNCHANGED <<tableVars, level, mutex, dpc, stackVars>>
      PROVE  StreamInv'
  <2>1. SetsStream(op.p, op.e, op.i, s)
    BY <1>5 DEF SetIts, SetsStream
  <2>2. CASE op' \in NextSlot
    <3>1. op' \in Operation /\ (op' # Idle => op'.at = "begin")
      BY <1>5, <2>2, NextRequest DEF StreamInv
    <3> QED
      BY <1>5, <2>1, <3>1, ControlStep DEF tableVars, stackVars
  <2>3. CASE op' \notin NextSlot
    <3>1. PICK at \in {"show", "destroy", "clear"} :
            /\ op' = [op EXCEPT !.at = at]
            /\ at = "show" => s.handle = "live"
            /\ at # "show" => ~s.connected
      BY <1>5, <2>3
    <3>2. /\ op' \in Operation /\ op'.at = at
          /\ op'.p = op.p /\ op'.e = op.e /\ op'.i = op.i
      BY <1>3, <1>5, <3>1 DEF Operation
    <3> QED
      BY <1>5, <2>1, <3>1, <3>2, ControlStep DEF tableVars, stackVars
  <2> QED
    BY <2>2, <2>3
<1>6. op = Idle => op.kind = "idle"
  BY DEF Idle
<1>7. CASE ConnectCreate
  <2>1. op # Idle
    BY <1>6, <1>7 DEF ConnectCreate
  <2>2. CASE op' \in NextSlot /\ UNCHANGED stream
    BY <1>4, <1>7, <2>1, <2>2 DEF ConnectCreate
  <2>3. CASE ~(op' \in NextSlot /\ UNCHANGED stream)
    <3> DEFINE s == [Its EXCEPT !.handle = "live", !.first_start = TRUE]
    <3>1. ~Its.connected /\ SetIts(s) /\ op' = [op EXCEPT !.at = "show"]
      BY <1>7, <2>3 DEF ConnectCreate
    <3>2. s \in StreamState /\ s.handle = "live"
      BY <1>3, <2>1 DEF StreamState
    <3> HIDE DEF s
    <3> QED
      BY <1>5, <1>7, <2>1, <3>1, <3>2 DEF ConnectCreate
  <2> QED
    BY <2>2, <2>3
<1>8. CASE ConnectShow
  <2>1. op # Idle
    BY <1>6, <1>8 DEF ConnectShow
  <2> DEFINE s == [Its EXCEPT !.connected = TRUE]
  <2>2. SetIts(s) /\ op' \in NextSlot
    BY <1>8 DEF ConnectShow
  <2>3. s \in StreamState /\ s.connected /\ s.handle = Its.handle
    BY <1>3, <2>1 DEF StreamState
  <2>4. Its.handle = "live"
    BY <1>8, <2>1 DEF ConnectShow, StreamInv, Working
  <2> HIDE DEF s
  <2> QED
    BY <1>5, <1>8, <2>1, <2>2, <2>3, <2>4 DEF ConnectShow
<1>9. CASE DisconnectHide
  <2>1. op # Idle
    BY <1>6, <1>9 DEF DisconnectHide
  <2>2. CASE op' \in NextSlot /\ UNCHANGED stream
    BY <1>4, <1>9, <2>1, <2>2 DEF DisconnectHide
  <2>3. CASE ~(op' \in NextSlot /\ UNCHANGED stream)
    <3> DEFINE s == [Its EXCEPT !.connected = FALSE]
    <3>1. mutex[op.p][op.e] = "free" /\ SetIts(s) /\ op' = [op EXCEPT !.at = "destroy"]
      BY <1>9, <2>3 DEF DisconnectHide
    <3>2. s \in StreamState /\ ~s.connected
      BY <1>3, <2>1 DEF StreamState
    <3> HIDE DEF s
    <3> QED
      BY <1>5, <1>9, <2>1, <3>1, <3>2 DEF DisconnectHide
  <2> QED
    BY <2>2, <2>3
<1>10. CASE DisconnectDestroy
  <2>1. op # Idle
    BY <1>6, <1>10 DEF DisconnectDestroy
  <2> DEFINE s == [Its EXCEPT !.handle = "destroyed"]
  <2>2. SetIts(s) /\ op' = [op EXCEPT !.at = "clear"]
    BY <1>10 DEF DisconnectDestroy
  <2>3. ~Its.connected
    BY <1>10, <2>1 DEF DisconnectDestroy, StreamInv, Working
  <2>4. s \in StreamState /\ ~s.connected
    BY <1>3, <2>1, <2>3 DEF StreamState
  <2> HIDE DEF s
  <2> QED
    BY <1>5, <1>10, <2>1, <2>2, <2>3, <2>4 DEF DisconnectDestroy
<1>11. CASE DisconnectClear
  <2>1. op # Idle
    BY <1>6, <1>11 DEF DisconnectClear
  <2> DEFINE s == [Its EXCEPT !.handle = "null"]
  <2>2. SetIts(s) /\ op' \in NextSlot
    BY <1>11 DEF DisconnectClear
  <2>3. ~Its.connected
    BY <1>11, <2>1 DEF DisconnectClear, StreamInv, Working
  <2>4. s \in StreamState /\ ~s.connected
    BY <1>3, <2>1, <2>3 DEF StreamState
  <2> HIDE DEF s
  <2> QED
    BY <1>5, <1>11, <2>1, <2>2, <2>3, <2>4 DEF DisconnectClear
<1> QED
  BY <1>1, <1>2, <1>7, <1>8, <1>9, <1>10, <1>11 DEF AudioAvbCtrl

\* A data thread that is at work knows its pipeline, and holds the mutex of the
\* element that it runs.
LEMMA AtWork ==
  ASSUME StreamInv, NEW t \in Thread, running \/ dpc[t].kind \in {"run", "reset"}
  PROVE  /\ running /\ slot_of[t] \in Slot /\ dpc[t] \in Place
         /\ dpc[t].kind \in {"run", "reset"} =>
              /\ dpc[t] \in [kind : {"run", "reset"}, e : Element, i : Index,
                             at : {"check", "use", "not", "lock"}]
              /\ dpc[t].at \in {"use", "not"} => dpc[t].i < StreamN
              /\ That(t) \in StreamState
         /\ dpc[t].kind = "run" /\ dpc[t].at # "lock" =>
              mutex[slot_of[t]][dpc[t].e] = "data"
         /\ Doing(t, "run", "use") => That(t).connected
<1>1. running
  BY DEF StreamInv, StoppedIdle, Idle
<1>2. slot_of[t] \in Slot /\ dpc[t] \in Place
  BY <1>1 DEF StreamInv, TypeOK, OwnSlots
<1>3. dpc[t].kind \in {"run", "reset"} =>
        /\ dpc[t] \in [kind : {"run", "reset"}, e : Element, i : Index,
                       at : {"check", "use", "not", "lock"}]
        /\ dpc[t].at \in {"use", "not"} => dpc[t].i < StreamN
  BY <1>2 DEF Place, Idle
<1>4. dpc[t].kind \in {"run", "reset"} => That(t) \in StreamState
  BY <1>2, <1>3 DEF StreamInv, TypeOK, That
<1> QED
  BY <1>1, <1>2, <1>3, <1>4 DEF StreamInv, RunLocks, UsesConnected

\* A step that leaves the mutexes alone.
LEMMA PlainStep ==
  ASSUME StreamInv, NEW t \in Thread, NEW d \in Place, running,
         Move(t, d), SameStreams,
         UNCHANGED <<entity, slot_of, running, pipelines, op, wanted, mutex>>,
         level' \in [Slot -> [Index -> Int]],
         d.kind = "run" /\ d.at # "lock" => mutex[slot_of[t]][d.e] = "data",
         d.kind = "run" /\ d.at = "use" => stream[slot_of[t]][d.e][d.i].connected
  PROVE  StreamInv'
<1>1. mutex' \in [Slot -> [Element -> {"free", "data"}]]
  BY DEF StreamInv, TypeOK
<1> QED
  BY <1>1, DataStep

\* A step that takes or returns the mutex of an element.
LEMMA MutexStep ==
  ASSUME StreamInv, NEW t \in Thread, NEW d \in Place, running,
         NEW e \in Element, NEW v \in {"free", "data"},
         Move(t, d), SetMutex(t, e, v), SameStreams,
         UNCHANGED <<entity, slot_of, running, pipelines, op, wanted>>,
         level' \in [Slot -> [Index -> Int]],
         d.kind = "run" => d.at # "use" /\ (d.at = "lock" \/ (d.e = e /\ v = "data"))
  PROVE  StreamInv'
<1>1. slot_of[t] \in Slot /\ TypeOK
  BY AtWork DEF StreamInv
<1>2. /\ mutex' \in [Slot -> [Element -> {"free", "data"}]]
      /\ mutex'[slot_of[t]][e] = v
      /\ \A p \in Slot : p # slot_of[t] => mutex'[p] = mutex[p]
  BY <1>1, MutexSet
<1> QED
  BY <1>2, DataStep

\* Where a data thread goes is a place.
LEMMA Places ==
  /\ Idle \in Place
  /\ \A k \in {"run", "reset"}, e \in Element :
       /\ At(k, e, 0) \in Place
       /\ At(k, e, 0).kind = k /\ At(k, e, 0).e = e /\ At(k, e, 0).i = 0
       /\ At(k, e, 0).at = "check"
       /\ [At(k, e, 0) EXCEPT !.at = "lock"] \in Place
       /\ [At(k, e, 0) EXCEPT !.at = "lock"].at = "lock"
  BY NumbersAssumption DEF Place, At, Index

LEMMA NextPlaces ==
  ASSUME StreamInv, NEW t \in Thread, dpc[t].kind \in {"run", "reset"}, dpc[t].i < StreamN
  PROVE  /\ NextStream(t) \in Place
         /\ NextStream(t).kind = dpc[t].kind /\ NextStream(t).e = dpc[t].e
         /\ NextStream(t).i = dpc[t].i + 1 /\ NextStream(t).at = "check"
         /\ \A at \in {"check", "use", "not"} :
              /\ [dpc[t] EXCEPT !.at = at] \in Place
              /\ [dpc[t] EXCEPT !.at = at].kind = dpc[t].kind
              /\ [dpc[t] EXCEPT !.at = at].e = dpc[t].e
              /\ [dpc[t] EXCEPT !.at = at].i = dpc[t].i
              /\ [dpc[t] EXCEPT !.at = at].at = at
<1>1. dpc[t] \in [kind : {"run", "reset"}, e : Element, i : Index,
                 at : {"check", "use", "not", "lock"}]
  BY AtWork
<1>2. dpc[t].i + 1 \in Index
  BY <1>1, NumbersAssumption DEF Index
<1>3. /\ NextStream(t) \in Place
      /\ NextStream(t).kind = dpc[t].kind /\ NextStream(t).e = dpc[t].e
      /\ NextStream(t).i = dpc[t].i + 1 /\ NextStream(t).at = "check"
  BY <1>1, <1>2 DEF NextStream, Place
<1>4. ASSUME NEW at \in {"check", "use", "not"}
      PROVE  /\ [dpc[t] EXCEPT !.at = at] \in Place
             /\ [dpc[t] EXCEPT !.at = at].kind = dpc[t].kind
             /\ [dpc[t] EXCEPT !.at = at].e = dpc[t].e
             /\ [dpc[t] EXCEPT !.at = at].i = dpc[t].i
             /\ [dpc[t] EXCEPT !.at = at].at = at
  BY <1>1 DEF Place
<1> QED
  BY <1>3, <1>4

LEMMA StreamsKept == StreamInv /\ UNCHANGED stream => SameStreams
  BY DEF StreamInv, TypeOK, SameStreams

LEMMA LevelsKept == StreamInv /\ UNCHANGED level => level' \in [Slot -> [Index -> Int]]
  BY DEF StreamInv, TypeOK

\* The data threads keep the invariant.
LEMMA DataTasksStep == StreamInv /\ (\E t \in Thread : DataTask(t)) => StreamInv'
<1> SUFFICES ASSUME StreamInv, NEW t \in Thread, DataTask(t) PROVE StreamInv'
  OBVIOUS
<1>1. Idle.kind = "idle"
  BY DEF Idle
<1>2. TypeOK
  BY DEF StreamInv
<1>3. CASE RunStarts(t)
  <2>1. At("run", "source", 0) \in Place /\ At("run", "source", 0).e = "source"
        /\ At("run", "source", 0).at = "check"
    BY Places DEF Element
  <2>2. SameStreams /\ level' \in [Slot -> [Index -> Int]] /\ "source" \in Element
    BY <1>3, StreamsKept, LevelsKept DEF RunStarts, Element
  <2> QED
    BY <1>3, <2>1, <2>2, MutexStep DEF RunStarts, tableVars, stackVars
<1>4. CASE RunChecks(t)
  <2> DEFINE at == IF That(t).connected THEN "use" ELSE "not"
             d == [dpc[t] EXCEPT !.at = at]
  <2>1. dpc[t].kind = "run" /\ dpc[t].at = "check" /\ dpc[t].i < StreamN
    BY <1>4 DEF RunChecks, Doing
  <2>2. running /\ mutex[slot_of[t]][dpc[t].e] = "data"
    BY <2>1, AtWork
  <2>3. /\ d \in Place /\ d.kind = "run" /\ d.e = dpc[t].e /\ d.i = dpc[t].i
        /\ d.at = at
    <3>1. at \in {"check", "use", "not"}
      OBVIOUS
    <3> HIDE DEF at
    <3> QED
      BY <2>1, <3>1, NextPlaces
  <2>4. SameStreams /\ level' \in [Slot -> [Index -> Int]]
    BY <1>4, StreamsKept, LevelsKept DEF RunChecks
  <2>5. d.at = "use" => stream[slot_of[t]][d.e][d.i].connected
    BY <2>3 DEF That
  <2>6. Move(t, d)
    BY <1>4 DEF RunChecks
  <2> HIDE DEF d
  <2> QED
    BY <1>4, <2>2, <2>3, <2>4, <2>5, <2>6, PlainStep DEF RunChecks, tableVars, stackVars
<1>5. CASE SourceRun(t) \/ SinkRun(t)
  <2>1. /\ dpc[t].kind = "run" /\ dpc[t].at \in {"use", "not"}
        /\ Move(t, NextStream(t)) /\ UNCHANGED <<tableVars, mutex, op, stackVars>>
    BY <1>5 DEF SourceRun, SinkRun
  <2>2. /\ running /\ slot_of[t] \in Slot /\ dpc[t].e \in Element /\ dpc[t].i \in Index
        /\ dpc[t].i < StreamN /\ mutex[slot_of[t]][dpc[t].e] = "data"
    BY <2>1, AtWork
  <2>3. /\ NextStream(t) \in Place /\ NextStream(t).e = dpc[t].e
        /\ NextStream(t).at = "check"
    BY <2>1, <2>2, NextPlaces
  <2>4. SameStreams
    <3>1. CASE UNCHANGED stream
      BY <3>1, StreamsKept
    <3>2. CASE ~UNCHANGED stream
      <4>1. dpc[t].e = "source" /\ (Received(t) \/ ReceivedNothing(t))
        BY <1>5, <3>2 DEF SourceRun, SinkRun
      <4>2. \/ stream' = [stream EXCEPT ![slot_of[t]]["source"][dpc[t].i].first_start = FALSE]
            \/ stream' = [stream EXCEPT ![slot_of[t]]["source"][dpc[t].i].first_start = TRUE]
        BY <3>2, <4>1 DEF Received, ReceivedNothing
      <4>3. "source" \in Element
        BY DEF Element
      <4>4. CASE stream' = [stream EXCEPT ![slot_of[t]]["source"][dpc[t].i].first_start = FALSE]
        BY <1>2, <2>2, <4>3, <4>4, FirstStart, Zenon
      <4>5. CASE stream' = [stream EXCEPT ![slot_of[t]]["source"][dpc[t].i].first_start = TRUE]
        BY <1>2, <2>2, <4>3, <4>5, FirstStart, Zenon
      <4> QED
        BY <4>2, <4>4, <4>5
    <3> QED
      BY <3>1, <3>2
  <2>5. level' \in [Slot -> [Index -> Int]]
    <3>1. CASE UNCHANGED level
      BY <3>1, LevelsKept
    <3>2. CASE ~UNCHANGED level
      <4>1. level[slot_of[t]][dpc[t].i] \in Int
        BY <1>2, <2>2 DEF TypeOK
      <4>2. CASE level' = [level EXCEPT ![slot_of[t]][dpc[t].i] = @ + 1]
        BY <1>2, <2>2, <4>1, <4>2 DEF TypeOK
      <4>3. CASE \E n \in 0..BufferMax-3 :
                  level' = [level EXCEPT ![slot_of[t]][dpc[t].i] = n + 1]
        BY <1>2, <2>2, <4>3, NumbersAssumption DEF TypeOK
      <4> QED
        BY <1>5, <3>2, <4>2, <4>3 DEF SourceRun, SinkRun, Received, ReceivedNothing
    <3> QED
      BY <3>1, <3>2
  <2> QED
    BY <2>1, <2>2, <2>3, <2>4, <2>5, PlainStep DEF tableVars, stackVars
<1>6. CASE SourceDone(t)
  <2>1. [At("run", "sink", 0) EXCEPT !.at = "lock"] \in Place
        /\ [At("run", "sink", 0) EXCEPT !.at = "lock"].at = "lock"
    BY Places DEF Element
  <2>2. PICK d \in Place : d.at = "lock" /\ Move(t, d)
    BY <1>6, <2>1 DEF SourceDone
  <2>3. SameStreams /\ level' \in [Slot -> [Index -> Int]] /\ "source" \in Element
    BY <1>6, StreamsKept, LevelsKept DEF SourceDone, Element
  <2>4. running
    BY <1>6, AtWork DEF SourceDone, Doing
  <2>5. /\ SetMutex(t, "source", "free")
        /\ UNCHANGED <<entity, slot_of, running, pipelines, op, wanted>>
    BY <1>6 DEF SourceDone, tableVars, stackVars
  <2>6. d.at = "lock" /\ d.at # "use"
    BY <2>2
  <2>7. /\ mutex' \in [Slot -> [Element -> {"free", "data"}]]
        /\ \A p \in Slot : p # slot_of[t] => mutex'[p] = mutex[p]
    BY <1>2, <2>3, <2>4, <2>5, AtWork, MutexSet
  <2> QED
    BY <2>2, <2>3, <2>4, <2>5, <2>6, <2>7, DataStep
<1>7. CASE SinkStarts(t)
  <2>1. running /\ slot_of[t] \in Slot
    BY <1>7, AtWork DEF SinkStarts, Doing
  <2>2. SameStreams
    BY <1>7, StreamsKept DEF SinkStarts
  <2>3. CASE Move(t, At("reset", "source", 0)) /\ UNCHANGED <<mutex, level>>
    <3>1. At("reset", "source", 0) \in Place /\ At("reset", "source", 0).kind = "reset"
      BY Places DEF Element
    <3> QED
      BY <1>7, <2>1, <2>2, <2>3, <3>1, LevelsKept, PlainStep DEF SinkStarts, tableVars, stackVars
  <2>4. CASE /\ Move(t, At("run", "sink", 0)) /\ SetMutex(t, "sink", "data")
             /\ level' = [level EXCEPT ![slot_of[t]] =
                            [i \in Index |-> IF i < StreamN THEN @[i] - 1 ELSE 0]]
    <3>1. /\ At("run", "sink", 0) \in Place /\ At("run", "sink", 0).e = "sink"
          /\ At("run", "sink", 0).at = "check" /\ "sink" \in Element
      BY Places DEF Element
    <3>2. level' \in [Slot -> [Index -> Int]]
      BY <1>2, <2>1, <2>4 DEF TypeOK
    <3> QED
      BY <1>7, <2>1, <2>2, <2>4, <3>1, <3>2, MutexStep DEF SinkStarts, tableVars, stackVars
  <2> QED
    BY <1>7, <2>3, <2>4 DEF SinkStarts
<1>8. CASE SinkDone(t)
  <2>1. SameStreams /\ level' \in [Slot -> [Index -> Int]] /\ "sink" \in Element
    BY <1>8, StreamsKept, LevelsKept DEF SinkDone, Element
  <2>2. running /\ Idle \in Place
    BY <1>8, AtWork, Places DEF SinkDone, Doing
  <2> QED
    BY <1>1, <1>8, <2>1, <2>2, MutexStep DEF SinkDone, tableVars, stackVars
<1>9. CASE ResetStarts(t)
  <2>1. At("reset", "source", 0) \in Place /\ At("reset", "source", 0).kind = "reset"
    BY Places DEF Element
  <2> QED
    BY <1>9, <2>1, StreamsKept, LevelsKept, PlainStep DEF ResetStarts, tableVars, stackVars
<1>10. CASE ResetChecks(t)
  <2>1. dpc[t].kind = "reset" /\ dpc[t].i < StreamN
    BY <1>10 DEF ResetChecks, Doing
  <2>2. running /\ slot_of[t] \in Slot /\ dpc[t].e \in Element /\ dpc[t].i \in Index
    BY <2>1, AtWork
  <2>3. /\ NextStream(t) \in Place /\ NextStream(t).kind = "reset"
        /\ [dpc[t] EXCEPT !.at = "use"] \in Place
        /\ [dpc[t] EXCEPT !.at = "use"].kind = "reset"
    BY <2>1, NextPlaces
  <2>4. SameStreams
    BY <1>2, <1>10, <2>2, FirstStart DEF ResetChecks
  <2>5. level' \in [Slot -> [Index -> Int]]
    BY <1>10, LevelsKept DEF ResetChecks
  <2>6. \E d \in Place : d.kind = "reset" /\ Move(t, d)
    BY <1>10, <2>3 DEF ResetChecks
  <2> QED
    BY <1>10, <2>2, <2>4, <2>5, <2>6, PlainStep DEF ResetChecks, tableVars, stackVars
<1>11. CASE ResetUses(t)
  <2>1. dpc[t].kind = "reset" /\ dpc[t].at = "use"
    BY <1>11 DEF ResetUses, Doing
  <2>2. running /\ dpc[t].i < StreamN
    BY <2>1, AtWork
  <2>3. /\ NextStream(t) \in Place /\ NextStream(t).kind = "reset"
        /\ [dpc[t] EXCEPT !.at = "check"] \in Place
        /\ [dpc[t] EXCEPT !.at = "check"].kind = "reset"
    BY <2>1, <2>2, NextPlaces
  <2>4. \E d \in Place : d.kind = "reset" /\ Move(t, d)
    BY <1>11, <2>3 DEF ResetUses
  <2> QED
    BY <1>11, <2>2, <2>4, StreamsKept, LevelsKept, PlainStep DEF ResetUses, tableVars, stackVars
<1>12. CASE ResetDone(t)
  <2>1. running /\ slot_of[t] \in Slot
    BY <1>12, AtWork DEF ResetDone, Doing
  <2>2. \E d \in Place : d.kind # "run" /\ Move(t, d)
    BY <1>1, <1>12, Places DEF ResetDone, Element
  <2>3. level' \in [Slot -> [Index -> Int]]
    <3>1. CASE UNCHANGED level
      BY <3>1, LevelsKept
    <3>2. CASE level' = [level EXCEPT ![slot_of[t]] = [i \in Index |-> 0]]
      BY <1>2, <2>1, <3>2 DEF TypeOK
    <3> QED
      BY <1>12, <3>1, <3>2 DEF ResetDone
  <2> QED
    BY <1>12, <2>1, <2>2, <2>3, StreamsKept, PlainStep DEF ResetDone, tableVars, stackVars
<1> QED
  BY <1>3, <1>4, <1>5, <1>6, <1>7, <1>8, <1>9, <1>10, <1>11, <1>12 DEF DataTask

LEMMA Stutter == StreamInv /\ UNCHANGED vars => StreamInv'
<1> SUFFICES ASSUME StreamInv, UNCHANGED vars PROVE StreamInv'
  OBVIOUS
<1>1. TypeOK'
  BY DEF StreamInv, TypeOK, vars
<1>2. StoppedIdle' /\ OwnSlots'
  BY DEF StreamInv, StoppedIdle, OwnSlots, vars
<1>3. ConnectedLive' /\ Working'
  BY DEF StreamInv, ConnectedLive, Working, Its, vars
<1>4. RunLocks' /\ UsesConnected'
  BY DEF StreamInv, RunLocks, UsesConnected, That, Doing, vars
<1> QED
  BY <1>1, <1>2, <1>3, <1>4 DEF StreamInv

LEMMA StreamsStep == StreamInv /\ [Next]_vars => StreamInv'
  BY RunStep, StopStep, ControlsStep, DataTasksStep, Stutter DEF Next

\* A data thread only reads from and sends to streams that live: the mutex of the
\* element keeps what the run has found connected (avtp_source_element_run,
\* avtp_sink_element_run against avtp_source_disconnect, avtp_sink_disconnect).
THEOREM StreamsLive == Spec => []StreamUsedLive
<1>1. StreamInv => StreamUsedLive
  <2> SUFFICES ASSUME StreamInv, NEW t \in Thread, Doing(t, "run", "use")
               PROVE  That(t).handle = "live"
    BY DEF StreamUsedLive
  <2>1. dpc[t].kind = "run"
    BY DEF Doing
  <2>2. /\ slot_of[t] \in Slot /\ dpc[t].e \in Element /\ dpc[t].i \in Index
        /\ That(t).connected
    BY <2>1, AtWork
  <2> QED
    BY <2>2 DEF StreamInv, ConnectedLive, That
<1> QED
  BY <1>1, StreamInit, StreamsStep, PTL DEF Spec

-----------------------------------------------------------------------------
(* The periods in the buffers of a source.  How many there are in those of *)
(* a stream depends on whether the source has written to them in this run. *)

LevelBounds(d, j) ==
  IF d.kind = "reset" /\ d.e = "source" THEN Int
  ELSE IF d.kind = "run" /\ (d.at = "lock" \/ (d.e = "source" /\ j < d.i)) THEN 1..BufferMax-2
  ELSE 0..BufferMax-3

Buffered ==
  running => \A t \in Thread, j \in 0..StreamN-1 :
               level[slot_of[t]][j] \in LevelBounds(dpc[t], j)

LevelInv == StreamInv /\ Buffered

\* A data thread keeps the bounds if it does so for its own pipeline.
LEMMA LevelStep ==
  ASSUME LevelInv, running, NEW t \in Thread, NEW d \in Place, Move(t, d),
         UNCHANGED <<slot_of, running>>,
         \A p \in Slot : p # slot_of[t] => level'[p] = level[p],
         \A j \in 0..StreamN-1 : level'[slot_of[t]][j] \in LevelBounds(d, j)
  PROVE  Buffered'
<1>1. /\ dpc'[t] = d
      /\ \A u \in Thread : u # t => dpc'[u] = dpc[u]
  BY DEF Move, LevelInv, StreamInv, TypeOK
<1>2. /\ \A u \in Thread : slot_of[u] \in Slot
      /\ \A u \in Thread : u # t => slot_of[u] # slot_of[t]
  BY DEF LevelInv, StreamInv, OwnSlots
<1> SUFFICES ASSUME NEW u \in Thread, NEW j \in 0..StreamN-1
             PROVE  level'[slot_of[u]][j] \in LevelBounds(dpc'[u], j)
  BY DEF Buffered, LevelBounds
<1>3. CASE u = t
  BY <1>1, <1>3
<1>4. CASE u # t
  <2>1. dpc'[u] = dpc[u] /\ level'[slot_of[u]] = level[slot_of[u]]
    BY <1>1, <1>2, <1>4
  <2> QED
    BY <2>1 DEF LevelInv, Buffered
<1> QED
  BY <1>3, <1>4

LEMMA LevelKept ==
  ASSUME LevelInv, running, NEW t \in Thread, NEW d \in Place, Move(t, d),
         UNCHANGED <<slot_of, running, level>>,
         \A j \in 0..StreamN-1 : LevelBounds(dpc[t], j) \subseteq LevelBounds(d, j)
  PROVE  Buffered'
<1>1. \A j \in 0..StreamN-1 : level[slot_of[t]][j] \in LevelBounds(dpc[t], j)
  BY DEF LevelInv, Buffered
<1>2. \A j \in 0..StreamN-1 : level'[slot_of[t]][j] \in LevelBounds(d, j)
  BY <1>1
<1>3. \A p \in Slot : p # slot_of[t] => level'[p] = level[p]
  OBVIOUS
<1> QED
  BY <1>2, <1>3, LevelStep

\* The data threads keep the bounds.
LEMMA LevelData == LevelInv /\ (\E t \in Thread : DataTask(t)) => Buffered'
<1> SUFFICES ASSUME LevelInv, NEW t \in Thread, DataTask(t) PROVE Buffered'
  OBVIOUS
<1>1. StreamInv /\ TypeOK
  BY DEF LevelInv, StreamInv
<1>2. Idle.kind = "idle"
  BY DEF Idle
<1>3. CASE RunStarts(t)
  <2> DEFINE d == At("run", "source", 0)
  <2>1. d \in Place /\ d.kind = "run" /\ d.e = "source" /\ d.i = 0 /\ d.at = "check"
    BY Places DEF Element
  <2>2. running /\ dpc[t] = Idle /\ Move(t, d) /\ UNCHANGED <<slot_of, running, level>>
    BY <1>3 DEF RunStarts, tableVars
  <2> HIDE DEF d
  <2>3. \A j \in 0..StreamN-1 : LevelBounds(dpc[t], j) \subseteq LevelBounds(d, j)
    BY <1>2, <2>1, <2>2 DEF LevelBounds
  <2> QED
    BY <2>1, <2>2, <2>3, LevelKept
<1>4. CASE RunChecks(t)
  <2>1. dpc[t].kind = "run" /\ dpc[t].at = "check" /\ dpc[t].i < StreamN
    BY <1>4 DEF RunChecks, Doing
  <2>2. PICK d \in Place : /\ d.kind = "run" /\ d.e = dpc[t].e /\ d.i = dpc[t].i
                           /\ d.at \in {"use", "not"} /\ Move(t, d)
    <3> DEFINE at == IF That(t).connected THEN "use" ELSE "not"
    <3>1. Move(t, [dpc[t] EXCEPT !.at = at]) /\ at \in {"use", "not"}
      BY <1>4 DEF RunChecks
    <3> HIDE DEF at
    <3> QED
      BY <1>1, <2>1, <3>1, NextPlaces
  <2>3. running /\ UNCHANGED <<slot_of, running, level>>
    BY <1>1, <1>4, <2>1, AtWork DEF RunChecks, tableVars
  <2>4. \A j \in 0..StreamN-1 : LevelBounds(dpc[t], j) \subseteq LevelBounds(d, j)
    BY <2>1, <2>2 DEF LevelBounds
  <2> QED
    BY <2>2, <2>3, <2>4, LevelKept
<1>5. CASE SourceRun(t)
  <2>1. /\ dpc[t].kind = "run" /\ dpc[t].e = "source" /\ dpc[t].at \in {"use", "not"}
        /\ Move(t, NextStream(t)) /\ UNCHANGED <<slot_of, running>>
    BY <1>5 DEF SourceRun, tableVars
  <2>2. /\ running /\ slot_of[t] \in Slot /\ dpc[t].i \in Index /\ dpc[t].i < StreamN
    BY <1>1, <2>1, AtWork
  <2>3. /\ NextStream(t) \in Place /\ NextStream(t).kind = "run"
        /\ NextStream(t).e = "source" /\ NextStream(t).i = dpc[t].i + 1
        /\ NextStream(t).at = "check"
    BY <1>1, <2>1, <2>2, NextPlaces
  <2>4. \A j \in 0..StreamN-1 :
          level[slot_of[t]][j] \in IF j < dpc[t].i THEN 1..BufferMax-2 ELSE 0..BufferMax-3
    BY <2>1, <2>2 DEF LevelInv, Buffered, LevelBounds
  <2>5. dpc[t].i \in 0..StreamN-1
    BY <2>2, NumbersAssumption DEF Index
  <2>6. level[slot_of[t]][dpc[t].i] \in 0..BufferMax-3
    <3>1. ~(dpc[t].i < dpc[t].i)
      BY <2>5, NumbersAssumption
    <3> QED
      BY <2>4, <2>5, <3>1
  <2>7. PICK m \in 1..BufferMax-2 : level' = [level EXCEPT ![slot_of[t]][dpc[t].i] = m]
    <3>1. CASE level' = [level EXCEPT ![slot_of[t]][dpc[t].i] = @ + 1]
      <4>1. level[slot_of[t]][dpc[t].i] + 1 \in 1..BufferMax-2
        BY <2>6, NumbersAssumption
      <4> WITNESS level[slot_of[t]][dpc[t].i] + 1 \in 1..BufferMax-2
      <4> QED
        BY <3>1
    <3>2. CASE \E k \in 0..BufferMax-3 : level' = [level EXCEPT ![slot_of[t]][dpc[t].i] = k + 1]
      <4>1. PICK k \in 0..BufferMax-3 : level' = [level EXCEPT ![slot_of[t]][dpc[t].i] = k + 1]
        BY <3>2
      <4>2. k + 1 \in 1..BufferMax-2
        BY NumbersAssumption
      <4> WITNESS k + 1 \in 1..BufferMax-2
      <4> QED
        BY <4>1
    <3> QED
      BY <1>5, <3>1, <3>2 DEF SourceRun, Received, ReceivedNothing
  <2>8. /\ \A p \in Slot : p # slot_of[t] => level'[p] = level[p]
        /\ level'[slot_of[t]][dpc[t].i] = m
        /\ \A j \in Index : j # dpc[t].i => level'[slot_of[t]][j] = level[slot_of[t]][j]
    BY <1>1, <2>2, <2>7 DEF TypeOK
  <2>9. \A j \in 0..StreamN-1 :
          level'[slot_of[t]][j] \in IF j < dpc[t].i + 1 THEN 1..BufferMax-2 ELSE 0..BufferMax-3
    <3> SUFFICES ASSUME NEW j \in 0..StreamN-1
                 PROVE  level'[slot_of[t]][j] \in
                          IF j < dpc[t].i + 1 THEN 1..BufferMax-2 ELSE 0..BufferMax-3
      OBVIOUS
    <3>1. CASE j = dpc[t].i
      BY <2>5, <2>8, <3>1, NumbersAssumption
    <3>2. CASE j # dpc[t].i
      <4>1. level'[slot_of[t]][j] = level[slot_of[t]][j]
        BY <2>8, <3>2, NumbersAssumption DEF Index
      <4>2. (j < dpc[t].i + 1) <=> (j < dpc[t].i)
        BY <2>5, <3>2, NumbersAssumption
      <4> QED
        BY <2>4, <4>1, <4>2
    <3> QED
      BY <3>1, <3>2
  <2>10. \A j \in 0..StreamN-1 : level'[slot_of[t]][j] \in LevelBounds(NextStream(t), j)
    BY <2>3, <2>9 DEF LevelBounds
  <2> QED
    BY <2>1, <2>2, <2>3, <2>8, <2>10, LevelStep
<1>6. CASE SourceDone(t)
  <2>1. [At("run", "sink", 0) EXCEPT !.at = "lock"] \in Place
        /\ [At("run", "sink", 0) EXCEPT !.at = "lock"].at = "lock"
        /\ [At("run", "sink", 0) EXCEPT !.at = "lock"].kind = "run"
    BY Places DEF Element, At
  <2>2. PICK d \in Place : d.kind = "run" /\ d.at = "lock" /\ Move(t, d)
    BY <1>6, <2>1 DEF SourceDone
  <2>3. /\ dpc[t].kind = "run" /\ dpc[t].e = "source" /\ dpc[t].i = StreamN
        /\ UNCHANGED <<slot_of, running, level>>
    BY <1>6 DEF SourceDone, Doing, tableVars
  <2>4. running
    BY <1>1, <2>3, AtWork
  <2>5. \A j \in 0..StreamN-1 : j < dpc[t].i
    BY <2>3, NumbersAssumption
  <2>6. \A j \in 0..StreamN-1 : LevelBounds(dpc[t], j) \subseteq LevelBounds(d, j)
    <3> SUFFICES ASSUME NEW j \in 0..StreamN-1
                 PROVE  LevelBounds(dpc[t], j) \subseteq LevelBounds(d, j)
      OBVIOUS
    <3>1. dpc[t].kind # "reset" /\ j < dpc[t].i
      BY <2>3, <2>5
    <3>2. LevelBounds(dpc[t], j) = 1..BufferMax-2
      BY <2>3, <3>1, Zenon DEF LevelBounds
    <3>3. d.kind # "reset"
      BY <2>2
    <3>4. LevelBounds(d, j) = 1..BufferMax-2
      BY <2>2, <3>3, Zenon DEF LevelBounds
    <3> QED
      BY <3>2, <3>4
  <2> QED
    BY <2>2, <2>3, <2>4, <2>6, LevelKept
<1>7. CASE SinkStarts(t)
  <2>1. /\ dpc[t].kind = "run" /\ dpc[t].at = "lock"
        /\ UNCHANGED <<slot_of, running>>
    BY <1>7 DEF SinkStarts, Doing, tableVars
  <2>2. running /\ slot_of[t] \in Slot
    BY <1>1, <2>1, AtWork
  <2>3. CASE Move(t, At("reset", "source", 0)) /\ UNCHANGED level
    <3> DEFINE d == At("reset", "source", 0)
    <3>1. d \in Place /\ d.kind = "reset" /\ d.e = "source"
      BY Places DEF Element
    <3> HIDE DEF d
    <3>2. \A j \in 0..StreamN-1 : LevelBounds(dpc[t], j) \subseteq LevelBounds(d, j)
      BY <2>1, <3>1 DEF LevelBounds
    <3> QED
      BY <2>1, <2>2, <2>3, <3>1, <3>2, LevelKept DEF d
  <2>4. CASE /\ Move(t, At("run", "sink", 0))
             /\ level' = [level EXCEPT ![slot_of[t]] =
                            [i \in Index |-> IF i < StreamN THEN @[i] - 1 ELSE 0]]
    <3> DEFINE d == At("run", "sink", 0)
    <3>1. d \in Place /\ d.kind = "run" /\ d.e = "sink" /\ d.at = "check"
      BY Places DEF Element
    <3>2. \A j \in 0..StreamN-1 : level[slot_of[t]][j] \in 1..BufferMax-2
      <4>1. dpc[t].kind # "reset"
        BY <2>1
      <4>2. \A j \in 0..StreamN-1 : LevelBounds(dpc[t], j) = 1..BufferMax-2
        BY <2>1, <4>1, Zenon DEF LevelBounds
      <4> QED
        BY <2>2, <4>2 DEF LevelInv, Buffered
    <3>3. /\ \A p \in Slot : p # slot_of[t] => level'[p] = level[p]
          /\ \A j \in 0..StreamN-1 : level'[slot_of[t]][j] = level[slot_of[t]][j] - 1
      BY <1>1, <2>2, <2>4, NumbersAssumption DEF TypeOK, Index
    <3>4. \A j \in 0..StreamN-1 : level'[slot_of[t]][j] \in 0..BufferMax-3
      BY <3>2, <3>3, NumbersAssumption
    <3> HIDE DEF d
    <3>5. \A j \in 0..StreamN-1 : level'[slot_of[t]][j] \in LevelBounds(d, j)
      BY <3>1, <3>4 DEF LevelBounds
    <3>6. Move(t, d)
      BY <2>4 DEF d
    <3> QED
      BY <2>1, <2>2, <3>1, <3>3, <3>5, <3>6, LevelStep
  <2> QED
    BY <1>7, <2>3, <2>4 DEF SinkStarts
<1>8. CASE SinkRun(t) \/ SinkDone(t)
  <2>1. /\ dpc[t].kind = "run" /\ dpc[t].e = "sink" /\ dpc[t].at # "lock"
        /\ UNCHANGED <<slot_of, running, level>>
    BY <1>8 DEF SinkRun, SinkDone, Doing, tableVars
  <2>2. running /\ Idle \in Place
    BY <1>1, <2>1, AtWork, Places
  <2>3. PICK d \in Place : /\ Move(t, d)
                           /\ \/ d.kind = "idle"
                              \/ d.e = "sink" /\ d.kind = "run" /\ d.at = "check"
    <3>1. CASE SinkDone(t)
      <4>1. Move(t, Idle)
        BY <3>1 DEF SinkDone
      <4> QED
        BY <1>2, <2>2, <4>1, Zenon
    <3>2. CASE SinkRun(t)
      <4>1. dpc[t].i < StreamN
        BY <1>1, <2>1, <3>2, AtWork DEF SinkRun
      <4>2. Move(t, NextStream(t))
        BY <3>2 DEF SinkRun
      <4>3. /\ NextStream(t) \in Place
            /\ NextStream(t).kind = "run" /\ NextStream(t).e = "sink" /\ NextStream(t).at = "check"
        BY <1>1, <2>1, <4>1, NextPlaces
      <4> QED
        BY <4>2, <4>3
    <3> QED
      BY <1>8, <3>1, <3>2
  <2>4. \A j \in 0..StreamN-1 : LevelBounds(dpc[t], j) \subseteq LevelBounds(d, j)
    BY <2>1, <2>3 DEF LevelBounds
  <2> QED
    BY <2>1, <2>2, <2>3, <2>4, LevelKept
<1>9. CASE ResetStarts(t)
  <2>1. PICK d \in Place : Move(t, d) /\ d.kind = "reset" /\ d.e = "source"
    BY <1>9, Places DEF ResetStarts, Element
  <2>2. running /\ dpc[t] = Idle /\ UNCHANGED <<slot_of, running, level>>
    BY <1>9 DEF ResetStarts, tableVars
  <2>3. \A j \in 0..StreamN-1 : LevelBounds(dpc[t], j) \subseteq LevelBounds(d, j)
    BY <1>2, <2>1, <2>2, NumbersAssumption DEF LevelBounds
  <2> QED
    BY <2>1, <2>2, <2>3, LevelKept
<1>10. CASE ResetChecks(t) \/ ResetUses(t)
  <2>1. /\ dpc[t].kind = "reset" /\ UNCHANGED <<slot_of, running, level>>
        /\ dpc[t].i < StreamN
    BY <1>1, <1>10, AtWork DEF ResetChecks, ResetUses, Doing, tableVars
  <2>2. running
    BY <1>1, <2>1, AtWork
  <2>3. PICK d \in Place : Move(t, d) /\ d.kind = "reset" /\ d.e = dpc[t].e
    <3>1. \/ Move(t, NextStream(t))
          \/ \E at \in {"use", "check"} : Move(t, [dpc[t] EXCEPT !.at = at])
      BY <1>10 DEF ResetChecks, ResetUses
    <3>2. /\ NextStream(t) \in Place
          /\ NextStream(t).kind = dpc[t].kind /\ NextStream(t).e = dpc[t].e
      BY <1>1, <2>1, NextPlaces
    <3>3. ASSUME NEW at \in {"check", "use", "not"}
          PROVE  /\ [dpc[t] EXCEPT !.at = at] \in Place
                 /\ [dpc[t] EXCEPT !.at = at].kind = dpc[t].kind
                 /\ [dpc[t] EXCEPT !.at = at].e = dpc[t].e
      BY <1>1, <2>1, NextPlaces
    <3> QED
      BY <2>1, <3>1, <3>2, <3>3
  <2>4. \A j \in 0..StreamN-1 : LevelBounds(dpc[t], j) \subseteq LevelBounds(d, j)
    BY <2>1, <2>3 DEF LevelBounds
  <2> QED
    BY <2>1, <2>2, <2>3, <2>4, LevelKept
<1>11. CASE ResetDone(t)
  <2>1. dpc[t].kind = "reset" /\ UNCHANGED <<slot_of, running>>
    BY <1>11 DEF ResetDone, Doing, tableVars
  <2>2. running /\ slot_of[t] \in Slot /\ dpc[t].e \in Element
    BY <1>1, <2>1, AtWork
  <2>3. CASE dpc[t].e = "source"
    <3>1. PICK d \in Place : Move(t, d) /\ d.kind = "reset" /\ d.e = "sink"
      BY <1>11, <2>3, Places DEF ResetDone, Element
    <3>2. /\ \A p \in Slot : p # slot_of[t] => level'[p] = level[p]
          /\ \A j \in 0..StreamN-1 : level'[slot_of[t]][j] = 0
      BY <1>1, <1>11, <2>2, <2>3, NumbersAssumption DEF ResetDone, TypeOK, Index
    <3>3. \A j \in 0..StreamN-1 : level'[slot_of[t]][j] \in LevelBounds(d, j)
      BY <3>1, <3>2, NumbersAssumption DEF LevelBounds
    <3> QED
      BY <2>1, <2>2, <3>1, <3>2, <3>3, LevelStep
  <2>4. CASE dpc[t].e # "source"
    <3>1. Move(t, Idle) /\ UNCHANGED level /\ Idle \in Place
      BY <1>11, <2>4, Places DEF ResetDone
    <3>2. \A j \in 0..StreamN-1 : LevelBounds(dpc[t], j) \subseteq LevelBounds(Idle, j)
      BY <1>2, <2>1, <2>4 DEF LevelBounds
    <3> QED
      BY <2>1, <2>2, <3>1, <3>2, LevelKept
  <2> QED
    BY <2>3, <2>4
<1> QED
  BY <1>3, <1>4, <1>5, <1>6, <1>7, <1>8, <1>9, <1>10, <1>11 DEF DataTask

\* RUN gives every data thread a pipeline with empty buffers.
LEMMA LevelRun == LevelInv /\ Run => Buffered'
<1> SUFFICES ASSUME LevelInv, Run, NEW t \in Thread, NEW j \in 0..StreamN-1
             PROVE  level'[slot_of'[t]][j] \in LevelBounds(dpc'[t], j)
  BY DEF Buffered, LevelBounds
<1>1. PICK slots \in Allocations(N) :
        /\ slot_of' = [u \in Thread |-> IF u < N THEN slots[u] ELSE slot_of[u]]
        /\ level' = [p \in Slot |-> IF p \in pipelines THEN level[p] ELSE [i \in Index |-> 0]]
  BY DEF Run, RunInit
<1>2. t \in 0..N-1 /\ t < N /\ N \in 1..N
  BY ThreadAssumption DEF Thread
<1>3. slot_of'[t] \in Slot /\ slot_of'[t] \notin pipelines
  BY <1>1, <1>2, AllocationsAreSlots
<1>4. level'[slot_of'[t]][j] = 0
  <2>1. j \in Index
    BY NumbersAssumption DEF Index
  <2> QED
    BY <1>1, <1>3, <2>1
<1>5. dpc'[t] = Idle
  BY DEF Run, LevelInv, StreamInv, StoppedIdle
<1> QED
  BY <1>4, <1>5, NumbersAssumption DEF LevelBounds, Idle

LEMMA LevelStepAll == LevelInv /\ [Next]_vars => LevelInv'
<1> SUFFICES ASSUME LevelInv, [Next]_vars PROVE LevelInv'
  OBVIOUS
<1>1. StreamInv'
  BY StreamsStep DEF LevelInv
<1>2. CASE Run
  BY <1>1, <1>2, LevelRun DEF LevelInv
<1>3. CASE RunFails \/ Stop
  <2>1. ~running'
    BY <1>3 DEF RunFails, Stop
  <2> QED
    BY <1>1, <2>1 DEF LevelInv, Buffered
<1>4. CASE AudioAvbCtrl \/ UNCHANGED vars
  <2>1. UNCHANGED <<running, slot_of, level, dpc>>
    BY <1>4 DEF AudioAvbCtrl, MediaStackConnect, MediaStackDisconnect, ConnectCreate, ConnectShow,
                DisconnectHide, DisconnectDestroy, DisconnectClear, tableVars, vars
  <2> QED
    BY <1>1, <2>1 DEF LevelInv, Buffered, LevelBounds
<1>5. CASE \E t \in Thread : DataTask(t)
  BY <1>1, <1>5, LevelData DEF LevelInv
<1> QED
  BY <1>2, <1>3, <1>4, <1>5 DEF Next

\* When the elements after a source run, they find a period in the buffers of each
\* of its streams, and no buffer holds more than it is large
\* (avtp_source_element_run, listener_receive).
THEOREM SourcesBuffered == Spec => []SourceBuffered
<1>1. Init => LevelInv
  BY StreamInit DEF Init, LevelInv, Buffered
<1>2. LevelInv => SourceBuffered
  <2> SUFFICES ASSUME LevelInv, NEW t \in Thread, Doing(t, "run", "lock"),
                      NEW i \in 0..StreamN-1
               PROVE  level[slot_of[t]][i] \in 1..BufferMax-2
    BY DEF SourceBuffered
  <2>1. dpc[t].kind = "run" /\ dpc[t].at = "lock"
    BY DEF Doing
  <2>2. running
    BY <2>1, AtWork DEF LevelInv
  <2> QED
    BY <2>1, <2>2 DEF LevelInv, Buffered, LevelBounds
<1> QED
  BY <1>1, <1>2, LevelStepAll, PTL DEF Spec

-----------------------------------------------------------------------------
(* The streams that the AVB stack has connected                            *)

\* The stream that the control thread has begun to work on.
WorkedOn(p, e, i) ==
  op # Idle /\ op.at # "begin" /\ op.p = p /\ op.e = e /\ op.i = i

\* The stream that the control thread is about to hide.
ToHide(p, e, i) ==
  op # Idle /\ op.kind = "disconnect" /\ op.at = "begin" /\ op.p = p /\ op.e = e /\ op.i = i

\* The handle of a stream tells whether it is connected, but for the one stream that
\* a request is changing.
HandlesFollow ==
  \A p \in Slot, e \in Element, i \in Index :
    IF WorkedOn(p, e, i)
      THEN /\ ~stream[p][e][i].connected
           /\ stream[p][e][i].handle = IF op.at = "clear" THEN "destroyed" ELSE "live"
      ELSE stream[p][e][i].handle = IF stream[p][e][i].connected THEN "live" ELSE "null"

\* The AVB stack asks for streams of its entity, and a request to connect one is
\* under way only while the stack wants it.
Asked ==
  /\ wanted \subseteq Audible
  /\ op # Idle /\ op.kind = "connect" => <<op.e, op.i>> \in wanted
  /\ op # Idle /\ op.at = "show" => op.p \in genavb_h

\* Unless a RUN failed, the table has the pipelines of the data threads, and the
\* first of them has the AVB handle.
TableOfThreads ==
  /\ running => /\ pipelines = {slot_of[t] : t \in Thread}
                /\ genavb_h = {slot_of[0]}
                /\ \A t \in Thread : slot_of[0] <= slot_of[t]
  /\ ~running => pipelines = {}

\* Unless a RUN failed, the streams are those of the first pipeline that the stack
\* wants, or has wanted and cannot have disconnected.
StreamsOfStack ==
  \A p \in Slot, e \in Element, i \in Index :
    stream[p][e][i].connected =>
      IF running THEN /\ p = slot_of[0]
                      /\ (<<e, i>> \in wanted \cup swallowed \/ ToHide(p, e, i))
                 ELSE i = StreamN

FollowInv ==
  /\ StreamInv /\ HandlesFollow /\ Asked
  /\ failures \in Nat
  /\ failures = 0 => TableOfThreads /\ StreamsOfStack

\* A step of a data thread sets first_start at most.
LEMMA DataKeepsStreams ==
  ASSUME StreamInv, NEW t \in Thread, DataTask(t)
  PROVE  SameStreams /\ UNCHANGED <<tableVars, op, stackVars>>
<1>1. UNCHANGED <<tableVars, op, stackVars>>
  BY DEF DataTask, RunStarts, RunChecks, SourceRun, SourceDone, SinkStarts, SinkRun, SinkDone,
         ResetStarts, ResetChecks, ResetUses, ResetDone
<1>2. CASE UNCHANGED stream
  BY <1>1, <1>2, StreamsKept
<1>3. CASE SourceRun(t) /\ ~UNCHANGED stream
  <2>1. /\ dpc[t].kind = "run" /\ dpc[t].e = "source"
        /\ Received(t) \/ ReceivedNothing(t)
    BY <1>3 DEF SourceRun
  <2>2. slot_of[t] \in Slot /\ dpc[t].i \in Index /\ "source" \in Element
    BY <2>1, AtWork DEF Element
  <2>3. PICK b \in BOOLEAN :
          stream' = [stream EXCEPT ![slot_of[t]]["source"][dpc[t].i].first_start = b]
    BY <1>3, <2>1, Zenon DEF Received, ReceivedNothing
  <2>4. SameStreams
    BY <2>2, <2>3, FirstStart, Zenon DEF StreamInv
  <2> QED
    BY <1>1, <2>4
<1>4. CASE ResetChecks(t)
  <2>1. dpc[t].kind = "reset"
    BY <1>4 DEF ResetChecks, Doing
  <2>2. slot_of[t] \in Slot /\ dpc[t].e \in Element /\ dpc[t].i \in Index
    BY <2>1, AtWork
  <2>3. stream' = [stream EXCEPT ![slot_of[t]][dpc[t].e][dpc[t].i].first_start = TRUE]
    BY <1>4 DEF ResetChecks
  <2>4. SameStreams
    BY <2>2, <2>3, FirstStart, Zenon DEF StreamInv
  <2> QED
    BY <1>1, <2>4
<1>5. UNCHANGED stream \/ SourceRun(t) \/ ResetChecks(t)
  BY DEF DataTask, RunStarts, RunChecks, SourceDone, SinkStarts, SinkRun, SinkDone,
         ResetStarts, ResetUses, ResetDone
<1> QED
  BY <1>1, <1>2, <1>3, <1>4, <1>5, StreamsKept

LEMMA FollowData == FollowInv /\ (\E t \in Thread : DataTask(t)) => FollowInv'
<1> SUFFICES ASSUME FollowInv, NEW t \in Thread, DataTask(t) PROVE FollowInv'
  OBVIOUS
<1>1. SameStreams /\ UNCHANGED <<tableVars, op, stackVars>>
  BY DataKeepsStreams DEF FollowInv
<1>2. \A p \in Slot, e \in Element, i \in Index :
        /\ stream'[p][e][i].connected = stream[p][e][i].connected
        /\ stream'[p][e][i].handle = stream[p][e][i].handle
  BY <1>1 DEF SameStreams
<1>3. HandlesFollow'
  BY <1>1, <1>2 DEF FollowInv, HandlesFollow, WorkedOn
<1>4. Asked' /\ failures' \in Nat
  BY <1>1 DEF FollowInv, Asked, Audible, tableVars, stackVars
<1>5. failures' = 0 => TableOfThreads' /\ StreamsOfStack'
  BY <1>1, <1>2 DEF FollowInv, TableOfThreads, StreamsOfStack, ToHide, tableVars, stackVars
<1>6. StreamInv'
  BY DataTasksStep DEF FollowInv
<1> QED
  BY <1>3, <1>4, <1>5, <1>6 DEF FollowInv

\* The control thread changes the stream that it works on, and goes on with it or is
\* done with it.
LEMMA FollowChange ==
  ASSUME FollowInv, StreamInv', op # Idle,
         NEW s \in StreamState, SetsStream(op.p, op.e, op.i, s),
         op' # Idle => op'.kind = op.kind /\ op'.e = op.e /\ op'.i = op.i,
         op' # Idle /\ op'.at = "show" => op'.p \in genavb_h,
         IF op' # Idle /\ op'.at # "begin"
           THEN /\ op'.p = op.p /\ ~s.connected
                /\ s.handle = IF op'.at = "clear" THEN "destroyed" ELSE "live"
           ELSE s.handle = IF s.connected THEN "live" ELSE "null",
         failures = 0 /\ s.connected => op.p = slot_of[0] /\ <<op.e, op.i>> \in wanted,
         UNCHANGED <<tableVars, stackVars>>
  PROVE  FollowInv'
<1>1. op.p \in Slot /\ op.e \in Element /\ op.i \in Index /\ running
  BY DEF FollowInv, StreamInv, TypeOK, Operation, StoppedIdle
<1>2. OneStream(op.p, op.e, op.i, s)
  BY <1>1, StreamSet DEF FollowInv, StreamInv
<1>3. \A q \in Slot, f \in Element, j \in Index :
        stream'[q][f][j] = IF q = op.p /\ f = op.e /\ j = op.i THEN s ELSE stream[q][f][j]
  BY <1>2 DEF OneStream
<1>4. HandlesFollow'
  <2> SUFFICES ASSUME NEW p \in Slot, NEW e \in Element, NEW i \in Index
               PROVE  IF WorkedOn(p, e, i)'
                        THEN /\ ~stream'[p][e][i].connected
                             /\ stream'[p][e][i].handle = IF op'.at = "clear" THEN "destroyed" ELSE "live"
                        ELSE stream'[p][e][i].handle = IF stream'[p][e][i].connected THEN "live" ELSE "null"
    BY DEF HandlesFollow
  <2>1. CASE p = op.p /\ e = op.e /\ i = op.i
    <3>1. stream'[p][e][i] = s
      BY <1>3, <2>1
    <3>2. WorkedOn(p, e, i)' <=> (op' # Idle /\ op'.at # "begin")
      BY <2>1 DEF WorkedOn
    <3> QED
      BY <3>1, <3>2
  <2>2. CASE ~(p = op.p /\ e = op.e /\ i = op.i)
    <3>1. stream'[p][e][i] = stream[p][e][i]
      BY <1>3, <2>2
    <3>2. ~WorkedOn(p, e, i) /\ ~WorkedOn(p, e, i)'
      BY <2>2 DEF WorkedOn
    <3> QED
      BY <3>1, <3>2 DEF FollowInv, HandlesFollow
  <2> QED
    BY <2>1, <2>2
<1>5. Asked' /\ failures' \in Nat
  BY DEF FollowInv, Asked, Audible, tableVars, stackVars
<1>6. failures' = 0 => TableOfThreads'
  BY DEF FollowInv, TableOfThreads, tableVars, stackVars
<1>7. failures' = 0 => StreamsOfStack'
  <2> SUFFICES ASSUME failures = 0, NEW p \in Slot, NEW e \in Element, NEW i \in Index,
                      stream'[p][e][i].connected
               PROVE  p = slot_of[0] /\ <<e, i>> \in wanted \cup swallowed
    BY <1>1 DEF StreamsOfStack, tableVars, stackVars
  <2>1. CASE p = op.p /\ e = op.e /\ i = op.i
    BY <1>3, <2>1
  <2>2. CASE ~(p = op.p /\ e = op.e /\ i = op.i)
    <3>1. stream[p][e][i].connected
      BY <1>3, <2>2
    <3>2. ~ToHide(p, e, i)
      BY <2>2 DEF ToHide
    <3> QED
      BY <1>1, <3>1, <3>2 DEF FollowInv, StreamsOfStack
  <2> QED
    BY <2>1, <2>2
<1> QED
  BY <1>4, <1>5, <1>6, <1>7 DEF FollowInv

\* The control thread changes no stream, and begins or ends a request or goes on with
\* the next pipeline.
LEMMA FollowRequest ==
  ASSUME FollowInv, StreamInv',
         op # Idle => op.at = "begin",
         op' # Idle => op'.at = "begin",
         Asked',
         failures = 0 => StreamsOfStack',
         UNCHANGED <<tableVars, stream, failures>>
  PROVE  FollowInv'
<1>1. HandlesFollow'
  BY DEF FollowInv, HandlesFollow, WorkedOn
<1>2. failures' \in Nat /\ (failures' = 0 => TableOfThreads')
  BY DEF FollowInv, TableOfThreads, tableVars
<1> QED
  BY <1>1, <1>2 DEF FollowInv

\* The next pipeline of a request.
LEMMA NextFields ==
  ASSUME TypeOK, op # Idle, NEW o \in NextSlot, o # Idle
  PROVE  o.kind = op.kind /\ o.e = op.e /\ o.i = op.i /\ o.at = "begin"
<1>1. PICK p \in pipelines : o = [op EXCEPT !.p = p, !.at = "begin"]
  BY DEF NextSlot, First
<1>2. op \in [kind : {"connect", "disconnect"}, e : Element, i : Index, p : Slot,
              at : {"begin", "show", "destroy", "clear"}]
  BY DEF TypeOK, Operation
<1> QED
  BY <1>1, <1>2

\* The stack connects and disconnects streams.
LEMMA FollowStack ==
  FollowInv /\ (MediaStackConnect \/ MediaStackDisconnect) => FollowInv'
<1> SUFFICES ASSUME FollowInv, MediaStackConnect \/ MediaStackDisconnect PROVE FollowInv'
  OBVIOUS
<1>1. StreamInv' /\ TypeOK
  BY StreamsStep DEF FollowInv, StreamInv, Next, AudioAvbCtrl
<1>2. running /\ op = Idle /\ UNCHANGED <<tableVars, stream, failures, entity>>
  BY DEF MediaStackConnect, MediaStackDisconnect, Receives
<1>3. \A s \in Audible : s[2] \in Index /\ s = <<s[1], s[2]>> /\ (s \in entity => s[1] \in Element)
                         /\ (s[1] # "crf" => s \in entity)
  BY <1>1, CrfAssumption DEF TypeOK, Audible, Index
<1>4. CASE MediaStackConnect
  <2>1. PICK s \in Audible \ wanted :
          /\ wanted' = wanted \cup {s}
          /\ IF s[1] = "crf" THEN UNCHANGED <<op, swallowed>>
               ELSE op' \in Request("connect", s[1], s[2]) /\ swallowed' = swallowed \ {s}
    BY <1>4 DEF MediaStackConnect
  <2>2. op' # Idle => /\ op'.kind = "connect" /\ op'.at = "begin"
                      /\ op'.e = s[1] /\ op'.i = s[2]
    BY <1>2, <2>1 DEF Request
  <2>3. Asked'
    BY <1>2, <1>3, <2>1, <2>2 DEF FollowInv, Asked, Audible
  <2>4. ASSUME failures = 0 PROVE StreamsOfStack'
    <3> SUFFICES ASSUME NEW p \in Slot, NEW e \in Element, NEW i \in Index,
                        stream[p][e][i].connected
                 PROVE  p = slot_of[0] /\ <<e, i>> \in wanted' \cup swallowed'
      BY <1>2 DEF StreamsOfStack, tableVars
    <3>1. p = slot_of[0] /\ <<e, i>> \in wanted \cup swallowed
      BY <1>2, <2>4 DEF FollowInv, StreamsOfStack, ToHide
    <3> QED
      BY <2>1, <3>1
  <2> QED
    BY <1>1, <1>2, <2>2, <2>3, <2>4, FollowRequest
<1>5. CASE MediaStackDisconnect
  <2>1. PICK s \in wanted :
          /\ wanted' = wanted \ {s}
          /\ IF s[2] = crf.index
               THEN swallowed' = swallowed \cup ({s} \cap entity) /\ UNCHANGED op
               ELSE /\ op' \in Request("disconnect", IF s[1] = "crf" THEN "source" ELSE s[1], s[2])
                    /\ UNCHANGED swallowed
    BY <1>5 DEF MediaStackDisconnect
  <2>2. s \in Audible
    BY DEF FollowInv, Asked
  <2>3. op' # Idle => op'.kind = "disconnect" /\ op'.at = "begin"
    BY <1>2, <2>1 DEF Request
  <2>4. Asked'
    BY <1>2, <2>1, <2>3 DEF FollowInv, Asked, Audible
  <2>5. ASSUME failures = 0 PROVE StreamsOfStack'
    <3> SUFFICES ASSUME NEW p \in Slot, NEW e \in Element, NEW i \in Index,
                        stream[p][e][i].connected
                 PROVE  /\ p = slot_of[0]
                        /\ (<<e, i>> \in wanted' \cup swallowed' \/ ToHide(p, e, i)')
      BY <1>2 DEF StreamsOfStack, tableVars
    <3>1. p = slot_of[0] /\ <<e, i>> \in wanted \cup swallowed
      BY <1>2, <2>5 DEF FollowInv, StreamsOfStack, ToHide
    <3>2. CASE <<e, i>> # s \/ <<e, i>> \in swallowed
      BY <2>1, <3>1, <3>2
    <3>3. CASE s = <<e, i>> /\ s[2] = crf.index
      <4>1. s \in entity
        BY <1>3, <2>2, <3>3 DEF Element
      <4> QED
        BY <2>1, <3>1, <3>3, <4>1
    <3>4. CASE s = <<e, i>> /\ s[2] # crf.index
      <4>1. op' \in Request("disconnect", e, i)
        BY <2>1, <3>4 DEF Element
      <4>2. PICK q \in First(pipelines) :
              op' = [kind |-> "disconnect", e |-> e, i |-> i, p |-> q, at |-> "begin"]
        BY <4>1 DEF Request
      <4>3. q = slot_of[0]
        <5>1. q \in pipelines /\ \A r \in pipelines : q <= r
          BY DEF First
        <5>2. /\ pipelines = {slot_of[t] : t \in Thread}
              /\ \A t \in Thread : slot_of[0] <= slot_of[t]
          BY <1>2, <2>5 DEF FollowInv, TableOfThreads
        <5>3. 0 \in Thread
          BY ThreadAssumption DEF Thread
        <5>4. slot_of[0] \in Slot /\ q \in Slot
          BY <1>1, <1>2, <5>1, <5>3 DEF FollowInv, StreamInv, OwnSlots, TypeOK
        <5>5. slot_of[0] <= q /\ q <= slot_of[0]
          BY <5>1, <5>2, <5>3
        <5> QED
          BY <5>4, <5>5, NumbersAssumption DEF Slot
      <4> QED
        BY <3>1, <4>2, <4>3 DEF ToHide, Idle
    <3> QED
      BY <3>2, <3>3, <3>4
  <2> QED
    BY <1>1, <1>2, <2>3, <2>4, <2>5, FollowRequest
<1> QED
  BY <1>4, <1>5

\* The steps of a request.
LEMMA FollowSteps ==
  ASSUME FollowInv,
         \/ ConnectCreate \/ ConnectShow
         \/ DisconnectHide \/ DisconnectDestroy \/ DisconnectClear
  PROVE  FollowInv'
<1>1. StreamInv' /\ TypeOK
  BY StreamsStep DEF FollowInv, StreamInv, Next, AudioAvbCtrl
<1>2. op # Idle
  BY DEF ConnectCreate, ConnectShow, DisconnectHide, DisconnectDestroy, DisconnectClear, Idle
<1>3. /\ op \in [kind : {"connect", "disconnect"}, e : Element, i : Index, p : Slot,
                at : {"begin", "show", "destroy", "clear"}]
      /\ running /\ Its \in StreamState
  BY <1>1, <1>2 DEF FollowInv, StreamInv, StoppedIdle, TypeOK, Operation, Its
<1>4. UNCHANGED <<tableVars, stackVars>>
  BY DEF ConnectCreate, ConnectShow, DisconnectHide, DisconnectDestroy, DisconnectClear
<1>5. IF op.at # "begin"
        THEN ~Its.connected /\ Its.handle = IF op.at = "clear" THEN "destroyed" ELSE "live"
        ELSE Its.handle = IF Its.connected THEN "live" ELSE "null"
  BY <1>2, <1>3 DEF FollowInv, HandlesFollow, WorkedOn, Its
<1>6. \A o \in NextSlot : o # Idle =>
        o.kind = op.kind /\ o.e = op.e /\ o.i = op.i /\ o.at = "begin"
  BY <1>1, <1>2, NextFields
<1>7. ASSUME op.at = "begin", op' \in NextSlot, UNCHANGED stream,
             op.kind = "disconnect" => ~Its.connected
      PROVE  FollowInv'
  <2>1. Asked'
    BY <1>2, <1>4, <1>6, <1>7 DEF FollowInv, Asked, Audible, stackVars
  <2>2. ASSUME failures = 0 PROVE StreamsOfStack'
    <3>1. \A p \in Slot, e \in Element, i \in Index :
            stream[p][e][i].connected => ~ToHide(p, e, i)
      BY <1>7 DEF ToHide, Its
    <3> QED
      BY <1>4, <1>7, <2>2, <3>1 DEF FollowInv, StreamsOfStack, tableVars, stackVars
  <2>3. op' # Idle => op'.at = "begin"
    BY <1>6, <1>7
  <2>4. UNCHANGED <<tableVars, stream, failures>>
    BY <1>4, <1>7 DEF stackVars
  <2> QED
    BY <1>1, <1>7, <2>1, <2>2, <2>3, <2>4, FollowRequest
<1>8. CASE ConnectCreate
  <2>1. CASE op' \in NextSlot /\ UNCHANGED stream
    BY <1>7, <1>8, <2>1 DEF ConnectCreate
  <2>2. CASE ~(op' \in NextSlot /\ UNCHANGED stream)
    <3> DEFINE s == [Its EXCEPT !.handle = "live", !.first_start = TRUE]
    <3>1. /\ op.p \in genavb_h /\ ~Its.connected
          /\ SetIts(s) /\ op' = [op EXCEPT !.at = "show"]
      BY <1>8, <2>2 DEF ConnectCreate
    <3>2. s \in StreamState /\ ~s.connected /\ s.handle = "live"
      BY <1>3, <3>1 DEF StreamState
    <3>3. /\ op' # Idle /\ op'.at = "show"
          /\ op'.p = op.p /\ op'.kind = op.kind /\ op'.e = op.e /\ op'.i = op.i
      BY <1>3, <3>1 DEF Idle
    <3>4. SetsStream(op.p, op.e, op.i, s)
      BY <3>1 DEF SetIts, SetsStream
    <3> HIDE DEF s
    <3> QED
      BY <1>1, <1>2, <1>4, <3>1, <3>2, <3>3, <3>4, FollowChange
  <2> QED
    BY <2>1, <2>2
<1>9. CASE ConnectShow
  <2> DEFINE s == [Its EXCEPT !.connected = TRUE]
  <2>1. /\ op.kind = "connect" /\ op.at = "show" /\ SetIts(s) /\ op' \in NextSlot
    BY <1>9 DEF ConnectShow
  <2>2. s \in StreamState /\ s.connected /\ s.handle = "live"
    BY <1>3, <1>5, <2>1 DEF StreamState
  <2>3. op' # Idle => /\ op'.at = "begin"
                      /\ op'.kind = op.kind /\ op'.e = op.e /\ op'.i = op.i
    BY <1>6, <2>1
  <2>4. SetsStream(op.p, op.e, op.i, s)
    BY <2>1 DEF SetIts, SetsStream
  <2>5. <<op.e, op.i>> \in wanted /\ op.p \in genavb_h
    BY <1>2, <2>1 DEF FollowInv, Asked
  <2>6. failures = 0 => op.p = slot_of[0]
    BY <1>3, <2>5 DEF FollowInv, TableOfThreads
  <2> HIDE DEF s
  <2> QED
    BY <1>1, <1>2, <1>4, <2>2, <2>3, <2>4, <2>5, <2>6, FollowChange
<1>10. CASE DisconnectHide
  <2>1. CASE ~Its.connected
    BY <1>7, <1>10, <2>1 DEF DisconnectHide
  <2>2. CASE Its.connected
    <3> DEFINE s == [Its EXCEPT !.connected = FALSE]
    <3>1. op.at = "begin" /\ SetIts(s) /\ op' = [op EXCEPT !.at = "destroy"]
      BY <1>10, <2>2 DEF DisconnectHide
    <3>2. s \in StreamState /\ ~s.connected /\ s.handle = "live"
      BY <1>3, <1>5, <2>2, <3>1 DEF StreamState
    <3>3. /\ op' # Idle /\ op'.at = "destroy"
          /\ op'.p = op.p /\ op'.kind = op.kind /\ op'.e = op.e /\ op'.i = op.i
      BY <1>3, <3>1 DEF Idle
    <3>4. SetsStream(op.p, op.e, op.i, s)
      BY <3>1 DEF SetIts, SetsStream
    <3> HIDE DEF s
    <3> QED
      BY <1>1, <1>2, <1>4, <3>2, <3>3, <3>4, FollowChange
  <2> QED
    BY <2>1, <2>2
<1>11. CASE DisconnectDestroy
  <2> DEFINE s == [Its EXCEPT !.handle = "destroyed"]
  <2>1. op.at = "destroy" /\ SetIts(s) /\ op' = [op EXCEPT !.at = "clear"]
    BY <1>11 DEF DisconnectDestroy
  <2>2. s \in StreamState /\ ~s.connected /\ s.handle = "destroyed"
    BY <1>3, <1>5, <2>1 DEF StreamState
  <2>3. /\ op' # Idle /\ op'.at = "clear"
        /\ op'.p = op.p /\ op'.kind = op.kind /\ op'.e = op.e /\ op'.i = op.i
    BY <1>3, <2>1 DEF Idle
  <2>4. SetsStream(op.p, op.e, op.i, s)
    BY <2>1 DEF SetIts, SetsStream
  <2> HIDE DEF s
  <2> QED
    BY <1>1, <1>2, <1>4, <2>2, <2>3, <2>4, FollowChange
<1>12. CASE DisconnectClear
  <2> DEFINE s == [Its EXCEPT !.handle = "null"]
  <2>1. op.at = "clear" /\ SetIts(s) /\ op' \in NextSlot
    BY <1>12 DEF DisconnectClear
  <2>2. s \in StreamState /\ ~s.connected /\ s.handle = "null"
    BY <1>3, <1>5, <2>1 DEF StreamState
  <2>3. op' # Idle => /\ op'.at = "begin"
                      /\ op'.kind = op.kind /\ op'.e = op.e /\ op'.i = op.i
    BY <1>6, <2>1
  <2>4. SetsStream(op.p, op.e, op.i, s)
    BY <2>1 DEF SetIts, SetsStream
  <2> HIDE DEF s
  <2> QED
    BY <1>1, <1>2, <1>4, <2>2, <2>3, <2>4, FollowChange
<1> QED
  BY <1>8, <1>9, <1>10, <1>11, <1>12

\* New pipelines have no streams, and the first of them gets the AVB handle.
LEMMA FollowRun == FollowInv /\ (Run \/ RunFails) => FollowInv'
<1> SUFFICES ASSUME FollowInv, Run \/ RunFails PROVE FollowInv'
  OBVIOUS
<1>1. StreamInv' /\ TypeOK
  BY StreamsStep DEF FollowInv, StreamInv, Next
<1>2. ~running /\ op = Idle /\ UNCHANGED <<entity, op, wanted, swallowed>>
  BY DEF Run, RunFails
<1>3. PICK k \in 1..N : RunInit(k) /\ (Run => k = N)
  BY ThreadAssumption DEF Run, RunFails
<1>4. PICK slots \in Allocations(k) :
        /\ pipelines' = pipelines \cup {slots[t] : t \in 0..k-1}
        /\ genavb_h' = pipelines \cup {slots[0]}
        /\ slot_of' = [t \in Thread |-> IF t < k THEN slots[t] ELSE slot_of[t]]
        /\ stream' = [p \in Slot |-> IF p \in pipelines THEN stream[p] ELSE Closed]
  BY <1>3 DEF RunInit
<1>5. \A p \in Slot, e \in Element, i \in Index :
        \/ stream'[p][e][i] = stream[p][e][i] /\ p \in pipelines
        \/ ~stream'[p][e][i].connected /\ stream'[p][e][i].handle = "null"
  <2>1. \A e \in Element, i \in Index : Closed[e][i] = Fresh
    BY DEF Closed
  <2> QED
    BY <1>4, <2>1 DEF Fresh
<1>6. HandlesFollow'
  BY <1>2, <1>5 DEF FollowInv, HandlesFollow, WorkedOn
<1>7. Asked'
  BY <1>2 DEF FollowInv, Asked, Audible
<1>8. failures' \in Nat /\ (failures' = 0 => Run /\ failures = 0)
  BY DEF FollowInv, Run, RunFails
<1>9. ASSUME failures' = 0 PROVE TableOfThreads' /\ StreamsOfStack'
  <2>1. running' /\ k = N /\ pipelines = {}
    BY <1>2, <1>3, <1>8, <1>9 DEF FollowInv, TableOfThreads, Run
  <2>2. StreamsOfStack'
    BY <1>5, <2>1 DEF StreamsOfStack
  <2>3. Thread = 0..N-1 /\ 0 \in Thread /\ \A t \in Thread : t < N
    BY ThreadAssumption DEF Thread
  <2>4. \A t \in Thread : slot_of'[t] = slots[t]
    BY <1>4, <2>1, <2>3
  <2>5. pipelines' = {slot_of'[t] : t \in Thread} /\ genavb_h' = {slot_of'[0]}
    BY <1>4, <2>1, <2>3, <2>4
  <2>6. ASSUME NEW t \in Thread PROVE slots[0] <= slots[t]
    <3>1. slots[0] \in Slot
      BY <2>1, <2>3, AllocationsAreSlots
    <3>2. CASE t = 0
      BY <3>1, <3>2, NumbersAssumption DEF Slot
    <3>3. CASE t # 0
      <4>1. 0 \in 0..t-1 /\ t \in 0..k-1
        BY <2>1, <2>3, <3>3, ThreadAssumption
      <4>2. slots[0] < slots[t]
        BY <4>1 DEF Allocations
      <4>3. slots[t] \in Slot
        BY <4>1, AllocationsAreSlots
      <4> QED
        BY <3>1, <4>2, <4>3, NumbersAssumption DEF Slot
    <3> QED
      BY <3>2, <3>3
  <2> QED
    BY <2>1, <2>2, <2>3, <2>4, <2>5, <2>6 DEF TableOfThreads
<1> QED
  BY <1>1, <1>6, <1>7, <1>8, <1>9 DEF FollowInv

\* STOP leaves a stream at the index one too many, and no other.
LEMMA FollowStop == FollowInv /\ Stop => FollowInv'
<1> SUFFICES ASSUME FollowInv, Stop PROVE FollowInv'
  OBVIOUS
<1>1. StreamInv' /\ TypeOK
  BY StreamsStep DEF FollowInv, StreamInv, Next
<1> DEFINE gone == {slot_of[t] : t \in Thread}
<1>2. /\ running /\ ~running' /\ op = Idle /\ wanted' = {}
      /\ pipelines' = pipelines \ gone
      /\ stream' = [p \in Slot |-> IF p \in gone THEN Left(p) ELSE stream[p]]
      /\ UNCHANGED <<entity, op, failures>>
  BY DEF Stop
<1>3. \A p \in Slot, e \in Element, i \in Index :
        \/ stream'[p][e][i] = stream[p][e][i] /\ (p \notin gone \/ i >= StreamN)
        \/ ~stream'[p][e][i].connected /\ stream'[p][e][i].handle = "null"
  <2> SUFFICES ASSUME NEW p \in Slot, NEW e \in Element, NEW i \in Index
               PROVE  \/ stream'[p][e][i] = stream[p][e][i] /\ (p \notin gone \/ i >= StreamN)
                      \/ ~stream'[p][e][i].connected /\ stream'[p][e][i].handle = "null"
    OBVIOUS
  <2>1. CASE p \notin gone
    BY <1>2, <2>1
  <2>2. CASE p \in gone
    <3>1. stream'[p][e][i] = IF i < StreamN THEN Fresh ELSE stream[p][e][i]
      BY <1>2, <2>2 DEF Left
    <3> QED
      BY <3>1, NumbersAssumption DEF Fresh, Index
  <2> QED
    BY <2>1, <2>2
<1> HIDE DEF gone
<1>4. HandlesFollow'
  BY <1>2, <1>3 DEF FollowInv, HandlesFollow, WorkedOn
<1>5. Asked' /\ failures' \in Nat
  BY <1>2 DEF FollowInv, Asked
<1>6. ASSUME failures = 0 PROVE TableOfThreads' /\ StreamsOfStack'
  <2>1. pipelines = gone /\ slot_of[0] \in gone
    BY <1>2, <1>6, ThreadAssumption DEF FollowInv, TableOfThreads, Thread, gone
  <2>2. \A p \in Slot, e \in Element, i \in Index :
          stream[p][e][i].connected => p = slot_of[0]
    BY <1>2, <1>6 DEF FollowInv, StreamsOfStack
  <2>3. \A i \in Index : i >= StreamN => i = StreamN
    BY NumbersAssumption DEF Index
  <2>4. StreamsOfStack'
    BY <1>2, <1>3, <2>1, <2>2, <2>3 DEF StreamsOfStack
  <2> QED
    BY <1>2, <2>1, <2>4 DEF TableOfThreads
<1> QED
  BY <1>1, <1>2, <1>4, <1>5, <1>6 DEF FollowInv

LEMMA FollowInit == Init => FollowInv
<1> SUFFICES ASSUME Init PROVE FollowInv
  OBVIOUS
<1>1. StreamInv
  BY StreamInit
<1>2. \A p \in Slot, e \in Element, i \in Index : stream[p][e][i] = Fresh
  BY DEF Init, Closed
<1>3. op = Idle /\ ~running /\ pipelines = {} /\ wanted = {} /\ failures = 0
  BY DEF Init
<1>4. HandlesFollow /\ StreamsOfStack
  BY <1>2, <1>3 DEF HandlesFollow, StreamsOfStack, WorkedOn, Fresh
<1> QED
  BY <1>1, <1>3, <1>4 DEF FollowInv, Asked, TableOfThreads

LEMMA FollowStep == FollowInv /\ [Next]_vars => FollowInv'
<1> SUFFICES ASSUME FollowInv, [Next]_vars PROVE FollowInv'
  OBVIOUS
<1>1. CASE UNCHANGED vars
  <2>1. StreamInv'
    BY <1>1, StreamsStep DEF FollowInv
  <2>2. HandlesFollow' /\ Asked' /\ failures' \in Nat
    BY <1>1 DEF FollowInv, HandlesFollow, WorkedOn, Asked, Audible, vars
  <2>3. failures' = 0 => TableOfThreads' /\ StreamsOfStack'
    BY <1>1 DEF FollowInv, TableOfThreads, StreamsOfStack, ToHide, vars
  <2> QED
    BY <2>1, <2>2, <2>3 DEF FollowInv
<1> QED
  BY <1>1, FollowRun, FollowStop, FollowStack, FollowSteps, FollowData DEF Next, AudioAvbCtrl

\* Between two requests of the AVB stack a stream that is not shown as connected does
\* not live on, and unless a RUN failed the first pipeline has the streams that the
\* stack has connected (handle_avdecc_event, avtp_source_disconnect, audio_avb_exit),
\* with the exceptions that the property names.
THEOREM StreamsAreOfStack == Spec => []StreamsFollowStack
<1>1. FollowInv => StreamsFollowStack
  <2> SUFFICES ASSUME FollowInv, op = Idle PROVE StreamsFollowStack
    BY DEF StreamsFollowStack
  <2>1. \A p \in Slot, e \in Element, i \in Index :
          stream[p][e][i].handle = IF stream[p][e][i].connected THEN "live" ELSE "null"
    BY DEF FollowInv, HandlesFollow, WorkedOn
  <2>2. ASSUME failures = 0, NEW p \in Slot, NEW e \in Element, NEW i \in Index,
               stream[p][e][i].connected
        PROVE  IF running THEN p = slot_of[0] /\ <<e, i>> \in wanted \cup swallowed
                          ELSE i = StreamN
    BY <2>2 DEF FollowInv, StreamsOfStack, ToHide
  <2> QED
    BY <2>1, <2>2 DEF StreamsFollowStack
<1> QED
  BY <1>1, FollowInit, FollowStep, PTL DEF Spec
===============================================================================
