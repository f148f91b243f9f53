----------------------------- MODULE TsnAppProofs -----------------------------
(***************************************************************************)
(* What a TSN application promises, for every configuration and any size   *)
(* of its queues and buffers: a zero copy socket writes only to its own    *)
(* buffers, a serial io device sends whole lines, and whichever calls fail *)
(* at the start, what runs finds what it uses, and nothing of the tasks is *)
(* left at the end.                                                        *)
(***************************************************************************)
EXTENDS TsnApp, SequenceTheorems, TLAPS

-----------------------------------------------------------------------------
(* The transmit socket                                                     *)

\* Without a batch pending all the buffers are with the task, and it never
\* sends while one is.
SocketInv ==
  /\ n \in Nat
  /\ buf \in [Buffers -> {"task", "stack", "sent"}]
  /\ tx_pending \in BOOLEAN
  /\ tx_pending \/ InState("task") = Buffers
  /\ tx_pc \in {"done", "send"}
  /\ tx_pc = "send" => ~tx_pending

LEMMA SocketSteps ==
  ASSUME SocketInv, TransmitDone \/ TransmitSock \/ FrameSent
  PROVE  SocketInv'
<1>1. CASE TransmitDone
  <2> DEFINE done == IF tx_pending THEN InState("sent") ELSE {}
  <2>1. /\ buf' = [b \in Buffers |-> IF b \in done THEN "task" ELSE buf[b]]
        /\ tx_pending' = (tx_pending /\ done # Buffers)
        /\ tx_pc' = IF tx_pending' THEN "done" ELSE "send"
        /\ n' = n
    BY <1>1 DEF TransmitDone
  <2>2. ~tx_pending' => \A b \in Buffers : buf'[b] = "task"
    BY <2>1 DEF SocketInv, InState
  <2> HIDE DEF done
  <2> QED
    BY <2>1, <2>2 DEF SocketInv, InState, Buffers
<1>2. CASE TransmitSock
  <2>1. PICK k \in 0..n :
          /\ buf' = [b \in Buffers |-> IF b <= k THEN "stack" ELSE buf[b]]
          /\ tx_pending' = (tx_pending \/ k > 0)
    BY <1>2 DEF TransmitSock
  <2>2. ~tx_pending' => \A b \in Buffers : buf'[b] = "task"
    <3>1. ~tx_pending' => ~(k > 0) /\ ~tx_pending
      BY <2>1, Zenon
    <3>2. ~(k > 0) => k = 0
      BY DEF SocketInv
    <3> QED
      BY <2>1, <3>1, <3>2 DEF SocketInv, InState, Buffers
  <2> QED
    BY <1>2, <2>1, <2>2 DEF SocketInv, InState, Buffers, TransmitSock
<1>3. CASE FrameSent
  <2>1. PICK b \in InState("stack") : buf' = [buf EXCEPT ![b] = "sent"]
    BY <1>3 DEF FrameSent
  <2>2. tx_pending
    BY <2>1 DEF SocketInv, InState
  <2> QED
    BY <1>3, <2>1, <2>2 DEF FrameSent, SocketInv, InState, Buffers
<1> QED
  BY <1>1, <1>2, <1>3

\* Only its own steps move a socket, and only the serial steps the UART.
LEMMA OtherSteps ==
  ASSUME [Next]_vars
  PROVE  /\ UNCHANGED socketVars \/ TransmitDone \/ TransmitSock \/ FrameSent
         /\ \/ UNCHANGED serialVars
            \/ ByteArrives \/ ByteLost \/ IdleLine \/ CommandSent \/ UartRxTask \/ NetReceive \/ SerialLoop
<1>1. CASE Acquire \/ Fail \/ Undone \/ Exit \/ Exited \/ Release \/ ClientEnds
  BY <1>1 DEF Acquire, Fail, Undone, Exit, Exited, Release, ClientEnds
<1>2. CASE UNCHANGED vars
  BY <1>2 DEF vars
<1> QED
  BY <1>1, <1>2 DEF Next, ButtonStep, SocketStep, AlarmStep, SerialStep

\* Frames are only written to buffers that the stack has given back, all of them,
\* however a batch is sent and whichever frames of it are sent first.
THEOREM BuffersAreOwned == Spec => []BuffersOwned
<1>1. Init => SocketInv
  <2> SUFFICES ASSUME Init PROVE SocketInv
    OBVIOUS
  <2>1. n \in Nat
    BY MaxPacketsAssumption DEF Init, SocketInit
  <2> QED
    BY <2>1 DEF Init, SocketInit, SocketInv, InState, Buffers
<1>2. SocketInv /\ [Next]_vars => SocketInv'
  <2> SUFFICES ASSUME SocketInv, [Next]_vars PROVE SocketInv'
    OBVIOUS
  <2>1. CASE UNCHANGED socketVars
    BY <2>1 DEF socketVars, SocketInv, InState, Buffers
  <2> QED
    BY <2>1, OtherSteps, SocketSteps
<1>3. SocketInv => BuffersOwned
  BY DEF SocketInv, BuffersOwned
<1> QED
  BY <1>1, <1>2, <1>3, PTL DEF Spec

-----------------------------------------------------------------------------
(* The lines of the serial io device                                       *)

Byte == [place : Nat, eol : BOOLEAN]

\* The place of byte k of s, or of what comes after s.
PlaceAt(s, after, k) == IF k <= Len(s) THEN s[k].place ELSE after
First(s, after) == PlaceAt(s, after, 1)

\* The bytes of s, and what comes after them, follow one another on the wire, or
\* a byte was lost between them.
Follows(s, after) ==
  \A k \in 1..Len(s) :
    PlaceAt(s, after, k + 1) \in {0, NextPlace(PlaceAt(s, after, k), s[k].eol)}

\* What is at the beginning of the buffer starts a line, or continues one of
\* which as much as fills the buffer was erased, maybe several times, or is a part
\* of one of which a byte was lost.
Starts(p) == p = 0 \/ \E q \in Nat : p = q * MAX_SERIAL_COMMAND_LEN + 1

\* Byte k of s belongs to the line that s begins with, if it has a place.
Continues(s, k) ==
  /\ ~s[k].eol
  /\ s[k].place # 0 => s[1].place # 0 /\ s[k].place = s[1].place + k - 1

Line(f) == f \in Seq(Byte) /\ LineIntact(f)

SerialInv ==
  /\ place \in Nat
  /\ uart_rx_buf \in Seq(Byte) /\ ring \in Seq(Byte)
  /\ Len(uart_rx_buf) <= MAX_SERIAL_COMMAND_LEN
  /\ i \in 0..Len(uart_rx_buf)
  /\ \A k \in 1..i : Continues(uart_rx_buf, k)
  /\ Follows(ring, place)
  /\ Follows(uart_rx_buf, First(ring, place))
  /\ Starts(First(uart_rx_buf, First(ring, place)))
  /\ feedback_rx_queue \in Seq(Seq(Byte)) /\ LinesIntact

LEMMA PlaceType ==
  ASSUME NEW s \in Seq(Byte), NEW p \in Nat, NEW k \in Nat \ {0}
  PROVE  PlaceAt(s, p, k) \in Nat
<1>1. CASE k <= Len(s)
  <2>1. s[k] \in Byte
    BY <1>1
  <2> QED
    BY <1>1, <2>1 DEF PlaceAt, Byte
<1> QED
  BY <1>1 DEF PlaceAt

\* A byte that comes in.
LEMMA FollowsAppend ==
  ASSUME NEW s \in Seq(Byte), NEW p \in Nat, Follows(s, p), NEW e \in BOOLEAN
  PROVE  LET t == Append(s, [place |-> p, eol |-> e])
             q == NextPlace(p, e)
         IN  t \in Seq(Byte) /\ q \in Nat /\ Follows(t, q) /\ First(t, q) = First(s, p)
<1> DEFINE x == [place |-> p, eol |-> e]
           t == Append(s, x)
           q == NextPlace(p, e)
<1>1. x \in Byte /\ x.place = p /\ x.eol = e /\ q \in Nat
  BY DEF Byte, NextPlace
<1> HIDE DEF x, q
<1>2. /\ t \in Seq(Byte) /\ Len(t) = Len(s) + 1 /\ Len(s) \in Nat
      /\ \A k \in 1..Len(s) : t[k] = s[k]
      /\ t[Len(s) + 1] = x
  BY <1>1
<1> HIDE DEF t
<1>3. \A k \in 1..Len(s)+1 : PlaceAt(t, q, k) = PlaceAt(s, p, k)
  BY <1>1, <1>2 DEF PlaceAt
<1>4. Follows(t, q)
  <2> SUFFICES ASSUME NEW k \in 1..Len(t)
               PROVE  PlaceAt(t, q, k + 1) \in {0, NextPlace(PlaceAt(t, q, k), t[k].eol)}
    BY DEF Follows
  <2>1. CASE k \in 1..Len(s)
    BY <1>2, <1>3, <2>1 DEF Follows
  <2>2. CASE k = Len(s) + 1
    <3>1. PlaceAt(t, q, k + 1) = q /\ PlaceAt(t, q, k) = p /\ t[k].eol = e
      BY <1>1, <1>2, <2>2 DEF PlaceAt
    <3> QED
      BY <3>1 DEF q
  <2> QED
    BY <1>2, <2>1, <2>2
<1> QED
  BY <1>1, <1>2, <1>3, <1>4 DEF First, t, q, x

\* The first m bytes and the rest.
LEMMA FollowsSplit ==
  ASSUME NEW s \in Seq(Byte), NEW p \in Nat, Follows(s, p), NEW m \in 0..Len(s)
  PROVE  LET head == SubSeq(s, 1, m)
             rest == SubSeq(s, m + 1, Len(s))
         IN  /\ head \in Seq(Byte) /\ rest \in Seq(Byte)
             /\ Len(head) = m /\ \A k \in 1..m : head[k] = s[k]
             /\ Follows(rest, p)
             /\ Follows(head, First(rest, p))
             /\ First(head, First(rest, p)) = First(s, p)
             /\ First(rest, p) = PlaceAt(s, p, m + 1)
<1> DEFINE head == SubSeq(s, 1, m)
           rest == SubSeq(s, m + 1, Len(s))
<1>1. Len(s) \in Nat
  OBVIOUS
<1>2. /\ head \in Seq(Byte) /\ Len(head) = m
      /\ \A k \in 1..m : head[k] = s[k]
  BY <1>1
<1>3. /\ rest \in Seq(Byte) /\ Len(rest) = Len(s) - m
      /\ \A k \in 1..Len(s)-m : rest[k] = s[m + k]
  <2>1. \A k \in m+1..Len(s) : s[k] \in Byte
    BY <1>1
  <2>2. /\ rest \in Seq(Byte)
        /\ Len(rest) = IF m + 1 <= Len(s) THEN Len(s) - (m + 1) + 1 ELSE 0
        /\ \A k \in 1 .. Len(s) - (m + 1) + 1 : rest[k] = s[m + 1 + k - 1]
    BY <1>1, <2>1, SubSeqProperties
  <2> QED
    BY <1>1, <2>2
<1> HIDE DEF head, rest
<1>4. \A k \in 1..Len(s)-m+1 : PlaceAt(rest, p, k) = PlaceAt(s, p, m + k)
  BY <1>1, <1>3 DEF PlaceAt
<1>5. First(rest, p) = PlaceAt(s, p, m + 1)
  BY <1>1, <1>4 DEF First
<1>6. \A k \in 1..m+1 : PlaceAt(head, First(rest, p), k) = PlaceAt(s, p, k)
  BY <1>1, <1>2, <1>5 DEF PlaceAt
<1>7. Follows(rest, p)
  <2> SUFFICES ASSUME NEW k \in 1..Len(rest)
               PROVE  PlaceAt(rest, p, k + 1) \in {0, NextPlace(PlaceAt(rest, p, k), rest[k].eol)}
    BY DEF Follows
  <2>1. /\ PlaceAt(rest, p, k) = PlaceAt(s, p, m + k)
        /\ PlaceAt(rest, p, k + 1) = PlaceAt(s, p, m + k + 1)
        /\ rest[k] = s[m + k] /\ m + k \in 1..Len(s)
    BY <1>1, <1>3, <1>4
  <2> QED
    BY <2>1 DEF Follows
<1>8. Follows(head, First(rest, p))
  BY <1>1, <1>2, <1>6 DEF Follows
<1> QED
  BY <1>1, <1>2, <1>3, <1>5, <1>6, <1>7, <1>8 DEF First, head, rest

LEMMA ConcatBytes ==
  ASSUME NEW s \in Seq(Byte), NEW t \in Seq(Byte)
  PROVE  /\ s \o t \in Seq(Byte)
         /\ Len(s \o t) = Len(s) + Len(t)
         /\ \A k \in 1..Len(s) : (s \o t)[k] = s[k]
         /\ \A k \in 1..Len(t) : (s \o t)[Len(s) + k] = t[k]
OBVIOUS

\* What is read goes behind what is there.
LEMMA FollowsConcat ==
  ASSUME NEW s \in Seq(Byte), NEW t \in Seq(Byte), NEW p \in Nat,
         Follows(t, p), Follows(s, First(t, p))
  PROVE  /\ Follows(s \o t, p)
         /\ First(s \o t, p) = First(s, First(t, p))
<1> DEFINE u == s \o t
<1>1. /\ u \in Seq(Byte) /\ Len(u) = Len(s) + Len(t) /\ Len(s) \in Nat /\ Len(t) \in Nat
      /\ \A k \in 1..Len(s) : u[k] = s[k]
      /\ \A k \in 1..Len(t) : u[Len(s) + k] = t[k]
  BY ConcatBytes
<1> HIDE DEF u
<1>2. \A k \in 1..Len(t)+1 : PlaceAt(u, p, Len(s) + k) = PlaceAt(t, p, k)
  BY <1>1 DEF PlaceAt
<1>3. \A k \in 1..Len(s)+1 : PlaceAt(u, p, k) = PlaceAt(s, First(t, p), k)
  <2> SUFFICES ASSUME NEW k \in 1..Len(s)+1
               PROVE  PlaceAt(u, p, k) = PlaceAt(s, First(t, p), k)
    OBVIOUS
  <2>1. CASE k \in 1..Len(s)
    BY <1>1, <2>1 DEF PlaceAt
  <2>2. CASE k = Len(s) + 1
    <3>1. PlaceAt(u, p, Len(s) + 1) = PlaceAt(t, p, 1)
      BY <1>1, <1>2
    <3> QED
      BY <1>1, <2>2, <3>1 DEF PlaceAt, First
  <2> QED
    BY <1>1, <2>1, <2>2
<1>4. Follows(u, p)
  <2> SUFFICES ASSUME NEW k \in 1..Len(u)
               PROVE  PlaceAt(u, p, k + 1) \in {0, NextPlace(PlaceAt(u, p, k), u[k].eol)}
    BY DEF Follows
  <2>1. CASE k \in 1..Len(s)
    <3>1. /\ PlaceAt(u, p, k) = PlaceAt(s, First(t, p), k)
          /\ PlaceAt(u, p, k + 1) = PlaceAt(s, First(t, p), k + 1)
          /\ u[k] = s[k]
      BY <1>1, <1>3, <2>1
    <3> QED
      BY <2>1, <3>1 DEF Follows
  <2>2. CASE k \notin 1..Len(s)
    <3>1. PICK l \in 1..Len(t) : k = Len(s) + l
      <4>1. k - Len(s) \in 1..Len(t) /\ k = Len(s) + (k - Len(s))
        BY <1>1, <2>2
      <4> QED
        BY <4>1
    <3>2. /\ PlaceAt(u, p, k) = PlaceAt(t, p, l)
          /\ PlaceAt(u, p, k + 1) = PlaceAt(t, p, l + 1)
          /\ u[k] = t[l]
      BY <1>1, <1>2, <3>1
    <3> QED
      BY <3>2 DEF Follows
  <2> QED
    BY <2>1, <2>2
<1>5. First(u, p) = First(s, First(t, p))
  BY <1>1, <1>3 DEF First
<1> QED
  BY <1>4, <1>5 DEF u

\* What comes next has lost its place.
LEMMA FollowsLost ==
  ASSUME NEW s \in Seq(Byte), NEW p \in Nat, Follows(s, p)
  PROVE  /\ Follows(s, 0)
         /\ First(s, 0) \in {0, First(s, p)}
<1>1. Len(s) \in Nat
  OBVIOUS
<1>2. \A k \in 1..Len(s) : PlaceAt(s, 0, k) = PlaceAt(s, p, k)
  BY <1>1 DEF PlaceAt
<1>3. \A k \in 1..Len(s)+1 : PlaceAt(s, 0, k) \in {0, PlaceAt(s, p, k)}
  BY <1>1 DEF PlaceAt
<1>4. \A k \in 1..Len(s) : PlaceAt(s, 0, k + 1) \in {0, PlaceAt(s, p, k + 1)}
  BY <1>1, <1>3
<1>5. \A k \in 1..Len(s) : PlaceAt(s, 0, k + 1) \in {0, NextPlace(PlaceAt(s, 0, k), s[k].eol)}
  BY <1>2, <1>4 DEF Follows
<1> QED
  BY <1>1, <1>3, <1>5 DEF Follows, First

\* The bytes up to the first end of line lose their places.
LEMMA FollowsTorn ==
  ASSUME NEW s \in Seq(Byte), NEW p \in Nat, Follows(s, p),
         NEW q, q = IF \E k \in DOMAIN s : s[k].eol THEN p ELSE 0
  PROVE  Torn(s) \in Seq(Byte) /\ Follows(Torn(s), q) /\ First(Torn(s), q) = 0
<1> DEFINE t == Torn(s)
           Ended(k) == \E j \in 1..k-1 : s[j].eol
<1>1. Len(s) \in Nat /\ DOMAIN s = 1..Len(s) /\ q \in Nat /\ \A k \in 1..Len(s) : s[k] \in Byte
  BY LenProperties, ElementOfSeq
<1>2. /\ t = [k \in 1..Len(s) |-> t[k]]
      /\ \A k \in 1..Len(s) : t[k] = IF Ended(k) THEN s[k] ELSE [s[k] EXCEPT !.place = 0]
  BY <1>1 DEF Torn
<1> HIDE DEF t
<1>3. ASSUME NEW k \in 1..Len(s)
      PROVE  /\ t[k] \in Byte /\ t[k].eol = s[k].eol
             /\ t[k].place = IF Ended(k) THEN s[k].place ELSE 0
  <2>1. s[k] \in Byte /\ t[k] = IF Ended(k) THEN s[k] ELSE [s[k] EXCEPT !.place = 0]
    BY <1>1, <1>2
  <2> HIDE DEF Ended
  <2>2. s[k].place \in Nat /\ s[k].eol \in BOOLEAN /\ 0 \in Nat
    BY <2>1 DEF Byte
  <2>3. CASE Ended(k)
    BY <2>1, <2>2, <2>3
  <2>4. CASE ~Ended(k)
    <3> DEFINE e == s[k].eol
    <3>1. t[k] = [place |-> 0, eol |-> e]
      BY <2>1, <2>4 DEF Byte
    <3>2. e \in BOOLEAN
      BY <2>2
    <3> HIDE DEF e
    <3>3. t[k] \in Byte /\ t[k].eol = e /\ t[k].place = 0
      BY <2>2, <3>1, <3>2 DEF Byte
    <3> QED
      BY <2>4, <3>3 DEF e
  <2> QED
    BY <2>3, <2>4
<1>4. t \in Seq(Byte) /\ Len(t) = Len(s)
  <2>1. t \in [1..Len(s) -> Byte]
    BY <1>2, <1>3
  <2> QED
    BY <1>1, <2>1, SeqDef, LenProperties
<1>5. ASSUME NEW k \in 1..Len(s)
      PROVE  PlaceAt(t, q, k + 1) \in {0, NextPlace(PlaceAt(t, q, k), t[k].eol)}
  <2>1. PlaceAt(s, p, k) = s[k].place /\ PlaceAt(t, q, k) = t[k].place
    BY <1>1, <1>4 DEF PlaceAt
  <2>2. PlaceAt(s, p, k + 1) \in {0, NextPlace(s[k].place, s[k].eol)}
    BY <2>1 DEF Follows
  <2>3. CASE Ended(k + 1)
    <3>1. PICK j \in 1..k : s[j].eol
      BY <1>1, <2>3
    <3>2. q = p
      BY <1>1, <3>1
    <3>3. PlaceAt(t, q, k + 1) = PlaceAt(s, p, k + 1)
      BY <1>1, <1>3, <1>4, <2>3, <3>2 DEF PlaceAt
    <3>4. CASE s[k].eol
      BY <1>3, <2>1, <2>2, <3>3, <3>4 DEF NextPlace
    <3>5. CASE ~s[k].eol
      <4>1. Ended(k)
        BY <1>1, <3>1, <3>5
      <4>2. t[k].place = s[k].place /\ t[k].eol = s[k].eol
        BY <1>3, <4>1
      <4> QED
        BY <2>1, <2>2, <3>3, <4>2
    <3> QED
      BY <3>4, <3>5
  <2>4. CASE ~Ended(k + 1)
    <3>1. CASE k + 1 <= Len(s)
      BY <1>1, <1>3, <1>4, <2>4, <3>1 DEF PlaceAt
    <3>2. CASE ~(k + 1 <= Len(s))
      <4>1. \A j \in 1..Len(s) : ~s[j].eol
        BY <1>1, <2>4, <3>2
      <4> QED
        BY <1>1, <1>4, <3>2, <4>1 DEF PlaceAt
    <3> QED
      BY <3>1, <3>2
  <2> QED
    BY <2>3, <2>4
<1>6. First(t, q) = 0
  <2>1. CASE 1 <= Len(s)
    <3>1. 1 \in 1..Len(s) /\ ~Ended(1)
      BY <1>1, <2>1
    <3> QED
      BY <1>3, <1>4, <2>1, <3>1 DEF First, PlaceAt
  <2>2. CASE ~(1 <= Len(s))
    <3>1. q = 0
      BY <1>1, <2>2
    <3> QED
      BY <1>4, <2>2, <3>1 DEF First, PlaceAt
  <2> QED
    BY <2>1, <2>2
<1> QED
  BY <1>4, <1>5, <1>6 DEF t, Follows

LEMMA ModUnique ==
  ASSUME NEW a \in Int, NEW b \in Nat \ {0}, NEW q \in Int, NEW r \in 0..b-1,
         a = b * q + r
  PROVE  a % b = r
BY SMT

LEMMA ModOne ==
  ASSUME NEW b \in Nat \ {0, 1}, NEW q \in Nat
  PROVE  (q * b + 1) % b = 1
<1> DEFINE a == q * b + 1
<1>1. a \in Nat /\ a = b * q + 1
  OBVIOUS
<1> HIDE DEF a
<1>2. a % b = 1
  <2>1. a \in Int /\ b \in Nat \ {0} /\ q \in Int /\ 1 \in 0..b-1
    BY <1>1
  <2>2. a = b * q + 1
    BY <1>1
  <2> QED
    BY <2>1, <2>2, ModUnique
<1> QED
  BY <1>2 DEF a

\* A line that is cut out of the beginning of the buffer.
LEMMA FirstLine ==
  ASSUME SerialInv, i < Len(uart_rx_buf), uart_rx_buf[i + 1].eol
  PROVE  Line(SubSeq(uart_rx_buf, 1, i + 1))
<1> DEFINE f == SubSeq(uart_rx_buf, 1, i + 1)
<1>1. i \in Nat /\ i + 1 \in 0..Len(uart_rx_buf) /\ uart_rx_buf \in Seq(Byte)
  BY DEF SerialInv
<1>2. f \in Seq(Byte) /\ Len(f) = i + 1 /\ \A k \in 1..i+1 : f[k] = uart_rx_buf[k]
  BY <1>1
<1> HIDE DEF f
<1>3. f # <<>> /\ f[Len(f)].eol
  BY <1>1, <1>2
<1>4. \A k \in 1..Len(f)-1 : ~f[k].eol
  <2> SUFFICES ASSUME NEW k \in 1..i
               PROVE  ~f[k].eol
    BY <1>1, <1>2
  <2>1. f[k] = uart_rx_buf[k]
    BY <1>1, <1>2
  <2> QED
    BY <2>1 DEF SerialInv, Continues
<1>5. f[1].place = First(uart_rx_buf, First(ring, place))
  BY <1>1, <1>2 DEF First, PlaceAt
<1>6. ASSUME NEW k \in 1..Len(f)-1, f[k].place # 0, f[k + 1].place # 0
      PROVE  f[k + 1].place = f[k].place + 1
  <2> DEFINE past == First(ring, place)
  <2>1. k \in 1..Len(uart_rx_buf) /\ k + 1 <= Len(uart_rx_buf)
    BY <1>1, <1>2
  <2>2. f[k] = uart_rx_buf[k] /\ f[k + 1] = uart_rx_buf[k + 1]
    BY <1>1, <1>2
  <2>3. ~uart_rx_buf[k].eol
    BY <1>4, <2>2
  <2>4. Follows(uart_rx_buf, past)
    BY DEF SerialInv
  <2> HIDE DEF past
  <2>5. uart_rx_buf[k + 1].place \in {0, NextPlace(uart_rx_buf[k].place, uart_rx_buf[k].eol)}
    BY <2>1, <2>4 DEF Follows, PlaceAt
  <2> QED
    BY <1>6, <2>2, <2>3, <2>5 DEF NextPlace
<1>7. f[1].place # 0 => f[1].place % MAX_SERIAL_COMMAND_LEN = 1
  <2> SUFFICES ASSUME f[1].place # 0 PROVE f[1].place % MAX_SERIAL_COMMAND_LEN = 1
    OBVIOUS
  <2>1. PICK q \in Nat : f[1].place = q * MAX_SERIAL_COMMAND_LEN + 1
    BY <1>5 DEF SerialInv, Starts
  <2> QED
    BY <2>1, ModOne, CommandLenAssumption
<1>8. (\A k \in 1..Len(f) : f[k].place # 0) =>
        /\ \A k \in 1..Len(f)-1 : f[k + 1].place = f[k].place + 1
        /\ f[1].place % MAX_SERIAL_COMMAND_LEN = 1
  <2>1. Len(f) \in Nat /\ 1 \in 1..Len(f)
    BY <1>1, <1>2
  <2>2. \A k \in 1..Len(f)-1 : k \in 1..Len(f) /\ k + 1 \in 1..Len(f)
    BY <2>1
  <2> QED
    BY <1>6, <1>7, <2>1, <2>2
<1> QED
  BY <1>2, <1>3, <1>4, <1>8 DEF Line, LineIntact, f

LEMMA UartSteps ==
  ASSUME SerialInv,
         ByteArrives \/ ByteLost \/ IdleLine \/ CommandSent \/ UartRxTask \/ NetReceive \/ SerialLoop
  PROVE  SerialInv'
<1> DEFINE next == First(ring, place)
<1>1. /\ place \in Nat /\ ring \in Seq(Byte) /\ uart_rx_buf \in Seq(Byte)
      /\ feedback_rx_queue \in Seq(Seq(Byte))
      /\ Len(uart_rx_buf) \in Nat /\ Len(ring) \in Nat /\ i \in Nat
  BY DEF SerialInv
<1>2. next \in Nat
  <2>1. PlaceAt(ring, place, 1) \in Nat
    <3>1. 1 \in Nat \ {0}
      OBVIOUS
    <3> QED
      BY <1>1, <3>1, PlaceType
  <2> QED
    BY <2>1 DEF First
<1> HIDE DEF next
\* The first byte of the ring has lost its place, or is the one it was.
<1>9. ASSUME UNCHANGED <<uart_rx_buf, i, feedback_rx_queue>>,
             ring' \in Seq(Byte), place' \in Nat, Follows(ring', place'),
             First(ring', place') \in {0, next}
      PROVE  SerialInv'
  <2> DEFINE now == First(ring', place')
  <2>1. Follows(uart_rx_buf, next) /\ Starts(First(uart_rx_buf, next))
    BY DEF SerialInv, next
  <2>2. Follows(uart_rx_buf, 0) /\ First(uart_rx_buf, 0) \in {0, First(uart_rx_buf, next)}
    BY <1>1, <1>2, <2>1, FollowsLost
  <2>3. Starts(First(uart_rx_buf, 0))
    BY <2>1, <2>2 DEF Starts
  <2>4. now \in {0, next}
    BY <1>9
  <2> HIDE DEF now
  <2>5. Follows(uart_rx_buf, now) /\ Starts(First(uart_rx_buf, now))
    BY <2>1, <2>2, <2>3, <2>4
  <2> QED
    BY <1>9, <2>5 DEF SerialInv, LinesIntact, now
<1>3. CASE ByteArrives
  <2>1. PICK eol \in BOOLEAN :
          LET bytes == Append(ring, [place |-> place, eol |-> eol])
              kept  == Tail(bytes)
          IN  IF Len(ring) < SERIAL_IODEV_UART_RING_BUFFER_LEN
                THEN ring' = bytes /\ place' = NextPlace(place, eol)
                ELSE /\ ring' = Torn(kept)
                     /\ place' = IF \E k \in DOMAIN kept : kept[k].eol
                                   THEN NextPlace(place, eol) ELSE 0
    BY <1>3 DEF ByteArrives
  <2> DEFINE bytes == Append(ring, [place |-> place, eol |-> eol])
             after == NextPlace(place, eol)
  <2>2. /\ bytes \in Seq(Byte) /\ after \in Nat
        /\ Follows(bytes, after) /\ First(bytes, after) = next
        /\ Len(bytes) = Len(ring) + 1
    <3>1. Follows(ring, place)
      BY DEF SerialInv
    <3>2. /\ bytes \in Seq(Byte) /\ after \in Nat
          /\ Follows(bytes, after) /\ First(bytes, after) = First(ring, place)
      BY <1>1, <3>1, FollowsAppend
    <3>3. Len(bytes) = Len(ring) + 1
      BY <1>1
    <3> QED
      BY <3>2, <3>3 DEF next
  <2>3. UNCHANGED <<uart_rx_buf, i, feedback_rx_queue>>
    BY <1>3 DEF ByteArrives
  <2>4. \/ ring' = bytes /\ place' = after
        \/ /\ ring' = Torn(Tail(bytes))
           /\ place' = IF \E k \in DOMAIN Tail(bytes) : Tail(bytes)[k].eol THEN after ELSE 0
    BY <2>1
  <2> HIDE DEF bytes, after
  <2>5. CASE ring' = bytes /\ place' = after
    BY <1>9, <2>2, <2>3, <2>5
  <2>6. CASE /\ ring' = Torn(Tail(bytes))
             /\ place' = IF \E k \in DOMAIN Tail(bytes) : Tail(bytes)[k].eol THEN after ELSE 0
    <3> DEFINE kept == Tail(bytes)
    <3>1. kept \in Seq(Byte) /\ Follows(kept, after)
      <4>1. kept = SubSeq(bytes, 1 + 1, Len(bytes)) /\ 1 \in 0..Len(bytes)
        BY <1>1, <2>2
      <4> HIDE DEF kept
      <4> QED
        BY <2>2, <4>1, FollowsSplit
    <3> HIDE DEF kept
    <3>2. /\ ring' = Torn(kept)
          /\ place' = IF \E k \in DOMAIN kept : kept[k].eol THEN after ELSE 0
      BY <2>6 DEF kept
    <3>3. Torn(kept) \in Seq(Byte) /\ Follows(Torn(kept), place') /\ First(Torn(kept), place') = 0
      BY <2>2, <3>1, <3>2, FollowsTorn
    <3>4. place' \in Nat
      BY <2>2, <3>2
    <3> QED
      BY <1>9, <2>3, <3>2, <3>3, <3>4
  <2> QED
    BY <2>4, <2>5, <2>6
<1>10. CASE ByteLost
  <2>1. place' = 0 /\ UNCHANGED <<ring, uart_rx_buf, i, feedback_rx_queue>>
    BY <1>10 DEF ByteLost
  <2>2. Follows(ring, 0) /\ First(ring, 0) \in {0, next}
    BY <1>1, FollowsLost DEF SerialInv, next
  <2> QED
    BY <1>1, <1>9, <2>1, <2>2
<1>4. CASE IdleLine \/ CommandSent \/ UartTake \/ UartParsed \/ NetReceive
  BY <1>4 DEF IdleLine, CommandSent, UartTake, UartParsed, NetReceive, SerialInv, LinesIntact
<1>5. CASE UartRead
  <2> DEFINE room  == MAX_SERIAL_COMMAND_LEN - Len(uart_rx_buf)
             bytes == IF Len(ring) < room THEN Len(ring) ELSE room
             read  == SubSeq(ring, 1, bytes)
             rest  == SubSeq(ring, bytes + 1, Len(ring))
  <2>1. /\ uart_rx_buf' = uart_rx_buf \o read
        /\ ring' = rest
        /\ UNCHANGED <<place, i, feedback_rx_queue>>
    BY <1>5 DEF UartRead
  <2>2. bytes \in 0..Len(ring) /\ Len(uart_rx_buf) + bytes <= MAX_SERIAL_COMMAND_LEN
    BY <1>1, CommandLenAssumption DEF SerialInv
  <2> HIDE DEF bytes
  <2>3. /\ read \in Seq(Byte) /\ rest \in Seq(Byte) /\ Len(read) = bytes
        /\ Follows(rest, place)
        /\ Follows(read, First(rest, place))
        /\ First(read, First(rest, place)) = next
    BY <1>1, <2>2, FollowsSplit DEF SerialInv, next
  <2> HIDE DEF read, rest
  <2>4. First(rest, place) \in Nat
    BY <1>1, <2>3, PlaceType DEF First
  <2>5. /\ Follows(uart_rx_buf \o read, First(rest, place))
        /\ First(uart_rx_buf \o read, First(rest, place)) = First(uart_rx_buf, next)
    BY <1>1, <2>3, <2>4, FollowsConcat DEF SerialInv, next
  <2>6. /\ uart_rx_buf' \in Seq(Byte)
        /\ Len(uart_rx_buf') = Len(uart_rx_buf) + bytes
        /\ \A k \in 1..Len(uart_rx_buf) : uart_rx_buf'[k] = uart_rx_buf[k]
    BY <1>1, <2>1, <2>3, ConcatBytes
  <2>7. i' \in 0..Len(uart_rx_buf') /\ \A k \in 1..i' : Continues(uart_rx_buf', k)
    <3>1. i \in 0..Len(uart_rx_buf) /\ i' = i
      BY <2>1 DEF SerialInv
    <3>2. ASSUME NEW k \in 1..i
          PROVE  Continues(uart_rx_buf', k)
      <4>1. k \in 1..Len(uart_rx_buf) /\ 1 \in 1..Len(uart_rx_buf)
        BY <1>1, <3>1
      <4>2. uart_rx_buf'[k] = uart_rx_buf[k] /\ uart_rx_buf'[1] = uart_rx_buf[1]
        BY <2>6, <4>1
      <4> QED
        BY <4>2 DEF SerialInv, Continues
    <3>3. i' \in 0..Len(uart_rx_buf')
      BY <1>1, <2>2, <2>6, <3>1
    <3> QED
      BY <3>1, <3>2, <3>3
  <2> QED
    BY <2>1, <2>2, <2>3, <2>5, <2>6, <2>7, <1>1 DEF SerialInv, LinesIntact, next
<1>6. CASE UartLine
  <2> DEFINE line == SubSeq(uart_rx_buf, 1, i + 1)
             rest == SubSeq(uart_rx_buf, i + 2, Len(uart_rx_buf))
  <2>1. /\ i < Len(uart_rx_buf) /\ uart_rx_buf[i + 1].eol
        /\ uart_rx_buf' = rest /\ i' = 0
        /\ UNCHANGED <<place, ring>>
    BY <1>6 DEF UartLine
  <2>2. i + 1 \in 0..Len(uart_rx_buf) /\ i + 1 \in 1..Len(uart_rx_buf) /\ i + 1 + 1 = i + 2
    BY <1>1, <2>1
  <2>3. /\ rest \in Seq(Byte)
        /\ Follows(rest, next)
        /\ First(rest, next) = PlaceAt(uart_rx_buf, next, i + 1 + 1)
    BY <1>1, <1>2, <2>2, FollowsSplit DEF SerialInv, next
  <2>4. First(rest, next) \in {0, 1}
    <3>1. Follows(uart_rx_buf, next)
      BY DEF SerialInv, next
    <3> QED
      BY <2>1, <2>2, <2>3, <3>1 DEF Follows, NextPlace
  <2>5. Starts(First(rest, next))
    <3>1. 1 = 0 * MAX_SERIAL_COMMAND_LEN + 1
      BY CommandLenAssumption
    <3> QED
      BY <2>4, <3>1 DEF Starts
  <2>6. Len(rest) <= MAX_SERIAL_COMMAND_LEN
    <3>1. Len(rest) <= Len(uart_rx_buf)
      BY <1>1, <2>1
    <3> QED
      BY <1>1, <2>3, <3>1, CommandLenAssumption DEF SerialInv
  <2>7. feedback_rx_queue' \in Seq(Seq(Byte)) /\ LinesIntact'
    <3>1. CASE UNCHANGED feedback_rx_queue
      BY <1>1, <3>1 DEF SerialInv, LinesIntact
    <3>2. CASE feedback_rx_queue' = Append(feedback_rx_queue, line)
      <4>1. line \in Seq(Byte) /\ LineIntact(line)
        BY <2>1, FirstLine DEF Line
      <4> HIDE DEF line
      <4>2. LinesIntact
        BY DEF SerialInv
      <4>3. /\ feedback_rx_queue' \in Seq(Seq(Byte))
            /\ \A k \in DOMAIN feedback_rx_queue' :
                 \/ feedback_rx_queue'[k] = line
                 \/ k \in DOMAIN feedback_rx_queue
                      /\ feedback_rx_queue'[k] = feedback_rx_queue[k]
        BY <1>1, <3>2, <4>1
      <4> QED
        BY <4>1, <4>2, <4>3, Zenon DEF LinesIntact
    <3> QED
      BY <1>6, <3>1, <3>2 DEF UartLine
  <2> QED
    BY <1>1, <2>1, <2>3, <2>5, <2>6, <2>7 DEF SerialInv, next
<1>7. CASE UartByte
  <2>1. /\ i < Len(uart_rx_buf) /\ ~uart_rx_buf[i + 1].eol
        /\ UNCHANGED <<place, ring, feedback_rx_queue>>
    BY <1>7 DEF UartByte
  <2>5. i + 1 \in 1..Len(uart_rx_buf) /\ uart_rx_buf[1] \in Byte /\ uart_rx_buf[1].place \in Nat
    <3>1. i + 1 \in 1..Len(uart_rx_buf) /\ 1 \in 1..Len(uart_rx_buf)
      BY <1>1, <2>1
    <3>2. uart_rx_buf[1] \in Byte
      BY <1>1, <3>1
    <3> QED
      BY <3>1, <3>2 DEF Byte
  <2>2. Continues(uart_rx_buf, i + 1)
    <3>1. CASE i = 0
      <4>1. i + 1 = 1 /\ uart_rx_buf[1].place = uart_rx_buf[1].place + 1 - 1
        BY <2>5, <3>1
      <4> QED
        BY <2>1, <4>1 DEF Continues
    <3>2. CASE i # 0
      <4>1. i \in 1..Len(uart_rx_buf) /\ i \in 1..i /\ i + 1 <= Len(uart_rx_buf)
        BY <1>1, <2>1, <3>2
      <4>2. Follows(uart_rx_buf, next)
        BY DEF SerialInv, next
      <4>3. uart_rx_buf[i + 1].place \in {0, NextPlace(uart_rx_buf[i].place, uart_rx_buf[i].eol)}
        BY <4>1, <4>2 DEF Follows, PlaceAt
      <4>4. Continues(uart_rx_buf, i)
        BY <4>1 DEF SerialInv
      <4>5. ASSUME uart_rx_buf[i + 1].place # 0
            PROVE  /\ uart_rx_buf[1].place # 0
                   /\ uart_rx_buf[i + 1].place = uart_rx_buf[1].place + (i + 1) - 1
        <5>1. uart_rx_buf[i].place # 0 /\ uart_rx_buf[i + 1].place = uart_rx_buf[i].place + 1
          BY <4>3, <4>4, <4>5 DEF Continues, NextPlace
        <5>2. uart_rx_buf[1].place # 0 /\ uart_rx_buf[i].place = uart_rx_buf[1].place + i - 1
          BY <4>4, <5>1 DEF Continues
        <5> DEFINE p == uart_rx_buf[1].place
        <5>3. p \in Nat
          BY <2>5
        <5> HIDE DEF p
        <5>4. (p + i - 1) + 1 = p + (i + 1) - 1
          BY <1>1, <5>3
        <5> QED
          BY <5>1, <5>2, <5>4 DEF p
      <4> QED
        BY <2>1, <4>5 DEF Continues
    <3> QED
      BY <3>1, <3>2
  <2>3. CASE i + 1 # MAX_SERIAL_COMMAND_LEN
    <3>1. i' = i + 1 /\ UNCHANGED uart_rx_buf
      BY <1>7, <2>3 DEF UartByte
    <3>2. i' \in 0..Len(uart_rx_buf') /\ \A k \in 1..i' : k \in 1..i \/ k = i + 1
      BY <1>1, <2>1, <3>1
    <3> QED
      BY <1>1, <2>1, <2>2, <3>1, <3>2 DEF SerialInv, LinesIntact
  <2>4. CASE i + 1 = MAX_SERIAL_COMMAND_LEN
    <3>1. i' = 0 /\ uart_rx_buf' = <<>>
      BY <1>7, <2>4 DEF UartByte
    <3>2. Len(uart_rx_buf) = i + 1 /\ i + 1 \in 1..Len(uart_rx_buf)
      BY <1>1, <2>1, <2>4, CommandLenAssumption DEF SerialInv
    <3>3. next \in {0, NextPlace(uart_rx_buf[i + 1].place, FALSE)}
      <4>1. Follows(uart_rx_buf, next)
        BY DEF SerialInv, next
      <4>2. PlaceAt(uart_rx_buf, next, i + 1 + 1)
              \in {0, NextPlace(PlaceAt(uart_rx_buf, next, i + 1), FALSE)}
        <5>1. uart_rx_buf[i + 1] \in Byte
          BY <1>1, <3>2
        <5>2. uart_rx_buf[i + 1].eol = FALSE
          BY <2>1, <5>1 DEF Byte
        <5> QED
          BY <3>2, <4>1, <5>2 DEF Follows
      <4>3. /\ PlaceAt(uart_rx_buf, next, i + 1 + 1) = next
            /\ PlaceAt(uart_rx_buf, next, i + 1) = uart_rx_buf[i + 1].place
        BY <1>1, <3>2 DEF PlaceAt
      <4> QED
        BY <4>2, <4>3
    <3>6. Starts(next)
      <4>1. CASE next = 0
        BY <4>1 DEF Starts
      <4>2. CASE next # 0
        <5>1. uart_rx_buf[i + 1].place # 0 /\ next = uart_rx_buf[i + 1].place + 1
          BY <3>3, <4>2 DEF NextPlace
        <5>2. /\ uart_rx_buf[1].place # 0
              /\ uart_rx_buf[i + 1].place = uart_rx_buf[1].place + (i + 1) - 1
          BY <2>2, <5>1 DEF Continues
        <5>3. uart_rx_buf[1].place = First(uart_rx_buf, next)
          BY <1>1, <3>2 DEF First, PlaceAt
        <5>4. PICK q \in Nat : uart_rx_buf[1].place = q * MAX_SERIAL_COMMAND_LEN + 1
          BY <5>2, <5>3 DEF SerialInv, Starts, next
        <5>5. next = (q + 1) * MAX_SERIAL_COMMAND_LEN + 1
          BY <1>1, <2>4, <5>1, <5>2, <5>4, CommandLenAssumption
        <5> QED
          BY <5>5 DEF Starts
      <4> QED
        BY <4>1, <4>2
    <3>7. First(uart_rx_buf', next) = next
      BY <3>1 DEF First, PlaceAt
    <3>8. /\ Follows(uart_rx_buf', next) /\ uart_rx_buf' \in Seq(Byte)
          /\ Len(uart_rx_buf') = 0
      BY <3>1 DEF Follows
    <3> QED
      BY <1>1, <2>1, <3>1, <3>6, <3>7, <3>8, CommandLenAssumption
      DEF SerialInv, LinesIntact, next
  <2> QED
    BY <2>3, <2>4
<1>8. CASE SerialLoop
  <2>1. UNCHANGED <<place, ring, uart_rx_buf, i>>
    BY <1>8 DEF SerialLoop
  <2>2. feedback_rx_queue' \in Seq(Seq(Byte)) /\ LinesIntact'
    <3>1. LinesIntact
      BY DEF SerialInv
    <3>2. CASE feedback_rx_queue # <<>>
      <4>1. feedback_rx_queue' = Tail(feedback_rx_queue)
        BY <1>8, <3>2 DEF SerialLoop
      <4>2. /\ feedback_rx_queue' \in Seq(Seq(Byte))
            /\ \A k \in DOMAIN feedback_rx_queue' :
                 k + 1 \in DOMAIN feedback_rx_queue
                   /\ feedback_rx_queue'[k] = feedback_rx_queue[k + 1]
        BY <1>1, <3>2, <4>1, HeadTailProperties, LenProperties
      <4> QED
        BY <3>1, <4>2 DEF LinesIntact
    <3>3. CASE feedback_rx_queue = <<>>
      BY <1>1, <1>8, <3>1, <3>3 DEF SerialLoop, LinesIntact
    <3> QED
      BY <3>2, <3>3
  <2> QED
    BY <2>1, <2>2 DEF SerialInv
<1> QED
  BY <1>3, <1>4, <1>5, <1>6, <1>7, <1>8, <1>10 DEF UartRxTask

\* What goes into a frame of feedback is one line and never bytes of two, unless a
\* byte was lost since the end of line before, by the UART or by an overrun of its
\* ring buffer, of any length: however the bytes come in, the task is woken up and
\* the queue overflows.  From a line that does not fit as many bytes are missing as
\* fill the buffer, or twice as many, and so on.
THEOREM LinesAreIntact == Spec => []LinesIntact
<1>1. Init => SerialInv
  <2> SUFFICES ASSUME Init PROVE SerialInv
    OBVIOUS
  <2>1. /\ place = 1 /\ ring = <<>> /\ uart_rx_buf = <<>> /\ i = 0
        /\ feedback_rx_queue = <<>>
    BY DEF Init, SerialInit
  <2>2. First(ring, place) = 1 /\ First(uart_rx_buf, 1) = 1
    BY <2>1 DEF First, PlaceAt
  <2>3. Starts(1)
    <3>1. 1 = 0 * MAX_SERIAL_COMMAND_LEN + 1
      BY CommandLenAssumption
    <3> QED
      BY <3>1 DEF Starts
  <2> QED
    BY <2>1, <2>2, <2>3, CommandLenAssumption DEF SerialInv, Follows, LinesIntact
<1>2. SerialInv /\ [Next]_vars => SerialInv'
  <2> SUFFICES ASSUME SerialInv, [Next]_vars PROVE SerialInv'
    OBVIOUS
  <2>1. CASE UNCHANGED serialVars
    BY <2>1 DEF serialVars, SerialInv, LinesIntact
  <2> QED
    BY <2>1, OtherSteps, UartSteps
<1>3. SerialInv => LinesIntact
  BY DEF SerialInv
<1> QED
  BY <1>1, <1>2, <1>3, PTL DEF Spec

-----------------------------------------------------------------------------
(* The life of an application.  A point of the start is where it may fail: *)
(* what has been acquired before, what the step acquires, and what its     *)
(* failure undoes.  The points of a function follow from those of the      *)
(* functions it calls, up to rtos_apps_tsn_init, for each mode.  What      *)
(* follows from them is what LifeInv says of every phase.                  *)

\* The parts of the program, and what they have.
Owner == {"app", "cyclic", "alarm", "controller", "io_device", "serial"}
Kinds == {"ctx", "task", "thread", "timer", "queue", "rx_sock", "rx_iovec", "tx_sock", "tx_iovec",
          "tx_buffers", "event_queue", "registered", "strategy", "motors", "client",
          "client_thread", "monitoring", "sem", "uart"}
Thing == Owner \X Kinds
StepSet == [get : SUBSET Thing, undo : Seq(Thing), fail : {"abort", "next", "done"}]

\* What a sequence of steps acquires, and what it has when it fails at one of them.
Gets(s) == UNION {s[k].get : k \in DOMAIN s}
Before(s, k) == UNION {s[j].get : j \in 1..k-1}
PointAt(H, G, u, f) == [before |-> H, get |-> G, undo |-> u, fail |-> f]
Point(s, k) == PointAt(Before(s, k), s[k].get, s[k].undo, s[k].fail)
Points(s) == {Point(s, k) : k \in DOMAIN s}
Released(u) == {u[k] : k \in DOMAIN u}
\* Nothing is released twice but what is in X, or nothing at all.
Repeats(u, X) == \A j, k \in DOMAIN u : u[j] = u[k] => j = k \/ u[k] \in X
Once(u) == Repeats(u, {})
\* Nothing of U is released before a is.
Precedes(u, a, U) == \A k \in DOMAIN u : u[k] \in U => \E j \in 1..k-1 : u[j] = a
\* Right after a, b is released.
NextTo(u, a, b) == \A k \in DOMAIN u : u[k] = a => k + 1 \in DOMAIN u /\ u[k + 1] = b

\* Every part may have every kind.
LEMMA ThingType == \A o \in Owner, x \in Kinds : <<o, x>> \in Thing
BY DEF Thing

\* What releases one thing, nothing, or two things, releases these, once.
LEMMA OneThing ==
  ASSUME NEW r \in Thing
  PROVE  <<r>> \in Seq(Thing) /\ Released(<<r>>) = {r} /\ Once(<<r>>)
<1>1. <<r>> \in Seq(Thing) /\ DOMAIN <<r>> = {1} /\ <<r>>[1] = r
  OBVIOUS
<1> DEFINE u == <<r>>
<1> HIDE DEF u
<1>2. DOMAIN u = {1} /\ u[1] = r
  BY <1>1 DEF u
<1>3. Released(u) = {r} /\ Once(u)
  BY <1>2 DEF Released, Once, Repeats
<1> QED
  BY <1>1, <1>3 DEF u

LEMMA NoThing == <<>> \in Seq(Thing) /\ Released(<<>>) = {} /\ Once(<<>>)
BY DEF Released, Once, Repeats

LEMMA TwoThings ==
  ASSUME NEW r \in Thing, NEW q \in Thing, r # q
  PROVE  <<r, q>> \in Seq(Thing) /\ Released(<<r, q>>) = {r, q} /\ Once(<<r, q>>)
<1>1. <<r, q>> \in Seq(Thing) /\ DOMAIN <<r, q>> = {1, 2} /\ <<r, q>>[1] = r /\ <<r, q>>[2] = q
  OBVIOUS
<1> DEFINE u == <<r, q>>
<1> HIDE DEF u
<1>2. DOMAIN u = {1, 2} /\ u[1] = r /\ u[2] = q
  BY <1>1 DEF u
<1>3. Released(u) = {r, q} /\ Once(u)
  BY <1>2 DEF Released, Once, Repeats
<1> QED
  BY <1>1, <1>3 DEF u

\* What one sequence and then another releases.
LEMMA RepeatsConcat ==
  ASSUME NEW u \in Seq(Thing), NEW v \in Seq(Thing), NEW X, Repeats(u, X), Repeats(v, X),
         Released(u) \cap Released(v) \subseteq X
  PROVE  Repeats(u \o v, X)
<1> DEFINE w == u \o v
<1>1. /\ w \in Seq(Thing) /\ DOMAIN w = 1..Len(u) + Len(v)
      /\ \A k \in 1..Len(u) + Len(v) : w[k] = IF k <= Len(u) THEN u[k] ELSE v[k - Len(u)]
  BY ConcatProperties, LenProperties
<1>2. /\ DOMAIN u = 1..Len(u) /\ DOMAIN v = 1..Len(v) /\ Len(u) \in Nat /\ Len(v) \in Nat
  BY LenProperties
<1> HIDE DEF w
<1>3. ASSUME NEW l \in DOMAIN w
      PROVE  /\ l <= Len(u) => l \in DOMAIN u /\ w[l] = u[l] /\ w[l] \in Released(u)
             /\ ~(l <= Len(u)) => /\ l - Len(u) \in DOMAIN v /\ w[l] = v[l - Len(u)]
                                  /\ w[l] \in Released(v)
  <2>1. l <= Len(u) => l \in DOMAIN u /\ w[l] = u[l]
    BY <1>1, <1>2
  <2>2. ~(l <= Len(u)) => l - Len(u) \in DOMAIN v /\ w[l] = v[l - Len(u)]
    BY <1>1, <1>2
  <2> QED
    BY <2>1, <2>2 DEF Released
<1>4. ASSUME NEW j \in DOMAIN w, NEW k \in DOMAIN w, w[j] = w[k], w[k] \notin X
      PROVE  j = k
  <2>1. (j <= Len(u)) <=> (k <= Len(u))
    BY <1>3, <1>4
  <2>2. j \in Int /\ k \in Int
    BY <1>1, <1>2
  <2>3. CASE j <= Len(u)
    BY <1>3, <1>4, <2>1, <2>3 DEF Repeats
  <2>4. CASE ~(j <= Len(u))
    <3>1. j - Len(u) = k - Len(u)
      BY <1>3, <1>4, <2>1, <2>4 DEF Repeats
    <3> QED
      BY <3>1, <2>2, <1>2
  <2> QED
    BY <2>3, <2>4
<1> QED
  BY <1>4 DEF w, Repeats

LEMMA OnceRepeats == \A u, X : Once(u) => Repeats(u, X)
BY DEF Once, Repeats

LEMMA ReleasedConcat ==
  ASSUME NEW u \in Seq(Thing), NEW v \in Seq(Thing)
  PROVE  /\ u \o v \in Seq(Thing)
         /\ Released(u \o v) = Released(u) \cup Released(v)
         /\ Once(u) /\ Once(v) /\ Released(u) \cap Released(v) = {} => Once(u \o v)
<1> DEFINE w == u \o v
<1>1. /\ w \in Seq(Thing) /\ DOMAIN w = 1..Len(u) + Len(v)
      /\ \A k \in 1..Len(u) + Len(v) : w[k] = IF k <= Len(u) THEN u[k] ELSE v[k - Len(u)]
  BY ConcatProperties, LenProperties
<1>2. /\ DOMAIN u = 1..Len(u) /\ DOMAIN v = 1..Len(v) /\ Len(u) \in Nat /\ Len(v) \in Nat
  BY LenProperties
<1> HIDE DEF w
<1>3. Released(w) = Released(u) \cup Released(v)
  <2>1. ASSUME NEW k \in DOMAIN w PROVE w[k] \in Released(u) \cup Released(v)
    <3>1. k <= Len(u) => k \in DOMAIN u
      BY <1>1, <1>2
    <3>2. ~(k <= Len(u)) => k - Len(u) \in DOMAIN v
      BY <1>1, <1>2
    <3> QED
      BY <1>1, <3>1, <3>2 DEF Released
  <2>2. ASSUME NEW k \in DOMAIN u PROVE u[k] \in Released(w)
    <3>1. k \in DOMAIN w /\ w[k] = u[k]
      BY <1>1, <1>2
    <3> QED
      BY <3>1 DEF Released
  <2>3. ASSUME NEW k \in DOMAIN v PROVE v[k] \in Released(w)
    <3>1. k + Len(u) \in DOMAIN w /\ w[k + Len(u)] = v[k]
      BY <1>1, <1>2
    <3> QED
      BY <3>1 DEF Released
  <2> QED
    BY <2>1, <2>2, <2>3 DEF Released
<1>4. ASSUME Once(u), Once(v), Released(u) \cap Released(v) = {} PROVE Once(w)
  <2> DEFINE X == {}
  <2>1. Repeats(u, X) /\ Repeats(v, X) /\ Released(u) \cap Released(v) \subseteq X
    BY <1>4 DEF Once
  <2> HIDE DEF X
  <2>2. Repeats(w, X)
    BY <2>1, RepeatsConcat DEF w
  <2> QED
    BY <2>2 DEF Once, X
<1> QED
  BY <1>1, <1>3, <1>4 DEF w

\* The first sequence keeps the order, and has a, or the second keeps it, too.
LEMMA PrecedesConcat ==
  ASSUME NEW u \in Seq(Thing), NEW v \in Seq(Thing), NEW a, NEW U,
         Precedes(u, a, U),
         a \in Released(u) \/ Precedes(v, a, U)
  PROVE  Precedes(u \o v, a, U)
<1> DEFINE w == u \o v
<1>1. /\ w \in Seq(Thing) /\ DOMAIN w = 1..Len(u) + Len(v)
      /\ \A k \in 1..Len(u) + Len(v) : w[k] = IF k <= Len(u) THEN u[k] ELSE v[k - Len(u)]
  BY ConcatProperties, LenProperties
<1>2. /\ DOMAIN u = 1..Len(u) /\ DOMAIN v = 1..Len(v) /\ Len(u) \in Nat /\ Len(v) \in Nat
  BY LenProperties
<1> HIDE DEF w
<1>3. ASSUME NEW k \in DOMAIN w, w[k] \in U PROVE \E j \in 1..k-1 : w[j] = a
  <2>1. CASE k <= Len(u)
    <3>1. k \in DOMAIN u /\ w[k] = u[k]
      BY <1>1, <1>2, <2>1
    <3>2. PICK j \in 1..k-1 : u[j] = a
      BY <3>1, <1>3 DEF Precedes
    <3>3. w[j] = u[j]
      BY <1>1, <1>2, <2>1
    <3> QED
      BY <3>2, <3>3
  <2>2. CASE ~(k <= Len(u)) /\ a \in Released(u)
    <3>1. PICK j \in 1..Len(u) : u[j] = a
      BY <1>2, <2>2 DEF Released
    <3>2. w[j] = u[j] /\ j \in 1..k-1
      BY <1>1, <1>2, <2>2
    <3> QED
      BY <3>1, <3>2
  <2>3. CASE ~(k <= Len(u)) /\ Precedes(v, a, U)
    <3>1. k - Len(u) \in DOMAIN v /\ w[k] = v[k - Len(u)]
      BY <1>1, <1>2, <2>3
    <3>2. PICK j \in 1..k-Len(u)-1 : v[j] = a
      BY <3>1, <1>3, <2>3 DEF Precedes
    <3>3. w[j + Len(u)] = v[j] /\ j + Len(u) \in 1..k-1
      <4>1. k \in 1..Len(u) + Len(v) /\ k \in Nat
        BY <1>1, <1>2
      <4>2. /\ j + Len(u) \in 1..k-1 /\ ~(j + Len(u) <= Len(u)) /\ j + Len(u) - Len(u) = j
            /\ j + Len(u) \in 1..Len(u) + Len(v)
        BY <1>2, <3>2, <4>1
      <4> QED
        BY <1>1, <4>2
    <3> QED
      BY <3>2, <3>3
  <2> QED
    BY <2>1, <2>2, <2>3
<1> QED
  BY <1>3 DEF w, Precedes

\* The order is kept where nothing of U is released, and where a comes first.
LEMMA PrecedesOthers ==
  ASSUME NEW u, NEW a, NEW U, Released(u) \cap U = {}
  PROVE  Precedes(u, a, U)
BY DEF Precedes, Released

LEMMA PrecedesFirst ==
  ASSUME NEW r \in Thing, NEW v \in Seq(Thing), NEW U, r \notin U
  PROVE  Precedes(<<r>> \o v, r, U)
<1>1. Precedes(<<r>>, r, U)
  BY OneThing, PrecedesOthers
<1> QED
  BY <1>1, OneThing, PrecedesConcat

\* What follows at once does so, too, in sequences one after the other.
LEMMA NextToConcat ==
  ASSUME NEW u \in Seq(Thing), NEW v \in Seq(Thing), NEW a, NEW b, NextTo(u, a, b), NextTo(v, a, b)
  PROVE  NextTo(u \o v, a, b)
<1> DEFINE w == u \o v
<1>1. /\ w \in Seq(Thing) /\ DOMAIN w = 1..Len(u) + Len(v)
      /\ \A k \in 1..Len(u) + Len(v) : w[k] = IF k <= Len(u) THEN u[k] ELSE v[k - Len(u)]
  BY ConcatProperties, LenProperties
<1>2. /\ DOMAIN u = 1..Len(u) /\ DOMAIN v = 1..Len(v) /\ Len(u) \in Nat /\ Len(v) \in Nat
  BY LenProperties
<1> HIDE DEF w
<1>3. ASSUME NEW k \in DOMAIN w, w[k] = a PROVE k + 1 \in DOMAIN w /\ w[k + 1] = b
  <2>1. CASE k <= Len(u)
    <3>1. k \in DOMAIN u /\ u[k] = a
      BY <1>1, <1>2, <1>3, <2>1
    <3>2. k + 1 \in DOMAIN u /\ u[k + 1] = b
      BY <3>1 DEF NextTo
    <3> QED
      BY <3>2, <1>1, <1>2
  <2>2. CASE ~(k <= Len(u))
    <3> DEFINE l == k - Len(u)
    <3>1. l \in DOMAIN v /\ v[l] = a /\ k = l + Len(u) /\ l \in Nat
      BY <1>1, <1>2, <1>3, <2>2
    <3> HIDE DEF l
    <3>2. l + 1 \in DOMAIN v /\ v[l + 1] = b
      BY <3>1 DEF NextTo
    <3>3. l + 1 \in 1..Len(v)
      BY <1>2, <3>2
    <3>4. /\ k + 1 \in 1..Len(u) + Len(v) /\ ~(k + 1 <= Len(u)) /\ k + 1 - Len(u) = l + 1
      BY <1>2, <3>1, <3>3
    <3> QED
      BY <3>2, <3>4, <1>1
  <2> QED
    BY <2>1, <2>2
<1> QED
  BY <1>3 DEF w, NextTo

LEMMA NextToOthers == \A u, a, b : a \notin Released(u) => NextTo(u, a, b)
BY DEF NextTo, Released

LEMMA NextToPair ==
  ASSUME NEW a \in Thing, NEW b \in Thing, a # b
  PROVE  NextTo(<<a>> \o <<b>>, a, b)
<1> DEFINE u == <<a>>  v == <<b>>  w == u \o v
<1>1. /\ u \in Seq(Thing) /\ Len(u) = 1 /\ u[1] = a
      /\ v \in Seq(Thing) /\ Len(v) = 1 /\ v[1] = b
  OBVIOUS
<1> HIDE DEF u, v
<1>2. /\ DOMAIN w = 1..Len(u) + Len(v)
      /\ \A k \in 1..Len(u) + Len(v) : w[k] = IF k <= Len(u) THEN u[k] ELSE v[k - Len(u)]
  BY <1>1, ConcatProperties, LenProperties
<1> HIDE DEF w
<1>3. DOMAIN w = 1..2 /\ w[1] = a /\ w[2] = b
  BY <1>1, <1>2
<1>4. \A k \in DOMAIN w : k = 1 \/ k = 2
  BY <1>3
<1>5. NextTo(w, a, b)
  BY <1>3, <1>4 DEF NextTo
<1> QED
  BY <1>5 DEF w, u, v

-----------------------------------------------------------------------------
(* Steps, and where they may fail                                          *)

\* The points of steps that follow others: the others have been taken before.
LEMMA StepsConcat ==
  ASSUME NEW s \in Seq(StepSet), NEW t \in Seq(StepSet)
  PROVE  /\ s \o t \in Seq(StepSet)
         /\ Gets(s \o t) = Gets(s) \cup Gets(t)
         /\ \A p \in Points(s \o t) :
              p \in Points(s) \/ \E q \in Points(t) :
                                   p = PointAt(Gets(s) \cup q.before, q.get, q.undo, q.fail)
<1> DEFINE w == s \o t
<1>1. /\ w \in Seq(StepSet) /\ DOMAIN w = 1..Len(s) + Len(t)
      /\ \A k \in 1..Len(s) + Len(t) : w[k] = IF k <= Len(s) THEN s[k] ELSE t[k - Len(s)]
  BY ConcatProperties, LenProperties
<1>2. /\ DOMAIN s = 1..Len(s) /\ DOMAIN t = 1..Len(t) /\ Len(s) \in Nat /\ Len(t) \in Nat
  BY LenProperties
<1> HIDE DEF w
<1>3. ASSUME NEW k \in DOMAIN s
      PROVE  k \in DOMAIN w /\ w[k] = s[k]
  BY <1>1, <1>2
<1>4. ASSUME NEW k \in DOMAIN t
      PROVE  k + Len(s) \in DOMAIN w /\ w[k + Len(s)] = t[k]
  <2>1. /\ k + Len(s) \in 1..Len(s) + Len(t) /\ ~(k + Len(s) <= Len(s)) /\ k + Len(s) - Len(s) = k
    BY <1>2
  <2> QED
    BY <1>1, <2>1
<1>5. ASSUME NEW k \in DOMAIN w
      PROVE  k \in DOMAIN s \/ \E l \in DOMAIN t : k = l + Len(s)
  <2>1. k \in Nat /\ (k <= Len(s) => k \in DOMAIN s)
    BY <1>1, <1>2
  <2>2. ~(k <= Len(s)) => k - Len(s) \in DOMAIN t /\ k = (k - Len(s)) + Len(s)
    BY <1>1, <1>2
  <2> QED
    BY <2>1, <2>2
<1>6. Gets(w) = Gets(s) \cup Gets(t)
  <2>1. ASSUME NEW k \in DOMAIN w PROVE w[k].get \subseteq Gets(s) \cup Gets(t)
    BY <1>3, <1>4, <1>5 DEF Gets
  <2>2. ASSUME NEW k \in DOMAIN s PROVE s[k].get \subseteq Gets(w)
    BY <1>3 DEF Gets
  <2>3. ASSUME NEW k \in DOMAIN t PROVE t[k].get \subseteq Gets(w)
    BY <1>4 DEF Gets
  <2>4. Gets(w) \subseteq Gets(s) \cup Gets(t)
    BY <2>1 DEF Gets
  <2>5. Gets(s) \subseteq Gets(w)
    BY <2>2 DEF Gets
  <2>6. Gets(t) \subseteq Gets(w)
    BY <2>3 DEF Gets
  <2> QED
    BY <2>4, <2>5, <2>6
<1>7. ASSUME NEW k \in DOMAIN s PROVE Before(w, k) = Before(s, k)
  <2>1. \A j \in 1..k-1 : j \in DOMAIN s
    BY <1>2
  <2>2. \A j \in 1..k-1 : w[j] = s[j]
    BY <2>1, <1>3
  <2> QED
    BY <2>2 DEF Before
<1>8. ASSUME NEW k \in DOMAIN t PROVE Before(w, k + Len(s)) = Gets(s) \cup Before(t, k)
  <2>1. ASSUME NEW j \in 1..(k + Len(s))-1
        PROVE  w[j].get \subseteq Gets(s) \cup Before(t, k)
    <3>1. CASE j <= Len(s)
      <4>1. j \in DOMAIN s
        BY <3>1, <1>2
      <4> QED
        BY <4>1, <1>3 DEF Gets
    <3>2. CASE ~(j <= Len(s))
      <4>1. j - Len(s) \in 1..k-1 /\ j - Len(s) \in DOMAIN t /\ (j - Len(s)) + Len(s) = j
        BY <3>2, <1>2
      <4>2. w[j] = t[j - Len(s)]
        BY <4>1, <1>4
      <4> QED
        BY <4>1, <4>2 DEF Before
    <3> QED
      BY <3>1, <3>2
  <2>2. ASSUME NEW j \in DOMAIN s PROVE s[j].get \subseteq Before(w, k + Len(s))
    <3>1. j \in 1..(k + Len(s))-1
      BY <1>2
    <3> QED
      BY <3>1, <1>3 DEF Before
  <2>3. ASSUME NEW j \in 1..k-1 PROVE t[j].get \subseteq Before(w, k + Len(s))
    <3>1. j + Len(s) \in 1..(k + Len(s))-1 /\ j \in DOMAIN t
      BY <1>2
    <3> QED
      BY <3>1, <1>4 DEF Before
  <2>4. Before(w, k + Len(s)) \subseteq Gets(s) \cup Before(t, k)
    BY <2>1 DEF Before
  <2>5. Gets(s) \subseteq Before(w, k + Len(s))
    BY <2>2 DEF Gets
  <2>6. Before(t, k) \subseteq Before(w, k + Len(s))
    BY <2>3 DEF Before
  <2> QED
    BY <2>4, <2>5, <2>6
<1>9. ASSUME NEW k \in DOMAIN s PROVE Point(w, k) = Point(s, k)
  BY <1>3, <1>7 DEF Point
<1>10. ASSUME NEW k \in DOMAIN t
       PROVE  LET p == Point(t, k) IN
              Point(w, k + Len(s)) = PointAt(Gets(s) \cup p.before, p.get, p.undo, p.fail)
  BY <1>4, <1>8 DEF Point, PointAt
<1>11. ASSUME NEW p \in Points(w)
       PROVE  p \in Points(s) \/ \E q \in Points(t) :
                p = PointAt(Gets(s) \cup q.before, q.get, q.undo, q.fail)
  <2>1. PICK k \in DOMAIN w : p = Point(w, k)
    BY DEF Points
  <2>2. CASE k \in DOMAIN s
    BY <2>1, <2>2, <1>9 DEF Points
  <2>3. ASSUME NEW l \in DOMAIN t, k = l + Len(s)
        PROVE  \E q \in Points(t) : p = PointAt(Gets(s) \cup q.before, q.get, q.undo, q.fail)
    <3>1. Point(t, l) \in Points(t)
      BY DEF Points
    <3> QED
      BY <2>1, <2>3, <3>1, <1>10
  <2> QED
    BY <2>2, <2>3, <1>5
<1> QED
  BY <1>1, <1>6, <1>11 DEF w

\* No step, one, or two.
LEMMA NoStep == <<>> \in Seq(StepSet) /\ Gets(<<>>) = {} /\ Points(<<>>) = {}
BY DEF Gets, Points

LEMMA OneStep ==
  ASSUME NEW x \in StepSet
  PROVE  /\ <<x>> \in Seq(StepSet)
         /\ Gets(<<x>>) = x.get
         /\ \A p \in Points(<<x>>) : p = PointAt({}, x.get, x.undo, x.fail)
<1> DEFINE s == <<x>>
<1>1. s \in Seq(StepSet) /\ DOMAIN s = {1} /\ s[1] = x
  OBVIOUS
<1> HIDE DEF s
<1>2. Gets(s) = x.get
  BY <1>1 DEF Gets
<1>3. Before(s, 1) = {}
  BY DEF Before
<1>4. Points(s) = {Point(s, 1)}
  BY <1>1 DEF Points
<1>5. Point(s, 1) = PointAt({}, x.get, x.undo, x.fail)
  BY <1>1, <1>3 DEF Point
<1> QED
  BY <1>1, <1>2, <1>4, <1>5 DEF s

LEMMA TwoSteps ==
  ASSUME NEW x \in StepSet, NEW y \in StepSet
  PROVE  <<x, y>> = <<x>> \o <<y>>
<1>1. <<x>> \in Seq(StepSet) /\ <<y>> \in Seq(StepSet) /\ <<x, y>> \in Seq(StepSet)
  OBVIOUS
<1>2. Len(<<x>>) = 1 /\ Len(<<y>>) = 1 /\ Len(<<x, y>>) = 2 /\ <<x>>[1] = x /\ <<y>>[1] = y
      /\ <<x, y>>[1] = x /\ <<x, y>>[2] = y
  OBVIOUS
<1> DEFINE s == <<x>>  t == <<y>>  w == <<x, y>>
<1> HIDE DEF s, t, w
<1>3. s \in Seq(StepSet) /\ t \in Seq(StepSet) /\ w \in Seq(StepSet) 
      /\ Len(s) = 1 /\ Len(t) = 1 /\ Len(w) = 2 /\ s[1] = x /\ t[1] = y /\ w[1] = x /\ w[2] = y
  BY <1>1, <1>2 DEF s, t, w
<1>4. /\ s \o t \in Seq(StepSet) /\ Len(s \o t) = 2 
      /\ \A k \in 1..2 : (s \o t)[k] = IF k <= 1 THEN s[k] ELSE t[k - 1]
  <2>1. /\ s \o t \in Seq(StepSet) /\ Len(s \o t) = Len(s) + Len(t)
        /\ \A k \in 1..Len(s) + Len(t) :
             (s \o t)[k] = IF k <= Len(s) THEN s[k] ELSE t[k - Len(s)]
    BY <1>3, ConcatProperties
  <2>2. Len(s) = 1 /\ Len(s) + Len(t) = 2
    BY <1>3
  <2> QED
    BY <2>1, <2>2
<1>5. \A k \in 1..Len(w) : w[k] = (s \o t)[k]
  <2>1. (s \o t)[1] = s[1]
    BY <1>4
  <2>2. (s \o t)[2] = t[1]
    BY <1>4
  <2>3. \A k \in 1..2 : k = 1 \/ k = 2
    OBVIOUS
  <2>4. w[1] = (s \o t)[1] /\ w[2] = (s \o t)[2] /\ Len(w) = 2
    BY <1>3, <2>1, <2>2
  <2> QED
    BY <2>3, <2>4
<1>6. w = s \o t
  <2>1. Len(w) = Len(s \o t)
    BY <1>3, <1>4
  <2> QED
    BY <1>3, <1>4, <1>5, <2>1, SeqEqual
<1> QED
  BY <1>6 DEF s, t, w

\* Inside adds the end of the caller to what a step undoes.
LEMMA StepsInside ==
  ASSUME NEW s \in Seq(StepSet), NEW u \in Seq(Thing)
  PROVE  /\ Inside(s, u) \in Seq(StepSet)
         /\ Gets(Inside(s, u)) = Gets(s)
         /\ \A p \in Points(Inside(s, u)) : \E q \in Points(s) :
              p = PointAt(q.before, q.get, IF q.fail = "abort" THEN q.undo \o u ELSE q.undo, q.fail)
<1> DEFINE w == Inside(s, u)
<1>1. DOMAIN s = 1..Len(s) /\ Len(s) \in Nat /\ \A k \in DOMAIN s : s[k] \in StepSet
  BY LenProperties, ElementOfSeq
<1>2. /\ DOMAIN w = DOMAIN s
      /\ \A k \in DOMAIN s :
           w[k] = IF s[k].fail = "abort" THEN [s[k] EXCEPT !.undo = @ \o u] ELSE s[k]
  BY DEF Inside
<1>9. w = [k \in DOMAIN s |-> w[k]]
  BY DEF Inside
<1> HIDE DEF w
<1>3. ASSUME NEW k \in DOMAIN s
      PROVE  /\ w[k] \in StepSet /\ w[k].get = s[k].get /\ w[k].fail = s[k].fail
             /\ w[k].undo = IF s[k].fail = "abort" THEN s[k].undo \o u ELSE s[k].undo
  <2>1. s[k].undo \o u \in Seq(Thing)
    BY <1>1, ReleasedConcat DEF StepSet
  <2>2. s[k] \in StepSet /\ w[k] = IF s[k].fail = "abort" THEN [s[k] EXCEPT !.undo = s[k].undo \o u] ELSE s[k]
    BY <1>1, <1>2
  <2> QED
    BY <2>1, <2>2 DEF StepSet
<1>4. w \in Seq(StepSet)
  <2>1. w \in [1..Len(s) -> StepSet]
    BY <1>1, <1>3, <1>9
  <2> QED
    BY <1>1, <2>1, SeqDef
<1>5. Gets(w) = Gets(s)
  BY <1>2, <1>3 DEF Gets
<1>6. ASSUME NEW k \in DOMAIN s PROVE Before(w, k) = Before(s, k)
  <2>1. \A j \in 1..k-1 : j \in DOMAIN s
    BY <1>1
  <2> QED
    BY <2>1, <1>3 DEF Before
<1>7. ASSUME NEW k \in DOMAIN s
      PROVE  LET p == Point(s, k) IN
             Point(w, k) = PointAt(p.before, p.get, IF p.fail = "abort" THEN p.undo \o u ELSE p.undo, p.fail)
  BY <1>3, <1>6 DEF Point, PointAt
<1>8. ASSUME NEW p \in Points(w)
      PROVE  \E q \in Points(s) :
               p = PointAt(q.before, q.get, IF q.fail = "abort" THEN q.undo \o u ELSE q.undo, q.fail)
  <2>1. PICK k \in DOMAIN s : p = Point(w, k)
    BY <1>2 DEF Points
  <2>2. Point(s, k) \in Points(s)
    BY DEF Points
  <2> QED
    BY <2>1, <2>2, <1>7
<1> QED
  BY <1>4, <1>5, <1>8 DEF w

\* Ignored changes how the start goes on, and nothing else.
LEMMA StepsIgnored ==
  ASSUME NEW s \in Seq(StepSet), NEW f \in {"next", "done"}
  PROVE  /\ Ignored(s, f) \in Seq(StepSet)
         /\ Gets(Ignored(s, f)) = Gets(s)
         /\ \A p \in Points(Ignored(s, f)) : \E q \in Points(s) :
              p = PointAt(q.before, q.get, q.undo, f)
         /\ Len(Ignored(s, f)) = Len(s)
<1> DEFINE w == Ignored(s, f)
<1>1. DOMAIN s = 1..Len(s) /\ Len(s) \in Nat /\ \A k \in DOMAIN s : s[k] \in StepSet
  BY LenProperties, ElementOfSeq
<1>2. DOMAIN w = DOMAIN s /\ \A k \in DOMAIN s : w[k] = [s[k] EXCEPT !.fail = f]
  BY DEF Ignored
<1>9. w = [k \in DOMAIN s |-> w[k]]
  BY DEF Ignored
<1> HIDE DEF w
<1>3. ASSUME NEW k \in DOMAIN s
      PROVE  w[k] \in StepSet /\ w[k].get = s[k].get /\ w[k].fail = f /\ w[k].undo = s[k].undo
  BY <1>1, <1>2 DEF StepSet
<1>4. w \in Seq(StepSet) /\ Len(w) = Len(s)
  <2>1. w \in [1..Len(s) -> StepSet]
    BY <1>1, <1>3, <1>9
  <2>2. w \in Seq(StepSet)
    BY <1>1, <2>1, SeqDef
  <2> QED
    BY <1>1, <1>2, <2>2, LenProperties
<1>5. Gets(w) = Gets(s)
  BY <1>2, <1>3 DEF Gets
<1>6. ASSUME NEW k \in DOMAIN s PROVE Before(w, k) = Before(s, k)
  <2>1. \A j \in 1..k-1 : j \in DOMAIN s
    BY <1>1
  <2> QED
    BY <2>1, <1>3 DEF Before
<1>7. ASSUME NEW k \in DOMAIN s
      PROVE  LET p == Point(s, k) IN Point(w, k) = PointAt(p.before, p.get, p.undo, f)
  BY <1>3, <1>6 DEF Point, PointAt
<1>8. ASSUME NEW p \in Points(w)
      PROVE  \E q \in Points(s) : p = PointAt(q.before, q.get, q.undo, f)
  <2>1. PICK k \in DOMAIN s : p = Point(w, k)
    BY <1>2 DEF Points
  <2>2. Point(s, k) \in Points(s)
    BY DEF Points
  <2> QED
    BY <2>1, <2>2, <1>7
<1> QED
  BY <1>4, <1>5, <1>8 DEF w

\* What a point says.
LEMMA PointFields ==
  \A H, G, u, f : /\ PointAt(H, G, u, f).before = H /\ PointAt(H, G, u, f).get = G
                  /\ PointAt(H, G, u, f).undo = u /\ PointAt(H, G, u, f).fail = f
BY DEF PointAt

\* What a step finds and acquires is of its sequence.
LEMMA PointType ==
  ASSUME NEW s \in Seq(StepSet)
  PROVE  /\ Gets(s) \subseteq Thing
         /\ \A p \in Points(s) :
              /\ p.before \subseteq Gets(s) /\ p.get \subseteq Gets(s) /\ p.undo \in Seq(Thing)
              /\ p = PointAt(p.before, p.get, p.undo, p.fail)
<1>1. DOMAIN s = 1..Len(s) /\ Len(s) \in Nat /\ \A k \in DOMAIN s : s[k] \in StepSet
  BY LenProperties, ElementOfSeq
<1>2. Gets(s) \subseteq Thing
  BY <1>1 DEF Gets, StepSet
<1>3. ASSUME NEW k \in DOMAIN s
      PROVE  /\ Before(s, k) \subseteq Gets(s) /\ s[k].get \subseteq Gets(s)
             /\ s[k].undo \in Seq(Thing)
  <2>1. \A j \in 1..k-1 : j \in DOMAIN s
    BY <1>1
  <2>2. Before(s, k) \subseteq Gets(s)
    BY <2>1 DEF Before, Gets
  <2> QED
    BY <1>1, <2>2 DEF Gets, StepSet
<1> QED
  BY <1>2, <1>3 DEF Points, Point, PointAt

\* A step that acquires one thing.
LEMMA GetType ==
  ASSUME NEW r \in Thing, NEW u \in Seq(Thing)
  PROVE  /\ Get(r, u) \in StepSet
         /\ Get(r, u).get = {r} /\ Get(r, u).undo = u /\ Get(r, u).fail = "abort"
BY DEF Get, StepSet

\* One or two steps of this kind.
LEMMA GetOne ==
  ASSUME NEW r \in Thing, NEW u \in Seq(Thing)
  PROVE  /\ <<Get(r, u)>> \in Seq(StepSet)
         /\ Gets(<<Get(r, u)>>) = {r}
         /\ \A p \in Points(<<Get(r, u)>>) : p = PointAt({}, {r}, u, "abort")
<1> DEFINE x == Get(r, u)
<1>1. x \in StepSet /\ x.get = {r} /\ x.undo = u /\ x.fail = "abort"
  BY GetType
<1> HIDE DEF x
<1>2. /\ <<x>> \in Seq(StepSet) /\ Gets(<<x>>) = x.get
      /\ \A p \in Points(<<x>>) : p = PointAt({}, x.get, x.undo, x.fail)
  BY <1>1, OneStep
<1> QED
  BY <1>1, <1>2 DEF x

\* Two, or four, steps that acquire one thing each: with a name of its own the sequence stays
\* closed in the proofs that only cite what the lemmas say of it, Taken2 and Taken4.
InTurn2(r, u, q, v) == <<Get(r, u), Get(q, v)>>
InTurn4(r1, u1, r2, u2, r3, u3, r4, u4) ==
  <<Get(r1, u1), Get(r2, u2), Get(r3, u3), Get(r4, u4)>>

Taken2(w, r, u, q, v) ==
  /\ w \in Seq(StepSet)
  /\ Gets(w) = {r, q}
  /\ \A p \in Points(w) : p = PointAt({}, {r}, u, "abort") \/ p = PointAt({r}, {q}, v, "abort")

Taken4(w, r1, u1, r2, u2, r3, u3, r4, u4) ==
  /\ w \in Seq(StepSet)
  /\ Gets(w) = {r1, r2, r3, r4}
  /\ \A p \in Points(w) :
       /\ p.fail = "abort"
       /\ \/ p.before = {} /\ p.get = {r1} /\ p.undo = u1
          \/ p.before = {r1} /\ p.get = {r2} /\ p.undo = u2
          \/ p.before = {r1, r2} /\ p.get = {r3} /\ p.undo = u3
          \/ p.before = {r1, r2, r3} /\ p.get = {r4} /\ p.undo = u4

LEMMA GetTwo ==
  ASSUME NEW r \in Thing, NEW u \in Seq(Thing), NEW q \in Thing, NEW v \in Seq(Thing)
  PROVE  Taken2(InTurn2(r, u, q, v), r, u, q, v)
<1> DEFINE s == <<Get(r, u)>>  t == <<Get(q, v)>>
<1>1. /\ s \in Seq(StepSet) /\ Gets(s) = {r} /\ \A p \in Points(s) : p = PointAt({}, {r}, u, "abort")
      /\ t \in Seq(StepSet) /\ Gets(t) = {q} /\ \A p \in Points(t) : p = PointAt({}, {q}, v, "abort")
  BY GetOne
<1>2. InTurn2(r, u, q, v) = s \o t
  BY GetType, TwoSteps DEF InTurn2
<1> HIDE DEF s, t
<1>3. /\ s \o t \in Seq(StepSet) /\ Gets(s \o t) = Gets(s) \cup Gets(t)
      /\ \A p \in Points(s \o t) :
           p \in Points(s) \/ \E x \in Points(t) :
                                p = PointAt(Gets(s) \cup x.before, x.get, x.undo, x.fail)
  BY <1>1, StepsConcat
<1>4. \A p \in Points(s \o t) :
        p = PointAt({}, {r}, u, "abort") \/ p = PointAt({r}, {q}, v, "abort")
  <2>1. {r} \cup {} = {r}
    OBVIOUS
  <2>2. ASSUME NEW p, NEW x \in Points(t), p = PointAt({r} \cup x.before, x.get, x.undo, x.fail)
        PROVE  p = PointAt({r}, {q}, v, "abort")
    <3>1. x.before = {} /\ x.get = {q} /\ x.undo = v /\ x.fail = "abort"
      BY <1>1, PointFields
    <3> QED
      BY <2>1, <2>2, <3>1
  <2> QED
    BY <1>1, <1>3, <2>2
<1> QED
  BY <1>1, <1>2, <1>3, <1>4 DEF Taken2

Own(o, names) == {<<o, x>> : x \in names}
NetNames(rx, tx) ==
  (IF rx THEN {"rx_sock", "rx_iovec"} ELSE {}) \cup (IF tx THEN {"tx_sock", "tx_iovec"} ELSE {})
Unfreed(zero_copy) == IF zero_copy THEN {"tx_buffers", "tx_sock", "tx_iovec"} ELSE {}

Undoable(p) == Once(p.undo) /\ Released(p.undo) \subseteq p.before

\* tsn_task_net_exit releases the sockets and their vectors, each once.
LEMMA NetExitReleases ==
  ASSUME NEW o \in Owner, NEW rx \in BOOLEAN, NEW tx \in BOOLEAN
  PROVE  LET u == NetExit(o, rx, tx) IN
         /\ u \in Seq(Thing) /\ Once(u)
         /\ Released(u) = Own(o, NetNames(rx, tx))
<1> DEFINE a == <<o, "rx_iovec">>  b == <<o, "rx_sock">>  c == <<o, "tx_iovec">>  d == <<o, "tx_sock">>
<1>1. /\ a \in Thing /\ b \in Thing /\ c \in Thing /\ d \in Thing
      /\ a # b /\ a # c /\ a # d /\ b # c /\ b # d /\ c # d
  BY ThingType DEF Kinds
<1>2. Own(o, NetNames(rx, tx)) = (IF rx THEN {a, b} ELSE {}) \cup (IF tx THEN {c, d} ELSE {})
  BY DEF Own, NetNames
<1> DEFINE u == When(rx, <<a, b>>)  v == When(tx, <<c, d>>)
<1>3. NetExit(o, rx, tx) = u \o v
  BY DEF NetExit
<1> HIDE DEF a, b, c, d
<1>4. u \in Seq(Thing) /\ Once(u) /\ Released(u) = IF rx THEN {a, b} ELSE {}
  BY <1>1, TwoThings, NoThing DEF When
<1>5. v \in Seq(Thing) /\ Once(v) /\ Released(v) = IF tx THEN {c, d} ELSE {}
  BY <1>1, TwoThings, NoThing DEF When
<1> HIDE DEF u, v
<1>6. Released(u) \cap Released(v) = {}
  BY <1>1, <1>4, <1>5
<1> QED
  BY <1>2, <1>3, <1>4, <1>5, <1>6, ReleasedConcat

\* A failure of tsn_task_net_init leaves nothing but what a zero copy socket cannot free.
LEMMA NetInitPoints ==
  ASSUME NEW o \in Owner, NEW rx \in BOOLEAN, NEW tx \in BOOLEAN, NEW zero_copy \in BOOLEAN
  PROVE  LET s == NetInit(o, rx, tx, zero_copy) IN
         /\ s \in Seq(StepSet)
         /\ Gets(s) = Own(o, NetNames(rx, tx) \cup IF tx /\ zero_copy THEN {"tx_buffers"} ELSE {})
         /\ \A p \in Points(s) :
              /\ p.fail = "abort" /\ p.get # {} /\ Undoable(p)
              /\ p.before \ Released(p.undo) \subseteq Own(o, Unfreed(zero_copy))
<1> DEFINE a == <<o, "rx_sock">>  b == <<o, "rx_iovec">>  c == <<o, "tx_sock">>
           d == <<o, "tx_iovec">>  e == <<o, "tx_buffers">>
<1>1. /\ a \in Thing /\ b \in Thing /\ c \in Thing /\ d \in Thing /\ e \in Thing
  BY ThingType DEF Kinds
<1>0. a # b /\ a # c /\ a # d /\ b # c /\ b # d /\ c # d
  OBVIOUS
<1>2. /\ Own(o, NetNames(rx, tx) \cup IF tx /\ zero_copy THEN {"tx_buffers"} ELSE {})
           = (IF rx THEN {a, b} ELSE {}) \cup (IF tx THEN {c, d} ELSE {})
               \cup IF tx /\ zero_copy THEN {e} ELSE {}
      /\ Own(o, Unfreed(zero_copy)) = IF zero_copy THEN {c, d, e} ELSE {}
      /\ Own(o, NetNames(rx, FALSE)) = IF rx THEN {a, b} ELSE {}
  BY DEF Own, NetNames, Unfreed
<1> DEFINE x == NetExit(o, rx, FALSE)
           none == <<>>  ua == <<a>>  uc == <<c>>
           s == When(rx, InTurn2(a, none, b, ua))
           y == InTurn2(c, none, d, uc)
           z == When(zero_copy, <<Get(e, none)>>)
           t == When(tx, y \o z)
<1>3. NetInit(o, rx, tx, zero_copy) = s \o Inside(t, x)
  BY DEF NetInit, InTurn2
<1>4. x \in Seq(Thing) /\ Once(x) /\ Released(x) = IF rx THEN {a, b} ELSE {}
  BY <1>2, NetExitReleases
<1>16. none \in Seq(Thing) /\ ua \in Seq(Thing) /\ uc \in Seq(Thing)
  BY <1>1, NoThing, OneThing
<1>5. /\ Released(none) = {} /\ Released(ua) = {a} /\ Released(uc) = {c}
      /\ Once(none) /\ Once(ua) /\ Once(uc)
  BY <1>1, NoThing, OneThing
<1> HIDE DEF a, b, c, d, e, x, none, ua, uc
<1>6. /\ s \in Seq(StepSet) /\ Gets(s) = IF rx THEN {a, b} ELSE {}
      /\ \A p \in Points(s) :
           p = PointAt({}, {a}, none, "abort") \/ p = PointAt({a}, {b}, ua, "abort")
  <2> DEFINE g == InTurn2(a, none, b, ua)
  <2>1. /\ g \in Seq(StepSet) /\ Gets(g) = {a, b}
        /\ \A p \in Points(g) :
             p = PointAt({}, {a}, none, "abort") \/ p = PointAt({a}, {b}, ua, "abort")
    <3>1. Taken2(g, a, none, b, ua)
      BY <1>1, <1>16, GetTwo
    <3> HIDE DEF g
    <3> QED
      BY <3>1 DEF Taken2
  <2> HIDE DEF g
  <2>2. s = IF rx THEN g ELSE <<>>
    BY DEF When, g
  <2> HIDE DEF s
  <2> QED
    BY <2>1, <2>2, NoStep
<1>7. /\ y \in Seq(StepSet) /\ Gets(y) = {c, d}
      /\ \A p \in Points(y) :
           p = PointAt({}, {c}, none, "abort") \/ p = PointAt({c}, {d}, uc, "abort")
  <2>1. Taken2(y, c, none, d, uc)
    BY <1>1, <1>16, GetTwo
  <2> HIDE DEF y
  <2> QED
    BY <2>1 DEF Taken2
<1>8. /\ z \in Seq(StepSet) /\ Gets(z) = IF zero_copy THEN {e} ELSE {}
      /\ \A p \in Points(z) : zero_copy /\ p = PointAt({}, {e}, none, "abort")
  <2> DEFINE g == <<Get(e, none)>>
  <2>1. g \in Seq(StepSet) /\ Gets(g) = {e} /\ \A p \in Points(g) : p = PointAt({}, {e}, none, "abort")
    BY <1>1, <1>16, GetOne
  <2> HIDE DEF g
  <2>2. z = IF zero_copy THEN g ELSE <<>>
    BY DEF When, g
  <2> HIDE DEF z
  <2> QED
    BY <2>1, <2>2, NoStep
<1> HIDE DEF s, y, z
<1>9. /\ y \o z \in Seq(StepSet) /\ Gets(y \o z) = Gets(y) \cup Gets(z)
      /\ \A p \in Points(y \o z) :
           p \in Points(y) \/ \E q \in Points(z) :
                                p = PointAt(Gets(y) \cup q.before, q.get, q.undo, q.fail)
  BY <1>7, <1>8, StepsConcat
<1>10. /\ t \in Seq(StepSet)
       /\ Gets(t) = (IF tx THEN {c, d} ELSE {}) \cup IF tx /\ zero_copy THEN {e} ELSE {}
       /\ \A p \in Points(t) :
           \/ p = PointAt({}, {c}, none, "abort") \/ p = PointAt({c}, {d}, uc, "abort")
           \/ zero_copy /\ p = PointAt({c, d}, {e}, none, "abort")
  <2>1. \A p \in Points(y \o z) :
           \/ p = PointAt({}, {c}, none, "abort") \/ p = PointAt({c}, {d}, uc, "abort")
           \/ zero_copy /\ p = PointAt({c, d}, {e}, none, "abort")
    <3>1. {c, d} \cup {} = {c, d}
      OBVIOUS
    <3>2. ASSUME NEW p, NEW q \in Points(z), p = PointAt(Gets(y) \cup q.before, q.get, q.undo, q.fail)
          PROVE  zero_copy /\ p = PointAt({c, d}, {e}, none, "abort")
      <4>1. zero_copy /\ q.before = {} /\ q.get = {e} /\ q.undo = none /\ q.fail = "abort"
        BY <1>8, PointFields
      <4> QED
        BY <1>7, <3>1, <3>2, <4>1
    <3> QED
      BY <1>7, <1>9, <3>2
  <2>2. t = IF tx THEN y \o z ELSE <<>>
    BY DEF When
  <2> HIDE DEF t
  <2> QED
    BY <1>7, <1>8, <1>9, <2>1, <2>2, NoStep
<1> HIDE DEF t
<1>11. /\ Inside(t, x) \in Seq(StepSet) /\ Gets(Inside(t, x)) = Gets(t)
       /\ \A p \in Points(Inside(t, x)) : \E q \in Points(t) :
            p = PointAt(q.before, q.get, IF q.fail = "abort" THEN q.undo \o x ELSE q.undo, q.fail)
  BY <1>4, <1>10, StepsInside
<1> DEFINE nx == none \o x  cx == uc \o x
<1>12. /\ Once(nx) /\ Released(nx) = Released(x)
       /\ Once(cx) /\ Released(cx) = {c} \cup Released(x)
  <2>1. c \notin Released(x)
    BY <1>0, <1>4
  <2>2. Released(none) \cap Released(x) = {} /\ Released(uc) \cap Released(x) = {}
    BY <2>1, <1>5
  <2> QED
    BY <2>2, <1>4, <1>5, <1>16, ReleasedConcat
<1> HIDE DEF nx, cx
<1>13. ASSUME NEW p \in Points(Inside(t, x))
       PROVE  \/ p = PointAt({}, {c}, nx, "abort")
              \/ p = PointAt({c}, {d}, cx, "abort")
              \/ zero_copy /\ p = PointAt({c, d}, {e}, nx, "abort")
  <2>1. PICK q \in Points(t) :
          p = PointAt(q.before, q.get, IF q.fail = "abort" THEN q.undo \o x ELSE q.undo, q.fail)
    BY <1>11
  <2>2. q.fail = "abort"
    BY <1>10, PointFields
  <2>3. p = PointAt(q.before, q.get, q.undo \o x, "abort")
    BY <2>1, <2>2
  <2>4. \/ q.before = {} /\ q.get = {c} /\ q.undo = none
        \/ q.before = {c} /\ q.get = {d} /\ q.undo = uc
        \/ zero_copy /\ q.before = {c, d} /\ q.get = {e} /\ q.undo = none
    BY <1>10, PointFields
  <2> QED
    BY <2>3, <2>4 DEF nx, cx
<1>14. /\ s \o Inside(t, x) \in Seq(StepSet)
       /\ Gets(s \o Inside(t, x)) = Gets(s) \cup Gets(t)
       /\ \A p \in Points(s \o Inside(t, x)) :
            p \in Points(s) \/ \E q \in Points(Inside(t, x)) :
                                 p = PointAt(Gets(s) \cup q.before, q.get, q.undo, q.fail)
  <2> DEFINE v == Inside(t, x)
  <2>1. s \in Seq(StepSet) /\ v \in Seq(StepSet)
    BY <1>6, <1>11
  <2> HIDE DEF v
  <2>2. /\ s \o v \in Seq(StepSet) /\ Gets(s \o v) = Gets(s) \cup Gets(v)
        /\ \A p \in Points(s \o v) :
             p \in Points(s) \/ \E q \in Points(v) :
                                  p = PointAt(Gets(s) \cup q.before, q.get, q.undo, q.fail)
    BY <2>1, StepsConcat
  <2>3. Gets(v) = Gets(t)
    BY <1>11 DEF v
  <2> QED
    BY <2>2, <2>3 DEF v
<1>15. ASSUME NEW p \in Points(s \o Inside(t, x))
       PROVE  /\ p.fail = "abort" /\ p.get # {} /\ Undoable(p)
              /\ p.before \ Released(p.undo) \subseteq IF zero_copy THEN {c, d, e} ELSE {}
  <2>1. CASE p \in Points(s)
    <3>1. p = PointAt({}, {a}, none, "abort") \/ p = PointAt({a}, {b}, ua, "abort")
      BY <1>6, <2>1
    <3>2. /\ p.fail = "abort"
          /\ \/ p.before = {} /\ p.get = {a} /\ p.undo = none
             \/ p.before = {a} /\ p.get = {b} /\ p.undo = ua
      BY <3>1, PointFields
    <3> QED
      BY <3>2, <1>5 DEF Undoable
  <2>2. CASE p = PointAt(Gets(s), {c}, nx, "abort")
    <3> DEFINE H == Gets(s)
    <3>1. p = PointAt(H, {c}, nx, "abort")
      BY <2>2
    <3> HIDE DEF H
    <3>2. p.fail = "abort" /\ p.before = H /\ p.get = {c} /\ p.undo = nx
      BY <3>1, PointFields
    <3> QED
      BY <3>2, <1>4, <1>6, <1>12 DEF Undoable, H
  <2>3. CASE p = PointAt(Gets(s) \cup {c}, {d}, cx, "abort")
    <3> DEFINE H == Gets(s) \cup {c}
    <3>1. p = PointAt(H, {d}, cx, "abort")
      BY <2>3
    <3> HIDE DEF H
    <3>2. p.fail = "abort" /\ p.before = H /\ p.get = {d} /\ p.undo = cx
      BY <3>1, PointFields
    <3> QED
      BY <3>2, <1>4, <1>6, <1>12 DEF Undoable, H
  <2>4. CASE zero_copy /\ p = PointAt(Gets(s) \cup {c, d}, {e}, nx, "abort")
    <3> DEFINE H == Gets(s) \cup {c, d}
    <3>1. p = PointAt(H, {e}, nx, "abort")
      BY <2>4
    <3> HIDE DEF H
    <3>2. p.fail = "abort" /\ p.before = H /\ p.get = {e} /\ p.undo = nx
      BY <3>1, PointFields
    <3> QED
      BY <3>2, <2>4, <1>4, <1>6, <1>12 DEF Undoable, H
  <2>5. ASSUME NEW q \in Points(Inside(t, x)), p = PointAt(Gets(s) \cup q.before, q.get, q.undo, q.fail)
        PROVE  \/ p = PointAt(Gets(s), {c}, nx, "abort")
               \/ p = PointAt(Gets(s) \cup {c}, {d}, cx, "abort")
               \/ zero_copy /\ p = PointAt(Gets(s) \cup {c, d}, {e}, nx, "abort")
    <3>1. Gets(s) \cup {} = Gets(s)
      OBVIOUS
    <3>2. /\ q.fail = "abort"
          /\ \/ q.before = {} /\ q.get = {c} /\ q.undo = nx
             \/ q.before = {c} /\ q.get = {d} /\ q.undo = cx
             \/ zero_copy /\ q.before = {c, d} /\ q.get = {e} /\ q.undo = nx
      <4>1. \/ q = PointAt({}, {c}, nx, "abort")
            \/ q = PointAt({c}, {d}, cx, "abort")
            \/ zero_copy /\ q = PointAt({c, d}, {e}, nx, "abort")
        BY <1>13
      <4> QED
        BY <4>1, PointFields
    <3> QED
      BY <2>5, <3>1, <3>2
  <2> QED
    BY <2>1, <2>2, <2>3, <2>4, <2>5, <1>14
<1> QED
  BY <1>2, <1>3, <1>6, <1>10, <1>14, <1>15

\* The step of q after others that have acquired H, ending with u if it fails.
NestedIn(p, H, q, u) == p = PointAt(H \cup q.before, q.get, q.undo \o u, "abort")

Aborts(s) == \A p \in Points(s) : p.fail = "abort"

\* The first that is released is r.
StartsWith(u, r) == \E v \in Seq(Thing) : u = <<r>> \o v

LEMMA StartsHead ==
  ASSUME NEW r \in Thing, NEW u, StartsWith(u, r)
  PROVE  u # <<>> /\ Head(u) = r
<1>1. PICK v \in Seq(Thing) : u = <<r>> \o v
  BY DEF StartsWith
<1> DEFINE one == <<r>>
<1>2. one \in Seq(Thing) /\ Len(one) = 1 /\ one[1] = r
  OBVIOUS
<1>3. u = one \o v
  BY <1>1
<1> HIDE DEF one
<1>4. u \in Seq(Thing) /\ Len(u) = 1 + Len(v) /\ u[1] = r
  <2>1. one \o v \in Seq(Thing) /\ Len(one \o v) = Len(one) + Len(v) /\ Len(v) \in Nat
    BY <1>2, ConcatProperties, LenProperties
  <2>2. (one \o v)[1] = one[1]
    BY <1>2, <2>1, ConcatProperties
  <2> QED
    BY <1>2, <1>3, <2>1, <2>2
<1>5. u # <<>>
  BY <1>4, EmptySeq, LenProperties
<1> QED
  BY <1>4, <1>5

LEMMA StartsConcat ==
  ASSUME NEW r \in Thing, NEW u \in Seq(Thing), NEW v \in Seq(Thing), StartsWith(u, r)
  PROVE  StartsWith(u \o v, r)
<1>1. PICK w \in Seq(Thing) : u = <<r>> \o w
  BY DEF StartsWith
<1>2. <<r>> \in Seq(Thing)
  BY OneThing
<1>3. u \o v = <<r>> \o (w \o v) /\ w \o v \in Seq(Thing)
  BY <1>1, <1>2, ConcatAssociative, ConcatProperties
<1> QED
  BY <1>3 DEF StartsWith

\* Steps that follow others and end with u if they fail.
LEMMA Nested ==
  ASSUME NEW s \in Seq(StepSet), NEW t \in Seq(StepSet), NEW u \in Seq(Thing), Aborts(t)
  PROVE  /\ s \o Inside(t, u) \in Seq(StepSet)
         /\ Gets(s \o Inside(t, u)) = Gets(s) \cup Gets(t)
         /\ \A p \in Points(s \o Inside(t, u)) :
              p \in Points(s) \/ \E q \in Points(t) :
                                   NestedIn(p, Gets(s), q, u)
<1> DEFINE w == Inside(t, u)
<1>1. /\ w \in Seq(StepSet) /\ Gets(w) = Gets(t)
      /\ \A p \in Points(w) : \E q \in Points(t) :
           p = PointAt(q.before, q.get, IF q.fail = "abort" THEN q.undo \o u ELSE q.undo, q.fail)
  BY StepsInside
<1> HIDE DEF w
<1>2. /\ s \o w \in Seq(StepSet) /\ Gets(s \o w) = Gets(s) \cup Gets(t)
      /\ \A p \in Points(s \o w) :
           p \in Points(s) \/ \E q \in Points(w) :
                                p = PointAt(Gets(s) \cup q.before, q.get, q.undo, q.fail)
  BY <1>1, StepsConcat
<1>3. ASSUME NEW p, NEW x \in Points(w), p = PointAt(Gets(s) \cup x.before, x.get, x.undo, x.fail)
      PROVE  \E q \in Points(t) :
               NestedIn(p, Gets(s), q, u)
  <2>1. PICK q \in Points(t) :
          x = PointAt(q.before, q.get, IF q.fail = "abort" THEN q.undo \o u ELSE q.undo, q.fail)
    BY <1>1
  <2>2. q.fail = "abort"
    BY DEF Aborts
  <2> DEFINE y == q.undo \o u
  <2>4. x = PointAt(q.before, q.get, y, "abort")
    BY <2>1, <2>2
  <2> HIDE DEF y
  <2>5. x.before = q.before /\ x.get = q.get /\ x.undo = y /\ x.fail = "abort"
    BY <2>4, PointFields
  <2>3. x.before = q.before /\ x.get = q.get /\ x.undo = q.undo \o u /\ x.fail = "abort"
    BY <2>5 DEF y
  <2> QED
    BY <1>3, <2>3 DEF NestedIn
<1> QED
  BY <1>2, <1>3 DEF w

\* The fields of such a step, and that it undoes only what is there.
LEMMA NestedFields ==
  ASSUME NEW H, NEW q, NEW u, NEW p, NestedIn(p, H, q, u)
  PROVE  p.before = H \cup q.before /\ p.get = q.get /\ p.undo = q.undo \o u /\ p.fail = "abort"
<1> DEFINE w == q.undo \o u  G == H \cup q.before
<1>1. p = PointAt(G, q.get, w, "abort")
  BY DEF NestedIn
<1> HIDE DEF w, G
<1>2. p.before = G /\ p.get = q.get /\ p.undo = w /\ p.fail = "abort"
  BY <1>1, PointFields
<1> QED
  BY <1>2 DEF w, G

LEMMA NestedPoint ==
  ASSUME NEW H, NEW q, NEW u \in Seq(Thing), NEW p,
         q.undo \in Seq(Thing), Undoable(q), Once(u), Released(u) \cap q.before = {},
         Released(u) \subseteq H,
         NestedIn(p, H, q, u)
  PROVE  /\ p.before = H \cup q.before /\ p.get = q.get /\ p.undo = q.undo \o u /\ p.fail = "abort"
         /\ Undoable(p) /\ Released(q.undo) \cup Released(u) = Released(p.undo)
<1>1. p.before = H \cup q.before /\ p.get = q.get /\ p.undo = q.undo \o u /\ p.fail = "abort"
  BY NestedFields
<1>2. Released(q.undo) \subseteq q.before /\ Once(q.undo)
  BY DEF Undoable
<1>3. Released(q.undo) \cap Released(u) = {}
  BY <1>2
<1>4. Once(q.undo \o u) /\ Released(q.undo \o u) = Released(q.undo) \cup Released(u)
  BY <1>2, <1>3, ReleasedConcat
<1> QED
  BY <1>1, <1>2, <1>4 DEF Undoable

\* A step, and steps that undo it in the end if they fail.
LEMMA Layer ==
  ASSUME NEW r \in Thing, NEW t \in Seq(StepSet), r \notin Gets(t), \A q \in Points(t) : Undoable(q)
  PROVE  LET w == <<Get(r, <<>>)>> \o Inside(t, <<r>>) IN
         /\ w \in Seq(StepSet) /\ Gets(w) = {r} \cup Gets(t)
         /\ Aborts(t) => Aborts(w)
         /\ \A p \in Points(w) :
              /\ Undoable(p)
              /\ \/ p.before = {} /\ p.get = {r} /\ p.undo = <<>> /\ p.fail = "abort"
                 \/ \E q \in Points(t) :
                      /\ p.before = {r} \cup q.before /\ p.get = q.get /\ p.fail = q.fail
                      /\ p.undo = IF q.fail = "abort" THEN q.undo \o <<r>> ELSE q.undo
                      /\ q.fail = "abort" => Released(q.undo) \cup {r} = Released(p.undo)
<1> DEFINE none == <<>>  u == <<r>>  f == <<Get(r, none)>>  g == Inside(t, u)
<1>1. none \in Seq(Thing) /\ u \in Seq(Thing)
  BY NoThing, OneThing
<1>2. Released(none) = {} /\ Released(u) = {r} /\ Once(none) /\ Once(u)
  BY NoThing, OneThing
<1> HIDE DEF none, u
<1>3. f \in Seq(StepSet) /\ Gets(f) = {r} /\ \A p \in Points(f) : p = PointAt({}, {r}, none, "abort")
  BY <1>1, GetOne
<1>4. /\ g \in Seq(StepSet) /\ Gets(g) = Gets(t)
      /\ \A p \in Points(g) : \E q \in Points(t) :
           p = PointAt(q.before, q.get, IF q.fail = "abort" THEN q.undo \o u ELSE q.undo, q.fail)
  BY <1>1, StepsInside
<1> HIDE DEF f, g
<1> DEFINE w == f \o g
<1>5. /\ w \in Seq(StepSet) /\ Gets(w) = Gets(f) \cup Gets(g)
      /\ \A p \in Points(w) :
           p \in Points(f) \/ \E x \in Points(g) :
                                p = PointAt(Gets(f) \cup x.before, x.get, x.undo, x.fail)
  BY <1>3, <1>4, StepsConcat
<1> HIDE DEF w
<1>6. ASSUME NEW p \in Points(f)
      PROVE  p.before = {} /\ p.get = {r} /\ p.undo = none /\ p.fail = "abort" /\ Undoable(p)
  <2>1. p.before = {} /\ p.get = {r} /\ p.undo = none /\ p.fail = "abort"
    BY <1>3, PointFields
  <2> QED
    BY <2>1, <1>2 DEF Undoable
<1>7. ASSUME NEW p, NEW x \in Points(g), p = PointAt(Gets(f) \cup x.before, x.get, x.undo, x.fail)
      PROVE  \E q \in Points(t) :
               /\ Undoable(p)
               /\ p.before = {r} \cup q.before /\ p.get = q.get /\ p.fail = q.fail
               /\ p.undo = IF q.fail = "abort" THEN q.undo \o u ELSE q.undo
               /\ q.fail = "abort" => Released(q.undo) \cup {r} = Released(p.undo)
  <2>1. PICK q \in Points(t) :
          x = PointAt(q.before, q.get, IF q.fail = "abort" THEN q.undo \o u ELSE q.undo, q.fail)
    BY <1>4
  <2> DEFINE y == IF q.fail = "abort" THEN q.undo \o u ELSE q.undo
             H == Gets(f) \cup x.before
  <2>2. x = PointAt(q.before, q.get, y, q.fail) /\ p = PointAt(H, x.get, x.undo, x.fail)
    BY <2>1, <1>7
  <2> HIDE DEF y, H
  <2>3. /\ x.before = q.before /\ x.get = q.get /\ x.undo = y /\ x.fail = q.fail
        /\ p.before = H /\ p.get = x.get /\ p.undo = x.undo /\ p.fail = x.fail
    BY <2>2, PointFields
  <2>4. H = {r} \cup q.before
    BY <2>3, <1>3 DEF H
  <2>5. q.before \subseteq Gets(t) /\ q.undo \in Seq(Thing)
    BY PointType
  <2>6. Once(q.undo) /\ Released(q.undo) \subseteq q.before
    BY DEF Undoable
  <2>7. Released(q.undo) \cap Released(u) = {}
    BY <1>2, <2>5, <2>6
  <2>8. Once(q.undo \o u) /\ Released(q.undo \o u) = Released(q.undo) \cup Released(u)
    <3>1. Released(q.undo \o u) = Released(q.undo) \cup Released(u)
      BY <2>5, <1>1, ReleasedConcat
    <3>2. Once(q.undo \o u)
      BY <2>5, <2>6, <2>7, <1>1, <1>2, ReleasedConcat
    <3> QED
      BY <3>1, <3>2
  <2>9. Once(y) /\ Released(y) \subseteq {r} \cup q.before
    BY <2>6, <2>8, <1>2 DEF y
  <2>10. Undoable(p)
    BY <2>3, <2>4, <2>9 DEF Undoable
  <2>11. q.fail = "abort" => Released(q.undo) \cup {r} = Released(p.undo)
    BY <2>3, <2>8, <1>2 DEF y
  <2> QED
    BY <2>3, <2>4, <2>10, <2>11 DEF y
<1>8. ASSUME NEW p \in Points(w)
      PROVE  /\ Undoable(p)
             /\ \/ p.before = {} /\ p.get = {r} /\ p.undo = none /\ p.fail = "abort"
                \/ \E q \in Points(t) :
                     /\ p.before = {r} \cup q.before /\ p.get = q.get /\ p.fail = q.fail
                     /\ p.undo = IF q.fail = "abort" THEN q.undo \o u ELSE q.undo
                     /\ q.fail = "abort" => Released(q.undo) \cup {r} = Released(p.undo)
  BY <1>5, <1>6, <1>7
<1>9. Aborts(t) => Aborts(w)
  BY <1>8 DEF Aborts
<1>10. Gets(w) = {r} \cup Gets(t)
  BY <1>3, <1>4, <1>5
<1> QED
  BY <1>5, <1>8, <1>9, <1>10 DEF w, f, g, none, u

\* A failure of tsn_task_register undoes what it has, the thread first if it is running, and
\* the thread is only started with the sockets of the task.
Registers(s, o, rx, tx, zero_copy, timer) ==
  /\ s \in Seq(StepSet) /\ Aborts(s)
  /\ Gets(s) = Own(o, {"task", "thread"} \cup NetNames(rx, tx)
                        \cup (IF tx /\ zero_copy THEN {"tx_buffers"} ELSE {})
                        \cup IF timer THEN {"timer"} ELSE {})
  /\ \A p \in Points(s) :
       /\ p.get # {} /\ Undoable(p)
       /\ p.before \ Released(p.undo) \subseteq Own(o, Unfreed(zero_copy))
       /\ <<o, "thread">> \in p.get => Own(o, {"task"} \cup NetNames(rx, tx)) \subseteq p.before
       /\ <<o, "timer">> \in p.get => <<o, "task">> \in p.before
       /\ <<o, "thread">> \in p.before => timer /\ StartsWith(p.undo, <<o, "thread">>)
       /\ <<o, "timer">> \notin p.before

LEMMA TaskRegisterPoints ==
  ASSUME NEW o \in Owner, NEW rx \in BOOLEAN, NEW tx \in BOOLEAN, NEW zero_copy \in BOOLEAN,
         NEW timer \in BOOLEAN
  PROVE  Registers(TaskRegister(o, rx, tx, zero_copy, timer), o, rx, tx, zero_copy, timer)
<1> DEFINE a == <<o, "task">>  b == <<o, "thread">>  c == <<o, "timer">>
           S == NetNames(rx, tx) \cup IF tx /\ zero_copy THEN {"tx_buffers"} ELSE {}
           M == Own(o, S)
           L == Own(o, Unfreed(zero_copy))
           X == Own(o, NetNames(rx, tx))
<1>1. a \in Thing /\ b \in Thing /\ c \in Thing
  BY ThingType DEF Kinds
<1>2. a # b /\ a # c /\ b # c
  OBVIOUS
<1>3. a \notin M /\ b \notin M /\ c \notin M
  BY DEF Own, NetNames
<1>4. /\ X \subseteq M
      /\ M \ X \subseteq L
      /\ Own(o, {"task"} \cup NetNames(rx, tx)) = {a} \cup X
      /\ Own(o, {"task", "thread"} \cup NetNames(rx, tx)
                    \cup (IF tx /\ zero_copy THEN {"tx_buffers"} ELSE {})
                    \cup IF timer THEN {"timer"} ELSE {})
           = M \cup {a, b} \cup IF timer THEN {c} ELSE {}
  BY DEF Own, NetNames, Unfreed
<1> DEFINE none == <<>>  ua == <<a>>  ub == <<b>>
           x == NetExit(o, rx, tx)
           N == NetInit(o, rx, tx, zero_copy)
           f == <<Get(a, none)>>
           g == <<Get(b, none)>>
           h == When(timer, <<Get(c, ub)>>)
<1>5. TaskRegister(o, rx, tx, zero_copy, timer) = f \o Inside(N \o Inside(g \o h, x), ua)
  BY DEF TaskRegister
<1>6. x \in Seq(Thing) /\ Once(x) /\ Released(x) = X
  BY NetExitReleases
<1>7. /\ N \in Seq(StepSet) /\ Aborts(N) /\ Gets(N) = M
      /\ \A p \in Points(N) : /\ p.get # {} /\ Undoable(p)
                              /\ p.before \ Released(p.undo) \subseteq L
  <2>1. N \in Seq(StepSet) /\ Gets(N) = M
    BY NetInitPoints
  <2>2. \A p \in Points(N) : /\ p.fail = "abort" /\ p.get # {} /\ Undoable(p)
                             /\ p.before \ Released(p.undo) \subseteq L
    BY NetInitPoints
  <2> HIDE DEF N, L, M
  <2> QED
    BY <2>1, <2>2 DEF Aborts
<1>8. none \in Seq(Thing) /\ ua \in Seq(Thing) /\ ub \in Seq(Thing)
  BY <1>1, NoThing, OneThing
<1>9. /\ Released(none) = {} /\ Released(ua) = {a} /\ Released(ub) = {b}
      /\ Once(none) /\ Once(ua) /\ Once(ub)
  BY <1>1, NoThing, OneThing
<1>10. ub \o x \in Seq(Thing) /\ StartsWith(ub \o x, b)
  BY <1>6, <1>8, ConcatProperties DEF StartsWith
<1> HIDE DEF a, b, c, S, M, L, X, none, ua, ub, x, N
<1>11. f \in Seq(StepSet) /\ Gets(f) = {a} /\ \A p \in Points(f) : p = PointAt({}, {a}, none, "abort")
  BY <1>1, <1>8, GetOne
<1>12. g \in Seq(StepSet) /\ Gets(g) = {b} /\ \A p \in Points(g) : p = PointAt({}, {b}, none, "abort")
  BY <1>1, <1>8, GetOne
<1>13. /\ h \in Seq(StepSet) /\ Gets(h) = IF timer THEN {c} ELSE {}
       /\ \A p \in Points(h) : timer /\ p = PointAt({}, {c}, ub, "abort")
  <2> DEFINE k == <<Get(c, ub)>>
  <2>1. k \in Seq(StepSet) /\ Gets(k) = {c} /\ \A p \in Points(k) : p = PointAt({}, {c}, ub, "abort")
    <3> HIDE DEF f, g, h
    <3> QED
      BY <1>1, <1>8, GetOne
  <2> HIDE DEF k
  <2>2. h = IF timer THEN k ELSE <<>>
    BY DEF When, k
  <2> HIDE DEF h
  <2> QED
    BY <2>1, <2>2, NoStep
<1> HIDE DEF f, g, h
<1> DEFINE T == g \o h
<1>14. /\ T \in Seq(StepSet) /\ Gets(T) = {b} \cup IF timer THEN {c} ELSE {}
       /\ \A p \in Points(T) :
            /\ p.fail = "abort"
            /\ \/ p.before = {} /\ p.get = {b} /\ p.undo = none
               \/ timer /\ p.before = {b} /\ p.get = {c} /\ p.undo = ub
  <2>1. /\ T \in Seq(StepSet) /\ Gets(T) = Gets(g) \cup Gets(h)
        /\ \A p \in Points(T) :
           p \in Points(g) \/ \E q \in Points(h) :
                                p = PointAt(Gets(g) \cup q.before, q.get, q.undo, q.fail)
    BY <1>12, <1>13, StepsConcat
  <2> HIDE DEF T
  <2>2. ASSUME NEW p \in Points(g)
        PROVE  p.fail = "abort" /\ p.before = {} /\ p.get = {b} /\ p.undo = none
    BY <1>12, PointFields
  <2>3. ASSUME NEW p, NEW q \in Points(h), p = PointAt(Gets(g) \cup q.before, q.get, q.undo, q.fail)
        PROVE  p.fail = "abort" /\ timer /\ p.before = {b} /\ p.get = {c} /\ p.undo = ub
    <3>1. timer /\ q.before = {} /\ q.get = {c} /\ q.undo = ub /\ q.fail = "abort"
      BY <1>13, PointFields
    <3>2. Gets(g) \cup q.before = {b}
      BY <3>1, <1>12
    <3> QED
      BY <2>3, <3>1, <3>2, PointFields
  <2> QED
    BY <2>1, <2>2, <2>3, <1>12, <1>13
<1>15. Aborts(T)
  BY <1>14 DEF Aborts
<1> HIDE DEF T
<1> DEFINE Q == N \o Inside(T, x)
<1>16. /\ Q \in Seq(StepSet) /\ Gets(Q) = M \cup Gets(T)
       /\ \A p \in Points(Q) :
            p \in Points(N) \/ \E q \in Points(T) :
                                 NestedIn(p, M, q, x)
  BY <1>6, <1>7, <1>14, <1>15, Nested
<1>17. ASSUME NEW p \in Points(Q)
       PROVE  /\ p.fail = "abort" /\ p.get # {} /\ Undoable(p)
              /\ p.before \ Released(p.undo) \subseteq L
              /\ a \notin p.before /\ c \notin p.before
              /\ b \in p.get => X \subseteq p.before
              /\ b \in p.before => timer /\ StartsWith(p.undo, b)
  <2> HIDE DEF Q
  <2>1. CASE p \in Points(N)
    <3>1. p.before \subseteq M /\ p.get \subseteq M
      BY <2>1, <1>7, PointType
    <3> QED
      BY <2>1, <3>1, <1>3, <1>7 DEF Aborts
  <2>2. ASSUME NEW q \in Points(T), NestedIn(p, M, q, x)
        PROVE  /\ p.fail = "abort" /\ p.get # {} /\ Undoable(p)
               /\ p.before \ Released(p.undo) \subseteq L
               /\ a \notin p.before /\ c \notin p.before
               /\ b \in p.get => X \subseteq p.before
               /\ b \in p.before => timer /\ StartsWith(p.undo, b)
    <3>1. \/ q.before = {} /\ q.get = {b} /\ q.undo = none
          \/ timer /\ q.before = {b} /\ q.get = {c} /\ q.undo = ub
      BY <1>14
    <3>2. Undoable(q) /\ q.undo \in Seq(Thing)
      BY <3>1, <1>8, <1>9 DEF Undoable
    <3>3. Released(x) \cap q.before = {} /\ Released(x) \subseteq M
      BY <3>1, <1>3, <1>4, <1>6
    <3>4. /\ p.before = M \cup q.before /\ p.get = q.get /\ p.undo = q.undo \o x /\ p.fail = "abort"
          /\ Undoable(p) /\ Released(q.undo) \cup Released(x) = Released(p.undo)
      BY <2>2, <3>2, <3>3, <1>6, NestedPoint
    <3>5. q.before \subseteq Released(q.undo)
      BY <3>1, <1>9
    <3>6. p.before \ Released(p.undo) \subseteq L
      BY <3>4, <3>5, <1>4, <1>6
    <3>7. a \notin p.before /\ c \notin p.before
      BY <3>1, <3>4, <1>2, <1>3
    <3>8. p.get # {} /\ (b \in p.get => X \subseteq p.before)
      BY <3>1, <3>4, <1>2, <1>4
    <3>9. b \in p.before => timer /\ StartsWith(p.undo, b)
      BY <3>1, <3>4, <1>3, <1>10
    <3> QED
      BY <3>4, <3>6, <3>7, <3>8, <3>9
  <2> QED
    BY <2>1, <2>2, <1>16
<1>18. Aborts(Q)
  BY <1>17 DEF Aborts
<1>19. \A p \in Points(Q) : p.undo \in Seq(Thing)
  BY <1>16, PointType
<1> HIDE DEF Q
<1> DEFINE R == f \o Inside(Q, ua)
<1>20. a \notin Gets(Q)
  BY <1>2, <1>3, <1>14, <1>16
<1>25. /\ R \in Seq(StepSet) /\ Gets(R) = {a} \cup Gets(Q) /\ Aborts(R)
       /\ \A p \in Points(R) :
            /\ Undoable(p)
            /\ \/ p.before = {} /\ p.get = {a} /\ p.undo = none /\ p.fail = "abort"
               \/ \E q \in Points(Q) :
                    /\ p.before = {a} \cup q.before /\ p.get = q.get /\ p.fail = q.fail
                    /\ p.undo = IF q.fail = "abort" THEN q.undo \o ua ELSE q.undo
                    /\ q.fail = "abort" => Released(q.undo) \cup {a} = Released(p.undo)
  <2>1. \A q \in Points(Q) : Undoable(q)
    BY <1>17
  <2> QED
    BY <2>1, <1>1, <1>16, <1>18, <1>20, Layer DEF f, none, ua
<1> HIDE DEF R
<1>21. ASSUME NEW p \in Points(R)
       PROVE  /\ p.get # {} /\ Undoable(p)
              /\ p.before \ Released(p.undo) \subseteq L
              /\ b \in p.get => {a} \cup X \subseteq p.before
              /\ c \in p.get => a \in p.before
              /\ b \in p.before => timer /\ StartsWith(p.undo, b)
              /\ c \notin p.before
  <2>1. CASE p.before = {} /\ p.get = {a} /\ p.undo = none
    BY <2>1, <1>2, <1>25
  <2>2. ASSUME NEW q \in Points(Q), p.before = {a} \cup q.before, p.get = q.get,
               p.undo = q.undo \o ua, Released(q.undo) \cup {a} = Released(p.undo)
        PROVE  /\ p.get # {}
               /\ p.before \ Released(p.undo) \subseteq L
               /\ b \in p.get => {a} \cup X \subseteq p.before
               /\ c \in p.get => a \in p.before
               /\ b \in p.before => timer /\ StartsWith(p.undo, b)
               /\ c \notin p.before
    <3>1. /\ q.get # {} /\ q.undo \in Seq(Thing)
          /\ q.before \ Released(q.undo) \subseteq L
          /\ c \notin q.before
          /\ b \in q.get => X \subseteq q.before
          /\ b \in q.before => timer /\ StartsWith(q.undo, b)
      BY <1>17, <1>19
    <3>2. p.before \ Released(p.undo) \subseteq L
      BY <2>2, <3>1
    <3>3. b \in p.before => timer /\ StartsWith(p.undo, b)
      BY <2>2, <3>1, <1>1, <1>2, <1>8, StartsConcat
    <3> QED
      BY <2>2, <3>1, <3>2, <3>3, <1>2
  <2>3. \A q \in Points(Q) : q.fail = "abort"
    BY <1>18 DEF Aborts
  <2> QED
    BY <2>1, <2>2, <2>3, <1>25
<1>22. Gets(R) = M \cup {a, b} \cup IF timer THEN {c} ELSE {}
  BY <1>14, <1>16, <1>25
<1>23. R = TaskRegister(o, rx, tx, zero_copy, timer)
  BY <1>5 DEF R, Q, T
<1> QED
  BY <1>4, <1>21, <1>22, <1>23, <1>25 DEF a, b, c, L, Registers

\* Two sequences of two are one of four.
LEMMA TwoAndTwo ==
  ASSUME NEW s \in Seq(StepSet), NEW t \in Seq(StepSet), NEW w \in Seq(StepSet),
         Len(s) = 2, Len(t) = 2, Len(w) = 4,
         w[1] = s[1], w[2] = s[2], w[3] = t[1], w[4] = t[2]
  PROVE  w = s \o t
<1>1. /\ s \o t \in Seq(StepSet) /\ Len(s \o t) = Len(s) + Len(t)
      /\ \A k \in 1..Len(s) + Len(t) : (s \o t)[k] = IF k <= Len(s) THEN s[k] ELSE t[k - Len(s)]
  BY ConcatProperties
<1>2. (s \o t)[1] = s[1] /\ (s \o t)[2] = s[2] /\ (s \o t)[3] = t[1] /\ (s \o t)[4] = t[2]
  BY <1>1
<1>3. \A k \in 1..4 : k = 1 \/ k = 2 \/ k = 3 \/ k = 4
  OBVIOUS
<1>4. Len(w) = Len(s \o t) /\ \A k \in 1..Len(w) : w[k] = (s \o t)[k]
  BY <1>1, <1>2, <1>3
<1> QED
  BY <1>1, <1>4, SeqEqual

\* Four steps that acquire one thing each.
LEMMA GetFour ==
  ASSUME NEW r1 \in Thing, NEW u1 \in Seq(Thing), NEW r2 \in Thing, NEW u2 \in Seq(Thing),
         NEW r3 \in Thing, NEW u3 \in Seq(Thing), NEW r4 \in Thing, NEW u4 \in Seq(Thing)
  PROVE  Taken4(InTurn4(r1, u1, r2, u2, r3, u3, r4, u4), r1, u1, r2, u2, r3, u3, r4, u4)
<1> DEFINE s == InTurn2(r1, u1, r2, u2)  t == InTurn2(r3, u3, r4, u4)
           w == InTurn4(r1, u1, r2, u2, r3, u3, r4, u4)
<1>1. w = s \o t
  <2> DEFINE x1 == Get(r1, u1)  x2 == Get(r2, u2)  x3 == Get(r3, u3)  x4 == Get(r4, u4)
  <2>1. x1 \in StepSet /\ x2 \in StepSet /\ x3 \in StepSet /\ x4 \in StepSet
    BY GetType
  <2>2. s = <<x1, x2>> /\ t = <<x3, x4>> /\ w = <<x1, x2, x3, x4>>
    BY DEF InTurn2, InTurn4
  <2> HIDE DEF s, t, w, x1, x2, x3, x4
  <2>3. s \in Seq(StepSet) /\ Len(s) = 2 /\ s[1] = x1 /\ s[2] = x2
    BY <2>1, <2>2
  <2>4. t \in Seq(StepSet) /\ Len(t) = 2 /\ t[1] = x3 /\ t[2] = x4
    BY <2>1, <2>2
  <2>5. w \in Seq(StepSet) /\ Len(w) = 4 /\ w[1] = x1 /\ w[2] = x2 /\ w[3] = x3 /\ w[4] = x4
    BY <2>1, <2>2
  <2> QED
    BY <2>3, <2>4, <2>5, TwoAndTwo
<1>2. Taken2(s, r1, u1, r2, u2) /\ Taken2(t, r3, u3, r4, u4)
  BY GetTwo
<1> HIDE DEF s, t, w
<1>3. /\ s \in Seq(StepSet) /\ Gets(s) = {r1, r2}
      /\ t \in Seq(StepSet) /\ Gets(t) = {r3, r4}
  BY <1>2 DEF Taken2
<1>4. /\ w \in Seq(StepSet) /\ Gets(w) = Gets(s) \cup Gets(t)
      /\ \A p \in Points(w) :
           p \in Points(s) \/ \E q \in Points(t) :
                                p = PointAt(Gets(s) \cup q.before, q.get, q.undo, q.fail)
  BY <1>1, <1>3, StepsConcat
<1>5. ASSUME NEW p \in Points(s)
      PROVE  /\ p.fail = "abort"
             /\ \/ p.before = {} /\ p.get = {r1} /\ p.undo = u1
                \/ p.before = {r1} /\ p.get = {r2} /\ p.undo = u2
  <2>1. p = PointAt({}, {r1}, u1, "abort") \/ p = PointAt({r1}, {r2}, u2, "abort")
    BY <1>2 DEF Taken2
  <2> QED
    BY <2>1, PointFields
<1>6. ASSUME NEW p, NEW q \in Points(t), p = PointAt(Gets(s) \cup q.before, q.get, q.undo, q.fail)
      PROVE  /\ p.fail = "abort"
             /\ \/ p.before = {r1, r2} /\ p.get = {r3} /\ p.undo = u3
                \/ p.before = {r1, r2, r3} /\ p.get = {r4} /\ p.undo = u4
  <2>1. /\ q.fail = "abort"
        /\ \/ q.before = {} /\ q.get = {r3} /\ q.undo = u3
           \/ q.before = {r3} /\ q.get = {r4} /\ q.undo = u4
    <3>1. q = PointAt({}, {r3}, u3, "abort") \/ q = PointAt({r3}, {r4}, u4, "abort")
      BY <1>2 DEF Taken2
    <3> QED
      BY <3>1, PointFields
  <2> DEFINE H == Gets(s) \cup q.before
  <2>2. p = PointAt(H, q.get, q.undo, q.fail)
    BY <1>6
  <2>3. (q.before = {} => H = {r1, r2}) /\ (q.before = {r3} => H = {r1, r2, r3})
    BY <1>3
  <2> HIDE DEF H
  <2>4. p.before = H /\ p.get = q.get /\ p.undo = q.undo /\ p.fail = q.fail
    BY <2>2, PointFields
  <2> QED
    BY <2>1, <2>3, <2>4
<1>7. Gets(w) = {r1, r2, r3, r4}
  BY <1>3, <1>4
<1> QED
  BY <1>4, <1>5, <1>6, <1>7 DEF w, Taken4

\* What the frames of a cyclic task use of its own.
Frames == {"task", "queue", "rx_sock", "rx_iovec", "tx_sock", "tx_iovec"}
Thread == <<"cyclic", "thread">>
Timer == <<"cyclic", "timer">>

\* A failure of cyclic_task_init undoes what it has, the thread first if it is running, and
\* what the thread and the timer use is there before them.
LEMMA CyclicTaskInitPoints ==
  ASSUME NEW zero_copy \in BOOLEAN
  PROVE  LET s == CyclicTaskInit(zero_copy) IN
         /\ s \in Seq(StepSet) /\ Aborts(s)
         /\ Gets(s) = Own("cyclic", Frames) \cup {Thread, Timer}
                        \cup IF zero_copy THEN {<<"cyclic", "tx_buffers">>} ELSE {}
         /\ \A p \in Points(s) :
              /\ p.get # {} /\ Undoable(p)
              /\ p.before \ Released(p.undo) \subseteq Own("cyclic", Unfreed(zero_copy))
              /\ Thread \in p.get => Own("cyclic", Frames) \subseteq p.before
              /\ Timer \in p.get => {<<"cyclic", "task">>, <<"cyclic", "queue">>} \subseteq p.before
              /\ Thread \in p.before => StartsWith(p.undo, Thread)
              /\ Timer \notin p.before
<1> DEFINE a == <<"cyclic", "queue">>
           t == TaskRegister("cyclic", TRUE, TRUE, zero_copy, TRUE)
           X == Own("cyclic", {"task"} \cup NetNames(TRUE, TRUE))
           L == Own("cyclic", Unfreed(zero_copy))
           k == <<"cyclic", "task">>
           G == X \cup {Thread, Timer} \cup IF zero_copy THEN {<<"cyclic", "tx_buffers">>} ELSE {}
<1>1. a \in Thing /\ Thread \in Thing
  BY ThingType DEF Kinds, Owner, Thread
<1>20. Registers(t, "cyclic", TRUE, TRUE, zero_copy, TRUE)
  BY TaskRegisterPoints DEF Owner
<1>2. /\ t \in Seq(StepSet) /\ Aborts(t)
      /\ Gets(t) = G
  <2> HIDE DEF t
  <2>1. t \in Seq(StepSet) /\ Aborts(t)
    BY <1>20 DEF Registers
  <2>2. Gets(t) = Own("cyclic", {"task", "thread"} \cup NetNames(TRUE, TRUE)
                                  \cup (IF TRUE /\ zero_copy THEN {"tx_buffers"} ELSE {})
                                  \cup IF TRUE THEN {"timer"} ELSE {})
    BY <1>20 DEF Registers
  <2> QED
    BY <2>1, <2>2 DEF Own, Thread, Timer
<1>3. \A p \in Points(t) :
         /\ p.get # {} /\ Undoable(p)
         /\ p.before \ Released(p.undo) \subseteq L
         /\ Thread \in p.get => X \subseteq p.before
         /\ Timer \in p.get => k \in p.before
         /\ Thread \in p.before => StartsWith(p.undo, Thread)
         /\ Timer \notin p.before
  <2>1. \A p \in Points(t) :
          /\ p.get # {} /\ Undoable(p)
          /\ p.before \ Released(p.undo) \subseteq Own("cyclic", Unfreed(zero_copy))
          /\ <<"cyclic", "thread">> \in p.get =>
               Own("cyclic", {"task"} \cup NetNames(TRUE, TRUE)) \subseteq p.before
          /\ <<"cyclic", "timer">> \in p.get => <<"cyclic", "task">> \in p.before
          /\ <<"cyclic", "thread">> \in p.before => TRUE /\ StartsWith(p.undo, <<"cyclic", "thread">>)
          /\ <<"cyclic", "timer">> \notin p.before
    <3> HIDE DEF t
    <3> QED
      BY <1>20 DEF Registers
  <2> QED
    BY <2>1 DEF Thread, Timer
<1>4. a \notin G /\ a # Thread /\ a # Timer /\ Own("cyclic", Frames) = X \cup {a}
  BY DEF Own, NetNames, Thread, Timer, Frames
<1>5. CyclicTaskInit(zero_copy) = <<Get(a, <<>>)>> \o Inside(t, <<a>>)
  BY DEF CyclicTaskInit
<1> HIDE DEF a, t, X, L, k, G
<1> DEFINE w == <<Get(a, <<>>)>> \o Inside(t, <<a>>)
<1>6. \A q \in Points(t) : Undoable(q) /\ q.fail = "abort"
  BY <1>2, <1>3 DEF Aborts
<1>7. /\ w \in Seq(StepSet) /\ Gets(w) = {a} \cup Gets(t) /\ Aborts(w)
      /\ \A p \in Points(w) :
           /\ Undoable(p)
           /\ \/ p.before = {} /\ p.get = {a} /\ p.undo = <<>> /\ p.fail = "abort"
              \/ \E q \in Points(t) :
                   /\ p.before = {a} \cup q.before /\ p.get = q.get /\ p.fail = q.fail
                   /\ p.undo = IF q.fail = "abort" THEN q.undo \o <<a>> ELSE q.undo
                   /\ q.fail = "abort" => Released(q.undo) \cup {a} = Released(p.undo)
  BY <1>1, <1>2, <1>4, <1>6, Layer
<1> HIDE DEF w
<1>8. ASSUME NEW p \in Points(w)
      PROVE  /\ p.get # {} /\ Undoable(p)
             /\ p.before \ Released(p.undo) \subseteq L
             /\ Thread \in p.get => X \cup {a} \subseteq p.before
             /\ Timer \in p.get => {k, a} \subseteq p.before
             /\ Thread \in p.before => StartsWith(p.undo, Thread)
             /\ Timer \notin p.before
  <2>1. CASE p.before = {} /\ p.get = {a} /\ p.undo = <<>>
    BY <2>1, <1>4, <1>7
  <2>2. ASSUME NEW q \in Points(t), p.before = {a} \cup q.before, p.get = q.get,
               p.undo = q.undo \o <<a>>, Released(q.undo) \cup {a} = Released(p.undo)
        PROVE  /\ p.get # {}
               /\ p.before \ Released(p.undo) \subseteq L
               /\ Thread \in p.get => X \cup {a} \subseteq p.before
               /\ Timer \in p.get => {k, a} \subseteq p.before
               /\ Thread \in p.before => StartsWith(p.undo, Thread)
               /\ Timer \notin p.before
    <3>1. /\ q.get # {}
          /\ q.before \ Released(q.undo) \subseteq L
          /\ Thread \in q.get => X \subseteq q.before
          /\ Timer \in q.get => k \in q.before
          /\ Thread \in q.before => StartsWith(q.undo, Thread)
          /\ Timer \notin q.before
      BY <1>3
    <3>2. q.undo \in Seq(Thing) /\ <<a>> \in Seq(Thing)
      BY <1>1, <1>2, PointType, OneThing
    <3>3. Thread \in p.before => StartsWith(p.undo, Thread)
      <4>1. Thread \in p.before => Thread \in q.before
        BY <2>2, <1>4
      <4>2. StartsWith(q.undo, Thread) => StartsWith(q.undo \o <<a>>, Thread)
        BY <3>2, <1>1, StartsConcat
      <4> QED
        BY <4>1, <4>2, <3>1, <2>2
    <3>4. p.before \ Released(p.undo) \subseteq L
      BY <2>2, <3>1
    <3> QED
      BY <2>2, <3>1, <3>3, <3>4, <1>4
  <2> QED
    BY <2>1, <2>2, <1>6, <1>7
<1>9. Gets(w) = X \cup {a} \cup {Thread, Timer}
                  \cup IF zero_copy THEN {<<"cyclic", "tx_buffers">>} ELSE {}
  BY <1>2, <1>7 DEF G
<1> QED
  BY <1>4, <1>5, <1>7, <1>8, <1>9 DEF w, L, k, a

\* The last steps of a mode, with the cyclic task at the end.
LEMMA CyclicLast ==
  ASSUME NEW zero_copy \in BOOLEAN, NEW A \in Seq(StepSet), NEW s \in Seq(StepSet),
         NEW u \in Seq(Thing), Aborts(s), \A q \in Points(s) : q.undo = <<>>,
         Once(u), Released(u) \subseteq Gets(A), Released(u) \cap Gets(s) = {},
         Released(u) \cap Gets(CyclicTaskInit(zero_copy)) = {}
  PROVE  LET C == CyclicTaskInit(zero_copy)
             w == A \o Inside(s \o C, u)
         IN
         /\ w \in Seq(StepSet) /\ Gets(w) = Gets(A) \cup Gets(s) \cup Gets(C)
         /\ \A p \in Points(w) :
              \/ p \in Points(A)
              \/ /\ p.fail = "abort" /\ Undoable(p)
                 /\ \/ \E q \in Points(s) :
                         /\ p.before = Gets(A) \cup q.before /\ p.get = q.get
                         /\ Released(u) = Released(p.undo)
                    \/ \E q \in Points(C) :
                         /\ p.before = Gets(A) \cup Gets(s) \cup q.before /\ p.get = q.get
                         /\ Released(q.undo) \cup Released(u) = Released(p.undo)
                         /\ Thread \in q.before => StartsWith(p.undo, Thread)
<1> DEFINE C == CyclicTaskInit(zero_copy)
<1>1. C \in Seq(StepSet) /\ Aborts(C)
  BY CyclicTaskInitPoints
<1>2. \A q \in Points(C) : Undoable(q) /\ (Thread \in q.before => StartsWith(q.undo, Thread))
  BY CyclicTaskInitPoints
<1>3. Released(u) \cap Gets(C) = {}
  OBVIOUS
<1> HIDE DEF C
<1> DEFINE B == s \o C
<1>4. /\ B \in Seq(StepSet) /\ Gets(B) = Gets(s) \cup Gets(C)
      /\ \A x \in Points(B) :
           x \in Points(s) \/ \E q \in Points(C) :
                                x = PointAt(Gets(s) \cup q.before, q.get, q.undo, q.fail)
  BY <1>1, StepsConcat
<1> HIDE DEF B
<1>5. ASSUME NEW x \in Points(B)
      PROVE  /\ x.fail = "abort" /\ Undoable(x) /\ Released(u) \cap x.before = {}
             /\ x.undo \in Seq(Thing)
             /\ \/ x \in Points(s) /\ Released(x.undo) = {}
                \/ \E q \in Points(C) : /\ x.before = Gets(s) \cup q.before /\ x.get = q.get
                                        /\ x.undo = q.undo
  <2>1. CASE x \in Points(s)
    <3>1. x.fail = "abort" /\ x.undo = <<>>
      BY <2>1 DEF Aborts
    <3>2. x.before \subseteq Gets(s) /\ x.undo \in Seq(Thing)
      BY <2>1, PointType
    <3>3. Released(x.undo) = {} /\ Once(x.undo)
      BY <3>1, NoThing
    <3> QED
      BY <2>1, <3>1, <3>2, <3>3 DEF Undoable
  <2>2. ASSUME NEW q \in Points(C), x = PointAt(Gets(s) \cup q.before, q.get, q.undo, q.fail)
        PROVE  /\ x.fail = "abort" /\ Undoable(x) /\ Released(u) \cap x.before = {}
               /\ x.undo \in Seq(Thing)
               /\ x.before = Gets(s) \cup q.before /\ x.get = q.get /\ x.undo = q.undo
    <3> DEFINE H == Gets(s) \cup q.before
    <3>1. x = PointAt(H, q.get, q.undo, q.fail)
      BY <2>2
    <3> HIDE DEF H
    <3>2. x.before = H /\ x.get = q.get /\ x.undo = q.undo /\ x.fail = q.fail
      BY <3>1, PointFields
    <3>3. q.fail = "abort" /\ Undoable(q)
      BY <1>1, <1>2 DEF Aborts
    <3>4. q.before \subseteq Gets(C) /\ q.undo \in Seq(Thing)
      BY <1>1, PointType
    <3>5. Undoable(x)
      BY <3>2, <3>3 DEF Undoable, H
    <3>6. Released(u) \cap x.before = {}
      BY <3>2, <3>4, <1>3 DEF H
    <3> QED
      BY <3>2, <3>3, <3>4, <3>5, <3>6 DEF H
  <2> QED
    BY <1>4, <2>1, <2>2
<1>6. Aborts(B)
  BY <1>5 DEF Aborts
<1> DEFINE w == A \o Inside(B, u)
<1>7. /\ w \in Seq(StepSet) /\ Gets(w) = Gets(A) \cup Gets(B)
      /\ \A p \in Points(w) : p \in Points(A) \/ \E x \in Points(B) : NestedIn(p, Gets(A), x, u)
  BY <1>4, <1>6, Nested
<1> HIDE DEF w
<1>8. ASSUME NEW p, NEW x \in Points(B), NestedIn(p, Gets(A), x, u)
      PROVE  /\ p.fail = "abort" /\ Undoable(p)
             /\ \/ \E q \in Points(s) :
                     /\ p.before = Gets(A) \cup q.before /\ p.get = q.get
                     /\ Released(u) = Released(p.undo)
                \/ \E q \in Points(C) :
                     /\ p.before = Gets(A) \cup Gets(s) \cup q.before /\ p.get = q.get
                     /\ Released(q.undo) \cup Released(u) = Released(p.undo)
                     /\ Thread \in q.before => StartsWith(p.undo, Thread)
  <2>1. Undoable(x) /\ Released(u) \cap x.before = {} /\ x.undo \in Seq(Thing)
    BY <1>5
  <2>2. /\ p.before = Gets(A) \cup x.before /\ p.get = x.get /\ p.undo = x.undo \o u
        /\ p.fail = "abort"
        /\ Undoable(p) /\ Released(x.undo) \cup Released(u) = Released(p.undo)
    <3> DEFINE H == Gets(A)
    <3>1. NestedIn(p, H, x, u) /\ Released(u) \subseteq H
      BY <1>8
    <3> HIDE DEF H
    <3>2. Undoable(p) /\ Released(x.undo) \cup Released(u) = Released(p.undo)
      <4>1. Undoable(p)
        BY <3>1, <2>1, NestedPoint
      <4>2. p.undo = x.undo \o u
        BY <3>1, NestedFields
      <4>3. Released(x.undo \o u) = Released(x.undo) \cup Released(u)
        BY <2>1, ReleasedConcat
      <4> QED
        BY <4>1, <4>2, <4>3
    <3>3. /\ p.before = H \cup x.before /\ p.get = x.get /\ p.undo = x.undo \o u
          /\ p.fail = "abort"
      BY <3>1, NestedFields
    <3> QED
      BY <3>2, <3>3 DEF H
  <2>3. CASE x \in Points(s) /\ Released(x.undo) = {}
    BY <2>2, <2>3
  <2>4. ASSUME NEW q \in Points(C), x.before = Gets(s) \cup q.before, x.get = q.get, x.undo = q.undo
        PROVE  /\ p.before = Gets(A) \cup Gets(s) \cup q.before /\ p.get = q.get
               /\ Released(q.undo) \cup Released(u) = Released(p.undo)
               /\ Thread \in q.before => StartsWith(p.undo, Thread)
    <3>1. Thread \in Thing
      BY ThingType DEF Kinds, Owner, Thread
    <3>2. StartsWith(x.undo, Thread) => StartsWith(x.undo \o u, Thread)
      BY <2>1, <3>1, StartsConcat
    <3>3. Thread \in q.before => StartsWith(p.undo, Thread)
      BY <1>2, <2>2, <2>4, <3>2
    <3> QED
      BY <2>2, <2>4, <3>3
  <2> QED
    BY <1>5, <2>2, <2>3, <2>4
<1>9. Gets(w) = Gets(A) \cup Gets(s) \cup Gets(C)
  BY <1>4, <1>7
<1> QED
  BY <1>7, <1>8, <1>9 DEF w, B, C

\* What a controller can do without, and what acts otherwise.
Client == <<"controller", "client">>
ClientThread == <<"controller", "client_thread">>
Optional == {Client, ClientThread}
Actors == Acting \ {ClientThread}
ControllerMotors == <<"controller", "motors">>
Ctx == <<"app", "ctx">>

\* Where a mode starts its steps may fail.
ModePoint(p) ==
  /\ p.fail \in {"abort", "next"} /\ p.get # {} /\ Undoable(p)
  /\ \A r \in p.before \ Released(p.undo) :
       r[1] # "cyclic" \/ r \in Own("cyclic", Unfreed(node.zero_copy))
  /\ Optional \cap Released(p.undo) = {} /\ ControllerMotors \notin Released(p.undo)
  /\ \A a \in Actors \cap p.get : Needs(a) \subseteq (p.before \ Optional) \cup {Ctx}
  /\ Thread \in p.before => StartsWith(p.undo, Thread)
  /\ Timer \notin p.before
  /\ p.fail = "next" => p.get = Optional /\ p.undo = <<>>
  /\ Optional \cap p.get = {} \/ Optional \subseteq p.get

ModeSteps ==
  CASE node.mode = "CONTROLLER" -> ControllerSteps(node.zero_copy)
    [] node.mode = "IO_DEVICE" -> IoDeviceSteps(node.zero_copy)
    [] node.mode = "SERIAL" -> SerialSteps(node.zero_copy)
    [] OTHER -> CyclicTaskInit(node.zero_copy)

\* What the mode has for itself.
ModeGets ==
  CASE node.mode = "CONTROLLER" ->
         Own("controller", {"event_queue", "registered", "strategy", "motors", "client", "client_thread", "monitoring"})
    [] node.mode = "IO_DEVICE" -> Own("io_device", {"event_queue", "registered", "motors", "monitoring"})
    [] node.mode = "SERIAL" -> Own("serial", {"ctx", "queue", "sem", "uart", "thread"})
    [] OTHER -> {}

CyclicGets ==
  Own("cyclic", Frames) \cup {Thread, Timer}
    \cup IF node.zero_copy THEN {<<"cyclic", "tx_buffers">>} ELSE {}

\* What the thread and the timer of the cyclic task use, and the others.
LEMMA CyclicUses ==
  /\ Needs(Thread) = {Ctx} \cup Own("cyclic", Frames)
       \cup (CASE node.mode = "CONTROLLER" -> Own("controller", {"event_queue", "strategy", "motors", "monitoring"})
               [] node.mode = "IO_DEVICE" -> Own("io_device", {"event_queue", "motors", "monitoring"})
               [] node.mode = "SERIAL" -> Own("serial", {"ctx", "queue"})
               [] OTHER -> {})
  /\ Needs(Timer) = {Ctx, <<"cyclic", "task">>, <<"cyclic", "queue">>}
<1>1. Needs(Timer) = {Ctx, <<"cyclic", "task">>, <<"cyclic", "queue">>}
  BY DEF Needs, Timer, Ctx
<1>2. \A o, names : {o} \X names = Own(o, names)
  BY DEF Own
<1>3. {"cyclic"} \X {"task", "queue", "rx_sock", "rx_iovec", "tx_sock", "tx_iovec"} = Own("cyclic", Frames)
  BY <1>2 DEF Frames
<1>4. Needs(Thread) = {<<"app", "ctx">>} 
    \cup ({"cyclic"} \X {"task", "queue", "rx_sock", "rx_iovec", "tx_sock", "tx_iovec"})
           \cup (CASE node.mode = "CONTROLLER" -> {"controller"} \X {"event_queue", "strategy", "motors", "monitoring"}
                   [] node.mode = "IO_DEVICE" -> {"io_device"} \X {"event_queue", "motors", "monitoring"}
                   [] node.mode = "SERIAL" -> {"serial"} \X {"ctx", "queue"}
                   [] OTHER -> {})
  BY DEF Needs, Thread
<1> QED
  BY <1>1, <1>2, <1>3, <1>4 DEF Ctx

LEMMA OtherUses ==
  /\ Needs(<<"controller", "registered">>) = {<<"controller", "event_queue">>}
  /\ Needs(<<"io_device", "registered">>) = {<<"io_device", "event_queue">>}
  /\ Needs(<<"serial", "thread">>) = Own("serial", {"ctx", "sem", "queue"})
  /\ Needs(<<"serial", "uart">>) = Own("serial", {"ctx", "sem"})
  /\ Needs(<<"alarm", "thread">>) =
       {Ctx, <<"alarm", "task">>} \cup
         Own("alarm", IF node.alarm = "monitor" THEN {"queue", "rx_sock", "rx_iovec"}
                                                ELSE {"tx_sock", "tx_iovec"})
<1>1. \A o, names : {o} \X names = Own(o, names)
  BY DEF Own
<1>2. Needs(<<"controller", "registered">>) = {<<"controller", "event_queue">>}
  BY DEF Needs
<1>3. Needs(<<"io_device", "registered">>) = {<<"io_device", "event_queue">>}
  BY DEF Needs
<1>4. Needs(<<"serial", "thread">>) = {"serial"} \X {"ctx", "sem", "queue"}
  BY DEF Needs
<1>5. Needs(<<"serial", "uart">>) = {"serial"} \X {"ctx", "sem"}
  BY DEF Needs
<1>6. Needs(<<"alarm", "thread">>) = {<<"app", "ctx">>, <<"alarm", "task">>}
           \cup ({"alarm"} \X (IF node.alarm = "monitor" THEN {"queue", "rx_sock", "rx_iovec"}
                                                         ELSE {"tx_sock", "tx_iovec"}))
  BY DEF Needs
<1> QED
  BY <1>1, <1>2, <1>3, <1>4, <1>5, <1>6 DEF Ctx

\* What the frames of a mode use besides those of the cyclic task.
ModeUses ==
  CASE node.mode = "CONTROLLER" -> Own("controller", {"event_queue", "strategy", "motors", "monitoring"})
    [] node.mode = "IO_DEVICE" -> Own("io_device", {"event_queue", "motors", "monitoring"})
    [] node.mode = "SERIAL" -> Own("serial", {"ctx", "queue"})
    [] OTHER -> {}

\* The configuration of a node.
LEMMA NodeType ==
  ASSUME node \in Nodes
  PROVE  /\ node.zero_copy \in BOOLEAN /\ node.alarm \in {"monitor", "io_device"}
         /\ node.mode \in {"NETWORK_ONLY", "CONTROLLER", "IO_DEVICE", "SERIAL"}
         /\ node.built \subseteq {"CONTROLLER", "IO_DEVICE"}
BY NodeAssumption

\* The owner of a thing.
LEMMA OwnFirst == \A o, names : \A r \in Own(o, names) : r[1] = o
BY DEF Own

\* A step of the cyclic task, after those of the mode that have H, before V is undone.
LEMMA CyclicModePoint ==
  ASSUME node \in Nodes, NEW H, NEW V, NEW p, NEW q \in Points(CyclicTaskInit(node.zero_copy)),
         p.fail = "abort", Undoable(p), p.before = H \cup q.before, p.get = q.get,
         Released(q.undo) \cup V = Released(p.undo),
         Thread \in q.before => StartsWith(p.undo, Thread),
         \A r \in H \cup V : r[1] # "cyclic",
         Optional \cap V = {}, ControllerMotors \notin V,
         ModeUses \subseteq H \ Optional
  PROVE  ModePoint(p)
<1> DEFINE C == CyclicTaskInit(node.zero_copy)
           L == Own("cyclic", Unfreed(node.zero_copy))
<1>1. /\ C \in Seq(StepSet) /\ Gets(C) = CyclicGets
  BY NodeType, CyclicTaskInitPoints DEF CyclicGets
<1>2. /\ q.get # {}
      /\ q.before \ Released(q.undo) \subseteq L
      /\ Thread \in q.get => Own("cyclic", Frames) \subseteq q.before
      /\ Timer \in q.get => {<<"cyclic", "task">>, <<"cyclic", "queue">>} \subseteq q.before
      /\ Timer \notin q.before
  BY NodeType, CyclicTaskInitPoints
<1>3. q.before \subseteq CyclicGets /\ q.get \subseteq CyclicGets /\ q.undo \in Seq(Thing)
  BY <1>1, PointType
<1>4. \A r \in CyclicGets : r[1] = "cyclic"
  BY OwnFirst DEF CyclicGets, Thread, Timer
<1>5. Undoable(q)
  BY NodeType, CyclicTaskInitPoints
<1> HIDE DEF C, L
<1>6. Released(q.undo) \subseteq CyclicGets
  BY <1>3, <1>5 DEF Undoable
<1>7. Optional \cap CyclicGets = {} /\ ControllerMotors \notin CyclicGets
  BY DEF CyclicGets, Optional, Client, ClientThread, ControllerMotors, Own, Thread, Timer
<1>8. \A r \in p.before \ Released(p.undo) : r[1] # "cyclic" \/ r \in L
  BY <1>2
<1>9. Optional \cap Released(p.undo) = {} /\ ControllerMotors \notin Released(p.undo)
  BY <1>6, <1>7
<1>10. Thread \in p.before => StartsWith(p.undo, Thread)
  <2>1. Thread \notin H
    BY DEF Thread
  <2> QED
    BY <2>1
<1>11. Timer \notin p.before
  BY <1>2 DEF Timer
<1>12. Optional \cap p.get = {}
  BY <1>3, <1>7
<1>13. ASSUME NEW a \in Actors \cap p.get
       PROVE  Needs(a) \subseteq (p.before \ Optional) \cup {Ctx}
  <2>1. a = Thread \/ a = Timer
    <3>1. a \in CyclicGets
      BY <1>3
    <3> QED
      BY <3>1, <1>4 DEF Actors, Acting, ClientThread, Thread, Timer
  <2>2. Optional \cap q.before = {}
    BY <1>3, <1>7
  <2>3. CASE a = Thread
    <3>1. Needs(a) = {Ctx} \cup Own("cyclic", Frames) \cup ModeUses
      BY <2>3, CyclicUses DEF ModeUses
    <3>2. Own("cyclic", Frames) \subseteq q.before
      BY <2>3, <1>2
    <3> QED
      BY <3>1, <3>2, <2>2
  <2>4. CASE a = Timer
    <3>1. Needs(a) = {Ctx, <<"cyclic", "task">>, <<"cyclic", "queue">>}
      BY <2>4, CyclicUses
    <3>2. {<<"cyclic", "task">>, <<"cyclic", "queue">>} \subseteq q.before
      BY <2>4, <1>2
    <3> QED
      BY <3>1, <3>2, <2>2
  <2> QED
    BY <2>1, <2>3, <2>4
<1> QED
  BY <1>2, <1>8, <1>9, <1>10, <1>11, <1>12, <1>13 DEF ModePoint, L

\* A step before those of the cyclic task.
LEMMA PlainModePoint ==
  ASSUME NEW p, p.fail = "abort", p.get # {}, Undoable(p),
         \A r \in p.before \cup p.get : r[1] # "cyclic",
         Optional \cap (Released(p.undo) \cup p.get) = {}, ControllerMotors \notin Released(p.undo),
         \A a \in Actors \cap p.get : Needs(a) \subseteq (p.before \ Optional) \cup {Ctx}
  PROVE  ModePoint(p)
<1>1. Thread \notin p.before /\ Timer \notin p.before
  BY DEF Thread, Timer
<1> QED
  BY <1>1 DEF ModePoint

\* The steps of a mode: A of its own, then s and the cyclic task, which end with u if they fail.
ModeWith(A, s, u) ==
  /\ A \in Seq(StepSet) /\ s \in Seq(StepSet) /\ u \in Seq(Thing) /\ Once(u)
  /\ Released(u) \subseteq Gets(A) /\ Released(u) \cap Gets(s) = {}
  /\ Aborts(s) /\ \A q \in Points(s) : q.undo = <<>> /\ q.get # {}
  /\ \A r \in Gets(A) \cup Gets(s) : r[1] # "cyclic"
  /\ Optional \cap (Released(u) \cup Gets(s)) = {} /\ ControllerMotors \notin Released(u)
  /\ ModeUses \subseteq (Gets(A) \cup Gets(s)) \ Optional
  /\ ModeGets = Gets(A) \cup Gets(s)
  /\ \A p \in Points(A) : ModePoint(p)
  /\ \A q \in Points(s) : \A a \in Actors \cap q.get :
       Needs(a) \subseteq ((Gets(A) \cup q.before) \ Optional) \cup {Ctx}

\* Steps of which each failure is as it should be, and that end with all that the mode has.
ModeOK(w) ==
  /\ w \in Seq(StepSet) /\ Gets(w) = ModeGets \cup CyclicGets
  /\ \A p \in Points(w) : ModePoint(p)

\* With what comes before the cyclic task as it should be, so are all the steps of the mode.
LEMMA ModeWithPoints ==
  ASSUME node \in Nodes, NEW A, NEW s, NEW u, ModeWith(A, s, u)
  PROVE  ModeOK(A \o Inside(s \o CyclicTaskInit(node.zero_copy), u))
<1> DEFINE C == CyclicTaskInit(node.zero_copy)  w == A \o Inside(s \o C, u)
<1>1. /\ A \in Seq(StepSet) /\ s \in Seq(StepSet) /\ u \in Seq(Thing) /\ Once(u)
      /\ Released(u) \subseteq Gets(A) /\ Released(u) \cap Gets(s) = {}
      /\ Aborts(s) /\ \A q \in Points(s) : q.undo = <<>> /\ q.get # {}
      /\ \A r \in Gets(A) \cup Gets(s) : r[1] # "cyclic"
  BY DEF ModeWith
<1>2. /\ Optional \cap (Released(u) \cup Gets(s)) = {} /\ ControllerMotors \notin Released(u)
      /\ ModeUses \subseteq (Gets(A) \cup Gets(s)) \ Optional
      /\ ModeGets = Gets(A) \cup Gets(s)
      /\ \A p \in Points(A) : ModePoint(p)
      /\ \A q \in Points(s) : \A a \in Actors \cap q.get :
           Needs(a) \subseteq ((Gets(A) \cup q.before) \ Optional) \cup {Ctx}
  BY DEF ModeWith
<1>3. C \in Seq(StepSet) /\ Gets(C) = CyclicGets
  BY NodeType, CyclicTaskInitPoints DEF CyclicGets
<1>4. \A r \in CyclicGets : r[1] = "cyclic"
  BY OwnFirst DEF CyclicGets, Thread, Timer
<1>5. Released(u) \cap Gets(C) = {}
  BY <1>1, <1>3, <1>4
<1>6. node.zero_copy \in BOOLEAN
  BY NodeType
<1>7. w \in Seq(StepSet)
  BY <1>1, <1>5, <1>6, CyclicLast
<1>8. Gets(w) = Gets(A) \cup Gets(s) \cup Gets(C)
  BY <1>1, <1>5, <1>6, CyclicLast
<1>9. \A p \in Points(w) :
        \/ p \in Points(A)
        \/ /\ p.fail = "abort" /\ Undoable(p)
           /\ \/ \E q \in Points(s) :
                   /\ p.before = Gets(A) \cup q.before /\ p.get = q.get
                   /\ Released(u) = Released(p.undo)
              \/ \E q \in Points(C) :
                   /\ p.before = Gets(A) \cup Gets(s) \cup q.before /\ p.get = q.get
                   /\ Released(q.undo) \cup Released(u) = Released(p.undo)
                   /\ Thread \in q.before => StartsWith(p.undo, Thread)
  BY <1>1, <1>5, <1>6, CyclicLast, SMTT(60)
<1> HIDE DEF w
<1>10. ASSUME NEW p, NEW q \in Points(s), p.fail = "abort", Undoable(p),
              p.before = Gets(A) \cup q.before, p.get = q.get, Released(u) = Released(p.undo)
       PROVE  ModePoint(p)
  <2>1. q.before \subseteq Gets(s) /\ q.get \subseteq Gets(s)
    BY <1>1, PointType
  <2>2. \A r \in p.before \cup p.get : r[1] # "cyclic"
    BY <2>1, <1>1, <1>10
  <2>3. Optional \cap (Released(p.undo) \cup p.get) = {} /\ ControllerMotors \notin Released(p.undo)
    BY <2>1, <1>2, <1>10
  <2>4. p.get # {} /\ \A a \in Actors \cap p.get : Needs(a) \subseteq (p.before \ Optional) \cup {Ctx}
    BY <1>1, <1>2, <1>10
  <2> QED
    BY <2>2, <2>3, <2>4, <1>10, PlainModePoint
<1>11. ASSUME NEW p, NEW q \in Points(C), p.fail = "abort", Undoable(p),
              p.before = Gets(A) \cup Gets(s) \cup q.before, p.get = q.get,
              Released(q.undo) \cup Released(u) = Released(p.undo),
              Thread \in q.before => StartsWith(p.undo, Thread)
       PROVE  ModePoint(p)
  <2> DEFINE H == Gets(A) \cup Gets(s)  V == Released(u)
  <2>1. /\ \A r \in H \cup V : r[1] # "cyclic"
        /\ Optional \cap V = {} /\ ControllerMotors \notin V
        /\ ModeUses \subseteq H \ Optional
    BY <1>1, <1>2
  <2>2. p.before = H \cup q.before /\ Released(q.undo) \cup V = Released(p.undo)
    BY <1>11
  <2> HIDE DEF H, V
  <2> QED
    BY <1>11, <2>1, <2>2, CyclicModePoint
<1>12. \A p \in Points(w) : ModePoint(p)
  BY <1>2, <1>9, <1>10, <1>11
<1>13. Gets(w) = ModeGets \cup CyclicGets
  BY <1>2, <1>3, <1>8
<1> QED
  BY <1>7, <1>12, <1>13 DEF ModeOK, w

\* io_device_init starts as it should, and so do the others.
LEMMA IoDevicePoints ==
  ASSUME node \in Nodes, node.mode = "IO_DEVICE"
  PROVE  ModeOK(IoDeviceSteps(node.zero_copy))
<1> DEFINE m == <<"io_device", "motors">>  e == <<"io_device", "event_queue">>
           g == <<"io_device", "registered">>  x == <<"io_device", "monitoring">>
           none == <<>>  u == <<e>>
           A == InTurn2(m, none, e, none)  s == InTurn2(g, none, x, none)
<1>1. m \in Thing /\ e \in Thing /\ g \in Thing /\ x \in Thing
  BY ThingType DEF Kinds, Owner
<1>2. /\ m # e /\ m # g /\ m # x /\ e # g /\ e # x /\ g # x
      /\ \A r \in {m, e, g, x} : r[1] # "cyclic" /\ r \notin Optional /\ r # ControllerMotors
  BY DEF Optional, Client, ClientThread, ControllerMotors
<1>3. none \in Seq(Thing) /\ u \in Seq(Thing)
  BY <1>1, NoThing, OneThing
<1>4. Released(none) = {} /\ Once(none) /\ Released(u) = {e} /\ Once(u)
  BY <1>1, NoThing, OneThing
<1>5. IoDeviceSteps(node.zero_copy) = A \o Inside(s \o CyclicTaskInit(node.zero_copy), u)
  BY DEF IoDeviceSteps, InTurn2
<1>6. ModeUses = {e, m, x} /\ ModeGets = {e, g, m, x}
  BY DEF ModeUses, ModeGets, Own
<1>7. {m, e, x} \cap Actors = {} /\ Needs(g) = {e}
  BY OtherUses DEF Actors, Acting, ClientThread
<1> HIDE DEF m, e, g, x, none, u
<1>20. Taken2(A, m, none, e, none) /\ Taken2(s, g, none, x, none)
  BY <1>1, <1>3, GetTwo
<1> HIDE DEF A, s
<1>8. A \in Seq(StepSet) /\ Gets(A) = {m, e}
  BY <1>20 DEF Taken2
<1>9. \A p \in Points(A) : p = PointAt({}, {m}, none, "abort") \/ p = PointAt({m}, {e}, none, "abort")
  BY <1>20 DEF Taken2
<1>10. s \in Seq(StepSet) /\ Gets(s) = {g, x}
  BY <1>20 DEF Taken2
<1>11. \A p \in Points(s) : p = PointAt({}, {g}, none, "abort") \/ p = PointAt({g}, {x}, none, "abort")
  BY <1>20 DEF Taken2
<1>12. ASSUME NEW p \in Points(s)
       PROVE  /\ p.fail = "abort" /\ p.undo = none
              /\ \/ p.before = {} /\ p.get = {g}
                 \/ p.before = {g} /\ p.get = {x}
  <2>1. p = PointAt({}, {g}, none, "abort") \/ p = PointAt({g}, {x}, none, "abort")
    BY <1>11
  <2> QED
    BY <2>1, PointFields
<1>13. Aborts(s) /\ \A p \in Points(s) : p.undo = <<>> /\ p.get # {}
  BY <1>12 DEF Aborts, none
<1>14. ASSUME NEW p \in Points(A) PROVE ModePoint(p)
  <2>1. p = PointAt({}, {m}, none, "abort") \/ p = PointAt({m}, {e}, none, "abort")
    BY <1>9
  <2>2. /\ p.fail = "abort" /\ p.undo = none
        /\ \/ p.before = {} /\ p.get = {m}
           \/ p.before = {m} /\ p.get = {e}
    BY <2>1, PointFields
  <2>3. Undoable(p)
    BY <2>2, <1>4 DEF Undoable
  <2>4. Actors \cap p.get = {}
    BY <2>2, <1>7
  <2> QED
    BY <2>2, <2>3, <2>4, <1>2, <1>4, PlainModePoint
<1>15. ASSUME NEW q \in Points(s), NEW a \in Actors \cap q.get
       PROVE  Needs(a) \subseteq ((Gets(A) \cup q.before) \ Optional) \cup {Ctx}
  <2>1. a = g
    BY <1>7, <1>12
  <2> QED
    BY <2>1, <1>2, <1>7, <1>8
<1>16. ModeWith(A, s, u)
  BY <1>2, <1>3, <1>4, <1>6, <1>8, <1>10, <1>13, <1>14, <1>15 DEF ModeWith
<1> QED
  BY <1>5, <1>16, ModeWithPoints

LEMMA SerialPoints ==
  ASSUME node \in Nodes, node.mode = "SERIAL"
  PROVE  ModeOK(SerialSteps(node.zero_copy))
<1> DEFINE c == <<"serial", "ctx">>  q == <<"serial", "queue">>  b == <<"serial", "sem">>
           g == <<"serial", "uart">>  x == <<"serial", "thread">>
           none == <<>>  u == <<c>>
           A == <<Get(c, none)>>  s == InTurn4(q, none, b, none, g, none, x, none)
<1>1. c \in Thing /\ q \in Thing /\ b \in Thing /\ g \in Thing /\ x \in Thing
  BY ThingType DEF Kinds, Owner
<1>2. /\ c # q /\ c # b /\ c # g /\ c # x /\ q # b /\ q # g /\ q # x /\ b # g /\ b # x /\ g # x
      /\ \A r \in {c, q, b, g, x} : r[1] # "cyclic" /\ r \notin Optional /\ r # ControllerMotors
  BY DEF Optional, Client, ClientThread, ControllerMotors
<1>3. none \in Seq(Thing) /\ u \in Seq(Thing)
  BY <1>1, NoThing, OneThing
<1>4. Released(none) = {} /\ Once(none) /\ Released(u) = {c} /\ Once(u)
  BY <1>1, NoThing, OneThing
<1>5. SerialSteps(node.zero_copy) = A \o Inside(s \o CyclicTaskInit(node.zero_copy), u)
  BY DEF SerialSteps, InTurn4
<1>6. ModeUses = {c, q} /\ ModeGets = {c, q, b, g, x}
  BY DEF ModeUses, ModeGets, Own
<1>7. {c, q, b} \cap Actors = {} /\ Needs(g) = {c, b} /\ Needs(x) = {c, b, q}
  BY OtherUses DEF Actors, Acting, ClientThread, Own
<1> HIDE DEF c, q, b, g, x, none, u
<1>8. A \in Seq(StepSet) /\ Gets(A) = {c}
  <2> HIDE DEF s
  <2> QED
    BY <1>1, <1>3, GetOne
<1>9. \A p \in Points(A) : p = PointAt({}, {c}, none, "abort")
  <2> HIDE DEF s
  <2> QED
    BY <1>1, <1>3, GetOne
<1>20. Taken4(s, q, none, b, none, g, none, x, none)
  BY <1>1, <1>3, GetFour
<1> HIDE DEF A, s
<1>10. s \in Seq(StepSet)
  BY <1>20 DEF Taken4
<1>11. Gets(s) = {q, b, g, x}
  BY <1>20 DEF Taken4
<1>12. \A p \in Points(s) :
         /\ p.fail = "abort"
         /\ \/ p.before = {} /\ p.get = {q} /\ p.undo = none
            \/ p.before = {q} /\ p.get = {b} /\ p.undo = none
            \/ p.before = {q, b} /\ p.get = {g} /\ p.undo = none
            \/ p.before = {q, b, g} /\ p.get = {x} /\ p.undo = none
  BY <1>20 DEF Taken4
<1>13. Aborts(s) /\ \A p \in Points(s) : p.undo = <<>> /\ p.get # {}
  BY <1>12 DEF Aborts, none
<1>14. ASSUME NEW p \in Points(A) PROVE ModePoint(p)
  <2>1. p.before = {} /\ p.fail = "abort" /\ p.undo = none /\ p.get = {c}
    BY <1>9, PointFields
  <2>2. Undoable(p)
    BY <2>1, <1>4 DEF Undoable
  <2>3. Actors \cap p.get = {}
    BY <2>1, <1>7
  <2> QED
    BY <2>1, <2>2, <2>3, <1>2, <1>4, PlainModePoint
<1>15. ASSUME NEW p \in Points(s), NEW a \in Actors \cap p.get
       PROVE  Needs(a) \subseteq ((Gets(A) \cup p.before) \ Optional) \cup {Ctx}
  <2>1. \/ a = g /\ {q, b} \subseteq p.before
        \/ a = x /\ {q, b} \subseteq p.before
    BY <1>7, <1>12
  <2> QED
    BY <2>1, <1>2, <1>7, <1>8
<1>16. ModeWith(A, s, u)
  BY <1>2, <1>3, <1>4, <1>6, <1>8, <1>10, <1>11, <1>13, <1>14, <1>15 DEF ModeWith
<1> QED
  BY <1>5, <1>16, ModeWithPoints

LEMMA ControllerPoints ==
  ASSUME node \in Nodes, node.mode = "CONTROLLER"
  PROVE  ModeOK(ControllerSteps(node.zero_copy))
<1> DEFINE e == <<"controller", "event_queue">>  g == <<"controller", "registered">>
           y == <<"controller", "strategy">>  m == <<"controller", "motors">>
           c == <<"controller", "client">>  d == <<"controller", "client_thread">>
           x == <<"controller", "monitoring">>
           none == <<>>  u == <<e>>  z == CommandClientStart
           w == InTurn4(e, none, g, u, y, u, m, none)
           v == <<z>>  A == w \o Ignored(v, "next")  s == <<Get(x, none)>>
<1>1. e \in Thing /\ g \in Thing /\ y \in Thing /\ m \in Thing /\ c \in Thing /\ d \in Thing
      /\ x \in Thing
  BY ThingType DEF Kinds, Owner
<1>2. /\ e # g /\ e # y /\ e # m /\ e # x /\ g # y /\ g # m /\ g # x /\ y # m /\ y # x /\ m # x
      /\ Optional = {c, d} /\ (\A r \in {e, g, y, m, x} : r \notin Optional) /\ m = ControllerMotors
      /\ \A r \in {e, g, y, m, c, d, x} : r[1] # "cyclic"
  BY DEF Optional, Client, ClientThread, ControllerMotors
<1>3. none \in Seq(Thing) /\ u \in Seq(Thing)
  BY <1>1, NoThing, OneThing
<1>4. Released(none) = {} /\ Once(none) /\ Released(u) = {e} /\ Once(u)
  BY <1>1, NoThing, OneThing
<1>5. ControllerSteps(node.zero_copy) = A \o Inside(s \o CyclicTaskInit(node.zero_copy), u)
  BY DEF ControllerSteps, InTurn4
<1>6. ModeUses = {e, y, m, x} /\ ModeGets = {e, g, y, m, c, d, x}
  BY DEF ModeUses, ModeGets, Own
<1>7. {e, y, m, c, d, x} \cap Actors = {} /\ Needs(g) = {e}
  BY OtherUses DEF Actors, Acting, ClientThread
<1>8. none = <<>>
  OBVIOUS
<1>24. z \in StepSet /\ z.get = {c, d} /\ z.undo = none
  BY <1>1, <1>3 DEF CommandClientStart, StepSet
<1> HIDE DEF e, g, y, m, c, d, x, none, u, z
<1>30. Taken4(w, e, none, g, u, y, u, m, none)
  BY <1>1, <1>3, GetFour
<1>9. w \in Seq(StepSet)
  <2> HIDE DEF s, v, w
  <2> QED
    BY <1>30 DEF Taken4
<1>10. Gets(w) = {e, g, y, m}
  <2> HIDE DEF s, v, w
  <2> QED
    BY <1>30 DEF Taken4
<1>11. \A p \in Points(w) :
         /\ p.fail = "abort"
         /\ \/ p.before = {} /\ p.get = {e} /\ p.undo = none
            \/ p.before = {e} /\ p.get = {g} /\ p.undo = u
            \/ p.before = {e, g} /\ p.get = {y} /\ p.undo = u
            \/ p.before = {e, g, y} /\ p.get = {m} /\ p.undo = none
  <2> HIDE DEF s, v, w
  <2> QED
    BY <1>30 DEF Taken4
<1>12. v \in Seq(StepSet) /\ Gets(v) = {c, d} /\ \A p \in Points(v) : p = PointAt({}, {c, d}, none, z.fail)
  <2> HIDE DEF s, w
  <2> QED
    BY <1>24, OneStep
<1>13. s \in Seq(StepSet) /\ Gets(s) = {x} /\ \A p \in Points(s) : p = PointAt({}, {x}, none, "abort")
  <2> HIDE DEF v, w
  <2> QED
    BY <1>1, <1>3, GetOne
<1> HIDE DEF s, v, w
<1> DEFINE ignored == Ignored(v, "next")
<1>14. /\ ignored \in Seq(StepSet) /\ Gets(ignored) = {c, d}
       /\ \A p \in Points(ignored) : p.before = {} /\ p.get = {c, d} /\ p.undo = none /\ p.fail = "next"
  <2>1. /\ ignored \in Seq(StepSet) /\ Gets(ignored) = Gets(v)
        /\ \A p \in Points(ignored) : \E q \in Points(v) : p = PointAt(q.before, q.get, q.undo, "next")
    BY <1>12, StepsIgnored
  <2> HIDE DEF ignored
  <2> QED
    BY <2>1, <1>12, PointFields
<1> HIDE DEF ignored
<1>15. /\ A \in Seq(StepSet) /\ Gets(A) = Gets(w) \cup Gets(ignored)
       /\ \A p \in Points(A) :
            p \in Points(w) \/ \E q \in Points(ignored) :
                                 p = PointAt(Gets(w) \cup q.before, q.get, q.undo, q.fail)
  BY <1>9, <1>14, StepsConcat DEF ignored
<1> HIDE DEF A
<1>16. Gets(A) = {e, g, y, m, c, d}
  BY <1>10, <1>14, <1>15
<1>17. ASSUME NEW p \in Points(w) PROVE ModePoint(p)
  <2>1. p.fail = "abort" /\ p.get # {} /\ Undoable(p)
    BY <1>4, <1>11 DEF Undoable
  <2>2. p.before \cup p.get \subseteq {e, g, y, m} /\ Released(p.undo) \subseteq {e}
    BY <1>4, <1>11
  <2>3. \A a \in Actors \cap p.get : a = g /\ e \in p.before
    BY <1>7, <1>11
  <2>4. \A a \in Actors \cap p.get : Needs(a) \subseteq (p.before \ Optional) \cup {Ctx}
    <3>1. e \notin Optional
      BY <1>2
    <3> QED
      BY <2>3, <3>1, <1>7
  <2> QED
    BY <2>1, <2>2, <2>4, <1>2, PlainModePoint
<1>18. ASSUME NEW p, NEW q \in Points(ignored), p = PointAt(Gets(w) \cup q.before, q.get, q.undo, q.fail)
       PROVE  ModePoint(p)
  <2> DEFINE H == Gets(w) \cup q.before
  <2>1. q.before = {} /\ q.get = {c, d} /\ q.undo = none /\ q.fail = "next"
    BY <1>14
  <2>2. H = {e, g, y, m}
    BY <2>1, <1>10
  <2> HIDE DEF H
  <2>3. p.before = H /\ p.get = {c, d} /\ p.undo = none /\ p.fail = "next"
    BY <1>18, <2>1, PointFields DEF H
  <2>4. Undoable(p) /\ Released(p.undo) = {}
    BY <2>3, <1>4 DEF Undoable
  <2>5. Actors \cap p.get = {}
    BY <2>3, <1>7
  <2>6. Thread \notin p.before /\ Timer \notin p.before
    BY <2>2, <2>3, <1>2 DEF Thread, Timer
  <2>7. \A r \in p.before : r[1] # "cyclic"
    BY <2>2, <2>3, <1>2
  <2> QED
    BY <2>3, <2>4, <2>5, <2>6, <2>7, <1>2, <1>8 DEF ModePoint
<1>19. ASSUME NEW p \in Points(s)
       PROVE  p.fail = "abort" /\ p.undo = none /\ p.get = {x}
  BY <1>13, PointFields
<1>20. Aborts(s) /\ \A p \in Points(s) : p.undo = <<>> /\ p.get # {}
  BY <1>8, <1>19 DEF Aborts
<1>21. \A p \in Points(s) : Actors \cap p.get = {}
  BY <1>7, <1>19
<1>22. ModeWith(A, s, u)
  <2>1. \A p \in Points(A) : ModePoint(p)
    BY <1>15, <1>17, <1>18
  <2>2. /\ \A r \in Gets(A) \cup Gets(s) : r[1] # "cyclic"
        /\ Optional \cap (Released(u) \cup Gets(s)) = {} /\ ControllerMotors \notin Released(u)
        /\ ModeUses \subseteq (Gets(A) \cup Gets(s)) \ Optional
    BY <1>2, <1>4, <1>6, <1>13, <1>16
  <2>3. /\ ModeGets = Gets(A) \cup Gets(s)
        /\ Released(u) \subseteq Gets(A) /\ Released(u) \cap Gets(s) = {}
    BY <1>2, <1>4, <1>6, <1>13, <1>16
  <2> QED
    BY <2>1, <2>2, <2>3, <1>3, <1>4, <1>13, <1>15, <1>20, <1>21 DEF ModeWith
<1>23. ModeOK(A \o Inside(s \o CyclicTaskInit(node.zero_copy), u))
  BY <1>22, ModeWithPoints
<1> QED
  BY <1>5, <1>23 DEF A

LEMMA NetworkOnlyPoints ==
  ASSUME node \in Nodes, node.mode = "NETWORK_ONLY"
  PROVE  ModeOK(CyclicTaskInit(node.zero_copy))
<1> DEFINE C == CyclicTaskInit(node.zero_copy)
<1>1. C \in Seq(StepSet) /\ Gets(C) = CyclicGets /\ Aborts(C)
  BY NodeType, CyclicTaskInitPoints DEF CyclicGets
<1>2. \A q \in Points(C) : Undoable(q) /\ (Thread \in q.before => StartsWith(q.undo, Thread))
  BY NodeType, CyclicTaskInitPoints
<1> HIDE DEF C
<1>3. ModeGets = {} /\ ModeUses = {}
  BY DEF ModeGets, ModeUses
<1>4. ASSUME NEW p \in Points(C) PROVE ModePoint(p)
  <2> DEFINE H == {}  V == {}
  <2>1. /\ \A r \in H \cup V : r[1] # "cyclic"
        /\ Optional \cap V = {} /\ ControllerMotors \notin V
        /\ ModeUses \subseteq H \ Optional
        /\ p.before = H \cup p.before /\ Released(p.undo) \cup V = Released(p.undo)
    BY <1>3
  <2>2. p.fail = "abort" /\ Undoable(p) /\ (Thread \in p.before => StartsWith(p.undo, Thread))
    BY <1>1, <1>2 DEF Aborts
  <2>3. p \in Points(CyclicTaskInit(node.zero_copy)) /\ p.get = p.get
    BY DEF C
  <2> HIDE DEF H, V
  <2> QED
    BY <2>1, <2>2, <2>3, CyclicModePoint
<1> QED
  BY <1>1, <1>3, <1>4 DEF ModeOK, C

LEMMA ModePoints == ASSUME node \in Nodes PROVE ModeOK(ModeSteps)
<1>1. CASE node.mode = "CONTROLLER"
  BY <1>1, ControllerPoints DEF ModeSteps
<1>2. CASE node.mode = "IO_DEVICE"
  BY <1>2, IoDevicePoints DEF ModeSteps
<1>3. CASE node.mode = "SERIAL"
  BY <1>3, SerialPoints DEF ModeSteps
<1>4. CASE node.mode = "NETWORK_ONLY"
  BY <1>4, NetworkOnlyPoints DEF ModeSteps
<1> QED
  BY <1>1, <1>2, <1>3, <1>4, NodeType

-----------------------------------------------------------------------------
(* The start of the application                                            *)

Main == <<Get(Ctx, <<>>)>> \o Inside(ModeSteps, <<Ctx>>)
MainGets == {Ctx} \cup ModeGets \cup CyclicGets

\* Where the start fails before the alarm task.
MainPoint(p) ==
  /\ p.fail \in {"abort", "next"} /\ Undoable(p)
  /\ \A r \in p.before \ Released(p.undo) :
       r[1] # "cyclic" \/ r \in Own("cyclic", Unfreed(node.zero_copy))
  /\ Optional \cap Released(p.undo) = {} /\ ControllerMotors \notin Released(p.undo)
  /\ \A a \in Actors \cap p.get : Needs(a) \subseteq p.before \ Optional
  /\ Thread \in p.before => StartsWith(p.undo, Thread)
  /\ Timer \notin p.before
  /\ p.fail = "next" => p.get = Optional /\ p.undo = <<>>
  /\ Optional \cap p.get = {} \/ Optional \subseteq p.get

\* Only the cyclic task has cyclic things, and nothing before the alarm task is of the alarm.
LEMMA MainGetsParts ==
  /\ Ctx \notin ModeGets \cup CyclicGets /\ Ctx \notin Optional /\ Ctx # ControllerMotors /\ Ctx \notin Actors
  /\ \A r \in MainGets : r[1] # "alarm" /\ (r[1] = "cyclic" => r \in CyclicGets)
<1>1. \A r \in ModeGets : r[1] \in {"controller", "io_device", "serial"}
  BY OwnFirst DEF ModeGets
<1>2. \A r \in CyclicGets : r[1] = "cyclic"
  BY OwnFirst DEF CyclicGets, Thread, Timer
<1>3. Ctx[1] = "app" /\ Ctx \in {Ctx}
  BY DEF Ctx
<1>4. Ctx \notin Optional /\ Ctx # ControllerMotors /\ Ctx \notin Actors
  BY DEF Ctx, Optional, Client, ClientThread, ControllerMotors, Actors, Acting
<1> QED
  BY <1>1, <1>2, <1>3, <1>4 DEF MainGets

\* A failure before the alarm task leaves nothing of the cyclic task, and undoes the thread first.
LEMMA MainPoints ==
  ASSUME node \in Nodes
  PROVE  Main \in Seq(StepSet) /\ Gets(Main) = MainGets /\ \A p \in Points(Main) : MainPoint(p)
<1> DEFINE t == ModeSteps
<1>1. t \in Seq(StepSet) /\ Gets(t) = ModeGets \cup CyclicGets /\ \A q \in Points(t) : ModePoint(q)
  BY ModePoints DEF ModeOK
<1>2. Ctx \in Thing
  BY ThingType DEF Kinds, Owner, Ctx
<1> HIDE DEF t
<1>3. Ctx \notin Gets(t)
  BY <1>1, MainGetsParts
<1>4. \A q \in Points(t) : Undoable(q)
  BY <1>1 DEF ModePoint
<1> DEFINE w == <<Get(Ctx, <<>>)>> \o Inside(t, <<Ctx>>)
<1>5. w \in Seq(StepSet)
  BY <1>1, <1>2, <1>3, <1>4, Layer
<1>6. Gets(w) = {Ctx} \cup Gets(t)
  BY <1>1, <1>2, <1>3, <1>4, Layer
<1>7. \A p \in Points(w) :
        /\ Undoable(p)
        /\ \/ p.before = {} /\ p.get = {Ctx} /\ p.undo = <<>> /\ p.fail = "abort"
           \/ \E q \in Points(t) :
                /\ p.before = {Ctx} \cup q.before /\ p.get = q.get /\ p.fail = q.fail
                /\ p.undo = IF q.fail = "abort" THEN q.undo \o <<Ctx>> ELSE q.undo
                /\ q.fail = "abort" => Released(q.undo) \cup {Ctx} = Released(p.undo)
  BY <1>1, <1>2, <1>3, <1>4, Layer
<1> HIDE DEF w
<1>8. ASSUME NEW p, Undoable(p), p.before = {}, p.get = {Ctx}, p.undo = <<>>, p.fail = "abort"
      PROVE  MainPoint(p)
  <2>1. Released(p.undo) = {} /\ Actors \cap p.get = {} /\ Optional \cap p.get = {}
    BY <1>8, NoThing, MainGetsParts
  <2> QED
    BY <1>8, <2>1 DEF MainPoint
<1>9. ASSUME NEW p, NEW q \in Points(t), Undoable(p),
             p.before = {Ctx} \cup q.before, p.get = q.get, p.fail = q.fail,
             p.undo = IF q.fail = "abort" THEN q.undo \o <<Ctx>> ELSE q.undo,
             q.fail = "abort" => Released(q.undo) \cup {Ctx} = Released(p.undo)
      PROVE  MainPoint(p)
  <2>1. /\ q.fail \in {"abort", "next"}
        /\ \A r \in q.before \ Released(q.undo) :
             r[1] # "cyclic" \/ r \in Own("cyclic", Unfreed(node.zero_copy))
        /\ Optional \cap Released(q.undo) = {} /\ ControllerMotors \notin Released(q.undo)
        /\ \A a \in Actors \cap q.get : Needs(a) \subseteq (q.before \ Optional) \cup {Ctx}
        /\ Thread \in q.before => StartsWith(q.undo, Thread)
        /\ Timer \notin q.before
        /\ q.fail = "next" => q.get = Optional /\ q.undo = <<>>
        /\ Optional \cap q.get = {} \/ Optional \subseteq q.get
    BY <1>1 DEF ModePoint
  <2>2. Released(q.undo) \subseteq Released(p.undo) /\ Released(p.undo) \subseteq Released(q.undo) \cup {Ctx}
    <3>1. CASE q.fail = "abort"
      BY <3>1, <1>9
    <3>2. CASE q.fail = "next"
      BY <3>2, <1>9
    <3> QED
      BY <2>1, <3>1, <3>2
  <2>3. Ctx \notin Optional /\ ControllerMotors # Ctx /\ Thread # Ctx /\ Timer # Ctx /\ Ctx[1] # "cyclic"
    BY MainGetsParts DEF Thread, Timer, Ctx
  <2>4. Thread \in p.before => StartsWith(p.undo, Thread)
    <3>1. q.undo \in Seq(Thing) /\ <<Ctx>> \in Seq(Thing) /\ Thread \in Thing
      BY <1>1, <1>2, PointType, OneThing, ThingType DEF Kinds, Owner, Thread
    <3>2. StartsWith(q.undo, Thread) => StartsWith(q.undo \o <<Ctx>>, Thread)
      BY <3>1, StartsConcat
    <3>3. Thread \in p.before => StartsWith(q.undo, Thread)
      BY <1>9, <2>1, <2>3
    <3> QED
      BY <1>9, <3>2, <3>3
  <2>5. \A a \in Actors \cap p.get : Needs(a) \subseteq p.before \ Optional
    BY <1>9, <2>1, <2>3
  <2>6. \A r \in p.before \ Released(p.undo) :
          r[1] # "cyclic" \/ r \in Own("cyclic", Unfreed(node.zero_copy))
    BY <1>9, <2>1, <2>2, <2>3
  <2>7. Optional \cap Released(p.undo) = {} /\ ControllerMotors \notin Released(p.undo) /\ Timer \notin p.before
    BY <1>9, <2>1, <2>2, <2>3
  <2>8. /\ p.fail = "next" => p.get = Optional /\ p.undo = <<>>
        /\ Optional \cap p.get = {} \/ Optional \subseteq p.get
    BY <1>9, <2>1
  <2> QED
    BY <1>9, <2>1, <2>4, <2>5, <2>6, <2>7, <2>8 DEF MainPoint
<1>10. \A p \in Points(w) : MainPoint(p)
  BY <1>7, <1>8, <1>9
<1>11. Gets(w) = MainGets
  BY <1>1, <1>6 DEF MainGets
<1> QED
  BY <1>5, <1>10, <1>11 DEF w, t, Main

AlarmThread == <<"alarm", "thread">>

AlarmGets ==
  Own("alarm", IF node.alarm = "monitor"
               THEN {"queue", "task", "thread", "rx_sock", "rx_iovec"}
               ELSE {"task", "thread", "tx_sock", "tx_iovec"}
                      \cup IF node.zero_copy THEN {"tx_buffers"} ELSE {})

\* Where the start of the alarm task fails.
AlarmPoint(p) ==
  /\ Undoable(p)
  /\ p.get = {} \/ p.before \ Released(p.undo) \subseteq Own("alarm", Unfreed(node.zero_copy))
  /\ AlarmThread \in p.before => p.get = {}
  /\ AlarmThread \in p.get => Needs(AlarmThread) \subseteq p.before \cup {Ctx}

\* A failure of alarm_task_io_init leaves nothing but what a zero copy socket cannot free; one of
\* alarm_task_monitor_init neither, unless the callback cannot be set.
LEMMA AlarmIoPoints ==
  ASSUME node \in Nodes, node.alarm = "io_device"
  PROVE  LET t == AlarmSteps(node) IN
         /\ t \in Seq(StepSet) /\ Gets(t) = AlarmGets
         /\ \A p \in Points(t) : AlarmPoint(p)
<1> DEFINE t == TaskRegister("alarm", FALSE, TRUE, node.zero_copy, FALSE)
           L == Own("alarm", Unfreed(node.zero_copy))
           G == Own("alarm", {"task"} \cup NetNames(FALSE, TRUE))
<1>1. AlarmSteps(node) = t
  BY DEF AlarmSteps
<1>2. "alarm" \in Owner /\ node.zero_copy \in BOOLEAN
  BY NodeType DEF Owner
<1>20. Registers(t, "alarm", FALSE, TRUE, node.zero_copy, FALSE)
  BY <1>2, TaskRegisterPoints
<1>3. t \in Seq(StepSet)
  <2> HIDE DEF t
  <2> QED
    BY <1>20 DEF Registers
<1>4. Gets(t) = Own("alarm", {"task", "thread"} \cup NetNames(FALSE, TRUE)
                               \cup (IF TRUE /\ node.zero_copy THEN {"tx_buffers"} ELSE {})
                               \cup IF FALSE THEN {"timer"} ELSE {})
  <2> HIDE DEF t
  <2> QED
    BY <1>20 DEF Registers
<1>5. \A p \in Points(t) :
        /\ Undoable(p)
        /\ p.before \ Released(p.undo) \subseteq L
        /\ <<"alarm", "thread">> \in p.get => G \subseteq p.before
        /\ <<"alarm", "thread">> \in p.before => FALSE /\ StartsWith(p.undo, <<"alarm", "thread">>)
  <2> HIDE DEF t
  <2> QED
    BY <1>20 DEF Registers
<1>6. Gets(t) = AlarmGets
  BY <1>4 DEF AlarmGets, Own, NetNames
<1>7. Needs(AlarmThread) = G \cup {Ctx}
  BY OtherUses DEF Own, NetNames, AlarmThread
<1> HIDE DEF t, L, G
<1>8. \A p \in Points(t) : AlarmPoint(p)
  BY <1>5, <1>7 DEF AlarmPoint, AlarmThread, L
<1> QED
  BY <1>1, <1>3, <1>6, <1>8

LEMMA AlarmMonitorPoints ==
  ASSUME node \in Nodes, node.alarm = "monitor"
  PROVE  LET t == AlarmSteps(node) IN
         /\ t \in Seq(StepSet) /\ Gets(t) = AlarmGets
         /\ \A p \in Points(t) : AlarmPoint(p)
<1> DEFINE t == TaskRegister("alarm", TRUE, FALSE, node.zero_copy, FALSE)
           L == Own("alarm", Unfreed(node.zero_copy))
           G == Own("alarm", {"task"} \cup NetNames(TRUE, FALSE))
           x == Call("tsn_net_receive_set_cb", <<>>)  e == <<"alarm", "queue">>
           T == t \o <<x>>  w == <<Get(e, <<>>)>> \o Inside(T, <<e>>)
<1>1. AlarmSteps(node) = w
  BY DEF AlarmSteps
<1>2. "alarm" \in Owner /\ node.zero_copy \in BOOLEAN
  BY NodeType DEF Owner
<1>20. Registers(t, "alarm", TRUE, FALSE, node.zero_copy, FALSE)
  BY <1>2, TaskRegisterPoints
<1>3. t \in Seq(StepSet) /\ Aborts(t)
  <2> HIDE DEF t
  <2> QED
    BY <1>20 DEF Registers
<1>4. Gets(t) = Own("alarm", {"task", "thread"} \cup NetNames(TRUE, FALSE)
                               \cup (IF FALSE /\ node.zero_copy THEN {"tx_buffers"} ELSE {})
                               \cup IF FALSE THEN {"timer"} ELSE {})
  <2> HIDE DEF t
  <2> QED
    BY <1>20 DEF Registers
<1>5. \A p \in Points(t) :
        /\ Undoable(p)
        /\ p.before \ Released(p.undo) \subseteq L
        /\ <<"alarm", "thread">> \in p.get => G \subseteq p.before
        /\ <<"alarm", "thread">> \in p.before => FALSE /\ StartsWith(p.undo, <<"alarm", "thread">>)
  <2> HIDE DEF t
  <2> QED
    BY <1>20 DEF Registers
<1>6. {e} \cup Gets(t) = AlarmGets
  BY <1>4 DEF AlarmGets, Own, NetNames
<1>7. Needs(AlarmThread) = G \cup {Ctx, e}
  BY OtherUses DEF Own, NetNames, AlarmThread
<1>8. x \in StepSet /\ x.get = {} /\ x.undo = <<>> /\ x.fail = "abort"
  BY NoThing DEF Call, StepSet
<1>9. e \in Thing /\ e \notin Gets(t) /\ e # AlarmThread
  BY <1>2, <1>4, ThingType DEF Kinds, Own, NetNames, AlarmThread
<1> HIDE DEF t, L, G, x, e
<1> DEFINE y == <<x>>
<1>10. y \in Seq(StepSet) /\ Gets(y) = {} /\ \A p \in Points(y) : p = PointAt({}, {}, x.undo, "abort")
  BY <1>8, OneStep
<1> HIDE DEF y
<1>11. /\ T \in Seq(StepSet) /\ Gets(T) = Gets(t) \cup Gets(y)
       /\ \A p \in Points(T) :
            p \in Points(t) \/ \E q \in Points(y) :
                                 p = PointAt(Gets(t) \cup q.before, q.get, q.undo, q.fail)
  BY <1>3, <1>10, StepsConcat DEF y
<1> HIDE DEF T
<1>12. ASSUME NEW p \in Points(T)
       PROVE  /\ Undoable(p) /\ p.fail = "abort"
              /\ p.get = {} \/ p.before \ Released(p.undo) \subseteq L
              /\ AlarmThread \in p.before => p.get = {}
              /\ AlarmThread \in p.get => G \subseteq p.before
  <2>1. CASE p \in Points(t)
    BY <2>1, <1>3, <1>5 DEF AlarmThread, Aborts
  <2>2. ASSUME NEW q \in Points(y), p = PointAt(Gets(t) \cup q.before, q.get, q.undo, q.fail)
        PROVE  Undoable(p) /\ p.fail = "abort" /\ p.get = {}
    <3>1. q.get = {} /\ q.undo = <<>> /\ q.fail = "abort"
      BY <1>8, <1>10, PointFields
    <3> DEFINE H == Gets(t) \cup q.before
    <3>2. p = PointAt(H, q.get, q.undo, q.fail)
      BY <2>2
    <3> HIDE DEF H
    <3>3. p.get = {} /\ p.undo = <<>> /\ p.fail = "abort"
      BY <3>1, <3>2, PointFields
    <3> QED
      BY <3>3, NoThing DEF Undoable
  <2> QED
    BY <1>11, <2>1, <2>2
<1>13. e \notin Gets(T) /\ Gets(T) = Gets(t)
  BY <1>9, <1>10, <1>11
<1>14. \A q \in Points(T) : Undoable(q)
  BY <1>12
<1>15. w \in Seq(StepSet)
  BY <1>9, <1>11, <1>13, <1>14, Layer
<1>16. Gets(w) = {e} \cup Gets(T)
  BY <1>9, <1>11, <1>13, <1>14, Layer
<1>17. \A p \in Points(w) :
         /\ Undoable(p)
         /\ \/ p.before = {} /\ p.get = {e} /\ p.undo = <<>> /\ p.fail = "abort"
            \/ \E q \in Points(T) :
                 /\ p.before = {e} \cup q.before /\ p.get = q.get /\ p.fail = q.fail
                 /\ p.undo = IF q.fail = "abort" THEN q.undo \o <<e>> ELSE q.undo
                 /\ q.fail = "abort" => Released(q.undo) \cup {e} = Released(p.undo)
  BY <1>9, <1>11, <1>13, <1>14, Layer
<1> HIDE DEF w
<1>18. ASSUME NEW p \in Points(w) PROVE AlarmPoint(p)
  <2>1. CASE p.before = {} /\ p.get = {e}
    BY <2>1, <1>9, <1>17 DEF AlarmPoint
  <2>2. ASSUME NEW q \in Points(T), p.before = {e} \cup q.before, p.get = q.get,
               Released(q.undo) \cup {e} = Released(p.undo)
        PROVE  AlarmPoint(p)
    <3>1. Undoable(p)
      BY <1>17
    <3>2. /\ q.get = {} \/ q.before \ Released(q.undo) \subseteq L
          /\ AlarmThread \in q.before => q.get = {}
          /\ AlarmThread \in q.get => G \subseteq q.before
      BY <1>12
    <3>3. p.get = {} \/ p.before \ Released(p.undo) \subseteq L
      BY <2>2, <3>2
    <3>4. AlarmThread \in p.before => p.get = {}
      BY <2>2, <3>2, <1>9
    <3>5. AlarmThread \in p.get => Needs(AlarmThread) \subseteq p.before \cup {Ctx}
      BY <2>2, <3>2, <1>7
    <3> QED
      BY <3>1, <3>3, <3>4, <3>5 DEF AlarmPoint, L
  <2>3. \A q \in Points(T) : q.fail = "abort"
    BY <1>12
  <2> QED
    BY <1>17, <2>1, <2>2, <2>3
<1>19. Gets(w) = AlarmGets
  BY <1>6, <1>13, <1>16
<1> QED
  BY <1>1, <1>15, <1>18, <1>19

\* Where the start fails.
AppPoint(p) ==
  /\ p.fail \in {"abort", "next", "done"} /\ Undoable(p) /\ p.undo \in Seq(Thing)
  /\ Optional \cap Released(p.undo) = {} /\ ControllerMotors \notin Released(p.undo)
  /\ \A a \in Actors \cap p.get : Needs(a) \subseteq p.before \ Optional
  /\ \A a \in {Thread, Timer} \cap p.before : Precedes(p.undo, a, Needs(a))
  /\ Thread \in p.before /\ Timer \in p.get => StartsWith(p.undo, Thread)
  /\ Timer \notin Released(p.undo)
  /\ Optional \cap p.get = {} \/ Optional \subseteq p.get
  /\ AlarmThread \in p.before => p.get = {}
  /\ p.fail = "abort" =>
       \A r \in p.before \ Released(p.undo) :
         r[1] = "cyclic" => r \in Own("cyclic", Unfreed(node.zero_copy))
  /\ p.fail = "next" => p.get = Optional /\ p.undo = <<>>
  /\ p.fail # "done" => p.before \cup p.get \subseteq MainGets
  /\ p.fail = "done" =>
       /\ MainGets \subseteq p.before
       /\ \A r \in Released(p.undo) : r[1] = "alarm"
       /\ \/ p.get = {}
          \/ \A r \in p.before \ Released(p.undo) :
               r[1] = "alarm" => r \in Own("alarm", Unfreed(node.zero_copy))

AppGets == MainGets \cup AlarmGets

\* The cyclic task uses nothing of the alarm task.
LEMMA OthersUse ==
  \A r : r[1] = "alarm" => r \notin Optional /\ r # ControllerMotors /\ r # Ctx /\ r \notin Needs(Thread) /\ r \notin Needs(Timer)
<1>1. /\ \A r \in Optional : r[1] # "alarm"
      /\ ControllerMotors[1] # "alarm" /\ Ctx[1] # "alarm"
  BY DEF Optional, Client, ClientThread, ControllerMotors, Ctx
<1>2. \A r \in Needs(Thread) : r[1] \in {"app", "cyclic", "controller", "io_device", "serial"}
  BY CyclicUses, OwnFirst, <1>1 DEF Ctx
<1>3. \A r \in Needs(Timer) : r[1] \in {"app", "cyclic"}
  BY CyclicUses DEF Ctx
<1> QED
  BY <1>1, <1>2, <1>3

\* Every failure of rtos_apps_tsn_init is undone as it should.
LEMMA AppPoints ==
  ASSUME node \in Nodes
  PROVE  LET s == AppSteps(node) IN
         /\ s \in Seq(StepSet) /\ Gets(s) = AppGets
         /\ \A p \in Points(s) : AppPoint(p)
<1> DEFINE t == AlarmSteps(node)  g == Ignored(t, "done")  w == Main \o g
<1>1. AppSteps(node) = w
  BY DEF AppSteps, Main, ModeSteps, Ctx
<1>2. Main \in Seq(StepSet) /\ Gets(Main) = MainGets /\ \A p \in Points(Main) : MainPoint(p)
  BY MainPoints
<1>3. t \in Seq(StepSet) /\ Gets(t) = AlarmGets /\ \A p \in Points(t) : AlarmPoint(p)
  BY NodeType, AlarmIoPoints, AlarmMonitorPoints
<1> HIDE DEF t
<1>4. /\ g \in Seq(StepSet) /\ Gets(g) = Gets(t)
      /\ \A p \in Points(g) : \E q \in Points(t) : p = PointAt(q.before, q.get, q.undo, "done")
  BY <1>3, StepsIgnored
<1> HIDE DEF g
<1>5. /\ w \in Seq(StepSet) /\ Gets(w) = Gets(Main) \cup Gets(g)
      /\ \A p \in Points(w) :
           p \in Points(Main) \/ \E x \in Points(g) :
                                   p = PointAt(Gets(Main) \cup x.before, x.get, x.undo, x.fail)
  BY <1>2, <1>4, StepsConcat
<1> HIDE DEF w
<1>6. \A r \in AlarmGets : r[1] = "alarm"
  BY OwnFirst DEF AlarmGets
<1>7. \A r \in MainGets : r[1] # "alarm"
  BY MainGetsParts
<1>8. ASSUME NEW p \in Points(Main) PROVE AppPoint(p)
  <2>1. p.before \subseteq MainGets /\ p.get \subseteq MainGets /\ p.undo \in Seq(Thing)
    BY <1>2, PointType
  <2>2. MainPoint(p)
    BY <1>2
  <2>3. Thread \in p.before => Precedes(p.undo, Thread, Needs(Thread))
    <3>1. Thread \notin Needs(Thread)
      BY CyclicUses DEF Thread, Own, Frames, Ctx
    <3>2. Thread \in Thing
      BY ThingType DEF Kinds, Owner, Thread
    <3>3. ASSUME Thread \in p.before PROVE Precedes(p.undo, Thread, Needs(Thread))
      <4>1. PICK v \in Seq(Thing) : p.undo = <<Thread>> \o v
        BY <3>3, <2>2 DEF MainPoint, StartsWith
      <4> QED
        BY <4>1, <3>1, <3>2, PrecedesFirst
    <3> QED
      BY <3>3
  <2>4. AlarmThread \notin p.before
    BY <2>1, <1>7 DEF AlarmThread
  <2>5. Timer \notin Released(p.undo)
    BY <2>2 DEF MainPoint, Undoable
  <2> QED
    BY <2>1, <2>2, <2>3, <2>4, <2>5 DEF AppPoint, MainPoint
<1>9. ASSUME NEW p, NEW x \in Points(g), p = PointAt(Gets(Main) \cup x.before, x.get, x.undo, x.fail)
      PROVE  AppPoint(p)
  <2>1. PICK q \in Points(t) : x = PointAt(q.before, q.get, q.undo, "done")
    BY <1>4
  <2> DEFINE H == Gets(Main) \cup x.before
  <2>2. x.before = q.before /\ x.get = q.get /\ x.undo = q.undo /\ x.fail = "done"
    BY <2>1, PointFields
  <2>3. H = MainGets \cup q.before
    BY <1>2, <2>2
  <2>4. p = PointAt(H, x.get, x.undo, x.fail)
    BY <1>9
  <2> HIDE DEF H
  <2>5. p.before = MainGets \cup q.before /\ p.get = q.get /\ p.undo = q.undo /\ p.fail = "done"
    BY <2>2, <2>3, <2>4, PointFields
  <2>6. AlarmPoint(q)
    BY <1>3
  <2>7. q.before \subseteq AlarmGets /\ q.get \subseteq AlarmGets /\ q.undo \in Seq(Thing)
    BY <1>3, PointType
  <2>8. Released(q.undo) \subseteq q.before /\ Once(q.undo)
    BY <2>6 DEF AlarmPoint, Undoable
  <2>9. \A r \in Released(q.undo) \cup q.before \cup q.get : r[1] = "alarm"
    BY <2>7, <2>8, <1>6
  <2>10. Undoable(p)
    BY <2>5, <2>8 DEF Undoable
  <2>11. \A a \in Actors \cap p.get : Needs(a) \subseteq p.before \ Optional
    <3>1. \A a \in Actors \cap p.get : a = AlarmThread
      BY <2>5, <2>9 DEF Actors, Acting, ClientThread, AlarmThread
    <3>2. AlarmThread \in q.get => Needs(AlarmThread) \subseteq p.before
      BY <2>5, <2>6 DEF AlarmPoint, MainGets
    <3>3. Optional \cap Needs(AlarmThread) = {}
      <4> DEFINE N == IF node.alarm = "monitor" THEN {"queue", "rx_sock", "rx_iovec"}
                                                ELSE {"tx_sock", "tx_iovec"}
      <4>1. Needs(AlarmThread) = {Ctx, <<"alarm", "task">>} \cup Own("alarm", N)
        BY OtherUses DEF AlarmThread
      <4> HIDE DEF N
      <4>2. \A r \in Own("alarm", N) : r[1] = "alarm"
        BY OwnFirst
      <4> QED
        BY <4>1, <4>2, OthersUse, MainGetsParts
    <3> QED
      BY <3>1, <3>2, <3>3, <2>5
  <2>12. \A a \in {Thread, Timer} \cap p.before : Precedes(p.undo, a, Needs(a))
    BY <2>5, <2>9, OthersUse, PrecedesOthers
  <2>13. Optional \cap Released(p.undo) = {} /\ ControllerMotors \notin Released(p.undo)
    BY <2>5, <2>9, OthersUse
  <2>14. AlarmThread \in p.before => p.get = {}
    BY <2>5, <2>6, <1>7 DEF AlarmPoint, AlarmThread
  <2>15. \/ p.get = {}
         \/ \A r \in p.before \ Released(p.undo) :
              r[1] = "alarm" => r \in Own("alarm", Unfreed(node.zero_copy))
    BY <2>5, <2>6, <1>7 DEF AlarmPoint
  <2>16. Timer \notin p.get /\ Timer \notin Released(p.undo) /\ Optional \cap p.get = {}
    BY <2>5, <2>9, OthersUse DEF Timer
  <2> QED
    BY <2>5, <2>7, <2>9, <2>10, <2>11, <2>12, <2>13, <2>14, <2>15, <2>16 DEF AppPoint
<1>10. \A p \in Points(w) : AppPoint(p)
  BY <1>5, <1>8, <1>9
<1>11. Gets(w) = AppGets
  BY <1>2, <1>3, <1>4, <1>5 DEF AppGets
<1> QED
  BY <1>1, <1>5, <1>10, <1>11

-----------------------------------------------------------------------------
(* What an exit releases, in which order                                   *)

\* tsn_task_unregister stops the timer, then the thread, then frees what they use.
LEMMA TaskUnregisterReleases ==
  ASSUME NEW o \in Owner, NEW rx \in BOOLEAN, NEW tx \in BOOLEAN, NEW timer \in BOOLEAN
  PROVE  LET u == TaskUnregister(o, rx, tx, timer) IN
         /\ u \in Seq(Thing) /\ Once(u)
         /\ Own(o, {"task", "thread"} \cup NetNames(rx, tx) \cup IF timer THEN {"timer"} ELSE {})
              = Released(u)
         /\ \A U : <<o, "thread">> \notin U /\ <<o, "timer">> \notin U
                     => Precedes(u, <<o, "thread">>, U)
         /\ timer => \A U : <<o, "timer">> \notin U => Precedes(u, <<o, "timer">>, U)
         /\ NextTo(u, <<o, "timer">>, <<o, "thread">>)
<1> DEFINE a == <<o, "task">>  b == <<o, "thread">>  c == <<o, "timer">>
           X == Own(o, NetNames(rx, tx))  x == NetExit(o, rx, tx)
           f == When(timer, <<c>>)  g == <<b>>  h == <<a>>
           u == ((f \o g) \o x) \o h
<1>1. TaskUnregister(o, rx, tx, timer) = u
  BY DEF TaskUnregister
<1>2. a \in Thing /\ b \in Thing /\ c \in Thing /\ a # b /\ a # c /\ b # c
  BY ThingType DEF Kinds
<1>3. x \in Seq(Thing) /\ Once(x) /\ Released(x) = X
  BY NetExitReleases
<1>4. a \notin X /\ b \notin X /\ c \notin X
  BY DEF Own, NetNames
<1>5. Own(o, {"task", "thread"} \cup NetNames(rx, tx) \cup IF timer THEN {"timer"} ELSE {})
        = X \cup {a, b} \cup IF timer THEN {c} ELSE {}
  BY DEF Own
<1> HIDE DEF a, b, c, X, x
<1>6. /\ f \in Seq(Thing) /\ Once(f) /\ Released(f) = IF timer THEN {c} ELSE {}
  <2> DEFINE k == <<c>>
  <2>1. k \in Seq(Thing) /\ Once(k) /\ Released(k) = {c}
    BY <1>2, OneThing
  <2> HIDE DEF k
  <2> QED
    BY <2>1, NoThing DEF When, k
<1>7. /\ g \in Seq(Thing) /\ Once(g) /\ Released(g) = {b}
      /\ h \in Seq(Thing) /\ Once(h) /\ Released(h) = {a}
  BY <1>2, OneThing
<1>17. timer => f = <<c>>
  BY DEF When
<1>18. ASSUME timer PROVE NextTo(f \o g, c, b)
  BY <1>2, <1>17, <1>18, NextToPair
<1> HIDE DEF f, g, h
<1>8. /\ f \o g \in Seq(Thing) /\ Once(f \o g) /\ Released(f \o g) = Released(f) \cup Released(g)
  BY <1>2, <1>6, <1>7, ReleasedConcat
<1> DEFINE y == f \o g
<1>9. y \in Seq(Thing) /\ Once(y) /\ Released(y) = {b} \cup IF timer THEN {c} ELSE {}
  BY <1>6, <1>7, <1>8
<1> HIDE DEF y
<1>10. y \o x \in Seq(Thing) /\ Once(y \o x) /\ Released(y \o x) = Released(y) \cup Released(x)
  BY <1>3, <1>4, <1>9, ReleasedConcat
<1> DEFINE z == y \o x
<1>11. z \in Seq(Thing) /\ Once(z) /\ Released(z) = X \cup {b} \cup IF timer THEN {c} ELSE {}
  BY <1>3, <1>9, <1>10
<1> HIDE DEF z
<1>12. z \o h \in Seq(Thing) /\ Once(z \o h) /\ Released(z \o h) = Released(z) \cup Released(h)
  BY <1>2, <1>4, <1>7, <1>11, ReleasedConcat
<1>13. ASSUME NEW U, b \notin U, c \notin U PROVE Precedes(z \o h, b, U)
  <2>1. Precedes(f, b, U) /\ Precedes(g, b, U)
    BY <1>6, <1>7, <1>13, PrecedesOthers
  <2>2. Precedes(y, b, U)
    BY <2>1, <1>6, <1>7, PrecedesConcat DEF y
  <2>3. Precedes(z, b, U)
    BY <2>2, <1>3, <1>9, PrecedesConcat DEF z
  <2> QED
    BY <2>3, <1>7, <1>11, PrecedesConcat
<1>14. ASSUME timer, NEW U, c \notin U PROVE Precedes(z \o h, c, U)
  <2>1. Precedes(f, c, U)
    BY <1>6, <1>14, PrecedesOthers
  <2>2. Precedes(y, c, U)
    BY <2>1, <1>6, <1>7, <1>14, PrecedesConcat DEF y
  <2>3. Precedes(z, c, U)
    BY <2>2, <1>3, <1>9, <1>14, PrecedesConcat DEF z
  <2> QED
    BY <2>3, <1>7, <1>11, <1>14, PrecedesConcat
<1>15. Released(z \o h) = X \cup {a, b} \cup IF timer THEN {c} ELSE {}
  BY <1>7, <1>11, <1>12
<1>16. u = z \o h
  BY DEF z, y
<1>19. NextTo(z \o h, c, b)
  <2>1. NextTo(y, c, b)
    <3>1. CASE timer
      BY <3>1, <1>18 DEF y
    <3>2. CASE ~timer
      BY <3>2, <1>2, <1>9, NextToOthers
    <3> QED
      BY <3>1, <3>2
  <2>2. NextTo(x, c, b) /\ NextTo(h, c, b)
    BY <1>2, <1>3, <1>4, <1>7, NextToOthers
  <2>3. NextTo(z, c, b)
    BY <2>1, <2>2, <1>3, <1>9, NextToConcat DEF z
  <2> QED
    BY <2>2, <2>3, <1>7, <1>11, NextToConcat
<1> HIDE DEF u
<1> QED
  BY <1>1, <1>5, <1>12, <1>13, <1>14, <1>15, <1>16, <1>19 DEF b, c

CyclicExits == Own("cyclic", Frames) \cup {Thread, Timer}

\* cyclic_task_exit releases what the cyclic task has but its zero copy buffers, and only after
\* the timer and the thread, which use it.
LEMMA CyclicExitReleases ==
  /\ CyclicTaskExit \in Seq(Thing) /\ Once(CyclicTaskExit)
  /\ CyclicExits = Released(CyclicTaskExit)
  /\ Precedes(CyclicTaskExit, Thread, Needs(Thread))
  /\ Precedes(CyclicTaskExit, Timer, Needs(Timer))
  /\ NextTo(CyclicTaskExit, Timer, Thread)
<1> DEFINE u == TaskUnregister("cyclic", TRUE, TRUE, TRUE)  q == <<"cyclic", "queue">>
           S == {"task", "thread"} \cup NetNames(TRUE, TRUE) \cup IF TRUE THEN {"timer"} ELSE {}
<1>1. CyclicTaskExit = u \o <<q>>
  BY DEF CyclicTaskExit
<1>2. "cyclic" \in Owner
  BY DEF Owner
<1>3. u \in Seq(Thing) /\ Once(u)
  BY <1>2, TaskUnregisterReleases
<1>4. Own("cyclic", S) = Released(u)
  BY <1>2, TaskUnregisterReleases
<1>5. \A U : Thread \notin U /\ Timer \notin U => Precedes(u, Thread, U)
  BY <1>2, TaskUnregisterReleases DEF Thread, Timer
<1>6. \A U : Timer \notin U => Precedes(u, Timer, U)
  BY <1>2, TaskUnregisterReleases DEF Thread, Timer
<1>16. NextTo(u, Timer, Thread)
  BY <1>2, TaskUnregisterReleases DEF Thread, Timer
<1>7. /\ CyclicExits = Own("cyclic", S) \cup {q} /\ q \notin Own("cyclic", S)
      /\ Thread \in Own("cyclic", S) /\ Timer \in Own("cyclic", S)
  BY DEF CyclicExits, Own, NetNames, Frames, Thread, Timer
<1>8. q \in Thing
  BY <1>2, ThingType DEF Kinds
<1> HIDE DEF u, q, S
<1>9. <<q>> \in Seq(Thing) /\ Once(<<q>>) /\ Released(<<q>>) = {q}
  BY <1>8, OneThing
<1> DEFINE v == <<q>>
<1> HIDE DEF v
<1>10. v \in Seq(Thing) /\ Once(v) /\ Released(v) = {q}
  BY <1>9 DEF v
<1>11. u \o v \in Seq(Thing) /\ Once(u \o v) /\ Released(u \o v) = Released(u) \cup Released(v)
  BY <1>3, <1>4, <1>7, <1>10, ReleasedConcat
<1>12. Thread \notin Needs(Thread) /\ Timer \notin Needs(Thread) /\ Timer \notin Needs(Timer)
  BY CyclicUses DEF Thread, Timer, Own, Frames, Ctx
<1>13. Precedes(u \o v, Thread, Needs(Thread))
  BY <1>3, <1>4, <1>5, <1>7, <1>10, <1>12, PrecedesConcat
<1>14. Precedes(u \o v, Timer, Needs(Timer))
  BY <1>3, <1>4, <1>6, <1>7, <1>10, <1>12, PrecedesConcat
<1>15. NextTo(u \o v, Timer, Thread)
  <2>1. NextTo(v, Timer, Thread)
    BY <1>7, <1>10, NextToOthers
  <2> QED
    BY <2>1, <1>3, <1>16, <1>10, NextToConcat
<1> QED
  BY <1>1, <1>4, <1>7, <1>10, <1>11, <1>13, <1>14, <1>15 DEF v

\* What the alarm task has and gives back.
AlarmExits == AlarmGets \ {<<"alarm", "tx_buffers">>}

\* alarm_task_exit does the same for the alarm task.
LEMMA AlarmExitReleases ==
  ASSUME node \in Nodes
  PROVE  LET u == AlarmExit(node) IN
         /\ u \in Seq(Thing) /\ Once(u) /\ AlarmExits = Released(u)
         /\ Precedes(u, AlarmThread, Needs(AlarmThread))
<1> DEFINE q == <<"alarm", "queue">>  timer == <<"alarm", "timer">>
<1>1. "alarm" \in Owner
  BY DEF Owner
<1>2. AlarmThread \notin Needs(AlarmThread) /\ timer \notin Needs(AlarmThread)
  BY OtherUses DEF AlarmThread, Own, Ctx
<1>3. CASE node.alarm = "monitor"
  <2> DEFINE u == TaskUnregister("alarm", TRUE, FALSE, FALSE)
             S == {"task", "thread"} \cup NetNames(TRUE, FALSE) \cup IF FALSE THEN {"timer"} ELSE {}
             v == <<q>>
  <2>1. AlarmExit(node) = u \o v
    BY <1>3 DEF AlarmExit
  <2>2. u \in Seq(Thing) /\ Once(u)
    BY <1>1, TaskUnregisterReleases
  <2>3. Own("alarm", S) = Released(u)
    BY <1>1, TaskUnregisterReleases
  <2>4. Precedes(u, AlarmThread, Needs(AlarmThread))
    BY <1>1, <1>2, TaskUnregisterReleases DEF AlarmThread
  <2>5. AlarmExits = Own("alarm", S) \cup {q} /\ q \notin Own("alarm", S) /\ AlarmThread \in Own("alarm", S)
    BY <1>3 DEF AlarmExits, AlarmGets, Own, NetNames, AlarmThread
  <2>6. q \in Thing
    BY <1>1, ThingType DEF Kinds
  <2> HIDE DEF u, S, q
  <2>7. v \in Seq(Thing) /\ Once(v) /\ Released(v) = {q}
    BY <2>6, OneThing
  <2> HIDE DEF v
  <2>8. u \o v \in Seq(Thing) /\ Once(u \o v) /\ Released(u \o v) = Released(u) \cup Released(v)
    BY <2>2, <2>3, <2>5, <2>7, ReleasedConcat
  <2>9. Precedes(u \o v, AlarmThread, Needs(AlarmThread))
    BY <2>2, <2>3, <2>4, <2>5, <2>7, PrecedesConcat
  <2> QED
    BY <2>1, <2>3, <2>5, <2>7, <2>8, <2>9
<1>4. CASE node.alarm = "io_device"
  <2> DEFINE u == TaskUnregister("alarm", FALSE, TRUE, FALSE)
             S == {"task", "thread"} \cup NetNames(FALSE, TRUE) \cup IF FALSE THEN {"timer"} ELSE {}
  <2>1. AlarmExit(node) = u
    BY <1>4 DEF AlarmExit
  <2>2. u \in Seq(Thing) /\ Once(u)
    BY <1>1, TaskUnregisterReleases
  <2>3. Own("alarm", S) = Released(u)
    BY <1>1, TaskUnregisterReleases
  <2>4. Precedes(u, AlarmThread, Needs(AlarmThread))
    BY <1>1, <1>2, TaskUnregisterReleases DEF AlarmThread
  <2>5. AlarmExits = Own("alarm", S)
    BY <1>4 DEF AlarmExits, AlarmGets, Own, NetNames
  <2> HIDE DEF u, S
  <2> QED
    BY <2>1, <2>2, <2>3, <2>4, <2>5
<1> QED
  BY <1>3, <1>4, NodeType

IoExits == {"monitoring", "event_queue", "motors"}
ControllerExits == {"monitoring", "client_thread", "client", "registered", "event_queue", "strategy", "motors"}
SerialExits == {"thread", "sem", "queue", "ctx"}

LEMMA FourThings ==
  ASSUME NEW a \in Thing, NEW b \in Thing, NEW c \in Thing, NEW d \in Thing,
         a # b, a # c, a # d, b # c, b # d, c # d
  PROVE  /\ <<a, b, c, d>> \in Seq(Thing) /\ Once(<<a, b, c, d>>)
         /\ {a, b, c, d} = Released(<<a, b, c, d>>)
<1> DEFINE u == <<a, b, c, d>>
<1>1. u \in Seq(Thing)
  OBVIOUS
<1>2. DOMAIN u = 1..4 /\ u[1] = a /\ u[2] = b /\ u[3] = c /\ u[4] = d
  OBVIOUS
<1> HIDE DEF u
<1>3. \A k \in 1..4 : k = 1 \/ k = 2 \/ k = 3 \/ k = 4
  OBVIOUS
<1>4. Once(u)
  BY <1>2, <1>3 DEF Once, Repeats
<1>5. \A k \in DOMAIN u : u[k] \in {a, b, c, d}
  BY <1>2, <1>3
<1>6. {a, b, c, d} = Released(u)
  BY <1>2, <1>5 DEF Released
<1> QED
  BY <1>1, <1>4, <1>6 DEF u

\* io_device_exit releases the cyclic task, too.
LEMMA IoDeviceExitReleases ==
  ASSUME NEW motors \in BOOLEAN
  PROVE  LET u == IoDeviceExit(motors) IN
         /\ u \in Seq(Thing) /\ Once(u)
         /\ \A r \in Released(u) : r \in CyclicExits \/ r \in Own("io_device", IoExits)
         /\ NextTo(u, Timer, Thread)
<1> DEFINE x == <<"io_device", "monitoring">>  e == <<"io_device", "event_queue">>
           m == <<"io_device", "motors">>  f == <<x, e>>  g == When(motors, <<m>>)  c == CyclicTaskExit
<1>1. IoDeviceExit(motors) = (c \o f) \o g
  BY DEF IoDeviceExit
<1>2. x \in Thing /\ e \in Thing /\ m \in Thing /\ x # e /\ x # m /\ e # m
  BY ThingType DEF Kinds, Owner
<1>3. {x, e, m} = Own("io_device", IoExits) /\ {x, e, m} \cap CyclicExits = {}
  BY DEF Own, IoExits, CyclicExits, Thread, Timer
<1>4. c \in Seq(Thing) /\ Once(c) /\ CyclicExits = Released(c) /\ NextTo(c, Timer, Thread)
  BY CyclicExitReleases
<1>11. Timer \notin {x, e, m}
  BY DEF Timer
<1> HIDE DEF x, e, m, c
<1>5. f \in Seq(Thing) /\ Once(f) /\ Released(f) = {x, e}
  BY <1>2, TwoThings
<1>6. g \in Seq(Thing) /\ Once(g) /\ Released(g) \subseteq {m}
  <2> DEFINE k == <<m>>
  <2>1. k \in Seq(Thing) /\ Once(k) /\ Released(k) = {m}
    BY <1>2, OneThing
  <2> HIDE DEF k
  <2> QED
    BY <2>1, NoThing DEF When, k
<1> HIDE DEF f, g
<1>7. c \o f \in Seq(Thing) /\ Once(c \o f) /\ Released(c \o f) = Released(c) \cup Released(f)
  BY <1>3, <1>4, <1>5, ReleasedConcat
<1> DEFINE y == c \o f
<1>8. y \in Seq(Thing) /\ Once(y) /\ Released(y) = CyclicExits \cup {x, e}
  BY <1>4, <1>5, <1>7
<1> HIDE DEF y
<1>9. y \o g \in Seq(Thing) /\ Once(y \o g) /\ Released(y \o g) = Released(y) \cup Released(g)
  BY <1>2, <1>3, <1>6, <1>8, ReleasedConcat
<1>10. \A r \in Released(y \o g) : r \in CyclicExits \/ r \in {x, e, m}
  BY <1>6, <1>8, <1>9
<1>12. NextTo(y \o g, Timer, Thread)
  <2>1. NextTo(f, Timer, Thread) /\ NextTo(g, Timer, Thread)
    BY <1>5, <1>6, <1>11, NextToOthers
  <2>2. NextTo(y, Timer, Thread)
    BY <2>1, <1>4, <1>5, NextToConcat DEF y
  <2> QED
    BY <2>1, <2>2, <1>6, <1>8, NextToConcat
<1> QED
  BY <1>1, <1>3, <1>9, <1>10, <1>12 DEF y

\* controller_exit unregisters its event queue before it destroys it, and stops the thread of a
\* client, if there is one, before it frees the client.
LEMMA ControllerExitReleases ==
  ASSUME NEW motors \in BOOLEAN, NEW client \in BOOLEAN
  PROVE  LET u == ControllerExit(motors, client) IN
         /\ u \in Seq(Thing) /\ Once(u)
         /\ \A r \in Released(u) : r \in Own("controller", ControllerExits) /\ (r \in Optional => client)
         /\ Precedes(u, <<"controller", "registered">>, {<<"controller", "event_queue">>})
         /\ Precedes(u, ClientThread, {Client})
<1> DEFINE x == <<"controller", "monitoring">>  c == Client  d == ClientThread
           g == <<"controller", "registered">>  e == <<"controller", "event_queue">>
           y == <<"controller", "strategy">>  m == <<"controller", "motors">>
           f == <<x>>  h == When(client, <<d, c>>)  k == <<g, e, y>>  v == When(motors, <<m>>)
           z1 == f \o h  z2 == z1 \o k  u == z2 \o v
<1>1. ControllerExit(motors, client) = u
  BY DEF ControllerExit, Client, ClientThread
<1>2. /\ x \in Thing /\ c \in Thing /\ d \in Thing /\ g \in Thing /\ e \in Thing /\ y \in Thing
      /\ m \in Thing
  BY ThingType DEF Kinds, Owner, Client, ClientThread
<1>3. /\ c # d /\ Optional = {c, d} /\ {x, g, e, y, m} \cap {c, d} = {}
      /\ x # g /\ x # e /\ x # y /\ x # m /\ g # e /\ g # y /\ g # m /\ e # y /\ e # m /\ y # m
  BY DEF Optional, Client, ClientThread
<1>4. {x, c, d, g, e, y, m} = Own("controller", ControllerExits)
  BY DEF Own, ControllerExits, Client, ClientThread
<1> HIDE DEF x, c, d, g, e, y, m
<1>5. f \in Seq(Thing) /\ Once(f) /\ Released(f) = {x}
  <2> HIDE DEF h, k, v
  <2> QED
    BY <1>2, OneThing
<1>6. /\ h \in Seq(Thing) /\ Once(h) /\ Released(h) = IF client THEN {c, d} ELSE {}
      /\ Precedes(h, d, {c})
  <2> DEFINE w == <<d, c>>
  <2>1. w \in Seq(Thing) /\ Released(w) = {d, c} /\ Once(w)
    BY <1>2, <1>3, TwoThings
  <2>2. DOMAIN w = {1, 2} /\ w[1] = d /\ w[2] = c
    OBVIOUS
  <2> HIDE DEF w, f, k, v
  <2>3. Precedes(w, d, {c})
    <3>1. \A l \in DOMAIN w : w[l] \in {c} => l = 2
      BY <2>2, <1>3
    <3>2. 1 \in 1..2-1
      OBVIOUS
    <3> QED
      BY <2>2, <3>1, <3>2 DEF Precedes
  <2>4. Precedes(<<>>, d, {c})
    BY NoThing, PrecedesOthers
  <2> QED
    BY <2>1, <2>3, <2>4, NoThing DEF When, w
<1>7. /\ k \in Seq(Thing) /\ Once(k) /\ Released(k) = {g, e, y} /\ Precedes(k, g, {e})
  <2>1. k \in Seq(Thing)
    BY <1>2
  <2>2. DOMAIN k = 1..3 /\ k[1] = g /\ k[2] = e /\ k[3] = y
    OBVIOUS
  <2> HIDE DEF f, h, k, v
  <2>3. \A l \in DOMAIN k : l = 1 \/ l = 2 \/ l = 3
    BY <2>2
  <2>4. Once(k)
    BY <2>2, <2>3, <1>3 DEF Once, Repeats
  <2>5. Released(k) = {g, e, y}
    BY <2>2, <2>3 DEF Released
  <2>6. Precedes(k, g, {e})
    <3>1. \A l \in DOMAIN k : k[l] \in {e} => l = 2
      BY <2>2, <2>3, <1>3
    <3>2. 1 \in 1..2-1
      OBVIOUS
    <3> QED
      BY <2>2, <3>1, <3>2 DEF Precedes
  <2> QED
    BY <2>1, <2>4, <2>5, <2>6
<1>8. v \in Seq(Thing) /\ Once(v) /\ Released(v) \subseteq {m}
  <2> DEFINE w == <<m>>
  <2>1. w \in Seq(Thing) /\ Once(w) /\ Released(w) = {m}
    <3> HIDE DEF f, h, k, v
    <3> QED
      BY <1>2, OneThing
  <2> HIDE DEF w, f, h, k
  <2> QED
    BY <2>1, NoThing DEF When, w
<1> HIDE DEF f, h, k, v
<1>9. z1 \in Seq(Thing) /\ Once(z1) /\ Released(z1) = {x} \cup IF client THEN {c, d} ELSE {}
  BY <1>3, <1>5, <1>6, ReleasedConcat
<1>10. Precedes(z1, d, {c}) /\ Precedes(z1, g, {e})
  <2>1. Precedes(f, d, {c})
    BY <1>3, <1>5, PrecedesOthers
  <2>2. Precedes(z1, d, {c})
    BY <2>1, <1>5, <1>6, PrecedesConcat
  <2>3. Released(z1) \cap {e} = {}
    BY <1>3, <1>9
  <2> HIDE DEF z1
  <2> QED
    BY <2>2, <2>3, PrecedesOthers
<1> HIDE DEF z1
<1>11. /\ z2 \in Seq(Thing) /\ Once(z2)
       /\ Released(z2) = {x, g, e, y} \cup IF client THEN {c, d} ELSE {}
  <2>1. Released(z1) \cap Released(k) = {}
    BY <1>3, <1>7, <1>9
  <2>2. z2 \in Seq(Thing) /\ Once(z2) /\ Released(z2) = Released(z1) \cup Released(k)
    BY <2>1, <1>7, <1>9, ReleasedConcat
  <2> QED
    BY <2>2, <1>7, <1>9
<1>12. Precedes(z2, d, {c}) /\ Precedes(z2, g, {e})
  <2>1. Precedes(k, d, {c})
    BY <1>3, <1>7, PrecedesOthers
  <2> QED
    BY <2>1, <1>7, <1>9, <1>10, PrecedesConcat
<1> HIDE DEF z2
<1>13. u \in Seq(Thing) /\ Once(u) /\ Released(u) = Released(z2) \cup Released(v)
  <2>1. Released(z2) \cap Released(v) = {}
    BY <1>3, <1>8, <1>11
  <2> QED
    BY <2>1, <1>8, <1>11, ReleasedConcat
<1>14. Precedes(u, d, {c}) /\ Precedes(u, g, {e})
  <2>1. Precedes(v, d, {c}) /\ Precedes(v, g, {e})
    BY <1>3, <1>8, PrecedesOthers
  <2> QED
    BY <2>1, <1>8, <1>11, <1>12, PrecedesConcat
<1> HIDE DEF u
<1>15. \A r \in Released(u) : r \in {x, c, d, g, e, y, m} /\ (r \in {c, d} => client)
  BY <1>3, <1>8, <1>11, <1>13
<1> QED
  BY <1>1, <1>3, <1>4, <1>13, <1>14, <1>15 DEF g, e, c, d

\* serial_iodevice_exit releases only what the serial io device has.
LEMMA SerialExitReleases ==
  /\ SerialExit \in Seq(Thing) /\ Once(SerialExit)
  /\ \A r \in Released(SerialExit) : r \in Own("serial", SerialExits)
<1> DEFINE a == <<"serial", "thread">>  b == <<"serial", "sem">>  c == <<"serial", "queue">>
           d == <<"serial", "ctx">>
<1>1. a \in Thing /\ b \in Thing /\ c \in Thing /\ d \in Thing
  BY ThingType DEF Kinds, Owner
<1>2. a # b /\ a # c /\ a # d /\ b # c /\ b # d /\ c # d
  OBVIOUS
<1>3. SerialExit = <<a, b, c, d>>
  BY DEF SerialExit
<1>4. {a, b, c, d} = Own("serial", SerialExits)
  BY DEF Own, SerialExits
<1> HIDE DEF a, b, c, d
<1> DEFINE u == <<a, b, c, d>>
<1>5. u \in Seq(Thing) /\ Once(u)
  BY <1>1, <1>2, FourThings
<1>6. {a, b, c, d} = Released(u)
  BY <1>1, <1>2, FourThings
<1> HIDE DEF u
<1>7. \A r \in Released(u) : r \in {a, b, c, d}
  BY <1>6
<1> QED
  BY <1>3, <1>4, <1>5, <1>7 DEF u

\* What an io device releases once more.
Twice == IF node.mode = "IO_DEVICE" THEN CyclicExits ELSE {}

\* What the node has when it runs.
Running(alarm) == MainGets \cup IF alarm THEN AlarmGets ELSE {}

Subscribed == <<"controller", "registered">>

\* The releases u of an exit, with or without an alarm task and a client: all of the cyclic and the
\* alarm task, what uses the rest before the rest, and, with only its mode compiled in, nothing
\* that was never acquired.
ExitOrder(u, alarm, client) ==
  /\ u \in Seq(Thing)
  /\ CyclicExits \subseteq Released(u)
  /\ alarm => AlarmExits \subseteq Released(u) /\ Precedes(u, AlarmThread, Needs(AlarmThread))
  /\ Precedes(u, Thread, Needs(Thread)) /\ Precedes(u, Timer, Needs(Timer))
  /\ Precedes(u, Subscribed, Needs(Subscribed))
  /\ Precedes(u, Thread, {Client}) /\ Precedes(u, ClientThread, {Client})
  /\ Optional \cap Released(u) # {} => client
  /\ NextTo(u, Timer, Thread)
  /\ node.built \subseteq {node.mode} => Repeats(u, Twice) /\ Released(u) \subseteq Running(alarm)

\* rtos_apps_tsn_exit keeps this order.
LEMMA AppExitReleases ==
  ASSUME node \in Nodes, NEW alarm \in BOOLEAN, NEW client \in BOOLEAN
  PROVE  ExitOrder(AppExit(node, alarm, client), alarm, client)
<1> DEFINE x1 == When(alarm, AlarmExit(node))
           x2 == CyclicTaskExit
           x3 == When("IO_DEVICE" \in node.built, IoDeviceExit(node.mode = "IO_DEVICE"))
           x4 == When("CONTROLLER" \in node.built /\ node.mode \in Motors,
                      ControllerExit(node.mode = "CONTROLLER", client))
           x5 == When(node.mode = "SERIAL", SerialExit)
           y2 == x1 \o x2  y3 == y2 \o x3  y4 == y3 \o x4  y5 == y4 \o x5
<1>1. AppExit(node, alarm, client) = y5
  BY DEF AppExit
<1>2. /\ x1 \in Seq(Thing) /\ Once(x1)
      /\ \A r \in Released(x1) : alarm /\ r \in AlarmExits
      /\ alarm => AlarmExits \subseteq Released(x1) /\ Precedes(x1, AlarmThread, Needs(AlarmThread))
  <2> DEFINE e == AlarmExit(node)
  <2>1. e \in Seq(Thing) /\ Once(e) /\ AlarmExits = Released(e) /\ Precedes(e, AlarmThread, Needs(AlarmThread))
    BY AlarmExitReleases
  <2>3. x1 = IF alarm THEN e ELSE <<>>
    BY DEF When
  <2> HIDE DEF e, x1, x2, x3, x4, x5
  <2> QED
    BY <2>1, <2>3, NoThing
<1>3. /\ x2 \in Seq(Thing) /\ Once(x2) /\ CyclicExits = Released(x2)
      /\ Precedes(x2, Thread, Needs(Thread)) /\ Precedes(x2, Timer, Needs(Timer))
      /\ NextTo(x2, Timer, Thread)
  BY CyclicExitReleases
<1>4. /\ x3 \in Seq(Thing) /\ Once(x3)
      /\ \A r \in Released(x3) : /\ r \in CyclicExits \/ r \in Own("io_device", IoExits)
                                 /\ "IO_DEVICE" \in node.built
      /\ NextTo(x3, Timer, Thread)
  <2> DEFINE e == IoDeviceExit(node.mode = "IO_DEVICE")
  <2>1. /\ e \in Seq(Thing) /\ Once(e)
        /\ \A r \in Released(e) : r \in CyclicExits \/ r \in Own("io_device", IoExits)
        /\ NextTo(e, Timer, Thread)
    BY IoDeviceExitReleases
  <2>3. x3 = IF "IO_DEVICE" \in node.built THEN e ELSE <<>>
    BY DEF When
  <2> HIDE DEF e, x1, x2, x3, x4, x5
  <2> QED
    BY <2>1, <2>3, NoThing, NextToOthers
<1>5. /\ x4 \in Seq(Thing) /\ Once(x4)
      /\ \A r \in Released(x4) : /\ r \in Own("controller", ControllerExits)
                                 /\ r \in Optional => client
                                 /\ "CONTROLLER" \in node.built
      /\ Precedes(x4, Subscribed, Needs(Subscribed)) /\ Precedes(x4, ClientThread, {Client})
  <2> DEFINE e == ControllerExit(node.mode = "CONTROLLER", client)
  <2>1. /\ e \in Seq(Thing) /\ Once(e)
        /\ \A r \in Released(e) : r \in Own("controller", ControllerExits) /\ (r \in Optional => client)
        /\ Precedes(e, Subscribed, Needs(Subscribed)) /\ Precedes(e, ClientThread, {Client})
    BY ControllerExitReleases, OtherUses DEF Subscribed
  <2>3. x4 = IF "CONTROLLER" \in node.built /\ node.mode \in Motors THEN e ELSE <<>>
    BY DEF When
  <2> HIDE DEF e, x1, x2, x3, x4, x5
  <2>2. Precedes(<<>>, Subscribed, Needs(Subscribed)) /\ Precedes(<<>>, ClientThread, {Client})
    BY NoThing, PrecedesOthers
  <2> QED
    BY <2>1, <2>2, <2>3, NoThing
<1>6. /\ x5 \in Seq(Thing) /\ Once(x5)
      /\ \A r \in Released(x5) : r \in Own("serial", SerialExits) /\ node.mode = "SERIAL"
  <2> DEFINE e == SerialExit
  <2>1. /\ e \in Seq(Thing) /\ Once(e)
        /\ \A r \in Released(e) : r \in Own("serial", SerialExits)
    BY SerialExitReleases
  <2>3. x5 = IF node.mode = "SERIAL" THEN e ELSE <<>>
    BY DEF When
  <2> HIDE DEF e, x1, x2, x3, x4, x5
  <2> QED
    BY <2>1, <2>3, NoThing
<1> HIDE DEF x1, x2, x3, x4, x5
<1>7. y2 \in Seq(Thing) /\ Released(y2) = Released(x1) \cup Released(x2)
  BY <1>2, <1>3, ReleasedConcat
<1>8. y3 \in Seq(Thing) /\ Released(y3) = Released(y2) \cup Released(x3)
  <2> HIDE DEF y2
  <2> QED
    BY <1>4, <1>7, ReleasedConcat
<1>9. y4 \in Seq(Thing) /\ Released(y4) = Released(y3) \cup Released(x4)
  <2> HIDE DEF y3
  <2> QED
    BY <1>5, <1>8, ReleasedConcat
<1>10. y5 \in Seq(Thing) /\ Released(y5) = Released(y4) \cup Released(x5)
  <2> HIDE DEF y4
  <2> QED
    BY <1>6, <1>9, ReleasedConcat
<1>11. \A r \in AlarmExits : r[1] = "alarm" /\ r \in AlarmGets
  BY OwnFirst DEF AlarmExits, AlarmGets
<1>12. \A r \in CyclicExits : r[1] = "cyclic" /\ r \in MainGets
  BY OwnFirst DEF CyclicExits, Thread, Timer, MainGets, CyclicGets
<1>13. ASSUME NEW a, NEW U, a \in Released(y2), Precedes(y2, a, U)
       PROVE  Precedes(y5, a, U)
  <2>1. a \in Released(y3) /\ a \in Released(y4)
    BY <1>8, <1>9, <1>13
  <2> HIDE DEF y2
  <2>2. Precedes(y3, a, U)
    BY <1>4, <1>7, <1>13, PrecedesConcat
  <2> HIDE DEF y3
  <2>3. Precedes(y4, a, U)
    BY <1>5, <1>8, <2>1, <2>2, PrecedesConcat
  <2> HIDE DEF y4
  <2> QED
    BY <1>6, <1>9, <2>1, <2>3, PrecedesConcat
<1>14. \A a \in {Thread, Timer} : Precedes(y5, a, Needs(a))
  <2> SUFFICES ASSUME NEW a \in {Thread, Timer} PROVE Precedes(y5, a, Needs(a))
    OBVIOUS
  <2>1. Released(x1) \cap Needs(a) = {}
    BY <1>2, <1>11, OthersUse
  <2>2. Precedes(y2, a, Needs(a))
    BY <2>1, <1>2, <1>3, PrecedesOthers, PrecedesConcat
  <2>3. a \in Released(y2)
    BY <1>3, <1>7 DEF CyclicExits
  <2> QED
    BY <2>2, <2>3, <1>13
<1>21. /\ \A r \in Released(x1) : r[1] = "alarm"
       /\ \A r \in Released(x2) : r[1] = "cyclic"
       /\ \A r \in Released(x3) : r[1] \in {"cyclic", "io_device"}
       /\ \A r \in Released(x4) : r[1] = "controller"
       /\ \A r \in Released(x5) : r[1] = "serial"
  BY <1>2, <1>3, <1>4, <1>5, <1>6, <1>11, <1>12, OwnFirst
<1>22. Precedes(y5, Thread, {Client})
  <2>1. Client[1] = "controller"
    BY DEF Client
  <2>2. Released(y2) \cap {Client} = {}
    BY <2>1, <1>7, <1>21
  <2>3. Thread \in Released(y2)
    BY <1>3, <1>7 DEF CyclicExits
  <2> HIDE DEF y2
  <2>4. Precedes(y2, Thread, {Client})
    BY <2>2, PrecedesOthers
  <2> QED
    BY <2>3, <2>4, <1>13 DEF y2
<1>23. Precedes(y5, ClientThread, {Client})
  <2>1. Client[1] = "controller"
    BY DEF Client
  <2>2. Released(y3) \cap {Client} = {} /\ Released(x5) \cap {Client} = {}
    BY <2>1, <1>7, <1>8, <1>21
  <2>3. Precedes(x5, ClientThread, {Client})
    BY <2>2, PrecedesOthers
  <2>4. Precedes(y3, ClientThread, {Client})
    <3> HIDE DEF y3
    <3> QED
      BY <2>2, PrecedesOthers
  <2>5. Precedes(y4, ClientThread, {Client})
    <3> HIDE DEF y3
    <3> QED
      BY <2>4, <1>5, <1>8, PrecedesConcat
  <2> HIDE DEF y4
  <2> QED
    BY <2>3, <2>5, <1>6, <1>9, PrecedesConcat
<1>24. Optional \cap Released(y5) # {} => client
  <2>1. \A r \in Optional : r[1] = "controller"
    BY DEF Optional, Client, ClientThread
  <2>2. \A r \in Released(y5) : r \in Optional => r \in Released(x4)
    BY <2>1, <1>7, <1>8, <1>9, <1>10, <1>21
  <2> QED
    BY <2>2, <1>5
<1>25. NextTo(y5, Timer, Thread)
  <2>1. Timer[1] = "cyclic"
    BY DEF Timer
  <2>2. NextTo(x1, Timer, Thread) /\ NextTo(x4, Timer, Thread) /\ NextTo(x5, Timer, Thread)
    BY <2>1, <1>21, NextToOthers
  <2>3. NextTo(y2, Timer, Thread)
    BY <2>2, <1>2, <1>3, NextToConcat
  <2>4. NextTo(y3, Timer, Thread)
    <3> HIDE DEF y2
    <3> QED
      BY <2>3, <1>4, <1>7, NextToConcat
  <2>5. NextTo(y4, Timer, Thread)
    <3> HIDE DEF y3
    <3> QED
      BY <2>2, <2>4, <1>5, <1>8, NextToConcat
  <2> HIDE DEF y4
  <2> QED
    BY <2>2, <2>5, <1>6, <1>9, NextToConcat
<1>15. ASSUME alarm PROVE Precedes(y5, AlarmThread, Needs(AlarmThread))
  <2>1. AlarmThread \in Released(x1)
    BY <1>15, <1>2 DEF AlarmExits, AlarmGets, Own, AlarmThread
  <2>2. Precedes(y2, AlarmThread, Needs(AlarmThread))
    BY <2>1, <1>2, <1>3, <1>15, PrecedesConcat
  <2> QED
    BY <2>1, <2>2, <1>7, <1>13
<1>16. Precedes(y5, Subscribed, Needs(Subscribed))
  <2> DEFINE U == Needs(Subscribed)
  <2>1. \A r \in U : r = <<"controller", "event_queue">>
    BY OtherUses DEF Subscribed
  <2> HIDE DEF U
  <2>2. \A r \in U : r[1] = "controller" /\ r[2] = "event_queue"
    BY <2>1
  <2>3. \A r \in Released(y3) : r[1] # "controller"
    BY <1>2, <1>3, <1>4, <1>7, <1>8, <1>11, <1>12, OwnFirst
  <2>4. Released(y3) \cap U = {}
    BY <2>2, <2>3
  <2>5. \A r \in Released(x5) : r[1] # "controller"
    BY <1>6, OwnFirst
  <2>6. Released(x5) \cap U = {}
    BY <2>2, <2>5
  <2>7. Precedes(y3, Subscribed, U) /\ Precedes(x5, Subscribed, U)
    <3> HIDE DEF y3
    <3> QED
      BY <2>4, <2>6, PrecedesOthers
  <2>8. Precedes(x4, Subscribed, U)
    BY <1>5 DEF U
  <2>9. Precedes(y4, Subscribed, U)
    <3> HIDE DEF y3
    <3> QED
      BY <2>7, <2>8, <1>5, <1>8, PrecedesConcat
  <2>10. Precedes(y5, Subscribed, U)
    <3> HIDE DEF y4
    <3> QED
      BY <2>7, <2>9, <1>6, <1>9, PrecedesConcat
  <2> QED
    BY <2>10 DEF U
<1>17. ASSUME node.built \subseteq {node.mode}
       PROVE  Repeats(y5, Twice) /\ Released(y5) \subseteq Running(alarm)
  <2>1. \A r \in Released(x3) :
          /\ r \in CyclicExits \/ (r \in Own("io_device", IoExits) /\ r[1] = "io_device")
          /\ node.mode = "IO_DEVICE"
    BY <1>4, <1>17, OwnFirst
  <2>2. \A r \in Released(x4) : r \in Own("controller", ControllerExits) /\ r[1] = "controller"
                                  /\ node.mode = "CONTROLLER"
    BY <1>5, <1>17, OwnFirst
  <2>3. \A r \in Released(x5) : r \in Own("serial", SerialExits) /\ r[1] = "serial"
                                  /\ node.mode = "SERIAL"
    BY <1>6, OwnFirst
  <2>4. node.mode = "IO_DEVICE" => Own("io_device", IoExits) \subseteq MainGets
    BY DEF MainGets, ModeGets, Own, IoExits
  <2>5. node.mode = "CONTROLLER" => Own("controller", ControllerExits) \subseteq MainGets
    BY DEF MainGets, ModeGets, Own, ControllerExits
  <2>6. node.mode = "SERIAL" => Own("serial", SerialExits) \subseteq MainGets
    BY DEF MainGets, ModeGets, Own, SerialExits
  <2>7. Released(y5) \subseteq Running(alarm)
    <3>1. Released(y2) \subseteq Running(alarm)
      BY <1>2, <1>3, <1>7, <1>11, <1>12 DEF Running
    <3>2. Released(x3) \cup Released(x4) \cup Released(x5) \subseteq MainGets
      BY <2>1, <2>2, <2>3, <2>4, <2>5, <2>6, <1>12
    <3>3. Released(y5) = Released(y2) \cup (Released(x3) \cup Released(x4) \cup Released(x5))
      BY <1>8, <1>9, <1>10
    <3> QED
      BY <3>1, <3>2, <3>3 DEF Running
  <2>8. Repeats(y2, Twice)
    <3>1. Released(x1) \cap Released(x2) \subseteq Twice
      BY <1>2, <1>3, <1>11, <1>12
    <3>2. Repeats(x1, Twice) /\ Repeats(x2, Twice)
      BY <1>2, <1>3, OnceRepeats
    <3> QED
      BY <3>1, <3>2, <1>2, <1>3, RepeatsConcat
  <2>9. Repeats(y3, Twice)
    <3>1. \A r \in Released(y2) : r[1] \in {"alarm", "cyclic"}
      BY <1>2, <1>3, <1>7, <1>11, <1>12
    <3>2. Released(y2) \cap Released(x3) \subseteq Twice
      BY <3>1, <2>1 DEF Twice
    <3>3. Repeats(x3, Twice)
      BY <1>4, OnceRepeats
    <3> HIDE DEF y2
    <3> QED
      BY <3>2, <3>3, <2>8, <1>4, <1>7, RepeatsConcat
  <2>10. \A r \in Released(y3) : r[1] \in {"alarm", "cyclic", "io_device"}
    BY <1>2, <1>3, <1>7, <1>8, <1>11, <1>12, <2>1
  <2>11. Repeats(y4, Twice)
    <3>1. Released(y3) \cap Released(x4) \subseteq Twice
      BY <2>2, <2>10
    <3>2. Repeats(x4, Twice)
      BY <1>5, OnceRepeats
    <3> HIDE DEF y3
    <3> QED
      BY <3>1, <3>2, <2>9, <1>5, <1>8, RepeatsConcat
  <2>12. \A r \in Released(y4) : r[1] \in {"alarm", "cyclic", "io_device", "controller"}
    BY <2>2, <2>10, <1>9
  <2>13. Repeats(y5, Twice)
    <3>1. Released(y4) \cap Released(x5) \subseteq Twice
      BY <2>3, <2>12
    <3>2. Repeats(x5, Twice)
      BY <1>6, OnceRepeats
    <3> HIDE DEF y4
    <3> QED
      BY <3>1, <3>2, <2>11, <1>6, <1>9, RepeatsConcat
  <2> QED
    BY <2>7, <2>13
<1>18. CyclicExits \subseteq Released(y5) /\ (alarm => AlarmExits \subseteq Released(y5))
  BY <1>2, <1>3, <1>7, <1>8, <1>9, <1>10
<1>19. Precedes(y5, Thread, Needs(Thread)) /\ Precedes(y5, Timer, Needs(Timer))
  BY <1>14
<1>20. y5 \in Seq(Thing)
  BY <1>10
<1> HIDE DEF y5
<1> QED
  BY <1>1, <1>15, <1>16, <1>17, <1>18, <1>19, <1>20, <1>22, <1>23, <1>24, <1>25 DEF ExitOrder

\* What the node releases if it exits now.
Exits == AppExit(node, alarm_on, Client \in known)

LEMMA NodeExits ==
  ASSUME node \in Nodes, alarm_on \in BOOLEAN
  PROVE  ExitOrder(Exits, alarm_on, Client \in known)
<1> DEFINE client == Client \in known
<1>1. client \in BOOLEAN
  OBVIOUS
<1>2. Exits = AppExit(node, alarm_on, client)
  BY DEF Exits
<1> HIDE DEF client
<1>3. ExitOrder(Exits, alarm_on, client)
  BY <1>1, <1>2, AppExitReleases
<1> QED
  BY <1>3 DEF client

-----------------------------------------------------------------------------
(* The invariant of a life of the application                              *)

\* What comes first in a sequence is released first, and once.
LEMMA ReleasedSoFar ==
  ASSUME NEW v \in Seq(Thing), NEW w \in Seq(Thing), NEW a, NEW U,
         Precedes(v \o w, a, U), a \notin Released(v)
  PROVE  Released(v) \cap U = {}
<1> DEFINE u == v \o w
<1>1. /\ DOMAIN u = 1..Len(v) + Len(w) /\ \A k \in 1..Len(v) : u[k] = v[k]
      /\ DOMAIN v = 1..Len(v) /\ Len(v) \in Nat /\ Len(w) \in Nat
  BY ConcatProperties, LenProperties
<1> HIDE DEF u
<1>2. ASSUME NEW k \in DOMAIN v, v[k] \in U PROVE FALSE
  <2>1. k \in DOMAIN u /\ u[k] \in U
    BY <1>1, <1>2
  <2>2. PICK j \in 1..k-1 : u[j] = a
    BY <2>1 DEF Precedes, u
  <2>3. j \in DOMAIN v /\ v[j] = a
    BY <1>1, <2>2
  <2> QED
    BY <2>3 DEF Released
<1> QED
  BY <1>2 DEF Released

\* The next that is released.
LEMMA ReleaseNext ==
  ASSUME NEW v \in Seq(Thing), NEW w \in Seq(Thing), w # <<>>
  PROVE  LET r == Head(w)  t == Tail(w) IN
         /\ r \in Thing /\ t \in Seq(Thing)
         /\ v \o <<r>> \in Seq(Thing) /\ v \o w = (v \o <<r>>) \o t
         /\ Released(v) \cup {r} = Released(v \o <<r>>)
         /\ r \in Released(v \o w)
         /\ \A X : Repeats(v \o w, X) /\ r \in Released(v) => r \in X
<1> DEFINE r == Head(w)  t == Tail(w)
<1>1. r \in Thing /\ t \in Seq(Thing) /\ w = <<r>> \o t
  BY HeadTailProperties
<1> HIDE DEF r, t
<1>2. <<r>> \in Seq(Thing) /\ Released(<<r>>) = {r}
  BY <1>1, OneThing
<1>3. v \o <<r>> \in Seq(Thing) /\ v \o w = (v \o <<r>>) \o t
  <2> DEFINE one == <<r>>
  <2>1. one \in Seq(Thing) /\ w = one \o t
    BY <1>1, <1>2
  <2> HIDE DEF one
  <2>2. v \o one \in Seq(Thing)
    BY <2>1, ConcatProperties
  <2>3. t \in Seq(Thing) /\ one \in Seq(Thing)
    BY <1>1, <2>1
  <2>4. v \o (one \o t) = (v \o one) \o t
    BY <2>3, ConcatAssociative, SMTT(30)
  <2> QED
    BY <2>1, <2>2, <2>4 DEF one
<1>4. Released(v) \cup {r} = Released(v \o <<r>>)
  BY <1>2, ReleasedConcat
<1> DEFINE u == v \o w
<1>5. /\ DOMAIN u = 1..Len(v) + Len(w) /\ \A k \in 1..Len(v) : u[k] = v[k]
      /\ u[Len(v) + 1] = w[1]
      /\ DOMAIN v = 1..Len(v) /\ Len(v) \in Nat /\ Len(w) \in Nat
  <2>1. Len(w) # 0
    BY EmptySeq
  <2> QED
    BY <2>1, ConcatProperties, LenProperties
<1>6. w[1] = r /\ Len(w) # 0
  BY EmptySeq DEF r
<1> HIDE DEF u
<1>7. Len(v) + 1 \in DOMAIN u /\ u[Len(v) + 1] = r
  BY <1>5, <1>6
<1>8. r \in Released(u)
  BY <1>7 DEF Released
<1>9. ASSUME NEW X, Repeats(u, X), r \in Released(v) PROVE r \in X
  <2>1. PICK k \in DOMAIN v : v[k] = r
    BY <1>9 DEF Released
  <2>2. k \in DOMAIN u /\ u[k] = r /\ k # Len(v) + 1
    BY <2>1, <1>5
  <2> QED
    BY <2>2, <1>7, <1>9 DEF Repeats
<1> QED
  BY <1>1, <1>3, <1>4, <1>8, <1>9 DEF r, t, u

\* The steps one by one.
LEMMA BeforeNext ==
  ASSUME NEW s \in Seq(StepSet), NEW k \in DOMAIN s
  PROVE  /\ Before(s, 1) = {} /\ Before(s, k) \cup s[k].get = Before(s, k + 1)
         /\ k = Len(s) => Before(s, k) \cup s[k].get = Gets(s)
         /\ k # Len(s) => k + 1 \in DOMAIN s
<1>1. DOMAIN s = 1..Len(s) /\ Len(s) \in Nat
  BY LenProperties
<1>2. Before(s, 1) = {}
  BY DEF Before
<1>3. k + 1 - 1 = k /\ 1..k = (1..k-1) \cup {k}
  BY <1>1
<1>4. Before(s, k) \cup s[k].get = Before(s, k + 1)
  BY <1>3 DEF Before
<1>5. k = Len(s) => Before(s, k + 1) = Gets(s)
  BY <1>1, <1>3 DEF Before, Gets
<1>6. k # Len(s) => k + 1 \in DOMAIN s
  BY <1>1
<1> QED
  BY <1>2, <1>4, <1>5, <1>6

\* What AppPoints says of a step.
LEMMA AtStep ==
  ASSUME node \in Nodes, NEW k \in DOMAIN AppSteps(node)
  PROVE  LET s == AppSteps(node)  p == Point(s, k) IN
         /\ AppPoint(p) /\ p.before = Before(s, k) /\ p.get = s[k].get
         /\ p.undo = s[k].undo /\ p.fail = s[k].fail
<1> DEFINE s == AppSteps(node)  p == Point(s, k)
<1>1. \A q \in Points(s) : AppPoint(q)
  BY AppPoints
<1> HIDE DEF s
<1>2. p \in Points(s)
  BY DEF Points, s
<1>3. p.before = Before(s, k) /\ p.get = s[k].get /\ p.undo = s[k].undo /\ p.fail = s[k].fail
  BY PointFields DEF Point
<1> QED
  BY <1>1, <1>2, <1>3 DEF s

\* What acts has what it uses when it is there, and so has it later.
LEMMA UsesWithin ==
  ASSUME NEW s \in Seq(StepSet),
         \A p \in Points(s) : \A a \in Actors \cap p.get : Needs(a) \subseteq p.before \ Optional
  PROVE  /\ \A k \in DOMAIN s : \A a \in Actors \cap Before(s, k) : Needs(a) \subseteq Before(s, k) \ Optional
         /\ \A a \in Actors \cap Gets(s) : Needs(a) \subseteq Gets(s) \ Optional
<1>1. DOMAIN s = 1..Len(s) /\ Len(s) \in Nat
  BY LenProperties
<1>2. ASSUME NEW j \in DOMAIN s, NEW a \in Actors, a \in s[j].get
      PROVE  Needs(a) \subseteq Before(s, j) \ Optional
  <2> DEFINE p == Point(s, j)
  <2>1. p.before = Before(s, j) /\ p.get = s[j].get
    BY PointFields DEF Point
  <2>2. p \in Points(s)
    BY DEF Points
  <2> HIDE DEF p
  <2> QED
    BY <1>2, <2>1, <2>2
<1>3. \A j, k \in DOMAIN s : j < k => Before(s, j) \subseteq Before(s, k)
  BY <1>1 DEF Before
<1>4. \A k \in DOMAIN s : Before(s, k) \subseteq Gets(s)
  BY PointType, PointFields, <1>1 DEF Before, Gets
<1>5. ASSUME NEW k \in DOMAIN s, NEW a \in Actors \cap Before(s, k)
      PROVE  Needs(a) \subseteq Before(s, k) \ Optional
  <2>1. PICK j \in 1..k-1 : a \in s[j].get
    BY DEF Before
  <2>2. j \in DOMAIN s /\ j < k
    BY <1>1
  <2> QED
    BY <2>1, <2>2, <1>2, <1>3
<1>6. ASSUME NEW a \in Actors \cap Gets(s)
      PROVE  Needs(a) \subseteq Gets(s) \ Optional
  <2>1. PICK j \in DOMAIN s : a \in s[j].get
    BY DEF Gets
  <2> QED
    BY <2>1, <1>2, <1>4
<1> QED
  BY <1>5, <1>6

LEMMA NodeUses ==
  ASSUME node \in Nodes
  PROVE  LET s == AppSteps(node) IN
         /\ \A k \in DOMAIN s : \A a \in Actors \cap Before(s, k) : Needs(a) \subseteq Before(s, k) \ Optional
         /\ \A a \in Actors \cap AppGets : Needs(a) \subseteq AppGets \ Optional
         /\ \A a \in Actors \cap MainGets : Needs(a) \subseteq MainGets \ Optional
<1> DEFINE s == AppSteps(node)
<1>1. s \in Seq(StepSet) /\ Gets(s) = AppGets /\ \A p \in Points(s) : AppPoint(p)
  BY AppPoints
<1>2. Main \in Seq(StepSet) /\ Gets(Main) = MainGets /\ \A p \in Points(Main) : MainPoint(p)
  BY MainPoints
<1> HIDE DEF s
<1>3. \A p \in Points(s) : \A a \in Actors \cap p.get : Needs(a) \subseteq p.before \ Optional
  BY <1>1 DEF AppPoint
<1>4. \A p \in Points(Main) : \A a \in Actors \cap p.get : Needs(a) \subseteq p.before \ Optional
  BY <1>2 DEF MainPoint
<1>5. /\ \A k \in DOMAIN s : \A a \in Actors \cap Before(s, k) : Needs(a) \subseteq Before(s, k) \ Optional
      /\ \A a \in Actors \cap Gets(s) : Needs(a) \subseteq Gets(s) \ Optional
  BY <1>1, <1>3, UsesWithin
<1>6. \A a \in Actors \cap Gets(Main) : Needs(a) \subseteq Gets(Main) \ Optional
  BY <1>2, <1>4, UsesWithin
<1> QED
  BY <1>1, <1>2, <1>5, <1>6 DEF s

\* Of the alarm task is left what a failure of its start leaves.
Left(r) == \/ r[1] # "alarm" \/ r \in Own("alarm", Unfreed(node.zero_copy))
           \/ CallbackFailed

\* The node has what it runs with but for what is gone.
HeldBut(gone) ==
  /\ Running(alarm_on) \ (Optional \cup gone) \subseteq held /\ held \subseteq AppGets \ gone
  /\ ~alarm_on => \A r \in held : Left(r)

\* What is released without being there, with only the code of the mode compiled in.
Misuse ==
  node.built \subseteq {node.mode} =>
    IF node.mode = "IO_DEVICE" THEN \A r \in misused : r[1] = "cyclic"
    ELSE misused \subseteq {ControllerMotors} \cup Optional

\* What a node that is down still has of its tasks.
Down ==
  \A r \in held : (r[1] = "cyclic" => r \in Own("cyclic", Unfreed(node.zero_copy))) /\ Left(r)

\* The types of what a life depends on.
LifeType ==
  /\ node \in Nodes /\ alarm_on \in BOOLEAN /\ todo \in Seq(Thing)
  /\ phase \in {"init", "undo", "run", "exit", "off"}

\* While it starts, a node has what its steps have acquired so far, though not always a client.
InitInv ==
  phase = "init" =>
    /\ at \in DOMAIN AppSteps(node) /\ todo = <<>> /\ misused = {} /\ ~alarm_on
    /\ Before(AppSteps(node), at) \ Optional \subseteq held
    /\ held \subseteq Before(AppSteps(node), at)

\* While a failure is undone, that but for v, which has been released already.
UndoInv ==
  phase = "undo" =>
    /\ at \in DOMAIN AppSteps(node) /\ at \in failed /\ misused = {} /\ ~alarm_on
    /\ \E v \in Seq(Thing) :
         /\ Step.undo = v \o todo
         /\ Before(AppSteps(node), at) \ (Optional \cup Released(v)) \subseteq held
         /\ held \subseteq Before(AppSteps(node), at) \ Released(v)

\* A node that runs has all.
RunInv == phase = "run" => todo = <<>> /\ misused = {} /\ HeldBut({})

\* While it exits, all but for v, which has been released already.
ExitInv ==
  phase = "exit" =>
    Misuse /\ \E v \in Seq(Thing) : Exits = v \o todo /\ HeldBut(Released(v))

\* At the end only what Down allows is left.
OffInv == phase = "off" => todo = <<>> /\ Misuse /\ Down

\* Inductive: NoDangling is not, it says nothing of what is still to be released, nor in
\* which order.
LifeInv == LifeType /\ InitInv /\ UndoInv /\ RunInv /\ ExitInv /\ OffInv

\* A sequence before and after nothing.
LEMMA ConcatNothing ==
  ASSUME NEW v \in Seq(Thing)
  PROVE  <<>> \o v = v /\ v \o <<>> = v /\ Released(<<>>) = {}
BY NoThing, ConcatProperties

\* What a node has depends on its configuration only.
LEMMA SameNode ==
  ASSUME node' = node
  PROVE  MainGets' = MainGets /\ AlarmGets' = AlarmGets /\ AppGets' = AppGets
<1>1. ModeGets' = ModeGets
  BY DEF ModeGets
<1>2. CyclicGets' = CyclicGets
  BY DEF CyclicGets
<1>3. AlarmGets' = AlarmGets
  BY DEF AlarmGets
<1> QED
  BY <1>1, <1>2, <1>3 DEF AppGets, MainGets

\* The alarm task comes last.
LEMMA AlarmThreadGot == AlarmThread \in AppGets /\ AlarmThread \notin MainGets
<1>1. AlarmThread \in AlarmGets
  BY DEF AlarmGets, Own, AlarmThread
<1>2. AlarmThread \notin MainGets
  BY MainGetsParts DEF AlarmThread
<1> QED
  BY <1>1, <1>2 DEF AppGets

\* LifeInv holds at first, and every step keeps it.
LEMMA LifeInit == Init => LifeInv
<1> SUFFICES ASSUME Init PROVE LifeInv
  OBVIOUS
<1> USE DEF Init
<1> DEFINE s == AppSteps(node)
<1>1. s \in Seq(StepSet) /\ Gets(s) = AppGets
  BY AppPoints
<1> HIDE DEF s
<1>2. DOMAIN s = 1..Len(s) /\ Len(s) \in Nat
  BY <1>1, LenProperties
<1>3. Len(s) # 0
  <2>1. AlarmThread \in Gets(s)
    BY <1>1, AlarmThreadGot
  <2>2. PICK k \in DOMAIN s : AlarmThread \in s[k].get
    BY <2>1 DEF Gets
  <2> QED
    BY <2>2, <1>2
<1>4. 1 \in DOMAIN s
  BY <1>2, <1>3
<1>5. Before(s, 1) = {}
  BY <1>1, <1>4, BeforeNext
<1>6. LifeType
  BY NoThing DEF LifeType
<1>7. InitInv
  BY <1>4, <1>5 DEF InitInv, s
<1> QED
  BY <1>6, <1>7 DEF LifeInv, UndoInv, RunInv, ExitInv, OffInv

LEMMA LifeAcquire == LifeInv /\ Acquire => LifeInv'
<1> SUFFICES ASSUME LifeInv, Acquire PROVE LifeInv'
  OBVIOUS
<1> DEFINE s == AppSteps(node)  H == Before(s, at)
<1>1. /\ phase = "init" /\ node \in Nodes /\ at \in DOMAIN s /\ todo = <<>> /\ misused = {}
      /\ H \ Optional \subseteq held /\ held \subseteq H
  BY DEF Acquire, LifeInv, LifeType, InitInv
<1>2. /\ held' = held \cup s[at].get /\ node' = node /\ todo' = todo /\ misused' = misused
      /\ alarm_on' = (at = Len(s))
      /\ IF at = Len(s) THEN phase' = "run" /\ at' = 0 ELSE phase' = "init" /\ at' = at + 1
  BY DEF Acquire, GoOn, Step
<1>3. s \in Seq(StepSet) /\ Gets(s) = AppGets
  BY <1>1, AppPoints
<1>4. /\ H \cup s[at].get = Before(s, at + 1)
      /\ at = Len(s) => H \cup s[at].get = Gets(s)
      /\ at # Len(s) => at + 1 \in DOMAIN s
  <2> HIDE DEF s
  <2> QED
    BY <1>1, <1>3, BeforeNext
<1>5. LifeType'
  BY <1>1, <1>2, NoThing DEF LifeType
<1>6. CASE at = Len(s)
  <2>1. HeldBut({})'
    <3>1. Running(alarm_on)' = AppGets /\ AppGets' = AppGets /\ alarm_on'
      BY <1>2, <1>6, SameNode DEF Running, AppGets
    <3>2. AppGets \ Optional \subseteq held' /\ held' \subseteq AppGets
      BY <1>1, <1>2, <1>3, <1>4, <1>6
    <3> QED
      BY <3>1, <3>2 DEF HeldBut
  <2>2. RunInv'
    BY <2>1, <1>1, <1>2 DEF RunInv
  <2> QED
    BY <2>2, <1>2, <1>5, <1>6 DEF LifeInv, InitInv, UndoInv, ExitInv, OffInv
<1>7. CASE at # Len(s)
  <2>1. InitInv'
    <3>1. /\ at' \in DOMAIN AppSteps(node') /\ todo' = <<>> /\ misused' = {} /\ ~alarm_on'
      BY <1>1, <1>2, <1>4, <1>7
    <3>2. Before(AppSteps(node'), at') = H \cup s[at].get
      BY <1>2, <1>4, <1>7
    <3> HIDE DEF s
    <3> QED
      BY <1>1, <1>2, <3>1, <3>2 DEF InitInv
  <2> QED
    BY <2>1, <1>2, <1>5, <1>7 DEF LifeInv, UndoInv, RunInv, ExitInv, OffInv
<1> QED
  BY <1>6, <1>7

LEMMA LifeFail == LifeInv /\ Fail => LifeInv'
<1> SUFFICES ASSUME LifeInv, Fail PROVE LifeInv'
  OBVIOUS
<1> DEFINE s == AppSteps(node)  H == Before(s, at)
<1>1. /\ phase = "init" /\ node \in Nodes /\ at \in DOMAIN s /\ misused = {} /\ ~alarm_on
      /\ H \ Optional \subseteq held /\ held \subseteq H /\ alarm_on \in BOOLEAN
  BY DEF Fail, LifeInv, LifeType, InitInv
<1>2. /\ failed' = failed \cup {at} /\ phase' = "undo" /\ todo' = s[at].undo
      /\ node' = node /\ at' = at /\ held' = held /\ misused' = misused /\ alarm_on' = alarm_on
  BY DEF Fail, Step
<1>3. s[at].undo \in Seq(Thing)
  BY <1>1, AtStep DEF AppPoint
<1>4. LifeType'
  BY <1>1, <1>2, <1>3 DEF LifeType
<1>5. UndoInv'
  <2> DEFINE none == <<>>
  <2>1. none \in Seq(Thing) /\ s[at].undo = none \o todo' /\ Released(none) = {}
    BY <1>2, <1>3, NoThing, ConcatNothing
  <2> HIDE DEF none
  <2>2. \E v \in Seq(Thing) : /\ s[at].undo = v \o todo'
                              /\ H \ (Optional \cup Released(v)) \subseteq held
                              /\ held \subseteq H \ Released(v)
    BY <2>1, <1>1
  <2> QED
    BY <2>2, <1>1, <1>2 DEF UndoInv, Step
<1> QED
  BY <1>2, <1>4, <1>5 DEF LifeInv, InitInv, RunInv, ExitInv, OffInv

LEMMA LifeUndone == LifeInv /\ Undone => LifeInv'
<1> SUFFICES ASSUME LifeInv, Undone PROVE LifeInv'
  OBVIOUS
<1> DEFINE s == AppSteps(node)  H == Before(s, at)  u == s[at].undo
<1>1. /\ phase = "undo" /\ todo = <<>> /\ node \in Nodes /\ at \in DOMAIN s /\ at \in failed
      /\ misused = {} /\ ~alarm_on /\ alarm_on \in BOOLEAN
  BY DEF Undone, LifeInv, LifeType, UndoInv
<1>2. /\ node' = node /\ held' = held /\ todo' = todo /\ misused' = misused /\ failed' = failed
      /\ alarm_on' = alarm_on
      /\ s[at].fail = "abort" => phase' = "off"
      /\ s[at].fail = "next" =>
           IF at = Len(s) THEN phase' = "run" /\ at' = 0 ELSE phase' = "init" /\ at' = at + 1
      /\ s[at].fail = "done" => phase' = "run"
  BY DEF Undone, GoOn, Step
<1>3. H \ (Optional \cup Released(u)) \subseteq held /\ held \subseteq H \ Released(u)
  <2>1. PICK v \in Seq(Thing) :
          /\ u = v \o todo /\ H \ (Optional \cup Released(v)) \subseteq held
          /\ held \subseteq H \ Released(v)
    BY <1>1 DEF LifeInv, UndoInv, Step
  <2>2. u = v
    BY <2>1, <1>1, ConcatNothing
  <2> QED
    BY <2>1, <2>2
<1>4. s \in Seq(StepSet) /\ Gets(s) = AppGets
  BY <1>1, AppPoints
<1>5. /\ s[at].fail \in {"abort", "next", "done"}
      /\ s[at].fail = "abort" =>
           \A r \in H \ Released(u) : r[1] = "cyclic" => r \in Own("cyclic", Unfreed(node.zero_copy))
      /\ s[at].fail = "next" => s[at].get = Optional /\ u = <<>>
      /\ s[at].fail # "done" => H \cup s[at].get \subseteq MainGets
      /\ s[at].fail = "done" =>
           /\ MainGets \subseteq H
           /\ \A r \in Released(u) : r[1] = "alarm"
           /\ \/ s[at].get = {}
              \/ \A r \in H \ Released(u) : r[1] = "alarm" => r \in Own("alarm", Unfreed(node.zero_copy))
  <2> DEFINE p == Point(s, at)
  <2>1. /\ AppPoint(p) /\ p.before = H /\ p.get = s[at].get /\ p.undo = u /\ p.fail = s[at].fail
    BY <1>1, AtStep
  <2> HIDE DEF p, H, u, s
  <2> QED
    BY <2>1 DEF AppPoint
<1>6. /\ H \cup s[at].get = Before(s, at + 1)
      /\ at = Len(s) => H \cup s[at].get = Gets(s)
      /\ at # Len(s) => at + 1 \in DOMAIN s
  <2> HIDE DEF s
  <2> QED
    BY <1>1, <1>4, BeforeNext
<1>7. LifeType'
  BY <1>1, <1>2, <1>5, NoThing DEF LifeType
<1>8. CASE s[at].fail = "abort"
  <2>1. \A r \in held : r[1] = "cyclic" => r \in Own("cyclic", Unfreed(node.zero_copy))
    BY <1>3, <1>5, <1>8
  <2>2. \A r \in held : r[1] # "alarm"
    BY <1>3, <1>5, <1>8, MainGetsParts
  <2>3. Down'
    BY <1>2, <2>1, <2>2 DEF Down, Left
  <2>4. Misuse'
    BY <1>1, <1>2 DEF Misuse
  <2>5. OffInv'
    BY <2>3, <2>4, <1>1, <1>2 DEF OffInv
  <2> QED
    BY <2>5, <1>2, <1>7, <1>8 DEF LifeInv, InitInv, UndoInv, RunInv, ExitInv
<1>9. CASE s[at].fail = "next"
  <2>1. at # Len(s)
    BY <1>4, <1>5, <1>6, <1>9, AlarmThreadGot
  <2>2. phase' = "init" /\ at' = at + 1 /\ at + 1 \in DOMAIN s
    BY <1>2, <1>6, <1>9, <2>1
  <2>3. Released(u) = {}
    BY <1>5, <1>9, NoThing
  <2>4. /\ Before(s, at + 1) \ Optional \subseteq held' /\ held' \subseteq Before(s, at + 1)
    BY <1>2, <1>3, <1>5, <1>6, <1>9, <2>3
  <2>5. InitInv'
    BY <1>1, <1>2, <2>2, <2>4 DEF InitInv
  <2> QED
    BY <2>2, <2>5, <1>7 DEF LifeInv, UndoInv, RunInv, ExitInv, OffInv
<1>10. CASE s[at].fail = "done"
  <2>1. MainGets \ Optional \subseteq held
    BY <1>3, <1>5, <1>10, MainGetsParts
  <2>2. held \subseteq AppGets
    <3>1. H \subseteq AppGets
      BY <1>4, <1>1, <1>6, PointType DEF Before, Gets
    <3> QED
      BY <3>1, <1>3
  <2>3. \A r \in held : \/ r[1] # "alarm" \/ r \in Own("alarm", Unfreed(node.zero_copy))
                        \/ CallbackFailed
    <3>1. CASE s[at].get = {}
      BY <3>1, <1>1 DEF CallbackFailed
    <3>2. CASE s[at].get # {}
      BY <3>2, <1>3, <1>5, <1>10
    <3> QED
      BY <3>1, <3>2
  <2>4. Running(alarm_on)' = MainGets /\ AppGets' = AppGets /\ CallbackFailed' = CallbackFailed
    BY <1>1, <1>2, SameNode DEF Running, CallbackFailed
  <2>5. HeldBut({})'
    <3>1. \A r \in held' : Left(r)'
      BY <1>2, <2>3, <2>4 DEF Left
    <3> QED
      BY <1>2, <2>1, <2>2, <2>4, <3>1 DEF HeldBut
  <2>6. RunInv'
    BY <2>5, <1>1, <1>2 DEF RunInv
  <2> QED
    BY <2>6, <1>2, <1>7, <1>10 DEF LifeInv, InitInv, UndoInv, ExitInv, OffInv
<1> QED
  BY <1>5, <1>8, <1>9, <1>10

LEMMA LifeExit == LifeInv /\ Exit => LifeInv'
<1> SUFFICES ASSUME LifeInv, Exit PROVE LifeInv'
  OBVIOUS
<1> DEFINE u == Exits
<1>1. /\ node \in Nodes /\ alarm_on \in BOOLEAN /\ misused = {} /\ HeldBut({})
  BY DEF Exit, LifeInv, LifeType, RunInv
<1>2. /\ phase' = "exit" /\ todo' = u
      /\ node' = node /\ held' = held /\ misused' = misused /\ failed' = failed /\ alarm_on' = alarm_on
      /\ known' = known
  BY DEF Exit, Exits, Client
<1>3. u \in Seq(Thing)
  BY <1>1, NodeExits DEF ExitOrder
<1> HIDE DEF u
<1> DEFINE none == <<>>
<1>4. none \in Seq(Thing) /\ u = none \o u /\ Released(none) = {}
  BY <1>3, NoThing, ConcatNothing
<1> HIDE DEF none
<1>5. HeldBut(Released(none))'
  <2>1. /\ Running(alarm_on)' = Running(alarm_on) /\ AppGets' = AppGets
        /\ CallbackFailed' = CallbackFailed
    BY <1>2, SameNode DEF Running, CallbackFailed
  <2>2. \A r : Left(r)' = Left(r)
    BY <1>2, <2>1 DEF Left
  <2> QED
    BY <1>1, <1>2, <1>4, <2>1, <2>2 DEF HeldBut
<1>6. ExitInv'
  <2>1. Misuse'
    BY <1>1, <1>2 DEF Misuse
  <2>2. Exits' = none \o todo'
    BY <1>2, <1>4 DEF u, Exits
  <2> QED
    BY <2>1, <2>2, <1>4, <1>5 DEF ExitInv
<1>7. LifeType'
  BY <1>1, <1>2, <1>3 DEF LifeType
<1> QED
  BY <1>2, <1>6, <1>7 DEF LifeInv, InitInv, UndoInv, RunInv, OffInv

\* What is left when everything that has an exit has been released.
LEMMA Freed ==
  /\ \A r \in AppGets \ CyclicExits : r[1] = "cyclic" => r \in Own("cyclic", Unfreed(node.zero_copy))
  /\ \A r \in AppGets \ AlarmExits : r[1] = "alarm" => r \in Own("alarm", Unfreed(node.zero_copy))
<1>1. \A r \in AlarmGets : r[1] = "alarm"
  BY OwnFirst DEF AlarmGets
<1>2. \A r \in CyclicGets \ CyclicExits : r \in Own("cyclic", Unfreed(node.zero_copy))
  BY DEF CyclicGets, CyclicExits, Own, Unfreed
<1>3. \A r \in AlarmGets \ AlarmExits : r \in Own("alarm", Unfreed(node.zero_copy))
  BY DEF AlarmGets, AlarmExits, Own, Unfreed
<1> QED
  BY <1>1, <1>2, <1>3, MainGetsParts DEF AppGets

LEMMA LifeExited == LifeInv /\ Exited => LifeInv'
<1> SUFFICES ASSUME LifeInv, Exited PROVE LifeInv'
  OBVIOUS
<1> DEFINE u == Exits
<1>1. /\ node \in Nodes /\ alarm_on \in BOOLEAN /\ todo = <<>> /\ Misuse /\ phase = "exit"
  BY DEF Exited, LifeInv, LifeType, ExitInv
<1>2. /\ phase' = "off" /\ todo' = todo
      /\ node' = node /\ held' = held /\ misused' = misused /\ failed' = failed /\ alarm_on' = alarm_on
  BY DEF Exited
<1>3. HeldBut(Released(u))
  <2>1. PICK v \in Seq(Thing) : u = v \o todo /\ HeldBut(Released(v))
    BY <1>1 DEF LifeInv, ExitInv
  <2>2. u = v
    BY <2>1, <1>1, ConcatNothing
  <2> QED
    BY <2>1, <2>2
<1>4. CyclicExits \subseteq Released(u) /\ (alarm_on => AlarmExits \subseteq Released(u))
  BY <1>1, NodeExits DEF ExitOrder
<1> HIDE DEF u
<1>5. Down
  <2>1. \A r \in held : r \in AppGets \ CyclicExits /\ (alarm_on => r \in AppGets \ AlarmExits)
    BY <1>3, <1>4 DEF HeldBut
  <2>2. \A r \in held : r[1] = "cyclic" => r \in Own("cyclic", Unfreed(node.zero_copy))
    BY <2>1, Freed
  <2>3. \A r \in held : Left(r)
    BY <2>1, <1>3, <1>1, Freed DEF HeldBut, Left
  <2> QED
    BY <2>2, <2>3 DEF Down
<1>6. Down' /\ Misuse'
  <2>1. CallbackFailed' = CallbackFailed
    BY <1>2 DEF CallbackFailed
  <2>2. \A r : Left(r)' = Left(r)
    BY <1>2, <2>1 DEF Left
  <2>3. Down'
    BY <1>2, <1>5, <2>2 DEF Down
  <2>4. Misuse'
    BY <1>1, <1>2 DEF Misuse
  <2> QED
    BY <2>3, <2>4
<1>7. LifeType'
  BY <1>1, <1>2, NoThing DEF LifeType
<1> QED
  BY <1>1, <1>2, <1>6, <1>7 DEF LifeInv, InitInv, UndoInv, RunInv, ExitInv, OffInv

LEMMA LifeRelease == LifeInv /\ Release => LifeInv'
<1> SUFFICES ASSUME LifeInv, Release PROVE LifeInv'
  OBVIOUS
<1> DEFINE r == Head(todo)  t == Tail(todo)  s == AppSteps(node)  H == Before(s, at)
           missing == Missing(r)
<1>1. /\ node \in Nodes /\ alarm_on \in BOOLEAN /\ todo \in Seq(Thing) /\ todo # <<>>
      /\ phase \in {"undo", "exit"}
  BY DEF Release, LifeInv, LifeType, InitInv, RunInv, OffInv
<1>2. /\ held' = held \ {r} /\ todo' = t
      /\ misused' = IF missing THEN misused \cup {r} ELSE misused
      /\ node' = node /\ phase' = phase /\ at' = at /\ failed' = failed /\ alarm_on' = alarm_on
      /\ known' = known
  BY DEF Release
<1>3. missing => r \notin held \/ r = ControllerMotors
  BY DEF Missing, ControllerMotors
<1>4. r \in Thing /\ t \in Seq(Thing)
  BY <1>1, HeadTailProperties
<1>5. LifeType'
  BY <1>1, <1>2, <1>4 DEF LifeType
<1>6. ASSUME NEW v \in Seq(Thing)
      PROVE  /\ v \o <<r>> \in Seq(Thing) /\ v \o todo = (v \o <<r>>) \o t
             /\ Released(v) \cup {r} = Released(v \o <<r>>) /\ r \in Released(v \o todo)
             /\ \A X : Repeats(v \o todo, X) /\ r \in Released(v) => r \in X
  BY <1>1, ReleaseNext
<1> HIDE DEF r, t, missing
<1>7. CASE phase = "undo"
  <2> DEFINE u == s[at].undo
  <2>1. at \in DOMAIN s /\ at \in failed /\ misused = {} /\ ~alarm_on
    BY <1>7 DEF LifeInv, UndoInv
  <2>2. PICK v \in Seq(Thing) :
          /\ u = v \o todo /\ H \ (Optional \cup Released(v)) \subseteq held
          /\ held \subseteq H \ Released(v)
    BY <1>7 DEF LifeInv, UndoInv, Step
  <2>3. /\ Once(u) /\ Released(u) \subseteq H
        /\ Optional \cap Released(u) = {} /\ ControllerMotors \notin Released(u)
    <3> DEFINE p == Point(s, at)
    <3>1. AppPoint(p) /\ p.before = H /\ p.undo = u
      BY <1>1, <2>1, AtStep
    <3> HIDE DEF p, H, u, s
    <3> QED
      BY <3>1 DEF AppPoint, Undoable
  <2> HIDE DEF H, u, s
  <2>4. r \in Released(u) /\ r \notin Released(v)
    <3>1. Repeats(u, {})
      BY <2>3, OnceRepeats
    <3> QED
      BY <3>1, <2>2, <1>6
  <2>5. ~missing
    BY <2>2, <2>3, <2>4, <1>3
  <2> DEFINE w == v \o <<r>>
  <2>6. w \in Seq(Thing) /\ u = w \o t /\ Released(v) \cup {r} = Released(w)
    BY <2>2, <1>6
  <2> HIDE DEF w
  <2>7. H \ (Optional \cup Released(w)) \subseteq held' /\ held' \subseteq H \ Released(w)
    BY <2>2, <2>6, <1>2
  <2>8. \E x \in Seq(Thing) :
          u = x \o t /\ H \ (Optional \cup Released(x)) \subseteq held' /\ held' \subseteq H \ Released(x)
    BY <2>6, <2>7
  <2>9. UndoInv'
    BY <1>2, <2>1, <2>5, <2>8 DEF UndoInv, Step, H, u, s
  <2> QED
    BY <2>9, <1>2, <1>5, <1>7 DEF LifeInv, InitInv, RunInv, ExitInv, OffInv
<1>8. CASE phase = "exit"
  <2> DEFINE u == Exits
  <2>1. Misuse
    BY <1>8 DEF LifeInv, ExitInv
  <2>2. PICK v \in Seq(Thing) : u = v \o todo /\ HeldBut(Released(v))
    BY <1>8 DEF LifeInv, ExitInv
  <2>3. node.built \subseteq {node.mode} =>
          Repeats(u, Twice) /\ Released(u) \subseteq Running(alarm_on)
    BY <1>1, NodeExits DEF ExitOrder
  <2> HIDE DEF u
  <2>4. PICK w \in Seq(Thing) : u = w \o t /\ Released(v) \cup {r} = Released(w)
    BY <2>2, <1>6
  <2>5. r \in Released(u) /\ \A X : Repeats(u, X) /\ r \in Released(v) => r \in X
    BY <2>2, <1>6
  <2>6. HeldBut(Released(w))'
    <3>1. /\ Running(alarm_on)' = Running(alarm_on) /\ AppGets' = AppGets
          /\ CallbackFailed' = CallbackFailed
      BY <1>2, SameNode DEF Running, CallbackFailed
    <3>2. \A q : Left(q)' = Left(q)
      BY <1>2, <3>1 DEF Left
    <3>3. /\ Running(alarm_on) \ (Optional \cup Released(w)) \subseteq held'
          /\ held' \subseteq AppGets \ Released(w)
          /\ ~alarm_on => \A q \in held' : Left(q)
      BY <1>2, <2>2, <2>4 DEF HeldBut
    <3> QED
      BY <1>2, <3>1, <3>2, <3>3 DEF HeldBut
  <2>7. ASSUME node.built \subseteq {node.mode}, missing
        PROVE  IF node.mode = "IO_DEVICE" THEN r[1] = "cyclic"
                                          ELSE r \in {ControllerMotors} \cup Optional
    <3>1. r \in Running(alarm_on)
      BY <2>3, <2>5, <2>7
    <3>2. CASE r \in Released(v)
      <4>1. r \in Twice
        BY <3>2, <2>3, <2>5, <2>7
      <4> QED
        BY <4>1, OwnFirst DEF Twice, CyclicExits, Thread, Timer
    <3>3. CASE r \notin Released(v)
      <4>1. r \in Optional \/ r \in held
        BY <3>1, <3>3, <2>2 DEF HeldBut
      <4>2. r \in {ControllerMotors} \cup Optional
        BY <4>1, <1>3, <2>7
      <4>3. r[1] = "controller"
        BY <4>2 DEF ControllerMotors, Optional, Client, ClientThread
      <4>4. node.mode # "IO_DEVICE"
        <5>1. r \in MainGets
          BY <3>1, <4>3, OwnFirst DEF Running, AlarmGets
        <5>2. r \in ModeGets
          BY <5>1, <4>3, OwnFirst DEF MainGets, CyclicGets, Ctx, Thread, Timer
        <5> QED
          BY <5>2, <4>3, OwnFirst DEF ModeGets
      <4> QED
        BY <4>2, <4>4
    <3> QED
      BY <3>2, <3>3
  <2>8. Misuse'
    <3>1. ASSUME node.built \subseteq {node.mode}
          PROVE  IF node.mode = "IO_DEVICE" THEN \A q \in misused' : q[1] = "cyclic"
                 ELSE misused' \subseteq {ControllerMotors} \cup Optional
      <4>1. IF node.mode = "IO_DEVICE" THEN \A q \in misused : q[1] = "cyclic"
            ELSE misused \subseteq {ControllerMotors} \cup Optional
        BY <3>1, <2>1 DEF Misuse
      <4> QED
        BY <4>1, <2>7, <3>1, <1>2
    <3> QED
      BY <3>1, <1>2 DEF Misuse
  <2>9. ExitInv'
    <3>1. Exits' = w \o todo'
      BY <1>2, <2>4 DEF u, Exits
    <3> QED
      BY <3>1, <2>4, <2>6, <2>8 DEF ExitInv
  <2> QED
    BY <2>9, <1>2, <1>5, <1>8 DEF LifeInv, InitInv, UndoInv, RunInv, OffInv
<1> QED
  BY <1>1, <1>7, <1>8

LEMMA LifeEnds == LifeInv /\ ClientEnds => LifeInv'
<1> SUFFICES ASSUME LifeInv, ClientEnds PROVE LifeInv'
  OBVIOUS
<1>1. /\ node' = node /\ phase' = phase /\ at' = at /\ todo' = todo /\ known' = known
      /\ misused' = misused /\ failed' = failed /\ alarm_on' = alarm_on
      /\ held' = held \ {ClientThread}
  BY DEF ClientEnds, ClientThread
<1>2. ClientThread \in Optional
  BY DEF Optional
<1>3. /\ Running(alarm_on)' = Running(alarm_on) /\ AppGets' = AppGets
      /\ CallbackFailed' = CallbackFailed /\ Step' = Step /\ Exits' = Exits
  BY <1>1, SameNode DEF Running, CallbackFailed, Step, Exits
<1>4. \A r : Left(r)' = Left(r)
  BY <1>1, <1>3 DEF Left
<1>5. ASSUME NEW g, HeldBut(g) PROVE HeldBut(g)'
  BY <1>1, <1>2, <1>3, <1>4, <1>5 DEF HeldBut
<1>6. LifeType' /\ InitInv' /\ (Misuse => Misuse') /\ (Down => Down')
  <2>1. LifeType' /\ InitInv'
    BY <1>1, <1>2 DEF LifeInv, LifeType, InitInv
  <2>2. Misuse => Misuse'
    BY <1>1 DEF Misuse
  <2>3. Down => Down'
    BY <1>1, <1>4 DEF Down
  <2> QED
    BY <2>1, <2>2, <2>3
<1>7. UndoInv'
  <2> SUFFICES ASSUME phase = "undo"
               PROVE  /\ at \in DOMAIN AppSteps(node) /\ at \in failed /\ misused = {} /\ ~alarm_on
                      /\ \E v \in Seq(Thing) :
                           /\ Step.undo = v \o todo
                           /\ Before(AppSteps(node), at) \ (Optional \cup Released(v)) \subseteq held'
                           /\ held' \subseteq Before(AppSteps(node), at) \ Released(v)
    BY <1>1, <1>3 DEF UndoInv
  <2>1. PICK v \in Seq(Thing) :
          /\ Step.undo = v \o todo
          /\ Before(AppSteps(node), at) \ (Optional \cup Released(v)) \subseteq held
          /\ held \subseteq Before(AppSteps(node), at) \ Released(v)
    BY DEF LifeInv, UndoInv
  <2>2. /\ Before(AppSteps(node), at) \ (Optional \cup Released(v)) \subseteq held'
        /\ held' \subseteq Before(AppSteps(node), at) \ Released(v)
    BY <1>1, <1>2, <2>1
  <2> QED
    BY <2>1, <2>2 DEF LifeInv, UndoInv
<1>8. RunInv'
  BY <1>1, <1>5 DEF LifeInv, RunInv
<1>9. ExitInv'
  <2> SUFFICES ASSUME phase = "exit"
               PROVE  Misuse' /\ \E v \in Seq(Thing) : Exits' = v \o todo' /\ HeldBut(Released(v))'
    BY <1>1 DEF ExitInv
  <2>1. Misuse
    BY DEF LifeInv, ExitInv
  <2>2. PICK v \in Seq(Thing) : Exits = v \o todo /\ HeldBut(Released(v))
    BY DEF LifeInv, ExitInv
  <2>3. HeldBut(Released(v))'
    BY <1>5, <2>2
  <2> QED
    BY <1>1, <1>3, <1>6, <2>1, <2>2, <2>3
<1>10. OffInv'
  BY <1>1, <1>6 DEF LifeInv, OffInv
<1> QED
  BY <1>6, <1>7, <1>8, <1>9, <1>10 DEF LifeInv

LEMMA LifeStutter == LifeInv /\ UNCHANGED lifeVars => LifeInv'
<1> SUFFICES ASSUME LifeInv, UNCHANGED lifeVars PROVE LifeInv'
  OBVIOUS
<1>1. /\ node' = node /\ phase' = phase /\ at' = at /\ held' = held /\ todo' = todo
      /\ misused' = misused /\ failed' = failed /\ alarm_on' = alarm_on /\ known' = known
  BY DEF lifeVars
<1>2. /\ Running(alarm_on)' = Running(alarm_on) /\ AppGets' = AppGets
      /\ CallbackFailed' = CallbackFailed
  BY <1>1, SameNode DEF Running, CallbackFailed
<1>3. \A r : Left(r)' = Left(r)
  BY <1>1, <1>2 DEF Left
<1>4. ASSUME NEW g, HeldBut(g) PROVE HeldBut(g)'
  BY <1>1, <1>2, <1>3, <1>4 DEF HeldBut
<1>5. LifeType' /\ InitInv' /\ (Misuse => Misuse') /\ (Down => Down')
  <2>1. LifeType' /\ InitInv'
    BY <1>1 DEF LifeInv, LifeType, InitInv
  <2>2. Misuse => Misuse'
    BY <1>1 DEF Misuse
  <2>3. Down => Down'
    BY <1>1, <1>3 DEF Down
  <2> QED
    BY <2>1, <2>2, <2>3
<1>6. UndoInv'
  BY <1>1 DEF LifeInv, UndoInv, Step
<1>7. RunInv'
  BY <1>1, <1>4 DEF LifeInv, RunInv
<1>8. ExitInv'
  <2> SUFFICES ASSUME phase' = "exit"
               PROVE  Misuse' /\ \E v \in Seq(Thing) :
                                   /\ Exits' = v \o todo'
                                   /\ HeldBut(Released(v))'
    BY DEF ExitInv
  <2>1. Misuse
    BY <1>1 DEF LifeInv, ExitInv
  <2>2. PICK v \in Seq(Thing) : Exits = v \o todo /\ HeldBut(Released(v))
    BY <1>1 DEF LifeInv, ExitInv
  <2>3. HeldBut(Released(v))' /\ Exits' = Exits
    BY <1>1, <1>4, <2>2 DEF Exits
  <2> QED
    BY <1>1, <1>5, <2>1, <2>2, <2>3
<1>9. OffInv'
  BY <1>1, <1>5 DEF LifeInv, OffInv
<1> QED
  BY <1>5, <1>6, <1>7, <1>8, <1>9 DEF LifeInv

LEMMA LifeNext == LifeInv /\ [Next]_vars => LifeInv'
<1>1. UNCHANGED vars => UNCHANGED lifeVars
  BY DEF vars, lifeVars
<1>2. Next => \/ Acquire \/ Fail \/ Undone \/ Exit \/ Exited \/ Release \/ ClientEnds
              \/ UNCHANGED lifeVars
  BY DEF Next, ButtonStep, SocketStep, AlarmStep, SerialStep
<1> QED
  BY <1>1, <1>2, LifeAcquire, LifeFail, LifeUndone, LifeExit, LifeExited, LifeRelease,
     LifeEnds, LifeStutter

\* A node that starts or runs.
Starting == phase \in {"init", "undo", "run"}

\* While it starts, a node knows what its steps have acquired so far, or given back.
KnownSoFar ==
  /\ phase = "init" => known \subseteq Before(AppSteps(node), at)
  /\ phase = "undo" => known \subseteq Before(AppSteps(node), at) \cup Step.get

\* The cyclic task goes right after its timer.
TimerGone == Thread \in held /\ Timer \in known \ held => todo # <<>> /\ Head(todo) = Thread

\* A client is there while its thread and a cyclic task are, unless it could not be started.
ClientKept ==
  /\ ClientThread \in held => Client \in held
  /\ Starting \/ Thread \in held => (Client \in known \ held => ClientFailed)

\* The client that the exit releases is there, unless it could not be started.
ClientExit ==
  phase = "exit" /\ Client \in known /\ ~ClientFailed =>
    \E v \in Seq(Thing) : Exits = v \o todo /\ Client \in Released(v) \cup held
ClientMisused == node.built \subseteq {node.mode} /\ Client \in misused => ClientFailed

\* Inductive with LifeInv: of what was had once and is gone, what is still used.
KnownInv == KnownSoFar /\ TimerGone /\ ClientKept /\ ClientExit /\ ClientMisused

\* What is released right after the next.
LEMMA NextToNext ==
  ASSUME NEW v \in Seq(Thing), NEW w \in Seq(Thing), w # <<>>, NEW b, NextTo(v \o w, Head(w), b)
  PROVE  Tail(w) # <<>> /\ Head(Tail(w)) = b
<1> DEFINE u == v \o w  l == Len(v)
<1>1. Len(w) # 0 /\ w[1] = Head(w) /\ Len(w) \in Nat /\ l \in Nat
  BY EmptySeq, LenProperties
<1>2. /\ DOMAIN u = 1..l + Len(w)
      /\ \A k \in 1..Len(w) : u[l + k] = w[k]
  BY ConcatProperties, LenProperties
<1> HIDE DEF u, l
<1>3. l + 1 \in DOMAIN u /\ u[l + 1] = Head(w)
  BY <1>1, <1>2
<1>4. (l + 1) + 1 \in DOMAIN u /\ u[(l + 1) + 1] = b
  BY <1>3 DEF NextTo, u
<1>5. Len(w) >= 2 /\ (l + 1) + 1 = l + 2
  BY <1>1, <1>2, <1>4
<1>6. w[2] = b
  BY <1>1, <1>2, <1>4, <1>5
<1> DEFINE t == Tail(w)
<1>7. t \in Seq(Thing) /\ Len(t) = Len(w) - 1 /\ t[1] = w[2]
  BY <1>1, <1>5, HeadTailProperties
<1> HIDE DEF t
<1>8. t # <<>>
  <2>1. Len(t) # 0
    BY <1>1, <1>5, <1>7
  <2> QED
    BY <2>1, <1>7, EmptySeq
<1>9. Head(t) = t[1]
  BY <1>7, <1>8
<1> QED
  BY <1>6, <1>7, <1>8, <1>9 DEF t

\* What LifeInv says of the step that starts a node.
LEMMA StartStep ==
  ASSUME LifeInv, phase \in {"init", "undo"}
  PROVE  /\ at \in DOMAIN AppSteps(node) /\ held \subseteq Before(AppSteps(node), at)
         /\ phase = "init" =>
              todo = <<>> /\ Before(AppSteps(node), at) \ Optional \subseteq held
         /\ Before(AppSteps(node), at) \cup Step.get = Before(AppSteps(node), at + 1)
         /\ Optional \cap Step.get = {} \/ Optional \subseteq Step.get
         /\ Thread \in Before(AppSteps(node), at) /\ Timer \in Step.get =>
              StartsWith(Step.undo, Thread)
         /\ (Optional \cup {Timer}) \cap Released(Step.undo) = {}
<1> DEFINE s == AppSteps(node)  H == Before(s, at)  p == Point(s, at)
<1>1. node \in Nodes /\ at \in DOMAIN s /\ held \subseteq H
  BY DEF LifeInv, LifeType, InitInv, UndoInv
<1>2. phase = "init" => todo = <<>> /\ H \ Optional \subseteq held
  BY DEF LifeInv, InitInv
<1>3. AppPoint(p) /\ p.before = H /\ p.get = Step.get /\ p.undo = Step.undo
  BY <1>1, AtStep DEF Step
<1>4. H \cup Step.get = Before(s, at + 1)
  <2>1. s \in Seq(StepSet)
    BY <1>1, AppPoints
  <2> HIDE DEF s
  <2>2. H \cup s[at].get = Before(s, at + 1)
    BY <1>1, <2>1, BeforeNext
  <2> QED
    BY <2>2 DEF s, Step
<1> HIDE DEF p, H, s
<1>5. /\ Optional \cap Step.get = {} \/ Optional \subseteq Step.get
      /\ Thread \in H /\ Timer \in Step.get => StartsWith(Step.undo, Thread)
      /\ (Optional \cup {Timer}) \cap Released(Step.undo) = {}
  BY <1>3 DEF AppPoint
<1> QED
  BY <1>1, <1>2, <1>4, <1>5 DEF H, s

\* KnownInv holds at first, and every step keeps it.
LEMMA KnownInit == Init => KnownInv
BY DEF Init, KnownInv, KnownSoFar, TimerGone, ClientKept, ClientExit, ClientMisused

LEMMA KnownAcquire == LifeInv /\ KnownInv /\ Acquire => KnownInv'
<1> SUFFICES ASSUME LifeInv, KnownInv, Acquire PROVE KnownInv'
  OBVIOUS
<1> DEFINE s == AppSteps(node)  H == Before(s, at)
<1>1. /\ phase = "init" /\ held \subseteq H /\ H \ Optional \subseteq held
      /\ H \cup Step.get = Before(s, at + 1) /\ todo = <<>>
      /\ Optional \cap Step.get = {} \/ Optional \subseteq Step.get
  BY StartStep DEF Acquire
<1>2. /\ held' = held \cup Step.get /\ known' = known \cup Step.get
      /\ node' = node /\ todo' = todo /\ misused' = misused /\ failed' = failed
      /\ phase' \in {"init", "run"} /\ (phase' = "init" => at' = at + 1)
  BY DEF Acquire, GoOn
<1>3. known \subseteq H
  BY <1>1 DEF KnownInv, KnownSoFar
<1>4. ClientFailed' = ClientFailed
  BY <1>2 DEF ClientFailed
<1>5. KnownSoFar'
  BY <1>1, <1>2, <1>3 DEF KnownSoFar
<1>6. TimerGone'
  <2>1. Timer \notin Optional
    BY DEF Optional, Timer, Client, ClientThread
  <2> QED
    BY <1>1, <1>2, <1>3, <2>1 DEF TimerGone
<1>7. ClientKept'
  <2>1. {Client, ClientThread} = Optional
    BY DEF Optional
  <2>2. ClientThread \in held => Client \in held
    BY DEF KnownInv, ClientKept
  <2>3. ClientThread \in held' => Client \in held'
    BY <1>1, <1>2, <2>1, <2>2
  <2>4. Client \in known' \ held' => ClientFailed'
    BY <1>1, <1>2, <1>4 DEF KnownInv, ClientKept, Starting
  <2> QED
    BY <2>3, <2>4 DEF ClientKept
<1>8. ClientMisused'
  BY <1>2, <1>4 DEF KnownInv, ClientMisused
<1> QED
  BY <1>2, <1>5, <1>6, <1>7, <1>8 DEF KnownInv, ClientExit

LEMMA KnownFail == LifeInv /\ KnownInv /\ Fail => KnownInv'
<1> SUFFICES ASSUME LifeInv, KnownInv, Fail PROVE KnownInv'
  OBVIOUS
<1> DEFINE s == AppSteps(node)  H == Before(s, at)
<1>1. /\ phase = "init" /\ at \in DOMAIN s /\ held \subseteq H /\ H \ Optional \subseteq held
      /\ Thread \in H /\ Timer \in Step.get => StartsWith(Step.undo, Thread)
  BY StartStep DEF Fail
<1>2. /\ failed' = failed \cup {at} /\ known' \in {known, known \cup GivenBack}
      /\ phase' = "undo" /\ todo' = Step.undo
      /\ node' = node /\ at' = at /\ held' = held /\ misused' = misused
  BY DEF Fail
<1>3. /\ known' \subseteq known \cup Step.get /\ Step' = Step
      /\ Optional \cap (known' \ known) \subseteq {Client}
  BY <1>2 DEF GivenBack, Step, Optional, Client, ClientThread
<1>4. known \subseteq H
  BY <1>1 DEF KnownInv, KnownSoFar
<1>5. (ClientFailed => ClientFailed') /\ (Client \in Step.get => ClientFailed')
  <2>1. ClientFailed' <=> \E k \in failed' : Client \in s[k].get
    BY <1>2 DEF ClientFailed, Client
  <2>2. ClientFailed <=> \E k \in failed : Client \in s[k].get
    BY DEF ClientFailed, Client
  <2> QED
    BY <1>2, <2>1, <2>2 DEF Step
<1>6. KnownSoFar'
  BY <1>2, <1>3, <1>4 DEF KnownSoFar
<1>7. TimerGone'
  <2> SUFFICES ASSUME Thread \in held, Timer \in known' \ held
               PROVE  todo' # <<>> /\ Head(todo') = Thread
    BY <1>2 DEF TimerGone
  <2>1. Timer \notin Optional
    BY DEF Optional, Timer, Client, ClientThread
  <2>2. Timer \in Step.get
    BY <1>1, <1>3, <1>4, <2>1
  <2>3. StartsWith(todo', Thread)
    BY <1>1, <1>2, <2>2
  <2>4. Thread \in Thing
    BY ThingType DEF Kinds, Owner, Thread
  <2> QED
    BY <2>3, <2>4, StartsHead
<1>8. ClientKept'
  BY <1>1, <1>2, <1>3, <1>5 DEF KnownInv, ClientKept, Starting
<1>9. ClientMisused'
  BY <1>2, <1>5 DEF KnownInv, ClientMisused
<1> QED
  BY <1>2, <1>6, <1>7, <1>8, <1>9 DEF KnownInv, ClientExit

LEMMA KnownUndone == LifeInv /\ KnownInv /\ Undone => KnownInv'
<1> SUFFICES ASSUME LifeInv, KnownInv, Undone PROVE KnownInv'
  OBVIOUS
<1>1. /\ phase = "undo" /\ todo = <<>>
      /\ Before(AppSteps(node), at) \cup Step.get = Before(AppSteps(node), at + 1)
  BY StartStep DEF Undone
<1>2. /\ node' = node /\ held' = held /\ known' = known /\ todo' = todo /\ misused' = misused
      /\ failed' = failed
      /\ phase' \in {"init", "run", "off"} /\ (phase' = "init" => at' = at + 1)
  <2>1. Step.fail \in {"abort", "next", "done"}
    <3>1. node \in Nodes /\ at \in DOMAIN AppSteps(node)
      BY <1>1, StartStep DEF LifeInv, LifeType
    <3> QED
      BY <3>1, AtStep DEF AppPoint, Step
  <2> QED
    BY <2>1 DEF Undone, GoOn
<1>3. ClientFailed' = ClientFailed
  BY <1>2 DEF ClientFailed
<1>4. KnownSoFar'
  BY <1>1, <1>2 DEF KnownInv, KnownSoFar
<1>5. TimerGone' /\ ClientKept' /\ ClientMisused'
  BY <1>1, <1>2, <1>3 DEF KnownInv, TimerGone, ClientKept, ClientMisused, Starting
<1> QED
  BY <1>2, <1>4, <1>5 DEF KnownInv, ClientExit

LEMMA KnownExit == LifeInv /\ KnownInv /\ Exit => KnownInv'
<1> SUFFICES ASSUME LifeInv, KnownInv, Exit PROVE KnownInv'
  OBVIOUS
<1>1. phase = "run" /\ HeldBut({}) /\ node \in Nodes /\ alarm_on \in BOOLEAN
  BY DEF Exit, LifeInv, LifeType, RunInv
<1>2. /\ phase' = "exit" /\ todo' = Exits
      /\ node' = node /\ held' = held /\ known' = known /\ misused' = misused
      /\ failed' = failed /\ alarm_on' = alarm_on
  BY DEF Exit, Exits, Client
<1>3. ClientFailed' = ClientFailed
  BY <1>2 DEF ClientFailed
<1>4. Timer \in held
  <2>1. Timer \in CyclicGets /\ Timer \notin Optional
    BY DEF CyclicGets, Optional, Timer, Client, ClientThread
  <2> QED
    BY <1>1, <2>1 DEF HeldBut, Running, MainGets
<1>5. Client \in known \ held => ClientFailed
  BY <1>1 DEF KnownInv, ClientKept, Starting
<1>6. TimerGone' /\ ClientKept' /\ ClientMisused' /\ KnownSoFar'
  BY <1>2, <1>3, <1>4, <1>5
  DEF KnownInv, TimerGone, ClientKept, ClientMisused, KnownSoFar, Starting
<1>7. ClientExit'
  <2> SUFFICES ASSUME Client \in known, ~ClientFailed
               PROVE  \E v \in Seq(Thing) : Exits' = v \o todo' /\ Client \in Released(v) \cup held
    BY <1>2, <1>3 DEF ClientExit
  <2>1. Client \in held
    BY <1>5
  <2> DEFINE none == <<>>
  <2>2. Exits' = Exits /\ Exits \in Seq(Thing)
    BY <1>1, <1>2, NodeExits DEF Exits, ExitOrder
  <2>3. none \in Seq(Thing) /\ Exits = none \o Exits
    BY <2>2, NoThing, ConcatNothing
  <2> HIDE DEF none
  <2> QED
    BY <1>2, <2>1, <2>2, <2>3
<1> QED
  BY <1>6, <1>7 DEF KnownInv

LEMMA KnownExited == LifeInv /\ KnownInv /\ Exited => KnownInv'
<1> SUFFICES ASSUME LifeInv, KnownInv, Exited PROVE KnownInv'
  OBVIOUS
<1>1. /\ todo = <<>> /\ phase' = "off"
      /\ node' = node /\ held' = held /\ known' = known /\ todo' = todo /\ misused' = misused
      /\ failed' = failed
  BY DEF Exited
<1>2. ClientFailed' = ClientFailed
  BY <1>1 DEF ClientFailed
<1> QED
  BY <1>1, <1>2 DEF KnownInv, KnownSoFar, TimerGone, ClientKept, ClientExit, ClientMisused, Starting

LEMMA KnownRelease == LifeInv /\ KnownInv /\ Release => KnownInv'
<1> SUFFICES ASSUME LifeInv, KnownInv, Release PROVE KnownInv'
  OBVIOUS
<1> DEFINE r == Head(todo)  missing == Missing(r)
<1>1. /\ node \in Nodes /\ alarm_on \in BOOLEAN /\ todo \in Seq(Thing) /\ todo # <<>>
      /\ phase \in {"undo", "exit"}
  BY DEF Release, LifeInv, LifeType, InitInv, RunInv, OffInv
<1>2. /\ held' = held \ {r} /\ todo' = Tail(todo)
      /\ misused' = IF missing THEN misused \cup {r} ELSE misused
      /\ node' = node /\ phase' = phase /\ at' = at /\ failed' = failed /\ alarm_on' = alarm_on
      /\ known' = known
  BY DEF Release
<1>3. ClientFailed' = ClientFailed /\ Step' = Step /\ Exits' = Exits
  BY <1>2 DEF ClientFailed, Step, Exits
<1>4. missing /\ r = Client => r \notin held
  BY DEF Missing, Client
<1>5. KnownSoFar'
  BY <1>2, <1>3 DEF KnownInv, KnownSoFar
<1>6. Thread \in held' /\ Timer \in known \ held' => r = Timer
  BY <1>2 DEF KnownInv, TimerGone
<1>7. CASE phase = "undo"
  <2>1. r \notin Optional \cup {Timer}
    <3>1. PICK v \in Seq(Thing) : Step.undo = v \o todo
      BY <1>7 DEF LifeInv, UndoInv
    <3>2. r \in Released(Step.undo)
      BY <1>1, <3>1, ReleaseNext
    <3> QED
      BY <1>7, <3>2, StartStep
  <2>2. TimerGone'
    BY <1>2, <1>6, <2>1 DEF TimerGone
  <2>3. ClientKept'
    BY <1>2, <1>3, <2>1 DEF KnownInv, ClientKept, Starting, Optional
  <2>4. ClientMisused'
    BY <1>2, <1>3, <2>1 DEF KnownInv, ClientMisused, Optional
  <2> QED
    BY <1>2, <1>5, <1>7, <2>2, <2>3, <2>4 DEF KnownInv, ClientExit
<1>8. CASE phase = "exit"
  <2> DEFINE u == Exits
  <2>1. /\ u \in Seq(Thing) /\ NextTo(u, Timer, Thread)
        /\ Precedes(u, Thread, {Client}) /\ Precedes(u, ClientThread, {Client})
        /\ Optional \cap Released(u) # {} => Client \in known
        /\ node.built \subseteq {node.mode} => Repeats(u, Twice)
    BY <1>1, NodeExits DEF ExitOrder
  <2> HIDE DEF u
  <2>2. PICK v \in Seq(Thing) : u = v \o todo /\ held \cap Released(v) = {}
    <3>1. PICK v \in Seq(Thing) : Exits = v \o todo /\ HeldBut(Released(v))
      BY <1>8 DEF LifeInv, ExitInv
    <3> QED
      BY <3>1 DEF HeldBut, u
  <2>3. TimerGone'
    <3> SUFFICES ASSUME Thread \in held', Timer \in known \ held'
                 PROVE  Tail(todo) # <<>> /\ Head(Tail(todo)) = Thread
      BY <1>2 DEF TimerGone
    <3>1. NextTo(v \o todo, Head(todo), Thread)
      BY <1>6, <2>1, <2>2
    <3> QED
      BY <1>1, <3>1, NextToNext
  <2>4. ASSUME NEW a, a \in held', a \in {Thread, ClientThread}
        PROVE  r # Client
    <3> DEFINE w == v \o <<r>>  t == Tail(todo)
    <3>1. w \in Seq(Thing) /\ t \in Seq(Thing) /\ u = w \o t /\ Released(v) \cup {r} = Released(w)
      BY <1>1, <2>2, ReleaseNext
    <3> HIDE DEF w, t
    <3>2. a \notin Released(w)
      BY <1>2, <2>2, <2>4, <3>1
    <3>3. Precedes(w \o t, a, {Client})
      BY <2>1, <2>4, <3>1
    <3>4. Released(w) \cap {Client} = {}
      BY <3>1, <3>2, <3>3, ReleasedSoFar
    <3> QED
      BY <3>1, <3>4
  <2>5. ClientKept'
    BY <1>2, <1>3, <1>8, <2>4 DEF KnownInv, ClientKept, Starting
  <2>6. ClientExit'
    <3> SUFFICES ASSUME Client \in known, ~ClientFailed
                 PROVE  \E w \in Seq(Thing) : u = w \o Tail(todo) /\ Client \in Released(w) \cup held'
      BY <1>2, <1>3 DEF ClientExit, u
    <3>1. PICK x \in Seq(Thing) : u = x \o todo /\ Client \in Released(x) \cup held
      BY <1>8 DEF KnownInv, ClientExit, u
    <3> DEFINE w == x \o <<r>>
    <3>2. w \in Seq(Thing) /\ u = w \o Tail(todo) /\ Released(x) \cup {r} = Released(w)
      BY <1>1, <3>1, ReleaseNext
    <3> HIDE DEF w
    <3> QED
      BY <1>2, <3>1, <3>2
  <2>7. ClientMisused'
    <3> SUFFICES ASSUME node.built \subseteq {node.mode}, Client \in misused'
                 PROVE  ClientFailed
      BY <1>2, <1>3 DEF ClientMisused
    <3>1. CASE Client \in misused
      BY <3>1 DEF KnownInv, ClientMisused
    <3>2. CASE Client \notin misused
      <4>1. r = Client /\ r \notin held
        BY <1>2, <1>4, <3>2
      <4>2. r \in Released(u)
        BY <1>1, <2>2, ReleaseNext
      <4>3. ASSUME ~ClientFailed PROVE FALSE
        <5>1. PICK x \in Seq(Thing) : u = x \o todo /\ Client \in Released(x) \cup held
          BY <1>8, <2>1, <4>1, <4>2, <4>3 DEF KnownInv, ClientExit, u, Optional
        <5>2. r \in Released(x)
          BY <4>1, <5>1
        <5>3. r \in Twice
          BY <1>1, <2>1, <5>1, <5>2, ReleaseNext
        <5>4. r[1] = "cyclic" /\ r[1] = "controller"
          BY <4>1, <5>3, OwnFirst DEF Twice, CyclicExits, Thread, Timer, Client
        <5> QED
          BY <5>4
      <4> QED
        BY <4>3
    <3> QED
      BY <3>1, <3>2
  <2> QED
    BY <1>5, <2>3, <2>5, <2>6, <2>7 DEF KnownInv
<1> QED
  BY <1>1, <1>7, <1>8

LEMMA KnownEnds == KnownInv /\ ClientEnds => KnownInv'
<1> SUFFICES ASSUME KnownInv, ClientEnds PROVE KnownInv'
  OBVIOUS
<1>1. /\ node' = node /\ phase' = phase /\ at' = at /\ todo' = todo /\ known' = known
      /\ misused' = misused /\ failed' = failed /\ alarm_on' = alarm_on
      /\ held' = held \ {ClientThread}
  BY DEF ClientEnds, ClientThread
<1>2. ClientFailed' = ClientFailed /\ Step' = Step /\ Exits' = Exits
  BY <1>1 DEF ClientFailed, Step, Exits
<1>3. ClientThread \notin {Client, Thread, Timer}
  BY DEF ClientThread, Client, Thread, Timer
<1>4. ClientExit'
  <2> SUFFICES ASSUME phase = "exit", Client \in known, ~ClientFailed
               PROVE  \E v \in Seq(Thing) : Exits = v \o todo /\ Client \in Released(v) \cup held'
    BY <1>1, <1>2 DEF ClientExit
  <2> QED
    BY <1>1, <1>3 DEF KnownInv, ClientExit
<1> QED
  BY <1>1, <1>2, <1>3, <1>4
  DEF KnownInv, KnownSoFar, TimerGone, ClientKept, ClientMisused, Starting

LEMMA KnownStutter == KnownInv /\ UNCHANGED lifeVars => KnownInv'
<1> SUFFICES ASSUME KnownInv, UNCHANGED lifeVars PROVE KnownInv'
  OBVIOUS
<1>1. /\ node' = node /\ phase' = phase /\ at' = at /\ held' = held /\ todo' = todo
      /\ misused' = misused /\ failed' = failed /\ alarm_on' = alarm_on /\ known' = known
  BY DEF lifeVars
<1>2. ClientFailed' = ClientFailed /\ Step' = Step /\ Exits' = Exits
  BY <1>1 DEF ClientFailed, Step, Exits
<1>3. ClientExit'
  BY <1>1, <1>2 DEF KnownInv, ClientExit
<1> QED
  BY <1>1, <1>2, <1>3
  DEF KnownInv, KnownSoFar, TimerGone, ClientKept, ClientMisused, Starting

LEMMA KnownNext == LifeInv /\ KnownInv /\ [Next]_vars => KnownInv'
<1>1. UNCHANGED vars => UNCHANGED lifeVars
  BY DEF vars, lifeVars
<1>2. Next => \/ Acquire \/ Fail \/ Undone \/ Exit \/ Exited \/ Release \/ ClientEnds
              \/ UNCHANGED lifeVars
  BY DEF Next, ButtonStep, SocketStep, AlarmStep, SerialStep
<1> QED
  BY <1>1, <1>2, KnownAcquire, KnownFail, KnownUndone, KnownExit, KnownExited, KnownRelease,
     KnownEnds, KnownStutter

\* In every phase of its life a node has what it should: while it starts, what its steps have
\* acquired so far; while a failure is undone or the node exits, that but for what is gone; and
\* when it runs, all of it, but for an alarm task that did not start and a client.  Of what it
\* had and has no more, what still has a pointer to it: only a timer right before its task
\* goes, and a client only if its start failed.
THEOREM LifeInvariant == Spec => [](LifeInv /\ KnownInv)
<1>1. Init => LifeInv /\ KnownInv
  BY LifeInit, KnownInit
<1>2. LifeInv /\ KnownInv /\ [Next]_vars => LifeInv' /\ KnownInv'
  BY LifeNext, KnownNext
<1> QED
  BY <1>1, <1>2, PTL DEF Spec

\* What acts, but for a client, is not there without what it needs.
LEMMA NeedsFromLife ==
  ASSUME LifeInv, NEW a \in Actors \cap held
  PROVE  \/ Needs(a) \subseteq held
         \/ a = <<"alarm", "thread">> /\ CallbackFailed
         \/ phase \in {"undo", "exit", "off"}
              /\ \/ a = <<"io_device", "registered">>
                 \/ a = <<"controller", "registered">> /\ phase # "exit"
                 \/ a[1] = "serial"
<1> DEFINE s == AppSteps(node)  H == Before(s, at)
<1>1. /\ node \in Nodes /\ alarm_on \in BOOLEAN /\ todo \in Seq(Thing)
      /\ phase \in {"init", "undo", "run", "exit", "off"}
  BY DEF LifeInv, LifeType
<1>2. \/ a \in {Thread, Timer, AlarmThread, Subscribed}
      \/ a = <<"io_device", "registered">> \/ a[1] = "serial"
  BY DEF Actors, Acting, ClientThread, Thread, Timer, AlarmThread, Subscribed
<1>3. CASE phase = "init"
  <2>1. at \in DOMAIN s /\ H \ Optional \subseteq held /\ held \subseteq H
    BY <1>3 DEF LifeInv, InitInv
  <2>2. Needs(a) \subseteq H \ Optional
    BY <1>1, <2>1, NodeUses
  <2> QED
    BY <2>1, <2>2
<1>4. CASE phase = "undo"
  <2> DEFINE u == s[at].undo
  <2>1. at \in DOMAIN s /\ at \in failed
    BY <1>4 DEF LifeInv, UndoInv
  <2>2. PICK v \in Seq(Thing) :
          /\ u = v \o todo /\ H \ (Optional \cup Released(v)) \subseteq held
          /\ held \subseteq H \ Released(v)
    BY <1>4 DEF LifeInv, UndoInv, Step
  <2>3. /\ \A b \in {Thread, Timer} \cap H : Precedes(u, b, Needs(b))
        /\ AlarmThread \in H => s[at].get = {}
    <3> DEFINE p == Point(s, at)
    <3>1. AppPoint(p) /\ p.before = H /\ p.undo = u /\ p.get = s[at].get
      BY <1>1, <2>1, AtStep
    <3> HIDE DEF p, H, u, s
    <3> QED
      BY <3>1 DEF AppPoint
  <2>4. Needs(a) \subseteq H \ Optional
    BY <1>1, <2>1, <2>2, NodeUses
  <2>5. CASE a \in {Thread, Timer}
    <3>1. Precedes(v \o todo, a, Needs(a)) /\ a \notin Released(v)
      BY <2>2, <2>3, <2>5
    <3>2. Released(v) \cap Needs(a) = {}
      BY <3>1, <1>1, ReleasedSoFar
    <3> QED
      BY <3>2, <2>2, <2>4
  <2>6. CASE a = AlarmThread
    <3>1. CallbackFailed
      BY <2>1, <2>2, <2>3, <2>6 DEF CallbackFailed
    <3> QED
      BY <3>1, <2>6 DEF AlarmThread
  <2> QED
    BY <1>2, <1>4, <2>5, <2>6 DEF Subscribed
<1>5. ASSUME NEW v \in Seq(Thing), HeldBut(Released(v)),
             a \in {Thread, Timer, Subscribed} \cup (IF alarm_on THEN {AlarmThread} ELSE {})
               => Released(v) \cap Needs(a) = {},
             phase = "run" => Released(v) = {},
             phase \in {"run", "exit"}
      PROVE  \/ Needs(a) \subseteq held
             \/ a = <<"alarm", "thread">> /\ CallbackFailed
             \/ phase = "exit" /\ (a = <<"io_device", "registered">> \/ a[1] = "serial")
  <2>1. /\ Running(alarm_on) \ (Optional \cup Released(v)) \subseteq held
        /\ held \subseteq AppGets \ Released(v)
        /\ ~alarm_on => Left(a)
    BY <1>5 DEF HeldBut
  <2>2. CASE a = AlarmThread /\ ~alarm_on
    <3>1. AlarmThread \notin Own("alarm", Unfreed(node.zero_copy)) /\ AlarmThread[1] = "alarm"
      BY DEF Own, Unfreed, AlarmThread
    <3>2. CallbackFailed
      BY <3>1, <2>1, <2>2 DEF Left
    <3> QED
      BY <3>2, <2>2 DEF AlarmThread
  <2>3. CASE a # AlarmThread \/ alarm_on
    <3>1. Needs(a) \subseteq Running(alarm_on) \ Optional
      <4>1. CASE alarm_on
        BY <4>1, <1>1, <2>1, NodeUses DEF Running, AppGets
      <4>2. CASE ~alarm_on
        <5>1. a \in MainGets
          <6>1. \A r \in AlarmGets : r[1] = "alarm"
            BY OwnFirst DEF AlarmGets
          <6>2. a[1] # "alarm"
            BY <4>2, <2>3 DEF Actors, Acting, ClientThread, AlarmThread
          <6> QED
            BY <6>1, <6>2, <2>1 DEF AppGets
        <5> QED
          BY <4>2, <5>1, <1>1, NodeUses DEF Running
      <4> QED
        BY <4>1, <4>2
    <3>2. CASE Released(v) \cap Needs(a) = {}
      BY <3>1, <3>2, <2>1
    <3>3. CASE phase = "exit" /\ (a = <<"io_device", "registered">> \/ a[1] = "serial")
      BY <3>3
    <3> QED
      BY <3>2, <3>3, <1>2, <1>5, <2>3
  <2> QED
    BY <2>2, <2>3
<1>6. CASE phase = "run"
  <2> DEFINE none == <<>>
  <2>1. none \in Seq(Thing) /\ Released(none) = {}
    BY NoThing
  <2> HIDE DEF none
  <2>2. HeldBut(Released(none))
    BY <1>6, <2>1 DEF LifeInv, RunInv
  <2> QED
    BY <1>5, <1>6, <2>1, <2>2
<1>7. CASE phase = "exit"
  <2>1. PICK v \in Seq(Thing) : Exits = v \o todo /\ HeldBut(Released(v))
    BY <1>7 DEF LifeInv, ExitInv
  <2>2. a \notin Released(v)
    BY <2>1 DEF HeldBut
  <2> DEFINE u == Exits
  <2>3. /\ alarm_on => Precedes(u, AlarmThread, Needs(AlarmThread))
        /\ Precedes(u, Thread, Needs(Thread)) /\ Precedes(u, Timer, Needs(Timer))
        /\ Precedes(u, Subscribed, Needs(Subscribed))
    BY <1>1, NodeExits DEF ExitOrder
  <2> HIDE DEF u
  <2>4. ASSUME a \in {Thread, Timer, Subscribed} \cup (IF alarm_on THEN {AlarmThread} ELSE {})
        PROVE  Released(v) \cap Needs(a) = {}
    <3>1. Precedes(u, a, Needs(a))
      BY <2>3, <2>4
    <3> QED
      BY <3>1, <2>1, <2>2, <1>1, ReleasedSoFar DEF u
  <2> QED
    BY <1>5, <1>7, <2>1, <2>4
<1>8. CASE phase = "off"
  <2>1. Down
    BY <1>8 DEF LifeInv, OffInv
  <2>2. a # Thread /\ a # Timer
    BY <2>1 DEF Down, Own, Unfreed, Thread, Timer
  <2>3. a = AlarmThread => CallbackFailed
    BY <2>1 DEF Down, Left, Own, Unfreed, AlarmThread
  <2> QED
    BY <1>2, <1>8, <2>2, <2>3 DEF AlarmThread, Subscribed
<1> QED
  BY <1>1, <1>3, <1>4, <1>6, <1>7, <1>8

\* Nothing that can act misses what it uses, but as NoDangling says.
LEMMA NoDanglingFromLife == LifeInv /\ KnownInv => NoDangling
<1> SUFFICES ASSUME LifeInv, KnownInv, NEW a \in Acting \cap held, NEW r \in Uses(a) \ held
             PROVE  \/ r = <<"cyclic", "timer">> /\ todo # <<>> /\ Head(todo) = <<"cyclic", "thread">>
                    \/ a = <<"cyclic", "thread">> /\ r = <<"controller", "client">> /\ ClientFailed
                    \/ a = <<"alarm", "thread">> /\ CallbackFailed
                    \/ phase \in {"undo", "exit", "off"}
                         /\ \/ a = <<"io_device", "registered">>
                            \/ a = <<"controller", "registered">> /\ phase # "exit"
                            \/ a[1] = "serial"
  BY DEF NoDangling
<1>1. CASE a = ClientThread
  <2>1. Needs(ClientThread) = {Client} /\ ClientThread # Thread
    BY DEF Needs, ClientThread, Client, Thread
  <2>2. r = Client
    BY <1>1, <2>1 DEF Uses, Thread
  <2> QED
    BY <1>1, <2>2 DEF KnownInv, ClientKept
<1>2. CASE a # ClientThread /\ r \in Needs(a)
  <2>1. a \in Actors \cap held
    BY <1>2 DEF Actors
  <2> QED
    BY <1>2, <2>1, NeedsFromLife
<1>3. CASE r \notin Needs(a)
  <2>1. a = Thread /\ r \in known /\ r \in {Timer, Client}
    BY <1>3 DEF Uses, Thread, Timer, Client
  <2>2. CASE r = Timer
    <3>1. todo # <<>> /\ Head(todo) = Thread
      BY <2>1, <2>2 DEF KnownInv, TimerGone
    <3> QED
      BY <2>2, <3>1 DEF Timer, Thread
  <2>3. CASE r = Client
    <3>1. ClientFailed
      BY <2>1, <2>3 DEF KnownInv, ClientKept
    <3> QED
      BY <2>1, <2>3, <3>1 DEF Client, Thread
  <2> QED
    BY <2>1, <2>2, <2>3
<1> QED
  BY <1>1, <1>2, <1>3

\* What is left when the node is down.
LEMMA NothingLeftFromLife == LifeInv /\ KnownInv => NothingLeft
<1> SUFFICES ASSUME LifeInv, KnownInv, phase = "off"
             PROVE  /\ \A r \in held :
                         \/ r[1] \notin {"cyclic", "alarm"}
                         \/ node.zero_copy /\ r[2] \in {"tx_buffers", "tx_sock", "tx_iovec"}
                         \/ r[1] = "alarm" /\ CallbackFailed
                    /\ node.built \subseteq {node.mode} =>
                         \/ \A r \in misused :
                              \/ r = <<"controller", "motors">>
                              \/ r = <<"controller", "client_thread">>
                              \/ r = <<"controller", "client">> /\ ClientFailed
                         \/ node.mode = "IO_DEVICE" /\ \A r \in misused : r[1] = "cyclic"
  BY DEF NothingLeft
<1>1. Misuse /\ Down
  BY DEF LifeInv, OffInv
<1>2. \A o : \A r \in Own(o, Unfreed(node.zero_copy)) :
        node.zero_copy /\ r[2] \in {"tx_buffers", "tx_sock", "tx_iovec"}
  BY DEF Own, Unfreed
<1>3. \A r \in held :
        \/ r[1] \notin {"cyclic", "alarm"}
        \/ node.zero_copy /\ r[2] \in {"tx_buffers", "tx_sock", "tx_iovec"}
        \/ r[1] = "alarm" /\ CallbackFailed
  BY <1>1, <1>2 DEF Down, Left
<1>4. ASSUME node.built \subseteq {node.mode}, node.mode # "IO_DEVICE", NEW r \in misused
      PROVE  \/ r = <<"controller", "motors">>
             \/ r = <<"controller", "client_thread">>
             \/ r = <<"controller", "client">> /\ ClientFailed
  <2>1. r \in {ControllerMotors} \cup Optional
    BY <1>1, <1>4 DEF Misuse
  <2>2. r = Client => ClientFailed
    BY <1>4 DEF KnownInv, ClientMisused
  <2> QED
    BY <2>1, <2>2 DEF ControllerMotors, Optional, Client, ClientThread
<1>5. node.built \subseteq {node.mode} /\ node.mode = "IO_DEVICE" => \A r \in misused : r[1] = "cyclic"
  BY <1>1 DEF Misuse
<1> QED
  BY <1>3, <1>4, <1>5

\* The code behind a thread, a timer, an interrupt or a registration finds what it uses while it
\* can run, but as NoDangling says: the cyclic task the timer it restarts, unless it is aborted
\* next, and a controller its client, unless it could not be started; for every set of
\* configurations, whichever calls fail at the start, and however many.
THEOREM NothingDangles == Spec => []NoDangling
BY LifeInvariant, NoDanglingFromLife, PTL

\* When the node is down nothing of its tasks is left but what zero copy sockets and an alarm
\* task without its callback leave, and with only what runs compiled in nothing is released that
\* is not there, but the motors of a controller, a client that could not be started, its thread if
\* that ended by itself, and the cyclic task of an io device: for every set of configurations, and however many failures.
THEOREM NothingIsLeft == Spec => []NothingLeft
BY LifeInvariant, NothingLeftFromLife, PTL
===============================================================================
