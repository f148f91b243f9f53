----------------------------- MODULE SerialDevice -----------------------------
(***************************************************************************)
(* The serial io device of tsn/serial_iodevice.c.  Lines that come in on   *)
(* the UART are cut out of its ring buffer by the UART task and sent by    *)
(* the cyclic task, one per period; commands go the other way.             *)
(*                                                                         *)
(* A byte is known by its place in its line and by whether it ends it.     *)
(* Bytes can be lost on the way to the UART task, which does not hear of   *)
(* it: those that come next, up to the next end of line that is not lost,  *)
(* are then said to have no place, or place 0.                             *)
(***************************************************************************)
EXTENDS Naturals, Sequences

CONSTANTS
  MAX_SERIAL_COMMAND_LEN,
  UART_RX_QUEUE_SIZE,
  UART_RX_MAX_SEM_COUNT,
  SERIAL_IODEV_UART_RING_BUFFER_LEN,
  MaxLine      \* bound on the length of a line

ASSUME CommandLenAssumption == MAX_SERIAL_COMMAND_LEN \in Nat \ {0, 1}

VARIABLES
  place,              \* place of the next byte that comes in (history)
  ring,               \* drv_rx_ring_buffer
  sem_uart_rx,        \* idle lines detected
  uart_pc,            \* where uart_rx_task is
  uart_rx_buf,        \* the bytes up to uart_rx_index
  i,                  \* the byte that is looked at next, from 0
  feedback_rx_queue,
  new_cmd,            \* a command waits for the next cycle
  uart_tx             \* the driver sends ctx->cmd

serialVars == <<place, ring, sem_uart_rx, uart_pc, uart_rx_buf, i,
                feedback_rx_queue, new_cmd, uart_tx>>

\* serial_iodevice_init
SerialInit ==
  /\ place = 1
  /\ ring = <<>>
  /\ sem_uart_rx = 0
  /\ uart_pc = "take"
  /\ uart_rx_buf = <<>>
  /\ i = 0
  /\ feedback_rx_queue = <<>>
  /\ new_cmd = FALSE
  /\ uart_tx = FALSE

-----------------------------------------------------------------------------
(* The UART                                                                *)

\* The place of the byte after one at place p.
NextPlace(p, eol) == IF eol THEN 1 ELSE IF p = 0 THEN 0 ELSE p + 1

\* No byte up to the first end of line in s has a place.
Torn(s) ==
  [k \in DOMAIN s |->
     IF \E j \in 1..k-1 : s[j].eol THEN s[k] ELSE [s[k] EXCEPT !.place = 0]]

\* A byte comes in.  In a ring buffer that is full it replaces the oldest one:
\* the driver reports it with a status that lpuart_cb ignores.
ByteArrives ==
  /\ \E eol \in BOOLEAN :
       LET bytes == Append(ring, [place |-> place, eol |-> eol])
           kept  == Tail(bytes)
           next  == NextPlace(place, eol)
       IN  /\ place = MaxLine => eol
           /\ IF Len(ring) < SERIAL_IODEV_UART_RING_BUFFER_LEN
                THEN ring' = bytes /\ place' = next
                ELSE /\ ring' = Torn(kept)
                     /\ place' = IF \E k \in DOMAIN kept : kept[k].eol THEN next ELSE 0
  /\ UNCHANGED <<sem_uart_rx, uart_pc, uart_rx_buf, i, feedback_rx_queue, new_cmd, uart_tx>>

\* The UART loses a byte: this status, too, is ignored.
ByteLost ==
  /\ place' = 0
  /\ UNCHANGED <<ring, sem_uart_rx, uart_pc, uart_rx_buf, i, feedback_rx_queue, new_cmd, uart_tx>>

\* lpuart_cb: the line is idle, maybe in the middle of a line of text.
IdleLine ==
  /\ ring # <<>> /\ sem_uart_rx < UART_RX_MAX_SEM_COUNT
  /\ sem_uart_rx' = sem_uart_rx + 1
  /\ UNCHANGED <<place, ring, uart_pc, uart_rx_buf, i, feedback_rx_queue, new_cmd, uart_tx>>

\* The driver has sent a command.
CommandSent ==
  /\ uart_tx
  /\ uart_tx' = FALSE
  /\ UNCHANGED <<place, ring, sem_uart_rx, uart_pc, uart_rx_buf, i, feedback_rx_queue, new_cmd>>

-----------------------------------------------------------------------------
(* uart_rx_task                                                            *)

UartTake ==
  /\ uart_pc = "take" /\ sem_uart_rx > 0
  /\ sem_uart_rx' = sem_uart_rx - 1
  /\ uart_pc' = "read"
  /\ UNCHANGED <<place, ring, uart_rx_buf, i, feedback_rx_queue, new_cmd, uart_tx>>

\* As many bytes are read as fit behind those of an unfinished line.
UartRead ==
  /\ uart_pc = "read"
  /\ LET room  == MAX_SERIAL_COMMAND_LEN - Len(uart_rx_buf)
         bytes == IF Len(ring) < room THEN Len(ring) ELSE room
     IN  /\ uart_rx_buf' = uart_rx_buf \o SubSeq(ring, 1, bytes)
         /\ ring' = SubSeq(ring, bytes + 1, Len(ring))
  /\ uart_pc' = "parse"
  /\ UNCHANGED <<place, sem_uart_rx, i, feedback_rx_queue, new_cmd, uart_tx>>

\* Variant: what is behind the line is dropped.
UartLineDropsRest ==
  /\ uart_pc = "parse"
  /\ i < Len(uart_rx_buf) /\ uart_rx_buf[i + 1].eol
  /\ Len(feedback_rx_queue) < UART_RX_QUEUE_SIZE
  /\ feedback_rx_queue' = Append(feedback_rx_queue, SubSeq(uart_rx_buf, 1, i + 1))
  /\ uart_rx_buf' = <<>> /\ i' = 0
  /\ UNCHANGED <<place, ring, sem_uart_rx, uart_pc, new_cmd, uart_tx>>

\* A line ends at byte i.  It is queued, unless there is no memory or no room,
\* and the rest is moved to the beginning of the buffer.
UartLine ==
  /\ uart_pc = "parse"
  /\ i < Len(uart_rx_buf) /\ uart_rx_buf[i + 1].eol
  /\ \/ /\ Len(feedback_rx_queue) < UART_RX_QUEUE_SIZE
        /\ feedback_rx_queue' = Append(feedback_rx_queue, SubSeq(uart_rx_buf, 1, i + 1))
     \/ UNCHANGED feedback_rx_queue
  /\ uart_rx_buf' = SubSeq(uart_rx_buf, i + 2, Len(uart_rx_buf))
  /\ i' = 0
  /\ UNCHANGED <<place, ring, sem_uart_rx, uart_pc, new_cmd, uart_tx>>

\* A buffer that is full and has no line in it is erased.
UartByte ==
  /\ uart_pc = "parse"
  /\ i < Len(uart_rx_buf) /\ ~uart_rx_buf[i + 1].eol
  /\ IF i + 1 = MAX_SERIAL_COMMAND_LEN
       THEN i' = 0 /\ uart_rx_buf' = <<>>
       ELSE i' = i + 1 /\ UNCHANGED uart_rx_buf
  /\ UNCHANGED <<place, ring, sem_uart_rx, uart_pc, feedback_rx_queue, new_cmd, uart_tx>>

UartParsed ==
  /\ uart_pc = "parse"
  /\ i = Len(uart_rx_buf)
  /\ uart_pc' = "take"
  /\ UNCHANGED <<place, ring, sem_uart_rx, uart_rx_buf, i, feedback_rx_queue, new_cmd, uart_tx>>

UartRxTask == UartTake \/ UartRead \/ UartLine \/ UartByte \/ UartParsed

-----------------------------------------------------------------------------
(* The cyclic task                                                         *)

\* serial_iodevice_net_receive: a command, of a length that is accepted,
\* replaces the one before.
NetReceive ==
  /\ ~new_cmd
  /\ new_cmd' = TRUE
  /\ UNCHANGED <<place, ring, sem_uart_rx, uart_pc, uart_rx_buf, i, feedback_rx_queue, uart_tx>>

\* serial_iodevice_loop.  A command is dropped if the last one is still being
\* sent; the feedback at the head of the queue goes into the frame.
SerialLoop ==
  /\ new_cmd' = FALSE
  /\ uart_tx' = (uart_tx \/ new_cmd)
  /\ IF feedback_rx_queue # <<>>
       THEN feedback_rx_queue' = Tail(feedback_rx_queue)
       ELSE UNCHANGED feedback_rx_queue
  /\ UNCHANGED <<place, ring, sem_uart_rx, uart_pc, uart_rx_buf, i>>
===============================================================================
