------------------------------- MODULE TsnSocket ------------------------------
(***************************************************************************)
(* The transmit socket of a cyclic task in zero copy mode: the task builds *)
(* a batch of frames in buffers that it hands to the network stack and     *)
(* gets back when they are sent (tsn_task.c, cyclic_net_transmit).         *)
(***************************************************************************)
EXTENDS Naturals, FiniteSets

CONSTANT MaxPackets  \* NET_RX_BATCH

ASSUME MaxPacketsAssumption == MaxPackets \in Nat \ {0}

VARIABLES
  n,           \* sock->n, the frames of a batch
  tx_pc,       \* what cyclic_net_transmit does next
  tx_pending,  \* sock->tx_pending
  buf           \* the buffers are with the task, with the stack, or sent

socketVars == <<n, tx_pc, tx_pending, buf>>

Buffers == 1..n
InState(s) == {b \in Buffers : buf[b] = s}

\* rtos_apps_tsn_init limits the packets, tsn_task_net_init makes the socket.
SocketInit ==
  /\ n \in 1..MaxPackets
  /\ tx_pc = "done"
  /\ tx_pending = FALSE
  /\ buf = [b \in Buffers |-> "task"]

\* tsn_net_transmit_done gets the buffers back whose frames were sent.  If they
\* are not a whole batch, cyclic_net_transmit gives up for this cycle.
TransmitDone ==
  /\ tx_pc = "done"
  /\ LET done == IF tx_pending THEN InState("sent") ELSE {} IN
     /\ buf' = [b \in Buffers |-> IF b \in done THEN "task" ELSE buf[b]]
     /\ tx_pending' = (tx_pending /\ done # Buffers)
  /\ tx_pc' = IF tx_pending' THEN "done" ELSE "send"
  /\ UNCHANGED n

\* Variant: a batch that is sent in part is not pending.
TransmitSockTrusting ==
  /\ tx_pc = "send"
  /\ \E k \in 0..n :
       /\ buf' = [b \in Buffers |-> IF b <= k THEN "stack" ELSE buf[b]]
       /\ tx_pending' = (k = n)
  /\ tx_pc' = "done"
  /\ UNCHANGED n

\* The frames are written and sent (tsn_net_transmit_sock).  The stack takes the
\* first ones of the batch, or none if it fails.
TransmitSock ==
  /\ tx_pc = "send"
  /\ \E k \in 0..n :
       /\ buf' = [b \in Buffers |-> IF b <= k THEN "stack" ELSE buf[b]]
       /\ tx_pending' = (tx_pending \/ k > 0)
  /\ tx_pc' = "done"
  /\ UNCHANGED n

\* The stack has sent a frame.
FrameSent ==
  /\ \E b \in InState("stack") : buf' = [buf EXCEPT ![b] = "sent"]
  /\ UNCHANGED <<n, tx_pc, tx_pending>>
===============================================================================
