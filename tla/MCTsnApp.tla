------------------------------- MODULE MCTsnApp -------------------------------
(***************************************************************************)
(* The nodes that are checked: one of each kind that does its work, and    *)
(* all kinds that start, fail on the way and exit.                         *)
(***************************************************************************)
EXTENDS TsnApp

Kind(mode, alarm, zero_copy, built) ==
  [mode |-> mode, alarm |-> alarm, zero_copy |-> zero_copy, packets |-> 1,
   built |-> built, traffic |-> FALSE, exits |-> TRUE]

MCNodes ==
  LET Starts == {Kind(mode, alarm, zero_copy, built) :
                   mode \in {"NETWORK_ONLY", "CONTROLLER", "IO_DEVICE", "SERIAL"},
                   alarm \in {"monitor", "io_device"}, zero_copy \in BOOLEAN,
                   built \in SUBSET Motors}
      Busy(kind, packets) == [kind EXCEPT !.traffic = TRUE, !.packets = packets]
  IN  {c \in Starts : c.mode \in Motors => c.mode \in c.built}
        \cup {Busy(Kind("NETWORK_ONLY", "monitor", TRUE, {}), k) : k \in 1..MaxPackets}
        \cup {Busy(Kind("CONTROLLER", "monitor", FALSE, {"CONTROLLER"}), 1)}
        \cup {[Busy(Kind("SERIAL", "io_device", FALSE, {}), 1) EXCEPT !.exits = FALSE]}
===============================================================================
