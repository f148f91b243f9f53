----------------------------- MODULE StatsMailbox -----------------------------
(***************************************************************************)
(* What the hand-over of statistics promises: every owner of statistics    *)
(* has one box.  The thread that counts puts a snapshot in an empty box,   *)
(* the thread that prints reads it, and nobody touches it in between.      *)
(***************************************************************************)
EXTENDS Naturals

CONSTANT Owner

VARIABLES
  box,       \* empty, full, or being read
  content    \* the snapshot in the box

Init ==
  /\ box = [o \in Owner |-> "empty"]
  /\ content = [o \in Owner |-> 0]

Put(o) ==
  /\ box[o] = "empty"
  /\ box' = [box EXCEPT ![o] = "full"]
  /\ content' \in [Owner -> Nat]
  /\ \A p \in Owner \ {o} : content'[p] = content[p]

Read(o) ==
  /\ box[o] = "full"
  /\ box' = [box EXCEPT ![o] = "read"]
  /\ UNCHANGED content

Empty(o) ==
  /\ box[o] = "read"
  /\ box' = [box EXCEPT ![o] = "empty"]
  /\ content' = [content EXCEPT ![o] = 0]

Next == \E o \in Owner : Put(o) \/ Read(o) \/ Empty(o)

Spec == Init /\ [][Next]_<<box, content>>
===============================================================================
