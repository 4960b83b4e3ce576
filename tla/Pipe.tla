-------------------------------- MODULE Pipe --------------------------------
(***************************************************************************)
(* What the two sides of a connection rely on: packets come out whole and  *)
(* in the order they were put in, each of them once.  RingBuf is how the   *)
(* rings in shared memory keep the promise.                                *)
(***************************************************************************)
EXTENDS Sequences

CONSTANT Packets        \* the packets there are

VARIABLES
  queue,                \* sent and not delivered yet
  out                   \* delivered

Init == queue = <<>> /\ out = <<>>

Send(p) == queue' = Append(queue, p) /\ UNCHANGED out

Deliver ==
  /\ queue # <<>>
  /\ out' = Append(out, Head(queue))
  /\ queue' = Tail(queue)

Next == Deliver \/ \E p \in Packets : Send(p)

Spec == Init /\ [][Next]_<<queue, out>>
=============================================================================
