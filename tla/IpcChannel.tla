----------------------------- MODULE IpcChannel -----------------------------
(***************************************************************************)
(* What the DSP-to-host message queue promises its users, independent of   *)
(* doorbells, interrupt masks and message buffers: a bounded FIFO of       *)
(* position notifications.  Each notification is offered once.  It is      *)
(* either accepted, and then delivered exactly once and in order, or it is *)
(* refused, and refusal is only allowed when the channel is (almost) full. *)
(* IpcMailbox implements this specification.                               *)
(***************************************************************************)
EXTENDS Naturals, Sequences

CONSTANT Capacity       \* messages the channel can hold (MSG_QUEUE_SIZE)

VARIABLES offered,      \* number of notifications offered so far
          queue,        \* accepted and not yet delivered, oldest first
          got           \* delivered to the host, oldest first

chanVars == <<offered, queue, got>>

Init == offered = 0 /\ queue = <<>> /\ got = <<>>

Accept == /\ Len(queue) < Capacity
          /\ offered' = offered + 1
          /\ queue' = Append(queue, offered + 1)
          /\ got' = got

\* A message the host has taken still occupies its buffer until the DSP has
\* seen the host's DONE, so the channel may refuse with one slot to spare.
Refuse == /\ Len(queue) + 1 >= Capacity
          /\ offered' = offered + 1
          /\ UNCHANGED <<queue, got>>

Deliver == /\ queue # <<>>
           /\ got' = Append(got, Head(queue))
           /\ queue' = Tail(queue)
           /\ offered' = offered

Next == Accept \/ Refuse \/ Deliver

Spec == Init /\ [][Next]_chanVars
=============================================================================
