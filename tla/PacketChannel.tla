--------------------------- MODULE PacketChannel ---------------------------
(***************************************************************************)
(* What an engine.io session promises to the application: the messages     *)
(* given to Socket::SendMessage arrive at the client in the order sent,    *)
(* each one once, none missing, for as long as the client is there.  They  *)
(* travel in batches (one poll response, one flush).                       *)
(***************************************************************************)
EXTENDS Naturals, Sequences

VARIABLES queue,        \* messages sent and not yet at the client, oldest first
          delivered,    \* messages at the client, in the order they arrived
          there         \* FALSE once the client has gone

vars == <<queue, delivered, there>>

Init == queue = <<>> /\ delivered = <<>> /\ there = TRUE

\* Messages are numbered in the order they are sent.
Send ==
  /\ queue' = Append(queue, Len(queue) + Len(delivered) + 1)
  /\ UNCHANGED <<delivered, there>>

Deliver ==
  \E k \in 1..Len(queue) :
    /\ delivered' = delivered \o SubSeq(queue, 1, k)
    /\ queue' = SubSeq(queue, k + 1, Len(queue))
    /\ UNCHANGED there

Leave ==
  /\ there /\ there' = FALSE
  /\ UNCHANGED <<queue, delivered>>

\* Nothing is promised about the queue of a client that has gone.
Abandon ==
  /\ ~there
  /\ UNCHANGED <<delivered, there>>

Next == (there /\ (Send \/ Deliver)) \/ Leave \/ Abandon

Spec == Init /\ [][Next]_vars
=============================================================================
