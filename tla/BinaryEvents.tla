---------------------------- MODULE BinaryEvents ----------------------------
(***************************************************************************)
(* Events with binary arguments in the client (socket.io.js): the Manager  *)
(* encodes one packet at a time, because the blobs among its arguments     *)
(* are read by callbacks that come later (removeBlobs); packets emitted    *)
(* meanwhile wait in packetBuffer.  The packet and its attachments are     *)
(* frames of their own, which a Decoder puts together again.  The          *)
(* connection may be lost and opened again meanwhile.                      *)
(*                                                                         *)
(* The Decoder is the one of the same file: the server of the repository   *)
(* does not read attachments.  A read that fails never ends: nobody hears  *)
(* of the error.                                                           *)
(***************************************************************************)
EXTENDS Integers, Texts

CONSTANTS Shapes,     \* the binary arguments of packets: sequences of "blob", "buffer"
          MaxEvents,  \* bound: packets
          MaxOpened   \* bound: connections, one after the other

VARIABLES
  manager,        \* encoding, packetBuffer; engine: the number of the connection
  jobs,           \* what removeBlobs is at: packets, and the blobs they still lack
  wire,           \* the frames on their way to the Decoder of this connection
  reconstructor,  \* of that Decoder
  decoded,        \* the packets it has emitted
  history         \* packets emitted so far; the first of this connection;
                  \* whether one of an earlier connection was written on it

vars == <<manager, jobs, wire, reconstructor, decoded, history>>

Packet(n, shape) == [n |-> n, shape |-> shape]
BlobsOf(p) == {i \in DOMAIN p.shape : p.shape[i] = "blob"}

\* Argument i of packet n.
Data(n, i) == [n |-> n, i |-> i]

\* BinaryReconstructor; none, the null of a Decoder.
Reconstructor(p) == [pack |-> p, buffers |-> <<>>]
NoReconstructor == Reconstructor(Packet(0, <<>>))

Init ==
  /\ manager = [encoding |-> FALSE, packetBuffer |-> <<>>, open |-> TRUE, engine |-> 1]
  /\ jobs = {} /\ wire = <<>> /\ reconstructor = NoReconstructor /\ decoded = <<>>
  /\ history = [emitted |-> 0, first |-> 1, stale |-> FALSE]

-----------------------------------------------------------------------------
(* The Manager.                                                            *)

\* encodeAsString, encodeAsBinary, deconstructPacket: the packet with a
\* placeholder for each argument, and then the arguments in that order.
Encoded(p) ==
  <<[header |-> TRUE, packet |-> p]>>
    \o [i \in DOMAIN p.shape |-> [header |-> FALSE, data |-> Data(p.n, i)]]

\* engine.write of the packets q; a closed engine drops them.
Written(q) ==
  IF manager.open THEN wire \o FlattenSeq([i \in DOMAIN q |-> Encoded(q[i])]) ELSE wire

\* Mutant of Waits: packets are encoded whatever is under way.
WaitsNever == FALSE

\* Manager.packet: a packet has to wait.
Waits == manager.encoding

\* The packets q are encoded one after the other, after those that are `done':
\* up to one whose blobs have to be read, for which the others wait.
Process(done, q, others) ==
  LET k == SelectInSeq(q, LAMBDA p : BlobsOf(p) # {})
      now == IF k = 0 THEN q ELSE SubSeq(q, 1, k - 1)
      job == [packet |-> q[k], left |-> BlobsOf(q[k]), engine |-> manager.engine]
  IN  /\ wire' = Written(done \o now)
      /\ manager' = [manager EXCEPT !.encoding = (k # 0),
                       !.packetBuffer = IF k = 0 THEN <<>> ELSE SubSeq(q, k + 1, Len(q))]
      /\ jobs' = IF k = 0 THEN others ELSE others \cup {job}

\* Socket.emit of a connected socket with binary arguments, Manager.packet.
Emit(shape) ==
  LET p == Packet(history.emitted + 1, shape) IN
  /\ manager.open /\ history.emitted < MaxEvents
  /\ history' = [history EXCEPT !.emitted = @ + 1]
  /\ IF Waits
     THEN /\ manager' = [manager EXCEPT !.packetBuffer = Append(@, p)]
          /\ UNCHANGED <<jobs, wire>>
     ELSE Process(<<>>, <<p>> \o manager.packetBuffer, jobs)
  /\ UNCHANGED <<reconstructor, decoded>>

\* fileReader.onload for blob i of job j; the last one writes the packet to the
\* engine of that moment, and the queue is processed.
BlobRead(j, i) ==
  LET left == j.left \ {i}
      others == jobs \ {j}
  IN  /\ j \in jobs /\ i \in j.left
      /\ IF left # {}
         THEN /\ jobs' = others \cup {[j EXCEPT !.left = left]}
              /\ UNCHANGED <<manager, wire, history>>
         ELSE /\ Process(<<j.packet>>, manager.packetBuffer, others)
              /\ history' = [history EXCEPT !.stale = @ \/ j.engine # manager.engine]
      /\ UNCHANGED <<reconstructor, decoded>>

\* Manager.onclose, cleanup.  The jobs go on.
Close ==
  /\ manager.open
  /\ manager' = [manager EXCEPT !.open = FALSE, !.packetBuffer = <<>>, !.encoding = FALSE]
  /\ wire' = <<>> /\ reconstructor' = NoReconstructor /\ decoded' = <<>>
  /\ UNCHANGED <<jobs, history>>

\* Manager.open, onopen: another engine, and another Decoder at its end.
Open ==
  /\ ~manager.open /\ manager.engine < MaxOpened
  /\ manager' = [manager EXCEPT !.open = TRUE, !.engine = @ + 1]
  /\ history' = [history EXCEPT !.first = history.emitted + 1, !.stale = FALSE]
  /\ UNCHANGED <<jobs, wire, reconstructor, decoded>>

-----------------------------------------------------------------------------
(* The Decoder.                                                            *)

Whole(p, args) == [packet |-> p, args |-> args]

\* Mutant of Complete: the packet itself counts.
CompleteEarly(r) == Len(r.buffers) + 1 = Len(r.pack.shape)

\* takeBinaryData: all attachments are there.
Complete(r) == Len(r.buffers) = Len(r.pack.shape)

\* Decoder.add for a packet.
AddPacket ==
  /\ wire # <<>> /\ Head(wire).header /\ wire' = Tail(wire)
  /\ LET p == Head(wire).packet IN
     IF p.shape = <<>>
     THEN decoded' = Append(decoded, Whole(p, <<>>)) /\ UNCHANGED reconstructor
     ELSE reconstructor' = Reconstructor(p) /\ UNCHANGED decoded
  /\ UNCHANGED <<manager, jobs, history>>

\* Decoder.add for an attachment, takeBinaryData, reconstructPacket; it throws
\* if it is not reconstructing.
AddAttachment ==
  /\ wire # <<>> /\ ~Head(wire).header /\ wire' = Tail(wire)
  /\ LET r == [reconstructor EXCEPT !.buffers = Append(@, Head(wire).data)] IN
     IF reconstructor # NoReconstructor /\ Complete(r)
     THEN /\ reconstructor' = NoReconstructor
          /\ decoded' = Append(decoded, Whole(r.pack, r.buffers))
     ELSE /\ reconstructor' = IF reconstructor = NoReconstructor THEN reconstructor ELSE r
          /\ UNCHANGED decoded
  /\ UNCHANGED <<manager, jobs, history>>

Next ==
  \/ \E shape \in Shapes : Emit(shape)
  \/ \E j \in jobs : \E i \in j.left : BlobRead(j, i)
  \/ Close \/ Open \/ AddPacket \/ AddAttachment

Spec == Init /\ [][Next]_vars

-----------------------------------------------------------------------------
\* Whatever packets are encoded side by side, and on whichever connection they
\* end up, one that is put together has its own arguments at their places.
ArgumentsWhole ==
  \A k \in DOMAIN decoded :
    LET p == decoded[k].packet IN
    decoded[k].args = [i \in DOMAIN p.shape |-> Data(p.n, i)]

\* The packets whose first frame is on its way, and the numbers of all packets
\* of the connection between emit and the Decoder's event.
Headers(frames) ==
  LET found[i \in 0..Len(frames)] ==
        IF i = 0 THEN <<>>
        ELSE IF frames[i].header THEN Append(found[i - 1], frames[i].packet)
        ELSE found[i - 1]
  IN  found[Len(frames)]
OnTheirWay ==
  [i \in DOMAIN decoded |-> decoded[i].packet.n]
    \o (IF reconstructor = NoReconstructor THEN <<>> ELSE <<reconstructor.pack.n>>)
    \o [i \in DOMAIN Headers(wire) |-> Headers(wire)[i].n]
    \o SetToSeq({j.packet.n : j \in {k \in jobs : k.engine = manager.engine}})
    \o [i \in DOMAIN manager.packetBuffer |-> manager.packetBuffer[i].n]

\* The packets of a connection arrive in the order of their emits, each once,
\* unless one whose blobs were read during the last connection is written on
\* it; and even then nothing is queued but behind a packet under way.
EmittedInOrder ==
  /\ manager.open /\ ~history.stale =>
       OnTheirWay = [i \in 1..history.emitted - history.first + 1 |->
                       history.first + i - 1]
  /\ manager.packetBuffer # <<>> => manager.encoding
  /\ manager.encoding => \E j \in jobs : j.engine = manager.engine
=============================================================================
