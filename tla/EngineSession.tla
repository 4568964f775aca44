---------------------------- MODULE EngineSession ----------------------------
(***************************************************************************)
(* One engine.io session from the handshake to the end: engineio::Server,  *)
(* engineio::Socket, its long-polling transport (XHR) and the websocket    *)
(* transport it is upgraded to (lib/engineio), together with the client    *)
(* the repository ships (example/chat/static/socket.io.js) and the HTTP    *)
(* and websocket traffic between them.                                     *)
(*                                                                         *)
(* The server runs on one event loop, so every handler is one step: the    *)
(* whole of Server::HandleRequest, of a websocket message, or of a call to *)
(* Socket::SendMessage.  The client is JavaScript: one step per event.     *)
(* Requests, responses and frames take any time to arrive.                 *)
(***************************************************************************)
EXTENDS Naturals, Sequences, FiniteSets

CONSTANTS Binary,    \* the client reads binary payloads (no "b64" in the query)
          Blobs,     \* the client's messages have binary contents
          MaxSent,   \* bound: messages the application sends
          MaxSaid    \* bound: messages the client sends

ASSUME BinaryAssumption == Binary \in BOOLEAN /\ Blobs \in BOOLEAN
ASSUME MaxAssumption == MaxSent \in Nat /\ MaxSaid \in Nat

-----------------------------------------------------------------------------
\* Packets (packet.h); n tells the messages apart and is 0 for the others.
\* "probe" and "probed" are the ping and the pong whose body is "probe".
ControlTypes == {"open", "close", "ping", "pong", "probe", "probed",
                 "upgrade", "noop"}
Packet == [type : ControlTypes \cup {"message"}, n : Nat]
Control(t) == [type |-> t, n |-> 0]
Message(k) == [type |-> "message", n |-> k]

Contains(q, t) == \E i \in 1..Len(q) : q[i].type = t

\* The numbers of the messages among the packets of q, in order.
Numbers(q) ==
  LET f[i \in 0..Len(q)] ==
        IF i = 0 THEN <<>>
        ELSE IF q[i].type = "message" THEN Append(f[i - 1], q[i].n)
                                      ELSE f[i - 1]
  IN  f[Len(q)]

VARIABLES
  server,     \* the Server's entry for the session and its Socket, a record
  client,     \* the client and what it has put on the wire, a record
  sent,       \* messages passed to Socket::SendMessage so far
  said,       \* messages passed to the client's send so far
  got,        \* the numbers of the messages the client has received
  heard       \* the numbers of the messages message_callback_ has been given

vars == <<server, client, sent, said, got, heard>>

Transport == {"polling", "websocket"}

\* registered: the sid is in Server::sockets_.  transport: which of the two
\* Socket::transport_ is; upgrading: upgrading_transport_ is set; buffer:
\* write_buffer_.  poll: PollingTransport::req_ is set; writable: its
\* writable_.  reply and frames are on the wire: the body of the response to
\* the poll, and the websocket messages the client has not read.
ServerState ==
  [registered : BOOLEAN, transport : Transport, upgrading : BOOLEAN,
   buffer : Seq(Packet), poll : BOOLEAN, writable : BOOLEAN,
   reply : Seq(Packet), frames : Seq(Packet)]

\* state: readyState.  get and post: the one poll and the one write the
\* client has outstanding ("refused" and "ok" are the status of a response on
\* its way back); body: the payload of the write.  ws: the second connection;
\* up: frames sent on it.  probe: how far the upgrade is.  outbox: writeBuffer;
\* pinging: a ping is out or queued.
ClientState ==
  [state : {"idle", "opening", "open", "closed"}, transport : Transport,
   get : {"none", "handshake", "request", "held", "refused"},
   post : {"none", "request", "ok", "refused"}, body : Seq(Packet),
   ws : {"none", "request", "open", "closed"}, up : Seq(Packet),
   probe : {"none", "asked", "sent", "pausing", "done", "failed"},
   outbox : Seq(Packet), pinging : BOOLEAN]

Init ==
  /\ server = [registered |-> FALSE, transport |-> "polling",
               upgrading |-> FALSE, buffer |-> <<>>, poll |-> FALSE,
               writable |-> FALSE, reply |-> <<>>, frames |-> <<>>]
  /\ client = [state |-> "idle", transport |-> "polling", get |-> "none",
               post |-> "none", body |-> <<>>, ws |-> "none", up |-> <<>>,
               probe |-> "none", outbox |-> <<>>, pinging |-> FALSE]
  /\ sent = 0 /\ said = 0
  /\ got = <<>> /\ heard = <<>>

-----------------------------------------------------------------------------
(* The server.                                                             *)

\* Parser::EncodePayload: in binary form each packet overwrites the result,
\* so a payload holds the last packet only.
EncodePayload(q) == IF Binary THEN <<q[Len(q)]>> ELSE q

\* Mutant of DecodePayload: the loop stops after one packet.
DecodePayloadOnce(q) ==
  IF Binary /\ Blobs /\ Contains(q, "message") THEN <<q[1]>> ELSE <<>>

\* Parser::DecodePayload.  The client writes a binary payload only when a
\* packet has binary contents.  The lengths in a textual payload are computed
\* from the character codes of their digits (at least 49), which ends the
\* decoding of every shorter payload, and longer ones are not considered.
DecodePayload(q) ==
  IF Binary /\ Blobs /\ Contains(q, "message") THEN q ELSE <<>>

\* Mutant of AnswerPoll: CleanUp forgets req_.
AnswerPollKeepsRequest(s, q) ==
  [s EXCEPT !.reply = EncodePayload(q), !.writable = FALSE]

\* PollingTransport::SendPackets with PollingXhrTransport::DoWrite.
AnswerPoll(s, q) ==
  [s EXCEPT !.reply = EncodePayload(q), !.poll = FALSE, !.writable = FALSE]

\* WebsocketTransport::SendPackets: one frame per packet.
SendFrames(s, q) == [s EXCEPT !.frames = @ \o q]

\* BaseTransport::IsWritable.  The websocket transport has been writable
\* since its upgrade request was handled.
IsWritable(s) == s.transport = "websocket" \/ s.writable

\* Mutant of Flush: write_buffer_ is not cleared.
FlushKeepsBuffer(s) ==
  IF ~IsWritable(s) \/ s.buffer = <<>> THEN s
  ELSE IF s.transport = "polling" THEN AnswerPoll(s, s.buffer)
                                  ELSE SendFrames(s, s.buffer)

\* Socket::Flush.  state_ never becomes kStateClose.
Flush(s) ==
  IF ~IsWritable(s) \/ s.buffer = <<>> THEN s
  ELSE LET emptied == [s EXCEPT !.buffer = <<>>] IN
       IF s.transport = "polling" THEN AnswerPoll(emptied, s.buffer)
                                  ELSE SendFrames(emptied, s.buffer)

\* Socket::CreateAndSendPacket.
Send(s, p) == Flush([s EXCEPT !.buffer = Append(@, p)])

\* Mutant of HoldPoll: what waits in the buffer is not flushed.
HoldPollUnflushed(s) == [s EXCEPT !.poll = TRUE, !.writable = TRUE]

\* PollingTransport::HandlePollRequest, when no poll is held.
HoldPoll(s) == Flush([s EXCEPT !.poll = TRUE, !.writable = TRUE])

\* Server::VerifyRequest for a request of the polling transport.
Verified == server.registered /\ server.transport = "polling"

\* Socket::OnPacket for the packets of a payload: a pong for every ping.
\* ForceClose does nothing, because state_ is never kStateOpen.
Pongs(q) ==
  LET pings == {i \in 1..Len(q) : q[i].type = "ping"}
  IN  [i \in 1..Cardinality(pings) |-> Control("pong")]

\* Server::Handshake: the request that creates the session is also a poll.
HandleHandshake ==
  /\ client.get = "handshake"
  /\ server' = Send(HoldPoll([server EXCEPT !.registered = TRUE]),
                    Control("open"))
  /\ client' = [client EXCEPT !.get = "held"]
  /\ UNCHANGED <<sent, said, got, heard>>

\* A poll: 400 for a session or a transport that does not fit, 500 when
\* another request is held ("Request overlap").
HandlePoll ==
  /\ client.get = "request"
  /\ IF Verified /\ ~server.poll
     THEN /\ server' = HoldPoll(server)
          /\ client' = [client EXCEPT !.get = "held"]
     ELSE /\ client' = [client EXCEPT !.get = "refused"]
          /\ UNCHANGED server
  /\ UNCHANGED <<sent, said, got, heard>>

\* PollingTransport::HandleDataRequest.  While it runs req_ is set and the
\* transport is not writable, so the pongs stay in the buffer.  A write that
\* meets a held poll is refused and its packets are dropped.
HandleData ==
  /\ client.post = "request"
  /\ IF Verified /\ ~server.poll
     THEN LET q == DecodePayload(client.body) IN
          /\ server' = [server EXCEPT !.buffer = @ \o Pongs(q)]
          /\ heard' = heard \o Numbers(q)
          /\ client' = [client EXCEPT !.post = "ok", !.body = <<>>]
     ELSE /\ client' = [client EXCEPT !.post = "refused", !.body = <<>>]
          /\ UNCHANGED <<server, heard>>
  /\ UNCHANGED <<sent, said, got>>

\* Socket::MaybeUpgrade: a new WebsocketTransport that answers 101.  Its
\* packets go to OnPacketWhenUpgrading and it has no close callback yet.
HandleUpgrade ==
  /\ client.ws = "request"
  /\ IF server.registered
     THEN /\ server' = [server EXCEPT !.upgrading = TRUE]
          /\ client' = [client EXCEPT !.ws = "open"]
     ELSE /\ client' = [client EXCEPT !.ws = "closed"]
          /\ UNCHANGED server
  /\ UNCHANGED <<sent, said, got, heard>>

\* Mutants of OnPacketWhenUpgrading: the transport is switched with the probe;
\* upgrading_transport_ is reset before it is assigned to transport_.
OnPacketWhenUpgradingEager(p) ==
  /\ server.upgrading /\ server.transport = "polling"
  /\ server' = [SendFrames(server, <<Control("probed")>>)
                  EXCEPT !.transport = "websocket"]
  /\ UNCHANGED heard
OnPacketWhenUpgradingReset(p) ==
  /\ server.upgrading /\ server.transport = "polling"
  /\ server' = IF p.type = "upgrade"
               THEN [server EXCEPT !.upgrading = FALSE, !.transport = "none"]
               ELSE SendFrames(server, <<Control("probed")>>)
  /\ UNCHANGED heard

\* Socket::OnPacketWhenUpgrading.  The switch to the websocket transport does
\* not flush the buffer.
OnPacketWhenUpgrading(p) ==
  /\ server.upgrading /\ server.transport = "polling"
  /\ server' =
       CASE p.type = "probe" ->
              Send(SendFrames(server, <<Control("probed")>>), Control("noop"))
         [] p.type = "upgrade" -> [server EXCEPT !.transport = "websocket"]
         [] OTHER -> [server EXCEPT !.upgrading = FALSE]
  /\ UNCHANGED heard

\* Mutant of OnPacket: the message callback runs a second time.
OnPacketTwice(p) ==
  /\ server.transport = "websocket"
  /\ server' = IF p.type = "ping" THEN Send(server, Control("pong")) ELSE server
  /\ heard' = heard \o Numbers(<<p, p>>)

\* Socket::OnPacket for a packet of the websocket transport.
OnPacket(p) ==
  /\ server.transport = "websocket"
  /\ server' = IF p.type = "ping" THEN Send(server, Control("pong")) ELSE server
  /\ heard' = IF p.type = "message" THEN Append(heard, p.n) ELSE heard

\* WebsocketTransport::OnTextMessage: one frame holds one packet.
HandleFrame ==
  /\ client.ws = "open" /\ client.up # <<>>
  /\ OnPacketWhenUpgrading(Head(client.up)) \/ OnPacket(Head(client.up))
  /\ client' = [client EXCEPT !.up = Tail(@)]
  /\ UNCHANGED <<sent, said, got>>

\* Mutant of HandleWsClose: the transport's close callback is never set.
HandleWsCloseUnnoticed ==
  /\ client.ws = "open"
  /\ client.state = "closed" \/ client.probe = "failed"
  /\ client' = [client EXCEPT !.ws = "closed", !.up = <<>>]
  /\ UNCHANGED <<server, sent, said, got, heard>>

\* The websocket connection is down: a close frame came, or the connection
\* was reset and what it still held is lost.  WebsocketTransport::OnClose
\* reaches Socket::OnClose, and Server::OnSocketClose, only when it is the
\* session's transport.
HandleWsClose ==
  /\ client.ws = "open"
  /\ client.state = "closed" \/ client.probe = "failed"
  /\ server' = [server EXCEPT !.registered = @ /\ server.transport = "polling"]
  /\ client' = [client EXCEPT !.ws = "closed", !.up = <<>>]
  /\ UNCHANGED <<sent, said, got, heard>>

\* The application (socketio::Client::Send) calls Socket::SendMessage.
SendMessage ==
  /\ server.registered /\ sent < MaxSent
  /\ sent' = sent + 1
  /\ server' = Send(server, Message(sent'))
  /\ UNCHANGED <<client, said, got, heard>>

-----------------------------------------------------------------------------
(* The client.                                                             *)

\* Socket.flush: nothing while upgrading, one write at a time when polling.
ClientFlush(c) ==
  CASE c.state # "open" \/ c.probe = "pausing" \/ c.outbox = <<>> -> c
    [] OTHER ->
         IF c.transport = "websocket"
         THEN [c EXCEPT !.up = @ \o c.outbox, !.outbox = <<>>]
         ELSE IF c.post = "none"
              THEN [c EXCEPT !.post = "request", !.body = c.outbox,
                             !.outbox = <<>>]
              ELSE c

\* Socket.sendPacket.
ClientSend(c, p) == ClientFlush([c EXCEPT !.outbox = Append(@, p)])

\* The callback of Polling.pause: once no poll and no write is out, the
\* upgrade packet goes first and the transports are exchanged.
ClientPaused(c) ==
  IF c.probe = "pausing" /\ c.get = "none" /\ c.post = "none"
  THEN ClientFlush([c EXCEPT !.probe = "done", !.transport = "websocket",
                             !.up = Append(@, Control("upgrade"))])
  ELSE c

\* Socket.onClose and Polling.doClose: over polling a close packet is posted.
\* (One that overtakes another write is left out: the server ignores it.)
ClientClosed(c) ==
  IF c.transport = "polling" /\ c.post = "none" /\ c.state = "open"
  THEN [c EXCEPT !.state = "closed", !.post = "request",
                 !.body = <<Control("close")>>]
  ELSE [c EXCEPT !.state = "closed"]

ClientOpen ==
  /\ client.state = "idle"
  /\ client' = [client EXCEPT !.state = "opening", !.get = "handshake"]
  /\ UNCHANGED <<server, sent, said, got, heard>>

\* Polling.onData: the packets of the payload, then the next poll unless the
\* transport is pausing.  The open packet starts the websocket probe.
ClientPolled ==
  /\ client.state \in {"opening", "open"}
  /\ client.get = "held" /\ server.reply # <<>>
  /\ LET q == server.reply
         opened == IF Contains(q, "open")
                   THEN [client EXCEPT !.state = "open", !.probe = "asked",
                                       !.ws = "request"]
                   ELSE client
         read == [opened EXCEPT !.pinging = @ /\ ~Contains(q, "pong"),
                                !.get = IF client.probe = "pausing"
                                        THEN "none" ELSE "request"]
     IN  /\ got' = got \o Numbers(q)
         /\ client' = ClientPaused(ClientFlush(read))
  /\ server' = [server EXCEPT !.reply = <<>>]
  /\ UNCHANGED <<sent, said, heard>>

\* A poll or a write that came back with an error closes the client.
ClientRefused ==
  /\ client.state \in {"opening", "open"}
  /\ client.get = "refused" \/ client.post = "refused"
  /\ client' = ClientClosed(client)
  /\ UNCHANGED <<server, sent, said, got, heard>>

\* A write came back: drain.
ClientDrained ==
  /\ client.state = "open" /\ client.post = "ok"
  /\ client' = ClientPaused(ClientFlush([client EXCEPT !.post = "none"]))
  /\ UNCHANGED <<server, sent, said, got, heard>>

\* onTransportOpen of the probe.
ClientProbe ==
  /\ client.state = "open" /\ client.ws = "open" /\ client.probe = "asked"
  /\ client' = [client EXCEPT !.probe = "sent",
                              !.up = Append(@, Control("probe"))]
  /\ UNCHANGED <<server, sent, said, got, heard>>

\* The probe's connection is lost before its pong: polling goes on.
ClientProbeLost ==
  /\ client.state = "open" /\ client.probe \in {"asked", "sent"}
  /\ client.ws = "open"
  /\ client' = [client EXCEPT !.probe = "failed"]
  /\ UNCHANGED <<server, sent, said, got, heard>>

\* A frame: the pong of the probe pauses the polling transport; afterwards
\* the frames are the session's packets.
ClientFrame ==
  /\ client.state = "open" /\ server.frames # <<>>
  /\ client.ws = "open" /\ client.probe # "failed"
  /\ LET p == Head(server.frames) IN
     /\ client' = IF client.probe = "sent"
                  THEN ClientPaused([client EXCEPT !.probe = "pausing"])
                  ELSE [client EXCEPT !.pinging = @ /\ p.type # "pong"]
     /\ got' = got \o Numbers(<<p>>)
     /\ server' = [server EXCEPT !.frames = Tail(@)]
  /\ UNCHANGED <<sent, said, heard>>

ClientMessage ==
  /\ client.state = "open" /\ said < MaxSaid
  /\ said' = said + 1
  /\ client' = ClientSend(client, Message(said'))
  /\ UNCHANGED <<server, sent, got, heard>>

\* setPing: one ping at a time, whenever the interval is over.
ClientPing ==
  /\ client.state = "open" /\ ~client.pinging
  /\ client' = ClientSend([client EXCEPT !.pinging = TRUE], Control("ping"))
  /\ UNCHANGED <<server, sent, said, got, heard>>

\* onHeartbeat: the pong is overdue.
ClientTimeout ==
  /\ client.state = "open" /\ client.pinging
  /\ client' = ClientClosed(client)
  /\ UNCHANGED <<server, sent, said, got, heard>>

\* The user leaves, or the connection is lost.
ClientClose ==
  /\ client.state \in {"opening", "open"}
  /\ client' = ClientClosed(client)
  /\ UNCHANGED <<server, sent, said, got, heard>>

-----------------------------------------------------------------------------
ServerStep ==
  \/ HandleHandshake \/ HandlePoll \/ HandleData
  \/ HandleUpgrade \/ HandleFrame \/ HandleWsClose

ClientStep ==
  \/ ClientPolled \/ ClientRefused \/ ClientDrained
  \/ ClientProbe \/ ClientFrame

Next ==
  \/ ServerStep \/ ClientStep \/ SendMessage
  \/ ClientOpen \/ ClientMessage \/ ClientPing
  \/ ClientProbeLost \/ ClientTimeout \/ ClientClose

Spec == Init /\ [][Next]_vars

\* The event loop runs every handler whose input has come, requests and
\* frames arrive, and the client's callbacks run.  The application, the user,
\* failures, and the client's timers (the ping interval is 25 seconds) are
\* under no obligation.
Fairness ==
  /\ WF_vars(HandleHandshake) /\ WF_vars(HandlePoll) /\ WF_vars(HandleData)
  /\ WF_vars(HandleUpgrade) /\ WF_vars(HandleFrame) /\ WF_vars(HandleWsClose)
  /\ WF_vars(ClientPolled) /\ WF_vars(ClientRefused)
  /\ WF_vars(ClientDrained) /\ WF_vars(ClientProbe) /\ WF_vars(ClientFrame)

FairSpec == Spec /\ Fairness

-----------------------------------------------------------------------------
\* The two ends and the wire between them have their types.
EndsTyped ==
  /\ server \in ServerState
  /\ client \in ClientState
  /\ sent \in Nat /\ said \in Nat

TypeOK == EndsTyped /\ got \in Seq(Nat) /\ heard \in Seq(Nat)

\* No wake-up is lost: while the polling transport carries the session it is
\* writable exactly while a poll is held, and then nothing waits in
\* write_buffer_.  Every way a packet enters the buffer and every way a poll
\* is taken up ends in a flush.
NoLostWakeup ==
  server.transport = "polling" =>
    /\ server.poll <=> server.writable
    /\ server.poll => server.buffer = <<>> /\ server.reply = <<>>

\* A client that is there has never a poll refused: it has one poll out at a
\* time, the server gives up req_ with every answer, and no poll is on its
\* way when the transports are exchanged.
NoRefusedPoll == client.get = "refused" => client.state = "closed"

\* Both ends agree on the exchange of transports: once the server has
\* switched, a client that is there has switched too, and no poll is left
\* behind that nobody would answer.
CleanSwitch ==
  server.transport = "websocket" /\ client.state # "closed" =>
    /\ client.transport = "websocket"
    /\ client.get = "none" /\ client.post = "none" /\ ~server.poll
    /\ server.reply = <<>>

\* Why no wake-up is lost: a poll is held, and an answer is under way, only
\* for a client that has its poll out, and never both.
PollsMatched ==
  /\ server.poll => server.reply = <<>>
  /\ client.get # "held" => ~server.poll /\ server.reply = <<>>

\* The messages between SendMessage and the client, oldest first.
Queue ==
  Numbers(server.reply) \o Numbers(server.frames) \o Numbers(server.buffer)

\* Over textual payloads the session is a channel that loses, repeats and
\* reorders nothing while the client is there, polling or upgraded.
Channel == INSTANCE PacketChannel
             WITH queue <- Queue, delivered <- got,
                  there <- client.state # "closed"
ImplementsChannel == Channel!Spec

\* The other direction: what the client said is with the
\* application, on its way, or waiting, in order and each once; only a write
\* that was refused takes its messages with it, and those it leaves are heard
\* in order and once, whichever transport they took.  (It needs binary
\* contents.)
HeardOnce ==
  /\ client.state # "closed" /\ client.post # "refused" =>
       heard \o Numbers(client.body) \o Numbers(client.up)
             \o Numbers(client.outbox) = [i \in 1..said |-> i]
  /\ \A i, j \in 1..Len(heard) : i < j => heard[i] < heard[j]

\* Every message sent over textual payloads reaches a client that stays,
\* without the help of a ping, unless it is parked: the exchange of transports
\* does not flush write_buffer_, and what waits there goes out with the next
\* packet only.
DeliveredOrParked ==
  \A n \in 1..MaxSent :
    (sent >= n) ~> \/ Len(got) >= n
                   \/ client.state = "closed"
                   \/ server.transport = "websocket" /\ server.buffer # <<>>

\* Once an upgraded session's client has gone the server forgets it.
UpgradedForgotten ==
  (client.state = "closed" /\ server.transport = "websocket")
    ~> ~server.registered

\* An upgrade hangs in one situation only: the client waits for its last poll,
\* the server holds it, has used up its one noop, and has nothing to send.
\* Whatever else happens, a pause ends.
PauseEndsUnlessIdle ==
  <>[](client.probe = "pausing" /\ client.state # "closed") =>
    <>[](server.poll /\ server.buffer = <<>> /\ server.reply = <<>>)
=============================================================================
