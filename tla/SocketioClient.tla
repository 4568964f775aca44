--------------------------- MODULE SocketioClient ---------------------------
(***************************************************************************)
(* The socket.io client of the repository (example/chat/static/            *)
(* socket.io.js): one Manager with its reconnection, the Sockets it serves *)
(* (one per namespace), the engine.io connections it opens one after the   *)
(* other, and the server at the other end of each.                         *)
(*                                                                         *)
(* JavaScript runs one event at a time, but the program's own callbacks    *)
(* run in the middle of four of the handlers.  `resume' in the client is   *)
(* what is left of the handler whose callback is running; an event waits   *)
(* until nothing is left, the application does not.                        *)
(*                                                                         *)
(* Left out: acknowledgements and events of the server, which change       *)
(* nothing here; the asynchronous encoding of Blobs; options that switch   *)
(* reconnection, the timeout or autoConnect off.                           *)
(***************************************************************************)
EXTENDS Naturals, SequencesExt

CONSTANTS
  Nsp,          \* the namespaces the application uses
  Root,         \* "/", which the server connects by itself
  MaxEngines,   \* bound: connections that are alive or referred to at a time
  Attempts,     \* reconnectionAttempts
  MaxCalls,     \* bound: calls of connect and disconnect by the application
  MaxEmits      \* bound: events the application emits

ASSUME ClientAssumption ==
  /\ Root \in Nsp /\ MaxEngines \in Nat \ {0}
  /\ Attempts \in Nat \ {0} /\ MaxCalls \in Nat /\ MaxEmits \in Nat

\* Numbers for the connections; 0 is none.
Engine == 1..MaxEngines

\* A packet the client writes; n tells the events apart, and is 0 otherwise.
Packet == [type : {"connect", "disconnect", "event"}, nsp : Nsp, n : 0..MaxEmits]
ConnectPacket(n) == [type |-> "connect", nsp |-> n, n |-> 0]
DisconnectPacket(n) == [type |-> "disconnect", nsp |-> n, n |-> 0]
EventPacket(n, k) == [type |-> "event", nsp |-> n, n |-> k]

VARIABLES
  client,       \* the Manager and its Sockets, a record
  engines,      \* the engine.io connections and the server's end of each
  calls,        \* calls of connect and disconnect so far
  emitted,      \* events emitted so far
  eager,        \* events emitted by a callback of a socket that has others buffered
  failed,       \* reconnect_failed is the last word the application has
  names         \* the server names the namespace of its replies, or is the
                \* repository's, whose connect packets all say "/"

vars == <<client, engines, calls, emitted, eager, failed, names>>

\* The Manager's listeners on an engine and its timers, as its `subs' holds
\* them: until the engine is open (fn: the callback is reconnect's own), the
\* timer of open, the listeners of an open engine, the timer of reconnect.
Opening(e, fn) == [sub |-> "open", engine |-> e, fn |-> fn]
Failing(e, fn) == [sub |-> "error", engine |-> e, fn |-> fn]
Timeout(e) == [sub |-> "timeout", engine |-> e, fn |-> FALSE]
Live(e) == [sub |-> "live", engine |-> e, fn |-> FALSE]
Delay == [sub |-> "delay", engine |-> 0, fn |-> FALSE]
Subs == {Delay} \cup {Timeout(e) : e \in Engine} \cup {Live(e) : e \in Engine}
          \cup {Opening(e, fn) : e \in Engine, fn \in BOOLEAN}
          \cup {Failing(e, fn) : e \in Engine, fn \in BOOLEAN}

\* What is left of a handler when its callback returns.
Nothing == [call |-> "none"]
Closing(left) == [call |-> "onclose", left |-> left]
Connecting(n) == [call |-> "onconnect", nsp |-> n]
Attempting == [call |-> "attempt"]
Reporting(fn) == [call |-> "connect_error", fn |-> fn]

\* out: writeBuffer.  joined: the namespaces the server has connected on it;
\* replies: its connect packets under way; heard: the events it has got.
\* early: something was written to it before it was open.
\* A number without an engine has a closed one.
NewEngine == [state |-> "opening", out |-> <<>>, joined |-> {},
              replies |-> <<>>, heard |-> <<>>, early |-> FALSE]
Closed == [NewEngine EXCEPT !.state = "closed"]

Init ==
  /\ client = [state |-> "closed", skip |-> FALSE, reconnecting |-> FALSE,
               attempts |-> 0, engine |-> 0, subs |-> {}, listening |-> <<>>,
               made |-> {}, connected |-> {}, buffer |-> [n \in Nsp |-> <<>>],
               resume |-> Nothing]
  /\ engines = [e \in Engine |-> Closed]
  /\ calls = 0 /\ emitted = 0 /\ eager = {} /\ failed = FALSE
  /\ names \in BOOLEAN

-----------------------------------------------------------------------------
(* The Manager and an engine, as operators on the two records.             *)

Alive == {"opening", "open"}
Quiet == client.resume = Nothing
Listens(n) == Contains(client.listening, n)

\* The numbers a new engine may have, and the one it gets.
Free(c) ==
  {e \in Engine : /\ engines[e].state = "closed" /\ e # c.engine
                  /\ \A s \in c.subs : s.engine # e}
NewNumber(c) == CHOOSE e \in Free(c) : \A d \in Free(c) : e <= d

\* Manager.open, when it is closed, with the new engine e.
OpenOn(c, e, fn) ==
  [c EXCEPT !.state = "opening", !.skip = FALSE, !.engine = e,
            !.subs = @ \cup {Opening(e, fn), Failing(e, fn), Timeout(e)}]

\* Manager.cleanup: every listener and every timer.
Cleanup(c) == [c EXCEPT !.subs = {}]

\* Manager.reconnect with no attempt left.
GivesUp(c) == ~c.reconnecting /\ ~c.skip /\ c.attempts >= Attempts

\* Manager.reconnect.
Reconnect(c) ==
  IF c.reconnecting \/ c.skip THEN c
  ELSE IF GivesUp(c) THEN [c EXCEPT !.attempts = 0]
  ELSE [c EXCEPT !.attempts = @ + 1, !.reconnecting = TRUE, !.subs = @ \cup {Delay}]

\* Manager.maybeReconnectOnOpen.
MaybeReconnectOnOpen(c) ==
  IF ~c.reconnecting /\ c.attempts = 0 THEN Reconnect(c) ELSE c

\* Mutant of OnClose: readyState stays as it is.
OnCloseStaysOpen(c) ==
  LET closed == [Cleanup(c) EXCEPT !.attempts = 0] IN
  IF c.listening = <<>> THEN Reconnect(closed)
  ELSE [closed EXCEPT !.connected = @ \ {Head(c.listening)},
                      !.resume = Closing(Tail(c.listening))]

\* Manager.onclose up to the first callback: the listeners of `close' are the
\* sockets that listen now, whatever their callbacks do to the others.
OnClose(c) ==
  LET closed == [Cleanup(c) EXCEPT !.attempts = 0, !.state = "closed"] IN
  IF c.listening = <<>> THEN Reconnect(closed)
  ELSE [closed EXCEPT !.connected = @ \ {Head(c.listening)},
                      !.resume = Closing(Tail(c.listening))]

\* The `close' event of engine e.
CloseEvent(c, e) == IF Live(e) \in c.subs THEN OnClose(c) ELSE c

\* The `error' event of engine e before it is open, up to the first callback.
ErrorEvent(c, e) ==
  IF \E fn \in BOOLEAN : Failing(e, fn) \in c.subs
  THEN [Cleanup(c) EXCEPT !.state = "closed",
                          !.resume = Reporting(Failing(e, TRUE) \in c.subs)]
  ELSE c

\* Mutant of Write: what is new goes out first.
WriteInFront(es, c, packets) ==
  IF es[c.engine].state \in Alive
  THEN [es EXCEPT ![c.engine].out = packets \o @] ELSE es

\* Manager.packet with the engine's write: an engine that is closing or closed
\* drops what it is given.
Write(es, c, packets) ==
  IF es[c.engine].state \in Alive
  THEN [es EXCEPT ![c.engine].out = @ \o packets] ELSE es

\* Manager.onopen, with reconnect's callback when fn.
OnOpen(c, fn) ==
  LET open == [Cleanup(c) EXCEPT !.state = "open", !.subs = @ \cup {Live(c.engine)}]
  IN  IF fn THEN [open EXCEPT !.reconnecting = FALSE, !.attempts = 0] ELSE open

\* Mutant of Requests: a socket asks for its namespace when it is made only.
RequestsNothing(c) == <<>>

\* Socket.onopen of the sockets that listen.
Requests(c) ==
  LET f[i \in 0..Len(c.listening)] ==
        IF i = 0 THEN <<>>
        ELSE IF c.listening[i] = Root THEN f[i - 1]
        ELSE Append(f[i - 1], ConnectPacket(c.listening[i]))
  IN  f[Len(c.listening)]

-----------------------------------------------------------------------------
(* What the application does, in a callback or not.                        *)

\* Socket.connect, and io(): the socket listens to the Manager, which is
\* opened; on one that is open already it asks for its namespace at once.
Connect(n) ==
  /\ calls < MaxCalls /\ n \notin client.connected
  /\ LET c == [client EXCEPT !.made = @ \cup {n},
                 !.listening = IF Listens(n) THEN @ ELSE Append(@, n)]
     IN  \/ /\ c.state \in Alive
            /\ client' = c
            /\ engines' = IF c.state = "open" /\ n # Root
                          THEN Write(engines, c, <<ConnectPacket(n)>>) ELSE engines
            /\ UNCHANGED failed
         \/ /\ c.state = "closed" /\ Free(c) # {}
            /\ client' = OpenOn(c, NewNumber(c), FALSE)
            /\ engines' = [engines EXCEPT ![NewNumber(c)] = NewEngine]
            /\ failed' = FALSE
  /\ calls' = calls + 1
  /\ UNCHANGED <<emitted, eager, names>>

\* Manager.close with the engine's close, which waits for the write buffer
\* to drain, and for an upgrade under way; before the engine is open neither
\* will happen.
CloseManager(c, es, waits) ==
  LET idle == IF c.state = "opening" THEN Cleanup(c) ELSE c
      closed == [idle EXCEPT !.skip = TRUE, !.reconnecting = FALSE,
                             !.attempts = 0, !.state = "closed"]
      old == es[c.engine].state
      new == CASE old \notin Alive -> old
               [] old \in Alive /\ ~waits -> "closed"
               [] old = "open" /\ waits -> "closing"
               [] old = "opening" /\ waits -> "stalled"
  IN  /\ old \in Alive /\ es[c.engine].out # <<>> => waits
      /\ waits => old = "open" \/ (old = "opening" /\ es[c.engine].out # <<>>)
      /\ client' = IF new = "closed" /\ old # new THEN CloseEvent(closed, c.engine)
                                                  ELSE closed
      /\ engines' = [es EXCEPT ![c.engine] =
                        IF new = "closed" THEN Closed ELSE [@ EXCEPT !.state = new]]

\* Socket.disconnect with Manager.destroy: the last socket takes the
\* connection with it.
Disconnect(n) ==
  /\ calls < MaxCalls
  /\ \E i \in 1..Len(client.listening) :
       LET c == [client EXCEPT !.listening = RemoveAt(@, i), !.connected = @ \ {n}]
           es == IF n \in client.connected
                 THEN Write(engines, client, <<DisconnectPacket(n)>>) ELSE engines
       IN  /\ client.listening[i] = n
           /\ IF c.listening # <<>> THEN client' = c /\ engines' = es
              ELSE \E waits \in BOOLEAN : CloseManager(c, es, waits)
  /\ calls' = calls + 1
  /\ UNCHANGED <<emitted, eager, failed, names>>

\* Socket.emit: what cannot be sent yet is buffered.
Emit(n) ==
  /\ emitted < MaxEmits /\ n \in client.made
  /\ emitted' = emitted + 1
  /\ IF n \in client.connected
     THEN /\ engines' = Write(engines, client, <<EventPacket(n, emitted + 1)>>)
          /\ UNCHANGED client
          /\ eager' = IF client.resume = Connecting(n) /\ client.buffer[n] # <<>>
                      THEN eager \cup {emitted + 1} ELSE eager
     ELSE /\ client' = [client EXCEPT !.buffer[n] = Append(@, emitted + 1)]
          /\ UNCHANGED <<engines, eager>>
  /\ UNCHANGED <<calls, failed, names>>

-----------------------------------------------------------------------------
(* The callbacks return.                                                   *)

\* Mutant of OnCloseReturns: reconnect is not called.
OnCloseReturnsForGood ==
  /\ client.resume.call = "onclose"
  /\ LET left == client.resume.left IN
     client' = IF left # <<>>
               THEN [client EXCEPT !.connected = @ \ {Head(left)},
                                   !.resume = Closing(Tail(left))]
               ELSE [client EXCEPT !.resume = Nothing]
  /\ UNCHANGED <<engines, calls, emitted, eager, failed, names>>

\* Manager.onclose goes on to the next socket, and then to reconnect.
OnCloseReturns ==
  /\ client.resume.call = "onclose"
  /\ LET left == client.resume.left
         done == [client EXCEPT !.resume = Nothing]
     IN  IF left # <<>>
         THEN /\ client' = [client EXCEPT !.connected = @ \ {Head(left)},
                                          !.resume = Closing(Tail(left))]
              /\ UNCHANGED failed
         ELSE /\ client' = Reconnect(done)
              /\ failed' = (failed \/ GivesUp(done))
  /\ UNCHANGED <<engines, calls, emitted, eager, names>>

\* Mutant of OnConnectReturns: the buffer is sent and kept.
OnConnectReturnsFull ==
  /\ client.resume.call = "onconnect"
  /\ LET n == client.resume.nsp
         queue == client.buffer[n]
     IN  /\ client' = [client EXCEPT !.resume = Nothing]
         /\ engines' = Write(engines, client,
                             [i \in 1..Len(queue) |-> EventPacket(n, queue[i])])
  /\ UNCHANGED <<calls, emitted, eager, failed, names>>

\* Socket.onconnect goes on to emitBuffered.
OnConnectReturns ==
  /\ client.resume.call = "onconnect"
  /\ LET n == client.resume.nsp
         queue == client.buffer[n]
     IN  /\ client' = [client EXCEPT !.buffer[n] = <<>>, !.resume = Nothing]
         /\ engines' = Write(engines, client,
                             [i \in 1..Len(queue) |-> EventPacket(n, queue[i])])
  /\ UNCHANGED <<calls, emitted, eager, failed, names>>

\* The timer of reconnect goes on to open.
AttemptReturns ==
  /\ client.resume = Attempting
  /\ LET c == [client EXCEPT !.resume = Nothing] IN
     \/ /\ c.skip \/ c.state \in Alive
        /\ client' = c
        /\ UNCHANGED <<engines, failed>>
     \/ /\ ~c.skip /\ c.state = "closed" /\ Free(c) # {}
        /\ client' = OpenOn(c, NewNumber(c), TRUE)
        /\ engines' = [engines EXCEPT ![NewNumber(c)] = NewEngine]
        /\ failed' = FALSE
  /\ UNCHANGED <<calls, emitted, eager, names>>

\* The error listener of open goes on, to reconnect's callback or its own end.
ConnectErrorReturns ==
  /\ client.resume.call = "connect_error"
  /\ LET c == [client EXCEPT !.resume = Nothing]
         retry == [c EXCEPT !.reconnecting = FALSE]
     IN  IF client.resume.fn
         THEN client' = Reconnect(retry) /\ failed' = (failed \/ GivesUp(retry))
         ELSE client' = MaybeReconnectOnOpen(c) /\ UNCHANGED failed
  /\ UNCHANGED <<engines, calls, emitted, eager, names>>

-----------------------------------------------------------------------------
(* Events.                                                                 *)

\* The handshake of engine e; the server connects "/" on every session.
EngineOpens(e) ==
  /\ Quiet /\ engines[e].state = "opening"
  /\ LET heard == \E fn \in BOOLEAN : Opening(e, fn) \in client.subs
         es == [engines EXCEPT ![e].state = "open", ![e].joined = {Root},
                               ![e].replies = <<Root>>,
                               ![e].early = (engines[e].out # <<>>)]
     IN  /\ client' = IF heard THEN OnOpen(client, Opening(e, TRUE) \in client.subs)
                               ELSE client
         /\ engines' = IF heard THEN Write(es, client, Requests(client)) ELSE es
  /\ UNCHANGED <<calls, emitted, eager, failed, names>>

\* The transport of engine e fails before the handshake.
EngineFails(e) ==
  /\ Quiet /\ engines[e].state = "opening"
  /\ engines' = [engines EXCEPT ![e] = Closed]
  /\ client' = ErrorEvent(client, e)
  /\ UNCHANGED <<calls, emitted, eager, failed, names>>

\* Mutant of TimesOut: the engine is not closed.
TimesOutAlone(e) ==
  /\ Quiet /\ Timeout(e) \in client.subs
  /\ client' = ErrorEvent([client EXCEPT !.subs = {s \in @ : s.sub # "open"}], e)
  /\ UNCHANGED <<engines, calls, emitted, eager, failed, names>>

\* The timer of Manager.open: the engine is closed, and reports an error.
TimesOut(e) ==
  /\ Quiet /\ Timeout(e) \in client.subs
  /\ engines' = [engines EXCEPT ![e] =
                   IF @.out = <<>> THEN Closed ELSE [@ EXCEPT !.state = "stalled"]]
  /\ client' = ErrorEvent([client EXCEPT !.subs = {s \in @ : s.sub # "open"}], e)
  /\ UNCHANGED <<calls, emitted, eager, failed, names>>

\* An open connection is lost: an error or a close of the transport, or a
\* ping that is not answered.
EngineLost(e) ==
  /\ Quiet /\ engines[e].state \in {"open", "closing", "stalled"}
  /\ engines' = [engines EXCEPT ![e] = Closed]
  /\ client' = CloseEvent(client, e)
  /\ UNCHANGED <<calls, emitted, eager, failed, names>>

\* The timer of Manager.reconnect, up to its first callback.
DelayEnds ==
  /\ Quiet /\ Delay \in client.subs
  /\ client' = [client EXCEPT !.subs = @ \ {Delay},
                              !.resume = IF client.skip THEN Nothing ELSE Attempting]
  /\ UNCHANGED <<engines, calls, emitted, eager, failed, names>>

\* Client::OnData at the server: an event is passed to a connected socket.
\* The repository's Socket::OnConnect replies without the namespace.
Handled(s, p) ==
  CASE p.type = "connect" ->
         [s EXCEPT !.joined = @ \cup {p.nsp},
                   !.replies = Append(@, IF names THEN p.nsp ELSE Root)]
    [] p.type = "disconnect" -> [s EXCEPT !.joined = @ \ {p.nsp}]
    [] p.type = "event" ->
         IF p.nsp \in s.joined THEN [s EXCEPT !.heard = Append(@, p)] ELSE s

\* An engine when the server has got everything that was written to it.
Served(s) ==
  LET f[i \in 0..Len(s.out)] ==
        IF i = 0 THEN [s EXCEPT !.out = <<>>] ELSE Handled(f[i - 1], s.out[i])
  IN  f[Len(s.out)]

\* The engine's write buffer drains into the server; an engine that was
\* waiting for that, or for its upgrade, closes.
Drain(e) ==
  /\ Quiet
  /\ engines[e].state = "closing" \/ (engines[e].state = "open" /\ engines[e].out # <<>>)
  /\ LET closes == engines[e].state = "closing" IN
     /\ engines' = [engines EXCEPT ![e] = IF closes THEN Closed ELSE Served(@)]
     /\ client' = IF closes THEN CloseEvent(client, e) ELSE client
  /\ UNCHANGED <<calls, emitted, eager, failed, names>>

\* Socket.onpacket with a connect packet of the server, up to the callback.
Receive(e) ==
  /\ Quiet /\ engines[e].state = "open" /\ engines[e].replies # <<>>
  /\ Live(e) \in client.subs
  /\ LET n == Head(engines[e].replies) IN
     /\ engines' = [engines EXCEPT ![e].replies = Tail(@)]
     /\ client' = IF Listens(n)
                  THEN [client EXCEPT !.connected = @ \cup {n}, !.resume = Connecting(n)]
                  ELSE client
  /\ UNCHANGED <<calls, emitted, eager, failed, names>>

-----------------------------------------------------------------------------
ApplicationStep == \E n \in Nsp : Connect(n) \/ Disconnect(n) \/ Emit(n)

CallbackReturns ==
  OnCloseReturns \/ OnConnectReturns \/ AttemptReturns \/ ConnectErrorReturns

EngineStep ==
  \E e \in Engine : \/ EngineOpens(e) \/ EngineFails(e) \/ TimesOut(e)
                    \/ EngineLost(e) \/ Drain(e) \/ Receive(e)

Next == ApplicationStep \/ CallbackReturns \/ EngineStep \/ DelayEnds

Spec == Init /\ [][Next]_vars

\* Callbacks return and timers run out; an open connection carries what is
\* written to it until it is lost.  An engine that is opening may never say
\* anything: the timer is there for that.
FairSpec ==
  /\ Spec /\ WF_vars(CallbackReturns) /\ WF_vars(DelayEnds)
  /\ \A e \in Engine : WF_vars(TimesOut(e)) /\ WF_vars(Drain(e)) /\ WF_vars(Receive(e))

-----------------------------------------------------------------------------
Resumes ==
  [call : {"none", "attempt"}] \cup [call : {"connect_error"}, fn : BOOLEAN]
    \cup [call : {"onconnect"}, nsp : Nsp] \cup [call : {"onclose"}, left : Seq(Nsp)]

ClientState ==
  [state : {"closed", "opening", "open"}, skip : BOOLEAN, reconnecting : BOOLEAN,
   attempts : 0..Attempts, engine : Engine \cup {0}, subs : SUBSET Subs,
   listening : Seq(Nsp), made : SUBSET Nsp, connected : SUBSET Nsp,
   buffer : [Nsp -> Seq(1..MaxEmits)], resume : Resumes]

EngineState ==
  [state : {"opening", "open", "closing", "closed", "stalled"},
   out : Seq(Packet), joined : SUBSET Nsp, replies : Seq(Nsp),
   heard : Seq(Packet), early : BOOLEAN]

TypeOK ==
  /\ client \in ClientState /\ engines \in [Engine -> EngineState]
  /\ ToSet(client.listening) \subseteq client.made /\ IsInjective(client.listening)
  /\ client.connected \subseteq ToSet(client.listening)
  /\ calls \in 0..MaxCalls /\ emitted \in 0..MaxEmits /\ names \in BOOLEAN
  /\ eager \subseteq 1..MaxEmits /\ failed \in BOOLEAN

\* The state has its type, and the Manager, its engine and its sockets agree on
\* whether there is a connection: a Manager that is open hears its own engine,
\* which is open; and sockets are connected only then, or until the `close'
\* event has reached them, however they were closed and opened in callbacks.
ConnectionAgrees ==
  /\ TypeOK
  /\ client.state = "open" =>
       /\ engines[client.engine].state = "open"
       /\ Live(client.engine) \in client.subs
  /\ client.connected # {} =>
       client.state = "open" \/ client.resume.call = "onclose"

\* Of two events of a namespace the later one was emitted later, but for those
\* in late.
InOrder(q, late) ==
  \A i, j \in 1..Len(q) :
    /\ i < j /\ q[i].type = "event" /\ q[j].type = "event" /\ q[i].nsp = q[j].nsp
    => q[i].n < q[j].n \/ (q[i].n > q[j].n /\ q[i].n \in late)

\* On one connection the events of a namespace are sent once, and in the order
\* of their emits, whether they had to wait for the connection or not; only an
\* event that a `connect' or another callback of the socket emits while others
\* are still buffered overtakes them.
SentInOrder ==
  \A e \in Engine : InOrder(engines[e].heard \o engines[e].out, eager)

\* A namespace the client believes it is connected to is connected at the
\* server when everything written has arrived: what it emits is heard.  But
\* for an engine that was given packets of an earlier connection before it was
\* open: a disconnect among them ends a socket that has yet to be connected.
\* With the repository's server the reply to any namespace connects "/" here.
ConnectedIsJoined ==
  names /\ client.state = "open" /\ ~engines[client.engine].early =>
    client.connected \subseteq Served(engines[client.engine]).joined

\* An engine nobody listens to, and which nobody will ever close.
Orphan(e) == engines[e].state \in Alive /\ \A s \in client.subs : s.engine # e

\* A connection is orphaned in one way only: the engine before it was still
\* closing (disconnect, and connect at once), and its `close' event takes the
\* listeners of its successor down with its own.
OrphanedByOldEngine ==
  [][\A e \in Engine : ~Orphan(e) /\ Orphan(e)' =>
       \E d \in Engine \ {e} : engines[d].state = "closing"
                                /\ engines'[d].state = "closed"]_vars

\* `reconnecting' is set, and there is neither a timer nor an attempt to end it.
Stale ==
  /\ client.reconnecting /\ Delay \notin client.subs
  /\ \A e \in Engine : Failing(e, TRUE) \notin client.subs

\* Whoever has lost the connection tries again until it is open, or has failed
\* as often as it may, or is told to stop; unless `reconnecting' is stale,
\* which happens when the application itself calls connect meanwhile.
ReconnectsUnlessStale ==
  (client.state = "closed" /\ ~client.skip /\ client.made # {})
     ~> (client.state \in Alive \/ client.skip \/ failed \/ (Quiet /\ Stale))

\* A socket of a named namespace is connected in the end if its connection
\* lasts, in whatever order it was connected, disconnected and connected again.
\* (The socket of "/" is not, if others keep the connection: it never asks.
\* With the repository's server no other socket ever is: no reply names it.)
NamespaceConnects ==
  \A n \in Nsp \ {Root} :
    (names /\ client.state = "open" /\ Listens(n))
       ~> (n \in client.connected \/ ~Listens(n) \/ client.state # "open")
=============================================================================
