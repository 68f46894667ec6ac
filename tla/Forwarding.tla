----------------------------- MODULE Forwarding -----------------------------
(***************************************************************************)
(* Requests to a public URL on their way through one tunnel connection     *)
(* (internal/server/server.go, internal/client/client.go): the server's    *)
(* queue, writer and table of waiting requests, the two directions of the  *)
(* WebSocket, and the client's read loop, request handlers and writer.     *)
(* TunnelRegistry says which connection serves a name.                     *)
(***************************************************************************)
EXTENDS Integers, Sequences, FiniteSets

CONSTANTS Requests,     \* requests to the public URL, one stream each
          NoMessage,
          ServerSlots,  \* requestSlots of the tunnel
          ClientSlots,  \* MaxConcurrentRequests of the client
          SendSize      \* sendChannelSize, on either side

VARIABLES
    public,     \* handlePublic of each request
    respCh,     \* the requests whose channel holds a response
    pending,    \* t.pending
    server,     \* handleConnect of the tunnel
    sendS,      \* t.send
    writerS,    \* the server's writeLoop runs
    open,       \* the connection
    down, up,   \* what is on its way to the client, and to the server
    client,     \* the client's read loop; "blocked" on its send channel
    blockedOn,  \* the response or pong it is blocked on
    handler,    \* handleRequest of each request
    sendC,      \* the client's send channel
    writerC     \* the client's writeLoop: off, idle or writing

serverVars == <<public, respCh, pending, server, sendS, writerS>>
clientVars == <<client, blockedOn, handler, sendC, writerC>>
vars == <<serverVars, open, down, up, clientVars>>

\* Messages; what an answer says is left out.
Registered == [type |-> "registered"]
Ping == [type |-> "ping"]
Pong == [type |-> "pong"]
Request(r) == [type |-> "request", stream |-> r]
Response(r) == [type |-> "response", stream |-> r]
ToClient == {Registered, Ping} \union {Request(r) : r \in Requests}
ToServer == {Pong} \union {Response(r) : r \in Requests}
Off == [type |-> "off"]
Waiting == [type |-> "idle"]

TypeOK ==
    /\ public \in [Requests -> {"new", "sending", "waiting", "ended"}]
    /\ respCh \subseteq Requests /\ pending \subseteq Requests
    /\ server \in {"registering", "greeting", "serving", "closing", "draining", "closed", "abandoned"}
    /\ sendS \in Seq(ToClient) /\ Len(sendS) <= SendSize
    /\ sendC \in Seq(ToServer) /\ Len(sendC) <= SendSize
    /\ writerS \in BOOLEAN /\ open \in BOOLEAN
    /\ writerC \in {Off, Waiting} \union ToServer
    /\ down \in Seq(ToClient) /\ up \in Seq(ToServer)
    /\ client \in {"awaiting", "reading", "blocked", "left", "redialing", "stopped"}
    /\ blockedOn \in ToServer \union {NoMessage}
    /\ handler \in [Requests -> {"none", "local", "answered"}]

-----------------------------------------------------------------------------
(* handlePublic. *)

\* registerTunnel put the tunnel into the map, unregisterTunnel takes it out.
Mapped == server \in {"registering", "greeting", "serving", "closing", "draining"}
\* Seeded defect: only failPending tells the requests.
NeverDone == FALSE
Done == server \in {"closing", "draining", "closed"}
InProgress == {r \in Requests : public[r] \in {"sending", "waiting"}}

End(r) ==
    /\ public' = [public EXCEPT ![r] = "ended"]
    /\ pending' = pending \ {r}

\* Routes, rate and size of the request are checked first, then the slots.
Admit(r) ==
    /\ public[r] = "new" /\ Mapped
    /\ \/ End(r)
       \/ /\ Cardinality(InProgress) < ServerSlots
          /\ public' = [public EXCEPT ![r] = "sending"]
          /\ pending' = pending \union {r}
    /\ UNCHANGED <<respCh, server, sendS, writerS, open, down, up, clientVars>>

Send(r) ==
    /\ public[r] = "sending" /\ Len(sendS) < SendSize
    /\ sendS' = Append(sendS, Request(r))
    /\ public' = [public EXCEPT ![r] = "waiting"]
    /\ UNCHANGED <<respCh, pending, server, writerS, open, down, up, clientVars>>

\* Both selects: a request that can go on may find the tunnel done instead.
Answer(r) ==
    /\ \/ public[r] = "waiting" /\ r \in respCh
       \/ r \in InProgress /\ Done
    /\ End(r)
    /\ UNCHANGED <<respCh, server, sendS, writerS, open, down, up, clientVars>>

\* tunnelResponseTimeout of a waiting request; the caller has hung up.
GiveUp(r) ==
    /\ r \in InProgress
    /\ End(r)
    /\ UNCHANGED <<respCh, server, sendS, writerS, open, down, up, clientVars>>

-----------------------------------------------------------------------------
(* handleConnect, from registerTunnel on. *)

Close == open' = FALSE /\ down' = <<>> /\ up' = <<>>

\* RememberAuthenticatedApplicationTunnel; an error leaves without done.
Remember ==
    /\ server = "registering"
    /\ \/ server' = "greeting" /\ writerS' = TRUE /\ UNCHANGED <<open, down, up>>
       \/ server' = "abandoned" /\ UNCHANGED writerS /\ Close
    /\ UNCHANGED <<public, respCh, pending, sendS, clientVars>>

\* t.send <- registered, behind the requests that found the tunnel before.
Greet ==
    /\ server = "greeting" /\ Len(sendS) < SendSize
    /\ sendS' = Append(sendS, Registered)
    /\ server' = "serving"
    /\ UNCHANGED <<public, respCh, pending, writerS, open, down, up, clientVars>>

\* writeLoop, failWrite; it ends when the tunnel is done.
ServerWrite ==
    /\ writerS
    /\ \/ /\ sendS # <<>> /\ open
          /\ down' = Append(down, Head(sendS)) /\ sendS' = Tail(sendS)
          /\ UNCHANGED <<open, up, writerS>>
       \/ /\ sendS # <<>> /\ ~open
          /\ writerS' = FALSE /\ Close /\ sendS' = Tail(sendS)
       \/ /\ Done
          /\ writerS' = FALSE /\ UNCHANGED <<sendS, open, down, up>>
    /\ UNCHANGED <<public, respCh, pending, server, clientVars>>

\* writeLoop, every pingInterval: the confirmation, which is queued as soon as the
\* loop runs, is written long before the first; bound: one ping is on its way at
\* a time.
OnItsWay(seq) == \E i \in DOMAIN seq : seq[i] \in {Ping, Pong}
Confirmed == server = "serving" /\ \A i \in DOMAIN sendS : sendS[i] # Registered
SendPing ==
    /\ writerS /\ open /\ Confirmed
    /\ ~OnItsWay(down \o up \o sendC) /\ Pong \notin {blockedOn, writerC}
    /\ down' = Append(down, Ping)
    /\ UNCHANGED <<serverVars, open, up, clientVars>>

\* The read loop and dispatch: a response nobody waits for is dropped.
Dispatch ==
    /\ server = "serving" /\ up # <<>>
    /\ up' = Tail(up)
    /\ respCh' = respCh \union {r \in pending : Head(up) = Response(r)}
    /\ UNCHANGED <<public, pending, server, sendS, writerS, open, down, clientVars>>

\* The read fails: close(t.done) ...
LoseConnection ==
    /\ server = "serving" /\ ~open
    /\ server' = "closing"
    /\ UNCHANGED <<public, respCh, pending, sendS, writerS, open, down, up, clientVars>>

\* ... failPending ...
FailPending ==
    /\ server = "closing"
    /\ server' = "draining"
    /\ respCh' = respCh \union pending
    /\ pending' = {}
    /\ UNCHANGED <<public, sendS, writerS, open, down, up, clientVars>>

\* ... and, once the writer is done, unregisterTunnel.
Unregister ==
    /\ server = "draining" /\ ~writerS
    /\ server' = "closed"
    /\ UNCHANGED <<public, respCh, pending, sendS, writerS, open, down, up, clientVars>>

-----------------------------------------------------------------------------
(* The client, after it has signed the challenge. *)

\* runOnce takes whatever comes first for the answer to its registration.
AwaitRegistration ==
    /\ client = "awaiting" /\ down # <<>>
    /\ IF Head(down) = Registered
       THEN client' = "reading" /\ writerC' = Waiting /\ down' = Tail(down) /\ UNCHANGED <<open, up>>
       ELSE client' = "stopped" /\ UNCHANGED writerC /\ Close
    /\ UNCHANGED <<serverVars, blockedOn, handler, sendC>>

Handling == {r \in Requests : handler[r] # "none"}

\* The read loop: a request gets a slot and a handler; a busy response and a
\* pong go to the send channel, ...
ClientRead ==
    /\ client = "reading" /\ down # <<>>
    /\ down' = Tail(down)
    /\ LET msg == Head(down)
       IN IF msg # Ping /\ Cardinality(Handling) < ClientSlots
          THEN /\ handler' = [handler EXCEPT ![msg.stream] = "local"]
               /\ UNCHANGED <<client, blockedOn>>
          ELSE /\ blockedOn' = IF msg = Ping THEN Pong ELSE Response(msg.stream)
               /\ client' = "blocked"
               /\ UNCHANGED handler
    /\ UNCHANGED <<serverVars, open, up, sendC, writerC>>

\* ... or wait for done, which only this loop closes (sendBusyResponse).
SendBlocked ==
    /\ client = "blocked" /\ Len(sendC) < SendSize
    /\ sendC' = Append(sendC, blockedOn)
    /\ blockedOn' = NoMessage /\ client' = "reading"
    /\ UNCHANGED <<serverVars, open, down, up, handler, writerC>>

\* handleRequest: the local application, or the lack of it, answers.
AnswerLocally(r) ==
    /\ handler[r] = "local"
    /\ handler' = [handler EXCEPT ![r] = "answered"]
    /\ UNCHANGED <<serverVars, open, down, up, client, blockedOn, sendC, writerC>>

\* Seeded defect: a handler waits for room only.
SendResponseWithRoom(r) ==
    /\ handler[r] = "answered"
    /\ Len(sendC) < SendSize /\ sendC' = Append(sendC, Response(r))
    /\ handler' = [handler EXCEPT ![r] = "none"]
    /\ UNCHANGED <<serverVars, open, down, up, client, blockedOn, writerC>>
\* sendResponse.
SendResponse(r) ==
    /\ handler[r] = "answered"
    /\ \/ Len(sendC) < SendSize /\ sendC' = Append(sendC, Response(r))
       \/ client = "left" /\ UNCHANGED sendC
    /\ handler' = [handler EXCEPT ![r] = "none"]
    /\ UNCHANGED <<serverVars, open, down, up, client, blockedOn, writerC>>

\* writeLoop: a message leaves the channel before it is written, and the loop
\* ends when a write fails or the read loop has left.
ClientWrite ==
    /\ \/ /\ writerC = Waiting /\ sendC # <<>>
          /\ writerC' = Head(sendC) /\ sendC' = Tail(sendC)
          /\ UNCHANGED <<open, down, up>>
       \/ /\ writerC \in ToServer /\ open
          /\ up' = Append(up, writerC) /\ writerC' = Waiting
          /\ UNCHANGED <<sendC, open, down>>
       \/ /\ writerC \in ToServer /\ ~open
          /\ writerC' = Off
          /\ UNCHANGED <<sendC, open, down, up>>
       \/ /\ writerC = Waiting /\ client = "left"
          /\ writerC' = Off
          /\ UNCHANGED <<sendC, open, down, up>>
    /\ UNCHANGED <<serverVars, client, blockedOn, handler>>

\* The read fails: close(done), and requestWG.Wait for the handlers.
LeaveConnection ==
    /\ client \in {"awaiting", "reading"} /\ ~open
    /\ client' = "left"
    /\ UNCHANGED <<serverVars, open, down, up, blockedOn, handler, sendC, writerC>>
\* RunContext: a connection that was lost is dialled again.
Redial ==
    /\ client = "left" /\ Handling = {}
    /\ client' = "redialing"
    /\ UNCHANGED <<serverVars, open, down, up, blockedOn, handler, sendC, writerC>>

\* The network, or a write that takes longer than writeTimeout.
BreakConnection ==
    /\ open /\ Close
    /\ UNCHANGED <<serverVars, clientVars>>

-----------------------------------------------------------------------------
Init ==
    /\ public = [r \in Requests |-> "new"]
    /\ respCh = {} /\ pending = {}
    /\ server = "registering" /\ sendS = <<>> /\ writerS = FALSE
    /\ open = TRUE /\ down = <<>> /\ up = <<>>
    /\ client = "awaiting" /\ blockedOn = NoMessage
    /\ handler = [r \in Requests |-> "none"] /\ sendC = <<>> /\ writerC = Off

ServerStep == Remember \/ Greet \/ Dispatch \/ LoseConnection \/ FailPending \/ Unregister
ClientStep == AwaitRegistration \/ ClientRead \/ SendBlocked \/ LeaveConnection \/ Redial

Next ==
    \/ ServerStep \/ ServerWrite \/ ClientStep \/ ClientWrite
    \/ SendPing \/ BreakConnection
    \/ \E r \in Requests : \/ Admit(r) \/ Send(r) \/ Answer(r) \/ GiveUp(r)
                           \/ AnswerLocally(r) \/ SendResponse(r)

\* Each goroutine runs on, those that wait for room in a channel are served in
\* their order, and the local application answers or times out; no request is
\* admitted, given up or cut off because it must be.
Fairness ==
    /\ WF_vars(ServerStep) /\ WF_vars(ServerWrite)
    /\ WF_vars(ClientStep) /\ WF_vars(ClientWrite)
    /\ \A r \in Requests : /\ SF_vars(Send(r)) /\ WF_vars(Answer(r))
                           /\ WF_vars(AnswerLocally(r)) /\ SF_vars(SendResponse(r))

Spec == Init /\ [][Next]_vars /\ Fairness

-----------------------------------------------------------------------------
(* Properties. *)

\* A request that was admitted ends without its two-minute timeout, whatever
\* breaks and whenever: it is answered, refused by a busy client or told that
\* the tunnel is gone, also when it came between failPending and unregister-
\* Tunnel.  The exceptions are a tunnel whose name could not be stored, which
\* never closes done (server.go:498), and one that filled its queue and lost
\* its writer before its own confirmation was in it (server.go:527).
Ended(r) == \/ public[r] = "ended"
            \/ server = "abandoned"
            \/ server = "greeting" /\ Len(sendS) = SendSize
RequestsEnd == \A r \in Requests : r \in InProgress ~> Ended(r)

\* A client that has lost its connection leaves it and dials again, unless its
\* read loop waits for room in the send channel, which the writer no longer
\* empties (client.go:384, client.go:670).
Redialled == \/ client \in {"redialing", "stopped"}
             \/ client = "blocked" /\ Len(sendC) = SendSize /\ writerC = Off
LostIsRedialled == ~open ~> Redialled

\* The client stops for good only when the server refuses it (docs/server.md:
\* "It reconnects transient failures automatically").  The server has accepted
\* this registration, but a request can be queued before the confirmation.
NeverStopsForGood == client # "stopped"
=============================================================================
