-------------------------------- MODULE Enet --------------------------------
(***************************************************************************)
(* The ENet hosts between the Net64 clients and a Net64 server (external), *)
(* as src/net64/client.cpp and src/net64/server.cpp use them. Every        *)
(* message is sent reliable on one channel (src/net64/net/protocol.hpp,    *)
(* messages_client.hpp, messages_server.hpp: Channel::META), so what one   *)
(* end hears of the other is a prefix, in order, of what was sent. The     *)
(* whole network is one value, and what the program calls are operators    *)
(* from a network to the network they leave, so that a handler which sends *)
(* several messages is one step.                                           *)
(***************************************************************************)
EXTENDS Naturals, Sequences, FiniteSets

CONSTANTS
    Clients,          \* the programs that connect
    AllocatedPeers    \* Server::ALLOCATED_PEERS, peers of the server's host

ASSUME AllocatedPeersAssumption == AllocatedPeers \in Nat \ {0}

Peers == 1 .. AllocatedPeers
NoPeer == 0

(***************************************************************************)
(* state      the server's peers. A pending one has completed ENet's       *)
(*            handshake, but the server was not given its CONNECT event    *)
(* to_server  messages on their way to, or queued at, the server           *)
(* client     the client's own peer; "none" when Client::peer_ is null     *)
(* link       the server's peer a client's peer talks to                   *)
(* to_client  messages on their way to, or queued at, the client           *)
(***************************************************************************)
VARIABLE net

PeerStates == {"free", "pending", "connected", "disconnecting"}
ClientStates == {"none", "connecting", "connected", "disconnecting"}

\* Networks whose clients send messages of S and whose server sends those of C.
Nets(S, C) ==
    [ state     : [Peers -> PeerStates],
      to_server : [Peers -> Seq(S)],
      client    : [Clients -> ClientStates],
      link      : [Clients -> Peers \cup {NoPeer}],
      to_client : [Clients -> Seq(C)] ]

EmptyNet ==
    [ state     |-> [p \in Peers |-> "free"],
      to_server |-> [p \in Peers |-> << >>],
      client    |-> [c \in Clients |-> "none"],
      link      |-> [c \in Clients |-> NoPeer],
      to_client |-> [c \in Clients |-> << >>] ]

\* host->connectedPeers counts these.
Connected(n) == {p \in Peers : n.state[p] = "connected"}

\* The clients that hear what is sent to peer p.
Hearing(n, p) == {c \in Clients : n.link[c] = p /\ n.client[c] = "connected"}

-----------------------------------------------------------------------------
(* The server's side. *)

\* enet_peer_send, enet_host_broadcast: only connected peers are sent to.
Deliver(n, ps, m) ==
    LET hearers == UNION {Hearing(n, p) : p \in ps \cap Connected(n)}
    IN  [n EXCEPT !.to_client =
            [c \in Clients |-> IF c \in hearers THEN Append(@[c], m) ELSE @[c]]]

PeerSend(n, p, m) == Deliver(n, {p}, m)
Broadcast(n, m) == Deliver(n, Peers, m)

\* The next message of p is taken out by enet_host_service.
Received(n, p) == [n EXCEPT !.to_server[p] = Tail(@)]

\* enet_peer_disconnect on each of ps: nothing more is sent or received; the
\* peer is freed when the client acknowledges, or is given up on.
PeersDisconnect(n, ps) ==
    LET dropped == ps \cap Connected(n)
    IN  [n EXCEPT !.state = [p \in Peers |-> IF p \in dropped THEN "disconnecting" ELSE @[p]],
                  !.to_server = [p \in Peers |-> IF p \in dropped THEN << >> ELSE @[p]]]

\* enet_peer_reset: the peer is free for the next connection.
PeersFreed(n, ps) ==
    [n EXCEPT !.state = [p \in Peers |-> IF p \in ps THEN "free" ELSE @[p]],
              !.to_server = [p \in Peers |-> IF p \in ps THEN << >> ELSE @[p]],
              !.link = [c \in Clients |-> IF @[c] \in ps THEN NoPeer ELSE @[c]]]

-----------------------------------------------------------------------------
(* The client's side. *)

\* enet_host_connect.
ClientOpens(n, c) == [n EXCEPT !.client[c] = "connecting"]

\* enet_peer_send: the server takes it unless it already turned c away.
ClientSends(n, c, m) ==
    IF n.client[c] = "connected" /\ n.link[c] # NoPeer
       /\ n.state[n.link[c]] \in {"pending", "connected"}
    THEN [n EXCEPT !.to_server[n.link[c]] = Append(@, m)]
    ELSE n

\* enet_peer_disconnect: what c was sent and did not read yet is dropped.
ClientDisconnects(n, c) ==
    [n EXCEPT !.client[c] = "disconnecting", !.to_client[c] = << >>]

\* The client's peer is gone. The server is not told.
ClientCloses(n, c) ==
    [n EXCEPT !.client[c] = "none", !.link[c] = NoPeer, !.to_client[c] = << >>]

\* The server's host answered c: c's peer is connected, and the first free
\* peer of the server's host is waiting for its CONNECT event.
FreePeers(n) == {p \in Peers : n.state[p] = "free"}
IsFirstFree(n, p) == p \in FreePeers(n) /\ \A q \in FreePeers(n) : p <= q

ClientConnects(n, c, p) ==
    [n EXCEPT !.client[c] = "connected", !.link[c] = p, !.state[p] = "pending"]

-----------------------------------------------------------------------------
(* What the network does by itself. *)

\* A peer the server has not been told of times out without an event.
PendingVanishes(p) ==
    /\ net.state[p] = "pending"
    /\ net' = PeersFreed(net, {p})

\* The client's disconnect arrives: the server's peer no longer counts, and
\* its DISCONNECT event will follow.
DisconnectArrives(c) ==
    /\ net.client[c] = "disconnecting" /\ net.link[c] # NoPeer
    /\ net.state[net.link[c]] = "connected"
    /\ net' = PeersDisconnect(net, {net.link[c]})
=============================================================================
