------------------------------- MODULE Server -------------------------------
(***************************************************************************)
(* The Net64 server: src/net64/server.cpp and its components               *)
(* PlayerManager (server/player_manager.cpp), ChatServer                   *)
(* (server/chat_server.cpp) and Player (server/player.cpp). One action per *)
(* ENet event tick() handles, with everything the handlers do, and one per *)
(* call the GUI makes.                                                     *)
(***************************************************************************)
EXTENDS Enet, IdManager, Functions

CONSTANTS
    MaxPeers,     \* Server::max_peers_
    ProtoVer,     \* Net::PROTO_VER
    Versions,     \* what connecting programs pass as their protocol version
    OwnerStops,   \* bound: does the server's owner ever stop it
    Names,        \* usernames
    NoName        \* the empty string

ASSUME MaxPeersAssumption == MaxPeers \in Nat
\* ALLOCATED_PEERS is 32 and player_id_t a u16: ids cannot run out.
ASSUME EnoughIds == AllocatedPeers <= MaxId
ASSUME ServerAssumption ==
    NoName \notin Names /\ ProtoVer \in Versions /\ OwnerStops \in BOOLEAN

VARIABLES
    running,      \* there is a Server (MainWindow::server_ has a value)
    accept_new,   \* Server::accept_new_
    data,         \* ENetPeer::data of each peer: its peer id, or 0 (null)
    players,      \* Server::players_: peer id -> Player
    peer_ids,     \* Server::peer_ids_
    player_ids    \* PlayerManager::player_ids_

server == << running, accept_new, data, players, peer_ids, player_ids >>

AnyName == Names \cup {NoName}

NewPlayer(p) == [id |-> 0, name |-> NoName, peer |-> p]

C_Handshake(name) == [type |-> "C_Handshake", name |-> name]
\* A chat message carries no author; the model tells messages apart by it.
C_ChatMessage(author) == [type |-> "C_ChatMessage", author |-> author]
S_ChatMessage(id, author) == [type |-> "S_ChatMessage", sender |-> id, author |-> author]
S_Handshake(id) == [type |-> "S_Handshake", local_player_id |-> id]
S_PlayerList(list) == [type |-> "S_PlayerList", players |-> list]
S_ClientConnected(id, name) == [type |-> "S_ClientConnected", id |-> id, name |-> name]
S_ClientDisconnected(id) == [type |-> "S_ClientDisconnected", player |-> id]

ServerInit ==
    /\ running = TRUE /\ accept_new = TRUE
    /\ data = [p \in Peers |-> 0]
    /\ players = << >>
    /\ peer_ids = EmptyManager /\ player_ids = EmptyManager

-----------------------------------------------------------------------------
(* Definitions marked [fault] are wrong versions of the one that follows   *)
(* them; no action uses them, they are there to show which property rules  *)
(* them out.                                                               *)

(* tick(): the CONNECT event. ENet has already counted the new peer.       *)

Counted(p) == [net EXCEPT !.state[p] = "connected"]
Full(n) == Cardinality(Connected(n)) >= MaxPeers

\* [fault] accept_new_ is not looked at.
WelcomesAlways(p, version) == ~Full(Counted(p)) /\ version = ProtoVer
Welcomes(p, version) == accept_new /\ ~Full(Counted(p)) /\ version = ProtoVer

RefusePeer(p, version) ==
    /\ running /\ net.state[p] = "pending"
    /\ ~Welcomes(p, version)
    /\ net' = PeersDisconnect(Counted(p), {p})
    /\ UNCHANGED server

AdmitPeer(p, version) ==
    /\ running /\ net.state[p] = "pending"
    /\ Welcomes(p, version)
    /\ net' = Counted(p)
    /\ data' = [data EXCEPT ![p] = AcquiredId(peer_ids)]
    /\ players' = [k \in DOMAIN players \cup {AcquiredId(peer_ids)} |->
                      IF k = AcquiredId(peer_ids) THEN NewPlayer(p) ELSE players[k]]
    /\ peer_ids' = AfterAcquire(peer_ids)
    /\ UNCHANGED << running, accept_new, player_ids >>

-----------------------------------------------------------------------------
(* tick(): the DISCONNECT event: acknowledged, asked for by the client, or *)
(* timed out. ENet has already freed the peer.                             *)

\* A refused peer never had a player.
ForgetPeer(p) ==
    /\ running /\ net.state[p] \in {"connected", "disconnecting"}
    /\ data[p] = 0
    /\ net' = PeersFreed(net, {p})
    /\ UNCHANGED server

\* [fault] The other players are not told.
TellNobodyLeft(n, id) == n
\* PlayerManager::on_disconnect.
TellLeft(n, id) == IF id # 0 THEN Broadcast(n, S_ClientDisconnected(id)) ELSE n

\* [fault] The peer's pointer stays.
DataKept(p) == data
\* destroy_player: the id of an IdHandle goes back with the Player ...
PlayerIdReturned(id) == IF id # 0 THEN AfterReturn(player_ids, id) ELSE player_ids
\* ... the peer's id after it, and peer.data is cleared.
PeerIdReturned(k) == AfterReturn(peer_ids, k)
DataCleared(p) == [data EXCEPT ![p] = 0]

PlayerLeaves(p) ==
    /\ running /\ net.state[p] \in {"connected", "disconnecting"}
    /\ data[p] # 0
    /\ net' = TellLeft(PeersFreed(net, {p}), players[data[p]].id)
    /\ players' = Restrict(players, DOMAIN players \ {data[p]})
    /\ player_ids' = PlayerIdReturned(players[data[p]].id)
    /\ peer_ids' = PeerIdReturned(data[p])
    /\ data' = DataCleared(p)
    /\ UNCHANGED << running, accept_new >>

-----------------------------------------------------------------------------
(* tick(): the RECEIVE event. *)

Receives(p, type) ==
    /\ running /\ net.state[p] = "connected" /\ net.to_server[p] # << >>
    /\ Head(net.to_server[p]).type = type

\* The entries of S_PlayerList: every player, handshaked or not.
Listed(all) == {[id |-> all[k].id, name |-> all[k].name] : k \in DOMAIN all}

\* PlayerManager::on_message(C_Handshake).
InvalidHandshake(p) == players[data[p]].id # 0 \/ Head(net.to_server[p]).name = NoName

KickForHandshake(p) ==
    /\ Receives(p, "C_Handshake") /\ InvalidHandshake(p)
    /\ net' = PeersDisconnect(net, {p})
    /\ UNCHANGED server

Handshaked == {k \in DOMAIN players : players[k].id # 0}

\* [fault] Players are numbered by how many there are.
NextNumber == Cardinality(Handshaked) + 1
NewPlayerId == AcquiredId(player_ids)

\* [fault] The sender is not sent its id, or the others are not told.
AnswerWithoutId(n, p, player, list) ==
    Broadcast(PeerSend(n, p, S_PlayerList(list)), S_ClientConnected(player.id, player.name))
AnswerInPrivate(n, p, player, list) ==
    PeerSend(PeerSend(n, p, S_Handshake(player.id)), p, S_PlayerList(list))
Answer(n, p, player, list) ==
    Broadcast(PeerSend(PeerSend(n, p, S_Handshake(player.id)), p, S_PlayerList(list)),
              S_ClientConnected(player.id, player.name))

AcceptHandshake(p) ==
    /\ Receives(p, "C_Handshake") /\ ~InvalidHandshake(p)
    /\ players' = [players EXCEPT ![data[p]].id = NewPlayerId,
                                  ![data[p]].name = Head(net.to_server[p]).name]
    /\ player_ids' = AfterAcquire(player_ids)
    /\ net' = Answer(Received(net, p), p, players'[data[p]], Listed(players'))
    /\ UNCHANGED << running, accept_new, data, peer_ids >>

\* [fault] The id of the peer is taken for the id of the player.
SenderPeerId(p) == data[p]
SenderId(p) == players[data[p]].id

\* ChatServer::on_message(C_ChatMessage).
RelayChat(p) ==
    /\ Receives(p, "C_ChatMessage")
    /\ net' = IF players[data[p]].id # 0
              THEN Broadcast(Received(net, p),
                             S_ChatMessage(SenderId(p), Head(net.to_server[p]).author))
              ELSE Received(net, p)
    /\ UNCHANGED server

-----------------------------------------------------------------------------
(* MainWindow: the "stop server" button, destruction and creation. *)

\* [fault] Only the players that completed their handshake are disconnected.
HandshakedPeers == {players[k].peer : k \in Handshaked}
PlayerPeers == {players[k].peer : k \in DOMAIN players}

\* accept_new(false), disconnect_all(SERVER_SHUTDOWN).
StopServing ==
    /\ running /\ OwnerStops
    /\ accept_new' = FALSE
    /\ net' = PeersDisconnect(net, PlayerPeers)
    /\ UNCHANGED << running, data, players, peer_ids, player_ids >>

\* ~Server: reset_all() resets the peers without a word to the clients, then
\* the host goes. The clients find out by timing out.
ServerDestroyed ==
    /\ running /\ OwnerStops
    /\ running' = FALSE /\ accept_new' = FALSE
    /\ net' = PeersFreed(net, Peers)
    /\ data' = [p \in Peers |-> 0] /\ players' = << >>
    /\ peer_ids' = EmptyManager /\ player_ids' = EmptyManager

\* server_ = Server(port, max_players).
ServerCreated ==
    /\ ~running
    /\ running' = TRUE /\ accept_new' = TRUE
    /\ UNCHANGED << net, data, players, peer_ids, player_ids >>
=============================================================================
