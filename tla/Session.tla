------------------------------ MODULE Session ------------------------------
(***************************************************************************)
(* A Net64 session: the clients, the server and the network between them.  *)
(* Every client program connects, plays, leaves, crashes and comes back at *)
(* any time; the server's owner stops it, destroys it and starts it again. *)
(***************************************************************************)
EXTENDS Client, SequencesExt

vars == << net, server, client >>

Init == net = EmptyNet /\ ServerInit /\ ClientInit

TickServer(p) ==
    \/ \E v \in Versions : AdmitPeer(p, v)
    \/ \E v \in Versions : RefusePeer(p, v)
    \/ ForgetPeer(p)
    \/ PlayerLeaves(p)
    \/ KickForHandshake(p)
    \/ AcceptHandshake(p)
    \/ RelayChat(p)

UseServer == StopServing \/ ServerDestroyed \/ ServerCreated

TickClient(c) ==
    \/ AbortConnect(c)
    \/ \E p \in Peers : ConnectEvent(c, p)
    \/ DisconnectEvent(c)
    \/ DisconnectTimesOut(c)
    \/ Receive(c)

UseClient(c) ==
    \/ \E name \in Usernames[c] : Connect(c, name)
    \/ \E name \in Usernames[c] : ConnectFails(c, name)
    \/ Disconnect(c)
    \/ SendChat(c)
    \/ ProgramRestarts(c)

Network ==
    \/ \E p \in Peers : PendingVanishes(p)
    \/ \E c \in Clients : DisconnectArrives(c)

Next ==
    \/ (\E p \in Peers : TickServer(p)) /\ UNCHANGED client
    \/ UseServer /\ UNCHANGED client
    \/ \E c \in Clients : TickClient(c) \/ UseClient(c)
    \/ Network /\ UNCHANGED << server, client >>

SafeSpec == Init /\ [][Next]_vars

-----------------------------------------------------------------------------
(* Fairness. The GUI's timer calls both ticks for as long as the program   *)
(* runs, each of which handles every event there is, and the network       *)
(* delivers what was sent. Nobody has to connect, to leave or to chat, and *)
(* a connection that works need not break: an end hears of the other's     *)
(* disconnect or death, by a message or by ENet's timeout.                 *)

ServerAnswers(p) == \E v \in Versions : AdmitPeer(p, v) \/ RefusePeer(p, v)

ServerReads(p) == KickForHandshake(p) \/ AcceptHandshake(p) \/ RelayChat(p)

LostByServer(p) ==
    \/ net.state[p] = "disconnecting"
    \/ net.state[p] = "connected" /\ Hearing(net, p) = {}
ServerGivesUp(p) == LostByServer(p) /\ (ForgetPeer(p) \/ PlayerLeaves(p))

LostByClient(c) ==
    \/ net.client[c] = "disconnecting"
    \/ net.client[c] = "connected"
       /\ (net.link[c] # NoPeer => net.state[net.link[c]] = "disconnecting")
ClientGivesUp(c) == LostByClient(c) /\ DisconnectEvent(c)

Fairness ==
    /\ \A p \in Peers :
        /\ WF_vars(ServerAnswers(p) /\ UNCHANGED client)
        /\ WF_vars(ServerReads(p) /\ UNCHANGED client)
        /\ WF_vars(ServerGivesUp(p) /\ UNCHANGED client)
    /\ \A c \in Clients :
        /\ WF_vars(AbortConnect(c) \/ \E p \in Peers : ConnectEvent(c, p))
        /\ WF_vars(Receive(c))
        /\ WF_vars(ClientGivesUp(c))

Spec == SafeSpec /\ Fairness

-----------------------------------------------------------------------------
\* c and the server's peer it talks to are both connected.
Live(c) ==
    /\ net.client[c] = "connected" /\ net.link[c] # NoPeer
    /\ net.state[net.link[c]] = "connected"

PlayerOf(c) == players[data[net.link[c]]]

\* The server has accepted c's handshake.
Playing(c) == Live(c) /\ PlayerOf(c).id # 0

\* The players of the server under their ids.
Members ==
    [i \in {players[k].id : k \in Handshaked} |->
        players[CHOOSE k \in Handshaked : players[k].id = i].name]

\* What a message says of player i: its names, or that it is gone.
NamesIn(m, i) ==
    CASE m.type = "S_ClientConnected" -> IF m.id = i THEN {m.name} ELSE {}
      [] m.type = "S_PlayerList" -> {e.name : e \in {f \in m.players : f.id = i}}
      [] OTHER -> {}
TakesOff(m, i) == m.type = "S_ClientDisconnected" /\ m.player = i

\* The names player i has on a list and in the messages of a queue ahead of
\* place k, those after which it was taken off left out.
StaysOn(q, i, j, k) == \A l \in j + 1 .. k - 1 : ~TakesOff(q[l], i)
NamesAhead(list, q, i, k) ==
    (IF i \in DOMAIN list /\ StaysOn(q, i, 0, k) THEN {list[i]} ELSE {})
    \cup UNION {NamesIn(q[j], i) : j \in {l \in 1 .. k - 1 : StaysOn(q, i, l, k)}}

\* Those of all that c has on its list or has been sent.
NamesSoon(c, i) ==
    NamesAhead(remote_players[c], net.to_client[c], i, Len(net.to_client[c]) + 1)

\* The answers to its handshake that c has yet to read.
AnswersTo(c) == {m \in ToSet(net.to_client[c]) : m.type = "S_Handshake"}

LobbyView == INSTANCE Lobby WITH
    open    <- running /\ accept_new,
    members <- Members

-----------------------------------------------------------------------------
AnyId == 0 .. MaxId

ToServer ==
    [type : {"C_Handshake"}, name : AnyName] \cup [type : {"C_ChatMessage"}, author : AnyName]

ToClient ==
    [type : {"S_ChatMessage"}, sender : AnyId, author : AnyName]
    \cup [type : {"S_Handshake"}, local_player_id : AnyId]
    \cup [type : {"S_PlayerList"}, players : SUBSET [id : AnyId, name : AnyName]]
    \cup [type : {"S_ClientConnected"}, id : AnyId, name : AnyName]
    \cup [type : {"S_ClientDisconnected"}, player : AnyId]

IsList(list) == DOMAIN list \subseteq AnyId /\ \A i \in DOMAIN list : list[i] \in AnyName

ServerTypeOK ==
    /\ running \in BOOLEAN /\ accept_new \in BOOLEAN
    /\ data \in [Peers -> AnyId]
    /\ DOMAIN players \subseteq Ids
    /\ \A k \in DOMAIN players : players[k] \in [id : AnyId, name : AnyName, peer : Peers]
    /\ peer_ids \in Managers /\ player_ids \in Managers

ClientTypeOK ==
    /\ username \in [Clients -> AnyName] /\ local_id \in [Clients -> AnyId]
    /\ DOMAIN remote_players = Clients
    /\ \A c \in Clients : IsList(remote_players[c])
    /\ calls \in [Clients -> Seq({"connected", "failed", "disconnected"})]
    /\ attempts \in [Clients -> Nat] /\ sessions \in [Clients -> Nat]
    /\ chats \in [Clients -> Nat]
    /\ \A c \in Clients : attempts[c] <= MaxAttempts[c] /\ chats[c] <= MaxChats[c]

\* Every variable keeps its type.
TypeOK == net \in Nets(ToServer, ToClient) /\ ServerTypeOK /\ ClientTypeOK

\* player(peer), players_.at(peer.data), never throws and never answers with
\* another peer's player: ENetPeer::data, which ENet keeps across the
\* connections of a peer, and players_ are inverse to each other, and every
\* peer the server may be handed an event of other than its own refusal has a
\* player.
PeerDataMatchesPlayers ==
    /\ \A p \in Peers : data[p] # 0 => data[p] \in DOMAIN players /\ players[data[p]].peer = p
    /\ \A k \in DOMAIN players : data[players[k].peer] = k
    /\ \A p \in Peers : net.state[p] = "connected" => data[p] # 0
    /\ \A p \in Peers : data[p] # 0 => net.state[p] \in {"connected", "disconnecting"}

\* Both id managers account for exactly the ids in use, and no two players
\* have the same one, through every order of joining, leaving and kicking.
PlayerIdsUnique ==
    /\ Accounts(peer_ids, DOMAIN players)
    /\ Accounts(player_ids, {players[k].id : k \in Handshaked})
    /\ \A j, k \in Handshaked : players[j].id = players[k].id => j = k

\* A client in the first session of its run has on its list, or has been sent,
\* exactly the players the server has, each under its name: no join, leave or
\* list is missed or counted twice, wherever it falls between the client's own
\* CONNECT event and handshake, and what it has read it has kept. Id 0 is left
\* out: the server lists peers that have not completed their handshake under
\* it. Later sessions are: the client keeps the list of the one before.
RosterConverges ==
    \A c \in Clients :
        Playing(c) /\ sessions[c] = 1 =>
            \A i \in Ids : NamesSoon(c, i) = IF i \in DOMAIN Members THEN {Members[i]} ELSE {}

\* The id and the name a client and the server know the client by agree, in
\* every session, or will once the client has read what it was sent: no
\* S_Handshake of an earlier session or of another client reaches it, and no
\* id of an earlier session is left when the server gives it a new one.
IdentityAgrees ==
    \A c \in Clients :
        Live(c) => /\ \A m \in AnswersTo(c) : m.local_player_id = PlayerOf(c).id
                   /\ AnswersTo(c) = {} => local_id[c] = PlayerOf(c).id
                   /\ Playing(c) => PlayerOf(c).name = username[c]

\* In a client's first session a chat message is never displayed under the
\* name of anyone but its author, and it is dropped as of an unknown sender
\* only before the client's own handshake is answered.
ChatAttribution ==
    \A c \in Clients :
        /\ sessions[c] = 1 /\ net.client[c] = "connected" /\ net.to_client[c] # << >>
        /\ Head(net.to_client[c]).type = "S_ChatMessage"
        => LET m == Head(net.to_client[c])
           IN  IF m.sender \in DOMAIN remote_players[c]
               THEN remote_players[c][m.sender] = m.author
               ELSE local_id[c] = 0

\* Every connect() is answered once, by connect_callback_ with or without an
\* error, and disconnect_callback_ follows once, when the connection or the
\* attempt to connect is over; only a connect() that fails at once has none.
CallbackProtocol ==
    \A c \in Clients :
        CASE net.client[c] = "connecting" -> calls[c] = << >>
          [] net.client[c] \in {"connected", "disconnecting"} -> calls[c] = << "connected" >>
          [] net.client[c] = "none" ->
                calls[c] \in { << >>, << "failed" >>, << "failed", "disconnected" >>,
                               << "connected", "disconnected" >> }

\* The server keeps the lobby's promises.
ImplementsLobby == LobbyView!SafeSpec

\* A client that is connected is given its player id, or its connection ends:
\* it is never left connected without an answer to its handshake.
HandshakeAnswered ==
    \A c \in Clients :
        net.client[c] = "connected" ~> (local_id[c] # 0 \/ net.client[c] # "connected")

\* A player that is gone, however it went, disappears from the list of every
\* client in its first session, unless its id is played again.
Played(i) == \E c \in Clients : Playing(c) /\ PlayerOf(c).id = i
LeaversForgotten ==
    \A c \in Clients, i \in Ids :
        LET listed == net.client[c] = "connected" /\ sessions[c] = 1
                      /\ i \in DOMAIN remote_players[c]
        IN  listed /\ ~Played(i) ~> ~listed \/ Played(i)

\* The server refuses a client that speaks its protocol, while it accepts new
\* ones, only when the players it is set up for ("Max players" in the GUI) are
\* there. The code refuses the last one: ENet counts the peer that is asking.
ServerFullOnlyWhenFull ==
    [][ \A p \in Peers :
            RefusePeer(p, ProtoVer) /\ accept_new => Cardinality(Connected(net)) >= MaxPeers ]_vars

\* After "stop server" every player leaves, handshaked or not, and clients
\* that were still connecting do not take their place for good.
StopEmptiesServer == running /\ ~accept_new ~> players = << >>
=============================================================================
