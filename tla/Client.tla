------------------------------- MODULE Client -------------------------------
(***************************************************************************)
(* The Net64 client's network half: src/net64/client.cpp and its           *)
(* components LocalPlayerManager, PlayerListManager and ChatClient. The    *)
(* client is hooked to its game here; ticks that do nothing because it is  *)
(* still hooking are ticks not taken. Client::peer_ is the client's entry  *)
(* in the network, null when that is "none".                               *)
(***************************************************************************)
EXTENDS Server

CONSTANTS
    Usernames,     \* the names the settings of each client may hold
    MaxAttempts,   \* bound: calls of connect() per client
    MaxChats       \* bound: chat messages per client

ASSUME UsernamesAssumption == Usernames \in [Clients -> SUBSET AnyName]
ASSUME BoundsAssumption ==
    MaxAttempts \in [Clients -> Nat] /\ MaxChats \in [Clients -> Nat]

VARIABLES
    username,         \* Client::username_
    local_id,         \* LocalPlayer::id
    remote_players,   \* Client::remote_players_: player id -> name
    calls,            \* callbacks of the current connect(), in order
    attempts,         \* connect() calls made, by any run of the program
    sessions,         \* connections this run of the program has had
    chats             \* chat messages sent, by any run of the program

client == << username, local_id, remote_players, calls, attempts, sessions, chats >>

ClientInit ==
    /\ username = [c \in Clients |-> NoName]
    /\ local_id = [c \in Clients |-> 0]
    /\ remote_players = [c \in Clients |-> << >>]
    /\ calls = [c \in Clients |-> << >>]
    /\ attempts = [c \in Clients |-> 0]
    /\ sessions = [c \in Clients |-> 0]
    /\ chats = [c \in Clients |-> 0]

Calls(c, what) == calls' = [calls EXCEPT ![c] = Append(@, what)]

\* [fault] The local player keeps its id.
LocalPlayerKept(c) ==
    /\ username' = [username EXCEPT ![c] = NoName]
    /\ UNCHANGED << local_id, remote_players >>
\* on_disconnect(): the username and the local player are cleared. The list
\* of remote players is not.
OnDisconnect(c) ==
    /\ username' = [username EXCEPT ![c] = NoName]
    /\ local_id' = [local_id EXCEPT ![c] = 0]
    /\ UNCHANGED remote_players

-----------------------------------------------------------------------------
(* connect(), disconnect() *)

CanConnect(c) == net.client[c] = "none" /\ attempts[c] < MaxAttempts[c]

Connect(c, name) ==
    /\ CanConnect(c)
    /\ net' = ClientOpens(net, c)
    /\ username' = [username EXCEPT ![c] = name]
    /\ calls' = [calls EXCEPT ![c] = << >>]
    /\ attempts' = [attempts EXCEPT ![c] = @ + 1]
    /\ UNCHANGED << local_id, remote_players, sessions, chats, server >>

\* No ENet host, no address or no ENet peer: only connect_callback_ is called.
ConnectFails(c, name) ==
    /\ CanConnect(c)
    /\ username' = [username EXCEPT ![c] = name]
    /\ calls' = [calls EXCEPT ![c] = << "failed" >>]
    /\ attempts' = [attempts EXCEPT ![c] = @ + 1]
    /\ UNCHANGED << net, local_id, remote_players, sessions, chats, server >>

\* disconnect() while connecting, called by the user or by tick() when
\* connect_timeout_ is over.
AbortConnect(c) ==
    /\ net.client[c] = "connecting"
    /\ net' = ClientCloses(net, c)
    /\ calls' = [calls EXCEPT ![c] = @ \o << "failed", "disconnected" >>]
    /\ UNCHANGED << username, local_id, remote_players, attempts, sessions, chats, server >>

\* disconnect() while connected.
Disconnect(c) ==
    /\ net.client[c] = "connected"
    /\ net' = ClientDisconnects(net, c)
    /\ UNCHANGED << client, server >>

-----------------------------------------------------------------------------
(* tick() *)

\* [fault] The callback is forgotten.
DisconnectUnnoticed(c) ==
    /\ net.client[c] = "disconnecting"
    /\ OnDisconnect(c)
    /\ net' = ClientCloses(net, c)
    /\ UNCHANGED << calls, attempts, sessions, chats, server >>

\* disconnect_timeout_ is over: the peer is reset without an answer.
DisconnectTimesOut(c) ==
    /\ net.client[c] = "disconnecting"
    /\ OnDisconnect(c)
    /\ net' = ClientCloses(net, c)
    /\ Calls(c, "disconnected")
    /\ UNCHANGED << attempts, sessions, chats, server >>

\* The CONNECT event; LocalPlayerManager::on_connect sends the handshake.
ConnectEvent(c, p) ==
    /\ net.client[c] = "connecting" /\ running /\ IsFirstFree(net, p)
    /\ net' = ClientSends(ClientConnects(net, c, p), c, C_Handshake(username[c]))
    /\ Calls(c, "connected")
    /\ sessions' = [sessions EXCEPT ![c] = @ + 1]
    /\ UNCHANGED << username, local_id, remote_players, attempts, chats, server >>

\* The DISCONNECT event: acknowledged, asked for by the server, or timed out.
DisconnectEvent(c) ==
    /\ net.client[c] \in {"connected", "disconnecting"}
    /\ Calls(c, "disconnected")
    /\ OnDisconnect(c)
    /\ net' = ClientCloses(net, c)
    /\ UNCHANGED << attempts, sessions, chats, server >>

\* std::unordered_map::insert: an entry that is already there stays.
Inserted(list, new) ==
    [i \in DOMAIN list \cup DOMAIN new |-> IF i \in DOMAIN list THEN list[i] ELSE new[i]]

\* PlayerListManager's handlers.
ListAfter(list, m) ==
    CASE m.type = "S_ClientConnected" -> Inserted(list, [i \in {m.id} |-> m.name])
      [] m.type = "S_ClientDisconnected" -> Restrict(list, DOMAIN list \ {m.player})
      [] m.type = "S_PlayerList" ->
            Inserted(list, [i \in {e.id : e \in m.players} |->
                               (CHOOSE e \in m.players : e.id = i).name])
      [] OTHER -> list

\* LocalPlayerManager's.
IdAfter(id, m) == IF m.type = "S_Handshake" THEN m.local_player_id ELSE id

\* The RECEIVE event: LocalPlayerManager and PlayerListManager. ChatClient
\* changes nothing, it displays.
Receive(c) ==
    /\ net.client[c] = "connected" /\ net.to_client[c] # << >>
    /\ LET m == Head(net.to_client[c])
       IN  /\ local_id' = [local_id EXCEPT ![c] = IdAfter(@, m)]
           /\ remote_players' = [remote_players EXCEPT ![c] = ListAfter(@, m)]
    /\ net' = [net EXCEPT !.to_client[c] = Tail(@)]
    /\ UNCHANGED << username, calls, attempts, sessions, chats, server >>

-----------------------------------------------------------------------------
\* ChatClient::send.
SendChat(c) ==
    /\ net.client[c] = "connected" /\ chats[c] < MaxChats[c]
    /\ net' = ClientSends(net, c, C_ChatMessage(username[c]))
    /\ chats' = [chats EXCEPT ![c] = @ + 1]
    /\ UNCHANGED << username, local_id, remote_players, calls, attempts, sessions, server >>

\* The program ends (~Client resets the peer, a crash leaves it to time out)
\* and is started again: a new Client.
ProgramRestarts(c) ==
    /\ attempts[c] > 0 /\ attempts[c] < MaxAttempts[c]
    /\ net' = ClientCloses(net, c)
    /\ username' = [username EXCEPT ![c] = NoName]
    /\ local_id' = [local_id EXCEPT ![c] = 0]
    /\ remote_players' = [remote_players EXCEPT ![c] = << >>]
    /\ calls' = [calls EXCEPT ![c] = << >>]
    /\ sessions' = [sessions EXCEPT ![c] = 0]
    /\ UNCHANGED << attempts, chats, server >>
=============================================================================
