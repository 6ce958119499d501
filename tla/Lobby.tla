------------------------------- MODULE Lobby -------------------------------
(***************************************************************************)
(* What a Net64 server promises of its players, whatever the network and   *)
(* the clients do: a player is in the lobby under one id and one name from *)
(* its handshake until it leaves, no two players share an id, nobody       *)
(* without a name gets in, and nobody at all once the server no longer     *)
(* accepts new clients (src/net64/server.hpp: accept_new).                 *)
(***************************************************************************)
EXTENDS Naturals

CONSTANTS MaxId, Names

VARIABLES
    open,      \* the server is up and accepts new clients
    members    \* player id -> name

vars == << open, members >>

Init == open = TRUE /\ members = << >>

Join(id, name) ==
    /\ open /\ id \notin DOMAIN members
    /\ members' = [i \in DOMAIN members \cup {id} |-> IF i = id THEN name ELSE members[i]]
    /\ UNCHANGED open

Leave(id) ==
    /\ id \in DOMAIN members
    /\ members' = [i \in DOMAIN members \ {id} |-> members[i]]
    /\ UNCHANGED open

Close == open' = FALSE /\ UNCHANGED members

ShutDown == open' = FALSE /\ members' = << >>

\* A new server starts empty.
OpenAgain == ~open /\ open' = TRUE /\ members = << >> /\ UNCHANGED members

Next ==
    \/ \E id \in 1 .. MaxId, name \in Names : Join(id, name)
    \/ \E id \in 1 .. MaxId : Leave(id)
    \/ Close
    \/ ShutDown
    \/ OpenAgain

SafeSpec == Init /\ [][Next]_vars
=============================================================================
