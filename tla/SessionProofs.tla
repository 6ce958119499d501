--------------------------- MODULE SessionProofs ---------------------------
(***************************************************************************)
(* What Session.tla promises, for any set of clients, any number of peers, *)
(* players and names, and whatever the network loses. No fairness is used: *)
(* the theorems are about SafeSpec. First the network and the server, then *)
(* the lobby it implements, then what its clients are told: of themselves, *)
(* and of each other.                                                      *)
(*                                                                         *)
(* The server reads its players through two indices it keeps by hand, the  *)
(* pointer in ENetPeer::data and the id managers. The invariant ties the   *)
(* three together with the state ENet keeps of each peer. Most steps of    *)
(* the system change only that state: ServerUnmoved deals with all of them.*)
(***************************************************************************)
EXTENDS Session, IdManagerProofs, FiniteSetTheorems, SequenceTheorems, TLAPS

-----------------------------------------------------------------------------
(* The network's operators, for any sets of messages: each returns a       *)
(* network, and leaves alone what it is not about. What follows cites      *)
(* these lemmas and never looks inside a network.                          *)

\* The network the session begins with: nobody is connected.
LEMMA EmptyNetIsNet ==
    ASSUME NEW S, NEW C
    PROVE  /\ EmptyNet \in Nets(S, C)
           /\ EmptyNet.state = [p \in Peers |-> "free"]
  BY DEF EmptyNet, Nets, PeerStates, ClientStates, NoPeer

\* Sending to the clients changes no peer and takes nothing from the server.
LEMMA DeliverIsNet ==
    ASSUME NEW S, NEW C, NEW n \in Nets(S, C), NEW m \in C, NEW ps
    PROVE  /\ Deliver(n, ps, m) \in Nets(S, C)
           /\ Deliver(n, ps, m).state = n.state
           /\ Deliver(n, ps, m).to_server = n.to_server
<1> DEFINE hearers == UNION {Hearing(n, p) : p \in ps \cap Connected(n)}
           box == [c \in Clients |-> IF c \in hearers THEN Append(n.to_client[c], m)
                                                      ELSE n.to_client[c]]
<1>1. Deliver(n, ps, m) = [n EXCEPT !.to_client = box]
  BY DEF Deliver, Nets
<1>2. box \in [Clients -> Seq(C)]
  <2> HIDE DEF hearers
  <2>1. \A c \in Clients : n.to_client[c] \in Seq(C)
    BY DEF Nets
  <2> QED BY <2>1
<1> HIDE DEF box
<1> QED BY <1>1, <1>2 DEF Nets

\* A message that is read is taken out of its own queue only.
LEMMA ReceivedIsNet ==
    ASSUME NEW S, NEW C, NEW n \in Nets(S, C), NEW p \in Peers, n.to_server[p] # << >>
    PROVE  /\ Received(n, p) \in Nets(S, C)
           /\ Received(n, p).state = n.state
           /\ Head(n.to_server[p]) \in S
<1>1. n.to_server[p] \in Seq(S)
  BY DEF Nets
<1>2. Tail(n.to_server[p]) \in Seq(S) /\ Head(n.to_server[p]) \in S
  BY <1>1
<1>3. [n.to_server EXCEPT ![p] = Tail(n.to_server[p])] \in [Peers -> Seq(S)]
  BY <1>2 DEF Nets
<1>4. Received(n, p) = [n EXCEPT !.to_server = [n.to_server EXCEPT ![p] = Tail(n.to_server[p])]]
  BY DEF Received, Nets
<1> QED BY <1>2, <1>3, <1>4 DEF Nets

\* Disconnecting peers moves those that are connected on, and no other.
LEMMA PeersDisconnectIsNet ==
    ASSUME NEW S, NEW C, NEW n \in Nets(S, C), NEW ps
    PROVE  /\ PeersDisconnect(n, ps) \in Nets(S, C)
           /\ PeersDisconnect(n, ps).state =
                [p \in Peers |-> IF p \in ps /\ n.state[p] = "connected"
                                 THEN "disconnecting" ELSE n.state[p]]
<1> DEFINE dropped == ps \cap Connected(n)
           st == [p \in Peers |-> IF p \in dropped THEN "disconnecting" ELSE n.state[p]]
           ts == [p \in Peers |-> IF p \in dropped THEN << >> ELSE n.to_server[p]]
<1>1. PeersDisconnect(n, ps) = [n EXCEPT !.state = st, !.to_server = ts]
  BY DEF PeersDisconnect, Nets
<1>2. st \in [Peers -> PeerStates]
  BY DEF Nets, PeerStates
<1>3. ts \in [Peers -> Seq(S)]
  BY DEF Nets
<1>4. st = [p \in Peers |-> IF p \in ps /\ n.state[p] = "connected"
                            THEN "disconnecting" ELSE n.state[p]]
  BY DEF Connected
<1> HIDE DEF st, ts
<1> QED BY <1>1, <1>2, <1>3, <1>4 DEF Nets

\* Freed peers are free, the others are not touched.
LEMMA PeersFreedIsNet ==
    ASSUME NEW S, NEW C, NEW n \in Nets(S, C), NEW ps
    PROVE  /\ PeersFreed(n, ps) \in Nets(S, C)
           /\ PeersFreed(n, ps).state =
                [p \in Peers |-> IF p \in ps THEN "free" ELSE n.state[p]]
<1> DEFINE st == [p \in Peers |-> IF p \in ps THEN "free" ELSE n.state[p]]
           ts == [p \in Peers |-> IF p \in ps THEN << >> ELSE n.to_server[p]]
           lk == [c \in Clients |-> IF n.link[c] \in ps THEN NoPeer ELSE n.link[c]]
<1>1. PeersFreed(n, ps) = [n EXCEPT !.state = st, !.to_server = ts, !.link = lk]
  BY DEF PeersFreed, Nets
<1>2. st \in [Peers -> PeerStates]
  BY DEF Nets, PeerStates
<1>3. ts \in [Peers -> Seq(S)]
  BY DEF Nets
<1>4. lk \in [Clients -> Peers \cup {NoPeer}]
  BY DEF Nets
<1> HIDE DEF st, ts, lk
<1>5. st \in [Peers -> PeerStates] /\ PeersFreed(n, ps).state = st
  BY <1>1, <1>2 DEF Nets
<1>6. PeersFreed(n, ps) \in Nets(S, C)
  BY <1>1, <1>2, <1>3, <1>4 DEF Nets
<1> QED BY <1>5, <1>6 DEF st

-----------------------------------------------------------------------------
(* The client's side: whatever a client does to its own peer, the server's *)
(* peers are not touched, but for the one that connects.                   *)

\* enet_host_connect.
LEMMA ClientOpensIsNet ==
    ASSUME NEW S, NEW C, NEW n \in Nets(S, C), NEW c \in Clients
    PROVE  /\ ClientOpens(n, c) \in Nets(S, C)
           /\ ClientOpens(n, c).state = n.state
<1>1. [n.client EXCEPT ![c] = "connecting"] \in [Clients -> ClientStates]
  BY DEF Nets, ClientStates
<1>2. ClientOpens(n, c) = [n EXCEPT !.client = [n.client EXCEPT ![c] = "connecting"]]
  BY DEF ClientOpens, Nets
<1> QED BY <1>1, <1>2 DEF Nets

\* enet_peer_send: at most one queue of the server is longer.
LEMMA ClientSendsIsNet ==
    ASSUME NEW S, NEW C, NEW n \in Nets(S, C), NEW c \in Clients, NEW m \in S
    PROVE  /\ ClientSends(n, c, m) \in Nets(S, C)
           /\ ClientSends(n, c, m).state = n.state
<1> DEFINE p == n.link[c]
           ts == [n.to_server EXCEPT ![p] = Append(n.to_server[p], m)]
<1>1. CASE ClientSends(n, c, m) = n
  BY <1>1
<1>2. CASE ClientSends(n, c, m) # n
  <2>1. p \in Peers
    BY <1>2 DEF ClientSends, Nets
  <2>2. ts \in [Peers -> Seq(S)]
    <3>1. n.to_server \in [Peers -> Seq(S)] /\ Append(n.to_server[p], m) \in Seq(S)
      BY <2>1 DEF Nets
    <3> HIDE DEF p
    <3> QED BY <2>1, <3>1
  <2>3. ClientSends(n, c, m) = [n EXCEPT !.to_server = ts]
    BY <1>2, <2>1 DEF ClientSends, Nets
  <2> HIDE DEF ts
  <2> QED BY <2>2, <2>3 DEF Nets
<1> QED BY <1>1, <1>2

\* enet_peer_disconnect.
LEMMA ClientDisconnectsIsNet ==
    ASSUME NEW S, NEW C, NEW n \in Nets(S, C), NEW c \in Clients
    PROVE  /\ ClientDisconnects(n, c) \in Nets(S, C)
           /\ ClientDisconnects(n, c).state = n.state
<1>1. [n.client EXCEPT ![c] = "disconnecting"] \in [Clients -> ClientStates]
  BY DEF Nets, ClientStates
<1>2. [n.to_client EXCEPT ![c] = << >>] \in [Clients -> Seq(C)]
  BY DEF Nets
<1>3. ClientDisconnects(n, c) = [n EXCEPT !.client = [n.client EXCEPT ![c] = "disconnecting"],
                                          !.to_client = [n.to_client EXCEPT ![c] = << >>]]
  BY DEF ClientDisconnects, Nets
<1> QED BY <1>1, <1>2, <1>3 DEF Nets

\* The client's peer is gone.
LEMMA ClientClosesIsNet ==
    ASSUME NEW S, NEW C, NEW n \in Nets(S, C), NEW c \in Clients
    PROVE  /\ ClientCloses(n, c) \in Nets(S, C)
           /\ ClientCloses(n, c).state = n.state
<1>1. [n.client EXCEPT ![c] = "none"] \in [Clients -> ClientStates]
  BY DEF Nets, ClientStates
<1>2. [n.to_client EXCEPT ![c] = << >>] \in [Clients -> Seq(C)]
  BY DEF Nets
<1>3. [n.link EXCEPT ![c] = NoPeer] \in [Clients -> Peers \cup {NoPeer}]
  BY DEF Nets
<1>4. ClientCloses(n, c) = [n EXCEPT !.client = [n.client EXCEPT ![c] = "none"],
                                     !.link = [n.link EXCEPT ![c] = NoPeer],
                                     !.to_client = [n.to_client EXCEPT ![c] = << >>]]
  BY DEF ClientCloses, Nets
<1> QED BY <1>1, <1>2, <1>3, <1>4 DEF Nets

\* The handshake of the two hosts: one peer is pending, that was free.
LEMMA ClientConnectsIsNet ==
    ASSUME NEW S, NEW C, NEW n \in Nets(S, C), NEW c \in Clients, NEW p \in Peers
    PROVE  /\ ClientConnects(n, c, p) \in Nets(S, C)
           /\ ClientConnects(n, c, p).state = [n.state EXCEPT ![p] = "pending"]
<1>1. [n.client EXCEPT ![c] = "connected"] \in [Clients -> ClientStates]
  BY DEF Nets, ClientStates
<1>2. [n.link EXCEPT ![c] = p] \in [Clients -> Peers \cup {NoPeer}]
  BY DEF Nets
<1>3. [n.state EXCEPT ![p] = "pending"] \in [Peers -> PeerStates]
  BY DEF Nets, PeerStates
<1>4. ClientConnects(n, c, p) = [n EXCEPT !.client = [n.client EXCEPT ![c] = "connected"],
                                          !.link = [n.link EXCEPT ![c] = p],
                                          !.state = [n.state EXCEPT ![p] = "pending"]]
  BY DEF ClientConnects, Nets
<1> QED BY <1>1, <1>2, <1>3, <1>4 DEF Nets

-----------------------------------------------------------------------------
(* Who talks to whom. Each operator in the terms of the one client and the *)
(* one peer a proof about the clients looks at.                            *)

\* A peer that is free has nothing to read, a client reads only while it is
\* connected, and two clients never talk to the same peer.
WellLinked(n) ==
    /\ \A p \in Peers : n.state[p] = "free" => n.to_server[p] = << >>
    /\ \A c \in Clients :
        /\ n.client[c] # "connected" => n.to_client[c] = << >>
        /\ n.link[c] # NoPeer => /\ n.client[c] \in {"connected", "disconnecting"}
                                 /\ n.state[n.link[c]] # "free"
    /\ \A c, d \in Clients : n.link[c] # NoPeer /\ n.link[c] = n.link[d] => c = d

\* Nobody talks to anybody in the network the session begins with.
LEMMA EmptyNetLinks == WellLinked(EmptyNet)
  BY DEF WellLinked, EmptyNet

\* A message reaches the connected clients of the connected peers it is sent to.
LEMMA DeliverLinks ==
    ASSUME NEW S, NEW C, NEW n \in Nets(S, C), NEW m \in C, NEW ps, WellLinked(n)
    PROVE  LET r == Deliver(n, ps, m)
           IN  /\ r.client = n.client /\ r.link = n.link /\ WellLinked(r)
               /\ \A c \in Clients :
                    r.to_client[c] =
                      IF /\ n.link[c] \in ps /\ n.link[c] \in Peers
                         /\ n.client[c] = "connected" /\ n.state[n.link[c]] = "connected"
                      THEN Append(n.to_client[c], m) ELSE n.to_client[c]
<1> DEFINE r == Deliver(n, ps, m)
           hearers == UNION {Hearing(n, p) : p \in ps \cap Connected(n)}
           box == [c \in Clients |-> IF c \in hearers THEN Append(n.to_client[c], m)
                                                      ELSE n.to_client[c]]
<1>1. r = [n EXCEPT !.to_client = box]
  BY DEF Deliver, Nets
<1>2. r \in Nets(S, C) /\ r.state = n.state /\ r.to_server = n.to_server
  BY DeliverIsNet
<1> HIDE DEF r
<1>3. r.client = n.client /\ r.link = n.link /\ r.to_client = box
  <2> HIDE DEF box
  <2> QED BY <1>1 DEF Nets
<1>4. \A c \in Clients : c \in hearers <=> /\ n.link[c] \in ps /\ n.link[c] \in Peers
                                          /\ n.client[c] = "connected"
                                          /\ n.state[n.link[c]] = "connected"
  BY DEF Hearing, Connected
<1> HIDE DEF hearers
<1>5. \A c \in Clients : n.client[c] # "connected" => box[c] = n.to_client[c]
  BY <1>4
<1>6. \A c \in Clients : r.to_client[c] =
          IF /\ n.link[c] \in ps /\ n.link[c] \in Peers
             /\ n.client[c] = "connected" /\ n.state[n.link[c]] = "connected"
          THEN Append(n.to_client[c], m) ELSE n.to_client[c]
  BY <1>3, <1>4
<1>7. WellLinked(r)
  <2> HIDE DEF box
  <2> QED BY <1>2, <1>3, <1>5 DEF WellLinked
<1> QED BY <1>3, <1>6, <1>7 DEF r

\* Reading a message of a peer concerns its queue alone.
LEMMA ReceivedLinks ==
    ASSUME NEW S, NEW C, NEW n \in Nets(S, C), NEW p \in Peers, WellLinked(n),
           n.state[p] # "free"
    PROVE  LET r == Received(n, p)
           IN  /\ r.client = n.client /\ r.link = n.link /\ r.to_client = n.to_client
               /\ r.state = n.state
               /\ \A q \in Peers : r.to_server[q] =
                    IF q = p THEN Tail(n.to_server[p]) ELSE n.to_server[q]
               /\ WellLinked(r)
<1> DEFINE r == Received(n, p)
           ts == [n.to_server EXCEPT ![p] = Tail(n.to_server[p])]
<1>1. r = [n EXCEPT !.to_server = ts]
  BY DEF Received, Nets
<1> HIDE DEF r
<1>2. /\ r.client = n.client /\ r.link = n.link /\ r.to_client = n.to_client
      /\ r.state = n.state /\ r.to_server = ts
  <2> HIDE DEF ts
  <2> QED BY <1>1 DEF Nets
<1>3. \A q \in Peers : ts[q] = IF q = p THEN Tail(n.to_server[p]) ELSE n.to_server[q]
  BY DEF Nets
<1> HIDE DEF ts
<1> QED BY <1>2, <1>3 DEF WellLinked, r

\* A peer that is disconnected keeps its client, until one of them hears of it.
LEMMA PeersDisconnectLinks ==
    ASSUME NEW S, NEW C, NEW n \in Nets(S, C), NEW ps, WellLinked(n)
    PROVE  LET r == PeersDisconnect(n, ps)
           IN  /\ r.client = n.client /\ r.link = n.link /\ r.to_client = n.to_client
               /\ \A q \in Peers :
                    \/ r.state[q] = n.state[q] /\ r.to_server[q] = n.to_server[q]
                    \/ r.state[q] = "disconnecting" /\ r.to_server[q] = << >>
               /\ WellLinked(r)
<1> DEFINE r == PeersDisconnect(n, ps)
           dropped == ps \cap Connected(n)
           st == [p \in Peers |-> IF p \in dropped THEN "disconnecting" ELSE n.state[p]]
           ts == [p \in Peers |-> IF p \in dropped THEN << >> ELSE n.to_server[p]]
<1>1. r = [n EXCEPT !.state = st, !.to_server = ts]
  BY DEF PeersDisconnect, Nets
<1> HIDE DEF r
<1>2. /\ r.client = n.client /\ r.link = n.link /\ r.to_client = n.to_client
      /\ r.state = st /\ r.to_server = ts
  <2> HIDE DEF st, ts
  <2> QED BY <1>1 DEF Nets
<1>3. \A q \in Peers : \/ st[q] = n.state[q] /\ ts[q] = n.to_server[q]
                       \/ st[q] = "disconnecting" /\ ts[q] = << >>
  BY DEF dropped
<1>4. \A c \in Clients : n.link[c] # NoPeer => n.link[c] \in Peers
  BY DEF Nets
<1> HIDE DEF st, ts
<1> QED BY <1>2, <1>3, <1>4 DEF WellLinked, r

\* A freed peer is nobody's.
LEMMA PeersFreedLinks ==
    ASSUME NEW S, NEW C, NEW n \in Nets(S, C), NEW ps, WellLinked(n)
    PROVE  LET r == PeersFreed(n, ps)
           IN  /\ r.client = n.client /\ r.to_client = n.to_client
               /\ \A c \in Clients : r.link[c] = IF n.link[c] \in ps THEN NoPeer ELSE n.link[c]
               /\ \A q \in Peers \ ps :
                    r.state[q] = n.state[q] /\ r.to_server[q] = n.to_server[q]
               /\ WellLinked(r)
<1> DEFINE r == PeersFreed(n, ps)
           st == [p \in Peers |-> IF p \in ps THEN "free" ELSE n.state[p]]
           ts == [p \in Peers |-> IF p \in ps THEN << >> ELSE n.to_server[p]]
           lk == [c \in Clients |-> IF n.link[c] \in ps THEN NoPeer ELSE n.link[c]]
<1>1. r = [n EXCEPT !.state = st, !.to_server = ts, !.link = lk]
  BY DEF PeersFreed, Nets
<1> HIDE DEF r
<1>2. /\ r.client = n.client /\ r.to_client = n.to_client
      /\ r.state = st /\ r.to_server = ts /\ r.link = lk
  <2> HIDE DEF st, ts, lk
  <2> QED BY <1>1 DEF Nets
<1>3. /\ \A q \in Peers : /\ st[q] = IF q \in ps THEN "free" ELSE n.state[q]
                          /\ ts[q] = IF q \in ps THEN << >> ELSE n.to_server[q]
      /\ \A c \in Clients : lk[c] = IF n.link[c] \in ps THEN NoPeer ELSE n.link[c]
  OBVIOUS
<1>4. \A c \in Clients : n.link[c] # NoPeer => n.link[c] \in Peers
  BY DEF Nets
<1> HIDE DEF st, ts, lk
<1> QED BY <1>2, <1>3, <1>4 DEF WellLinked, r

\* A client that opens its connection talks to nobody yet.
LEMMA ClientOpensLinks ==
    ASSUME NEW S, NEW C, NEW n \in Nets(S, C), NEW c \in Clients, WellLinked(n),
           n.client[c] = "none"
    PROVE  LET r == ClientOpens(n, c)
           IN  /\ \A e \in Clients : r.client[e] = IF e = c THEN "connecting" ELSE n.client[e]
               /\ r.link = n.link /\ r.to_client = n.to_client
               /\ r.state = n.state /\ r.to_server = n.to_server
               /\ WellLinked(r)
<1> DEFINE r == ClientOpens(n, c)
<1>1. r = [n EXCEPT !.client = [n.client EXCEPT ![c] = "connecting"]]
  BY DEF ClientOpens, Nets
<1> HIDE DEF r
<1>2. /\ \A e \in Clients : r.client[e] = IF e = c THEN "connecting" ELSE n.client[e]
      /\ r.link = n.link /\ r.to_client = n.to_client
      /\ r.state = n.state /\ r.to_server = n.to_server
  BY <1>1 DEF Nets
<1> QED BY <1>2 DEF WellLinked, r

\* What a client sends is queued at its own peer, if anywhere.
LEMMA ClientSendsLinks ==
    ASSUME NEW S, NEW C, NEW n \in Nets(S, C), NEW c \in Clients, NEW m \in S, WellLinked(n)
    PROVE  LET r == ClientSends(n, c, m)
           IN  /\ r.client = n.client /\ r.link = n.link /\ r.to_client = n.to_client
               /\ r.state = n.state
               /\ \A q \in Peers :
                    \/ r.to_server[q] = n.to_server[q]
                    \/ q = n.link[c] /\ r.to_server[q] = Append(n.to_server[q], m)
               /\ WellLinked(r)
<1> DEFINE r == ClientSends(n, c, m)
           p == n.link[c]
           ts == [n.to_server EXCEPT ![p] = Append(n.to_server[p], m)]
<1>1. CASE r = n
  BY <1>1
<1>2. CASE r # n
  <2>1. p \in Peers /\ n.state[p] # "free" /\ r = [n EXCEPT !.to_server = ts]
    BY <1>2 DEF ClientSends, Nets
  <2> HIDE DEF r
  <2>2. /\ r.client = n.client /\ r.link = n.link /\ r.to_client = n.to_client
        /\ r.state = n.state /\ r.to_server = ts
    <3> HIDE DEF ts
    <3> QED BY <2>1 DEF Nets
  <2>3. \A q \in Peers : ts[q] = IF q = p THEN Append(n.to_server[p], m) ELSE n.to_server[q]
    BY DEF Nets
  <2> HIDE DEF ts
  <2>4. WellLinked(r)
    BY <2>1, <2>2, <2>3 DEF WellLinked
  <2> QED BY <2>2, <2>3, <2>4 DEF r
<1> QED BY <1>1, <1>2

\* A client that disconnects reads nothing more, and keeps its peer.
LEMMA ClientDisconnectsLinks ==
    ASSUME NEW S, NEW C, NEW n \in Nets(S, C), NEW c \in Clients, WellLinked(n)
    PROVE  LET r == ClientDisconnects(n, c)
           IN  /\ \A e \in Clients : r.client[e] = IF e = c THEN "disconnecting" ELSE n.client[e]
               /\ \A e \in Clients : r.to_client[e] = IF e = c THEN << >> ELSE n.to_client[e]
               /\ r.link = n.link /\ r.state = n.state /\ r.to_server = n.to_server
               /\ WellLinked(r)
<1> DEFINE r == ClientDisconnects(n, c)
           cl == [n.client EXCEPT ![c] = "disconnecting"]
           tc == [n.to_client EXCEPT ![c] = << >>]
<1>1. r = [n EXCEPT !.client = cl, !.to_client = tc]
  BY DEF ClientDisconnects, Nets
<1> HIDE DEF r
<1>2. /\ r.client = cl /\ r.to_client = tc
      /\ r.link = n.link /\ r.state = n.state /\ r.to_server = n.to_server
  <2> HIDE DEF cl, tc
  <2> QED BY <1>1 DEF Nets
<1>3. \A d \in Clients : /\ cl[d] = IF d = c THEN "disconnecting" ELSE n.client[d]
                         /\ tc[d] = IF d = c THEN << >> ELSE n.to_client[d]
  BY DEF Nets
<1>4. WellLinked(r)
  <2> HIDE DEF cl, tc
  <2> QED BY <1>2, <1>3 DEF WellLinked
<1> HIDE DEF cl, tc
<1> QED BY <1>2, <1>3, <1>4 DEF r

\* A client that closes is nobody's; its peer may not know yet.
LEMMA ClientClosesLinks ==
    ASSUME NEW S, NEW C, NEW n \in Nets(S, C), NEW c \in Clients, WellLinked(n)
    PROVE  LET r == ClientCloses(n, c)
           IN  /\ \A e \in Clients : r.client[e] = IF e = c THEN "none" ELSE n.client[e]
               /\ \A e \in Clients : r.to_client[e] = IF e = c THEN << >> ELSE n.to_client[e]
               /\ \A e \in Clients : r.link[e] = IF e = c THEN NoPeer ELSE n.link[e]
               /\ r.state = n.state /\ r.to_server = n.to_server
               /\ WellLinked(r)
<1> DEFINE r == ClientCloses(n, c)
           cl == [n.client EXCEPT ![c] = "none"]
           tc == [n.to_client EXCEPT ![c] = << >>]
           lk == [n.link EXCEPT ![c] = NoPeer]
<1>1. r = [n EXCEPT !.client = cl, !.link = lk, !.to_client = tc]
  BY DEF ClientCloses, Nets
<1> HIDE DEF r
<1>2. /\ r.client = cl /\ r.to_client = tc /\ r.link = lk
      /\ r.state = n.state /\ r.to_server = n.to_server
  <2> HIDE DEF cl, tc, lk
  <2> QED BY <1>1 DEF Nets
<1>3. \A d \in Clients : /\ cl[d] = IF d = c THEN "none" ELSE n.client[d]
                         /\ tc[d] = IF d = c THEN << >> ELSE n.to_client[d]
                         /\ lk[d] = IF d = c THEN NoPeer ELSE n.link[d]
  BY DEF Nets
<1>4. WellLinked(r)
  <2> HIDE DEF cl, tc, lk
  <2> QED BY <1>2, <1>3 DEF WellLinked
<1> HIDE DEF cl, tc, lk
<1> QED BY <1>2, <1>3, <1>4 DEF r

\* A client is connected to a peer that was nobody's.
LEMMA ClientConnectsLinks ==
    ASSUME NEW S, NEW C, NEW n \in Nets(S, C), NEW c \in Clients, NEW p \in Peers,
           WellLinked(n), n.state[p] = "free", n.client[c] = "connecting"
    PROVE  LET r == ClientConnects(n, c, p)
           IN  /\ \A e \in Clients : r.client[e] = IF e = c THEN "connected" ELSE n.client[e]
               /\ \A e \in Clients : r.link[e] = IF e = c THEN p ELSE n.link[e]
               /\ \A q \in Peers : r.state[q] = IF q = p THEN "pending" ELSE n.state[q]
               /\ r.to_client = n.to_client /\ r.to_server = n.to_server
               /\ WellLinked(r)
<1> DEFINE r == ClientConnects(n, c, p)
           cl == [n.client EXCEPT ![c] = "connected"]
           lk == [n.link EXCEPT ![c] = p]
           st == [n.state EXCEPT ![p] = "pending"]
<1>1. r = [n EXCEPT !.client = cl, !.link = lk, !.state = st]
  BY DEF ClientConnects, Nets
<1> HIDE DEF r
<1>2. /\ r.client = cl /\ r.link = lk /\ r.state = st
      /\ r.to_client = n.to_client /\ r.to_server = n.to_server
  <2> HIDE DEF cl, lk, st
  <2> QED BY <1>1 DEF Nets
<1>3. /\ \A d \in Clients : /\ cl[d] = IF d = c THEN "connected" ELSE n.client[d]
                            /\ lk[d] = IF d = c THEN p ELSE n.link[d]
      /\ \A q \in Peers : st[q] = IF q = p THEN "pending" ELSE n.state[q]
  BY DEF Nets
<1>4. \A d \in Clients : n.link[d] # NoPeer => n.link[d] \in Peers /\ n.link[d] # p
  BY DEF Nets, WellLinked
<1>5. p # NoPeer
  BY DEF Peers, NoPeer
<1>6. WellLinked(r)
  <2> HIDE DEF cl, lk, st
  <2> QED BY <1>2, <1>3, <1>4, <1>5 DEF WellLinked
<1> HIDE DEF cl, lk, st
<1> QED BY <1>2, <1>3, <1>6 DEF r

-----------------------------------------------------------------------------
(* The server.                                                             *)

NetOK == net \in Nets(ToServer, ToClient)

\* A server that no longer accepts clients has nobody left to hear from, and
\* a server that is gone has no players.
ClosedIsEmpty ==
    /\ ~accept_new => \A p \in Peers : net.state[p] # "connected"
    /\ ~running => ~accept_new /\ players = << >>

ServerInv ==
    /\ NetOK /\ ServerTypeOK
    /\ PeerDataMatchesPlayers
    /\ PlayerIdsUnique
    /\ ClosedIsEmpty

IInv == ServerInv /\ ClientTypeOK

PlayerIds == {players[k].id : k \in Handshaked}

-----------------------------------------------------------------------------
(* Ids never run out: every id in use belongs to a peer of its own, and at *)
(* least one peer of the ALLOCATED_PEERS is without one. AcquiredId is not *)
(* defined for a manager that has none left; acquire_id() would throw.     *)

\* How many peers and ids there are.
LEMMA PeersFinite ==
    /\ IsFiniteSet(Peers) /\ Cardinality(Peers) = AllocatedPeers
    /\ IsFiniteSet(Ids) /\ Cardinality(Ids) = MaxId
<1>1. AllocatedPeers \in Int /\ 1 \in Int /\ MaxId \in Int /\ AllocatedPeers >= 1 /\ MaxId >= 1
  BY AllocatedPeersAssumption, MaxIdAssumption
<1>2. IsFiniteSet(Peers) /\ Cardinality(Peers) = AllocatedPeers
  BY <1>1, FS_Interval DEF Peers
<1>3. IsFiniteSet(Ids) /\ Cardinality(Ids) = MaxId
  BY <1>1, FS_Interval DEF Ids
<1> QED BY <1>2, <1>3

\* There is no injection of the ids into all peers but one.
LEMMA IdsOutnumberPeers ==
    ASSUME NEW p \in Peers, NEW f \in [Ids -> Peers \ {p}]
    PROVE  \E i, j \in Ids : i # j /\ f[i] = f[j]
<1>1. IsFiniteSet(Peers \ {p}) /\ Cardinality(Peers \ {p}) = AllocatedPeers - 1
  BY PeersFinite, FS_RemoveElement
<1>2. Cardinality(Peers \ {p}) < Cardinality(Ids)
  BY <1>1, PeersFinite, EnoughIds, AllocatedPeersAssumption, MaxIdAssumption
<1> QED BY <1>1, <1>2, PeersFinite, FS_PigeonHole

\* acquire_id() does not throw for a new player: its peer is without an id.
LEMMA PeerIdsLeft ==
    ASSUME ServerInv, NEW p \in Peers, data[p] = 0
    PROVE  ~NoIdsLeft(peer_ids)
<1> SUFFICES ASSUME NoIdsLeft(peer_ids) PROVE FALSE
  OBVIOUS
<1> DEFINE f == [k \in Ids |-> players[k].peer]
<1>1. DOMAIN players = Ids
  <2>1. FreeIds(peer_ids) = {}
    BY DEF NoIdsLeft, FreeIds
  <2> QED BY <2>1 DEF ServerInv, PlayerIdsUnique, Accounts, NoIdsLeft, Ids
<1>2. \A k \in Ids : players[k].peer \in Peers \ {p} /\ data[players[k].peer] = k
  BY <1>1 DEF ServerInv, ServerTypeOK, PeerDataMatchesPlayers, Ids
<1>3. f \in [Ids -> Peers \ {p}]
  BY <1>2
<1>4. PICK i, j \in Ids : i # j /\ f[i] = f[j]
  <2> HIDE DEF f
  <2> QED BY <1>3, IdsOutnumberPeers
<1> QED BY <1>2, <1>4

\* Nor does it for a handshake: the peer that sent it has no player id yet.
LEMMA PlayerIdsLeft ==
    ASSUME ServerInv, NEW k0 \in DOMAIN players, players[k0].id = 0
    PROVE  ~NoIdsLeft(player_ids)
<1> SUFFICES ASSUME NoIdsLeft(player_ids) PROVE FALSE
  OBVIOUS
<1> DEFINE holder(i) == CHOOSE k \in Handshaked : players[k].id = i
           f == [i \in Ids |-> players[holder(i)].peer]
           p == players[k0].peer
<1>1. PlayerIds = Ids
  <2>1. FreeIds(player_ids) = {}
    BY DEF NoIdsLeft, FreeIds
  <2> QED BY <2>1 DEF ServerInv, PlayerIdsUnique, Accounts, NoIdsLeft, Ids, PlayerIds
<1>2. \A i \in Ids : holder(i) \in Handshaked /\ players[holder(i)].id = i
  BY <1>1 DEF PlayerIds
<1>3. \A k \in DOMAIN players : players[k].peer \in Peers /\ data[players[k].peer] = k
  BY DEF ServerInv, ServerTypeOK, PeerDataMatchesPlayers
<1>4. k0 \notin Handshaked /\ Handshaked \subseteq DOMAIN players
  BY DEF Handshaked
<1> HIDE DEF holder
<1>5. p \in Peers /\ f \in [Ids -> Peers \ {p}]
  BY <1>2, <1>3, <1>4
<1>6. PICK i, j \in Ids : i # j /\ f[i] = f[j]
  <2> HIDE DEF f, p
  <2> QED BY <1>5, IdsOutnumberPeers
<1>7. holder(i) = holder(j)
  BY <1>2, <1>3, <1>4, <1>6
<1> QED BY <1>2, <1>6, <1>7

-----------------------------------------------------------------------------
(* Steps that leave the server as it is.                                   *)

\* The messages the program sends are messages.
LEMMA MessagesTyped ==
    /\ \A name \in AnyName : C_Handshake(name) \in ToServer /\ C_ChatMessage(name) \in ToServer
    /\ \A id \in AnyId, name \in AnyName :
        /\ S_ChatMessage(id, name) \in ToClient
        /\ S_ClientConnected(id, name) \in ToClient
    /\ \A id \in AnyId : S_Handshake(id) \in ToClient /\ S_ClientDisconnected(id) \in ToClient
    /\ \A list \in SUBSET [id : AnyId, name : AnyName] : S_PlayerList(list) \in ToClient
  BY DEF ToServer, ToClient, C_Handshake, C_ChatMessage, S_ChatMessage, S_ClientConnected,
         S_Handshake, S_ClientDisconnected, S_PlayerList

\* Peers may come and go in ENet as they like, as long as none becomes
\* connected and none that has a player is freed.
LEMMA ServerUnmoved ==
    ASSUME ServerInv, UNCHANGED server, NetOK',
           \A p \in Peers : net'.state[p] = "connected" => net.state[p] = "connected",
           \A p \in Peers : data[p] # 0 => net'.state[p] \in {"connected", "disconnecting"}
    PROVE  ServerInv'
<1>1. ServerTypeOK' /\ PlayerIdsUnique'
  BY DEF ServerInv, ServerTypeOK, PlayerIdsUnique, Handshaked, server
<1>2. PeerDataMatchesPlayers'
  BY DEF ServerInv, PeerDataMatchesPlayers, server
<1>3. ClosedIsEmpty'
  BY DEF ServerInv, ClosedIsEmpty, server
<1> QED BY <1>1, <1>2, <1>3 DEF ServerInv

\* A step of a client, or of the network, that changes no peer of the server.
LEMMA PeersUnmoved ==
    ASSUME ServerInv, UNCHANGED server, NetOK', net'.state = net.state
    PROVE  ServerInv'
  BY ServerUnmoved DEF ServerInv, PeerDataMatchesPlayers

\* ENet counts the peer before the server sees its CONNECT event.
LEMMA CountedIsNet ==
    ASSUME NetOK, NEW p \in Peers
    PROVE  /\ Counted(p) \in Nets(ToServer, ToClient)
           /\ Counted(p).state = [net.state EXCEPT ![p] = "connected"]
<1>1. [net.state EXCEPT ![p] = "connected"] \in [Peers -> PeerStates]
  BY DEF NetOK, Nets, PeerStates
<1>2. Counted(p) = [net EXCEPT !.state = [net.state EXCEPT ![p] = "connected"]]
  BY DEF Counted, NetOK, Nets
<1> QED BY <1>1, <1>2 DEF NetOK, Nets

\* A refused peer is on its way out before it has a player.
LEMMA RefusePeerKeeps ==
    ASSUME ServerInv, NEW p \in Peers, NEW v \in Versions, RefusePeer(p, v)
    PROVE  ServerInv'
<1>1. net.state \in [Peers -> PeerStates] /\ NetOK
  BY DEF ServerInv, NetOK, Nets
<1>2. net' = PeersDisconnect(Counted(p), {p}) /\ Counted(p) \in Nets(ToServer, ToClient)
  BY <1>1, CountedIsNet DEF RefusePeer
<1>3. /\ NetOK'
      /\ net'.state = [q \in Peers |-> IF q \in {p} /\ Counted(p).state[q] = "connected"
                                       THEN "disconnecting" ELSE Counted(p).state[q]]
  BY <1>2, PeersDisconnectIsNet DEF NetOK
<1>4. \A q \in Peers : net'.state[q] = IF q = p THEN "disconnecting" ELSE net.state[q]
  BY <1>1, <1>3, CountedIsNet
<1> QED BY <1>3, <1>4, ServerUnmoved DEF RefusePeer, ServerInv, PeerDataMatchesPlayers

\* Its DISCONNECT event frees it.
LEMMA ForgetPeerKeeps ==
    ASSUME ServerInv, NEW p \in Peers, ForgetPeer(p)
    PROVE  ServerInv'
<1>1. NetOK' /\ net'.state = [q \in Peers |-> IF q \in {p} THEN "free" ELSE net.state[q]]
  BY PeersFreedIsNet DEF ForgetPeer, ServerInv, NetOK
<1> QED BY <1>1, ServerUnmoved DEF ForgetPeer, ServerInv, PeerDataMatchesPlayers

\* A peer that is kicked keeps its player until its DISCONNECT event.
LEMMA KickKeeps ==
    ASSUME ServerInv, NEW p \in Peers, KickForHandshake(p)
    PROVE  ServerInv'
<1>1. /\ NetOK'
      /\ net'.state = [q \in Peers |-> IF q \in {p} /\ net.state[q] = "connected"
                                       THEN "disconnecting" ELSE net.state[q]]
  BY PeersDisconnectIsNet DEF KickForHandshake, ServerInv, NetOK
<1>2. \A q \in Peers : \/ net'.state[q] = net.state[q]
                       \/ net.state[q] = "connected" /\ net'.state[q] = "disconnecting"
  BY <1>1
<1>3. UNCHANGED server
  BY DEF KickForHandshake
<1> QED BY <1>1, <1>2, <1>3, ServerUnmoved DEF ServerInv, PeerDataMatchesPlayers

\* The peer a message is read from has a player.
LEMMA ReceivesHasPlayer ==
    ASSUME ServerInv, NEW p \in Peers, NEW type, Receives(p, type)
    PROVE  /\ data[p] \in DOMAIN players /\ players[data[p]].peer = p
           /\ players[data[p]] \in [id : AnyId, name : AnyName, peer : Peers]
           /\ Received(net, p) \in Nets(ToServer, ToClient)
           /\ Received(net, p).state = net.state
           /\ Head(net.to_server[p]) \in ToServer
           /\ accept_new
  BY ReceivedIsNet DEF Receives, ServerInv, NetOK, PeerDataMatchesPlayers, ServerTypeOK,
                       ClosedIsEmpty

\* A chat message changes no peer and no player.
LEMMA RelayChatKeeps ==
    ASSUME ServerInv, NEW p \in Peers, RelayChat(p)
    PROVE  ServerInv'
<1> DEFINE m == Head(net.to_server[p])
           reply == S_ChatMessage(SenderId(p), m.author)
<1>1. Receives(p, "C_ChatMessage")
  BY DEF RelayChat
<1>2. m \in ToServer /\ m.type = "C_ChatMessage"
  BY <1>1, ReceivesHasPlayer DEF Receives
<1>3. m.author \in AnyName
  BY <1>2 DEF ToServer
<1>4. SenderId(p) \in AnyId
  BY <1>1, ReceivesHasPlayer DEF SenderId
<1>5. reply \in ToClient
  BY <1>3, <1>4, MessagesTyped
<1>6. net' = Received(net, p) \/ net' = Deliver(Received(net, p), Peers, reply)
  BY DEF RelayChat, Broadcast
<1> HIDE DEF reply, m
<1>7. NetOK' /\ net'.state = net.state
  BY <1>1, <1>5, <1>6, ReceivesHasPlayer, DeliverIsNet DEF NetOK
<1> QED BY <1>7, PeersUnmoved DEF RelayChat

-----------------------------------------------------------------------------
(* Steps that change the server's players.                                 *)

\* The new player's peer id is nobody's, and it has no player id yet.
LEMMA AdmitPeerStep ==
    ASSUME ServerInv, NEW p \in Peers, NEW v \in Versions, AdmitPeer(p, v)
    PROVE  LET k == AcquiredId(peer_ids)
           IN  /\ data[p] = 0 /\ k \in Ids \ DOMAIN players
               /\ peer_ids' \in Managers /\ Accounts(peer_ids', DOMAIN players \cup {k})
               /\ data' = [data EXCEPT ![p] = k]
               /\ DOMAIN players' = DOMAIN players \cup {k}
               /\ players'[k] = [id |-> 0, name |-> NoName, peer |-> p]
               /\ \A j \in DOMAIN players : players'[j] = players[j]
               /\ Handshaked' = Handshaked
               /\ accept_new /\ UNCHANGED << running, accept_new, player_ids >>
<1> DEFINE k == AcquiredId(peer_ids)
<1>1. data[p] = 0
  BY DEF AdmitPeer, ServerInv, PeerDataMatchesPlayers
<1>2. /\ k \in Ids \ DOMAIN players
      /\ peer_ids' \in Managers
      /\ Accounts(peer_ids', DOMAIN players \cup {k})
  <2>1. /\ DOMAIN players \in SUBSET Ids /\ peer_ids \in Managers
        /\ Accounts(peer_ids, DOMAIN players)
    BY DEF ServerInv, ServerTypeOK, PlayerIdsUnique
  <2> QED BY <1>1, <2>1, PeerIdsLeft, AcquireKeepsAccounts DEF AdmitPeer
<1>3. /\ data' = [data EXCEPT ![p] = k]
      /\ players' = [j \in DOMAIN players \cup {k} |-> IF j = k THEN NewPlayer(p) ELSE players[j]]
      /\ UNCHANGED << running, accept_new, player_ids >>
  BY DEF AdmitPeer
<1>4. accept_new
  BY DEF AdmitPeer, Welcomes
<1> HIDE DEF k
<1>5. /\ DOMAIN players' = DOMAIN players \cup {k}
      /\ players'[k] = [id |-> 0, name |-> NoName, peer |-> p]
      /\ \A j \in DOMAIN players : players'[j] = players[j]
  BY <1>2, <1>3 DEF NewPlayer
<1>6. Handshaked' = Handshaked
  BY <1>2, <1>5 DEF Handshaked
<1> QED BY <1>1, <1>2, <1>3, <1>4, <1>5, <1>6 DEF k

\* A new player gets a peer id that is free, and its peer the pointer to it.
LEMMA AdmitPeerKeeps ==
    ASSUME ServerInv, NEW p \in Peers, NEW v \in Versions, AdmitPeer(p, v)
    PROVE  ServerInv'
<1> DEFINE k == AcquiredId(peer_ids)
<1>1. /\ data[p] = 0 /\ k \in Ids \ DOMAIN players
      /\ peer_ids' \in Managers /\ Accounts(peer_ids', DOMAIN players \cup {k})
      /\ data' = [data EXCEPT ![p] = k]
      /\ DOMAIN players' = DOMAIN players \cup {k}
      /\ players'[k] = [id |-> 0, name |-> NoName, peer |-> p]
      /\ \A j \in DOMAIN players : players'[j] = players[j]
      /\ Handshaked' = Handshaked
      /\ accept_new /\ UNCHANGED << running, accept_new, player_ids >>
  BY AdmitPeerStep
<1> HIDE DEF k
<1>2. NetOK' /\ net'.state = [net.state EXCEPT ![p] = "connected"]
  BY CountedIsNet DEF AdmitPeer, ServerInv, NetOK
<1>3. ServerTypeOK'
  BY <1>1, MaxIdAssumption DEF ServerInv, ServerTypeOK, AnyId, Ids, AnyName
<1>4. PeerDataMatchesPlayers'
  <2>1. \A q \in Peers : data'[q] = IF q = p THEN k ELSE data[q]
    BY <1>1 DEF ServerInv, ServerTypeOK
  <2>2. \A q \in Peers : net'.state[q] = IF q = p THEN "connected" ELSE net.state[q]
    BY <1>2 DEF ServerInv, NetOK, Nets
  <2>3. k # 0
    BY <1>1 DEF Ids
  <2>4. \A j \in DOMAIN players : players[j].peer \in Peers /\ players[j].peer # p
    BY <1>1 DEF ServerInv, ServerTypeOK, PeerDataMatchesPlayers, Ids
  <2>5. \A q \in Peers : data'[q] # 0 => data'[q] \in DOMAIN players' /\ players'[data'[q]].peer = q
    BY <1>1, <2>1 DEF ServerInv, PeerDataMatchesPlayers
  <2>6. \A j \in DOMAIN players' : data'[players'[j].peer] = j
    BY <1>1, <2>1, <2>4 DEF ServerInv, PeerDataMatchesPlayers
  <2>7. \A q \in Peers : /\ net'.state[q] = "connected" => data'[q] # 0
                         /\ data'[q] # 0 => net'.state[q] \in {"connected", "disconnecting"}
    BY <2>1, <2>2, <2>3 DEF ServerInv, PeerDataMatchesPlayers
  <2> QED BY <2>5, <2>6, <2>7 DEF PeerDataMatchesPlayers
<1>5. PlayerIdsUnique'
  <2>1. \A j \in Handshaked : players'[j] = players[j]
    BY <1>1 DEF Handshaked
  <2>2. {players'[j].id : j \in Handshaked} = {players[j].id : j \in Handshaked}
    BY <2>1
  <2>3. Accounts(player_ids', {players'[j].id : j \in Handshaked'})
    BY <1>1, <2>2 DEF ServerInv, PlayerIdsUnique
  <2>4. Accounts(peer_ids', DOMAIN players')
    BY <1>1
  <2> QED BY <1>1, <2>1, <2>3, <2>4 DEF ServerInv, PlayerIdsUnique
<1>6. ClosedIsEmpty'
  BY <1>1 DEF AdmitPeer, ClosedIsEmpty
<1> QED BY <1>2, <1>3, <1>4, <1>5, <1>6 DEF ServerInv

\* Telling the others that a player left changes no peer.
LEMMA TellLeftIsNet ==
    ASSUME NEW n \in Nets(ToServer, ToClient), NEW id \in AnyId
    PROVE  TellLeft(n, id) \in Nets(ToServer, ToClient) /\ TellLeft(n, id).state = n.state
<1>1. S_ClientDisconnected(id) \in ToClient
  BY MessagesTyped
<1>2. TellLeft(n, id) = n \/ TellLeft(n, id) = Deliver(n, Peers, S_ClientDisconnected(id))
  BY DEF TellLeft, Broadcast
<1> QED BY <1>1, <1>2, DeliverIsNet

\* The player of a peer that is gone takes its two ids with it, and only these.
LEMMA PlayerLeavesStep ==
    ASSUME ServerInv, NEW p \in Peers, PlayerLeaves(p)
    PROVE  LET k == data[p]
               id == players[k].id
           IN  /\ k \in DOMAIN players /\ k # 0 /\ players[k].peer = p /\ id \in AnyId
               /\ data' = [data EXCEPT ![p] = 0]
               /\ net' = TellLeft(PeersFreed(net, {p}), id)
               /\ peer_ids' = AfterReturn(peer_ids, k)
               /\ player_ids' = PlayerIdReturned(id)
               /\ UNCHANGED << running, accept_new >>
               /\ DOMAIN players' = DOMAIN players \ {k}
               /\ \A j \in DOMAIN players \ {k} : players'[j] = players[j]
               /\ Handshaked' = Handshaked \ {k} /\ Handshaked \subseteq DOMAIN players
               /\ PlayerIds' = PlayerIds \ {id} /\ PlayerIds \in SUBSET Ids
<1> DEFINE k == data[p]
           id == players[k].id
<1>1. k \in DOMAIN players /\ k # 0 /\ players[k].peer = p /\ id \in AnyId
  BY DEF PlayerLeaves, ServerInv, ServerTypeOK, PeerDataMatchesPlayers
<1>2. /\ data' = [data EXCEPT ![p] = 0]
      /\ players' = [j \in DOMAIN players \ {k} |-> players[j]]
      /\ net' = TellLeft(PeersFreed(net, {p}), id)
      /\ peer_ids' = AfterReturn(peer_ids, k)
      /\ player_ids' = PlayerIdReturned(id)
      /\ UNCHANGED << running, accept_new >>
  BY DEF PlayerLeaves, DataCleared, Restrict, PeerIdReturned
<1> HIDE DEF k
<1>3. /\ DOMAIN players' = DOMAIN players \ {k}
      /\ \A j \in DOMAIN players \ {k} : players'[j] = players[j]
  BY <1>2
<1>4. Handshaked' = Handshaked \ {k} /\ Handshaked \subseteq DOMAIN players
  BY <1>3 DEF Handshaked
<1>5. PlayerIds \in SUBSET Ids
  <2>1. \A j \in Handshaked : players[j].id \in Ids
    BY <1>4, MaxIdAssumption DEF ServerInv, ServerTypeOK, Handshaked, AnyId, Ids
  <2> QED BY <2>1 DEF PlayerIds
<1>6. PlayerIds' = PlayerIds \ {id}
  <2>1. \A j \in Handshaked : players[j].id = id => j = k
    BY <1>1 DEF ServerInv, PlayerIdsUnique, Handshaked
  <2> HIDE DEF id
  <2>2. \A i \in PlayerIds' : i \in PlayerIds /\ i # id
    BY <1>3, <1>4, <2>1 DEF PlayerIds
  <2>3. \A i \in PlayerIds : i # id => i \in PlayerIds'
    <3> SUFFICES ASSUME NEW j \in Handshaked, players[j].id # id
                 PROVE  players[j].id \in PlayerIds'
      BY DEF PlayerIds
    <3>1. j # k
      BY DEF id
    <3>2. j \in Handshaked' /\ players'[j] = players[j]
      BY <1>3, <1>4, <3>1
    <3> QED BY <3>2 DEF PlayerIds
  <2> QED BY <2>2, <2>3
<1> QED BY <1>1, <1>2, <1>3, <1>4, <1>5, <1>6 DEF k

\* Both ids, the player and the pointer go in one step.
LEMMA PlayerLeavesKeeps ==
    ASSUME ServerInv, NEW p \in Peers, PlayerLeaves(p)
    PROVE  ServerInv'
<1> DEFINE k == data[p]
           id == players[k].id
<1>1. /\ k \in DOMAIN players /\ k # 0 /\ players[k].peer = p /\ id \in AnyId
      /\ data' = [data EXCEPT ![p] = 0]
      /\ net' = TellLeft(PeersFreed(net, {p}), id)
      /\ peer_ids' = AfterReturn(peer_ids, k)
      /\ player_ids' = PlayerIdReturned(id)
      /\ UNCHANGED << running, accept_new >>
      /\ DOMAIN players' = DOMAIN players \ {k}
      /\ \A j \in DOMAIN players \ {k} : players'[j] = players[j]
      /\ Handshaked' = Handshaked \ {k} /\ Handshaked \subseteq DOMAIN players
      /\ PlayerIds' = PlayerIds \ {id} /\ PlayerIds \in SUBSET Ids
  BY PlayerLeavesStep
<1>2. peer_ids' \in Managers /\ Accounts(peer_ids', DOMAIN players \ {k})
  BY <1>1, ReturnKeepsAccounts DEF ServerInv, ServerTypeOK, PlayerIdsUnique
<1> HIDE DEF k
<1>3. player_ids' \in Managers /\ Accounts(player_ids', PlayerIds')
  <2>1. player_ids \in Managers /\ Accounts(player_ids, PlayerIds)
    BY DEF ServerInv, ServerTypeOK, PlayerIdsUnique, PlayerIds
  <2>2. CASE id = 0
    <3>1. id \notin PlayerIds
      BY <1>1, <2>2 DEF Ids
    <3> QED BY <1>1, <2>1, <2>2, <3>1 DEF PlayerIdReturned
  <2>3. CASE id # 0
    <3>1. id \in PlayerIds
      BY <1>1, <2>3 DEF PlayerIds, Handshaked
    <3>2. player_ids' = AfterReturn(player_ids, id)
      BY <1>1, <2>3 DEF PlayerIdReturned
    <3> HIDE DEF id
    <3> QED BY <1>1, <2>1, <3>1, <3>2, ReturnKeepsAccounts
  <2> QED BY <2>2, <2>3
<1>4. NetOK' /\ net'.state = [q \in Peers |-> IF q \in {p} THEN "free" ELSE net.state[q]]
  <2>1. /\ PeersFreed(net, {p}) \in Nets(ToServer, ToClient)
        /\ PeersFreed(net, {p}).state = [q \in Peers |-> IF q \in {p} THEN "free" ELSE net.state[q]]
    BY PeersFreedIsNet DEF ServerInv, NetOK
  <2> HIDE DEF id
  <2> QED BY <1>1, <2>1, TellLeftIsNet DEF NetOK
<1>5. ServerTypeOK'
  BY <1>1, <1>2, <1>3, MaxIdAssumption DEF ServerInv, ServerTypeOK, AnyId
<1>6. PeerDataMatchesPlayers'
  <2>1. \A q \in Peers : data'[q] = IF q = p THEN 0 ELSE data[q]
    BY <1>1 DEF ServerInv, ServerTypeOK
  <2>2. \A q \in Peers : net'.state[q] = IF q = p THEN "free" ELSE net.state[q]
    BY <1>4
  <2>3. \A j \in DOMAIN players \ {k} : players[j].peer \in Peers /\ players[j].peer # p
    BY DEF ServerInv, ServerTypeOK, PeerDataMatchesPlayers, k
  <2>4. \A q \in Peers : q # p => data[q] # k \/ data[q] = 0
    BY <1>1 DEF ServerInv, PeerDataMatchesPlayers
  <2>5. \A q \in Peers : data'[q] # 0 => data'[q] \in DOMAIN players' /\ players'[data'[q]].peer = q
    BY <1>1, <2>1, <2>4 DEF ServerInv, PeerDataMatchesPlayers
  <2>6. \A j \in DOMAIN players' : data'[players'[j].peer] = j
    BY <1>1, <2>1, <2>3 DEF ServerInv, PeerDataMatchesPlayers
  <2>7. \A q \in Peers : /\ net'.state[q] = "connected" => data'[q] # 0
                         /\ data'[q] # 0 => net'.state[q] \in {"connected", "disconnecting"}
    BY <2>1, <2>2 DEF ServerInv, PeerDataMatchesPlayers
  <2> QED BY <2>5, <2>6, <2>7 DEF PeerDataMatchesPlayers
<1>7. PlayerIdsUnique'
  BY <1>1, <1>2, <1>3 DEF ServerInv, PlayerIdsUnique, PlayerIds
<1>8. ClosedIsEmpty'
  BY <1>1, <1>4 DEF PlayerLeaves, ServerInv, ClosedIsEmpty
<1> QED BY <1>4, <1>5, <1>6, <1>7, <1>8 DEF ServerInv

\* The three messages that answer a handshake change no peer.
LEMMA AnswerIsNet ==
    ASSUME NEW n \in Nets(ToServer, ToClient), NEW p,
           NEW player \in [id : AnyId, name : AnyName, peer : Peers],
           NEW list \in SUBSET [id : AnyId, name : AnyName]
    PROVE  /\ Answer(n, p, player, list) \in Nets(ToServer, ToClient)
           /\ Answer(n, p, player, list).state = n.state
<1> DEFINE a == Deliver(n, {p}, S_Handshake(player.id))
           b == Deliver(a, {p}, S_PlayerList(list))
           c == Deliver(b, Peers, S_ClientConnected(player.id, player.name))
<1>1. /\ S_Handshake(player.id) \in ToClient /\ S_PlayerList(list) \in ToClient
      /\ S_ClientConnected(player.id, player.name) \in ToClient
  BY MessagesTyped
<1>2. a \in Nets(ToServer, ToClient) /\ a.state = n.state
  BY <1>1, DeliverIsNet
<1>3. b \in Nets(ToServer, ToClient) /\ b.state = n.state
  <2> HIDE DEF a
  <2> QED BY <1>1, <1>2, DeliverIsNet
<1>4. c \in Nets(ToServer, ToClient) /\ c.state = n.state
  <2> HIDE DEF b
  <2> QED BY <1>1, <1>3, DeliverIsNet
<1> QED BY <1>4 DEF Answer, Broadcast, PeerSend

\* What an accepted handshake does to the players, in one place.
LEMMA AcceptHandshakeStep ==
    ASSUME ServerInv, NEW p \in Peers, AcceptHandshake(p)
    PROVE  /\ data[p] \in DOMAIN players /\ players[data[p]].id = 0
           /\ NewPlayerId \in Ids \ PlayerIds
           /\ player_ids' \in Managers
           /\ Accounts(player_ids', PlayerIds \cup {NewPlayerId})
           /\ DOMAIN players' = DOMAIN players
           /\ players'[data[p]] = [id |-> NewPlayerId, name |-> Head(net.to_server[p]).name,
                                  peer |-> p]
           /\ Head(net.to_server[p]).name \in Names
           /\ \A k \in DOMAIN players : k # data[p] => players'[k] = players[k]
           /\ accept_new
           /\ UNCHANGED << running, accept_new, data, peer_ids >>
<1> DEFINE k == data[p]
           m == Head(net.to_server[p])
<1>1. Receives(p, "C_Handshake") /\ ~InvalidHandshake(p)
  BY DEF AcceptHandshake
<1>2. /\ k \in DOMAIN players /\ players[k].peer = p /\ m \in ToServer /\ accept_new
      /\ players[k] \in [id : AnyId, name : AnyName, peer : Peers]
  BY <1>1, ReceivesHasPlayer
<1>3. players[k].id = 0 /\ m.name \in Names
  BY <1>1, <1>2 DEF InvalidHandshake, Receives, ToServer, AnyName
<1>4. /\ NewPlayerId \in Ids \ PlayerIds /\ player_ids' \in Managers
      /\ Accounts(player_ids', PlayerIds \cup {NewPlayerId})
  <2>1. /\ player_ids \in Managers /\ Accounts(player_ids, PlayerIds)
        /\ PlayerIds \in SUBSET Ids
    <3>1. \A j \in Handshaked : players[j].id \in Ids
      BY MaxIdAssumption DEF ServerInv, ServerTypeOK, Handshaked, AnyId, Ids
    <3> QED BY <3>1 DEF ServerInv, ServerTypeOK, PlayerIdsUnique, PlayerIds
  <2>2. ~NoIdsLeft(player_ids)
    BY <1>2, <1>3, PlayerIdsLeft
  <2> QED BY <2>1, <2>2, AcquireKeepsAccounts DEF AcceptHandshake, NewPlayerId
<1>5. players' = [players EXCEPT ![k].id = NewPlayerId, ![k].name = m.name]
  BY DEF AcceptHandshake
<1>6. /\ UNCHANGED << running, accept_new, data, peer_ids >>
  BY DEF AcceptHandshake
<1> HIDE DEF k, m
<1>7. /\ DOMAIN players' = DOMAIN players
      /\ players'[k] = [id |-> NewPlayerId, name |-> m.name, peer |-> p]
      /\ \A j \in DOMAIN players : j # k => players'[j] = players[j]
  BY <1>2, <1>5
<1> QED BY <1>2, <1>3, <1>4, <1>6, <1>7 DEF k, m

\* A handshake gives the sender an id that is free, and nothing else changes.
LEMMA AcceptHandshakeKeeps ==
    ASSUME ServerInv, NEW p \in Peers, AcceptHandshake(p)
    PROVE  ServerInv'
<1> DEFINE k == data[p]
           id == NewPlayerId
           name == Head(net.to_server[p]).name
<1>1. /\ k \in DOMAIN players /\ players[k].id = 0 /\ id \in Ids \ PlayerIds
      /\ player_ids' \in Managers /\ Accounts(player_ids', PlayerIds \cup {id})
      /\ DOMAIN players' = DOMAIN players
      /\ players'[k] = [id |-> id, name |-> name, peer |-> p]
      /\ \A j \in DOMAIN players : j # k => players'[j] = players[j]
      /\ name \in AnyName /\ accept_new
      /\ UNCHANGED << running, accept_new, data, peer_ids >>
  BY AcceptHandshakeStep DEF AnyName
<1>2. /\ Receives(p, "C_Handshake")
      /\ net' = Answer(Received(net, p), p, players'[k], Listed(players'))
  BY DEF AcceptHandshake
<1>3. /\ players[k].peer = p /\ Received(net, p) \in Nets(ToServer, ToClient)
      /\ Received(net, p).state = net.state
  BY <1>2, ReceivesHasPlayer
<1> HIDE DEF k, id, name
<1>4. ServerTypeOK'
  <2>1. \A j \in DOMAIN players' : players'[j] \in [id : AnyId, name : AnyName, peer : Peers]
    BY <1>1 DEF ServerInv, ServerTypeOK, AnyId, Ids
  <2> QED BY <1>1, <2>1 DEF ServerInv, ServerTypeOK
<1>5. NetOK' /\ net'.state = net.state
  <2>1. Listed(players') \in SUBSET [id : AnyId, name : AnyName]
    BY <1>4 DEF Listed, ServerTypeOK
  <2>2. players'[k] \in [id : AnyId, name : AnyName, peer : Peers]
    BY <1>1, <1>4 DEF ServerTypeOK
  <2> QED BY <1>2, <1>3, <2>1, <2>2, AnswerIsNet DEF NetOK
<1>6. PeerDataMatchesPlayers'
  <2>1. \A j \in DOMAIN players : players'[j].peer = players[j].peer
    BY <1>1, <1>3
  <2> QED BY <1>1, <1>5, <2>1 DEF ServerInv, PeerDataMatchesPlayers
<1>7. Handshaked' = Handshaked \cup {k} /\ k \notin Handshaked
  BY <1>1 DEF Handshaked, Ids
<1>8. \A j \in Handshaked : /\ players'[j] = players[j] /\ players[j].id # id
                            /\ j # k /\ players[j].id \in PlayerIds
  BY <1>1, <1>7 DEF PlayerIds, Handshaked
<1>9. PlayerIds' = PlayerIds \cup {id}
  BY <1>1, <1>7, <1>8 DEF PlayerIds
<1>10. PlayerIdsUnique'
  <2>1. Accounts(peer_ids', DOMAIN players')
    BY <1>1 DEF ServerInv, PlayerIdsUnique
  <2>2. \A i, j \in Handshaked' : players'[i].id = players'[j].id => i = j
    BY <1>1, <1>7, <1>8 DEF ServerInv, PlayerIdsUnique
  <2> QED BY <1>1, <1>9, <2>1, <2>2 DEF PlayerIdsUnique, PlayerIds
<1>11. ClosedIsEmpty'
  BY <1>1, <1>2 DEF Receives, ClosedIsEmpty
<1> QED BY <1>4, <1>5, <1>6, <1>10, <1>11 DEF ServerInv

\* "stop server": all connected peers have a player, so none stays connected.
LEMMA StopServingKeeps ==
    ASSUME ServerInv, StopServing
    PROVE  ServerInv'
<1>1. /\ UNCHANGED << running, data, players, peer_ids, player_ids >>
      /\ accept_new' = FALSE /\ running
  BY DEF StopServing
<1>2. /\ NetOK'
      /\ net'.state = [q \in Peers |-> IF q \in PlayerPeers /\ net.state[q] = "connected"
                                       THEN "disconnecting" ELSE net.state[q]]
  BY PeersDisconnectIsNet DEF StopServing, ServerInv, NetOK
<1>3. \A q \in Peers : net.state[q] = "connected" => q \in PlayerPeers
  BY DEF ServerInv, PeerDataMatchesPlayers, PlayerPeers
<1>4. \A q \in Peers : net'.state[q] = IF net.state[q] = "connected"
                                       THEN "disconnecting" ELSE net.state[q]
  BY <1>2, <1>3
<1>5. ServerTypeOK' /\ PlayerIdsUnique'
  BY <1>1 DEF ServerInv, ServerTypeOK, PlayerIdsUnique, Handshaked
<1>6. PeerDataMatchesPlayers' /\ ClosedIsEmpty'
  BY <1>1, <1>4 DEF ServerInv, PeerDataMatchesPlayers, ClosedIsEmpty
<1> QED BY <1>2, <1>5, <1>6 DEF ServerInv

\* A server without peers, players or ids: a new one, or none.
EmptyServer ==
    /\ running \in BOOLEAN /\ accept_new \in BOOLEAN /\ (~running => ~accept_new)
    /\ data = [p \in Peers |-> 0] /\ players = << >>
    /\ peer_ids = EmptyManager /\ player_ids = EmptyManager
    /\ NetOK /\ \A p \in Peers : net.state[p] = "free"

\* A server that is empty has its books in order.
LEMMA EmptyServerInv == EmptyServer => ServerInv
<1> SUFFICES ASSUME EmptyServer PROVE ServerInv
  OBVIOUS
<1> USE DEF EmptyServer
<1>1. EmptyManager \in Managers /\ Accounts(EmptyManager, {})
  BY MaxIdAssumption DEF EmptyManager, Managers, Accounts, NoDuplicates, FreeIds
<1>2. DOMAIN players = {}
  OBVIOUS
<1>3. Handshaked = {}
  BY <1>2 DEF Handshaked
<1>4. ServerTypeOK
  BY <1>1, <1>2, MaxIdAssumption DEF ServerTypeOK, AnyId
<1>5. PlayerIdsUnique
  BY <1>1, <1>2, <1>3 DEF PlayerIdsUnique
<1>6. PeerDataMatchesPlayers /\ ClosedIsEmpty
  BY <1>2 DEF PeerDataMatchesPlayers, ClosedIsEmpty
<1> QED BY <1>4, <1>5, <1>6 DEF ServerInv

\* ~Server frees every peer along with what they point to.
LEMMA ServerDestroyedKeeps ==
    ASSUME ServerInv, ServerDestroyed
    PROVE  ServerInv'
<1>1. net' = PeersFreed(net, Peers) /\ NetOK
  BY DEF ServerDestroyed, ServerInv
<1>2. NetOK' /\ \A p \in Peers : net'.state[p] = "free"
  <2>1. /\ PeersFreed(net, Peers) \in Nets(ToServer, ToClient)
        /\ PeersFreed(net, Peers).state =
              [p \in Peers |-> IF p \in Peers THEN "free" ELSE net.state[p]]
    BY <1>1, PeersFreedIsNet DEF NetOK
  <2>2. net' \in Nets(ToServer, ToClient)
    BY <1>1, <2>1
  <2>3. net'.state = [p \in Peers |-> IF p \in Peers THEN "free" ELSE net.state[p]]
    BY <1>1, <2>1
  <2> QED BY <2>2, <2>3 DEF NetOK
<1>3. EmptyServer'
  BY <1>2 DEF ServerDestroyed, EmptyServer
<1>4. (EmptyServer => ServerInv)'
  BY EmptyServerInv, PTL
<1> QED BY <1>3, <1>4

\* A new server starts from what the last one left: nothing.
LEMMA ServerCreatedKeeps ==
    ASSUME ServerInv, ServerCreated
    PROVE  ServerInv'
<1>1. /\ UNCHANGED << net, data, players, peer_ids, player_ids >>
      /\ running' = TRUE /\ accept_new' = TRUE
  BY DEF ServerCreated
<1> QED BY <1>1 DEF ServerInv, NetOK, ServerTypeOK, PeerDataMatchesPlayers, PlayerIdsUnique,
                    Handshaked, ClosedIsEmpty

-----------------------------------------------------------------------------
(* The clients' steps and the network's.                                   *)

\* What a client does to its own connection touches no peer of the server,
\* but for the free one its connection is given.
LEMMA ClientKeepsServer ==
    ASSUME IInv, NEW c \in Clients, TickClient(c) \/ UseClient(c)
    PROVE  ServerInv'
<1> USE DEF NetOK
<1>0. ServerInv /\ NetOK /\ username \in [Clients -> AnyName]
  BY DEF IInv, ServerInv, ClientTypeOK
<1>1. ASSUME AbortConnect(c) PROVE ServerInv'
  <2>1. NetOK' /\ net'.state = net.state
    BY <1>0, <1>1, ClientClosesIsNet DEF AbortConnect
  <2> QED BY <1>0, <1>1, <2>1, PeersUnmoved DEF AbortConnect
<1>2. ASSUME NEW p \in Peers, ConnectEvent(c, p) PROVE ServerInv'
  <2> DEFINE n == ClientConnects(net, c, p)
             m == C_Handshake(username[c])
  <2>1. n \in Nets(ToServer, ToClient) /\ n.state = [net.state EXCEPT ![p] = "pending"]
    BY <1>0, ClientConnectsIsNet
  <2>2. m \in ToServer
    BY <1>0, MessagesTyped
  <2>3. net' = ClientSends(n, c, m) /\ UNCHANGED server /\ net.state[p] = "free"
    BY <1>2 DEF ConnectEvent, IsFirstFree, FreePeers
  <2> HIDE DEF n, m
  <2>4. NetOK' /\ net'.state = [net.state EXCEPT ![p] = "pending"]
    BY <2>1, <2>2, <2>3, ClientSendsIsNet
  <2>5. \A q \in Peers : net'.state[q] = IF q = p THEN "pending" ELSE net.state[q]
    BY <1>0, <2>4 DEF Nets
  <2> QED BY <1>0, <2>3, <2>4, <2>5, ServerUnmoved DEF ServerInv, PeerDataMatchesPlayers
<1>3. ASSUME DisconnectEvent(c) PROVE ServerInv'
  <2>1. NetOK' /\ net'.state = net.state
    BY <1>0, <1>3, ClientClosesIsNet DEF DisconnectEvent
  <2> QED BY <1>0, <1>3, <2>1, PeersUnmoved DEF DisconnectEvent
<1>4. ASSUME DisconnectTimesOut(c) PROVE ServerInv'
  <2>1. NetOK' /\ net'.state = net.state
    BY <1>0, <1>4, ClientClosesIsNet DEF DisconnectTimesOut
  <2> QED BY <1>0, <1>4, <2>1, PeersUnmoved DEF DisconnectTimesOut
<1>5. ASSUME Receive(c) PROVE ServerInv'
  <2>1. /\ net' = [net EXCEPT !.to_client[c] = Tail(net.to_client[c])]
        /\ net.to_client[c] # << >> /\ UNCHANGED server
    BY <1>5 DEF Receive
  <2>2. Tail(net.to_client[c]) \in Seq(ToClient)
    BY <1>0, <2>1 DEF Nets
  <2>3. NetOK' /\ net'.state = net.state
    BY <1>0, <2>1, <2>2 DEF Nets
  <2> QED BY <1>0, <2>1, <2>3, PeersUnmoved
<1>6. ASSUME NEW name \in Usernames[c], Connect(c, name) PROVE ServerInv'
  <2>1. NetOK' /\ net'.state = net.state
    BY <1>0, <1>6, ClientOpensIsNet DEF Connect
  <2> QED BY <1>0, <1>6, <2>1, PeersUnmoved DEF Connect
<1>7. ASSUME NEW name \in Usernames[c], ConnectFails(c, name) PROVE ServerInv'
  BY <1>0, <1>7, PeersUnmoved DEF ConnectFails
<1>8. ASSUME Disconnect(c) PROVE ServerInv'
  <2>1. NetOK' /\ net'.state = net.state
    BY <1>0, <1>8, ClientDisconnectsIsNet DEF Disconnect
  <2> QED BY <1>0, <1>8, <2>1, PeersUnmoved DEF Disconnect
<1>9. ASSUME SendChat(c) PROVE ServerInv'
  <2>1. C_ChatMessage(username[c]) \in ToServer
    BY <1>0, MessagesTyped
  <2>2. net' = ClientSends(net, c, C_ChatMessage(username[c])) /\ UNCHANGED server
    BY <1>9 DEF SendChat
  <2>3. NetOK' /\ net'.state = net.state
    BY <1>0, <2>1, <2>2, ClientSendsIsNet
  <2> QED BY <1>0, <2>2, <2>3, PeersUnmoved
<1>10. ASSUME ProgramRestarts(c) PROVE ServerInv'
  <2>1. NetOK' /\ net'.state = net.state
    BY <1>0, <1>10, ClientClosesIsNet DEF ProgramRestarts
  <2> QED BY <1>0, <1>10, <2>1, PeersUnmoved DEF ProgramRestarts
<1> QED BY <1>1, <1>2, <1>3, <1>4, <1>5, <1>6, <1>7, <1>8, <1>9, <1>10 DEF TickClient, UseClient

\* What ENet does by itself frees no peer that has a player.
LEMMA NetworkKeepsServer ==
    ASSUME ServerInv, Network, UNCHANGED server
    PROVE  ServerInv'
<1>0. net \in Nets(ToServer, ToClient)
  BY DEF ServerInv, NetOK
<1>1. ASSUME NEW p \in Peers, PendingVanishes(p) PROVE ServerInv'
  <2>1. NetOK' /\ net'.state = [q \in Peers |-> IF q \in {p} THEN "free" ELSE net.state[q]]
    BY <1>0, <1>1, PeersFreedIsNet DEF PendingVanishes, NetOK
  <2> QED BY <1>1, <2>1, ServerUnmoved DEF PendingVanishes, ServerInv, PeerDataMatchesPlayers
<1>2. ASSUME NEW c \in Clients, DisconnectArrives(c) PROVE ServerInv'
  <2> DEFINE ps == {net.link[c]}
  <2>1. net' = PeersDisconnect(net, ps)
    BY <1>2 DEF DisconnectArrives
  <2> HIDE DEF ps
  <2>2. /\ NetOK'
        /\ net'.state = [q \in Peers |-> IF q \in ps /\ net.state[q] = "connected"
                                         THEN "disconnecting" ELSE net.state[q]]
    BY <1>0, <2>1, PeersDisconnectIsNet DEF NetOK
  <2>3. \A q \in Peers : \/ net'.state[q] = net.state[q]
                         \/ net.state[q] = "connected" /\ net'.state[q] = "disconnecting"
    BY <2>2
  <2> QED BY <2>2, <2>3, ServerUnmoved DEF ServerInv, PeerDataMatchesPlayers
<1> QED BY <1>1, <1>2 DEF Network

-----------------------------------------------------------------------------
(* The client's own variables.                                             *)

\* A list of remote players stays one, whatever message is read.
LEMMA ListAfterIsList ==
    ASSUME NEW list, IsList(list), NEW m \in ToClient
    PROVE  IsList(ListAfter(list, m))
<1>1. CASE m.type = "S_ClientConnected"
  <2>1. m.id \in AnyId /\ m.name \in AnyName
    BY <1>1 DEF ToClient
  <2>2. ListAfter(list, m) = Inserted(list, [i \in {m.id} |-> m.name])
    BY <1>1 DEF ListAfter
  <2> QED BY <2>1, <2>2 DEF IsList, Inserted
<1>2. CASE m.type = "S_ClientDisconnected"
  <2>1. ListAfter(list, m) = Restrict(list, DOMAIN list \ {m.player})
    BY <1>2 DEF ListAfter
  <2> QED BY <2>1 DEF IsList, Restrict
<1>3. CASE m.type = "S_PlayerList"
  <2> DEFINE ids == {e.id : e \in m.players}
             entry(i) == CHOOSE e \in m.players : e.id = i
             new == [i \in ids |-> entry(i).name]
  <2>1. m.players \in SUBSET [id : AnyId, name : AnyName]
    BY <1>3 DEF ToClient
  <2>2. \A i \in ids : entry(i) \in m.players
    OBVIOUS
  <2>3. ListAfter(list, m) = Inserted(list, new)
    BY <1>3 DEF ListAfter
  <2> HIDE DEF entry
  <2>4. IsList(new)
    BY <2>1, <2>2 DEF IsList
  <2> HIDE DEF new
  <2> QED BY <2>3, <2>4 DEF IsList, Inserted
<1>4. CASE m.type \notin {"S_ClientConnected", "S_ClientDisconnected", "S_PlayerList"}
  BY <1>4 DEF ListAfter
<1> QED BY <1>1, <1>2, <1>3, <1>4

\* A count below its bound may grow by one.
LEMMA CountStaysBounded ==
    ASSUME NEW n \in [Clients -> Nat], NEW max \in [Clients -> Nat],
           \A d \in Clients : n[d] <= max[d],
           NEW c \in Clients, n[c] < max[c]
    PROVE  /\ [n EXCEPT ![c] = n[c] + 1] \in [Clients -> Nat]
           /\ \A d \in Clients : [n EXCEPT ![c] = n[c] + 1][d] <= max[d]
<1>1. n[c] + 1 \in Nat /\ n[c] + 1 <= max[c]
  OBVIOUS
<1> QED BY <1>1

\* No step of a client leaves the types of its variables.
LEMMA ClientKeepsTypes ==
    ASSUME IInv, NEW c \in Clients, TickClient(c) \/ UseClient(c)
    PROVE  ClientTypeOK'
<1> DEFINE Told == {"connected", "failed", "disconnected"}
<1>0. /\ calls \in [Clients -> Seq(Told)] /\ net \in Nets(ToServer, ToClient)
      /\ Usernames[c] \subseteq AnyName
      /\ NoName \in AnyName /\ 0 \in AnyId
  BY UsernamesAssumption, MaxIdAssumption
     DEF IInv, ServerInv, NetOK, ClientTypeOK, AnyName, AnyId
<1> USE DEF IInv, ClientTypeOK
<1>1. ASSUME AbortConnect(c) PROVE ClientTypeOK'
  <2>1. calls[c] \o << "failed", "disconnected" >> \in Seq(Told)
    BY <1>0
  <2> QED BY <1>1, <2>1 DEF AbortConnect
<1>2. ASSUME NEW p \in Peers, ConnectEvent(c, p) PROVE ClientTypeOK'
  <2>1. Append(calls[c], "connected") \in Seq(Told)
    BY <1>0
  <2> QED BY <1>2, <2>1 DEF ConnectEvent, Calls
<1>3. ASSUME DisconnectEvent(c) PROVE ClientTypeOK'
  <2>1. Append(calls[c], "disconnected") \in Seq(Told)
    BY <1>0
  <2> QED BY <1>0, <1>3, <2>1 DEF DisconnectEvent, OnDisconnect, Calls
<1>4. ASSUME DisconnectTimesOut(c) PROVE ClientTypeOK'
  <2>1. Append(calls[c], "disconnected") \in Seq(Told)
    BY <1>0
  <2> QED BY <1>0, <1>4, <2>1 DEF DisconnectTimesOut, OnDisconnect, Calls
<1>5. ASSUME Receive(c) PROVE ClientTypeOK'
  <2> DEFINE m == Head(net.to_client[c])
  <2>1. /\ local_id' = [local_id EXCEPT ![c] = IF m.type = "S_Handshake"
                                                 THEN m.local_player_id ELSE local_id[c]]
        /\ remote_players' = [remote_players EXCEPT ![c] = ListAfter(remote_players[c], m)]
        /\ UNCHANGED << username, calls, attempts, sessions, chats >>
    BY <1>5 DEF Receive, IdAfter
  <2>2. m \in ToClient
    BY <1>0, <1>5 DEF Receive, Nets
  <2>3. m.type = "S_Handshake" => m.local_player_id \in AnyId
    BY <2>2 DEF ToClient
  <2>4. IsList(ListAfter(remote_players[c], m))
    BY <2>2, ListAfterIsList
  <2> HIDE DEF m
  <2>5. local_id' \in [Clients -> AnyId]
    BY <2>1, <2>3
  <2>6. DOMAIN remote_players' = Clients /\ \A d \in Clients : IsList(remote_players'[d])
    BY <2>1, <2>4
  <2> QED BY <2>1, <2>5, <2>6
<1>6. ASSUME NEW name \in Usernames[c], Connect(c, name) PROVE ClientTypeOK'
  <2>1. calls' \in [Clients -> Seq(Told)] /\ username' \in [Clients -> AnyName]
    BY <1>0, <1>6 DEF Connect
  <2>2. attempts' \in [Clients -> Nat] /\ \A d \in Clients : attempts'[d] <= MaxAttempts[d]
    <3>1. attempts' = [attempts EXCEPT ![c] = attempts[c] + 1] /\ attempts[c] < MaxAttempts[c]
      BY <1>6 DEF Connect, CanConnect
    <3>2. /\ attempts \in [Clients -> Nat] /\ MaxAttempts \in [Clients -> Nat]
          /\ \A d \in Clients : attempts[d] <= MaxAttempts[d]
      BY BoundsAssumption
    <3> HIDE DEF IInv, ClientTypeOK
    <3> QED BY <3>1, <3>2, CountStaysBounded
  <2> QED BY <1>6, <2>1, <2>2 DEF Connect
<1>7. ASSUME NEW name \in Usernames[c], ConnectFails(c, name) PROVE ClientTypeOK'
  <2>1. << "failed" >> \in Seq(Told)
    OBVIOUS
  <2>2. calls' \in [Clients -> Seq(Told)] /\ username' \in [Clients -> AnyName]
    BY <1>0, <1>7, <2>1 DEF ConnectFails
  <2>3. attempts' \in [Clients -> Nat] /\ \A d \in Clients : attempts'[d] <= MaxAttempts[d]
    <3>1. attempts' = [attempts EXCEPT ![c] = attempts[c] + 1] /\ attempts[c] < MaxAttempts[c]
      BY <1>7 DEF ConnectFails, CanConnect
    <3>2. /\ attempts \in [Clients -> Nat] /\ MaxAttempts \in [Clients -> Nat]
          /\ \A d \in Clients : attempts[d] <= MaxAttempts[d]
      BY BoundsAssumption
    <3> HIDE DEF IInv, ClientTypeOK
    <3> QED BY <3>1, <3>2, CountStaysBounded
  <2> QED BY <1>7, <2>2, <2>3 DEF ConnectFails
<1>8. ASSUME Disconnect(c) PROVE ClientTypeOK'
  BY <1>8 DEF Disconnect, client
<1>9. ASSUME SendChat(c) PROVE ClientTypeOK'
  <2>1. chats' \in [Clients -> Nat] /\ \A d \in Clients : chats'[d] <= MaxChats[d]
    BY <1>9, BoundsAssumption, CountStaysBounded DEF SendChat
  <2> QED BY <1>9, <2>1 DEF SendChat
<1>10. ASSUME ProgramRestarts(c) PROVE ClientTypeOK'
  <2>1. IsList(<< >>)
    BY DEF IsList
  <2> QED BY <1>0, <1>10, <2>1 DEF ProgramRestarts
<1> QED BY <1>1, <1>2, <1>3, <1>4, <1>5, <1>6, <1>7, <1>8, <1>9, <1>10 DEF TickClient, UseClient

-----------------------------------------------------------------------------
(* The invariant of the session, step by step.                             *)

\* The session begins with an empty server and clients that did nothing yet.
LEMMA SessionInit == Init => IInv
<1> SUFFICES ASSUME Init PROVE IInv
  OBVIOUS
<1>1. EmptyServer
  BY EmptyNetIsNet DEF Init, ServerInit, EmptyServer, NetOK
<1>2. ClientTypeOK
  BY MaxIdAssumption, BoundsAssumption
     DEF Init, ClientInit, ClientTypeOK, IsList, AnyName, AnyId
<1> QED BY <1>1, <1>2, EmptyServerInv DEF IInv

\* Any event of tick() keeps the server in order.
LEMMA TickServerKeeps ==
    ASSUME ServerInv, NEW p \in Peers, TickServer(p)
    PROVE  ServerInv'
  BY AdmitPeerKeeps, RefusePeerKeeps, ForgetPeerKeeps, PlayerLeavesKeeps, KickKeeps,
     AcceptHandshakeKeeps, RelayChatKeeps DEF TickServer

\* Any step of the session keeps the invariant.
LEMMA SessionStep == IInv /\ [Next]_vars => IInv'
<1> SUFFICES ASSUME IInv, [Next]_vars PROVE IInv'
  OBVIOUS
<1>1. ASSUME UNCHANGED client, ServerInv' PROVE IInv'
  BY <1>1 DEF IInv, ClientTypeOK, client
<1>2. CASE (\E p \in Peers : TickServer(p)) /\ UNCHANGED client
  BY <1>1, <1>2, TickServerKeeps DEF IInv
<1>3. CASE UseServer /\ UNCHANGED client
  BY <1>1, <1>3, StopServingKeeps, ServerDestroyedKeeps, ServerCreatedKeeps DEF IInv, UseServer
<1>4. CASE \E c \in Clients : TickClient(c) \/ UseClient(c)
  BY <1>4, ClientKeepsServer, ClientKeepsTypes DEF IInv
<1>5. CASE Network /\ UNCHANGED << server, client >>
  BY <1>1, <1>5, NetworkKeepsServer DEF IInv
<1>6. CASE UNCHANGED vars
  <2>1. NetOK' /\ net'.state = net.state /\ UNCHANGED server /\ UNCHANGED client
    BY <1>6 DEF vars, IInv, ServerInv, NetOK
  <2> QED BY <1>1, <2>1, PeersUnmoved DEF IInv
<1> QED BY <1>2, <1>3, <1>4, <1>5, <1>6 DEF Next

\* The peers of ENet, the players, the pointers between them and the two id
\* managers agree in every state a session can reach.
THEOREM SessionInvariant == SafeSpec => []IInv
  BY SessionInit, SessionStep, PTL DEF SafeSpec

\* Types, of every message on its way too: an id manager never hands out an id
\* beyond its width, because the ids in use belong to different peers.
THEOREM SessionTyped == SafeSpec => []TypeOK
<1>1. IInv => TypeOK
  BY DEF IInv, ServerInv, NetOK, TypeOK
<1> QED BY <1>1, SessionInvariant, PTL

\* player(peer) finds the peer's own player, whatever events ENet hands out.
THEOREM PeersHavePlayers == SafeSpec => []PeerDataMatchesPlayers
<1>1. IInv => PeerDataMatchesPlayers
  BY DEF IInv, ServerInv
<1> QED BY <1>1, SessionInvariant, PTL

\* No two players share an id, and no id is lost.
THEOREM PlayersHaveIds == SafeSpec => []PlayerIdsUnique
<1>1. IInv => PlayerIdsUnique
  BY DEF IInv, ServerInv
<1> QED BY <1>1, SessionInvariant, PTL

-----------------------------------------------------------------------------
(* The server implements the lobby: Members is what the lobby sees.        *)

\* Members, by what it is to hold.
MembersInv ==
    /\ Members = [i \in PlayerIds |-> Members[i]]
    /\ \A k \in Handshaked : Members[players[k].id] = players[k].name

\* The CHOOSE in Members has one player to choose.
LEMMA MembersAre == ServerInv => MembersInv
<1> SUFFICES ASSUME ServerInv PROVE MembersInv
  OBVIOUS
<1>1. Members = [i \in PlayerIds |-> Members[i]]
  BY DEF Members, PlayerIds
<1>2. ASSUME NEW k \in Handshaked PROVE Members[players[k].id] = players[k].name
  <2> DEFINE h == CHOOSE j \in Handshaked : players[j].id = players[k].id
  <2>1. h \in Handshaked /\ players[h].id = players[k].id
    OBVIOUS
  <2>2. h = k
    BY <2>1 DEF ServerInv, PlayerIdsUnique
  <2>3. Members[players[k].id] = players[h].name
    BY DEF Members
  <2> QED BY <2>2, <2>3
<1> QED BY <1>1, <1>2 DEF MembersInv

\* Players that have not completed their handshake are not in the lobby.
LEMMA SameMembers ==
    ASSUME ServerInv, ServerInv', Handshaked' = Handshaked,
           \A k \in Handshaked : players'[k] = players[k]
    PROVE  Members' = Members
<1>1. MembersInv /\ MembersInv'
  <2>1. (ServerInv => MembersInv)'
    BY MembersAre, PTL
  <2> QED BY <2>1, MembersAre
<1>2. PlayerIds' = PlayerIds
  BY DEF PlayerIds
<1>3. \A i \in PlayerIds : Members'[i] = Members[i]
  BY <1>1 DEF MembersInv, PlayerIds
<1> QED BY <1>1, <1>2, <1>3 DEF MembersInv

\* A step that leaves the players alone is none of the lobby's.
LEMMA SamePlayers ==
    ASSUME UNCHANGED players
    PROVE  Members' = Members
  BY DEF Members, Handshaked

\* The members, and player k.
Joined(members, k, name) ==
    [i \in DOMAIN members \cup {k} |-> IF i = k THEN name ELSE members[i]]

\* Who leaves is taken off the members, if it was one.
LEMMA MembersLeft ==
    ASSUME ServerInv, ServerInv', NEW p \in Peers, PlayerLeaves(p)
    PROVE  LET id == players[data[p]].id
           IN  /\ id = 0 => Members' = Members
               /\ id # 0 => /\ Members' = [i \in DOMAIN Members \ {id} |-> Members[i]]
                            /\ id \in Ids /\ id \in DOMAIN Members
<1> DEFINE k == data[p]
           id == players[k].id
<1>1. /\ k \in DOMAIN players /\ id \in AnyId
      /\ \A j \in DOMAIN players \ {k} : players'[j] = players[j]
      /\ Handshaked' = Handshaked \ {k} /\ Handshaked \subseteq DOMAIN players
      /\ PlayerIds' = PlayerIds \ {id}
  BY PlayerLeavesStep
<1> HIDE DEF k
<1>2. ASSUME id = 0 PROVE Members' = Members
  <2>1. k \notin Handshaked
    BY <1>2 DEF Handshaked
  <2> QED BY <1>1, <2>1, SameMembers
<1>3. ASSUME id # 0
      PROVE  /\ Members' = [i \in DOMAIN Members \ {id} |-> Members[i]]
             /\ id \in Ids /\ id \in DOMAIN Members
  <2>1. MembersInv /\ MembersInv'
    <3>1. (ServerInv => MembersInv)'
      BY MembersAre, PTL
    <3> QED BY <3>1, MembersAre
  <2>2. \A i \in PlayerIds' : Members'[i] = Members[i]
    BY <1>1, <2>1 DEF MembersInv, PlayerIds
  <2>3. id \in PlayerIds /\ id \in Ids
    BY <1>1, <1>3, MaxIdAssumption DEF PlayerIds, Handshaked, AnyId, Ids
  <2>4. DOMAIN Members = PlayerIds
    BY <2>1 DEF MembersInv
  <2> HIDE DEF id
  <2> QED BY <1>1, <2>1, <2>2, <2>3, <2>4 DEF MembersInv
<1> QED BY <1>2, <1>3 DEF k

\* Who completes its handshake is added to them.
LEMMA MembersJoined ==
    ASSUME ServerInv, ServerInv', NEW p \in Peers, AcceptHandshake(p)
    PROVE  /\ NewPlayerId \notin DOMAIN Members
           /\ Members' = Joined(Members, NewPlayerId, Head(net.to_server[p]).name)
<1> DEFINE k == data[p]
           id == NewPlayerId
           name == Head(net.to_server[p]).name
<1>1. /\ k \in DOMAIN players /\ players[k].id = 0 /\ id \in Ids \ PlayerIds
      /\ DOMAIN players' = DOMAIN players
      /\ players'[k] = [id |-> id, name |-> name, peer |-> p]
      /\ \A j \in DOMAIN players : j # k => players'[j] = players[j]
  BY AcceptHandshakeStep
<1> HIDE DEF k, id, name
<1>2. Handshaked' = Handshaked \cup {k} /\ k \notin Handshaked
  BY <1>1 DEF Handshaked, Ids
<1>3. \A j \in Handshaked : players'[j] = players[j]
  BY <1>1, <1>2 DEF Handshaked
<1>4. PlayerIds' = PlayerIds \cup {id}
  BY <1>1, <1>2, <1>3 DEF PlayerIds
<1>5. MembersInv /\ MembersInv'
  <2>1. (ServerInv => MembersInv)'
    BY MembersAre, PTL
  <2> QED BY <2>1, MembersAre
<1>6. Members'[id] = name
  BY <1>1, <1>2, <1>5 DEF MembersInv
<1>7. \A i \in PlayerIds : Members'[i] = Members[i]
  BY <1>2, <1>3, <1>5 DEF MembersInv, PlayerIds
<1>8. DOMAIN Members = PlayerIds
  BY <1>5 DEF MembersInv
<1>9. Members' = Joined(Members, id, name)
  BY <1>1, <1>4, <1>5, <1>6, <1>7, <1>8 DEF MembersInv, Joined
<1> QED BY <1>1, <1>8, <1>9 DEF id, name

\* A DISCONNECT event is a Leave if the player had its id, nothing otherwise.
LEMMA LeaveMembers ==
    ASSUME ServerInv, ServerInv', NEW p \in Peers, PlayerLeaves(p)
    PROVE  [LobbyView!Next]_LobbyView!vars
<1> DEFINE id == players[data[p]].id
<1>1. UNCHANGED << running, accept_new >>
  BY PlayerLeavesStep
<1>2. /\ id = 0 => Members' = Members
      /\ id # 0 => /\ Members' = [i \in DOMAIN Members \ {id} |-> Members[i]]
                   /\ id \in 1 .. MaxId /\ id \in DOMAIN Members
  BY MembersLeft DEF Ids
<1> HIDE DEF id
<1>3. CASE id = 0
  BY <1>1, <1>2, <1>3 DEF LobbyView!vars
<1>4. CASE id # 0
  <2>1. LobbyView!Leave(id)
    BY <1>1, <1>2, <1>4 DEF LobbyView!Leave
  <2> QED BY <1>2, <1>4, <2>1 DEF LobbyView!Next
<1> QED BY <1>3, <1>4

\* An accepted handshake is a Join.
LEMMA JoinMembers ==
    ASSUME ServerInv, ServerInv', NEW p \in Peers, AcceptHandshake(p)
    PROVE  LobbyView!Next
<1> DEFINE id == NewPlayerId
           name == Head(net.to_server[p]).name
<1>1. name \in Names /\ accept_new /\ id \in 1 .. MaxId /\ UNCHANGED << running, accept_new >>
  BY AcceptHandshakeStep DEF Ids
<1>2. running
  BY DEF AcceptHandshake, Receives
<1>3. id \notin DOMAIN Members /\ Members' = Joined(Members, id, name)
  BY MembersJoined
<1> HIDE DEF id, name
<1>4. LobbyView!Join(id, name)
  BY <1>1, <1>2, <1>3 DEF LobbyView!Join, Joined
<1> QED BY <1>1, <1>4 DEF LobbyView!Next

\* A lobby without players.
LEMMA NoMembers == players = << >> => Members = << >>
<1> SUFFICES ASSUME players = << >> PROVE Members = << >>
  OBVIOUS
<1>1. Handshaked = {}
  BY DEF Handshaked
<1> QED BY <1>1 DEF Members

\* Stopping, destroying and creating the server close and open the lobby.
LEMMA OwnerMembers ==
    ASSUME ServerInv, ServerInv', UseServer
    PROVE  LobbyView!Next
<1>1. ASSUME StopServing PROVE LobbyView!Next
  <2>1. Members' = Members /\ ~accept_new'
    BY <1>1, SamePlayers DEF StopServing
  <2> QED BY <2>1 DEF LobbyView!Next, LobbyView!Close
<1>2. ASSUME ServerDestroyed PROVE LobbyView!Next
  <2>1. (players = << >> => Members = << >>)'
    BY NoMembers, PTL
  <2>2. Members' = << >> /\ ~running'
    BY <1>2, <2>1 DEF ServerDestroyed
  <2> QED BY <2>2 DEF LobbyView!Next, LobbyView!ShutDown
<1>3. ASSUME ServerCreated PROVE LobbyView!Next
  <2>1. Members' = Members /\ running' /\ accept_new' /\ ~running
    BY <1>3, SamePlayers DEF ServerCreated
  <2>2. Members = << >>
    BY <2>1, NoMembers DEF ServerInv, ClosedIsEmpty
  <2> QED BY <2>1, <2>2 DEF LobbyView!Next, LobbyView!OpenAgain
<1> QED BY <1>1, <1>2, <1>3 DEF UseServer

\* Every step of the session is a step of the lobby, or none.
LEMMA LobbyStep ==
    IInv /\ IInv' /\ [Next]_vars => [LobbyView!Next]_LobbyView!vars
<1> SUFFICES ASSUME IInv, IInv', [Next]_vars PROVE [LobbyView!Next]_LobbyView!vars
  OBVIOUS
<1>1. ServerInv /\ ServerInv'
  BY DEF IInv
<1>2. ASSUME UNCHANGED server PROVE [LobbyView!Next]_LobbyView!vars
  BY <1>2, SamePlayers DEF server, LobbyView!vars
<1>3. ASSUME NEW p \in Peers, TickServer(p) PROVE [LobbyView!Next]_LobbyView!vars
  <2>1. ASSUME NEW v \in Versions, AdmitPeer(p, v) PROVE [LobbyView!Next]_LobbyView!vars
    <3>1. /\ Handshaked' = Handshaked /\ UNCHANGED << running, accept_new >>
          /\ \A j \in DOMAIN players : players'[j] = players[j]
      BY <1>1, <2>1, AdmitPeerStep
    <3>2. Members' = Members
      BY <1>1, <3>1, SameMembers DEF Handshaked
    <3> QED BY <3>1, <3>2 DEF LobbyView!vars
  <2>2. ASSUME NEW v \in Versions, RefusePeer(p, v) PROVE UNCHANGED server
    BY <2>2 DEF RefusePeer
  <2>3. ASSUME ForgetPeer(p) \/ KickForHandshake(p) \/ RelayChat(p) PROVE UNCHANGED server
    BY <2>3 DEF ForgetPeer, KickForHandshake, RelayChat
  <2> QED BY <1>1, <1>2, <1>3, <2>1, <2>2, <2>3, LeaveMembers, JoinMembers DEF TickServer
<1>4. ASSUME NEW c \in Clients, TickClient(c) \/ UseClient(c) PROVE UNCHANGED server
  BY <1>4 DEF TickClient, UseClient, AbortConnect, ConnectEvent, DisconnectEvent,
              DisconnectTimesOut, Receive, Connect, ConnectFails, Disconnect, SendChat,
              ProgramRestarts
<1>5. ASSUME UNCHANGED vars PROVE UNCHANGED server
  BY <1>5 DEF vars
<1> QED BY <1>1, <1>2, <1>3, <1>4, <1>5, OwnerMembers DEF Next

\* The server keeps the lobby's promises whatever the clients, the network and
\* its owner do: one id and one name per player from its handshake to its end,
\* and nobody joins a server that does not accept clients.
THEOREM ServerImplementsLobby == SafeSpec => ImplementsLobby
<1>1. Init => LobbyView!Init
  BY NoMembers DEF Init, ServerInit, LobbyView!Init
<1> QED BY <1>1, SessionInvariant, LobbyStep, PTL
        DEF SafeSpec, ImplementsLobby, LobbyView!SafeSpec

-----------------------------------------------------------------------------
(* What a client is told: its callbacks, and who it is.                    *)

\* The callbacks a client has had, by the state of its connection.
Answered(state, told) ==
    /\ state = "connecting" => told = << >>
    /\ state \in {"connected", "disconnecting"} => told = << "connected" >>
    /\ state = "none" => told \in { << >>, << "failed" >>, << "failed", "disconnected" >>,
                                   << "connected", "disconnected" >> }

\* The handshakes a peer has sent, the answers to one a client has been sent.
Greetings(n, p) == {m \in ToSet(n.to_server[p]) : m.type = "C_Handshake"}
AnswersIn(n, c) == {m \in ToSet(n.to_client[c]) : m.type = "S_Handshake"}

\* c, which talks to p, is or will be known by its own name, has no id before
\* the server gives it one, and has or will have that one afterwards.
Agrees(c, p) ==
    /\ net.state[p] \in {"pending", "connected"} =>
            \A m \in Greetings(net, p) : m.name = username[c]
    /\ net.state[p] = "pending" => AnswersIn(net, c) = {} /\ local_id[c] = 0
    /\ net.state[p] = "connected" =>
            LET player == players[data[p]]
            IN  /\ \A m \in AnswersIn(net, c) : m.local_player_id = player.id /\ player.id # 0
                /\ AnswersIn(net, c) = {} => local_id[c] = player.id
                /\ player.id # 0 => player.name = username[c]

ClientOK(c) ==
    /\ Answered(net.client[c], calls[c])
    /\ net.client[c] \in {"none", "connecting"} => local_id[c] = 0
    /\ net.client[c] = "connected" /\ net.link[c] # NoPeer => Agrees(c, net.link[c])

ClientInv == WellLinked(net) /\ \A c \in Clients : ClientOK(c)

\* For what c is told, network r is what n was, or c is cut off.
SameFor(n, r, c) ==
    /\ r.client[c] = n.client[c] /\ AnswersIn(r, c) = AnswersIn(n, c)
    /\ r.link[c] # NoPeer =>
        /\ r.link[c] = n.link[c]
        /\ r.state[n.link[c]] \in {n.state[n.link[c]], "disconnecting"}
        /\ Greetings(r, n.link[c]) \subseteq Greetings(n, n.link[c])

\* The networks of a session.
Networks == Nets(ToServer, ToClient)

\* Two calls, one after the other.
LEMMA OneThenOther ==
    ASSUME NEW a, NEW b
    PROVE  Append(<< a >>, b) = << a, b >>
<1> DEFINE r == Append(<< a >>, b)
           s == << a, b >>
<1>1. r \in Seq({a, b}) /\ s \in Seq({a, b}) /\ Len(r) = 2 /\ Len(s) = 2
  OBVIOUS
<1>2. r[1] = a /\ r[2] = b /\ s[1] = a /\ s[2] = b
  OBVIOUS
<1>3. \A i \in 1 .. Len(r) : r[i] = s[i]
  BY <1>1, <1>2
<1> HIDE DEF r, s
<1>4. r = s
  BY <1>1, <1>3, SeqEqual
<1> QED BY <1>4 DEF r, s

\* A message goes to the end of a queue and is taken from its front.
LEMMA QueueMessages ==
    ASSUME NEW T, NEW q \in Seq(T)
    PROVE  /\ \A m \in T : ToSet(Append(q, m)) = ToSet(q) \cup {m}
           /\ q # << >> => ToSet(q) = {Head(q)} \cup ToSet(Tail(q))
<1>1. ASSUME NEW m \in T PROVE ToSet(Append(q, m)) = ToSet(q) \cup {m}
  <2> DEFINE r == Append(q, m)
  <2>1. /\ r \in Seq(T) /\ Len(r) = Len(q) + 1 /\ r[Len(q) + 1] = m /\ Len(q) \in Nat
        /\ \A i \in 1 .. Len(q) : r[i] = q[i]
    OBVIOUS
  <2>2. DOMAIN r = 1 .. Len(q) + 1 /\ DOMAIN q = 1 .. Len(q)
    OBVIOUS
  <2> HIDE DEF r
  <2> QED BY <2>1, <2>2 DEF ToSet, r
<1>2. ASSUME q # << >> PROVE ToSet(q) = {Head(q)} \cup ToSet(Tail(q))
  <2> DEFINE r == Tail(q)
  <2>1. /\ Len(q) \in Nat /\ Len(q) > 0 /\ Len(r) = Len(q) - 1 /\ Head(q) = q[1]
        /\ \A i \in 1 .. Len(r) : r[i] = q[i + 1]
    BY <1>2
  <2>2. DOMAIN r = 1 .. Len(r) /\ DOMAIN q = 1 .. Len(q)
    BY <1>2
  <2> HIDE DEF r
  <2>3. \A x \in ToSet(q) : x = Head(q) \/ x \in ToSet(r)
    <3> SUFFICES ASSUME NEW i \in 1 .. Len(q), i # 1 PROVE q[i] \in ToSet(r)
      BY <2>1, <2>2 DEF ToSet
    <3>1. i - 1 \in 1 .. Len(r) /\ r[i - 1] = q[i]
      BY <2>1
    <3> QED BY <2>2, <3>1 DEF ToSet
  <2>4. \A x \in ToSet(r) : x \in ToSet(q)
    BY <2>1, <2>2 DEF ToSet
  <2>5. Head(q) \in ToSet(q)
    BY <2>1, <2>2 DEF ToSet
  <2> QED BY <2>3, <2>4, <2>5 DEF r
<1> QED BY <1>1, <1>2

\* Sameness carries over from step to step of a handler.
LEMMA SameForTwice ==
    ASSUME NEW c, NEW n, NEW k, NEW r, SameFor(n, k, c), SameFor(k, r, c)
    PROVE  SameFor(n, r, c)
  BY DEF SameFor

\* Messages other than the answer to a handshake tell c nothing of its own,
\* and those sent to the peer of another client nothing at all.
LEMMA DeliverSame ==
    ASSUME NEW c \in Clients, NEW n \in Networks, WellLinked(n), NEW ps, NEW m \in ToClient,
           m.type # "S_Handshake" \/ n.link[c] \notin ps
    PROVE  SameFor(n, Deliver(n, ps, m), c)
<1> DEFINE r == Deliver(n, ps, m)
<1>1. /\ r.client = n.client /\ r.link = n.link /\ r.state = n.state
      /\ r.to_server = n.to_server
      /\ \/ r.to_client[c] = n.to_client[c]
         \/ n.link[c] \in ps /\ r.to_client[c] = Append(n.to_client[c], m)
  <2>1. r.state = n.state /\ r.to_server = n.to_server
    BY DeliverIsNet DEF Networks
  <2>2. r.client = n.client /\ r.link = n.link
    BY DeliverLinks DEF Networks
  <2>3. r.to_client[c] =
            IF /\ n.link[c] \in ps /\ n.link[c] \in Peers
               /\ n.client[c] = "connected" /\ n.state[n.link[c]] = "connected"
            THEN Append(n.to_client[c], m) ELSE n.to_client[c]
    BY DeliverLinks DEF Networks
  <2> HIDE DEF r
  <2> QED BY <2>1, <2>2, <2>3
<1> HIDE DEF r
<1>2. n.to_client[c] \in Seq(ToClient)
  BY DEF Networks, Nets
<1>3. AnswersIn(r, c) = AnswersIn(n, c)
  <2>1. CASE r.to_client[c] = n.to_client[c]
    BY <2>1 DEF AnswersIn
  <2>2. CASE r.to_client[c] = Append(n.to_client[c], m) /\ n.link[c] \in ps
    <3>1. ToSet(r.to_client[c]) = ToSet(n.to_client[c]) \cup {m}
      BY <1>2, <2>2, QueueMessages
    <3> QED BY <2>2, <3>1 DEF AnswersIn
  <2> QED BY <1>1, <2>1, <2>2
<1> QED BY <1>1, <1>3 DEF SameFor, Greetings, r

\* A message taken out of a queue of the server.
LEMMA ReceivedSame ==
    ASSUME NEW c \in Clients, NEW n \in Networks, WellLinked(n), NEW p \in Peers,
           n.to_server[p] # << >>
    PROVE  SameFor(n, Received(n, p), c)
<1> DEFINE r == Received(n, p)
<1>0. n.state[p] # "free"
  BY DEF WellLinked
<1>1. /\ r.client = n.client /\ r.link = n.link /\ r.to_client = n.to_client
      /\ r.state = n.state
      /\ \A q \in Peers : r.to_server[q] = IF q = p THEN Tail(n.to_server[p]) ELSE n.to_server[q]
  BY <1>0, ReceivedLinks DEF Networks
<1> HIDE DEF r
<1>2. n.to_server[p] \in Seq(ToServer) /\ (n.link[c] # NoPeer => n.link[c] \in Peers)
  BY DEF Networks, Nets
<1>3. ToSet(Tail(n.to_server[p])) \subseteq ToSet(n.to_server[p])
  BY <1>2, QueueMessages
<1>4. \A q \in Peers : Greetings(r, q) \subseteq Greetings(n, q)
  BY <1>1, <1>3 DEF Greetings
<1> QED BY <1>1, <1>2, <1>4 DEF SameFor, AnswersIn, r

\* Peers that are disconnected or freed.
LEMMA PeersGoneSame ==
    ASSUME NEW c \in Clients, NEW n \in Networks, WellLinked(n), NEW ps
    PROVE  SameFor(n, PeersDisconnect(n, ps), c) /\ SameFor(n, PeersFreed(n, ps), c)
<1>0. n.link[c] # NoPeer => n.link[c] \in Peers
  BY DEF Networks, Nets
<1>1. SameFor(n, PeersDisconnect(n, ps), c)
  <2> DEFINE r == PeersDisconnect(n, ps)
  <2>1. /\ r.client = n.client /\ r.link = n.link /\ r.to_client = n.to_client
        /\ \A q \in Peers :
              \/ r.state[q] = n.state[q] /\ r.to_server[q] = n.to_server[q]
              \/ r.state[q] = "disconnecting" /\ r.to_server[q] = << >>
    BY PeersDisconnectLinks DEF Networks
  <2> HIDE DEF r
  <2>2. ToSet(<< >>) = {}
    BY DEF ToSet
  <2>3. \A q \in Peers : Greetings(r, q) \subseteq Greetings(n, q)
    BY <2>1, <2>2 DEF Greetings
  <2> QED BY <1>0, <2>1, <2>3 DEF SameFor, AnswersIn, r
<1>2. SameFor(n, PeersFreed(n, ps), c)
  <2> DEFINE r == PeersFreed(n, ps)
  <2>1. /\ r.client = n.client /\ r.to_client = n.to_client
        /\ r.link[c] = IF n.link[c] \in ps THEN NoPeer ELSE n.link[c]
        /\ \A q \in Peers \ ps : r.state[q] = n.state[q] /\ r.to_server[q] = n.to_server[q]
    BY PeersFreedLinks DEF Networks
  <2> HIDE DEF r
  <2> QED BY <1>0, <2>1 DEF SameFor, AnswersIn, Greetings, r
<1> QED BY <1>1, <1>2

\* Another client's call, whatever it does to its own connection.
LEMMA OtherClientSame ==
    ASSUME NEW c \in Clients, NEW n \in Networks, WellLinked(n), NEW d \in Clients, d # c
    PROVE  /\ n.client[d] = "none" => SameFor(n, ClientOpens(n, d), c)
           /\ SameFor(n, ClientCloses(n, d), c) /\ SameFor(n, ClientDisconnects(n, d), c)
           /\ \A m \in ToServer : SameFor(n, ClientSends(n, d, m), c)
           /\ \A p \in Peers : n.state[p] = "free" /\ n.client[d] = "connecting"
                                => SameFor(n, ClientConnects(n, d, p), c)
<1>0. /\ n.link[c] # NoPeer => n.link[c] \in Peers /\ n.link[d] # n.link[c]
                               /\ n.state[n.link[c]] # "free"
      /\ n.client \in [Clients -> ClientStates] /\ n.state \in [Peers -> PeerStates]
      /\ n.link \in [Clients -> Peers \cup {NoPeer}] /\ DOMAIN n.to_client = Clients
  BY DEF Networks, Nets, WellLinked
<1>1. ASSUME n.client[d] = "none" PROVE SameFor(n, ClientOpens(n, d), c)
  <2> DEFINE r == ClientOpens(n, d)
  <2>1. /\ \A e \in Clients : r.client[e] = IF e = d THEN "connecting" ELSE n.client[e]
        /\ r.link = n.link /\ r.to_client = n.to_client
        /\ r.state = n.state /\ r.to_server = n.to_server
    BY <1>1, ClientOpensLinks DEF Networks
  <2> HIDE DEF r
  <2> QED BY <1>0, <2>1 DEF SameFor, AnswersIn, Greetings, r
<1>2. SameFor(n, ClientCloses(n, d), c)
  <2> DEFINE r == ClientCloses(n, d)
  <2>1. /\ \A e \in Clients : r.client[e] = IF e = d THEN "none" ELSE n.client[e]
        /\ \A e \in Clients : r.to_client[e] = IF e = d THEN << >> ELSE n.to_client[e]
        /\ \A e \in Clients : r.link[e] = IF e = d THEN NoPeer ELSE n.link[e]
        /\ r.state = n.state /\ r.to_server = n.to_server
    BY ClientClosesLinks DEF Networks
  <2> HIDE DEF r
  <2> QED BY <1>0, <2>1 DEF SameFor, AnswersIn, Greetings, r
<1>3. SameFor(n, ClientDisconnects(n, d), c)
  <2> DEFINE r == ClientDisconnects(n, d)
  <2>1. /\ \A e \in Clients : r.client[e] = IF e = d THEN "disconnecting" ELSE n.client[e]
        /\ \A e \in Clients : r.to_client[e] = IF e = d THEN << >> ELSE n.to_client[e]
        /\ r.link = n.link /\ r.state = n.state /\ r.to_server = n.to_server
    BY ClientDisconnectsLinks DEF Networks
  <2> HIDE DEF r
  <2> QED BY <1>0, <2>1 DEF SameFor, AnswersIn, Greetings, r
<1>4. ASSUME NEW m \in ToServer PROVE SameFor(n, ClientSends(n, d, m), c)
  <2> DEFINE r == ClientSends(n, d, m)
  <2>1. /\ r.client = n.client /\ r.link = n.link /\ r.to_client = n.to_client
        /\ r.state = n.state
        /\ \A q \in Peers : r.to_server[q] = n.to_server[q] \/ q = n.link[d]
    BY ClientSendsLinks DEF Networks
  <2> HIDE DEF r
  <2> QED BY <1>0, <2>1 DEF SameFor, AnswersIn, Greetings, r
<1>5. ASSUME NEW p \in Peers, n.state[p] = "free", n.client[d] = "connecting"
      PROVE  SameFor(n, ClientConnects(n, d, p), c)
  <2> DEFINE r == ClientConnects(n, d, p)
  <2>1. /\ \A e \in Clients : r.client[e] = IF e = d THEN "connected" ELSE n.client[e]
        /\ \A e \in Clients : r.link[e] = IF e = d THEN p ELSE n.link[e]
        /\ \A q \in Peers : r.state[q] = IF q = p THEN "pending" ELSE n.state[q]
        /\ r.to_client = n.to_client /\ r.to_server = n.to_server
    BY <1>5, ClientConnectsLinks DEF Networks
  <2> HIDE DEF r
  <2> QED BY <1>0, <1>5, <2>1 DEF SameFor, AnswersIn, Greetings, r
<1> QED BY <1>1, <1>2, <1>3, <1>4, <1>5

\* The server's answer to a handshake is told to its sender and nobody else.
LEMMA AnswerTells ==
    ASSUME NEW n \in Networks, WellLinked(n), NEW p \in Peers,
           NEW player \in [id : AnyId, name : AnyName, peer : Peers],
           NEW list \in SUBSET [id : AnyId, name : AnyName]
    PROVE  LET r == Answer(n, p, player, list)
           IN  /\ WellLinked(r)
               /\ \A c \in Clients :
                    /\ n.link[c] # p => SameFor(n, r, c)
                    /\ r.client[c] = n.client[c]
                    /\ n.link[c] = p /\ n.client[c] = "connected" /\ n.state[p] = "connected"
                        => /\ AnswersIn(r, c) = AnswersIn(n, c) \cup {S_Handshake(player.id)}
                           /\ r.link[c] # NoPeer =>
                                /\ r.link[c] = p /\ r.state[p] \in {"connected", "disconnecting"}
                                /\ Greetings(r, p) \subseteq Greetings(n, p)
<1> DEFINE hs == S_Handshake(player.id)
           pl == S_PlayerList(list)
           cc == S_ClientConnected(player.id, player.name)
           k == Deliver(n, {p}, hs)
           j == Deliver(k, {p}, pl)
           r == Deliver(j, Peers, cc)
<1>1. Answer(n, p, player, list) = r
  BY DEF Answer, PeerSend, Broadcast
<1>2. /\ hs \in ToClient /\ pl \in ToClient /\ cc \in ToClient
      /\ hs.type = "S_Handshake" /\ pl.type # "S_Handshake" /\ cc.type # "S_Handshake"
  BY MessagesTyped DEF S_Handshake, S_PlayerList, S_ClientConnected
<1> HIDE DEF hs, pl, cc
<1>3. /\ k \in Networks /\ WellLinked(k) /\ k.state = n.state /\ k.to_server = n.to_server
      /\ k.client = n.client /\ k.link = n.link
  <2>1. k \in Networks /\ k.state = n.state /\ k.to_server = n.to_server
    BY <1>2, DeliverIsNet DEF Networks
  <2>2. WellLinked(k) /\ k.client = n.client /\ k.link = n.link
    BY <1>2, DeliverLinks DEF Networks
  <2> QED BY <2>1, <2>2
<1>4. \A c \in Clients : n.link[c] # p => SameFor(n, k, c)
  BY <1>2, DeliverSame
<1>5. ASSUME NEW c \in Clients, n.link[c] = p, n.client[c] = "connected",
             n.state[p] = "connected"
      PROVE  AnswersIn(k, c) = AnswersIn(n, c) \cup {hs}
  <2>1. k.to_client[c] = Append(n.to_client[c], hs)
    <3>1. k.to_client[c] =
              IF /\ n.link[c] \in {p} /\ n.link[c] \in Peers
                 /\ n.client[c] = "connected" /\ n.state[n.link[c]] = "connected"
              THEN Append(n.to_client[c], hs) ELSE n.to_client[c]
      BY <1>2, DeliverLinks DEF Networks
    <3> HIDE DEF k
    <3> QED BY <1>5, <3>1
  <2>2. n.to_client[c] \in Seq(ToClient)
    BY DEF Networks, Nets
  <2> HIDE DEF k
  <2>3. ToSet(k.to_client[c]) = ToSet(n.to_client[c]) \cup {hs}
    BY <1>2, <2>1, <2>2, QueueMessages
  <2> QED BY <1>2, <2>3 DEF AnswersIn
<1> HIDE DEF k
<1>6. j \in Networks /\ WellLinked(j) /\ \A c \in Clients : SameFor(k, j, c)
  <2>1. j \in Networks
    BY <1>2, <1>3, DeliverIsNet DEF Networks
  <2>2. WellLinked(j)
    BY <1>2, <1>3, DeliverLinks DEF Networks
  <2> QED BY <1>2, <1>3, <2>1, <2>2, DeliverSame
<1> HIDE DEF j
<1>7. WellLinked(r) /\ \A c \in Clients : SameFor(j, r, c)
  <2>1. WellLinked(r)
    BY <1>2, <1>6, DeliverLinks DEF Networks
  <2> QED BY <1>2, <1>6, <2>1, DeliverSame
<1> HIDE DEF r
<1>8. ASSUME NEW c \in Clients
      PROVE  /\ n.link[c] # p => SameFor(n, r, c)
             /\ r.client[c] = n.client[c]
             /\ n.link[c] = p /\ n.client[c] = "connected" /\ n.state[p] = "connected"
                 => /\ AnswersIn(r, c) = AnswersIn(n, c) \cup {hs}
                    /\ r.link[c] # NoPeer =>
                          /\ r.link[c] = p /\ r.state[p] \in {"connected", "disconnecting"}
                          /\ Greetings(r, p) \subseteq Greetings(n, p)
  <2>1. SameFor(k, r, c)
    BY <1>6, <1>7, SameForTwice
  <2>2. n.link[c] # p => SameFor(n, r, c)
    BY <1>4, <2>1, SameForTwice
  <2>3. r.client[c] = n.client[c]
    BY <1>3, <2>1 DEF SameFor
  <2>4. Greetings(k, p) = Greetings(n, p)
    BY <1>3 DEF Greetings
  <2>5. AnswersIn(r, c) = AnswersIn(k, c)
    BY <2>1 DEF SameFor
  <2>6. n.link[c] = p /\ n.state[p] = "connected" /\ r.link[c] # NoPeer =>
            /\ r.link[c] = p /\ r.state[p] \in {"connected", "disconnecting"}
            /\ Greetings(r, p) \subseteq Greetings(n, p)
    BY <1>3, <2>1, <2>4 DEF SameFor
  <2> HIDE DEF hs
  <2>7. n.link[c] = p /\ n.client[c] = "connected" /\ n.state[p] = "connected"
            => AnswersIn(r, c) = AnswersIn(n, c) \cup {hs}
    BY <1>5, <2>5
  <2> QED BY <2>2, <2>3, <2>6, <2>7
<1> QED BY <1>1, <1>7, <1>8 DEF hs

\* ENet counts a peer: to its client it is no other.
LEMMA CountedLinks ==
    ASSUME NetOK, WellLinked(net), NEW p \in Peers, net.state[p] = "pending"
    PROVE  /\ Counted(p).client = net.client /\ Counted(p).link = net.link
           /\ Counted(p).to_client = net.to_client /\ Counted(p).to_server = net.to_server
           /\ WellLinked(Counted(p))
<1> DEFINE r == Counted(p)
           st == [net.state EXCEPT ![p] = "connected"]
<1>1. r = [net EXCEPT !.state = st]
  BY DEF Counted, NetOK, Nets
<1> HIDE DEF r
<1>2. /\ r.client = net.client /\ r.link = net.link /\ r.to_client = net.to_client
      /\ r.to_server = net.to_server /\ r.state = st
  <2> HIDE DEF st
  <2> QED BY <1>1 DEF NetOK, Nets
<1>3. \A q \in Peers : st[q] = IF q = p THEN "connected" ELSE net.state[q]
  BY DEF NetOK, Nets
<1>4. \A c \in Clients : net.link[c] # NoPeer => net.link[c] \in Peers
  BY DEF NetOK, Nets
<1> HIDE DEF st
<1> QED BY <1>2, <1>3, <1>4 DEF WellLinked, r

\* What holds of a client stays true as long as nothing it is told changes,
\* and its player, if it has one, keeps its id and its name.
LEMMA ClientStaysOK ==
    ASSUME NEW c \in Clients, ClientOK(c), SameFor(net, net', c),
           calls'[c] = calls[c], local_id'[c] = local_id[c], username'[c] = username[c],
           LET p == net.link[c]
           IN  net'.link[c] = p /\ net'.link[c] # NoPeer /\ net.state[p] = "connected" =>
                   /\ players'[data'[p]].id = players[data[p]].id
                   /\ players'[data'[p]].name = players[data[p]].name
    PROVE  ClientOK(c)'
<1>1. /\ Answered(net.client[c], calls[c])'
      /\ (net.client[c] \in {"none", "connecting"} => local_id[c] = 0)'
  BY DEF ClientOK, SameFor
<1>2. ASSUME net'.client[c] = "connected", net'.link[c] # NoPeer
      PROVE  Agrees(c, net.link[c])'
  <2> DEFINE p == net.link[c]
  <2>1. /\ Agrees(c, p) /\ net'.link[c] = p
        /\ net'.state[p] \in {net.state[p], "disconnecting"}
        /\ Greetings(net', p) \subseteq Greetings(net, p)
        /\ AnswersIn(net', c) = AnswersIn(net, c)
    BY <1>2 DEF SameFor, ClientOK
  <2>2. \A q : q = p =>
          /\ net'.state[q] \in {"pending", "connected"} =>
                \A m \in Greetings(net', q) : m.name = username'[c]
          /\ net'.state[q] = "pending" => AnswersIn(net', c) = {} /\ local_id'[c] = 0
          /\ net'.state[q] = "connected" =>
                LET player == players'[data'[q]]
                IN  /\ \A m \in AnswersIn(net', c) :
                            m.local_player_id = player.id /\ player.id # 0
                    /\ AnswersIn(net', c) = {} => local_id'[c] = player.id
                    /\ player.id # 0 => player.name = username'[c]
    BY <1>2, <2>1 DEF Agrees
  <2> QED BY <2>1, <2>2 DEF Agrees
<1> QED BY <1>1, <1>2 DEF ClientOK

\* A step that tells no client anything about itself.
LEMMA NothingTold ==
    ASSUME ClientInv, UNCHANGED client, WellLinked(net'),
           \A c \in Clients : SameFor(net, net', c),
           \A c \in Clients :
               LET p == net.link[c]
               IN  net'.link[c] = p /\ net'.link[c] # NoPeer /\ net.state[p] = "connected" =>
                       /\ players'[data'[p]].id = players[data[p]].id
                       /\ players'[data'[p]].name = players[data[p]].name
    PROVE  ClientInv'
<1>1. ASSUME NEW c \in Clients PROVE ClientOK(c)'
  <2>1. ClientOK(c) /\ calls' = calls /\ local_id' = local_id /\ username' = username
    BY DEF ClientInv, client
  <2> QED BY <2>1, ClientStaysOK
<1> QED BY <1>1 DEF ClientInv

\* Of the server's steps, those that are about peers that go.
LEMMA PeersGoTells ==
    ASSUME ServerInv, ClientInv, UNCHANGED client, NEW p \in Peers,
           (\E v \in Versions : RefusePeer(p, v)) \/ ForgetPeer(p) \/ KickForHandshake(p)
    PROVE  ClientInv'
<1>0. net \in Networks /\ NetOK /\ WellLinked(net)
  BY DEF ServerInv, NetOK, Networks, ClientInv
<1>1. UNCHANGED << data, players >>
  BY DEF RefusePeer, ForgetPeer, KickForHandshake, server
<1>2. ASSUME NEW v \in Versions, RefusePeer(p, v)
      PROVE  WellLinked(net') /\ \A c \in Clients : SameFor(net, net', c)
  <2> DEFINE n == Counted(p)
  <2>1. /\ n \in Networks /\ n.state = [net.state EXCEPT ![p] = "connected"]
        /\ n.client = net.client /\ n.link = net.link /\ n.to_client = net.to_client
        /\ n.to_server = net.to_server /\ WellLinked(n)
    BY <1>0, <1>2, CountedIsNet, CountedLinks DEF Networks, RefusePeer
  <2>2. net' = PeersDisconnect(n, {p})
    BY <1>2 DEF RefusePeer
  <2> HIDE DEF n
  <2>3. WellLinked(net') /\ \A c \in Clients : SameFor(n, net', c)
    BY <2>1, <2>2, PeersDisconnectLinks, PeersGoneSame DEF Networks
  <2>4. net'.state[p] = "disconnecting"
    <3>1. net'.state = [q \in Peers |-> IF q \in {p} /\ n.state[q] = "connected"
                                         THEN "disconnecting" ELSE n.state[q]]
      <4>1. n \in Nets(ToServer, ToClient)
        BY <2>1 DEF Networks
      <4>2. PeersDisconnect(n, {p}).state =
                [q \in Peers |-> IF q \in {p} /\ n.state[q] = "connected"
                                 THEN "disconnecting" ELSE n.state[q]]
        BY <4>1, PeersDisconnectIsNet
      <4> QED BY <2>2, <4>2
    <3>2. n.state[p] = "connected"
      BY <1>0, <2>1 DEF Networks, Nets
    <3> QED BY <3>1, <3>2
  <2>5. \A q \in Peers : q # p => n.state[q] = net.state[q]
    BY <1>0, <2>1 DEF Networks, Nets
  <2>6. \A c \in Clients : net.link[c] # NoPeer => net.link[c] \in Peers
    BY <1>0 DEF Networks, Nets
  <2>7. \A c \in Clients : SameFor(net, net', c)
    BY <2>1, <2>3, <2>4, <2>5, <2>6 DEF SameFor, AnswersIn, Greetings
  <2> QED BY <2>3, <2>7
<1>3. ASSUME ForgetPeer(p) PROVE WellLinked(net') /\ \A c \in Clients : SameFor(net, net', c)
  <2>1. net' = PeersFreed(net, {p})
    BY <1>3 DEF ForgetPeer
  <2> QED BY <1>0, <2>1, PeersFreedLinks, PeersGoneSame DEF Networks
<1>4. ASSUME KickForHandshake(p)
      PROVE  WellLinked(net') /\ \A c \in Clients : SameFor(net, net', c)
  <2>1. net' = PeersDisconnect(net, {p})
    BY <1>4 DEF KickForHandshake
  <2> QED BY <1>0, <2>1, PeersDisconnectLinks, PeersGoneSame DEF Networks
<1> QED BY <1>1, <1>2, <1>3, <1>4, NothingTold

\* Chat tells nobody who it is.
LEMMA RelayChatTells ==
    ASSUME ServerInv, ClientInv, UNCHANGED client, NEW p \in Peers, RelayChat(p)
    PROVE  ClientInv'
<1> DEFINE n == Received(net, p)
           m == S_ChatMessage(SenderId(p), Head(net.to_server[p]).author)
<1>1. /\ Receives(p, "C_ChatMessage") /\ UNCHANGED << data, players >>
      /\ net' = n \/ net' = Deliver(n, Peers, m)
  BY DEF RelayChat, server, Broadcast
<1>2. /\ net \in Networks /\ WellLinked(net) /\ n \in Networks
      /\ net.to_server[p] # << >> /\ net.state[p] # "free"
  BY <1>1, ReceivesHasPlayer DEF ServerInv, NetOK, Networks, ClientInv, Receives
<1>3. WellLinked(n) /\ \A c \in Clients : SameFor(net, n, c)
  BY <1>2, ReceivedLinks, ReceivedSame DEF Networks
<1>4. m \in ToClient /\ m.type # "S_Handshake"
  <2>1. Head(net.to_server[p]).author \in AnyName
    BY <1>1, ReceivesHasPlayer DEF Receives, ToServer
  <2>2. SenderId(p) \in AnyId
    BY <1>1, ReceivesHasPlayer DEF SenderId
  <2> QED BY <2>1, <2>2, MessagesTyped DEF S_ChatMessage
<1> HIDE DEF n, m
<1>5. WellLinked(net') /\ \A c \in Clients : SameFor(n, net', c)
  <2>1. CASE net' = n
    BY <1>3, <2>1 DEF SameFor
  <2>2. CASE net' = Deliver(n, Peers, m)
    BY <1>2, <1>3, <1>4, <2>2, DeliverLinks, DeliverSame DEF Networks
  <2> QED BY <1>1, <2>1, <2>2
<1>6. \A c \in Clients : SameFor(net, net', c)
  BY <1>3, <1>5, SameForTwice
<1> QED BY <1>1, <1>5, <1>6, NothingTold

\* A player that leaves is no other client's.
LEMMA PlayerLeavesTells ==
    ASSUME ServerInv, ClientInv, UNCHANGED client, NEW p \in Peers, PlayerLeaves(p)
    PROVE  ClientInv'
<1> DEFINE k == data[p]
           id == players[k].id
           n == PeersFreed(net, {p})
           m == S_ClientDisconnected(id)
<1>1. /\ net' = n \/ net' = Deliver(n, Peers, m)
      /\ data' = [data EXCEPT ![p] = 0] /\ id \in AnyId
      /\ k # 0 /\ players[k].peer = p
      /\ \A j \in DOMAIN players \ {k} : players'[j] = players[j]
  BY PlayerLeavesStep DEF TellLeft, Broadcast
<1>2. net \in Networks /\ WellLinked(net)
  BY DEF ServerInv, NetOK, Networks, ClientInv
<1>3. /\ n \in Networks /\ WellLinked(n)
      /\ \A c \in Clients : SameFor(net, n, c) /\ n.link[c] # p
  <2>1. n \in Networks
    BY <1>2, PeersFreedIsNet DEF Networks
  <2>2. WellLinked(n)
    BY <1>2, PeersFreedLinks DEF Networks
  <2>3. \A c \in Clients : n.link[c] = IF net.link[c] \in {p} THEN NoPeer ELSE net.link[c]
    BY <1>2, PeersFreedLinks DEF Networks
  <2>4. p # NoPeer
    BY DEF Peers, NoPeer
  <2> HIDE DEF n
  <2>5. \A c \in Clients : n.link[c] # p
    BY <2>3, <2>4
  <2> QED BY <1>2, <2>1, <2>2, <2>5, PeersGoneSame DEF n
<1>4. m \in ToClient /\ m.type # "S_Handshake"
  BY <1>1, MessagesTyped DEF S_ClientDisconnected
<1> HIDE DEF n, m
<1>5. /\ WellLinked(net') /\ net'.link = n.link
      /\ \A c \in Clients : SameFor(n, net', c)
  <2>1. CASE net' = n
    BY <1>3, <2>1 DEF SameFor
  <2>2. CASE net' = Deliver(n, Peers, m)
    BY <1>3, <1>4, <2>2, DeliverLinks, DeliverSame DEF Networks
  <2> QED BY <1>1, <2>1, <2>2
<1>6. \A c \in Clients : SameFor(net, net', c)
  BY <1>3, <1>5, SameForTwice
<1> HIDE DEF id, k
<1>7. ASSUME NEW c \in Clients, net'.link[c] = net.link[c], net'.link[c] # NoPeer,
             net.state[net.link[c]] = "connected"
      PROVE  players'[data'[net.link[c]]] = players[data[net.link[c]]]
  <2> DEFINE q == net.link[c]
  <2>1. q \in Peers /\ q # p
    BY <1>2, <1>3, <1>5, <1>7 DEF Networks, Nets
  <2>2. data'[q] = data[q] /\ data[q] \in DOMAIN players /\ players[data[q]].peer = q
    BY <1>1, <1>7, <2>1 DEF ServerInv, ServerTypeOK, PeerDataMatchesPlayers
  <2> QED BY <1>1, <2>1, <2>2
<1> QED BY <1>5, <1>6, <1>7, NothingTold

\* A peer that is admitted has no player id, and neither does its client.
LEMMA AdmitPeerTells ==
    ASSUME ServerInv, ClientInv, UNCHANGED client,
           NEW p \in Peers, NEW v \in Versions, AdmitPeer(p, v)
    PROVE  ClientInv'
<1> DEFINE k == AcquiredId(peer_ids)
<1>1. /\ k \notin DOMAIN players /\ data' = [data EXCEPT ![p] = k]
      /\ players'[k] = [id |-> 0, name |-> NoName, peer |-> p]
      /\ \A j \in DOMAIN players : players'[j] = players[j]
  BY AdmitPeerStep
<1> HIDE DEF k
<1>2. net' = Counted(p) /\ net.state[p] = "pending"
  BY DEF AdmitPeer
<1>3. NetOK /\ WellLinked(net) /\ data \in [Peers -> AnyId]
  BY DEF ServerInv, ServerTypeOK, ClientInv
<1>4. /\ net'.client = net.client /\ net'.link = net.link
      /\ net'.to_client = net.to_client /\ net'.to_server = net.to_server
      /\ WellLinked(net')
      /\ \A q \in Peers : net'.state[q] = IF q = p THEN "connected" ELSE net.state[q]
  <2>1. net'.state = [net.state EXCEPT ![p] = "connected"]
    BY <1>2, <1>3, CountedIsNet
  <2>2. net.state \in [Peers -> PeerStates]
    BY <1>3 DEF NetOK, Nets
  <2> QED BY <1>2, <1>3, <2>1, <2>2, CountedLinks
<1>5. ASSUME NEW c \in Clients PROVE ClientOK(c)'
  <2> DEFINE q == net.link[c]
  <2>0. /\ ClientOK(c) /\ calls' = calls /\ local_id' = local_id /\ username' = username
        /\ q # NoPeer => q \in Peers
    BY <1>3 DEF ClientInv, client, NetOK, Nets
  <2>1. CASE q # p
    <3>1. SameFor(net, net', c)
      BY <1>4, <2>0, <2>1 DEF SameFor, AnswersIn, Greetings
    <3>2. q # NoPeer /\ net.state[q] = "connected" =>
             players'[data'[q]] = players[data[q]]
      BY <1>1, <1>3, <2>0, <2>1 DEF ServerInv, PeerDataMatchesPlayers
    <3> QED BY <2>0, <3>1, <3>2, ClientStaysOK
  <2>2. CASE q = p
    <3>1. players'[data'[p]] = [id |-> 0, name |-> NoName, peer |-> p]
      BY <1>1, <1>3
    <3>2. /\ Answered(net'.client[c], calls'[c])
          /\ net'.client[c] \in {"none", "connecting"} => local_id'[c] = 0
      BY <1>4, <2>0 DEF ClientOK
    <3>3. ASSUME net'.client[c] = "connected" PROVE Agrees(c, net.link[c])'
      <4>1. /\ \A m \in Greetings(net, p) : m.name = username[c]
            /\ AnswersIn(net, c) = {} /\ local_id[c] = 0
        <5>1. Agrees(c, p)
          BY <1>4, <2>0, <2>2, <3>3 DEF ClientOK, Peers, NoPeer
        <5> QED BY <1>2, <5>1 DEF Agrees
      <4>2. /\ Greetings(net', p) = Greetings(net, p) /\ AnswersIn(net', c) = AnswersIn(net, c)
            /\ net'.state[p] = "connected" /\ net'.link[c] = p
        BY <1>4, <2>2 DEF Greetings, AnswersIn
      <4> QED BY <2>0, <3>1, <4>1, <4>2 DEF Agrees
    <3> QED BY <1>4, <3>2, <3>3 DEF ClientOK
  <2> QED BY <2>1, <2>2
<1> QED BY <1>4, <1>5 DEF ClientInv

\* An accepted handshake gives the sender its id and its name, as its own
\* handshake has it, and nobody else.
LEMMA AcceptHandshakeTells ==
    ASSUME ServerInv, ServerInv', ClientInv, UNCHANGED client,
           NEW p \in Peers, AcceptHandshake(p)
    PROVE  ClientInv'
<1> DEFINE k == data[p]
           n == Received(net, p)
           m == Head(net.to_server[p])
           player == players'[k]
           hs == S_Handshake(player.id)
<1>1. /\ k \in DOMAIN players /\ players[k].id = 0 /\ player.id # 0
      /\ player.name = m.name /\ UNCHANGED data
      /\ \A j \in DOMAIN players : j # k => players'[j] = players[j]
  <2>1. /\ k \in DOMAIN players /\ players[k].id = 0 /\ NewPlayerId \in Ids \ PlayerIds
        /\ player = [id |-> NewPlayerId, name |-> m.name, peer |-> p] /\ UNCHANGED data
        /\ \A j \in DOMAIN players : j # k => players'[j] = players[j]
    BY AcceptHandshakeStep
  <2> HIDE DEF k, m, player
  <2> QED BY <2>1 DEF Ids
<1>2. /\ Receives(p, "C_Handshake") /\ net' = Answer(n, p, player, Listed(players'))
  BY DEF AcceptHandshake
<1>3. /\ net \in Networks /\ WellLinked(net) /\ n \in Networks
      /\ net.to_server[p] # << >> /\ net.state[p] = "connected"
      /\ m.type = "C_Handshake" /\ net.to_server[p] \in Seq(ToServer)
  BY <1>2, ReceivesHasPlayer DEF ServerInv, NetOK, Networks, ClientInv, Receives, Nets
<1>4. m \in Greetings(net, p)
  BY <1>3, QueueMessages DEF Greetings
<1>5. /\ player \in [id : AnyId, name : AnyName, peer : Peers]
      /\ Listed(players') \in SUBSET [id : AnyId, name : AnyName]
  <2>1. /\ DOMAIN players' = DOMAIN players
        /\ \A j \in DOMAIN players' : players'[j] \in [id : AnyId, name : AnyName, peer : Peers]
    BY AcceptHandshakeStep DEF ServerInv, ServerTypeOK
  <2> QED BY <1>1, <2>1 DEF Listed
<1>6. /\ WellLinked(n) /\ n.client = net.client /\ n.link = net.link
      /\ n.state = net.state /\ n.to_client = net.to_client
      /\ \A c \in Clients : SameFor(net, n, c)
  BY <1>3, ReceivedLinks, ReceivedSame DEF Networks
<1> HIDE DEF n, m, k
<1>7. /\ WellLinked(net')
      /\ \A c \in Clients :
            /\ n.link[c] # p => SameFor(n, net', c)
            /\ net'.client[c] = n.client[c]
            /\ n.link[c] = p /\ n.client[c] = "connected" /\ n.state[p] = "connected"
                => /\ AnswersIn(net', c) = AnswersIn(n, c) \cup {hs}
                   /\ net'.link[c] # NoPeer =>
                         /\ net'.link[c] = p /\ net'.state[p] \in {"connected", "disconnecting"}
                         /\ Greetings(net', p) \subseteq Greetings(n, p)
  BY <1>2, <1>3, <1>5, <1>6, AnswerTells
<1>8. hs.type = "S_Handshake" /\ hs.local_player_id = player.id
  BY DEF S_Handshake
<1>9. ASSUME NEW c \in Clients PROVE ClientOK(c)'
  <2> DEFINE q == net.link[c]
  <2>0. /\ ClientOK(c) /\ calls' = calls /\ local_id' = local_id /\ username' = username
        /\ q # NoPeer => q \in Peers
    BY <1>3 DEF ClientInv, client, Networks, Nets
  <2>1. CASE q # p
    <3>1. SameFor(net, net', c)
      BY <1>6, <1>7, <2>1, SameForTwice
    <3>2. q # NoPeer /\ net.state[q] = "connected" =>
             players'[data'[q]] = players[data[q]]
      BY <1>1, <2>0, <2>1 DEF ServerInv, PeerDataMatchesPlayers, k
    <3> QED BY <2>0, <3>1, <3>2, ClientStaysOK
  <2>2. CASE q = p
    <3>1. /\ Answered(net'.client[c], calls'[c])
          /\ net'.client[c] \in {"none", "connecting"} => local_id'[c] = 0
      BY <1>6, <1>7, <2>0 DEF ClientOK
    <3>2. ASSUME net'.client[c] = "connected", net'.link[c] # NoPeer
          PROVE  Agrees(c, net.link[c])'
      <4>1. net.client[c] = "connected"
        BY <1>6, <1>7, <3>2
      <4>2. /\ \A g \in Greetings(net, p) : g.name = username[c]
            /\ AnswersIn(net, c) = {}
        <5>1. Agrees(c, p)
          BY <2>0, <2>2, <4>1 DEF ClientOK, Peers, NoPeer
        <5> QED BY <1>1, <1>3, <5>1 DEF Agrees, k
      <4>3. /\ AnswersIn(net', c) = {hs} /\ net'.link[c] = p
            /\ net'.state[p] \in {"connected", "disconnecting"}
            /\ Greetings(net', p) \subseteq Greetings(net, p)
        <5>1. AnswersIn(n, c) = {} /\ Greetings(n, p) \subseteq Greetings(net, p)
          BY <1>6, <2>2, <3>2, <4>2 DEF SameFor, Peers, NoPeer
        <5> QED BY <1>3, <1>6, <1>7, <2>2, <3>2, <4>1, <5>1
      <4>4. player.name = username[c] /\ data'[p] = k
        BY <1>1, <1>4, <4>2 DEF k
      <4> HIDE DEF hs
      <4> QED BY <1>1, <1>8, <2>0, <4>2, <4>3, <4>4 DEF Agrees
    <3> QED BY <3>1, <3>2 DEF ClientOK
  <2> QED BY <2>1, <2>2
<1> QED BY <1>7, <1>9 DEF ClientInv

\* The owner's calls disconnect and free peers, and tell the clients nothing.
LEMMA UseServerTells ==
    ASSUME ServerInv, ClientInv, UNCHANGED client, UseServer
    PROVE  ClientInv'
<1>0. /\ net \in Networks /\ WellLinked(net)
      /\ \A c \in Clients : net.link[c] # NoPeer => net.link[c] \in Peers
  BY DEF ServerInv, NetOK, Networks, Nets, ClientInv
<1>1. ASSUME StopServing PROVE ClientInv'
  <2>1. net' = PeersDisconnect(net, PlayerPeers) /\ UNCHANGED << data, players >>
    BY <1>1 DEF StopServing
  <2> QED BY <1>0, <2>1, PeersDisconnectLinks, PeersGoneSame, NothingTold DEF Networks
<1>2. ASSUME ServerDestroyed PROVE ClientInv'
  <2>1. net' = PeersFreed(net, Peers)
    BY <1>2 DEF ServerDestroyed
  <2>2. \A c \in Clients : net'.link[c] = NoPeer
    BY <1>0, <2>1, PeersFreedLinks DEF Networks
  <2> QED BY <1>0, <2>1, <2>2, PeersFreedLinks, PeersGoneSame, NothingTold DEF Networks
<1>3. ASSUME ServerCreated PROVE ClientInv'
  <2>1. net' = net /\ UNCHANGED << data, players >>
    BY <1>3 DEF ServerCreated
  <2>2. \A c \in Clients : SameFor(net, net', c)
    BY <2>1 DEF SameFor
  <2> QED BY <1>0, <2>1, <2>2, NothingTold
<1> QED BY <1>1, <1>2, <1>3 DEF UseServer

\* What ENet does by itself cuts a client off, or nothing.
LEMMA NetworkTells ==
    ASSUME ServerInv, ClientInv, UNCHANGED << server, client >>, Network
    PROVE  ClientInv'
<1>0. net \in Networks /\ WellLinked(net) /\ UNCHANGED << data, players >> /\ UNCHANGED client
  BY DEF ServerInv, NetOK, Networks, ClientInv, server
<1>1. ASSUME NEW p \in Peers, PendingVanishes(p) PROVE ClientInv'
  <2>1. net' = PeersFreed(net, {p})
    BY <1>1 DEF PendingVanishes
  <2> QED BY <1>0, <2>1, PeersFreedLinks, PeersGoneSame, NothingTold DEF Networks
<1>2. ASSUME NEW c \in Clients, DisconnectArrives(c) PROVE ClientInv'
  <2>1. net' = PeersDisconnect(net, {net.link[c]})
    BY <1>2 DEF DisconnectArrives
  <2> QED BY <1>0, <2>1, PeersDisconnectLinks, PeersGoneSame, NothingTold DEF Networks
<1> QED BY <1>1, <1>2 DEF Network

\* A client's step tells the others nothing.
LEMMA OthersNotTold ==
    ASSUME ClientInv, UNCHANGED server, WellLinked(net'), NEW c \in Clients, ClientOK(c)',
           \A d \in Clients \ {c} :
               /\ SameFor(net, net', d) /\ calls'[d] = calls[d]
               /\ local_id'[d] = local_id[d] /\ username'[d] = username[d]
    PROVE  ClientInv'
<1>1. ASSUME NEW d \in Clients \ {c} PROVE ClientOK(d)'
  <2>1. ClientOK(d) /\ players' = players /\ data' = data
    BY DEF ClientInv, server
  <2> QED BY <2>1, ClientStaysOK
<1> QED BY <1>1 DEF ClientInv

\* However a connection or the attempt to make one ends, the client is told
\* once, and forgets who it was.
LEMMA ClosingTells ==
    ASSUME IInv, ClientInv, NEW c \in Clients,
           AbortConnect(c) \/ DisconnectEvent(c) \/ DisconnectTimesOut(c) \/ ProgramRestarts(c)
    PROVE  ClientInv'
<1>0. /\ net \in Networks /\ WellLinked(net) /\ ClientOK(c)
      /\ net.client \in [Clients -> ClientStates] /\ net.link \in [Clients -> Peers \cup {NoPeer}]
      /\ username \in [Clients -> AnyName] /\ local_id \in [Clients -> AnyId]
      /\ calls \in [Clients -> Seq({"connected", "failed", "disconnected"})]
  BY DEF IInv, ServerInv, NetOK, Networks, Nets, ClientInv, ClientTypeOK
<1>1. net' = ClientCloses(net, c) /\ UNCHANGED server
  BY DEF AbortConnect, DisconnectEvent, DisconnectTimesOut, ProgramRestarts
<1>2. WellLinked(net') /\ \A d \in Clients \ {c} : SameFor(net, net', d)
  <2>1. WellLinked(net')
    BY <1>0, <1>1, ClientClosesLinks DEF Networks
  <2> QED BY <1>0, <1>1, <2>1, OtherClientSame
<1>3. net'.client[c] = "none"
  <2>1. ClientCloses(net, c).client[c] = "none"
    BY <1>0, ClientClosesLinks DEF Networks
  <2> QED BY <1>1, <2>1
<1>4. /\ \/ calls'[c] = << >> \/ calls'[c] = << "failed", "disconnected" >>
         \/ calls'[c] = << "connected", "disconnected" >>
      /\ local_id'[c] = 0
      /\ \A d \in Clients \ {c} : /\ calls'[d] = calls[d] /\ local_id'[d] = local_id[d]
                                  /\ username'[d] = username[d]
  <2>1. CASE AbortConnect(c)
    <3>1. calls[c] = << >> /\ local_id[c] = 0
      BY <1>0, <2>1 DEF AbortConnect, ClientOK, Answered
    <3> QED BY <1>0, <2>1, <3>1 DEF AbortConnect
  <2>2. CASE DisconnectEvent(c)
    <3>1. calls[c] = << "connected" >>
      BY <1>0, <2>2 DEF DisconnectEvent, ClientOK, Answered
    <3>2. /\ calls' = [calls EXCEPT ![c] = Append(calls[c], "disconnected")]
          /\ local_id' = [local_id EXCEPT ![c] = 0]
          /\ username' = [username EXCEPT ![c] = NoName]
      BY <2>2 DEF DisconnectEvent, OnDisconnect, Calls
    <3>3. Append(calls[c], "disconnected") = << "connected", "disconnected" >>
      BY <3>1, OneThenOther
    <3> QED BY <1>0, <3>2, <3>3
  <2>3. CASE DisconnectTimesOut(c)
    <3>1. calls[c] = << "connected" >>
      BY <1>0, <2>3 DEF DisconnectTimesOut, ClientOK, Answered
    <3>2. /\ calls' = [calls EXCEPT ![c] = Append(calls[c], "disconnected")]
          /\ local_id' = [local_id EXCEPT ![c] = 0]
          /\ username' = [username EXCEPT ![c] = NoName]
      BY <2>3 DEF DisconnectTimesOut, OnDisconnect, Calls
    <3>3. Append(calls[c], "disconnected") = << "connected", "disconnected" >>
      BY <3>1, OneThenOther
    <3> QED BY <1>0, <3>2, <3>3
  <2>4. CASE ProgramRestarts(c)
    BY <1>0, <2>4 DEF ProgramRestarts
  <2> QED BY <2>1, <2>2, <2>3, <2>4
<1>5. ClientOK(c)'
  BY <1>3, <1>4 DEF ClientOK, Answered
<1> QED BY <1>1, <1>2, <1>4, <1>5, OthersNotTold

\* A client that begins to connect has been told nothing yet, and one that
\* cannot is told at once.
LEMMA ConnectTells ==
    ASSUME IInv, ClientInv, NEW c \in Clients, NEW name \in Usernames[c],
           Connect(c, name) \/ ConnectFails(c, name)
    PROVE  ClientInv'
<1>0. /\ net \in Networks /\ WellLinked(net) /\ ClientOK(c) /\ net.client[c] = "none"
      /\ net.client \in [Clients -> ClientStates]
      /\ username \in [Clients -> AnyName]
      /\ calls \in [Clients -> Seq({"connected", "failed", "disconnected"})]
  BY DEF IInv, ServerInv, NetOK, Networks, Nets, ClientInv, ClientTypeOK, Connect, ConnectFails,
         CanConnect
<1>1. /\ UNCHANGED server /\ UNCHANGED local_id
      /\ \A d \in Clients \ {c} : calls'[d] = calls[d] /\ username'[d] = username[d]
  BY <1>0 DEF Connect, ConnectFails
<1>2. CASE Connect(c, name)
  <2>1. net' = ClientOpens(net, c) /\ calls'[c] = << >>
    BY <1>0, <1>2 DEF Connect
  <2>2. net'.client[c] = "connecting" /\ WellLinked(net')
    <3>1. ClientOpens(net, c).client[c] = "connecting" /\ WellLinked(ClientOpens(net, c))
      BY <1>0, ClientOpensLinks DEF Networks
    <3> QED BY <2>1, <3>1
  <2>3. \A d \in Clients \ {c} : SameFor(net, net', d)
    <3>1. \A d \in Clients : c # d => SameFor(net, ClientOpens(net, c), d)
      BY <1>0, OtherClientSame
    <3> QED BY <2>1, <3>1
  <2>4. ClientOK(c)'
    BY <1>0, <1>1, <2>1, <2>2 DEF ClientOK, Answered
  <2> QED BY <1>1, <2>2, <2>3, <2>4, OthersNotTold
<1>3. CASE ConnectFails(c, name)
  <2>1. net' = net /\ calls'[c] = << "failed" >>
    BY <1>0, <1>3 DEF ConnectFails
  <2>2. ClientOK(c)' /\ WellLinked(net')
    BY <1>0, <1>1, <2>1 DEF ClientOK, Answered
  <2>3. \A d \in Clients \ {c} : SameFor(net, net', d)
    BY <2>1 DEF SameFor
  <2> QED BY <1>1, <2>2, <2>3, OthersNotTold
<1> QED BY <1>2, <1>3

\* disconnect() tells the client nothing yet.
LEMMA DisconnectTells ==
    ASSUME IInv, ClientInv, NEW c \in Clients, Disconnect(c)
    PROVE  ClientInv'
<1>0. /\ net \in Networks /\ WellLinked(net) /\ ClientOK(c) /\ net.client[c] = "connected"
      /\ UNCHANGED server /\ net' = ClientDisconnects(net, c)
      /\ calls' = calls /\ local_id' = local_id /\ username' = username
  BY DEF IInv, ServerInv, NetOK, Networks, ClientInv, Disconnect, client
<1>1. net'.client[c] = "disconnecting" /\ WellLinked(net')
  <2>1. /\ ClientDisconnects(net, c).client[c] = "disconnecting"
        /\ WellLinked(ClientDisconnects(net, c))
    BY <1>0, ClientDisconnectsLinks DEF Networks
  <2> QED BY <1>0, <2>1
<1>2. \A d \in Clients \ {c} : SameFor(net, net', d)
  BY <1>0, OtherClientSame
<1>3. ClientOK(c)'
  BY <1>0, <1>1 DEF ClientOK, Answered
<1> QED BY <1>0, <1>1, <1>2, <1>3, OthersNotTold

\* Nor does a chat message, which is no handshake.
LEMMA SendChatTells ==
    ASSUME IInv, ClientInv, NEW c \in Clients, SendChat(c)
    PROVE  ClientInv'
<1> DEFINE m == C_ChatMessage(username[c])
<1>0. /\ net \in Networks /\ WellLinked(net) /\ ClientOK(c)
      /\ UNCHANGED server /\ net' = ClientSends(net, c, m)
      /\ calls' = calls /\ local_id' = local_id /\ username' = username
      /\ username \in [Clients -> AnyName]
  BY DEF IInv, ServerInv, NetOK, Networks, ClientInv, SendChat, ClientTypeOK
<1>1. m \in ToServer /\ m.type # "C_Handshake"
  BY <1>0, MessagesTyped DEF C_ChatMessage
<1> HIDE DEF m
<1>2. /\ WellLinked(net') /\ net'.client = net.client /\ net'.link = net.link
      /\ net'.to_client = net.to_client /\ net'.state = net.state
      /\ \A q \in Peers : \/ net'.to_server[q] = net.to_server[q]
                          \/ net'.to_server[q] = Append(net.to_server[q], m)
  BY <1>0, <1>1, ClientSendsLinks DEF Networks
<1>3. \A d \in Clients \ {c} : SameFor(net, net', d)
  BY <1>0, <1>1, OtherClientSame
<1>4. SameFor(net, net', c)
  <2>1. net.link[c] # NoPeer => net.link[c] \in Peers
    BY <1>0 DEF Networks, Nets
  <2>2. ASSUME NEW q \in Peers PROVE Greetings(net', q) = Greetings(net, q)
    <3>1. net.to_server[q] \in Seq(ToServer)
      BY <1>0 DEF Networks, Nets
    <3>2. ToSet(Append(net.to_server[q], m)) = ToSet(net.to_server[q]) \cup {m}
      BY <1>1, <3>1, QueueMessages
    <3> QED BY <1>1, <1>2, <3>2 DEF Greetings
  <2> QED BY <1>2, <2>1, <2>2 DEF SameFor, AnswersIn
<1>5. players' = players /\ data' = data
  BY <1>0 DEF server
<1>6. ClientOK(c)'
  BY <1>0, <1>4, <1>5, ClientStaysOK
<1> QED BY <1>0, <1>2, <1>3, <1>6, OthersNotTold

\* A client that is connected is told so once, and says who it is.
LEMMA ConnectEventTells ==
    ASSUME IInv, ClientInv, NEW c \in Clients, NEW p \in Peers, ConnectEvent(c, p)
    PROVE  ClientInv'
<1> DEFINE n == ClientConnects(net, c, p)
           m == C_Handshake(username[c])
<1>0. /\ net \in Networks /\ WellLinked(net) /\ ClientOK(c)
      /\ net.client[c] = "connecting" /\ net.state[p] = "free"
      /\ UNCHANGED server /\ net' = ClientSends(n, c, m)
      /\ calls' = [calls EXCEPT ![c] = Append(calls[c], "connected")]
      /\ local_id' = local_id /\ username' = username
      /\ username \in [Clients -> AnyName]
      /\ calls \in [Clients -> Seq({"connected", "failed", "disconnected"})]
  BY DEF IInv, ServerInv, NetOK, Networks, ClientInv, ConnectEvent, ClientTypeOK, Calls,
         IsFirstFree, FreePeers
<1>1. m \in ToServer /\ m.name = username[c]
  BY <1>0, MessagesTyped DEF C_Handshake
<1>2. /\ n \in Networks /\ WellLinked(n) /\ n.client[c] = "connected" /\ n.link[c] = p
      /\ n.state[p] = "pending" /\ n.to_client = net.to_client /\ n.to_server = net.to_server
  <2>1. n \in Networks
    BY <1>0, ClientConnectsIsNet DEF Networks
  <2> QED BY <1>0, <2>1, ClientConnectsLinks DEF Networks
<1>3. \A d \in Clients \ {c} : SameFor(net, n, d)
  BY <1>0, OtherClientSame
<1> HIDE DEF n, m
<1>4. /\ WellLinked(net') /\ net'.client = n.client /\ net'.link = n.link
      /\ net'.to_client = n.to_client /\ net'.state = n.state
      /\ \/ net'.to_server[p] = n.to_server[p]
         \/ net'.to_server[p] = Append(n.to_server[p], m)
  BY <1>0, <1>1, <1>2, ClientSendsLinks DEF Networks
<1>5. \A d \in Clients \ {c} : SameFor(n, net', d)
  BY <1>0, <1>1, <1>2, OtherClientSame
<1>6. \A d \in Clients \ {c} : SameFor(net, net', d)
  BY <1>3, <1>5, SameForTwice
<1>7. net.to_server[p] = << >> /\ net.to_client[c] = << >>
  BY <1>0 DEF WellLinked
<1>8. /\ ToSet(net.to_server[p]) = {} /\ ToSet(net.to_client[c]) = {}
      /\ ToSet(Append(net.to_server[p], m)) = {m}
  <2>1. ToSet(<< >>) = {}
    BY DEF ToSet
  <2>2. net.to_server[p] \in Seq(ToServer)
    BY <1>0 DEF Networks, Nets
  <2>3. ToSet(Append(net.to_server[p], m)) = ToSet(net.to_server[p]) \cup {m}
    BY <1>1, <2>2, QueueMessages
  <2> QED BY <1>7, <2>1, <2>3
<1>9. Greetings(net', p) \subseteq {m} /\ AnswersIn(net', c) = {}
  BY <1>2, <1>4, <1>8 DEF Greetings, AnswersIn
<1>10. calls'[c] = << "connected" >> /\ local_id[c] = 0
  <2>1. calls[c] = << >> /\ local_id[c] = 0
    BY <1>0 DEF ClientOK, Answered
  <2>2. Append(<< >>, "connected") = << "connected" >>
    OBVIOUS
  <2> QED BY <1>0, <2>1, <2>2
<1>11. Agrees(c, net.link[c])'
  BY <1>0, <1>1, <1>2, <1>4, <1>9, <1>10 DEF Agrees
<1>12. ClientOK(c)'
  BY <1>2, <1>4, <1>10, <1>11 DEF ClientOK, Answered
<1>13. \A d \in Clients \ {c} : calls'[d] = calls[d]
  BY <1>0
<1> QED BY <1>0, <1>4, <1>6, <1>12, <1>13, OthersNotTold

\* The answer to its handshake is the last a client reads of its id.
LEMMA ReceiveTells ==
    ASSUME IInv, ClientInv, NEW c \in Clients, Receive(c)
    PROVE  ClientInv'
<1> DEFINE q == net.to_client[c]
           m == Head(q)
<1>0. /\ net \in Networks /\ WellLinked(net) /\ ClientOK(c)
      /\ net.client[c] = "connected" /\ q # << >> /\ q \in Seq(ToClient)
      /\ UNCHANGED server /\ net' = [net EXCEPT !.to_client = [net.to_client EXCEPT ![c] = Tail(q)]]
      /\ local_id' = [local_id EXCEPT ![c] = IdAfter(local_id[c], m)]
      /\ calls' = calls /\ username' = username /\ local_id \in [Clients -> AnyId]
  BY DEF IInv, ServerInv, NetOK, Networks, Nets, ClientInv, Receive, ClientTypeOK
<1> HIDE DEF q, m
<1>1. /\ net'.client = net.client /\ net'.link = net.link /\ net'.state = net.state
      /\ net'.to_server = net.to_server
      /\ \A d \in Clients : net'.to_client[d] = IF d = c THEN Tail(q) ELSE net.to_client[d]
  BY <1>0 DEF Networks, Nets
<1>2. WellLinked(net')
  BY <1>0, <1>1 DEF WellLinked
<1>3. \A d \in Clients \ {c} : SameFor(net, net', d)
  BY <1>1 DEF SameFor, AnswersIn, Greetings
<1>4. ToSet(q) = {m} \cup ToSet(Tail(q))
  BY <1>0, QueueMessages DEF m
<1>5. \/ /\ m.type = "S_Handshake" /\ AnswersIn(net, c) = {m} \cup AnswersIn(net', c)
         /\ local_id'[c] = m.local_player_id
      \/ /\ m.type # "S_Handshake" /\ AnswersIn(net, c) = AnswersIn(net', c)
         /\ local_id'[c] = local_id[c]
  <2>1. AnswersIn(net, c) = {a \in {m} \cup ToSet(Tail(q)) : a.type = "S_Handshake"}
    BY <1>4 DEF AnswersIn, q
  <2>2. AnswersIn(net', c) = {a \in ToSet(Tail(q)) : a.type = "S_Handshake"}
    BY <1>1 DEF AnswersIn
  <2> QED BY <1>0, <2>1, <2>2 DEF IdAfter
<1>6. ASSUME net.link[c] # NoPeer PROVE Agrees(c, net.link[c])'
  <2> DEFINE p == net.link[c]
  <2>1. Agrees(c, p) /\ net'.link[c] = p /\ Greetings(net', p) = Greetings(net, p)
    BY <1>0, <1>1, <1>6 DEF ClientOK, Greetings
  <2>2. players' = players /\ data' = data
    BY <1>0 DEF server
  <2> QED BY <1>0, <1>1, <1>5, <2>1, <2>2 DEF Agrees
<1>7. ClientOK(c)'
  BY <1>0, <1>1, <1>6 DEF ClientOK
<1> QED BY <1>0, <1>2, <1>3, <1>7, OthersNotTold

\* The session begins with clients that were told nothing.
LEMMA ClientInvInit == Init => ClientInv
<1> SUFFICES ASSUME Init PROVE ClientInv
  OBVIOUS
<1>1. WellLinked(net)
  BY EmptyNetLinks DEF Init
<1>2. \A c \in Clients : net.client[c] = "none" /\ calls[c] = << >> /\ local_id[c] = 0
  BY DEF Init, ClientInit, EmptyNet
<1> QED BY <1>1, <1>2 DEF ClientInv, ClientOK, Answered

\* Any step of the session keeps what the clients are told in order.
LEMMA ClientInvStep == IInv /\ IInv' /\ ClientInv /\ [Next]_vars => ClientInv'
<1> SUFFICES ASSUME IInv, IInv', ClientInv, [Next]_vars PROVE ClientInv'
  OBVIOUS
<1>0. ServerInv /\ ServerInv'
  BY DEF IInv
<1>1. CASE (\E p \in Peers : TickServer(p)) /\ UNCHANGED client
  BY <1>0, <1>1, AdmitPeerTells, PeersGoTells, PlayerLeavesTells, AcceptHandshakeTells,
     RelayChatTells DEF TickServer
<1>2. CASE UseServer /\ UNCHANGED client
  BY <1>0, <1>2, UseServerTells
<1>3. ASSUME NEW c \in Clients, TickClient(c) PROVE ClientInv'
  BY <1>3, ClosingTells, ConnectEventTells, ReceiveTells DEF TickClient
<1>4. ASSUME NEW c \in Clients, UseClient(c) PROVE ClientInv'
  BY <1>4, ConnectTells, DisconnectTells, SendChatTells, ClosingTells DEF UseClient
<1>5. CASE Network /\ UNCHANGED << server, client >>
  BY <1>0, <1>5, NetworkTells
<1>6. CASE UNCHANGED vars
  <2>1. net' = net /\ UNCHANGED client /\ players' = players /\ data' = data
    BY <1>6 DEF vars, server
  <2>2. \A c \in Clients : SameFor(net, net', c)
    BY <2>1 DEF SameFor
  <2>3. WellLinked(net')
    BY <2>1 DEF ClientInv
  <2> QED BY <2>1, <2>2, <2>3, NothingTold
<1> QED BY <1>1, <1>2, <1>3, <1>4, <1>5, <1>6 DEF Next

\* What a client is told is in order in every state a session can reach.
THEOREM ClientsToldRight == SafeSpec => []ClientInv
  BY ClientInvInit, ClientInvStep, SessionInvariant, PTL DEF SafeSpec

\* Every connect() is answered once, and its end reported once, whichever of
\* the server, the user, the network and the timeouts ends it.
THEOREM CallbacksInOrder == SafeSpec => []CallbackProtocol
<1>1. IInv /\ ClientInv => CallbackProtocol
  <2> SUFFICES ASSUME IInv, ClientInv, NEW c \in Clients
               PROVE  CASE net.client[c] = "connecting" -> calls[c] = << >>
                        [] net.client[c] \in {"connected", "disconnecting"} ->
                              calls[c] = << "connected" >>
                        [] net.client[c] = "none" ->
                              calls[c] \in { << >>, << "failed" >>, << "failed", "disconnected" >>,
                                             << "connected", "disconnected" >> }
    BY DEF CallbackProtocol
  <2>1. net.client[c] \in ClientStates /\ Answered(net.client[c], calls[c])
    BY DEF IInv, ServerInv, NetOK, Nets, ClientInv, ClientOK
  <2> QED BY <2>1 DEF Answered, ClientStates
<1> QED BY <1>1, SessionInvariant, ClientsToldRight, PTL

\* A client and the server agree on who the client is, in every session it has
\* and whoever had its peer, its player or its id before.
THEOREM IdentitiesAgree == SafeSpec => []IdentityAgrees
<1>1. ClientInv => IdentityAgrees
  <2> SUFFICES ASSUME ClientInv, NEW c \in Clients, Live(c)
               PROVE  /\ \A m \in AnswersTo(c) : m.local_player_id = PlayerOf(c).id
                      /\ AnswersTo(c) = {} => local_id[c] = PlayerOf(c).id
                      /\ Playing(c) => PlayerOf(c).name = username[c]
    BY DEF IdentityAgrees
  <2>1. Agrees(c, net.link[c]) /\ net.state[net.link[c]] = "connected"
    BY DEF ClientInv, ClientOK, Live
  <2>2. AnswersTo(c) = AnswersIn(net, c)
    BY DEF AnswersTo, AnswersIn
  <2> QED BY <2>1, <2>2 DEF Agrees, PlayerOf, Playing
<1> QED BY <1>1, ClientsToldRight, PTL

-----------------------------------------------------------------------------
(* What a client knows of the others: its list, and what it was sent.      *)

\* Whether a name is one of those ahead of place k.
LEMMA NamesAre ==
    ASSUME NEW list, NEW q, NEW i, NEW k, NEW name
    PROVE  name \in NamesAhead(list, q, i, k) <=>
              \/ i \in DOMAIN list /\ list[i] = name /\ StaysOn(q, i, 0, k)
              \/ \E j \in 1 .. k - 1 : name \in NamesIn(q[j], i) /\ StaysOn(q, i, j, k)
  BY DEF NamesAhead

\* A message is either about the names of a player or about its end.
LEMMA NoNamesTakenOff ==
    ASSUME NEW m, NEW i, TakesOff(m, i)
    PROVE  NamesIn(m, i) = {}
  BY DEF TakesOff, NamesIn

\* Nothing has been read ahead of the first place.
LEMMA NamesOnList ==
    ASSUME NEW list, NEW q, NEW i
    PROVE  NamesAhead(list, q, i, 1) = IF i \in DOMAIN list THEN {list[i]} ELSE {}
  BY DEF NamesAhead, StaysOn

\* A message that is sent changes nothing ahead of it.
LEMMA NamesBefore ==
    ASSUME NEW list, NEW q \in Seq(ToClient), NEW m \in ToClient, NEW i, NEW k \in 1 .. Len(q) + 1
    PROVE  NamesAhead(list, Append(q, m), i, k) = NamesAhead(list, q, i, k)
<1> DEFINE r == Append(q, m)
           L == Len(q)
<1>1. L \in Nat /\ \A j \in 1 .. L : r[j] = q[j]
  OBVIOUS
<1> HIDE DEF r, L
<1>2. k \in 1 .. L + 1
  BY DEF L
<1>3. ASSUME NEW j \in 0 .. k - 1
      PROVE  StaysOn(r, i, j, k) <=> StaysOn(q, i, j, k)
  <2>1. \A l \in j + 1 .. k - 1 : l \in 1 .. L
    BY <1>1, <1>2
  <2> QED BY <1>1, <2>1 DEF StaysOn
<1>4. ASSUME NEW name
      PROVE  name \in NamesAhead(list, r, i, k) <=> name \in NamesAhead(list, q, i, k)
  <2>1. 0 \in 0 .. k - 1 /\ \A j \in 1 .. k - 1 : j \in 0 .. k - 1 /\ r[j] = q[j]
    BY <1>1, <1>2
  <2>2. StaysOn(r, i, 0, k) <=> StaysOn(q, i, 0, k)
    BY <1>3, <2>1
  <2>3. \A j \in 1 .. k - 1 : StaysOn(r, i, j, k) <=> StaysOn(q, i, j, k)
    BY <1>3, <2>1
  <2> QED BY <2>1, <2>2, <2>3, NamesAre
<1>5. NamesAhead(list, r, i, k) = NamesAhead(list, q, i, k)
  BY <1>4
<1> QED BY <1>5 DEF r

\* It adds its names behind those that are there, or ends them.
LEMMA AppendNames ==
    ASSUME NEW list, NEW q \in Seq(ToClient), NEW m \in ToClient, NEW i
    PROVE  /\ TakesOff(m, i) => NamesAhead(list, Append(q, m), i, Len(q) + 2) = {}
           /\ ~TakesOff(m, i) => NamesAhead(list, Append(q, m), i, Len(q) + 2) =
                                    NamesAhead(list, q, i, Len(q) + 1) \cup NamesIn(m, i)
<1> DEFINE r == Append(q, m)
           L == Len(q)
<1>1. /\ L \in Nat /\ r[L + 1] = m
      /\ \A j \in 1 .. L : r[j] = q[j]
  OBVIOUS
<1> HIDE DEF r, L
<1>2. ASSUME NEW j \in 0 .. L
      PROVE  StaysOn(r, i, j, L + 2) <=> StaysOn(q, i, j, L + 1) /\ ~TakesOff(m, i)
  <2>1. /\ \A l : l \in j + 1 .. (L + 2) - 1 => l \in j + 1 .. (L + 1) - 1 \/ l = L + 1
        /\ L + 1 \in j + 1 .. (L + 2) - 1
        /\ \A l \in j + 1 .. (L + 1) - 1 : l \in j + 1 .. (L + 2) - 1
    BY <1>1
  <2>2. \A l \in j + 1 .. (L + 1) - 1 : r[l] = q[l]
    BY <1>1
  <2>3. ASSUME StaysOn(r, i, j, L + 2)
        PROVE  StaysOn(q, i, j, L + 1) /\ ~TakesOff(m, i)
    <3>1. ~TakesOff(r[L + 1], i)
      BY <2>1, <2>3, Zenon DEF StaysOn
    <3>2. ASSUME NEW l \in j + 1 .. (L + 1) - 1
          PROVE  ~TakesOff(q[l], i)
      <4>1. ~TakesOff(r[l], i)
        BY <2>1, <2>3, Zenon DEF StaysOn
      <4> QED BY <2>2, <4>1
    <3>3. ~TakesOff(m, i)
      BY <1>1, <3>1
    <3> QED BY <3>2, <3>3 DEF StaysOn
  <2>4. ASSUME StaysOn(q, i, j, L + 1), ~TakesOff(m, i)
        PROVE  StaysOn(r, i, j, L + 2)
    <3>1. ASSUME NEW l \in j + 1 .. (L + 2) - 1
          PROVE  ~TakesOff(r[l], i)
      <4>1. CASE l \in j + 1 .. (L + 1) - 1
        <5>1. ~TakesOff(q[l], i)
          BY <4>1, <2>4, Zenon DEF StaysOn
        <5> QED BY <2>2, <4>1, <5>1
      <4>2. CASE l = L + 1
        BY <1>1, <2>4, <4>2
      <4> QED BY <2>1, <4>1, <4>2
    <3> QED BY <3>1 DEF StaysOn
  <2> QED BY <2>3, <2>4, Zenon
<1>3. StaysOn(r, i, L + 1, L + 2)
  BY <1>1 DEF StaysOn
<1>4. ASSUME NEW name
      PROVE  name \in NamesAhead(list, r, i, L + 2) <=>
                 \/ ~TakesOff(m, i) /\ name \in NamesAhead(list, q, i, L + 1)
                 \/ name \in NamesIn(m, i)
  <2>1. 1 .. (L + 2) - 1 = (1 .. (L + 1) - 1) \cup {L + 1}
    BY <1>1
  <2>2. 0 \in 0 .. L /\ \A j \in 1 .. (L + 1) - 1 : j \in 0 .. L /\ r[j] = q[j]
    BY <1>1
  <2>3. StaysOn(r, i, 0, L + 2) <=> StaysOn(q, i, 0, L + 1) /\ ~TakesOff(m, i)
    BY <1>2, <2>2
  <2>4. \A j \in 1 .. (L + 1) - 1 :
            StaysOn(r, i, j, L + 2) <=> StaysOn(q, i, j, L + 1) /\ ~TakesOff(m, i)
    BY <1>2, <2>2
  <2> QED BY <1>1, <1>3, <2>1, <2>2, <2>3, <2>4, NamesAre
<1>5. /\ TakesOff(m, i) => NamesAhead(list, r, i, L + 2) = {}
      /\ ~TakesOff(m, i) => NamesAhead(list, r, i, L + 2) =
                                NamesAhead(list, q, i, L + 1) \cup NamesIn(m, i)
  BY <1>4, NoNamesTakenOff
<1> QED BY <1>5 DEF r, L

\* What reading a message does to an entry of the list.
LEMMA ListEntryAfter ==
    ASSUME NEW list, NEW m \in ToClient, NEW i
    PROVE  LET after == ListAfter(list, m)
           IN  /\ TakesOff(m, i) => i \notin DOMAIN after
               /\ ~TakesOff(m, i) =>
                    /\ i \in DOMAIN after <=> i \in DOMAIN list \/ NamesIn(m, i) # {}
                    /\ i \in DOMAIN after =>
                          \/ i \in DOMAIN list /\ after[i] = list[i]
                          \/ after[i] \in NamesIn(m, i)
<1> DEFINE after == ListAfter(list, m)
<1>1. CASE m.type = "S_ClientConnected"
  <2>1. after = Inserted(list, [j \in {m.id} |-> m.name])
    BY <1>1 DEF ListAfter
  <2>2. NamesIn(m, i) = IF m.id = i THEN {m.name} ELSE {}
    BY <1>1 DEF NamesIn
  <2> QED BY <1>1, <2>1, <2>2 DEF Inserted, TakesOff
<1>2. CASE m.type = "S_ClientDisconnected"
  <2>1. after = [j \in DOMAIN list \cap (DOMAIN list \ {m.player}) |-> list[j]]
    BY <1>2 DEF ListAfter, Restrict
  <2>2. NamesIn(m, i) = {}
    BY <1>2 DEF NamesIn
  <2> QED BY <1>2, <2>1, <2>2 DEF TakesOff
<1>3. CASE m.type = "S_PlayerList"
  <2> DEFINE ids == {e.id : e \in m.players}
             entry(j) == CHOOSE e \in m.players : e.id = j
             new == [j \in ids |-> entry(j).name]
  <2>1. after = Inserted(list, new)
    BY <1>3 DEF ListAfter
  <2>2. NamesIn(m, i) = {e.name : e \in {f \in m.players : f.id = i}}
    BY <1>3 DEF NamesIn
  <2>3. i \in ids => entry(i) \in m.players /\ entry(i).id = i
    OBVIOUS
  <2>4. i \in ids <=> NamesIn(m, i) # {}
    BY <2>2
  <2> HIDE DEF entry
  <2>5. i \in ids => new[i] \in NamesIn(m, i)
    BY <2>2, <2>3
  <2>6. DOMAIN new = ids
    OBVIOUS
  <2> HIDE DEF new, ids
  <2> QED BY <1>3, <2>1, <2>4, <2>5, <2>6 DEF Inserted, TakesOff
<1>4. CASE m.type \notin {"S_ClientConnected", "S_ClientDisconnected", "S_PlayerList"}
  BY <1>4 DEF ListAfter, NamesIn, TakesOff
<1> QED BY <1>1, <1>2, <1>3, <1>4

\* Reading a message moves what it says to the list: what a client knows ahead
\* of a place can only become more certain, and is not lost.
LEMMA TailNames ==
    ASSUME NEW list, NEW q \in Seq(ToClient), q # << >>, NEW i, NEW k \in 1 .. Len(q)
    PROVE  LET now == NamesAhead(ListAfter(list, Head(q)), Tail(q), i, k)
               before == NamesAhead(list, q, i, k + 1)
           IN  now \subseteq before /\ (now = {} => before = {})
<1> DEFINE m == Head(q)
           r == Tail(q)
           after == ListAfter(list, m)
<1>1. /\ m \in ToClient /\ m = q[1] /\ k \in Nat /\ k >= 1
      /\ \A j \in 1 .. k - 1 : r[j] = q[j + 1]
  OBVIOUS
<1>2. /\ TakesOff(m, i) => i \notin DOMAIN after
      /\ ~TakesOff(m, i) =>
            /\ i \in DOMAIN after <=> i \in DOMAIN list \/ NamesIn(m, i) # {}
            /\ i \in DOMAIN after =>
                  \/ i \in DOMAIN list /\ after[i] = list[i]
                  \/ after[i] \in NamesIn(m, i)
  BY <1>1, ListEntryAfter
<1> HIDE DEF m, r, after
<1>3. ASSUME NEW j \in 0 .. k - 1
      PROVE  StaysOn(r, i, j, k) <=> StaysOn(q, i, j + 1, k + 1)
  <2>1. ASSUME StaysOn(r, i, j, k), NEW l \in j + 1 + 1 .. k + 1 - 1
        PROVE  ~TakesOff(q[l], i)
    <3>1. l - 1 \in j + 1 .. k - 1 /\ l - 1 \in 1 .. k - 1 /\ l = (l - 1) + 1
      BY <1>1
    <3> QED BY <1>1, <2>1, <3>1 DEF StaysOn
  <2>2. ASSUME StaysOn(q, i, j + 1, k + 1), NEW l \in j + 1 .. k - 1
        PROVE  ~TakesOff(r[l], i)
    <3>1. l + 1 \in j + 1 + 1 .. k + 1 - 1 /\ l \in 1 .. k - 1
      BY <1>1
    <3> QED BY <1>1, <2>2, <3>1 DEF StaysOn
  <2> QED BY <2>1, <2>2 DEF StaysOn
<1>4. StaysOn(q, i, 0, k + 1) <=> ~TakesOff(m, i) /\ StaysOn(r, i, 0, k)
  <2>1. 0 + 1 .. k + 1 - 1 = {1} \cup (1 + 1 .. k + 1 - 1)
    BY <1>1
  <2>2. StaysOn(q, i, 0, k + 1) <=> ~TakesOff(q[1], i) /\ StaysOn(q, i, 1, k + 1)
    BY <2>1 DEF StaysOn
  <2>3. StaysOn(r, i, 0, k) <=> StaysOn(q, i, 0 + 1, k + 1)
    BY <1>1, <1>3
  <2> QED BY <1>1, <2>2, <2>3
<1>5. StaysOn(q, i, 1, k + 1) <=> StaysOn(r, i, 0, k)
  <2>1. 0 \in 0 .. k - 1 /\ 0 + 1 = 1
    BY <1>1
  <2> QED BY <1>3, <2>1
<1> DEFINE Later(name) == \E j \in 1 .. k - 1 : name \in NamesIn(r[j], i) /\ StaysOn(r, i, j, k)
           First(name) == name \in NamesIn(m, i) /\ StaysOn(r, i, 0, k)
<1>6. ASSUME NEW name
      PROVE  (\E j \in 1 .. k + 1 - 1 : name \in NamesIn(q[j], i) /\ StaysOn(q, i, j, k + 1))
             <=> First(name) \/ Later(name)
  <2>1. ASSUME NEW j \in 1 .. k - 1
        PROVE  /\ r[j] = q[j + 1] /\ j + 1 \in 1 .. k + 1 - 1
               /\ StaysOn(r, i, j, k) <=> StaysOn(q, i, j + 1, k + 1)
    BY <1>1, <1>3
  <2>2. \A j \in 1 .. k + 1 - 1 : j = 1 \/ (j - 1 \in 1 .. k - 1 /\ (j - 1) + 1 = j)
    BY <1>1
  <2>3. 1 \in 1 .. k + 1 - 1
    BY <1>1
  <2> QED BY <1>1, <1>5, <2>1, <2>2, <2>3
<1>7. ASSUME NEW name
      PROVE  name \in NamesAhead(list, q, i, k + 1) <=>
                   \/ i \in DOMAIN list /\ list[i] = name /\ ~TakesOff(m, i)
                      /\ StaysOn(r, i, 0, k)
                   \/ First(name) \/ Later(name)
  <2>1. name \in NamesAhead(list, q, i, k + 1) <=>
            \/ i \in DOMAIN list /\ list[i] = name /\ StaysOn(q, i, 0, k + 1)
            \/ \E j \in 1 .. k + 1 - 1 : name \in NamesIn(q[j], i) /\ StaysOn(q, i, j, k + 1)
    BY NamesAre
  <2> HIDE DEF First, Later
  <2> QED BY <1>4, <1>6, <2>1
<1>8. \A name : name \in NamesAhead(after, r, i, k) <=>
                   \/ i \in DOMAIN after /\ after[i] = name /\ StaysOn(r, i, 0, k)
                   \/ Later(name)
  BY NamesAre
<1>9. NamesAhead(after, r, i, k) \subseteq NamesAhead(list, q, i, k + 1)
  BY <1>2, <1>7, <1>8
<1>10. ASSUME NamesAhead(after, r, i, k) = {} PROVE NamesAhead(list, q, i, k + 1) = {}
  BY <1>2, <1>7, <1>8, <1>10, NoNamesTakenOff
<1> QED BY <1>9, <1>10 DEF after, r, m

-----------------------------------------------------------------------------
(* What a client will have heard of a player once its queue is read, and  *)
(* under which name it will show a chat message.                           *)

\* All that a client with this list and this queue has heard of player i.
Heard(list, q, i) == NamesAhead(list, q, i, Len(q) + 1)

\* A message that is sent is heard.
LEMMA AppendHeard ==
    ASSUME NEW list, NEW q \in Seq(ToClient), NEW m \in ToClient, NEW i
    PROVE  /\ TakesOff(m, i) => Heard(list, Append(q, m), i) = {}
           /\ ~TakesOff(m, i) =>
                 Heard(list, Append(q, m), i) = Heard(list, q, i) \cup NamesIn(m, i)
<1> DEFINE r == Append(q, m)
           L == Len(q)
<1>1. L \in Nat /\ Len(r) = L + 1
  OBVIOUS
<1>2. /\ TakesOff(m, i) => NamesAhead(list, r, i, L + 2) = {}
      /\ ~TakesOff(m, i) => NamesAhead(list, r, i, L + 2) =
                                NamesAhead(list, q, i, L + 1) \cup NamesIn(m, i)
  BY AppendNames
<1> HIDE DEF r, L
<1>3. Heard(list, r, i) = NamesAhead(list, r, i, L + 2)
  <2>1. Len(r) + 1 = L + 2
    BY <1>1
  <2> QED BY <2>1 DEF Heard
<1>4. Heard(list, q, i) = NamesAhead(list, q, i, L + 1)
  BY DEF Heard, L
<1> QED BY <1>2, <1>3, <1>4 DEF r

\* A message that is read was heard before.
LEMMA TailHeard ==
    ASSUME NEW list, NEW q \in Seq(ToClient), q # << >>, NEW i
    PROVE  LET now == Heard(ListAfter(list, Head(q)), Tail(q), i)
           IN  now \subseteq Heard(list, q, i) /\ (now = {} => Heard(list, q, i) = {})
<1>1. Len(q) \in Nat /\ Len(q) \in 1 .. Len(q) /\ Len(Tail(q)) + 1 = Len(q)
  OBVIOUS
<1> QED BY <1>1, TailNames DEF Heard

\* The chat messages of a queue will be shown under the names of their authors,
\* or as of an unknown sender by a client that has no id by then.
ChatRight(list, q, id) ==
    \A k \in 1 .. Len(q) :
        q[k].type = "S_ChatMessage" =>
            LET names == NamesAhead(list, q, q[k].sender, k)
            IN  /\ names \subseteq {q[k].author}
                /\ names = {} => id = 0 /\ \A j \in 1 .. k - 1 : q[j].type # "S_Handshake"

\* A chat message may be sent to who knows its author by name, or has no id.
MayRead(list, q, id, m) ==
    /\ Heard(list, q, m.sender) \subseteq {m.author}
    /\ Heard(list, q, m.sender) = {} =>
           id = 0 /\ \A j \in 1 .. Len(q) : q[j].type # "S_Handshake"

\* What is sent after a chat message does not change how it is shown.
LEMMA AppendChat ==
    ASSUME NEW list, NEW q \in Seq(ToClient), NEW id, NEW m \in ToClient,
           ChatRight(list, q, id), m.type = "S_ChatMessage" => MayRead(list, q, id, m)
    PROVE  ChatRight(list, Append(q, m), id)
<1> DEFINE r == Append(q, m)
           L == Len(q)
<1>1. /\ L \in Nat /\ Len(r) = L + 1 /\ r[L + 1] = m
      /\ \A j \in 1 .. L : r[j] = q[j]
  OBVIOUS
<1>2. ASSUME NEW i, NEW k \in 1 .. L + 1
      PROVE  NamesAhead(list, r, i, k) = NamesAhead(list, q, i, k)
  BY NamesBefore
<1> HIDE DEF r, L
<1> SUFFICES ASSUME NEW k \in 1 .. L + 1, r[k].type = "S_ChatMessage"
             PROVE  LET names == NamesAhead(list, r, r[k].sender, k)
                    IN  /\ names \subseteq {r[k].author}
                        /\ names = {} =>
                              id = 0 /\ \A j \in 1 .. k - 1 : r[j].type # "S_Handshake"
  BY <1>1 DEF ChatRight, r
<1>3. \A j \in 1 .. k - 1 : j \in 1 .. L /\ r[j] = q[j]
  BY <1>1
<1>4. CASE k = L + 1
  <2>1. m.type = "S_ChatMessage" /\ MayRead(list, q, id, m)
    BY <1>1, <1>4
  <2>2. NamesAhead(list, r, m.sender, k) = Heard(list, q, m.sender)
    BY <1>2, <1>4 DEF Heard, L
  <2> QED BY <1>1, <1>3, <1>4, <2>1, <2>2 DEF MayRead, L
<1>5. CASE k \in 1 .. L
  <2>1. r[k] = q[k] /\ NamesAhead(list, r, q[k].sender, k) = NamesAhead(list, q, q[k].sender, k)
    BY <1>1, <1>2, <1>5
  <2> QED BY <1>3, <1>5, <2>1 DEF ChatRight, L
<1> QED BY <1>1, <1>4, <1>5

\* Nor does reading what is ahead of it.
LEMMA TailChat ==
    ASSUME NEW list, NEW q \in Seq(ToClient), q # << >>, NEW id, ChatRight(list, q, id)
    PROVE  ChatRight(ListAfter(list, Head(q)), Tail(q), IdAfter(id, Head(q)))
<1> DEFINE r == Tail(q)
           after == ListAfter(list, Head(q))
<1>1. /\ Len(q) \in Nat /\ Len(r) = Len(q) - 1 /\ Head(q) = q[1]
      /\ \A j \in 1 .. Len(r) : r[j] = q[j + 1] /\ j + 1 \in 1 .. Len(q) /\ j \in 1 .. Len(q)
  OBVIOUS
<1>2. ASSUME NEW i, NEW k \in 1 .. Len(q)
      PROVE  /\ NamesAhead(after, r, i, k) \subseteq NamesAhead(list, q, i, k + 1)
             /\ NamesAhead(after, r, i, k) = {} => NamesAhead(list, q, i, k + 1) = {}
  BY TailNames
<1> HIDE DEF r, after
<1> SUFFICES ASSUME NEW k \in 1 .. Len(r), r[k].type = "S_ChatMessage"
             PROVE  LET names == NamesAhead(after, r, r[k].sender, k)
                    IN  /\ names \subseteq {r[k].author}
                        /\ names = {} => /\ IdAfter(id, Head(q)) = 0
                                         /\ \A j \in 1 .. k - 1 : r[j].type # "S_Handshake"
  BY DEF ChatRight, r, after
<1> DEFINE names == NamesAhead(list, q, r[k].sender, k + 1)
<1>3. /\ names \subseteq {r[k].author}
      /\ names = {} => id = 0 /\ \A j \in 1 .. (k + 1) - 1 : q[j].type # "S_Handshake"
  <2>1. r[k] = q[k + 1] /\ k + 1 \in 1 .. Len(q)
    BY <1>1
  <2> QED BY <2>1 DEF ChatRight
<1>4. ASSUME names = {}
      PROVE  IdAfter(id, Head(q)) = 0 /\ \A j \in 1 .. k - 1 : r[j].type # "S_Handshake"
  <2>1. 1 \in 1 .. (k + 1) - 1
    BY <1>1
  <2>2. Head(q).type # "S_Handshake" /\ id = 0
    BY <1>1, <1>3, <1>4, <2>1
  <2>3. ASSUME NEW j \in 1 .. k - 1 PROVE r[j].type # "S_Handshake"
    <3>1. j + 1 \in 1 .. (k + 1) - 1 /\ j \in 1 .. Len(r)
      BY <1>1
    <3> QED BY <1>1, <1>3, <1>4, <3>1
  <2> QED BY <2>2, <2>3 DEF IdAfter
<1>5. k \in 1 .. Len(q)
  BY <1>1
<1>6. /\ NamesAhead(after, r, r[k].sender, k) \subseteq names
      /\ NamesAhead(after, r, r[k].sender, k) = {} => names = {}
  BY <1>2, <1>5
<1> HIDE DEF names
<1> QED BY <1>3, <1>4, <1>6

-----------------------------------------------------------------------------
(* The same against the server's members: every name heard is the right    *)
(* one, and a player has heard all of them.                                *)

\* What a list of members says of player i.
NamedIn(members, i) == IF i \in DOMAIN members THEN {members[i]} ELSE {}

\* A client with this list, queue and player id has heard no name but the right
\* one of any player, and those of all of them when it is a player itself.
Knows(list, q, id, members) ==
    \A i \in Ids : /\ Heard(list, q, i) \subseteq NamedIn(members, i)
                   /\ id # 0 => Heard(list, q, i) = NamedIn(members, i)

\* A client that has been told nothing.
LEMMA KnowsNobody ==
    ASSUME NEW members
    PROVE  Knows(<< >>, << >>, 0, members)
<1>1. ASSUME NEW i PROVE Heard(<< >>, << >>, i) = {}
  <2>1. Len(<< >>) + 1 = 1 /\ i \notin DOMAIN << >>
    OBVIOUS
  <2>2. Heard(<< >>, << >>, i) = NamesAhead(<< >>, << >>, i, 1)
    BY <2>1 DEF Heard
  <2> QED BY <2>1, <2>2, NamesOnList
<1> QED BY <1>1 DEF Knows

\* A message that names nobody.
LEMMA KnowsAfterOther ==
    ASSUME NEW list, NEW q \in Seq(ToClient), NEW m \in ToClient, NEW id, NEW members,
           m.type \in {"S_ChatMessage", "S_Handshake"}, Knows(list, q, id, members)
    PROVE  Knows(list, Append(q, m), id, members)
<1> SUFFICES ASSUME NEW i \in Ids
             PROVE  Heard(list, Append(q, m), i) = Heard(list, q, i)
  BY DEF Knows
<1>1. ~TakesOff(m, i) /\ NamesIn(m, i) = {}
  BY DEF TakesOff, NamesIn
<1>2. Heard(list, Append(q, m), i) = Heard(list, q, i) \cup NamesIn(m, i)
  BY <1>1, AppendHeard
<1> QED BY <1>1, <1>2

\* A player that leaves, and is reported.
LEMMA KnowsAfterLeave ==
    ASSUME NEW list, NEW q \in Seq(ToClient), NEW k \in AnyId, NEW id, NEW members, NEW left,
           left = [i \in DOMAIN members \ {k} |-> members[i]], Knows(list, q, id, members)
    PROVE  Knows(list, Append(q, S_ClientDisconnected(k)), id, left)
<1> DEFINE m == S_ClientDisconnected(k)
<1>1. m \in ToClient /\ \A i : (TakesOff(m, i) <=> i = k) /\ NamesIn(m, i) = {}
  BY MessagesTyped DEF TakesOff, NamesIn, S_ClientDisconnected
<1> HIDE DEF m
<1>2. ASSUME NEW i \in Ids
      PROVE  /\ Heard(list, Append(q, m), i) \subseteq NamedIn(left, i)
             /\ id # 0 => Heard(list, Append(q, m), i) = NamedIn(left, i)
  <2>1. CASE i = k
    <3>1. Heard(list, Append(q, m), i) = {}
      BY <1>1, <2>1, AppendHeard
    <3>2. NamedIn(left, i) = {}
      BY <2>1 DEF NamedIn
    <3> QED BY <3>1, <3>2
  <2>2. CASE i # k
    <3>1. Heard(list, Append(q, m), i) = Heard(list, q, i) \cup NamesIn(m, i)
      BY <1>1, <2>2, AppendHeard
    <3>2. NamedIn(left, i) = NamedIn(members, i)
      BY <2>2 DEF NamedIn
    <3> QED BY <1>1, <3>1, <3>2 DEF Knows
  <2> QED BY <2>1, <2>2
<1> QED BY <1>2 DEF Knows, m

\* What the members say after player k has joined them.
LEMMA JoinedNames ==
    ASSUME NEW members, NEW k, k \notin DOMAIN members, NEW name, NEW i
    PROVE  NamedIn(Joined(members, k, name), i) =
               NamedIn(members, i) \cup (IF i = k THEN {name} ELSE {})
  BY DEF NamedIn, Joined

\* A player that joins, and is reported to those that have been told of all
\* others, or of some.
LEMMA KnowsAfterJoin ==
    ASSUME NEW list, NEW q \in Seq(ToClient), NEW k \in AnyId, NEW name \in AnyName,
           NEW id, NEW members, k \notin DOMAIN members, Knows(list, q, id, members)
    PROVE  Knows(list, Append(q, S_ClientConnected(k, name)), id, Joined(members, k, name))
<1> DEFINE m == S_ClientConnected(k, name)
           all == Joined(members, k, name)
<1>1. /\ m \in ToClient
      /\ \A i : ~TakesOff(m, i) /\ NamesIn(m, i) = IF i = k THEN {name} ELSE {}
  BY MessagesTyped DEF TakesOff, NamesIn, S_ClientConnected
<1>2. ASSUME NEW i \in Ids
      PROVE  NamedIn(all, i) = NamedIn(members, i) \cup (IF i = k THEN {name} ELSE {})
  BY JoinedNames
<1> HIDE DEF m, all
<1>3. ASSUME NEW i \in Ids
      PROVE  /\ Heard(list, Append(q, m), i) \subseteq NamedIn(all, i)
             /\ id # 0 => Heard(list, Append(q, m), i) = NamedIn(all, i)
  <2>1. Heard(list, Append(q, m), i) = Heard(list, q, i) \cup NamesIn(m, i)
    BY <1>1, AppendHeard
  <2> QED BY <1>1, <1>2, <2>1 DEF Knows
<1> QED BY <1>3 DEF Knows, m, all

\* The answer to the handshake of the player that joins lists them all.
LEMMA KnowsAfterAnswer ==
    ASSUME NEW list, NEW q \in Seq(ToClient), NEW k \in AnyId, NEW name \in AnyName,
           NEW all \in SUBSET [id : AnyId, name : AnyName],
           NEW members, k \notin DOMAIN members, Knows(list, q, 0, members),
           \A i \in Ids : {e.name : e \in {f \in all : f.id = i}} =
                              NamedIn(Joined(members, k, name), i)
    PROVE  Knows(list, Append(Append(Append(q, S_Handshake(k)), S_PlayerList(all)),
                              S_ClientConnected(k, name)),
                 k, Joined(members, k, name))
<1> DEFINE hs == S_Handshake(k)
           pl == S_PlayerList(all)
           cc == S_ClientConnected(k, name)
           now == Joined(members, k, name)
           q1 == Append(q, hs)
           q2 == Append(q1, pl)
           q3 == Append(q2, cc)
<1>1. /\ hs \in ToClient /\ pl \in ToClient /\ cc \in ToClient
      /\ hs.type = "S_Handshake"
      /\ \A i : /\ ~TakesOff(pl, i) /\ ~TakesOff(cc, i)
                /\ NamesIn(pl, i) = {e.name : e \in {f \in all : f.id = i}}
                /\ NamesIn(cc, i) = IF i = k THEN {name} ELSE {}
  BY MessagesTyped DEF TakesOff, NamesIn, S_Handshake, S_PlayerList, S_ClientConnected
<1>2. ASSUME NEW i \in Ids
      PROVE  NamedIn(now, i) = NamedIn(members, i) \cup (IF i = k THEN {name} ELSE {})
  BY JoinedNames
<1>3. ASSUME NEW i \in Ids
      PROVE  {e.name : e \in {f \in all : f.id = i}} = NamedIn(now, i)
  OBVIOUS
<1> HIDE DEF hs, pl, cc, now
<1>4. q1 \in Seq(ToClient) /\ Knows(list, q1, 0, members)
  BY <1>1, KnowsAfterOther
<1> HIDE DEF q1
<1>5. q2 \in Seq(ToClient) /\ \A i \in Ids : Heard(list, q2, i) = NamedIn(now, i)
  <2>1. ASSUME NEW i \in Ids PROVE Heard(list, q2, i) = NamedIn(now, i)
    <3>1. Heard(list, q2, i) = Heard(list, q1, i) \cup NamesIn(pl, i)
      BY <1>1, <1>4, AppendHeard
    <3>2. NamesIn(pl, i) = NamedIn(now, i)
      BY <1>1, <1>3
    <3>3. Heard(list, q1, i) \subseteq NamedIn(members, i)
      BY <1>4 DEF Knows
    <3> QED BY <1>2, <3>1, <3>2, <3>3
  <2> QED BY <1>1, <1>4, <2>1
<1> HIDE DEF q2
<1>6. ASSUME NEW i \in Ids PROVE Heard(list, q3, i) = NamedIn(now, i)
  <2>1. Heard(list, q3, i) = Heard(list, q2, i) \cup NamesIn(cc, i)
    BY <1>1, <1>5, AppendHeard
  <2> QED BY <1>1, <1>2, <1>5, <2>1
<1>7. Knows(list, q3, k, now)
  <2> HIDE DEF q3
  <2> QED BY <1>6 DEF Knows
<1> QED BY <1>7 DEF hs, pl, cc, now, q1, q2, q3

\* Reading moves what is known from the queue to the list.
LEMMA KnowsAfterRead ==
    ASSUME NEW list, NEW q \in Seq(ToClient), q # << >>, NEW id, NEW members,
           Knows(list, q, id, members)
    PROVE  Knows(ListAfter(list, Head(q)), Tail(q), id, members)
<1> SUFFICES ASSUME NEW i \in Ids
             PROVE  Heard(ListAfter(list, Head(q)), Tail(q), i) = Heard(list, q, i)
  BY DEF Knows
<1> DEFINE now == Heard(ListAfter(list, Head(q)), Tail(q), i)
<1>1. now \subseteq Heard(list, q, i) /\ (now = {} => Heard(list, q, i) = {})
  BY TailHeard
<1>2. Heard(list, q, i) \subseteq NamedIn(members, i)
  BY DEF Knows
<1> HIDE DEF now
<1>3. now = Heard(list, q, i)
  BY <1>1, <1>2 DEF NamedIn
<1> QED BY <1>3 DEF now

-----------------------------------------------------------------------------
(* The invariant of the roster. A client that is in its second session may *)
(* still have the list of its first, so only the first session counts.     *)

\* The name a message to the server is sent under.
NameOn(m) == IF m.type = "C_Handshake" THEN m.name ELSE m.author

\* Whatever is queued at peer p was sent under this name: it is that of its
\* player, once it has an id, and that of its client, as long as it has one.
SpeaksAs(p, name) ==
    /\ \A m \in ToSet(net.to_server[p]) : NameOn(m) = name
    /\ net.state[p] = "connected" /\ players[data[p]].id # 0 => players[data[p]].name = name
    /\ net.state[p] \in {"pending", "connected"} =>
           \A c \in Clients : net.client[c] = "connected" /\ net.link[c] = p
                               => username[c] = name

OneVoice(p) == \E name \in AnyName : SpeaksAs(p, name)

\* A client's first session: what it knows, and how the chat sent to it will
\* be shown.
FirstSession(c) ==
    /\ ChatRight(remote_players[c], net.to_client[c], local_id[c])
    /\ net.link[c] # NoPeer =>
        /\ net.state[net.link[c]] = "pending" =>
               remote_players[c] = << >> /\ net.to_client[c] = << >>
        /\ net.state[net.link[c]] = "connected" =>
               Knows(remote_players[c], net.to_client[c], PlayerOf(c).id, Members)

RosterOK(c) ==
    /\ sessions[c] = 0 => remote_players[c] = << >> /\ net.client[c] \in {"none", "connecting"}
    /\ sessions[c] = 1 /\ net.client[c] = "connected" => FirstSession(c)

RosterInv == (\A p \in Peers : OneVoice(p)) /\ \A c \in Clients : RosterOK(c)

\* Nobody else speaks at a peer where nothing is sent and nobody begins to.
LEMMA VoiceStays ==
    ASSUME NEW p \in Peers, OneVoice(p), ToSet(net'.to_server[p]) \subseteq ToSet(net.to_server[p]),
           net'.state[p] = "connected" /\ players'[data'[p]].id # 0 =>
               /\ net.state[p] = "connected" /\ players[data[p]].id # 0
               /\ players'[data'[p]].name = players[data[p]].name,
           net'.state[p] \in {"pending", "connected"} =>
               /\ net.state[p] \in {"pending", "connected"}
               /\ \A c \in Clients :
                    net'.client[c] = "connected" /\ net'.link[c] = p =>
                        /\ net.client[c] = "connected" /\ net.link[c] = p
                        /\ username'[c] = username[c]
    PROVE  OneVoice(p)'
<1>1. PICK name \in AnyName : SpeaksAs(p, name)
  BY DEF OneVoice
<1>2. SpeaksAs(p, name)'
  BY <1>1 DEF SpeaksAs
<1> QED BY <1>2 DEF OneVoice

\* A client whose list and queue stay as they are is told the truth as long as
\* the server's players stay as they are, or it is cut off.
LEMMA RosterStays ==
    ASSUME NEW c \in Clients, RosterOK(c),
           net'.client[c] = net.client[c], net'.to_client[c] = net.to_client[c],
           remote_players'[c] = remote_players[c], local_id'[c] = local_id[c],
           sessions'[c] = sessions[c],
           net'.link[c] # NoPeer =>
               /\ net'.link[c] = net.link[c]
               /\ net'.state[net.link[c]] \in {"pending", "connected"} =>
                      net'.state[net.link[c]] = net.state[net.link[c]]
               /\ net'.state[net.link[c]] = "connected" =>
                      /\ Members' = Members
                      /\ players'[data'[net.link[c]]].id = players[data[net.link[c]]].id
    PROVE  RosterOK(c)'
<1>1. ASSUME sessions[c] = 1, net.client[c] = "connected" PROVE FirstSession(c)'
  <2> DEFINE p == net.link[c]
  <2>1. FirstSession(c)
    BY <1>1 DEF RosterOK
  <2>2. \A q : net'.link[c] # NoPeer /\ q = p =>
          /\ net'.state[q] = "pending" => remote_players'[c] = << >> /\ net'.to_client[c] = << >>
          /\ net'.state[q] = "connected" =>
                Knows(remote_players'[c], net'.to_client[c], players'[data'[q]].id, Members')
    BY <2>1 DEF FirstSession, PlayerOf
  <2> QED BY <2>1, <2>2 DEF FirstSession, PlayerOf
<1> QED BY <1>1 DEF RosterOK

\* Network r is n with some of its ends cut off, or with less to read for the
\* server; its clients have heard nothing.
Calm(n, r) ==
    /\ \A p \in Peers : /\ ToSet(r.to_server[p]) \subseteq ToSet(n.to_server[p])
                        /\ r.state[p] \in {"pending", "connected"} => r.state[p] = n.state[p]
    /\ \A c \in Clients : /\ r.client[c] = n.client[c] /\ r.to_client[c] = n.to_client[c]
                          /\ r.link[c] \in {n.link[c], NoPeer}

\* Nothing is in the empty queue.
LEMMA NothingQueued == ToSet(<< >>) = {}
  BY DEF ToSet

\* Peers that are disconnected or freed, and messages the server reads.
LEMMA CutOffIsCalm ==
    ASSUME NEW n \in Networks, WellLinked(n)
    PROVE  /\ \A ps : Calm(n, PeersDisconnect(n, ps)) /\ Calm(n, PeersFreed(n, ps))
           /\ \A p \in Peers : n.to_server[p] # << >> => Calm(n, Received(n, p))
<1>1. ASSUME NEW ps PROVE Calm(n, PeersDisconnect(n, ps))
  <2> DEFINE r == PeersDisconnect(n, ps)
  <2>1. /\ r.client = n.client /\ r.link = n.link /\ r.to_client = n.to_client
        /\ \A q \in Peers :
              \/ r.state[q] = n.state[q] /\ r.to_server[q] = n.to_server[q]
              \/ r.state[q] = "disconnecting" /\ r.to_server[q] = << >>
    BY PeersDisconnectLinks DEF Networks
  <2> HIDE DEF r
  <2> QED BY <2>1, NothingQueued DEF Calm, r
<1>2. ASSUME NEW ps PROVE Calm(n, PeersFreed(n, ps))
  <2> DEFINE r == PeersFreed(n, ps)
  <2>1. /\ r.client = n.client /\ r.to_client = n.to_client /\ WellLinked(r)
        /\ \A c \in Clients : r.link[c] = IF n.link[c] \in ps THEN NoPeer ELSE n.link[c]
        /\ \A q \in Peers \ ps : r.state[q] = n.state[q] /\ r.to_server[q] = n.to_server[q]
    BY PeersFreedLinks DEF Networks
  <2>2. r.state = [p \in Peers |-> IF p \in ps THEN "free" ELSE n.state[p]]
    BY PeersFreedIsNet DEF Networks
  <2> HIDE DEF r
  <2>3. \A q \in Peers : q \in ps => r.state[q] = "free" /\ r.to_server[q] = << >>
    BY <2>1, <2>2 DEF WellLinked
  <2> QED BY <2>1, <2>3, NothingQueued DEF Calm, r
<1>3. ASSUME NEW p \in Peers, n.to_server[p] # << >> PROVE Calm(n, Received(n, p))
  <2> DEFINE r == Received(n, p)
  <2>1. n.state[p] # "free" /\ n.to_server[p] \in Seq(ToServer)
    BY <1>3 DEF WellLinked, Networks, Nets
  <2>2. /\ r.client = n.client /\ r.link = n.link /\ r.to_client = n.to_client
        /\ r.state = n.state
        /\ \A q \in Peers : r.to_server[q] = IF q = p THEN Tail(n.to_server[p]) ELSE n.to_server[q]
    BY <2>1, ReceivedLinks DEF Networks
  <2> HIDE DEF r
  <2>3. ToSet(Tail(n.to_server[p])) \subseteq ToSet(n.to_server[p])
    BY <1>3, <2>1, QueueMessages
  <2> QED BY <2>2, <2>3 DEF Calm, r
<1> QED BY <1>1, <1>2, <1>3

\* What everyone knows stays true when ends are cut off, as long as the players
\* of the peers that stay connected stay who they are.
LEMMA CalmKeeps ==
    ASSUME NetOK, RosterInv, UNCHANGED client, Calm(net, net'),
           \A p \in Peers : net'.state[p] = "connected" =>
               /\ Members' = Members
               /\ players'[data'[p]].id = players[data[p]].id
               /\ players'[data'[p]].name = players[data[p]].name
    PROVE  RosterInv'
<1>1. /\ username' = username /\ remote_players' = remote_players
      /\ local_id' = local_id /\ sessions' = sessions
      /\ \A c \in Clients : net.link[c] \in Peers \cup {NoPeer}
      /\ \A p \in Peers : p # NoPeer
  BY DEF client, NetOK, Nets, Peers, NoPeer
<1>2. ASSUME NEW p \in Peers PROVE OneVoice(p)'
  <2>1. /\ ToSet(net'.to_server[p]) \subseteq ToSet(net.to_server[p])
        /\ net'.state[p] \in {"pending", "connected"} => net'.state[p] = net.state[p]
        /\ \A c \in Clients : net'.link[c] = p => net.link[c] = p
        /\ \A c \in Clients : net'.client[c] = net.client[c]
    BY <1>1 DEF Calm
  <2> QED BY <1>1, <2>1, VoiceStays DEF RosterInv
<1>3. ASSUME NEW c \in Clients PROVE RosterOK(c)'
  <2>1. /\ net'.client[c] = net.client[c] /\ net'.to_client[c] = net.to_client[c]
        /\ net'.link[c] # NoPeer => net'.link[c] = net.link[c] /\ net.link[c] \in Peers
    BY <1>1 DEF Calm
  <2>2. ASSUME net'.link[c] # NoPeer
        PROVE  /\ net'.state[net.link[c]] \in {"pending", "connected"} =>
                      net'.state[net.link[c]] = net.state[net.link[c]]
               /\ net'.state[net.link[c]] = "connected" =>
                      /\ Members' = Members
                      /\ players'[data'[net.link[c]]].id = players[data[net.link[c]]].id
    BY <2>1, <2>2 DEF Calm
  <2>3. RosterOK(c)
    BY DEF RosterInv
  <2> QED BY <1>1, <2>1, <2>2, <2>3, RosterStays
<1> QED BY <1>2, <1>3 DEF RosterInv

\* Peers that are refused, kicked or forgotten.
LEMMA PeersGoKeepsRoster ==
    ASSUME ServerInv, WellLinked(net), RosterInv, UNCHANGED client, NEW p \in Peers,
           (\E v \in Versions : RefusePeer(p, v)) \/ ForgetPeer(p) \/ KickForHandshake(p)
    PROVE  RosterInv'
<1>0. net \in Networks /\ NetOK /\ WellLinked(net)
  BY DEF ServerInv, NetOK, Networks
<1>1. UNCHANGED << data, players >> /\ Members' = Members
  <2>1. UNCHANGED << data, players >>
    BY DEF RefusePeer, ForgetPeer, KickForHandshake, server
  <2> QED BY <2>1, SamePlayers
<1>2. ASSUME NEW v \in Versions, RefusePeer(p, v) PROVE Calm(net, net')
  <2> DEFINE n == Counted(p)
  <2>1. /\ n \in Networks /\ n.state = [net.state EXCEPT ![p] = "connected"]
        /\ n.client = net.client /\ n.link = net.link /\ n.to_client = net.to_client
        /\ n.to_server = net.to_server /\ WellLinked(n)
    BY <1>0, <1>2, CountedIsNet, CountedLinks DEF Networks, RefusePeer
  <2>2. net' = PeersDisconnect(n, {p})
    BY <1>2 DEF RefusePeer
  <2> HIDE DEF n
  <2>3. Calm(n, net')
    BY <2>1, <2>2, CutOffIsCalm
  <2>4. net'.state[p] = "disconnecting"
    <3>1. n \in Nets(ToServer, ToClient)
      BY <2>1 DEF Networks
    <3>2. PeersDisconnect(n, {p}).state =
              [q \in Peers |-> IF q \in {p} /\ n.state[q] = "connected"
                               THEN "disconnecting" ELSE n.state[q]]
      BY <3>1, PeersDisconnectIsNet
    <3>3. n.state[p] = "connected"
      BY <1>0, <2>1 DEF Networks, Nets
    <3> QED BY <2>2, <3>2, <3>3
  <2>5. \A q \in Peers : q # p => n.state[q] = net.state[q]
    BY <1>0, <2>1 DEF Networks, Nets
  <2> QED BY <2>1, <2>3, <2>4, <2>5 DEF Calm
<1>3. ASSUME ForgetPeer(p) PROVE Calm(net, net')
  <2>1. net' = PeersFreed(net, {p})
    BY <1>3 DEF ForgetPeer
  <2> QED BY <1>0, <2>1, CutOffIsCalm
<1>4. ASSUME KickForHandshake(p) PROVE Calm(net, net')
  <2>1. net' = PeersDisconnect(net, {p})
    BY <1>4 DEF KickForHandshake
  <2> QED BY <1>0, <2>1, CutOffIsCalm
<1> QED BY <1>0, <1>1, <1>2, <1>3, <1>4, CalmKeeps

\* The owner's calls.
LEMMA UseServerKeepsRoster ==
    ASSUME ServerInv, WellLinked(net), RosterInv, UNCHANGED client, UseServer
    PROVE  RosterInv'
<1>0. net \in Networks /\ NetOK
  BY DEF ServerInv, NetOK, Networks
<1>1. ASSUME StopServing PROVE RosterInv'
  <2>1. net' = PeersDisconnect(net, PlayerPeers) /\ UNCHANGED << data, players >>
    BY <1>1 DEF StopServing
  <2>2. Calm(net, net')
    BY <1>0, <2>1, CutOffIsCalm
  <2> QED BY <1>0, <2>1, <2>2, SamePlayers, CalmKeeps
<1>2. ASSUME ServerDestroyed PROVE RosterInv'
  <2>1. net' = PeersFreed(net, Peers)
    BY <1>2 DEF ServerDestroyed
  <2>2. Calm(net, net')
    BY <1>0, <2>1, CutOffIsCalm
  <2>3. \A p \in Peers : net'.state[p] = "free"
    <3>1. net \in Nets(ToServer, ToClient)
      BY <1>0 DEF Networks
    <3>2. PeersFreed(net, Peers).state = [p \in Peers |-> IF p \in Peers THEN "free" ELSE net.state[p]]
      BY <3>1, PeersFreedIsNet
    <3> QED BY <2>1, <3>2
  <2> QED BY <1>0, <2>2, <2>3, CalmKeeps
<1>3. ASSUME ServerCreated PROVE RosterInv'
  <2>1. net' = net /\ UNCHANGED << data, players >>
    BY <1>3 DEF ServerCreated
  <2>2. Calm(net, net')
    BY <2>1 DEF Calm
  <2> QED BY <1>0, <2>1, <2>2, SamePlayers, CalmKeeps
<1> QED BY <1>1, <1>2, <1>3 DEF UseServer

\* What ENet does by itself.
LEMMA NetworkKeepsRoster ==
    ASSUME ServerInv, WellLinked(net), RosterInv, UNCHANGED << server, client >>, Network
    PROVE  RosterInv'
<1>0. /\ net \in Networks /\ NetOK /\ UNCHANGED << data, players >> /\ UNCHANGED client
  BY DEF ServerInv, NetOK, Networks, server
<1>1. Calm(net, net')
  <2>1. ASSUME NEW p \in Peers, PendingVanishes(p) PROVE Calm(net, net')
    <3>1. net' = PeersFreed(net, {p})
      BY <2>1 DEF PendingVanishes
    <3> QED BY <1>0, <3>1, CutOffIsCalm
  <2>2. ASSUME NEW c \in Clients, DisconnectArrives(c) PROVE Calm(net, net')
    <3>1. net' = PeersDisconnect(net, {net.link[c]})
      BY <2>2 DEF DisconnectArrives
    <3> QED BY <1>0, <3>1, CutOffIsCalm
  <2> QED BY <2>1, <2>2 DEF Network
<1> QED BY <1>0, <1>1, SamePlayers, CalmKeeps

\* A peer that is admitted: its client has been told nothing, and it is not yet
\* a player.
LEMMA AdmitPeerKeepsRoster ==
    ASSUME ServerInv, ServerInv', WellLinked(net), RosterInv, UNCHANGED client,
           NEW p \in Peers, NEW v \in Versions, AdmitPeer(p, v)
    PROVE  RosterInv'
<1> DEFINE k == AcquiredId(peer_ids)
<1>1. /\ k \notin DOMAIN players /\ data' = [data EXCEPT ![p] = k]
      /\ players'[k] = [id |-> 0, name |-> NoName, peer |-> p]
      /\ \A j \in DOMAIN players : players'[j] = players[j]
      /\ Handshaked' = Handshaked
  BY AdmitPeerStep
<1> HIDE DEF k
<1>2. net' = Counted(p) /\ net.state[p] = "pending"
  BY DEF AdmitPeer
<1>3. NetOK /\ data \in [Peers -> AnyId] /\ PeerDataMatchesPlayers
  BY DEF ServerInv, ServerTypeOK
<1>4. /\ net'.client = net.client /\ net'.link = net.link
      /\ net'.to_client = net.to_client /\ net'.to_server = net.to_server
      /\ \A q \in Peers : net'.state[q] = IF q = p THEN "connected" ELSE net.state[q]
  <2>1. net'.state = [net.state EXCEPT ![p] = "connected"]
    BY <1>2, <1>3, CountedIsNet
  <2>2. net.state \in [Peers -> PeerStates]
    BY <1>3 DEF NetOK, Nets
  <2> QED BY <1>2, <1>3, <2>1, <2>2, CountedLinks
<1>5. /\ username' = username /\ remote_players' = remote_players
      /\ local_id' = local_id /\ sessions' = sessions
      /\ \A c \in Clients : net.link[c] \in Peers \cup {NoPeer}
      /\ p # NoPeer
  BY <1>3 DEF client, NetOK, Nets, Peers, NoPeer
<1>6. Members' = Members
  <2>1. \A j \in Handshaked : players'[j] = players[j]
    BY <1>1 DEF Handshaked
  <2> QED BY <1>1, <2>1, SameMembers
<1>7. players'[data'[p]].id = 0
  BY <1>1, <1>3
<1>8. ASSUME NEW q \in Peers, q # p, net.state[q] = "connected"
      PROVE  players'[data'[q]] = players[data[q]]
  BY <1>1, <1>3, <1>8 DEF PeerDataMatchesPlayers
<1>9. ASSUME NEW q \in Peers PROVE OneVoice(q)'
  <2>1. OneVoice(q) /\ (net'.state[q] = "connected" => q = p \/ net.state[q] = "connected")
        /\ (net'.state[q] \in {"pending", "connected"} => net.state[q] \in {"pending", "connected"})
    BY <1>2, <1>4 DEF RosterInv
  <2>2. net'.state[q] = "connected" /\ players'[data'[q]].id # 0 =>
            /\ net.state[q] = "connected" /\ players[data[q]].id # 0
            /\ players'[data'[q]].name = players[data[q]].name
    BY <1>7, <1>8, <2>1
  <2> QED BY <1>4, <1>5, <2>1, <2>2, VoiceStays
<1>10. ASSUME NEW c \in Clients PROVE RosterOK(c)'
  <2>0. RosterOK(c) /\ net.link[c] \in Peers \cup {NoPeer}
    BY <1>5 DEF RosterInv
  <2>1. CASE net.link[c] # p
    <3>1. net'.link[c] # NoPeer =>
               /\ net'.link[c] = net.link[c]
               /\ net'.state[net.link[c]] = net.state[net.link[c]]
               /\ net'.state[net.link[c]] = "connected" =>
                      players'[data'[net.link[c]]].id = players[data[net.link[c]]].id
      BY <1>4, <1>8, <2>0, <2>1
    <3> QED BY <1>4, <1>5, <1>6, <2>0, <3>1, RosterStays
  <2>2. CASE net.link[c] = p
    <3>1. ASSUME sessions[c] = 1, net.client[c] = "connected" PROVE FirstSession(c)'
      <4>1. /\ ChatRight(remote_players[c], net.to_client[c], local_id[c])
            /\ remote_players[c] = << >> /\ net.to_client[c] = << >>
        BY <1>2, <1>5, <2>0, <2>2, <3>1 DEF RosterOK, FirstSession
      <4>2. Knows(<< >>, << >>, 0, Members)
        BY KnowsNobody
      <4>3. \A q : q = p =>
              /\ net'.state[q] = "connected"
              /\ Knows(remote_players'[c], net'.to_client[c], players'[data'[q]].id, Members')
        BY <1>4, <1>5, <1>6, <1>7, <4>1, <4>2
      <4>4. net'.link[c] = p
        BY <1>4, <2>2
      <4> QED BY <1>4, <1>5, <4>1, <4>3, <4>4 DEF FirstSession, PlayerOf
    <3> QED BY <1>4, <1>5, <2>0, <3>1 DEF RosterOK
  <2> QED BY <2>1, <2>2
<1> QED BY <1>9, <1>10 DEF RosterInv

\* The list a new player is sent has every member under its name.
LEMMA ListedNames ==
    ServerInv => \A i \in Ids : {e.name : e \in {f \in Listed(players) : f.id = i}} =
                                    NamedIn(Members, i)
<1> SUFFICES ASSUME ServerInv, NEW i \in Ids
             PROVE  {e.name : e \in {f \in Listed(players) : f.id = i}} = NamedIn(Members, i)
  OBVIOUS
<1>1. MembersInv /\ DOMAIN Members = PlayerIds /\ i # 0
  BY MembersAre DEF MembersInv, Ids
<1>2. ASSUME NEW f \in Listed(players), f.id = i
      PROVE  i \in PlayerIds /\ f.name = Members[i]
  <2>1. PICK k \in DOMAIN players : f = [id |-> players[k].id, name |-> players[k].name]
    BY DEF Listed
  <2>2. k \in Handshaked /\ players[k].id = i /\ f.name = players[k].name
    BY <1>1, <1>2, <2>1 DEF Handshaked
  <2> QED BY <1>1, <2>2 DEF MembersInv, PlayerIds
<1>3. ASSUME i \in PlayerIds
      PROVE  \E f \in Listed(players) : f.id = i
  <2>1. PICK k \in Handshaked : players[k].id = i
    BY <1>3 DEF PlayerIds
  <2> DEFINE f == [id |-> players[k].id, name |-> players[k].name]
  <2>2. f \in Listed(players)
    BY DEF Handshaked, Listed
  <2>3. f.id = i
    BY <2>1
  <2> QED BY <2>2, <2>3
<1> QED BY <1>1, <1>2, <1>3 DEF NamedIn

\* The answer to a handshake in the queues of the clients.
LEMMA AnswerQueues ==
    ASSUME NEW n \in Networks, WellLinked(n), NEW p \in Peers,
           NEW player \in [id : AnyId, name : AnyName, peer : Peers],
           NEW list \in SUBSET [id : AnyId, name : AnyName]
    PROVE  LET r == Answer(n, p, player, list)
               heard(q) == Append(q, S_ClientConnected(player.id, player.name))
               answered(q) == Append(Append(q, S_Handshake(player.id)), S_PlayerList(list))
           IN  /\ r.client = n.client /\ r.link = n.link /\ r.state = n.state
               /\ r.to_server = n.to_server
               /\ \A c \in Clients :
                    LET q == n.to_client[c]
                        live == /\ n.link[c] \in Peers /\ n.client[c] = "connected"
                                /\ n.state[n.link[c]] = "connected"
                    IN  /\ ~live => r.to_client[c] = q
                        /\ live /\ n.link[c] # p => r.to_client[c] = heard(q)
                        /\ live /\ n.link[c] = p => r.to_client[c] = heard(answered(q))
<1> DEFINE hs == S_Handshake(player.id)
           pl == S_PlayerList(list)
           cc == S_ClientConnected(player.id, player.name)
           k == Deliver(n, {p}, hs)
           j == Deliver(k, {p}, pl)
           r == Deliver(j, Peers, cc)
           live(c) == /\ n.link[c] \in Peers /\ n.client[c] = "connected"
                      /\ n.state[n.link[c]] = "connected"
<1>1. Answer(n, p, player, list) = r
  BY DEF Answer, PeerSend, Broadcast
<1>2. hs \in ToClient /\ pl \in ToClient /\ cc \in ToClient
  BY MessagesTyped
<1> HIDE DEF hs, pl, cc
<1>3. /\ k \in Networks /\ WellLinked(k) /\ k.state = n.state /\ k.to_server = n.to_server
      /\ k.client = n.client /\ k.link = n.link
      /\ \A c \in Clients : k.to_client[c] =
            IF /\ n.link[c] \in {p} /\ n.link[c] \in Peers
               /\ n.client[c] = "connected" /\ n.state[n.link[c]] = "connected"
            THEN Append(n.to_client[c], hs) ELSE n.to_client[c]
  <2>1. k \in Networks /\ k.state = n.state /\ k.to_server = n.to_server
    BY <1>2, DeliverIsNet DEF Networks
  <2> QED BY <1>2, <2>1, DeliverLinks DEF Networks
<1> HIDE DEF k
<1>4. /\ j \in Networks /\ WellLinked(j) /\ j.state = n.state /\ j.to_server = n.to_server
      /\ j.client = n.client /\ j.link = n.link
      /\ \A c \in Clients : j.to_client[c] =
            IF /\ k.link[c] \in {p} /\ k.link[c] \in Peers
               /\ k.client[c] = "connected" /\ k.state[k.link[c]] = "connected"
            THEN Append(k.to_client[c], pl) ELSE k.to_client[c]
  <2>1. j \in Networks /\ j.state = k.state /\ j.to_server = k.to_server
    BY <1>2, <1>3, DeliverIsNet DEF Networks
  <2>2. /\ WellLinked(j) /\ j.client = k.client /\ j.link = k.link
        /\ \A c \in Clients : j.to_client[c] =
            IF /\ k.link[c] \in {p} /\ k.link[c] \in Peers
               /\ k.client[c] = "connected" /\ k.state[k.link[c]] = "connected"
            THEN Append(k.to_client[c], pl) ELSE k.to_client[c]
    BY <1>2, <1>3, DeliverLinks DEF Networks
  <2> QED BY <1>3, <2>1, <2>2
<1> HIDE DEF j
<1>5. /\ r.state = n.state /\ r.to_server = n.to_server
      /\ r.client = n.client /\ r.link = n.link
      /\ \A c \in Clients : r.to_client[c] =
            IF /\ j.link[c] \in Peers /\ j.link[c] \in Peers
               /\ j.client[c] = "connected" /\ j.state[j.link[c]] = "connected"
            THEN Append(j.to_client[c], cc) ELSE j.to_client[c]
  <2>1. r.state = j.state /\ r.to_server = j.to_server
    BY <1>2, <1>4, DeliverIsNet DEF Networks
  <2>2. /\ r.client = j.client /\ r.link = j.link
        /\ \A c \in Clients : r.to_client[c] =
            IF /\ j.link[c] \in Peers /\ j.link[c] \in Peers
               /\ j.client[c] = "connected" /\ j.state[j.link[c]] = "connected"
            THEN Append(j.to_client[c], cc) ELSE j.to_client[c]
    BY <1>2, <1>4, DeliverLinks DEF Networks
  <2> QED BY <1>4, <2>1, <2>2
<1> HIDE DEF r
<1>6. ASSUME NEW c \in Clients
      PROVE  /\ ~live(c) => r.to_client[c] = n.to_client[c]
             /\ live(c) /\ n.link[c] # p => r.to_client[c] = Append(n.to_client[c], cc)
             /\ live(c) /\ n.link[c] = p =>
                    r.to_client[c] = Append(Append(Append(n.to_client[c], hs), pl), cc)
  <2>1. ~live(c) => r.to_client[c] = n.to_client[c]
    BY <1>3, <1>4, <1>5
  <2>2. live(c) /\ n.link[c] # p => r.to_client[c] = Append(n.to_client[c], cc)
    BY <1>3, <1>4, <1>5
  <2>3. ASSUME live(c), n.link[c] = p
        PROVE  r.to_client[c] = Append(Append(Append(n.to_client[c], hs), pl), cc)
    <3>1. k.to_client[c] = Append(n.to_client[c], hs)
      BY <1>3, <2>3
    <3>2. j.to_client[c] = Append(k.to_client[c], pl)
      BY <1>3, <1>4, <2>3
    <3>3. r.to_client[c] = Append(j.to_client[c], cc)
      BY <1>4, <1>5, <2>3
    <3> QED BY <3>1, <3>2, <3>3
  <2> QED BY <2>1, <2>2, <2>3
<1> QED BY <1>1, <1>5, <1>6 DEF hs, pl, cc

\* A player that leaves is reported to everyone, unless nobody was told of it.
LEMMA PlayerLeavesKeepsRoster ==
    ASSUME ServerInv, ServerInv', WellLinked(net), RosterInv, UNCHANGED client,
           NEW p \in Peers, PlayerLeaves(p)
    PROVE  RosterInv'
<1> DEFINE k == data[p]
           id == players[k].id
           n == PeersFreed(net, {p})
           m == S_ClientDisconnected(id)
<1>1. /\ net' = (IF id # 0 THEN Deliver(n, Peers, m) ELSE n)
      /\ data' = [data EXCEPT ![p] = 0] /\ id \in AnyId
      /\ players[k].peer = p
      /\ \A j \in DOMAIN players \ {k} : players'[j] = players[j]
  BY PlayerLeavesStep DEF TellLeft, Broadcast
<1>2. /\ net \in Networks /\ NetOK /\ data \in [Peers -> AnyId] /\ PeerDataMatchesPlayers
      /\ username' = username /\ remote_players' = remote_players
      /\ local_id' = local_id /\ sessions' = sessions
      /\ \A c \in Clients : net.link[c] \in Peers \cup {NoPeer}
  BY DEF ServerInv, ServerTypeOK, NetOK, Networks, Nets, client
<1>3. n \in Networks /\ WellLinked(n) /\ Calm(net, n) /\ n.state[p] = "free"
  <2>1. /\ n \in Networks
        /\ n.state = [q \in Peers |-> IF q \in {p} THEN "free" ELSE net.state[q]]
    BY <1>2, PeersFreedIsNet DEF Networks
  <2>2. WellLinked(n)
    BY <1>2, PeersFreedLinks DEF Networks
  <2>3. Calm(net, n)
    BY <1>2, CutOffIsCalm
  <2> QED BY <2>1, <2>2, <2>3
<1>4. /\ id = 0 => Members' = Members
      /\ id # 0 => Members' = [i \in DOMAIN Members \ {id} |-> Members[i]]
  BY MembersLeft
<1>5. m \in ToClient /\ m.type # "S_ChatMessage"
  BY <1>1, MessagesTyped DEF S_ClientDisconnected
<1> HIDE DEF n, id, k
<1>6. ASSUME NEW q \in Peers, n.state[q] = "connected"
      PROVE  net.state[q] = "connected" /\ players'[data'[q]] = players[data[q]]
  <2>1. q # p /\ net.state[q] = "connected"
    BY <1>3, <1>6 DEF Calm
  <2>2. data'[q] = data[q] /\ data[q] \in DOMAIN players /\ players[data[q]].peer = q
    BY <1>1, <1>2, <2>1 DEF PeerDataMatchesPlayers
  <2> QED BY <1>1, <2>1, <2>2
<1>7. CASE id = 0
  <2>1. Calm(net, net') /\ net' = n
    BY <1>1, <1>3, <1>7
  <2> QED BY <1>2, <1>4, <1>6, <1>7, <2>1, CalmKeeps
<1>8. CASE id # 0
  <2> HIDE DEF m
  <2>1. /\ net'.client = n.client /\ net'.link = n.link /\ net'.state = n.state
        /\ net'.to_server = n.to_server
        /\ \A c \in Clients : net'.to_client[c] =
              IF /\ n.link[c] \in Peers /\ n.link[c] \in Peers
                 /\ n.client[c] = "connected" /\ n.state[n.link[c]] = "connected"
              THEN Append(n.to_client[c], m) ELSE n.to_client[c]
    <3>1. net' = Deliver(n, Peers, m)
      BY <1>1, <1>8
    <3>2. Deliver(n, Peers, m).state = n.state /\ Deliver(n, Peers, m).to_server = n.to_server
      BY <1>3, <1>5, DeliverIsNet DEF Networks
    <3>3. LET r == Deliver(n, Peers, m)
          IN  /\ r.client = n.client /\ r.link = n.link
              /\ \A c \in Clients : r.to_client[c] =
                   IF /\ n.link[c] \in Peers /\ n.link[c] \in Peers
                      /\ n.client[c] = "connected" /\ n.state[n.link[c]] = "connected"
                   THEN Append(n.to_client[c], m) ELSE n.to_client[c]
      BY <1>3, <1>5, DeliverLinks DEF Networks
    <3> QED BY <3>1, <3>2, <3>3
  <2>2. ASSUME NEW q \in Peers PROVE OneVoice(q)'
    <3>1. OneVoice(q) /\ q # NoPeer
      BY DEF RosterInv, Peers, NoPeer
    <3>2. /\ ToSet(net'.to_server[q]) \subseteq ToSet(net.to_server[q])
          /\ net'.state[q] \in {"pending", "connected"} => net'.state[q] = net.state[q]
          /\ \A c \in Clients : net'.link[c] = q => net.link[c] = q
          /\ \A c \in Clients : net'.client[c] = net.client[c]
      BY <1>3, <2>1, <3>1 DEF Calm
    <3>3. net'.state[q] = "connected" =>
              net.state[q] = "connected" /\ players'[data'[q]] = players[data[q]]
      BY <1>6, <2>1
    <3> QED BY <1>2, <3>1, <3>2, <3>3, VoiceStays
  <2>3. ASSUME NEW c \in Clients PROVE RosterOK(c)'
    <3> DEFINE q == net.to_client[c]
               l == net.link[c]
    <3>0. /\ RosterOK(c) /\ q \in Seq(ToClient) /\ l \in Peers \cup {NoPeer}
          /\ net'.client[c] = net.client[c] /\ n.client[c] = net.client[c]
          /\ net'.link[c] # NoPeer => net'.link[c] = l /\ l # NoPeer
          /\ n.link[c] = net'.link[c] /\ n.to_client[c] = q
      BY <1>2, <1>3, <2>1 DEF RosterInv, Calm, Networks, Nets
    <3>1. ASSUME sessions[c] = 1, net.client[c] = "connected" PROVE FirstSession(c)'
      <4>0. FirstSession(c)
        BY <3>0, <3>1 DEF RosterOK
      <4>1. net'.to_client[c] = q \/ net'.to_client[c] = Append(q, m)
        BY <2>1, <3>0
      <4>2. ChatRight(remote_players[c], net'.to_client[c], local_id[c])
        <5>1. ChatRight(remote_players[c], q, local_id[c])
          BY <4>0 DEF FirstSession
        <5>2. ChatRight(remote_players[c], Append(q, m), local_id[c])
          BY <1>5, <3>0, <5>1, AppendChat
        <5> QED BY <4>1, <5>1, <5>2
      <4>3. ASSUME net'.link[c] # NoPeer, net'.state[l] = "pending"
            PROVE  remote_players[c] = << >> /\ net'.to_client[c] = << >>
        <5>1. net.state[l] = "pending" /\ n.state[l] = "pending"
          BY <1>3, <2>1, <3>0, <4>3 DEF Calm
        <5>2. net'.to_client[c] = q
          BY <2>1, <3>0, <4>3, <5>1
        <5> QED BY <3>0, <4>0, <4>3, <5>1, <5>2 DEF FirstSession
      <4>4. ASSUME net'.link[c] # NoPeer, net'.state[l] = "connected"
            PROVE  Knows(remote_players[c], net'.to_client[c], players'[data'[l]].id, Members')
        <5>1. net.state[l] = "connected" /\ players'[data'[l]] = players[data[l]]
          BY <1>6, <2>1, <3>0, <4>4
        <5>2. Knows(remote_players[c], q, players[data[l]].id, Members)
          BY <3>0, <4>0, <4>4, <5>1 DEF FirstSession, PlayerOf
        <5>3. net'.to_client[c] = Append(q, m)
          BY <2>1, <3>0, <3>1, <4>4
        <5>4. /\ id \in AnyId /\ q \in Seq(ToClient)
              /\ Members' = [i \in DOMAIN Members \ {id} |-> Members[i]]
          BY <1>1, <1>4, <1>8, <3>0
        <5> HIDE DEF q
        <5>5. Knows(remote_players[c], Append(q, S_ClientDisconnected(id)), players[data[l]].id,
                    Members')
          BY <5>2, <5>4, KnowsAfterLeave
        <5> QED BY <5>1, <5>3, <5>5 DEF m
      <4>5. \A r : r = net'.link[c] =>
              /\ r # NoPeer /\ net'.state[r] = "pending" =>
                    remote_players'[c] = << >> /\ net'.to_client[c] = << >>
              /\ r # NoPeer /\ net'.state[r] = "connected" =>
                    Knows(remote_players'[c], net'.to_client[c], players'[data'[r]].id, Members')
        BY <1>2, <3>0, <4>3, <4>4
      <4> QED BY <1>2, <4>2, <4>5 DEF FirstSession, PlayerOf
    <3> QED BY <1>2, <3>0, <3>1 DEF RosterOK
  <2> QED BY <2>2, <2>3 DEF RosterInv
<1> QED BY <1>7, <1>8

\* A player that joins is reported to everyone, and everyone to it.
LEMMA AcceptHandshakeKeepsRoster ==
    ASSUME ServerInv, ServerInv', WellLinked(net), RosterInv, UNCHANGED client,
           NEW p \in Peers, AcceptHandshake(p)
    PROVE  RosterInv'
<1> DEFINE k == data[p]
           n == Received(net, p)
           h == Head(net.to_server[p])
           id == NewPlayerId
           player == players'[k]
           all == Listed(players')
           cc == S_ClientConnected(id, h.name)
           hs == S_Handshake(id)
           pl == S_PlayerList(all)
<1>1. /\ k \in DOMAIN players /\ players[k].id = 0 /\ id \in Ids /\ DOMAIN players' = DOMAIN players
      /\ player = [id |-> id, name |-> h.name, peer |-> p] /\ h.name \in Names /\ UNCHANGED data
      /\ \A j \in DOMAIN players : j # k => players'[j] = players[j]
  BY AcceptHandshakeStep
<1>2. /\ net \in Networks /\ NetOK /\ data \in [Peers -> AnyId] /\ PeerDataMatchesPlayers
      /\ username' = username /\ remote_players' = remote_players
      /\ local_id' = local_id /\ sessions' = sessions
      /\ \A c \in Clients : net.link[c] \in Peers \cup {NoPeer}
  BY DEF ServerInv, ServerTypeOK, NetOK, Networks, Nets, client
<1>3. /\ Receives(p, "C_Handshake") /\ net' = Answer(n, p, player, all)
  BY DEF AcceptHandshake
<1>4. /\ net.to_server[p] # << >> /\ net.state[p] = "connected"
      /\ h.type = "C_Handshake" /\ net.to_server[p] \in Seq(ToServer)
      /\ n \in Networks /\ players[k].peer = p
  BY <1>2, <1>3, ReceivesHasPlayer DEF Receives, Networks, Nets
<1>5. /\ id \in AnyId /\ h.name \in AnyName
      /\ player \in [id : AnyId, name : AnyName, peer : Peers]
      /\ all \in SUBSET [id : AnyId, name : AnyName]
      /\ player.id = id /\ player.name = h.name
  <2>1. id \in AnyId /\ h.name \in AnyName
    BY <1>1 DEF Ids, AnyId, AnyName
  <2>2. player \in [id : AnyId, name : AnyName, peer : Peers]
    <3> HIDE DEF k, h, id, player
    <3> QED BY <1>1, <2>1
  <2>3. \A j \in DOMAIN players' : players'[j] \in [id : AnyId, name : AnyName, peer : Peers]
    BY DEF ServerInv, ServerTypeOK
  <2>4. all \in SUBSET [id : AnyId, name : AnyName]
    BY <2>3 DEF Listed
  <2>5. player.id = id /\ player.name = h.name
    <3> HIDE DEF k, h, id, player
    <3> QED BY <1>1
  <2> QED BY <2>1, <2>2, <2>4, <2>5
<1>6. /\ n.client = net.client /\ n.link = net.link /\ n.to_client = net.to_client
      /\ n.state = net.state /\ WellLinked(n)
      /\ \A q \in Peers : n.to_server[q] = IF q = p THEN Tail(net.to_server[p]) ELSE net.to_server[q]
  BY <1>2, <1>4, ReceivedLinks DEF Networks
<1>7. NewPlayerId \notin DOMAIN Members /\ Members' = Joined(Members, id, h.name)
  BY MembersJoined
<1>8. \A i \in Ids : {e.name : e \in {f \in all : f.id = i}} = NamedIn(Members', i)
  <2>1. (ServerInv => \A i \in Ids : {e.name : e \in {f \in Listed(players) : f.id = i}} =
                                         NamedIn(Members, i))'
    BY ListedNames, PTL
  <2> QED BY <2>1
<1>9. h \in ToSet(net.to_server[p]) /\ ToSet(Tail(net.to_server[p])) \subseteq ToSet(net.to_server[p])
  BY <1>4, QueueMessages
<1>10. /\ net'.client = net.client /\ net'.link = net.link /\ net'.state = net.state
       /\ net'.to_server = n.to_server
       /\ \A c \in Clients :
            LET q == net.to_client[c]
                live == /\ net.link[c] \in Peers /\ net.client[c] = "connected"
                        /\ net.state[net.link[c]] = "connected"
            IN  /\ ~live => net'.to_client[c] = q
                /\ live /\ net.link[c] # p => net'.to_client[c] = Append(q, cc)
                /\ live /\ net.link[c] = p =>
                       net'.to_client[c] = Append(Append(Append(q, hs), pl), cc)
  <2> HIDE DEF n, player, all, h, id
  <2>1. LET r == Answer(n, p, player, all)
            heard(q) == Append(q, S_ClientConnected(player.id, player.name))
            answered(q) == Append(Append(q, S_Handshake(player.id)), S_PlayerList(all))
        IN  /\ r.client = n.client /\ r.link = n.link /\ r.state = n.state
            /\ r.to_server = n.to_server
            /\ \A c \in Clients :
                 LET q == n.to_client[c]
                     live == /\ n.link[c] \in Peers /\ n.client[c] = "connected"
                             /\ n.state[n.link[c]] = "connected"
                 IN  /\ ~live => r.to_client[c] = q
                     /\ live /\ n.link[c] # p => r.to_client[c] = heard(q)
                     /\ live /\ n.link[c] = p => r.to_client[c] = heard(answered(q))
    BY <1>4, <1>5, <1>6, AnswerQueues
  <2> QED BY <1>3, <1>5, <1>6, <2>1
<1>11. cc \in ToClient /\ hs \in ToClient /\ pl \in ToClient
  BY <1>5, MessagesTyped
<1>12. cc.type # "S_ChatMessage" /\ hs.type # "S_ChatMessage" /\ pl.type # "S_ChatMessage"
  BY DEF S_ClientConnected, S_Handshake, S_PlayerList
<1> HIDE DEF k, n, id, player, all, h
<1>13. ASSUME NEW q \in Peers, q # p, net.state[q] = "connected"
       PROVE  players'[data'[q]] = players[data[q]]
  BY <1>1, <1>2, <1>4, <1>13 DEF PeerDataMatchesPlayers, k
<1>14. ASSUME NEW q \in Peers PROVE OneVoice(q)'
  <2>0. OneVoice(q) /\ ToSet(net'.to_server[q]) \subseteq ToSet(net.to_server[q])
    BY <1>6, <1>9, <1>10 DEF RosterInv
  <2>1. CASE q # p
    BY <1>2, <1>10, <1>13, <2>0, <2>1, VoiceStays
  <2>2. CASE q = p
    <3>1. PICK name \in AnyName : SpeaksAs(p, name)
      BY <2>0, <2>2 DEF OneVoice
    <3>2. h.name = name
      BY <1>4, <1>9, <3>1 DEF SpeaksAs, NameOn
    <3>3. players'[data'[p]].name = name
      BY <1>1, <1>5, <3>2 DEF k, player
    <3>4. SpeaksAs(p, name)'
      BY <1>2, <1>10, <2>0, <2>2, <3>1, <3>3 DEF SpeaksAs
    <3> QED BY <2>2, <3>4 DEF OneVoice
  <2> QED BY <2>1, <2>2
<1> HIDE DEF cc, hs, pl
<1>15. ASSUME NEW c \in Clients PROVE RosterOK(c)'
  <2> DEFINE q == net.to_client[c]
             l == net.link[c]
             list == remote_players[c]
  <2>0. RosterOK(c) /\ q \in Seq(ToClient) /\ l \in Peers \cup {NoPeer}
    BY <1>2 DEF RosterInv, Networks, Nets
  <2>1. ASSUME sessions[c] = 1, net.client[c] = "connected" PROVE FirstSession(c)'
    <3>0. FirstSession(c)
      BY <2>0, <2>1 DEF RosterOK
    <3>1. \/ net'.to_client[c] = q
          \/ net'.to_client[c] = Append(q, cc)
          \/ net'.to_client[c] = Append(Append(Append(q, hs), pl), cc)
      BY <1>10
    <3>2. ChatRight(list, net'.to_client[c], local_id[c])
      <4>1. ChatRight(list, q, local_id[c])
        BY <3>0 DEF FirstSession
      <4>2. ChatRight(list, Append(q, cc), local_id[c])
        BY <1>11, <1>12, <2>0, <4>1, AppendChat
      <4> DEFINE q1 == Append(q, hs)
                 q2 == Append(q1, pl)
      <4>3. q1 \in Seq(ToClient) /\ ChatRight(list, q1, local_id[c])
        BY <1>11, <1>12, <2>0, <4>1, AppendChat
      <4> HIDE DEF q1
      <4>4. q2 \in Seq(ToClient) /\ ChatRight(list, q2, local_id[c])
        BY <1>11, <1>12, <4>3, AppendChat
      <4> HIDE DEF q2
      <4>5. ChatRight(list, Append(q2, cc), local_id[c])
        BY <1>11, <1>12, <4>4, AppendChat
      <4> QED BY <3>1, <4>1, <4>2, <4>5 DEF q1, q2
    <3>3. ASSUME l # NoPeer, net.state[l] = "pending"
          PROVE  list = << >> /\ net'.to_client[c] = << >>
      <4>1. net'.to_client[c] = q
        BY <1>10, <3>3
      <4> QED BY <3>0, <3>3, <4>1 DEF FirstSession
    <3>4. ASSUME l # NoPeer, net.state[l] = "connected"
          PROVE  Knows(list, net'.to_client[c], players'[data'[l]].id, Members')
      <4>0. Knows(list, q, players[data[l]].id, Members)
        BY <3>0, <3>4 DEF FirstSession, PlayerOf
      <4>1. CASE l # p
        <5>1. players'[data'[l]] = players[data[l]]
          BY <1>13, <2>0, <3>4, <4>1
        <5>2. net'.to_client[c] = Append(q, cc)
          BY <1>10, <2>0, <2>1, <3>4, <4>1
        <5> HIDE DEF q, list
        <5>3. Knows(list, Append(q, S_ClientConnected(id, h.name)), players[data[l]].id,
                    Joined(Members, id, h.name))
          BY <1>5, <1>7, <2>0, <4>0, KnowsAfterJoin DEF id
        <5> QED BY <1>7, <5>1, <5>2, <5>3 DEF cc
      <4>2. CASE l = p
        <5>1. players[data[l]].id = 0 /\ players'[data'[l]].id = id
          BY <1>1, <1>5, <4>2 DEF k, player
        <5>2. net'.to_client[c] = Append(Append(Append(q, hs), pl), cc)
          BY <1>10, <2>0, <2>1, <3>4, <4>2
        <5> HIDE DEF q, list
        <5>3. Knows(list, q, 0, Members) /\ id \notin DOMAIN Members
          BY <1>7, <4>0, <5>1 DEF id
        <5>4. \A i \in Ids : {e.name : e \in {f \in all : f.id = i}} =
                                 NamedIn(Joined(Members, id, h.name), i)
          BY <1>7, <1>8
        <5>5. Knows(list, Append(Append(Append(q, S_Handshake(id)), S_PlayerList(all)),
                                 S_ClientConnected(id, h.name)),
                    id, Joined(Members, id, h.name))
          BY <1>5, <2>0, <5>3, <5>4, KnowsAfterAnswer
        <5> QED BY <1>7, <5>1, <5>2, <5>5 DEF cc, hs, pl
      <4> QED BY <4>1, <4>2
    <3>5. \A r : r = net'.link[c] =>
            /\ r # NoPeer /\ net'.state[r] = "pending" =>
                  remote_players'[c] = << >> /\ net'.to_client[c] = << >>
            /\ r # NoPeer /\ net'.state[r] = "connected" =>
                  Knows(remote_players'[c], net'.to_client[c], players'[data'[r]].id, Members')
      BY <1>2, <1>10, <3>3, <3>4
    <3> QED BY <1>2, <3>2, <3>5 DEF FirstSession, PlayerOf
  <2> QED BY <1>2, <1>10, <2>0, <2>1 DEF RosterOK
<1> QED BY <1>14, <1>15 DEF RosterInv

\* Chat is relayed under the id of a player whose name is its author's, and
\* everyone who has an id knows it.
LEMMA RelayChatKeepsRoster ==
    ASSUME ServerInv, ClientInv, RosterInv, UNCHANGED client, NEW p \in Peers, RelayChat(p)
    PROVE  RosterInv'
<1> DEFINE n == Received(net, p)
           h == Head(net.to_server[p])
           player == players[data[p]]
           m == S_ChatMessage(player.id, h.author)
<1>1. /\ Receives(p, "C_ChatMessage") /\ UNCHANGED << data, players >> /\ Members' = Members
      /\ net' = (IF player.id # 0 THEN Deliver(n, Peers, m) ELSE n)
  <2>1. UNCHANGED << data, players >>
    BY DEF RelayChat, server
  <2> QED BY <2>1, SamePlayers DEF RelayChat, Broadcast, SenderId
<1>2. /\ net \in Networks /\ NetOK /\ WellLinked(net) /\ n \in Networks
      /\ net.to_server[p] # << >> /\ net.state[p] = "connected"
      /\ net.to_server[p] \in Seq(ToServer) /\ h \in ToServer /\ h.type = "C_ChatMessage"
      /\ data[p] \in DOMAIN players /\ player \in [id : AnyId, name : AnyName, peer : Peers]
  BY <1>1, ReceivesHasPlayer DEF ServerInv, NetOK, Networks, Nets, ClientInv, Receives
<1>3. /\ username' = username /\ remote_players' = remote_players
      /\ local_id' = local_id /\ sessions' = sessions
      /\ \A c \in Clients : net.link[c] \in Peers \cup {NoPeer}
  BY <1>2 DEF Networks, Nets, client
<1>4. Calm(net, n)
  BY <1>2, CutOffIsCalm
<1>5. h.author \in AnyName /\ (player.id # 0 => h.author = player.name)
  <2>1. PICK name \in AnyName : SpeaksAs(p, name)
    BY DEF RosterInv, OneVoice
  <2>2. h \in ToSet(net.to_server[p])
    BY <1>2, QueueMessages
  <2> HIDE DEF h
  <2> QED BY <1>2, <2>1, <2>2 DEF SpeaksAs, NameOn
<1>6. CASE player.id = 0
  <2>1. Calm(net, net')
    BY <1>1, <1>4, <1>6
  <2> QED BY <1>1, <1>2, <2>1, CalmKeeps
<1>7. CASE player.id # 0
  <2>1. /\ m \in ToClient /\ m.type = "S_ChatMessage" /\ m.sender = player.id
        /\ m.author = h.author
    <3> HIDE DEF h, player
    <3> QED BY <1>2, <1>5, <1>7, MessagesTyped DEF S_ChatMessage
  <2>2. m.sender \in Ids /\ NamedIn(Members, m.sender) = {m.author}
    <3>1. player.id \in Ids
      BY <1>2, <1>7, MaxIdAssumption DEF AnyId, Ids
    <3>2. data[p] \in Handshaked
      BY <1>2, <1>7 DEF Handshaked
    <3>3. MembersInv /\ DOMAIN Members = PlayerIds
      BY MembersAre DEF MembersInv
    <3>4. player.id \in DOMAIN Members /\ Members[player.id] = player.name
      BY <3>2, <3>3 DEF MembersInv, PlayerIds
    <3> HIDE DEF m, player
    <3> QED BY <1>5, <1>7, <2>1, <3>1, <3>4 DEF NamedIn
  <2>3. /\ n.client = net.client /\ n.link = net.link /\ n.to_client = net.to_client
        /\ n.state = net.state /\ WellLinked(n)
        /\ \A q \in Peers : n.to_server[q] =
              IF q = p THEN Tail(net.to_server[p]) ELSE net.to_server[q]
    BY <1>2, ReceivedLinks DEF Networks
  <2> HIDE DEF m, n, player, h
  <2>4. /\ net'.client = net.client /\ net'.link = net.link /\ net'.state = net.state
        /\ net'.to_server = n.to_server
        /\ \A c \in Clients : net'.to_client[c] =
              IF /\ net.link[c] \in Peers /\ net.link[c] \in Peers
                 /\ net.client[c] = "connected" /\ net.state[net.link[c]] = "connected"
              THEN Append(net.to_client[c], m) ELSE net.to_client[c]
    <3>1. net' = Deliver(n, Peers, m)
      BY <1>1, <1>7
    <3>2. Deliver(n, Peers, m).state = n.state /\ Deliver(n, Peers, m).to_server = n.to_server
      BY <1>2, <2>1, DeliverIsNet DEF Networks
    <3>3. LET r == Deliver(n, Peers, m)
          IN  /\ r.client = n.client /\ r.link = n.link
              /\ \A c \in Clients : r.to_client[c] =
                   IF /\ n.link[c] \in Peers /\ n.link[c] \in Peers
                      /\ n.client[c] = "connected" /\ n.state[n.link[c]] = "connected"
                   THEN Append(n.to_client[c], m) ELSE n.to_client[c]
      BY <1>2, <2>1, <2>3, DeliverLinks DEF Networks
    <3> QED BY <2>3, <3>1, <3>2, <3>3
  <2>5. ASSUME NEW q \in Peers PROVE OneVoice(q)'
    <3>1. OneVoice(q) /\ ToSet(net'.to_server[q]) \subseteq ToSet(net.to_server[q])
      BY <1>4, <2>4 DEF RosterInv, Calm
    <3> QED BY <1>1, <1>3, <2>4, <3>1, VoiceStays
  <2>6. ASSUME NEW c \in Clients PROVE RosterOK(c)'
    <3> DEFINE q == net.to_client[c]
               l == net.link[c]
               list == remote_players[c]
    <3>0. RosterOK(c) /\ q \in Seq(ToClient) /\ l \in Peers \cup {NoPeer} /\ ClientOK(c)
      BY <1>2 DEF RosterInv, Networks, Nets, ClientInv
    <3>1. CASE net'.to_client[c] = q
      BY <1>1, <1>3, <2>4, <3>0, <3>1, RosterStays
    <3>2. ASSUME net'.to_client[c] = Append(q, m), l \in Peers, net.client[c] = "connected",
                 net.state[l] = "connected", sessions[c] = 1
          PROVE  FirstSession(c)'
      <4>0. FirstSession(c) /\ l # NoPeer
        BY <3>0, <3>2 DEF RosterOK, Peers, NoPeer
      <4>1. Knows(list, q, players[data[l]].id, Members)
        BY <3>2, <4>0 DEF FirstSession, PlayerOf
      <4>2. ASSUME Heard(list, q, m.sender) = {}
            PROVE  local_id[c] = 0 /\ \A j \in 1 .. Len(q) : q[j].type # "S_Handshake"
        <5>1. players[data[l]].id = 0
          BY <2>2, <4>1, <4>2 DEF Knows
        <5>2. Agrees(c, l)
          BY <3>0, <3>2, <4>0 DEF ClientOK
        <5>3. AnswersIn(net, c) = {} /\ local_id[c] = 0
          BY <3>2, <5>1, <5>2 DEF Agrees
        <5>4. ASSUME NEW j \in 1 .. Len(q) PROVE q[j].type # "S_Handshake"
          <6>1. q[j] \in ToSet(q)
            BY <3>0 DEF ToSet
          <6> QED BY <5>3, <6>1 DEF AnswersIn
        <5> QED BY <5>3, <5>4
      <4>3. MayRead(list, q, local_id[c], m)
        BY <2>2, <4>1, <4>2 DEF MayRead, Knows
      <4>4. ChatRight(list, Append(q, m), local_id[c])
        <5>1. ChatRight(list, q, local_id[c])
          BY <4>0 DEF FirstSession
        <5> HIDE DEF list, q
        <5> QED BY <2>1, <3>0, <4>3, <5>1, AppendChat
      <4>5. Knows(list, Append(q, m), players[data[l]].id, Members)
        <5> HIDE DEF list, q
        <5> QED BY <2>1, <3>0, <4>1, KnowsAfterOther
      <4>6. \A r : r = net'.link[c] =>
              /\ net'.state[r] # "pending"
              /\ Knows(remote_players'[c], net'.to_client[c], players'[data'[r]].id, Members')
        BY <1>1, <1>3, <2>4, <3>2, <4>5
      <4> QED BY <1>3, <3>2, <4>4, <4>6 DEF FirstSession, PlayerOf
    <3>3. CASE net'.to_client[c] # q
      <4>1. /\ net'.to_client[c] = Append(q, m) /\ l \in Peers /\ net.client[c] = "connected"
            /\ net.state[l] = "connected"
        BY <2>4, <3>3
      <4> QED BY <1>3, <2>4, <3>0, <3>2, <4>1 DEF RosterOK
    <3> QED BY <3>1, <3>3
  <2> QED BY <2>5, <2>6 DEF RosterInv
<1> QED BY <1>6, <1>7

\* A client's step is its own: the others' lists and queues stay as they are.
LEMMA ClientKeepsRoster ==
    ASSUME RosterInv, UNCHANGED server, NEW c \in Clients, RosterOK(c)',
           \A p \in Peers : OneVoice(p)',
           \A d \in Clients \ {c} :
               /\ net'.client[d] = net.client[d] /\ net'.to_client[d] = net.to_client[d]
               /\ net'.link[d] = net.link[d]
               /\ net.link[d] # NoPeer => net'.state[net.link[d]] = net.state[net.link[d]]
               /\ remote_players'[d] = remote_players[d] /\ local_id'[d] = local_id[d]
               /\ sessions'[d] = sessions[d]
    PROVE  RosterInv'
<1>1. Members' = Members /\ players' = players /\ data' = data
  BY SamePlayers DEF server
<1>2. ASSUME NEW d \in Clients \ {c} PROVE RosterOK(d)'
  <2>1. RosterOK(d)
    BY DEF RosterInv
  <2> QED BY <1>1, <2>1, RosterStays
<1> QED BY <1>2 DEF RosterInv

\* A client that sends nothing, and does not begin to talk to anyone.
LEMMA SilentClient ==
    ASSUME RosterInv, UNCHANGED server, NEW p \in Peers,
           net'.to_server = net.to_server, net'.state = net.state,
           \A d \in Clients : net'.client[d] = "connected" /\ net'.link[d] = p =>
                                  /\ net.client[d] = "connected" /\ net.link[d] = p
                                  /\ username'[d] = username[d]
    PROVE  OneVoice(p)'
<1>1. OneVoice(p) /\ players' = players /\ data' = data
  BY DEF RosterInv, server
<1> QED BY <1>1, VoiceStays

\* A connection ends: the list is kept, or is that of a new program.
LEMMA ClosingKeepsRoster ==
    ASSUME IInv, ClientInv, RosterInv, NEW c \in Clients,
           AbortConnect(c) \/ DisconnectEvent(c) \/ DisconnectTimesOut(c) \/ ProgramRestarts(c)
    PROVE  RosterInv'
<1>0. /\ net \in Networks /\ WellLinked(net) /\ RosterOK(c)
      /\ DOMAIN username = Clients /\ DOMAIN local_id = Clients
      /\ DOMAIN remote_players = Clients /\ DOMAIN sessions = Clients
  BY DEF IInv, ServerInv, NetOK, Networks, ClientInv, ClientTypeOK, RosterInv
<1>1. net' = ClientCloses(net, c) /\ UNCHANGED server
  BY DEF AbortConnect, DisconnectEvent, DisconnectTimesOut, ProgramRestarts
<1>2. /\ \A d \in Clients : net'.client[d] = IF d = c THEN "none" ELSE net.client[d]
      /\ \A d \in Clients : net'.to_client[d] = IF d = c THEN << >> ELSE net.to_client[d]
      /\ \A d \in Clients : net'.link[d] = IF d = c THEN NoPeer ELSE net.link[d]
      /\ net'.state = net.state /\ net'.to_server = net.to_server
  <2>1. LET r == ClientCloses(net, c)
        IN  /\ \A d \in Clients : r.client[d] = IF d = c THEN "none" ELSE net.client[d]
            /\ \A d \in Clients : r.to_client[d] = IF d = c THEN << >> ELSE net.to_client[d]
            /\ \A d \in Clients : r.link[d] = IF d = c THEN NoPeer ELSE net.link[d]
            /\ r.state = net.state /\ r.to_server = net.to_server
    BY <1>0, ClientClosesLinks DEF Networks
  <2> QED BY <1>1, <2>1
<1>3. /\ \/ sessions'[c] = sessions[c] /\ remote_players'[c] = remote_players[c]
         \/ remote_players'[c] = << >>
      /\ \A d \in Clients \ {c} :
            /\ username'[d] = username[d] /\ remote_players'[d] = remote_players[d]
            /\ local_id'[d] = local_id[d] /\ sessions'[d] = sessions[d]
  BY <1>0 DEF AbortConnect, DisconnectEvent, DisconnectTimesOut, ProgramRestarts, OnDisconnect
<1>4. RosterOK(c)'
  BY <1>0, <1>2, <1>3 DEF RosterOK
<1>5. ASSUME NEW p \in Peers PROVE OneVoice(p)'
  <2>1. \A d \in Clients : net'.client[d] = "connected" =>
            d # c /\ net.client[d] = "connected" /\ net'.link[d] = net.link[d]
    BY <1>2
  <2> QED BY <1>1, <1>2, <1>3, <2>1, SilentClient
<1> QED BY <1>1, <1>2, <1>3, <1>4, <1>5, ClientKeepsRoster

\* connect() takes a new name, but nobody is told yet.
LEMMA ConnectKeepsRoster ==
    ASSUME IInv, ClientInv, RosterInv, NEW c \in Clients, NEW name \in Usernames[c],
           Connect(c, name) \/ ConnectFails(c, name)
    PROVE  RosterInv'
<1>0. /\ net \in Networks /\ WellLinked(net) /\ RosterOK(c) /\ net.client[c] = "none"
      /\ DOMAIN username = Clients /\ UNCHANGED server
      /\ remote_players' = remote_players /\ local_id' = local_id /\ sessions' = sessions
      /\ username' = [username EXCEPT ![c] = name]
      /\ net' = net \/ net' = ClientOpens(net, c)
  BY DEF IInv, ServerInv, NetOK, Networks, ClientInv, ClientTypeOK, RosterInv, Connect,
         ConnectFails, CanConnect
<1>1. /\ \A d \in Clients : net'.client[d] = IF d = c THEN net'.client[d] ELSE net.client[d]
      /\ net'.client[c] \in {"none", "connecting"}
      /\ net'.link = net.link /\ net'.to_client = net.to_client
      /\ net'.state = net.state /\ net'.to_server = net.to_server
  <2>1. LET r == ClientOpens(net, c)
        IN  /\ \A d \in Clients : r.client[d] = IF d = c THEN "connecting" ELSE net.client[d]
            /\ r.link = net.link /\ r.to_client = net.to_client
            /\ r.state = net.state /\ r.to_server = net.to_server
    BY <1>0, ClientOpensLinks DEF Networks
  <2>2. CASE net' = net
    BY <1>0, <2>2
  <2>3. CASE net' = ClientOpens(net, c)
    BY <2>1, <2>3
  <2> QED BY <1>0, <2>2, <2>3
<1>2. RosterOK(c)'
  BY <1>0, <1>1 DEF RosterOK
<1>3. ASSUME NEW p \in Peers PROVE OneVoice(p)'
  <2>1. \A d \in Clients : net'.client[d] = "connected" =>
            d # c /\ net.client[d] = "connected" /\ username'[d] = username[d]
    BY <1>0, <1>1
  <2> QED BY <1>0, <1>1, <2>1, SilentClient
<1> QED BY <1>0, <1>1, <1>2, <1>3, ClientKeepsRoster

\* disconnect() ends what the client reads.
LEMMA DisconnectKeepsRoster ==
    ASSUME IInv, ClientInv, RosterInv, NEW c \in Clients, Disconnect(c)
    PROVE  RosterInv'
<1>0. /\ net \in Networks /\ WellLinked(net) /\ RosterOK(c) /\ net.client[c] = "connected"
      /\ UNCHANGED server /\ net' = ClientDisconnects(net, c) /\ username' = username
      /\ remote_players' = remote_players /\ local_id' = local_id /\ sessions' = sessions
  BY DEF IInv, ServerInv, NetOK, Networks, ClientInv, RosterInv, Disconnect, client
<1>1. /\ \A d \in Clients : net'.client[d] = IF d = c THEN "disconnecting" ELSE net.client[d]
      /\ \A d \in Clients : net'.to_client[d] = IF d = c THEN << >> ELSE net.to_client[d]
      /\ net'.link = net.link /\ net'.state = net.state /\ net'.to_server = net.to_server
  <2>1. LET r == ClientDisconnects(net, c)
        IN  /\ \A d \in Clients : r.client[d] = IF d = c THEN "disconnecting" ELSE net.client[d]
            /\ \A d \in Clients : r.to_client[d] = IF d = c THEN << >> ELSE net.to_client[d]
            /\ r.link = net.link /\ r.state = net.state /\ r.to_server = net.to_server
    BY <1>0, ClientDisconnectsLinks DEF Networks
  <2> QED BY <1>0, <2>1
<1>2. RosterOK(c)'
  BY <1>0, <1>1 DEF RosterOK
<1>3. ASSUME NEW p \in Peers PROVE OneVoice(p)'
  <2>1. \A d \in Clients : net'.client[d] = "connected" => net.client[d] = "connected"
    BY <1>1
  <2> QED BY <1>0, <1>1, <2>1, SilentClient
<1> QED BY <1>0, <1>1, <1>2, <1>3, ClientKeepsRoster

\* A chat message is sent under the client's name, which nobody else has at its
\* peer.
LEMMA SendChatKeepsRoster ==
    ASSUME IInv, ClientInv, RosterInv, NEW c \in Clients, SendChat(c)
    PROVE  RosterInv'
<1> DEFINE m == C_ChatMessage(username[c])
<1>0. /\ net \in Networks /\ WellLinked(net) /\ RosterOK(c) /\ net.client[c] = "connected"
      /\ UNCHANGED server /\ net' = ClientSends(net, c, m) /\ username' = username
      /\ remote_players' = remote_players /\ local_id' = local_id /\ sessions' = sessions
      /\ username \in [Clients -> AnyName]
  BY DEF IInv, ServerInv, NetOK, Networks, ClientInv, ClientTypeOK, RosterInv, SendChat
<1>1. m \in ToServer /\ NameOn(m) = username[c]
  BY <1>0, MessagesTyped DEF C_ChatMessage, NameOn
<1> HIDE DEF m
<1>2. /\ net'.client = net.client /\ net'.link = net.link
      /\ net'.to_client = net.to_client /\ net'.state = net.state
      /\ \A q \in Peers : \/ net'.to_server[q] = net.to_server[q]
                          \/ q = net.link[c] /\ net'.to_server[q] = Append(net.to_server[q], m)
  <2>1. LET r == ClientSends(net, c, m)
        IN  /\ r.client = net.client /\ r.link = net.link /\ r.to_client = net.to_client
            /\ r.state = net.state
            /\ \A q \in Peers :
                 \/ r.to_server[q] = net.to_server[q]
                 \/ q = net.link[c] /\ r.to_server[q] = Append(net.to_server[q], m)
    BY <1>0, <1>1, ClientSendsLinks DEF Networks
  <2> QED BY <1>0, <2>1
<1>3. players' = players /\ data' = data /\ Members' = Members
  BY <1>0, SamePlayers DEF server
<1>4. ASSUME NEW p \in Peers PROVE OneVoice(p)'
  <2>1. OneVoice(p)
    BY DEF RosterInv
  <2>2. CASE net'.to_server[p] = net.to_server[p]
    BY <1>0, <1>2, <1>3, <2>1, <2>2, VoiceStays
  <2>3. CASE net'.to_server[p] # net.to_server[p]
    <3>1. p = net.link[c] /\ net'.to_server[p] = Append(net.to_server[p], m)
      BY <1>2, <2>3
    <3>2. net.state[p] \in {"pending", "connected"}
      <4>1. ClientSends(net, c, m) # net
        BY <1>0, <2>3
      <4> QED BY <3>1, <4>1 DEF ClientSends
    <3>3. PICK name \in AnyName : SpeaksAs(p, name)
      BY <2>1 DEF OneVoice
    <3>4. username[c] = name
      BY <1>0, <3>1, <3>2, <3>3 DEF SpeaksAs
    <3>5. ToSet(net'.to_server[p]) = ToSet(net.to_server[p]) \cup {m}
      <4>1. net.to_server[p] \in Seq(ToServer)
        BY <1>0 DEF Networks, Nets
      <4> QED BY <1>1, <3>1, <4>1, QueueMessages
    <3>6. SpeaksAs(p, name)'
      BY <1>0, <1>1, <1>2, <1>3, <3>3, <3>4, <3>5 DEF SpeaksAs
    <3> QED BY <3>6 DEF OneVoice
  <2> QED BY <2>2, <2>3
<1>5. RosterOK(c)'
  BY <1>0, <1>2, <1>3, RosterStays
<1> QED BY <1>0, <1>2, <1>4, <1>5, ClientKeepsRoster

\* A client that is connected has heard nothing, and is alone at its peer.
LEMMA ConnectEventKeepsRoster ==
    ASSUME IInv, ClientInv, RosterInv, NEW c \in Clients, NEW p \in Peers, ConnectEvent(c, p)
    PROVE  RosterInv'
<1> DEFINE n == ClientConnects(net, c, p)
           m == C_Handshake(username[c])
<1>0. /\ net \in Networks /\ WellLinked(net) /\ RosterOK(c)
      /\ net.client[c] = "connecting" /\ net.state[p] = "free"
      /\ UNCHANGED server /\ net' = ClientSends(n, c, m)
      /\ username' = username /\ remote_players' = remote_players /\ local_id' = local_id
      /\ sessions' = [sessions EXCEPT ![c] = sessions[c] + 1]
      /\ username \in [Clients -> AnyName] /\ sessions \in [Clients -> Nat]
  BY DEF IInv, ServerInv, NetOK, Networks, ClientInv, ConnectEvent, ClientTypeOK, RosterInv,
         IsFirstFree, FreePeers
<1>1. m \in ToServer /\ NameOn(m) = username[c]
  BY <1>0, MessagesTyped DEF C_Handshake, NameOn
<1>2. /\ n \in Networks /\ WellLinked(n)
      /\ \A d \in Clients : n.client[d] = IF d = c THEN "connected" ELSE net.client[d]
      /\ \A d \in Clients : n.link[d] = IF d = c THEN p ELSE net.link[d]
      /\ \A q \in Peers : n.state[q] = IF q = p THEN "pending" ELSE net.state[q]
      /\ n.to_client = net.to_client /\ n.to_server = net.to_server
  <2>1. n \in Networks
    BY <1>0, ClientConnectsIsNet DEF Networks
  <2> QED BY <1>0, <2>1, ClientConnectsLinks DEF Networks
<1> HIDE DEF n, m
<1>3. /\ net'.client = n.client /\ net'.link = n.link
      /\ net'.to_client = n.to_client /\ net'.state = n.state
      /\ \A q \in Peers : \/ net'.to_server[q] = n.to_server[q]
                          \/ q = n.link[c] /\ net'.to_server[q] = Append(n.to_server[q], m)
  <2>1. LET r == ClientSends(n, c, m)
        IN  /\ r.client = n.client /\ r.link = n.link /\ r.to_client = n.to_client
            /\ r.state = n.state
            /\ \A q \in Peers :
                 \/ r.to_server[q] = n.to_server[q]
                 \/ q = n.link[c] /\ r.to_server[q] = Append(n.to_server[q], m)
    BY <1>1, <1>2, ClientSendsLinks DEF Networks
  <2> QED BY <1>0, <2>1
<1>4. /\ net.to_server[p] = << >> /\ net.to_client[c] = << >>
      /\ \A d \in Clients : net.link[d] # p
  BY <1>0 DEF WellLinked, Peers, NoPeer
<1>5. ASSUME NEW q \in Peers PROVE OneVoice(q)'
  <2>1. CASE q = p
    <3>1. ToSet(net'.to_server[p]) \subseteq {m}
      <4>1. net.to_server[p] \in Seq(ToServer)
        BY <1>0 DEF Networks, Nets
      <4>2. ToSet(Append(net.to_server[p], m)) = ToSet(net.to_server[p]) \cup {m}
        BY <1>1, <4>1, QueueMessages
      <4> QED BY <1>2, <1>3, <1>4, <4>2, NothingQueued
    <3>2. net'.state[p] = "pending" /\ \A d \in Clients : net'.link[d] = p => d = c
      BY <1>2, <1>3, <1>4
    <3>3. SpeaksAs(p, username[c])'
      BY <1>0, <1>1, <3>1, <3>2 DEF SpeaksAs
    <3>4. username[c] \in AnyName /\ username'[c] = username[c]
      BY <1>0
    <3> QED BY <2>1, <3>3, <3>4 DEF OneVoice
  <2>2. CASE q # p
    <3>1. /\ OneVoice(q) /\ net'.to_server[q] = net.to_server[q] /\ net'.state[q] = net.state[q]
          /\ players' = players /\ data' = data
          /\ \A d \in Clients : net'.link[d] = q =>
                net.link[d] = q /\ net'.client[d] = net.client[d]
      BY <1>0, <1>2, <1>3, <2>2 DEF RosterInv, server
    <3> QED BY <1>0, <3>1, VoiceStays
  <2> QED BY <2>1, <2>2
<1>6. RosterOK(c)'
  <2>1. /\ net'.client[c] = "connected" /\ net'.link[c] = p /\ net'.state[p] = "pending"
        /\ net'.to_client[c] = << >> /\ sessions'[c] = sessions[c] + 1 /\ sessions[c] \in Nat
    BY <1>0, <1>2, <1>3, <1>4
  <2>2. sessions[c] = 0 => remote_players'[c] = << >>
    BY <1>0 DEF RosterOK
  <2>3. ChatRight(remote_players'[c], << >>, local_id'[c])
    <3>1. 1 .. Len(<< >>) = {}
      OBVIOUS
    <3> QED BY <3>1 DEF ChatRight
  <2>4. sessions'[c] = 1 => FirstSession(c)'
    BY <2>1, <2>2, <2>3 DEF FirstSession
  <2> QED BY <2>1, <2>4 DEF RosterOK
<1>7. \A d \in Clients \ {c} :
          /\ net'.client[d] = net.client[d] /\ net'.to_client[d] = net.to_client[d]
          /\ net'.link[d] = net.link[d]
          /\ net.link[d] # NoPeer => net'.state[net.link[d]] = net.state[net.link[d]]
          /\ remote_players'[d] = remote_players[d] /\ local_id'[d] = local_id[d]
          /\ sessions'[d] = sessions[d]
  <2>1. \A d \in Clients : net.link[d] \in Peers \cup {NoPeer}
    BY <1>0 DEF Networks, Nets
  <2> QED BY <1>0, <1>2, <1>3, <1>4, <2>1
<1> QED BY <1>0, <1>5, <1>6, <1>7, ClientKeepsRoster

\* A message that is read moves to the list what it says.
LEMMA ReceiveKeepsRoster ==
    ASSUME IInv, ClientInv, RosterInv, NEW c \in Clients, Receive(c)
    PROVE  RosterInv'
<1> DEFINE q == net.to_client[c]
           m == Head(q)
<1>0. /\ net \in Networks /\ WellLinked(net) /\ RosterOK(c)
      /\ net.client[c] = "connected" /\ q # << >> /\ q \in Seq(ToClient)
      /\ UNCHANGED server /\ net' = [net EXCEPT !.to_client = [net.to_client EXCEPT ![c] = Tail(q)]]
      /\ local_id' = [local_id EXCEPT ![c] = IdAfter(local_id[c], m)]
      /\ remote_players' = [remote_players EXCEPT ![c] = ListAfter(remote_players[c], m)]
      /\ username' = username /\ sessions' = sessions /\ DOMAIN local_id = Clients
      /\ DOMAIN remote_players = Clients
  BY DEF IInv, ServerInv, NetOK, Networks, Nets, ClientInv, Receive, ClientTypeOK, RosterInv
<1> HIDE DEF q, m
<1>1. /\ net'.client = net.client /\ net'.link = net.link /\ net'.state = net.state
      /\ net'.to_server = net.to_server
      /\ \A d \in Clients : net'.to_client[d] = IF d = c THEN Tail(q) ELSE net.to_client[d]
  BY <1>0 DEF Networks, Nets
<1>2. players' = players /\ data' = data /\ Members' = Members
  BY <1>0, SamePlayers DEF server
<1>3. ASSUME NEW p \in Peers PROVE OneVoice(p)'
  BY <1>0, <1>1, SilentClient
<1>4. ASSUME sessions[c] = 1 PROVE FirstSession(c)'
  <2> DEFINE list == remote_players[c]
             l == net.link[c]
  <2>1. FirstSession(c)
    BY <1>0, <1>4 DEF RosterOK
  <2>2. /\ remote_players'[c] = ListAfter(list, m) /\ local_id'[c] = IdAfter(local_id[c], m)
        /\ net'.to_client[c] = Tail(q)
    BY <1>0, <1>1
  <2>3. ChatRight(ListAfter(list, m), Tail(q), IdAfter(local_id[c], m))
    BY <1>0, <2>1, TailChat DEF FirstSession, q, m
  <2>4. l # NoPeer => net.state[l] # "pending"
    BY <1>0, <2>1 DEF FirstSession, q
  <2>5. ASSUME l # NoPeer, net.state[l] = "connected"
        PROVE  Knows(ListAfter(list, m), Tail(q), players[data[l]].id, Members)
    <3>1. Knows(list, q, players[data[l]].id, Members)
      BY <2>1, <2>5 DEF FirstSession, PlayerOf, q
    <3> HIDE DEF list
    <3> QED BY <1>0, <3>1, KnowsAfterRead DEF m
  <2>6. \A r : r = net'.link[c] =>
          /\ r # NoPeer => net'.state[r] # "pending"
          /\ r # NoPeer /\ net'.state[r] = "connected" =>
                Knows(remote_players'[c], net'.to_client[c], players'[data'[r]].id, Members')
    BY <1>1, <1>2, <2>2, <2>4, <2>5
  <2> QED BY <2>2, <2>3, <2>6 DEF FirstSession, PlayerOf
<1>5. RosterOK(c)'
  BY <1>0, <1>1, <1>4 DEF RosterOK
<1>6. \A d \in Clients \ {c} :
          remote_players'[d] = remote_players[d] /\ local_id'[d] = local_id[d]
  BY <1>0
<1> QED BY <1>0, <1>1, <1>3, <1>5, <1>6, ClientKeepsRoster

\* Nobody has been told anything, and nobody has spoken.
LEMMA RosterInvInit == Init => RosterInv
<1> SUFFICES ASSUME Init PROVE RosterInv
  OBVIOUS
<1>1. /\ \A p \in Peers : net.state[p] = "free" /\ net.to_server[p] = << >>
      /\ \A c \in Clients : /\ net.client[c] = "none" /\ remote_players[c] = << >>
                            /\ sessions[c] = 0
  BY DEF Init, ClientInit, EmptyNet
<1>2. NoName \in AnyName
  BY DEF AnyName
<1>3. \A p \in Peers : SpeaksAs(p, NoName)
  BY <1>1, NothingQueued DEF SpeaksAs
<1> QED BY <1>1, <1>2, <1>3 DEF RosterInv, OneVoice, RosterOK

\* Any step of the session keeps everyone's view of the players right.
LEMMA RosterInvStep == IInv /\ IInv' /\ ClientInv /\ RosterInv /\ [Next]_vars => RosterInv'
<1> SUFFICES ASSUME IInv, IInv', ClientInv, RosterInv, [Next]_vars PROVE RosterInv'
  OBVIOUS
<1>0. ServerInv /\ ServerInv' /\ WellLinked(net) /\ NetOK
  BY DEF IInv, ClientInv, ServerInv
<1>1. CASE (\E p \in Peers : TickServer(p)) /\ UNCHANGED client
  BY <1>0, <1>1, AdmitPeerKeepsRoster, PeersGoKeepsRoster, PlayerLeavesKeepsRoster,
     AcceptHandshakeKeepsRoster, RelayChatKeepsRoster DEF TickServer
<1>2. CASE UseServer /\ UNCHANGED client
  BY <1>0, <1>2, UseServerKeepsRoster
<1>3. ASSUME NEW c \in Clients, TickClient(c) PROVE RosterInv'
  BY <1>3, ClosingKeepsRoster, ConnectEventKeepsRoster, ReceiveKeepsRoster DEF TickClient
<1>4. ASSUME NEW c \in Clients, UseClient(c) PROVE RosterInv'
  BY <1>4, ConnectKeepsRoster, DisconnectKeepsRoster, SendChatKeepsRoster, ClosingKeepsRoster
     DEF UseClient
<1>5. CASE Network /\ UNCHANGED << server, client >>
  BY <1>0, <1>5, NetworkKeepsRoster
<1>6. CASE UNCHANGED vars
  <2>1. net' = net /\ UNCHANGED client /\ UNCHANGED players /\ data' = data
    BY <1>6 DEF vars, server
  <2>2. Calm(net, net')
    BY <2>1 DEF Calm
  <2> QED BY <1>0, <2>1, <2>2, SamePlayers, CalmKeeps
<1> QED BY <1>1, <1>2, <1>3, <1>4, <1>5, <1>6 DEF Next

\* In every state a session can reach, what each client in its first session
\* has read and been sent is right.
THEOREM RosterInvariant == SafeSpec => []RosterInv
  BY RosterInvInit, RosterInvStep, SessionInvariant, ClientsToldRight, PTL DEF SafeSpec

\* A client in its first session has, or has been sent, exactly the players the
\* server has, each under its one name.
THEOREM RostersConverge == SafeSpec => []RosterConverges
<1>1. RosterInv => RosterConverges
  <2> SUFFICES ASSUME RosterInv, NEW c \in Clients, Playing(c), sessions[c] = 1, NEW i \in Ids
               PROVE  NamesSoon(c, i) = IF i \in DOMAIN Members THEN {Members[i]} ELSE {}
    BY DEF RosterConverges
  <2>1. Knows(remote_players[c], net.to_client[c], PlayerOf(c).id, Members) /\ PlayerOf(c).id # 0
    BY DEF RosterInv, RosterOK, FirstSession, Playing, Live
  <2>2. Heard(remote_players[c], net.to_client[c], i) = NamedIn(Members, i)
    BY <2>1 DEF Knows
  <2> QED BY <2>2 DEF NamesSoon, Heard, NamedIn
<1> QED BY <1>1, RosterInvariant, PTL

\* A chat message is shown under the name of its author, by every client in its
\* first session that has an id.
THEOREM ChatAttributed == SafeSpec => []ChatAttribution
<1>1. IInv /\ RosterInv => ChatAttribution
  <2> SUFFICES ASSUME IInv, RosterInv, NEW c \in Clients, sessions[c] = 1,
                      net.client[c] = "connected", net.to_client[c] # << >>,
                      Head(net.to_client[c]).type = "S_ChatMessage"
               PROVE  LET m == Head(net.to_client[c])
                      IN  IF m.sender \in DOMAIN remote_players[c]
                          THEN remote_players[c][m.sender] = m.author
                          ELSE local_id[c] = 0
    BY DEF ChatAttribution
  <2> DEFINE q == net.to_client[c]
             m == Head(q)
             list == remote_players[c]
  <2>1. q \in Seq(ToClient) /\ q # << >>
    BY DEF IInv, ServerInv, NetOK, Nets
  <2>2. 1 \in 1 .. Len(q) /\ q[1] = m
    BY <2>1
  <2>3. ChatRight(list, q, local_id[c])
    BY DEF RosterInv, RosterOK, FirstSession
  <2> HIDE DEF q, list
  <2>4. NamesAhead(list, q, m.sender, 1) =
            IF m.sender \in DOMAIN list THEN {list[m.sender]} ELSE {}
    BY NamesOnList
  <2>5. m.type = "S_ChatMessage"
    BY DEF q
  <2>6. /\ NamesAhead(list, q, m.sender, 1) \subseteq {m.author}
        /\ NamesAhead(list, q, m.sender, 1) = {} => local_id[c] = 0
    BY <2>2, <2>3, <2>5 DEF ChatRight
  <2>7. IF m.sender \in DOMAIN list THEN list[m.sender] = m.author ELSE local_id[c] = 0
    BY <2>4, <2>6
  <2> QED BY <2>7 DEF q, list
<1> QED BY <1>1, SessionInvariant, RosterInvariant, PTL
=============================================================================
