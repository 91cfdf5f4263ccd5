----------------------------- MODULE DnsTunnel ------------------------------
(***************************************************************************)
(* A DNS tunnel session: the client's write pump, reader and poller, the  *)
(* server's driver and write pump, and the resolver between them.          *)
(*                                                                         *)
(* The client asks and the server only answers.  Queries and answers are   *)
(* lost, duplicated and reordered.  Each driver hands the bytes of one     *)
(* packet to its application through a bounded pipe before it takes the    *)
(* next packet; the server's answer is built before that wait and sent     *)
(* after it.  The queue of 128 queries between the serve loop and the      *)
(* driver, which drops what does not fit, is part of the network here, and *)
(* so is a query or answer that fails to parse.                            *)
(***************************************************************************)
EXTENDS ReliableEndpoint

CONSTANTS
    MaxWrite,   \* side -> bytes its application writes
    UpMtu,      \* max_upstream_data
    DownMtus,   \* the values of downstream_mtu
    DuplexCap,  \* DUPLEX_BUF
    NetCap      \* side -> bound on the packets on their way to it

Side == {"client", "server"}

ASSUME TunnelAssumption ==
    /\ MaxWrite \in [Side -> Nat] /\ NetCap \in [Side -> Nat \ {0}]
    /\ UpMtu \in Nat \ {0} /\ DuplexCap \in Nat \ {0}
    /\ DownMtus # {} /\ DownMtus \subseteq Nat \ {0}

Peer(s) == IF s = "client" THEN "server" ELSE "client"

VARIABLES
    ep,     \* side -> its ReliableEndpoint
    wrote,  \* side -> bytes its application has written
    got,    \* side -> bytes handed to its application's pipe, in order
    read,   \* side -> how many of them the application has read
    hand,   \* side -> bytes of the packet at hand, still to be handed over
    reply,  \* the answer to the query at hand, if the server has one
    net     \* side -> packets on their way to it

vars == <<ep, wrote, got, read, hand, reply, net>>

Init ==
    /\ ep = [s \in Side |-> new]
    /\ wrote = [s \in Side |-> 0]
    /\ got = [s \in Side |-> <<>>]
    /\ read = [s \in Side |-> 0]
    /\ hand = [s \in Side |-> <<>>]
    /\ reply = {}
    /\ net = [s \in Side |-> {}]

\* A full network loses a packet to make room: any one but the newest.
Send(s, p) ==
    \E lost \in SUBSET net[s] :
        /\ Cardinality(lost) = IF Cardinality(net[s]) < NetCap[s] \/ p \in net[s] THEN 0 ELSE 1
        /\ net' = [net EXCEPT ![s] = (@ \ lost) \cup {p}]

\* The application writes a byte and the write pump queues it.
Write(s) ==
    /\ ~ep[s].fin_queued /\ wrote[s] < MaxWrite[s]
    /\ wrote' = [wrote EXCEPT ![s] = @ + 1]
    /\ ep' = [ep EXCEPT ![s] = write(@, wrote'[s])]
    /\ UNCHANGED <<got, read, hand, reply, net>>

\* The application shuts its side down and the write pump queues the FIN.
Close(s) ==
    /\ ~ep[s].fin_queued
    /\ ep' = [ep EXCEPT ![s] = close(@)]
    /\ UNCHANGED <<wrote, got, read, hand, reply, net>>

Read(s) ==
    /\ read[s] < Len(got[s])
    /\ read' = [read EXCEPT ![s] = @ + 1]
    /\ UNCHANGED <<ep, wrote, got, hand, reply, net>>

\* Mutant of Poll: the client asks only while it has something to send.
PollWhenPending ==
    /\ ep["client"].send_stream # <<>> \/ ep["client"].fin_queued
    /\ Send("server", build_packet(ep["client"], UpMtu))
    /\ UNCHANGED <<ep, wrote, got, read, hand, reply>>

Poll ==
    /\ Send("server", build_packet(ep["client"], UpMtu))
    /\ UNCHANGED <<ep, wrote, got, read, hand, reply>>

\* The packet may arrive again: it may stay in the network.
Arrive(s, p) ==
    /\ hand[s] = <<>>
    /\ ep' = [ep EXCEPT ![s] = on_packet(@, p)]
    /\ hand' = [hand EXCEPT ![s] = Accepted(ep[s], p.seq, p.data)]
    /\ \E left \in {net[s], net[s] \ {p}} : net' = [net EXCEPT ![s] = left]
    /\ UNCHANGED <<wrote, got, read>>

ClientReceive(p) == p \in net["client"] /\ Arrive("client", p) /\ UNCHANGED reply

ServerReceive(p) ==
    /\ p \in net["server"]
    /\ reply = {}
    /\ Arrive("server", p)
    /\ \E mtu \in DownMtus : reply' = {build_packet(ep'["server"], mtu)}

\* dr_write.write_all: waits while the application's pipe is full.
HandOver(s) ==
    /\ hand[s] # <<>>
    /\ Len(got[s]) - read[s] < DuplexCap
    /\ got' = [got EXCEPT ![s] = Append(@, Head(hand[s]))]
    /\ hand' = [hand EXCEPT ![s] = Tail(@)]
    /\ UNCHANGED <<ep, wrote, read, reply, net>>

Reply ==
    /\ hand["server"] = <<>>
    /\ \E p \in reply : Send("client", p)
    /\ reply' = {}
    /\ UNCHANGED <<ep, wrote, got, read, hand>>

Lose(s) ==
    /\ \E p \in net[s] : net' = [net EXCEPT ![s] = @ \ {p}]
    /\ UNCHANGED <<ep, wrote, got, read, hand, reply>>

Next ==
    \/ \E s \in Side : Write(s) \/ Close(s) \/ Read(s) \/ HandOver(s) \/ Lose(s)
    \/ \E p \in net["client"] : ClientReceive(p)
    \/ \E p \in net["server"] : ServerReceive(p)
    \/ Poll
    \/ Reply

Spec == Init /\ [][Next]_vars

\* A packet that says what its sender would say now.
FreshQuery(p) == p = build_packet(ep["client"], UpMtu)
FreshAnswer(p) == \E mtu \in DownMtus : p = build_packet(ep["server"], mtu)

Idle(s) == hand[s] = <<>> /\ (s = "server" => reply = {})

\* The pumps, the poller and the driver are tasks that keep running, and the
\* applications keep reading.  The network does not lose up-to-date packets for
\* ever, nor does it deliver them only while their reader is busy: the serve
\* loop's queue and the socket's buffer hold them for it.
Fairness ==
    /\ \A s \in Side : WF_vars(Read(s)) /\ WF_vars(HandOver(s))
    /\ WF_vars(Reply)
    /\ SF_vars(Idle("server") /\ Poll)
    /\ SF_vars(Idle("client") /\ Reply)
    /\ SF_vars(\E p \in net["server"] : FreshQuery(p) /\ ServerReceive(p))
    /\ SF_vars(\E p \in net["client"] : FreshAnswer(p) /\ ClientReceive(p))

FairSpec == Spec /\ Fairness

-----------------------------------------------------------------------------
(* Properties. *)

\* Bytes reach each application in the order in which the other wrote them,
\* none lost and none twice, whatever the network does to the packets
\* (on_packet, accept_data, the handover of delivered bytes).
InOrder ==
    \A s \in Side :
        LET all == got[s] \o hand[s] IN
        /\ all = [i \in 1 .. Len(all) |-> i]
        /\ Len(all) <= wrote[Peer(s)]

\* Over a network that loses, repeats and reorders, every byte written is read
\* at the other end and every FIN reaches the endpoint there: again and again
\* the tunnel is drained (a lost query or answer is recovered on a later poll,
\* and no two tasks wait for each other).  Nothing passes the FIN on to the
\* application.
EverythingArrives ==
    []<>(\A s \in Side :
            /\ read[Peer(s)] = wrote[s]
            /\ ep[s].fin_queued => peer_finished(ep[Peer(s)]))

\* A byte leaves its sender's retransmission buffer only when the other end has
\* taken it, however late, doubled or reordered the acknowledgements are
\* (build_packet, and the ack branch of on_packet).
KeptUntilTaken ==
    \A s \in Side :
        /\ ep[s].send_base + Len(ep[s].send_stream) = wrote[s]
        /\ ep[s].send_base <= ep[Peer(s)].recv_next
=============================================================================
