------------------------------ MODULE NetConfig ------------------------------
(***************************************************************************)
(* How GRUB gets its network addresses: by DHCP or BOOTP (bootp), by RARP  *)
(* (rarp), or typed by the user (ifconfig), and when it says that the      *)
(* network is ready (netboot/main.c).  The servers are external, the       *)
(* network loses, repeats, delays and reorders: what was sent stays, and   *)
(* may come at any time, again, or never.                                  *)
(***************************************************************************)
EXTENDS Integers

CONSTANTS
    DhcpServers, BootpServers, RarpServers,
    Offer,          \* the address that each server gives
    Typed,          \* addresses that users type
    NoAddress,      \* 0.0.0.0
    MaxRetries,     \* MAX_BOOTP_RETRIES, MAX_ARP_RETRIES
    MaxCalls        \* bound: commands given

Servers == DhcpServers \cup BootpServers \cup RarpServers

ASSUME NetConfigAssumption ==
    /\ NoAddress \notin Servers \cup Typed
    /\ \A s \in Servers : Offer[s] # NoAddress
    /\ MaxRetries \in Nat /\ MaxCalls \in Nat

VARIABLES
    pc,             \* "idle", "outer" and "inner" (at the heads of bootp's loops),
                    \* "await" and "awaitack" (in await_reply), "rarp"
    retry, reqretry,
    xid,            \* of the call of bootp, different in each
    packet,         \* ip.bp: "DISCOVER", or the server and the address of a request
    dhcp_reply, dhcp_server,
    client, server, \* arptable[ARP_CLIENT] and [ARP_SERVER]; client is dhcp_addr too
    network_ready,
    typed,          \* the user gave addresses after the last bootp or rarp
    calls,          \* bound: how many commands were given
    sent, replies   \* the network

loops == <<pc, retry, reqretry>>
dhcp == <<packet, dhcp_reply, dhcp_server>>
addresses == <<client, server>>
netVars == <<loops, xid, dhcp, addresses, network_ready, typed, calls, sent, replies>>

Discover == [type |-> "DISCOVER", id |-> NoAddress, addr |-> NoAddress]
RequestOf(s, a) == [type |-> "REQUEST", id |-> s, addr |-> a]

NetInit ==
    /\ pc = "idle" /\ retry = 0 /\ reqretry = 0 /\ xid = 0
    /\ packet = Discover /\ dhcp_reply = "none" /\ dhcp_server = NoAddress
    /\ client = NoAddress /\ server = NoAddress
    /\ network_ready = FALSE /\ typed = FALSE /\ calls = 0
    /\ sent = {} /\ replies = {}

-----------------------------------------------------------------------------
(* The servers (external).  A reply of a BOOTP server has no message type. *)

Reply(x, type, s, a) == [xid |-> x, type |-> type, from |-> s, addr |-> a]

Answer(s, m) ==
    \/ /\ s \in BootpServers /\ m.packet.type \in {"DISCOVER", "REQUEST"}
       /\ replies' = replies \cup {Reply(m.xid, "none", s, Offer[s])}
    \/ /\ s \in DhcpServers /\ m.packet.type = "DISCOVER"
       /\ replies' = replies \cup {Reply(m.xid, "OFFER", s, Offer[s])}
    \/ /\ s \in DhcpServers /\ m.packet.type = "REQUEST" /\ m.packet.id = s
       /\ \/ replies' = replies \cup {Reply(m.xid, "NAK", s, NoAddress)}
          \/ /\ m.packet.addr = Offer[s]
             /\ replies' = replies \cup {Reply(m.xid, "ACK", s, Offer[s])}
    \/ /\ s \in RarpServers /\ m.packet.type = "RARP"
       /\ replies' = replies \cup {Reply(0, "RARP", s, Offer[s])}

Serve ==
    /\ \E s \in Servers, m \in sent : Answer(s, m)
    /\ UNCHANGED <<loops, xid, dhcp, addresses, network_ready, typed, calls, sent>>

-----------------------------------------------------------------------------
(* await_reply (AWAIT_BOOTP): any BOOTP reply to this call sets the        *)
(* addresses; decode_rfc1533 finds its type and server, if it names them.  *)

ForUs(m) == m.type # "RARP" /\ m.xid = xid

TakeAddresses(m) ==
    /\ client' = m.addr /\ server' = (IF m.type = "NAK" THEN NoAddress ELSE m.from)
    /\ dhcp_server' = (IF m.type = "none" THEN dhcp_server ELSE m.from)

TypeFound(m) == IF m.type = "none" THEN dhcp_reply ELSE m.type

-----------------------------------------------------------------------------
(* bootp.                                                                  *)

Returns(ready) == pc' = "idle" /\ network_ready' = ready

Bootp ==
    /\ pc = "idle" /\ calls < MaxCalls
    /\ network_ready' = FALSE /\ xid' = xid + 1
    /\ packet' = Discover /\ retry' = 0
    /\ pc' = "outer" /\ typed' = FALSE /\ calls' = calls + 1
    /\ UNCHANGED <<reqretry, dhcp_reply, dhcp_server, addresses, sent, replies>>

Broadcast == sent' = sent \cup {[xid |-> xid, packet |-> packet]}

\* The outer loop sends what packet holds: after a request failed that is still the
\* request.
Transmit ==
    /\ pc = "outer"
    /\ IF retry < MaxRetries
       THEN Broadcast /\ retry' = retry + 1 /\ pc' = "await" /\ UNCHANGED network_ready
       ELSE Returns(FALSE) /\ UNCHANGED <<sent, retry>>
    /\ UNCHANGED <<reqretry, xid, dhcp, addresses, typed, calls, replies>>

Requests(packet1) ==
    dhcp_reply' = "none" /\ packet' = packet1 /\ reqretry' = 0 /\ pc' = "inner"
        /\ UNCHANGED network_ready

\* Mutant: the request is made before the offer's server is known.
TakeOfferEarly(m) == Requests(RequestOf(dhcp_server, m.addr))

TakeOffer(m) == Requests(RequestOf(dhcp_server', m.addr))

\* An offer is answered; any other reply, a refusal too, ends the call with success.
ReceiveReply ==
    /\ pc = "await"
    /\ \E m \in replies :
        /\ ForUs(m)
        /\ TakeAddresses(m)
        /\ IF TypeFound(m) = "OFFER" THEN TakeOffer(m)
           ELSE Returns(TRUE) /\ dhcp_reply' = TypeFound(m) /\ UNCHANGED <<packet, reqretry>>
    /\ UNCHANGED <<retry, xid, typed, calls, sent, replies>>

TransmitRequest ==
    /\ pc = "inner"
    /\ IF reqretry < MaxRetries
       THEN Broadcast /\ dhcp_reply' = "none" /\ reqretry' = reqretry + 1 /\ pc' = "awaitack"
       ELSE pc' = "outer" /\ UNCHANGED <<sent, dhcp_reply, reqretry>>
    /\ UNCHANGED <<retry, xid, packet, dhcp_server, addresses, network_ready, typed, calls, replies>>

\* Mutant: an offer is as good as an acknowledgement.
AcceptsAny(type) == type \in {"ACK", "OFFER"}

Accepts(type) == type = "ACK"

ReceiveAck ==
    /\ pc = "awaitack"
    /\ \E m \in replies :
        /\ ForUs(m)
        /\ TakeAddresses(m)
        /\ dhcp_reply' = TypeFound(m)
        /\ IF Accepts(dhcp_reply') THEN Returns(TRUE) ELSE pc' = "inner" /\ UNCHANGED network_ready
    /\ UNCHANGED <<retry, reqretry, xid, packet, typed, calls, sent, replies>>

\* await_reply gives up after a while.
Timeout ==
    /\ \/ pc = "await" /\ pc' = "outer"
       \/ pc = "awaitack" /\ pc' = "inner"
    /\ UNCHANGED <<retry, reqretry, xid, dhcp, addresses, network_ready, typed, calls, sent, replies>>

CtrlC ==
    /\ pc \in {"await", "awaitack", "rarp"} /\ Returns(FALSE)
    /\ UNCHANGED <<retry, reqretry, xid, dhcp, addresses, typed, calls, sent, replies>>

-----------------------------------------------------------------------------
(* rarp, ifconfig (tftpserver is ifconfig of a server alone), cleanup_net. *)

RarpRequest ==
    LET rarp == [type |-> "RARP", id |-> NoAddress, addr |-> NoAddress]
    IN  sent' = sent \cup {[xid |-> 0, packet |-> rarp]}

Rarp ==
    /\ pc = "idle" /\ calls < MaxCalls
    /\ network_ready' = FALSE
    /\ RarpRequest /\ retry' = 0 /\ pc' = "rarp"
    /\ typed' = FALSE /\ calls' = calls + 1
    /\ UNCHANGED <<reqretry, xid, dhcp, addresses, replies>>

RarpTimeout ==
    /\ pc = "rarp"
    /\ retry' = retry + 1
    /\ IF retry + 1 < MaxRetries
       THEN RarpRequest /\ UNCHANGED <<pc, network_ready>>
       ELSE Returns(FALSE) /\ UNCHANGED sent
    /\ UNCHANGED <<reqretry, xid, dhcp, addresses, typed, calls, replies>>

ReceiveRarp ==
    /\ pc = "rarp"
    /\ \E m \in replies :
        m.type = "RARP" /\ client' = m.addr /\ server' = m.from
    /\ Returns(TRUE)
    /\ UNCHANGED <<retry, reqretry, xid, dhcp, typed, calls, sent, replies>>

\* What is given is set one by one, up to the first that is no address; only at the end is
\* it decided whether the network is ready, if an address or a mask was given.  Whether a
\* mask fits the address is left open; none fits 0.0.0.0.
Ifconfig ==
    /\ pc = "idle" /\ calls < MaxCalls /\ calls' = calls + 1
    /\ \E ip, svr \in Typed \cup {NoAddress}, mask, bad \in BOOLEAN :
        /\ client' = IF ip = NoAddress THEN client ELSE ip
        /\ server' = IF svr = NoAddress \/ bad THEN server ELSE svr
        /\ typed' = (typed \/ ip # NoAddress \/ mask \/ svr # NoAddress)
        /\ IF bad \/ (ip = NoAddress /\ ~mask) THEN UNCHANGED network_ready
           ELSE network_ready' \in IF client' = NoAddress THEN {FALSE} ELSE BOOLEAN
    /\ UNCHANGED <<loops, xid, dhcp, sent, replies>>

Cleanup ==
    /\ pc = "idle" /\ network_ready /\ network_ready' = FALSE
    /\ UNCHANGED <<loops, xid, dhcp, addresses, typed, calls, sent, replies>>

-----------------------------------------------------------------------------

NetNext ==
    \/ Serve
    \/ Bootp \/ Transmit \/ ReceiveReply \/ TransmitRequest \/ ReceiveAck \/ Timeout \/ CtrlC
    \/ Rarp \/ RarpTimeout \/ ReceiveRarp \/ Ifconfig \/ Cleanup

NetSpec == NetInit /\ [][NetNext]_netVars

-----------------------------------------------------------------------------
(* Properties.                                                             *)

Granted == {m \in replies : \/ m.type = "RARP"
                            \/ m.xid = xid /\ m.type \in {"ACK", "none"}}

\* A refusal that came while an offer was awaited, after all requests had failed.
Refused == client = NoAddress /\ \E m \in replies : m.xid = xid /\ m.type = "NAK"

\* A network that is said to be ready has the address that a server granted in this call,
\* never one that was only offered or that an earlier call was given, and takes its files
\* from that server, unless the user typed other addresses.  The one way around this is
\* the refusal that bootp takes for success (bootp, await_reply, rarp, ifconfig).
ReadyIsGranted ==
    (network_ready /\ ~typed) =>
        Refused \/ \E m \in Granted : client = m.addr /\ server = m.from

\* What bootp requests of a server is the address that server offered in this call, as long
\* as no server on the network answered without DHCP (bootp, decode_rfc1533).
RequestsTheOffer ==
    (packet.type = "REQUEST" /\ \A m \in replies : m.type # "none") =>
        \E m \in replies : m.xid = xid /\ m.type = "OFFER" /\ m.from = packet.id
                           /\ m.addr = packet.addr
=============================================================================
