------------------------------- MODULE Stack -------------------------------
(***************************************************************************)
(* One device, the eth endpoint and the udp packet layer, composed as the  *)
(* code composes them: the NIC of ExternalNic calls the eth Receiver or    *)
(* Sender (src/ethox/src/layer/eth/endpoint.rs), which hands the udp       *)
(* handler its packet (src/ethox/src/layer/udp/packet.rs).  The handler    *)
(* then calls prepare / reinit / deinit / send any number of times before  *)
(* it returns.  The ip layer and the eth packet operations between udp and *)
(* the device are not in src/ and are modelled from the spec: ip prepare   *)
(* fails with BadSize when its payload length field would overflow and     *)
(* with Unreachable when Routes::lookup (Routes.tla, composed here) finds *)
(* no usable route at the packet's timestamp; the eth prepare resizes the *)
(* device buffer, failing with BadSize beyond its capacity; eth send       *)
(* calls handle.queue().                                                   *)
(*                                                                         *)
(* Lengths are scaled down: a u16 holds 0..U16Max, a usize 0..UsizeMax.   *)
(***************************************************************************)
EXTENDS ExternalNic

CONSTANTS
    Addr,        \* the eth Endpoint's own address
    Broadcast,   \* the broadcast link address
    Macs,        \* link addresses, Addr and Broadcast among them
    Dsts,        \* ip destination addresses of udp::Init
    V6,          \* the destinations that are ipv6
    IpOf,        \* the (scaled) ip address of each destination
    MacOf,       \* link address an ip destination resolves to
    Payloads,    \* udp::Init payload lengths
    U16Max, UsizeMax,
    UdpHdr, Ip4Hdr, Ip6Hdr, EthHdr,
    Cap,         \* capacity of each device buffer: a function on Idx
    AddrBits, Capacity, Keys, Gateways, Times, Forever, None   \* of Routes

VARIABLES
    pkt,        \* the udp-level packet the handler holds
    res,        \* result of the handler's last layer call
    prepared,   \* the Init of the last successful prepare of this call
    routes,     \* the storage of the ip endpoint's Routes
    now         \* the timestamp of the device's packets (Info::timestamp)

env == <<routes, now>>
stackVars == <<nicVars, queued, pkt, res, prepared, env>>

(* The ip endpoint's routing table.  Its call log is not kept here.       *)
R == INSTANCE Routes WITH storage <- routes, lastOp <- None

NoPrep == [p |-> 0, d |-> "none"]
Results == {"Ok", "BadSize", "Unreachable", "Illegal", "Exhausted", "InitBadSize"}

(* A buffer's content: whether an eth header parses, the link addresses,  *)
(* the udp length field and whether the udp checksum was filled.          *)
Frames == [valid : BOOLEAN, src : Macs, dst : Macs,
           udp : 0 .. U16Max, csum : BOOLEAN]

(***************************************************************************)
(* eth Endpoint::accepts and the checks of Receiver::receive.              *)
(***************************************************************************)
Accepts(dst) == dst = Addr \/ dst = Broadcast
EthDelivers(f) == f.valid /\ Accepts(f.dst)

(***************************************************************************)
(* Length accounting of udp RawPacket::prepare and Init::initialize, over  *)
(* ip and eth prepare (spec-modelled).  Returns the result and whether the *)
(* lower layers already resized and wrote the buffer.                      *)
(***************************************************************************)
IpPrepare(n, d) ==
    IF (d \in V6 /\ n > U16Max) \/ (d \notin V6 /\ n + Ip4Hdr > U16Max)
      THEN "BadSize"
    ELSE IF R!Lookup(IpOf[d], now) = None THEN "Unreachable"
    ELSE IF n + (IF d \in V6 THEN Ip6Hdr ELSE Ip4Hdr) + EthHdr > Cap[cur]
      THEN "BadSize"
    ELSE "Ok"

(* Init::initialize: u16::try_from(self.payload + 8). *)
Initialize(p) == IF p + UdpHdr > U16Max THEN "InitBadSize" ELSE "Ok"

\* Mutant: `init.payload + 8` without checked_add, wrapping as a release
\* build does at the usize width.
PrepareOutcomeWrapping(p, d) ==
    IF IpPrepare((p + UdpHdr) % (UsizeMax + 1), d) # "Ok"
      THEN [r |-> IpPrepare((p + UdpHdr) % (UsizeMax + 1), d), lower |-> FALSE]
    ELSE [r |-> Initialize(p), lower |-> TRUE]

PrepareOutcome(p, d) ==
    IF p + UdpHdr > UsizeMax THEN [r |-> "BadSize", lower |-> FALSE]
    ELSE IF IpPrepare(p + UdpHdr, d) # "Ok"
      THEN [r |-> IpPrepare(p + UdpHdr, d), lower |-> FALSE]
    ELSE [r |-> Initialize(p), lower |-> TRUE]

(* capabilities().udp().tx_checksum(ip_repr): Manual (computed and filled *)
(* by send) unless the device offloads the udp checksum on transmit.      *)
TxChecksum(pers) == IF pers.udp_tx_offload THEN "Ignored" ELSE "Manual"

(* udp::Init: the handler's choice of payload length and destination; the *)
(* ports and the source selection are passed through and left out.        *)
Inits == [payload : Payloads, dst_addr : Dsts]

(* What the handler holds: nothing, a RawPacket (an unparsed buffer), a    *)
(* Packet (parsed, with its Repr), or nothing any more after a move.       *)
Stages == {"none", "raw", "packet", "gone"}

(* EthEndpoint::src_addr, which the eth prepare takes from the handle.    *)
SrcAddr == Addr

(* The frame the lower layers and udp emit; the checksum is left out      *)
(* (udp::Checksum::Ignored) until send.                                   *)
Emitted(p, d) ==
    [valid |-> TRUE, src |-> SrcAddr, dst |-> MacOf[d],
     udp |-> p + UdpHdr, csum |-> FALSE]

(* The lower layers' headers without the udp header (initialize failed).  *)
LowerOnly(d, old) ==
    [valid |-> TRUE, src |-> SrcAddr, dst |-> MacOf[d],
     udp |-> old.udp, csum |-> FALSE]

(* prepare(init) on a RawPacket: ip prepare, into_incoming, initialize.   *)
Prepare(p, d) ==
    LET o == PrepareOutcome(p, d) IN
    /\ res' = o.r
    /\ IF o.r = "Ok"
         THEN /\ pkt' = "packet"
              /\ buf' = [buf EXCEPT ![cur] = Emitted(p, d)]
              /\ prepared' = [p |-> p, d |-> d]
         ELSE /\ pkt' = "gone"
              /\ buf' = IF o.lower
                          THEN [buf EXCEPT ![cur] = LowerOnly(d, buf[cur])]
                          ELSE buf
              /\ UNCHANGED prepared

-----------------------------------------------------------------------------
(***************************************************************************)
(* Device calls with the eth Sender / Receiver as their handler.           *)
(***************************************************************************)

(* Sender::send wraps the buffer as an eth Raw packet for the handler.    *)
StackTxStart(m) ==
    /\ TxStart(m)
    /\ pkt' = "raw" /\ res' = "Ok" /\ prepared' = NoPrep /\ queued' = FALSE

(* Receiver::receive: EthernetFrame::new_checked, then accepts(dst),     *)
(* each returning silently; otherwise dispatch to the handler.            *)
StackRxStart(m) ==
    /\ RxStart(m)
    /\ pkt' = IF NextRecv \in Idx /\ EthDelivers(buf[NextRecv])
                THEN "packet" ELSE "none"
    /\ res' = "Ok" /\ prepared' = NoPrep /\ queued' = FALSE

StackTxFinish == TxFinish /\ pkt' = "none" /\ UNCHANGED <<res, prepared, queued>>
StackRxFinish == RxFinish /\ pkt' = "none" /\ UNCHANGED <<res, prepared, queued>>

(***************************************************************************)
(* The udp handler's calls.                                                *)
(***************************************************************************)
InCall == phase \in {"tx", "rx"}

UdpPrepare(p, d) ==
    /\ InCall /\ pkt = "raw"
    /\ Prepare(p, d)
    /\ UNCHANGED <<recv, sent, split, phase, cur, flag, ret, queued>>

\* Mutant: the "sparse update" of the TODO in reinit: when the buffer
\* already holds a packet of the same header layout, keep its headers.
UdpReinitSparse(p, d) ==
    /\ InCall /\ pkt = "packet"
    /\ IF PrepareOutcome(p, d).r = "Ok" /\ buf[cur].valid
                                        /\ buf[cur].dst = MacOf[d]
         THEN /\ pkt' = "packet" /\ res' = "Ok" /\ UNCHANGED buf
              /\ prepared' = [p |-> p, d |-> d]
         ELSE Prepare(p, d)
    /\ UNCHANGED <<recv, sent, split, phase, cur, flag, ret, queued>>

(* Packet::reinit: self.deinit().prepare(init). *)
UdpReinit(p, d) ==
    /\ InCall /\ pkt = "packet"
    /\ Prepare(p, d)
    /\ UNCHANGED <<recv, sent, split, phase, cur, flag, ret, queued>>

(* Packet::deinit keeps the bytes and drops the parsed state. *)
UdpDeinit ==
    /\ InCall /\ pkt = "packet"
    /\ pkt' = "raw" /\ res' = "Ok"
    /\ UNCHANGED <<nicVars, queued, prepared>>

(* Packet::send: fill the checksum as the device's capabilities ask, then  *)
(* ip send and eth send, which queues the handle.                         *)
UdpSend ==
    /\ InCall /\ pkt = "packet"
    /\ buf' = [buf EXCEPT ![cur].csum = (TxChecksum(Personality) = "Manual")]
    /\ flag' = QueueFlag(flag)
    /\ res' = QueueResult(flag)
    /\ queued' = (queued \/ QueueResult(flag) = "Ok")
    /\ pkt' = "gone"
    /\ UNCHANGED <<recv, sent, split, phase, cur, ret, prepared>>

(***************************************************************************)
(* Between calls the application reconfigures the ip endpoint's routes    *)
(* through Routes::update, and time passes.  Both need the endpoint (or   *)
(* the device) that a running call borrows, so they happen only at idle.  *)
(***************************************************************************)
(* Routes::update with an insert (r a route) or a remove (r = None).      *)
RoutesUpdate(k, r) ==
    /\ phase = "idle"
    /\ r = None => k \in DOMAIN routes
    /\ IF r = None THEN R!Remove(k) ELSE R!Insert(k, r)
    /\ UNCHANGED <<nicVars, queued, pkt, res, prepared, now>>

(* The device's clock advances between calls. *)
Tick ==
    /\ phase = "idle"
    /\ now + 1 \in Times
    /\ now' = now + 1
    /\ UNCHANGED <<nicVars, queued, pkt, res, prepared, routes>>

StackInit ==
    /\ NicInit /\ queued = FALSE
    /\ pkt = "none" /\ res = "Ok" /\ prepared = NoPrep
    /\ routes \in R!InitialTables
    /\ now \in Times

(* One step of the device, the eth layer or the udp handler. *)
CallStep ==
    \/ \E at \in SplitArgs : SetOnePastReceive(at) /\ UNCHANGED <<queued, pkt, res, prepared>>
    \/ ResetSend /\ UNCHANGED <<queued, pkt, res, prepared>>
    \/ ResetReceive /\ UNCHANGED <<queued, pkt, res, prepared>>
    \/ \E m \in MaxArgs : TxNone(m) /\ UNCHANGED <<queued, pkt, res, prepared>>
    \/ \E m \in MaxArgs : RxNone(m) /\ UNCHANGED <<queued, pkt, res, prepared>>
    \/ \E m \in MaxArgs : StackTxStart(m)
    \/ \E m \in MaxArgs : StackRxStart(m)
    \/ StackTxFinish
    \/ StackRxFinish
    \/ \E i \in Inits : UdpPrepare(i.payload, i.dst_addr)
    \/ \E i \in Inits : UdpReinit(i.payload, i.dst_addr)
    \/ UdpDeinit
    \/ UdpSend

StackNext ==
    \/ CallStep /\ UNCHANGED env
    \/ \E k \in Keys, r \in R!RouteSet \cup {None} : RoutesUpdate(k, r)
    \/ Tick

StackSpec == StackInit /\ [][StackNext]_stackVars

-----------------------------------------------------------------------------
StackTypeOK ==
    /\ buf \in [Idx -> Frames]
    /\ phase \in {"idle", "tx", "rx", "panic"}
    /\ cur \in Idx \cup {NoIdx}
    /\ flag \in FlagValues
    /\ pkt \in Stages
    /\ res \in Results
    /\ prepared \in [p : Payloads \cup {0}, d : Dsts \cup {"none"}]
    /\ routes \in R!InitialTables /\ now \in Times

(***************************************************************************)
(* Init::initialize never fails: `u16::try_from(self.payload + 8)` "can't  *)
(* overflow, already inited ip with that length" (udp/packet.rs:181).  It  *)
(* runs after ip and eth prepare already rewrote the buffer, so a failure  *)
(* would leave a half-written packet behind an error.                      *)
(***************************************************************************)
InitializeNeverFails == res # "InitBadSize"

(***************************************************************************)
(* A buffer that tx counts as sent holds the frame of the handler's last   *)
(* successful prepare or reinit of that call: our source address, the      *)
(* resolved destination, the udp length of that Init, and a filled         *)
(* checksum -- never a stale header of an earlier prepare, of a declined   *)
(* earlier tx of the same buffer, or of the received frame answered by     *)
(* reinit.                                                                 *)
(***************************************************************************)
TxSendsPreparedFrame ==
    [][ (phase = "tx" /\ phase' = "idle" /\ ret' = 1) =>
           /\ prepared # NoPrep
           /\ buf[cur] = [Emitted(prepared.p, prepared.d) EXCEPT !.csum = TRUE]
      ]_stackVars

(***************************************************************************)
(* Refinement: the layered stack implements the packet lifecycle of the    *)
(* spec (PacketLifecycle): send only from a prepared packet, queueing only *)
(* inside tx, the count of a call reflecting its handle, no packet kept    *)
(* across calls.                                                           *)
(***************************************************************************)
Lifecycle == INSTANCE PacketLifecycle WITH
    mode <- IF phase \in {"tx", "rx"} THEN phase ELSE "idle",
    stage <- pkt,
    queued <- WasSent(flag),
    count <- ret

LifecycleRefined == Lifecycle!Spec
=============================================================================
