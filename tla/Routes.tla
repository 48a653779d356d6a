------------------------------- MODULE Routes -------------------------------
(***************************************************************************)
(* The routing table of src/src/layer/ip/route.rs: a ManagedMap from       *)
(* IpCidr to Route over fixed-capacity slice storage, and the lookup that  *)
(* scans storage.range(..=addr/32).rev() for the first route that is not   *)
(* expired and whose prefix contains the address.                          *)
(*                                                                         *)
(* Addresses are scaled down to AddrBits bits (one address family).  A     *)
(* cidr is <<address, prefix_len>> and, like the derived Ord of the wire   *)
(* Cidr struct, cidrs are ordered by address first and prefix length      *)
(* second.  IpCidr::new stores the address it is given: whether it is      *)
(* masked to the prefix is up to the caller, so the keys a model inserts   *)
(* are a constant (Keys).  preferred_until is never read by lookup and is  *)
(* left out.                                                               *)
(***************************************************************************)
EXTENDS Naturals, FiniteSets

CONSTANTS
    AddrBits,   \* width of an address
    Capacity,   \* number of slots of the backing slice
    Keys,       \* cidrs the program inserts
    Gateways,   \* via_router values
    Times,      \* Instants used as expires_at and as lookup timestamps
    Forever,    \* expires_at = None
    None        \* lookup returned None

Addrs == 0 .. (2 ^ AddrBits - 1)
Cidrs == Addrs \X (0 .. AddrBits)
RouteSet == [via_router : Gateways, expires_at : Times \cup {Forever}]

ASSUME Keys \subseteq Cidrs /\ Capacity \in Nat /\ Forever \notin Times

VARIABLES
    storage,   \* the ManagedMap: a function from its keys to routes
    lastOp     \* the last call and its result

vars == <<storage, lastOp>>

(* Derived Ord of Cidr { address, prefix_len }. *)
CidrLeq(a, b) == a[1] < b[1] \/ (a[1] = b[1] /\ a[2] <= b[2])

(* Cidr::contains_addr: the first prefix_len bits agree. *)
ContainsAddr(c, addr) ==
    LET shift == 2 ^ (AddrBits - c[2]) IN addr \div shift = c[1] \div shift

(* Cidr::new(addr, 32): the singleton prefix of a host address. *)
HostCidr(addr) == <<addr, AddrBits>>

\* Mutant: `timestamp >= expires_at`.
ExpiredAtBoundary(r, now) == r.expires_at # Forever /\ now >= r.expires_at

(* `if timestamp > expires_at { continue }` *)
Expired(r, now) == r.expires_at # Forever /\ now > r.expires_at

(* The entries of storage.range((Unbounded, Included(cidr))). *)
InRange(addr) == {k \in DOMAIN storage : CidrLeq(k, HostCidr(addr))}

(* The loop returns on the greatest entry of the range, in cidr order,    *)
(* that is not expired and contains the address: the first such one       *)
(* met when iterating the range in reverse.                               *)
Lookup(addr, now) ==
    LET hits == {k \in InRange(addr) :
                    ~Expired(storage[k], now) /\ ContainsAddr(k, addr)}
        first == CHOOSE k \in hits : \A j \in hits : CidrLeq(j, k)
    IN IF hits = {} THEN None ELSE storage[first].via_router

(* Route::new_ipv4_gateway / new_ipv6_gateway: no expiry. *)
GatewayRoute(gw) == [via_router |-> gw, expires_at |-> Forever]

(* ManagedMap::insert succeeds when it replaces or finds a free slot. *)
InsertOk(k) == k \in DOMAIN storage \/ Cardinality(DOMAIN storage) < Capacity

(* The Ok(Option<Route>) of a successful insert: the replaced route. *)
Previous(k) == IF k \in DOMAIN storage THEN storage[k] ELSE None

\* Mutant: the full-slice check off by one.
InsertOffByOne(k, r) ==
    IF k \in DOMAIN storage THEN storage' = [storage EXCEPT ![k] = r]
    ELSE IF Cardinality(DOMAIN storage) <= Capacity
      THEN storage' = [c \in DOMAIN storage \cup {k} |->
                          IF c = k THEN r ELSE storage[c]]
    ELSE UNCHANGED storage

(* ManagedMap::insert: replace an existing key, otherwise take a free     *)
(* slot, or give the pair back (Err) when the slice is full.              *)
Insert(k, r) ==
    IF k \in DOMAIN storage THEN storage' = [storage EXCEPT ![k] = r]
    ELSE IF Cardinality(DOMAIN storage) < Capacity
      THEN storage' = [c \in DOMAIN storage \cup {k} |->
                          IF c = k THEN r ELSE storage[c]]
    ELSE UNCHANGED storage

(* ManagedMap::remove. *)
Remove(k) == storage' = [c \in DOMAIN storage \ {k} |-> storage[c]]

(* Routes::update(|storage| storage.insert(cidr, route)). *)
UpdateInsert(k, r) ==
    /\ Insert(k, r)
    /\ lastOp' = [op |-> "insert", ok |-> InsertOk(k)]

(* Routes::update(|storage| storage.remove(cidr)). *)
UpdateRemove(k) ==
    /\ k \in DOMAIN storage
    /\ Remove(k)
    /\ lastOp' = [op |-> "remove", ok |-> TRUE]

(* add_default_ipv4_route: insert 0.0.0.0/0 via the gateway; Ok with the   *)
(* previous default route, or Err(Exhausted).                             *)
AddDefaultRoute(gw) ==
    /\ Insert(<<0, 0>>, GatewayRoute(gw))
    /\ lastOp' = [op |-> "default", gw |-> gw, ok |-> InsertOk(<<0, 0>>),
                  prev |-> Previous(<<0, 0>>)]

(* is_unicast of the scaled addresses: neither the unspecified address    *)
(* (all zeros) nor the broadcast address (all ones).                      *)
Unicast(addr) == addr \notin {0, 2 ^ AddrBits - 1}

(* lookup(addr, timestamp): `assert!(addr.is_unicast())`, then the scan;  *)
(* records its answer.                                                    *)
DoLookup(addr, now) ==
    /\ Unicast(addr)
    /\ lastOp' = [op |-> "lookup", addr |-> addr, now |-> now,
                  result |-> Lookup(addr, now)]
    /\ UNCHANGED storage

(* Routes::new takes the storage as it is: it is not cleared, so a table   *)
(* may start with any entries a previous map left in the slice.           *)
InitialTables ==
    UNION {[ks -> RouteSet] : ks \in {ks \in SUBSET Keys :
                                         Cardinality(ks) <= Capacity}}

Init ==
    /\ storage \in InitialTables
    /\ lastOp = [op |-> "new", ok |-> TRUE]

Next ==
    \/ \E k \in Keys, r \in RouteSet : UpdateInsert(k, r)
    \/ \E k \in Keys : UpdateRemove(k)
    \/ \E gw \in Gateways : AddDefaultRoute(gw)
    \/ \E a \in Addrs, t \in Times : DoLookup(a, t)

Spec == Init /\ [][Next]_vars

-----------------------------------------------------------------------------
TypeOK ==
    /\ DOMAIN storage \subseteq Cidrs
    /\ \A k \in DOMAIN storage : storage[k] \in RouteSet
    /\ Cardinality(DOMAIN storage) <= Capacity

(***************************************************************************)
(* Reference: a route is usable at `now` when it has no expiry or now <=   *)
(* expires_at (spec, Expiry); among the usable routes whose prefix         *)
(* contains the address, the longest prefix wins (spec, Routing            *)
(* longest-prefix-match).                                                  *)
(***************************************************************************)
Usable(addr, now) ==
    {k \in DOMAIN storage :
        /\ storage[k].expires_at = Forever \/ now <= storage[k].expires_at
        /\ ContainsAddr(k, addr)}

LongestMatches(addr, now) ==
    {k \in Usable(addr, now) : \A j \in Usable(addr, now) : j[2] <= k[2]}

(***************************************************************************)
(* Every answer of lookup is a gateway of a longest usable matching        *)
(* prefix, and None only when no usable prefix contains the address.  The  *)
(* code never compares prefix lengths: it relies on the cidr order of the  *)
(* reverse range scan putting the longest match first, across any history  *)
(* of inserts, replacements, removals and expiry times.                    *)
(***************************************************************************)
LookupIsLongestMatch ==
    lastOp.op = "lookup" =>
        IF Usable(lastOp.addr, lastOp.now) = {}
        THEN lastOp.result = None
        ELSE \E k \in LongestMatches(lastOp.addr, lastOp.now) :
                lastOp.result = storage[k].via_router
=============================================================================
