# TLA+ models of the ethox packet-processing core

This directory holds TLA+ models of the slice of ethox under `src/`. The modules are
checked with TLC. Each module names the source it models in its header comment.
`PROJECT.json` maps every definition to the lines it translates.

## 1. Inventory

| Component | Source | State | Operations |
|---|---|---|---|
| External NIC | `src/src/nic/external.rs` | `buffer` (slice of payloads), `recv`, `sent`, `split` | `new_send`, `new_recv`, `set_one_past_receive`, `reset_send`, `reset_receive`, `tx(max, sender)`, `rx(max, receptor)`, `Handle::queue` |
| Flow-control handle `EnqueueFlag` | `nic/common.rs` (not in `src/`, modelled from the spec) | `NotPossible` or `SetTrue(bool)`, one per device call | `queue`, `was_sent` |
| Eth endpoint | `src/ethox/src/layer/eth/endpoint.rs` | `addr` (there is no setter) | `recv`/`send`, which build a borrowing `Receiver`/`Sender`; `Receiver::receive` (parse, `accepts`, dispatch); `Sender::send` (wrap as Raw, dispatch) |
| UDP packet layer | `src/ethox/src/layer/udp/packet.rs` | none of its own: the buffer plus the parsed `Repr` | `RawPacket::prepare`, `Init::initialize`, `Packet::reinit`, `deinit`, `send` |
| IP and eth packet operations | not in `src/` (modelled from the spec) | routes, neighbour cache | ip `prepare` (length overflow, unreachable), eth `prepare` (buffer resize), `send` chain down to `queue` |
| Routing table | `src/src/layer/ip/route.rs` | `ManagedMap<IpCidr, Route>` over fixed storage, not cleared by `new` | `new`, `update` (insert/remove), `add_default_ipv4_route`/`_ipv6_route`, `lookup(addr, now)` (asserts a unicast address) |
| Device personality | `src/src/nic/external.rs` (`personality`), capabilities from the spec | the static capability set | `personality()`, `capabilities().udp().tx_checksum` |
| Error taxonomy | `src/ethox/src/layer/mod.rs` | none | `Illegal`, `BadSize`, `Unreachable`, `Exhausted`, and the `From` conversions |

**How the components interact.** The application calls `nic.tx(max, endpoint.send(handler))`
or `nic.rx(max, endpoint.recv(handler))`. The device chooses a buffer and creates a fresh
`EnqueueFlag`. It then calls the eth `Sender`/`Receiver` synchronously. The eth layer wraps
the buffer and the handle, which also gives access to the endpoint, and calls the upper
handler. The upper handler uses udp `prepare`/`reinit`/`deinit`/`send`. `send` goes down
through ip and eth and ends in `handle.queue()`. When the handler returns, the device reads
the flag. tx counts the buffer only if the handler queued it. rx always counts it. The ip
layer calls `Routes::lookup` while preparing, with the timestamp of the packet. All of this runs on one thread. The borrow of
the endpoint lasts for one call, and no two calls overlap.

**What is hard to get right.** There is no concurrency. The hard behaviours are:

- The index arithmetic of the NIC under any sequence of reconfiguration calls.
- The flow-control contract. Only a handler that queued counts as sent, and queueing during rx is illegal.
- Partial failure inside `prepare`: a lower layer has already rewritten the buffer, then a later step fails.
- Stale buffer contents: a declined tx is re-offered, and `reinit` reuses the buffer for an answer.
- Width and overflow edges in the length accounting: `usize` `checked_add`, `u16::try_from`, ip length fields.
- Longest-prefix match derived only from the key order of a reverse range scan, plus the expiry boundary.

`PROJECT.json` lists each hazard at the line where it occurs.

**Correctness properties per component.**
- NIC: every computed index is in bounds, and tx returns 1 exactly when the handler queued.
- Layers: the lifecycle is Raw → packet → (deinit → Raw | send → gone). Nothing is sent without a prepare, nothing is queued during rx, and no packet outlives its call.
- UDP: `initialize` never fails after the lower layers have written. A counted frame carries the last prepared header and a filled checksum.
- Routes: the answer is the longest usable matching prefix. A route is usable up to and including its expiry instant. The table never holds more entries than its capacity.
- Composition: ip's prepare answers Unreachable exactly when the table, as it is at the call's instant, has no usable route.

## 2. Modules

| Module | Models | Composes |
|---|---|---|
| `ExternalNic` | the NIC and `EnqueueFlag`, with a generic handler that writes or queues | `Queues == INSTANCE NicQueues WITH rxQ <- recv..min(len,split)-1, txQ <- split+sent..len-1, …` as the refinement target |
| `NicQueues` | the abstract device of spec §6: two queues of pending buffers, the head handed to each call, consumed by rx always and by tx when queued | — |
| `PacketLifecycle` | the abstract per-call packet lifecycle of spec §3/§4.1/§4.3 | — |
| `Stack` | eth `Receiver`/`Sender` plus the udp packet layer as the handler of the NIC, ip/eth prepare from the spec, and the routing table of the ip endpoint | `EXTENDS ExternalNic`; `R == INSTANCE Routes WITH storage <- routes` for the table; `INSTANCE PacketLifecycle` as the refinement target |
| `Routes` | the routing table | — |
| `StackCancel` | `Stack` with a history variable `orig`: the buffer a call hands out, as it was when the call started | `EXTENDS Stack` |
| `MC_*` | the constants TLC uses (`MC_StackCancel` reuses `MC_Stack`) | — |

**Correspondence.**
- A device call is split into a start step, the handler's steps, and a finish step. The start step is the code before `sender.send`/`receptor.receive`, together with the eth wrapper's checks. The finish step is the code after the handler returns. Every other operation is guarded by `phase = "idle"`, so calls cannot interleave. This is what the single-threaded code and its exclusive borrow guarantee.
- `pkt` is the udp-level packet the handler holds: `raw` (`RawPacket`), `packet` (`Packet`, used both for incoming packets and for prepared ones), or `gone` (moved into a failed `prepare` or into `send`).
- A buffer's content is abstracted to a record: whether the eth header parses, the source and destination addresses, the udp length field, and whether the checksum was filled.
- `UdpSend` fills the checksum when `TxChecksum(Personality)` is `Manual`. `Personality` is the baseline that `External::personality` returns, which offloads nothing.
- Lengths are scaled down. In the Stack run a u16 is `0..7` and a usize is `0..11`. The headers are udp 2, ipv4 2, ipv6 3 and eth 1, and the two buffers hold 10 and 11 bytes. The chosen payloads reach every failure branch: payload 5 to the v6 destination fails the eth resize in buffer 0 and fits buffer 1, where `payload + 8` meets u16 max exactly, so the `try_from` boundary is reached.
- In `Stack`, `routes` is the ip endpoint's table and `now` the packet timestamp. `RoutesUpdate` (insert or remove through `Routes::update`) and `Tick` run only at idle, because a call borrows the endpoint and the device. ip prepare answers `Unreachable` exactly when `R!Lookup(IpOf[d], now)` is `None`. Both families share one scaled address space.
- In `Routes`, addresses are 3 bits wide. `Init` is any table of at most `Capacity` entries over the keys, because `Routes::new` keeps what the slice holds. Only unicast addresses (not all zeros, not all ones) are looked up, as the assertion of `lookup` requires. Cidrs are `<<address, prefix_len>>`, ordered as the derived `Ord` orders them: by address, then by prefix length.

## 3. Runs

| Run | Checks | Shows |
|---|---|---|
| `nic_bounds` (`ExternalNic.cfg`, 3 buffers, split 0..4, max 0..2) | `TypeOK`, `NoIndexPanic`, `QueuesRefined` | The saturating `to_send`/`to_recv` rule out every out-of-bounds index, even when split is past the end. `External` implements `NicQueues`. Each call takes the head of its window. tx consumes the buffer exactly when a `queue()` of its handler returned Ok, and rx always consumes it. Every reconfiguration leaves the receive run below the send run. |
| `routes_lpm` (`Routes.cfg`, 3 slots, 6 masked nested and disjoint keys, 2 gateways, 2 instants) | `TypeOK`, `LookupIsLongestMatch` | From any table left in the slice, the reverse range scan returns the longest non-expired match after any history of inserts, replacements, removals and default routes. |
| `routes_unmasked` (`RoutesUnmasked.cfg`) | `LookupIsLongestMatch`, expected violated | A key built with host bits set (`IpCidr::new(5,1)`) is never found for address 4. The key order alone does not give longest-prefix match unless keys are masked. The spec does not state this precondition, and `update` does not enforce it. |
| `stack` (`Stack.cfg`, 2 buffers, 3 link addresses, a v4 and a v6 destination, a one-slot table, 2 instants) | `StackTypeOK`, `InitializeNeverFails`, `TxSendsPreparedFrame`, `LifecycleRefined` | The composed layers implement `PacketLifecycle`. The `u16::try_from` in `initialize` cannot fail after ip accepted `payload + 8`. A counted frame is exactly the frame of the last successful prepare or reinit, with its checksum filled. Routes are inserted, removed and expire between calls, and ip's prepare consults them. |
| `cancel_partial_state` (`StackCancel.cfg`, the constants of `stack`) | `CancelLeavesNoState`, expected violated | The spec says a declined send leaves "no partial state". The shortest counterexample is: tx hands out buffer 0, the handler's udp `prepare` succeeds and writes the eth, ip and udp headers, the handler returns without `send`, and tx returns `Ok(0)`. The buffer still holds the new headers. The rewritten buffer is what the next tx re-offers, and what rx reads after `set_one_past_receive`. |

Every property of a passing run has a mutant in `PROJECT.json`: a plausible bug in a mapped definition, under which TLC finds the property violated. The mutants are:
- `to_recv` without its clamp to the buffer length;
- `next_send` without the offset of the split;
- `>=` at the expiry check;
- an off-by-one in the full-table check;
- `payload + 8` as a wrapping add instead of `checked_add`;
- the "sparse" `reinit` that keeps the old headers, as suggested by the TODO;
- a `queue` that ignores `NotPossible`.

**Bounds.**
- Three buffers, with split ranging up to one past the end, reach every relative position of split, recv and sent, including split > len. Counters are bounded by `len`, and the resets bring them back.
- Two instants are enough to test a route at its expiry instant and after it.
- Six keys cover nesting, equal addresses with different lengths, disjoint siblings and /3 host routes. Three slots make the table fill up.
- In `Stack`, a one-slot table over the keys `0/0` and `2/1` makes each destination routed, unreachable (`2/1` does not cover `d4`) and expired in turn. A full table is the common case there.

**Fairness.** None is assumed. The handler is arbitrary user code, and the device is polled at the caller's discretion, so the code guarantees no progress that a liveness property could rely on. The runs check safety only. Deadlock checking stays on: the idle operations are always enabled.

## 4. Not modelled, and why

- `Routes.Insert` follows `ManagedMap::insert` of the `managed` crate, which is not in this repository; it is modelled from the spec (replace under an equal key, fail when the slice is full).
- The doc comment of `set_one_past_receive` (external.rs:25) calls the split "the last to-receive buffer"; the code and its test treat it as one past the last, and the model follows the code.

- Wire byte layouts and checksum algorithms: out of scope per the spec. A frame is abstracted to the fields the properties distinguish.
- `preferred_until`: `lookup` never reads it. This is an open question in the spec.
- The ip and eth packet code is not in `src/`. It is represented only by its outcome: the errors of `prepare`, and `send` reaching `queue()`. What it does with a non-unicast destination, before `lookup` would assert, is therefore not modelled.
- The sortedness that `ManagedMap` expects of a borrowed slice: a reused slice is assumed to hold a map that a previous `ManagedMap` left behind.

## 5. Open directions

1. An answer in place during rx, checked against the no-shift promise. This needs payload bytes abstracted per header layout, and so an ip layer model that tells v4 and v6 header sizes apart. That code is not in `src/`.
2. What the ip layer does with a non-unicast destination before `Routes::lookup` asserts. This needs the ip layer source.
3. `preferred_until`, once its intended semantics are settled (spec §9).
4. A second device model, if more of `nic/` becomes available.
