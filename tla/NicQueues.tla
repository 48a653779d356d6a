------------------------------ MODULE NicQueues ------------------------------
(***************************************************************************)
(* What a device with bounded tx / rx promises its user (spec, section 6), *)
(* for a device whose buffers are numbered 0 .. N-1: two queues of pending *)
(* buffers, the ones still to be received below the ones still to be      *)
(* sent.  A call hands its handler the head of its queue; rx always        *)
(* consumes the buffer, tx only when the handler queued it through its     *)
(* flow-control handle, otherwise the same buffer is offered again.  The   *)
(* count a call returns is what it consumed.  Between calls the user may   *)
(* reposition both windows.                                                *)
(***************************************************************************)
EXTENDS Naturals, FiniteSetsExt

CONSTANTS
    N,       \* number of buffers
    NoBuf    \* `held` outside of a call

Bufs == 0 .. (N - 1)

VARIABLES
    rxQ,     \* buffers still to be received, in order
    txQ,     \* buffers still to be sent, in order
    busy,    \* "idle", "tx" or "rx"
    held,    \* the buffer handed to the running call
    marked,  \* the running tx call's handle was set
    count    \* the count returned by the last call

vars == <<rxQ, txQ, busy, held, marked, count>>

Intervals == {{i \in Bufs : lo <= i /\ i < hi} : lo, hi \in 0 .. N}

(* Both queues are runs of consecutive buffers, receiving below sending. *)
Windows(r, t) ==
    r \in Intervals /\ t \in Intervals /\ \A i \in r, j \in t : i < j

Init ==
    /\ \/ rxQ = {} /\ txQ = Bufs
       \/ rxQ = Bufs /\ txQ = {}
    /\ busy = "idle" /\ held = NoBuf /\ marked = FALSE /\ count = 0

Reposition ==
    /\ busy = "idle"
    /\ \E r, t \in Intervals : Windows(r, t) /\ rxQ' = r /\ txQ' = t
    /\ UNCHANGED <<busy, held, marked, count>>

(* A call with nothing to do, or with max = 0, returns 0. *)
Nothing ==
    /\ busy = "idle"
    /\ count' = 0
    /\ UNCHANGED <<rxQ, txQ, busy, held, marked>>

TakeTx ==
    /\ busy = "idle" /\ txQ # {}
    /\ busy' = "tx" /\ held' = Min(txQ) /\ marked' = FALSE
    /\ UNCHANGED <<rxQ, txQ, count>>

TakeRx ==
    /\ busy = "idle" /\ rxQ # {}
    /\ busy' = "rx" /\ held' = Min(rxQ) /\ marked' = FALSE
    /\ UNCHANGED <<rxQ, txQ, count>>

Mark ==
    /\ busy = "tx"
    /\ marked' = TRUE
    /\ UNCHANGED <<rxQ, txQ, busy, held, count>>

EndTx ==
    /\ busy = "tx"
    /\ count' = IF marked THEN 1 ELSE 0
    /\ txQ' = IF marked THEN txQ \ {held} ELSE txQ
    /\ busy' = "idle" /\ held' = NoBuf /\ marked' = FALSE
    /\ UNCHANGED rxQ

EndRx ==
    /\ busy = "rx"
    /\ count' = 1
    /\ rxQ' = rxQ \ {held}
    /\ busy' = "idle" /\ held' = NoBuf /\ marked' = FALSE
    /\ UNCHANGED txQ

Next == Reposition \/ Nothing \/ TakeTx \/ TakeRx \/ Mark \/ EndTx \/ EndRx

Spec == Init /\ [][Next]_vars
==============================================================================
