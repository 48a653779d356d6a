-------------------------- MODULE PacketLifecycle --------------------------
(***************************************************************************)
(* What the layering promises of one device call (spec 3, 4.1, 4.3, 5),    *)
(* seen from the top layer's handler.  A tx call hands the handler a Raw   *)
(* buffer; an rx call hands it a parsed packet or nothing.  prepare turns  *)
(* Raw into a packet or fails and consumes it; deinit gives the Raw back;  *)
(* reinit is deinit then prepare; send consumes the packet and queues it,  *)
(* which only a tx call allows.  The call returns 1 for rx, and for tx 1   *)
(* exactly when the packet was queued.  No packet outlives its call.       *)
(***************************************************************************)
EXTENDS Naturals

VARIABLES
    mode,     \* "idle", "tx" or "rx": the device call in progress
    stage,    \* "none", "raw", "packet" or "gone"
    queued,   \* the call's flow-control handle was set
    count     \* the count returned by the last call

vars == <<mode, stage, queued, count>>

Init ==
    /\ mode = "idle" /\ stage = "none" /\ queued = FALSE /\ count = 0

Begin ==
    /\ mode = "idle"
    /\ \/ mode' = "tx" /\ stage' = "raw"
       \/ mode' = "rx" /\ stage' \in {"none", "packet"}
    /\ queued' = FALSE
    /\ UNCHANGED count

\* A call with nothing to do returns 0 without a handler.
Idle ==
    /\ mode = "idle"
    /\ count' = 0
    /\ UNCHANGED <<mode, stage, queued>>

Prepare ==
    /\ stage \in {"raw", "packet"}
    /\ stage' \in {"packet", "gone"}
    /\ UNCHANGED <<mode, queued, count>>

Deinit ==
    /\ stage = "packet"
    /\ stage' = "raw"
    /\ UNCHANGED <<mode, queued, count>>

Send ==
    /\ stage = "packet"
    /\ stage' = "gone"
    /\ queued' = (queued \/ mode = "tx")
    /\ UNCHANGED <<mode, count>>

End ==
    /\ mode # "idle"
    /\ count' = IF mode = "rx" \/ queued THEN 1 ELSE 0
    /\ mode' = "idle" /\ stage' = "none" /\ queued' = FALSE

Next == Begin \/ Idle \/ Prepare \/ Deinit \/ Send \/ End

Spec == Init /\ [][Next]_vars
=============================================================================
