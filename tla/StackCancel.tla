----------------------------- MODULE StackCancel -----------------------------
(***************************************************************************)
(* The Stack of Stack.tla with a history variable: `orig`, the content of  *)
(* the buffer a device call hands out, as it was when the call started.    *)
(* It is only observed, never read by an action, so every behaviour of     *)
(* Stack is a behaviour of this module and the other way round.            *)
(***************************************************************************)
EXTENDS Stack

VARIABLE orig   \* buf[cur] when the running call started; Untouched at idle

Untouched == CHOOSE f \in Frames : TRUE

cancelVars == <<stackVars, orig>>

CancelInit == StackInit /\ orig = Untouched

(* A call starts: remember the buffer it hands out; a call ends: forget it. *)
Record ==
    orig' = IF phase = "idle" /\ phase' \in {"tx", "rx"} THEN buf[cur']
            ELSE IF phase' = "idle" THEN Untouched
            ELSE orig

CancelNext == StackNext /\ Record

CancelSpec == CancelInit /\ [][CancelNext]_cancelVars

(***************************************************************************)
(* Cancellation (spec, section 5): "a handler that does not call           *)
(* prepare/send (for sending) ... simply results in the corresponding      *)
(* operation being a no-op for that buffer; no partial state is left       *)
(* behind".  A tx call whose handler did not queue the buffer returns 0    *)
(* and leaves the buffer as it found it.  In the code, RawPacket::prepare  *)
(* (udp/packet.rs) and the ip and eth prepare below it write the headers   *)
(* into the device buffer in place, and External::tx only reads the flag   *)
(* afterwards: nothing restores the buffer when the handler then declines. *)
(***************************************************************************)
CancelLeavesNoState ==
    [][ (phase = "tx" /\ phase' = "idle" /\ ret' = 0) => buf'[cur] = orig
      ]_cancelVars
==============================================================================
