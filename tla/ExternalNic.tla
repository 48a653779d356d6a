---------------------------- MODULE ExternalNic ----------------------------
(***************************************************************************)
(* The stub NIC of src/src/nic/external.rs: a slice of buffers split into  *)
(* a receive part [0, split) and a send part [split, len), two counters    *)
(* and the per-call flow-control handle EnqueueFlag (nic/common.rs, which  *)
(* is not in src/ and is modelled from the spec).                          *)
(*                                                                         *)
(* tx and rx are synchronous calls into a handler.  A call is modelled as  *)
(* a start step (the code up to `sender.send` / `receptor.receive`), the   *)
(* handler's own steps, and a finish step (the code after the handler      *)
(* returns).  All other operations are guarded on phase = "idle", so no    *)
(* step of another call can interleave, exactly as in the borrow-checked   *)
(* single-threaded code.  Here the handler is generic: it may write the    *)
(* buffer and call queue() any number of times; Stack.tla replaces it by   *)
(* the layered handler of the eth and udp code.                            *)
(***************************************************************************)
EXTENDS Naturals

CONSTANTS
    Len,          \* self.buffer.len()
    SplitArgs,    \* arguments of set_one_past_receive(at), may exceed Len
    MaxArgs,      \* arguments `max` of tx / rx
    RxContents,   \* what an externally provided buffer may hold initially
    TxContents    \* what a send handler may write into a buffer

ASSUME Len \in Nat /\ SplitArgs \subseteq Nat /\ MaxArgs \subseteq Nat

VARIABLES
    buf,      \* buffer[i], the content of each buffer
    recv,     \* number of received packages
    sent,     \* number of sent packages
    split,    \* the index of the split
    phase,    \* "idle", inside a handler ("tx" / "rx"), or "panic"
    cur,      \* index of the buffer handed to the running handler
    flag,     \* the EnqueueFlag of the running call
    ret,      \* the Ok(n) returned by the last tx / rx call
    queued    \* history: a queue() of the running call returned Ok

nicVars == <<buf, recv, sent, split, phase, cur, flag, ret>>
vars == <<nicVars, queued>>

Idx == 0 .. (Len - 1)
NoIdx == Len + 100   \* `cur` outside of a call
Min2(a, b) == IF a < b THEN a ELSE b
SatSub(a, b) == IF a > b THEN a - b ELSE 0   \* usize::saturating_sub

(***************************************************************************)
(* EnqueueFlag: NotPossible while receiving, SetTrue(b) while sending.     *)
(* queue() is Err(Illegal) on NotPossible and otherwise sets the bool.     *)
(***************************************************************************)
FlagValues == {"NotPossible", "SetFalse", "SetTrue"}
\* Mutant: queue() that sets the flag whatever state it is in.
QueueFlagAlways(f) == "SetTrue"

QueueFlag(f) == IF f = "NotPossible" THEN f ELSE "SetTrue"
QueueResult(f) == IF f = "NotPossible" THEN "Illegal" ELSE "Ok"
WasSent(f) == f = "SetTrue"

(* personality(): External reports the baseline personality, which       *)
(* offloads no checksum to the device.                                     *)
Personality == [udp_tx_offload |-> FALSE]

\* Mutant: next_send without the offset of the split.
NextSendNoSplit == sent

\* Mutant: to_recv without `.min(self.split)`'s clamp to the buffer length.
ToRecvUnclamped == SatSub(split, recv)

ToRecv == SatSub(Min2(Len, split), recv)
ToSend == SatSub(SatSub(Len, split), sent)
NextRecv == recv
NextSend == split + sent

(***************************************************************************)
(* Constructors: new_send (split 0) and new_recv (split len).              *)
(***************************************************************************)
NewSend == split = 0
NewRecv == split = Len

NicInit ==
    /\ buf \in [Idx -> RxContents]
    /\ recv = 0 /\ sent = 0
    /\ NewSend \/ NewRecv
    /\ phase = "idle" /\ cur = NoIdx /\ flag = "NotPossible"
    /\ ret = 0

SetOnePastReceive(at) ==
    /\ phase = "idle"
    /\ split' = at
    /\ UNCHANGED <<buf, recv, sent, phase, cur, flag, ret>>

ResetSend ==
    /\ phase = "idle"
    /\ sent' = 0
    /\ UNCHANGED <<buf, recv, split, phase, cur, flag, ret>>

ResetReceive ==
    /\ phase = "idle"
    /\ recv' = 0
    /\ UNCHANGED <<buf, sent, split, phase, cur, flag, ret>>

\* tx / rx with nothing to do: `return Ok(0)`.
TxNone(max) ==
    /\ phase = "idle"
    /\ max = 0 \/ ToSend = 0
    /\ ret' = 0
    /\ UNCHANGED <<buf, recv, sent, split, phase, cur, flag>>

RxNone(max) ==
    /\ phase = "idle"
    /\ max = 0 \/ ToRecv = 0
    /\ ret' = 0
    /\ UNCHANGED <<buf, recv, sent, split, phase, cur, flag>>

\* tx up to the call of sender.send with a fresh SetTrue(false) handle.
TxStart(max) ==
    /\ phase = "idle"
    /\ max # 0 /\ ToSend # 0
    /\ cur' = NextSend
    /\ flag' = "SetFalse"
    /\ \/ NextSend \in Idx /\ phase' = "tx"
       \/ NextSend \notin Idx /\ phase' = "panic"
    /\ UNCHANGED <<buf, recv, sent, split, ret>>

\* tx after the handler returned: count the buffer only if it was queued.
TxFinish ==
    /\ phase = "tx"
    /\ IF WasSent(flag)
         THEN sent' = sent + 1 /\ ret' = 1
         ELSE sent' = sent /\ ret' = 0
    /\ phase' = "idle" /\ cur' = NoIdx /\ flag' = "NotPossible"
    /\ UNCHANGED <<buf, recv, split>>

\* rx up to the call of receptor.receive with a NotPossible handle.
RxStart(max) ==
    /\ phase = "idle"
    /\ max # 0 /\ ToRecv # 0
    /\ cur' = NextRecv
    /\ flag' = "NotPossible"
    /\ \/ NextRecv \in Idx /\ phase' = "rx"
       \/ NextRecv \notin Idx /\ phase' = "panic"
    /\ UNCHANGED <<buf, recv, sent, split, ret>>

\* rx after the handler returned: the buffer always counts.
RxFinish ==
    /\ phase = "rx"
    /\ recv' = recv + 1 /\ ret' = 1
    /\ phase' = "idle" /\ cur' = NoIdx /\ flag' = "NotPossible"
    /\ UNCHANGED <<buf, sent, split>>

-----------------------------------------------------------------------------
(***************************************************************************)
(* The generic handler: writes the buffer or calls handle.queue().         *)
(***************************************************************************)
HandlerWrite(c) ==
    /\ phase = "tx"
    /\ buf' = [buf EXCEPT ![cur] = c]
    /\ UNCHANGED <<recv, sent, split, phase, cur, flag, ret, queued>>

HandlerQueue ==
    /\ phase \in {"tx", "rx"}
    /\ flag' = QueueFlag(flag)
    /\ queued' = (queued \/ QueueResult(flag) = "Ok")
    /\ UNCHANGED <<buf, recv, sent, split, phase, cur, ret>>

Init == NicInit /\ queued = FALSE

Next ==
    \/ \E at \in SplitArgs : SetOnePastReceive(at) /\ UNCHANGED queued
    \/ ResetSend /\ UNCHANGED queued
    \/ ResetReceive /\ UNCHANGED queued
    \/ \E m \in MaxArgs : TxNone(m) /\ UNCHANGED queued
    \/ \E m \in MaxArgs : RxNone(m) /\ UNCHANGED queued
    \/ \E m \in MaxArgs : TxStart(m) /\ queued' = FALSE
    \/ \E m \in MaxArgs : RxStart(m) /\ queued' = FALSE
    \/ TxFinish /\ UNCHANGED queued
    \/ RxFinish /\ UNCHANGED queued
    \/ \E c \in TxContents : HandlerWrite(c)
    \/ HandlerQueue

Spec == Init /\ [][Next]_vars

-----------------------------------------------------------------------------
TypeOK ==
    /\ buf \in [Idx -> RxContents \cup TxContents]
    /\ recv \in Nat /\ sent \in Nat /\ split \in Nat
    /\ phase \in {"idle", "tx", "rx", "panic"}
    /\ cur \in Idx \cup {NoIdx}
    /\ flag \in FlagValues
    /\ ret \in {0, 1}
    /\ queued \in BOOLEAN

(***************************************************************************)
(* The buffer index computed by tx (split + sent) and rx (recv) is always  *)
(* in bounds, whatever sequence of set_one_past_receive, reset_send and    *)
(* reset_receive calls came before: the saturating to_send / to_recv       *)
(* guards must rule out every index that would panic.                      *)
(***************************************************************************)
NoIndexPanic == phase # "panic"

(***************************************************************************)
(* Refinement: External implements the two-queue device of NicQueues.  The *)
(* buffers still to be received are recv .. min(len, split) - 1, the ones  *)
(* still to be sent split + sent .. len - 1.  Every call must hand out the *)
(* head of its queue and consume it exactly when it counts it -- for tx,  *)
(* exactly when a queue() of its handler returned Ok -- and every         *)
(* reconfiguration must leave two runs with receiving below sending -- so  *)
(* no call skips a buffer, hands it to both directions, or re-offers it    *)
(* after counting it, whatever set_one_past_receive and the resets did.    *)
(***************************************************************************)
Queues == INSTANCE NicQueues WITH
    N <- Len,
    NoBuf <- NoIdx,
    rxQ <- {i \in Idx : recv <= i /\ i < Min2(Len, split)},
    txQ <- {i \in Idx : split + sent <= i},
    busy <- IF phase \in {"tx", "rx"} THEN phase ELSE "idle",
    held <- cur,
    marked <- phase = "tx" /\ queued,
    count <- ret

QueuesRefined == Queues!Spec
=============================================================================
