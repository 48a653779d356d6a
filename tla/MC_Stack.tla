------------------------------ MODULE MC_Stack ------------------------------
(* Two buffers; lengths scaled so that every failure of prepare happens:  *)
(* usize overflow of payload + 8 (p = 10), ipv4 total length overflow     *)
(* (p = 4 to d4), ipv6 payload length overflow (p = 6 to d6), eth buffer  *)
(* resize failure (p = 5 to d6), and success (p = 0, 4).  Addresses are  *)
(* 2 bits: d4 is 1, d6 is 2; the table has one slot, for a default route  *)
(* or for 2/1 (which routes d6 but not d4), so each destination is in     *)
(* turn routed, unreachable, and expired at the later instant.            *)
EXTENDS Stack, TLC

CONSTANTS own, other, bcast, d4, d6, gw   \* model values

MC_Len == 2
(* Buffer 1 holds one byte more: p = 5 to d6 fails its eth resize in     *)
(* buffer 0 and fits buffer 1, where initialize meets u16 max exactly.    *)
MC_Cap == (0 :> 10) @@ (1 :> 11)
MC_SplitArgs == 0 .. 3
MC_MaxArgs == {0, 1}
MC_Macs == {own, other, bcast}
MC_Dsts == {d4, d6}
MC_MacOf == (d4 :> own) @@ (d6 :> other)
MC_IpOf == (d4 :> 1) @@ (d6 :> 2)
MC_Keys == {<<0, 0>>, <<2, 1>>}
MC_Payloads == {0, 4, 5, 6, 10}
(* Externally provided frames: to us, to another host, broadcast, and a   *)
(* buffer too short for an eth header.                                    *)
MC_RxContents ==
    {[valid |-> v, src |-> other, dst |-> m, udp |-> 3, csum |-> TRUE] :
        v \in BOOLEAN, m \in MC_Macs}
=============================================================================
