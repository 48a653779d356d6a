----------------------------- MODULE MC_Routes -----------------------------
(* 3-bit addresses, a slice of 3 slots, two gateways and two instants.    *)
EXTENDS Routes

MC_AddrBits == 3
MC_Capacity == 3
MC_Times == {0, 1}
(* Canonical keys (address masked to the prefix), nested and disjoint:    *)
(* 0/0, 0/1, 4/1, 4/2, 4/3, 6/3.                                          *)
MC_MaskedKeys == {<<0, 0>>, <<0, 1>>, <<4, 1>>, <<4, 2>>, <<4, 3>>, <<6, 3>>}
(* IpCidr::new(5, 1): host bits left set, next to the masked 4/2.         *)
MC_UnmaskedKeys == {<<5, 1>>, <<4, 2>>}
=============================================================================
