--------------------------- MODULE MC_ExternalNic ---------------------------
(* Three buffers; set_one_past_receive is called with every split from 0  *)
(* to one past the end, so the window arithmetic meets split > len.       *)
EXTENDS ExternalNic

MC_Len == 3
MC_SplitArgs == 0 .. 4
MC_MaxArgs == {0, 1, 2}
=============================================================================
