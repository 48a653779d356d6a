--------------------------- MODULE MC_StackCancel ---------------------------
(* The constants of MC_Stack for the history-extended StackCancel.        *)
EXTENDS MC_Stack, StackCancel
=============================================================================
