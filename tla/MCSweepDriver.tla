----------------------------- MODULE MCSweepDriver -----------------------------
(***************************************************************************)
(* Instance of SweepDriver: three cells, so that a crash can leave one     *)
(* running, another failed and a third untouched; two crashes and a Ctrl-C *)
(* can hit the same cell or different ones.                                *)
(***************************************************************************)
EXTENDS SweepDriver
================================================================================
