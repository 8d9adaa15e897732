----------------------------- MODULE MCAtomicWrite -----------------------------
(***************************************************************************)
(* Instance of AtomicWrite: four versions, so that a save can find the     *)
(* file, an older durable one and a leftover temporary file of three       *)
(* earlier ones.                                                           *)
(***************************************************************************)
EXTENDS AtomicWrite
================================================================================
