-------------------------- MODULE MCPartitionRunner --------------------------
(* Small instances of PartitionRunner. *)
EXTENDS PartitionRunner
==============================================================================
