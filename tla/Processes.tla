----------------------------- MODULE Processes ------------------------------
(* The processes that make system calls, for all layers of the file system. *)
CONSTANT Procs
=============================================================================
