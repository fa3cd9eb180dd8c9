---------------------------- MODULE MCRtapiShmem ----------------------------
(* Two processes, the uuid segment and one more key, in a table of two. *)
EXTENDS RtapiShmem, TLC

Symmetry == Permutations(Procs)

=============================================================================
