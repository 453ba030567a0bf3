--------------------------- MODULE MCScratchPool ---------------------------
(* An instance of ScratchPool for TLC.  Its threads and spaces are model     *)
(* values; no symmetry is declared, since the run checks liveness.           *)
EXTENDS ScratchPool
=============================================================================
