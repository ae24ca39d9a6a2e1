---------------------------- MODULE MCServiceIpc ----------------------------
(* ServiceIpc with a few calls in each direction.                          *)
EXTENDS ServiceIpc
=============================================================================
