------------------------------- MODULE MCBridge -------------------------------
(***************************************************************************)
(* The bridge for TLC. Two chunks per far end let a loop deliver one chunk *)
(* and still have one in flight when the other side fails.               *)
(***************************************************************************)
EXTENDS Bridge, TLC

MCMaxChunks == 2

=============================================================================
