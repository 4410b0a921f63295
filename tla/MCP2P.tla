--------------------------------- MODULE MCP2P ---------------------------------
(***************************************************************************)
(* The P2P mode for TLC. Two join attempts let the user retry after a    *)
(* failed first attempt while the host is still waiting.                 *)
(***************************************************************************)
EXTENDS P2P, TLC

MCMaxAttempts == 2

=============================================================================
