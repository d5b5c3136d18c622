-------------------------- MODULE AsyncTCPBufferTxMC --------------------------
(***************************************************************************)
(* What the network does and what the onDisconnect handler answers, for    *)
(* model checking AsyncTCPBufferTx.                                        *)
(***************************************************************************)
EXTENDS AsyncTCPBufferTx

LowMemory == {"ok", "nomem"}
RouteLost == {"ok", "noroute"}
Keep == {FALSE}
Either == BOOLEAN

=============================================================================
