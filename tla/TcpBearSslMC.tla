---------------------------- MODULE TcpBearSslMC ----------------------------
(***************************************************************************)
(* A peer for model checking TcpBearSsl.                                   *)
(***************************************************************************)
EXTENDS TcpBearSsl

(* A handshake, data, and a close_notify.                                  *)
Session == <<"hs", "hs", "ask", "done", "app", "app", "app", "alert">>

=============================================================================
