-------------------------- MODULE AsyncClientTlsMC --------------------------
(***************************************************************************)
(* Applications for model checking AsyncClientTls.                         *)
(***************************************************************************)
EXTENDS AsyncClientTls, FiniteSets, TLC

PcbSymmetry == Permutations(Pcbs)

Loop == {"loop"}
Calm == {"connect_cb", "timeout_cb", "poll_cb"}
Ends == {"error_cb", "discard_cb"}
Everywhere == Loop \cup Calm \cup Ends \cup TlsHandlers \cup {"sent_cb", "recv_cb"}

(* Deletes the client in onDisconnect or from loop(), reconnects when a    *)
(* connection ended, and closes at once from everywhere but the handlers   *)
(* whose callers go on with the object or the session.                     *)
LifeApp ==
    ({"connect", "connectHost"} \X (Loop \cup Ends))
        \cup ({"closeNow"} \X (Loop \cup Calm \cup {"tls_sent_cb"}))
        \cup ({"close", "write"} \X Everywhere)
        \cup ({"delete"} \X {"loop", "discard_cb", "tls_sent_cb"})

(* Relies on timeouts; aborts from loop() at times, and never deletes.     *)
LiveApp ==
    ({"connect", "close", "write", "send", "abort"} \X Loop)
        \cup ({"close", "write"} \X {"timeout_cb", "recv_cb", "data_cb"})

OnData == {"recv_cb"}

=============================================================================
