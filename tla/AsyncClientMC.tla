---------------------------- MODULE AsyncClientMC ----------------------------
(***************************************************************************)
(* Applications for model checking AsyncClient: which methods they call,   *)
(* and from where.                                                         *)
(***************************************************************************)
EXTENDS AsyncClient

Loop == {"loop"}
Events == {"connect_cb", "sent_cb", "timeout_cb", "poll_cb"}
Data == {"recv_cb", "pb_cb"}

(* Moves data over one connection in every way the API offers, and ends it *)
(* from loop().                                                            *)
StreamingApp ==
    ({"connect", "connectHost", "closeNow", "abort", "delete"} \X Loop)
        \cup ({"close", "add", "send", "write", "ack", "ackPacket"} \X (Loop \cup Events \cup Data))
        \cup ({"ackLater"} \X {"recv_cb"})

(* Aborts from onPoll.                                                     *)
AbortingApp == ({"connect"} \X Loop) \cup ({"abort"} \X {"poll_cb"})

(* Closes from onData and deletes in onDisconnect.                         *)
ClosingApp ==
    ({"connect"} \X Loop) \cup ({"closeNow"} \X {"recv_cb"}) \cup ({"delete"} \X {"discard_cb"})

OnData == {"recv_cb"}
OnDataOrPacket == {"recv_cb", "pb_cb"}

=============================================================================
