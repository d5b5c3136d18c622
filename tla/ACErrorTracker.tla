--------------------------- MODULE ACErrorTracker ---------------------------
(***************************************************************************)
(* ACErrorTracker (ESPAsyncTCPErrorTracker.{h,cpp}): the small record an   *)
(* AsyncClient shares with every lwIP callback in progress.  It decides    *)
(* what the callback returns to lwIP.  lwIP's contract: a callback returns *)
(* ERR_ABRT exactly when it called tcp_abort() on the pcb it was given.    *)
(*                                                                         *)
(* A tracker is a value; the operators return the updated value.  The      *)
(* _client member is left out: ~AsyncClient() calls clearClient() only for *)
(* a TLS client, so for a plain TCP client hasClient() is always TRUE.     *)
(***************************************************************************)

(* err_t values that reach the tracker.  ERR_RST stands for every error    *)
(* other than ERR_OK and ERR_ABRT: the code never tells them apart.        *)
Errors == {"ERR_OK", "ERR_ABRT", "ERR_RST"}

ErrorEvents == {"EE_OK", "EE_ABORTED", "EE_ERROR_CB", "EE_CONNECTED_CB", "EE_RECV_CB"}

Trackers == [close_error : Errors, errored : ErrorEvents]

NewTracker == [close_error |-> "ERR_OK", errored |-> "EE_OK"]

SetCloseError(t, e) ==
    IF t.errored = "EE_OK" THEN [t EXCEPT !.close_error = e] ELSE t

SetErrored(t, event) ==
    IF t.errored = "EE_OK" THEN [t EXCEPT !.errored = event] ELSE t

(* The value getCallbackCloseError() returns ...                           *)
CallbackCloseError(t) ==
    IF t.errored # "EE_OK" THEN "ERR_OK" ELSE t.close_error

(* ... and the tracker it leaves behind: ERR_ABRT is reported once.        *)
AfterCallbackCloseError(t) ==
    IF CallbackCloseError(t) = "ERR_ABRT" THEN SetErrored(t, "EE_ABORTED") ELSE t

=============================================================================
