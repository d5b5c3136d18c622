--------------------------- MODULE AsyncClientTls ---------------------------
(***************************************************************************)
(* AsyncClient compiled with ASYNC_TCP_SSL_ENABLED: each connection the    *)
(* application makes is plain or TLS.  The steps of AsyncClient are taken  *)
(* over and composed with what their _use_tls branches add: the session    *)
(* that tcp_bearssl.cpp keeps for a TLS pcb, the handshake and its         *)
(* timeout, and reading through tcp_ssl_read(), which calls the data,      *)
(* handshake and error handlers from inside its loops and goes on using    *)
(* the session afterwards.                                                 *)
(*                                                                         *)
(* The bytes and buffers of a session are in TcpBearSsl; here a run of     *)
(* process_ssl_engine() finds at most one record of application data, the  *)
(* end of the handshake, or a closed engine.  ack(), ackLater() and        *)
(* ackPacket() do nothing on a TLS connection and are left to AsyncClient. *)
(***************************************************************************)
EXTENDS AsyncClient

CONSTANTS
    TlsModes,         \* the use_tls arguments the application passes to connect()
    HandshakeTimeout, \* TCP_SSL_HANDSHAKE_TIMEOUT, in poll intervals
    MaxRuns           \* bound: process_ssl_engine() runs in one tcp_ssl_read()

ASSUME TlsAssumption ==
    /\ TlsModes \subseteq BOOLEAN
    /\ HandshakeTimeout \in 1..RxTimeout /\ SndBuf > 0
    /\ MaxRuns \in Nat

VARIABLES
    tls,   \* _use_tls, _handshake_done and _errorTracker->hasClient()
    ssl    \* the session tcp_ssl_pcbs holds for each pcb, if any

tlsVars == <<vars, tls, ssl>>

-----------------------------------------------------------------------------
(* Sessions.  eng is what br_ssl_engine_current_state() amounts to, data   *)
(* says that a decrypted record waits, out is the length of the record the *)
(* engine wants to send, done is ssl_pcb->handshake_done.                  *)

Sessions == [eng : {"none", "handshake", "ready", "closed"}, data : BOOLEAN,
             out : Nat, done : BOOLEAN]

NoSession == [eng |-> "none", data |-> FALSE, out |-> 0, done |-> FALSE]
NewSession == [NoSession EXCEPT !.eng = "handshake"]
Has(p) == ssl[p].eng # "none"

(* Mutant: the session stays.                                              *)
KeepsSession(p) == ssl

tcp_ssl_free(p) == [ssl EXCEPT ![p] = NoSession]

(* What a record of peer data can do to the engine.  A handshake message   *)
(* may call for an answer of length 1.                                     *)
Fed(s) ==
    CASE s.eng = "handshake" ->
           {s, [s EXCEPT !.eng = "closed"], [s EXCEPT !.eng = "ready"],
            [s EXCEPT !.eng = "ready", !.data = TRUE],
            [s EXCEPT !.out = IF @ = 0 THEN 1 ELSE @]}
      [] s.eng = "ready" -> {s, [s EXCEPT !.eng = "closed"], [s EXCEPT !.data = TRUE]}
      [] OTHER -> {s}

TlsConnected == connected /\ (tls.use_tls => tls.handshake_done)

(* space(): some of the send buffer is kept back for the record header.    *)
TlsSpace == IF TlsConnected /\ lw[c.pcb].unacked < SndBuf THEN SndBuf - lw[c.pcb].unacked - 1 ELSE 0

TlsInit ==
    /\ Init
    /\ tls = [use_tls |-> FALSE, handshake_done |-> FALSE, has_client |-> TRUE]
    /\ ssl = [p \in Pcbs |-> NoSession]

-----------------------------------------------------------------------------
(* What _close() and _error() do for a TLS client, added to a step that    *)
(* ran them: _close() frees the session of _pcb before tcp_close(),        *)
(* _error() frees it and leaves _handshake_done.                           *)

AfterClose ==
    IF tls.use_tls /\ c.pcb # NULL /\ c'.pcb = NULL
      THEN tls' = [tls EXCEPT !.handshake_done = FALSE] /\ ssl' = tcp_ssl_free(c.pcb)
      ELSE UNCHANGED <<tls, ssl>>

AfterError ==
    /\ ssl' = IF tls.use_tls /\ c.pcb # NULL THEN tcp_ssl_free(c.pcb) ELSE ssl
    /\ UNCHANGED tls

(* connect(ip, port, u): _use_tls is set first, so that connected() asks   *)
(* for a handshake the connection there is may never have had;             *)
(* _handshake_done is reset only once there is a pcb to connect.           *)
Started(u, done) ==
    \/ /\ tls' = [tls EXCEPT !.use_tls = u, !.handshake_done = done]
       /\ UNCHANGED lw
    \/ /\ ~(connected /\ (u => done))
       /\ tls' = [tls EXCEPT !.use_tls = u, !.handshake_done = FALSE]
       /\ \E p \in Pcbs, pcb \in {NewPcb("SYN_SENT", {"err"}), NewPcb("leaked", {})} :
            lw[p].st = "unused" /\ lw' = [lw EXCEPT ![p] = pcb]

-----------------------------------------------------------------------------
(* lwIP calls back.                                                        *)

(* _connected() of a TLS client: makes the session, whose first record     *)
(* goes out at once or, when tcp_write() fails, is lost.  When there is no *)
(* session to be had the connection is closed; when there is no validator  *)
(* it is closed as well, but _connected() goes on ("unvalidated") and      *)
(* tries again without a pcb.                                              *)
Tls_connected(p) ==
    /\ Idle /\ tls.use_tls /\ lw[p].st = "SYN_SENT"
    /\ LET c1 == [c EXCEPT !.pcb = p, !.pcb_busy = FALSE, !.rx_age = 0]
           l1 == [lw EXCEPT ![p].st = "ESTABLISHED", ![p].cbs = Callbacks]
           k == Push("ret", p, 0, <<>>)
       IN \/ /\ c' = c1 /\ lw' \in {l1, [l1 EXCEPT ![p].unacked = 1]}
             /\ stack' = k
             /\ ssl' = [ssl EXCEPT ![p] = NewSession]
             /\ UNCHANGED <<et, tls>>
          \/ /\ \/ Close_(c1, et, l1, k)
                \/ Close_(c1, et, l1, Push("unvalidated", p, 0, k))
             /\ tls' = [tls EXCEPT !.handshake_done = FALSE]
             /\ UNCHANGED ssl
    /\ UNCHANGED <<dns, held>>

(* _recv() of a TLS client hands the whole chain to tcp_ssl_read(), which  *)
(* acknowledges it; without a session, or when it does not fit into the    *)
(* accumulator, tcp_ssl_read() fails and the connection is closed.         *)
Tls_recv(p, fin) ==
    /\ Idle /\ tls.use_tls /\ "recv" \in lw[p].cbs
    /\ LET c1 == [c EXCEPT !.rx_age = 0]
           e1 == SetCloseError(et, "ERR_OK")
           l1 == [lw EXCEPT ![p].st = IF fin THEN "CLOSE_WAIT" ELSE @]
           k == Push("ret", p, 0, IF fin THEN Push("fin", p, 0, <<>>) ELSE <<>>)
       IN \/ Close_(c1, e1, l1, k) /\ AfterClose
          \/ /\ Has(p)
             /\ \E s \in Fed(ssl[p]) : ssl' = [ssl EXCEPT ![p] = s]
             /\ \E n \in 1..MaxRuns : stack' = Push("ssl_read", p, n, k)
             /\ c' = c1 /\ et' = e1 /\ lw' = l1
             /\ UNCHANGED tls
    /\ UNCHANGED <<dns, held>>

(* _sent(): ignored until the handshake is done.  Acknowledgements count   *)
(* records, _tx_unacked_len what the application wrote.                    *)
Tls_sent(p, len) ==
    /\ Idle /\ tls.use_tls /\ "sent" \in lw[p].cbs
    /\ len <= lw[p].unacked
    /\ lw' = [lw EXCEPT ![p].unacked = @ - len]
    /\ \/ /\ ~tls.handshake_done
          /\ stack' = Push("ret", p, 0, <<>>)
          /\ UNCHANGED <<c, et>>
       \/ /\ tls.handshake_done /\ c.tx_acked_len + len <= TxBound
          /\ c' = [c EXCEPT !.rx_age = 0, !.tx_unacked_len = Unacked(len),
                            !.tx_acked_len = @ + len, !.pcb_busy = StillBusy(len)]
          /\ IF Unacked(len) = 0
               THEN /\ et' = SetCloseError(et, "ERR_OK")
                    /\ stack' = Push("tls_sent_cb", p, 0, Push("ret", p, 0, <<>>))
               ELSE /\ et' = et
                    /\ stack' = Push("ret", p, 0, <<>>)
    /\ UNCHANGED <<dns, held, tls, ssl>>

(* _poll(): the handshake timeout comes after the other two.               *)
(* Mutant: the timeout waits for a first acknowledgement.                  *)
HandshakeTimedAfterAck ==
    tls.use_tls /\ ~tls.handshake_done /\ c.rx_age >= HandshakeTimeout /\ c.tx_acked_len > 0

HandshakeTimedOut == tls.use_tls /\ ~tls.handshake_done /\ c.rx_age >= HandshakeTimeout

Tls_poll(p) ==
    /\ IF ~CloseRequested /\ ~AckTimedOut /\ ~RxTimedOut /\ HandshakeTimedOut
         THEN /\ Idle /\ "poll" \in lw[p].cbs /\ lw[p].due
              /\ Close_(c, SetCloseError(et, "ERR_OK"), [lw EXCEPT ![p].due = FALSE],
                        Push("ret", p, 0, <<>>))
              /\ UNCHANGED <<dns, held>>
         ELSE S_poll(p)
    /\ AfterClose

Tls_dns_found ==
    /\ Idle /\ dns
    /\ dns' = FALSE
    /\ \/ Started(tls.use_tls, tls.handshake_done) /\ UNCHANGED stack
       \/ stack' = Push("error_cb", NULL, 0, <<>>) /\ UNCHANGED <<lw, tls>>
    /\ UNCHANGED <<c, et, held, ssl>>

-----------------------------------------------------------------------------
(* tcp_ssl_read() feeds the engine and runs process_ssl_engine(), several  *)
(* times when the engine takes the data in pieces; n is the number of runs *)
(* still to come.  It needs its session; what it would do without is       *)
(* undefined, and NoStaleSession says it does not come to that.            *)

Reading == Top("ssl_read") /\ Has(Head(stack).p)

(* The run is over and f, if any, is the handler it calls last.            *)
RunOver(f, s) ==
    LET fr == Head(stack)
        n == IF s.eng = "closed" /\ fr.n > 1 THEN 1 ELSE fr.n - 1
        below == Push("ssl_read", fr.p, n, Tail(stack))
    IN /\ \E t \in IF n = 0 THEN {s} ELSE Fed(s) : ssl' = [ssl EXCEPT ![fr.p] = t]
       /\ stack' = IF f = "none" THEN below ELSE Push(f, fr.p, 0, below)

(* Mutant: any room in the send buffer will do.                            *)
FitsSome(p) == ssl[p].out # 0 /\ lw[p].unacked < SndBuf

Fitting(p) == ssl[p].out # 0 /\ lw[p].unacked + ssl[p].out <= SndBuf

(* Mutant: the error handler's caller closes the connection at once.       *)
FailsAndCloses(s) == c.alive /\ Close_(c, et, lw, stack) /\ AfterClose

(* A closed engine: the run ends with the error handler.                   *)
EngineFailed(s) == RunOver("ssl_error_cb", s) /\ UNCHANGED <<c, et, lw, tls>>

(* One round of process_ssl_engine(): a closed engine ends it; then data,  *)
(* then a record to send, which is lost when tcp_write() fails; last the   *)
(* handshake.                                                              *)
SslRun ==
    /\ Reading /\ Head(stack).n > 0
    /\ LET p == Head(stack).p
           s == ssl[p]
       IN \/ /\ s.eng = "closed"
             /\ EngineFailed(s)
          \/ /\ s.eng # "closed" /\ s.data
             /\ ssl' = [ssl EXCEPT ![p].data = FALSE]
             /\ stack' = Push("data_cb", p, 0, stack)
             /\ UNCHANGED <<c, et, lw, tls>>
          \/ /\ s.eng # "closed" /\ ~s.data /\ Fitting(p)
             /\ lw' \in {lw, [lw EXCEPT ![p].unacked = @ + s.out]}
             /\ ssl' = [ssl EXCEPT ![p].out = 0]
             /\ UNCHANGED <<c, et, stack, tls>>
          \/ /\ s.eng = "ready" /\ ~s.data /\ ~Fitting(p) /\ ~s.done
             /\ tls' = [tls EXCEPT !.handshake_done = TRUE]
             /\ RunOver("handshake_cb", [s EXCEPT !.done = TRUE])
             /\ UNCHANGED <<c, et, lw>>
          \/ /\ s.eng # "closed" /\ ~s.data /\ ~Fitting(p) /\ (s.eng = "ready" => s.done)
             /\ RunOver("none", s)
             /\ UNCHANGED <<c, et, lw, tls>>
    /\ UNCHANGED <<dns, held>>

(* Mutant: a failed engine is left for the next poll.                      *)
ReadIgnoresFailure ==
    /\ Reading /\ Head(stack).n = 0
    /\ stack' = Tail(stack)
    /\ UNCHANGED <<c, et, lw, dns, held, tls, ssl>>

(* tcp_ssl_read() returns; _recv() closes when the engine is closed.       *)
SslReadReturn ==
    /\ Reading /\ Head(stack).n = 0
    /\ IF ssl[Head(stack).p].eng = "closed"
         THEN c.alive /\ Close_(c, et, lw, Tail(stack)) /\ AfterClose
         ELSE stack' = Tail(stack) /\ UNCHANGED <<c, et, lw, tls, ssl>>
    /\ UNCHANGED <<dns, held>>

(* The handlers tcp_ssl_read() calls, and _connected() after a failed      *)
(* validator: tcp_ssl_new_client() fails without a pcb and _close() has    *)
(* nothing left to close.                                                  *)
TlsUserReturn ==
    /\ \E f \in {"handshake_cb", "data_cb", "ssl_error_cb", "unvalidated"} : Top(f)
    /\ stack' = Tail(stack)
    /\ UNCHANGED <<c, et, lw, dns, held, tls, ssl>>

(* After onAck of a TLS client: nothing more if the client is gone.        *)
TlsSentReturn ==
    /\ Top("tls_sent_cb") /\ (tls.has_client => c.alive)
    /\ c' = IF tls.has_client THEN [c EXCEPT !.tx_acked_len = 0] ELSE c
    /\ stack' = Tail(stack)
    /\ UNCHANGED <<et, lw, dns, held, tls, ssl>>

(* Mutant: clearClient() is never called.                                  *)
KeepsClient == DtorReturn /\ UNCHANGED <<tls, ssl>>

(* ~AsyncClient() of a TLS client also clears the tracker's pointer.       *)
TlsDtorReturn ==
    /\ DtorReturn
    /\ tls' = [tls EXCEPT !.has_client = ~tls.use_tls]
    /\ UNCHANGED ssl

-----------------------------------------------------------------------------
(* The application's calls.                                                *)

TlsConnect(u) ==
    /\ MayCall("connect") /\ ~InProgress("dtor") /\ (Overlap \/ Quiet)
    /\ Started(u, tls.handshake_done)
    /\ UNCHANGED <<c, et, stack, dns, held, ssl>>

(* connect(host) resets _handshake_done at once.                           *)
TlsConnectHost(u) ==
    /\ MayCall("connectHost") /\ ~InProgress("dtor") /\ (Overlap \/ Quiet) /\ ~dns
    /\ \/ Started(u, FALSE) /\ UNCHANGED dns
       \/ /\ dns' = TRUE
          /\ tls' = [tls EXCEPT !.use_tls = u, !.handshake_done = FALSE]
          /\ UNCHANGED lw
    /\ UNCHANGED <<c, et, stack, held, ssl>>

(* add() and write() of a TLS client: tcp_ssl_write() takes up to n units  *)
(* into a record, unless the last one is still to be sent, and sends it if *)
(* it fits.  When tcp_write() fails the record is lost, but its bytes are  *)
(* counted.  Without a session the connection is closed.                   *)
TlsWrite(n) ==
    /\ MayCall("write") /\ tls.use_tls /\ TlsSpace > 0
    /\ \/ /\ ~Has(c.pcb)
          /\ Close_(c, et, lw, stack) /\ AfterClose
       \/ /\ ssl[c.pcb].eng = "ready" /\ ssl[c.pcb].out = 0
          /\ c' = [c EXCEPT !.tx_unacked_len = @ + n]
          /\ IF lw[c.pcb].unacked + n + 1 <= SndBuf
               THEN /\ \/ lw' = [lw EXCEPT ![c.pcb].unacked = @ + n + 1]
                       \/ c.tx_unacked_len + n <= TxBound /\ UNCHANGED lw
                    /\ UNCHANGED ssl
               ELSE ssl' = [ssl EXCEPT ![c.pcb].out = n + 1] /\ UNCHANGED lw
          /\ UNCHANGED <<et, stack, tls>>
    /\ UNCHANGED <<dns, held>>

-----------------------------------------------------------------------------
PlainStack ==
    \E p \in Pcbs :
        \/ ~tls.use_tls /\ S_connected(p)
        \/ S_failed(p)   \* _recv() forgets _pcb first: the session stays
        \/ ~tls.use_tls /\ \E n \in 1..MaxChain, fin \in BOOLEAN : S_recv(p, n, fin)
        \/ ~tls.use_tls /\ \E len \in 1..SndBuf : S_sent(p, len)

TlsStack ==
    \/ PlainStack /\ UNCHANGED <<tls, ssl>>
    \/ \E p \in Pcbs :
         \/ Tls_connected(p)
         \/ \E fin \in BOOLEAN : Tls_recv(p, fin)
         \/ S_recv_fin(p) /\ AfterClose
         \/ \E len \in 1..SndBuf : Tls_sent(p, len)
         \/ Tls_poll(p)
         \/ \E err \in {"ERR_RST", "ERR_ABRT"} : S_error(p, err) /\ AfterError
    \/ Tls_dns_found
    \/ Tick /\ UNCHANGED <<tls, ssl>>

PlainReturn ==
    UserReturn \/ RecvReturn \/ SentReturn \/ ErrorReturn \/ AbortReturn \/ ReturnToStack

TlsReturn ==
    \/ PlainReturn /\ UNCHANGED <<tls, ssl>>
    \/ FinAfterData /\ AfterClose
    \/ SslRun \/ SslReadReturn \/ TlsUserReturn \/ TlsSentReturn \/ TlsDtorReturn

TlsCall ==
    \/ \E u \in TlsModes : TlsConnect(u) \/ TlsConnectHost(u)
    \/ (CloseNow \/ CloseLater \/ Delete) /\ AfterClose
    \/ Abort /\ AfterError
    \/ ~tls.use_tls /\ (Send \/ \E n \in 1..SndBuf : Write(n)) /\ UNCHANGED <<tls, ssl>>
    \/ \E n \in 1..(SndBuf - 1) : TlsWrite(n)

TlsNext == TlsStack \/ TlsReturn \/ TlsCall

TlsSpec == TlsInit /\ [][TlsNext]_tlsVars

(* As in AsyncClient: code goes on, time passes, due polls are delivered.  *)
TlsFairness ==
    /\ WF_tlsVars(TlsReturn)
    /\ SF_tlsVars(Tick /\ UNCHANGED <<tls, ssl>>)
    /\ \A p \in Pcbs : SF_tlsVars(Tls_poll(p))

TlsFairSpec == TlsSpec /\ TlsFairness

-----------------------------------------------------------------------------
(* Types of what this module adds; no record overruns the send buffer.     *)
TlsTypeOK ==
    /\ \A p \in Pcbs : lw[p].unacked <= SndBuf
    /\ tls \in [use_tls : BOOLEAN, handshake_done : BOOLEAN, has_client : BOOLEAN]
    /\ ssl \in [Pcbs -> Sessions]

(* tcp_ssl_read() never goes on with a session that a handler it called,   *)
(* or anything else, has freed meanwhile.                                  *)
NoStaleSession ==
    \A i \in 1..Len(stack) : stack[i].f = "ssl_read" => Has(stack[i].p)

(* A session exists for the TLS connection in _pcb and for no other pcb:   *)
(* every way a connection ends frees it.  (Except one: _recv() called with *)
(* an error forgets _pcb before _error() could free its session.)          *)
SessionOwned ==
    \A p \in Pcbs : Has(p) => (c.pcb = p /\ tls.use_tls) \/ lw[p].st = "detached"

(* When lwIP runs again, a TLS connection has a working session, and       *)
(* connected() agrees with it on whether the handshake is done: nothing    *)
(* is ever written in the clear or to a failed engine.                     *)
SessionWorks ==
    stack = <<>> /\ c.pcb # NULL /\ tls.use_tls =>
        /\ ssl[c.pcb].eng \in {"handshake", "ready"}
        /\ tls.handshake_done <=> ssl[c.pcb].done

(* Once the object is deleted no method of it is left on the call stack    *)
(* with code to run that uses it; _sent() of a TLS client checks first.    *)
(* (Except _connected() after a failed validator, and _sent() when a plain *)
(* connect() failed just before the delete: hasClient() is not cleared.)   *)
NoDanglingTlsFrame ==
    ~c.alive => \A i \in 1..Len(stack) :
        /\ ~UsesObject(stack[i]) /\ stack[i].f # "ssl_read"
        /\ stack[i].f = "tls_sent_cb" /\ tls.use_tls => ~tls.has_client

(* No further event of a connection, plain or TLS, is delivered after its  *)
(* onDisconnect.                                                           *)
SilentAfterDisconnect ==
    [][ /\ Len(stack') >= Len(stack) /\ stack' # stack
        /\ Head(stack').f \in (Handlers \cup TlsHandlers) \ {"error_cb", "discard_cb"}
        => lw[Head(stack').p].told = 0 ]_tlsVars

(* A handshake over which nothing arrives any more is given up: it is      *)
(* never silent for longer than the timeout and a poll interval, however   *)
(* the timeouts that _poll() looks at first turn out.                      *)
HandshakeBounded ==
    stack = <<>> /\ c.pcb # NULL /\ tls.use_tls /\ ~tls.handshake_done =>
        c.rx_age < HandshakeTimeout \/ (c.rx_age = HandshakeTimeout /\ lw[c.pcb].due)

=============================================================================
