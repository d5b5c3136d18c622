----------------------------- MODULE AsyncClient -----------------------------
(***************************************************************************)
(* One AsyncClient object (ESPAsyncTCPClient.{h,cpp}, plain TCP), the lwIP *)
(* pcbs it is given, and the application that owns it.                     *)
(*                                                                         *)
(* Everything runs on one thread: lwIP calls the static _s_* trampolines   *)
(* from its main loop, they call the application's handlers, and handlers  *)
(* call the client's methods.  The hard part is re-entrancy: a method runs *)
(* inside a handler inside a callback, and the code after the handler must *)
(* still find its object and its pcb as it left them.  The call stack is   *)
(* therefore explicit: a frame per application handler in progress and per *)
(* piece of code still to run after one ("ret", "fin", "abort", "dtor").   *)
(*                                                                         *)
(* Lengths count unit pbufs / unit writes, time counts poll intervals.     *)
(***************************************************************************)
EXTENDS Integers, Sequences, ACErrorTracker

CONSTANTS
    Pcbs,        \* the pcbs lwIP can hand out; each is used once
    NULL,        \* the null pcb pointer
    App,         \* <<method, context>> pairs: the calls the application makes
    DataHandlers,\* "recv_cb" (onData), "pb_cb" (onPacket, shadows onData) or both:
                 \* onPacket() is set and reset in mid-connection
    Overlap,     \* TRUE iff the application connects before the last attempt ended
    Polite,      \* TRUE iff write()/send() are called only when canSend()
    AckTimeout,  \* _ack_timeout; 0 disables
    RxTimeout,   \* _rx_since_timeout; 0 disables
    SndBuf,      \* TCP_SND_BUF
    RcvWnd,      \* TCP_WND
    MaxChain,    \* bound: pbufs in one chain
    RxBound,     \* bound: units the application holds unacknowledged
    TxBound      \* bound: _tx_acked_len, and _tx_unacked_len when records are lost

ASSUME PcbAssumption == NULL \notin Pcbs
ASSUME FlagAssumption ==
    /\ DataHandlers \subseteq {"recv_cb", "pb_cb"}
    /\ Overlap \in BOOLEAN /\ Polite \in BOOLEAN
ASSUME SizeAssumption ==
    /\ AckTimeout \in Nat /\ RxTimeout \in Nat /\ SndBuf \in Nat /\ RcvWnd \in Nat
    /\ MaxChain \in Nat /\ RxBound \in Nat /\ TxBound \in Nat

VARIABLES
    c,      \* the AsyncClient's members
    et,     \* *_errorTracker
    stack,  \* frames in progress, the innermost first
    lw,     \* lwIP's side of every pcb
    dns,    \* TRUE while dns_gethostbyname() holds this object as callback_arg
    held    \* pbufs the application keeps from onPacket()

vars == <<c, et, stack, lw, dns, held>>

-----------------------------------------------------------------------------
(* Pcbs.  "closing": tcp_close() accepted; "aborted": tcp_abort() called;  *)
(* "freed": lwIP reported an error and freed it; "detached": callbacks     *)
(* cleared, neither closed nor aborted; "leaked": tcp_connect() failed and *)
(* nobody keeps the pointer.  cbs are the callbacks installed with this    *)
(* client as their argument, due says a poll is due.  told is a ghost: the *)
(* onDisconnect calls made for this pcb.                                   *)

Open == {"SYN_SENT", "ESTABLISHED", "CLOSE_WAIT"}
Over == {"closing", "aborted", "freed", "detached"}
Callbacks == {"err", "recv", "sent", "poll"}

PcbRecords ==
    [st : {"unused", "leaked"} \cup Open \cup Over, cbs : SUBSET Callbacks,
     unacked : Nat, unrecved : Nat, due : BOOLEAN, told : Nat]

NewPcb(st, cbs) ==
    [st |-> st, cbs |-> cbs, unacked |-> 0, unrecved |-> 0, due |-> FALSE, told |-> 0]

(* Mutants: one callback is not cleared.                                   *)
KeepsErr(l, p) == [l EXCEPT ![p].cbs = {"err"}, ![p].due = FALSE]
KeepsPoll(l, p) == [l EXCEPT ![p].cbs = {"poll"}]

(* clearTcpCallbacks(): lwIP no longer calls this client for p.            *)
clearTcpCallbacks(l, p) == [l EXCEPT ![p].cbs = {}, ![p].due = FALSE]

(* p is over for this client; the end's kind is in st.                     *)
Release(l, p, st) ==
    [clearTcpCallbacks(l, p) EXCEPT ![p].st = st, ![p].unacked = 0, ![p].unrecved = 0]

(* tcp_recved(): gives n units back to the receive window, at most all.    *)
tcp_recved(l, p, n) ==
    [l EXCEPT ![p].unrecved = IF n > @ THEN 0 ELSE @ - n]

-----------------------------------------------------------------------------
(* Frames.  p is the pcb the frame is about and n the pbufs of the chain   *)
(* _recv() still has to deliver after the current one.                     *)

Handlers == {"connect_cb", "recv_cb", "pb_cb", "sent_cb", "timeout_cb", "poll_cb",
             "error_cb", "discard_cb"}
(* A build with TLS has more handlers, and tcp_ssl_read() and _connected() *)
(* go on after them: see AsyncClientTls.                                   *)
TlsHandlers == {"handshake_cb", "data_cb", "ssl_error_cb", "tls_sent_cb"}

FrameKinds == Handlers \cup TlsHandlers
                \cup {"ret", "fin", "abort", "dtor", "ssl_read", "unvalidated"}

Frames == [f : FrameKinds, p : Pcbs \cup {NULL}, n : Nat]

Frame(f, p, n) == [f |-> f, p |-> p, n |-> n]
Push(f, p, n, k) == <<Frame(f, p, n)>> \o k

(* Where the application's code runs now: in its own loop(), in a handler, *)
(* or (the name of an internal frame) nowhere.                             *)
Context == IF stack = <<>> THEN "loop" ELSE Head(stack).f
InProgress(f) == \E i \in 1..Len(stack) : stack[i].f = f

MayCall(method) == c.alive /\ <<method, Context>> \in App

(* lwIP calls back from its main loop, never from within a callback.       *)
Idle == stack = <<>> /\ c.alive

-----------------------------------------------------------------------------
(* The client's members.  _rx_last_packet and _pcb_sent_at are kept as     *)
(* ages; an age stops growing at the timeout that reads it.                *)

Clients ==
    [alive : BOOLEAN, pcb : Pcbs \cup {NULL}, pcb_busy : BOOLEAN, sent_age : Nat,
     close_pcb : BOOLEAN, ack_pcb : BOOLEAN, tx_unacked_len : Nat, tx_acked_len : Nat,
     rx_ack_len : Nat, rx_age : Nat]

NewClient(p) ==
    [alive |-> TRUE, pcb |-> p, pcb_busy |-> FALSE, sent_age |-> AckTimeout,
     close_pcb |-> FALSE, ack_pcb |-> TRUE, tx_unacked_len |-> 0, tx_acked_len |-> 0,
     rx_ack_len |-> 0, rx_age |-> 0]

(* Mutant: _pcb is left pointing to a pcb that is gone.                    *)
KeepPcb(c0) == c0

(* _pcb = NULL                                                             *)
ForgetPcb(c0) == [c0 EXCEPT !.pcb = NULL]

connected == c.pcb # NULL /\ lw[c.pcb].st = "ESTABLISHED"
space == IF connected THEN SndBuf - lw[c.pcb].unacked ELSE 0
canSend == ~c.pcb_busy /\ space > 0

(* Either a client that will connect, or one AsyncServer::_accept() built  *)
(* around an established pcb.                                              *)
Init ==
    /\ \/ /\ c = NewClient(NULL)
          /\ lw = [q \in Pcbs |-> NewPcb("unused", {})]
       \/ \E p \in Pcbs :
            /\ c = NewClient(p)
            /\ lw = [q \in Pcbs |-> IF q = p THEN NewPcb("ESTABLISHED", Callbacks)
                                             ELSE NewPcb("unused", {})]
    /\ et = NewTracker
    /\ stack = <<>>
    /\ dns = FALSE
    /\ held = 0

-----------------------------------------------------------------------------
(* Shared steps of several handlers.  They take the client, tracker, pcbs  *)
(* and stack as the caller has left them so far.                           *)

(* onDisconnect about p: the call, counted.                                *)
Discard(l, p, k) ==
    /\ lw' = IF p = NULL THEN l ELSE [l EXCEPT ![p].told = @ + 1]
    /\ stack' = Push("discard_cb", p, 0, k)

(* Mutant: abort() does not record ERR_ABRT.                               *)
LosesAbort(r) == "ERR_OK"

(* What _close() or the abort() it falls back on hands to setCloseError(). *)
CloseError(r) == IF r = "closing" THEN "ERR_OK" ELSE "ERR_ABRT"

(* _close(): acts on _pcb whatever pcb the callback was about.  tcp_close  *)
(* may fail (no memory for the FIN); then abort() runs with the callbacks  *)
(* already cleared, so that _error() is not re-entered.                    *)
Close_(c0, e0, l0, k) ==
    \/ /\ c0.pcb = NULL
       /\ c' = c0 /\ et' = e0 /\ lw' = l0 /\ stack' = k
    \/ /\ c0.pcb # NULL
       /\ \E r \in {"closing", "aborted"} :
            /\ et' = SetCloseError(e0, CloseError(r))
            /\ Discard(Release(l0, c0.pcb, r), c0.pcb, k)
       /\ c' = ForgetPcb(c0)

(* _error(): forgets _pcb and calls onError; ErrorReturn goes on from      *)
(* there to onDisconnect.                                                  *)
Error_(c0, e0, l0, p, k) ==
    /\ c' = ForgetPcb(c0)
    /\ et' = e0
    /\ lw' = l0
    /\ stack' = Push("error_cb", p, 0, k)

(* The prologue of _s_error(): first error wins.                           *)
Errored(e0, err, event) == SetErrored(SetCloseError(e0, err), event)

(* The body of connect(IPAddress): nothing happens when connected or when  *)
(* tcp_new() fails; a failed tcp_connect() leaves the pcb allocated with   *)
(* nobody to free it.                                                      *)
Connect_ ==
    \/ UNCHANGED lw
    \/ /\ ~connected
       /\ \E p \in Pcbs :
            /\ lw[p].st = "unused"
            /\ \/ lw' = [lw EXCEPT ![p] = NewPcb("SYN_SENT", {"err"})]
               \/ lw' = [lw EXCEPT ![p] = NewPcb("leaked", {})]

(* _recv() takes the next pbuf of the chain; k is what runs afterwards.    *)
Deliver(p, n, k) ==
    \E f \in DataHandlers :
        /\ stack' = Push(f, p, n, k)
        /\ held' = IF f = "pb_cb" THEN held + 1 ELSE held

-----------------------------------------------------------------------------
(* lwIP calls back.  A callback that returns a value pushes a "ret" frame. *)

S_connected(p) ==
    /\ Idle /\ lw[p].st = "SYN_SENT"
    /\ c' = [c EXCEPT !.pcb = p, !.pcb_busy = FALSE, !.rx_age = 0]
    /\ lw' = [lw EXCEPT ![p].st = "ESTABLISHED", ![p].cbs = @ \cup {"recv", "sent", "poll"}]
    /\ stack' = Push("connect_cb", p, 0, Push("ret", p, 0, <<>>))
    /\ UNCHANGED <<et, dns, held>>

(* _connected() and _recv() called with an error: the pcb is let go.       *)
S_failed(p) ==
    /\ Idle /\ "err" \in lw[p].cbs
    /\ LET event == IF lw[p].st = "SYN_SENT" THEN "EE_CONNECTED_CB" ELSE "EE_RECV_CB"
       IN Error_(c, Errored(et, "ERR_RST", event), Release(lw, p, "detached"), p,
                 Push("ret", p, 0, <<>>))
    /\ UNCHANGED <<dns, held>>

(* Data arrives, n pbufs in a chain, with or without a FIN behind it: the  *)
(* FIN has changed the state before the data is delivered, and is itself   *)
(* delivered after the callback returns.                                   *)
S_recv(p, n, fin) ==
    /\ Idle /\ "recv" \in lw[p].cbs
    /\ lw[p].unrecved + n <= RcvWnd
    /\ c.rx_ack_len + held + n <= RxBound
    /\ c' = [c EXCEPT !.rx_age = 0, !.ack_pcb = TRUE]
    /\ et' = SetCloseError(et, "ERR_OK")
    /\ lw' = [lw EXCEPT ![p].unrecved = @ + n, ![p].st = IF fin THEN "CLOSE_WAIT" ELSE @]
    /\ Deliver(p, n - 1, Push("ret", p, 0, IF fin THEN Push("fin", p, 0, <<>>) ELSE <<>>))
    /\ UNCHANGED dns

(* _recv() with pb == NULL: the peer closed.                               *)
S_recv_fin(p) ==
    /\ Idle /\ "recv" \in lw[p].cbs
    /\ Close_(c, et, [lw EXCEPT ![p].st = "CLOSE_WAIT"], Push("ret", p, 0, <<>>))
    /\ UNCHANGED <<dns, held>>

FinAfterData ==
    /\ stack # <<>> /\ Head(stack).f = "fin"
    /\ LET p == Head(stack).p
       IN IF "recv" \in lw[p].cbs
            THEN Close_(c, et, lw, Push("ret", p, 0, Tail(stack)))
            ELSE stack' = Tail(stack) /\ UNCHANGED <<c, et, lw>>
    /\ UNCHANGED <<dns, held>>

(* _sent(): the peer acknowledged len units.                               *)
Unacked(len) == IF c.tx_unacked_len > len THEN c.tx_unacked_len - len ELSE 0

(* Mutant: an acknowledgement of everything leaves the client busy.        *)
StaysBusy(len) == c.pcb_busy

StillBusy(len) == c.pcb_busy /\ Unacked(len) # 0

S_sent(p, len) ==
    /\ Idle /\ "sent" \in lw[p].cbs
    /\ len <= lw[p].unacked /\ c.tx_acked_len + len <= TxBound
    /\ lw' = [lw EXCEPT ![p].unacked = @ - len]
    /\ c' = [c EXCEPT !.rx_age = 0, !.tx_unacked_len = Unacked(len),
                      !.tx_acked_len = @ + len,
                      !.pcb_busy = StillBusy(len)]
    /\ IF Unacked(len) = 0
         THEN /\ et' = SetCloseError(et, "ERR_OK")
              /\ stack' = Push("sent_cb", p, 0, Push("ret", p, 0, <<>>))
         ELSE /\ et' = et
              /\ stack' = Push("ret", p, 0, <<>>)
    /\ UNCHANGED <<dns, held>>

(* _poll(): a deferred close, then the ack timeout, then the rx timeout,   *)
(* then onPoll; the first that applies is the only one.                    *)
(* Mutants: the close waits for acknowledgements; the ack timeout reads    *)
(* _rx_last_packet; the rx timeout waits for acknowledgements.             *)
CloseWhenAcked == c.close_pcb /\ ~c.pcb_busy
AckTimedByRx == c.pcb_busy /\ AckTimeout # 0 /\ c.rx_age >= AckTimeout
RxTimedWhenAcked == RxTimeout # 0 /\ c.rx_age >= RxTimeout /\ ~c.pcb_busy

CloseRequested == c.close_pcb
AckTimedOut == c.pcb_busy /\ AckTimeout # 0 /\ c.sent_age >= AckTimeout
RxTimedOut == RxTimeout # 0 /\ c.rx_age >= RxTimeout

Poll_(p, l, k) ==
    LET e == SetCloseError(et, "ERR_OK") IN
    \/ /\ CloseRequested
       /\ Close_([c EXCEPT !.close_pcb = FALSE], e, l, k)
    \/ /\ ~CloseRequested /\ AckTimedOut
       /\ c' = [c EXCEPT !.pcb_busy = FALSE]
       /\ et' = e /\ lw' = l /\ stack' = Push("timeout_cb", p, 0, k)
    \/ /\ ~CloseRequested /\ ~AckTimedOut /\ RxTimedOut
       /\ Close_(c, e, l, k)
    \/ /\ ~CloseRequested /\ ~AckTimedOut /\ ~RxTimedOut
       /\ c' = c /\ et' = e /\ lw' = l /\ stack' = Push("poll_cb", p, 0, k)

S_poll(p) ==
    /\ Idle /\ "poll" \in lw[p].cbs /\ lw[p].due
    /\ Poll_(p, [lw EXCEPT ![p].due = FALSE], Push("ret", p, 0, <<>>))
    /\ UNCHANGED <<dns, held>>

(* The stack reports an error and has freed the pcb; nothing is returned.  *)
S_error(p, err) ==
    /\ Idle /\ "err" \in lw[p].cbs
    /\ Error_(c, Errored(et, err, "EE_ERROR_CB"), Release(lw, p, "freed"), p, <<>>)
    /\ UNCHANGED <<dns, held>>

(* _dns_found(): connects, or reports the failure.  connect()'s result is  *)
(* not looked at.                                                          *)
S_dns_found ==
    /\ Idle /\ dns
    /\ dns' = FALSE
    /\ \/ Connect_ /\ UNCHANGED stack
       \/ stack' = Push("error_cb", NULL, 0, <<>>) /\ UNCHANGED lw
    /\ UNCHANGED <<c, et, held>>

(* A poll interval passes.                                                 *)
Older(age, timeout) == IF age < timeout THEN age + 1 ELSE age

Tick ==
    /\ Idle
    /\ \A p \in Pcbs : ~lw[p].due
    /\ lw' = [p \in Pcbs |-> [lw[p] EXCEPT !.due = "poll" \in lw[p].cbs]]
    /\ c' = [c EXCEPT !.sent_age = Older(@, AckTimeout), !.rx_age = Older(@, RxTimeout)]
    /\ UNCHANGED <<et, stack, dns, held>>

-----------------------------------------------------------------------------
(* A handler returns, or code that follows one runs.  A frame of a method  *)
(* that still uses the object needs it alive: what it would do otherwise   *)
(* is undefined, and NoDanglingFrame says it does not come to that.        *)

Top(f) == stack # <<>> /\ Head(stack).f = f

(* Handlers with nothing after them in the client.                         *)
UserReturn ==
    /\ \E f \in {"connect_cb", "timeout_cb", "poll_cb", "discard_cb"} : Top(f)
    /\ stack' = Tail(stack)
    /\ UNCHANGED <<c, et, lw, dns, held>>

(* On to the next pbuf of the chain, or out of _recv().                    *)
NextPbuf(c0) ==
    LET fr == Head(stack) IN
    IF fr.n > 0
      THEN c' = [c0 EXCEPT !.ack_pcb = TRUE] /\ Deliver(fr.p, fr.n - 1, Tail(stack))
      ELSE c' = c0 /\ stack' = Tail(stack) /\ UNCHANGED held

(* Mutant: a deferred pbuf replaces the ones before it.                    *)
DeferOnlyLast(c0) == [c0 EXCEPT !.rx_ack_len = 1]

Defer(c0) == [c0 EXCEPT !.rx_ack_len = @ + 1]
AckUnlessDeferred == IF c.ack_pcb THEN tcp_recved(lw, Head(stack).p, 1) ELSE lw

(* After onData: the pbuf is acknowledged now unless ackLater() was called *)
(* (tcp_recved() on the callback's pcb, not on _pcb).                      *)
RecvReturn ==
    /\ Top("recv_cb") /\ c.alive
    /\ lw' = AckUnlessDeferred
    /\ NextPbuf(IF c.ack_pcb THEN c ELSE Defer(c))
    /\ UNCHANGED <<et, dns>>

(* Mutant: onPacket's pbuf is acknowledged on return as onData's is.       *)
PacketAcked ==
    /\ Top("pb_cb") /\ c.alive
    /\ lw' = tcp_recved(lw, Head(stack).p, 1)
    /\ NextPbuf(c)
    /\ UNCHANGED <<et, dns>>

PacketReturn ==
    /\ Top("pb_cb") /\ (c.alive \/ Head(stack).n = 0)
    /\ NextPbuf(c)
    /\ UNCHANGED <<et, lw, dns>>

SentReturn ==
    /\ Top("sent_cb") /\ c.alive
    /\ c' = [c EXCEPT !.tx_acked_len = 0]
    /\ stack' = Tail(stack)
    /\ UNCHANGED <<et, lw, dns, held>>

ErrorReturn ==
    /\ Top("error_cb") /\ c.alive
    /\ Discard(lw, Head(stack).p, Tail(stack))
    /\ UNCHANGED <<c, et, dns, held>>

(* The rest of abort() after tcp_abort() has run the error callback.       *)
AbortReturn ==
    /\ Top("abort") /\ c.alive
    /\ c' = ForgetPcb(c)
    /\ et' = SetCloseError(et, "ERR_ABRT")
    /\ stack' = Tail(stack)
    /\ UNCHANGED <<lw, dns, held>>

(* The rest of ~AsyncClient() after _close().                              *)
DtorReturn ==
    /\ Top("dtor") /\ c.alive
    /\ c' = [c EXCEPT !.alive = FALSE]
    /\ stack' = Tail(stack)
    /\ UNCHANGED <<et, lw, dns, held>>

(* The trampoline returns getCallbackCloseError() to lwIP; the tracker is  *)
(* shared, so this works without the object.                               *)
ReturnToStack ==
    /\ Top("ret")
    /\ et' = AfterCallbackCloseError(et)
    /\ stack' = Tail(stack)
    /\ UNCHANGED <<c, lw, dns, held>>

-----------------------------------------------------------------------------
(* The application calls the client, from loop() or from a handler.        *)

(* With ~Overlap a new attempt waits for the end of the last one.          *)
Quiet == c.pcb = NULL /\ ~dns /\ \A p \in Pcbs : lw[p].st # "SYN_SENT"

Connect ==
    /\ MayCall("connect") /\ ~InProgress("dtor") /\ (Overlap \/ Quiet)
    /\ Connect_
    /\ UNCHANGED <<c, et, stack, dns, held>>

(* connect(host): the address is cached, or the answer comes later; one    *)
(* lookup at a time.                                                       *)
ConnectHost ==
    /\ MayCall("connectHost") /\ ~InProgress("dtor") /\ (Overlap \/ Quiet) /\ ~dns
    /\ \/ Connect_ /\ UNCHANGED dns
       \/ dns' = TRUE /\ UNCHANGED lw
    /\ UNCHANGED <<c, et, stack, held>>

(* close() first releases what ackLater() held back; _rx_ack_len stays.    *)
Reopened == IF c.pcb = NULL THEN lw ELSE tcp_recved(lw, c.pcb, c.rx_ack_len)

CloseNow ==
    /\ MayCall("closeNow")
    /\ Close_(c, et, Reopened, stack)
    /\ UNCHANGED <<dns, held>>

CloseLater ==
    /\ MayCall("close")
    /\ c' = [c EXCEPT !.close_pcb = TRUE]
    /\ lw' = Reopened
    /\ UNCHANGED <<et, stack, dns, held>>

(* abort(): tcp_abort() calls _s_error() before it returns.                *)
Abort ==
    /\ MayCall("abort") /\ c.pcb # NULL
    /\ Error_(c, Errored(et, "ERR_ABRT", "EE_ERROR_CB"), Release(lw, c.pcb, "aborted"),
              c.pcb, Push("abort", c.pcb, 0, stack))
    /\ UNCHANGED <<dns, held>>

(* add(): queues what fits.  A failed tcp_write() changes nothing.         *)
Fits(n) == IF space < n THEN space ELSE n
Queued(n) == [lw EXCEPT ![c.pcb].unacked = @ + Fits(n)]

(* Mutant: counts the size asked for.                                      *)
CountsAll(n) == [c EXCEPT !.tx_unacked_len = @ + n]

Counted(n) == [c EXCEPT !.tx_unacked_len = @ + Fits(n)]

(* send(): a successful tcp_output() marks the pcb busy, data or no data.  *)
Sent(c0) == [c0 EXCEPT !.pcb_busy = TRUE, !.sent_age = 0]

Add(n) ==
    /\ MayCall("add") /\ space > 0
    /\ lw' = Queued(n)
    /\ c' = Counted(n)
    /\ UNCHANGED <<et, stack, dns, held>>

Send ==
    /\ MayCall("send") /\ c.pcb # NULL /\ (Polite => canSend)
    /\ c' = Sent(c)
    /\ UNCHANGED <<et, stack, lw, dns, held>>

(* write(): when tcp_output() fails write() returns 0 with the data queued *)
(* and counted.                                                            *)
Write(n) ==
    /\ MayCall("write") /\ space > 0 /\ (Polite => canSend)
    /\ lw' = Queued(n)
    /\ c' \in {Counted(n), Sent(Counted(n))}
    /\ UNCHANGED <<et, stack, dns, held>>

(* Mutant: len is not cut to _rx_ack_len.                                  *)
AckUncut(len) ==
    /\ MayCall("ack") /\ c.pcb # NULL
    /\ lw' = tcp_recved(lw, c.pcb, len)
    /\ c' = [c EXCEPT !.rx_ack_len = @ - len]
    /\ UNCHANGED <<et, stack, dns, held>>

(* ack(): a longer len is cut to _rx_ack_len.                              *)
Ack(len) ==
    /\ MayCall("ack") /\ c.pcb # NULL /\ len <= c.rx_ack_len
    /\ lw' = tcp_recved(lw, c.pcb, len)
    /\ c' = [c EXCEPT !.rx_ack_len = @ - len]
    /\ UNCHANGED <<et, stack, dns, held>>

AckLater ==
    /\ MayCall("ackLater")
    /\ c' = [c EXCEPT !.ack_pcb = FALSE]
    /\ UNCHANGED <<et, stack, lw, dns, held>>

AckPacket ==
    /\ MayCall("ackPacket") /\ c.pcb # NULL /\ held > 0
    /\ lw' = tcp_recved(lw, c.pcb, 1)
    /\ held' = held - 1
    /\ UNCHANGED <<c, et, stack, dns>>

(* delete: not twice, and not while lwIP or the resolver still has to      *)
(* answer an attempt.                                                      *)
Delete ==
    /\ MayCall("delete") /\ ~InProgress("dtor")
    /\ ~dns /\ \A p \in Pcbs : lw[p].st # "SYN_SENT"
    /\ Close_(c, et, lw, Push("dtor", NULL, 0, stack))
    /\ UNCHANGED <<dns, held>>

-----------------------------------------------------------------------------
Stack ==
    \/ \E p \in Pcbs :
         \/ S_connected(p)
         \/ S_failed(p)
         \/ \E n \in 1..MaxChain, fin \in BOOLEAN : S_recv(p, n, fin)
         \/ S_recv_fin(p)
         \/ \E len \in 1..SndBuf : S_sent(p, len)
         \/ S_poll(p)
         \/ \E err \in {"ERR_RST", "ERR_ABRT"} : S_error(p, err)
    \/ S_dns_found
    \/ Tick

Return ==
    \/ UserReturn \/ RecvReturn \/ PacketReturn \/ SentReturn \/ ErrorReturn
    \/ AbortReturn \/ DtorReturn \/ ReturnToStack \/ FinAfterData

Call ==
    \/ Connect \/ ConnectHost \/ CloseNow \/ CloseLater \/ Abort \/ Delete
    \/ Send \/ AckLater \/ AckPacket
    \/ \E n \in 1..SndBuf : Add(n) \/ Write(n)
    \/ \E len \in 1..RxBound : Ack(len)

Next == Stack \/ Return \/ Call

Spec == Init /\ [][Next]_vars

(* Handlers return; lwIP's timer runs in the same loop as everything else, *)
(* so time passes and a due poll is delivered, whatever else keeps         *)
(* happening in between.                                                   *)
Fairness ==
    /\ WF_vars(Return)
    /\ SF_vars(Tick)
    /\ \A p \in Pcbs : SF_vars(S_poll(p))

FairSpec == Spec /\ Fairness

-----------------------------------------------------------------------------
(* Safety.                                                                 *)

(* Every member, frame and pcb keeps its type; lengths never go negative   *)
(* (the code's counters are unsigned and would wrap around).               *)
TypeOK ==
    /\ c \in Clients
    /\ et \in Trackers
    /\ stack \in Seq(Frames)
    /\ lw \in [Pcbs -> PcbRecords]
    /\ dns \in BOOLEAN
    /\ held \in Nat

(* _pcb is NULL or points to an open pcb of lwIP whose four callbacks lead *)
(* back to this client: no method or handler ever uses a closed, aborted   *)
(* or freed pcb through _pcb.                                              *)
PcbUsable ==
    c.pcb # NULL =>
        /\ c.alive
        /\ lw[c.pcb].st \in {"ESTABLISHED", "CLOSE_WAIT"}
        /\ lw[c.pcb].cbs = Callbacks

(* Every pcb that can still call this client is the one in _pcb or the one *)
(* being connected: _close() and _error() never leave one behind.          *)
NoOrphan == \A p \in Pcbs : lw[p].cbs # {} => p = c.pcb \/ lw[p].st = "SYN_SENT"

(* Once the object is deleted neither lwIP nor the resolver holds a        *)
(* pointer to it.                                                          *)
NoDanglingArg == ~c.alive => ~dns /\ \A p \in Pcbs : lw[p].cbs = {}

(* Both: whoever holds a pointer to the client is meant to call it.        *)
CallbacksOwned == NoOrphan /\ NoDanglingArg

(* Once the object is deleted no method of it is left on the call stack    *)
(* with code to run that reads or writes a member.                         *)
UsesObject(fr) ==
    \/ fr.f \in {"recv_cb", "sent_cb", "error_cb", "abort", "dtor"}
    \/ fr.f = "pb_cb" /\ fr.n > 0

NoDanglingFrame == ~c.alive => \A i \in 1..Len(stack) : ~UsesObject(stack[i])

(* lwIP's contract: when a callback returns, it returns ERR_ABRT if and    *)
(* only if its pcb was aborted meanwhile.                                  *)
AbortReported ==
    Top("ret") => (CallbackCloseError(et) = "ERR_ABRT" <=> lw[Head(stack).p].st = "aborted")

(* The same for the first connection an object makes.                      *)
FirstUse == \A p, q \in Pcbs : lw[p].st # "unused" /\ lw[q].st # "unused" => p = q

AbortReportedOnce == FirstUse => AbortReported

(* onDisconnect is called once for each connection or attempt that ended,  *)
(* and has been by the time lwIP or loop() runs again.                     *)
DisconnectOnce ==
    \A p \in Pcbs :
        /\ lw[p].told <= 1
        /\ stack = <<>> => (lw[p].told = 1 <=> lw[p].st \in Over)

(* The receive window comes back: what lwIP counts as not yet consumed is  *)
(* still to be acknowledged by _recv() or by the application.              *)
InDelivery(p) ==
    IF \E i \in 1..Len(stack) : stack[i].f \in {"recv_cb", "pb_cb"} /\ stack[i].p = p
      THEN LET fr == stack[CHOOSE i \in 1..Len(stack) : stack[i].f \in {"recv_cb", "pb_cb"}]
           IN IF fr.f = "recv_cb" THEN fr.n + 1 ELSE fr.n
      ELSE 0

WindowReturned ==
    c.pcb # NULL => lw[c.pcb].unrecved <= c.rx_ack_len + held + InDelivery(c.pcb)

(* ... and not more of it: until close() is called, no unit of the first   *)
(* connection is acknowledged twice.                                       *)
WindowExact ==
    c.pcb # NULL /\ FirstUse /\ ~c.close_pcb =>
        lw[c.pcb].unrecved = c.rx_ack_len + held + InDelivery(c.pcb)

(* _tx_unacked_len is what lwIP has queued and unacknowledged.             *)
TxLedger == c.pcb # NULL /\ FirstUse => c.tx_unacked_len = lw[c.pcb].unacked

(* With write() alone, canSend() is refused on the first connection only   *)
(* while an acknowledgement is pending or the send buffer is full.         *)
AckPending == FirstUse /\ connected /\ c.pcb_busy => lw[c.pcb].unacked > 0

(* The client implements ConnectionLife: at most one connection or attempt *)
(* at a time, and each end announced exactly once.                         *)
Phase(p) ==
    CASE lw[p].told = 0 /\ lw[p].st \in {"unused", "leaked"} -> "none"
      [] lw[p].told = 0 /\ lw[p].st = "SYN_SENT" -> "opening"
      [] lw[p].told = 0 /\ lw[p].st \in {"ESTABLISHED", "CLOSE_WAIT"} -> "open"
      [] lw[p].told = 0 /\ lw[p].st \in Over -> "ended"
      [] lw[p].told = 1 /\ lw[p].st \in Over -> "announced"
      [] OTHER -> "broken"

Life == INSTANCE ConnectionLife WITH Conns <- Pcbs, phase <- [p \in Pcbs |-> Phase(p)]

Lifecycle == Life!LifeSpec

-----------------------------------------------------------------------------
(* Liveness, under FairSpec.                                               *)

(* close() is carried out, at the next poll at the latest.                 *)
CloseHonoured ==
    \A p \in Pcbs : (c.pcb = p /\ c.close_pcb) ~> (c.pcb # p)

(* A client that waits for an acknowledgement does not wait forever.       *)
BusyEnds == c.pcb_busy ~> (~c.pcb_busy \/ c.pcb = NULL)

(* A connection over which nothing arrives any more is closed, also when   *)
(* acknowledgements time out over and over (_poll() returns then before it *)
(* looks at the rx timeout).  It takes an ack timeout longer than the poll *)
(* interval, as the default is.                                            *)
SilentPeerDropped == [](c.pcb # NULL => <>(c.pcb = NULL \/ c.rx_age < RxTimeout))

=============================================================================
