------------------------ MODULE AsyncClientTls_proofs ------------------------
(***************************************************************************)
(* Proofs about AsyncClientTls: AsyncClient in a build with TLS, where     *)
(* every connection is plain or TLS, for every set of pcbs and every bound.*)
(* Most steps are steps of AsyncClient, and AsyncClient_proofs speaks of   *)
(* them; the others are shown to be of the kinds it knows.                 *)
(***************************************************************************)
EXTENDS AsyncClientTls, AsyncClient_proofs

-----------------------------------------------------------------------------
(* The inductive invariant.                                                *)

TlsStates == [use_tls : BOOLEAN, handshake_done : BOOLEAN, has_client : BOOLEAN]
SslType == [Pcbs -> Sessions]

TlsTypes == tls \in TlsStates /\ ssl \in SslType

(* No record overruns the send buffer.                                     *)
BufferFits == \A p \in Pcbs : lw[p].unacked <= SndBuf

(* A connection is a TLS connection: it is in _pcb and _use_tls is set.    *)
Secure == c.pcb # NULL /\ tls.use_tls

(* A TLS connection has its session, connected() agrees with it on the     *)
(* handshake, nothing waits for an acknowledgement, and the handshake has  *)
(* not been silent for too long.                                           *)
SessionThere ==
    Secure =>
        /\ ssl[c.pcb].eng # "none"
        /\ tls.handshake_done <=> ssl[c.pcb].done
        /\ ~c.pcb_busy

HandshakeInTime ==
    Secure /\ ~tls.handshake_done =>
        c.rx_age < HandshakeTimeout \/ (c.rx_age = HandshakeTimeout /\ lw[c.pcb].due)

(* An attempt begins without a handshake.                                  *)
AttemptFresh == Connecting => ~tls.handshake_done

(* The pcbs that calls of tcp_ssl_read() in progress are about.            *)
Reads(k) == {k[i].p : i \in {j \in 1..Len(k) : k[j].f = "ssl_read"}}

(* tcp_ssl_read() is at work on the connection in _pcb, if there still is  *)
(* one, and a failed engine is found only under it.                        *)
ReadsCurrent ==
    \A p \in Reads(stack) :
        /\ p \in Pcbs /\ lw[p].st # "detached"
        /\ c.pcb # NULL => c.pcb = p

FailureSeen == Secure /\ ssl[c.pcb].eng = "closed" => Reads(stack) # {}

SessionInv ==
    /\ TlsTypes /\ BufferFits /\ SessionOwned /\ SessionThere /\ HandshakeInTime
    /\ AttemptFresh /\ ReadsCurrent /\ FailureSeen

-----------------------------------------------------------------------------
(* The stack.                                                              *)

(* Which calls of tcp_ssl_read() there are after a push.                   *)
LEMMA ReadsPush ==
    ASSUME NEW f \in FrameKinds, NEW p \in Pcbs \cup {NULL}, NEW n \in Nat,
           NEW k \in Seq(Frames)
    PROVE  Reads(Push(f, p, n, k)) = IF f = "ssl_read" THEN Reads(k) \cup {p} ELSE Reads(k)
  <1> DEFINE s == Push(f, p, n, k)
  <1>1. Len(k) \in Nat
    OBVIOUS
  <1>2. Len(s) = Len(k) + 1 /\ s[1] = Frame(f, p, n) /\ \A i \in 1..Len(k) : s[i + 1] = k[i]
    BY PushFrame
  <1>3. \A i \in 1..Len(s) : i = 1 \/ (i - 1 \in 1..Len(k) /\ s[i] = k[i - 1])
    BY PushMembers
  <1>4. Frame(f, p, n).f = f /\ Frame(f, p, n).p = p
    BY DEF Frame
  <1> HIDE DEF s
  <1>5. 1 \in 1..Len(s) /\ \A i \in 1..Len(k) : i + 1 \in 1..Len(s)
    BY <1>1, <1>2
  <1>6. ASSUME NEW q PROVE q \in Reads(s) <=> (q \in Reads(k) \/ (f = "ssl_read" /\ q = p))
    <2>1. ASSUME q \in Reads(s) PROVE q \in Reads(k) \/ (f = "ssl_read" /\ q = p)
      <3>1. PICK i \in 1..Len(s) : s[i].f = "ssl_read" /\ s[i].p = q
        BY <2>1 DEF Reads
      <3> QED
        BY <1>2, <1>3, <1>4, <3>1 DEF Reads
    <2>2. ASSUME q \in Reads(k) PROVE q \in Reads(s)
      <3>1. PICK i \in 1..Len(k) : k[i].f = "ssl_read" /\ k[i].p = q
        BY <2>2 DEF Reads
      <3>2. i + 1 \in 1..Len(s) /\ s[i + 1].f = "ssl_read" /\ s[i + 1].p = q
        BY <1>2, <1>5, <3>1
      <3> HIDE DEF Reads
      <3> QED
        BY <3>2 DEF Reads
    <2>3. ASSUME f = "ssl_read", q = p PROVE q \in Reads(s)
      BY <1>2, <1>4, <1>5, <2>3 DEF Reads
    <2> QED
      BY <2>1, <2>2, <2>3
  <1> QED
    BY <1>6 DEF s

(* ... and before a pop.                                                   *)
LEMMA ReadsPop ==
    ASSUME NEW k \in Seq(Frames), k # <<>>
    PROVE  Reads(k) = IF Head(k).f = "ssl_read" THEN Reads(Tail(k)) \cup {Head(k).p}
                                                ELSE Reads(Tail(k))
  <1> DEFINE t == Tail(k)
  <1>1. /\ Head(k) = k[1] /\ Len(k) \in Nat /\ Len(k) # 0 /\ Len(t) = Len(k) - 1
        /\ \A i \in 1..Len(t) : i + 1 \in 1..Len(k) /\ t[i] = k[i + 1]
    BY PopFrame
  <1> HIDE DEF t
  <1>2. 1 \in 1..Len(k) /\ \A i \in 1..Len(k) : i = 1 \/ (i - 1 \in 1..Len(t) /\ k[i] = t[i - 1])
    BY <1>1
  <1>3. ASSUME NEW q PROVE q \in Reads(k) <=> (q \in Reads(t) \/ (Head(k).f = "ssl_read" /\ q = Head(k).p))
    <2>1. ASSUME q \in Reads(k) PROVE q \in Reads(t) \/ (Head(k).f = "ssl_read" /\ q = Head(k).p)
      <3>1. PICK i \in 1..Len(k) : k[i].f = "ssl_read" /\ k[i].p = q
        BY <2>1 DEF Reads
      <3> QED
        BY <1>1, <1>2, <3>1 DEF Reads
    <2>2. ASSUME q \in Reads(t) PROVE q \in Reads(k)
      <3>1. PICK i \in 1..Len(t) : t[i].f = "ssl_read" /\ t[i].p = q
        BY <2>2 DEF Reads
      <3>2. i + 1 \in 1..Len(k) /\ k[i + 1].f = "ssl_read" /\ k[i + 1].p = q
        BY <1>1, <3>1
      <3> QED
        BY <3>2 DEF Reads
    <2>3. ASSUME Head(k).f = "ssl_read", q = Head(k).p PROVE q \in Reads(k)
      BY <1>1, <1>2, <2>3 DEF Reads
    <2> QED
      BY <2>1, <2>2, <2>3
  <1> QED
    BY <1>3 DEF t

(* No call is in progress on the empty stack.                              *)
LEMMA ReadsNone == Reads(<<>>) = {}
  BY EmptyStack DEF Reads

(* The steps of AsyncClient neither call tcp_ssl_read() nor return from it.*)
LEMMA ReadsKept ==
    ASSUME TypeOK, StackKind
    PROVE  Reads(stack') = Reads(stack)
  <1>s. stack \in Seq(Frames) /\ (c.pcb \in Pcbs \/ c.pcb = NULL) /\ 0 \in Nat
    BY DEF TypeOK, Clients
  <1>p. ASSUME NEW f, f \in FrameKinds, f # "ssl_read", NEW p, p \in Pcbs \/ p = NULL,
               NEW n \in Nat, NEW k \in Seq(Frames)
        PROVE  Push(f, p, n, k) \in Seq(Frames) /\ Reads(Push(f, p, n, k)) = Reads(k)
    <2>1. p \in Pcbs \cup {NULL}
      BY <1>p
    <2> QED
      BY ONLY <1>p, <2>1, PushFrame, ReadsPush, SMTT(40)
  <1>e. ASSUME NEW f, f \in FrameKinds, f # "ssl_read", NEW p, p \in Pcbs \/ p = NULL
        PROVE  Push(f, p, 0, <<>>) \in Seq(Frames) /\ Reads(Push(f, p, 0, <<>>)) = {}
    <2>1. <<>> \in Seq(Frames)
      BY EmptyStack
    <2>2. /\ Push(f, p, 0, <<>>) \in Seq(Frames)
          /\ Reads(Push(f, p, 0, <<>>)) = Reads(<<>>)
      BY ONLY <1>e, <1>s, <1>p, <2>1
    <2> QED
      BY <2>2, ReadsNone
  <1>o. /\ \A h \in Handlers : h \in FrameKinds /\ h # "ssl_read"
        /\ "ret" \in FrameKinds /\ "fin" \in FrameKinds
        /\ "abort" \in FrameKinds /\ "dtor" \in FrameKinds
        /\ "error_cb" \in FrameKinds /\ "discard_cb" \in FrameKinds
    BY DEF Handlers, FrameKinds
  <1>t. ASSUME stack # <<>>, ~Top("ssl_read")
        PROVE  /\ Tail(stack) \in Seq(Frames) /\ (Head(stack).p \in Pcbs \/ Head(stack).p = NULL)
               /\ Reads(Tail(stack)) = Reads(stack)
    <2>1. Head(stack) \in Frames /\ Tail(stack) \in Seq(Frames)
      BY <1>s, <1>t, PopFrame
    <2> QED
      BY <1>s, <1>t, <2>1, ReadsPop DEF Frames, Top
  <1>1. CASE stack' = stack
    BY <1>1
  <1>2. CASE stack # <<>> /\ ~Top("ssl_read") /\ stack' = Tail(stack)
    BY <1>2, <1>t
  <1>3. ASSUME NEW p \in Pcbs, CallsIn(p) PROVE Reads(stack') = {} /\ Reads(stack) = {}
    <2>1. Push("ret", p, 0, <<>>) \in Seq(Frames) /\ Reads(Push("ret", p, 0, <<>>)) = {}
      BY <1>e, <1>o
    <2>2. Push("fin", p, 0, <<>>) \in Seq(Frames) /\ Reads(Push("fin", p, 0, <<>>)) = {}
      BY <1>e, <1>o
    <2>3. /\ Push("ret", p, 0, Push("fin", p, 0, <<>>)) \in Seq(Frames)
          /\ Reads(Push("ret", p, 0, Push("fin", p, 0, <<>>))) = {}
      BY <1>p, <1>o, <2>2
    <2> QED
      BY <1>3, <1>p, <1>o, <2>1, <2>3, ReadsNone DEF CallsIn
  <1>4. ASSUME NEW p, p \in Pcbs \/ p = NULL
        PROVE  /\ Reads(Push("error_cb", p, 0, <<>>)) = {}
               /\ Reads(Push("error_cb", p, 0, Push("ret", p, 0, <<>>))) = {}
    <2>1. Push("ret", p, 0, <<>>) \in Seq(Frames) /\ Reads(Push("ret", p, 0, <<>>)) = {}
      BY <1>4, <1>e, <1>o
    <2>2. Reads(Push("error_cb", p, 0, <<>>)) = {}
      BY <1>4, <1>e, <1>o
    <2>3. Reads(Push("error_cb", p, 0, Push("ret", p, 0, <<>>))) = {}
      BY <1>s, <1>4, <1>p, <1>o, <2>1
    <2> QED
      BY <2>2, <2>3
  <1>5. ASSUME NEW p \in Pcbs, Fails(p) PROVE Reads(stack') = {} /\ Reads(stack) = {}
    BY <1>4, <1>5, ReadsNone DEF Fails
  <1>6. CASE LookupFails
    BY <1>4, <1>6, ReadsNone DEF LookupFails
  <1>7. CASE CloseCalled
    BY <1>7, <1>s, <1>p, <1>o DEF CloseCalled
  <1>8. CASE AbortCalled
    <2>1. Push("abort", c.pcb, 0, stack) \in Seq(Frames) /\ Reads(Push("abort", c.pcb, 0, stack)) = Reads(stack)
      BY <1>s, <1>p, <1>o
    <2> QED
      BY <1>8, <1>s, <1>p, <1>o, <2>1 DEF AbortCalled
  <1>9. CASE DeleteCalled
    <2>1. Push("dtor", NULL, 0, stack) \in Seq(Frames) /\ Reads(Push("dtor", NULL, 0, stack)) = Reads(stack)
      BY <1>s, <1>p, <1>o
    <2> QED
      BY <1>9, <1>s, <1>p, <1>o, <2>1 DEF DeleteCalled
  <1>10. CASE NextDelivered \/ ErrorAnnounced
    <2>1. PICK h \in Handlers, n \in Nat :
            stack # <<>> /\ ~Top("ssl_read") /\ stack' = Push(h, Head(stack).p, n, Tail(stack))
      BY <1>10, <1>s DEF NextDelivered, ErrorAnnounced, Top, Handlers
    <2> QED
      BY <1>p, <1>o, <1>t, <2>1
  <1>11. CASE FinDelivered
    <2> DEFINE k == Push("ret", Head(stack).p, 0, Tail(stack))
    <2>1. stack # <<>> /\ ~Top("ssl_read") /\ (stack' = k \/ stack' = Push("discard_cb", c.pcb, 0, k))
      BY <1>11 DEF FinDelivered, Top
    <2>2. k \in Seq(Frames) /\ Reads(k) = Reads(stack)
      BY <1>s, <1>p, <1>o, <1>t, <2>1
    <2> HIDE DEF k
    <2>3. Reads(Push("discard_cb", c.pcb, 0, k)) = Reads(k)
      BY <1>s, <1>p, <1>o, <2>2
    <2> QED
      BY <2>1, <2>2, <2>3
  <1> QED
    BY <1>1, <1>2, <1>3, <1>5, <1>6, <1>7, <1>8, <1>9, <1>10, <1>11 DEF StackKind

(* The stack s can follow k: no destructor or abort() begins, and the      *)
(* error handler in progress, if any, stays where it is.                   *)
Follows(k, s) ==
    /\ s \in Seq(Frames)
    /\ \A g \in {"dtor", "abort"} : Occurs(s, g) => Occurs(k, g)
    /\ Clean(k) => Clean(s)
    /\ \A p : Erring(k, p) => Erring(s, p)

Calm == FrameKinds \ {"error_cb", "dtor", "abort"}

(* Pushing a frame of another kind, popping one, and one after the other.  *)
LEMMA FollowsPush ==
    ASSUME NEW k0, NEW f, f \in Calm, NEW p, p \in Pcbs \/ p = NULL, NEW n \in Nat,
           NEW k \in Seq(Frames), Follows(k0, k)
    PROVE  Follows(k0, Push(f, p, n, k))
  <1>0. f \in FrameKinds \ {"error_cb"} /\ f \in FrameKinds /\ p \in Pcbs \cup {NULL}
    BY DEF Calm
  <1>1. Push(f, p, n, k) \in Seq(Frames)
    BY <1>0, PushFrame
  <1>2. ASSUME NEW g \in {"dtor", "abort"}, Occurs(Push(f, p, n, k), g) PROVE Occurs(k, g)
    <2>1. f # g
      BY <1>2 DEF Calm
    <2> QED
      BY <1>0, <1>2, <2>1, OccursPush
  <1>3. /\ Clean(k) => Clean(Push(f, p, n, k))
        /\ \A q : Erring(k, q) => Erring(Push(f, p, n, k), q)
    BY <1>0, PushOther
  <1> QED
    BY <1>1, <1>2, <1>3 DEF Follows

(* Returning from anything but onError follows.                            *)
LEMMA FollowsPop ==
    ASSUME NEW k \in Seq(Frames), k # <<>>, Head(k).f # "error_cb"
    PROVE  Follows(k, Tail(k))
  <1>1. \A g \in {"dtor", "abort"} : Occurs(Tail(k), g) => Occurs(k, g)
    BY OccursTail
  <1>2. Tail(k) \in Seq(Frames)
    BY PopFrame
  <1>3. Clean(k) => Clean(Tail(k))
    BY PopErring
  <1>4. \A p : Erring(k, p) => Erring(Tail(k), p)
    BY PopErring
  <1> QED
    BY <1>1, <1>2, <1>3, <1>4 DEF Follows

(* So does leaving the stack alone.                                        *)
LEMMA FollowsSelf == \A k \in Seq(Frames) : Follows(k, k)
  BY DEF Follows

(* A frame of another kind is no call of tcp_ssl_read().                   *)
LEMMA ReadsSame ==
    ASSUME NEW f, f \in Calm, f # "ssl_read", NEW p, p \in Pcbs \/ p = NULL, NEW n \in Nat,
           NEW k \in Seq(Frames)
    PROVE  Reads(Push(f, p, n, k)) = Reads(k)
  BY ReadsPush DEF Calm

(* _close() puts at most onDisconnect on the stack it is given.            *)
LEMMA CloseStack ==
    ASSUME NEW c0 \in Clients, NEW e0, NEW l0 \in LwType, NEW k, Close_(c0, e0, l0, k)
    PROVE  \/ c0.pcb = NULL /\ c'.pcb = NULL /\ stack' = k
           \/ c0.pcb \in Pcbs /\ c'.pcb = NULL /\ stack' = Push("discard_cb", c0.pcb, 0, k)
  <1>1. CloseDone(c0, e0, l0, k)
    BY CloseEffect
  <1>2. CASE c0.pcb = NULL
    BY <1>1, <1>2 DEF CloseDone
  <1> QED
    BY ONLY <1>1, Zenon DEF CloseDone

(* Nor does _close() call it.                                              *)
LEMMA CloseReads ==
    ASSUME NEW c0 \in Clients, NEW e0, NEW l0 \in LwType, NEW k \in Seq(Frames),
           Close_(c0, e0, l0, k)
    PROVE  Reads(stack') = Reads(k)
  <1>1. stack' = k \/ (c0.pcb \in Pcbs /\ stack' = Push("discard_cb", c0.pcb, 0, k))
    BY CloseStack
  <1>2. "discard_cb" \in Calm /\ 0 \in Nat
    BY DEF Calm, FrameKinds, Handlers
  <1> QED
    BY <1>1, <1>2, ReadsSame

(* The stacks that lwIP's callbacks leave below the handler they call.     *)
LEMMA Called ==
    ASSUME NEW p \in Pcbs, NEW fin \in BOOLEAN
    PROVE  /\ Follows(<<>>, Push("ret", p, 0, IF fin THEN Push("fin", p, 0, <<>>) ELSE <<>>))
           /\ Reads(Push("ret", p, 0, IF fin THEN Push("fin", p, 0, <<>>) ELSE <<>>)) = {}
           /\ Push("ret", p, 0, IF fin THEN Push("fin", p, 0, <<>>) ELSE <<>>) \in Seq(Frames)
  <1>0. 0 \in Nat /\ <<>> \in Seq(Frames) /\ "ret" \in Calm /\ "fin" \in Calm /\ "ret" \in FrameKinds
        /\ "fin" \in FrameKinds /\ p \in Pcbs \cup {NULL}
    BY EmptyStack DEF Calm, FrameKinds
  <1> DEFINE k == Push("fin", p, 0, <<>>)
  <1>1. Follows(<<>>, <<>>) /\ Follows(<<>>, k)
    BY <1>0, FollowsSelf, FollowsPush
  <1>2. Reads(<<>>) = {} /\ Reads(k) = {}
    BY <1>0, ReadsNone, ReadsSame
  <1> DEFINE b == IF fin THEN k ELSE <<>>
  <1>3. Follows(<<>>, b) /\ Reads(b) = {} /\ b \in Seq(Frames)
    BY <1>1, <1>2 DEF Follows
  <1> HIDE DEF b
  <1>4. Follows(<<>>, Push("ret", p, 0, b))
    BY <1>0, <1>3, FollowsPush
  <1>5. Reads(Push("ret", p, 0, b)) = {}
    BY <1>0, <1>3, ReadsSame
  <1> QED
    BY <1>4, <1>5 DEF b, Follows

(* The same without a FIN.                                                 *)
LEMMA CalledOnce ==
    ASSUME NEW p \in Pcbs
    PROVE  /\ Follows(<<>>, Push("ret", p, 0, <<>>))
           /\ Reads(Push("ret", p, 0, <<>>)) = {}
           /\ Push("ret", p, 0, <<>>) \in Seq(Frames)
  <1>1. FALSE \in BOOLEAN
    OBVIOUS
  <1> QED
    BY <1>1, Called

-----------------------------------------------------------------------------
(* Every step is one of AsyncClient's steps or one of these.               *)
HandshakeTimeoutPoll(p) ==
    /\ Idle /\ "poll" \in lw[p].cbs
    /\ Close_(c, SetCloseError(et, "ERR_OK"), [lw EXCEPT ![p].due = FALSE],
              Push("ret", p, 0, <<>>))
    /\ AfterClose
    /\ UNCHANGED <<dns, held>>

TlsOnly ==
    \/ \E p \in Pcbs :
         \/ Tls_connected(p)
         \/ \E fin \in BOOLEAN : Tls_recv(p, fin)
         \/ \E len \in 1..SndBuf : Tls_sent(p, len)
         \/ HandshakeTimeoutPoll(p)
    \/ SslRun \/ SslReadReturn \/ TlsUserReturn \/ TlsSentReturn
    \/ \E n \in 1..(SndBuf - 1) : TlsWrite(n)

(* connect() of a TLS build does to the pcbs what Connect_ does.           *)
LEMMA StartedConnects ==
    ASSUME NEW u, NEW done, Started(u, done), c.pcb = NULL
    PROVE  Connect_
  <1>1. ~connected
    BY DEF connected
  <1>2. CASE UNCHANGED lw
    BY <1>2 DEF Connect_
  <1>3. CASE ~UNCHANGED lw
    <2>1. PICK p \in Pcbs, pcb \in {NewPcb("SYN_SENT", {"err"}), NewPcb("leaked", {})} :
            lw[p].st = "unused" /\ lw' = [lw EXCEPT ![p] = pcb]
      BY <1>3 DEF Started
    <2> QED
      BY <1>1, <2>1 DEF Connect_
  <1> QED
    BY <1>2, <1>3

(* A step of a build with TLS is a step of AsyncClient, or one of those TLS*)
(* adds.                                                                   *)
LEMMA PlainOrTls ==
    ASSUME Overlap = FALSE, TypeOK, Core, TlsNext
    PROVE  Next \/ TlsOnly
  <1>1. CASE TlsStack
    <2>1. CASE PlainStack
      BY <2>1 DEF PlainStack, Next, Stack
    <2>2. ASSUME NEW p \in Pcbs, Tls_poll(p) PROVE Next \/ TlsOnly
      <3>1. S_poll(p) \/ HandshakeTimeoutPoll(p)
        BY <2>2 DEF Tls_poll, HandshakeTimeoutPoll
      <3> QED
        BY <3>1 DEF Next, Stack, TlsOnly
    <2>3. CASE Tls_dns_found
      <3>1. c.pcb = NULL
        BY <2>3 DEF Tls_dns_found, Core, OneAtATime
      <3>2. S_dns_found
        BY <2>3, <3>1, StartedConnects DEF Tls_dns_found, S_dns_found
      <3> QED
        BY <3>2 DEF Next, Stack
    <2>4. ASSUME NEW p \in Pcbs,
                 \/ Tls_connected(p)
                 \/ \E fin \in BOOLEAN : Tls_recv(p, fin)
                 \/ S_recv_fin(p)
                 \/ \E len \in 1..SndBuf : Tls_sent(p, len)
                 \/ \E err \in {"ERR_RST", "ERR_ABRT"} : S_error(p, err)
          PROVE  Next \/ TlsOnly
      BY <2>4 DEF Next, Stack, TlsOnly
    <2>5. CASE Tick
      BY <2>5 DEF Next, Stack
    <2> QED
      BY <1>1, <2>1, <2>2, <2>3, <2>4, <2>5 DEF TlsStack
  <1>2. CASE TlsReturn
    BY <1>2 DEF TlsReturn, PlainReturn, TlsDtorReturn, TlsOnly, Next, Return
  <1>3. CASE TlsCall
    <2>1. ASSUME NEW u, TlsConnect(u) PROVE Next
      <3>1. c.pcb = NULL
        BY <2>1 DEF TlsConnect, Quiet
      <3>2. Connect
        BY <2>1, <3>1, StartedConnects DEF TlsConnect, Connect
      <3> QED
        BY <3>2 DEF Next, Call
    <2>2. ASSUME NEW u, TlsConnectHost(u) PROVE Next
      <3>1. c.pcb = NULL
        BY <2>2 DEF TlsConnectHost, Quiet
      <3>2. ConnectHost
        BY <2>2, <3>1, StartedConnects DEF TlsConnectHost, ConnectHost
      <3> QED
        BY <3>2 DEF Next, Call
    <2>3. CASE CloseNow \/ CloseLater \/ Delete \/ Abort \/ Send \/ \E n \in 1..SndBuf : Write(n)
      BY <2>3 DEF Next, Call
    <2>4. CASE \E n \in 1..(SndBuf - 1) : TlsWrite(n)
      BY <2>4 DEF TlsOnly
    <2> QED
      BY <1>3, <2>1, <2>2, <2>3, <2>4 DEF TlsCall
  <1> QED
    BY <1>1, <1>2, <1>3 DEF TlsNext

(* What the steps of their own are to the invariants of AsyncClient.       *)
Orderly == TypeOK' /\ StepKind /\ Follows(stack, stack')

(* _close() on _pcb is orderly, and leaves no connection.                  *)
LEMMA CloseOrderly ==
    ASSUME TypeOK, Core,
           NEW c0 \in Clients, c0.pcb = c.pcb, c0.alive = c.alive,
           NEW l0 \in LwType,
           \A q \in Pcbs : /\ l0[q].cbs = lw[q].cbs /\ l0[q].told = lw[q].told
                           /\ l0[q].st = lw[q].st \/ q = c.pcb,
           NEW e0 \in Trackers, NEW k, Follows(stack, k), Close_(c0, e0, l0, k),
           dns' = dns, held' = held
    PROVE  Orderly /\ Reads(stack') = Reads(k)
  <1>0. k \in Seq(Frames) /\ 0 \in Nat /\ "discard_cb" \in Calm
    BY DEF Follows, Calm, FrameKinds, Handlers
  <1>1. TypeOK'
    BY <1>0, CloseType DEF TypeOK, LwType
  <1>2. StepKind
    BY CloseKind
  <1>3. Follows(stack, stack') /\ Reads(stack') = Reads(k)
    <2>1. stack' = k \/ (c0.pcb \in Pcbs /\ stack' = Push("discard_cb", c0.pcb, 0, k))
      BY CloseStack
    <2> QED
      BY <1>0, <2>1, FollowsPush, ReadsSame
  <1> QED
    BY <1>1, <1>2, <1>3 DEF Orderly
(* _connected() of a TLS client.                                           *)
LEMMA ConnectedOrderly ==
    ASSUME TypeOK, Core, NEW p \in Pcbs, Tls_connected(p)
    PROVE  Orderly /\ Reads(stack') = {}
  <1> USE PcbAssumption
  <1> DEFINE c1 == [c EXCEPT !.pcb = p, !.pcb_busy = FALSE, !.rx_age = 0]
             l1 == [lw EXCEPT ![p].st = "ESTABLISHED", ![p].cbs = Callbacks]
             k == Push("ret", p, 0, <<>>)
             k2 == Push("unvalidated", p, 0, k)
  <1>1. c1 \in Clients /\ c1.pcb = p /\ c1.alive = c.alive
    BY DEF TypeOK, Clients
  <1>l. lw \in LwType /\ et \in Trackers
    BY DEF TypeOK, LwType
  <1>2. /\ l1 \in LwType /\ l1[p].st = "ESTABLISHED" /\ l1[p].cbs = Callbacks
        /\ l1[p].told = lw[p].told /\ \A q \in Pcbs \ {p} : l1[q] = lw[q]
    BY <1>l DEF LwType, PcbRecords, Open
  <1>3. stack = <<>> /\ c.alive /\ lw[p].st = "SYN_SENT" /\ c.pcb = NULL /\ dns' = dns /\ held' = held
    BY DEF Tls_connected, Idle, Core, OneAtATime, Connecting
  <1>4. Follows(stack, k) /\ Reads(k) = {} /\ k \in Seq(Frames)
    BY <1>3, CalledOnce
  <1>5. Follows(stack, k2) /\ Reads(k2) = {} /\ k2 \in Seq(Frames)
    <2>1. "unvalidated" \in Calm /\ 0 \in Nat
      BY DEF Calm, FrameKinds
    <2> HIDE DEF k
    <2>2. Follows(stack, k2) /\ Reads(k2) = {}
      BY <1>4, <2>1, FollowsPush, ReadsSame
    <2> QED
      BY <2>2 DEF Follows
  <1>6. CASE c' = c1 /\ lw' \in {l1, [l1 EXCEPT ![p].unacked = 1]} /\ stack' = k /\ UNCHANGED et
    <2>1. /\ lw' \in LwType /\ lw'[p].st = "ESTABLISHED" /\ lw'[p].cbs = Callbacks
          /\ lw'[p].told = lw[p].told /\ \A q \in Pcbs \ {p} : lw'[q] = lw[q]
      <3> HIDE DEF l1
      <3>1. CASE lw' = l1
        BY <1>2, <3>1
      <3>2. CASE lw' = [l1 EXCEPT ![p].unacked = 1]
        BY <1>2, <3>2 DEF LwType, PcbRecords
      <3> QED
        BY <1>6, <3>1, <3>2
    <2> HIDE DEF l1, c1, k
    <2>2. TypeOK'
      BY <1>1, <1>3, <1>4, <1>6, <2>1 DEF TypeOK, LwType
    <2>3. Establishes(p)
      BY <1>1, <1>3, <1>6, <2>1 DEF Establishes, Same
    <2> QED
      BY <1>4, <1>6, <2>2, <2>3 DEF Orderly, StepKind
  <1>7. ASSUME NEW s \in {k, k2}, Close_(c1, et, l1, s) PROVE Orderly /\ Reads(stack') = {}
    <2> HIDE DEF c1, l1, k, k2
    <2>1. s \in Seq(Frames) /\ Follows(stack, s) /\ Reads(s) = {}
      BY <1>4, <1>5, <1>7
    <2>2. TypeOK'
      BY <1>1, <1>2, <1>3, <1>7, <1>l, <2>1, CloseType DEF TypeOK, LwType
    <2>a. c1.pcb # NULL /\ c1 \in Clients /\ l1 \in LwType /\ Close_(c1, et, l1, s)
      BY <1>1, <1>2, <1>7
    <2>b. CloseDone(c1, et, l1, s)
      BY <2>a, CloseEffect
    <2>3. PICK r \in {"closing", "aborted"} :
                /\ c'.pcb = NULL /\ c'.alive = c1.alive
                /\ lw'[c1.pcb].st = r /\ lw'[c1.pcb].cbs = {}
                /\ lw'[c1.pcb].told = l1[c1.pcb].told + 1
                /\ \A q \in Pcbs \ {c1.pcb} : lw'[q] = l1[q]
                /\ stack' = Push("discard_cb", c1.pcb, 0, s)
      BY <2>a, <2>b DEF CloseDone
    <2>4. Ends(p)
      BY <1>1, <1>2, <1>3, <2>3 DEF Ends, Same, Open, Over
    <2>5. "discard_cb" \in Calm /\ 0 \in Nat
      BY DEF Calm, FrameKinds, Handlers
    <2>6. Follows(stack, stack') /\ Reads(stack') = {}
      BY <1>1, <2>1, <2>3, <2>5, FollowsPush, ReadsSame
    <2> QED
      BY <2>2, <2>4, <2>6 DEF Orderly, StepKind
  <1> QED
    BY <1>6, <1>7 DEF Tls_connected

(* _recv() of a TLS client: the connection is closed, or tcp_ssl_read() is *)
(* called for it.                                                          *)
LEMMA RecvOrderly ==
    ASSUME TypeOK, Core, NEW p \in Pcbs, NEW fin \in BOOLEAN, Tls_recv(p, fin)
    PROVE  Orderly /\ (Reads(stack') = {} \/ Reads(stack') = {p})
  <1> USE PcbAssumption
  <1> DEFINE c1 == [c EXCEPT !.rx_age = 0]
             e1 == SetCloseError(et, "ERR_OK")
             l1 == [lw EXCEPT ![p].st = IF fin THEN "CLOSE_WAIT" ELSE @]
             k == Push("ret", p, 0, IF fin THEN Push("fin", p, 0, <<>>) ELSE <<>>)
  <1>1. c1 \in Clients /\ c1.pcb = c.pcb /\ c1.alive = c.alive
    BY DEF TypeOK, Clients
  <1>l. lw \in LwType /\ et \in Trackers
    BY DEF TypeOK, LwType
  <1>e. e1 \in Trackers
    BY <1>l, TrackerOperators DEF Errors
  <1>3. stack = <<>> /\ c.alive /\ p = c.pcb /\ dns' = dns /\ held' = held
    BY CallableIsOwned DEF Tls_recv, Idle, Callbacks
  <1>2. /\ l1 \in LwType /\ l1[p].cbs = lw[p].cbs /\ l1[p].told = lw[p].told
        /\ l1[p].st \in {lw[p].st, "CLOSE_WAIT"} /\ \A q \in Pcbs \ {p} : l1[q] = lw[q]
    BY <1>l DEF LwType, PcbRecords, Open
  <1>4. Follows(stack, k) /\ Reads(k) = {} /\ k \in Seq(Frames)
    BY <1>3, Called
  <1>5. CASE Close_(c1, e1, l1, k)
    <2> HIDE DEF c1, l1, e1, k
    <2> QED
      BY ONLY <1>1, <1>2, <1>e, <1>3, <1>4, <1>5, CloseOrderly, TypeOK, Core, ZenonT(40)
  <1>6. ASSUME NEW n \in 1..MaxRuns, stack' = Push("ssl_read", p, n, k),
               c' = c1, et' = e1, lw' = l1
        PROVE  Orderly /\ Reads(stack') = {p}
    <2> HIDE DEF c1, l1, e1, k
    <2>1. "ssl_read" \in Calm /\ "ssl_read" \in FrameKinds /\ n \in Nat /\ p \in Pcbs \cup {NULL}
      BY TlsAssumption DEF Calm, FrameKinds
    <2>2. Follows(stack, stack') /\ Reads(stack') = {p}
      BY <1>4, <1>6, <2>1, FollowsPush, ReadsPush
    <2>3. Keeps
      BY <1>1, <1>2, <1>3, <1>6 DEF Keeps, ClientKept, Same
    <2>4. TypeOK'
      BY <1>1, <1>2, <1>3, <1>e, <1>6, <2>2 DEF TypeOK, LwType, Follows
    <2> QED
      BY <2>2, <2>3, <2>4 DEF Orderly, StepKind
  <1> QED
    BY <1>5, <1>6 DEF Tls_recv
(* _sent() of a TLS client.                                                *)
LEMMA SentOrderly ==
    ASSUME TypeOK, Core, NEW p \in Pcbs, NEW len \in 1..SndBuf, Tls_sent(p, len)
    PROVE  Orderly /\ Reads(stack') = {}
  <1>l. lw \in LwType /\ et \in Trackers /\ c \in Clients
    BY DEF TypeOK, LwType
  <1>1. len \in Nat /\ lw[p].unacked \in Nat /\ c.tx_unacked_len \in Nat /\ c.tx_acked_len \in Nat
    BY SizeAssumption, <1>l DEF LwType, PcbRecords, Clients
  <1>2. Unacked(len) \in Nat /\ StillBusy(len) \in BOOLEAN
    BY <1>1, <1>l DEF Unacked, StillBusy, Clients
  <1>3. c.tx_acked_len + len \in Nat /\ lw[p].unacked - len \in Nat
    BY <1>1 DEF Tls_sent
  <1>4. lw' \in LwType /\ \A q \in Pcbs : Same(q)
    <2>1. lw' = [lw EXCEPT ![p].unacked = @ - len]
      BY DEF Tls_sent
    <2>2. lw' \in LwType
      BY <1>l, <1>3, <2>1 DEF LwType, PcbRecords
    <2>3. \A q \in Pcbs : Same(q)
      BY <1>l, <2>1 DEF LwType, PcbRecords, Same
    <2> QED
      BY <2>2, <2>3
  <1>5. c' \in Clients /\ c'.pcb = c.pcb /\ c'.alive = c.alive
    <2>1. \/ c' = c
          \/ c' = [c EXCEPT !.rx_age = 0, !.tx_unacked_len = Unacked(len),
                            !.tx_acked_len = @ + len, !.pcb_busy = StillBusy(len)]
      BY DEF Tls_sent
    <2>2. CASE c' = [c EXCEPT !.rx_age = 0, !.tx_unacked_len = Unacked(len),
                              !.tx_acked_len = @ + len, !.pcb_busy = StillBusy(len)]
      BY <1>l, <1>2, <1>3, <2>2 DEF Clients
    <2> QED
      BY <1>l, <2>1, <2>2
  <1>6. et' \in Trackers
    BY <1>l, TrackerOperators DEF Tls_sent, Errors
  <1>7. Follows(stack, stack') /\ Reads(stack') = {}
    <2> DEFINE k == Push("ret", p, 0, <<>>)
    <2>1. stack = <<>> /\ (stack' = k \/ stack' = Push("tls_sent_cb", p, 0, k))
      BY DEF Tls_sent, Idle
    <2>2. Follows(stack, k) /\ Reads(k) = {} /\ k \in Seq(Frames)
      BY <2>1, CalledOnce
    <2>3. "tls_sent_cb" \in Calm /\ 0 \in Nat
      BY DEF Calm, FrameKinds, TlsHandlers
    <2> HIDE DEF k
    <2> QED
      BY <2>1, <2>2, <2>3, FollowsPush, ReadsSame
  <1>8. Keeps
    BY <1>4, <1>5 DEF Tls_sent, Keeps, ClientKept
  <1>9. TypeOK'
    BY <1>4, <1>5, <1>6, <1>7 DEF Tls_sent, TypeOK, LwType, Follows
  <1> QED
    BY <1>7, <1>8, <1>9 DEF Orderly, StepKind

(* _poll() when the handshake took too long.                               *)
LEMMA TimeoutOrderly ==
    ASSUME TypeOK, Core, NEW p \in Pcbs, HandshakeTimeoutPoll(p)
    PROVE  Orderly /\ Reads(stack') = {}
  <1> DEFINE e1 == SetCloseError(et, "ERR_OK")
             l1 == [lw EXCEPT ![p].due = FALSE]
             k == Push("ret", p, 0, <<>>)
  <1>l. lw \in LwType /\ et \in Trackers /\ c \in Clients
    BY DEF TypeOK, LwType
  <1>1. e1 \in Trackers
    BY <1>l, TrackerOperators DEF Errors
  <1>2. l1 \in LwType /\ \A q \in Pcbs : /\ l1[q].cbs = lw[q].cbs /\ l1[q].told = lw[q].told
                                         /\ l1[q].st = lw[q].st
    BY <1>l DEF LwType, PcbRecords
  <1>3. stack = <<>> /\ Close_(c, e1, l1, k) /\ dns' = dns /\ held' = held
    BY DEF HandshakeTimeoutPoll, Idle
  <1>4. Follows(stack, k) /\ Reads(k) = {}
    BY <1>3, CalledOnce
  <1> HIDE DEF e1, l1, k
  <1> QED
    BY <1>l, <1>1, <1>2, <1>3, <1>4, CloseOrderly

ReadHandlers == {"handshake_cb", "data_cb", "ssl_error_cb"}

(* The frame of tcp_ssl_read() on top.                                     *)
LEMMA ReadingTop ==
    ASSUME TypeOK, SessionInv, Reading
    PROVE  /\ stack # <<>> /\ Head(stack).f = "ssl_read" /\ Head(stack).n \in Nat
           /\ Head(stack).p \in Pcbs /\ Secure /\ c.pcb = Head(stack).p
           /\ Tail(stack) \in Seq(Frames) /\ Follows(stack, Tail(stack))
           /\ Reads(stack) = Reads(Tail(stack)) \cup {c.pcb}
  <1>1. stack # <<>> /\ Head(stack).f = "ssl_read" /\ Has(Head(stack).p) /\ stack \in Seq(Frames)
    BY DEF Reading, Top, TypeOK
  <1>2. Head(stack) \in Frames /\ Tail(stack) \in Seq(Frames)
    BY <1>1, PopFrame
  <1>3. Reads(stack) = Reads(Tail(stack)) \cup {Head(stack).p}
    BY <1>1, ReadsPop
  <1>4. Head(stack).p \in Pcbs /\ lw[Head(stack).p].st # "detached"
    BY <1>3 DEF SessionInv, ReadsCurrent
  <1>5. Secure /\ c.pcb = Head(stack).p
    BY <1>1, <1>4, PcbAssumption DEF SessionInv, SessionOwned, Secure
  <1>6. Follows(stack, Tail(stack))
    BY <1>1, FollowsPop
  <1> QED
    BY <1>1, <1>2, <1>3, <1>4, <1>5, <1>6 DEF Frames

(* A run of process_ssl_engine() ends.                                     *)
LEMMA RunOverStack ==
    ASSUME TypeOK, SessionInv, Reading, Head(stack).n > 0,
           NEW f, f \in ReadHandlers \/ f = "none", NEW s, RunOver(f, s)
    PROVE  Follows(stack, stack') /\ Reads(stack') = Reads(stack)
  <1> DEFINE n == IF s.eng = "closed" /\ Head(stack).n > 1 THEN 1 ELSE Head(stack).n - 1
             below == Push("ssl_read", Head(stack).p, n, Tail(stack))
  <1>1. stack' = below \/ (f \in ReadHandlers /\ stack' = Push(f, Head(stack).p, 0, below))
    BY DEF RunOver, ReadHandlers
  <1>2. n \in Nat /\ 0 \in Nat
    BY ReadingTop
  <1>3. /\ Head(stack).p \in Pcbs /\ Tail(stack) \in Seq(Frames) /\ Follows(stack, Tail(stack))
        /\ Reads(stack) = Reads(Tail(stack)) \cup {Head(stack).p}
    BY ReadingTop
  <1>4. "ssl_read" \in Calm /\ "ssl_read" \in FrameKinds
    BY DEF Calm, FrameKinds
  <1>5. f \in ReadHandlers => f \in Calm /\ f # "ssl_read"
    BY DEF ReadHandlers, Calm, FrameKinds, TlsHandlers
  <1> HIDE DEF n
  <1>6. Follows(stack, below) /\ below \in Seq(Frames)
    <2>1. Follows(stack, below)
      BY <1>2, <1>3, <1>4, FollowsPush
    <2> QED
      BY <2>1 DEF Follows
  <1>7. Reads(below) = Reads(stack)
    BY <1>2, <1>3, <1>4, ReadsPush
  <1> HIDE DEF below
  <1> QED
    BY <1>1, <1>2, <1>3, <1>5, <1>6, <1>7, FollowsPush, ReadsSame
(* One round of process_ssl_engine().                                      *)
LEMMA RunOrderly ==
    ASSUME TypeOK, SessionInv, SslRun
    PROVE  Orderly /\ Reads(stack') = Reads(stack)
  <1>l. lw \in LwType /\ et \in Trackers /\ c \in Clients /\ stack \in Seq(Frames) /\ ssl \in SslType
    BY DEF TypeOK, LwType, SessionInv, TlsTypes
  <1>r. Reading /\ Head(stack).n > 0 /\ dns' = dns /\ held' = held
    BY DEF SslRun
  <1> DEFINE p == Head(stack).p
  <1>p. p \in Pcbs
    BY <1>r, ReadingTop
  <1>k. Follows(stack, stack)
    BY <1>l, FollowsSelf
  <1>1. c' = c /\ et' = et
    BY DEF SslRun, EngineFailed
  <1>2. lw' \in LwType /\ \A q \in Pcbs : Same(q)
    <2>1. CASE lw' = lw
      BY <1>l, <2>1 DEF Same
    <2>2. CASE lw' = [lw EXCEPT ![p].unacked = @ + ssl[p].out]
      <3>1. lw[p].unacked + ssl[p].out \in Nat
        BY <1>l, <1>p DEF LwType, PcbRecords, SslType, Sessions
      <3>2. lw' \in LwType
        BY <1>l, <2>2, <3>1 DEF LwType, PcbRecords
      <3>3. \A q \in Pcbs : Same(q)
        BY <1>l, <2>2 DEF LwType, PcbRecords, Same
      <3> QED
        BY <3>2, <3>3
    <2> QED
      BY <2>1, <2>2 DEF SslRun, EngineFailed
  <1>3. Follows(stack, stack') /\ Reads(stack') = Reads(stack)
    <2>1. CASE stack' = stack
      BY <1>k, <2>1
    <2>2. CASE stack' = Push("data_cb", p, 0, stack)
      <3>1. "data_cb" \in Calm /\ 0 \in Nat
        BY DEF Calm, FrameKinds, TlsHandlers
      <3> QED
        BY <1>l, <1>p, <1>k, <2>2, <3>1, FollowsPush, ReadsSame
    <2>3. ASSUME NEW f, NEW s, RunOver(f, s), f \in ReadHandlers \/ f = "none"
          PROVE  Follows(stack, stack') /\ Reads(stack') = Reads(stack)
      BY <1>r, <2>3, RunOverStack
    <2>4. "ssl_error_cb" \in ReadHandlers /\ "handshake_cb" \in ReadHandlers
      BY DEF ReadHandlers
    <2> QED
      BY <2>1, <2>2, <2>3, <2>4 DEF SslRun, EngineFailed
  <1>4. Keeps
    BY <1>1, <1>2, <1>r DEF Keeps, ClientKept
  <1>5. TypeOK'
    BY <1>1, <1>2, <1>3, <1>r DEF TypeOK, LwType, Follows
  <1> QED
    BY <1>3, <1>4, <1>5 DEF Orderly, StepKind

(* tcp_ssl_read() returns.                                                 *)
LEMMA ReadReturnOrderly ==
    ASSUME TypeOK, Core, SessionInv, SslReadReturn
    PROVE  Orderly /\ Reads(stack') = Reads(Tail(stack))
  <1>l. lw \in LwType /\ et \in Trackers /\ c \in Clients
    BY DEF TypeOK, LwType
  <1>r. Reading /\ dns' = dns /\ held' = held
    BY DEF SslReadReturn
  <1>1. Follows(stack, Tail(stack))
    BY <1>r, ReadingTop
  <1>2. CASE Close_(c, et, lw, Tail(stack))
    BY <1>l, <1>r, <1>1, <1>2, CloseOrderly
  <1>3. CASE stack' = Tail(stack) /\ UNCHANGED <<c, et, lw>>
    <2>1. Keeps
      BY <1>3, <1>r DEF Keeps, ClientKept, Same
    <2>2. TypeOK'
      BY <1>1, <1>3, <1>r DEF TypeOK, Follows
    <2> QED
      BY <1>1, <1>3, <2>1, <2>2 DEF Orderly, StepKind
  <1> QED
    BY <1>2, <1>3 DEF SslReadReturn

(* The other returns.                                                      *)
LEMMA ReturnOrderly ==
    ASSUME TypeOK, TlsUserReturn \/ TlsSentReturn
    PROVE  Orderly /\ Reads(stack') = Reads(stack)
  <1>1. /\ stack # <<>> /\ Head(stack).f # "error_cb" /\ Head(stack).f # "ssl_read"
        /\ stack' = Tail(stack) /\ UNCHANGED <<et, lw, dns, held>>
        /\ c' \in {c, [c EXCEPT !.tx_acked_len = 0]}
    BY DEF TlsUserReturn, TlsSentReturn, Top
  <1>2. Follows(stack, stack')
    BY <1>1, FollowsPop DEF TypeOK
  <1>3. Reads(stack') = Reads(stack)
    BY <1>1, ReadsPop DEF TypeOK
  <1>4. c' \in Clients /\ c'.pcb = c.pcb /\ c'.alive = c.alive
    BY <1>1 DEF TypeOK, Clients
  <1>5. Keeps
    BY <1>1, <1>4 DEF Keeps, ClientKept, Same
  <1>6. TypeOK'
    BY <1>1, <1>2, <1>4 DEF TypeOK, Follows
  <1> QED
    BY <1>2, <1>3, <1>5, <1>6 DEF Orderly, StepKind

(* add() and write() of a TLS client: there is a session to write to.      *)
LEMMA WriteSecure ==
    ASSUME TypeOK, SessionInv, NEW n \in 1..(SndBuf - 1), TlsWrite(n)
    PROVE  /\ Secure /\ c.pcb \in Pcbs /\ Has(c.pcb)
           /\ ssl[c.pcb].eng = "ready" /\ ssl[c.pcb].out = 0
           /\ c' = [c EXCEPT !.tx_unacked_len = @ + n]
           /\ \/ /\ lw[c.pcb].unacked + n + 1 <= SndBuf
                 /\ lw' = [lw EXCEPT ![c.pcb].unacked = @ + n + 1] /\ UNCHANGED ssl
              \/ ssl' = [ssl EXCEPT ![c.pcb].out = n + 1] /\ UNCHANGED lw
              \/ UNCHANGED <<lw, ssl>>
           /\ UNCHANGED <<et, stack, tls, dns, held>>
  <1>1. TlsSpace > 0 /\ tls.use_tls
    BY DEF TlsWrite
  <1>2. TlsConnected
    BY <1>1 DEF TlsSpace
  <1>3. Secure /\ c.pcb \in Pcbs
    BY <1>1, <1>2 DEF TlsConnected, connected, Secure, TypeOK, Clients
  <1>4. Has(c.pcb)
    BY <1>3 DEF SessionInv, SessionThere, Has
  <1> QED
    BY <1>3, <1>4 DEF TlsWrite

(* write() of a TLS client is orderly and ends no tcp_ssl_read().          *)
LEMMA WriteOrderly ==
    ASSUME TypeOK, SessionInv, NEW n \in 1..(SndBuf - 1), TlsWrite(n)
    PROVE  Orderly /\ Reads(stack') = Reads(stack)
  <1>l. lw \in LwType /\ c \in Clients /\ n \in Nat
    BY SizeAssumption DEF TypeOK, LwType
  <1>w. /\ c.pcb \in Pcbs /\ c' = [c EXCEPT !.tx_unacked_len = @ + n]
        /\ lw' = [lw EXCEPT ![c.pcb].unacked = @ + n + 1] \/ lw' = lw
        /\ UNCHANGED <<et, stack, dns, held>>
    BY WriteSecure
  <1>1. c' \in Clients /\ c'.pcb = c.pcb /\ c'.alive = c.alive
    <2>1. c.tx_unacked_len + n \in Nat
      BY <1>l DEF Clients
    <2> QED
      BY <1>l, <1>w, <2>1 DEF Clients
  <1>2. lw' \in LwType /\ \A q \in Pcbs : Same(q)
    <2>1. CASE lw' = [lw EXCEPT ![c.pcb].unacked = @ + n + 1]
      <3>1. lw[c.pcb].unacked + n + 1 \in Nat
        BY <1>l, <1>w DEF LwType, PcbRecords
      <3>2. lw' \in LwType
        BY <1>l, <2>1, <3>1 DEF LwType, PcbRecords
      <3>3. \A q \in Pcbs : Same(q)
        BY <1>l, <2>1 DEF LwType, PcbRecords, Same
      <3> QED
        BY <3>2, <3>3
    <2> QED
      BY <1>l, <1>w, <2>1 DEF Same
  <1>3. Keeps
    BY <1>1, <1>2, <1>w DEF Keeps, ClientKept
  <1>4. TypeOK'
    BY <1>1, <1>2, <1>w DEF TypeOK, LwType
  <1>5. Follows(stack, stack')
    BY <1>w, FollowsSelf DEF TypeOK
  <1> QED
    BY <1>3, <1>4, <1>5, <1>w DEF Orderly, StepKind

(* All of them.                                                            *)
LEMMA TlsOrderly ==
    ASSUME TypeOK, Core, SessionInv, TlsOnly
    PROVE  Orderly
  BY ConnectedOrderly, RecvOrderly, SentOrderly, TimeoutOrderly, RunOrderly, ReadReturnOrderly,
     ReturnOrderly, WriteOrderly DEF TlsOnly
-----------------------------------------------------------------------------
(* The invariants of AsyncClient, in a build with TLS.                     *)

(* Who owns which pcb: a step of TLS is of one of the kinds of AsyncClient.*)
LEMMA TlsOwnershipStep ==
    ASSUME Overlap = FALSE, OwnershipInv, SessionInv, TlsNext
    PROVE  OwnershipInv' /\ StepKind
  <1>1. CASE Next
    BY <1>1, OwnershipStep, EveryStepHasAKind DEF OwnershipInv
  <1>2. CASE TlsOnly
    <2>1. TypeOK' /\ StepKind /\ Follows(stack, stack')
      BY <1>2, TlsOrderly DEF OwnershipInv, Orderly
    <2>2. Core'
      BY <2>1, KindsKeepCore DEF OwnershipInv
    <2>e. stack = <<>> => ~InProgress("dtor") /\ ~InProgress("abort")
      BY EmptyStack DEF InProgress
    <2>3. /\ InProgress("dtor")' => InProgress("dtor")
          /\ InProgress("abort")' => InProgress("abort")
      BY <2>1 DEF Follows, InProgress, Occurs
    <2>4. InProgress("dtor") => Quiet'
      <3> SUFFICES ASSUME InProgress("dtor") PROVE Quiet'
        OBVIOUS
      <3>1. Quiet /\ dns \in BOOLEAN
        BY DEF OwnershipInv, DtorQuiet, TypeOK
      <3>2. CASE Keeps \/ LooksUp \/ Destroys
        BY <3>1, <3>2, PcbAssumption DEF Keeps, LooksUp, Destroys, ClientKept, Same, Quiet
      <3>3. ASSUME NEW p \in Pcbs, Attempts(p) \/ Establishes(p) PROVE FALSE
        BY <3>3, <2>e DEF Attempts, Establishes
      <3>4. ASSUME NEW p \in Pcbs, Ends(p) \/ Announces(p) PROVE Quiet'
        BY <3>1, <3>4 DEF Ends, Announces, ClientKept, Same, Quiet, Over
      <3> QED
        BY <2>1, <3>2, <3>3, <3>4 DEF StepKind
    <2>5. InProgress("abort") => c'.pcb = NULL
      <3> SUFFICES ASSUME InProgress("abort") PROVE c'.pcb = NULL
        OBVIOUS
      <3>1. c.pcb = NULL /\ stack # <<>>
        BY <2>e DEF OwnershipInv, AbortQuiet
      <3> QED
        BY <2>1, <3>1 DEF StepKind, Keeps, LooksUp, Destroys, Attempts, Establishes, Ends,
                          Announces, ClientKept
    <2> QED
      BY <2>1, <2>2, <2>3, <2>4, <2>5 DEF OwnershipInv, DtorQuiet, AbortQuiet
  <1> QED
    BY <1>1, <1>2, PlainOrTls DEF OwnershipInv

(* What onDisconnect has been told about: the same.                        *)
LEMMA TlsAnnounceStep ==
    ASSUME Overlap = FALSE, AnnounceInv, SessionInv, TlsNext
    PROVE  AnnounceInv' /\ StepKind
  <1>1. OwnershipInv /\ OwnershipInv' /\ StepKind
    BY TlsOwnershipStep DEF AnnounceInv
  <1>2. CASE Next
    BY <1>1, <1>2, AnnounceInductive
  <1>3. CASE TlsOnly
    <2>1. Follows(stack, stack')
      BY <1>1, <1>3, TlsOrderly DEF OwnershipInv, Orderly
    <2>2. ErrorKinds
      BY <2>1 DEF Follows, KeepsError, ErrorKinds
    <2> QED
      BY <1>1, <2>2, AnnounceStep DEF AnnounceInv
  <1> QED
    BY <1>1, <1>2, <1>3, PlainOrTls DEF OwnershipInv
-----------------------------------------------------------------------------
(* The session: what each kind of step does to it.                         *)

(* Without a connection little is asked of a session.                      *)
LEMMA NoConnection ==
    ASSUME TlsTypes', BufferFits', c'.pcb = NULL,
           \A q \in Pcbs : ssl'[q].eng # "none" => lw'[q].st = "detached",
           Connecting' => ~tls'.handshake_done,
           \A p \in Reads(stack') : p \in Pcbs /\ lw'[p].st # "detached"
    PROVE  SessionInv'
  <1>1. SessionOwned'
    BY DEF SessionOwned, Has
  <1>2. ~Secure'
    BY DEF Secure
  <1>3. SessionThere' /\ HandshakeInTime' /\ FailureSeen'
    BY <1>2 DEF SessionThere, HandshakeInTime, FailureSeen, Secure
  <1> QED
    BY <1>1, <1>3 DEF SessionInv, AttemptFresh, ReadsCurrent

(* A step that leaves the connection and its session alone.                *)
LEMMA ConnectionKept ==
    ASSUME TypeOK, Core, SessionInv,
           tls' \in TlsStates, tls'.use_tls = tls.use_tls,
           tls'.handshake_done = tls.handshake_done, ssl' = ssl, c'.pcb = c.pcb,
           \A q \in Pcbs : lw'[q].st = lw[q].st \/ (q = c.pcb /\ lw'[q].st = "CLOSE_WAIT"),
           BufferFits', Secure => ~c'.pcb_busy,
           Secure /\ ~tls.handshake_done =>
               c'.rx_age < HandshakeTimeout \/ (c'.rx_age = HandshakeTimeout /\ lw'[c.pcb].due),
           Reads(stack') = Reads(stack)
    PROVE  SessionInv'
  <1> USE PcbAssumption
  <1>1. TlsTypes'
    BY DEF SessionInv, TlsTypes
  <1>c. c.pcb # NULL => c.pcb \in Pcbs /\ lw[c.pcb].st \in {"ESTABLISHED", "CLOSE_WAIT"}
    BY DEF TypeOK, Clients, Core, PcbUsable
  <1>2. SessionOwned'
    <2> SUFFICES ASSUME NEW q \in Pcbs, ssl'[q].eng # "none"
                 PROVE  (c'.pcb = q /\ tls'.use_tls) \/ lw'[q].st = "detached"
      BY DEF SessionOwned, Has
    <2>1. (c.pcb = q /\ tls.use_tls) \/ lw[q].st = "detached"
      BY DEF SessionInv, SessionOwned, Has
    <2> QED
      BY <1>c, <2>1
  <1>3. Secure' <=> Secure
    BY DEF Secure
  <1>4. SessionThere' /\ HandshakeInTime' /\ FailureSeen'
    BY <1>3 DEF SessionInv, SessionThere, HandshakeInTime, FailureSeen
  <1>5. Connecting' => Connecting
    BY DEF Connecting
  <1>6. AttemptFresh' /\ ReadsCurrent'
    BY <1>5, <1>c DEF SessionInv, AttemptFresh, ReadsCurrent
  <1> QED
    BY <1>1, <1>2, <1>4, <1>6 DEF SessionInv

(* _close() leaves the send buffers as they are, or empty.                 *)
LEMMA CloseBuffers ==
    ASSUME NEW c0 \in Clients, NEW e0, NEW l0 \in LwType, NEW k, Close_(c0, e0, l0, k)
    PROVE  \A q \in Pcbs : lw'[q].unacked \in {0, l0[q].unacked}
  <1>1. CASE c0.pcb = NULL
    BY <1>1 DEF Close_
  <1>2. CASE c0.pcb # NULL
    <2>1. PICK r : lw' = [Release(l0, c0.pcb, r) EXCEPT ![c0.pcb].told = @ + 1]
      BY <1>2 DEF Close_, Discard
    <2>2. c0.pcb \in Pcbs
      BY <1>2 DEF Clients
    <2> QED
      BY <2>1, <2>2 DEF Release, clearTcpCallbacks, LwType, PcbRecords
  <1> QED
    BY <1>1, <1>2

(* Freeing a session.                                                      *)
LEMMA Freed ==
    ASSUME SessionInv, NEW p \in Pcbs
    PROVE  tcp_ssl_free(p) \in SslType /\ tcp_ssl_free(p)[p].eng = "none"
           /\ \A q \in Pcbs \ {p} : tcp_ssl_free(p)[q] = ssl[q]
  <1>1. NoSession \in Sessions /\ NoSession.eng = "none"
    BY DEF NoSession, Sessions
  <1> QED
    BY <1>1 DEF SessionInv, TlsTypes, SslType, tcp_ssl_free

(* _close() frees the session of the connection it ends.                   *)
LEMMA CloseSession ==
    ASSUME TypeOK, Core, SessionInv,
           NEW c0 \in Clients, c0.pcb = c.pcb, NEW l0 \in LwType,
           \A q \in Pcbs : l0[q].st = lw[q].st \/ q = c.pcb,
           \A q \in Pcbs : l0[q].unacked <= SndBuf,
           NEW e0, NEW k, Close_(c0, e0, l0, k), AfterClose,
           \A p \in Reads(stack') : p \in Reads(stack)
    PROVE  SessionInv'
  <1> USE PcbAssumption
  <1>0. SndBuf \in Nat
    BY SizeAssumption
  <1>1. c'.pcb = NULL
    BY CloseEffect DEF CloseDone
  <1>2. BufferFits'
    BY <1>0, CloseBuffers DEF BufferFits
  <1>c. c.pcb # NULL => c.pcb \in Pcbs /\ lw[c.pcb].st \in {"ESTABLISHED", "CLOSE_WAIT"}
    BY DEF TypeOK, Clients, Core, PcbUsable
  <1>3. \A q \in Pcbs : IF q = c.pcb THEN lw'[q].st \in {"closing", "aborted"}
                                     ELSE lw'[q].st = lw[q].st
    <2>1. CASE c.pcb = NULL
      BY <2>1, CloseEffect DEF CloseDone
    <2>2. CASE c.pcb # NULL
      <3>1. PICK r \in {"closing", "aborted"} :
                /\ lw'[c0.pcb].st = r
                /\ \A q \in Pcbs \ {c0.pcb} : lw'[q] = l0[q]
        BY <2>2, CloseEffect DEF CloseDone
      <3> QED
        BY <3>1
    <2> QED
      BY <2>1, <2>2
  <1>4. \/ Secure /\ tls' = [tls EXCEPT !.handshake_done = FALSE] /\ ssl' = tcp_ssl_free(c.pcb)
        \/ ~Secure /\ UNCHANGED <<tls, ssl>>
    BY <1>1 DEF AfterClose, Secure
  <1>5. TlsTypes' /\ (tls'.handshake_done => tls.handshake_done)
    <2>1. CASE Secure
      <3>1. ssl' \in SslType
        BY <1>4, <1>c, <2>1, Freed DEF Secure
      <3>2. tls' \in TlsStates /\ tls'.handshake_done = FALSE
        BY <1>4, <2>1 DEF TlsStates, SessionInv, TlsTypes
      <3> QED
        BY <3>1, <3>2 DEF TlsTypes
    <2>2. CASE ~Secure
      BY <1>4, <2>2 DEF SessionInv, TlsTypes
    <2> QED
      BY <2>1, <2>2
  <1>6. ASSUME NEW q \in Pcbs, ssl'[q].eng # "none" PROVE lw'[q].st = "detached"
    <2>1. ssl'[q] = ssl[q] /\ (Secure => q # c.pcb)
      <3>1. CASE Secure
        BY <1>4, <1>6, <1>c, <3>1, Freed DEF Secure
      <3> QED
        BY <1>4, <3>1
    <2>2. lw[q].st = "detached"
      BY <1>6, <2>1 DEF SessionInv, SessionOwned, Has, Secure
    <2> QED
      BY <1>3, <1>c, <2>2
  <1>7. Connecting' => ~tls'.handshake_done
    <2>1. Connecting' => Connecting
      BY <1>3 DEF Connecting
    <2> QED
      BY <1>5, <2>1 DEF SessionInv, AttemptFresh
  <1>8. \A p \in Reads(stack') : p \in Pcbs /\ lw'[p].st # "detached"
    BY <1>3 DEF SessionInv, ReadsCurrent
  <1> QED
    BY <1>1, <1>2, <1>5, <1>6, <1>7, <1>8, NoConnection

(* _error() frees it too, and leaves the rest; only when _recv() was       *)
(* called with an error does the session stay, with a detached pcb.        *)
LEMMA ErrorSession ==
    ASSUME TypeOK, Core, SessionInv, NEW p \in Pcbs, "err" \in lw[p].cbs,
           NEW r \in {"detached", "freed", "aborted"},
           NEW e0, NEW k, Error_(c, e0, Release(lw, p, r), p, k),
           AfterError \/ (r = "detached" /\ UNCHANGED <<tls, ssl>>),
           r = "detached" => Reads(stack) = {}, Reads(stack') = Reads(stack)
    PROVE  SessionInv'
  <1> USE PcbAssumption
  <1>l. lw \in LwType /\ SndBuf \in Nat
    BY SizeAssumption DEF TypeOK, LwType
  <1>1. c'.pcb = NULL /\ lw' = Release(lw, p, r)
    BY DEF Error_, ForgetPcb, TypeOK, Clients
  <1>2. BufferFits'
    <2>1. \A q \in Pcbs : lw'[q].unacked \in {0, lw[q].unacked}
      BY <1>l, <1>1 DEF Release, clearTcpCallbacks, LwType, PcbRecords
    <2> QED
      BY <1>l, <2>1 DEF SessionInv, BufferFits
  <1>3. lw'[p].st = r /\ \A q \in Pcbs \ {p} : lw'[q] = lw[q]
    BY <1>l, <1>1, ReleaseEffect
  <1>c. c.pcb # NULL => c.pcb = p
    BY CallableIsOpen
  <1>4. \/ Secure /\ r # "detached" /\ ssl' = tcp_ssl_free(p)
        \/ (Secure => r = "detached") /\ ssl' = ssl
        \/ Secure /\ ssl' = tcp_ssl_free(p)
    BY <1>c DEF AfterError, Secure
  <1>5. tls' = tls
    BY DEF AfterError
  <1>6. TlsTypes'
    BY <1>4, <1>5, Freed DEF SessionInv, TlsTypes
  <1>7. ASSUME NEW q \in Pcbs, ssl'[q].eng # "none" PROVE lw'[q].st = "detached"
    <2>1. ssl'[q] = ssl[q] /\ (q = p /\ Secure => r = "detached")
      BY <1>4, <1>7, Freed
    <2>2. (q = c.pcb /\ tls.use_tls) \/ lw[q].st = "detached"
      BY <1>7, <2>1 DEF SessionInv, SessionOwned, Has
    <2>3. lw[p].st # "detached"
      BY CallableIsOpen DEF Open
    <2> QED
      BY <1>3, <1>c, <2>1, <2>2, <2>3 DEF Secure
  <1>8. Connecting' => ~tls'.handshake_done
    <2>1. Connecting' => Connecting
      BY <1>3 DEF Connecting
    <2> QED
      BY <1>5, <2>1 DEF SessionInv, AttemptFresh
  <1>9. \A q \in Reads(stack') : q \in Pcbs /\ lw'[q].st # "detached"
    BY <1>3 DEF SessionInv, ReadsCurrent
  <1> QED
    BY <1>1, <1>2, <1>6, <1>7, <1>8, <1>9, NoConnection
(* connect() begins an attempt, or nothing.                                *)
LEMMA StartSession ==
    ASSUME TypeOK, SessionInv, NEW u \in BOOLEAN, NEW done \in BOOLEAN, Started(u, done),
           c' = c, c.pcb = NULL, ~Connecting, ssl' = ssl, stack' = stack
    PROVE  SessionInv'
  <1>l. lw \in LwType /\ SndBuf \in Nat
    BY SizeAssumption DEF TypeOK, LwType
  <1>1. tls' \in TlsStates
    BY DEF Started, SessionInv, TlsTypes, TlsStates
  <1>2. \/ lw' = lw
        \/ /\ ~tls'.handshake_done
           /\ \E p \in Pcbs : /\ lw[p].st = "unused" /\ lw'[p].unacked = 0
                              /\ lw'[p].st \in {"SYN_SENT", "leaked"}
                              /\ \A q \in Pcbs \ {p} : lw'[q] = lw[q]
    <2>1. CASE lw' # lw
      <3>1. ~tls'.handshake_done
        BY <2>1 DEF Started, SessionInv, TlsTypes, TlsStates
      <3>2. PICK p \in Pcbs, pcb \in {NewPcb("SYN_SENT", {"err"}), NewPcb("leaked", {})} :
              lw[p].st = "unused" /\ lw' = [lw EXCEPT ![p] = pcb]
        BY <2>1 DEF Started
      <3>3. pcb.unacked = 0 /\ pcb.st \in {"SYN_SENT", "leaked"}
        BY <3>2 DEF NewPcb
      <3>4. lw'[p] = pcb /\ \A q \in Pcbs \ {p} : lw'[q] = lw[q]
        BY <1>l, <3>2 DEF LwType
      <3> QED
        BY <3>1, <3>2, <3>3, <3>4
    <2> QED
      BY <2>1
  <1>3. TlsTypes' /\ c'.pcb = NULL
    BY <1>1 DEF SessionInv, TlsTypes
  <1>4. BufferFits'
    BY <1>l, <1>2 DEF SessionInv, BufferFits
  <1>5. \A q \in Pcbs : ssl'[q].eng # "none" => lw'[q].st = "detached"
    BY <1>2, PcbAssumption DEF SessionInv, SessionOwned, Has
  <1>6. Connecting' => ~tls'.handshake_done
    BY <1>2 DEF Connecting
  <1>7. \A q \in Reads(stack') : q \in Pcbs /\ lw'[q].st # "detached"
    BY <1>2 DEF SessionInv, ReadsCurrent
  <1> QED
    BY <1>3, <1>4, <1>5, <1>6, <1>7, NoConnection

(* connect(host) has to wait for the address.                              *)
LEMMA LookupSession ==
    ASSUME TypeOK, SessionInv, NEW u \in BOOLEAN, tls' = [tls EXCEPT !.use_tls = u, !.handshake_done = FALSE],
           c' = c, c.pcb = NULL, ssl' = ssl, lw' = lw, stack' = stack
    PROVE  SessionInv'
  <1>1. tls' \in TlsStates /\ ~tls'.handshake_done
    BY DEF SessionInv, TlsTypes, TlsStates
  <1>2. TlsTypes' /\ c'.pcb = NULL /\ BufferFits'
    BY <1>1 DEF SessionInv, TlsTypes, BufferFits
  <1>3. \A q \in Pcbs : ssl'[q].eng # "none" => lw'[q].st = "detached"
    BY PcbAssumption DEF SessionInv, SessionOwned, Has
  <1>4. \A q \in Reads(stack') : q \in Pcbs /\ lw'[q].st # "detached"
    BY DEF SessionInv, ReadsCurrent
  <1> QED
    BY <1>1, <1>2, <1>3, <1>4, NoConnection

(* lwIP reports the connection a plain client asked for.                   *)
LEMMA PlainConnectedSession ==
    ASSUME TypeOK, Core, SessionInv, NEW p \in Pcbs, S_connected(p), ~tls.use_tls,
           UNCHANGED <<tls, ssl>>, Reads(stack') = {}
    PROVE  SessionInv'
  <1>l. lw \in LwType
    BY DEF TypeOK, LwType
  <1>1. /\ lw'[p].st = "ESTABLISHED" /\ lw'[p].unacked = lw[p].unacked
        /\ \A q \in Pcbs \ {p} : lw'[q] = lw[q]
    BY <1>l DEF S_connected, LwType, PcbRecords
  <1>2. ~Secure'
    BY DEF Secure
  <1>3. SessionThere' /\ HandshakeInTime' /\ FailureSeen'
    BY <1>2 DEF SessionThere, HandshakeInTime, FailureSeen, Secure
  <1>4. SessionOwned'
    <2> SUFFICES ASSUME NEW q \in Pcbs, ssl[q].eng # "none" PROVE lw'[q].st = "detached"
      BY DEF SessionOwned, Has
    <2>1. lw[q].st = "detached"
      BY DEF SessionInv, SessionOwned, Has
    <2> QED
      BY <1>1, <2>1 DEF S_connected
  <1>5. Connecting' => Connecting
    BY <1>1 DEF Connecting
  <1>6. TlsTypes' /\ BufferFits' /\ AttemptFresh'
    BY <1>1, <1>5 DEF SessionInv, TlsTypes, BufferFits, AttemptFresh
  <1>7. ReadsCurrent'
    BY DEF ReadsCurrent
  <1> QED
    BY <1>3, <1>4, <1>6, <1>7 DEF SessionInv

(* ... and the one a TLS client asked for.                                 *)
LEMMA TlsConnectedSession ==
    ASSUME TypeOK, Core, SessionInv, NEW p \in Pcbs, Tls_connected(p), Reads(stack') = {}
    PROVE  SessionInv'
  <1> USE PcbAssumption
  <1> DEFINE c1 == [c EXCEPT !.pcb = p, !.pcb_busy = FALSE, !.rx_age = 0]
             l1 == [lw EXCEPT ![p].st = "ESTABLISHED", ![p].cbs = Callbacks]
  <1>l. lw \in LwType /\ SndBuf \in Nat /\ SndBuf > 0 /\ HandshakeTimeout > 0
    BY SizeAssumption, TlsAssumption DEF TypeOK, LwType
  <1>1. c1 \in Clients /\ c1.pcb = p /\ c1.rx_age = 0 /\ c1.pcb_busy = FALSE
    BY DEF TypeOK, Clients
  <1>2. /\ l1 \in LwType /\ l1[p].st = "ESTABLISHED" /\ l1[p].unacked = lw[p].unacked
        /\ \A q \in Pcbs \ {p} : l1[q] = lw[q]
    BY <1>l DEF LwType, PcbRecords, Open
  <1>3. lw[p].st = "SYN_SENT" /\ c.pcb = NULL /\ tls.use_tls /\ ~tls.handshake_done
    BY DEF Tls_connected, Core, OneAtATime, Connecting, SessionInv, AttemptFresh
  <1>h. \A q \in Pcbs : ssl[q].eng # "none" => lw[q].st = "detached" /\ q # p
    BY <1>3 DEF SessionInv, SessionOwned, Has
  <1>r. ReadsCurrent'
    BY DEF ReadsCurrent
  <1>4. CASE /\ c' = c1 /\ lw' \in {l1, [l1 EXCEPT ![p].unacked = 1]}
             /\ ssl' = [ssl EXCEPT ![p] = NewSession] /\ UNCHANGED tls
    <2>1. /\ lw'[p].unacked \in {1, lw[p].unacked} /\ \A q \in Pcbs \ {p} : lw'[q] = lw[q]
          /\ lw'[p].st = "ESTABLISHED"
      <3> HIDE DEF l1
      <3> QED
        BY <1>2, <1>4 DEF LwType, PcbRecords
    <2>2. NewSession \in Sessions /\ NewSession.eng = "handshake" /\ NewSession.done = FALSE
      BY DEF NewSession, NoSession, Sessions
    <2>3. /\ ssl' \in SslType /\ ssl'[p].eng = "handshake" /\ ssl'[p].done = FALSE
          /\ \A q \in Pcbs \ {p} : ssl'[q] = ssl[q]
      <3>1. ssl' \in SslType /\ ssl'[p] = NewSession /\ \A q \in Pcbs \ {p} : ssl'[q] = ssl[q]
        BY <1>4, <2>2 DEF SessionInv, TlsTypes, SslType
      <3> QED
        BY <2>2, <3>1
    <2> HIDE DEF c1, l1
    <2>4. c'.pcb = p /\ c'.rx_age = 0 /\ c'.pcb_busy = FALSE
      BY <1>1, <1>4
    <2>5. TlsTypes' /\ BufferFits'
      BY <1>l, <1>4, <2>1, <2>3 DEF SessionInv, TlsTypes, BufferFits
    <2>6. SessionOwned'
      BY <1>3, <1>4, <1>h, <2>1, <2>3, <2>4 DEF SessionOwned, Has
    <2>7. SessionThere' /\ FailureSeen'
      BY <1>3, <1>4, <2>3, <2>4 DEF SessionThere, FailureSeen
    <2>8. HandshakeInTime' /\ AttemptFresh'
      BY <1>3, <1>4, <1>l, <2>4 DEF HandshakeInTime, AttemptFresh
    <2> QED
      BY <1>r, <2>5, <2>6, <2>7, <2>8 DEF SessionInv
  <1>5. ASSUME NEW k, Close_(c1, et, l1, k), tls' = [tls EXCEPT !.handshake_done = FALSE], UNCHANGED ssl
        PROVE  SessionInv'
    <2> HIDE DEF c1, l1
    <2>1. c'.pcb = NULL
      BY <1>1, <1>2, <1>5, CloseEffect DEF CloseDone
    <2>2. \A q \in Pcbs \ {p} : lw'[q] = l1[q]
      <3>1. \A q \in Pcbs \ {c1.pcb} : lw'[q] = l1[q]
        BY <1>1, <1>2, <1>5, CloseEffect DEF CloseDone
      <3> QED
        BY <1>1, <3>1
    <2>3. TlsTypes' /\ ~tls'.handshake_done
      BY <1>5 DEF SessionInv, TlsTypes, TlsStates
    <2>4. BufferFits'
      <3>1. \A q \in Pcbs : lw'[q].unacked \in {0, l1[q].unacked}
        BY <1>1, <1>2, <1>5, CloseBuffers
      <3> QED
        BY <1>2, <1>l, <3>1 DEF SessionInv, BufferFits
    <2>5. \A q \in Pcbs : ssl'[q].eng # "none" => lw'[q].st = "detached"
      BY <1>2, <1>h, <1>5, <2>2
    <2> QED
      BY <2>1, <2>3, <2>4, <2>5, NoConnection
  <1> QED
    BY <1>4, <1>5 DEF Tls_connected
(* Peer data leaves a session a session, and the handshake flag alone.     *)
LEMMA FedSession ==
    ASSUME NEW s \in Sessions, s.eng # "none", NEW t \in Fed(s)
    PROVE  t \in Sessions /\ t.eng # "none" /\ t.done = s.done
  <1>1. CASE s.eng = "handshake"
    <2>1. t \in {s, [s EXCEPT !.eng = "closed"], [s EXCEPT !.eng = "ready"],
                 [s EXCEPT !.eng = "ready", !.data = TRUE],
                 [s EXCEPT !.out = IF @ = 0 THEN 1 ELSE @]}
      BY <1>1 DEF Fed
    <2>2. (IF s.out = 0 THEN 1 ELSE s.out) \in Nat
      BY DEF Sessions
    <2> QED
      BY <2>1, <2>2 DEF Sessions
  <1>2. CASE s.eng = "ready"
    <2>1. t \in {s, [s EXCEPT !.eng = "closed"], [s EXCEPT !.data = TRUE]}
      BY <1>2 DEF Fed
    <2> QED
      BY <2>1 DEF Sessions
  <1>3. CASE s.eng = "closed"
    <2>1. t = s
      BY <1>3 DEF Fed
    <2> QED
      BY <2>1
  <1> QED
    BY <1>1, <1>2, <1>3 DEF Sessions

(* A step under tcp_ssl_read() that changes the session it reads from.     *)
LEMMA ReadSession ==
    ASSUME TypeOK, Core, SessionInv, NEW p \in Pcbs, c.pcb = p, tls.use_tls,
           NEW s \in Sessions, s.eng # "none", ssl' = [ssl EXCEPT ![p] = s],
           tls' \in TlsStates, tls'.use_tls, tls'.handshake_done <=> s.done,
           tls.handshake_done => tls'.handshake_done,
           c'.pcb = c.pcb, c'.pcb_busy = c.pcb_busy, c'.rx_age \in {0, c.rx_age},
           \A q \in Pcbs : lw'[q].st = lw[q].st \/ (q = c.pcb /\ lw'[q].st = "CLOSE_WAIT"),
           lw'[p].due = lw[p].due, BufferFits',
           Reads(stack') # {}, \A q \in Reads(stack') : q = p
    PROVE  SessionInv'
  <1> USE PcbAssumption
  <1>1. ssl' \in SslType /\ ssl'[p] = s /\ \A q \in Pcbs \ {p} : ssl'[q] = ssl[q]
    BY DEF SessionInv, TlsTypes, SslType
  <1>c. lw[p].st \in {"ESTABLISHED", "CLOSE_WAIT"} /\ Secure /\ Secure' /\ ~Connecting
    BY DEF Core, PcbUsable, Secure, OneAtATime
  <1>2. SessionOwned'
    <2> SUFFICES ASSUME NEW q \in Pcbs \ {p}, ssl'[q].eng # "none"
                 PROVE  lw'[q].st = "detached"
      BY DEF SessionOwned, Has
    <2>1. lw[q].st = "detached"
      BY <1>1 DEF SessionInv, SessionOwned, Has
    <2> QED
      BY <2>1
  <1>3. SessionThere' /\ FailureSeen'
    BY <1>1, <1>c DEF SessionInv, SessionThere, FailureSeen
  <1>4. HandshakeInTime'
    <2>1. HandshakeTimeout > 0 /\ HandshakeTimeout \in Nat
      BY TlsAssumption, SizeAssumption
    <2> QED
      BY <1>c, <2>1 DEF SessionInv, HandshakeInTime
  <1>5. ~Connecting'
    BY <1>c DEF Connecting
  <1>6. ReadsCurrent'
    BY <1>c DEF ReadsCurrent
  <1> QED
    BY <1>1, <1>2, <1>3, <1>4, <1>5, <1>6 DEF SessionInv, TlsTypes, AttemptFresh

(* _recv() of a TLS client.                                                *)
LEMMA RecvSession ==
    ASSUME TypeOK, Core, SessionInv, NEW p \in Pcbs, NEW fin \in BOOLEAN, Tls_recv(p, fin)
    PROVE  SessionInv'
  <1> DEFINE c1 == [c EXCEPT !.rx_age = 0]
             e1 == SetCloseError(et, "ERR_OK")
             l1 == [lw EXCEPT ![p].st = IF fin THEN "CLOSE_WAIT" ELSE @]
             k == Push("ret", p, 0, IF fin THEN Push("fin", p, 0, <<>>) ELSE <<>>)
  <1>1. c1 \in Clients /\ c1.pcb = c.pcb /\ c1.pcb_busy = c.pcb_busy /\ c1.rx_age = 0
    BY DEF TypeOK, Clients
  <1>l. lw \in LwType
    BY DEF TypeOK, LwType
  <1>3. stack = <<>> /\ p = c.pcb /\ tls.use_tls
    BY CallableIsOwned DEF Tls_recv, Idle, Callbacks
  <1>2. /\ l1 \in LwType /\ l1[p].unacked = lw[p].unacked /\ l1[p].due = lw[p].due
        /\ l1[p].st \in {lw[p].st, "CLOSE_WAIT"} /\ \A q \in Pcbs \ {p} : l1[q] = lw[q]
    BY <1>l DEF LwType, PcbRecords, Open
  <1>b. \A q \in Pcbs : l1[q].unacked <= SndBuf
    BY <1>2 DEF SessionInv, BufferFits
  <1>4. Reads(k) = {} /\ k \in Seq(Frames)
    BY Called
  <1>5. CASE Close_(c1, e1, l1, k) /\ AfterClose
    <2> HIDE DEF c1, l1, e1, k
    <2>1. "discard_cb" \in Calm /\ 0 \in Nat
      BY DEF Calm, FrameKinds, Handlers
    <2>a. c1 \in Clients /\ l1 \in LwType /\ Close_(c1, e1, l1, k)
      BY <1>1, <1>2, <1>5
    <2>2. stack' = k \/ (c1.pcb \in Pcbs /\ stack' = Push("discard_cb", c1.pcb, 0, k))
      BY <2>a, CloseStack
    <2>3. Reads(stack') = {}
      BY <1>4, <2>1, <2>2, ReadsSame
    <2> QED
      BY <1>1, <1>2, <1>3, <1>5, <1>b, <2>3, CloseSession
  <1>6. ASSUME NEW n \in 1..MaxRuns, stack' = Push("ssl_read", p, n, k),
               NEW s \in Fed(ssl[p]), ssl' = [ssl EXCEPT ![p] = s],
               Has(p), c' = c1, lw' = l1, UNCHANGED tls
        PROVE  SessionInv'
    <2> HIDE DEF c1, l1, e1, k
    <2>1. "ssl_read" \in FrameKinds /\ n \in Nat /\ p \in Pcbs \cup {NULL}
      BY TlsAssumption DEF FrameKinds
    <2>2. Reads(stack') = {p}
      BY <1>4, <1>6, <2>1, ReadsPush
    <2>3. ssl[p] \in Sessions /\ ssl[p].eng # "none" /\ tls \in TlsStates
      BY <1>6 DEF SessionInv, TlsTypes, SslType, Has
    <2>4. s \in Sessions /\ s.eng # "none" /\ s.done = ssl[p].done
      BY <2>3, FedSession
    <2>5. tls.handshake_done <=> s.done
      BY <1>3, <2>4, PcbAssumption DEF SessionInv, SessionThere, Secure
    <2>6. BufferFits'
      BY <1>6, <1>b DEF BufferFits
    <2> QED
      BY <1>1, <1>2, <1>3, <1>6, <2>2, <2>3, <2>4, <2>5, <2>6, ReadSession
  <1> QED
    BY <1>5, <1>6 DEF Tls_recv

(* One round of process_ssl_engine().                                      *)
LEMMA RunSession ==
    ASSUME TypeOK, Core, SessionInv, SslRun, Reads(stack') = Reads(stack)
    PROVE  SessionInv'
  <1> DEFINE p == Head(stack).p
  <1>r. Reading
    BY DEF SslRun
  <1>1. p \in Pcbs /\ c.pcb = p /\ Secure /\ p \in Reads(stack)
    BY <1>r, ReadingTop
  <1>2. ssl[p] \in Sessions /\ ssl[p].eng # "none" /\ tls \in TlsStates /\ tls.use_tls
    BY <1>1 DEF SessionInv, TlsTypes, SslType, SessionThere, Secure
  <1>3. tls.handshake_done <=> ssl[p].done
    BY <1>1 DEF SessionInv, SessionThere
  <1>4. \A q \in Reads(stack') : q = p
    BY <1>1, PcbAssumption DEF SessionInv, ReadsCurrent
  <1>5. Reads(stack') # {}
    BY <1>1
  <1>l. lw \in LwType /\ SndBuf \in Nat
    BY SizeAssumption DEF TypeOK, LwType
  <1>6. c' = c
    BY DEF SslRun, EngineFailed
  <1>7. BufferFits' /\ \A q \in Pcbs : lw'[q].st = lw[q].st /\ lw'[q].due = lw[q].due
    <2>1. CASE lw' = lw
      BY <2>1 DEF SessionInv, BufferFits
    <2>2. CASE Fitting(p) /\ lw' = [lw EXCEPT ![p].unacked = @ + ssl[p].out]
      <3>1. lw'[p].unacked = lw[p].unacked + ssl[p].out
        BY <1>l, <1>1, <2>2 DEF LwType, PcbRecords
      <3>2. lw'[p].unacked <= SndBuf
        BY <2>2, <3>1 DEF Fitting
      <3>3. \A q \in Pcbs \ {p} : lw'[q] = lw[q]
        BY <1>l, <2>2 DEF LwType
      <3>4. lw'[p].st = lw[p].st /\ lw'[p].due = lw[p].due
        BY <1>l, <1>1, <2>2 DEF LwType, PcbRecords
      <3> QED
        BY <3>2, <3>3, <3>4 DEF SessionInv, BufferFits
    <2> QED
      BY <2>1, <2>2 DEF SslRun, EngineFailed
  <1> DEFINE Moved == \E s \in Sessions :
                        /\ s.eng # "none" /\ ssl' = [ssl EXCEPT ![p] = s]
                        /\ tls'.handshake_done <=> s.done
                        /\ tls' \in TlsStates /\ tls'.use_tls
                        /\ tls.handshake_done => tls'.handshake_done
  <1>8. Moved
    <2>f. ASSUME NEW f, NEW s \in Sessions, s.eng # "none", RunOver(f, s)
          PROVE  \E t \in Sessions : t.eng # "none" /\ t.done = s.done /\ ssl' = [ssl EXCEPT ![p] = t]
      <3>1. PICK t : (t = s \/ t \in Fed(s)) /\ ssl' = [ssl EXCEPT ![p] = t]
        BY <2>f DEF RunOver
      <3>2. t \in Sessions /\ t.eng # "none" /\ t.done = s.done
        BY <2>f, <3>1, FedSession
      <3> QED
        BY <3>1, <3>2
    <2>1. ASSUME NEW f, RunOver(f, ssl[p]), tls' = tls PROVE Moved
      BY <1>2, <1>3, <2>1, <2>f
    <2>2. CASE ssl' = [ssl EXCEPT ![p].data = FALSE] /\ tls' = tls
      <3> DEFINE t == [ssl[p] EXCEPT !.data = FALSE]
      <3>1. t \in Sessions /\ t.eng = ssl[p].eng /\ t.done = ssl[p].done
        BY <1>2 DEF Sessions
      <3>2. ssl' = [ssl EXCEPT ![p] = t]
        BY <2>2
      <3> HIDE DEF t
      <3> QED
        BY <1>2, <1>3, <2>2, <3>1, <3>2
    <2>3. CASE ssl' = [ssl EXCEPT ![p].out = 0] /\ tls' = tls
      <3> DEFINE t == [ssl[p] EXCEPT !.out = 0]
      <3>1. t \in Sessions /\ t.eng = ssl[p].eng /\ t.done = ssl[p].done
        BY <1>2 DEF Sessions
      <3>2. ssl' = [ssl EXCEPT ![p] = t]
        BY <2>3
      <3> HIDE DEF t
      <3> QED
        BY <1>2, <1>3, <2>3, <3>1, <3>2
    <2>4. CASE tls' = [tls EXCEPT !.handshake_done = TRUE]
               /\ RunOver("handshake_cb", [ssl[p] EXCEPT !.done = TRUE])
      <3> DEFINE s == [ssl[p] EXCEPT !.done = TRUE]
      <3>1. s \in Sessions /\ s.eng = ssl[p].eng /\ s.done = TRUE
        BY <1>2 DEF Sessions
      <3>2. tls' \in TlsStates /\ tls'.handshake_done = TRUE /\ tls'.use_tls = tls.use_tls
        BY <1>2, <2>4 DEF TlsStates
      <3> HIDE DEF s
      <3>3. RunOver("handshake_cb", s)
        BY <2>4 DEF s
      <3>4. PICK t \in Sessions : t.eng # "none" /\ t.done = s.done /\ ssl' = [ssl EXCEPT ![p] = t]
        BY <1>2, <2>f, <3>1, <3>3
      <3> QED
        BY <1>2, <3>1, <3>2, <3>4
    <2> QED
      BY <2>1, <2>2, <2>3, <2>4 DEF SslRun, EngineFailed
  <1> HIDE DEF p
  <1>9. PICK s \in Sessions : /\ s.eng # "none" /\ ssl' = [ssl EXCEPT ![p] = s]
                              /\ tls'.handshake_done <=> s.done
                              /\ tls' \in TlsStates /\ tls'.use_tls
                              /\ tls.handshake_done => tls'.handshake_done
    BY <1>8
  <1> QED
    BY <1>1, <1>2, <1>4, <1>5, <1>6, <1>7, <1>9, ReadSession
(* _sent() of a TLS client.                                                *)
LEMMA SentSession ==
    ASSUME TypeOK, Core, SessionInv, NEW p \in Pcbs, NEW len \in 1..SndBuf, Tls_sent(p, len),
           Reads(stack') = {}
    PROVE  SessionInv'
  <1>l. lw \in LwType /\ SndBuf \in Nat /\ HandshakeTimeout \in Nat /\ HandshakeTimeout > 0
    BY SizeAssumption, TlsAssumption DEF TypeOK, LwType
  <1>1. stack = <<>> /\ UNCHANGED <<tls, ssl>> /\ Reads(stack) = {} /\ len \in Nat
    BY <1>l, ReadsNone DEF Tls_sent, Idle
  <1>2. lw' = [lw EXCEPT ![p].unacked = @ - len] /\ len <= lw[p].unacked
    BY DEF Tls_sent
  <1>3. /\ \A q \in Pcbs : lw'[q].st = lw[q].st /\ lw'[q].due = lw[q].due
        /\ lw'[p].unacked = lw[p].unacked - len /\ \A q \in Pcbs \ {p} : lw'[q] = lw[q]
    BY <1>l, <1>2 DEF LwType, PcbRecords
  <1>4. BufferFits'
    <2>1. lw[p].unacked \in Nat
      BY <1>l DEF LwType, PcbRecords
    <2> QED
      BY <1>1, <1>2, <1>3, <1>l, <2>1 DEF SessionInv, BufferFits
  <1>5. c'.pcb = c.pcb /\ (c'.pcb_busy => c.pcb_busy) /\ c'.rx_age \in {0, c.rx_age}
    <2>1. \/ c' = c
          \/ c' = [c EXCEPT !.rx_age = 0, !.tx_unacked_len = Unacked(len),
                            !.tx_acked_len = @ + len, !.pcb_busy = StillBusy(len)]
      BY DEF Tls_sent
    <2>2. c \in Clients
      BY DEF TypeOK
    <2>3. StillBusy(len) => c.pcb_busy
      BY DEF StillBusy
    <2> QED
      BY <2>1, <2>2, <2>3 DEF Clients
  <1>6. Secure => ~c'.pcb_busy
    BY <1>5 DEF SessionInv, SessionThere
  <1>7. Secure /\ ~tls.handshake_done =>
          c'.rx_age < HandshakeTimeout \/ (c'.rx_age = HandshakeTimeout /\ lw'[c.pcb].due)
    <2>1. c.pcb # NULL => c.pcb \in Pcbs
      BY DEF TypeOK, Clients
    <2> QED
      BY <1>3, <1>5, <1>l, <2>1 DEF SessionInv, HandshakeInTime, Secure
  <1>8. tls' \in TlsStates /\ tls'.use_tls = tls.use_tls /\ tls'.handshake_done = tls.handshake_done
    BY <1>1 DEF SessionInv, TlsTypes
  <1> QED
    BY <1>1, <1>3, <1>4, <1>5, <1>6, <1>7, <1>8, ConnectionKept

(* A step that leaves tls, ssl and what the invariant says of _pcb as they *)
(* are.                                                                    *)
LEMMA Untouched ==
    ASSUME TypeOK, Core, SessionInv, UNCHANGED <<tls, ssl>>,
           c'.pcb = c.pcb, c'.rx_age = c.rx_age, Secure => c'.pcb_busy = c.pcb_busy,
           \A q \in Pcbs : /\ lw'[q].st = lw[q].st \/ (q = c.pcb /\ lw'[q].st = "CLOSE_WAIT")
                           /\ lw'[q].due = lw[q].due,
           BufferFits', Reads(stack') = Reads(stack)
    PROVE  SessionInv'
  <1>1. c.pcb # NULL => c.pcb \in Pcbs
    BY DEF TypeOK, Clients
  <1>2. Secure => ~c'.pcb_busy
    BY DEF SessionInv, SessionThere
  <1>3. Secure /\ ~tls.handshake_done =>
          c'.rx_age < HandshakeTimeout \/ (c'.rx_age = HandshakeTimeout /\ lw'[c.pcb].due)
    BY <1>1 DEF SessionInv, HandshakeInTime, Secure
  <1>4. tls' \in TlsStates
    BY DEF SessionInv, TlsTypes
  <1> QED
    BY <1>2, <1>3, <1>4, ConnectionKept

(* A step of a plain connection.                                           *)
LEMMA PlainSession ==
    ASSUME TypeOK, Core, SessionInv, UNCHANGED <<tls, ssl>>, ~tls.use_tls, c'.pcb = c.pcb,
           \A q \in Pcbs : lw'[q].st = lw[q].st \/ (q = c.pcb /\ lw'[q].st = "CLOSE_WAIT"),
           BufferFits', Reads(stack') = Reads(stack)
    PROVE  SessionInv'
  <1>1. tls' \in TlsStates /\ ~Secure
    BY DEF SessionInv, TlsTypes, Secure
  <1> QED
    BY <1>1, ConnectionKept

(* A poll interval passes: it is the handshake's turn to be checked.       *)
LEMMA TickSession ==
    ASSUME TypeOK, Core, SessionInv, Tick, UNCHANGED <<tls, ssl>>
    PROVE  SessionInv'
  <1>l. lw \in LwType /\ c \in Clients
    BY DEF TypeOK, LwType
  <1>1. /\ \A q \in Pcbs : ~lw[q].due
        /\ lw' = [q \in Pcbs |-> [lw[q] EXCEPT !.due = "poll" \in lw[q].cbs]]
        /\ c' = [c EXCEPT !.sent_age = Older(@, AckTimeout), !.rx_age = Older(@, RxTimeout)]
        /\ stack' = stack
    BY DEF Tick
  <1>2. \A q \in Pcbs : /\ lw'[q].st = lw[q].st /\ lw'[q].unacked = lw[q].unacked
                        /\ lw'[q].due = ("poll" \in lw[q].cbs)
    <2> SUFFICES ASSUME NEW q \in Pcbs
                 PROVE  /\ lw'[q].st = lw[q].st /\ lw'[q].unacked = lw[q].unacked
                        /\ lw'[q].due = ("poll" \in lw[q].cbs)
      OBVIOUS
    <2>1. lw[q] \in PcbRecords /\ lw'[q] = [lw[q] EXCEPT !.due = "poll" \in lw[q].cbs]
      BY <1>l, <1>1 DEF LwType
    <2> QED
      BY <2>1 DEF PcbRecords
  <1>3. c'.pcb = c.pcb /\ c'.pcb_busy = c.pcb_busy /\ c'.rx_age = Older(c.rx_age, RxTimeout)
    BY <1>l, <1>1 DEF Clients
  <1>4. BufferFits'
    BY <1>2 DEF SessionInv, BufferFits
  <1>5. ASSUME Secure, ~tls.handshake_done
        PROVE  c'.rx_age < HandshakeTimeout \/ (c'.rx_age = HandshakeTimeout /\ lw'[c.pcb].due)
    <2>1. c.pcb \in Pcbs /\ lw[c.pcb].cbs = Callbacks
      BY <1>5, <1>l DEF Secure, Clients, Core, PcbUsable
    <2>2. ~lw[c.pcb].due /\ lw'[c.pcb].due
      BY <1>1, <1>2, <2>1 DEF Callbacks
    <2>3. c.rx_age < HandshakeTimeout
      BY <1>5, <2>2 DEF SessionInv, HandshakeInTime
    <2>4. c.rx_age \in Nat /\ HandshakeTimeout \in 1..RxTimeout /\ RxTimeout \in Nat
      BY <1>l, SizeAssumption, TlsAssumption DEF Clients
    <2>5. c'.rx_age = c.rx_age + 1
      BY <1>3, <2>3, <2>4 DEF Older
    <2> QED
      BY <2>2, <2>3, <2>4, <2>5
  <1>6. tls' \in TlsStates /\ (Secure => ~c'.pcb_busy)
    BY <1>3 DEF SessionInv, TlsTypes, SessionThere
  <1> QED
    BY <1>1, <1>2, <1>3, <1>4, <1>5, <1>6, ConnectionKept

(* _poll(): what goes on without a close has found the handshake in time.  *)
LEMMA PollSession ==
    ASSUME TypeOK, Core, SessionInv, NEW p \in Pcbs, Tls_poll(p)
    PROVE  SessionInv'
  <1> DEFINE c1 == [c EXCEPT !.close_pcb = FALSE]
             e1 == SetCloseError(et, "ERR_OK")
             l1 == [lw EXCEPT ![p].due = FALSE]
             k == Push("ret", p, 0, <<>>)
  <1>l. lw \in LwType /\ c \in Clients
    BY DEF TypeOK, LwType
  <1>1. c1 \in Clients /\ c1.pcb = c.pcb
    BY <1>l DEF Clients
  <1>2. /\ l1 \in LwType
        /\ \A q \in Pcbs : l1[q].st = lw[q].st /\ l1[q].unacked = lw[q].unacked
    BY <1>l DEF LwType, PcbRecords
  <1>b. \A q \in Pcbs : l1[q].unacked <= SndBuf
    BY <1>2 DEF SessionInv, BufferFits
  <1>3. stack = <<>> /\ p = c.pcb /\ AfterClose /\ Reads(stack) = {}
    BY CallableIsOwned, ReadsNone DEF Tls_poll, S_poll, Idle, Callbacks
  <1>4. Reads(k) = {} /\ k \in Seq(Frames)
    BY CalledOnce
  <1>p. ASSUME NEW f \in {"discard_cb", "timeout_cb", "poll_cb"} PROVE Reads(Push(f, p, 0, k)) = {}
    <2>1. f \in Calm /\ f # "ssl_read" /\ 0 \in Nat
      BY DEF Calm, FrameKinds, Handlers
    <2> HIDE DEF k
    <2> QED
      BY <1>4, <2>1, ReadsSame
  <1>5. ASSUME NEW c0 \in {c, c1}, Close_(c0, e1, l1, k) PROVE SessionInv'
    <2> HIDE DEF c1, l1, e1, k
    <2>1. c0 \in Clients /\ c0.pcb = c.pcb
      BY <1>1, <1>5, <1>l
    <2>a. c0 \in Clients /\ l1 \in LwType /\ Close_(c0, e1, l1, k)
      BY <1>2, <1>5, <2>1
    <2>3. Reads(stack') = {}
      BY <1>4, <2>a, CloseReads
    <2> QED
      BY <1>2, <1>3, <1>b, <2>1, <2>3, <2>a, CloseSession
  <1>6. CASE AckTimedOut /\ c' = [c EXCEPT !.pcb_busy = FALSE] /\ lw' = l1
             /\ stack' = Push("timeout_cb", p, 0, k)
    <2>1. c'.pcb = c.pcb
      BY <1>6, <1>l DEF Clients
    <2>2. UNCHANGED <<tls, ssl>>
      BY <1>3, <2>1 DEF AfterClose
    <2>3. ~tls.use_tls
      BY <1>3, <1>6, PcbAssumption DEF AckTimedOut, SessionInv, SessionThere, Secure
    <2>4. Reads(stack') = Reads(stack)
      BY <1>3, <1>6, <1>p
    <2> HIDE DEF l1
    <2>5. BufferFits'
      BY <1>6, <1>b DEF BufferFits
    <2> QED
      BY <1>2, <1>6, <2>1, <2>2, <2>3, <2>4, <2>5, PlainSession
  <1>7. CASE /\ ~CloseRequested /\ ~AckTimedOut /\ ~RxTimedOut /\ ~HandshakeTimedOut
             /\ c' = c /\ lw' = l1 /\ stack' = Push("poll_cb", p, 0, k)
    <2>1. UNCHANGED <<tls, ssl>>
      BY <1>3, <1>7 DEF AfterClose
    <2>2. Reads(stack') = Reads(stack)
      BY <1>3, <1>7, <1>p
    <2> HIDE DEF l1
    <2>3. BufferFits'
      BY <1>7, <1>b DEF BufferFits
    <2>4. Secure => ~c'.pcb_busy
      BY <1>7 DEF SessionInv, SessionThere
    <2>5. Secure /\ ~tls.handshake_done => c'.rx_age < HandshakeTimeout
      <3>1. c.rx_age \in Nat /\ HandshakeTimeout \in Nat
        BY <1>l, SizeAssumption, TlsAssumption DEF Clients
      <3> QED
        BY <1>7, <3>1 DEF HandshakeTimedOut, Secure
    <2>6. tls' \in TlsStates /\ tls'.use_tls = tls.use_tls /\ tls'.handshake_done = tls.handshake_done
      BY <2>1 DEF SessionInv, TlsTypes
    <2> QED
      BY <1>2, <1>7, <2>1, <2>2, <2>3, <2>4, <2>5, <2>6, ConnectionKept
  <1>8. \/ Close_(c, e1, l1, k)
        \/ Close_(c1, e1, l1, k)
        \/ AckTimedOut /\ c' = [c EXCEPT !.pcb_busy = FALSE] /\ lw' = l1
           /\ stack' = Push("timeout_cb", p, 0, k)
        \/ /\ ~CloseRequested /\ ~AckTimedOut /\ ~RxTimedOut /\ ~HandshakeTimedOut
           /\ c' = c /\ lw' = l1 /\ stack' = Push("poll_cb", p, 0, k)
    BY DEF Tls_poll, S_poll, Poll_
  <1> HIDE DEF c1, l1, e1, k
  <1> QED
    BY <1>5, <1>6, <1>7, <1>8
(* AsyncClient's own steps leave the calls of tcp_ssl_read() as they are.  *)
LEMMA PlainReads ==
    ASSUME TypeOK, Core, Next
    PROVE  Reads(stack') = Reads(stack)
  BY EveryStepHasAStackKind, ReadsKept

(* _recv() and _sent() of a plain client.                                  *)
LEMMA PlainRecvSession ==
    ASSUME TypeOK, Core, SessionInv, NEW p \in Pcbs, NEW n \in 1..MaxChain, NEW fin \in BOOLEAN,
           S_recv(p, n, fin), ~tls.use_tls, UNCHANGED <<tls, ssl>>, Reads(stack') = Reads(stack)
    PROVE  SessionInv'
  <1>l. lw \in LwType /\ c \in Clients
    BY DEF TypeOK, LwType
  <1>1. p = c.pcb
    BY CallableIsOwned DEF S_recv, Callbacks
  <1>2. c'.pcb = c.pcb
    BY <1>l DEF S_recv, Clients
  <1>3. lw' = [lw EXCEPT ![p].unrecved = @ + n, ![p].st = IF fin THEN "CLOSE_WAIT" ELSE @]
    BY DEF S_recv
  <1>4. \A q \in Pcbs : /\ lw'[q].st = lw[q].st \/ (q = c.pcb /\ lw'[q].st = "CLOSE_WAIT")
                        /\ lw'[q].unacked = lw[q].unacked
    BY <1>l, <1>1, <1>3 DEF LwType, PcbRecords
  <1>5. BufferFits'
    BY <1>4 DEF SessionInv, BufferFits
  <1> QED
    BY <1>2, <1>4, <1>5, PlainSession

(* _sent() of a plain connection leaves the sessions alone.                *)
LEMMA PlainSentSession ==
    ASSUME TypeOK, Core, SessionInv, NEW p \in Pcbs, NEW len \in 1..SndBuf,
           S_sent(p, len), ~tls.use_tls, UNCHANGED <<tls, ssl>>, Reads(stack') = Reads(stack)
    PROVE  SessionInv'
  <1>l. lw \in LwType /\ c \in Clients /\ len \in Nat /\ SndBuf \in Nat
    BY SizeAssumption DEF TypeOK, LwType
  <1>1. c'.pcb = c.pcb
    BY <1>l DEF S_sent, Clients
  <1>2. lw' = [lw EXCEPT ![p].unacked = @ - len] /\ len <= lw[p].unacked
    BY DEF S_sent
  <1>3. \A q \in Pcbs : lw'[q].st = lw[q].st /\ lw'[q].unacked <= lw[q].unacked
    <2>1. \A q \in Pcbs \ {p} : lw'[q] = lw[q]
      BY <1>l, <1>2 DEF LwType
    <2>2. lw'[p].st = lw[p].st /\ lw'[p].unacked = lw[p].unacked - len
      BY <1>l, <1>2 DEF LwType, PcbRecords
    <2>3. \A q \in Pcbs : lw[q].unacked \in Nat
      BY <1>l DEF LwType, PcbRecords
    <2> QED
      BY <1>l, <2>1, <2>2, <2>3
  <1>4. BufferFits'
    <2>1. \A q \in Pcbs : lw[q].unacked \in Nat /\ lw'[q].unacked \in Int
      BY <1>l, <1>2 DEF LwType, PcbRecords
    <2> QED
      BY <1>3, <1>l, <2>1 DEF SessionInv, BufferFits
  <1> QED
    BY <1>1, <1>3, <1>4, PlainSession

(* The peer's FIN alone.                                                   *)
LEMMA FinSession ==
    ASSUME TypeOK, Core, SessionInv, NEW p \in Pcbs, S_recv_fin(p), AfterClose,
           Reads(stack') = Reads(stack)
    PROVE  SessionInv'
  <1> DEFINE l1 == [lw EXCEPT ![p].st = "CLOSE_WAIT"]
  <1>l. lw \in LwType /\ c \in Clients
    BY DEF TypeOK, LwType
  <1>1. p = c.pcb
    BY CallableIsOwned DEF S_recv_fin, Callbacks
  <1>2. l1 \in LwType
    BY <1>l DEF LwType, PcbRecords, Open
  <1>3. \A q \in Pcbs : (l1[q].st = lw[q].st \/ q = c.pcb) /\ l1[q].unacked = lw[q].unacked
    BY <1>l, <1>1 DEF LwType, PcbRecords
  <1>4. \A q \in Pcbs : l1[q].unacked <= SndBuf
    BY <1>3 DEF SessionInv, BufferFits
  <1>5. Close_(c, et, l1, Push("ret", p, 0, <<>>))
    BY DEF S_recv_fin
  <1> HIDE DEF l1
  <1> QED
    BY <1>l, <1>2, <1>3, <1>4, <1>5, CloseSession

(* lwIP reports an error.                                                  *)
LEMMA FailSession ==
    ASSUME TypeOK, Core, SessionInv, NEW p \in Pcbs, Reads(stack') = Reads(stack),
           \/ S_failed(p) /\ UNCHANGED <<tls, ssl>>
           \/ (\E err \in {"ERR_RST", "ERR_ABRT"} : S_error(p, err)) /\ AfterError
    PROVE  SessionInv'
  <1>0. stack = <<>> /\ "err" \in lw[p].cbs /\ Reads(stack) = {}
    BY ReadsNone DEF S_failed, S_error, Idle
  <1>1. CASE S_failed(p) /\ UNCHANGED <<tls, ssl>>
    <2>1. PICK e0, k : Error_(c, e0, Release(lw, p, "detached"), p, k)
      BY <1>1 DEF S_failed
    <2> QED
      BY <1>0, <1>1, <2>1, ErrorSession
  <1>2. ASSUME NEW err, S_error(p, err), AfterError PROVE SessionInv'
    <2>1. PICK e0, k : Error_(c, e0, Release(lw, p, "freed"), p, k)
      BY <1>2 DEF S_error
    <2> QED
      BY <1>0, <1>2, <2>1, ErrorSession
  <1> QED
    BY <1>1, <1>2

(* The resolver answers.                                                   *)
LEMMA FoundSession ==
    ASSUME TypeOK, Core, SessionInv, Tls_dns_found
    PROVE  SessionInv'
  <1>1. c.pcb = NULL /\ ~Connecting /\ stack = <<>> /\ UNCHANGED <<c, ssl>>
    BY DEF Tls_dns_found, Core, OneAtATime, Idle
  <1>2. tls.use_tls \in BOOLEAN /\ tls.handshake_done \in BOOLEAN
    BY DEF SessionInv, TlsTypes, TlsStates
  <1>3. CASE Started(tls.use_tls, tls.handshake_done) /\ UNCHANGED stack
    BY <1>1, <1>2, <1>3, StartSession
  <1>4. CASE stack' = Push("error_cb", NULL, 0, <<>>) /\ UNCHANGED <<lw, tls>>
    <2>1. "error_cb" \in FrameKinds /\ NULL \in Pcbs \cup {NULL} /\ 0 \in Nat /\ <<>> \in Seq(Frames)
      BY EmptyStack DEF FrameKinds, Handlers
    <2>2. Reads(stack') = Reads(stack)
      BY <1>1, <1>4, <2>1, ReadsPush, ZenonT(60)
    <2>3. BufferFits'
      BY <1>4 DEF SessionInv, BufferFits
    <2> QED
      BY <1>1, <1>4, <2>2, <2>3, Untouched
  <1> QED
    BY <1>3, <1>4 DEF Tls_dns_found

(* lwIP's callbacks.                                                       *)
LEMMA StackSession ==
    ASSUME TypeOK, Core, SessionInv, TlsStack
    PROVE  SessionInv'
  <1>n. ASSUME NEW p \in Pcbs,
               \/ S_connected(p) \/ S_failed(p) \/ S_recv_fin(p)
               \/ \E n \in 1..MaxChain, fin \in BOOLEAN : S_recv(p, n, fin)
               \/ \E len \in 1..SndBuf : S_sent(p, len)
               \/ \E err \in {"ERR_RST", "ERR_ABRT"} : S_error(p, err)
        PROVE  Reads(stack') = Reads(stack)
    <2>1. Next
      BY <1>n DEF Next, Stack
    <2> QED
      BY <2>1, PlainReads
  <1>1. CASE PlainStack /\ UNCHANGED <<tls, ssl>>
    <2>1. ASSUME NEW p \in Pcbs, S_connected(p), ~tls.use_tls PROVE SessionInv'
      <3>1. Reads(stack') = {}
        BY <1>n, <2>1, ReadsNone DEF S_connected, Idle
      <3> QED
        BY <1>1, <2>1, <3>1, PlainConnectedSession
    <2>2. ASSUME NEW p \in Pcbs, S_failed(p) PROVE SessionInv'
      BY <1>1, <1>n, <2>2, FailSession
    <2>3. ASSUME NEW p \in Pcbs, NEW n \in 1..MaxChain, NEW fin \in BOOLEAN, S_recv(p, n, fin),
                 ~tls.use_tls
          PROVE  SessionInv'
      BY <1>1, <1>n, <2>3, PlainRecvSession
    <2>4. ASSUME NEW p \in Pcbs, NEW len \in 1..SndBuf, S_sent(p, len), ~tls.use_tls
          PROVE  SessionInv'
      BY <1>1, <1>n, <2>4, PlainSentSession
    <2> QED
      BY <1>1, <2>1, <2>2, <2>3, <2>4 DEF PlainStack
  <1>2. ASSUME NEW p \in Pcbs, Tls_connected(p) PROVE SessionInv'
    BY <1>2, ConnectedOrderly, TlsConnectedSession
  <1>3. ASSUME NEW p \in Pcbs, NEW fin \in BOOLEAN, Tls_recv(p, fin) PROVE SessionInv'
    BY <1>3, RecvSession
  <1>4. ASSUME NEW p \in Pcbs, S_recv_fin(p), AfterClose PROVE SessionInv'
    BY <1>4, <1>n, FinSession
  <1>5. ASSUME NEW p \in Pcbs, NEW len \in 1..SndBuf, Tls_sent(p, len) PROVE SessionInv'
    BY <1>5, SentOrderly, SentSession
  <1>6. ASSUME NEW p \in Pcbs, Tls_poll(p) PROVE SessionInv'
    BY <1>6, PollSession
  <1>7. ASSUME NEW p \in Pcbs, \E err \in {"ERR_RST", "ERR_ABRT"} : S_error(p, err), AfterError
        PROVE  SessionInv'
    BY <1>7, <1>n, FailSession
  <1>8. CASE Tick /\ UNCHANGED <<tls, ssl>>
    BY <1>8, TickSession
  <1> QED
    BY <1>1, <1>2, <1>3, <1>4, <1>5, <1>6, <1>7, <1>8, FoundSession DEF TlsStack
-----------------------------------------------------------------------------
(* Handlers return.                                                        *)

(* So does what runs after the handlers of a plain connection.             *)
LEMMA PlainReturnSession ==
    ASSUME TypeOK, Core, AbortQuiet, SessionInv, PlainReturn, UNCHANGED <<tls, ssl>>,
           Reads(stack') = Reads(stack)
    PROVE  SessionInv'
  <1>l. lw \in LwType /\ c \in Clients
    BY DEF TypeOK, LwType
  <1> DEFINE Kept == c'.pcb = c.pcb /\ c'.rx_age = c.rx_age /\ c'.pcb_busy = c.pcb_busy
             Calmly == \A q \in Pcbs : /\ lw'[q].st = lw[q].st /\ lw'[q].due = lw[q].due
                                       /\ lw'[q].unacked = lw[q].unacked
  <1>1. CASE UserReturn \/ SentReturn \/ ReturnToStack
    <2>1. Kept /\ lw' = lw
      BY <1>1, <1>l DEF UserReturn, SentReturn, ReturnToStack, Clients
    <2> QED
      BY <2>1, Untouched DEF SessionInv, BufferFits
  <1>2. CASE RecvReturn
    <2>1. Kept
      <3>1. PICK c0 \in {c, Defer(c)} : c' = c0 \/ c' = [c0 EXCEPT !.ack_pcb = TRUE]
        BY <1>2 DEF RecvReturn, NextPbuf
      <3>2. Defer(c).pcb = c.pcb /\ Defer(c).rx_age = c.rx_age /\ Defer(c).pcb_busy = c.pcb_busy
            /\ Defer(c) \in Clients
        BY <1>l DEF Defer, Clients
      <3>3. c0.pcb = c.pcb /\ c0.rx_age = c.rx_age /\ c0.pcb_busy = c.pcb_busy /\ c0 \in Clients
        BY <1>l, <3>2
      <3> QED
        BY <3>1, <3>3 DEF Clients
    <2>2. Calmly
      <3>1. lw' = lw \/ lw' = tcp_recved(lw, Head(stack).p, 1)
        BY <1>2 DEF RecvReturn, AckUnlessDeferred
      <3> QED
        BY <1>l, <3>1 DEF tcp_recved, LwType, PcbRecords
    <2> HIDE DEF Kept
    <2>3. BufferFits'
      BY <2>2 DEF SessionInv, BufferFits
    <2> QED
      BY <2>1, <2>2, <2>3, Untouched DEF Kept
  <1>3. CASE ErrorReturn
    <2>1. c' = c /\ (lw' = lw \/ lw' = [lw EXCEPT ![Head(stack).p].told = @ + 1])
      BY <1>3 DEF ErrorReturn, Discard
    <2>2. Calmly
      BY <1>l, <2>1 DEF LwType, PcbRecords
    <2>3. BufferFits'
      BY <2>2 DEF SessionInv, BufferFits
    <2> QED
      BY <2>1, <2>2, <2>3, Untouched
  <1>4. CASE AbortReturn
    <2>1. stack # <<>> /\ Head(stack).f = "abort" /\ stack \in Seq(Frames)
      BY <1>4 DEF AbortReturn, Top, TypeOK
    <2>2. InProgress("abort")
      <3>1. Head(stack) = stack[1] /\ 1 \in 1..Len(stack)
        BY <2>1, PopFrame
      <3> QED
        BY <2>1, <3>1 DEF InProgress
    <2>3. c.pcb = NULL
      BY <2>2 DEF AbortQuiet
    <2>4. Kept /\ lw' = lw
      BY <1>4, <1>l, <2>3 DEF AbortReturn, ForgetPcb, Clients
    <2> QED
      BY <2>4, Untouched DEF SessionInv, BufferFits
  <1> QED
    BY <1>1, <1>2, <1>3, <1>4 DEF PlainReturn

(* The FIN that came with data is delivered.                               *)
LEMMA FinAfterDataSession ==
    ASSUME TypeOK, Core, SessionInv, FinAfterData, AfterClose, Reads(stack') = Reads(stack)
    PROVE  SessionInv'
  <1>l. lw \in LwType /\ c \in Clients
    BY DEF TypeOK, LwType
  <1>b. \A q \in Pcbs : lw[q].unacked <= SndBuf
    BY DEF SessionInv, BufferFits
  <1>1. ASSUME NEW k, Close_(c, et, lw, k) PROVE SessionInv'
    BY <1>1, <1>l, <1>b, CloseSession
  <1>2. CASE UNCHANGED <<c, lw>>
    <2>1. UNCHANGED <<tls, ssl>>
      BY <1>2 DEF AfterClose
    <2>2. BufferFits'
      BY <1>2 DEF SessionInv, BufferFits
    <2> QED
      BY <1>2, <2>1, <2>2, Untouched
  <1> QED
    BY <1>1, <1>2 DEF FinAfterData

(* tcp_ssl_read() returns: a failed engine does not outlive it.            *)
LEMMA ReadReturnSession ==
    ASSUME TypeOK, Core, SessionInv, SslReadReturn
    PROVE  SessionInv'
  <1>l. lw \in LwType /\ c \in Clients
    BY DEF TypeOK, LwType
  <1>b. \A q \in Pcbs : lw[q].unacked <= SndBuf
    BY DEF SessionInv, BufferFits
  <1>r. Reading
    BY DEF SslReadReturn
  <1>1. Secure /\ c.pcb = Head(stack).p /\ Reads(stack) = Reads(Tail(stack)) \cup {c.pcb}
    BY <1>r, ReadingTop
  <1>2. \A p \in Reads(stack') : p \in Reads(stack)
    BY <1>1, ReadReturnOrderly
  <1>3. CASE Close_(c, et, lw, Tail(stack)) /\ AfterClose
    BY <1>2, <1>3, <1>l, <1>b, CloseSession
  <1>4. CASE ssl[Head(stack).p].eng # "closed" /\ UNCHANGED <<c, et, lw, tls, ssl>>
    <2>1. /\ TlsTypes' /\ BufferFits' /\ SessionOwned' /\ SessionThere' /\ HandshakeInTime'
          /\ AttemptFresh'
      BY <1>4 DEF SessionInv, TlsTypes, BufferFits, SessionOwned, Has, SessionThere, Secure,
                  HandshakeInTime, AttemptFresh, Connecting
    <2>2. ReadsCurrent'
      BY <1>2, <1>4 DEF SessionInv, ReadsCurrent
    <2>3. FailureSeen'
      BY <1>1, <1>4 DEF FailureSeen
    <2> QED
      BY <2>1, <2>2, <2>3 DEF SessionInv
  <1> QED
    BY <1>3, <1>4 DEF SslReadReturn

(* All returns.                                                            *)
LEMMA ReturnSession ==
    ASSUME TypeOK, Core, AbortQuiet, SessionInv, TlsReturn
    PROVE  SessionInv'
  <1>l. c \in Clients
    BY DEF TypeOK
  <1>1. CASE PlainReturn /\ UNCHANGED <<tls, ssl>>
    <2>1. Next
      BY <1>1 DEF PlainReturn, Next, Return
    <2> QED
      BY <1>1, <2>1, PlainReads, PlainReturnSession
  <1>2. CASE FinAfterData /\ AfterClose
    <2>1. Next
      BY <1>2 DEF Next, Return
    <2> QED
      BY <1>2, <2>1, PlainReads, FinAfterDataSession
  <1>3. CASE SslRun
    BY <1>3, RunOrderly, RunSession
  <1>4. CASE TlsUserReturn \/ TlsSentReturn
    <2>1. Reads(stack') = Reads(stack)
      BY <1>4, ReturnOrderly
    <2>2. UNCHANGED <<lw, tls, ssl>> /\ c'.pcb = c.pcb /\ c'.rx_age = c.rx_age /\ c'.pcb_busy = c.pcb_busy
      BY <1>4, <1>l DEF TlsUserReturn, TlsSentReturn, Clients
    <2>3. BufferFits'
      BY <2>2 DEF SessionInv, BufferFits
    <2> QED
      BY <2>1, <2>2, <2>3, Untouched
  <1>5. CASE TlsDtorReturn
    <2>1. Next
      BY <1>5 DEF TlsDtorReturn, Next, Return
    <2>2. Reads(stack') = Reads(stack)
      BY <2>1, PlainReads
    <2>3. UNCHANGED <<lw, ssl>> /\ c'.pcb = c.pcb /\ c'.rx_age = c.rx_age /\ c'.pcb_busy = c.pcb_busy
      BY <1>5, <1>l DEF TlsDtorReturn, DtorReturn, Clients
    <2>4. tls' \in TlsStates /\ tls'.use_tls = tls.use_tls /\ tls'.handshake_done = tls.handshake_done
      BY <1>5 DEF TlsDtorReturn, SessionInv, TlsTypes, TlsStates
    <2>5. BufferFits' /\ (Secure => ~c'.pcb_busy)
      BY <2>3 DEF SessionInv, BufferFits, SessionThere
    <2>6. Secure /\ ~tls.handshake_done =>
              c'.rx_age < HandshakeTimeout \/ (c'.rx_age = HandshakeTimeout /\ lw'[c.pcb].due)
      BY <2>3 DEF SessionInv, HandshakeInTime
    <2> QED
      BY <2>2, <2>3, <2>4, <2>5, <2>6, ConnectionKept
  <1> QED
    BY <1>1, <1>2, <1>3, <1>4, <1>5, ReadReturnSession DEF TlsReturn
-----------------------------------------------------------------------------
(* The application's calls.                                                *)

(* close(true), close() and delete.                                        *)
LEMMA CloseCallSession ==
    ASSUME TypeOK, Core, SessionInv, CloseNow \/ CloseLater \/ Delete, AfterClose,
           Reads(stack') = Reads(stack)
    PROVE  SessionInv'
  <1>l. lw \in LwType /\ c \in Clients
    BY DEF TypeOK, LwType
  <1>b. \A q \in Pcbs : lw[q].unacked <= SndBuf
    BY DEF SessionInv, BufferFits
  <1>1. /\ Reopened \in LwType
        /\ \A q \in Pcbs : /\ Reopened[q].st = lw[q].st /\ Reopened[q].due = lw[q].due
                           /\ Reopened[q].unacked = lw[q].unacked
    <2>1. c.rx_ack_len \in Nat
      BY <1>l DEF Clients
    <2>2. Reopened \in LwType
      BY <1>l, <2>1, PcbOperators DEF Reopened
    <2> QED
      BY <1>l, <2>2 DEF Reopened, tcp_recved, LwType, PcbRecords
  <1>2. \A q \in Pcbs : Reopened[q].unacked <= SndBuf
    BY <1>b, <1>1
  <1>3. CASE CloseNow
    <2>1. Close_(c, et, Reopened, stack)
      BY <1>3 DEF CloseNow
    <2> QED
      BY <1>1, <1>2, <1>l, <2>1, CloseSession
  <1>4. CASE CloseLater
    <2>1. c'.pcb = c.pcb /\ c'.rx_age = c.rx_age /\ c'.pcb_busy = c.pcb_busy /\ lw' = Reopened
      BY <1>4, <1>l DEF CloseLater, Clients
    <2>2. UNCHANGED <<tls, ssl>>
      BY <2>1 DEF AfterClose
    <2>3. BufferFits'
      BY <1>2, <2>1 DEF BufferFits
    <2> QED
      BY <1>1, <2>1, <2>2, <2>3, Untouched
  <1>5. CASE Delete
    <2>1. Close_(c, et, lw, Push("dtor", NULL, 0, stack))
      BY <1>5 DEF Delete
    <2> QED
      BY <1>b, <1>l, <2>1, CloseSession
  <1> QED
    BY <1>3, <1>4, <1>5

(* abort(), when there is a connection.                                    *)
LEMMA AbortSession ==
    ASSUME TypeOK, Core, SessionInv, Abort, AfterError, Reads(stack') = Reads(stack)
    PROVE  SessionInv'
  <1>1. c.pcb \in Pcbs /\ "err" \in lw[c.pcb].cbs
    BY DEF Abort, TypeOK, Clients, Core, PcbUsable, Callbacks
  <1>2. PICK e0, k : Error_(c, e0, Release(lw, c.pcb, "aborted"), c.pcb, k)
    BY DEF Abort
  <1> QED
    BY <1>1, <1>2, ErrorSession

(* send() and write() of a plain client: add() queues no more than fits.   *)
LEMMA PlainWriteSession ==
    ASSUME TypeOK, Core, SessionInv, UNCHANGED <<tls, ssl>>, ~tls.use_tls,
           Send \/ \E n \in 1..SndBuf : Write(n)
    PROVE  SessionInv'
  <1>l. lw \in LwType /\ c \in Clients /\ SndBuf \in Nat
    BY SizeAssumption DEF TypeOK, LwType
  <1>1. stack' = stack
    BY DEF Send, Write
  <1>2. CASE Send
    <2>1. c'.pcb = c.pcb /\ lw' = lw
      BY <1>2, <1>l DEF Send, Sent, Clients
    <2>2. BufferFits'
      BY <2>1 DEF SessionInv, BufferFits
    <2> QED
      BY <1>1, <2>1, <2>2, PlainSession
  <1>3. ASSUME NEW n \in 1..SndBuf, Write(n) PROVE SessionInv'
    <2>1. c'.pcb = c.pcb
      <3>1. Counted(n).pcb = c.pcb /\ Sent(Counted(n)).pcb = c.pcb
        BY <1>l DEF Counted, Sent, Clients
      <3> QED
        BY <1>3, <3>1 DEF Write
    <2>2. connected /\ space > 0 /\ lw' = Queued(n) /\ n \in Nat
      BY <1>3, <1>l DEF Write, space
    <2>3. c.pcb \in Pcbs /\ lw[c.pcb].unacked \in Nat /\ space = SndBuf - lw[c.pcb].unacked
      BY <1>l, <2>2 DEF connected, Clients, space, LwType, PcbRecords
    <2>4. lw[c.pcb].unacked + Fits(n) <= SndBuf
      BY <1>l, <2>2, <2>3 DEF Fits
    <2>5. /\ lw'[c.pcb].unacked = lw[c.pcb].unacked + Fits(n)
          /\ \A q \in Pcbs \ {c.pcb} : lw'[q] = lw[q]
          /\ lw'[c.pcb].st = lw[c.pcb].st
      BY <1>l, <2>2, <2>3 DEF Queued, LwType, PcbRecords
    <2>6. BufferFits'
      BY <2>4, <2>5 DEF SessionInv, BufferFits
    <2> QED
      BY <1>1, <2>1, <2>5, <2>6, PlainSession
  <1> QED
    BY <1>2, <1>3

(* ... and of a TLS client: the record goes out or waits in the engine.    *)
LEMMA TlsWriteSession ==
    ASSUME TypeOK, Core, SessionInv, NEW n \in 1..(SndBuf - 1), TlsWrite(n)
    PROVE  SessionInv'
  <1>l. lw \in LwType /\ c \in Clients /\ n \in Nat
    BY SizeAssumption DEF TypeOK, LwType
  <1> DEFINE p == c.pcb
  <1>1. /\ Secure /\ p \in Pcbs /\ ssl[p].eng = "ready"
        /\ c' = [c EXCEPT !.tx_unacked_len = @ + n] /\ UNCHANGED <<stack, tls>>
    BY WriteSecure
  <1>2. c'.pcb = c.pcb /\ c'.rx_age = c.rx_age /\ c'.pcb_busy = c.pcb_busy
    BY <1>1, <1>l DEF Clients
  <1>3. CASE lw[p].unacked + n + 1 <= SndBuf /\ lw' = [lw EXCEPT ![p].unacked = @ + n + 1] /\ UNCHANGED ssl
    <2>1. /\ lw'[p].unacked = lw[p].unacked + n + 1 /\ lw'[p].st = lw[p].st /\ lw'[p].due = lw[p].due
          /\ \A q \in Pcbs \ {p} : lw'[q] = lw[q]
      BY <1>l, <1>1, <1>3 DEF LwType, PcbRecords
    <2>2. BufferFits'
      BY <1>3, <2>1 DEF SessionInv, BufferFits
    <2> QED
      BY <1>1, <1>2, <1>3, <2>1, <2>2, Untouched
  <1>4. CASE ssl' = [ssl EXCEPT ![p].out = n + 1] /\ UNCHANGED lw
    <2>1. ssl \in SslType /\ ssl[p] \in Sessions /\ n + 1 \in Nat
      BY <1>1, <1>l DEF SessionInv, TlsTypes, SslType
    <2>2. ssl' \in SslType
      BY <1>4, <2>1 DEF SslType, Sessions
    <2>3. /\ ssl'[p].eng = ssl[p].eng /\ ssl'[p].done = ssl[p].done
          /\ \A q \in Pcbs \ {p} : ssl'[q] = ssl[q]
      BY <1>1, <1>4, <2>1 DEF SslType, Sessions
    <2>4. TlsTypes' /\ BufferFits' /\ AttemptFresh' /\ ReadsCurrent'
      BY <1>1, <1>2, <1>4, <2>2
         DEF SessionInv, TlsTypes, BufferFits, AttemptFresh, Connecting, ReadsCurrent
    <2>5. SessionOwned'
      BY <1>1, <1>2, <1>4, <2>3 DEF SessionInv, SessionOwned, Has
    <2>6. SessionThere' /\ HandshakeInTime'
      BY <1>1, <1>2, <1>4, <2>3 DEF SessionInv, SessionThere, HandshakeInTime, Secure
    <2>7. FailureSeen'
      BY <1>1, <1>2, <2>3 DEF FailureSeen
    <2> QED
      BY <2>4, <2>5, <2>6, <2>7 DEF SessionInv
  <1>5. CASE UNCHANGED <<lw, ssl>>
    <2>1. BufferFits'
      BY <1>5 DEF SessionInv, BufferFits
    <2> QED
      BY <1>1, <1>2, <1>5, <2>1, Untouched
  <1> QED
    BY <1>3, <1>4, <1>5, WriteSecure

(* All calls.                                                              *)
LEMMA CallSession ==
    ASSUME Overlap = FALSE, TypeOK, Core, SessionInv, TlsCall
    PROVE  SessionInv'
  <1>t. tls.handshake_done \in BOOLEAN /\ \A u \in TlsModes : u \in BOOLEAN
    BY TlsAssumption DEF SessionInv, TlsTypes, TlsStates
  <1>1. ASSUME NEW u \in TlsModes, TlsConnect(u) PROVE SessionInv'
    <2>1. /\ Started(u, tls.handshake_done) /\ c.pcb = NULL /\ ~Connecting
          /\ UNCHANGED <<c, stack, ssl>>
      BY <1>1 DEF TlsConnect, Quiet, Connecting
    <2> QED
      BY <1>t, <2>1, StartSession
  <1>2. ASSUME NEW u \in TlsModes, TlsConnectHost(u) PROVE SessionInv'
    <2>1. c.pcb = NULL /\ ~Connecting /\ UNCHANGED <<c, stack, ssl>>
      BY <1>2 DEF TlsConnectHost, Quiet, Connecting
    <2>2. CASE Started(u, FALSE)
      BY <1>t, <2>1, <2>2, StartSession
    <2>3. CASE tls' = [tls EXCEPT !.use_tls = u, !.handshake_done = FALSE] /\ UNCHANGED lw
      BY <1>t, <2>1, <2>3, LookupSession
    <2> QED
      BY <1>2, <2>2, <2>3 DEF TlsConnectHost
  <1>3. CASE (CloseNow \/ CloseLater \/ Delete) /\ AfterClose
    <2>1. Next
      BY <1>3 DEF Next, Call
    <2> QED
      BY <1>3, <2>1, PlainReads, CloseCallSession
  <1>4. CASE Abort /\ AfterError
    <2>1. Next
      BY <1>4 DEF Next, Call
    <2> QED
      BY <1>4, <2>1, PlainReads, AbortSession
  <1>5. CASE ~tls.use_tls /\ (Send \/ \E n \in 1..SndBuf : Write(n)) /\ UNCHANGED <<tls, ssl>>
    BY <1>5, PlainWriteSession
  <1>6. ASSUME NEW n \in 1..(SndBuf - 1), TlsWrite(n) PROVE SessionInv'
    BY <1>6, TlsWriteSession
  <1> QED
    BY <1>1, <1>2, <1>3, <1>4, <1>5, <1>6 DEF TlsCall

-----------------------------------------------------------------------------
(* Both invariants together are inductive.                                 *)
TlsInv == AnnounceInv /\ SessionInv

(* It holds at the start.                                                  *)
LEMMA TlsStart ==
    ASSUME Overlap = FALSE
    PROVE  TlsInit => TlsInv
  <1> SUFFICES ASSUME TlsInit PROVE TlsInv
    OBVIOUS
  <1>1. AnnounceInv
    BY AnnounceInductive DEF TlsInit
  <1>2. /\ tls = [use_tls |-> FALSE, handshake_done |-> FALSE, has_client |-> TRUE]
        /\ ssl = [p \in Pcbs |-> NoSession] /\ Reads(stack) = {}
    BY ReadsNone DEF TlsInit, Init
  <1>3. NoSession \in Sessions /\ NoSession.eng = "none"
    BY DEF NoSession, Sessions
  <1>4. TlsTypes /\ SessionOwned
    BY <1>2, <1>3 DEF TlsTypes, TlsStates, SslType, SessionOwned, Has
  <1>5. BufferFits
    <2>1. \A p \in Pcbs : lw[p].unacked = 0
      BY DEF TlsInit, Init, NewPcb
    <2> QED
      BY <2>1, SizeAssumption DEF BufferFits
  <1>6. ~Secure
    BY <1>2 DEF Secure
  <1>7. SessionThere /\ HandshakeInTime /\ FailureSeen
    BY <1>6 DEF SessionThere, HandshakeInTime, FailureSeen
  <1>8. AttemptFresh /\ ReadsCurrent
    BY <1>2 DEF AttemptFresh, ReadsCurrent
  <1> QED
    BY <1>1, <1>4, <1>5, <1>7, <1>8 DEF TlsInv, SessionInv

(* One step, and what kind of step it is to AsyncClient.                   *)
LEMMA TlsStep ==
    ASSUME Overlap = FALSE, TlsInv, TlsNext
    PROVE  TlsInv' /\ StepKind
  <1>1. AnnounceInv' /\ StepKind
    BY TlsAnnounceStep DEF TlsInv
  <1>2. SessionInv'
    BY StackSession, ReturnSession, CallSession DEF TlsNext, TlsInv, AnnounceInv, OwnershipInv
  <1> QED
    BY <1>1, <1>2 DEF TlsInv

(* And every step, or none, keeps it.                                      *)
LEMMA TlsInductive ==
    ASSUME Overlap = FALSE
    PROVE  TlsInv /\ [TlsNext]_tlsVars => TlsInv'
  <1>1. ASSUME TlsInv, TlsNext PROVE TlsInv'
    BY <1>1, TlsStep
  <1>2. ASSUME TlsInv, UNCHANGED tlsVars PROVE TlsInv'
    <2>1. AnnounceInv'
      <3>1. UNCHANGED vars
        BY <1>2 DEF tlsVars
      <3> QED
        BY <1>2, <3>1, AnnounceInductive DEF TlsInv
    <2>2. /\ c' = c /\ lw' = lw /\ stack' = stack /\ tls' = tls /\ ssl' = ssl
      BY <1>2 DEF tlsVars, vars
    <2>3. Reads(stack') = Reads(stack) /\ BufferFits' /\ TypeOK /\ Core /\ SessionInv
      BY <1>2, <2>2 DEF TlsInv, AnnounceInv, OwnershipInv, SessionInv, BufferFits
    <2>4. SessionInv'
      BY <2>2, <2>3, Untouched
    <2> QED
      BY <2>1, <2>4 DEF TlsInv
  <1> QED
    BY <1>1, <1>2

(* Types in a build with TLS: no record overruns the send buffer, and the  *)
(* tables of sessions stay what they are.                                  *)
THEOREM TlsTypeCorrect ==
    ASSUME Overlap = FALSE
    PROVE  TlsSpec => []TlsTypeOK
  <1>1. TlsInv => TlsTypeOK
    BY DEF TlsInv, SessionInv, TlsTypes, BufferFits, TlsTypeOK, TlsStates, SslType
  <1> QED
    BY <1>1, TlsStart, TlsInductive, PTL DEF TlsSpec

(* Plain or TLS, whatever the application calls and from whichever         *)
(* handler: _pcb is usable, and nobody else holds a pointer to the client. *)
THEOREM TlsOwnership ==
    ASSUME Overlap = FALSE
    PROVE  TlsSpec => [](PcbUsable /\ CallbacksOwned)
  <1>1. TlsInv => PcbUsable /\ CallbacksOwned
    BY DEF TlsInv, AnnounceInv, OwnershipInv, Core, CallbacksOwned
  <1> QED
    BY <1>1, TlsStart, TlsInductive, PTL DEF TlsSpec

(* tcp_ssl_pcbs holds a session for the TLS connection in _pcb and for no  *)
(* other pcb: _close() and _error() never leave one behind, save for the   *)
(* pcb that _recv() let go when it was called with an error.               *)
THEOREM SessionsOwned ==
    ASSUME Overlap = FALSE
    PROVE  TlsSpec => []SessionOwned
  <1>1. TlsInv => SessionOwned
    BY DEF TlsInv, SessionInv
  <1> QED
    BY <1>1, TlsStart, TlsInductive, PTL DEF TlsSpec

(* When lwIP runs again a TLS connection has a session whose engine has    *)
(* not failed, and connected() agrees with it on the handshake.            *)
THEOREM SessionsWork ==
    ASSUME Overlap = FALSE
    PROVE  TlsSpec => []SessionWorks
  <1>1. TlsInv => SessionWorks
    <2> SUFFICES ASSUME TlsInv, stack = <<>>, Secure
                 PROVE  /\ ssl[c.pcb].eng \in {"handshake", "ready"}
                        /\ tls.handshake_done <=> ssl[c.pcb].done
      BY DEF SessionWorks, Secure
    <2>1. Reads(stack) = {}
      BY ReadsNone
    <2>2. c.pcb \in Pcbs /\ ssl[c.pcb] \in Sessions
      BY DEF Secure, TlsInv, AnnounceInv, OwnershipInv, TypeOK, Clients, SessionInv, TlsTypes, SslType
    <2>3. ssl[c.pcb].eng # "closed" /\ ssl[c.pcb].eng # "none"
      BY <2>1 DEF TlsInv, SessionInv, FailureSeen, SessionThere
    <2>4. tls.handshake_done <=> ssl[c.pcb].done
      BY DEF TlsInv, SessionInv, SessionThere
    <2> QED
      BY <2>2, <2>3, <2>4 DEF Sessions
  <1> QED
    BY <1>1, TlsStart, TlsInductive, PTL DEF TlsSpec

(* A handshake is never silent for longer than the timeout and the poll    *)
(* that is due then: whatever _poll() does instead of looking at the       *)
(* handshake timeout, it does not let the handshake go on.                 *)
THEOREM HandshakeIsBounded ==
    ASSUME Overlap = FALSE
    PROVE  TlsSpec => []HandshakeBounded
  <1>1. TlsInv => HandshakeBounded
    BY DEF TlsInv, SessionInv, HandshakeInTime, HandshakeBounded, Secure
  <1> QED
    BY <1>1, TlsStart, TlsInductive, PTL DEF TlsSpec

(* onDisconnect comes exactly once for each connection or attempt, plain   *)
(* or TLS, that ended.                                                     *)
THEOREM TlsDisconnectsOnce ==
    ASSUME Overlap = FALSE
    PROVE  TlsSpec => []DisconnectOnce
  <1>1. TlsInv => DisconnectOnce
    <2> SUFFICES ASSUME TlsInv PROVE DisconnectOnce
      OBVIOUS
    <2>1. stack = <<>> => \A p : ~Erring(stack, p)
      BY EmptyStack DEF Erring
    <2> QED
      BY <2>1 DEF TlsInv, AnnounceInv, Announced, DisconnectOnce
  <1> QED
    BY <1>1, TlsStart, TlsInductive, PTL DEF TlsSpec

(* The client of a build with TLS implements ConnectionLife, too.          *)
THEOREM TlsImplementsLife ==
    ASSUME Overlap = FALSE
    PROVE  TlsSpec => Lifecycle
  <1>1. TlsInv /\ TlsInv' /\ [TlsNext]_tlsVars => [Life!LifeNext]_PhaseMap
    <2> SUFFICES ASSUME TlsInv, TlsInv', [TlsNext]_tlsVars
                 PROVE  Life!LifeNext \/ PhaseMap' = PhaseMap
      OBVIOUS
    <2>1. CASE TlsNext
      <3>1. StepKind /\ AnnounceInv /\ AnnounceInv'
        BY <2>1, TlsStep DEF TlsInv
      <3> QED
        BY <3>1, LifeStep
    <2>2. CASE UNCHANGED tlsVars
      BY <2>2 DEF tlsVars, vars, PhaseMap, Phase
    <2> QED
      BY <2>1, <2>2
  <1>2. TlsInit => Life!LifeInit
    BY LifeStart DEF TlsInit
  <1> QED
    BY <1>1, <1>2, TlsStart, TlsInductive, PTL DEF TlsSpec, Lifecycle, Life!LifeSpec, PhaseMap
-----------------------------------------------------------------------------
(* tcp_ssl_read() and the handlers it calls.  It goes on with its session  *)
(* after them: an application that ends the connection in one of them      *)
(* takes the session away from it.                                         *)
SparesReads ==
    \A method \in {"closeNow", "abort", "delete"}, f \in ReadHandlers \cup {"ssl_read"} :
        <<method, f>> \notin App

(* There is at most one call of tcp_ssl_read(), on top of the stack or     *)
(* just below a handler it called, and its connection is still there.      *)
ReadsOnTop(k) ==
    \/ Reads(k) = {}
    \/ k # <<>> /\ Head(k).f = "ssl_read" /\ Reads(Tail(k)) = {}
    \/ /\ k # <<>> /\ Head(k).f \in ReadHandlers
       /\ Tail(k) # <<>> /\ Head(Tail(k)).f = "ssl_read" /\ Reads(Tail(Tail(k))) = {}

ReadsOpen == \A p \in Reads(stack) : c.pcb = p /\ tls.use_tls

(* _recv() calls it, on the connection in _pcb.                            *)
LEMMA ReadBegins ==
    ASSUME TypeOK, Core, NEW p \in Pcbs, NEW fin \in BOOLEAN, Tls_recv(p, fin), SessionInv
    PROVE  \/ Reads(stack') = {}
           \/ ReadsOnTop(stack') /\ Reads(stack') = {p} /\ c'.pcb = p /\ tls'.use_tls
  <1> DEFINE k == Push("ret", p, 0, IF fin THEN Push("fin", p, 0, <<>>) ELSE <<>>)
  <1>1. p = c.pcb /\ tls.use_tls
    BY CallableIsOwned DEF Tls_recv, Callbacks
  <1>2. k \in Seq(Frames) /\ Reads(k) = {}
    BY Called
  <1>3. Reads(stack') = {} \/ Reads(stack') = {p}
    BY RecvOrderly
  <1>4. CASE \E n \in 1..MaxRuns : stack' = Push("ssl_read", p, n, k) /\ c' = [c EXCEPT !.rx_age = 0]
                                   /\ UNCHANGED tls
    <2> HIDE DEF k
    <2>1. ReadsOnTop(stack')
      <3>1. PICK n : stack' = Push("ssl_read", p, n, k)
        BY <1>4
      <3>2. stack' # <<>> /\ Head(stack').f = "ssl_read" /\ Tail(stack') = k
        BY <1>2, <3>1 DEF Push, Frame
      <3> QED
        BY <1>2, <3>2 DEF ReadsOnTop
    <2>2. c'.pcb = p /\ tls'.use_tls
      BY <1>1, <1>4 DEF TypeOK, Clients
    <2> QED
      BY <1>3, <2>1, <2>2
  <1>5. CASE \E c1, e1, l1 : c1 \in Clients /\ l1 \in LwType /\ Close_(c1, e1, l1, k)
    <2> HIDE DEF k
    <2> QED
      BY <1>2, <1>5, CloseReads
  <1>6. [c EXCEPT !.rx_age = 0] \in Clients
    BY DEF TypeOK, Clients
  <1>7. [lw EXCEPT ![p].st = IF fin THEN "CLOSE_WAIT" ELSE @] \in LwType
    BY DEF TypeOK, LwType, PcbRecords, Open
  <1> QED
    BY <1>4, <1>5, <1>6, <1>7 DEF Tls_recv

(* A round of process_ssl_engine() leaves it there, perhaps below a handler.*)
LEMMA ReadGoesOn ==
    ASSUME TypeOK, SessionInv, SslRun, ReadsOnTop(stack)
    PROVE  ReadsOnTop(stack') /\ Reads(stack') = Reads(stack) /\ c' = c /\ tls'.use_tls = tls.use_tls
  <1> DEFINE p == Head(stack).p
  <1>r. Reading /\ Head(stack).n > 0
    BY DEF SslRun
  <1>1. /\ p \in Pcbs /\ stack # <<>> /\ Head(stack).f = "ssl_read" /\ Head(stack).n \in Nat
        /\ Tail(stack) \in Seq(Frames) /\ stack \in Seq(Frames)
    BY <1>r, ReadingTop DEF TypeOK
  <1>2. Reads(Tail(stack)) = {}
    <2>1. Head(stack).f \notin ReadHandlers /\ Reads(stack) # {}
      BY <1>1, <1>r, ReadingTop DEF ReadHandlers
    <2> QED
      BY <2>1 DEF ReadsOnTop
  <1>3. c' = c /\ Reads(stack') = Reads(stack)
    BY RunOrderly DEF SslRun, EngineFailed
  <1>4. tls'.use_tls = tls.use_tls
    BY DEF SslRun, EngineFailed, SessionInv, TlsTypes, TlsStates
  <1>5. ReadsOnTop(stack')
    <2>1. CASE stack' = stack
      BY <2>1
    <2>2. CASE stack' = Push("data_cb", p, 0, stack)
      <3>1. stack' # <<>> /\ Head(stack').f = "data_cb" /\ Tail(stack') = stack
        BY <1>1, <2>2 DEF Push, Frame
      <3> QED
        BY <1>1, <1>2, <3>1 DEF ReadsOnTop, ReadHandlers
    <2>3. ASSUME NEW f, NEW s, RunOver(f, s), f \in ReadHandlers \/ f = "none"
          PROVE  ReadsOnTop(stack')
      <3> DEFINE n == IF s.eng = "closed" /\ Head(stack).n > 1 THEN 1 ELSE Head(stack).n - 1
                 below == Push("ssl_read", p, n, Tail(stack))
      <3>1. stack' = below \/ (f \in ReadHandlers /\ stack' = Push(f, p, 0, below))
        BY <2>3 DEF RunOver, ReadHandlers
      <3>2. n \in Nat
        BY <1>1, <1>r
      <3> HIDE DEF n
      <3>3. /\ below \in Seq(Frames) /\ below # <<>> /\ Head(below).f = "ssl_read"
            /\ Tail(below) = Tail(stack)
        <4>1. "ssl_read" \in FrameKinds /\ p \in Pcbs \cup {NULL}
          BY <1>1 DEF FrameKinds
        <4>2. below \in Seq(Frames)
          BY <1>1, <3>2, <4>1, PushFrame
        <4> QED
          BY <1>1, <4>2 DEF Push, Frame
      <3> HIDE DEF below
      <3>4. CASE f \in ReadHandlers /\ stack' = Push(f, p, 0, below)
        <4>1. stack' # <<>> /\ Head(stack').f = f /\ Tail(stack') = below
          BY <3>3, <3>4 DEF Push, Frame
        <4> QED
          BY <1>2, <3>3, <3>4, <4>1 DEF ReadsOnTop
      <3> QED
        BY <1>2, <3>1, <3>3, <3>4 DEF ReadsOnTop
    <2>4. "ssl_error_cb" \in ReadHandlers /\ "handshake_cb" \in ReadHandlers
      BY DEF ReadHandlers
    <2> QED
      BY <2>1, <2>2, <2>3, <2>4 DEF SslRun, EngineFailed
  <1> QED
    BY <1>3, <1>4, <1>5

ReadInv == TlsInv /\ ReadsOnTop(stack) /\ ReadsOpen

(* Without a call in progress one may begin.                               *)
LEMMA ReadStepNone ==
    ASSUME Overlap = FALSE, TypeOK, Core, SessionInv, Reads(stack) = {}, TlsNext
    PROVE  ReadsOnTop(stack') /\ ReadsOpen'
  <1>0. CASE Reads(stack') = {}
    BY <1>0 DEF ReadsOnTop, ReadsOpen
  <1>1. CASE Next
    BY <1>0, <1>1, PlainReads
  <1>2. ASSUME NEW p \in Pcbs, NEW fin \in BOOLEAN, Tls_recv(p, fin)
        PROVE  ReadsOnTop(stack') /\ ReadsOpen'
    <2>1. CASE Reads(stack') = {p} /\ ReadsOnTop(stack') /\ c'.pcb = p /\ tls'.use_tls
      BY <2>1 DEF ReadsOpen
    <2> QED
      BY <1>0, <1>2, <2>1, ReadBegins
  <1>3. Reading => FALSE
    BY ReadingTop
  <1>4. CASE TlsOnly
    <2>1. ASSUME NEW p \in Pcbs, \/ Tls_connected(p) \/ HandshakeTimeoutPoll(p)
                                 \/ \E len \in 1..SndBuf : Tls_sent(p, len)
          PROVE  Reads(stack') = {}
      BY <2>1, ConnectedOrderly, SentOrderly, TimeoutOrderly
    <2>2. ASSUME TlsUserReturn \/ TlsSentReturn \/ \E n \in 1..(SndBuf - 1) : TlsWrite(n)
          PROVE  Reads(stack') = {}
      BY <2>2, ReturnOrderly, WriteOrderly
    <2>3. ~SslRun /\ ~SslReadReturn
      BY <1>3 DEF SslRun, SslReadReturn
    <2> QED
      BY <1>0, <1>2, <1>4, <2>1, <2>2, <2>3 DEF TlsOnly
  <1> QED
    BY <1>1, <1>4, PlainOrTls

(* With one, it is its turn or that of the handler it called.              *)
LEMMA ReadStepSome ==
    ASSUME Overlap = FALSE, SparesReads, TypeOK, Core, SessionInv, ReadsOnTop(stack), ReadsOpen,
           Reads(stack) # {}, TlsNext
    PROVE  ReadsOnTop(stack') /\ ReadsOpen'
  <1>1. /\ stack # <<>> /\ Head(stack).f \in ReadHandlers \cup {"ssl_read"} /\ stack \in Seq(Frames)
        /\ c.pcb # NULL /\ tls.use_tls
    <2>1. PICK p : p \in Reads(stack)
      OBVIOUS
    <2>2. p \in Pcbs /\ c.pcb = p /\ tls.use_tls
      BY <2>1 DEF ReadsOpen, SessionInv, ReadsCurrent
    <2>3. c.pcb # NULL
      BY <2>2, PcbAssumption
    <2> QED
      BY <2>2, <2>3 DEF ReadsOnTop, TypeOK
  <1> DEFINE F == Head(stack).f
  <1>2. /\ F \notin {"connect_cb", "timeout_cb", "poll_cb", "discard_cb", "recv_cb", "sent_cb",
                     "error_cb", "abort", "ret", "fin", "dtor", "unvalidated", "tls_sent_cb"}
    BY <1>1 DEF ReadHandlers
  <1>3. ~TlsStack
    BY <1>1 DEF TlsStack, PlainStack, S_connected, S_failed, S_recv, S_sent, Tls_connected, Tls_recv,
                S_recv_fin, Tls_sent, Tls_poll, S_poll, S_error, Tls_dns_found, Tick, Idle
  <1>4. CASE TlsReturn
    <2>1. ~PlainReturn /\ ~FinAfterData /\ ~TlsSentReturn /\ ~TlsDtorReturn
      BY <1>2 DEF PlainReturn, UserReturn, RecvReturn, SentReturn, ErrorReturn, AbortReturn,
                  ReturnToStack, FinAfterData, TlsSentReturn, TlsDtorReturn, DtorReturn, Top
    <2>2. CASE SslRun
      BY <2>2, ReadGoesOn DEF ReadsOpen
    <2>3. CASE SslReadReturn
      <3>1. Reading
        BY <2>3 DEF SslReadReturn
      <3>2. Reads(Tail(stack)) = {}
        <4>1. Head(stack).f = "ssl_read"
          BY <3>1, ReadingTop
        <4> QED
          BY <4>1 DEF ReadsOnTop, ReadHandlers
      <3>3. Reads(stack') = {}
        BY <2>3, <3>2, ReadReturnOrderly
      <3> QED
        BY <3>3 DEF ReadsOnTop, ReadsOpen
    <2>4. CASE TlsUserReturn
      <3>1. stack' = Tail(stack) /\ c' = c /\ tls' = tls /\ Reads(stack') = Reads(stack)
        BY <2>4, ReturnOrderly DEF TlsUserReturn
      <3>2. F \in ReadHandlers
        BY <1>1, <2>4 DEF TlsUserReturn, Top
      <3>3. ReadsOnTop(stack')
        BY <3>1, <3>2 DEF ReadsOnTop, ReadHandlers
      <3> QED
        BY <3>1, <3>3 DEF ReadsOpen
    <2> QED
      BY <1>4, <2>1, <2>2, <2>3, <2>4 DEF TlsReturn
  <1>5. CASE TlsCall
    <2>1. ~CloseNow /\ ~Delete /\ ~Abort
      BY <1>1 DEF SparesReads, CloseNow, Delete, Abort, MayCall, Context
    <2>2. ASSUME NEW u PROVE ~TlsConnect(u) /\ ~TlsConnectHost(u)
      BY <1>1 DEF TlsConnect, TlsConnectHost, Quiet
    <2>3. stack' = stack /\ c'.pcb = c.pcb /\ tls' = tls
      <3>1. CASE CloseLater /\ AfterClose
        <4>1. c'.pcb = c.pcb /\ stack' = stack
          BY <3>1 DEF CloseLater, TypeOK, Clients
        <4> QED
          BY <3>1, <4>1 DEF AfterClose
      <3>2. ASSUME NEW n \in 1..(SndBuf - 1), TlsWrite(n) PROVE stack' = stack /\ c'.pcb = c.pcb /\ tls' = tls
        <4>1. c' = [c EXCEPT !.tx_unacked_len = @ + n] /\ UNCHANGED <<stack, tls>>
          BY <3>2, WriteSecure
        <4> QED
          BY <4>1 DEF TypeOK, Clients
      <3> QED
        BY <1>1, <1>5, <2>1, <2>2, <3>1, <3>2 DEF TlsCall
    <2> QED
      BY <2>3 DEF ReadsOpen
  <1> QED
    BY <1>3, <1>4, <1>5 DEF TlsNext

(* An application that ends no connection from the handlers tcp_ssl_read() *)
(* calls never takes the session away from it: what it goes on with after  *)
(* a handler has not been freed.                                           *)
THEOREM ReadsKeepTheirSession ==
    ASSUME Overlap = FALSE, SparesReads
    PROVE  TlsSpec => []NoStaleSession
  <1>1. TlsInit => ReadInv
    <2>1. TlsInit => Reads(stack) = {}
      BY ReadsNone DEF TlsInit, Init
    <2> QED
      BY <2>1, TlsStart DEF ReadInv, ReadsOnTop, ReadsOpen
  <1>2. ReadInv /\ [TlsNext]_tlsVars => ReadInv'
    <2>1. ASSUME ReadInv, TlsNext PROVE ReadInv'
      <3>1. ReadsOnTop(stack') /\ ReadsOpen'
        BY <2>1, ReadStepNone, ReadStepSome DEF ReadInv, TlsInv, AnnounceInv, OwnershipInv
      <3>2. TlsInv'
        BY <2>1, TlsStep DEF ReadInv
      <3> QED
        BY <3>1, <3>2 DEF ReadInv
    <2>2. ASSUME ReadInv, UNCHANGED tlsVars PROVE ReadInv'
      <3>1. TlsInv'
        BY <2>2, TlsInductive DEF ReadInv
      <3>2. stack' = stack /\ c' = c /\ tls' = tls
        BY <2>2 DEF tlsVars, vars
      <3> QED
        BY <2>2, <3>1, <3>2 DEF ReadInv, ReadsOpen
    <2> QED
      BY <2>1, <2>2
  <1>3. ReadInv => NoStaleSession
    <2> SUFFICES ASSUME ReadInv, NEW i \in 1..Len(stack), stack[i].f = "ssl_read"
                 PROVE  Has(stack[i].p)
      BY DEF NoStaleSession
    <2>1. stack[i].p \in Reads(stack)
      BY DEF Reads
    <2>2. stack[i].p \in Pcbs /\ c.pcb = stack[i].p /\ tls.use_tls
      BY <2>1 DEF ReadInv, ReadsOpen, TlsInv, SessionInv, ReadsCurrent
    <2> QED
      BY <2>2, PcbAssumption DEF ReadInv, TlsInv, SessionInv, SessionThere, Secure, Has
  <1> QED
    BY <1>1, <1>2, <1>3, PTL DEF TlsSpec
-----------------------------------------------------------------------------
(* What the steps of a build with TLS do to the stack, and who takes them. *)

(* What a callback of lwIP leaves below the handler it calls.              *)
Base(p, fin) == Push("ret", p, 0, IF fin THEN Push("fin", p, 0, <<>>) ELSE <<>>)

Entries == {"connect_cb", "recv_cb", "pb_cb", "sent_cb", "timeout_cb", "poll_cb",
            "discard_cb", "tls_sent_cb", "ssl_read"}

Entered(p) ==
    /\ stack = <<>> /\ c.alive /\ lw[p].st \in Open
    /\ \E fin \in BOOLEAN :
         \/ stack' = Base(p, fin)
         \/ \E f \in Entries, n \in Nat :
              stack' = Push(f, p, n, Base(p, fin)) /\ (f = "recv_cb" => c'.pcb = p)
         \/ stack' = Push("discard_cb", p, 0, Push("unvalidated", p, 0, Base(p, fin)))

Failed ==
    /\ stack = <<>> /\ c.alive
    /\ \E p \in Pcbs \cup {NULL} :
         stack' \in {Push("error_cb", p, 0, <<>>), Push("error_cb", p, 0, Push("ret", p, 0, <<>>))}

Unmoved == stack' = stack /\ c'.pcb = c.pcb

Popped == stack # <<>> /\ stack' = Tail(stack)

PbufNext ==
    /\ Top("recv_cb") /\ c.alive /\ c'.pcb = c.pcb
    /\ \E f \in {"recv_cb", "pb_cb"}, n \in Nat : stack' = Push(f, Head(stack).p, n, Tail(stack))

ErrorTold == Top("error_cb") /\ c.alive /\ stack' = Push("discard_cb", Head(stack).p, 0, Tail(stack))

ReadMoves ==
    /\ Reading
    /\ \/ stack' = Push("data_cb", Head(stack).p, 0, stack)
       \/ \E n \in Nat :
            LET k == Push("ssl_read", Head(stack).p, n, Tail(stack))
            IN  stack' = k \/ \E f \in ReadHandlers : stack' = Push(f, Head(stack).p, 0, k)
       \/ stack' = Push("discard_cb", Head(stack).p, 0, Tail(stack))

FinCalled ==
    /\ Top("fin")
    /\ LET k == Push("ret", Head(stack).p, 0, Tail(stack))
       IN  stack' = k \/ (c.pcb \in Pcbs /\ stack' = Push("discard_cb", c.pcb, 0, k))

Closed == MayCall("closeNow") /\ c.pcb \in Pcbs /\ stack' = Push("discard_cb", c.pcb, 0, stack)

Deleted ==
    /\ MayCall("delete") /\ ~InProgress("dtor")
    /\ LET k == Push("dtor", NULL, 0, stack)
       IN  stack' = k \/ (c.pcb \in Pcbs /\ stack' = Push("discard_cb", c.pcb, 0, k))

Aborted ==
    /\ MayCall("abort") /\ c.pcb \in Pcbs
    /\ stack' = Push("error_cb", c.pcb, 0, Push("abort", c.pcb, 0, stack))

TlsStackKind ==
    \/ Unmoved \/ Popped \/ Failed \/ PbufNext \/ ErrorTold \/ ReadMoves \/ FinCalled
    \/ Closed \/ Deleted \/ Aborted
    \/ \E p \in Pcbs : Entered(p)

(* A callback that closes the connection in _pcb.                          *)
LEMMA CloseEnters ==
    ASSUME NEW p \in Pcbs, stack = <<>>, c.alive, lw[p].st \in Open, NEW fin \in BOOLEAN,
           NEW c0 \in Clients, c0.pcb = p, NEW e0, NEW l0 \in LwType,
           Close_(c0, e0, l0, Base(p, fin))
    PROVE  Entered(p)
  <1>1. stack' = Push("discard_cb", p, 0, Base(p, fin))
    BY CloseStack, PcbAssumption
  <1>2. "discard_cb" \in Entries /\ 0 \in Nat
    BY DEF Entries
  <1> HIDE DEF Base
  <1> QED
    BY <1>1, <1>2 DEF Entered

(* lwIP's callbacks.                                                       *)
LEMMA StackEnters ==
    ASSUME TypeOK, Core, TlsStack
    PROVE  TlsStackKind
  <1> USE PcbAssumption
  <1>l. lw \in LwType /\ c \in Clients /\ stack \in Seq(Frames)
    BY DEF TypeOK, LwType
  <1>b. \A p : Base(p, FALSE) = Push("ret", p, 0, <<>>)
    BY DEF Base
  <1>e. ASSUME NEW p \in Pcbs, stack = <<>>, c.alive, lw[p].st \in Open,
               NEW f, f \in Entries, NEW n, n \in Nat, NEW fin, fin \in BOOLEAN,
               stack' = Push(f, p, n, Base(p, fin)), f = "recv_cb" => c'.pcb = p
        PROVE  TlsStackKind
    <2> HIDE DEF Entries, Base
    <2> QED
      BY <1>e DEF TlsStackKind, Entered
  <1>r. ASSUME NEW p \in Pcbs, stack = <<>>, c.alive, lw[p].st \in Open, stack' = Base(p, FALSE)
        PROVE  TlsStackKind
    <2> HIDE DEF Base
    <2> QED
      BY <1>r DEF TlsStackKind, Entered
  <1>o. ASSUME NEW p \in Pcbs, NEW cb \in Callbacks \ {"err"}, cb \in lw[p].cbs
        PROVE  p = c.pcb /\ lw[p].st \in Open
    BY <1>o, CallableIsOwned DEF Open
  <1>c. ASSUME NEW p \in Pcbs, stack = <<>>, c.alive, lw[p].st \in Open, NEW fin \in BOOLEAN,
               NEW c0 \in Clients, c0.pcb = p, NEW e0, NEW l0 \in LwType,
               Close_(c0, e0, l0, Base(p, fin))
        PROVE  TlsStackKind
    BY <1>c, CloseEnters DEF TlsStackKind
  <1>1. ASSUME NEW p \in Pcbs, S_connected(p) PROVE TlsStackKind
    <2>1. stack = <<>> /\ c.alive /\ lw[p].st \in Open /\ stack' = Push("connect_cb", p, 0, Base(p, FALSE))
      BY <1>1, <1>b DEF S_connected, Idle, Open
    <2> QED
      BY <1>e, <2>1 DEF Entries
  <1>2. ASSUME NEW p \in Pcbs, S_failed(p) PROVE TlsStackKind
    BY <1>2 DEF S_failed, Idle, Error_, TlsStackKind, Failed
  <1>3. ASSUME NEW p \in Pcbs, NEW n \in 1..MaxChain, NEW fin \in BOOLEAN, S_recv(p, n, fin)
        PROVE  TlsStackKind
    <2>1. stack = <<>> /\ c.alive /\ "recv" \in lw[p].cbs
      BY <1>3 DEF S_recv, Idle
    <2>2. p = c.pcb /\ lw[p].st \in Open
      BY <1>o, <2>1 DEF Callbacks
    <2>3. c'.pcb = c.pcb
      BY <1>3, <1>l DEF S_recv, Clients
    <2>4. n - 1 \in Nat
      BY SizeAssumption
    <2>5. PICK f \in DataHandlers : stack' = Push(f, p, n - 1, Base(p, fin))
      BY <1>3 DEF S_recv, Deliver, Base
    <2>6. f \in Entries
      BY FlagAssumption DEF Entries
    <2> QED
      BY <1>e, <2>1, <2>2, <2>3, <2>4, <2>5, <2>6
  <1>4. ASSUME NEW p \in Pcbs, NEW len \in 1..SndBuf, S_sent(p, len) \/ Tls_sent(p, len)
        PROVE  TlsStackKind
    <2>1. stack = <<>> /\ c.alive /\ "sent" \in lw[p].cbs
      BY <1>4 DEF S_sent, Tls_sent, Idle
    <2>2. lw[p].st \in Open
      BY <1>o, <2>1 DEF Callbacks
    <2>3. \/ stack' = Base(p, FALSE) \/ stack' = Push("sent_cb", p, 0, Base(p, FALSE))
          \/ stack' = Push("tls_sent_cb", p, 0, Base(p, FALSE))
      BY <1>4, <1>b DEF S_sent, Tls_sent
    <2> QED
      BY <1>e, <1>r, <2>1, <2>2, <2>3 DEF Entries
  <1>5. ASSUME NEW p \in Pcbs, Tls_connected(p) PROVE TlsStackKind
    <2> DEFINE c1 == [c EXCEPT !.pcb = p, !.pcb_busy = FALSE, !.rx_age = 0]
               l1 == [lw EXCEPT ![p].st = "ESTABLISHED", ![p].cbs = Callbacks]
    <2>1. stack = <<>> /\ c.alive /\ lw[p].st \in Open
      BY <1>5 DEF Tls_connected, Idle, Open
    <2>2. c1 \in Clients /\ c1.pcb = p /\ l1 \in LwType
      BY <1>l DEF Clients, LwType, PcbRecords, Open
    <2>3. \/ stack' = Base(p, FALSE) \/ Close_(c1, et, l1, Base(p, FALSE))
          \/ Close_(c1, et, l1, Push("unvalidated", p, 0, Base(p, FALSE)))
      BY <1>5, <1>b DEF Tls_connected
    <2> HIDE DEF c1, l1
    <2>4. ASSUME Close_(c1, et, l1, Push("unvalidated", p, 0, Base(p, FALSE))) PROVE TlsStackKind
      <3>1. stack' = Push("discard_cb", p, 0, Push("unvalidated", p, 0, Base(p, FALSE)))
        BY <2>2, <2>4, CloseStack
      <3> HIDE DEF Base
      <3> QED
        BY <2>1, <3>1 DEF TlsStackKind, Entered
    <2> QED
      BY <1>r, <1>c, <2>1, <2>2, <2>3, <2>4
  <1>6. ASSUME NEW p \in Pcbs, NEW fin \in BOOLEAN, Tls_recv(p, fin) PROVE TlsStackKind
    <2> DEFINE c1 == [c EXCEPT !.rx_age = 0]
               l1 == [lw EXCEPT ![p].st = IF fin THEN "CLOSE_WAIT" ELSE @]
               e1 == SetCloseError(et, "ERR_OK")
    <2>1. stack = <<>> /\ c.alive /\ "recv" \in lw[p].cbs
      BY <1>6 DEF Tls_recv, Idle
    <2>2. p = c.pcb /\ lw[p].st \in Open
      BY <1>o, <2>1 DEF Callbacks
    <2>a. c1 \in Clients /\ c1.pcb = p
      BY <1>l, <2>2 DEF Clients
    <2>b. l1 \in LwType
      BY <1>l DEF LwType, PcbRecords, Open
    <2>3. c1 \in Clients /\ c1.pcb = p /\ l1 \in LwType
      BY <2>a, <2>b
    <2>4. \/ Close_(c1, e1, l1, Base(p, fin))
          \/ \E n \in 1..MaxRuns : stack' = Push("ssl_read", p, n, Base(p, fin))
      BY <1>6 DEF Tls_recv, Base
    <2> HIDE DEF c1, l1, e1
    <2>5. ASSUME NEW n \in 1..MaxRuns, stack' = Push("ssl_read", p, n, Base(p, fin)) PROVE TlsStackKind
      <3>1. n \in Nat
        BY TlsAssumption
      <3> QED
        BY <1>e, <2>1, <2>2, <2>5, <3>1 DEF Entries
    <2> QED
      BY <1>c, <2>1, <2>2, <2>3, <2>4, <2>5
  <1>7. ASSUME NEW p \in Pcbs, S_recv_fin(p) PROVE TlsStackKind
    <2>1. stack = <<>> /\ c.alive /\ "recv" \in lw[p].cbs
      BY <1>7 DEF S_recv_fin, Idle
    <2>2. p = c.pcb /\ lw[p].st \in Open
      BY <1>o, <2>1 DEF Callbacks
    <2> DEFINE l1 == [lw EXCEPT ![p].st = "CLOSE_WAIT"]
    <2>3. l1 \in LwType
      BY <1>l DEF LwType, PcbRecords, Open
    <2>4. Close_(c, et, l1, Base(p, FALSE))
      BY <1>7, <1>b DEF S_recv_fin
    <2> HIDE DEF l1
    <2> QED
      BY <1>c, <1>l, <2>1, <2>2, <2>3, <2>4
  <1>8. ASSUME NEW p \in Pcbs, Tls_poll(p) PROVE TlsStackKind
    <2> DEFINE c1 == [c EXCEPT !.close_pcb = FALSE]
               e1 == SetCloseError(et, "ERR_OK")
               l1 == [lw EXCEPT ![p].due = FALSE]
    <2>1. stack = <<>> /\ c.alive /\ "poll" \in lw[p].cbs
      BY <1>8 DEF Tls_poll, S_poll, Idle
    <2>2. p = c.pcb /\ lw[p].st \in Open
      BY <1>o, <2>1 DEF Callbacks
    <2>3. c1 \in Clients /\ c1.pcb = c.pcb /\ l1 \in LwType
      BY <1>l DEF Clients, LwType, PcbRecords
    <2>4. \/ Close_(c, e1, l1, Base(p, FALSE)) \/ Close_(c1, e1, l1, Base(p, FALSE))
          \/ stack' = Push("timeout_cb", p, 0, Base(p, FALSE))
          \/ stack' = Push("poll_cb", p, 0, Base(p, FALSE))
      BY <1>8, <1>b DEF Tls_poll, S_poll, Poll_
    <2> HIDE DEF c1, l1, e1
    <2>5. ASSUME NEW f \in {"timeout_cb", "poll_cb"}, stack' = Push(f, p, 0, Base(p, FALSE))
          PROVE  TlsStackKind
      BY <1>e, <2>1, <2>2, <2>5 DEF Entries
    <2>6. CASE Close_(c, e1, l1, Base(p, FALSE))
      BY <1>c, <1>l, <2>1, <2>2, <2>3, <2>6
    <2>7. CASE Close_(c1, e1, l1, Base(p, FALSE))
      BY <1>c, <2>1, <2>2, <2>3, <2>7
    <2> QED
      BY <2>4, <2>5, <2>6, <2>7
  <1>9. ASSUME NEW p \in Pcbs, NEW err, S_error(p, err) PROVE TlsStackKind
    BY <1>9 DEF S_error, Idle, Error_, TlsStackKind, Failed
  <1>10. CASE Tls_dns_found
    <2>1. stack = <<>> /\ c.alive /\ c' = c
          /\ (stack' = stack \/ stack' = Push("error_cb", NULL, 0, <<>>))
      BY <1>10 DEF Tls_dns_found, Idle
    <2> QED
      BY <2>1 DEF TlsStackKind, Failed, Unmoved
  <1>11. CASE Tick
    <2>1. c'.pcb = c.pcb /\ stack' = stack
      BY <1>11, <1>l DEF Tick, Clients
    <2> QED
      BY <2>1 DEF TlsStackKind, Unmoved
  <1> QED
    BY <1>1, <1>2, <1>3, <1>4, <1>5, <1>6, <1>7, <1>8, <1>9, <1>10, <1>11 DEF TlsStack, PlainStack

(* Handlers return.                                                        *)
LEMMA ReturnMoves ==
    ASSUME TypeOK, Core, SessionInv, TlsReturn
    PROVE  TlsStackKind
  <1>l. lw \in LwType /\ c \in Clients /\ stack \in Seq(Frames)
    BY DEF TypeOK, LwType
  <1>1. CASE UserReturn \/ SentReturn \/ AbortReturn \/ ReturnToStack \/ TlsUserReturn
             \/ TlsSentReturn \/ TlsDtorReturn
    <2>1. Popped
      BY <1>1 DEF UserReturn, SentReturn, AbortReturn, ReturnToStack, TlsUserReturn, TlsSentReturn,
                  TlsDtorReturn, DtorReturn, Top, Popped
    <2> QED
      BY <2>1 DEF TlsStackKind
  <1>2. CASE RecvReturn
    <2>1. Top("recv_cb") /\ c.alive /\ stack # <<>>
      BY <1>2 DEF RecvReturn, Top
    <2>2. CASE stack' = Tail(stack)
      BY <2>1, <2>2 DEF TlsStackKind, Popped
    <2>3. CASE stack' # Tail(stack)
      <3>1. PICK c0 \in {c, Defer(c)} : NextPbuf(c0)
        BY <1>2 DEF RecvReturn
      <3>2. /\ Head(stack).n > 0 /\ c' = [c0 EXCEPT !.ack_pcb = TRUE]
            /\ \E f \in DataHandlers : stack' = Push(f, Head(stack).p, Head(stack).n - 1, Tail(stack))
        BY <2>3, <3>1 DEF NextPbuf, Deliver
      <3>3. c0.pcb = c.pcb /\ c0 \in Clients
        BY <1>l DEF Defer, Clients
      <3>4. c'.pcb = c.pcb
        BY <3>2, <3>3 DEF Clients
      <3>5. Head(stack) \in Frames
        BY <1>l, <2>1, PopFrame
      <3>6. Head(stack).n - 1 \in Nat
        BY <3>2, <3>5 DEF Frames
      <3>7. PbufNext
        BY <2>1, <3>2, <3>4, <3>6, FlagAssumption DEF PbufNext
      <3> QED
        BY <3>7 DEF TlsStackKind
    <2> QED
      BY <2>2, <2>3
  <1>3. CASE ErrorReturn
    <2>1. ErrorTold
      BY <1>3 DEF ErrorReturn, Discard, ErrorTold
    <2> QED
      BY <2>1 DEF TlsStackKind
  <1>4. CASE FinAfterData
    <2>1. Top("fin") /\ stack # <<>>
      BY <1>4 DEF FinAfterData, Top
    <2> DEFINE k == Push("ret", Head(stack).p, 0, Tail(stack))
    <2>2. CASE Close_(c, et, lw, k)
      <3>1. stack' = k \/ (c.pcb \in Pcbs /\ stack' = Push("discard_cb", c.pcb, 0, k))
        <4> HIDE DEF k
        <4> QED
          BY <1>l, <2>2, CloseStack
      <3> QED
        BY <2>1, <3>1 DEF TlsStackKind, FinCalled
    <2>3. CASE stack' = Tail(stack)
      BY <2>1, <2>3 DEF TlsStackKind, Popped
    <2> QED
      BY <1>4, <2>2, <2>3 DEF FinAfterData
  <1>5. CASE SslRun
    <2>r. Reading /\ Head(stack).n > 0 /\ Head(stack).n \in Nat
      BY <1>5, ReadingTop DEF SslRun
    <2>1. CASE stack' = stack
      <3>1. c' = c
        BY <1>5 DEF SslRun, EngineFailed
      <3> QED
        BY <2>1, <3>1 DEF TlsStackKind, Unmoved
    <2>2. CASE stack' = Push("data_cb", Head(stack).p, 0, stack)
      BY <2>2, <2>r DEF TlsStackKind, ReadMoves
    <2>3. ASSUME NEW f, NEW s, RunOver(f, s), f \in ReadHandlers \/ f = "none"
          PROVE  TlsStackKind
      <3> DEFINE n == IF s.eng = "closed" /\ Head(stack).n > 1 THEN 1 ELSE Head(stack).n - 1
                 below == Push("ssl_read", Head(stack).p, n, Tail(stack))
      <3>1. stack' = below \/ (f \in ReadHandlers /\ stack' = Push(f, Head(stack).p, 0, below))
        BY <2>3 DEF RunOver, ReadHandlers
      <3>2. n \in Nat
        BY <2>r
      <3> HIDE DEF n
      <3>3. ReadMoves
        BY <2>r, <3>1, <3>2 DEF ReadMoves
      <3> QED
        BY <3>3 DEF TlsStackKind
    <2>4. "ssl_error_cb" \in ReadHandlers /\ "handshake_cb" \in ReadHandlers
      BY DEF ReadHandlers
    <2> QED
      BY <1>5, <2>1, <2>2, <2>3, <2>4 DEF SslRun, EngineFailed
  <1>6. CASE SslReadReturn
    <2>r. Reading /\ stack # <<>> /\ c.pcb = Head(stack).p
      BY <1>6, ReadingTop DEF SslReadReturn
    <2>1. CASE stack' = Tail(stack)
      BY <2>1, <2>r DEF TlsStackKind, Popped
    <2>2. CASE Close_(c, et, lw, Tail(stack))
      <3>1. stack' = Tail(stack) \/ stack' = Push("discard_cb", c.pcb, 0, Tail(stack))
        BY <1>l, <2>2, CloseStack
      <3> QED
        BY <2>1, <2>r, <3>1 DEF TlsStackKind, ReadMoves
    <2> QED
      BY <1>6, <2>1, <2>2 DEF SslReadReturn
  <1> QED
    BY <1>1, <1>2, <1>3, <1>4, <1>5, <1>6 DEF TlsReturn, PlainReturn

(* The application's calls.                                                *)
LEMMA CallMoves ==
    ASSUME TypeOK, Core, SessionInv, TlsCall
    PROVE  TlsStackKind
  <1>l. lw \in LwType /\ c \in Clients /\ stack \in Seq(Frames)
    BY DEF TypeOK, LwType
  <1>1. ASSUME NEW u, TlsConnect(u) \/ TlsConnectHost(u) PROVE TlsStackKind
    BY <1>1 DEF TlsConnect, TlsConnectHost, TlsStackKind, Unmoved
  <1>2. CASE CloseNow
    <2>1. Reopened \in LwType
      <3>1. c.rx_ack_len \in Nat
        BY <1>l DEF Clients
      <3> QED
        BY <1>l, <3>1, PcbOperators DEF Reopened
    <2>2. MayCall("closeNow") /\ Close_(c, et, Reopened, stack)
      BY <1>2 DEF CloseNow
    <2>3. \/ c.pcb = NULL /\ c'.pcb = NULL /\ stack' = stack
          \/ c.pcb \in Pcbs /\ stack' = Push("discard_cb", c.pcb, 0, stack)
      BY <1>l, <2>1, <2>2, CloseStack
    <2> QED
      BY <2>2, <2>3 DEF TlsStackKind, Unmoved, Closed
  <1>3. CASE CloseLater \/ Send
    <2>1. stack' = stack /\ c'.pcb = c.pcb
      BY <1>3, <1>l DEF CloseLater, Send, Sent, Clients
    <2> QED
      BY <2>1 DEF TlsStackKind, Unmoved
  <1>4. CASE Delete
    <2> DEFINE k == Push("dtor", NULL, 0, stack)
    <2>1. MayCall("delete") /\ ~InProgress("dtor") /\ Close_(c, et, lw, k)
      BY <1>4 DEF Delete
    <2>2. stack' = k \/ (c.pcb \in Pcbs /\ stack' = Push("discard_cb", c.pcb, 0, k))
      <3> HIDE DEF k
      <3> QED
        BY <1>l, <2>1, CloseStack
    <2>3. Deleted
      BY <2>1, <2>2 DEF Deleted
    <2> QED
      BY <2>3 DEF TlsStackKind
  <1>5. CASE Abort
    <2>1. Aborted
      BY <1>5, <1>l DEF Abort, Error_, Aborted, Clients
    <2> QED
      BY <2>1 DEF TlsStackKind
  <1>6. ASSUME NEW n, Write(n) PROVE TlsStackKind
    <2>1. Counted(n).pcb = c.pcb /\ Sent(Counted(n)).pcb = c.pcb
      BY <1>l DEF Counted, Sent, Clients
    <2> QED
      BY <1>6, <2>1 DEF Write, TlsStackKind, Unmoved
  <1>7. ASSUME NEW n \in 1..(SndBuf - 1), TlsWrite(n) PROVE TlsStackKind
    <2>1. c' = [c EXCEPT !.tx_unacked_len = @ + n] /\ stack' = stack
      BY <1>7, WriteSecure
    <2>2. c'.pcb = c.pcb
      BY <1>l, <2>1 DEF Clients
    <2> QED
      BY <2>1, <2>2 DEF TlsStackKind, Unmoved
  <1> QED
    BY <1>1, <1>2, <1>3, <1>4, <1>5, <1>6, <1>7 DEF TlsCall

(* Every step of a build with TLS treats the stack in one of these ways.   *)
LEMMA EveryTlsStepHasAStackKind ==
    ASSUME TypeOK, Core, SessionInv, TlsNext
    PROVE  TlsStackKind
  BY StackEnters, ReturnMoves, CallMoves DEF TlsNext
-----------------------------------------------------------------------------
(* No event after onDisconnect.  _recv() delivers the rest of its chain    *)
(* whatever onData did: an application that ends the connection in onData  *)
(* is still handed the rest.                                               *)
SparesData == \A method \in {"closeNow", "abort", "delete"} : <<method, "recv_cb">> \notin App

(* onData runs on top of the stack, about the connection in _pcb.          *)
RecvAlone ==
    stack # <<>> =>
        /\ ~Occurs(Tail(stack), "recv_cb")
        /\ Head(stack).f = "recv_cb" => Head(stack).p \in Pcbs /\ c.pcb = Head(stack).p

SilentStep ==
    \/ stack' = stack \/ Len(stack') < Len(stack)
    \/ Head(stack').f \notin (Handlers \cup TlsHandlers) \ {"error_cb", "discard_cb"}
    \/ lw[Head(stack').p].told = 0

(* A frame on top of others.                                               *)
OnTop(s, f, p, n, k) ==
    s # <<>> /\ Tail(s) = k /\ Head(s).f = f /\ Head(s).p = p /\ Head(s).n = n

(* Push() puts the frame on top of the stack it is given.                  *)
LEMMA TopIs ==
    ASSUME NEW f, f \in FrameKinds, NEW p, p \in Pcbs \cup {NULL}, NEW n, n \in Nat,
           NEW k, k \in Seq(Frames)
    PROVE  OnTop(Push(f, p, n, k), f, p, n, k)
  <1>1. Push(f, p, n, k) # <<>>
    BY PushFrame
  <1>2. /\ Tail(Push(f, p, n, k)) = k
        /\ Head(Push(f, p, n, k)) = [f |-> f, p |-> p, n |-> n]
    BY DEF Push, Frame
  <1> QED
    BY <1>1, <1>2 DEF OnTop

(* A stack on which no onData runs stays one under any other frame.        *)
NoData(k) == k \in Seq(Frames) /\ ~Occurs(k, "recv_cb")

(* Any frame but that of onData keeps onData off the stack.                *)
LEMMA QuietPush ==
    ASSUME NEW f, f \in FrameKinds, f # "recv_cb", NEW p, p \in Pcbs \cup {NULL},
           NEW n, n \in Nat, NEW k, NoData(k)
    PROVE  NoData(Push(f, p, n, k))
  <1>1. k \in Seq(Frames) /\ ~Occurs(k, "recv_cb")
    BY DEF NoData
  <1>2. Push(f, p, n, k) \in Seq(Frames)
    BY <1>1, PushFrame
  <1>3. ~Occurs(Push(f, p, n, k), "recv_cb")
    BY <1>1, OccursPush
  <1> QED
    BY <1>2, <1>3 DEF NoData

(* What occurs neither on top nor below does not occur.                    *)
LEMMA OccursWhere ==
    ASSUME NEW k \in Seq(Frames), k # <<>>, NEW g, Occurs(k, g)
    PROVE  Head(k).f = g \/ Occurs(Tail(k), g)
  <1>1. PICK i \in 1..Len(k) : k[i].f = g
    BY DEF Occurs
  <1>2. /\ Head(k) = k[1] /\ Len(Tail(k)) = Len(k) - 1 /\ Len(k) \in Nat
        /\ \A j \in 1..Len(Tail(k)) : Tail(k)[j] = k[j + 1]
    BY PopFrame
  <1>3. CASE i = 1
    BY <1>1, <1>2, <1>3
  <1>4. CASE i # 1
    <2>1. i - 1 \in 1..Len(Tail(k)) /\ (i - 1) + 1 = i
      BY <1>2, <1>4
    <2>2. Tail(k)[i - 1] = k[i]
      BY <1>2, <2>1
    <2> QED
      BY <1>1, <2>1, <2>2 DEF Occurs
  <1> QED
    BY <1>3, <1>4

(* The empty stack is quiet.                                               *)
LEMMA NothingOccurs == NoData(<<>>) /\ \A g : ~Occurs(<<>>, g)
  BY EmptyStack DEF Occurs, NoData

(* The kinds of frames the steps push.                                     *)
LEMMA PushedKinds ==
    /\ \A f \in Entries : f \in FrameKinds
    /\ \A f \in ReadHandlers : f \in FrameKinds /\ f # "recv_cb" /\ f # "dtor" /\ f # "ssl_read"
    /\ "error_cb" \in FrameKinds /\ "discard_cb" \in FrameKinds /\ "unvalidated" \in FrameKinds
    /\ "ret" \in FrameKinds /\ "fin" \in FrameKinds /\ "dtor" \in FrameKinds /\ "abort" \in FrameKinds
    /\ "ssl_read" \in FrameKinds /\ "data_cb" \in FrameKinds /\ "recv_cb" \in FrameKinds
    /\ "pb_cb" \in FrameKinds /\ 0 \in Nat /\ "data_cb" \in ReadHandlers
  BY DEF Entries, FrameKinds, Handlers, TlsHandlers, ReadHandlers

(* A frame pushed on a quiet stack.                                        *)
LEMMA QuietTop ==
    ASSUME NEW f, f \in FrameKinds, f # "recv_cb", NEW p, p \in Pcbs \cup {NULL},
           NEW n, n \in Nat, NEW k, NoData(k)
    PROVE  NoData(Push(f, p, n, k)) /\ OnTop(Push(f, p, n, k), f, p, n, k)
  BY QuietPush, TopIs DEF NoData

(* The stack below a handler that lwIP's callback calls.                   *)
LEMMA BaseIs ==
    ASSUME NEW p \in Pcbs, NEW fin \in BOOLEAN
    PROVE  NoData(Base(p, fin)) /\ Base(p, fin) # <<>> /\ Head(Base(p, fin)).f = "ret"
  <1> DEFINE k == Push("fin", p, 0, <<>>)
             b == IF fin THEN k ELSE <<>>
  <1>1. NoData(k)
    BY PushedKinds, QuietPush, NothingOccurs
  <1> HIDE DEF k
  <1>2. NoData(b)
    BY <1>1, NothingOccurs
  <1> HIDE DEF b
  <1>3. p \in Pcbs \cup {NULL} /\ 0 \in Nat /\ "ret" \in FrameKinds /\ "ret" # "recv_cb"
    BY PushedKinds
  <1> DEFINE s == Push("ret", p, 0, b)
  <1>4. NoData(s) /\ OnTop(s, "ret", p, 0, b)
    BY <1>2, <1>3, QuietTop
  <1>5. s = Base(p, fin)
    BY DEF Base, b, k
  <1> HIDE DEF s
  <1> QED
    BY <1>4, <1>5 DEF OnTop

(* Every kind of step keeps onData on top of the stack and tells nothing   *)
(* about a connection that is over.                                        *)
LEMMA AloneStep ==
    ASSUME SparesData, TypeOK, TypeOK', Core, SessionInv, Announced, RecvAlone, TlsStackKind
    PROVE  RecvAlone' /\ SilentStep
  <1>s. stack \in Seq(Frames) /\ stack' \in Seq(Frames)
    BY DEF TypeOK
  <1>o. \A p \in Pcbs : lw[p].st \in Open => lw[p].told = 0
    BY DEF Announced, Open, Over
  <1>u. c.pcb \in Pcbs => lw[c.pcb].told = 0
    BY <1>o, PcbAssumption DEF Core, PcbUsable, Open
  <1>q. ASSUME stack = <<>> \/ Head(stack).f # "recv_cb" PROVE NoData(stack)
    BY <1>q, <1>s, OccursWhere, NothingOccurs DEF RecvAlone, NoData
  <1>t. ASSUME stack # <<>>
        PROVE  NoData(Tail(stack)) /\ Head(stack).p \in Pcbs \cup {NULL}
    <2>1. Head(stack) \in Frames /\ Tail(stack) \in Seq(Frames)
      BY <1>s, <1>t, PopFrame
    <2> QED
      BY <1>t, <2>1 DEF RecvAlone, Frames, NoData
  <1>n. ASSUME NoData(stack') PROVE RecvAlone'
    <2> SUFFICES ASSUME stack' # <<>>
                 PROVE  ~Occurs(Tail(stack'), "recv_cb") /\ Head(stack').f # "recv_cb"
      BY DEF RecvAlone
    <2>1. Head(stack') = stack'[1] /\ 1 \in 1..Len(stack')
      BY <1>s, PopFrame
    <2>2. Head(stack').f # "recv_cb"
      BY <1>n, <2>1 DEF Occurs, NoData
    <2> QED
      BY <1>n, <1>s, <2>2, OccursTail DEF NoData
  <1>k. ASSUME NEW f, f \in {"error_cb", "discard_cb", "ret", "dtor"}, Head(stack').f = f PROVE SilentStep
    BY <1>k DEF SilentStep, Handlers, TlsHandlers
  <1>p. ASSUME NEW f, f \in {"error_cb", "discard_cb", "ret", "dtor"}, NEW p, p \in Pcbs \cup {NULL},
               NEW k, NoData(k), stack' = Push(f, p, 0, k)
        PROVE  RecvAlone' /\ SilentStep
    <2>1. f \in FrameKinds /\ f # "recv_cb" /\ 0 \in Nat
      BY <1>p, PushedKinds
    <2>2. NoData(stack') /\ OnTop(stack', f, p, 0, k)
      BY <1>p, <2>1, QuietTop
    <2> QED
      BY <1>k, <1>n, <1>p, <2>2 DEF OnTop
  <1>1. CASE Unmoved
    BY <1>1 DEF Unmoved, RecvAlone, SilentStep
  <1>2. CASE Popped
    <2>1. stack # <<>> /\ stack' = Tail(stack)
      BY <1>2 DEF Popped
    <2>2. Len(stack') < Len(stack)
      BY <1>s, <2>1, PopFrame
    <2> QED
      BY <1>n, <1>t, <2>1, <2>2 DEF SilentStep
  <1>3. CASE Failed
    <2>1. PICK p \in Pcbs \cup {NULL} :
            \/ stack' = Push("error_cb", p, 0, <<>>)
            \/ stack' = Push("error_cb", p, 0, Push("ret", p, 0, <<>>))
      BY <1>3 DEF Failed
    <2> DEFINE k == Push("ret", p, 0, <<>>)
    <2>2. NoData(k)
      BY PushedKinds, NothingOccurs, QuietPush
    <2> HIDE DEF k
    <2>3. \E b : NoData(b) /\ stack' = Push("error_cb", p, 0, b)
      BY <2>1, <2>2, NothingOccurs DEF k
    <2> QED
      BY <1>p, <2>3
  <1>4. ASSUME NEW p \in Pcbs, Entered(p) PROVE RecvAlone' /\ SilentStep
    <2>1. PICK fin \in BOOLEAN :
            \/ stack' = Base(p, fin)
            \/ \E f \in Entries, n \in Nat :
                 stack' = Push(f, p, n, Base(p, fin)) /\ (f = "recv_cb" => c'.pcb = p)
            \/ stack' = Push("discard_cb", p, 0, Push("unvalidated", p, 0, Base(p, fin)))
      BY <1>4 DEF Entered
    <2> DEFINE b == Base(p, fin)
    <2>2. NoData(b) /\ b # <<>> /\ Head(b).f = "ret"
      BY BaseIs
    <2> HIDE DEF b
    <2>3. lw[p].told = 0
      BY <1>o, <1>4 DEF Entered
    <2>4. CASE stack' = b
      BY <1>n, <1>k, <2>2, <2>4
    <2>5. ASSUME NEW f \in Entries, NEW n \in Nat, stack' = Push(f, p, n, b), f = "recv_cb" => c'.pcb = p
          PROVE  RecvAlone' /\ SilentStep
      <3>1. f \in FrameKinds /\ p \in Pcbs \cup {NULL} /\ b \in Seq(Frames)
        BY <2>2, PushedKinds DEF NoData
      <3>2. OnTop(stack', f, p, n, b)
        BY <2>5, <3>1, TopIs
      <3> QED
        BY <2>2, <2>3, <2>5, <3>2 DEF RecvAlone, SilentStep, NoData, OnTop
    <2>6. CASE stack' = Push("discard_cb", p, 0, Push("unvalidated", p, 0, b))
      <3>1. NoData(Push("unvalidated", p, 0, b))
        BY <2>2, PushedKinds, QuietPush
      <3> QED
        BY <1>p, <2>6, <3>1
    <2> QED
      BY <2>1, <2>4, <2>5, <2>6 DEF b
  <1>5. CASE PbufNext
    <2>1. stack # <<>> /\ Head(stack).p \in Pcbs /\ c.pcb = Head(stack).p /\ c'.pcb = c.pcb
      BY <1>5 DEF PbufNext, Top, RecvAlone
    <2>2. PICK f \in {"recv_cb", "pb_cb"}, n \in Nat : stack' = Push(f, Head(stack).p, n, Tail(stack))
      BY <1>5 DEF PbufNext
    <2> DEFINE p == Head(stack).p
               k == Tail(stack)
    <2>3. f \in FrameKinds /\ p \in Pcbs \cup {NULL} /\ n \in Nat /\ NoData(k) /\ k \in Seq(Frames)
      BY <1>t, <2>1, <2>2, PushedKinds DEF NoData
    <2>4. stack' = Push(f, p, n, k) /\ p \in Pcbs /\ c'.pcb = p /\ lw[p].told = 0
      BY <1>u, <2>1, <2>2
    <2> HIDE DEF p, k
    <2>5. OnTop(stack', f, p, n, k)
      BY <2>3, <2>4, TopIs
    <2> QED
      BY <2>3, <2>4, <2>5 DEF RecvAlone, SilentStep, NoData, OnTop
  <1>6. CASE ErrorTold
    <2>1. stack # <<>> /\ stack' = Push("discard_cb", Head(stack).p, 0, Tail(stack))
      BY <1>6 DEF ErrorTold, Top
    <2> QED
      BY <1>p, <1>t, <2>1
  <1>7. CASE ReadMoves
    <2> DEFINE p == Head(stack).p
    <2>1. stack # <<>> /\ Head(stack).f = "ssl_read" /\ p \in Pcbs /\ c.pcb = p
      BY <1>7, ReadingTop DEF ReadMoves
    <2>2. NoData(stack) /\ NoData(Tail(stack)) /\ lw[p].told = 0 /\ p \in Pcbs \cup {NULL}
      BY <1>q, <1>t, <1>u, <2>1
    <2>d. ReadMoves => \/ stack' = Push("data_cb", p, 0, stack)
                       \/ stack' = Push("discard_cb", p, 0, Tail(stack))
                       \/ \E n \in Nat : \E k : /\ k = Push("ssl_read", p, n, Tail(stack))
                                                 /\ \/ stack' = k
                                                    \/ \E f \in ReadHandlers : stack' = Push(f, p, 0, k)
      BY DEF ReadMoves
    <2> HIDE DEF p
    <2>p. ASSUME NEW f \in FrameKinds, f # "recv_cb", NEW n \in Nat, NEW k, NoData(k), stack' = Push(f, p, n, k)
          PROVE  RecvAlone' /\ SilentStep
      <3>1. NoData(stack') /\ OnTop(stack', f, p, n, k)
        BY <2>p, <2>2, QuietTop
      <3> QED
        BY <1>n, <2>2, <3>1 DEF SilentStep, OnTop
    <2>3. CASE stack' = Push("data_cb", p, 0, stack)
      BY <2>2, <2>3, <2>p, PushedKinds
    <2>4. ASSUME NEW n \in Nat, NEW k, k = Push("ssl_read", p, n, Tail(stack)),
                 stack' = k \/ \E f \in ReadHandlers : stack' = Push(f, p, 0, k)
          PROVE  RecvAlone' /\ SilentStep
      <3>1. NoData(k)
        BY <2>2, <2>4, PushedKinds, QuietPush
      <3>2. CASE stack' = k
        BY <2>2, <2>4, <2>p, <3>2, PushedKinds
      <3>3. ASSUME NEW f \in ReadHandlers, stack' = Push(f, p, 0, k)
            PROVE  RecvAlone' /\ SilentStep
        BY <3>1, <3>3, <2>p, PushedKinds
      <3> QED
        BY <2>4, <3>2, <3>3
    <2>5. CASE stack' = Push("discard_cb", p, 0, Tail(stack))
      BY <1>p, <2>2, <2>5
    <2> QED
      BY <1>7, <2>d, <2>3, <2>4, <2>5
  <1>8. CASE FinCalled
    <2> DEFINE k == Push("ret", Head(stack).p, 0, Tail(stack))
    <2>1. stack # <<>> /\ (stack' = k \/ (c.pcb \in Pcbs /\ stack' = Push("discard_cb", c.pcb, 0, k)))
      BY <1>8 DEF FinCalled, Top
    <2>2. NoData(Tail(stack)) /\ Head(stack).p \in Pcbs \cup {NULL}
      BY <1>t, <2>1
    <2>3. NoData(k)
      BY <2>2, PushedKinds, QuietPush
    <2>4. CASE stack' = k
      BY <1>p, <2>2, <2>4
    <2> HIDE DEF k
    <2>5. CASE c.pcb \in Pcbs /\ stack' = Push("discard_cb", c.pcb, 0, k)
      BY <1>p, <2>3, <2>5
    <2> QED
      BY <2>1, <2>4, <2>5
  <1>m. ASSUME NEW m \in {"closeNow", "abort", "delete"}, MayCall(m) PROVE NoData(stack)
    BY <1>m, <1>q DEF MayCall, Context, SparesData
  <1>9. CASE Closed
    <2>1. NoData(stack)
      BY <1>9, <1>m DEF Closed
    <2>2. \E p \in Pcbs \cup {NULL} : stack' = Push("discard_cb", p, 0, stack)
      BY <1>9 DEF Closed
    <2> QED
      BY <1>p, <2>1, <2>2
  <1>10. CASE Deleted
    <2> DEFINE k == Push("dtor", NULL, 0, stack)
    <2>1. NoData(stack)
      BY <1>10, <1>m DEF Deleted
    <2>2. NoData(k)
      BY <2>1, PushedKinds, QuietPush
    <2>3. stack' = k \/ (c.pcb \in Pcbs /\ stack' = Push("discard_cb", c.pcb, 0, k))
      BY <1>10 DEF Deleted
    <2>4. CASE stack' = k
      BY <1>p, <2>1, <2>4
    <2> HIDE DEF k
    <2>5. CASE c.pcb \in Pcbs /\ stack' = Push("discard_cb", c.pcb, 0, k)
      BY <1>p, <2>2, <2>5
    <2> QED
      BY <2>3, <2>4, <2>5
  <1>11. CASE Aborted
    <2> DEFINE k == Push("abort", c.pcb, 0, stack)
    <2>1. NoData(stack) /\ c.pcb \in Pcbs
      BY <1>11, <1>m DEF Aborted
    <2>2. NoData(k)
      BY <2>1, PushedKinds, QuietPush
    <2>3. stack' = Push("error_cb", c.pcb, 0, k)
      BY <1>11 DEF Aborted
    <2> HIDE DEF k
    <2> QED
      BY <1>p, <2>1, <2>2, <2>3
  <1> QED
    BY <1>1, <1>2, <1>3, <1>4, <1>5, <1>6, <1>7, <1>8, <1>9, <1>10, <1>11 DEF TlsStackKind

(* An application that does not end the connection in onData is told       *)
(* nothing more about a connection after its onDisconnect: not by lwIP's   *)
(* callbacks, nor by the loops of _recv() and process_ssl_engine().        *)
THEOREM SilentWhenOver ==
    ASSUME Overlap = FALSE, SparesData
    PROVE  TlsSpec => SilentAfterDisconnect
  <1> DEFINE Inv == TlsInv /\ RecvAlone
             A == Len(stack') >= Len(stack) /\ stack' # stack
                  /\ Head(stack').f \in (Handlers \cup TlsHandlers) \ {"error_cb", "discard_cb"}
                  => lw[Head(stack').p].told = 0
  <1>1. TlsInit => Inv
    BY TlsStart DEF TlsInit, Init, RecvAlone
  <1>2. Inv /\ [TlsNext]_tlsVars => Inv' /\ [A]_tlsVars
    <2>1. ASSUME Inv, TlsNext PROVE Inv' /\ A
      <3>1. TlsInv' /\ TypeOK /\ TypeOK' /\ Core /\ SessionInv /\ Announced
        BY <2>1, TlsStep DEF TlsInv, AnnounceInv, OwnershipInv
      <3>2. TlsStackKind
        BY <2>1, <3>1, EveryTlsStepHasAStackKind
      <3>3. RecvAlone' /\ SilentStep
        BY <2>1, <3>1, <3>2, AloneStep
      <3>4. Len(stack) \in Nat /\ Len(stack') \in Nat
        BY <3>1 DEF TypeOK
      <3> QED
        BY <3>1, <3>3, <3>4 DEF SilentStep
    <2>2. ASSUME Inv, UNCHANGED tlsVars PROVE Inv'
      <3>1. TlsInv'
        BY <2>2, TlsInductive
      <3>2. stack' = stack /\ c' = c
        BY <2>2 DEF tlsVars, vars
      <3> QED
        BY <2>2, <3>1, <3>2 DEF RecvAlone
    <2> QED
      BY <2>1, <2>2
  <1> QED
    BY <1>1, <1>2, PTL DEF TlsSpec, SilentAfterDisconnect
-----------------------------------------------------------------------------
(* Where the object may be deleted.  An application that closes or deletes *)
(* the client in these contexts only, and does not abort() it, never has   *)
(* code of the object below it on the stack: a delete in the handlers that *)
(* _recv(), _error() or tcp_ssl_read() call, or in an onDisconnect that a  *)
(* close() in one of those caused, returns into the deleted object.        *)
SafeContexts == {"loop", "connect_cb", "timeout_cb", "poll_cb", "discard_cb", "tls_sent_cb"}

DeletesSafely ==
    \A ctx : /\ <<"closeNow", ctx>> \in App => ctx \in SafeContexts
             /\ <<"delete", ctx>> \in App => ctx \in SafeContexts
             /\ <<"abort", ctx>> \notin App

(* A frame that has nothing more to do with the object.                    *)
Safe(fr) == ~UsesObject(fr) /\ fr.f # "ssl_read"

(* Below the top there are such frames and the destructor's only, and      *)
(* below the destructor's such frames only; a handler of tcp_ssl_read()    *)
(* has tcp_ssl_read() directly below it.                                   *)
AllTame(k) == \A j \in 1..Len(k) : Safe(k[j]) \/ k[j].f = "dtor"

DtorOver(k) == \A i, j \in 1..Len(k) : i < j /\ k[i].f = "dtor" => Safe(k[j])

Ordered(k) == k \in Seq(Frames) /\ DtorOver(k)

Tame(k) == Ordered(k) /\ AllTame(k)

Shaped(k) ==
    /\ Ordered(k)
    /\ k # <<>> => \/ Tame(Tail(k))
                   \/ /\ Head(k).f \in ReadHandlers /\ Tail(k) # <<>>
                      /\ Head(Tail(k)).f = "ssl_read" /\ Tame(Tail(Tail(k)))

(* The kinds of frames that do no harm below the top.                      *)
TameKinds == {"ret", "fin", "unvalidated", "connect_cb", "timeout_cb", "poll_cb",
              "discard_cb", "tls_sent_cb"}

(* The empty stack.                                                        *)
LEMMA TameEmpty == Tame(<<>>) /\ Shaped(<<>>)
  BY EmptyStack DEF Tame, Ordered, AllTame, DtorOver, Shaped

(* Popping a frame.                                                        *)
LEMMA OrderedPop ==
    ASSUME NEW k, Ordered(k), k # <<>>
    PROVE  Ordered(Tail(k)) /\ (AllTame(k) => AllTame(Tail(k)))
  <1>1. k \in Seq(Frames) /\ Len(k) \in Nat
    BY DEF Ordered
  <1>2. /\ Tail(k) \in Seq(Frames) /\ Len(Tail(k)) = Len(k) - 1
        /\ \A i \in 1..Len(Tail(k)) : Tail(k)[i] = k[i + 1]
    BY <1>1, PopFrame
  <1>3. \A i \in 1..Len(Tail(k)) : i + 1 \in 1..Len(k)
    BY <1>1, <1>2
  <1>4. ASSUME NEW i \in 1..Len(Tail(k)), NEW j \in 1..Len(Tail(k)), i < j, Tail(k)[i].f = "dtor"
        PROVE  Safe(Tail(k)[j])
    <2>1. i + 1 \in 1..Len(k) /\ j + 1 \in 1..Len(k) /\ i + 1 < j + 1 /\ k[i + 1].f = "dtor"
      BY <1>2, <1>3, <1>4
    <2>2. Safe(k[j + 1])
      BY <2>1 DEF Ordered, DtorOver
    <2> QED
      BY <1>2, <2>2
  <1>5. ASSUME AllTame(k), NEW i \in 1..Len(Tail(k)) PROVE Safe(Tail(k)[i]) \/ Tail(k)[i].f = "dtor"
    <2>1. i + 1 \in 1..Len(k) /\ Tail(k)[i] = k[i + 1]
      BY <1>2, <1>3
    <2>2. Safe(k[i + 1]) \/ k[i + 1].f = "dtor"
      BY <1>5, <2>1 DEF AllTame
    <2> QED
      BY <2>1, <2>2
  <1> QED
    BY <1>2, <1>4, <1>5 DEF Ordered, DtorOver, AllTame

(* Pushing any frame but the destructor's keeps the order.                 *)
LEMMA OrderedPush ==
    ASSUME NEW f, f \in FrameKinds, f # "dtor", NEW p, p \in Pcbs \cup {NULL},
           NEW n, n \in Nat, NEW k, Ordered(k)
    PROVE  Ordered(Push(f, p, n, k))
  <1> DEFINE s == Push(f, p, n, k)
  <1>1. k \in Seq(Frames) /\ Len(k) \in Nat
    BY DEF Ordered
  <1>2. s \in Seq(Frames)
    BY <1>1, PushFrame
  <1>3. \A i \in 1..Len(s) : \/ i = 1 /\ s[i] = Frame(f, p, n)
                             \/ i - 1 \in 1..Len(k) /\ s[i] = k[i - 1]
    BY <1>1, PushMembers
  <1> HIDE DEF s
  <1>4. ASSUME NEW i \in 1..Len(s), NEW j \in 1..Len(s), i < j, s[i].f = "dtor"
        PROVE  Safe(s[j])
    <2>1. s[i] # Frame(f, p, n)
      BY <1>4 DEF Frame
    <2>2. i - 1 \in 1..Len(k) /\ s[i] = k[i - 1]
      BY <1>3, <2>1
    <2>3. j # 1
      BY <1>4
    <2>4. j - 1 \in 1..Len(k) /\ s[j] = k[j - 1]
      BY <1>3, <2>3
    <2>5. i - 1 < j - 1
      BY <1>4
    <2> QED
      BY <1>4, <2>2, <2>4, <2>5 DEF Ordered, DtorOver
  <1> QED
    BY <1>2, <1>4 DEF Ordered, DtorOver, s

(* The destructor's frame, over frames that are all safe.                  *)
LEMMA DtorPush ==
    ASSUME NEW k, Tame(k), ~Occurs(k, "dtor")
    PROVE  Tame(Push("dtor", NULL, 0, k))
  <1> DEFINE s == Push("dtor", NULL, 0, k)
  <1>0. "dtor" \in FrameKinds /\ NULL \in Pcbs \cup {NULL} /\ 0 \in Nat
    BY PushedKinds
  <1>1. k \in Seq(Frames) /\ Len(k) \in Nat
    BY DEF Tame, Ordered
  <1>2. s \in Seq(Frames)
    BY <1>0, <1>1, PushFrame
  <1>3. \A i \in 1..Len(s) : \/ i = 1 /\ s[i] = Frame("dtor", NULL, 0)
                             \/ i - 1 \in 1..Len(k) /\ s[i] = k[i - 1]
    BY <1>1, <1>0, PushMembers
  <1> HIDE DEF s
  <1>4. \A i \in 1..Len(k) : Safe(k[i])
    BY DEF Tame, AllTame, Occurs
  <1>5. \A j \in 1..Len(s) : j # 1 => Safe(s[j])
    BY <1>3, <1>4
  <1>6. \A i, j \in 1..Len(s) : i < j => j # 1
    BY <1>2
  <1>7. DtorOver(s)
    BY <1>5, <1>6 DEF DtorOver
  <1>8. s[1].f = "dtor" \/ 1 \notin 1..Len(s)
    BY <1>1, <1>3 DEF Frame
  <1>9. AllTame(s)
    BY <1>5, <1>8 DEF AllTame
  <1> QED
    BY <1>2, <1>7, <1>9 DEF Tame, Ordered, s

(* A harmless frame on a tame stack.                                       *)
LEMMA TamePush ==
    ASSUME NEW f, f \in TameKinds, NEW p, p \in Pcbs \cup {NULL}, NEW n, n \in Nat, NEW k, Tame(k)
    PROVE  Tame(Push(f, p, n, k))
  <1> DEFINE s == Push(f, p, n, k)
  <1>0. f \in FrameKinds /\ f # "dtor"
    BY DEF TameKinds, FrameKinds, Handlers, TlsHandlers
  <1>1. k \in Seq(Frames) /\ Ordered(k)
    BY DEF Tame, Ordered
  <1>2. Ordered(s)
    BY <1>0, <1>1, OrderedPush
  <1>3. \A i \in 1..Len(s) : \/ i = 1 /\ s[i] = Frame(f, p, n)
                             \/ i - 1 \in 1..Len(k) /\ s[i] = k[i - 1]
    BY <1>0, <1>1, PushMembers
  <1> HIDE DEF s
  <1>4. Safe(Frame(f, p, n))
    BY DEF Safe, UsesObject, Frame, TameKinds
  <1>5. \A i \in 1..Len(s) : Safe(s[i]) \/ s[i].f = "dtor"
    BY <1>3, <1>4 DEF Tame, AllTame
  <1> QED
    BY <1>2, <1>5 DEF Tame, AllTame, s

(* Any frame on a tame stack.                                              *)
LEMMA ShapedPush ==
    ASSUME NEW f, f \in FrameKinds, f # "dtor", NEW p, p \in Pcbs \cup {NULL},
           NEW n, n \in Nat, NEW k, Tame(k)
    PROVE  Shaped(Push(f, p, n, k))
  <1>1. Ordered(k) /\ k \in Seq(Frames)
    BY DEF Tame, Ordered
  <1>2. Ordered(Push(f, p, n, k))
    BY <1>1, OrderedPush
  <1>3. OnTop(Push(f, p, n, k), f, p, n, k)
    BY <1>1, TopIs
  <1> QED
    BY <1>2, <1>3 DEF Shaped, OnTop

(* A tame stack is well shaped.                                            *)
LEMMA TameShaped ==
    ASSUME NEW k, Tame(k)
    PROVE  Shaped(k)
  <1>1. Ordered(k) /\ AllTame(k)
    BY DEF Tame
  <1>2. CASE k = <<>>
    BY <1>2, TameEmpty
  <1>3. CASE k # <<>>
    <2>1. Ordered(Tail(k)) /\ AllTame(Tail(k))
      BY <1>1, <1>3, OrderedPop
    <2> QED
      BY <1>1, <2>1 DEF Shaped, Tame
  <1> QED
    BY <1>2, <1>3

(* A handler of tcp_ssl_read() on the frame of tcp_ssl_read().             *)
LEMMA ShapedRead ==
    ASSUME NEW f, f \in ReadHandlers, NEW p, p \in Pcbs \cup {NULL}, NEW k, Ordered(k),
           k # <<>>, Head(k).f = "ssl_read", Tame(Tail(k))
    PROVE  Shaped(Push(f, p, 0, k))
  <1>1. f \in FrameKinds /\ f # "dtor" /\ 0 \in Nat /\ k \in Seq(Frames)
    BY PushedKinds DEF Ordered
  <1>2. Ordered(Push(f, p, 0, k))
    BY <1>1, OrderedPush
  <1>3. OnTop(Push(f, p, 0, k), f, p, 0, k)
    BY <1>1, TopIs
  <1> QED
    BY <1>2, <1>3 DEF Shaped, OnTop
(* _close() leaves the object as alive as it was.                          *)
LEMMA CloseAlive ==
    ASSUME NEW c0 \in Clients, NEW e0, NEW l0, NEW k, Close_(c0, e0, l0, k)
    PROVE  c'.alive = c0.alive
  BY DEF Close_, ForgetPcb, Clients

(* The object dies with the destructor's frame and in no other step, and   *)
(* once it is dead nothing changes its tls fields.                         *)
LEMMA AliveStep ==
    ASSUME TypeOK, Core, NoDanglingTlsFrame, TlsNext, StepKind
    PROVE  \/ c'.alive = c.alive /\ (~c.alive => tls' = tls)
           \/ /\ Top("dtor") /\ stack' = Tail(stack)
              /\ tls' = [tls EXCEPT !.has_client = ~tls.use_tls]
  <1>t. c \in Clients /\ c.alive \in BOOLEAN
    BY DEF TypeOK, Clients
  <1>a. AfterClose /\ c.pcb = NULL => tls' = tls
    BY DEF AfterClose
  <1>e. AfterError => tls' = tls
    BY DEF AfterError
  <1>d. ~c.alive => c.pcb = NULL
    BY DEF Core, PcbUsable, NoDanglingArg, Callbacks, Open, OpenIsCallable
  <1>1. ASSUME Idle PROVE c'.alive = c.alive /\ c.alive
    <2>1. ~InProgress("dtor") /\ c.alive
      BY <1>1, EmptyStack DEF Idle, InProgress
    <2> QED
      BY <2>1 DEF StepKind, Keeps, LooksUp, Destroys, Attempts, Establishes, Ends, Announces, ClientKept
  <1>2. CASE TlsStack
    <2>1. Idle
      BY <1>2 DEF TlsStack, PlainStack, S_connected, S_failed, S_recv, S_sent, Tls_connected, Tls_recv,
                  S_recv_fin, Tls_sent, Tls_poll, S_poll, S_error, Tls_dns_found, Tick
    <2> QED
      BY <1>1, <2>1
  <1>3. CASE TlsReturn
    <2>1. CASE PlainReturn /\ UNCHANGED <<tls, ssl>>
      <3>1. c'.alive = c.alive
        BY <1>t, <2>1 DEF PlainReturn, UserReturn, RecvReturn, SentReturn, ErrorReturn, AbortReturn,
                   ReturnToStack, NextPbuf, Defer, ForgetPcb, Clients
      <3> QED
        BY <2>1, <3>1
    <2>2. CASE FinAfterData /\ AfterClose
      <3>1. c'.alive = c.alive
        BY <1>t, <2>2, CloseAlive DEF FinAfterData
      <3> QED
        BY <1>a, <1>d, <2>2, <3>1
    <2>3. CASE SslRun
      <3>1. c' = c
        BY <2>3 DEF SslRun, EngineFailed
      <3>2. ASSUME ~c.alive PROVE FALSE
        <4>1. stack # <<>> /\ Head(stack).f = "ssl_read"
          BY <2>3 DEF SslRun, Reading, Top
        <4>2. 1 \in 1..Len(stack) /\ Head(stack) = stack[1]
          BY <4>1 DEF TypeOK
        <4> QED
          BY <3>2, <4>1, <4>2 DEF NoDanglingTlsFrame
      <3> QED
        BY <3>1, <3>2
    <2>4. CASE SslReadReturn
      <3>1. \/ c.alive /\ Close_(c, et, lw, Tail(stack))
            \/ UNCHANGED <<c, tls>>
        BY <2>4 DEF SslReadReturn
      <3> QED
        BY <1>t, <3>1, CloseAlive
    <2>5. CASE TlsUserReturn
      BY <2>5 DEF TlsUserReturn
    <2>6. CASE TlsSentReturn
      BY <1>t, <2>6 DEF TlsSentReturn, Clients
    <2>7. CASE TlsDtorReturn
      BY <2>7 DEF TlsDtorReturn, DtorReturn
    <2> QED
      BY <1>3, <2>1, <2>2, <2>3, <2>4, <2>5, <2>6, <2>7 DEF TlsReturn
  <1>4. CASE TlsCall
    <2>1. c.alive
      BY <1>4 DEF TlsCall, TlsConnect, TlsConnectHost, CloseNow, CloseLater, Delete, Abort, Send, Write,
                  TlsWrite, MayCall
    <2>2. c'.alive = c.alive
      <3>1. CASE \E u \in TlsModes : TlsConnect(u) \/ TlsConnectHost(u)
        BY <3>1 DEF TlsConnect, TlsConnectHost
      <3>2. CASE CloseNow \/ Delete
        BY <1>t, <3>2, CloseAlive DEF CloseNow, Delete
      <3>3. CASE CloseLater
        BY <1>t, <3>3 DEF CloseLater, Clients
      <3>4. CASE Abort
        BY <1>t, <3>4 DEF Abort, Error_, ForgetPcb, Clients
      <3>5. CASE Send
        BY <1>t, <3>5 DEF Send, Sent, Clients
      <3>6. ASSUME NEW n \in 1..SndBuf, Write(n) PROVE c'.alive = c.alive
        BY <1>t, <3>6 DEF Write, Sent, Counted, Clients
      <3>7. ASSUME NEW n \in 1..(SndBuf - 1), TlsWrite(n) PROVE c'.alive = c.alive
        <4>1. \/ Close_(c, et, lw, stack)
              \/ c' = [c EXCEPT !.tx_unacked_len = @ + n]
          BY <3>7 DEF TlsWrite
        <4> QED
          BY <1>t, <4>1, CloseAlive DEF Clients
      <3> QED
        BY <1>4, <3>1, <3>2, <3>3, <3>4, <3>5, <3>6, <3>7 DEF TlsCall
    <2> QED
      BY <2>1, <2>2
  <1> QED
    BY <1>2, <1>3, <1>4 DEF TlsNext

(* The top of a well shaped stack that is not a handler of tcp_ssl_read(). *)
LEMMA TameBelow ==
    ASSUME Shaped(stack), stack # <<>>, Head(stack).f \notin ReadHandlers
    PROVE  Tame(Tail(stack))
  BY DEF Shaped

(* A call from a safe context finds a tame stack.                          *)
LEMMA SafeCall ==
    ASSUME TypeOK, Shaped(stack), Context \in SafeContexts
    PROVE  Tame(stack)
  <1>1. CASE stack = <<>>
    BY <1>1, TameEmpty
  <1>2. CASE stack # <<>>
    <2>1. Head(stack).f \in TameKinds /\ Head(stack).f \notin ReadHandlers
      <3>1. Head(stack).f \in FrameKinds
        BY <1>2, PopFrame DEF TypeOK, Frames
      <3>2. Head(stack).f # "loop"
        BY <3>1 DEF FrameKinds, Handlers, TlsHandlers
      <3>3. Head(stack).f \in SafeContexts
        BY <1>2 DEF Context
      <3> QED
        BY <3>2, <3>3 DEF SafeContexts, TameKinds, ReadHandlers
    <2>2. Tame(Tail(stack)) /\ Ordered(stack) /\ stack \in Seq(Frames) /\ Len(stack) \in Nat
      BY <1>2, <2>1, TameBelow DEF Shaped, Ordered
    <2>3. Safe(Head(stack))
      BY <2>1 DEF Safe, UsesObject, TameKinds
    <2>4. ASSUME NEW i \in 1..Len(stack) PROVE Safe(stack[i]) \/ stack[i].f = "dtor"
      <3>0. /\ Head(stack) = stack[1] /\ Len(Tail(stack)) = Len(stack) - 1
            /\ \A j \in 1..Len(Tail(stack)) : Tail(stack)[j] = stack[j + 1]
        BY <1>2, <2>2, PopFrame
      <3>1. CASE i = 1
        BY <2>3, <3>0, <3>1
      <3>2. CASE i # 1
        <4>1. i - 1 \in 1..Len(Tail(stack)) /\ (i - 1) + 1 = i
          BY <2>2, <3>0, <3>2
        <4>2. Tail(stack)[i - 1] = stack[i]
          BY <3>0, <4>1
        <4>3. Safe(Tail(stack)[i - 1]) \/ Tail(stack)[i - 1].f = "dtor"
          BY <2>2, <4>1 DEF Tame, AllTame
        <4> QED
          BY <4>2, <4>3
      <3> QED
        BY <3>1, <3>2
    <2> QED
      BY <2>2, <2>4 DEF Tame, AllTame
  <1> QED
    BY <1>1, <1>2
(* What each kind of step leaves on the stack.                             *)
LEMMA ShapeStep ==
    ASSUME DeletesSafely, TypeOK, TypeOK', Core, SessionInv, Shaped(stack), TlsStackKind
    PROVE  Shaped(stack')
  <1>s. stack \in Seq(Frames) /\ Ordered(stack)
    BY DEF TypeOK, Shaped
  <1>f. stack # <<>> => Head(stack).p \in Pcbs \cup {NULL}
    BY <1>s, PopFrame DEF Frames
  <1>k. /\ "ret" \in TameKinds /\ "fin" \in TameKinds /\ "unvalidated" \in TameKinds /\ 0 \in Nat
        /\ NULL \in Pcbs \cup {NULL}
    BY DEF TameKinds
  <1>d. "discard_cb" \in FrameKinds /\ "discard_cb" # "dtor" /\ "error_cb" \in FrameKinds /\ "error_cb" # "dtor"
    BY PushedKinds
  <1>1. CASE Unmoved
    BY <1>1 DEF Unmoved
  <1>2. CASE Popped
    <2>1. stack # <<>> /\ stack' = Tail(stack)
      BY <1>2 DEF Popped
    <2>2. CASE Tame(Tail(stack))
      BY <2>1, <2>2, TameShaped
    <2>3. CASE Tail(stack) # <<>> /\ Tame(Tail(Tail(stack)))
      <3>1. Ordered(Tail(stack))
        BY <1>s, <2>1, OrderedPop
      <3> QED
        BY <2>1, <2>3, <3>1 DEF Shaped
    <2> QED
      BY <2>1, <2>2, <2>3 DEF Shaped
  <1>3. CASE Failed
    <2>1. PICK p \in Pcbs \cup {NULL} :
            \/ stack' = Push("error_cb", p, 0, <<>>)
            \/ stack' = Push("error_cb", p, 0, Push("ret", p, 0, <<>>))
      BY <1>3 DEF Failed
    <2> DEFINE k == Push("ret", p, 0, <<>>)
    <2>2. Tame(k)
      BY <1>k, TameEmpty, TamePush
    <2> HIDE DEF k
    <2>3. \E b : Tame(b) /\ stack' = Push("error_cb", p, 0, b)
      BY <2>1, <2>2, TameEmpty DEF k
    <2> QED
      BY <1>d, <1>k, <2>3, ShapedPush
  <1>4. ASSUME NEW p \in Pcbs, Entered(p) PROVE Shaped(stack')
    <2>1. PICK fin \in BOOLEAN :
            \/ stack' = Base(p, fin)
            \/ \E f \in Entries, n \in Nat : stack' = Push(f, p, n, Base(p, fin))
            \/ stack' = Push("discard_cb", p, 0, Push("unvalidated", p, 0, Base(p, fin)))
      BY <1>4 DEF Entered
    <2> DEFINE k == Push("fin", p, 0, <<>>)
               a == IF fin THEN k ELSE <<>>
               b == Push("ret", p, 0, a)
    <2>p. p \in Pcbs \cup {NULL}
      OBVIOUS
    <2>2. Tame(k)
      BY <1>k, <2>p, TameEmpty, TamePush
    <2> HIDE DEF k
    <2>3. Tame(a)
      BY <2>2, TameEmpty
    <2> HIDE DEF a
    <2>4. Tame(b)
      BY <1>k, <2>p, <2>3, TamePush
    <2>5. b = Base(p, fin)
      BY DEF Base, b, a, k
    <2> HIDE DEF b
    <2>6. CASE stack' = b
      BY <2>4, <2>6, TameShaped
    <2>7. ASSUME NEW f \in Entries, NEW n \in Nat, stack' = Push(f, p, n, b) PROVE Shaped(stack')
      <3>1. f \in FrameKinds /\ f # "dtor"
        BY PushedKinds DEF Entries
      <3> QED
        BY <2>p, <2>4, <2>7, <3>1, ShapedPush
    <2>8. CASE stack' = Push("discard_cb", p, 0, Push("unvalidated", p, 0, b))
      <3>1. Tame(Push("unvalidated", p, 0, b))
        BY <1>k, <2>p, <2>4, TamePush
      <3> QED
        BY <1>d, <1>k, <2>p, <2>8, <3>1, ShapedPush
    <2> QED
      BY <2>1, <2>5, <2>6, <2>7, <2>8
  <1>5. CASE PbufNext
    <2>1. stack # <<>> /\ Head(stack).f \notin ReadHandlers
      BY <1>5 DEF PbufNext, Top, ReadHandlers
    <2>2. PICK f \in {"recv_cb", "pb_cb"}, n \in Nat : stack' = Push(f, Head(stack).p, n, Tail(stack))
      BY <1>5 DEF PbufNext
    <2>3. f \in FrameKinds /\ f # "dtor"
      BY PushedKinds
    <2>4. Tame(Tail(stack))
      BY <2>1, TameBelow
    <2> QED
      BY <1>f, <2>1, <2>2, <2>3, <2>4, ShapedPush
  <1>6. CASE ErrorTold
    <2>1. stack # <<>> /\ Head(stack).f \notin ReadHandlers /\ stack' = Push("discard_cb", Head(stack).p, 0, Tail(stack))
      BY <1>6 DEF ErrorTold, Top, ReadHandlers
    <2>2. Tame(Tail(stack))
      BY <2>1, TameBelow
    <2> QED
      BY <1>d, <1>f, <1>k, <2>1, <2>2, ShapedPush
  <1>7. CASE ReadMoves
    <2> DEFINE p == Head(stack).p
               r == Tail(stack)
    <2>1. stack # <<>> /\ Head(stack).f = "ssl_read" /\ p \in Pcbs \cup {NULL}
      BY <1>f, <1>7 DEF ReadMoves, Reading, Top
    <2>2. Tame(r)
      BY <2>1, TameBelow DEF ReadHandlers
    <2>3. CASE stack' = Push("data_cb", p, 0, stack)
      BY <1>s, <2>1, <2>2, <2>3, ShapedRead, PushedKinds
    <2>d. ReadMoves => \/ stack' = Push("data_cb", p, 0, stack)
                       \/ stack' = Push("discard_cb", p, 0, r)
                       \/ \E n \in Nat : \E k : /\ k = Push("ssl_read", p, n, r)
                                                /\ \/ stack' = k
                                                   \/ \E f \in ReadHandlers : stack' = Push(f, p, 0, k)
      BY DEF ReadMoves
    <2> HIDE DEF p, r
    <2>4. ASSUME NEW n \in Nat, NEW k, k = Push("ssl_read", p, n, r),
                 stack' = k \/ \E f \in ReadHandlers : stack' = Push(f, p, 0, k)
          PROVE  Shaped(stack')
      <3>0. "ssl_read" \in FrameKinds /\ "ssl_read" # "dtor" /\ r \in Seq(Frames)
        BY <2>2, PushedKinds DEF Tame, Ordered
      <3>1. Shaped(k)
        BY <2>1, <2>2, <2>4, <3>0, ShapedPush
      <3>2. OnTop(k, "ssl_read", p, n, r)
        BY <2>1, <2>4, <3>0, TopIs
      <3>3. ASSUME NEW f \in ReadHandlers, stack' = Push(f, p, 0, k) PROVE Shaped(stack')
        <4>1. Ordered(k) /\ k # <<>> /\ Head(k).f = "ssl_read" /\ Tame(Tail(k))
          BY <2>2, <3>1, <3>2 DEF Shaped, OnTop
        <4> QED
          BY <2>1, <3>3, <4>1, ShapedRead
      <3> QED
        BY <2>4, <3>1, <3>3
    <2>5. CASE stack' = Push("discard_cb", p, 0, r)
      BY <1>d, <1>k, <2>1, <2>2, <2>5, ShapedPush
    <2> QED
      BY <1>7, <2>d, <2>3, <2>4, <2>5
  <1>8. CASE FinCalled
    <2> DEFINE k == Push("ret", Head(stack).p, 0, Tail(stack))
    <2>1. /\ stack # <<>> /\ Head(stack).f \notin ReadHandlers
          /\ stack' = k \/ (c.pcb \in Pcbs /\ stack' = Push("discard_cb", c.pcb, 0, k))
      BY <1>8 DEF FinCalled, Top, ReadHandlers
    <2>2. Tame(Tail(stack)) /\ Head(stack).p \in Pcbs \cup {NULL}
      BY <1>f, <2>1, TameBelow
    <2>3. Tame(k)
      BY <1>k, <2>2, TamePush
    <2> HIDE DEF k
    <2>4. c.pcb \in Pcbs /\ stack' = Push("discard_cb", c.pcb, 0, k) => Shaped(stack')
      BY <1>d, <1>k, <2>3, ShapedPush
    <2> QED
      BY <2>1, <2>3, <2>4, TameShaped
  <1>9. CASE Closed
    <2>1. Tame(stack) /\ c.pcb \in Pcbs \cup {NULL} /\ stack' = Push("discard_cb", c.pcb, 0, stack)
      BY <1>9, SafeCall DEF Closed, MayCall, DeletesSafely
    <2> QED
      BY <1>d, <1>k, <2>1, ShapedPush
  <1>10. CASE Deleted
    <2> DEFINE k == Push("dtor", NULL, 0, stack)
    <2>1. Tame(stack)
      BY <1>10, SafeCall DEF Deleted, MayCall, DeletesSafely
    <2>2. Tame(k)
      BY <1>10, <2>1, DtorPush DEF Deleted, InProgress, Occurs
    <2>3. stack' = k \/ (c.pcb \in Pcbs /\ stack' = Push("discard_cb", c.pcb, 0, k))
      BY <1>10 DEF Deleted
    <2> HIDE DEF k
    <2>4. c.pcb \in Pcbs /\ stack' = Push("discard_cb", c.pcb, 0, k) => Shaped(stack')
      BY <1>d, <1>k, <2>2, ShapedPush
    <2> QED
      BY <2>2, <2>3, <2>4, TameShaped
  <1>11. CASE Aborted
    BY <1>11 DEF Aborted, MayCall, DeletesSafely
  <1> QED
    BY <1>1, <1>2, <1>3, <1>4, <1>5, <1>6, <1>7, <1>8, <1>9, <1>10, <1>11 DEF TlsStackKind

(* Once the object is dead, only frames that do not use it are run.        *)
LEMMA DeadStep ==
    ASSUME TypeOK, NoDanglingTlsFrame, ~c.alive, tls' = tls, ~c'.alive, TlsStackKind, c.pcb = NULL
    PROVE  NoDanglingTlsFrame'
  <1> DEFINE Fit(fr) == Safe(fr) /\ (fr.f = "tls_sent_cb" /\ tls.use_tls => ~tls.has_client)
  <1>0. NULL \notin Pcbs /\ stack \in Seq(Frames)
    BY PcbAssumption DEF TypeOK
  <1>1. \A i \in 1..Len(stack) : Fit(stack[i])
    BY DEF NoDanglingTlsFrame, Safe
  <1>2. (\A i \in 1..Len(stack') : Fit(stack'[i])) => NoDanglingTlsFrame'
    BY DEF NoDanglingTlsFrame, Safe, UsesObject
  <1>3. ASSUME stack # <<>> PROVE /\ \A i \in 1..Len(Tail(stack)) : Fit(Tail(stack)[i])
                                  /\ Head(stack) = stack[1] /\ Fit(Head(stack))
    <2>1. /\ Len(Tail(stack)) = Len(stack) - 1 /\ Head(stack) = stack[1] /\ Len(stack) \in Nat
          /\ \A i \in 1..Len(Tail(stack)) : Tail(stack)[i] = stack[i + 1]
      BY <1>0, <1>3, PopFrame
    <2>2. 1 \in 1..Len(stack) /\ \A i \in 1..Len(Tail(stack)) : i + 1 \in 1..Len(stack)
      BY <1>0, <1>3, <2>1
    <2> HIDE DEF Fit
    <2> QED
      BY <1>1, <2>1, <2>2
  <1>4. CASE Unmoved
    BY <1>1, <1>2, <1>4 DEF Unmoved
  <1>5. CASE Popped
    BY <1>2, <1>3, <1>5 DEF Popped
  <1>6. CASE ReadMoves
    BY <1>3, <1>6 DEF ReadMoves, Reading, Top, Safe
  <1>7. CASE FinCalled
    <2> DEFINE p == Head(stack).p
               r == Tail(stack)
    <2>1. stack # <<>> /\ stack' = Push("ret", p, 0, r)
      BY <1>0, <1>7 DEF FinCalled, Top
    <2>2. p \in Pcbs \cup {NULL} /\ r \in Seq(Frames) /\ "ret" \in FrameKinds /\ 0 \in Nat
      BY <1>0, <2>1, PopFrame, PushedKinds DEF Frames
    <2>3. \A i \in 1..Len(r) : Fit(r[i])
      BY <1>3, <2>1
    <2> HIDE DEF p, r
    <2>4. \A i \in 1..Len(stack') : stack'[i] = Frame("ret", p, 0) \/ (i - 1 \in 1..Len(r) /\ stack'[i] = r[i - 1])
      BY <2>1, <2>2, PushMembers
    <2>5. Fit(Frame("ret", p, 0))
      BY DEF Frame, Safe, UsesObject
    <2> HIDE DEF Fit
    <2>6. \A i \in 1..Len(stack') : Fit(stack'[i])
      BY <2>3, <2>4, <2>5
    <2> QED
      BY <1>2, <2>6
  <1>8. ~(Failed \/ PbufNext \/ ErrorTold \/ Closed \/ Deleted \/ Aborted \/ \E p \in Pcbs : Entered(p))
    BY DEF Failed, PbufNext, ErrorTold, Closed, Deleted, Aborted, Entered, MayCall
  <1> QED
    BY <1>4, <1>5, <1>6, <1>7, <1>8 DEF TlsStackKind

(* The step in which the object dies leaves only such frames.              *)
LEMMA LastStep ==
    ASSUME Shaped(stack), Top("dtor"), stack' = Tail(stack), TlsTypeOK,
           tls' = [tls EXCEPT !.has_client = ~tls.use_tls]
    PROVE  NoDanglingTlsFrame'
  <1>1. stack \in Seq(Frames) /\ stack # <<>> /\ Head(stack).f = "dtor" /\ Len(stack) \in Nat
    BY DEF Shaped, Ordered, Top
  <1>2. /\ Len(stack') = Len(stack) - 1 /\ Head(stack) = stack[1]
        /\ \A i \in 1..Len(stack') : stack'[i] = stack[i + 1]
    BY <1>1, PopFrame
  <1>3. 1 \in 1..Len(stack) /\ \A i \in 1..Len(stack') : i + 1 \in 1..Len(stack) /\ 1 < i + 1
    BY <1>1, <1>2
  <1>4. \A i \in 1..Len(stack') : Safe(stack'[i])
    BY <1>1, <1>2, <1>3 DEF Shaped, Ordered, DtorOver
  <1>5. tls'.use_tls => ~tls'.has_client
    BY DEF TlsTypeOK
  <1> QED
    BY <1>4, <1>5 DEF NoDanglingTlsFrame, Safe, UsesObject

(* An application that closes and deletes the client in safe contexts only *)
(* (see DeletesSafely) never has a method of the deleted object left on    *)
(* the call stack with code to run that uses it: a delete in onConnect,    *)
(* onTimeout, onPoll, onDisconnect, a TLS client's onAck or loop() is      *)
(* safe, whatever the connection was doing.                                *)
THEOREM DeletionIsSafe ==
    ASSUME Overlap = FALSE, DeletesSafely
    PROVE  TlsSpec => []NoDanglingTlsFrame
  <1> DEFINE Inv == TlsInv /\ Shaped(stack) /\ NoDanglingTlsFrame
  <1>1. TlsInit => Inv
    <2> SUFFICES ASSUME TlsInit PROVE Inv
      OBVIOUS
    <2>1. stack = <<>> /\ \A i : i \notin 1..Len(stack)
      BY EmptyStack DEF TlsInit, Init
    <2> QED
      BY <2>1, TlsStart, TameEmpty DEF NoDanglingTlsFrame
  <1>2. Inv /\ [TlsNext]_tlsVars => Inv'
    <2>1. ASSUME Inv, TlsNext PROVE Inv'
      <3>0. TlsTypeOK
        BY <2>1 DEF TlsInv, SessionInv, TlsTypes, BufferFits, TlsTypeOK, TlsStates, SslType
      <3>1. TlsInv' /\ TypeOK /\ TypeOK' /\ Core /\ SessionInv /\ OwnershipInv
        BY <2>1, TlsStep DEF TlsInv, AnnounceInv, OwnershipInv
      <3>2. TlsStackKind
        BY <2>1, <3>1, EveryTlsStepHasAStackKind
      <3>3. Shaped(stack')
        BY <2>1, <3>1, <3>2, ShapeStep
      <3>4. StepKind
        BY <2>1, <3>1, TlsOwnershipStep
      <3>5. CASE Top("dtor") /\ stack' = Tail(stack) /\ tls' = [tls EXCEPT !.has_client = ~tls.use_tls]
        BY <2>1, <3>0, <3>1, <3>3, <3>5, LastStep
      <3>6. CASE c'.alive = c.alive /\ (~c.alive => tls' = tls)
        <4>1. CASE c'.alive
          BY <3>1, <3>3, <2>1, <4>1 DEF NoDanglingTlsFrame
        <4>2. CASE ~c'.alive
          <5>1. c.pcb = NULL
            BY <3>1, <3>6, <4>2 DEF Core, PcbUsable, NoDanglingArg, Callbacks, Open, OpenIsCallable
          <5> QED
            BY <2>1, <3>1, <3>2, <3>3, <3>6, <4>2, <5>1, DeadStep
        <4> QED
          BY <4>1, <4>2
      <3> QED
        BY <2>1, <3>1, <3>4, <3>5, <3>6, AliveStep
    <2>2. ASSUME Inv, UNCHANGED tlsVars PROVE Inv'
      <3>1. TlsInv'
        BY <2>2, TlsInductive
      <3>2. stack' = stack /\ c' = c /\ tls' = tls
        BY <2>2 DEF tlsVars, vars
      <3> QED
        BY <2>2, <3>1, <3>2 DEF NoDanglingTlsFrame
    <2> QED
      BY <2>1, <2>2
  <1> QED
    BY <1>1, <1>2, PTL DEF TlsSpec

=============================================================================
