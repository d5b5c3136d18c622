------------------------- MODULE AsyncClient_proofs -------------------------
(***************************************************************************)
(* Proofs about AsyncClient, for every set of pcbs, every application and  *)
(* every bound.                                                            *)
(***************************************************************************)
EXTENDS AsyncClient, TLAPS

-----------------------------------------------------------------------------
(* The stack: pushing and popping frames.                                  *)

(* The empty stack is a stack.                                             *)
LEMMA EmptyStack == <<>> \in Seq(Frames) /\ Len(<<>>) = 0
  OBVIOUS

(* Pushing a well-formed frame keeps the stack well formed; the frame is   *)
(* then on top of the frames there were.                                   *)
LEMMA PushFrame ==
    ASSUME NEW f \in FrameKinds,
           NEW p \in Pcbs \cup {NULL}, NEW n \in Nat, NEW k \in Seq(Frames)
    PROVE  /\ Push(f, p, n, k) \in Seq(Frames)
           /\ Push(f, p, n, k) # <<>>
           /\ Len(Push(f, p, n, k)) = Len(k) + 1
           /\ Push(f, p, n, k)[1] = Frame(f, p, n)
           /\ \A i \in 1..Len(k) : Push(f, p, n, k)[i + 1] = k[i]
  <1>1. Frame(f, p, n) \in Frames
    BY DEF Frame, Frames
  <1>2. <<Frame(f, p, n)>> \in Seq(Frames) /\ Len(<<Frame(f, p, n)>>) = 1
    BY <1>1
  <1> QED
    BY <1>1, <1>2 DEF Push

(* The top of a non-empty stack is a frame, and popping it leaves a stack. *)
LEMMA PopFrame ==
    ASSUME NEW k \in Seq(Frames), k # <<>>
    PROVE  /\ Head(k) \in Frames /\ Head(k) = k[1]
           /\ Tail(k) \in Seq(Frames)
           /\ Len(Tail(k)) = Len(k) - 1
           /\ \A i \in 1..Len(Tail(k)) : Tail(k)[i] = k[i + 1]
  OBVIOUS

(* The frames of a stack with one more frame on top.                       *)
LEMMA PushMembers ==
    ASSUME NEW f \in FrameKinds,
           NEW p \in Pcbs \cup {NULL}, NEW n \in Nat, NEW k \in Seq(Frames),
           NEW i \in 1..Len(Push(f, p, n, k))
    PROVE  \/ i = 1 /\ Push(f, p, n, k)[i] = Frame(f, p, n)
           \/ i - 1 \in 1..Len(k) /\ Push(f, p, n, k)[i] = k[i - 1]
  <1>1. CASE i = 1
    BY <1>1, PushFrame
  <1>2. CASE i # 1
    <2>1. Len(k) \in Nat /\ Len(Push(f, p, n, k)) = Len(k) + 1
      <3>1. Len(k) \in Nat
        OBVIOUS
      <3> QED
        BY <3>1, PushFrame
    <2>2. i - 1 \in 1..Len(k)
      BY <1>2, <2>1
    <2>3. Push(f, p, n, k)[(i - 1) + 1] = k[i - 1]
      BY <2>2, PushFrame
    <2> QED
      BY <2>2, <2>3
  <1> QED
    BY <1>1, <1>2

(* A kind of frame occurs in a stack.                                      *)
Occurs(k, g) == \E i \in 1..Len(k) : k[i].f = g

(* Which frames occur after a push and after a pop.                        *)
LEMMA OccursPush ==
    ASSUME NEW f \in FrameKinds,
           NEW p \in Pcbs \cup {NULL}, NEW n \in Nat, NEW k \in Seq(Frames), NEW g,
           Occurs(Push(f, p, n, k), g)
    PROVE  f = g \/ Occurs(k, g)
  <1>1. PICK i \in 1..Len(Push(f, p, n, k)) : Push(f, p, n, k)[i].f = g
    BY DEF Occurs
  <1>2. CASE Push(f, p, n, k)[i] = Frame(f, p, n)
    BY <1>1, <1>2 DEF Frame
  <1>3. CASE i - 1 \in 1..Len(k) /\ Push(f, p, n, k)[i] = k[i - 1]
    BY <1>1, <1>3 DEF Occurs
  <1> QED
    BY <1>1, <1>2, <1>3, PushMembers

(* A frame that occurs below the top occurs.                               *)
LEMMA OccursTail ==
    ASSUME NEW k \in Seq(Frames), k # <<>>, NEW g, Occurs(Tail(k), g)
    PROVE  Occurs(k, g)
  <1>1. PICK i \in 1..Len(Tail(k)) : Tail(k)[i].f = g
    BY DEF Occurs
  <1>2. Len(k) \in Nat /\ Len(Tail(k)) = Len(k) - 1
    BY PopFrame
  <1>3. i + 1 \in 1..Len(k)
    BY <1>2
  <1>4. k[i + 1].f = g
    BY <1>1, PopFrame
  <1> QED
    BY <1>3, <1>4 DEF Occurs

-----------------------------------------------------------------------------
(* Type correctness.                                                       *)

LwType == [Pcbs -> PcbRecords]

(* The operators on pcbs keep lw well formed.                              *)
LEMMA PcbOperators ==
    ASSUME NEW l \in LwType, NEW p
    PROVE  /\ clearTcpCallbacks(l, p) \in LwType
           /\ \A st \in Over : Release(l, p, st) \in LwType
           /\ \A n \in Nat : tcp_recved(l, p, n) \in LwType
           /\ [l EXCEPT ![p].told = @ + 1] \in LwType
           /\ [l EXCEPT ![p].due = FALSE] \in LwType
           /\ \A st \in Open : [l EXCEPT ![p].st = st] \in LwType
  <1>1. clearTcpCallbacks(l, p) \in LwType
    BY DEF clearTcpCallbacks, LwType, PcbRecords
  <1>2. ASSUME NEW st \in Over PROVE Release(l, p, st) \in LwType
    BY <1>1, ZenonT(40) DEF Release, LwType, PcbRecords
  <1>3. ASSUME NEW n \in Nat PROVE tcp_recved(l, p, n) \in LwType
    <2>1. CASE p \in Pcbs
      <3>1. l[p].unrecved \in Nat
        BY <2>1 DEF LwType, PcbRecords
      <3>2. (IF n > l[p].unrecved THEN 0 ELSE l[p].unrecved - n) \in Nat
        BY <3>1
      <3> QED
        BY <2>1, <3>2 DEF tcp_recved, LwType, PcbRecords
    <2>2. CASE p \notin Pcbs
      BY <2>2 DEF tcp_recved, LwType
    <2> QED
      BY <2>1, <2>2
  <1>4. /\ [l EXCEPT ![p].told = @ + 1] \in LwType
        /\ [l EXCEPT ![p].due = FALSE] \in LwType
    <2>1. CASE p \in Pcbs
      <3>1. l[p].told + 1 \in Nat
        BY <2>1 DEF LwType, PcbRecords
      <3> QED
        BY <2>1, <3>1 DEF LwType, PcbRecords
    <2>2. CASE p \notin Pcbs
      BY <2>2 DEF LwType
    <2> QED
      BY <2>1, <2>2
  <1>5. ASSUME NEW st \in Open PROVE [l EXCEPT ![p].st = st] \in LwType
    BY DEF LwType, PcbRecords
  <1> QED
    BY <1>1, <1>2, <1>3, <1>4, <1>5

(* The operators on the tracker keep it well formed.                       *)
LEMMA TrackerOperators ==
    ASSUME NEW t \in Trackers
    PROVE  /\ \A e \in Errors : SetCloseError(t, e) \in Trackers
           /\ \A event \in ErrorEvents : SetErrored(t, event) \in Trackers
           /\ \A e \in Errors, event \in ErrorEvents : Errored(t, e, event) \in Trackers
           /\ AfterCallbackCloseError(t) \in Trackers
  BY DEF Trackers, ErrorEvents, SetCloseError, SetErrored, Errored,
         AfterCallbackCloseError, CallbackCloseError

(* _close() keeps the types.                                               *)
LEMMA CloseType ==
    ASSUME NEW c0 \in Clients, NEW e0 \in Trackers, NEW l0 \in LwType,
           NEW k \in Seq(Frames), Close_(c0, e0, l0, k)
    PROVE  /\ c' \in Clients /\ et' \in Trackers /\ lw' \in LwType
           /\ stack' \in Seq(Frames)
  <1>1. CASE c0.pcb = NULL
    BY <1>1 DEF Close_
  <1>2. CASE c0.pcb # NULL
    <2>1. PICK r \in {"closing", "aborted"} :
            /\ et' = SetCloseError(e0, CloseError(r))
            /\ Discard(Release(l0, c0.pcb, r), c0.pcb, k)
      BY <1>2 DEF Close_
    <2>2. c0.pcb \in Pcbs /\ r \in Over
      BY <1>2, <2>1 DEF Clients, Over
    <2>3. Release(l0, c0.pcb, r) \in LwType
      BY <2>2, PcbOperators
    <2>4. lw' \in LwType
      BY <2>1, <2>3, PcbOperators DEF Discard
    <2>5. stack' \in Seq(Frames)
      BY <2>1, <2>2, PushFrame DEF Discard, Handlers, FrameKinds
    <2>6. et' \in Trackers
      BY <2>1, TrackerOperators DEF CloseError, Errors
    <2>7. c' \in Clients
      BY <1>2 DEF Close_, ForgetPcb, Clients
    <2> QED
      BY <2>4, <2>5, <2>6, <2>7
  <1> QED
    BY <1>1, <1>2

(* _error() keeps the types.                                               *)
LEMMA ErrorType ==
    ASSUME NEW c0 \in Clients, NEW e0 \in Trackers, NEW l0 \in LwType,
           NEW p \in Pcbs \cup {NULL}, NEW k \in Seq(Frames), Error_(c0, e0, l0, p, k)
    PROVE  /\ c' \in Clients /\ et' \in Trackers /\ lw' \in LwType
           /\ stack' \in Seq(Frames)
  <1>1. c' \in Clients
    BY DEF Error_, ForgetPcb, Clients
  <1>2. stack' \in Seq(Frames)
    BY PushFrame DEF Error_, Handlers, FrameKinds
  <1> QED
    BY <1>1, <1>2 DEF Error_

(* connect() keeps the pcbs' types.                                        *)
LEMMA ConnectType ==
    ASSUME lw \in LwType, Connect_
    PROVE  lw' \in LwType
  <1>1. NewPcb("SYN_SENT", {"err"}) \in PcbRecords /\ NewPcb("leaked", {}) \in PcbRecords
    BY DEF NewPcb, PcbRecords, Open, Callbacks
  <1> QED
    BY <1>1 DEF Connect_, LwType

(* Delivering a pbuf keeps the types.                                      *)
LEMMA DeliverType ==
    ASSUME NEW p \in Pcbs \cup {NULL}, NEW n \in Nat, NEW k \in Seq(Frames),
           held \in Nat, Deliver(p, n, k)
    PROVE  stack' \in Seq(Frames) /\ held' \in Nat
  <1>1. PICK f \in DataHandlers :
          /\ stack' = Push(f, p, n, k)
          /\ held' = IF f = "pb_cb" THEN held + 1 ELSE held
    BY DEF Deliver
  <1>2. f \in FrameKinds
    BY FlagAssumption DEF Handlers, FrameKinds
  <1> QED
    BY <1>1, <1>2, PushFrame

(* Every step of lwIP keeps the types.                                     *)
LEMMA StackStepType ==
    ASSUME TypeOK, Stack
    PROVE  TypeOK'
  <1> USE DEF LwType
  <1>1. ASSUME NEW p \in Pcbs, S_connected(p) PROVE TypeOK'
    <2>1. c' \in Clients
      BY <1>1 DEF TypeOK, S_connected, Clients
    <2>2. lw' \in LwType
      BY <1>1, ZenonT(40) DEF TypeOK, S_connected, PcbRecords, Open, Callbacks
    <2>3. <<>> \in Seq(Frames) /\ Push("ret", p, 0, <<>>) \in Seq(Frames)
      BY EmptyStack, PushFrame DEF Handlers, FrameKinds
    <2>4. stack' \in Seq(Frames)
      BY <1>1, <2>3, PushFrame DEF S_connected, Handlers, FrameKinds
    <2> QED
      BY <1>1, <2>1, <2>2, <2>4 DEF TypeOK, S_connected
  <1>2. ASSUME NEW p \in Pcbs, S_failed(p) PROVE TypeOK'
    <2>1. PICK event \in ErrorEvents :
            Error_(c, Errored(et, "ERR_RST", event), Release(lw, p, "detached"), p,
                   Push("ret", p, 0, <<>>))
      BY <1>2 DEF S_failed, ErrorEvents
    <2>2. Push("ret", p, 0, <<>>) \in Seq(Frames)
      BY EmptyStack, PushFrame DEF Handlers, FrameKinds
    <2>3. Errored(et, "ERR_RST", event) \in Trackers
      BY <2>1, TrackerOperators DEF TypeOK, Errors
    <2>4. Release(lw, p, "detached") \in LwType
      BY PcbOperators DEF TypeOK, Over
    <2> QED
      BY <1>2, <2>1, <2>2, <2>3, <2>4, ErrorType DEF TypeOK, S_failed
  <1>3. ASSUME NEW p \in Pcbs, NEW n \in 1..MaxChain, NEW fin \in BOOLEAN, S_recv(p, n, fin)
        PROVE  TypeOK'
    <2> DEFINE below == IF fin THEN Push("fin", p, 0, <<>>) ELSE <<>>
    <2>1. c' \in Clients
      BY <1>3 DEF TypeOK, S_recv, Clients
    <2>2. et' \in Trackers
      BY <1>3, TrackerOperators DEF TypeOK, S_recv, Errors
    <2>3. lw' \in LwType
      <3>1. n \in Nat /\ lw[p].unrecved \in Nat
        BY SizeAssumption DEF TypeOK, PcbRecords
      <3>2. lw[p].unrecved + n \in Nat
        BY <3>1
      <3> QED
        BY <1>3, <3>2, ZenonT(40) DEF TypeOK, S_recv, PcbRecords, Open
    <2>4. below \in Seq(Frames)
      BY EmptyStack, PushFrame DEF Handlers, FrameKinds
    <2>5. Push("ret", p, 0, below) \in Seq(Frames)
      BY <2>4, PushFrame DEF Handlers, FrameKinds
    <2>6. Deliver(p, n - 1, Push("ret", p, 0, below)) /\ n - 1 \in Nat
      BY <1>3, SizeAssumption DEF S_recv
    <2>7. stack' \in Seq(Frames) /\ held' \in Nat
      BY <2>5, <2>6, DeliverType DEF TypeOK
    <2> QED
      BY <1>3, <2>1, <2>2, <2>3, <2>7 DEF TypeOK, S_recv
  <1>4. ASSUME NEW p \in Pcbs, S_recv_fin(p) PROVE TypeOK'
    <2>1. Push("ret", p, 0, <<>>) \in Seq(Frames)
      BY EmptyStack, PushFrame DEF Handlers, FrameKinds
    <2>2. [lw EXCEPT ![p].st = "CLOSE_WAIT"] \in LwType
      BY PcbOperators DEF TypeOK, Open
    <2> QED
      BY <1>4, <2>1, <2>2, CloseType DEF TypeOK, S_recv_fin
  <1>5. ASSUME NEW p \in Pcbs, NEW len \in 1..SndBuf, S_sent(p, len) PROVE TypeOK'
    <2>1. len \in Nat /\ lw[p].unacked \in Nat /\ c.tx_unacked_len \in Nat /\ c.tx_acked_len \in Nat
      BY SizeAssumption DEF TypeOK, PcbRecords, Clients
    <2>2. Unacked(len) \in Nat /\ StillBusy(len) \in BOOLEAN
      BY <2>1 DEF Unacked, StillBusy, TypeOK, Clients
    <2>3. c.tx_acked_len + len \in Nat /\ lw[p].unacked - len \in Nat
      BY <1>5, <2>1 DEF S_sent
    <2>4. c' \in Clients
      BY <1>5, <2>2, <2>3 DEF TypeOK, S_sent, Clients
    <2>5. lw' \in LwType
      BY <1>5, <2>3 DEF TypeOK, S_sent, PcbRecords
    <2>6. Push("ret", p, 0, <<>>) \in Seq(Frames)
      BY EmptyStack, PushFrame DEF Handlers, FrameKinds
    <2>7. stack' \in Seq(Frames)
      BY <1>5, <2>6, PushFrame DEF S_sent, Handlers, FrameKinds
    <2>8. et' \in Trackers
      BY <1>5, TrackerOperators DEF TypeOK, S_sent, Errors
    <2> QED
      BY <1>5, <2>4, <2>5, <2>7, <2>8 DEF TypeOK, S_sent
  <1>6. ASSUME NEW p \in Pcbs, S_poll(p) PROVE TypeOK'
    <2> DEFINE e == SetCloseError(et, "ERR_OK")
               l == [lw EXCEPT ![p].due = FALSE]
               k == Push("ret", p, 0, <<>>)
    <2>1. e \in Trackers /\ l \in LwType
      BY TrackerOperators, PcbOperators DEF TypeOK, Errors
    <2>2. k \in Seq(Frames)
      BY EmptyStack, PushFrame DEF Handlers, FrameKinds
    <2>3. [c EXCEPT !.close_pcb = FALSE] \in Clients /\ [c EXCEPT !.pcb_busy = FALSE] \in Clients
      BY DEF TypeOK, Clients
    <2>4. Push("timeout_cb", p, 0, k) \in Seq(Frames) /\ Push("poll_cb", p, 0, k) \in Seq(Frames)
      BY <2>2, PushFrame DEF Handlers, FrameKinds
    <2>5. \/ Close_([c EXCEPT !.close_pcb = FALSE], e, l, k)
          \/ Close_(c, e, l, k)
          \/ /\ c' \in {c, [c EXCEPT !.pcb_busy = FALSE]} /\ et' = e /\ lw' = l
             /\ stack' \in {Push("timeout_cb", p, 0, k), Push("poll_cb", p, 0, k)}
      BY <1>6 DEF S_poll, Poll_
    <2>6. c' \in Clients /\ et' \in Trackers /\ lw' \in LwType /\ stack' \in Seq(Frames)
      <3> HIDE DEF e, l, k
      <3> QED
        BY <2>1, <2>2, <2>3, <2>4, <2>5, CloseType DEF TypeOK
    <2> QED
      BY <1>6, <2>6 DEF TypeOK, S_poll
  <1>7. ASSUME NEW p \in Pcbs, NEW err \in {"ERR_RST", "ERR_ABRT"}, S_error(p, err) PROVE TypeOK'
    <2>1. Errored(et, err, "EE_ERROR_CB") \in Trackers
      BY TrackerOperators DEF TypeOK, Errors, ErrorEvents
    <2>2. Release(lw, p, "freed") \in LwType
      BY PcbOperators DEF TypeOK, Over
    <2> QED
      BY <1>7, <2>1, <2>2, EmptyStack, ErrorType DEF TypeOK, S_error
  <1>8. CASE S_dns_found
    <2>1. lw' \in LwType
      BY <1>8, ConnectType DEF TypeOK, S_dns_found
    <2>2. stack' \in Seq(Frames)
      BY <1>8, EmptyStack, PushFrame, ZenonT(40) DEF TypeOK, S_dns_found, Handlers, FrameKinds
    <2> QED
      BY <1>8, <2>1, <2>2 DEF TypeOK, S_dns_found
  <1>9. CASE Tick
    <2>1. c' \in Clients
      <3>1. Older(c.sent_age, AckTimeout) \in Nat /\ Older(c.rx_age, RxTimeout) \in Nat
        BY SizeAssumption DEF TypeOK, Older, Clients
      <3> QED
        BY <1>9, <3>1 DEF TypeOK, Tick, Clients
    <2>2. lw' \in LwType
      <3>1. ASSUME NEW p \in Pcbs
            PROVE  [lw[p] EXCEPT !.due = "poll" \in lw[p].cbs] \in PcbRecords
        <4>1. ("poll" \in lw[p].cbs) \in BOOLEAN
          OBVIOUS
        <4>2. lw[p] \in PcbRecords
          BY DEF TypeOK
        <4> HIDE DEF LwType
        <4> QED
          BY <4>1, <4>2 DEF PcbRecords
      <3> QED
        BY <1>9, <3>1 DEF Tick
    <2> QED
      BY <1>9, <2>1, <2>2 DEF TypeOK, Tick
  <1> QED
    BY <1>1, <1>2, <1>3, <1>4, <1>5, <1>6, <1>7, <1>8, <1>9 DEF Stack

(* Every return from a handler keeps the types.                            *)
LEMMA ReturnStepType ==
    ASSUME TypeOK, Return
    PROVE  TypeOK'
  <1> USE DEF LwType
  <1>0. stack # <<>> /\ Head(stack) \in Frames /\ Tail(stack) \in Seq(Frames)
    <2>1. stack # <<>>
      BY DEF Return, UserReturn, RecvReturn, PacketReturn, SentReturn, ErrorReturn,
             AbortReturn, DtorReturn, ReturnToStack, FinAfterData, Top
    <2> QED
      BY <2>1, PopFrame DEF TypeOK
  <1>a. Head(stack).p \in Pcbs \cup {NULL} /\ Head(stack).n \in Nat
    BY <1>0 DEF Frames
  <1>n. ASSUME NEW c0 \in Clients, NextPbuf(c0)
        PROVE  c' \in Clients /\ stack' \in Seq(Frames) /\ held' \in Nat
    <2>1. CASE Head(stack).n > 0
      <3>1. Head(stack).n - 1 \in Nat
        BY <1>a, <2>1
      <3>2. Deliver(Head(stack).p, Head(stack).n - 1, Tail(stack)) /\ c' = [c0 EXCEPT !.ack_pcb = TRUE]
        BY <1>n, <2>1 DEF NextPbuf
      <3>3. c' \in Clients
        BY <3>2 DEF Clients
      <3> QED
        BY <1>0, <1>a, <3>1, <3>2, <3>3, DeliverType DEF TypeOK
    <2>2. CASE ~(Head(stack).n > 0)
      BY <1>0, <1>n, <2>2 DEF NextPbuf, TypeOK
    <2> QED
      BY <2>1, <2>2
  <1>1. CASE UserReturn
    BY <1>0, <1>1 DEF TypeOK, UserReturn
  <1>2. CASE RecvReturn
    <2>1. Defer(c) \in Clients
      <3>1. c.rx_ack_len + 1 \in Nat
        BY DEF TypeOK, Clients
      <3> QED
        BY <3>1 DEF TypeOK, Defer, Clients
    <2>2. lw' \in LwType
      BY <1>2, PcbOperators DEF TypeOK, RecvReturn, AckUnlessDeferred
    <2>3. NextPbuf(IF c.ack_pcb THEN c ELSE Defer(c)) /\ (IF c.ack_pcb THEN c ELSE Defer(c)) \in Clients
      BY <1>2, <2>1 DEF TypeOK, RecvReturn
    <2> QED
      BY <1>2, <1>n, <2>2, <2>3 DEF TypeOK, RecvReturn
  <1>3. CASE PacketReturn
    BY <1>3, <1>n DEF TypeOK, PacketReturn
  <1>4. CASE SentReturn
    BY <1>0, <1>4 DEF TypeOK, SentReturn, Clients
  <1>5. CASE ErrorReturn
    <2>1. lw' \in LwType
      BY <1>5, PcbOperators DEF TypeOK, ErrorReturn, Discard
    <2>2. stack' \in Seq(Frames)
      BY <1>0, <1>5, <1>a, PushFrame DEF ErrorReturn, Discard, Handlers, FrameKinds
    <2> QED
      BY <1>5, <2>1, <2>2 DEF TypeOK, ErrorReturn
  <1>6. CASE AbortReturn
    <2>1. c' \in Clients
      BY <1>6 DEF TypeOK, AbortReturn, ForgetPcb, Clients
    <2> QED
      BY <1>0, <1>6, <2>1, TrackerOperators DEF TypeOK, AbortReturn, Errors
  <1>7. CASE DtorReturn
    BY <1>0, <1>7 DEF TypeOK, DtorReturn, Clients
  <1>8. CASE ReturnToStack
    BY <1>0, <1>8, TrackerOperators DEF TypeOK, ReturnToStack
  <1>9. CASE FinAfterData
    <2>1. Push("ret", Head(stack).p, 0, Tail(stack)) \in Seq(Frames)
      BY <1>0, <1>a, PushFrame DEF Handlers, FrameKinds
    <2>2. CASE "recv" \in lw[Head(stack).p].cbs
      <3>1. Close_(c, et, lw, Push("ret", Head(stack).p, 0, Tail(stack)))
        BY <1>9, <2>2 DEF FinAfterData
      <3> QED
        BY <1>9, <2>1, <3>1, CloseType DEF TypeOK, FinAfterData
    <2>3. CASE "recv" \notin lw[Head(stack).p].cbs
      BY <1>0, <1>9, <2>3 DEF TypeOK, FinAfterData
    <2> QED
      BY <2>2, <2>3
  <1> QED
    BY <1>1, <1>2, <1>3, <1>4, <1>5, <1>6, <1>7, <1>8, <1>9 DEF Return

(* Every call of a method keeps the types.                                 *)
LEMMA CallStepType ==
    ASSUME TypeOK, Call
    PROVE  TypeOK'
  <1> USE DEF LwType
  <1>1. CASE Connect
    BY <1>1, ConnectType DEF TypeOK, Connect
  <1>2. CASE ConnectHost
    BY <1>2, ConnectType DEF TypeOK, ConnectHost
  <1>r. Reopened \in LwType
    BY PcbOperators DEF TypeOK, Reopened, Clients
  <1>3. CASE CloseNow
    BY <1>3, <1>r, CloseType DEF TypeOK, CloseNow
  <1>4. CASE CloseLater
    BY <1>4, <1>r DEF TypeOK, CloseLater, Clients
  <1>5. CASE Abort
    <2>1. c.pcb \in Pcbs
      BY <1>5 DEF TypeOK, Abort, Clients
    <2>2. Push("abort", c.pcb, 0, stack) \in Seq(Frames)
      BY <2>1, PushFrame DEF TypeOK, Handlers, FrameKinds
    <2>3. Errored(et, "ERR_ABRT", "EE_ERROR_CB") \in Trackers
      BY TrackerOperators DEF TypeOK, Errors, ErrorEvents
    <2>4. Release(lw, c.pcb, "aborted") \in LwType
      BY PcbOperators DEF TypeOK, Over
    <2> QED
      BY <1>5, <2>1, <2>2, <2>3, <2>4, ErrorType DEF TypeOK, Abort
  <1>6. CASE Delete
    <2>1. Push("dtor", NULL, 0, stack) \in Seq(Frames)
      BY PushFrame DEF TypeOK, Handlers, FrameKinds
    <2> QED
      BY <1>6, <2>1, CloseType DEF TypeOK, Delete
  <1>s. ASSUME NEW c0 \in Clients PROVE Sent(c0) \in Clients
    BY DEF Sent, Clients
  <1>7. CASE Send
    BY <1>7, <1>s DEF TypeOK, Send
  <1>8. CASE AckLater
    BY <1>8 DEF TypeOK, AckLater, Clients
  <1>9. CASE AckPacket
    <2>1. held - 1 \in Nat
      BY <1>9 DEF TypeOK, AckPacket
    <2>2. tcp_recved(lw, c.pcb, 1) \in LwType
      BY PcbOperators DEF TypeOK
    <2> QED
      BY <1>9, <2>1, <2>2 DEF TypeOK, AckPacket
  <1>w. ASSUME NEW n \in 1..SndBuf, space > 0
        PROVE  Queued(n) \in LwType /\ Counted(n) \in Clients
    <2>1. c.pcb \in Pcbs
      BY <1>w DEF space, connected, TypeOK, Clients
    <2>2. lw[c.pcb].unacked \in Nat /\ c.tx_unacked_len \in Nat
      BY <2>1 DEF TypeOK, PcbRecords, Clients
    <2>3. space \in Nat
      BY <1>w, <2>2, SizeAssumption DEF space
    <2>4. Fits(n) \in Nat
      BY <2>3, SizeAssumption DEF Fits
    <2>5. lw[c.pcb].unacked + Fits(n) \in Nat /\ c.tx_unacked_len + Fits(n) \in Nat
      BY <2>2, <2>4
    <2>6. Queued(n) \in LwType
      BY <2>5 DEF Queued, TypeOK, PcbRecords
    <2>7. Counted(n) \in Clients
      BY <2>5 DEF Counted, TypeOK, Clients
    <2> QED
      BY <2>6, <2>7
  <1>10. ASSUME NEW n \in 1..SndBuf, Add(n) PROVE TypeOK'
    BY <1>10, <1>w DEF TypeOK, Add
  <1>11. ASSUME NEW n \in 1..SndBuf, Write(n) PROVE TypeOK'
    BY <1>11, <1>w, <1>s DEF TypeOK, Write
  <1>12. ASSUME NEW len \in 1..RxBound, Ack(len) PROVE TypeOK'
    <2>1. len \in Nat /\ c.rx_ack_len \in Nat
      BY SizeAssumption DEF TypeOK, Clients
    <2>2. c.rx_ack_len - len \in Nat
      BY <1>12, <2>1 DEF Ack
    <2>3. tcp_recved(lw, c.pcb, len) \in LwType
      BY <2>1, PcbOperators DEF TypeOK
    <2>4. [c EXCEPT !.rx_ack_len = @ - len] \in Clients
      BY <2>2 DEF TypeOK, Clients
    <2> QED
      BY <1>12, <2>3, <2>4 DEF TypeOK, Ack
  <1> QED
    BY <1>1, <1>2, <1>3, <1>4, <1>5, <1>6, <1>7, <1>8, <1>9, <1>10, <1>11, <1>12 DEF Call

(* The initial client has the right types.                                 *)
LEMMA InitType == Init => TypeOK
  <1> SUFFICES ASSUME Init PROVE TypeOK
    OBVIOUS
  <1>1. c \in Clients
    <2>1. ASSUME NEW p \in Pcbs \cup {NULL} PROVE NewClient(p) \in Clients
      BY SizeAssumption DEF NewClient, Clients
    <2> QED
      BY <2>1 DEF Init
  <1>2. lw \in [Pcbs -> PcbRecords]
    <2>1. NewPcb("ESTABLISHED", Callbacks) \in PcbRecords /\ NewPcb("unused", {}) \in PcbRecords
      BY DEF NewPcb, PcbRecords, Open
    <2> QED
      BY <2>1 DEF Init
  <1> QED
    BY <1>1, <1>2, EmptyStack DEF Init, TypeOK, NewTracker, Trackers, Errors, ErrorEvents

(* Any step, stuttering included, keeps the types.                         *)
LEMMA StepType == TypeOK /\ [Next]_vars => TypeOK'
  <1>1. TypeOK /\ UNCHANGED vars => TypeOK'
    BY DEF TypeOK, vars
  <1> QED
    BY <1>1, StackStepType, ReturnStepType, CallStepType DEF Next

(* The client's members, the tracker, the call stack and the pcbs keep     *)
(* their types; in particular the unsigned counters of ack(), _sent() and  *)
(* add() never go below zero.                                              *)
THEOREM TypeCorrect == Spec => []TypeOK
  BY InitType, StepType, PTL DEF Spec

-----------------------------------------------------------------------------
(* Ownership, when the application makes one attempt at a time.            *)

(* A pcb that is open, for lwIP, has callbacks installed, and one that is  *)
(* being connected has only the error callback.                            *)
OpenIsCallable ==
    \A p \in Pcbs :
        /\ lw[p].st \in Open => lw[p].cbs # {}
        /\ lw[p].st = "SYN_SENT" => lw[p].cbs = {"err"}

(* A connection, a lookup and an attempt exclude each other.               *)
Connecting == \E p \in Pcbs : lw[p].st = "SYN_SENT"

OneAtATime ==
    /\ c.pcb # NULL => ~dns /\ ~Connecting
    /\ dns => ~Connecting
    /\ \A p, q \in Pcbs : lw[p].st = "SYN_SENT" /\ lw[q].st = "SYN_SENT" => p = q

(* The destructor has let everything go, and nothing comes back.           *)
DtorQuiet == InProgress("dtor") => Quiet

(* abort() finds _pcb as tcp_abort() left it.                              *)
AbortQuiet == InProgress("abort") => c.pcb = NULL

Core == PcbUsable /\ NoOrphan /\ OpenIsCallable /\ OneAtATime /\ NoDanglingArg

OwnershipInv == TypeOK /\ Core /\ DtorQuiet /\ AbortQuiet

(* The kinds of steps there are, as far as ownership is concerned.  Every  *)
(* action is of one of these kinds, and each kind keeps the invariant.     *)
Same(q) == lw'[q].st = lw[q].st /\ lw'[q].cbs = lw[q].cbs /\ lw'[q].told = lw[q].told

ClientKept == c'.pcb = c.pcb /\ c'.alive = c.alive

Keeps ==
    /\ ClientKept /\ dns' = dns
    /\ \A q \in Pcbs : \/ Same(q)
                       \/ /\ q = c.pcb /\ lw'[q].st = "CLOSE_WAIT"
                          /\ lw'[q].cbs = lw[q].cbs /\ lw'[q].told = lw[q].told

LooksUp ==
    /\ ClientKept /\ \A q \in Pcbs : Same(q)
    /\ dns' = FALSE \/ (dns' = TRUE /\ Quiet /\ c.alive /\ ~InProgress("dtor"))

Attempts(p) ==
    /\ ClientKept /\ c.alive /\ c.pcb = NULL /\ ~Connecting /\ dns' = FALSE
    /\ ~InProgress("dtor")
    /\ \A q \in Pcbs \ {p} : Same(q)
    /\ lw[p].st = "unused" /\ lw'[p].told = 0
    /\ \/ lw'[p].st = "SYN_SENT" /\ lw'[p].cbs = {"err"}
       \/ lw'[p].st = "leaked" /\ lw'[p].cbs = {}

Establishes(p) ==
    /\ stack = <<>> /\ c.alive /\ c'.alive = c.alive /\ c'.pcb = p /\ dns' = dns
    /\ \A q \in Pcbs \ {p} : Same(q)
    /\ lw[p].st = "SYN_SENT" /\ lw'[p].st = "ESTABLISHED"
    /\ lw'[p].cbs = Callbacks /\ lw'[p].told = lw[p].told

Ends(p) ==
    /\ c'.alive = c.alive /\ c'.pcb = NULL /\ dns' = dns
    /\ c.pcb # NULL => c.pcb = p
    /\ \A q \in Pcbs \ {p} : Same(q)
    /\ lw[p].st \in Open /\ lw'[p].st \in Over /\ lw'[p].cbs = {}
    /\ \/ /\ lw'[p].told = lw[p].told
          /\ \E k \in Seq(Frames) : stack' = Push("error_cb", p, 0, k)
       \/ lw'[p].told = lw[p].told + 1

Announces(p) ==
    /\ ClientKept /\ dns' = dns
    /\ \A q \in Pcbs \ {p} : Same(q)
    /\ lw'[p].st = lw[p].st /\ lw'[p].cbs = lw[p].cbs /\ lw'[p].told = lw[p].told + 1
    /\ Top("error_cb") /\ Head(stack).p = p
    /\ stack' = Push("discard_cb", p, 0, Tail(stack))

Destroys ==
    /\ c'.pcb = c.pcb /\ c'.alive = FALSE /\ dns' = dns /\ InProgress("dtor")
    /\ \A q \in Pcbs : Same(q)

StepKind ==
    \/ Keeps \/ LooksUp \/ Destroys
    \/ \E p \in Pcbs : Attempts(p) \/ Establishes(p) \/ Ends(p) \/ Announces(p)

(* Every kind of step keeps the parts of the invariant that do not speak   *)
(* of the stack, and what the destructor has let go stays gone unless the  *)
(* step begins something new.                                              *)
LEMMA KindsKeepCore ==
    ASSUME TypeOK, TypeOK', Core, DtorQuiet, StepKind
    PROVE  Core'
  <1> USE PcbAssumption
  <1>t. /\ c.pcb \in Pcbs \cup {NULL} /\ c'.pcb \in Pcbs \cup {NULL}
        /\ c.alive \in BOOLEAN /\ c'.alive \in BOOLEAN /\ dns \in BOOLEAN /\ dns' \in BOOLEAN
    BY DEF TypeOK, Clients
  <1>1. CASE Keeps
    <2>1. PcbUsable'
      BY <1>1, <1>t DEF Keeps, ClientKept, Same, Core, PcbUsable
    <2>2. NoOrphan'
      BY <1>1, <1>t DEF Keeps, ClientKept, Same, Core, PcbUsable, NoOrphan
    <2>3. OpenIsCallable'
      BY <1>1, <1>t DEF Keeps, ClientKept, Same, Core, PcbUsable, OpenIsCallable, Open, Callbacks
    <2>4. OneAtATime'
      BY <1>1, <1>t DEF Keeps, ClientKept, Same, Core, OneAtATime, Connecting
    <2>5. NoDanglingArg'
      BY <1>1, <1>t DEF Keeps, ClientKept, Same, Core, NoDanglingArg
    <2> QED
      BY <2>1, <2>2, <2>3, <2>4, <2>5 DEF Core
  <1>2. CASE LooksUp
    <2>1. PcbUsable'
      BY <1>2, <1>t DEF LooksUp, ClientKept, Same, Core, PcbUsable
    <2>2. NoOrphan'
      BY <1>2, <1>t DEF LooksUp, ClientKept, Same, Core, PcbUsable, NoOrphan, OpenIsCallable, Open
    <2>3. OpenIsCallable'
      BY <1>2, <1>t DEF LooksUp, ClientKept, Same, Core, PcbUsable, OpenIsCallable, Open, Over, Callbacks
    <2>4. OneAtATime'
      BY <1>2, <1>t DEF LooksUp, ClientKept, Same, Core, OneAtATime, Connecting, Quiet
    <2>5. NoDanglingArg'
      BY <1>2, <1>t DEF LooksUp, ClientKept, Same, Core, NoDanglingArg, NoOrphan, PcbUsable, Quiet
    <2> QED
      BY <2>1, <2>2, <2>3, <2>4, <2>5 DEF Core
  <1>3. CASE Destroys
    <2>1. PcbUsable'
      BY <1>3, <1>t DEF Destroys, Same, Core, PcbUsable, DtorQuiet, Quiet
    <2>2. NoOrphan'
      BY <1>3, <1>t DEF Destroys, Same, Core, PcbUsable, NoOrphan, OpenIsCallable, Open
    <2>3. OpenIsCallable'
      BY <1>3, <1>t DEF Destroys, Same, Core, PcbUsable, OpenIsCallable, Open, Over, Callbacks
    <2>4. OneAtATime'
      BY <1>3, <1>t DEF Destroys, Same, Core, OneAtATime, Connecting
    <2>5. NoDanglingArg'
      BY <1>3, <1>t DEF Destroys, Same, Core, NoDanglingArg, NoOrphan, PcbUsable, DtorQuiet, Quiet
    <2> QED
      BY <2>1, <2>2, <2>3, <2>4, <2>5 DEF Core
  <1>4. ASSUME NEW p \in Pcbs, Attempts(p) PROVE Core'
    <2>1. PcbUsable'
      BY <1>4, <1>t DEF Attempts, ClientKept, Same, Core, PcbUsable
    <2>2. NoOrphan'
      BY <1>4, <1>t DEF Attempts, ClientKept, Same, Core, PcbUsable, NoOrphan, OpenIsCallable, Open
    <2>3. OpenIsCallable'
      BY <1>4, <1>t DEF Attempts, ClientKept, Same, Core, PcbUsable, OpenIsCallable, Open, Over, Callbacks
    <2>4. OneAtATime'
      BY <1>4, <1>t DEF Attempts, ClientKept, Same, Core, OneAtATime, Connecting
    <2>5. NoDanglingArg'
      BY <1>4, <1>t DEF Attempts, ClientKept, Same, Core, NoDanglingArg, NoOrphan, PcbUsable
    <2> QED
      BY <2>1, <2>2, <2>3, <2>4, <2>5 DEF Core
  <1>5. ASSUME NEW p \in Pcbs, Establishes(p) PROVE Core'
    <2>1. PcbUsable'
      BY <1>5, <1>t DEF Establishes, Same, Core, PcbUsable
    <2>2. NoOrphan'
      BY <1>5, <1>t DEF Establishes, Same, Core, PcbUsable, NoOrphan, OpenIsCallable, Open, OneAtATime, Connecting
    <2>3. OpenIsCallable'
      BY <1>5, <1>t DEF Establishes, Same, Core, PcbUsable, OpenIsCallable, Open, Over, Callbacks
    <2>4. OneAtATime'
      BY <1>5, <1>t DEF Establishes, Same, Core, OneAtATime, Connecting
    <2>5. NoDanglingArg'
      BY <1>5, <1>t DEF Establishes, Same, Core, NoDanglingArg, NoOrphan, PcbUsable
    <2> QED
      BY <2>1, <2>2, <2>3, <2>4, <2>5 DEF Core
  <1>6. ASSUME NEW p \in Pcbs, Ends(p) PROVE Core'
    <2>1. PcbUsable'
      BY <1>6, <1>t DEF Ends, Same, Core, PcbUsable
    <2>2. NoOrphan'
      BY <1>6, <1>t DEF Ends, Same, Core, PcbUsable, NoOrphan, OpenIsCallable, Open
    <2>3. OpenIsCallable'
      BY <1>6, <1>t DEF Ends, Same, Core, PcbUsable, OpenIsCallable, Open, Over, Callbacks
    <2>4. OneAtATime'
      BY <1>6, <1>t DEF Ends, Same, Core, OneAtATime, Connecting, Over
    <2>5. NoDanglingArg'
      BY <1>6, <1>t DEF Ends, Same, Core, NoDanglingArg, NoOrphan, PcbUsable
    <2> QED
      BY <2>1, <2>2, <2>3, <2>4, <2>5 DEF Core
  <1>7. ASSUME NEW p \in Pcbs, Announces(p) PROVE Core'
    <2>1. PcbUsable'
      BY <1>7, <1>t DEF Announces, ClientKept, Same, Core, PcbUsable
    <2>2. NoOrphan'
      BY <1>7, <1>t DEF Announces, ClientKept, Same, Core, PcbUsable, NoOrphan, OpenIsCallable, Open
    <2>3. OpenIsCallable'
      BY <1>7, <1>t DEF Announces, ClientKept, Same, Core, PcbUsable, OpenIsCallable, Open, Over, Callbacks
    <2>4. OneAtATime'
      BY <1>7, <1>t DEF Announces, ClientKept, Same, Core, OneAtATime, Connecting
    <2>5. NoDanglingArg'
      BY <1>7, <1>t DEF Announces, ClientKept, Same, Core, NoDanglingArg, NoOrphan, PcbUsable
    <2> QED
      BY <2>1, <2>2, <2>3, <2>4, <2>5 DEF Core
  <1> QED
    BY <1>1, <1>2, <1>3, <1>4, <1>5, <1>6, <1>7 DEF StepKind

(* What _close() does, pcb by pcb.                                         *)
CloseDone(c0, e0, l0, k) ==
    \/ c0.pcb = NULL /\ c' = c0 /\ et' = e0 /\ lw' = l0 /\ stack' = k
    \/ \E r \in {"closing", "aborted"} :
         /\ c0.pcb \in Pcbs
         /\ c'.pcb = NULL /\ c'.alive = c0.alive
         /\ lw'[c0.pcb].st = r /\ lw'[c0.pcb].cbs = {}
         /\ lw'[c0.pcb].told = l0[c0.pcb].told + 1
         /\ \A q \in Pcbs \ {c0.pcb} : lw'[q] = l0[q]
         /\ et' = SetCloseError(e0, CloseError(r))
         /\ stack' = Push("discard_cb", c0.pcb, 0, k)

(* _close() does one of the two.                                           *)
LEMMA CloseEffect ==
    ASSUME NEW c0 \in Clients, NEW e0, NEW l0 \in LwType, NEW k, Close_(c0, e0, l0, k)
    PROVE  CloseDone(c0, e0, l0, k)
  <1>1. CASE c0.pcb = NULL
    BY <1>1 DEF Close_, CloseDone
  <1>2. CASE c0.pcb # NULL
    <2>1. PICK r \in {"closing", "aborted"} :
            /\ et' = SetCloseError(e0, CloseError(r))
            /\ Discard(Release(l0, c0.pcb, r), c0.pcb, k)
      BY <1>2 DEF Close_
    <2>2. c0.pcb \in Pcbs
      BY <1>2 DEF Clients
    <2>3. c'.pcb = NULL /\ c'.alive = c0.alive
      BY <1>2 DEF Close_, ForgetPcb, Clients
    <2>4. lw' = [Release(l0, c0.pcb, r) EXCEPT ![c0.pcb].told = @ + 1]
          /\ stack' = Push("discard_cb", c0.pcb, 0, k)
      BY <1>2, <2>1 DEF Discard
    <2>5. /\ lw'[c0.pcb].st = r /\ lw'[c0.pcb].cbs = {}
          /\ lw'[c0.pcb].told = l0[c0.pcb].told + 1
          /\ \A q \in Pcbs \ {c0.pcb} : lw'[q] = l0[q]
      BY <2>2, <2>4 DEF Release, clearTcpCallbacks, LwType, PcbRecords
    <2> QED
      BY <2>1, <2>2, <2>3, <2>4, <2>5 DEF CloseDone
  <1> QED
    BY <1>1, <1>2

(* What releasing p does, pcb by pcb.                                      *)
LEMMA ReleaseEffect ==
    ASSUME NEW l \in LwType, NEW p \in Pcbs, NEW r
    PROVE  /\ Release(l, p, r)[p].st = r /\ Release(l, p, r)[p].cbs = {}
           /\ Release(l, p, r)[p].told = l[p].told
           /\ \A q \in Pcbs \ {p} : Release(l, p, r)[q] = l[q]
  BY DEF Release, clearTcpCallbacks, LwType, PcbRecords

(* tcp_recved() changes the window only.                                   *)
LEMMA RecvedEffect ==
    ASSUME NEW l \in LwType, NEW p, NEW n
    PROVE  \A q \in Pcbs : /\ tcp_recved(l, p, n)[q].st = l[q].st
                           /\ tcp_recved(l, p, n)[q].cbs = l[q].cbs
                           /\ tcp_recved(l, p, n)[q].told = l[q].told
  BY DEF tcp_recved, LwType, PcbRecords

(* connect() starts one attempt or leaks one pcb, or does nothing.         *)
LEMMA ConnectEffect ==
    ASSUME lw \in LwType, Connect_
    PROVE  \/ lw' = lw
           \/ \E p \in Pcbs :
                /\ lw[p].st = "unused" /\ lw'[p].told = 0
                /\ \A q \in Pcbs \ {p} : lw'[q] = lw[q]
                /\ \/ lw'[p].st = "SYN_SENT" /\ lw'[p].cbs = {"err"}
                   \/ lw'[p].st = "leaked" /\ lw'[p].cbs = {}
  <1>1. CASE UNCHANGED lw
    BY <1>1
  <1>2. CASE ~UNCHANGED lw
    <2>1. PICK p \in Pcbs :
            /\ lw[p].st = "unused"
            /\ \/ lw' = [lw EXCEPT ![p] = NewPcb("SYN_SENT", {"err"})]
               \/ lw' = [lw EXCEPT ![p] = NewPcb("leaked", {})]
      BY <1>2 DEF Connect_
    <2>2. CASE lw' = [lw EXCEPT ![p] = NewPcb("SYN_SENT", {"err"})]
      <3>1. lw'[p] = NewPcb("SYN_SENT", {"err"}) /\ \A q \in Pcbs \ {p} : lw'[q] = lw[q]
        BY <2>2 DEF LwType
      <3>2. lw'[p].told = 0 /\ lw'[p].st = "SYN_SENT" /\ lw'[p].cbs = {"err"}
        BY <3>1 DEF NewPcb
      <3> QED
        BY <2>1, <3>1, <3>2
    <2>3. CASE lw' = [lw EXCEPT ![p] = NewPcb("leaked", {})]
      <3>1. lw'[p] = NewPcb("leaked", {}) /\ \A q \in Pcbs \ {p} : lw'[q] = lw[q]
        BY <2>3 DEF LwType
      <3>2. lw'[p].told = 0 /\ lw'[p].st = "leaked" /\ lw'[p].cbs = {}
        BY <3>1 DEF NewPcb
      <3> QED
        BY <2>1, <3>1, <3>2
    <2> QED
      BY <2>1, <2>2, <2>3
  <1> QED
    BY <1>1, <1>2

(* A pcb that can call anything but the error callback is _pcb, and open.  *)
LEMMA CallableIsOwned ==
    ASSUME TypeOK, Core, NEW p \in Pcbs, NEW cb \in Callbacks \ {"err"}, cb \in lw[p].cbs
    PROVE  p = c.pcb /\ lw[p].st \in {"ESTABLISHED", "CLOSE_WAIT"}
  <1>1. lw[p].st # "SYN_SENT"
    BY DEF Core, OpenIsCallable
  <1> QED
    BY <1>1, PcbAssumption DEF Core, NoOrphan, PcbUsable

(* A pcb that can call the error callback is _pcb or being connected.      *)
LEMMA CallableIsOpen ==
    ASSUME TypeOK, Core, NEW p \in Pcbs, "err" \in lw[p].cbs
    PROVE  lw[p].st \in Open /\ (c.pcb # NULL => c.pcb = p)
  BY PcbAssumption DEF Core, NoOrphan, PcbUsable, OneAtATime, Connecting, Open

(* _close(), called with pcbs that differ from lw only where the kinds of  *)
(* steps do not look, ends _pcb or keeps everything.                       *)
LEMMA CloseKind ==
    ASSUME TypeOK, Core,
           NEW c0 \in Clients, c0.pcb = c.pcb, c0.alive = c.alive,
           NEW l0 \in LwType,
           \A q \in Pcbs : /\ l0[q].cbs = lw[q].cbs /\ l0[q].told = lw[q].told
                           /\ l0[q].st = lw[q].st \/ q = c.pcb,
           NEW e0, NEW k, Close_(c0, e0, l0, k), dns' = dns
    PROVE  StepKind
  <1>1. CASE c0.pcb = NULL
    <2>1. c' = c0 /\ lw' = l0
      BY <1>1, CloseEffect, PcbAssumption DEF CloseDone
    <2>2. Keeps
      BY <1>1, <2>1, PcbAssumption DEF Keeps, ClientKept, Same
    <2> QED
      BY <2>2 DEF StepKind
  <1>2. CASE c0.pcb # NULL
    <2>1. PICK r \in {"closing", "aborted"} :
                /\ c0.pcb \in Pcbs
                /\ c'.pcb = NULL /\ c'.alive = c0.alive
                /\ lw'[c0.pcb].st = r /\ lw'[c0.pcb].cbs = {}
                /\ lw'[c0.pcb].told = l0[c0.pcb].told + 1
                /\ \A q \in Pcbs \ {c0.pcb} : lw'[q] = l0[q]
      <3>1. CloseDone(c0, e0, l0, k)
        BY CloseEffect
      <3> QED
        BY ONLY <1>2, <3>1, Zenon DEF CloseDone
    <2>2. lw[c.pcb].st \in Open
      BY <1>2 DEF Core, PcbUsable, Open
    <2>3. Ends(c.pcb)
      BY <2>1, <2>2 DEF Ends, Same, Over
    <2> QED
      BY <2>1, <2>3 DEF StepKind
  <1> QED
    BY <1>1, <1>2

(* _error() after releasing p ends p.                                      *)
LEMMA ErrorKind ==
    ASSUME TypeOK, Core, NEW p \in Pcbs, "err" \in lw[p].cbs, NEW r \in Over,
           NEW e0, NEW k \in Seq(Frames), Error_(c, e0, Release(lw, p, r), p, k), dns' = dns
    PROVE  Ends(p)
  <1>1. lw \in LwType
    BY DEF TypeOK, LwType
  <1>2. c'.pcb = NULL /\ c'.alive = c.alive
    BY DEF Error_, ForgetPcb, TypeOK, Clients
  <1>3. lw' = Release(lw, p, r) /\ stack' = Push("error_cb", p, 0, k)
    BY DEF Error_
  <1> QED
    BY <1>1, <1>2, <1>3, ReleaseEffect, CallableIsOpen DEF Ends, Same

(* Every step of a client whose application makes one attempt at a time is *)
(* of one of the kinds.                                                    *)
LEMMA EveryStepHasAKind ==
    ASSUME Overlap = FALSE, TypeOK, Core, AbortQuiet, Next
    PROVE  StepKind
  <1> USE PcbAssumption
  <1>l. lw \in LwType /\ c \in Clients
    BY DEF TypeOK, LwType
  <1>k. ASSUME c' = c \/ (c'.pcb = c.pcb /\ c'.alive = c.alive), dns' = dns,
               \A q \in Pcbs : Same(q)
        PROVE  StepKind
    BY <1>k DEF Keeps, ClientKept, StepKind
  <1>s. ASSUME lw' = lw PROVE \A q \in Pcbs : Same(q)
    BY <1>s DEF Same
  <1>a. ASSUME Connect_, c' = c, c.alive, c.pcb = NULL, ~Connecting, dns' = FALSE,
               ~InProgress("dtor")
        PROVE  StepKind
    <2>1. CASE lw' = lw
      BY <1>a, <1>s, <2>1 DEF LooksUp, ClientKept, StepKind
    <2>2. CASE lw' # lw
      <3>1. PICK p \in Pcbs :
                /\ lw[p].st = "unused" /\ lw'[p].told = 0
                /\ \A q \in Pcbs \ {p} : lw'[q] = lw[q]
                /\ \/ lw'[p].st = "SYN_SENT" /\ lw'[p].cbs = {"err"}
                   \/ lw'[p].st = "leaked" /\ lw'[p].cbs = {}
        BY <1>a, <1>l, <2>2, ConnectEffect
      <3>2. Attempts(p)
        BY <1>a, <3>1 DEF Attempts, ClientKept, Same
      <3> QED
        BY <3>2 DEF StepKind
    <2> QED
      BY <2>1, <2>2
  <1>1. ASSUME NEW p \in Pcbs, S_connected(p) PROVE StepKind
    <2>1. c'.pcb = p /\ c'.alive = c.alive /\ c.alive /\ stack = <<>>
      BY <1>1 DEF S_connected, Idle, TypeOK, Clients
    <2>2. /\ lw'[p].st = "ESTABLISHED" /\ lw'[p].told = lw[p].told
          /\ lw'[p].cbs = lw[p].cbs \cup {"recv", "sent", "poll"}
          /\ \A q \in Pcbs \ {p} : lw'[q] = lw[q]
      BY <1>1, <1>l DEF S_connected, LwType, PcbRecords
    <2>3. lw[p].st = "SYN_SENT" /\ lw[p].cbs = {"err"} /\ dns' = dns
      BY <1>1 DEF S_connected, Core, OpenIsCallable
    <2>4. lw'[p].cbs = Callbacks
      BY <2>2, <2>3 DEF Callbacks
    <2>5. Establishes(p)
      BY <2>1, <2>2, <2>3, <2>4 DEF Establishes, Same
    <2> QED
      BY <2>5 DEF StepKind
  <1>2. ASSUME NEW p \in Pcbs, S_failed(p) PROVE StepKind
    <2>1. PICK event : Error_(c, Errored(et, "ERR_RST", event), Release(lw, p, "detached"), p,
                              Push("ret", p, 0, <<>>))
      BY <1>2 DEF S_failed
    <2>2. Ends(p)
      BY <1>2, <2>1, EmptyStack, PushFrame, ErrorKind DEF S_failed, Over, Handlers, FrameKinds
    <2> QED
      BY <2>2 DEF StepKind
  <1>3. ASSUME NEW p \in Pcbs, NEW n, NEW fin, S_recv(p, n, fin) PROVE StepKind
    <2>1. p = c.pcb
      BY <1>3, CallableIsOwned DEF S_recv, Callbacks
    <2>2. c'.pcb = c.pcb /\ c'.alive = c.alive /\ dns' = dns
      BY <1>3, <1>l DEF S_recv, Clients
    <2>3. /\ lw'[p].st \in {lw[p].st, "CLOSE_WAIT"} /\ lw'[p].told = lw[p].told
          /\ lw'[p].cbs = lw[p].cbs
          /\ \A q \in Pcbs \ {p} : lw'[q] = lw[q]
      BY <1>3, <1>l DEF S_recv, LwType, PcbRecords
    <2>4. Keeps
      BY <2>1, <2>2, <2>3 DEF Keeps, ClientKept, Same
    <2> QED
      BY <2>4 DEF StepKind
  <1>4. ASSUME NEW p \in Pcbs, S_recv_fin(p) PROVE StepKind
    <2> DEFINE l0 == [lw EXCEPT ![p].st = "CLOSE_WAIT"]
    <2>1. p = c.pcb
      BY <1>4, CallableIsOwned DEF S_recv_fin, Callbacks
    <2>2. l0 \in LwType
      BY <1>l, PcbOperators DEF Open
    <2>3. \A q \in Pcbs : /\ l0[q].cbs = lw[q].cbs /\ l0[q].told = lw[q].told
                          /\ l0[q].st = lw[q].st \/ q = c.pcb
      BY <1>l, <2>1 DEF LwType, PcbRecords
    <2>4. Close_(c, et, l0, Push("ret", p, 0, <<>>)) /\ dns' = dns
      BY <1>4 DEF S_recv_fin
    <2> HIDE DEF l0
    <2> QED
      BY <1>l, <2>2, <2>3, <2>4, CloseKind
  <1>5. ASSUME NEW p \in Pcbs, NEW len, S_sent(p, len) PROVE StepKind
    <2>1. c'.pcb = c.pcb /\ c'.alive = c.alive /\ dns' = dns
      BY <1>5, <1>l DEF S_sent, Clients
    <2>2. \A q \in Pcbs : Same(q)
      BY <1>5, <1>l DEF S_sent, LwType, PcbRecords, Same
    <2> QED
      BY <1>k, <2>1, <2>2
  <1>6. ASSUME NEW p \in Pcbs, S_poll(p) PROVE StepKind
    <2> DEFINE l0 == [lw EXCEPT ![p].due = FALSE]
               c1 == [c EXCEPT !.close_pcb = FALSE]
               k == Push("ret", p, 0, <<>>)
    <2>1. l0 \in LwType /\ \A q \in Pcbs : l0[q].cbs = lw[q].cbs /\ l0[q].told = lw[q].told
                                           /\ l0[q].st = lw[q].st
      <3>1. l0 \in LwType
        BY <1>l, PcbOperators
      <3> QED
        BY <1>l, <3>1 DEF LwType, PcbRecords
    <2>2. c1 \in Clients /\ c1.pcb = c.pcb /\ c1.alive = c.alive
      BY <1>l DEF Clients
    <2>3. PICK e :
            \/ Close_(c1, e, l0, k)
            \/ Close_(c, e, l0, k)
            \/ c' \in {c, [c EXCEPT !.pcb_busy = FALSE]} /\ lw' = l0
      BY <1>6 DEF S_poll, Poll_
    <2>4. dns' = dns
      BY <1>6 DEF S_poll
    <2>5. CASE c' \in {c, [c EXCEPT !.pcb_busy = FALSE]} /\ lw' = l0
      <3>1. c'.pcb = c.pcb /\ c'.alive = c.alive
        BY <1>l, <2>5 DEF Clients
      <3>2. \A q \in Pcbs : Same(q)
        BY <2>1, <2>5 DEF Same
      <3> QED
        BY <1>k, <2>4, <3>1, <3>2
    <2> HIDE DEF l0, c1, k
    <2>6. CASE Close_(c1, e, l0, k)
      BY <2>1, <2>2, <2>4, <2>6, CloseKind
    <2>7. CASE Close_(c, e, l0, k)
      BY <1>l, <2>1, <2>4, <2>7, CloseKind
    <2> QED
      BY <2>3, <2>5, <2>6, <2>7
  <1>7. ASSUME NEW p \in Pcbs, NEW err, S_error(p, err) PROVE StepKind
    <2>1. Ends(p)
      BY <1>7, EmptyStack, ErrorKind DEF S_error, Over
    <2> QED
      BY <2>1 DEF StepKind
  <1>8. CASE S_dns_found
    <2>1. dns /\ c.alive /\ c' = c /\ dns' = FALSE
      BY <1>8 DEF S_dns_found, Idle
    <2>2. c.pcb = NULL /\ ~Connecting
      BY <2>1 DEF Core, OneAtATime
    <2>d. ~InProgress("dtor")
      BY <1>8, EmptyStack DEF S_dns_found, Idle, InProgress
    <2>3. CASE Connect_
      BY <1>a, <2>1, <2>2, <2>3, <2>d
    <2>4. CASE lw' = lw
      BY <1>s, <2>1, <2>4 DEF LooksUp, ClientKept, StepKind
    <2> QED
      BY <1>8, <2>3, <2>4 DEF S_dns_found
  <1>9. CASE Tick
    <2>1. c'.pcb = c.pcb /\ c'.alive = c.alive /\ dns' = dns
      BY <1>9, <1>l DEF Tick, Clients
    <2>2. \A q \in Pcbs : Same(q)
      BY <1>9, <1>l DEF Tick, LwType, PcbRecords, Same
    <2> QED
      BY <1>k, <2>1, <2>2
  <1>10. CASE UserReturn \/ ReturnToStack
    BY <1>10, <1>k, <1>s DEF UserReturn, ReturnToStack
  <1>11. CASE RecvReturn \/ PacketReturn
    <2>1. PICK c0 \in {c, Defer(c)} : NextPbuf(c0)
      BY <1>11 DEF RecvReturn, PacketReturn
    <2>2. c'.pcb = c.pcb /\ c'.alive = c.alive
      BY <1>l, <2>1 DEF NextPbuf, Defer, Clients
    <2>3. dns' = dns /\ lw' \in {lw, tcp_recved(lw, Head(stack).p, 1)}
      BY <1>11 DEF RecvReturn, PacketReturn, AckUnlessDeferred
    <2>4. \A q \in Pcbs : Same(q)
      BY <1>l, <2>3, RecvedEffect DEF Same
    <2> QED
      BY <1>k, <2>2, <2>3, <2>4
  <1>12. CASE SentReturn
    <2>1. c'.pcb = c.pcb /\ c'.alive = c.alive
      BY <1>12, <1>l DEF SentReturn, Clients
    <2> QED
      BY <1>12, <1>k, <1>s, <2>1 DEF SentReturn
  <1>13. CASE ErrorReturn
    <2>1. c' = c /\ dns' = dns /\ Top("error_cb")
      BY <1>13 DEF ErrorReturn
    <2>2. Head(stack).p \in Pcbs \cup {NULL}
      BY <2>1, PopFrame DEF TypeOK, Top, Frames
    <2>3. CASE Head(stack).p = NULL
      BY <1>13, <1>k, <1>s, <2>1, <2>3 DEF ErrorReturn, Discard
    <2>4. CASE Head(stack).p # NULL
      <3>1. /\ lw' = [lw EXCEPT ![Head(stack).p].told = @ + 1]
            /\ stack' = Push("discard_cb", Head(stack).p, 0, Tail(stack))
        BY <1>13, <2>4 DEF ErrorReturn, Discard
      <3>2. Announces(Head(stack).p)
        BY <1>l, <2>1, <2>2, <2>4, <3>1 DEF Announces, ClientKept, Same, LwType, PcbRecords
      <3> QED
        BY <2>2, <2>4, <3>2 DEF StepKind
    <2> QED
      BY <2>3, <2>4
  <1>14. CASE AbortReturn
    <2>1. InProgress("abort")
      BY <1>14, PopFrame DEF TypeOK, AbortReturn, Top, InProgress
    <2>2. c'.pcb = c.pcb /\ c'.alive = c.alive
      BY <1>14, <1>l, <2>1 DEF AbortReturn, AbortQuiet, ForgetPcb, Clients
    <2> QED
      BY <1>14, <1>k, <1>s, <2>2 DEF AbortReturn
  <1>15. CASE DtorReturn
    <2>1. c'.pcb = c.pcb /\ c'.alive = FALSE /\ dns' = dns /\ lw' = lw
      BY <1>15, <1>l DEF DtorReturn, Clients
    <2>2. InProgress("dtor")
      BY <1>15, PopFrame DEF TypeOK, DtorReturn, Top, InProgress
    <2> QED
      BY <1>s, <2>1, <2>2 DEF Destroys, StepKind
  <1>16. CASE FinAfterData
    <2>1. \/ Close_(c, et, lw, Push("ret", Head(stack).p, 0, Tail(stack)))
          \/ UNCHANGED <<c, lw>>
      BY <1>16 DEF FinAfterData
    <2>2. dns' = dns
      BY <1>16 DEF FinAfterData
    <2> QED
      BY <1>k, <1>l, <1>s, <2>1, <2>2, CloseKind
  <1>17. CASE Connect
    <2>1. c.alive /\ Quiet /\ c' = c /\ dns' = dns /\ Connect_ /\ ~InProgress("dtor")
      BY <1>17 DEF Connect, MayCall
    <2> QED
      BY <1>a, <2>1 DEF Quiet, Connecting, TypeOK
  <1>18. CASE ConnectHost
    <2>1. c.alive /\ Quiet /\ c' = c /\ ~InProgress("dtor")
      BY <1>18 DEF ConnectHost, MayCall
    <2>2. CASE Connect_ /\ UNCHANGED dns
      BY <1>a, <2>1, <2>2 DEF Quiet, Connecting, TypeOK
    <2>3. CASE dns' = TRUE /\ UNCHANGED lw
      BY <1>s, <2>1, <2>3 DEF LooksUp, ClientKept, StepKind
    <2> QED
      BY <1>18, <2>2, <2>3 DEF ConnectHost
  <1>r. Reopened \in LwType /\ \A q \in Pcbs : /\ Reopened[q].st = lw[q].st
                                               /\ Reopened[q].cbs = lw[q].cbs
                                               /\ Reopened[q].told = lw[q].told
    <2>1. c.rx_ack_len \in Nat
      BY <1>l DEF Clients
    <2>2. CASE c.pcb = NULL
      BY <1>l, <2>2 DEF Reopened
    <2>3. CASE c.pcb # NULL
      <3>1. Reopened = tcp_recved(lw, c.pcb, c.rx_ack_len)
        BY <2>3 DEF Reopened
      <3>2. Reopened \in LwType
        BY <1>l, <2>1, <3>1, PcbOperators
      <3> QED
        BY <1>l, <3>1, <3>2, RecvedEffect
    <2> QED
      BY <2>2, <2>3
  <1>19. CASE CloseNow
    BY <1>19, <1>l, <1>r, CloseKind DEF CloseNow
  <1>20. CASE CloseLater
    <2>1. c'.pcb = c.pcb /\ c'.alive = c.alive /\ dns' = dns /\ lw' = Reopened
      BY <1>20, <1>l DEF CloseLater, Clients
    <2> QED
      BY <1>k, <1>r, <2>1 DEF Same
  <1>21. CASE Abort
    <2>1. c.pcb \in Pcbs /\ "err" \in lw[c.pcb].cbs
      BY <1>21, <1>l DEF Abort, Clients, Core, PcbUsable, Callbacks
    <2>2. Ends(c.pcb)
      BY <1>21, <2>1, PushFrame, ErrorKind DEF Abort, Over, Handlers, FrameKinds, TypeOK
    <2> QED
      BY <2>1, <2>2 DEF StepKind
  <1>22. CASE Delete
    BY <1>22, <1>l, CloseKind DEF Delete
  <1>23. CASE Send \/ AckLater
    <2>1. c'.pcb = c.pcb /\ c'.alive = c.alive /\ dns' = dns /\ lw' = lw
      BY <1>23, <1>l DEF Send, Sent, AckLater, Clients
    <2> QED
      BY <1>k, <1>s, <2>1
  <1>24. CASE AckPacket \/ \E len \in 1..RxBound : Ack(len)
    <2>1. PICK n : lw' = tcp_recved(lw, c.pcb, n)
      BY <1>24 DEF AckPacket, Ack
    <2>2. c'.pcb = c.pcb /\ c'.alive = c.alive /\ dns' = dns
      BY <1>24, <1>l DEF AckPacket, Ack, Clients
    <2>3. \A q \in Pcbs : Same(q)
      BY <1>l, <2>1, RecvedEffect DEF Same
    <2> QED
      BY <1>k, <2>2, <2>3
  <1>25. ASSUME NEW n \in 1..SndBuf, Add(n) \/ Write(n) PROVE StepKind
    <2>1. c' \in {Counted(n), Sent(Counted(n))} /\ lw' = Queued(n) /\ dns' = dns
      BY <1>25 DEF Add, Write
    <2>2. c'.pcb = c.pcb /\ c'.alive = c.alive
      BY <1>l, <2>1 DEF Counted, Sent, Clients
    <2>3. \A q \in Pcbs : Same(q)
      BY <1>l, <2>1 DEF Queued, LwType, PcbRecords, Same
    <2> QED
      BY <1>k, <2>1, <2>2, <2>3
  <1>26. CASE Stack
    BY <1>26, <1>1, <1>2, <1>3, <1>4, <1>5, <1>6, <1>7, <1>8, <1>9 DEF Stack
  <1>27. CASE Return
    BY <1>27, <1>10, <1>11, <1>12, <1>13, <1>14, <1>15, <1>16 DEF Return
  <1>28. CASE Call
    BY <1>28, <1>17, <1>18, <1>19, <1>20, <1>21, <1>22, <1>23, <1>24, <1>25 DEF Call
  <1> QED
    BY <1>26, <1>27, <1>28 DEF Next

(* What the steps do to the stack.  lwIP calls in on the empty stack; a    *)
(* return pops a frame and may go on with another handler; a method called *)
(* from a handler puts at most two frames on top of it.                    *)
CallsIn(p) ==
    /\ stack = <<>> /\ lw[p].st \in Open
    /\ \/ stack' = Push("ret", p, 0, <<>>)
       \/ \E h \in Handlers \ {"error_cb"}, n \in Nat :
            stack' \in {Push(h, p, n, Push("ret", p, 0, <<>>)),
                       Push(h, p, n, Push("ret", p, 0, Push("fin", p, 0, <<>>)))}

Fails(p) ==
    /\ stack = <<>>
    /\ stack' \in {Push("error_cb", p, 0, <<>>), Push("error_cb", p, 0, Push("ret", p, 0, <<>>))}
    /\ Ends(p) /\ lw'[p].told = lw[p].told

LookupFails ==
    /\ stack = <<>> /\ stack' = Push("error_cb", NULL, 0, <<>>)
    /\ c.pcb = NULL /\ c' = c /\ lw' = lw

CloseCalled == c.pcb # NULL /\ stack' = Push("discard_cb", c.pcb, 0, stack)

AbortCalled ==
    /\ c.pcb # NULL /\ Ends(c.pcb) /\ lw'[c.pcb].told = lw[c.pcb].told
    /\ stack' = Push("error_cb", c.pcb, 0, Push("abort", c.pcb, 0, stack))

DeleteCalled ==
    /\ Quiet'
    /\ \/ c.pcb = NULL /\ stack' = Push("dtor", NULL, 0, stack)
       \/ c.pcb # NULL /\ stack' = Push("discard_cb", c.pcb, 0, Push("dtor", NULL, 0, stack))

NextDelivered ==
    \E h \in {"recv_cb", "pb_cb"}, n \in Nat :
        /\ Top("recv_cb") \/ Top("pb_cb")
        /\ stack' = Push(h, Head(stack).p, n, Tail(stack))

ErrorAnnounced ==
    /\ Top("error_cb") /\ stack' = Push("discard_cb", Head(stack).p, 0, Tail(stack))
    /\ c'.pcb = c.pcb /\ (Head(stack).p # NULL => Announces(Head(stack).p))

FinDelivered ==
    /\ Top("fin") /\ (Head(stack).p \in Pcbs => c.pcb # NULL)
    /\ LET k == Push("ret", Head(stack).p, 0, Tail(stack))
       IN  stack' = k \/ (c.pcb # NULL /\ stack' = Push("discard_cb", c.pcb, 0, k))

StackKind ==
    \/ stack' = stack
    \/ stack # <<>> /\ ~Top("error_cb") /\ ~Top("ssl_read") /\ stack' = Tail(stack)
    \/ \E p \in Pcbs : CallsIn(p) \/ Fails(p)
    \/ LookupFails \/ CloseCalled \/ AbortCalled \/ DeleteCalled
    \/ NextDelivered \/ ErrorAnnounced \/ FinDelivered

(* Every step treats the stack in one of these ways.                       *)
LEMMA EveryStepHasAStackKind ==
    ASSUME TypeOK, Core, Next
    PROVE  StackKind
  <1> USE PcbAssumption
  <1>l. lw \in LwType /\ c \in Clients
    BY DEF TypeOK, LwType
  <1>0. 0 \in Nat
    OBVIOUS
  <1>c. ASSUME NEW c0 \in Clients, c0.pcb = c.pcb, NEW l0 \in LwType, NEW e0, NEW k,
               Close_(c0, e0, l0, k)
        PROVE  \/ c.pcb = NULL /\ stack' = k /\ c'.pcb = NULL
               \/ c.pcb # NULL /\ stack' = Push("discard_cb", c.pcb, 0, k) /\ c'.pcb = NULL
    <2>1. CASE c0.pcb = NULL
      BY <1>c, <2>1, CloseEffect DEF CloseDone
    <2>2. CASE c0.pcb # NULL
      BY <1>c, <2>2, CloseEffect DEF CloseDone
    <2> QED
      BY <2>1, <2>2
  <1>e. ASSUME NEW p \in Pcbs, "err" \in lw[p].cbs, NEW r \in Over, NEW e0,
               NEW k \in Seq(Frames),
               Error_(c, e0, Release(lw, p, r), p, k), dns' = dns
        PROVE  Ends(p) /\ lw'[p].told = lw[p].told /\ stack' = Push("error_cb", p, 0, k)
    <2>1. Ends(p)
      BY <1>e, ErrorKind
    <2>2. lw' = Release(lw, p, r) /\ stack' = Push("error_cb", p, 0, k)
      BY <1>e DEF Error_
    <2> QED
      BY <1>l, <2>1, <2>2, ReleaseEffect
  <1>1. ASSUME NEW p \in Pcbs, S_connected(p) PROVE StackKind
    <2>1. CallsIn(p)
      BY <1>1, <1>0 DEF S_connected, Idle, CallsIn, Handlers, FrameKinds, Open
    <2> QED
      BY <2>1 DEF StackKind
  <1>2. ASSUME NEW p \in Pcbs, S_failed(p) PROVE StackKind
    <2>1. PICK event : Error_(c, Errored(et, "ERR_RST", event), Release(lw, p, "detached"), p,
                              Push("ret", p, 0, <<>>))
      BY <1>2 DEF S_failed
    <2>a. Push("ret", p, 0, <<>>) \in Seq(Frames)
      BY EmptyStack, PushFrame DEF Handlers, FrameKinds
    <2>b. stack = <<>> /\ "err" \in lw[p].cbs /\ dns' = dns /\ "detached" \in Over
      BY <1>2 DEF S_failed, Idle, Over
    <2>c. /\ Ends(p) /\ lw'[p].told = lw[p].told
          /\ stack' = Push("error_cb", p, 0, Push("ret", p, 0, <<>>))
      BY <1>e, <2>1, <2>a, <2>b
    <2>2. Fails(p)
      BY <2>b, <2>c DEF Fails
    <2> QED
      BY <2>2 DEF StackKind
  <1>3. ASSUME NEW p \in Pcbs, NEW n \in 1..MaxChain, NEW fin \in BOOLEAN, S_recv(p, n, fin)
        PROVE  StackKind
    <2>1. n - 1 \in Nat
      BY SizeAssumption
    <2> DEFINE k == Push("ret", p, 0, IF fin THEN Push("fin", p, 0, <<>>) ELSE <<>>)
    <2>a. PICK f \in DataHandlers : stack' = Push(f, p, n - 1, k)
      BY <1>3 DEF S_recv, Deliver
    <2>b. f \in Handlers /\ f \notin {"error_cb", "discard_cb"}
      BY FlagAssumption DEF Handlers, FrameKinds
    <2>c. lw[p].st \in Open
      BY <1>3, CallableIsOwned DEF S_recv, Callbacks, Open
    <2>2. CallsIn(p)
      BY <1>3, <2>1, <2>a, <2>b, <2>c DEF S_recv, Idle, CallsIn, Handlers, FrameKinds
    <2> QED
      BY <2>2 DEF StackKind
  <1>4. ASSUME NEW p \in Pcbs, S_recv_fin(p) PROVE StackKind
    <2> DEFINE l0 == [lw EXCEPT ![p].st = "CLOSE_WAIT"]
               k == Push("ret", p, 0, <<>>)
    <2>1. p = c.pcb /\ lw[p].st \in Open
      BY <1>4, CallableIsOwned DEF S_recv_fin, Callbacks, Open
    <2>2. l0 \in LwType
      BY <1>l, PcbOperators DEF Open
    <2>3. Close_(c, et, l0, k)
      BY <1>4 DEF S_recv_fin
    <2>4. stack' = k \/ stack' = Push("discard_cb", p, 0, k)
      <3> HIDE DEF l0, k
      <3> QED
        BY <1>c, <1>l, <2>1, <2>2, <2>3
    <2>5. CallsIn(p)
      BY <1>0, <1>4, <2>1, <2>4 DEF S_recv_fin, Idle, CallsIn, Handlers, FrameKinds
    <2> QED
      BY <2>5 DEF StackKind
  <1>5. ASSUME NEW p \in Pcbs, NEW len, S_sent(p, len) PROVE StackKind
    <2>a. lw[p].st \in Open
      BY <1>5, CallableIsOwned DEF S_sent, Callbacks, Open
    <2>1. CallsIn(p)
      BY <1>0, <1>5, <2>a DEF S_sent, Idle, CallsIn, Handlers, FrameKinds
    <2> QED
      BY <2>1 DEF StackKind
  <1>6. ASSUME NEW p \in Pcbs, S_poll(p) PROVE StackKind
    <2> DEFINE l0 == [lw EXCEPT ![p].due = FALSE]
               c1 == [c EXCEPT !.close_pcb = FALSE]
               k == Push("ret", p, 0, <<>>)
    <2>1. l0 \in LwType /\ c1 \in Clients /\ c1.pcb = c.pcb
      <3>1. l0 \in LwType
        BY <1>l, PcbOperators
      <3> QED
        BY <1>l, <3>1 DEF Clients
    <2>2. PICK e :
            \/ Close_(c1, e, l0, k)
            \/ Close_(c, e, l0, k)
            \/ stack' \in {Push("timeout_cb", p, 0, k), Push("poll_cb", p, 0, k)}
      BY <1>6 DEF S_poll, Poll_
    <2>3. p = c.pcb /\ lw[p].st \in Open
      BY <1>6, CallableIsOwned DEF S_poll, Callbacks, Open
    <2>4. stack' \in {k, Push("discard_cb", p, 0, k), Push("timeout_cb", p, 0, k),
                      Push("poll_cb", p, 0, k)}
      <3> HIDE DEF l0, c1, k
      <3> QED
        BY <1>c, <1>l, <2>1, <2>2, <2>3
    <2>5. CallsIn(p)
      BY <1>0, <1>6, <2>3, <2>4 DEF S_poll, Idle, CallsIn, Handlers, FrameKinds
    <2> QED
      BY <2>5 DEF StackKind
  <1>7. ASSUME NEW p \in Pcbs, NEW err, S_error(p, err) PROVE StackKind
    <2>1. Fails(p)
      BY <1>7, <1>e, EmptyStack DEF S_error, Idle, Over, Fails
    <2> QED
      BY <2>1 DEF StackKind
  <1>8. CASE S_dns_found
    BY <1>8 DEF S_dns_found, Idle, LookupFails, StackKind, Core, OneAtATime
  <1>9. CASE Tick
    BY <1>9 DEF Tick, StackKind
  <1>10. CASE UserReturn \/ ReturnToStack \/ SentReturn \/ AbortReturn \/ DtorReturn
    BY <1>10 DEF UserReturn, ReturnToStack, SentReturn, AbortReturn, DtorReturn, Top, StackKind
  <1>11. CASE RecvReturn \/ PacketReturn
    <2>1. PICK c0 : NextPbuf(c0)
      BY <1>11 DEF RecvReturn, PacketReturn
    <2>2. stack # <<>> /\ (Top("recv_cb") \/ Top("pb_cb"))
      BY <1>11 DEF RecvReturn, PacketReturn, Top
    <2>3. CASE Head(stack).n > 0
      <3>a. Head(stack) \in Frames
        BY <2>2, PopFrame DEF TypeOK
      <3>1. Head(stack).n - 1 \in Nat
        BY <2>3, <3>a DEF Frames
      <3>b. PICK f \in DataHandlers : stack' = Push(f, Head(stack).p, Head(stack).n - 1, Tail(stack))
        BY <2>1, <2>3 DEF NextPbuf, Deliver
      <3>2. NextDelivered
        BY <2>2, <3>1, <3>b, FlagAssumption DEF NextDelivered
      <3> QED
        BY <3>2 DEF StackKind
    <2>4. CASE ~(Head(stack).n > 0)
      BY <2>1, <2>2, <2>4 DEF NextPbuf, Top, StackKind
    <2> QED
      BY <2>3, <2>4
  <1>12. CASE ErrorReturn
    <2>1. c' = c /\ dns' = dns /\ Top("error_cb")
          /\ stack' = Push("discard_cb", Head(stack).p, 0, Tail(stack))
      BY <1>12 DEF ErrorReturn, Discard
    <2>a. Head(stack) \in Frames
      BY <2>1, PopFrame DEF TypeOK, Top
    <2>2. ASSUME Head(stack).p # NULL PROVE Announces(Head(stack).p)
      <3>1. Head(stack).p \in Pcbs
        BY <2>a, <2>2 DEF Frames
      <3>2. lw' = [lw EXCEPT ![Head(stack).p].told = @ + 1]
        BY <1>12, <2>2 DEF ErrorReturn, Discard
      <3> QED
        BY <1>l, <2>1, <3>1, <3>2 DEF Announces, ClientKept, Same, LwType, PcbRecords
    <2> QED
      BY <2>1, <2>2 DEF ErrorAnnounced, StackKind
  <1>13. CASE FinAfterData
    <2>1. Top("fin")
      BY <1>13 DEF FinAfterData, Top
    <2>2. CASE stack' = Tail(stack)
      BY <2>1, <2>2 DEF Top, StackKind
    <2>3. CASE "recv" \in lw[Head(stack).p].cbs
      <3>1. Close_(c, et, lw, Push("ret", Head(stack).p, 0, Tail(stack)))
        BY <1>13, <2>3 DEF FinAfterData
      <3>3. Head(stack).p \in Pcbs => c.pcb # NULL
        BY <2>3, CallableIsOwned DEF Callbacks
      <3>4. FinDelivered
        BY <1>c, <1>l, <2>1, <3>1, <3>3 DEF FinDelivered
      <3> QED
        BY <3>4 DEF StackKind
    <2> QED
      BY <1>13, <2>2, <2>3 DEF FinAfterData
  <1>14. CASE Connect \/ ConnectHost \/ CloseLater \/ Send \/ AckLater \/ AckPacket
    BY <1>14 DEF Connect, ConnectHost, CloseLater, Send, AckLater, AckPacket, StackKind
  <1>15. ASSUME NEW n, Add(n) \/ Write(n) \/ Ack(n) PROVE StackKind
    BY <1>15 DEF Add, Write, Ack, StackKind
  <1>16. CASE CloseNow
    <2>1. Reopened \in LwType
      <3>1. c.rx_ack_len \in Nat
        BY <1>l DEF Clients
      <3> QED
        BY <1>l, <3>1, PcbOperators DEF Reopened
    <2>2. Close_(c, et, Reopened, stack)
      BY <1>16 DEF CloseNow
    <2> QED
      BY <1>c, <1>l, <2>1, <2>2 DEF CloseCalled, StackKind
  <1>17. CASE Abort
    <2>1. c.pcb \in Pcbs /\ "err" \in lw[c.pcb].cbs /\ c.pcb # NULL
      BY <1>17, <1>l DEF Abort, Clients, Core, PcbUsable, Callbacks
    <2>a. stack \in Seq(Frames) /\ Push("abort", c.pcb, 0, stack) \in Seq(Frames)
      BY <2>1, PushFrame DEF TypeOK, Handlers, FrameKinds
    <2>b. /\ Error_(c, Errored(et, "ERR_ABRT", "EE_ERROR_CB"), Release(lw, c.pcb, "aborted"),
                    c.pcb, Push("abort", c.pcb, 0, stack))
          /\ dns' = dns /\ "aborted" \in Over
      BY <1>17 DEF Abort, Over
    <2>c. /\ Ends(c.pcb) /\ lw'[c.pcb].told = lw[c.pcb].told
          /\ stack' = Push("error_cb", c.pcb, 0, Push("abort", c.pcb, 0, stack))
      BY <1>e, <2>1, <2>a, <2>b
    <2>2. AbortCalled
      BY <2>1, <2>c DEF AbortCalled
    <2> QED
      BY <2>2 DEF StackKind
  <1>18. CASE Delete
    <2>1. Close_(c, et, lw, Push("dtor", NULL, 0, stack)) /\ ~dns /\ dns' = dns /\ ~Connecting
      BY <1>18 DEF Delete, Connecting
    <2>a. Quiet'
      <3>1. CASE c.pcb = NULL
        BY <1>l, <2>1, <3>1, CloseEffect DEF CloseDone, Quiet, Connecting
      <3>2. CASE c.pcb # NULL
        <4>1. PICK r \in {"closing", "aborted"} :
                /\ c'.pcb = NULL /\ lw'[c.pcb].st = r
                /\ \A q \in Pcbs \ {c.pcb} : lw'[q] = lw[q]
          BY <1>l, <2>1, <3>2, CloseEffect DEF CloseDone
        <4> QED
          BY <2>1, <4>1 DEF Quiet, Connecting
      <3> QED
        BY <3>1, <3>2
    <2>2. DeleteCalled
      BY <1>c, <1>l, <2>1, <2>a DEF DeleteCalled
    <2> QED
      BY <2>2 DEF StackKind
  <1>19. CASE Stack
    BY <1>19, <1>1, <1>2, <1>3, <1>4, <1>5, <1>6, <1>7, <1>8, <1>9 DEF Stack
  <1>20. CASE Return
    BY <1>20, <1>10, <1>11, <1>12, <1>13 DEF Return
  <1>21. CASE Call
    BY <1>21, <1>14, <1>15, <1>16, <1>17, <1>18 DEF Call
  <1> QED
    BY <1>19, <1>20, <1>21 DEF Next

(* Only delete puts a "dtor" frame on the stack, and only abort() an       *)
(* "abort" frame.                                                          *)
LEMMA FrameOrigin ==
    ASSUME TypeOK, StackKind
    PROVE  /\ InProgress("dtor")' => InProgress("dtor") \/ DeleteCalled
           /\ InProgress("abort")' => InProgress("abort") \/ AbortCalled
  <1>h. ASSUME NEW g PROVE InProgress(g)' = Occurs(stack', g) /\ InProgress(g) = Occurs(stack, g)
    BY DEF InProgress, Occurs
  <1>0. ASSUME NEW g PROVE ~Occurs(<<>>, g)
    BY EmptyStack DEF Occurs
  <1>s. stack \in Seq(Frames) /\ c.pcb \in Pcbs \cup {NULL}
    BY DEF TypeOK, Clients
  <1>1. CASE stack' = stack
    BY <1>1, <1>h
  <1>2. CASE stack # <<>> /\ stack' = Tail(stack)
    BY <1>2, <1>h, <1>s, OccursTail
  <1>3. ASSUME NEW p \in Pcbs, CallsIn(p), NEW g \in {"dtor", "abort"} PROVE ~Occurs(stack', g)
    <2>1. Push("ret", p, 0, <<>>) \in Seq(Frames) /\ Push("fin", p, 0, <<>>) \in Seq(Frames)
      BY EmptyStack, PushFrame DEF Handlers, FrameKinds
    <2>2. Push("ret", p, 0, Push("fin", p, 0, <<>>)) \in Seq(Frames)
      BY <2>1, PushFrame DEF Handlers, FrameKinds
    <2>3. ~Occurs(Push("ret", p, 0, <<>>), g) /\ ~Occurs(Push("fin", p, 0, <<>>), g)
      BY <1>0, <1>3, EmptyStack, OccursPush DEF Handlers, FrameKinds
    <2>4. ~Occurs(Push("ret", p, 0, Push("fin", p, 0, <<>>)), g)
      BY <1>3, <2>1, <2>3, OccursPush DEF Handlers, FrameKinds
    <2>5. ASSUME NEW h \in Handlers, NEW n \in Nat
          PROVE  /\ ~Occurs(Push(h, p, n, Push("ret", p, 0, <<>>)), g)
                 /\ ~Occurs(Push(h, p, n, Push("ret", p, 0, Push("fin", p, 0, <<>>))), g)
      <3>1. h # g /\ h \in FrameKinds
        BY <1>3 DEF Handlers, FrameKinds
      <3> QED
        BY <2>1, <2>2, <2>3, <2>4, <3>1, OccursPush
    <2> QED
      BY <1>3, <2>3, <2>5 DEF CallsIn
  <1>4. ASSUME NEW p \in Pcbs \cup {NULL}, NEW g \in {"dtor", "abort"}
        PROVE  /\ ~Occurs(Push("error_cb", p, 0, <<>>), g)
               /\ ~Occurs(Push("error_cb", p, 0, Push("ret", p, 0, <<>>)), g)
    <2>1. Push("ret", p, 0, <<>>) \in Seq(Frames)
      BY EmptyStack, PushFrame DEF Handlers, FrameKinds
    <2>2. ~Occurs(Push("ret", p, 0, <<>>), g)
      BY <1>0, <1>4, EmptyStack, OccursPush DEF Handlers, FrameKinds
    <2> QED
      BY <1>0, <1>4, <2>1, <2>2, EmptyStack, OccursPush DEF Handlers, FrameKinds
  <1>5. ASSUME NEW p \in Pcbs, Fails(p), NEW g \in {"dtor", "abort"} PROVE ~Occurs(stack', g)
    BY <1>4, <1>5 DEF Fails
  <1>6. ASSUME LookupFails, NEW g \in {"dtor", "abort"} PROVE ~Occurs(stack', g)
    BY <1>4, <1>6 DEF LookupFails
  <1>7. ASSUME CloseCalled, NEW g \in {"dtor", "abort"}, Occurs(stack', g) PROVE Occurs(stack, g)
    BY <1>7, <1>s, OccursPush DEF CloseCalled, Handlers, FrameKinds
  <1>8. ASSUME AbortCalled, Occurs(stack', "dtor") PROVE Occurs(stack, "dtor")
    <2>1. Push("abort", c.pcb, 0, stack) \in Seq(Frames)
      BY <1>s, PushFrame DEF Handlers, FrameKinds
    <2>2. Occurs(Push("abort", c.pcb, 0, stack), "dtor")
      BY <1>8, <1>s, <2>1, OccursPush DEF AbortCalled, Handlers, FrameKinds
    <2> QED
      BY <1>s, <2>2, OccursPush DEF Handlers, FrameKinds
  <1>9. ASSUME DeleteCalled, Occurs(stack', "abort") PROVE Occurs(stack, "abort")
    <2>1. Push("dtor", NULL, 0, stack) \in Seq(Frames)
      BY <1>s, PushFrame DEF Handlers, FrameKinds
    <2>2. Occurs(Push("dtor", NULL, 0, stack), "abort")
      BY <1>9, <1>s, <2>1, OccursPush DEF DeleteCalled, Handlers, FrameKinds
    <2> QED
      BY <1>s, <2>2, OccursPush DEF Handlers, FrameKinds
  <1>t. ASSUME stack # <<>>
        PROVE  Tail(stack) \in Seq(Frames) /\ Head(stack).p \in Pcbs \cup {NULL}
    <2>1. Head(stack) \in Frames /\ Tail(stack) \in Seq(Frames)
      BY <1>s, <1>t, PopFrame
    <2> QED
      BY <2>1 DEF Frames
  <1>10. ASSUME NextDelivered \/ ErrorAnnounced, NEW g \in {"dtor", "abort"}, Occurs(stack', g)
         PROVE  Occurs(stack, g)
    <2>1. PICK h \in Handlers, n \in Nat :
            stack # <<>> /\ stack' = Push(h, Head(stack).p, n, Tail(stack))
      BY <1>10 DEF NextDelivered, ErrorAnnounced, Top, Handlers, FrameKinds
    <2>2. h # g /\ h \in FrameKinds
      BY <1>10 DEF Handlers, FrameKinds
    <2>3. Occurs(Tail(stack), g)
      BY <1>10, <1>t, <2>1, <2>2, OccursPush
    <2> QED
      BY <1>s, <2>1, <2>3, OccursTail
  <1>11. ASSUME FinDelivered, NEW g \in {"dtor", "abort"}, Occurs(stack', g) PROVE Occurs(stack, g)
    <2> DEFINE k == Push("ret", Head(stack).p, 0, Tail(stack))
    <2>1. stack # <<>> /\ (stack' = k \/ stack' = Push("discard_cb", c.pcb, 0, k))
      BY <1>11 DEF FinDelivered, Top
    <2>2. k \in Seq(Frames)
      BY <1>t, <2>1, PushFrame DEF Handlers, FrameKinds
    <2>3. Occurs(k, g)
      <3> HIDE DEF k
      <3> QED
        BY <1>11, <1>s, <2>1, <2>2, OccursPush DEF Handlers, FrameKinds
    <2>4. Occurs(Tail(stack), g)
      BY <1>11, <1>t, <2>1, <2>3, OccursPush DEF Handlers, FrameKinds
    <2> QED
      BY <1>s, <2>1, <2>4, OccursTail
  <1> QED
    BY <1>h, <1>1, <1>2, <1>3, <1>5, <1>6, <1>7, <1>8, <1>9, <1>10, <1>11 DEF StackKind

(* Ownership is inductive.                                                 *)
LEMMA OwnershipStep ==
    ASSUME Overlap = FALSE
    PROVE  OwnershipInv /\ [Next]_vars => OwnershipInv'
  <1> SUFFICES ASSUME OwnershipInv, Next PROVE OwnershipInv'
    <2>1. OwnershipInv /\ UNCHANGED vars => OwnershipInv'
      BY DEF OwnershipInv, TypeOK, Core, PcbUsable, NoOrphan, OpenIsCallable, OneAtATime,
             Connecting, NoDanglingArg, DtorQuiet, AbortQuiet, Quiet, InProgress, vars
    <2> QED
      BY <2>1
  <1>1. TypeOK'
    BY StepType DEF OwnershipInv
  <1>2. StepKind
    BY EveryStepHasAKind DEF OwnershipInv
  <1>3. StackKind
    BY EveryStepHasAStackKind DEF OwnershipInv
  <1>4. Core'
    BY <1>1, <1>2, KindsKeepCore DEF OwnershipInv
  <1>e. stack = <<>> => ~InProgress("dtor") /\ ~InProgress("abort")
    BY EmptyStack DEF InProgress
  <1>5. InProgress("dtor") => Quiet'
    <2> SUFFICES ASSUME InProgress("dtor") PROVE Quiet'
      OBVIOUS
    <2>1. Quiet /\ dns \in BOOLEAN
      BY DEF OwnershipInv, DtorQuiet, TypeOK
    <2>2. CASE Keeps \/ LooksUp \/ Destroys
      BY <2>1, <2>2, PcbAssumption DEF Keeps, LooksUp, Destroys, ClientKept, Same, Quiet
    <2>3. ASSUME NEW p \in Pcbs, Attempts(p) \/ Establishes(p) PROVE FALSE
      BY <2>3, <1>e DEF Attempts, Establishes
    <2>4. ASSUME NEW p \in Pcbs, Ends(p) \/ Announces(p) PROVE Quiet'
      BY <2>1, <2>4 DEF Ends, Announces, ClientKept, Same, Quiet, Over
    <2> QED
      BY <1>2, <2>2, <2>3, <2>4 DEF StepKind
  <1>6. InProgress("abort") => c'.pcb = NULL
    <2> SUFFICES ASSUME InProgress("abort") PROVE c'.pcb = NULL
      OBVIOUS
    <2>1. c.pcb = NULL /\ stack # <<>>
      BY <1>e DEF OwnershipInv, AbortQuiet
    <2> QED
      BY <1>2, <2>1 DEF StepKind, Keeps, LooksUp, Destroys, Attempts, Establishes, Ends,
                        Announces, ClientKept
  <1>7. DeleteCalled => Quiet'
    BY DEF DeleteCalled
  <1>8. AbortCalled => c'.pcb = NULL
    BY DEF AbortCalled, Ends
  <1>9. DtorQuiet' /\ AbortQuiet'
    BY <1>3, <1>5, <1>6, <1>7, <1>8, FrameOrigin DEF DtorQuiet, AbortQuiet, OwnershipInv
  <1> QED
    BY <1>1, <1>4, <1>9 DEF OwnershipInv

(* Ownership holds initially.                                              *)
LEMMA OwnershipInit == Init => OwnershipInv
  <1> SUFFICES ASSUME Init PROVE OwnershipInv
    OBVIOUS
  <1>1. TypeOK
    BY InitType
  <1>2. ~InProgress("dtor") /\ ~InProgress("abort")
    BY EmptyStack DEF Init, InProgress
  <1>3. CASE c = NewClient(NULL) /\ lw = [q \in Pcbs |-> NewPcb("unused", {})]
    <2>1. c.pcb = NULL /\ c.alive /\ \A q \in Pcbs : lw[q].st = "unused" /\ lw[q].cbs = {}
      BY <1>3 DEF NewClient, NewPcb
    <2>2. Core
      BY <2>1 DEF Init, Core, PcbUsable, NoOrphan, OpenIsCallable, OneAtATime, Connecting,
                  NoDanglingArg, Open
    <2> QED
      BY <1>1, <1>2, <2>2 DEF OwnershipInv, DtorQuiet, AbortQuiet
  <1>4. ASSUME NEW p \in Pcbs, c = NewClient(p),
               lw = [q \in Pcbs |-> IF q = p THEN NewPcb("ESTABLISHED", Callbacks)
                                             ELSE NewPcb("unused", {})]
        PROVE  OwnershipInv
    <2>1. /\ c.pcb = p /\ c.alive
          /\ lw[p].st = "ESTABLISHED" /\ lw[p].cbs = Callbacks
          /\ \A q \in Pcbs \ {p} : lw[q].st = "unused" /\ lw[q].cbs = {}
      BY <1>4 DEF NewClient, NewPcb
    <2>2. Core
      BY <2>1 DEF Init, Core, PcbUsable, NoOrphan, OpenIsCallable, OneAtATime, Connecting,
                  NoDanglingArg, Open, Callbacks
    <2> QED
      BY <1>1, <1>2, <2>2 DEF OwnershipInv, DtorQuiet, AbortQuiet
  <1> QED
    BY <1>3, <1>4 DEF Init

(* With one attempt at a time, whatever the application calls and from     *)
(* whichever handler: _pcb is only ever an open pcb with this client's     *)
(* callbacks, _close() and _error() leave no other pcb behind that could   *)
(* call the client, and a deleted client is called by nobody.              *)
THEOREM Ownership ==
    ASSUME Overlap = FALSE
    PROVE  Spec => [](PcbUsable /\ CallbacksOwned)
  <1>1. OwnershipInv /\ [Next]_vars => OwnershipInv'
    BY OwnershipStep
  <1>2. OwnershipInv => PcbUsable /\ CallbacksOwned
    BY DEF OwnershipInv, Core, CallbacksOwned
  <1> QED
    BY <1>1, <1>2, OwnershipInit, PTL DEF Spec

-----------------------------------------------------------------------------
(* Announcements.  _error() runs onError before onDisconnect, and in       *)
(* between the pcb it is about has ended unannounced.  There is at most    *)
(* one such error handler on the stack: while it runs there is no          *)
(* connection that could fail.                                             *)
Clean(k) == \A i \in 1..Len(k) : k[i].f # "error_cb"

Erring(k, p) ==
    \E i \in 1..Len(k) :
        /\ k[i] = Frame("error_cb", p, 0)
        /\ \A j \in 1..Len(k) : j # i => k[j].f # "error_cb"

(* A push of another frame changes neither.                                *)
LEMMA PushOther ==
    ASSUME NEW f \in FrameKinds \ {"error_cb"},
           NEW p \in Pcbs \cup {NULL}, NEW n \in Nat, NEW k \in Seq(Frames)
    PROVE  /\ Clean(k) => Clean(Push(f, p, n, k))
           /\ \A q : Erring(k, q) => Erring(Push(f, p, n, k), q)
  <1> DEFINE s == Push(f, p, n, k)
  <1>1. \A i \in 1..Len(s) : s[i] = Frame(f, p, n) \/ (i - 1 \in 1..Len(k) /\ s[i] = k[i - 1])
    <2>0. f \in FrameKinds
      OBVIOUS
    <2>1. ASSUME NEW i \in 1..Len(Push(f, p, n, k))
          PROVE  \/ i = 1 /\ Push(f, p, n, k)[i] = Frame(f, p, n)
                 \/ i - 1 \in 1..Len(k) /\ Push(f, p, n, k)[i] = k[i - 1]
      BY <2>0, PushMembers, ZenonT(40)
    <2> QED
      BY <2>1
  <1>2. Frame(f, p, n).f # "error_cb"
    BY DEF Frame
  <1>3. Len(k) \in Nat /\ Len(s) = Len(k) + 1 /\ \A i \in 1..Len(k) : s[i + 1] = k[i]
    <2>1. Len(k) \in Nat
      OBVIOUS
    <2> QED
      BY <2>1, PushFrame, ZenonT(40)
  <1> HIDE DEF s
  <1>4. Clean(k) => Clean(s)
    BY <1>1, <1>2 DEF Clean
  <1>5. ASSUME NEW q, Erring(k, q) PROVE Erring(s, q)
    <2>1. PICK i \in 1..Len(k) : /\ k[i] = Frame("error_cb", q, 0)
                                 /\ \A j \in 1..Len(k) : j # i => k[j].f # "error_cb"
      BY <1>5 DEF Erring
    <2>2. i + 1 \in 1..Len(s) /\ s[i + 1] = Frame("error_cb", q, 0)
      BY <1>3, <2>1
    <2>3. ASSUME NEW j \in 1..Len(s), j # i + 1 PROVE s[j].f # "error_cb"
      <3>1. CASE s[j] = Frame(f, p, n)
        BY <1>2, <3>1
      <3>2. CASE j - 1 \in 1..Len(k) /\ s[j] = k[j - 1]
        <4>1. j - 1 # i
          BY <2>3
        <4> QED
          BY <2>1, <3>2, <4>1
      <3> QED
        BY <1>1, <3>1, <3>2
    <2> QED
      BY <2>2, <2>3 DEF Erring
  <1> QED
    BY <1>4, <1>5 DEF s

(* A push of an error handler on a stack without one.                      *)
LEMMA PushError ==
    ASSUME NEW p \in Pcbs \cup {NULL}, NEW k \in Seq(Frames), Clean(k)
    PROVE  Erring(Push("error_cb", p, 0, k), p)
  <1> DEFINE s == Push("error_cb", p, 0, k)
  <1>0. "error_cb" \in FrameKinds /\ 0 \in Nat
    BY DEF Handlers, FrameKinds
  <1>1. \A i \in 1..Len(s) : i = 1 \/ (i - 1 \in 1..Len(k) /\ s[i] = k[i - 1])
    BY <1>0, PushMembers
  <1>2. Len(k) \in Nat /\ Len(s) = Len(k) + 1 /\ s[1] = Frame("error_cb", p, 0)
    <2>1. Len(k) \in Nat
      OBVIOUS
    <2> QED
      BY <1>0, <2>1, PushFrame
  <1> HIDE DEF s
  <1>3. 1 \in 1..Len(s)
    BY <1>2
  <1>4. \A j \in 1..Len(s) : j # 1 => s[j].f # "error_cb"
    BY <1>1 DEF Clean
  <1>5. Erring(s, p)
    BY <1>2, <1>3, <1>4 DEF Erring
  <1> QED
    BY <1>5 DEF s

(* What a pop leaves.                                                      *)
LEMMA PopErring ==
    ASSUME NEW k \in Seq(Frames), k # <<>>
    PROVE  /\ Clean(k) => Clean(Tail(k))
           /\ \A q : Erring(k, q) =>
                IF Head(k).f = "error_cb" THEN Clean(Tail(k)) /\ Head(k).p = q
                                          ELSE Erring(Tail(k), q)
  <1> DEFINE t == Tail(k)
  <1>1. /\ Head(k) = k[1] /\ Len(k) \in Nat /\ Len(k) # 0 /\ Len(t) = Len(k) - 1
        /\ \A i \in 1..Len(t) : i + 1 \in 1..Len(k) /\ t[i] = k[i + 1]
    BY PopFrame
  <1> HIDE DEF t
  <1>2. Clean(k) => Clean(t)
    BY <1>1 DEF Clean
  <1>3. ASSUME NEW q, Erring(k, q)
        PROVE  IF Head(k).f = "error_cb" THEN Clean(t) /\ Head(k).p = q ELSE Erring(t, q)
    <2>1. PICK i \in 1..Len(k) : /\ k[i] = Frame("error_cb", q, 0)
                                 /\ \A j \in 1..Len(k) : j # i => k[j].f # "error_cb"
      BY <1>3 DEF Erring
    <2>2. k[i].f = "error_cb" /\ k[i].p = q /\ 1 \in 1..Len(k)
      BY <1>1, <2>1 DEF Frame
    <2>3. CASE i = 1
      <3>1. \A j \in 1..Len(t) : j + 1 # 1
        BY <1>1
      <3>2. Clean(t)
        BY <1>1, <2>1, <2>3, <3>1 DEF Clean
      <3> QED
        BY <1>1, <2>2, <2>3, <3>2
    <2>4. CASE i # 1
      <3>1. Head(k).f # "error_cb"
        BY <1>1, <2>1, <2>2, <2>4
      <3>2. i - 1 \in 1..Len(t) /\ t[i - 1] = k[(i - 1) + 1]
        BY <1>1, <2>4
      <3>3. t[i - 1] = Frame("error_cb", q, 0)
        BY <2>1, <3>2
      <3>4. \A j \in 1..Len(t) : j # i - 1 => t[j].f # "error_cb"
        BY <1>1, <2>1
      <3>5. Erring(t, q)
        BY <3>2, <3>3, <3>4 DEF Erring
      <3> QED
        BY <3>1, <3>5
    <2> QED
      BY <2>3, <2>4
  <1> QED
    BY <1>2, <1>3 DEF t

(* The error handler is about one pcb.                                     *)
LEMMA ErringOnce ==
    ASSUME NEW k, NEW p, Erring(k, p)
    PROVE  ~Clean(k) /\ \A q : Erring(k, q) => q = p
  <1>1. \A q : Frame("error_cb", q, 0).f = "error_cb" /\ Frame("error_cb", q, 0).p = q
    BY DEF Frame
  <1>2. ~Clean(k)
    BY <1>1 DEF Erring, Clean
  <1>3. ASSUME NEW q, Erring(k, q) PROVE q = p
    <2>1. PICK i \in 1..Len(k) : /\ k[i] = Frame("error_cb", p, 0)
                                 /\ \A j \in 1..Len(k) : j # i => k[j].f # "error_cb"
      BY DEF Erring
    <2>2. PICK m \in 1..Len(k) : k[m] = Frame("error_cb", q, 0)
      BY <1>3 DEF Erring
    <2> QED
      BY <1>1, <2>1, <2>2
  <1> QED
    BY <1>2, <1>3

(* With an error handler on top it is that one.                            *)
LEMMA ErrorOnTop ==
    ASSUME NEW p \in Pcbs \cup {NULL}, NEW k \in Seq(Frames), NEW s,
           s = Push("error_cb", p, 0, k)
    PROVE  ~Clean(s) /\ \A q : Erring(s, q) => q = p
  <1>0. "error_cb" \in FrameKinds /\ 0 \in Nat
    BY DEF Handlers, FrameKinds
  <1>1. s[1] = Frame("error_cb", p, 0) /\ Len(s) = Len(k) + 1
    BY <1>0, PushFrame
  <1>2. Len(k) \in Nat
    OBVIOUS
  <1>3. 1 \in 1..Len(s) /\ s[1].f = "error_cb" /\ s[1].p = p
    BY <1>1, <1>2 DEF Frame
  <1>4. ~Clean(s)
    BY <1>3 DEF Clean
  <1>5. ASSUME NEW q, Erring(s, q) PROVE q = p
    <2>1. PICK i \in 1..Len(s) : /\ s[i] = Frame("error_cb", q, 0)
                                 /\ \A j \in 1..Len(s) : j # i => s[j].f # "error_cb"
      BY <1>5 DEF Erring
    <2>2. i = 1
      BY <1>3, <2>1
    <2> QED
      BY <1>3, <2>1, <2>2 DEF Frame
  <1> QED
    BY <1>4, <1>5

Announced ==
    \A p \in Pcbs :
        /\ lw[p].told \in {0, 1}
        /\ lw[p].told = 1 => lw[p].st \in Over
        /\ lw[p].st \in Over => (lw[p].told = 0 <=> Erring(stack, p))
        /\ Erring(stack, p) => lw[p].st \in Over

ErrorAlone == Clean(stack) \/ (c.pcb = NULL /\ \E p \in Pcbs \cup {NULL} : Erring(stack, p))

AnnounceInv == OwnershipInv /\ Announced /\ ErrorAlone

(* What a step does to the error handler on the stack: nothing, or it      *)
(* calls one, or the one there was goes on to onDisconnect.                *)
KeepsError ==
    /\ Clean(stack) => Clean(stack')
    /\ \A p : Erring(stack, p) => Erring(stack', p)

RaisesError(p) ==
    /\ Clean(stack) /\ Erring(stack', p)
    /\ Ends(p) /\ lw'[p].told = lw[p].told

EndsError ==
    /\ Clean(stack') /\ c'.pcb = NULL
    /\ Erring(stack, Head(stack).p)
    /\ Head(stack).p \in Pcbs => Announces(Head(stack).p)

ErrorKinds ==
    \/ KeepsError
    \/ \E p \in Pcbs : RaisesError(p)
    \/ LookupFails /\ Erring(stack', NULL)
    \/ EndsError

(* Every step treats the error handler in one of these ways.               *)
LEMMA EveryStepHasAnErrorKind ==
    ASSUME TypeOK, ErrorAlone, StackKind
    PROVE  ErrorKinds
  <1>s. stack \in Seq(Frames) /\ c.pcb \in Pcbs \cup {NULL} /\ 0 \in Nat
    BY DEF TypeOK, Clients
  <1>0. Clean(<<>>) /\ \A p : ~Erring(<<>>, p)
    BY EmptyStack DEF Clean, Erring
  <1>1. CASE stack' = stack
    BY <1>1 DEF KeepsError, ErrorKinds
  <1>2. CASE stack # <<>> /\ ~Top("error_cb") /\ ~Top("ssl_read") /\ stack' = Tail(stack)
    BY <1>2, <1>s, PopErring DEF KeepsError, ErrorKinds, Top
  <1>p. ASSUME NEW f \in FrameKinds \ {"error_cb"},
               NEW p \in Pcbs \cup {NULL}, NEW n \in Nat, NEW k \in Seq(Frames),
               Clean(k)
        PROVE  Clean(Push(f, p, n, k)) /\ Push(f, p, n, k) \in Seq(Frames)
    BY <1>p, PushOther, PushFrame
  <1>n. /\ {"ret", "fin", "abort", "dtor", "discard_cb", "recv_cb", "pb_cb"}
             \subseteq FrameKinds \ {"error_cb"}
        /\ "error_cb" \in FrameKinds
        /\ Handlers \subseteq FrameKinds
    BY DEF Handlers, FrameKinds
  <1>r. ASSUME NEW p \in Pcbs \cup {NULL}
        PROVE  /\ Clean(Push("ret", p, 0, <<>>)) /\ Push("ret", p, 0, <<>>) \in Seq(Frames)
               /\ Clean(Push("ret", p, 0, Push("fin", p, 0, <<>>)))
               /\ Push("ret", p, 0, Push("fin", p, 0, <<>>)) \in Seq(Frames)
    <2>1. Clean(Push("fin", p, 0, <<>>)) /\ Push("fin", p, 0, <<>>) \in Seq(Frames)
      BY <1>s, <1>0, <1>p, <1>n, EmptyStack
    <2> QED
      BY <1>s, <1>0, <1>p, <1>n, <2>1, EmptyStack
  <1>3. ASSUME NEW p \in Pcbs, CallsIn(p) PROVE KeepsError
    <2>1. Clean(stack')
      BY <1>3, <1>n, <1>r, <1>p DEF CallsIn
    <2> QED
      BY <1>3, <1>0, <2>1 DEF KeepsError, CallsIn
  <1>4. ASSUME NEW p \in Pcbs, Fails(p) PROVE RaisesError(p)
    <2>1. Erring(stack', p)
      BY <1>4, <1>r, <1>0, PushError, EmptyStack DEF Fails
    <2> QED
      BY <1>4, <1>0, <2>1 DEF Fails, RaisesError
  <1>5. ASSUME LookupFails PROVE Erring(stack', NULL)
    BY <1>5, <1>0, PushError, EmptyStack DEF LookupFails
  <1>6. CASE CloseCalled
    BY <1>6, <1>s, <1>n, PushOther DEF CloseCalled, KeepsError, ErrorKinds
  <1>7. ASSUME AbortCalled PROVE RaisesError(c.pcb) /\ c.pcb \in Pcbs
    <2>1. Clean(stack)
      BY <1>7 DEF AbortCalled, ErrorAlone
    <2>2. Clean(Push("abort", c.pcb, 0, stack)) /\ Push("abort", c.pcb, 0, stack) \in Seq(Frames)
      BY <1>s, <1>n, <1>p, <2>1
    <2>3. Erring(stack', c.pcb)
      BY <1>7, <1>s, <2>2, PushError DEF AbortCalled
    <2> QED
      BY <1>7, <1>s, <2>1, <2>3 DEF AbortCalled, RaisesError
  <1>8. CASE DeleteCalled
    <2> DEFINE k == Push("dtor", NULL, 0, stack)
    <2>1. k \in Seq(Frames) /\ (Clean(stack) => Clean(k)) /\ \A q : Erring(stack, q) => Erring(k, q)
      BY <1>s, <1>n, PushFrame, PushOther
    <2>2. stack' = k \/ stack' = Push("discard_cb", c.pcb, 0, k)
      BY <1>8 DEF DeleteCalled
    <2> HIDE DEF k
    <2>3. KeepsError
      BY <1>s, <1>n, <2>1, <2>2, PushOther DEF KeepsError
    <2> QED
      BY <2>3 DEF ErrorKinds
  <1>t. ASSUME stack # <<>>
        PROVE  Tail(stack) \in Seq(Frames) /\ Head(stack).p \in Pcbs \cup {NULL}
    <2>1. Head(stack) \in Frames /\ Tail(stack) \in Seq(Frames)
      BY <1>s, <1>t, PopFrame
    <2> QED
      BY <2>1 DEF Frames
  <1>9. CASE NextDelivered
    <2>1. PICK h \in {"recv_cb", "pb_cb"}, n \in Nat :
            /\ stack # <<>> /\ Head(stack).f # "error_cb"
            /\ stack' = Push(h, Head(stack).p, n, Tail(stack))
      BY <1>9 DEF NextDelivered, Top
    <2>2. KeepsError
      BY <1>s, <1>n, <1>t, <2>1, PushOther, PopErring DEF KeepsError
    <2> QED
      BY <2>2 DEF ErrorKinds
  <1>10. CASE FinDelivered
    <2> DEFINE k == Push("ret", Head(stack).p, 0, Tail(stack))
    <2>1. /\ stack # <<>> /\ Head(stack).f # "error_cb"
          /\ stack' = k \/ stack' = Push("discard_cb", c.pcb, 0, k)
      BY <1>10 DEF FinDelivered, Top
    <2>2. k \in Seq(Frames)
      BY <1>s, <1>n, <1>t, <2>1, PushFrame
    <2>3. (Clean(stack) => Clean(k)) /\ \A q : Erring(stack, q) => Erring(k, q)
      BY <1>s, <1>n, <1>t, <2>1, PushOther, PopErring
    <2> HIDE DEF k
    <2>4. KeepsError
      BY <1>s, <1>n, <2>1, <2>2, <2>3, PushOther DEF KeepsError
    <2> QED
      BY <2>4 DEF ErrorKinds
  <1>11. ASSUME ErrorAnnounced, c'.pcb = c.pcb PROVE EndsError
    <2>1. stack # <<>> /\ Head(stack).f = "error_cb"
      BY <1>11 DEF ErrorAnnounced, Top
    <2>2. PICK p \in Pcbs \cup {NULL} : c.pcb = NULL /\ Erring(stack, p)
      <3>1. ~Clean(stack)
        <4>1. 1 \in 1..Len(stack) /\ Head(stack) = stack[1]
          BY <1>s, <2>1
        <4> QED
          BY <2>1, <4>1 DEF Clean
      <3> QED
        BY <3>1 DEF ErrorAlone
    <2>3. Clean(Tail(stack)) /\ Head(stack).p = p
      BY <1>s, <2>1, <2>2, PopErring
    <2>4. Clean(stack')
      BY <1>11, <1>s, <1>n, <1>p, <1>t, <2>1, <2>3 DEF ErrorAnnounced
    <2> QED
      BY <1>11, <2>2, <2>3, <2>4, PcbAssumption DEF ErrorAnnounced, EndsError
  <1>12. ErrorAnnounced => c'.pcb = c.pcb
    BY DEF ErrorAnnounced
  <1> QED
    BY <1>1, <1>2, <1>3, <1>4, <1>5, <1>6, <1>7, <1>8, <1>9, <1>10, <1>11, <1>12
       DEF StackKind, ErrorKinds

(* The kind of a step and what it does to the error handler fit together.  *)
LEMMA AnnounceStep ==
    ASSUME OwnershipInv, Announced, ErrorAlone, StepKind, ErrorKinds
    PROVE  Announced' /\ ErrorAlone'
  <1> USE PcbAssumption
  <1>c. c.pcb # NULL => lw[c.pcb].st \in Open
    BY DEF OwnershipInv, Core, PcbUsable, Open
  <1>o. \A p \in Pcbs : lw[p].st \in Open => lw[p].st \notin Over /\ lw[p].told = 0
    BY DEF Announced, Open, Over
  <1>1. CASE EndsError
    <2>1. \A p : ~Erring(stack', p) /\ (Erring(stack, p) => p = Head(stack).p)
      BY <1>1, ErringOnce DEF EndsError
    <2>2. ErrorAlone'
      BY <1>1 DEF EndsError, ErrorAlone
    <2>3. CASE Head(stack).p \in Pcbs
      <3>1. Announces(Head(stack).p)
        BY <1>1, <2>3 DEF EndsError
      <3>2. lw[Head(stack).p].told = 0 /\ lw[Head(stack).p].st \in Over
        BY <1>1, <2>3 DEF EndsError, Announced
      <3>3. Announced'
        BY <2>1, <3>1, <3>2 DEF Announced, Announces, Same
      <3> QED
        BY <2>2, <3>3
    <2>4. CASE Head(stack).p \notin Pcbs
      <3>1. \A p \in Pcbs : lw[p].st \in Over => lw[p].told = 1
        BY <2>1, <2>4 DEF Announced
      <3>2. ASSUME Keeps \/ LooksUp \/ Destroys PROVE Announced'
        <4>1. ASSUME NEW p \in Pcbs
              PROVE  \/ lw'[p].st = lw[p].st /\ lw'[p].told = lw[p].told
                     \/ lw'[p].st = "CLOSE_WAIT" /\ lw'[p].told = 0
          BY <1>o, <1>c, <3>2 DEF Keeps, LooksUp, Destroys, Same
        <4>2. ASSUME NEW p \in Pcbs
              PROVE  /\ lw[p].told \in {0, 1} /\ (lw[p].told = 1 <=> lw[p].st \in Over)
                     /\ ~Erring(stack', p)
          BY <2>1, <3>1 DEF Announced
        <4>3. ASSUME NEW p \in Pcbs
              PROVE  /\ lw'[p].told \in {0, 1} /\ (lw'[p].told = 1 <=> lw'[p].st \in Over)
                     /\ ~Erring(stack', p)
          BY <4>1, <4>2 DEF Over
        <4> QED
          BY <4>3 DEF Announced
      <3>3. ASSUME NEW p \in Pcbs, Attempts(p) \/ Establishes(p) PROVE Announced'
        BY <2>1, <3>1, <3>3 DEF Attempts, Establishes, Same, Announced, Over
      <3>4. ASSUME NEW p \in Pcbs, Ends(p) PROVE Announced'
        <4>1. ~ \E k \in Seq(Frames) : stack' = Push("error_cb", p, 0, k)
          BY <1>1, ErrorOnTop DEF EndsError
        <4> QED
          BY <1>o, <2>1, <3>1, <3>4, <4>1 DEF Ends, Same, Announced
      <3>5. ASSUME NEW p \in Pcbs, Announces(p) PROVE FALSE
        BY <2>4, <3>5 DEF Announces
      <3>6. Announced'
        BY <3>2, <3>3, <3>4, <3>5 DEF StepKind
      <3> QED
        BY <2>2, <3>6
    <2> QED
      BY <2>3, <2>4
  <1>2. ASSUME NEW p \in Pcbs, RaisesError(p) PROVE Announced' /\ ErrorAlone'
    <2>1. /\ \A q : ~Erring(stack, q)
          /\ \A q : Erring(stack', q) <=> q = p
      BY <1>2, ErringOnce DEF RaisesError
    <2>2. Ends(p) /\ lw'[p].told = lw[p].told
      BY <1>2 DEF RaisesError
    <2>3. Announced'
      BY <1>o, <2>1, <2>2 DEF Announced, Ends, Same
    <2>4. ErrorAlone'
      BY <2>1, <2>2 DEF ErrorAlone, Ends
    <2> QED
      BY <2>3, <2>4
  <1>3. CASE LookupFails /\ Erring(stack', NULL)
    <2>1. \A p \in Pcbs : ~Erring(stack', p) /\ ~Erring(stack, p)
      <3>1. ~ \E p : Erring(stack, p)
        BY <1>3, EmptyStack DEF LookupFails, Erring
      <3> QED
        BY <1>3, <3>1, ErringOnce
    <2>2. lw' = lw /\ c' = c /\ c.pcb = NULL
      BY <1>3 DEF LookupFails
    <2>3. Announced'
      BY <2>1, <2>2 DEF Announced
    <2>4. ErrorAlone'
      BY <1>3, <2>2 DEF ErrorAlone
    <2> QED
      BY <2>3, <2>4
  <1>4. CASE KeepsError
    <2>1. \A p \in Pcbs : Erring(stack', p) <=> Erring(stack, p)
      BY <1>4, ErringOnce DEF KeepsError, ErrorAlone
    <2>2. Clean(stack) => Clean(stack')
      BY <1>4 DEF KeepsError
    <2>3. ~Clean(stack) => c.pcb = NULL /\ \E p \in Pcbs \cup {NULL} : Erring(stack', p)
      BY <1>4 DEF KeepsError, ErrorAlone
    <2>4. CASE Keeps \/ LooksUp \/ Destroys
      <3>1. c'.pcb = c.pcb
        BY <2>4 DEF Keeps, LooksUp, Destroys, ClientKept
      <3>3. Announced'
        BY <1>o, <1>c, <2>1, <2>4 DEF Keeps, LooksUp, Destroys, Same, Announced, Over
      <3> QED
        BY <2>2, <2>3, <3>1, <3>3 DEF ErrorAlone
    <2>5. ASSUME NEW p \in Pcbs, Attempts(p) PROVE Announced' /\ ErrorAlone'
      BY <2>1, <2>2, <2>3, <2>5 DEF Attempts, ClientKept, Same, Announced, Over, ErrorAlone
    <2>6. ASSUME NEW p \in Pcbs, Establishes(p) PROVE Announced' /\ ErrorAlone'
      <3>1. Clean(stack')
        BY <2>2, <2>6, EmptyStack DEF Establishes, Clean
      <3>2. Announced'
        BY <2>1, <2>6 DEF Establishes, Same, Announced, Over
      <3> QED
        BY <3>1, <3>2 DEF ErrorAlone
    <2>7. ASSUME NEW p \in Pcbs, Ends(p) PROVE Announced' /\ ErrorAlone'
      <3>1. ~Erring(stack, p) /\ ~Erring(stack', p) /\ lw[p].told = 0
        BY <1>o, <2>1, <2>7 DEF Ends, Announced
      <3>2. ASSUME NEW k \in Seq(Frames), stack' = Push("error_cb", p, 0, k) PROVE FALSE
        <4>1. ~Clean(stack') /\ \A q : Erring(stack', q) => q = p
          BY <3>2, ErrorOnTop
        <4> QED
          BY <2>2, <2>3, <3>1, <4>1
      <3>3. lw'[p].told = 1
        BY <2>7, <3>1, <3>2 DEF Ends
      <3>4. Announced'
        BY <2>1, <2>7, <3>1, <3>3 DEF Ends, Same, Announced
      <3>5. ErrorAlone'
        BY <2>2, <2>3, <2>7 DEF Ends, ErrorAlone
      <3> QED
        BY <3>4, <3>5
    <2>8. ASSUME NEW p \in Pcbs, Announces(p) PROVE Announced' /\ ErrorAlone'
      <3>1. stack \in Seq(Frames) /\ stack # <<>> /\ Head(stack).f = "error_cb" /\ Head(stack).p = p
        BY <2>8 DEF Announces, Top, OwnershipInv, TypeOK
      <3>2. ~Clean(stack)
        <4>1. 1 \in 1..Len(stack) /\ Head(stack) = stack[1]
          BY <3>1
        <4> QED
          BY <3>1, <4>1 DEF Clean
      <3>3. PICK q \in Pcbs \cup {NULL} : Erring(stack, q)
        BY <3>2 DEF ErrorAlone
      <3>4. Clean(Tail(stack)) /\ Tail(stack) \in Seq(Frames) /\ q = p
        BY <3>1, <3>3, PopErring, PopFrame
      <3>5. Clean(stack')
        BY <2>8, <3>4, PushOther DEF Announces, Handlers, FrameKinds
      <3>6. Erring(stack', p)
        BY <2>1, <3>3, <3>4
      <3> QED
        BY <3>5, <3>6, ErringOnce
    <2> QED
      BY <2>4, <2>5, <2>6, <2>7, <2>8 DEF StepKind
  <1> QED
    BY <1>1, <1>2, <1>3, <1>4 DEF ErrorKinds

(* Announcements are inductive.                                            *)
LEMMA AnnounceInductive ==
    ASSUME Overlap = FALSE
    PROVE  (Init => AnnounceInv) /\ (AnnounceInv /\ [Next]_vars => AnnounceInv')
  <1>1. ASSUME Init PROVE AnnounceInv
    <2>1. stack = <<>>
      BY <1>1 DEF Init
    <2>2. Clean(stack) /\ \A p : ~Erring(stack, p)
      BY <2>1, EmptyStack DEF Clean, Erring
    <2>3. \A p \in Pcbs : lw[p].told = 0 /\ lw[p].st \in {"unused", "ESTABLISHED"}
      BY <1>1 DEF Init, NewPcb
    <2>4. Announced /\ ErrorAlone
      BY <2>2, <2>3 DEF Announced, ErrorAlone, Over
    <2> QED
      BY <1>1, <2>4, OwnershipInit DEF AnnounceInv
  <1>2. ASSUME AnnounceInv, Next PROVE AnnounceInv'
    <2>1. OwnershipInv'
      BY <1>2, OwnershipStep DEF AnnounceInv
    <2>2. StepKind /\ StackKind
      BY <1>2, EveryStepHasAKind, EveryStepHasAStackKind DEF AnnounceInv, OwnershipInv
    <2>3. ErrorKinds
      BY <1>2, <2>2, EveryStepHasAnErrorKind DEF AnnounceInv, OwnershipInv
    <2> QED
      BY <1>2, <2>1, <2>2, <2>3, AnnounceStep DEF AnnounceInv
  <1>3. ASSUME AnnounceInv, UNCHANGED vars PROVE AnnounceInv'
    <2>1. OwnershipInv'
      BY <1>3, OwnershipStep DEF AnnounceInv
    <2> QED
      BY <1>3, <2>1 DEF AnnounceInv, Announced, ErrorAlone, vars
  <1> QED
    BY <1>1, <1>2, <1>3

(* Whatever the application calls and from whichever handler, onDisconnect *)
(* comes exactly once for each connection or attempt that ended.           *)
THEOREM DisconnectsOnce ==
    ASSUME Overlap = FALSE
    PROVE  Spec => []DisconnectOnce
  <1>1. AnnounceInv => DisconnectOnce
    <2> SUFFICES ASSUME AnnounceInv PROVE DisconnectOnce
      OBVIOUS
    <2>1. stack = <<>> => \A p : ~Erring(stack, p)
      BY EmptyStack DEF Erring
    <2> QED
      BY <2>1 DEF AnnounceInv, Announced, DisconnectOnce
  <1> QED
    BY <1>1, AnnounceInductive, PTL DEF Spec

-----------------------------------------------------------------------------
(* Refinement of ConnectionLife.                                           *)

(* The abstract phase of a pcb, read off lwIP's state and the calls of     *)
(* onDisconnect, before and after a step.                                  *)
LEMMA PhaseValues ==
    ASSUME NEW p \in Pcbs
    PROVE  /\ lw[p].told = 0 =>
                /\ lw[p].st \in {"unused", "leaked"} => Phase(p) = "none"
                /\ lw[p].st = "SYN_SENT" => Phase(p) = "opening"
                /\ lw[p].st \in {"ESTABLISHED", "CLOSE_WAIT"} => Phase(p) = "open"
                /\ lw[p].st \in Over => Phase(p) = "ended"
           /\ lw[p].told = 1 /\ lw[p].st \in Over => Phase(p) = "announced"
           /\ lw'[p].told = 0 =>
                /\ lw'[p].st \in {"unused", "leaked"} => Phase(p)' = "none"
                /\ lw'[p].st = "SYN_SENT" => Phase(p)' = "opening"
                /\ lw'[p].st \in {"ESTABLISHED", "CLOSE_WAIT"} => Phase(p)' = "open"
                /\ lw'[p].st \in Over => Phase(p)' = "ended"
           /\ lw'[p].told = 1 /\ lw'[p].st \in Over => Phase(p)' = "announced"
  BY DEF Phase, Over

(* The phase depends on the state and the announcements only.              *)
LEMMA PhaseSame ==
    ASSUME NEW p \in Pcbs, lw'[p].st = lw[p].st, lw'[p].told = lw[p].told
    PROVE  Phase(p)' = Phase(p)
  BY DEF Phase

PhaseMap == [p \in Pcbs |-> Phase(p)]

(* Every kind of step is a step or a stutter of ConnectionLife.            *)
LEMMA LifeStep ==
    ASSUME AnnounceInv, AnnounceInv', StepKind
    PROVE  Life!LifeNext \/ PhaseMap' = PhaseMap
  <1> USE PcbAssumption
  <1>1. \A q \in Pcbs : PhaseMap[q] = Phase(q) /\ PhaseMap'[q] = Phase(q)'
    BY DEF PhaseMap
  <1>m. ASSUME NEW p \in Pcbs, \A q \in Pcbs \ {p} : Phase(q)' = Phase(q)
        PROVE  PhaseMap' = [PhaseMap EXCEPT ![p] = Phase(p)']
    BY <1>m DEF PhaseMap
  <1>o. \A p \in Pcbs : lw[p].st \in Open => lw[p].told = 0
    BY DEF AnnounceInv, Announced, Open, Over
  <1>2. ASSUME Keeps \/ LooksUp \/ Destroys PROVE PhaseMap' = PhaseMap
    <2>1. ASSUME NEW q \in Pcbs PROVE Phase(q)' = Phase(q)
      <3>1. CASE Same(q)
        BY <3>1, PhaseSame DEF Same
      <3>2. CASE q = c.pcb /\ lw'[q].st = "CLOSE_WAIT" /\ lw'[q].told = lw[q].told
        <4>1. lw[q].st \in {"ESTABLISHED", "CLOSE_WAIT"} /\ lw[q].st \in Open
          BY <3>2 DEF AnnounceInv, OwnershipInv, Core, PcbUsable, Open
        <4>2. lw[q].told = 0
          BY <1>o, <4>1
        <4> QED
          BY <3>2, <4>1, <4>2, PhaseValues
      <3> QED
        BY <1>2, <3>1, <3>2 DEF Keeps, LooksUp, Destroys
    <2> QED
      BY <2>1 DEF PhaseMap
  <1>s. ASSUME NEW p \in Pcbs, \A q \in Pcbs \ {p} : Same(q)
        PROVE  PhaseMap' = [PhaseMap EXCEPT ![p] = Phase(p)']
    BY <1>s, <1>m, PhaseSame DEF Same
  <1>3. ASSUME NEW p \in Pcbs, Attempts(p) PROVE Life!LifeNext \/ PhaseMap' = PhaseMap
    <2>1. lw[p].told = 0 /\ Phase(p) = "none"
      <3>1. lw[p].told = 0
        BY <1>3 DEF Attempts, AnnounceInv, Announced, Over
      <3> QED
        BY <1>3, <3>1, PhaseValues DEF Attempts
    <2>2. PhaseMap' = [PhaseMap EXCEPT ![p] = Phase(p)']
      BY <1>3, <1>s DEF Attempts
    <2>3. CASE lw'[p].st = "leaked"
      <3>1. Phase(p)' = Phase(p)
        BY <1>3, <2>1, <2>3, PhaseValues DEF Attempts
      <3> QED
        BY <2>2, <3>1 DEF PhaseMap
    <2>4. CASE lw'[p].st = "SYN_SENT"
      <3>1. Phase(p)' = "opening"
        BY <1>3, <2>4, PhaseValues DEF Attempts
      <3>2. ASSUME NEW q \in Pcbs PROVE Phase(q) \notin {"opening", "open"}
        <4>1. lw[q].st \notin Open
          BY <1>3 DEF Attempts, Connecting, AnnounceInv, OwnershipInv, Core, NoOrphan,
                      OpenIsCallable
        <4> QED
          BY <4>1 DEF Phase, Open
      <3>3. Life!Attempt(p)
        BY <1>1, <2>1, <2>2, <3>1, <3>2 DEF Life!Attempt, Life!Live, Life!Become, PhaseMap
      <3> QED
        BY <3>3 DEF Life!LifeNext
    <2> QED
      BY <1>3, <2>3, <2>4 DEF Attempts
  <1>4. ASSUME NEW p \in Pcbs, Establishes(p) PROVE Life!LifeNext
    <2>1. PhaseMap' = [PhaseMap EXCEPT ![p] = Phase(p)']
      BY <1>4, <1>s DEF Establishes
    <2>2. lw[p].told = 0
      BY <1>o, <1>4 DEF Establishes, Open
    <2>3. Phase(p) = "opening" /\ Phase(p)' = "open"
      BY <1>4, <2>2, PhaseValues DEF Establishes
    <2>4. Life!Establish(p)
      BY <1>1, <2>1, <2>3 DEF Life!Establish, Life!Become, PhaseMap
    <2> QED
      BY <2>4 DEF Life!LifeNext
  <1>5. ASSUME NEW p \in Pcbs, Ends(p) PROVE Life!LifeNext
    <2>1. PhaseMap' = [PhaseMap EXCEPT ![p] = Phase(p)']
      BY <1>5, <1>s DEF Ends
    <2>2. lw[p].told = 0 /\ lw[p].st \in Open /\ lw'[p].st \in Over
      BY <1>o, <1>5 DEF Ends
    <2>3. CASE lw'[p].told = 0
      <3>1. Phase(p) \in {"opening", "open"} /\ Phase(p)' = "ended"
        BY <2>2, <2>3, PhaseValues DEF Open
      <3>2. Life!End(p)
        BY <1>1, <2>1, <3>1 DEF Life!End, Life!Live, Life!Become, PhaseMap
      <3> QED
        BY <3>2 DEF Life!LifeNext
    <2>4. CASE lw'[p].told # 0
      <3>1. lw'[p].told = 1
        BY <1>5, <2>2, <2>4 DEF Ends
      <3>2. Phase(p) \in {"opening", "open"} /\ Phase(p)' = "announced"
        BY <2>2, <3>1, PhaseValues DEF Open
      <3>3. Life!Close(p)
        BY <1>1, <2>1, <3>2 DEF Life!Close, Life!Live, Life!Become, PhaseMap
      <3> QED
        BY <3>3 DEF Life!LifeNext
    <2> QED
      BY <2>3, <2>4
  <1>6. ASSUME NEW p \in Pcbs, Announces(p) PROVE Life!LifeNext
    <2>1. PhaseMap' = [PhaseMap EXCEPT ![p] = Phase(p)']
      BY <1>6, <1>s DEF Announces
    <2>2. lw[p].told \in {0, 1} /\ lw'[p].told \in {0, 1} /\ (lw'[p].told = 1 => lw'[p].st \in Over)
      BY DEF AnnounceInv, Announced
    <2>3. lw[p].told = 0 /\ lw'[p].told = 1 /\ lw[p].st \in Over /\ lw'[p].st \in Over
      BY <1>6, <2>2 DEF Announces
    <2>4. Phase(p) = "ended" /\ Phase(p)' = "announced"
      BY <2>3, PhaseValues
    <2>5. Life!Announce(p)
      BY <1>1, <2>1, <2>4 DEF Life!Announce, Life!Become, PhaseMap
    <2> QED
      BY <2>5 DEF Life!LifeNext
  <1> QED
    BY <1>2, <1>3, <1>4, <1>5, <1>6 DEF StepKind

(* The initial states map to initial states.                               *)
LEMMA LifeStart == Init => Life!LifeInit
  <1> SUFFICES ASSUME Init PROVE Life!LifeInit
    OBVIOUS
  <1>1. CASE lw = [q \in Pcbs |-> NewPcb("unused", {})]
    <2>1. \A q \in Pcbs : Phase(q) = "none"
      BY <1>1, PhaseValues DEF NewPcb
    <2> QED
      BY <2>1 DEF Life!LifeInit
  <1>2. ASSUME NEW p \in Pcbs,
               lw = [q \in Pcbs |-> IF q = p THEN NewPcb("ESTABLISHED", Callbacks)
                                             ELSE NewPcb("unused", {})]
        PROVE  Life!LifeInit
    <2>1. Phase(p) = "open" /\ \A q \in Pcbs \ {p} : Phase(q) = "none"
      BY <1>2, PhaseValues DEF NewPcb
    <2> QED
      BY <2>1 DEF Life!LifeInit
  <1> QED
    BY <1>1, <1>2 DEF Init

(* The client with one attempt at a time implements ConnectionLife.        *)
THEOREM ImplementsLife ==
    ASSUME Overlap = FALSE
    PROVE  Spec => Lifecycle
  <1>1. AnnounceInv /\ AnnounceInv' /\ [Next]_vars => [Life!LifeNext]_PhaseMap
    <2> SUFFICES ASSUME AnnounceInv, AnnounceInv', [Next]_vars
                 PROVE  Life!LifeNext \/ PhaseMap' = PhaseMap
      OBVIOUS
    <2>1. CASE Next
      <3>1. StepKind
        BY <2>1, EveryStepHasAKind DEF AnnounceInv, OwnershipInv
      <3> QED
        BY <3>1, LifeStep
    <2>2. CASE UNCHANGED vars
      BY <2>2 DEF vars, PhaseMap, Phase
    <2> QED
      BY <2>1, <2>2
  <1>2. Init => Life!LifeInit
    BY LifeStart
  <1>3. (Init => AnnounceInv) /\ (AnnounceInv /\ [Next]_vars => AnnounceInv')
    BY AnnounceInductive
  <1> QED
    BY <1>1, <1>2, <1>3, PTL DEF Spec, Lifecycle, Life!LifeSpec, PhaseMap

=============================================================================
