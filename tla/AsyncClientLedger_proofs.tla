----------------------- MODULE AsyncClientLedger_proofs -----------------------
(***************************************************************************)
(* Proofs about the two ledgers of AsyncClient: what it has sent and the   *)
(* peer has not acknowledged, and what it has received and not given back  *)
(* to the receive window.  Both are kept twice, by the client and by lwIP, *)
(* and handlers change them in the middle of _recv() and _sent().  Last,   *)
(* the error tracker: what the callbacks return to lwIP after an abort.    *)
(***************************************************************************)
EXTENDS AsyncClient_proofs

-----------------------------------------------------------------------------
(* The pbuf that _recv() is delivering, found on the stack.                *)

DataCbs == {"recv_cb", "pb_cb"}

NoData(k) == \A i \in 1..Len(k) : k[i].f \notin DataCbs

(* fr is the stack's only frame of a data handler.                         *)
Delivering(k, fr) ==
    /\ fr.f \in DataCbs
    /\ \E i \in 1..Len(k) :
         k[i] = fr /\ \A j \in 1..Len(k) : j # i => k[j].f \notin DataCbs

(* The stack s delivers what k delivers.                                   *)
SameDelivery(k, s) ==
    /\ NoData(k) => NoData(s)
    /\ \A fr : Delivering(k, fr) => Delivering(s, fr)

(* The frames of a stack after a push, for any kind of frame.              *)
LEMMA Pushed ==
    ASSUME NEW f \in FrameKinds, NEW p \in Pcbs \cup {NULL}, NEW n \in Nat, NEW k \in Seq(Frames)
    PROVE  LET s == Push(f, p, n, k) IN
           /\ Len(k) \in Nat /\ Len(s) = Len(k) + 1 /\ s[1] = Frame(f, p, n)
           /\ \A i \in 1..Len(k) : s[i + 1] = k[i]
           /\ \A i \in 1..Len(s) : i # 1 => i - 1 \in 1..Len(k) /\ s[i] = k[i - 1]
  <1>1. Len(k) \in Nat
    OBVIOUS
  <1>2. ASSUME NEW i \in 1..Len(Push(f, p, n, k)), i # 1
        PROVE  i - 1 \in 1..Len(k) /\ Push(f, p, n, k)[i] = k[i - 1]
    <2>1. \/ i = 1 /\ Push(f, p, n, k)[i] = Frame(f, p, n)
          \/ i - 1 \in 1..Len(k) /\ Push(f, p, n, k)[i] = k[i - 1]
      BY PushMembers, Zenon
    <2> QED
      BY <1>2, <2>1
  <1> QED
    BY <1>1, <1>2, PushFrame

(* A push of any other frame leaves the delivery alone.                    *)
LEMMA PushBeside ==
    ASSUME NEW f \in FrameKinds \ DataCbs, NEW p \in Pcbs \cup {NULL}, NEW n \in Nat,
           NEW k \in Seq(Frames)
    PROVE  SameDelivery(k, Push(f, p, n, k)) /\ Push(f, p, n, k) \in Seq(Frames)
  <1> DEFINE s == Push(f, p, n, k)
  <1>1. /\ Len(k) \in Nat /\ Len(s) = Len(k) + 1 /\ s[1] = Frame(f, p, n)
        /\ \A i \in 1..Len(k) : s[i + 1] = k[i]
        /\ \A i \in 1..Len(s) : i # 1 => i - 1 \in 1..Len(k) /\ s[i] = k[i - 1]
    BY Pushed, ZenonT(40)
  <1>2. s \in Seq(Frames)
    BY PushFrame DEF FrameKinds
  <1>3. Frame(f, p, n).f = f /\ f \notin DataCbs
    BY DEF Frame
  <1> HIDE DEF s
  <1>4. NoData(k) => NoData(s)
    BY <1>1, <1>3 DEF NoData
  <1>5. ASSUME NEW fr, Delivering(k, fr) PROVE Delivering(s, fr)
    <2>1. PICK i \in 1..Len(k) :
            k[i] = fr /\ \A j \in 1..Len(k) : j # i => k[j].f \notin DataCbs
      BY <1>5 DEF Delivering
    <2>2. i + 1 \in 1..Len(s) /\ s[i + 1] = fr
      BY <1>1, <2>1
    <2>3. ASSUME NEW j \in 1..Len(s), j # i + 1 PROVE s[j].f \notin DataCbs
      <3>1. CASE j = 1
        BY <1>1, <1>3, <3>1
      <3>2. CASE j # 1
        <4>1. j - 1 \in 1..Len(k) /\ s[j] = k[j - 1]
          BY <1>1, <3>2
        <4>2. j - 1 # i
          BY <2>3
        <4> QED
          BY <2>1, <4>1, <4>2
      <3> QED
        BY <3>1, <3>2
    <2> QED
      BY <1>5, <2>2, <2>3 DEF Delivering
  <1> QED
    BY <1>2, <1>4, <1>5 DEF s, SameDelivery

(* A push of a data handler where there is none.                           *)
LEMMA PushData ==
    ASSUME NEW f \in DataCbs, NEW p \in Pcbs \cup {NULL}, NEW n \in Nat, NEW k \in Seq(Frames),
           NoData(k)
    PROVE  Delivering(Push(f, p, n, k), Frame(f, p, n)) /\ Frame(f, p, n) \in Frames
  <1> DEFINE s == Push(f, p, n, k)
  <1>0. f \in FrameKinds
    BY DEF FrameKinds, Handlers, DataCbs
  <1>1. /\ Len(k) \in Nat /\ Len(s) = Len(k) + 1 /\ s[1] = Frame(f, p, n)
        /\ \A i \in 1..Len(s) : i # 1 => i - 1 \in 1..Len(k) /\ s[i] = k[i - 1]
    BY <1>0, Pushed
  <1>2. Frame(f, p, n).f = f /\ Frame(f, p, n) \in Frames
    BY <1>0 DEF Frame, Frames, FrameKinds
  <1> HIDE DEF s
  <1>3. 1 \in 1..Len(s)
    BY <1>1
  <1>4. \A j \in 1..Len(s) : j # 1 => s[j].f \notin DataCbs
    BY <1>1 DEF NoData
  <1>5. Delivering(s, Frame(f, p, n))
    BY <1>1, <1>2, <1>3, <1>4 DEF Delivering
  <1> QED
    BY <1>2, <1>5 DEF s

(* What a pop leaves.                                                      *)
LEMMA PopData ==
    ASSUME NEW k \in Seq(Frames), k # <<>>
    PROVE  /\ NoData(k) => NoData(Tail(k)) /\ Head(k).f \notin DataCbs
           /\ Head(k).f \notin DataCbs => SameDelivery(k, Tail(k))
           /\ \A fr : Delivering(k, fr) /\ Head(k).f \in DataCbs => NoData(Tail(k)) /\ fr = Head(k)
  <1> DEFINE t == Tail(k)
  <1>1. /\ Head(k) = k[1] /\ Len(k) \in Nat /\ Len(k) # 0 /\ Len(t) = Len(k) - 1
        /\ \A i \in 1..Len(t) : i + 1 \in 1..Len(k) /\ t[i] = k[i + 1]
    BY PopFrame
  <1> HIDE DEF t
  <1>2. 1 \in 1..Len(k)
    BY <1>1
  <1>3. NoData(k) => NoData(t) /\ Head(k).f \notin DataCbs
    BY <1>1, <1>2 DEF NoData
  <1>4. ASSUME NEW fr, Delivering(k, fr)
        PROVE  IF Head(k).f \in DataCbs THEN NoData(t) /\ fr = Head(k) ELSE Delivering(t, fr)
    <2>1. PICK i \in 1..Len(k) :
            k[i] = fr /\ \A j \in 1..Len(k) : j # i => k[j].f \notin DataCbs
      BY <1>4 DEF Delivering
    <2>2. fr.f \in DataCbs
      BY <1>4 DEF Delivering
    <2>3. CASE i = 1
      <3>1. \A j \in 1..Len(t) : j + 1 # 1
        BY <1>1
      <3>2. NoData(t)
        BY <1>1, <2>1, <2>3, <3>1 DEF NoData
      <3> QED
        BY <1>1, <2>1, <2>2, <2>3, <3>2
    <2>4. CASE i # 1
      <3>1. Head(k).f \notin DataCbs
        BY <1>1, <1>2, <2>1, <2>4
      <3>2. i - 1 \in 1..Len(t) /\ (i - 1) + 1 = i
        BY <1>1, <2>4
      <3>3. t[i - 1] = fr
        BY <1>1, <2>1, <3>2
      <3>4. \A j \in 1..Len(t) : j # i - 1 => t[j].f \notin DataCbs
        BY <1>1, <2>1
      <3>5. Delivering(t, fr)
        BY <2>2, <3>2, <3>3, <3>4 DEF Delivering
      <3> QED
        BY <3>1, <3>5
    <2> QED
      BY <2>3, <2>4
  <1> QED
    BY <1>3, <1>4 DEF t, SameDelivery

(* The delivery on a stack is one.                                         *)
LEMMA DeliveryOnce ==
    ASSUME NEW k, NEW fr, Delivering(k, fr)
    PROVE  ~NoData(k) /\ \A gr : Delivering(k, gr) => gr = fr
  <1>1. PICK i \in 1..Len(k) :
          k[i] = fr /\ \A j \in 1..Len(k) : j # i => k[j].f \notin DataCbs
    BY DEF Delivering
  <1>2. fr.f \in DataCbs
    BY DEF Delivering
  <1>3. ~NoData(k)
    BY <1>1, <1>2 DEF NoData
  <1>4. ASSUME NEW gr, Delivering(k, gr) PROVE gr = fr
    <2>1. PICK m \in 1..Len(k) : k[m] = gr
      BY <1>4 DEF Delivering
    <2>2. gr.f \in DataCbs
      BY <1>4 DEF Delivering
    <2> QED
      BY <1>1, <2>1, <2>2
  <1> QED
    BY <1>3, <1>4

(* Changes of the stack follow one another.                                *)
LEMMA SameTwice ==
    ASSUME NEW k, NEW s, NEW t, SameDelivery(k, s), SameDelivery(s, t)
    PROVE  SameDelivery(k, t)
  BY DEF SameDelivery

(* The units of the delivery that count for p: those not yet handed to the *)
(* application, and the one onData() has now.                              *)
Units(fr) == IF fr.f = "recv_cb" THEN fr.n + 1 ELSE fr.n

Carries(k, p, d) ==
    \/ NoData(k) /\ d = 0
    \/ \E fr \in Frames : Delivering(k, fr) /\ fr.p = p /\ d = Units(fr)

(* InDelivery() counts them.                                               *)
InStack(k, p) ==
    IF \E i \in 1..Len(k) : k[i].f \in DataCbs /\ k[i].p = p
      THEN Units(k[CHOOSE i \in 1..Len(k) : k[i].f \in DataCbs])
      ELSE 0

(* A stack that carries d units for p has d in delivery, a number.         *)
LEMMA CarriedUnits ==
    ASSUME NEW k, NEW p, NEW d, Carries(k, p, d)
    PROVE  InStack(k, p) = d /\ d \in Nat
  <1>1. CASE NoData(k) /\ d = 0
    BY <1>1 DEF NoData, InStack
  <1>2. ASSUME NEW fr \in Frames, Delivering(k, fr), fr.p = p, d = Units(fr)
        PROVE  InStack(k, p) = d /\ d \in Nat
    <2> DEFINE D(i) == k[i].f \in DataCbs
               h == CHOOSE i \in 1..Len(k) : D(i)
    <2>1. PICK i \in 1..Len(k) :
            k[i] = fr /\ \A j \in 1..Len(k) : j # i => k[j].f \notin DataCbs
      BY <1>2 DEF Delivering
    <2>2. D(i) /\ k[i].p = p
      BY <1>2, <2>1 DEF Delivering
    <2>3. h \in 1..Len(k) /\ D(h)
      BY <2>2
    <2>4. h = i
      <3> HIDE DEF h
      <3> QED
        BY <2>1, <2>3
    <2>5. k[h] = fr
      <3> HIDE DEF h
      <3> QED
        BY <2>1, <2>4
    <2>6. InStack(k, p) = Units(k[h])
      BY <2>2 DEF InStack
    <2> HIDE DEF h
    <2>7. fr.n \in Nat
      BY DEF Frames
    <2> QED
      BY <1>2, <2>5, <2>6, <2>7 DEF Units
  <1> QED
    BY <1>1, <1>2 DEF Carries

(* InDelivery() is what the stack carries, before and after a step.        *)
LEMMA DeliveryIs ==
    /\ \A p : InDelivery(p) = InStack(stack, p)
    /\ InDelivery(c.pcb)' = InStack(stack', c'.pcb)
  BY DEF InDelivery, InStack, DataCbs, Units

-----------------------------------------------------------------------------
(* The inductive invariant: the delivery under way is one of the current   *)
(* connection, or of one that ended; a pcb that never connected counts     *)
(* nothing, and neither does a client none of whose pcbs ever did.         *)

DeliveryOwned ==
    \/ NoData(stack)
    \/ \E fr \in Frames : Delivering(stack, fr) /\ (c.pcb # NULL => fr.p = c.pcb)

Unconnected == {"unused", "leaked", "SYN_SENT"}

PcbsFresh ==
    \A p \in Pcbs : lw[p].st \in Unconnected => lw[p].unacked = 0 /\ lw[p].unrecved = 0

NeverConnected == \A p \in Pcbs : lw[p].st \in Unconnected

ClientFresh ==
    NeverConnected =>
        NoData(stack) /\ c.tx_unacked_len = 0 /\ c.rx_ack_len = 0 /\ held = 0

LedgerInv ==
    /\ OwnershipInv /\ DeliveryOwned /\ PcbsFresh /\ ClientFresh
    /\ WindowReturned /\ WindowExact /\ TxLedger

(* The kinds of steps, as far as the ledgers are concerned.                *)

SameNumbers(q) == lw'[q].unacked = lw[q].unacked /\ lw'[q].unrecved = lw[q].unrecved
ZeroNumbers(q) == lw'[q].unacked = 0 /\ lw'[q].unrecved = 0

SameCounts ==
    c'.tx_unacked_len = c.tx_unacked_len /\ c'.rx_ack_len = c.rx_ack_len /\ held' = held

(* close() is not forgotten, and only send() makes the client busy.        *)
FlagsKept == (c.close_pcb => c'.close_pcb) /\ (c'.pcb_busy => c.pcb_busy \/ Send)

(* Nothing moves, but the connection may end.                              *)
Rests ==
    /\ SameCounts /\ SameDelivery(stack, stack')
    /\ \/ c'.pcb = c.pcb /\ FlagsKept
       \/ c'.pcb = NULL
    /\ \A q \in Pcbs : SameNumbers(q) \/ (ZeroNumbers(q) /\ q # c'.pcb)

(* A connection is made.                                                   *)
Opens(p) ==
    /\ SameCounts /\ stack = <<>> /\ NoData(stack') /\ c'.pcb = p /\ ~c'.pcb_busy
    /\ \A q \in Pcbs : SameNumbers(q)
    /\ lw[p].st = "SYN_SENT"

Minus(u, n) == IF n > u THEN 0 ELSE u - n

(* Received units move: g come in, a leave the client's books, n are given *)
(* back to lwIP, which is more than a only when close() does it.           *)
Moves(d, e, g, a, n) ==
    /\ Carries(stack, c.pcb, d) /\ Carries(stack', c.pcb, e)
    /\ c'.rx_ack_len + held' + e + a = c.rx_ack_len + held + d + g
    /\ lw'[c.pcb].unrecved = Minus(lw[c.pcb].unrecved, n) + g
    /\ a <= n /\ (n = a \/ c'.close_pcb)
    /\ g = 0 \/ a = 0

Flows ==
    /\ c'.pcb = c.pcb /\ FlagsKept /\ c'.tx_unacked_len = c.tx_unacked_len
    /\ DeliveryOwned'
    /\ NeverConnected /\ ClientFresh => NoData(stack') /\ c'.rx_ack_len = 0 /\ held' = 0
    /\ \A q \in Pcbs : /\ lw'[q].unacked = lw[q].unacked
                       /\ q # c.pcb /\ lw[q].unrecved = 0 => lw'[q].unrecved = 0
    /\ c.pcb # NULL => \E d, e, g, a, n \in Nat : Moves(d, e, g, a, n)

(* tx units are queued, or acknowledged by the peer.                       *)
Queues(m) ==
    /\ c'.pcb = c.pcb /\ c.pcb # NULL /\ SameDelivery(stack, stack')
    /\ c'.close_pcb = c.close_pcb /\ c'.rx_ack_len = c.rx_ack_len /\ held' = held
    /\ m > 0 /\ c'.tx_unacked_len = c.tx_unacked_len + m
    /\ lw'[c.pcb].unacked = lw[c.pcb].unacked + m
    /\ lw'[c.pcb].unrecved = lw[c.pcb].unrecved
    /\ \A q \in Pcbs \ {c.pcb} : SameNumbers(q)

Confirms(m) ==
    /\ c'.pcb = c.pcb /\ c.pcb # NULL /\ SameDelivery(stack, stack')
    /\ c'.close_pcb = c.close_pcb /\ c'.rx_ack_len = c.rx_ack_len /\ held' = held
    /\ m <= lw[c.pcb].unacked
    /\ c'.tx_unacked_len = Unacked(m)
    /\ c'.pcb_busy = StillBusy(m)
    /\ lw'[c.pcb].unacked = lw[c.pcb].unacked - m
    /\ lw'[c.pcb].unrecved = lw[c.pcb].unrecved
    /\ \A q \in Pcbs \ {c.pcb} : SameNumbers(q)

LedgerKind ==
    \/ Rests \/ Flows
    \/ \E p \in Pcbs : Opens(p)
    \/ \E m \in Nat : Queues(m) \/ Confirms(m)

(* What the kinds of steps say of the pcbs' past.                          *)
LEMMA PastKept ==
    ASSUME TypeOK, TypeOK', StepKind
    PROVE  /\ \A p \in Pcbs : lw'[p].st \in Unconnected => lw[p].st \in Unconnected
           /\ \A p \in Pcbs : lw'[p].st = "unused" => lw[p].st = "unused"
           /\ NeverConnected' => NeverConnected
           /\ FirstUse' => FirstUse
  <1>1. ASSUME NEW p \in Pcbs
        PROVE  /\ lw'[p].st \in Unconnected => lw[p].st \in Unconnected
               /\ lw'[p].st = "unused" => lw[p].st = "unused"
    <2>1. CASE Keeps
      BY <2>1 DEF Keeps, Same, Unconnected
    <2>2. CASE LooksUp \/ Destroys
      BY <2>2 DEF LooksUp, Destroys, Same, Unconnected
    <2>3. ASSUME NEW q \in Pcbs, Attempts(q) \/ Establishes(q) \/ Ends(q) \/ Announces(q)
          PROVE  /\ lw'[p].st \in Unconnected => lw[p].st \in Unconnected
                 /\ lw'[p].st = "unused" => lw[p].st = "unused"
      <3>1. CASE p = q
        BY <2>3, <3>1 DEF Attempts, Establishes, Ends, Announces, Unconnected, Over
      <3>2. CASE p # q
        BY <2>3, <3>2 DEF Attempts, Establishes, Ends, Announces, Same
      <3> QED
        BY <3>1, <3>2
    <2> QED
      BY <2>1, <2>2, <2>3 DEF StepKind
  <1>2. NeverConnected' => NeverConnected
    BY <1>1 DEF NeverConnected
  <1>3. FirstUse' => FirstUse
    BY <1>1 DEF FirstUse
  <1> QED
    BY <1>1, <1>2, <1>3

(* The numbers are numbers.                                                *)
LEMMA Numbers ==
    ASSUME TypeOK
    PROVE  /\ c.tx_unacked_len \in Nat /\ c.rx_ack_len \in Nat /\ held \in Nat
           /\ c.pcb \in Pcbs \cup {NULL} /\ c.close_pcb \in BOOLEAN /\ c.pcb_busy \in BOOLEAN
           /\ c.ack_pcb \in BOOLEAN
           /\ \A p \in Pcbs : lw[p].unacked \in Nat /\ lw[p].unrecved \in Nat
           /\ stack \in Seq(Frames) /\ c \in Clients /\ lw \in LwType
  BY DEF TypeOK, Clients, LwType, PcbRecords

(* The units of the delivery under way, for the current connection.        *)
LEMMA OwnDelivery ==
    ASSUME DeliveryOwned, c.pcb # NULL
    PROVE  Carries(stack, c.pcb, InDelivery(c.pcb)) /\ InDelivery(c.pcb) \in Nat
  <1>1. CASE NoData(stack)
    <2>1. Carries(stack, c.pcb, 0)
      BY <1>1 DEF Carries
    <2> QED
      BY <2>1, CarriedUnits, DeliveryIs
  <1>2. ASSUME NEW fr \in Frames, Delivering(stack, fr), fr.p = c.pcb
        PROVE  Carries(stack, c.pcb, InDelivery(c.pcb)) /\ InDelivery(c.pcb) \in Nat
    <2>1. Carries(stack, c.pcb, Units(fr))
      BY <1>2 DEF Carries
    <2> QED
      BY <2>1, CarriedUnits, DeliveryIs
  <1> QED
    BY <1>1, <1>2 DEF DeliveryOwned

(* A stack that delivers the same.                                         *)
LEMMA SameUnits ==
    ASSUME DeliveryOwned, SameDelivery(stack, stack'), c'.pcb \in {c.pcb, NULL}
    PROVE  /\ DeliveryOwned'
           /\ c'.pcb # NULL => InDelivery(c.pcb)' = InDelivery(c.pcb)
  <1>1. CASE NoData(stack)
    <2>1. NoData(stack')
      BY <1>1 DEF SameDelivery
    <2>2. DeliveryOwned'
      BY <2>1 DEF DeliveryOwned
    <2>3. ASSUME c'.pcb # NULL PROVE InDelivery(c.pcb)' = InDelivery(c.pcb)
      <3>1. c'.pcb = c.pcb
        BY <2>3
      <3>2. InStack(stack, c.pcb) = 0 /\ InStack(stack', c'.pcb) = 0
        BY <1>1, <2>1 DEF NoData, InStack
      <3> QED
        BY <3>2, DeliveryIs
    <2> QED
      BY <2>2, <2>3
  <1>2. ASSUME NEW fr \in Frames, Delivering(stack, fr), c.pcb # NULL => fr.p = c.pcb
        PROVE  /\ DeliveryOwned'
               /\ c'.pcb # NULL => InDelivery(c.pcb)' = InDelivery(c.pcb)
    <2>1. Delivering(stack', fr)
      BY <1>2 DEF SameDelivery
    <2>2. DeliveryOwned'
      BY <1>2, <2>1 DEF DeliveryOwned
    <2>3. ASSUME c'.pcb # NULL PROVE InDelivery(c.pcb)' = InDelivery(c.pcb)
      <3>1. c'.pcb = c.pcb /\ fr.p = c.pcb
        BY <1>2, <2>3
      <3>2. Carries(stack, c.pcb, Units(fr))
        BY <1>2, <3>1 DEF Carries
      <3>3. Carries(stack', c'.pcb, Units(fr))
        BY <2>1, <3>1 DEF Carries
      <3>4. InStack(stack, c.pcb) = Units(fr) /\ InStack(stack', c'.pcb) = Units(fr)
        BY <3>2, <3>3, CarriedUnits
      <3> QED
        BY <3>4, DeliveryIs
    <2> QED
      BY <2>2, <2>3
  <1> QED
    BY <1>1, <1>2 DEF DeliveryOwned

-----------------------------------------------------------------------------
(* Every kind of step keeps the ledgers.                                   *)

(* The facts about a step that all kinds need.                             *)
LEMMA StepFacts ==
    ASSUME LedgerInv, OwnershipInv', StepKind
    PROVE  /\ TypeOK /\ TypeOK' /\ DeliveryOwned /\ PcbsFresh /\ ClientFresh
           /\ WindowReturned /\ WindowExact /\ TxLedger
           /\ NeverConnected' => NeverConnected
           /\ FirstUse' => FirstUse
           /\ \A p \in Pcbs : lw'[p].st \in Unconnected => lw[p].st \in Unconnected
           /\ c'.pcb # NULL => c'.pcb \in Pcbs /\ lw'[c'.pcb].st \notin Unconnected
           /\ c.pcb # NULL => c.pcb \in Pcbs /\ lw[c.pcb].st \notin Unconnected
           /\ c'.tx_unacked_len \in Nat /\ c'.rx_ack_len \in Nat /\ held' \in Nat
  <1>1. TypeOK /\ TypeOK'
    BY DEF LedgerInv, OwnershipInv
  <1>2. /\ c.pcb \in Pcbs \cup {NULL} /\ c'.pcb \in Pcbs \cup {NULL}
        /\ c'.tx_unacked_len \in Nat /\ c'.rx_ack_len \in Nat /\ held' \in Nat
    BY <1>1 DEF TypeOK, Clients
  <1>3. PcbUsable /\ PcbUsable'
    BY DEF LedgerInv, OwnershipInv, Core
  <1>4. c.pcb # NULL => lw[c.pcb].st \notin Unconnected
    BY <1>3 DEF PcbUsable, Unconnected
  <1>5. c'.pcb # NULL => lw'[c'.pcb].st \notin Unconnected
    BY <1>3 DEF PcbUsable, Unconnected
  <1> QED
    BY <1>1, <1>2, <1>4, <1>5, PastKept DEF LedgerInv

(* The parts of the invariant, from what they say.                         *)
LEMMA LedgersHold ==
    ASSUME OwnershipInv', DeliveryOwned', PcbsFresh', ClientFresh', NEW u, NEW v, NEW d,
           c'.pcb # NULL => /\ u = lw'[c'.pcb].unrecved /\ v = lw'[c'.pcb].unacked
                            /\ InStack(stack', c'.pcb) = d
                            /\ u <= c'.rx_ack_len + held' + d
                            /\ FirstUse' /\ ~c'.close_pcb => u = c'.rx_ack_len + held' + d
                            /\ FirstUse' => c'.tx_unacked_len = v
    PROVE  LedgerInv'
  BY DeliveryIs DEF LedgerInv, WindowReturned, WindowExact, TxLedger

(* Nothing moves.                                                          *)
LEMMA RestsKeeps ==
    ASSUME LedgerInv, OwnershipInv', StepKind, Rests
    PROVE  LedgerInv'
  <1> DEFINE u == lw[c.pcb].unrecved
             v == lw[c.pcb].unacked
             d == InDelivery(c.pcb)
  <1>1. c'.pcb \in {c.pcb, NULL}
    BY DEF Rests
  <1>2. DeliveryOwned' /\ (c'.pcb # NULL => InDelivery(c.pcb)' = d)
    BY <1>1, StepFacts, SameUnits DEF Rests
  <1>3. PcbsFresh'
    BY StepFacts DEF PcbsFresh, Rests, SameNumbers, ZeroNumbers
  <1>4. ClientFresh'
    BY StepFacts DEF ClientFresh, Rests, SameCounts, SameDelivery
  <1>5. ASSUME c'.pcb # NULL
        PROVE  /\ u = lw'[c'.pcb].unrecved /\ v = lw'[c'.pcb].unacked
               /\ InStack(stack', c'.pcb) = d
               /\ u <= c'.rx_ack_len + held' + d
               /\ FirstUse' /\ ~c'.close_pcb => u = c'.rx_ack_len + held' + d
               /\ FirstUse' => c'.tx_unacked_len = v
    <2>1. c'.pcb = c.pcb /\ FlagsKept /\ c.pcb # NULL /\ c.pcb \in Pcbs
      BY <1>1, <1>5, StepFacts DEF Rests
    <2>2. SameNumbers(c.pcb)
      BY <2>1 DEF Rests
    <2>3. SameCounts
      BY DEF Rests
    <2>4. /\ u <= c.rx_ack_len + held + d
          /\ FirstUse /\ ~c.close_pcb => u = c.rx_ack_len + held + d
          /\ FirstUse => c.tx_unacked_len = v
      BY <2>1, StepFacts DEF WindowReturned, WindowExact, TxLedger
    <2>5. InStack(stack', c'.pcb) = d
      BY <1>2, <1>5, DeliveryIs
    <2> HIDE DEF d
    <2>6. (~c'.close_pcb => ~c.close_pcb) /\ (FirstUse' => FirstUse)
      BY <2>1, StepFacts DEF FlagsKept
    <2> QED
      BY <2>1, <2>2, <2>3, <2>4, <2>5, <2>6 DEF SameNumbers, SameCounts
  <1> HIDE DEF d, u, v
  <1> QED
    BY <1>2, <1>3, <1>4, <1>5, LedgersHold

(* A connection is made, the first one on clean books.                     *)
LEMMA OpensKeeps ==
    ASSUME LedgerInv, OwnershipInv', StepKind, NEW p \in Pcbs, Opens(p)
    PROVE  LedgerInv'
  <1>1. DeliveryOwned'
    BY DEF DeliveryOwned, Opens
  <1>2. PcbsFresh'
    BY StepFacts DEF PcbsFresh, Opens, SameNumbers
  <1>3. ClientFresh'
    BY StepFacts DEF ClientFresh, Opens, SameCounts
  <1>4. lw'[p].unrecved = 0 /\ lw'[p].unacked = 0 /\ c'.pcb = p
    BY StepFacts DEF Opens, PcbsFresh, SameNumbers, Unconnected
  <1>5. InStack(stack', c'.pcb) = 0
    BY DEF Opens, NoData, InStack
  <1>6. FirstUse' => c'.rx_ack_len = 0 /\ held' = 0 /\ c'.tx_unacked_len = 0
    <2> SUFFICES ASSUME FirstUse' PROVE NeverConnected
      BY StepFacts DEF ClientFresh, Opens, SameCounts
    <2>1. FirstUse /\ lw[p].st = "SYN_SENT"
      BY StepFacts DEF Opens
    <2> QED
      BY <2>1 DEF FirstUse, NeverConnected, Unconnected
  <1>7. 0 <= c'.rx_ack_len + held' + 0 /\ (FirstUse' => 0 = c'.rx_ack_len + held' + 0)
    BY <1>6, StepFacts
  <1> QED
    BY <1>1, <1>2, <1>3, <1>4, <1>5, <1>6, <1>7, LedgersHold

(* Units move between lwIP, _recv() and the application.                   *)
LEMMA FlowsKeeps ==
    ASSUME LedgerInv, OwnershipInv', StepKind, Flows
    PROVE  LedgerInv'
  <1>1. DeliveryOwned' /\ c'.pcb = c.pcb
    BY DEF Flows
  <1>2. PcbsFresh'
    <2> SUFFICES ASSUME NEW q \in Pcbs, lw'[q].st \in Unconnected
                 PROVE  lw'[q].unacked = 0 /\ lw'[q].unrecved = 0
      BY DEF PcbsFresh
    <2>1. q # c.pcb
      BY <1>1, StepFacts, PcbAssumption
    <2>2. lw[q].unacked = 0 /\ lw[q].unrecved = 0
      BY StepFacts DEF PcbsFresh
    <2> QED
      BY <2>1, <2>2 DEF Flows
  <1>3. ClientFresh'
    BY StepFacts DEF ClientFresh, Flows
  <1>4. CASE c'.pcb = NULL
    BY <1>1, <1>2, <1>3, <1>4, LedgersHold
  <1>5. CASE c'.pcb # NULL
    <2> DEFINE u == lw[c.pcb].unrecved
               x == c'.rx_ack_len + held'
               y == c.rx_ack_len + held
    <2>1. PICK d, e, g, a, n \in Nat : Moves(d, e, g, a, n)
      BY <1>1, <1>5 DEF Flows
    <2>2. /\ Carries(stack, c.pcb, d) /\ Carries(stack', c.pcb, e)
          /\ x + e + a = y + d + g
          /\ lw'[c.pcb].unrecved = Minus(u, n) + g
          /\ a <= n /\ (n = a \/ c'.close_pcb) /\ (g = 0 \/ a = 0)
      BY <2>1 DEF Moves
    <2>3. c.pcb \in Pcbs /\ u \in Nat /\ x \in Nat /\ y \in Nat /\ FlagsKept
      <3>1. c.pcb \in Pcbs
        BY <1>1, <1>5, StepFacts
      <3> QED
        BY <3>1, StepFacts, Numbers, SMTT(20) DEF Flows
    <2>4. InStack(stack, c.pcb) = d /\ InStack(stack', c'.pcb) = e
      BY <1>1, <2>2, CarriedUnits
    <2>5. /\ u <= y + d
          /\ FirstUse /\ ~c.close_pcb => u = y + d
          /\ FirstUse => c.tx_unacked_len = lw[c.pcb].unacked
      BY <1>1, <1>5, <2>4, StepFacts, DeliveryIs DEF WindowReturned, WindowExact, TxLedger
    <2>6. (~c'.close_pcb => ~c.close_pcb) /\ (FirstUse' => FirstUse)
      BY <2>3, StepFacts DEF FlagsKept
    <2> HIDE DEF u, x, y
    <2> DEFINE w == Minus(u, n) + g
    <2>7. /\ w <= x + e
          /\ FirstUse' /\ ~c'.close_pcb => w = x + e
      <3> DEFINE t == y + d
                 s == x + e
      <3>1. t \in Nat /\ s \in Nat /\ s + a = t + g
        BY <2>2, <2>3
      <3>2. u <= t /\ (FirstUse' /\ ~c'.close_pcb => u = t /\ n = a)
        BY <2>2, <2>5, <2>6
      <3> HIDE DEF t, s
      <3>3. (u <= t => w <= s) /\ (u = t /\ n = a => w = s)
        <4>1. a \in Nat /\ g \in Nat /\ n \in Nat /\ u \in Nat /\ a <= n /\ (g = 0 \/ a = 0)
          BY <2>2, <2>3
        <4> QED
          BY ONLY <3>1, <4>1 DEF Minus, w
      <3>4. w <= s /\ (FirstUse' /\ ~c'.close_pcb => w = s)
        BY <3>2, <3>3
      <3> QED
        BY <3>4 DEF s
    <2> HIDE DEF w
    <2>8. /\ w = lw'[c'.pcb].unrecved
          /\ w <= c'.rx_ack_len + held' + e
          /\ FirstUse' /\ ~c'.close_pcb => w = c'.rx_ack_len + held' + e
      BY <1>1, <2>2, <2>7 DEF w, x
    <2>9. FirstUse' => c'.tx_unacked_len = lw'[c'.pcb].unacked
      BY <1>1, <2>3, <2>5, <2>6 DEF Flows
    <2> QED
      BY <1>1, <1>2, <1>3, <2>4, <2>8, <2>9, LedgersHold
  <1> QED
    BY <1>4, <1>5

(* Units are queued or acknowledged.                                       *)
LEMMA SendingKeeps ==
    ASSUME LedgerInv, OwnershipInv', StepKind, NEW m \in Nat, Queues(m) \/ Confirms(m)
    PROVE  LedgerInv'
  <1> DEFINE u == lw[c.pcb].unrecved
             d == InDelivery(c.pcb)
  <1>1. /\ c'.pcb = c.pcb /\ c.pcb # NULL /\ SameDelivery(stack, stack')
        /\ c'.close_pcb = c.close_pcb /\ c'.rx_ack_len = c.rx_ack_len /\ held' = held
        /\ lw'[c.pcb].unrecved = u
        /\ \A q \in Pcbs \ {c.pcb} : SameNumbers(q)
    BY DEF Queues, Confirms
  <1>2. DeliveryOwned' /\ InStack(stack', c'.pcb) = d
    BY <1>1, StepFacts, SameUnits, DeliveryIs
  <1>3. PcbsFresh'
    BY <1>1, StepFacts DEF PcbsFresh, SameNumbers
  <1>4. ClientFresh'
    BY <1>1, StepFacts DEF ClientFresh, NeverConnected
  <1>5. c.pcb \in Pcbs /\ c.tx_unacked_len \in Nat /\ lw[c.pcb].unacked \in Nat
    <2>1. c.pcb \in Pcbs
      BY <1>1, StepFacts
    <2> QED
      BY <2>1, StepFacts, Numbers
  <1>6. /\ u <= c.rx_ack_len + held + d
        /\ FirstUse /\ ~c.close_pcb => u = c.rx_ack_len + held + d
        /\ FirstUse => c.tx_unacked_len = lw[c.pcb].unacked
    BY <1>1, StepFacts DEF WindowReturned, WindowExact, TxLedger
  <1>7. FirstUse' => FirstUse
    BY StepFacts
  <1> HIDE DEF u, d
  <1>8. FirstUse' => c'.tx_unacked_len = lw'[c'.pcb].unacked
    <2>1. CASE Queues(m)
      BY <1>1, <1>6, <1>7, <2>1 DEF Queues
    <2>2. CASE Confirms(m)
      <3> SUFFICES ASSUME FirstUse' PROVE c'.tx_unacked_len = lw'[c'.pcb].unacked
        OBVIOUS
      <3>1. c.tx_unacked_len = lw[c.pcb].unacked /\ m <= lw[c.pcb].unacked
        BY <1>6, <1>7, <2>2 DEF Confirms
      <3>2. Unacked(m) = c.tx_unacked_len - m
        BY <1>5, <3>1 DEF Unacked
      <3> QED
        BY <1>1, <2>2, <3>1, <3>2 DEF Confirms
    <2> QED
      BY <2>1, <2>2
  <1> QED
    BY <1>1, <1>2, <1>3, <1>4, <1>6, <1>7, <1>8, LedgersHold

-----------------------------------------------------------------------------
(* What the shared steps do to the ledgers.                                *)

(* Pushes of other frames, and pops of them.                               *)
LEMMA BesideAll ==
    ASSUME NEW k \in Seq(Frames)
    PROVE  /\ SameDelivery(k, k)
           /\ \A f \in FrameKinds \ DataCbs, p \in Pcbs \cup {NULL} :
                SameDelivery(k, Push(f, p, 0, k)) /\ Push(f, p, 0, k) \in Seq(Frames)
           /\ \A f, g \in FrameKinds \ DataCbs, p, q \in Pcbs \cup {NULL} :
                /\ SameDelivery(k, Push(f, p, 0, Push(g, q, 0, k)))
                /\ Push(f, p, 0, Push(g, q, 0, k)) \in Seq(Frames)
  <1>1. SameDelivery(k, k)
    BY DEF SameDelivery
  <1>2. ASSUME NEW f \in FrameKinds \ DataCbs, NEW p \in Pcbs \cup {NULL}
        PROVE  SameDelivery(k, Push(f, p, 0, k)) /\ Push(f, p, 0, k) \in Seq(Frames)
    BY PushBeside
  <1>3. ASSUME NEW f \in FrameKinds \ DataCbs, NEW g \in FrameKinds \ DataCbs,
               NEW p \in Pcbs \cup {NULL}, NEW q \in Pcbs \cup {NULL}
        PROVE  /\ SameDelivery(k, Push(f, p, 0, Push(g, q, 0, k)))
               /\ Push(f, p, 0, Push(g, q, 0, k)) \in Seq(Frames)
    <2> DEFINE s == Push(g, q, 0, k)
    <2>1. SameDelivery(k, s) /\ s \in Seq(Frames)
      BY <1>2
    <2> HIDE DEF s
    <2>2. SameDelivery(s, Push(f, p, 0, s)) /\ Push(f, p, 0, s) \in Seq(Frames)
      BY <2>1, PushBeside
    <2>3. SameDelivery(k, Push(f, p, 0, s))
      BY <2>1, <2>2, SameTwice
    <2> QED
      BY <2>2, <2>3 DEF s
  <1> QED
    BY <1>1, <1>2, <1>3

(* The kinds of frames that deliver no data.                               *)
LEMMA BesideKinds ==
    {"ret", "fin", "abort", "dtor", "connect_cb", "sent_cb", "timeout_cb", "poll_cb",
     "error_cb", "discard_cb"} \subseteq FrameKinds \ DataCbs
  BY DEF FrameKinds, Handlers, DataCbs

(* _close() ends the connection and moves nothing.                         *)
LEMMA CloseRests ==
    ASSUME TypeOK, NEW c0 \in Clients, c0.pcb = c.pcb, c0.tx_unacked_len = c.tx_unacked_len,
           c0.rx_ack_len = c.rx_ack_len, NEW l0 \in LwType,
           \A q \in Pcbs : q # c.pcb => /\ l0[q].unacked = lw[q].unacked
                                        /\ l0[q].unrecved = lw[q].unrecved,
           NEW e0, NEW k \in Seq(Frames), SameDelivery(stack, k), Close_(c0, e0, l0, k),
           held' = held
    PROVE  Rests
  <1> USE PcbAssumption
  <1>1. CASE c0.pcb = NULL
    <2>1. c' = c0 /\ lw' = l0 /\ stack' = k
      BY <1>1 DEF Close_
    <2>2. \A q \in Pcbs : q # c.pcb
      BY <1>1
    <2> QED
      BY <1>1, <2>1, <2>2 DEF Rests, SameCounts, SameNumbers
  <1>2. CASE c0.pcb # NULL
    <2>1. PICK r \in {"closing", "aborted"} : Discard(Release(l0, c0.pcb, r), c0.pcb, k)
      BY <1>2 DEF Close_
    <2>2. c0.pcb \in Pcbs
      BY <1>2 DEF Clients
    <2>3. /\ c'.pcb = NULL /\ c'.tx_unacked_len = c.tx_unacked_len
          /\ c'.rx_ack_len = c.rx_ack_len
      BY <1>2 DEF Close_, ForgetPcb, Clients
    <2>4. /\ lw' = [Release(l0, c0.pcb, r) EXCEPT ![c0.pcb].told = @ + 1]
          /\ stack' = Push("discard_cb", c0.pcb, 0, k)
      BY <1>2, <2>1, SMTT(20) DEF Discard
    <2>5. /\ lw'[c0.pcb].unacked = 0 /\ lw'[c0.pcb].unrecved = 0
          /\ \A q \in Pcbs \ {c0.pcb} : lw'[q] = l0[q]
      BY <2>2, <2>4 DEF Release, clearTcpCallbacks, LwType, PcbRecords
    <2>6. SameDelivery(stack, stack')
      <3>1. SameDelivery(k, stack')
        BY <2>2, <2>4, BesideAll, BesideKinds
      <3> QED
        BY <3>1, SameTwice
    <2>7. \A q \in Pcbs : SameNumbers(q) \/ (ZeroNumbers(q) /\ q # c'.pcb)
      BY <2>2, <2>3, <2>5 DEF SameNumbers, ZeroNumbers
    <2> QED
      BY <2>3, <2>6, <2>7 DEF Rests, SameCounts
  <1> QED
    BY <1>1, <1>2

(* So does _error().                                                       *)
LEMMA ErrorRests ==
    ASSUME TypeOK, NEW p \in Pcbs, NEW r, NEW e0, NEW k \in Seq(Frames),
           SameDelivery(stack, k), Error_(c, e0, Release(lw, p, r), p, k), held' = held
    PROVE  Rests
  <1> USE PcbAssumption
  <1>1. lw \in LwType /\ c \in Clients
    BY Numbers
  <1>2. /\ c'.pcb = NULL /\ c'.tx_unacked_len = c.tx_unacked_len
        /\ c'.rx_ack_len = c.rx_ack_len
    BY <1>1 DEF Error_, ForgetPcb, Clients
  <1>3. lw' = Release(lw, p, r) /\ stack' = Push("error_cb", p, 0, k)
    BY DEF Error_
  <1>4. /\ lw'[p].unacked = 0 /\ lw'[p].unrecved = 0
        /\ \A q \in Pcbs \ {p} : lw'[q] = lw[q]
    BY <1>1, <1>3 DEF Release, clearTcpCallbacks, LwType, PcbRecords
  <1>5. SameDelivery(stack, stack')
    <2>1. SameDelivery(k, stack')
      BY <1>3, BesideAll, BesideKinds
    <2> QED
      BY <2>1, SameTwice
  <1>6. \A q \in Pcbs : SameNumbers(q) \/ (ZeroNumbers(q) /\ q # c'.pcb)
    BY <1>2, <1>4 DEF SameNumbers, ZeroNumbers
  <1> QED
    BY <1>2, <1>5, <1>6 DEF Rests, SameCounts

(* tcp_recved() gives back what there is.                                  *)
LEMMA RecvedNumbers ==
    ASSUME NEW l \in LwType, NEW p, NEW n \in Nat
    PROVE  \A q \in Pcbs :
             /\ tcp_recved(l, p, n)[q].unacked = l[q].unacked
             /\ q # p => tcp_recved(l, p, n)[q].unrecved = l[q].unrecved
             /\ q = p => tcp_recved(l, p, n)[q].unrecved = Minus(l[q].unrecved, n)
  BY DEF tcp_recved, LwType, PcbRecords, Minus

(* connect() begins at zero.                                               *)
LEMMA ConnectNumbers ==
    ASSUME lw \in LwType, Connect_
    PROVE  \A q \in Pcbs : SameNumbers(q) \/ (ZeroNumbers(q) /\ lw[q].st = "unused")
  <1>1. CASE UNCHANGED lw
    BY <1>1 DEF SameNumbers
  <1>2. CASE ~UNCHANGED lw
    <2>1. PICK p \in Pcbs :
            /\ lw[p].st = "unused"
            /\ \/ lw' = [lw EXCEPT ![p] = NewPcb("SYN_SENT", {"err"})]
               \/ lw' = [lw EXCEPT ![p] = NewPcb("leaked", {})]
      BY <1>2 DEF Connect_
    <2>2. lw'[p].unacked = 0 /\ lw'[p].unrecved = 0
      <3>1. \/ lw'[p] = NewPcb("SYN_SENT", {"err"})
            \/ lw'[p] = NewPcb("leaked", {})
        BY <2>1 DEF LwType
      <3> QED
        BY <3>1 DEF NewPcb
    <2>3. \A q \in Pcbs \ {p} : lw'[q] = lw[q]
      BY <2>1 DEF LwType
    <2> QED
      BY <2>1, <2>2, <2>3 DEF SameNumbers, ZeroNumbers
  <1> QED
    BY <1>1, <1>2

(* The next pbuf of a chain, or the first.                                 *)
LEMMA DeliverUnits ==
    ASSUME NEW p \in Pcbs \cup {NULL}, NEW n \in Nat, NEW k \in Seq(Frames), NoData(k),
           held \in Nat, Deliver(p, n, k)
    PROVE  \E fr \in Frames : /\ Delivering(stack', fr) /\ fr.p = p
                              /\ held' + Units(fr) = held + n + 1 /\ Units(fr) \in Nat
  <1>1. PICK f \in DataHandlers :
          /\ stack' = Push(f, p, n, k)
          /\ held' = IF f = "pb_cb" THEN held + 1 ELSE held
    BY DEF Deliver
  <1>2. f \in DataCbs
    BY FlagAssumption DEF DataCbs
  <1>3. Delivering(stack', Frame(f, p, n)) /\ Frame(f, p, n) \in Frames
    BY <1>1, <1>2, PushData
  <1>4. Frame(f, p, n).f = f /\ Frame(f, p, n).p = p /\ Frame(f, p, n).n = n
    BY DEF Frame
  <1>5. held' + Units(Frame(f, p, n)) = held + n + 1 /\ Units(Frame(f, p, n)) \in Nat
    BY <1>1, <1>2, <1>4 DEF Units, DataCbs
  <1> QED
    BY <1>3, <1>4, <1>5

-----------------------------------------------------------------------------
(* Every step is of one of the kinds.                                      *)

(* The end of a data handler.                                              *)
LEMMA DataReturned ==
    ASSUME TypeOK, DeliveryOwned, RecvReturn \/ PacketReturn
    PROVE  Flows
  <1> DEFINE fr == Head(stack)
             c0 == IF RecvReturn /\ ~c.ack_pcb THEN Defer(c) ELSE c
  <1>1. /\ stack # <<>> /\ stack \in Seq(Frames) /\ fr \in Frames /\ Tail(stack) \in Seq(Frames)
        /\ fr.f \in DataCbs /\ fr.p \in Pcbs \cup {NULL} /\ fr.n \in Nat
    <2>1. stack # <<>> /\ stack \in Seq(Frames) /\ fr.f \in DataCbs
      BY Numbers DEF RecvReturn, PacketReturn, Top, DataCbs
    <2>2. fr \in Frames /\ Tail(stack) \in Seq(Frames)
      BY <2>1, PopFrame
    <2> QED
      BY <2>1, <2>2 DEF Frames
  <1>2. Delivering(stack, fr) /\ NoData(Tail(stack)) /\ (c.pcb # NULL => fr.p = c.pcb)
    BY <1>1, PopData DEF DeliveryOwned
  <1>3. /\ c.tx_unacked_len \in Nat /\ c.rx_ack_len \in Nat /\ held \in Nat
        /\ c.pcb \in Pcbs \cup {NULL} /\ c.ack_pcb \in BOOLEAN
        /\ c \in Clients /\ lw \in LwType
    BY Numbers
  <1>4. NextPbuf(c0) /\ (fr.f = "recv_cb" <=> RecvReturn)
    BY DEF RecvReturn, PacketReturn, Top
  <1>5. /\ c0.pcb = c.pcb /\ c0.tx_unacked_len = c.tx_unacked_len /\ c0.close_pcb = c.close_pcb
        /\ c0.pcb_busy = c.pcb_busy /\ c0 \in Clients
        /\ c0.rx_ack_len = c.rx_ack_len + (IF RecvReturn /\ ~c.ack_pcb THEN 1 ELSE 0)
    BY <1>3 DEF Defer, Clients
  <1> HIDE DEF c0
  <1>6. /\ c'.pcb = c.pcb /\ c'.tx_unacked_len = c.tx_unacked_len
        /\ c'.close_pcb = c.close_pcb /\ c'.pcb_busy = c.pcb_busy
        /\ c'.rx_ack_len = c0.rx_ack_len
    BY <1>4, <1>5 DEF NextPbuf, Clients
  <1>7. PICK e \in Nat : /\ Carries(stack', fr.p, e) /\ held' + e = held + fr.n
                         /\ DeliveryOwned' /\ held' \in Nat
    <2>1. CASE fr.n > 0
      <3>1. Deliver(fr.p, fr.n - 1, Tail(stack)) /\ fr.n - 1 \in Nat
        BY <1>1, <1>4, <2>1 DEF NextPbuf
      <3>2. PICK gr \in Frames :
              /\ Delivering(stack', gr) /\ gr.p = fr.p
              /\ held' + Units(gr) = held + (fr.n - 1) + 1 /\ Units(gr) \in Nat
        BY <1>1, <1>2, <1>3, <3>1, DeliverUnits
      <3>3. held' \in Nat
        BY <1>1, <1>3, <3>1, DeliverType
      <3>4. DeliveryOwned'
        BY <1>2, <1>6, <3>2 DEF DeliveryOwned
      <3>5. held' + Units(gr) = held + fr.n
        BY <1>1, <1>3, <3>2, <3>3
      <3>6. Carries(stack', fr.p, Units(gr))
        BY <3>2 DEF Carries
      <3> QED
        BY <3>2, <3>3, <3>4, <3>5, <3>6
    <2>2. CASE ~(fr.n > 0)
      <3>1. stack' = Tail(stack) /\ held' = held /\ fr.n = 0
        BY <1>1, <1>4, <2>2 DEF NextPbuf
      <3>2. DeliveryOwned'
        BY <1>2, <3>1 DEF DeliveryOwned
      <3>3. Carries(stack', fr.p, 0)
        BY <1>2, <3>1 DEF Carries
      <3> QED
        BY <1>3, <3>1, <3>2, <3>3
    <2> QED
      BY <2>1, <2>2
  <1>8. lw' = IF RecvReturn /\ c.ack_pcb THEN tcp_recved(lw, fr.p, 1) ELSE lw
    BY <1>3 DEF RecvReturn, PacketReturn, AckUnlessDeferred, Top
  <1> DEFINE a == IF RecvReturn /\ c.ack_pcb THEN 1 ELSE 0
  <1>9. \A q \in Pcbs : /\ lw'[q].unacked = lw[q].unacked
                        /\ q # fr.p => lw'[q].unrecved = lw[q].unrecved
                        /\ q = fr.p => lw'[q].unrecved = Minus(lw[q].unrecved, a)
    <2>1. CASE RecvReturn /\ c.ack_pcb
      BY <1>3, <1>8, <2>1, RecvedNumbers
    <2>2. CASE ~(RecvReturn /\ c.ack_pcb)
      <3>1. \A q \in Pcbs : Minus(lw[q].unrecved, 0) = lw[q].unrecved
        BY Numbers DEF Minus
      <3> QED
        BY <1>8, <2>2, <3>1
    <2> QED
      BY <2>1, <2>2
  <1>10. \A q \in Pcbs : lw[q].unrecved = 0 => lw'[q].unrecved = 0
    BY <1>9 DEF Minus
  <1>11. NeverConnected /\ ClientFresh => FALSE
    BY <1>2, DeliveryOnce DEF ClientFresh
  <1>a. a = IF RecvReturn /\ c.ack_pcb THEN 1 ELSE 0
    OBVIOUS
  <1> HIDE DEF a
  <1>12. ASSUME c.pcb # NULL PROVE Moves(Units(fr), e, 0, a, a)
    <2>1. fr.p = c.pcb /\ c.pcb \in Pcbs
      BY <1>2, <1>3, <1>12
    <2>2. Carries(stack, c.pcb, Units(fr)) /\ Carries(stack', c.pcb, e)
      BY <1>1, <1>2, <1>7, <2>1 DEF Carries
    <2>3. lw'[c.pcb].unrecved = Minus(lw[c.pcb].unrecved, a) + 0
      <3>1. lw[c.pcb].unrecved \in Nat
        BY <2>1, Numbers
      <3> QED
        BY <1>a, <1>9, <2>1, <3>1 DEF Minus
    <2>4. Units(fr) = IF RecvReturn THEN fr.n + 1 ELSE fr.n
      BY <1>4 DEF Units
    <2>5. c'.rx_ack_len + held' + e + a = c.rx_ack_len + held + Units(fr) + 0
      <3>s. /\ c.rx_ack_len \in Nat /\ held \in Nat /\ held' \in Nat /\ fr.n \in Nat
            /\ e \in Nat /\ held' + e = held + fr.n
        BY <1>1, <1>3, <1>7
      <3>1. CASE RecvReturn /\ c.ack_pcb
        <4>1. c'.rx_ack_len = c.rx_ack_len /\ Units(fr) = fr.n + 1 /\ a = 1
          BY <1>a, <1>3, <1>5, <1>6, <2>4, <3>1
        <4> QED
          BY ONLY <3>s, <4>1
      <3>2. CASE RecvReturn /\ ~c.ack_pcb
        <4>1. c'.rx_ack_len = c.rx_ack_len + 1 /\ Units(fr) = fr.n + 1 /\ a = 0
          BY <1>a, <1>3, <1>5, <1>6, <2>4, <3>2
        <4> QED
          BY ONLY <3>s, <4>1
      <3>3. CASE ~RecvReturn
        <4>1. c'.rx_ack_len = c.rx_ack_len + 0 /\ Units(fr) = fr.n /\ a = 0
          BY <1>a, <1>3, <1>5, <1>6, <2>4, <3>3
        <4> QED
          BY ONLY <3>s, <4>1
      <3> QED
        BY <1>3, <3>1, <3>2, <3>3
    <2> QED
      BY <1>a, <2>2, <2>3, <2>5 DEF Moves
  <1>13. a \in Nat /\ Units(fr) \in Nat /\ 0 \in Nat
    BY <1>a, <1>1 DEF Units
  <1>14. FlagsKept
    BY <1>6 DEF FlagsKept
  <1> HIDE DEF fr
  <1> QED
    BY <1>6, <1>7, <1>9, <1>10, <1>11, <1>12, <1>13, <1>14 DEF Flows

(* A chain arrives.                                                        *)
LEMMA DataArrives ==
    ASSUME TypeOK, Core, NEW p \in Pcbs, NEW n \in 1..MaxChain, NEW fin \in BOOLEAN,
           S_recv(p, n, fin)
    PROVE  Flows
  <1> DEFINE below == IF fin THEN Push("fin", p, 0, <<>>) ELSE <<>>
             k == Push("ret", p, 0, below)
  <1>1. /\ c.tx_unacked_len \in Nat /\ c.rx_ack_len \in Nat /\ held \in Nat
        /\ c \in Clients /\ lw \in LwType /\ lw[p].unrecved \in Nat
        /\ n \in Nat /\ n - 1 \in Nat
    BY Numbers, SizeAssumption
  <1>2. p = c.pcb /\ lw[p].st \notin Unconnected /\ c.pcb # NULL
    BY CallableIsOwned, PcbAssumption DEF S_recv, Callbacks, Unconnected
  <1>3. /\ c'.pcb = c.pcb /\ c'.tx_unacked_len = c.tx_unacked_len
        /\ c'.rx_ack_len = c.rx_ack_len /\ c'.close_pcb = c.close_pcb
        /\ c'.pcb_busy = c.pcb_busy
    BY <1>1 DEF S_recv, Clients
  <1>4. /\ lw'[p].unacked = lw[p].unacked /\ lw'[p].unrecved = lw[p].unrecved + n
        /\ \A q \in Pcbs \ {p} : lw'[q] = lw[q]
    BY <1>1 DEF S_recv, LwType, PcbRecords
  <1>5. k \in Seq(Frames) /\ NoData(k) /\ NoData(stack) /\ stack = <<>>
    <2>1. NoData(<<>>) /\ stack = <<>> /\ <<>> \in Seq(Frames)
      BY EmptyStack DEF NoData, S_recv, Idle
    <2>2. SameDelivery(<<>>, Push("ret", p, 0, <<>>)) /\ Push("ret", p, 0, <<>>) \in Seq(Frames)
      BY <2>1, BesideAll, BesideKinds
    <2>3. /\ SameDelivery(<<>>, Push("ret", p, 0, Push("fin", p, 0, <<>>)))
          /\ Push("ret", p, 0, Push("fin", p, 0, <<>>)) \in Seq(Frames)
      BY <2>1, BesideAll, BesideKinds
    <2> QED
      BY <2>1, <2>2, <2>3 DEF SameDelivery
  <1>6. Deliver(p, n - 1, k)
    BY DEF S_recv
  <1> HIDE DEF k
  <1>7. PICK fr \in Frames : /\ Delivering(stack', fr) /\ fr.p = p
                             /\ held' + Units(fr) = held + (n - 1) + 1 /\ Units(fr) \in Nat
    BY <1>1, <1>5, <1>6, DeliverUnits
  <1>8. held' \in Nat
    BY <1>1, <1>5, <1>6, DeliverType
  <1>9. DeliveryOwned'
    BY <1>2, <1>3, <1>7 DEF DeliveryOwned
  <1>10. Carries(stack, c.pcb, 0) /\ Carries(stack', c.pcb, Units(fr))
    BY <1>2, <1>5, <1>7 DEF Carries
  <1>11. c'.rx_ack_len + held' + Units(fr) + 0 = c.rx_ack_len + held + 0 + n
    <2> DEFINE z == Units(fr)
    <2>1. z \in Nat /\ held' + z = held + (n - 1) + 1
      BY <1>7
    <2> HIDE DEF z
    <2>2. c'.rx_ack_len + held' + z + 0 = c.rx_ack_len + held + 0 + n
      BY ONLY <1>1, <1>3, <1>8, <2>1
    <2> QED
      BY <2>2 DEF z
  <1>12. lw'[c.pcb].unrecved = Minus(lw[c.pcb].unrecved, 0) + n
    BY <1>1, <1>2, <1>4 DEF Minus
  <1>13. Moves(0, Units(fr), n, 0, 0)
    BY <1>10, <1>11, <1>12 DEF Moves
  <1>14. ~NeverConnected
    BY <1>2 DEF NeverConnected
  <1> QED
    BY <1>1, <1>2, <1>3, <1>4, <1>7, <1>9, <1>13, <1>14 DEF Flows, FlagsKept

(* The application gives units back: n to lwIP, a of them off the books.   *)
LEMMA GivenBack ==
    ASSUME TypeOK, Core, DeliveryOwned, c.pcb # NULL, NEW n \in Nat, NEW a \in Nat, a <= n,
           lw' = tcp_recved(lw, c.pcb, n), stack' = stack,
           c'.pcb = c.pcb, c'.tx_unacked_len = c.tx_unacked_len, FlagsKept,
           c'.rx_ack_len \in Nat, held' \in Nat,
           c'.rx_ack_len + held' + a = c.rx_ack_len + held,
           n = a \/ c'.close_pcb
    PROVE  Flows
  <1>1. /\ c.rx_ack_len \in Nat /\ held \in Nat /\ c.pcb \in Pcbs /\ lw \in LwType
        /\ lw[c.pcb].unrecved \in Nat
    BY Numbers
  <1>2. \A q \in Pcbs :
             /\ lw'[q].unacked = lw[q].unacked
             /\ q # c.pcb => lw'[q].unrecved = lw[q].unrecved
             /\ q = c.pcb => lw'[q].unrecved = Minus(lw[q].unrecved, n)
    BY <1>1, RecvedNumbers
  <1> DEFINE d == InDelivery(c.pcb)
  <1>3. Carries(stack, c.pcb, d) /\ d \in Nat
    BY OwnDelivery
  <1> HIDE DEF d
  <1>4. c'.rx_ack_len + held' + d + a = c.rx_ack_len + held + d + 0
    BY <1>1, <1>3
  <1>5. lw'[c.pcb].unrecved = Minus(lw[c.pcb].unrecved, n) + 0
    BY <1>1, <1>2 DEF Minus
  <1>6. Moves(d, d, 0, a, n)
    BY <1>3, <1>4, <1>5 DEF Moves
  <1>7. DeliveryOwned'
    BY DEF DeliveryOwned
  <1>8. NeverConnected => FALSE
    BY <1>1 DEF NeverConnected, Unconnected, Core, PcbUsable
  <1> QED
    BY <1>2, <1>3, <1>6, <1>7, <1>8 DEF Flows

(* add() and write().                                                      *)
LEMMA DataQueued ==
    ASSUME TypeOK, NEW n \in 1..SndBuf, Add(n) \/ Write(n)
    PROVE  Queues(Fits(n)) /\ Fits(n) \in Nat
  <1>1. /\ c \in Clients /\ lw \in LwType /\ c.pcb \in Pcbs \cup {NULL} /\ n \in Nat /\ n > 0
        /\ stack \in Seq(Frames)
    BY Numbers, SizeAssumption
  <1>2. space > 0 /\ connected
    BY DEF Add, Write, space
  <1>3. c.pcb \in Pcbs
    BY <1>1, <1>2 DEF connected
  <1>4. space \in Nat
    BY <1>2, <1>3, Numbers, SizeAssumption DEF space
  <1>5. Fits(n) \in Nat /\ Fits(n) > 0
    BY <1>1, <1>2, <1>4 DEF Fits
  <1>6. /\ c' \in {Counted(n), Sent(Counted(n))} /\ lw' = Queued(n)
        /\ stack' = stack /\ held' = held
    BY DEF Add, Write
  <1>7. /\ c'.pcb = c.pcb /\ c'.close_pcb = c.close_pcb /\ c'.rx_ack_len = c.rx_ack_len
        /\ c'.tx_unacked_len = c.tx_unacked_len + Fits(n)
    BY <1>1, <1>6 DEF Counted, Sent, Clients
  <1>8. /\ lw'[c.pcb].unacked = lw[c.pcb].unacked + Fits(n)
        /\ lw'[c.pcb].unrecved = lw[c.pcb].unrecved
        /\ \A q \in Pcbs \ {c.pcb} : lw'[q] = lw[q]
    BY <1>1, <1>3, <1>6 DEF Queued, LwType, PcbRecords
  <1>9. SameDelivery(stack, stack')
    BY <1>1, <1>6, BesideAll
  <1> QED
    BY <1>3, <1>5, <1>6, <1>7, <1>8, <1>9, PcbAssumption DEF Queues, SameNumbers

(* _sent().                                                                *)
LEMMA DataConfirmed ==
    ASSUME TypeOK, Core, NEW p \in Pcbs, NEW len \in 1..SndBuf, S_sent(p, len)
    PROVE  Confirms(len) /\ len \in Nat
  <1>1. /\ c \in Clients /\ lw \in LwType /\ len \in Nat
    BY Numbers, SizeAssumption
  <1>2. p = c.pcb /\ c.pcb # NULL
    BY CallableIsOwned, PcbAssumption DEF S_sent, Callbacks
  <1>3. /\ c'.pcb = c.pcb /\ c'.close_pcb = c.close_pcb /\ c'.rx_ack_len = c.rx_ack_len
        /\ c'.tx_unacked_len = Unacked(len) /\ c'.pcb_busy = StillBusy(len) /\ held' = held
    BY <1>1 DEF S_sent, Clients
  <1>4. /\ len <= lw[p].unacked /\ lw'[p].unacked = lw[p].unacked - len
        /\ lw'[p].unrecved = lw[p].unrecved
        /\ \A q \in Pcbs \ {p} : lw'[q] = lw[q]
    BY <1>1 DEF S_sent, LwType, PcbRecords
  <1>5. SameDelivery(stack, stack')
    <2>1. stack = <<>> /\ <<>> \in Seq(Frames)
          /\ stack' \in {Push("ret", p, 0, <<>>), Push("sent_cb", p, 0, Push("ret", p, 0, <<>>))}
      BY EmptyStack DEF S_sent, Idle
    <2> QED
      BY <2>1, BesideAll, BesideKinds, ZenonT(40)
  <1> QED
    BY <1>1, <1>2, <1>3, <1>4, <1>5 DEF Confirms, SameNumbers

(* A step that moves nothing and keeps _pcb.                               *)
LEMMA StillRests ==
    ASSUME TypeOK, Core, c'.pcb = c.pcb, FlagsKept, SameCounts, SameDelivery(stack, stack'),
           \A q \in Pcbs : SameNumbers(q) \/ (ZeroNumbers(q) /\ lw[q].st = "unused")
    PROVE  Rests
  <1>1. ASSUME NEW q \in Pcbs, lw[q].st = "unused" PROVE q # c'.pcb
    BY <1>1, PcbAssumption DEF Core, PcbUsable
  <1> QED
    BY <1>1 DEF Rests

(* Every action of the client is of one of these kinds.                    *)
LEMMA EveryStepHasALedgerKind ==
    ASSUME TypeOK, Core, DeliveryOwned, Next
    PROVE  LedgerKind
  <1> USE PcbAssumption
  <1>l. /\ lw \in LwType /\ c \in Clients /\ stack \in Seq(Frames) /\ held \in Nat
        /\ c.pcb \in Pcbs \cup {NULL} /\ c.rx_ack_len \in Nat
    BY Numbers
  <1>e. <<>> \in Seq(Frames) /\ NoData(<<>>)
    BY EmptyStack DEF NoData
  <1>s. /\ SameDelivery(stack, stack)
        /\ \A p \in Pcbs \cup {NULL} : SameDelivery(<<>>, Push("ret", p, 0, <<>>))
                                       /\ Push("ret", p, 0, <<>>) \in Seq(Frames)
    BY <1>l, <1>e, BesideAll, BesideKinds
  <1>n. ASSUME lw' = lw PROVE \A q \in Pcbs : SameNumbers(q)
    BY <1>n DEF SameNumbers
  <1>t. ASSUME stack # <<>>
        PROVE  /\ Tail(stack) \in Seq(Frames) /\ Head(stack).p \in Pcbs \cup {NULL}
               /\ Head(stack).f \notin DataCbs => SameDelivery(stack, Tail(stack))
    <2>1. Head(stack) \in Frames /\ Tail(stack) \in Seq(Frames)
      BY <1>l, <1>t, PopFrame
    <2> QED
      BY <1>l, <1>t, <2>1, PopData DEF Frames
  <1>1. ASSUME NEW p \in Pcbs, S_connected(p) PROVE Opens(p)
    <2>1. /\ c'.pcb = p /\ c'.pcb_busy = FALSE /\ c'.tx_unacked_len = c.tx_unacked_len
          /\ c'.rx_ack_len = c.rx_ack_len /\ held' = held
      BY <1>1, <1>l DEF S_connected, Clients
    <2>2. \A q \in Pcbs : SameNumbers(q)
      BY <1>1, <1>l DEF S_connected, LwType, PcbRecords, SameNumbers
    <2>3. /\ lw[p].st = "SYN_SENT" /\ stack = <<>>
          /\ stack' = Push("connect_cb", p, 0, Push("ret", p, 0, <<>>))
      BY <1>1 DEF S_connected, Idle
    <2>4. NoData(stack')
      <3>1. SameDelivery(<<>>, stack')
        BY <1>e, <2>3, BesideAll, BesideKinds
      <3> QED
        BY <1>e, <3>1 DEF SameDelivery
    <2> QED
      BY <2>1, <2>2, <2>3, <2>4 DEF Opens, SameCounts
  <1>2. ASSUME NEW p \in Pcbs, S_failed(p) PROVE Rests
    <2>1. PICK event : Error_(c, Errored(et, "ERR_RST", event), Release(lw, p, "detached"), p,
                              Push("ret", p, 0, <<>>))
      BY <1>2 DEF S_failed
    <2>2. stack = <<>> /\ held' = held
      BY <1>2 DEF S_failed, Idle
    <2> QED
      BY <1>s, <2>1, <2>2, ErrorRests
  <1>3. ASSUME NEW p \in Pcbs, S_recv_fin(p) PROVE Rests
    <2> DEFINE l0 == [lw EXCEPT ![p].st = "CLOSE_WAIT"]
    <2>1. l0 \in LwType
      BY <1>l, PcbOperators DEF Open
    <2>2. \A q \in Pcbs : l0[q].unacked = lw[q].unacked /\ l0[q].unrecved = lw[q].unrecved
      BY <1>l DEF LwType, PcbRecords
    <2>3. Close_(c, et, l0, Push("ret", p, 0, <<>>)) /\ held' = held /\ stack = <<>>
      BY <1>3 DEF S_recv_fin, Idle
    <2> HIDE DEF l0
    <2> QED
      BY <1>l, <1>s, <2>1, <2>2, <2>3, CloseRests
  <1>4. ASSUME NEW p \in Pcbs, S_poll(p) PROVE Rests
    <2> DEFINE l0 == [lw EXCEPT ![p].due = FALSE]
               c1 == [c EXCEPT !.close_pcb = FALSE]
               c2 == [c EXCEPT !.pcb_busy = FALSE]
               k == Push("ret", p, 0, <<>>)
    <2>1. l0 \in LwType
      BY <1>l, PcbOperators
    <2>2. \A q \in Pcbs : l0[q].unacked = lw[q].unacked /\ l0[q].unrecved = lw[q].unrecved
      BY <1>l DEF LwType, PcbRecords
    <2>3. /\ c1 \in Clients /\ c1.pcb = c.pcb /\ c1.tx_unacked_len = c.tx_unacked_len
          /\ c1.rx_ack_len = c.rx_ack_len
          /\ c2.pcb = c.pcb /\ c2.tx_unacked_len = c.tx_unacked_len
          /\ c2.rx_ack_len = c.rx_ack_len /\ c2.close_pcb = c.close_pcb /\ c2.pcb_busy = FALSE
      BY <1>l DEF Clients
    <2>4. PICK e :
            \/ Close_(c1, e, l0, k)
            \/ Close_(c, e, l0, k)
            \/ /\ c' \in {c, c2} /\ lw' = l0
               /\ stack' \in {Push("timeout_cb", p, 0, k), Push("poll_cb", p, 0, k)}
      BY <1>4 DEF S_poll, Poll_
    <2>5. stack = <<>> /\ held' = held
      BY <1>4 DEF S_poll, Idle
    <2>6. SameDelivery(stack, k) /\ k \in Seq(Frames)
      BY <1>s, <2>5
    <2>7. /\ SameDelivery(<<>>, Push("timeout_cb", p, 0, k))
          /\ SameDelivery(<<>>, Push("poll_cb", p, 0, k))
      BY <1>e, BesideAll, BesideKinds
    <2> HIDE DEF l0, c1, c2, k
    <2>8. CASE Close_(c1, e, l0, k)
      BY <2>1, <2>2, <2>3, <2>5, <2>6, <2>8, CloseRests
    <2>9. CASE Close_(c, e, l0, k)
      BY <1>l, <2>1, <2>2, <2>5, <2>6, <2>9, CloseRests
    <2>10. CASE /\ c' \in {c, c2} /\ lw' = l0
                /\ stack' \in {Push("timeout_cb", p, 0, k), Push("poll_cb", p, 0, k)}
      <3>1. SameDelivery(stack, stack')
        BY <2>5, <2>7, <2>10
      <3>2. SameCounts /\ FlagsKept /\ c'.pcb = c.pcb
        BY <2>3, <2>5, <2>10 DEF SameCounts, FlagsKept
      <3>3. \A q \in Pcbs : SameNumbers(q)
        BY <2>2, <2>10 DEF SameNumbers
      <3> QED
        BY <3>1, <3>2, <3>3, StillRests
    <2> QED
      BY <2>4, <2>8, <2>9, <2>10
  <1>5. ASSUME NEW p \in Pcbs, NEW err, S_error(p, err) PROVE Rests
    <2>1. /\ Error_(c, Errored(et, err, "EE_ERROR_CB"), Release(lw, p, "freed"), p, <<>>)
          /\ stack = <<>> /\ held' = held
      BY <1>5 DEF S_error, Idle
    <2> QED
      BY <1>e, <1>s, <2>1, ErrorRests
  <1>c. ASSUME Connect_ \/ lw' = lw, c' = c, held' = held, SameDelivery(stack, stack')
        PROVE  Rests
    <2>1. \A q \in Pcbs : SameNumbers(q) \/ (ZeroNumbers(q) /\ lw[q].st = "unused")
      BY <1>c, <1>l, <1>n, ConnectNumbers
    <2>2. SameCounts /\ FlagsKept
      BY <1>c DEF SameCounts, FlagsKept
    <2> QED
      BY <1>c, <2>1, <2>2, StillRests
  <1>6. CASE S_dns_found
    <2>1. SameDelivery(stack, stack')
      <3>1. SameDelivery(<<>>, Push("error_cb", NULL, 0, <<>>))
        BY <1>e, BesideAll, BesideKinds
      <3> QED
        BY <1>6, <1>s, <3>1 DEF S_dns_found, Idle
    <2>2. c' = c /\ held' = held /\ (Connect_ \/ lw' = lw)
      BY <1>6 DEF S_dns_found
    <2> QED
      BY <1>c, <2>1, <2>2 DEF LedgerKind
  <1>7. CASE Connect \/ ConnectHost
    BY <1>7, <1>c, <1>s DEF Connect, ConnectHost, LedgerKind
  <1>k. ASSUME c'.pcb = c.pcb, SameCounts, FlagsKept, \A q \in Pcbs : SameNumbers(q),
               SameDelivery(stack, stack')
        PROVE  LedgerKind
    BY <1>k, StillRests DEF LedgerKind
  <1>8. CASE Tick
    <2>1. c'.pcb = c.pcb /\ SameCounts /\ FlagsKept
      BY <1>8, <1>l DEF Tick, Clients, SameCounts, FlagsKept
    <2>2. \A q \in Pcbs : SameNumbers(q)
      BY <1>8, <1>l DEF Tick, LwType, PcbRecords, SameNumbers
    <2> QED
      BY <1>8, <1>k, <1>s, <2>1, <2>2 DEF Tick
  <1>9. CASE UserReturn \/ ReturnToStack
    <2>1. stack # <<>> /\ Head(stack).f \notin DataCbs /\ stack' = Tail(stack)
      BY <1>9 DEF UserReturn, ReturnToStack, Top, DataCbs
    <2>2. c' = c /\ lw' = lw /\ held' = held
      BY <1>9 DEF UserReturn, ReturnToStack
    <2> QED
      BY <1>k, <1>n, <1>t, <2>1, <2>2 DEF SameCounts, FlagsKept
  <1>10. CASE SentReturn \/ DtorReturn
    <2>1. stack # <<>> /\ Head(stack).f \notin DataCbs /\ stack' = Tail(stack)
      BY <1>10 DEF SentReturn, DtorReturn, Top, DataCbs
    <2>2. c'.pcb = c.pcb /\ SameCounts /\ FlagsKept /\ lw' = lw
      BY <1>10, <1>l DEF SentReturn, DtorReturn, Clients, SameCounts, FlagsKept
    <2> QED
      BY <1>k, <1>n, <1>t, <2>1, <2>2
  <1>11. CASE AbortReturn
    <2>1. stack # <<>> /\ Head(stack).f \notin DataCbs /\ stack' = Tail(stack)
      BY <1>11 DEF AbortReturn, Top, DataCbs
    <2>2. c'.pcb = NULL /\ SameCounts /\ lw' = lw
      BY <1>11, <1>l DEF AbortReturn, ForgetPcb, Clients, SameCounts
    <2> QED
      BY <1>n, <1>t, <2>1, <2>2 DEF Rests, LedgerKind
  <1>12. CASE ErrorReturn
    <2>1. stack # <<>> /\ Head(stack).f \notin DataCbs /\ c' = c /\ held' = held
          /\ Discard(lw, Head(stack).p, Tail(stack))
      BY <1>12 DEF ErrorReturn, Top, DataCbs
    <2>2. stack' = Push("discard_cb", Head(stack).p, 0, Tail(stack))
      BY <2>1 DEF Discard
    <2>3. SameDelivery(stack, stack')
      <3>1. SameDelivery(Tail(stack), stack')
        BY <1>t, <2>1, <2>2, BesideAll, BesideKinds
      <3> QED
        BY <1>t, <2>1, <3>1, SameTwice
    <2>4. \A q \in Pcbs : SameNumbers(q)
      BY <1>l, <2>1 DEF Discard, LwType, PcbRecords, SameNumbers
    <2> QED
      BY <1>k, <2>1, <2>3, <2>4 DEF SameCounts, FlagsKept
  <1>13. CASE FinAfterData
    <2> DEFINE k == Push("ret", Head(stack).p, 0, Tail(stack))
    <2>1. /\ stack # <<>> /\ Head(stack).f \notin DataCbs /\ held' = held
          /\ \/ Close_(c, et, lw, k)
             \/ stack' = Tail(stack) /\ c' = c /\ lw' = lw
      BY <1>13 DEF FinAfterData, DataCbs
    <2>2. k \in Seq(Frames) /\ SameDelivery(stack, k)
      <3>1. SameDelivery(Tail(stack), k) /\ k \in Seq(Frames)
        BY <1>t, <2>1, BesideAll, BesideKinds
      <3> HIDE DEF k
      <3> QED
        BY <1>t, <2>1, <3>1, SameTwice
    <2> HIDE DEF k
    <2>3. CASE Close_(c, et, lw, k)
      BY <1>l, <2>1, <2>2, <2>3, CloseRests DEF LedgerKind
    <2>4. CASE stack' = Tail(stack) /\ c' = c /\ lw' = lw
      BY <1>k, <1>n, <1>t, <2>1, <2>4 DEF SameCounts, FlagsKept
    <2> QED
      BY <2>1, <2>3, <2>4
  <1>r. /\ Reopened \in LwType
        /\ \A q \in Pcbs : q # c.pcb => /\ Reopened[q].unacked = lw[q].unacked
                                         /\ Reopened[q].unrecved = lw[q].unrecved
    <2>1. CASE c.pcb = NULL
      BY <1>l, <2>1 DEF Reopened
    <2>2. CASE c.pcb # NULL
      <3>1. Reopened = tcp_recved(lw, c.pcb, c.rx_ack_len)
        BY <2>2 DEF Reopened
      <3>2. Reopened \in LwType
        BY <1>l, <3>1, PcbOperators
      <3> QED
        BY <1>l, <3>1, <3>2, RecvedNumbers
    <2> QED
      BY <2>1, <2>2
  <1>14. CASE CloseNow
    BY <1>14, <1>l, <1>r, <1>s, CloseRests DEF CloseNow, LedgerKind
  <1>15. CASE Delete
    <2>1. /\ Push("dtor", NULL, 0, stack) \in Seq(Frames)
          /\ SameDelivery(stack, Push("dtor", NULL, 0, stack))
      BY <1>l, BesideAll, BesideKinds
    <2> QED
      BY <1>15, <1>l, <2>1, CloseRests DEF Delete, LedgerKind
  <1>16. CASE Abort
    <2>1. c.pcb \in Pcbs
      BY <1>16, <1>l DEF Abort
    <2>2. /\ Push("abort", c.pcb, 0, stack) \in Seq(Frames)
          /\ SameDelivery(stack, Push("abort", c.pcb, 0, stack))
      BY <1>l, BesideAll, BesideKinds
    <2> QED
      BY <1>16, <2>1, <2>2, ErrorRests DEF Abort, LedgerKind
  <1>17. CASE CloseLater
    <2>1. /\ c'.pcb = c.pcb /\ c'.tx_unacked_len = c.tx_unacked_len /\ held' = held
          /\ c'.rx_ack_len = c.rx_ack_len /\ c'.close_pcb = TRUE /\ c'.pcb_busy = c.pcb_busy
          /\ stack' = stack /\ lw' = Reopened
      BY <1>17, <1>l DEF CloseLater, Clients
    <2>2. FlagsKept
      BY <2>1 DEF FlagsKept
    <2>3. CASE c.pcb = NULL
      BY <1>k, <1>n, <1>s, <2>1, <2>2, <2>3 DEF Reopened, SameCounts
    <2>4. CASE c.pcb # NULL
      <3>1. lw' = tcp_recved(lw, c.pcb, c.rx_ack_len)
        BY <2>1, <2>4 DEF Reopened
      <3>2. c'.rx_ack_len + held' + 0 = c.rx_ack_len + held /\ 0 <= c.rx_ack_len
        BY <1>l, <2>1
      <3>3. c'.rx_ack_len \in Nat /\ held' \in Nat
        BY <1>l, <2>1
      <3>4. Flows
        BY <1>l, <2>1, <2>2, <2>4, <3>1, <3>2, <3>3, GivenBack
      <3> QED
        BY <3>4 DEF LedgerKind
    <2> QED
      BY <2>3, <2>4
  <1>18. ASSUME NEW len \in 1..RxBound, Ack(len) PROVE LedgerKind
    <2>0. len \in Nat /\ c.pcb # NULL /\ len <= c.rx_ack_len
      BY <1>18, SizeAssumption DEF Ack
    <2>1. /\ c'.pcb = c.pcb /\ c'.tx_unacked_len = c.tx_unacked_len /\ held' = held
          /\ c'.rx_ack_len = c.rx_ack_len - len /\ c'.close_pcb = c.close_pcb
          /\ c'.pcb_busy = c.pcb_busy
          /\ stack' = stack /\ lw' = tcp_recved(lw, c.pcb, len)
      BY <1>18, <1>l DEF Ack, Clients
    <2>2. FlagsKept
      BY <2>1 DEF FlagsKept
    <2>3. /\ c'.rx_ack_len + held' + len = c.rx_ack_len + held
          /\ c'.rx_ack_len \in Nat /\ held' \in Nat /\ len <= len
      BY <1>l, <2>0, <2>1
    <2>4. Flows
      BY <2>0, <2>1, <2>2, <2>3, GivenBack
    <2> QED
      BY <2>4 DEF LedgerKind
  <1>19. CASE AckPacket
    <2>1. /\ c' = c /\ held' = held - 1 /\ held > 0 /\ c.pcb # NULL
          /\ stack' = stack /\ lw' = tcp_recved(lw, c.pcb, 1)
      BY <1>19 DEF AckPacket
    <2>2. FlagsKept
      BY <2>1 DEF FlagsKept
    <2>3. /\ c'.rx_ack_len + held' + 1 = c.rx_ack_len + held
          /\ c'.rx_ack_len \in Nat /\ held' \in Nat /\ 1 <= 1 /\ 1 \in Nat
      BY <1>l, <2>1
    <2>4. Flows
      BY <2>1, <2>2, <2>3, GivenBack
    <2> QED
      BY <2>4 DEF LedgerKind
  <1>20. CASE Send
    <2>1. c'.pcb = c.pcb /\ SameCounts /\ lw' = lw /\ stack' = stack
          /\ c'.close_pcb = c.close_pcb
      BY <1>20, <1>l DEF Send, Sent, Clients, SameCounts
    <2> QED
      BY <1>20, <1>k, <1>n, <1>s, <2>1 DEF FlagsKept
  <1>21. CASE AckLater
    <2>1. c'.pcb = c.pcb /\ SameCounts /\ FlagsKept /\ lw' = lw /\ stack' = stack
      BY <1>21, <1>l DEF AckLater, Clients, SameCounts, FlagsKept
    <2> QED
      BY <1>k, <1>n, <1>s, <2>1
  <1>22. CASE RecvReturn \/ PacketReturn
    BY <1>22, DataReturned DEF LedgerKind
  <1>23. CASE Stack
    BY <1>23, <1>1, <1>2, <1>3, <1>4, <1>5, <1>6, <1>8, DataArrives, DataConfirmed
       DEF Stack, LedgerKind
  <1>24. CASE Return
    BY <1>24, <1>9, <1>10, <1>11, <1>12, <1>13, <1>22 DEF Return
  <1>25. CASE Call
    BY <1>25, <1>7, <1>14, <1>15, <1>16, <1>17, <1>18, <1>19, <1>20, <1>21, DataQueued
       DEF Call, LedgerKind
  <1> QED
    BY <1>23, <1>24, <1>25 DEF Next

-----------------------------------------------------------------------------
(* The ledgers are kept from the first state on.                           *)
LEMMA LedgerInit == Init => LedgerInv
  <1> SUFFICES ASSUME Init PROVE LedgerInv
    OBVIOUS
  <1>1. OwnershipInv /\ stack = <<>> /\ held = 0
    BY OwnershipInit DEF Init
  <1>2. /\ c.tx_unacked_len = 0 /\ c.rx_ack_len = 0
        /\ \A p \in Pcbs : lw[p].unacked = 0 /\ lw[p].unrecved = 0
    BY DEF Init, NewClient, NewPcb
  <1>3. NoData(stack)
    BY <1>1, EmptyStack DEF NoData
  <1>4. c.pcb \in Pcbs \cup {NULL}
    BY <1>1 DEF OwnershipInv, TypeOK, Clients
  <1>5. InDelivery(c.pcb) = 0
    BY <1>3, DeliveryIs DEF InStack, NoData
  <1>6. DeliveryOwned /\ PcbsFresh /\ ClientFresh
    BY <1>1, <1>2, <1>3 DEF DeliveryOwned, PcbsFresh, ClientFresh
  <1>7. WindowReturned /\ WindowExact /\ TxLedger
    BY <1>1, <1>2, <1>4, <1>5 DEF WindowReturned, WindowExact, TxLedger
  <1> QED
    BY <1>1, <1>6, <1>7 DEF LedgerInv

(* They are kept by every step.                                            *)
LEMMA LedgerNext ==
    ASSUME Overlap = FALSE, LedgerInv, Next
    PROVE  LedgerInv' /\ StepKind /\ LedgerKind /\ OwnershipInv'
  <1>1. OwnershipInv /\ DeliveryOwned
    BY DEF LedgerInv
  <1>2. StepKind
    BY <1>1, EveryStepHasAKind DEF OwnershipInv
  <1>3. LedgerKind
    BY <1>1, EveryStepHasALedgerKind DEF OwnershipInv
  <1>4. OwnershipInv'
    BY <1>1, OwnershipStep
  <1> QED
    BY <1>2, <1>3, <1>4, RestsKeeps, OpensKeeps, FlowsKeeps, SendingKeeps DEF LedgerKind

(* The ledger is inductive.                                                *)
LEMMA LedgerStep ==
    ASSUME Overlap = FALSE
    PROVE  LedgerInv /\ [Next]_vars => LedgerInv'
  <1>1. ASSUME LedgerInv, UNCHANGED vars PROVE LedgerInv'
    <2>1. OwnershipInv'
      BY <1>1, OwnershipStep DEF LedgerInv
    <2>2. c' = c /\ lw' = lw /\ stack' = stack /\ held' = held
      BY <1>1 DEF vars
    <2>3. DeliveryOwned' /\ PcbsFresh' /\ ClientFresh'
      BY <1>1, <2>2 DEF LedgerInv, DeliveryOwned, PcbsFresh, ClientFresh, NeverConnected
    <2>4. WindowReturned' /\ WindowExact' /\ TxLedger'
      BY <1>1, <2>2 DEF LedgerInv, WindowReturned, WindowExact, TxLedger, FirstUse, InDelivery
    <2> QED
      BY <2>1, <2>3, <2>4 DEF LedgerInv
  <1> QED
    BY <1>1, LedgerNext

(* The receive window comes back on every connection of an object: what    *)
(* lwIP still counts as unconsumed has not been given back by _recv(), by  *)
(* ack() or by ackPacket() yet, so nothing is left that nobody will return.*)
(* Handlers may call ackLater(), ack(), close() or connect() in the middle *)
(* of the delivery.                                                        *)
THEOREM WindowComesBack ==
    ASSUME Overlap = FALSE
    PROVE  Spec => []WindowReturned
  <1>1. LedgerInv => WindowReturned
    BY DEF LedgerInv
  <1> QED
    BY <1>1, LedgerInit, LedgerStep, PTL DEF Spec

(* On an object's first connection, until close(), the window is given     *)
(* back exactly: no unit that the application still holds, or has been     *)
(* given and not acknowledged, is acknowledged for it.                     *)
THEOREM WindowNeverTwice ==
    ASSUME Overlap = FALSE
    PROVE  Spec => []WindowExact
  <1>1. LedgerInv => WindowExact
    BY DEF LedgerInv
  <1> QED
    BY <1>1, LedgerInit, LedgerStep, PTL DEF Spec

(* On an object's first connection _tx_unacked_len is what lwIP has queued *)
(* and unacknowledged, whatever add(), write() and _sent() interleave.     *)
THEOREM SentLedger ==
    ASSUME Overlap = FALSE
    PROVE  Spec => []TxLedger
  <1>1. LedgerInv => TxLedger
    BY DEF LedgerInv
  <1> QED
    BY <1>1, LedgerInit, LedgerStep, PTL DEF Spec

-----------------------------------------------------------------------------
(* With write() alone a busy client waits for an acknowledgement.          *)
BusyWaits == FirstUse /\ c.pcb # NULL /\ c.pcb_busy => lw[c.pcb].unacked > 0

(* Every step keeps it: send() is the only call that marks a client busy   *)
(* with nothing sent.                                                      *)
LEMMA BusyNext ==
    ASSUME Overlap = FALSE, \A ctx : <<"send", ctx>> \notin App, LedgerInv, BusyWaits, Next
    PROVE  BusyWaits'
  <1> SUFFICES ASSUME FirstUse', c'.pcb # NULL, c'.pcb_busy PROVE lw'[c'.pcb].unacked > 0
    BY DEF BusyWaits
  <1>1. StepKind /\ LedgerKind /\ OwnershipInv'
    BY LedgerNext
  <1>2. ~Send
    BY DEF Send, MayCall
  <1>3. /\ TypeOK /\ TxLedger /\ FirstUse /\ c'.pcb \in Pcbs
    BY <1>1, StepFacts
  <1>4. /\ c.tx_unacked_len \in Nat /\ \A p \in Pcbs : lw[p].unacked \in Nat
    BY <1>3, Numbers
  <1>5. CASE Rests \/ Flows
    <2>1. c'.pcb = c.pcb /\ FlagsKept
      BY <1>5 DEF Rests, Flows
    <2>2. c.pcb_busy
      BY <1>2, <2>1 DEF FlagsKept
    <2>3. lw'[c.pcb].unacked = lw[c.pcb].unacked
      BY <1>3, <1>5, <2>1 DEF Rests, Flows, SameNumbers
    <2>4. lw[c.pcb].unacked > 0
      BY <1>3, <2>1, <2>2 DEF BusyWaits
    <2> QED
      BY <2>1, <2>3, <2>4
  <1>6. ASSUME NEW p \in Pcbs, Opens(p) PROVE FALSE
    BY <1>6 DEF Opens
  <1>7. ASSUME NEW m \in Nat, Queues(m) PROVE lw'[c'.pcb].unacked > 0
    BY <1>3, <1>4, <1>7 DEF Queues
  <1>8. ASSUME NEW m \in Nat, Confirms(m) PROVE lw'[c'.pcb].unacked > 0
    <2>1. /\ c'.pcb = c.pcb /\ c.pcb # NULL /\ StillBusy(m)
          /\ lw'[c.pcb].unacked = lw[c.pcb].unacked - m
      BY <1>8 DEF Confirms
    <2>2. c.tx_unacked_len = lw[c.pcb].unacked
      BY <1>3, <2>1 DEF TxLedger
    <2>3. c.tx_unacked_len > m
      BY <1>4, <2>1 DEF StillBusy, Unacked
    <2> QED
      BY <1>3, <1>4, <2>1, <2>2, <2>3
  <1> QED
    BY <1>1, <1>5, <1>6, <1>7, <1>8 DEF LedgerKind

(* An application that sends with write() and never calls send() itself is *)
(* refused by canSend() on the first connection only while something is    *)
(* unacknowledged, which _sent() will end: _pcb_busy is never left set for *)
(* nothing.                                                                *)
THEOREM BusyForAReason ==
    ASSUME Overlap = FALSE, \A ctx : <<"send", ctx>> \notin App
    PROVE  Spec => []AckPending
  <1>1. Init => BusyWaits
    <2> SUFFICES ASSUME Init PROVE c.pcb_busy = FALSE
      BY DEF BusyWaits
    <2> QED
      BY DEF Init, NewClient
  <1>2. LedgerInv /\ BusyWaits /\ [Next]_vars => BusyWaits'
    <2>1. ASSUME BusyWaits, UNCHANGED vars PROVE BusyWaits'
      BY <2>1 DEF BusyWaits, FirstUse, vars
    <2> QED
      BY <2>1, BusyNext
  <1>3. BusyWaits => AckPending
    BY DEF BusyWaits, AckPending, connected
  <1> QED
    BY <1>1, <1>2, <1>3, LedgerInit, LedgerStep, PTL DEF Spec

-----------------------------------------------------------------------------
(* What callbacks return.  A callback in progress has its "ret" frame at   *)
(* the bottom of the stack, above at most a FIN still to be delivered.     *)

CbFrames == {"ret", "fin"}

Bottomed(k) ==
    \A i \in 1..Len(k) :
        /\ k[i].f = "fin" => i = Len(k)
        /\ k[i].f = "ret" => i = Len(k) \/ (i = Len(k) - 1 /\ k[Len(k)].f = "fin")

AboutOnly(k, U) == \A i \in 1..Len(k) : k[i].f \in CbFrames => k[i].p \in U

Sound(k, U) == Bottomed(k) /\ AboutOnly(k, U)

UsedPcbs == {p \in Pcbs : lw[p].st # "unused"}

(* A handler or a method comes on top.                                     *)
LEMMA SoundPush ==
    ASSUME NEW f \in FrameKinds \ CbFrames, NEW p \in Pcbs \cup {NULL}, NEW n \in Nat,
           NEW k \in Seq(Frames), NEW U, Sound(k, U)
    PROVE  /\ Sound(Push(f, p, n, k), U) /\ Push(f, p, n, k) \in Seq(Frames)
           /\ Occurs(Push(f, p, n, k), "ret") => Occurs(k, "ret")
  <1> DEFINE s == Push(f, p, n, k)
  <1>1. /\ Len(k) \in Nat /\ Len(s) = Len(k) + 1 /\ s[1] = Frame(f, p, n)
        /\ \A i \in 1..Len(k) : s[i + 1] = k[i]
        /\ \A i \in 1..Len(s) : i # 1 => i - 1 \in 1..Len(k) /\ s[i] = k[i - 1]
    BY Pushed
  <1>2. s \in Seq(Frames)
    BY PushFrame
  <1>3. Frame(f, p, n).f = f /\ f \notin CbFrames /\ f # "ret"
    BY DEF Frame, CbFrames
  <1>4. Occurs(s, "ret") => Occurs(k, "ret")
    BY <1>3, OccursPush
  <1> HIDE DEF s
  <1>5. ASSUME NEW i \in 1..Len(s), s[i].f \in CbFrames
        PROVE  i # 1 /\ i - 1 \in 1..Len(k) /\ s[i] = k[i - 1] /\ Len(k) # 0
               /\ s[Len(s)] = k[Len(k)]
    <2>1. i # 1
      BY <1>1, <1>3, <1>5
    <2>2. i - 1 \in 1..Len(k) /\ s[i] = k[i - 1]
      BY <1>1, <2>1
    <2>3. Len(k) # 0 /\ Len(k) \in 1..Len(k)
      BY <1>1, <2>2
    <2> QED
      BY <1>1, <2>1, <2>2, <2>3
  <1>6. Bottomed(s)
    <2> SUFFICES ASSUME NEW i \in 1..Len(s), s[i].f \in CbFrames
                 PROVE  /\ s[i].f = "fin" => i = Len(s)
                        /\ s[i].f = "ret" => i = Len(s) \/ (i = Len(s) - 1 /\ s[Len(s)].f = "fin")
      BY DEF Bottomed, CbFrames
    <2>1. i - 1 \in 1..Len(k) /\ s[i] = k[i - 1] /\ s[Len(s)] = k[Len(k)]
      BY <1>5
    <2>2. /\ k[i - 1].f = "fin" => i - 1 = Len(k)
          /\ k[i - 1].f = "ret" => i - 1 = Len(k) \/ (i - 1 = Len(k) - 1 /\ k[Len(k)].f = "fin")
      BY <2>1 DEF Sound, Bottomed
    <2> QED
      BY <1>1, <2>1, <2>2
  <1>7. AboutOnly(s, U)
    BY <1>5 DEF Sound, AboutOnly
  <1> QED
    BY <1>2, <1>4, <1>6, <1>7 DEF s, Sound

(* The top is gone.                                                        *)
LEMMA SoundPop ==
    ASSUME NEW k \in Seq(Frames), k # <<>>, NEW U, Sound(k, U)
    PROVE  /\ Sound(Tail(k), U) /\ Tail(k) \in Seq(Frames)
           /\ Occurs(Tail(k), "ret") => Occurs(k, "ret")
           /\ Head(k).f = "ret" => ~Occurs(Tail(k), "ret")
           /\ Head(k).f = "fin" => Tail(k) = <<>>
           /\ Head(k).f \in CbFrames => Head(k).p \in U
           /\ Head(k).f = "ret" => Occurs(k, "ret")
  <1> DEFINE t == Tail(k)
  <1>1. /\ Head(k) = k[1] /\ Len(k) \in Nat /\ Len(k) # 0 /\ Len(t) = Len(k) - 1
        /\ \A i \in 1..Len(t) : i + 1 \in 1..Len(k) /\ t[i] = k[i + 1]
        /\ t \in Seq(Frames)
    BY PopFrame
  <1>2. Occurs(t, "ret") => Occurs(k, "ret")
    BY OccursTail
  <1> HIDE DEF t
  <1>3. Len(t) = 0 => t = <<>>
    BY <1>1
  <1>4. 1 \in 1..Len(k)
    BY <1>1
  <1>5. Bottomed(k) /\ AboutOnly(k, U)
    BY DEF Sound
  <1>6. Bottomed(t)
    <2> SUFFICES ASSUME NEW i \in 1..Len(t)
                 PROVE  /\ t[i].f = "fin" => i = Len(t)
                        /\ t[i].f = "ret" => i = Len(t) \/ (i = Len(t) - 1 /\ t[Len(t)].f = "fin")
      BY DEF Bottomed
    <2>1. i + 1 \in 1..Len(k) /\ t[i] = k[i + 1] /\ Len(t) \in 1..Len(t)
      BY <1>1
    <2>2. t[Len(t)] = k[Len(k)]
      BY <1>1, <2>1
    <2>3. /\ k[i + 1].f = "fin" => i + 1 = Len(k)
          /\ k[i + 1].f = "ret" => i + 1 = Len(k) \/ (i + 1 = Len(k) - 1 /\ k[Len(k)].f = "fin")
      BY <1>5, <2>1 DEF Bottomed
    <2> QED
      BY <1>1, <2>1, <2>2, <2>3
  <1>7. AboutOnly(t, U)
    BY <1>1, <1>5 DEF AboutOnly
  <1>8. ASSUME Head(k).f = "ret" PROVE ~Occurs(t, "ret")
    <2> SUFFICES ASSUME NEW i \in 1..Len(t), t[i].f = "ret" PROVE FALSE
      BY DEF Occurs
    <2>1. i + 1 \in 1..Len(k) /\ k[i + 1].f = "ret"
      BY <1>1
    <2>2. i + 1 = Len(k) \/ (i + 1 = Len(k) - 1 /\ k[Len(k)].f = "fin")
      BY <1>5, <2>1 DEF Bottomed
    <2>3. 1 = Len(k) \/ (1 = Len(k) - 1 /\ k[Len(k)].f = "fin")
      BY <1>1, <1>4, <1>5, <1>8 DEF Bottomed
    <2> QED
      BY <1>1, <2>1, <2>2, <2>3
  <1>9. Head(k).f = "fin" => t = <<>>
    BY <1>1, <1>3, <1>4, <1>5 DEF Bottomed
  <1>10. Head(k).f \in CbFrames => Head(k).p \in U
    BY <1>1, <1>4, <1>5 DEF AboutOnly
  <1>11. Head(k).f = "ret" => Occurs(k, "ret")
    BY <1>1, <1>4 DEF Occurs
  <1> QED
    BY <1>1, <1>2, <1>6, <1>7, <1>8, <1>9, <1>10, <1>11 DEF t, Sound

(* lwIP calls in on the empty stack.                                       *)
LEMMA SoundNew ==
    ASSUME NEW U, NEW p \in U, p \in Pcbs
    PROVE  /\ Sound(<<>>, U) /\ ~Occurs(<<>>, "ret")
           /\ Sound(Push("ret", p, 0, <<>>), U) /\ Push("ret", p, 0, <<>>) \in Seq(Frames)
           /\ Sound(Push("ret", p, 0, Push("fin", p, 0, <<>>)), U)
           /\ Push("ret", p, 0, Push("fin", p, 0, <<>>)) \in Seq(Frames)
  <1> DEFINE r == Push("ret", p, 0, <<>>)
             k == Push("fin", p, 0, <<>>)
             s == Push("ret", p, 0, k)
  <1>0. "ret" \in FrameKinds /\ "fin" \in FrameKinds /\ 0 \in Nat /\ p \in Pcbs \cup {NULL}
    BY DEF FrameKinds
  <1>1. Sound(<<>>, U) /\ ~Occurs(<<>>, "ret")
    BY EmptyStack DEF Sound, Bottomed, AboutOnly, Occurs
  <1>2. r \in Seq(Frames) /\ Len(r) = 1 /\ r[1] = Frame("ret", p, 0)
    <2>1. r \in Seq(Frames) /\ Len(r) = Len(<<>>) + 1 /\ r[1] = Frame("ret", p, 0)
      BY <1>0, EmptyStack, PushFrame, Zenon
    <2> HIDE DEF r
    <2> QED
      BY <2>1
  <1>3. k \in Seq(Frames) /\ Len(k) = 1 /\ k[1] = Frame("fin", p, 0)
    <2>1. k \in Seq(Frames) /\ Len(k) = Len(<<>>) + 1 /\ k[1] = Frame("fin", p, 0)
      BY <1>0, EmptyStack, PushFrame, Zenon
    <2> HIDE DEF k
    <2> QED
      BY <2>1
  <1>4. s \in Seq(Frames) /\ Len(s) = 2 /\ s[1] = Frame("ret", p, 0) /\ s[2] = Frame("fin", p, 0)
    <2> HIDE DEF k
    <2>1. s \in Seq(Frames) /\ Len(s) = Len(k) + 1 /\ s[1] = Frame("ret", p, 0)
          /\ \A i \in 1..Len(k) : s[i + 1] = k[i]
      BY <1>0, <1>3, PushFrame
    <2> QED
      BY <1>3, <2>1
  <1> HIDE DEF r, s
  <1>5. \A f : Frame(f, p, 0).f = f /\ Frame(f, p, 0).p = p
    BY DEF Frame
  <1>6. Sound(r, U)
    BY <1>2, <1>5 DEF Sound, Bottomed, AboutOnly
  <1>7. Sound(s, U)
    <2>1. ASSUME NEW i \in 1..Len(s) PROVE i = 1 \/ i = 2
      BY <1>4
    <2>2. Bottomed(s)
      BY <1>4, <1>5, <2>1 DEF Bottomed
    <2>3. AboutOnly(s, U)
      BY <1>4, <1>5, <2>1 DEF AboutOnly
    <2> QED
      BY <2>2, <2>3 DEF Sound
  <1> QED
    BY <1>1, <1>2, <1>4, <1>6, <1>7 DEF r, s, k

Live == \E p \in Pcbs : lw[p].st \in Open

(* Every step keeps the callback's frames where they belong, and lwIP      *)
(* calls in only about a pcb that is open.                                 *)
LEMMA StackSound ==
    ASSUME TypeOK, TypeOK', Core, StepKind, StackKind, Sound(stack, UsedPcbs)
    PROVE  /\ Sound(stack', UsedPcbs')
           /\ Occurs(stack', "ret") => Occurs(stack, "ret") \/ Live
  <1> DEFINE U == UsedPcbs
             V == UsedPcbs'
             Fine(k) == Sound(k, V) /\ k \in Seq(Frames)
             From(k) == Occurs(k, "ret") => Occurs(stack, "ret") \/ Live
  <1> USE PcbAssumption
  <1>t. stack \in Seq(Frames) /\ c.pcb \in Pcbs \cup {NULL} /\ 0 \in Nat
    BY DEF TypeOK, Clients
  <1>u. U \subseteq V /\ U \subseteq Pcbs
    BY PastKept DEF UsedPcbs
  <1>l. c.pcb # NULL => Live
    BY <1>t DEF Core, PcbUsable, Open, Live
  <1>s. Fine(stack)
    BY <1>t, <1>u DEF Sound, AboutOnly
  <1>k. /\ Handlers \subseteq FrameKinds \ CbFrames
        /\ {"abort", "dtor"} \subseteq FrameKinds \ CbFrames
        /\ {"discard_cb", "error_cb", "recv_cb", "pb_cb"} \subseteq FrameKinds \ CbFrames
    BY DEF Handlers, FrameKinds, CbFrames
  <1>p. ASSUME NEW f \in FrameKinds \ CbFrames, NEW p \in Pcbs \cup {NULL}, NEW n \in Nat,
               NEW k, Fine(k), From(k)
        PROVE  Fine(Push(f, p, n, k)) /\ From(Push(f, p, n, k))
    BY <1>p, SoundPush
  <1>h. ASSUME stack # <<>>
        PROVE  /\ Fine(Tail(stack)) /\ From(Tail(stack)) /\ Head(stack).p \in Pcbs \cup {NULL}
               /\ Head(stack).f = "fin" => Tail(stack) = <<>> /\ Head(stack).p \in U
    <2>1. Head(stack) \in Frames
      BY <1>h, <1>t, PopFrame
    <2>2. Head(stack).p \in Pcbs \cup {NULL}
      BY <2>1 DEF Frames
    <2>3. /\ Fine(Tail(stack)) /\ From(Tail(stack))
          /\ Head(stack).f = "fin" => Tail(stack) = <<>>
      BY <1>h, <1>s, SoundPop
    <2>4. Head(stack).f = "fin" => Head(stack).p \in U
      BY <1>h, <1>t, SoundPop DEF CbFrames
    <2> QED
      BY <2>2, <2>3, <2>4
  <1>e. Fine(<<>>) /\ From(<<>>)
    BY EmptyStack DEF Sound, Bottomed, AboutOnly, Occurs
  <1>n. ASSUME NEW p \in U, Live
        PROVE  /\ Fine(Push("ret", p, 0, <<>>)) /\ From(Push("ret", p, 0, <<>>))
               /\ Fine(Push("ret", p, 0, Push("fin", p, 0, <<>>)))
               /\ From(Push("ret", p, 0, Push("fin", p, 0, <<>>)))
    <2>1. p \in V /\ p \in Pcbs
      BY <1>u
    <2> HIDE DEF V
    <2> QED
      BY <1>n, <2>1, SoundNew
  <1>o. ASSUME NEW p \in Pcbs, lw[p].st \in Open PROVE p \in U /\ Live
    BY <1>o DEF UsedPcbs, Live, Open
  <1> HIDE DEF U, V, Fine, From
  <1> SUFFICES Fine(stack') /\ From(stack')
    BY DEF V, Fine, From
  <1>1. CASE stack' = stack
    BY <1>1, <1>s DEF From
  <1>2. CASE stack # <<>> /\ stack' = Tail(stack)
    BY <1>2, <1>h
  <1>3. ASSUME NEW p \in Pcbs, CallsIn(p) PROVE Fine(stack') /\ From(stack')
    <2>1. p \in U /\ Live
      BY <1>3, <1>o DEF CallsIn
    <2>2. /\ Fine(Push("ret", p, 0, <<>>)) /\ From(Push("ret", p, 0, <<>>))
          /\ Fine(Push("ret", p, 0, Push("fin", p, 0, <<>>)))
          /\ From(Push("ret", p, 0, Push("fin", p, 0, <<>>)))
      BY <1>n, <2>1
    <2> QED
      BY <1>3, <1>k, <1>p, <2>2 DEF CallsIn
  <1>4. ASSUME NEW p \in Pcbs, Fails(p) PROVE Fine(stack') /\ From(stack')
    <2>1. p \in U /\ Live
      BY <1>4, <1>o DEF Fails, Ends
    <2>2. Fine(Push("ret", p, 0, <<>>)) /\ From(Push("ret", p, 0, <<>>))
      BY <1>n, <2>1
    <2> QED
      BY <1>4, <1>e, <1>k, <1>p, <1>t, <2>2 DEF Fails
  <1>5. CASE LookupFails
    BY <1>5, <1>e, <1>k, <1>p, <1>t DEF LookupFails
  <1>f. From(stack)
    BY DEF From
  <1>6. CASE CloseCalled
    BY <1>6, <1>f, <1>k, <1>p, <1>s, <1>t DEF CloseCalled
  <1>7. CASE AbortCalled
    <2>1. Fine(Push("abort", c.pcb, 0, stack)) /\ From(Push("abort", c.pcb, 0, stack))
      BY <1>f, <1>k, <1>p, <1>s, <1>t
    <2> QED
      BY <1>7, <1>k, <1>p, <1>t, <2>1 DEF AbortCalled
  <1>8. CASE DeleteCalled
    <2>1. Fine(Push("dtor", NULL, 0, stack)) /\ From(Push("dtor", NULL, 0, stack))
      BY <1>f, <1>k, <1>p, <1>s, <1>t
    <2> QED
      BY <1>8, <1>k, <1>p, <1>t, <2>1 DEF DeleteCalled
  <1>9. CASE NextDelivered \/ ErrorAnnounced
    <2>1. PICK h \in {"recv_cb", "pb_cb", "discard_cb"}, n \in Nat :
            stack # <<>> /\ stack' = Push(h, Head(stack).p, n, Tail(stack))
      BY <1>9, <1>t DEF NextDelivered, ErrorAnnounced, Top
    <2>2. h \in FrameKinds \ CbFrames
      BY <1>k
    <2> QED
      BY <1>h, <1>p, <2>1, <2>2
  <1>10. CASE FinDelivered
    <2>1. stack # <<>> /\ Head(stack).f = "fin"
      BY <1>10 DEF FinDelivered, Top
    <2>2. Tail(stack) = <<>> /\ Head(stack).p \in U
      BY <1>h, <2>1
    <2>3. c.pcb # NULL
      BY <1>10, <1>u, <2>2 DEF FinDelivered
    <2> DEFINE k == Push("ret", Head(stack).p, 0, <<>>)
    <2>4. Fine(k) /\ From(k)
      BY <1>l, <1>n, <2>2, <2>3
    <2>5. stack' = k \/ stack' = Push("discard_cb", c.pcb, 0, k)
      BY <1>10, <2>2 DEF FinDelivered
    <2> HIDE DEF k
    <2> QED
      BY <1>k, <1>p, <1>t, <2>4, <2>5
  <1> QED
    BY <1>1, <1>2, <1>3, <1>4, <1>5, <1>6, <1>7, <1>8, <1>9, <1>10 DEF StackKind

(* The kinds of steps, as far as the tracker is concerned.                 *)
Aborted == \E p \in Pcbs : lw[p].st = "aborted"

(* Nothing is recorded, and no connection ends.                            *)
Spares ==
    /\ et' = et
    /\ \A q \in Pcbs : \/ lw'[q].st = lw[q].st
                       \/ lw'[q].st \notin Over /\ lw[q].st \notin Over

(* Something happens to an open connection, and the tracker says whether   *)
(* it was aborted.                                                         *)
Settles ==
    /\ Live /\ ~AbortCalled /\ et'.errored = et.errored
    /\ et.errored = "EE_OK" /\ ~Aborted => (et'.close_error = "ERR_ABRT" <=> Aborted')

(* An open connection fails.                                               *)
Breaks(p) ==
    /\ lw[p].st \in Open /\ lw'[p].st \in Over /\ et'.errored # "EE_OK"
    /\ Aborted' /\ ~Aborted => ~Occurs(stack', "ret")

(* A callback returns.                                                     *)
Reports ==
    /\ et' = AfterCallbackCloseError(et) /\ lw' = lw
    /\ Occurs(stack, "ret") /\ ~Occurs(stack', "ret")

TrackerKind == Spares \/ Settles \/ Reports \/ \E p \in Pcbs : Breaks(p)

(* The tracker's invariant: on an object's first connection ERR_ABRT is    *)
(* recorded only for an abort, it is recorded and not yet reported while   *)
(* the callback of an aborted pcb is in progress, and an errored tracker   *)
(* has seen its connection end.                                            *)
AbortMarked == Occurs(stack, "abort") => et.errored # "EE_OK"

Tracked ==
    /\ et.errored = "EE_OK" /\ et.close_error = "ERR_ABRT" => Aborted
    /\ Aborted /\ Occurs(stack, "ret") => et.errored = "EE_OK" /\ et.close_error = "ERR_ABRT"
    /\ et.errored # "EE_OK" => UsedPcbs # {} /\ ~Live

TrackerInv == Sound(stack, UsedPcbs) /\ AbortMarked /\ (FirstUse => Tracked)

(* On the first connection an open pcb is the only one there ever was.     *)
LEMMA OnlyOne ==
    ASSUME FirstUse
    PROVE  /\ Live => ~Aborted
           /\ Aborted => ~Live
           /\ Aborted => UsedPcbs # {}
           /\ Live /\ Tracked => et.errored = "EE_OK" /\ et.close_error # "ERR_ABRT"
           /\ \A p \in Pcbs : lw[p].st = "aborted" => \A q \in UsedPcbs : q = p
           /\ \A p \in Pcbs : lw[p].st \in Open \cup Over => \A q \in UsedPcbs : q = p
  <1>1. \A p, q \in Pcbs : lw[p].st \in Open \cup Over /\ lw[q].st # "unused" => p = q
    BY DEF FirstUse, Open, Over
  <1>2. Live => ~Aborted
    BY <1>1 DEF Live, Aborted, Open, Over
  <1>3. Aborted => UsedPcbs # {}
    BY DEF Aborted, UsedPcbs
  <1> QED
    BY <1>1, <1>2, <1>3 DEF UsedPcbs, Over, Tracked

(* Every kind of step keeps the tracker's invariant.                       *)
LEMMA TrackerKept ==
    ASSUME TypeOK, TypeOK', Core, StepKind, StackKind, TrackerInv, TrackerKind
    PROVE  TrackerInv'
  <1>1. /\ Sound(stack', UsedPcbs') /\ Sound(stack, UsedPcbs)
        /\ Occurs(stack', "ret") => Occurs(stack, "ret") \/ Live
    BY StackSound DEF TrackerInv
  <1>2. FirstUse' => FirstUse
    BY PastKept
  <1>3. Occurs(stack', "abort") => Occurs(stack, "abort") \/ AbortCalled
    BY FrameOrigin DEF InProgress, Occurs
  <1>4. Occurs(stack, "abort") => et.errored # "EE_OK"
    BY DEF TrackerInv, AbortMarked
  <1> SUFFICES AbortMarked' /\ (FirstUse' => Tracked')
    BY <1>1 DEF TrackerInv
  <1>5. CASE Spares
    <2>1. ~AbortCalled
      <3> SUFFICES ASSUME AbortCalled PROVE FALSE
        OBVIOUS
      <3>1. c.pcb \in Pcbs
        BY DEF AbortCalled, TypeOK, Clients
      <3> QED
        BY <1>5, <3>1 DEF Spares, AbortCalled, Ends, Open, Over
    <2>2. AbortMarked'
      BY <1>3, <1>4, <1>5, <2>1 DEF Spares, AbortMarked
    <2>3. Aborted' <=> Aborted
      BY <1>5 DEF Spares, Aborted, Over
    <2>4. ASSUME FirstUse' PROVE Tracked'
      <3>1. Tracked /\ FirstUse
        BY <1>2, <2>4 DEF TrackerInv
      <3>2. /\ et'.errored = "EE_OK" /\ et'.close_error = "ERR_ABRT" => Aborted'
            /\ Aborted' /\ Occurs(stack', "ret")
                 => et'.errored = "EE_OK" /\ et'.close_error = "ERR_ABRT"
        BY <1>1, <1>5, <2>3, <3>1, OnlyOne DEF Spares, Tracked
      <3>3. ASSUME et.errored # "EE_OK" PROVE UsedPcbs' # {} /\ ~Live'
        <4>1. PICK q \in Pcbs : lw[q].st # "unused"
          BY <3>1, <3>3 DEF Tracked, UsedPcbs
        <4>2. lw'[q].st # "unused"
          BY PastKept, <4>1
        <4>3. lw[q].st \notin Open
          BY <3>1, <3>3 DEF Tracked, Live
        <4>4. \A p \in Pcbs \ {q} : lw'[p].st = "unused"
          BY <2>4, <4>2 DEF FirstUse
        <4>5. lw'[q].st \notin Open
          <5>1. CASE lw'[q].st = lw[q].st
            BY <4>3, <5>1
          <5>2. CASE lw'[q].st # lw[q].st
            <6>1. lw[q].st = "leaked" /\ lw[q].st \notin Over
              <7>1. lw[q].st \in {"unused", "leaked"} \cup Open \cup Over
                BY DEF TypeOK, PcbRecords
              <7> QED
                BY <1>5, <4>1, <4>3, <5>2, <7>1 DEF Spares
            <6>2. q # c.pcb
              BY <6>1, PcbAssumption DEF Core, PcbUsable
            <6>3. ~Keeps /\ ~LooksUp /\ ~Destroys
              BY <5>2, <6>2 DEF Keeps, LooksUp, Destroys, Same
            <6>4. ASSUME NEW p \in Pcbs PROVE ~Attempts(p) /\ ~Establishes(p) /\ ~Announces(p)
              BY <5>2, <6>1 DEF Attempts, Establishes, Announces, Same
            <6>5. ASSUME NEW p \in Pcbs PROVE ~Ends(p)
              BY <5>2, <6>1 DEF Ends, Same, Open
            <6> QED
              BY <6>3, <6>4, <6>5 DEF StepKind
          <5> QED
            BY <5>1, <5>2
        <4> QED
          BY <4>2, <4>4, <4>5 DEF UsedPcbs, Live, Open
      <3> QED
        BY <1>5, <3>2, <3>3 DEF Spares, Tracked
    <2> QED
      BY <2>2, <2>4
  <1>6. CASE Settles
    <2>1. AbortMarked'
      BY <1>3, <1>4, <1>6 DEF Settles, AbortMarked
    <2>2. ASSUME FirstUse' PROVE Tracked'
      <3>1. Tracked /\ FirstUse
        BY <1>2, <2>2 DEF TrackerInv
      <3>2. et.errored = "EE_OK" /\ ~Aborted
        BY <1>6, <3>1, OnlyOne DEF Settles
      <3> QED
        BY <1>6, <3>2 DEF Settles, Tracked
    <2> QED
      BY <2>1, <2>2
  <1>7. ASSUME NEW p \in Pcbs, Breaks(p) PROVE AbortMarked' /\ (FirstUse' => Tracked')
    <2>1. AbortMarked'
      BY <1>7 DEF Breaks, AbortMarked
    <2>2. ASSUME FirstUse' PROVE Tracked'
      <3>1. FirstUse /\ Live
        BY <1>2, <1>7, <2>2 DEF Breaks, Live
      <3>2. ~(Aborted' /\ Occurs(stack', "ret"))
        BY <1>7, <3>1, OnlyOne DEF Breaks
      <3>3. UsedPcbs' # {} /\ ~Live'
        BY <1>7, <2>2 DEF Breaks, UsedPcbs, Live, FirstUse, Open, Over
      <3> QED
        BY <1>7, <3>2, <3>3 DEF Breaks, Tracked
    <2> QED
      BY <2>1, <2>2
  <1>8. CASE Reports
    <2>0. et \in Trackers
      BY DEF TypeOK
    <2>1. et.errored # "EE_OK" => et' = et
      BY <1>8 DEF Reports, AfterCallbackCloseError, CallbackCloseError
    <2>2. ~AbortCalled
      <3> SUFFICES ASSUME AbortCalled PROVE FALSE
        OBVIOUS
      <3>1. c.pcb \in Pcbs
        BY DEF AbortCalled, TypeOK, Clients
      <3> QED
        BY <1>8, <3>1 DEF Reports, AbortCalled, Ends, Open, Over
    <2>3. AbortMarked'
      BY <1>3, <1>4, <2>1, <2>2 DEF AbortMarked
    <2>4. ASSUME FirstUse' PROVE Tracked'
      <3>1. Tracked /\ FirstUse
        BY <1>2, <2>4 DEF TrackerInv
      <3>2. /\ et'.errored # "EE_OK" => et.errored # "EE_OK" \/ et.close_error = "ERR_ABRT"
            /\ et'.close_error = et.close_error
            /\ et'.errored = "EE_OK" => et.errored = "EE_OK"
        BY <1>8, <2>0 DEF Reports, AfterCallbackCloseError, CallbackCloseError, SetErrored, Trackers
      <3>3. Aborted' = Aborted /\ Live' = Live /\ UsedPcbs' = UsedPcbs
        BY <1>8 DEF Reports, Aborted, Live, UsedPcbs
      <3>4. et'.errored # "EE_OK" => UsedPcbs # {} /\ ~Live
        BY <3>1, <3>2, OnlyOne DEF Tracked
      <3> QED
        BY <1>8, <3>1, <3>2, <3>3, <3>4 DEF Reports, Tracked
    <2> QED
      BY <2>3, <2>4
  <1> QED
    BY <1>5, <1>6, <1>7, <1>8 DEF TrackerKind

(* What SetCloseError() leaves.                                            *)
LEMMA Recorded ==
    ASSUME NEW t \in Trackers, NEW e
    PROVE  /\ SetCloseError(t, e).errored = t.errored
           /\ t.errored = "EE_OK" => SetCloseError(t, e).close_error = e
           /\ t.errored # "EE_OK" => SetCloseError(t, e) = t
           /\ \A d : SetErrored(SetCloseError(t, e), d).errored # "EE_OK"
                       <=> t.errored # "EE_OK" \/ d # "EE_OK"
           /\ e \in Errors => SetCloseError(t, e) \in Trackers
  BY DEF SetCloseError, SetErrored, Trackers

(* _close() of an open connection.                                         *)
LEMMA CloseSettles ==
    ASSUME TypeOK, Core, c.pcb # NULL, NEW c0 \in Clients, c0.pcb = c.pcb, NEW l0 \in LwType,
           \A q \in Pcbs : l0[q].told = lw[q].told /\ (q # c.pcb => l0[q].st = lw[q].st),
           NEW e0 \in {et, SetCloseError(et, "ERR_OK")}, NEW k, Close_(c0, e0, l0, k)
    PROVE  Settles
  <1>1. PICK r \in {"closing", "aborted"} :
          /\ c.pcb \in Pcbs /\ lw'[c.pcb].st = r
          /\ lw'[c.pcb].told = l0[c.pcb].told + 1
          /\ \A q \in Pcbs \ {c.pcb} : lw'[q] = l0[q]
          /\ et' = SetCloseError(e0, CloseError(r))
    <2>1. c0.pcb # NULL
      OBVIOUS
    <2>2. \E r \in {"closing", "aborted"} :
            /\ c0.pcb \in Pcbs /\ lw'[c0.pcb].st = r
            /\ lw'[c0.pcb].told = l0[c0.pcb].told + 1
            /\ \A q \in Pcbs \ {c0.pcb} : lw'[q] = l0[q]
            /\ et' = SetCloseError(e0, CloseError(r))
      <3>1. CloseDone(c0, e0, l0, k)
        BY CloseEffect
      <3> QED
        BY ONLY <2>1, <3>1, Zenon DEF CloseDone
    <2> QED
      BY <2>2
  <1>2. Live
    BY <1>1 DEF Core, PcbUsable, Live, Open
  <1>3. lw[c.pcb].told \in Nat
    BY <1>1 DEF TypeOK, PcbRecords
  <1>4. ~AbortCalled
    BY <1>1, <1>3 DEF AbortCalled
  <1>5. et \in Trackers /\ e0 \in Trackers /\ e0.errored = et.errored
    BY Recorded DEF TypeOK, Errors
  <1>6. /\ et'.errored = et.errored
        /\ et.errored = "EE_OK" => et'.close_error = CloseError(r)
    BY <1>1, <1>5, Recorded
  <1>7. CloseError(r) = "ERR_ABRT" <=> r = "aborted"
    BY <1>1 DEF CloseError
  <1>8. ~Aborted => (Aborted' <=> r = "aborted")
    BY <1>1 DEF Aborted
  <1> QED
    BY <1>2, <1>4, <1>6, <1>7, <1>8 DEF Settles

(* With abort() called from loop() only, every step is of one of these     *)
(* kinds.                                                                  *)
LEMMA EveryStepHasATrackerKind ==
    ASSUME \A ctx : <<"abort", ctx>> \in App => ctx = "loop",
           TypeOK, Core, TrackerInv, Next
    PROVE  TrackerKind
  <1> USE PcbAssumption
  <1>l. /\ lw \in LwType /\ c \in Clients /\ et \in Trackers /\ stack \in Seq(Frames)
        /\ c.pcb \in Pcbs \cup {NULL}
    BY DEF TypeOK, LwType, Clients
  <1>s. ASSUME et' = et, lw' = lw PROVE TrackerKind
    BY <1>s DEF Spares, TrackerKind
  <1>p. ASSUME et' = et, \A q \in Pcbs : lw'[q].st = lw[q].st PROVE TrackerKind
    BY <1>p DEF Spares, TrackerKind
  <1>o. ASSUME NEW p \in Pcbs, NEW cb \in {"recv", "sent", "poll"}, cb \in lw[p].cbs
        PROVE  p = c.pcb /\ Live /\ lw[p].st \notin Over
    <2>1. p = c.pcb /\ lw[p].st \in {"ESTABLISHED", "CLOSE_WAIT"}
      BY <1>o, CallableIsOwned DEF Callbacks
    <2> QED
      BY <2>1 DEF Live, Open, Over
  <1>w. ASSUME Live, et' = SetCloseError(et, "ERR_OK"),
               \A q \in Pcbs : \/ lw'[q].st = lw[q].st
                               \/ lw'[q].st \notin Over /\ lw[q].st \notin Over
        PROVE  TrackerKind
    <2>1. ~AbortCalled
      BY <1>l, <1>w DEF AbortCalled, Ends, Open, Over
    <2>2. Aborted' <=> Aborted
      BY <1>w DEF Aborted, Over
    <2>3. et'.errored = et.errored /\ (et.errored = "EE_OK" => et'.close_error = "ERR_OK")
      BY <1>l, <1>w, Recorded
    <2> QED
      BY <1>w, <2>1, <2>2, <2>3 DEF Settles, TrackerKind
  <1>c. ASSUME c.pcb # NULL, NEW c0 \in Clients, c0.pcb = c.pcb, NEW l0 \in LwType,
               \A q \in Pcbs : l0[q].told = lw[q].told /\ (q # c.pcb => l0[q].st = lw[q].st),
               NEW e0 \in {et, SetCloseError(et, "ERR_OK")}, NEW k, Close_(c0, e0, l0, k)
        PROVE  TrackerKind
    BY <1>c, CloseSettles DEF TrackerKind
  <1>n. ASSUME Connect_, et' = et PROVE TrackerKind
    <2>1. CASE lw' = lw
      BY <1>n, <1>s, <2>1
    <2>2. CASE lw' # lw
      <3>1. PICK p \in Pcbs :
              /\ lw[p].st = "unused" /\ lw'[p].st \in {"SYN_SENT", "leaked"}
              /\ \A q \in Pcbs \ {p} : lw'[q] = lw[q]
        BY <1>n, <1>l, <2>2, ConnectEffect
      <3> QED
        BY <1>n, <3>1 DEF Spares, TrackerKind, Over
    <2> QED
      BY <2>1, <2>2
  <1>1. ASSUME NEW p \in Pcbs, S_connected(p) PROVE TrackerKind
    <2>1. /\ et' = et /\ lw[p].st = "SYN_SENT" /\ lw'[p].st = "ESTABLISHED"
          /\ \A q \in Pcbs \ {p} : lw'[q] = lw[q]
      BY <1>1, <1>l DEF S_connected, LwType, PcbRecords
    <2> QED
      BY <2>1 DEF Spares, TrackerKind, Over
  <1>e. ASSUME NEW p \in Pcbs, "err" \in lw[p].cbs, NEW r \in Over, NEW e, NEW d \in ErrorEvents,
               d # "EE_OK", NEW k, Error_(c, Errored(et, e, d), Release(lw, p, r), p, k),
               r = "aborted" => ~Occurs(stack', "ret")
        PROVE  Breaks(p)
    <2>1. et' = Errored(et, e, d) /\ lw' = Release(lw, p, r)
      BY <1>e DEF Error_
    <2>2. lw'[p].st = r /\ \A q \in Pcbs \ {p} : lw'[q] = lw[q]
      BY <1>l, <2>1, ReleaseEffect
    <2>3. et'.errored # "EE_OK"
      BY <1>e, <1>l, <2>1, Recorded DEF Errored
    <2>4. lw[p].st \in Open
      BY <1>e, CallableIsOpen
    <2>5. Aborted' /\ ~Aborted => r = "aborted"
      BY <2>2 DEF Aborted
    <2> QED
      BY <1>e, <2>2, <2>3, <2>4, <2>5 DEF Breaks
  <1>2. ASSUME NEW p \in Pcbs, S_failed(p) PROVE TrackerKind
    <2>1. PICK d \in {"EE_CONNECTED_CB", "EE_RECV_CB"} :
            Error_(c, Errored(et, "ERR_RST", d), Release(lw, p, "detached"), p,
                   Push("ret", p, 0, <<>>))
      BY <1>2 DEF S_failed
    <2>2. Breaks(p)
      BY <1>2, <1>e, <2>1 DEF S_failed, Over, ErrorEvents
    <2> QED
      BY <2>2 DEF TrackerKind
  <1>3. ASSUME NEW p \in Pcbs, NEW n, NEW fin, S_recv(p, n, fin) PROVE TrackerKind
    <2>1. Live /\ lw[p].st \notin Over
      BY <1>3, <1>o DEF S_recv
    <2>2. /\ et' = SetCloseError(et, "ERR_OK") /\ lw'[p].st \in {lw[p].st, "CLOSE_WAIT"}
          /\ \A q \in Pcbs \ {p} : lw'[q] = lw[q]
      BY <1>3, <1>l DEF S_recv, LwType, PcbRecords
    <2>3. \A q \in Pcbs : \/ lw'[q].st = lw[q].st
                          \/ lw'[q].st \notin Over /\ lw[q].st \notin Over
      BY <2>1, <2>2 DEF Over
    <2> QED
      BY <1>w, <2>1, <2>2, <2>3
  <1>4. ASSUME NEW p \in Pcbs, S_recv_fin(p) PROVE TrackerKind
    <2> DEFINE l0 == [lw EXCEPT ![p].st = "CLOSE_WAIT"]
    <2>1. p = c.pcb /\ c.pcb # NULL
      BY <1>4, <1>o DEF S_recv_fin
    <2>2. l0 \in LwType
      BY <1>l, PcbOperators DEF Open
    <2>3. \A q \in Pcbs : l0[q].told = lw[q].told /\ (q # c.pcb => l0[q].st = lw[q].st)
      BY <1>l, <2>1 DEF LwType, PcbRecords
    <2>4. Close_(c, et, l0, Push("ret", p, 0, <<>>))
      BY <1>4 DEF S_recv_fin
    <2> HIDE DEF l0
    <2> QED
      BY <1>c, <1>l, <2>1, <2>2, <2>3, <2>4
  <1>5. ASSUME NEW p \in Pcbs, NEW len, S_sent(p, len) PROVE TrackerKind
    <2>1. Live
      BY <1>5, <1>o DEF S_sent
    <2>2. \A q \in Pcbs : lw'[q].st = lw[q].st
      BY <1>5, <1>l DEF S_sent, LwType, PcbRecords
    <2> QED
      BY <1>5, <1>p, <1>w, <2>1, <2>2 DEF S_sent
  <1>6. ASSUME NEW p \in Pcbs, S_poll(p) PROVE TrackerKind
    <2> DEFINE l0 == [lw EXCEPT ![p].due = FALSE]
               c1 == [c EXCEPT !.close_pcb = FALSE]
               e == SetCloseError(et, "ERR_OK")
               k == Push("ret", p, 0, <<>>)
    <2>1. p = c.pcb /\ c.pcb # NULL /\ Live
      BY <1>6, <1>o DEF S_poll
    <2>2. l0 \in LwType /\ c1 \in Clients /\ c1.pcb = c.pcb
      <3>1. l0 \in LwType
        BY <1>l, PcbOperators
      <3> QED
        BY <1>l, <3>1 DEF Clients
    <2>3. \A q \in Pcbs : l0[q].told = lw[q].told /\ l0[q].st = lw[q].st
      BY <1>l DEF LwType, PcbRecords
    <2>4. \/ Close_(c1, e, l0, k)
          \/ Close_(c, e, l0, k)
          \/ et' = e /\ lw' = l0
      BY <1>6 DEF S_poll, Poll_
    <2>5. CASE et' = e /\ lw' = l0
      <3> HIDE DEF l0
      <3> QED
        BY <1>w, <2>1, <2>3, <2>5
    <2> HIDE DEF l0, c1, k
    <2>6. CASE Close_(c1, e, l0, k)
      BY <1>c, <2>1, <2>2, <2>3, <2>6
    <2>7. CASE Close_(c, e, l0, k)
      BY <1>c, <1>l, <2>1, <2>2, <2>3, <2>7
    <2> QED
      BY <2>4, <2>5, <2>6, <2>7
  <1>7. ASSUME NEW p \in Pcbs, NEW err, S_error(p, err) PROVE TrackerKind
    <2>1. Breaks(p)
      BY <1>7, <1>e DEF S_error, Over, ErrorEvents
    <2> QED
      BY <2>1 DEF TrackerKind
  <1>8. CASE S_dns_found
    BY <1>8, <1>n, <1>s DEF S_dns_found
  <1>9. CASE Tick
    <2>1. et' = et /\ \A q \in Pcbs : lw'[q].st = lw[q].st
      BY <1>9, <1>l DEF Tick, LwType, PcbRecords
    <2> QED
      BY <1>p, <2>1
  <1>10. CASE UserReturn \/ SentReturn \/ DtorReturn
    BY <1>10, <1>s DEF UserReturn, SentReturn, DtorReturn
  <1>11. CASE RecvReturn \/ PacketReturn
    <2>1. et' = et /\ lw' \in {lw, tcp_recved(lw, Head(stack).p, 1)}
      BY <1>11 DEF RecvReturn, PacketReturn, AckUnlessDeferred
    <2>2. \A q \in Pcbs : lw'[q].st = lw[q].st
      BY <1>l, <2>1, RecvedEffect
    <2> QED
      BY <1>p, <2>1, <2>2
  <1>12. CASE ErrorReturn
    <2>1. et' = et /\ Discard(lw, Head(stack).p, Tail(stack))
      BY <1>12 DEF ErrorReturn
    <2>2. \A q \in Pcbs : lw'[q].st = lw[q].st
      BY <1>l, <2>1 DEF Discard, LwType, PcbRecords
    <2> QED
      BY <1>p, <2>1, <2>2
  <1>13. CASE AbortReturn
    <2>1. stack # <<>> /\ Head(stack).f = "abort" /\ lw' = lw
          /\ et' = SetCloseError(et, "ERR_ABRT")
      BY <1>13 DEF AbortReturn, Top
    <2>2. Occurs(stack, "abort")
      BY <1>l, <2>1, PopFrame DEF Occurs
    <2>3. et' = et
      BY <1>l, <2>1, <2>2, Recorded DEF TrackerInv, AbortMarked
    <2> QED
      BY <1>s, <2>1, <2>3
  <1>14. CASE ReturnToStack
    <2>1. stack # <<>> /\ Head(stack).f = "ret" /\ lw' = lw /\ stack' = Tail(stack)
          /\ et' = AfterCallbackCloseError(et)
      BY <1>14 DEF ReturnToStack, Top
    <2>2. Occurs(stack, "ret") /\ ~Occurs(stack', "ret")
      BY <1>l, <2>1, SoundPop DEF TrackerInv
    <2> QED
      BY <2>1, <2>2 DEF Reports, TrackerKind
  <1>15. CASE FinAfterData
    <2>1. stack # <<>> /\ Head(stack).f = "fin"
      BY <1>15 DEF FinAfterData
    <2>2. Head(stack).p \in Pcbs
      <3>1. Head(stack).p \in UsedPcbs
        BY <1>l, <2>1, SoundPop DEF TrackerInv, CbFrames
      <3> QED
        BY <3>1 DEF UsedPcbs
    <2>3. CASE "recv" \in lw[Head(stack).p].cbs
      <3>1. c.pcb # NULL
        BY <1>o, <2>2, <2>3
      <3>2. Close_(c, et, lw, Push("ret", Head(stack).p, 0, Tail(stack)))
        BY <1>15, <2>3 DEF FinAfterData
      <3> QED
        BY <1>c, <1>l, <3>1, <3>2
    <2>4. CASE "recv" \notin lw[Head(stack).p].cbs
      BY <1>15, <1>s, <2>4 DEF FinAfterData
    <2> QED
      BY <2>3, <2>4
  <1>16. CASE Connect \/ ConnectHost
    BY <1>16, <1>n, <1>s DEF Connect, ConnectHost
  <1>r. Reopened \in LwType /\ \A q \in Pcbs : /\ Reopened[q].st = lw[q].st
                                               /\ Reopened[q].told = lw[q].told
    <2>1. c.rx_ack_len \in Nat
      BY <1>l DEF Clients
    <2>2. CASE c.pcb = NULL
      BY <1>l, <2>2 DEF Reopened
    <2>3. CASE c.pcb # NULL
      <3>1. Reopened = tcp_recved(lw, c.pcb, c.rx_ack_len)
        BY <2>3 DEF Reopened
      <3>2. Reopened \in LwType
        BY <1>l, <2>1, <3>1, PcbOperators
      <3> QED
        BY <1>l, <3>1, <3>2, RecvedEffect
    <2> QED
      BY <2>2, <2>3
  <1>17. ASSUME NEW l0 \in LwType, NEW k, Close_(c, et, l0, k),
                \A q \in Pcbs : l0[q].st = lw[q].st /\ l0[q].told = lw[q].told
         PROVE  TrackerKind
    <2>1. CASE c.pcb = NULL
      <3>1. et' = et /\ lw' = l0
        BY <1>17, <1>l, <2>1, CloseEffect DEF CloseDone
      <3> QED
        BY <1>17, <1>p, <3>1
    <2>2. CASE c.pcb # NULL
      BY <1>17, <1>c, <1>l, <2>2
    <2> QED
      BY <2>1, <2>2
  <1>18. CASE CloseNow
    BY <1>18, <1>17, <1>r DEF CloseNow
  <1>19. CASE Delete
    BY <1>19, <1>17, <1>l DEF Delete
  <1>20. CASE CloseLater
    BY <1>20, <1>p, <1>r DEF CloseLater
  <1>21. CASE Abort
    <2>1. c.pcb \in Pcbs /\ "err" \in lw[c.pcb].cbs
      BY <1>21, <1>l DEF Abort, Core, PcbUsable, Callbacks
    <2>2. stack = <<>>
      <3>1. Context = "loop"
        BY <1>21 DEF Abort, MayCall
      <3>2. stack # <<>> => Head(stack) \in Frames
        BY <1>l, PopFrame
      <3> QED
        BY <3>1, <3>2 DEF Context, Frames, FrameKinds, Handlers, TlsHandlers
    <2>3. Error_(c, Errored(et, "ERR_ABRT", "EE_ERROR_CB"), Release(lw, c.pcb, "aborted"),
                 c.pcb, Push("abort", c.pcb, 0, stack))
      BY <1>21 DEF Abort
    <2>4. ~Occurs(stack', "ret")
      <3>1. ~Occurs(<<>>, "ret")
        BY EmptyStack DEF Occurs
      <3>2. /\ Push("abort", c.pcb, 0, <<>>) \in Seq(Frames)
            /\ ~Occurs(Push("abort", c.pcb, 0, <<>>), "ret")
        BY <2>1, <3>1, EmptyStack, PushFrame, OccursPush DEF FrameKinds
      <3>3. stack' = Push("error_cb", c.pcb, 0, Push("abort", c.pcb, 0, <<>>))
        BY <2>2, <2>3 DEF Error_
      <3> QED
        BY <2>1, <3>2, <3>3, OccursPush DEF FrameKinds, Handlers
    <2>5. Breaks(c.pcb)
      BY <1>e, <2>1, <2>3, <2>4 DEF Over, ErrorEvents
    <2> QED
      BY <2>1, <2>5 DEF TrackerKind
  <1>22. CASE Send \/ AckLater
    BY <1>22, <1>s DEF Send, AckLater
  <1>23. CASE AckPacket \/ \E len \in 1..RxBound : Ack(len)
    <2>1. et' = et /\ \E n : lw' = tcp_recved(lw, c.pcb, n)
      BY <1>23 DEF AckPacket, Ack
    <2>2. \A q \in Pcbs : lw'[q].st = lw[q].st
      BY <1>l, <2>1, RecvedEffect
    <2> QED
      BY <1>p, <2>1, <2>2
  <1>24. ASSUME NEW n \in 1..SndBuf, Add(n) \/ Write(n) PROVE TrackerKind
    <2>1. et' = et /\ lw' = Queued(n)
      BY <1>24 DEF Add, Write
    <2>2. \A q \in Pcbs : lw'[q].st = lw[q].st
      BY <1>l, <2>1 DEF Queued, LwType, PcbRecords
    <2> QED
      BY <1>p, <2>1, <2>2
  <1>25. CASE Stack
    BY <1>25, <1>1, <1>2, <1>3, <1>4, <1>5, <1>6, <1>7, <1>8, <1>9 DEF Stack
  <1>26. CASE Return
    BY <1>26, <1>10, <1>11, <1>12, <1>13, <1>14, <1>15 DEF Return
  <1>27. CASE Call
    BY <1>27, <1>16, <1>18, <1>19, <1>20, <1>21, <1>22, <1>23, <1>24 DEF Call
  <1> QED
    BY <1>25, <1>26, <1>27 DEF Next

(* On the first connection of an object whose application calls abort()    *)
(* from loop() only, every callback keeps lwIP's contract: it returns      *)
(* ERR_ABRT if and only if its pcb was aborted meanwhile, whichever        *)
(* handler closed it and however tcp_close() failed.                       *)
THEOREM AbortsReported ==
    ASSUME Overlap = FALSE, \A ctx : <<"abort", ctx>> \in App => ctx = "loop"
    PROVE  Spec => []AbortReportedOnce
  <1>1. Init => TrackerInv
    <2> SUFFICES ASSUME Init PROVE TrackerInv
      OBVIOUS
    <2>1. stack = <<>> /\ et = NewTracker
      BY DEF Init
    <2>2. Sound(stack, UsedPcbs) /\ ~Occurs(stack, "abort") /\ ~Occurs(stack, "ret")
      BY <2>1, EmptyStack DEF Sound, Bottomed, AboutOnly, Occurs
    <2>3. et.errored = "EE_OK" /\ et.close_error = "ERR_OK"
      BY <2>1 DEF NewTracker
    <2> QED
      BY <2>2, <2>3 DEF TrackerInv, AbortMarked, Tracked
  <1>2. OwnershipInv /\ TrackerInv /\ [Next]_vars => TrackerInv'
    <2>1. ASSUME OwnershipInv, TrackerInv, Next PROVE TrackerInv'
      <3>1. TypeOK /\ Core /\ AbortQuiet /\ TypeOK'
        BY <2>1, OwnershipStep DEF OwnershipInv
      <3>2. StepKind /\ StackKind /\ TrackerKind
        BY <2>1, <3>1, EveryStepHasAKind, EveryStepHasAStackKind, EveryStepHasATrackerKind
      <3> QED
        BY <2>1, <3>1, <3>2, TrackerKept
    <2>2. ASSUME TrackerInv, UNCHANGED vars PROVE TrackerInv'
      BY <2>2 DEF vars, TrackerInv, UsedPcbs, AbortMarked, FirstUse, Tracked, Aborted, Live
    <2> QED
      BY <2>1, <2>2
  <1>3. OwnershipInv /\ TrackerInv => AbortReportedOnce
    <2> SUFFICES ASSUME OwnershipInv, TrackerInv, FirstUse, Top("ret")
                 PROVE  CallbackCloseError(et) = "ERR_ABRT" <=> lw[Head(stack).p].st = "aborted"
      BY DEF AbortReportedOnce, AbortReported
    <2>1. stack \in Seq(Frames) /\ stack # <<>> /\ Head(stack).f = "ret"
      BY DEF OwnershipInv, TypeOK, Top
    <2>2. Head(stack).p \in UsedPcbs /\ Occurs(stack, "ret")
      BY <2>1, SoundPop DEF TrackerInv, CbFrames
    <2>3. Tracked
      BY DEF TrackerInv
    <2>4. CallbackCloseError(et) = "ERR_ABRT"
            <=> et.errored = "EE_OK" /\ et.close_error = "ERR_ABRT"
      BY DEF CallbackCloseError
    <2>5. Aborted <=> lw[Head(stack).p].st = "aborted"
      BY <2>2, OnlyOne DEF Aborted, UsedPcbs
    <2> QED
      BY <2>2, <2>3, <2>4, <2>5 DEF Tracked
  <1> QED
    BY <1>1, <1>2, <1>3, OwnershipInit, OwnershipStep, PTL DEF Spec

=============================================================================
