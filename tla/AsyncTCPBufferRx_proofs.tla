----------------------- MODULE AsyncTCPBufferRx_proofs -----------------------
(***************************************************************************)
(* Proofs about AsyncTCPBufferRx.  Every call of _handleRxBuffer() moves   *)
(* bytes from the front of _RXbuffer and, once that is empty, from the     *)
(* front of the pbuf to the application, whatever the way of reading.      *)
(***************************************************************************)
EXTENDS AsyncTCPBufferRx, SequenceTheorems, WellFoundedInduction, TLAPS

-----------------------------------------------------------------------------
(* A non-empty set of numbers has a least element.                         *)
LEMMA LeastNumber ==
    ASSUME NEW T \in SUBSET Nat, T # {}
    PROVE  \E x \in T : \A y \in T : x <= y
<1> DEFINE R == {ss \in Nat \X Nat : ss[1] < ss[2]}
<1>1. IsWellFoundedOn(R, Nat)
  BY NatLessThanWellFounded DEF OpToRel
<1>2. PICK x \in T : \A y \in T : ~(<<y, x>> \in R)
  BY <1>1, WFMin
<1>3. ASSUME NEW y \in T PROVE x <= y
  <2>1. x \in Nat /\ y \in Nat /\ <<y, x>> \in Nat \X Nat
    OBVIOUS
  <2>2. ~(<<y, x>> \in R)
    BY <1>2
  <2>3. ~(y < x)
    BY <2>1, <2>2
  <2> QED
    BY <2>1, <2>3
<1> QED
  BY <1>3

-----------------------------------------------------------------------------
(* Sequences.                                                              *)

(* A sequence is what is taken from it and what is left.                   *)
LEMMA Split ==
    ASSUME NEW S, NEW s \in Seq(S), NEW n \in 0..Len(s)
    PROVE  /\ First(s, n) \in Seq(S) /\ Len(First(s, n)) = n
           /\ \A i \in 1..n : First(s, n)[i] = s[i]
           /\ Rest(s, n) \in Seq(S) /\ Len(Rest(s, n)) = Len(s) - n
           /\ \A i \in 1..(Len(s) - n) : Rest(s, n)[i] = s[n + i]
           /\ First(s, n) \o Rest(s, n) = s
<1>1. Len(s) \in Nat /\ n \in Nat /\ n <= Len(s)
  OBVIOUS
<1>2. /\ First(s, n) \in Seq(S) /\ Len(First(s, n)) = n
      /\ \A i \in 1..n : First(s, n)[i] = s[i]
  BY <1>1 DEF First
<1>3. /\ Rest(s, n) \in Seq(S) /\ Len(Rest(s, n)) = Len(s) - n
      /\ \A i \in 1..(Len(s) - n) : Rest(s, n)[i] = s[n + i]
  BY <1>1 DEF Rest
<1>4. First(s, n) \o Rest(s, n) = s
  <2>1. 1 \in 1..(Len(s) + 1) /\ n \in (1 - 1)..Len(s) /\ Len(s) \in n..Len(s)
    BY <1>1
  <2>2. SubSeq(s, 1, n) \o SubSeq(s, n + 1, Len(s)) = SubSeq(s, 1, Len(s))
    BY <2>1, ConcatAdjacentSubSeq
  <2> QED
    BY <2>2, SubSeqFull DEF First, Rest
<1> QED
  BY <1>2, <1>3, <1>4

(* The same, for a use under a name for S.                                 *)
LEMMA SplitAll ==
    \A S : \A s \in Seq(S) : \A n \in 0..Len(s) :
        /\ First(s, n) \in Seq(S) /\ Len(First(s, n)) = n
        /\ \A i \in 1..n : First(s, n)[i] = s[i]
        /\ Len(Rest(s, n)) = Len(s) - n
        /\ \A i \in 1..(Len(s) - n) : Rest(s, n)[i] = s[n + i]
  BY Split

(* All of it, or nothing.                                                  *)
LEMMA SplitEnds ==
    ASSUME NEW S, NEW s \in Seq(S)
    PROVE  /\ First(s, 0) = <<>> /\ Rest(s, 0) = s
           /\ First(s, Len(s)) = s /\ Rest(s, Len(s)) = <<>>
<1>1. First(s, 0) = <<>> /\ Rest(s, Len(s)) = <<>>
  BY SubSeqEmpty DEF First, Rest
<1>2. First(s, Len(s)) = s /\ Rest(s, 0) = s
  <2>1. SubSeq(s, 1, Len(s)) = s /\ 0 + 1 = 1
    BY SubSeqFull
  <2> QED
    BY <2>1 DEF First, Rest
<1> QED
  BY <1>1, <1>2

(* Two sequences joined.                                                   *)
LEMMA Joined ==
    ASSUME NEW S, NEW s \in Seq(S), NEW t \in Seq(S)
    PROVE  /\ s \o t \in Seq(S) /\ Len(s \o t) = Len(s) + Len(t)
           /\ \A i \in 1..Len(s) : (s \o t)[i] = s[i]
           /\ \A i \in 1..Len(t) : (s \o t)[Len(s) + i] = t[i]
  OBVIOUS

(* Taking the first k bytes of b first and the rest later comes to the     *)
(* same.                                                                   *)
LEMMA Rejoined ==
    \A S : \A y, b \in Seq(S) : \A k \in 0..Len(b) :
        (y \o First(b, k)) \o Rest(b, k) = y \o b
<1> TAKE S
<1> TAKE y, b \in Seq(S)
<1> TAKE k \in 0..Len(b)
<1> DEFINE f == First(b, k)
           g == Rest(b, k)
<1>1. f \in Seq(S) /\ g \in Seq(S) /\ f \o g = b
  BY Split
<1> HIDE DEF f, g
<1>2. \A s, t, u \in Seq(S) : (s \o t) \o u = s \o (t \o u)
  BY ConcatAssociative, SMTT(40)
<1>3. y \in Seq(S)
  OBVIOUS
<1>4. (y \o f) \o g = y \o (f \o g)
  BY ONLY <1>1, <1>2, <1>3, ZenonT(40)
<1> QED
  BY <1>1, <1>4 DEF f, g

(* The length of two sequences joined.                                     *)
LEMMA JoinedLen ==
    \A S : \A s, t \in Seq(S) :
        s \o t \in Seq(S) /\ Len(s \o t) = Len(s) + Len(t) /\ Len(s) \in Nat /\ Len(t) \in Nat
  OBVIOUS

(* The bytes of the stream.                                                *)
Byte == 1..MaxBytes

(* Bytes go from the front of x, and of b when x is used up, to the end of *)
(* t; nothing is lost and the order stays.                                 *)
LEMMA Moved ==
    \A t, x, b \in Seq(Byte) : \A r \in 0..Len(x), k \in 0..Len(b) :
        (k > 0 => r = Len(x)) =>
            ((t \o First(x, r)) \o First(b, k)) \o Rest(x, r) \o Rest(b, k) = t \o x \o b
<1> TAKE t, x, b \in Seq(Byte)
<1> TAKE r \in 0..Len(x), k \in 0..Len(b)
<1> HAVE k > 0 => r = Len(x)
<1>1. /\ First(x, r) \in Seq(Byte) /\ Rest(x, r) \in Seq(Byte)
      /\ First(b, k) \in Seq(Byte) /\ Rest(b, k) \in Seq(Byte)
  BY Split
<1>2. t \o First(x, r) \in Seq(Byte) /\ t \o x \in Seq(Byte)
  BY <1>1, ConcatProperties
<1>3. CASE k > 0
  <2>1. First(x, r) = x /\ Rest(x, r) = <<>>
    BY <1>3, SplitEnds
  <2>2. (t \o x) \o First(b, k) \in Seq(Byte)
    BY <1>1, <1>2, ConcatProperties
  <2>3. ((t \o x) \o First(b, k)) \o <<>> = (t \o x) \o First(b, k)
    BY <2>2, ConcatEmptySeq
  <2>4. ((t \o x) \o First(b, k)) \o Rest(b, k) = (t \o x) \o b
    <3>1. t \o x \in Seq(Byte) /\ b \in Seq(Byte) /\ k \in 0..Len(b)
      BY <1>2
    <3> QED
      BY ONLY <3>1, Rejoined, Zenon
  <2> QED
    BY ONLY <2>1, <2>3, <2>4, Zenon
<1>4. CASE ~(k > 0)
  <2>1. k = 0 /\ First(b, k) = <<>> /\ Rest(b, k) = b
    BY <1>4, SplitEnds
  <2>2. (t \o First(x, r)) \o <<>> = t \o First(x, r)
    BY <1>2, ConcatEmptySeq
  <2>3. (t \o First(x, r)) \o Rest(x, r) = t \o x
    <3>1. t \in Seq(Byte) /\ x \in Seq(Byte) /\ r \in 0..Len(x)
      OBVIOUS
    <3> QED
      BY ONLY <3>1, Rejoined, Zenon
  <2> QED
    BY ONLY <2>1, <2>2, <2>3, Zenon
<1> QED
  BY <1>3, <1>4

(* The first terminator, if there is one.                                  *)
LEMMA LineOf ==
    ASSUME NEW S, NEW s \in Seq(S)
    PROVE  /\ LineLength(s) \in 0..Len(s)
           /\ LineLength(s) = 0 => \A i \in 1..Len(s) : s[i] \notin Terminators
           /\ LineLength(s) > 0 => \A i \in 1..LineLength(s) :
                                     s[i] \in Terminators <=> i = LineLength(s)
<1> DEFINE ends == {i \in 1..Len(s) : s[i] \in Terminators}
           n == CHOOSE i \in ends : \A j \in ends : i <= j
<1>1. Len(s) \in Nat
  OBVIOUS
<1>2. CASE ends = {}
  <2>1. LineLength(s) = 0
    BY <1>2 DEF LineLength
  <2> QED
    BY <1>1, <1>2, <2>1
<1>3. CASE ends # {}
  <2>1. LineLength(s) = n
    BY <1>3 DEF LineLength
  <2>2. n \in ends /\ \A j \in ends : n <= j
    <3>1. ends \in SUBSET Nat
      OBVIOUS
    <3> HIDE DEF ends
    <3>2. \E i \in ends : \A j \in ends : i <= j
      BY <1>3, <3>1, LeastNumber
    <3> QED
      BY <3>2
  <2> HIDE DEF n
  <2>3. n \in 1..Len(s) /\ s[n] \in Terminators
    BY <2>2
  <2>4. ASSUME NEW i \in 1..n, s[i] \in Terminators PROVE i = n
    <3>1. i \in ends
      BY <2>3, <2>4, <1>1
    <3>2. n <= i
      BY <2>2, <3>1
    <3> QED
      BY <3>2, <2>3, <1>1
  <2> QED
    BY <2>1, <2>3, <2>4, <1>1
<1> QED
  BY <1>2, <1>3

(* No terminator in t after its first f bytes.                             *)
NoLine(t, f) == \A i \in (f + 1)..Len(t) : t[i] \notin Terminators

(* More bytes without a terminator add no line.                            *)
LEMMA NoLineJoined ==
    ASSUME NEW S, NEW t \in Seq(S), NEW u \in Seq(S), NEW f \in 0..Len(t), NoLine(t, f),
           \A i \in 1..Len(u) : u[i] \notin Terminators
    PROVE  NoLine(t \o u, f)
<1>1. /\ Len(t) \in Nat /\ Len(u) \in Nat /\ Len(t \o u) = Len(t) + Len(u) /\ f \in Nat
      /\ \A i \in 1..Len(t) : (t \o u)[i] = t[i]
      /\ \A i \in 1..Len(u) : (t \o u)[Len(t) + i] = u[i]
  BY Joined
<1> SUFFICES ASSUME NEW i \in (f + 1)..(Len(t) + Len(u))
             PROVE  (t \o u)[i] \notin Terminators
  BY <1>1 DEF NoLine
<1>2. CASE i <= Len(t)
  <2>1. i \in 1..Len(t) /\ i \in (f + 1)..Len(t)
    BY <1>1, <1>2
  <2> QED
    BY <2>1, <1>1 DEF NoLine
<1>3. CASE ~(i <= Len(t))
  <2>1. i - Len(t) \in 1..Len(u) /\ Len(t) + (i - Len(t)) = i
    BY <1>1, <1>3
  <2>2. (t \o u)[Len(t) + (i - Len(t))] = u[i - Len(t)]
    BY <2>1, <1>1
  <2> QED
    BY <2>1, <2>2
<1> QED
  BY <1>2, <1>3

(* A line that ends with u.                                                *)
LEMMA LineEnds ==
    ASSUME NEW S, NEW t \in Seq(S), NEW u \in Seq(S), NEW f \in 0..Len(t), NoLine(t, f),
           Len(u) > 0, \A i \in 1..Len(u) : u[i] \in Terminators <=> i = Len(u)
    PROVE  LET b == Rest(t \o u, f)
           IN  \A i \in 1..Len(b) : b[i] \in Terminators <=> i = Len(b)
<1> DEFINE a == t \o u
           b == Rest(a, f)
<1>1. /\ Len(t) \in Nat /\ Len(u) \in Nat /\ a \in Seq(S) /\ Len(a) = Len(t) + Len(u)
      /\ f \in Nat /\ f <= Len(t)
      /\ \A i \in 1..Len(t) : a[i] = t[i]
      /\ \A i \in 1..Len(u) : a[Len(t) + i] = u[i]
  BY Joined
<1> HIDE DEF a
<1>2. f \in 0..Len(a)
  BY <1>1
<1>3. Len(b) = Len(a) - f /\ \A i \in 1..(Len(a) - f) : b[i] = a[f + i]
  <2>1. a \in Seq(S)
    BY <1>1
  <2> QED
    BY ONLY <2>1, <1>2, SplitAll, ZenonT(30)
<1> HIDE DEF b
<1>4. ASSUME NEW i \in 1..Len(b) PROVE b[i] \in Terminators <=> i = Len(b)
  <2>1. i \in 1..(Len(a) - f) /\ b[i] = a[f + i] /\ f + i \in 1..Len(a)
        /\ (i = Len(b) <=> f + i = Len(t) + Len(u))
    BY <1>1, <1>3
  <2>2. CASE f + i <= Len(t)
    <3>1. f + i \in 1..Len(t) /\ f + i \in (f + 1)..Len(t) /\ f + i # Len(t) + Len(u)
      BY <2>1, <2>2, <1>1
    <3> QED
      BY <2>1, <3>1, <1>1 DEF NoLine
  <2>3. CASE ~(f + i <= Len(t))
    <3> DEFINE j == f + i - Len(t)
    <3>1. j \in 1..Len(u) /\ Len(t) + j = f + i /\ (j = Len(u) <=> f + i = Len(t) + Len(u))
      BY <2>1, <2>3, <1>1
    <3> HIDE DEF j
    <3>2. a[f + i] = u[j]
      BY <3>1, <1>1
    <3> QED
      BY <2>1, <3>1, <3>2
  <2> QED
    BY <2>2, <2>3
<1> QED
  BY <1>4 DEF a, b

-----------------------------------------------------------------------------
(* The inductive invariant: a read that is under way has got what is in    *)
(* taken after its beginning, and never a whole line.                      *)

ReadOK(r, t) ==
    /\ r.from \in 0..Len(t)
    /\ r.mode = "bytes" => r.size <= r.want /\ Len(t) = r.from + (r.want - r.size)
    /\ r.mode = "string" => NoLine(t, r.from)

Increasing(s, top) ==
    /\ \A i, j \in 1..Len(s) : i < j => s[i] < s[j]
    /\ \A i \in 1..Len(s) : s[i] <= top

Inv ==
    /\ TypeOK
    /\ pc \in {"loop", "stored"} => buf = <<>>
    /\ Increasing(Stream, arrived)
    /\ ReadOK(read, taken)
    /\ ResultExact

(* What an application's call leaves for the next _handleRxBuffer().       *)
ReaderKept ==
    /\ client' \in BOOLEAN /\ hasRx' \in BOOLEAN /\ read' \in Reads
    /\ ReadOK(read', taken')
    /\ result'.read \in Reads /\ ResultExact'

(* What _handleRxBuffer(b) does to the bytes.                              *)
Moves(b) ==
    \E r \in 0..Len(rxbuf), k \in 0..Len(b) :
        /\ k > 0 => r = Len(rxbuf)
        /\ rxbuf' = Rest(rxbuf, r)
        /\ taken' = (taken \o First(rxbuf, r)) \o First(b, k)
        /\ handled' = k

(* Bytes move from one place to the next: none is lost, doubled or         *)
(* overtaken.                                                              *)
LEMMA MovesKeep ==
    ASSUME rxbuf \in Seq(Byte), taken \in Seq(Byte), NEW b \in Seq(Byte), Moves(b)
    PROVE  /\ rxbuf' \in Seq(Byte) /\ taken' \in Seq(Byte) /\ handled' \in 0..Len(b)
           /\ Rest(b, handled') \in Seq(Byte)
           /\ taken' \o rxbuf' \o Rest(b, handled') = taken \o rxbuf \o b
           /\ Len(taken) <= Len(taken')
<1>1. PICK r \in 0..Len(rxbuf), k \in 0..Len(b) :
        /\ k > 0 => r = Len(rxbuf)
        /\ rxbuf' = Rest(rxbuf, r)
        /\ taken' = (taken \o First(rxbuf, r)) \o First(b, k)
        /\ handled' = k
  BY DEF Moves
<1>2. /\ First(rxbuf, r) \in Seq(Byte) /\ Rest(rxbuf, r) \in Seq(Byte)
      /\ Len(First(rxbuf, r)) = r /\ r \in Nat
  BY Split
<1>3. /\ First(b, k) \in Seq(Byte) /\ Rest(b, k) \in Seq(Byte) /\ Len(First(b, k)) = k
      /\ k \in Nat
  BY Split
<1>4. /\ taken \o First(rxbuf, r) \in Seq(Byte)
      /\ Len(taken \o First(rxbuf, r)) = Len(taken) + r /\ Len(taken) \in Nat
  BY ONLY <1>2, taken \in Seq(Byte), JoinedLen, Zenon
<1>5. taken' \in Seq(Byte) /\ Len(taken') = (Len(taken) + r) + k
  <2> DEFINE y == taken \o First(rxbuf, r)
             z == First(b, k)
  <2>1. y \in Seq(Byte) /\ z \in Seq(Byte) /\ Len(y) = Len(taken) + r /\ Len(z) = k
    BY <1>3, <1>4
  <2> HIDE DEF y, z
  <2>2. y \o z \in Seq(Byte) /\ Len(y \o z) = Len(y) + Len(z)
    BY ONLY <2>1, JoinedLen, Zenon
  <2>3. taken' = y \o z
    BY <1>1 DEF y, z
  <2> QED
    BY ONLY <2>1, <2>2, <2>3, Zenon
<1>6. taken' \o rxbuf' \o Rest(b, handled') = taken \o rxbuf \o b
  <2>1. ((taken \o First(rxbuf, r)) \o First(b, k)) \o Rest(rxbuf, r) \o Rest(b, k)
          = taken \o rxbuf \o b
    <3>1. k > 0 => r = Len(rxbuf)
      BY <1>1
    <3>2. taken \in Seq(Byte) /\ rxbuf \in Seq(Byte) /\ b \in Seq(Byte)
          /\ r \in 0..Len(rxbuf) /\ k \in 0..Len(b)
      OBVIOUS
    <3> QED
      BY ONLY <3>1, <3>2, Moved, ZenonT(40)
  <2> QED
    BY ONLY <2>1, <1>1, Zenon
<1> QED
  BY <1>1, <1>2, <1>3, <1>4, <1>5, <1>6

(* The handler's own calls.                                                *)
LEMMA CallsKeep ==
    ASSUME client \in BOOLEAN, hasRx \in BOOLEAN, NEW S, NEW t \in Seq(S), NEW r \in Reads,
           ReadOK(r, t), HandlerCalls(r, Len(t))
    PROVE  client' \in BOOLEAN /\ hasRx' \in BOOLEAN /\ read' \in Reads /\ ReadOK(read', t)
<1>1. Len(t) \in Nat
  OBVIOUS
<1>2. ASSUME NEW m \in Modes, NEW n \in Nat
      PROVE  Read(m, n, Len(t)) \in Reads /\ ReadOK(Read(m, n, Len(t)), t)
  <2>1. NoLine(t, Len(t))
    BY <1>1 DEF NoLine
  <2>2. Len(t) \in 0..Len(t) /\ n <= n /\ Len(t) = Len(t) + (n - n)
    BY <1>1
  <2> QED
    BY <1>1, <2>1, <2>2 DEF Read, Reads, ReadOK
<1>3. ASSUME NEW ask \in Asks(Len(t)) PROVE ask \in Reads /\ ReadOK(ask, t)
  <2>1. CASE ask \in {Read(m, 0, Len(t)) : m \in {"none", "free", "string", "void"}}
    BY <2>1, <1>2 DEF Modes
  <2>2. CASE ask \in {Read("bytes", n, Len(t)) : n \in 0..MaxRead}
    BY <2>2, <1>2 DEF Modes
  <2> QED
    BY <2>1, <2>2 DEF Asks
<1>4. CASE read' = r /\ UNCHANGED <<client, hasRx>>
  BY <1>4
<1>5. CASE /\ \E ask \in Asks(Len(t)) :
                /\ read' = ask
                /\ hasRx' = (hasRx \/ ask.mode = "free")
           /\ UNCHANGED client
  BY <1>3, <1>5
<1>6. CASE client' = FALSE /\ read' = Read("none", 0, Len(t)) /\ UNCHANGED hasRx
  BY <1>2, <1>6 DEF Modes
<1> QED
  BY <1>4, <1>5, <1>6 DEF HandlerCalls

(* The state in which _handleRxBuffer() is called.                         *)
Ready ==
    /\ client \in BOOLEAN /\ hasRx \in BOOLEAN /\ read \in Reads
    /\ rxbuf \in Seq(Byte) /\ taken \in Seq(Byte)
    /\ ReadOK(read, taken)
    /\ result.read \in Reads /\ ResultExact

(* The parts of the read in progress.                                      *)
LEMMA ReadParts ==
    ASSUME Ready
    PROVE  /\ read.mode \in Modes /\ read.size \in Nat /\ read.want \in Nat /\ read.from \in Nat
           /\ read.from <= Len(taken) /\ Len(taken) \in Nat /\ Len(rxbuf) \in Nat
           /\ read.from \in 0..Len(taken)
  BY DEF Ready, Reads, ReadOK

(* The last result stays exact when it stays.                              *)
LEMMA ResultSame == ASSUME Ready, result' = result PROVE result'.read \in Reads /\ ResultExact'
  BY DEF Ready, ResultExact

(* _handleRxBuffer() with no reader and no handler moves nothing.          *)
LEMMA NothingHandled ==
    ASSUME Ready, NEW b \in Seq(Byte), HandleNothing
    PROVE  Moves(b) /\ ReaderKept
<1>1. /\ handled' = 0 /\ client' = client /\ read' = read /\ hasRx' = hasRx
      /\ rxbuf' = rxbuf /\ taken' = taken /\ result' = result
  BY DEF HandleNothing
<1>2. Rest(rxbuf, 0) = rxbuf /\ First(rxbuf, 0) = <<>> /\ First(b, 0) = <<>>
  BY SplitEnds DEF Ready
<1>3. taken \o <<>> = taken
  BY ConcatEmptySeq DEF Ready
<1>4. 0 \in 0..Len(rxbuf) /\ 0 \in 0..Len(b) /\ ~(0 > 0)
  BY DEF Ready
<1>5. Moves(b)
  BY <1>1, <1>2, <1>3, <1>4, Zenon DEF Moves
<1>6. ReaderKept
  BY <1>1, ResultSame DEF ReaderKept, Ready
<1> QED
  BY <1>5, <1>6

(* The part of ReadOK that a read of the free mode needs.                  *)
LEMMA FreeHandled ==
    ASSUME Ready, NEW b \in Seq(Byte), read.mode = "free", HandleFree(b)
    PROVE  Moves(b) /\ ReaderKept
<1>1. PICK r \in 0..Len(rxbuf), k \in 0..Len(b) :
        /\ k > 0 => r = Len(rxbuf)
        /\ rxbuf' = Rest(rxbuf, r)
        /\ taken' = (taken \o First(rxbuf, r)) \o First(b, k)
        /\ handled' = k
        /\ HandlerCalls(read, Len(taken'))
        /\ result' = result
  BY DEF HandleFree, RemoveTaken
<1>2. Moves(b)
  BY <1>1 DEF Moves
<1>3. taken' \in Seq(Byte) /\ Len(taken) <= Len(taken')
  BY <1>2, MovesKeep DEF Ready
<1>4. ReadOK(read, taken')
  <2>1. read.from \in 0..Len(taken')
    BY <1>3, ReadParts
  <2> QED
    BY <2>1 DEF ReadOK
<1>5. client' \in BOOLEAN /\ hasRx' \in BOOLEAN /\ read' \in Reads /\ ReadOK(read', taken')
  BY <1>1, <1>3, <1>4, CallsKeep DEF Ready
<1> QED
  BY <1>1, <1>2, <1>5, ResultSame DEF ReaderKept

(* done(true) and what the handler calls then.                             *)
LEMMA DoneKeeps ==
    ASSUME Ready, taken' \in Seq(Byte), Done(taken'),
           LET c == Rest(taken', read.from)
           IN  /\ read.mode = "bytes" => Len(c) = read.want
               /\ read.mode = "string" =>
                    \A i \in 1..Len(c) : c[i] \in Terminators <=> i = Len(c)
    PROVE  ReaderKept
<1>1. /\ result' = [read |-> read, bytes |-> Rest(taken', read.from)]
      /\ HandlerCalls(Read("none", 0, Len(taken')), Len(taken'))
  BY DEF Done
<1>2. Len(taken') \in Nat
  OBVIOUS
<1>3. Read("none", 0, Len(taken')) \in Reads /\ ReadOK(Read("none", 0, Len(taken')), taken')
  BY <1>2 DEF Read, Reads, ReadOK, Modes
<1>4. client' \in BOOLEAN /\ hasRx' \in BOOLEAN /\ read' \in Reads /\ ReadOK(read', taken')
  BY <1>1, <1>3, CallsKeep DEF Ready
<1>5. result'.read \in Reads /\ ResultExact'
  BY <1>1 DEF ResultExact, Ready
<1> QED
  BY <1>4, <1>5 DEF ReaderKept

(* The smaller of two numbers.                                             *)
LEMMA LeastOf ==
    ASSUME NEW m \in Nat, NEW n \in Nat
    PROVE  Least(m, n) \in Nat /\ Least(m, n) <= m /\ Least(m, n) <= n
  BY DEF Least

(* readBytes()                                                             *)
LEMMA BytesHandled ==
    ASSUME Ready, NEW b \in Seq(Byte), read.mode = "bytes", HandleBytes(b)
    PROVE  Moves(b) /\ ReaderKept
<1> DEFINE n == Least(read.size, Len(rxbuf))
           m == BytesFromNew(b, n)
<1>1. /\ rxbuf' = Rest(rxbuf, n)
      /\ taken' = (taken \o First(rxbuf, n)) \o First(b, m)
      /\ handled' = m
      /\ IF read.size = n + m
           THEN Done(taken')
           ELSE /\ read' = [read EXCEPT !.size = @ - (n + m)]
                /\ UNCHANGED <<client, hasRx, result>>
  BY DEF HandleBytes
<1>2. /\ read.mode \in Modes /\ read.size \in Nat /\ read.want \in Nat /\ read.from \in Nat
      /\ read.from <= Len(taken) /\ Len(taken) \in Nat /\ Len(rxbuf) \in Nat
      /\ read.size <= read.want /\ Len(taken) = read.from + (read.want - read.size)
      /\ Len(b) \in Nat /\ read.from \in 0..Len(taken)
  BY ReadParts DEF Ready, ReadOK
<1>3. n \in Nat /\ n <= read.size /\ n <= Len(rxbuf) /\ n \in 0..Len(rxbuf)
  <2>1. n \in Nat /\ n <= read.size /\ n <= Len(rxbuf)
    BY <1>2, LeastOf
  <2> HIDE DEF n
  <2> QED
    BY <2>1, <1>2
<1> HIDE DEF n
<1>4. m \in Nat /\ n + m <= read.size /\ m \in 0..Len(b) /\ (m > 0 => n = Len(rxbuf))
  <2>1. CASE n = Len(rxbuf)
    <3>1. read.size - n \in Nat
      BY <1>2, <1>3
    <3>2. m = Least(read.size - n, Len(b))
      BY <2>1 DEF BytesFromNew
    <3>3. m \in Nat /\ m <= read.size - n /\ m <= Len(b)
      BY <3>1, <3>2, <1>2, LeastOf
    <3> HIDE DEF m
    <3> QED
      BY <3>3, <2>1, <1>2, <1>3
  <2>2. CASE n # Len(rxbuf)
    <3>1. m = 0
      BY <2>2 DEF BytesFromNew
    <3> HIDE DEF m
    <3> QED
      BY <3>1, <1>2, <1>3
  <2> QED
    BY <2>1, <2>2
<1> HIDE DEF m
<1>5. Moves(b)
  BY <1>1, <1>3, <1>4, Zenon DEF Moves
<1>6. taken' \in Seq(Byte) /\ Len(taken') = Len(taken) + (n + m)
  <2> DEFINE f == First(rxbuf, n)
             g == First(b, m)
  <2>1. f \in Seq(Byte) /\ Len(f) = n /\ g \in Seq(Byte) /\ Len(g) = m
    BY <1>3, <1>4, Split DEF Ready
  <2>2. taken' = (taken \o f) \o g /\ taken \in Seq(Byte)
    BY <1>1 DEF Ready
  <2> HIDE DEF f, g
  <2>3. taken \o f \in Seq(Byte) /\ Len(taken \o f) = Len(taken) + n
    BY ONLY <2>1, <2>2, JoinedLen, Zenon
  <2>4. (taken \o f) \o g \in Seq(Byte) /\ Len((taken \o f) \o g) = (Len(taken) + n) + m
    <3> DEFINE y == taken \o f
    <3>1. y \in Seq(Byte) /\ Len(y) = Len(taken) + n
      BY <2>3
    <3> HIDE DEF y
    <3>2. y \o g \in Seq(Byte) /\ Len(y \o g) = Len(y) + Len(g)
      BY ONLY <3>1, <2>1, JoinedLen, Zenon
    <3>3. y \o g \in Seq(Byte) /\ Len(y \o g) = (Len(taken) + n) + m
      BY ONLY <3>1, <3>2, <2>1, Zenon
    <3> QED
      BY <3>3 DEF y
  <2>5. (Len(taken) + n) + m = Len(taken) + (n + m)
    BY <1>2, <1>3, <1>4
  <2> QED
    BY ONLY <2>2, <2>4, <2>5, Zenon
<1>7. CASE read.size = n + m
  <2>1. Done(taken')
    BY <1>1, <1>7
  <2>2. read.from \in 0..Len(taken') /\ Len(taken') - read.from = read.want
    BY <1>2, <1>3, <1>4, <1>6, <1>7
  <2>3. Len(Rest(taken', read.from)) = Len(taken') - read.from
    BY <1>6, <2>2, Split
  <2>4. ReaderKept
    BY <1>6, <2>1, <2>2, <2>3, DoneKeeps
  <2> QED
    BY <1>5, <2>4
<1>8. CASE read.size # n + m
  <2> DEFINE z == read.size - (n + m)
  <2>1. z \in Nat /\ z <= read.want /\ Len(taken') = read.from + (read.want - z)
        /\ read.from \in 0..Len(taken')
    <3>1. \A sz, wt, fr, q \in Nat : q <= sz /\ sz <= wt =>
            /\ sz - q \in Nat /\ sz - q <= wt
            /\ (fr + (wt - sz)) + q = fr + (wt - (sz - q))
            /\ fr \in 0..(fr + (wt - (sz - q)))
      OBVIOUS
    <3>2. n + m \in Nat
      BY <1>3, <1>4
    <3> QED
      <4>1. /\ z \in Nat /\ z <= read.want
            /\ (read.from + (read.want - read.size)) + (n + m) = read.from + (read.want - z)
            /\ read.from \in 0..(read.from + (read.want - z))
        BY ONLY <3>1, <3>2, <1>2, <1>4, Zenon
      <4>2. Len(taken') = (read.from + (read.want - read.size)) + (n + m)
        BY ONLY <1>2, <1>6, Zenon
      <4> HIDE DEF z
      <4>3. Len(taken') = read.from + (read.want - z)
        BY ONLY <4>1, <4>2, Zenon
      <4> QED
        BY ONLY <4>1, <4>3, Zenon
  <2>2. read' = [read EXCEPT !.size = z] /\ client' = client /\ hasRx' = hasRx
        /\ result' = result
    BY <1>1, <1>8
  <2> HIDE DEF z
  <2>3. read \in Reads /\ client \in BOOLEAN /\ hasRx \in BOOLEAN
    BY DEF Ready
  <2>4. read' \in Reads /\ read'.size = z /\ read'.want = read.want /\ read'.from = read.from
        /\ read'.mode = "bytes"
    BY <2>1, <2>2, <2>3 DEF Reads
  <2>5. ReadOK(read', taken')
    BY <2>1, <2>4 DEF ReadOK
  <2>6. ReaderKept
    BY <2>2, <2>3, <2>4, <2>5, ResultSame DEF ReaderKept
  <2> QED
    BY <1>5, <2>6
<1> QED
  BY <1>7, <1>8

(* readStringUntil()                                                       *)
LEMMA StringHandled ==
    ASSUME Ready, NEW b \in Seq(Byte), read.mode = "string", HandleString(b)
    PROVE  Moves(b) /\ ReaderKept
<1> DEFINE n == LineLength(rxbuf)
           m == LineLength(b)
<1>1. /\ read.mode \in Modes /\ read.from \in Nat /\ read.from <= Len(taken)
      /\ Len(taken) \in Nat /\ Len(rxbuf) \in Nat /\ Len(b) \in Nat
      /\ read.from \in 0..Len(taken) /\ NoLine(taken, read.from)
      /\ taken \in Seq(Byte) /\ rxbuf \in Seq(Byte)
      /\ client \in BOOLEAN /\ hasRx \in BOOLEAN /\ read \in Reads
  BY ReadParts DEF Ready, ReadOK
<1>2. /\ n \in 0..Len(rxbuf)
      /\ n = 0 => \A i \in 1..Len(rxbuf) : rxbuf[i] \notin Terminators
      /\ n > 0 => \A i \in 1..n : rxbuf[i] \in Terminators <=> i = n
  BY <1>1, LineOf
<1>3. /\ m \in 0..Len(b)
      /\ m = 0 => \A i \in 1..Len(b) : b[i] \notin Terminators
      /\ m > 0 => \A i \in 1..m : b[i] \in Terminators <=> i = m
  BY <1>1, LineOf
<1>4. /\ rxbuf' = IF n > 0 THEN Rest(rxbuf, n) ELSE <<>>
      /\ taken' = IF n > 0 THEN taken \o First(rxbuf, n)
                  ELSE taken \o rxbuf \o (IF m > 0 THEN First(b, m) ELSE b)
      /\ handled' = IF n > 0 THEN 0 ELSE IF m > 0 THEN m ELSE Len(b)
      /\ IF n > 0 \/ m > 0
           THEN Done(taken')
           ELSE UNCHANGED <<client, read, hasRx, result>>
  BY DEF HandleString
<1> HIDE DEF n, m
<1>5. CASE n > 0
  <2> DEFINE f == First(rxbuf, n)
  <2>1. rxbuf' = Rest(rxbuf, n) /\ taken' = taken \o f /\ handled' = 0 /\ Done(taken')
    BY <1>4, <1>5
  <2>2. f \in Seq(Byte) /\ Len(f) = n /\ \A i \in 1..n : f[i] = rxbuf[i]
    <3>1. rxbuf \in Seq(Byte) /\ n \in 0..Len(rxbuf)
      BY <1>1, <1>2
    <3> QED
      BY <3>1, Split
  <2> HIDE DEF f
  <2>3. taken \o f \in Seq(Byte)
    BY <1>1, <2>2, JoinedLen
  <2>4. First(b, 0) = <<>> /\ (taken \o f) \o <<>> = taken \o f
    BY <2>3, SplitEnds, ConcatEmptySeq
  <2>5. 0 \in 0..Len(b) /\ ~(0 > 0) /\ n \in 0..Len(rxbuf)
    BY <1>1, <1>2
  <2>6. Moves(b)
    <3>1. taken' = (taken \o First(rxbuf, n)) \o First(b, 0)
      BY ONLY <2>1, <2>4, Zenon DEF f
    <3> QED
      BY <2>1, <2>5, <3>1, Zenon DEF Moves
  <2>7. \A i \in 1..Len(f) : f[i] \in Terminators <=> i = Len(f)
    BY <1>2, <1>5, <2>2
  <2>8. LET c == Rest(taken \o f, read.from)
        IN  \A i \in 1..Len(c) : c[i] \in Terminators <=> i = Len(c)
    BY <1>1, <1>5, <2>2, <2>7, LineEnds, SMTT(40)
  <2>9. ReaderKept
    BY <2>1, <2>3, <2>8, DoneKeeps
  <2> QED
    BY <2>6, <2>9
<1>6. CASE ~(n > 0)
  <2> DEFINE k == IF m > 0 THEN m ELSE Len(b)
             t == taken \o rxbuf
             u == First(b, k)
  <2>1. n = 0 /\ \A i \in 1..Len(rxbuf) : rxbuf[i] \notin Terminators
    BY <1>1, <1>2, <1>6
  <2>2. First(rxbuf, Len(rxbuf)) = rxbuf /\ Rest(rxbuf, Len(rxbuf)) = <<>>
    BY <1>1, SplitEnds
  <2>3. k \in 0..Len(b) /\ k \in Nat /\ Len(rxbuf) \in 0..Len(rxbuf)
    BY <1>1, <1>3
  <2>4. u = IF m > 0 THEN First(b, m) ELSE b
    BY SplitEnds
  <2>5. rxbuf' = <<>> /\ taken' = t \o u /\ handled' = k
    BY ONLY <1>4, <1>6, <2>4, Zenon
  <2>6. u \in Seq(Byte) /\ Len(u) = k /\ \A i \in 1..k : u[i] = b[i]
    BY <2>3, Split
  <2>7. Moves(b)
    <3>1. taken' = (taken \o First(rxbuf, Len(rxbuf))) \o First(b, k)
      BY ONLY <2>2, <2>5, Zenon
    <3>2. rxbuf' = Rest(rxbuf, Len(rxbuf))
      BY <2>2, <2>5
    <3> HIDE DEF k
    <3> QED
      BY <2>3, <2>5, <3>1, <3>2, Zenon DEF Moves
  <2>8. t \in Seq(Byte) /\ Len(t) = Len(taken) + Len(rxbuf)
    BY <1>1, JoinedLen
  <2>9. NoLine(t, read.from) /\ read.from \in 0..Len(t)
    <3>1. NoLine(taken \o rxbuf, read.from)
      BY <1>1, <2>1, NoLineJoined
    <3>2. \A x, y, z \in Nat : x <= y => x \in 0..(y + z)
      OBVIOUS
    <3> QED
      BY ONLY <3>1, <3>2, <1>1, <2>8, Zenon
  <2> HIDE DEF t, u
  <2>10. taken' \in Seq(Byte)
    BY <2>5, <2>6, <2>8, JoinedLen
  <2>11. CASE m > 0
    <3>1. Done(taken')
      BY <1>4, <2>11
    <3>2. Len(u) > 0 /\ \A i \in 1..Len(u) : u[i] \in Terminators <=> i = Len(u)
      <4>1. k = m
        BY <2>11
      <4> HIDE DEF k
      <4> QED
        BY <4>1, <1>3, <2>6, <2>11
    <3>3. LET c == Rest(t \o u, read.from)
          IN  \A i \in 1..Len(c) : c[i] \in Terminators <=> i = Len(c)
      BY <3>2, <2>6, <2>8, <2>9, LineEnds
    <3>4. ReaderKept
      BY <3>1, <3>3, <2>5, <2>10, DoneKeeps
    <3> QED
      BY <3>4, <2>7
  <2>12. CASE ~(m > 0)
    <3>1. client' = client /\ read' = read /\ hasRx' = hasRx /\ result' = result
      BY <1>4, <1>6, <2>12
    <3>2. \A i \in 1..Len(u) : u[i] \notin Terminators
      <4>1. k = Len(b) /\ m = 0
        BY <2>12, <1>3, <1>1
      <4> HIDE DEF k
      <4> QED
        BY <4>1, <1>3, <2>6
    <3>3. NoLine(t \o u, read.from)
      BY <3>2, <2>6, <2>8, <2>9, NoLineJoined
    <3>4. read.from \in 0..Len(taken')
      <4>1. Len(taken') = Len(t) + Len(u)
        BY ONLY <2>5, <2>6, <2>8, JoinedLen, Zenon
      <4>2. Len(t) \in Nat /\ Len(u) \in Nat /\ read.from \in Nat /\ read.from <= Len(t)
        BY <2>3, <2>6, <2>8, <2>9, <1>1
      <4> QED
        BY <4>1, <4>2
    <3>5. ReadOK(read', taken')
      BY <3>1, <3>3, <3>4, <2>5 DEF ReadOK
    <3>6. ReaderKept
      BY <3>1, <3>5, <1>1, ResultSame DEF ReaderKept
    <3> QED
      BY <3>6, <2>7
  <2> QED
    BY <2>11, <2>12
<1> QED
  BY <1>5, <1>6

(* All of _handleRxBuffer().                                               *)
LEMMA HandleKeeps ==
    ASSUME Ready, NEW b \in Seq(Byte), HandleRxBuffer(b)
    PROVE  Moves(b) /\ ReaderKept
<1>1. client \in BOOLEAN /\ read.mode \in {"none", "free", "bytes", "string", "void"}
  BY ReadParts DEF Ready, Modes
<1>2. \/ HandleNothing
      \/ read.mode = "free" /\ HandleFree(b)
      \/ read.mode = "bytes" /\ HandleBytes(b)
      \/ read.mode = "string" /\ HandleString(b)
  BY <1>1 DEF HandleRxBuffer
<1> QED
  BY <1>2, NothingHandled, FreeHandled, BytesHandled, StringHandled

-----------------------------------------------------------------------------
(* The steps.                                                              *)

(* The invariant in the words of the lemmas above.                         *)
LEMMA InvParts ==
    ASSUME Inv
    PROVE  /\ Ready /\ buf \in Seq(Byte) /\ arrived \in Nat /\ arrived <= MaxBytes
           /\ MaxBytes \in Nat /\ up \in BOOLEAN /\ alloc \in BOOLEAN /\ handled \in Nat
           /\ pc \in {"loop", "first", "direct", "store", "stored"}
           /\ pc \in {"loop", "stored"} => buf = <<>>
           /\ Increasing(Stream, arrived)
  BY RxAssumption DEF Inv, TypeOK, Ready, Byte

(* What a step has to show for the invariant.                              *)
LEMMA InvWhole ==
    ASSUME ReaderKept, rxbuf' \in Seq(Byte), taken' \in Seq(Byte), buf' \in Seq(Byte),
           arrived' \in 0..MaxBytes, up' \in BOOLEAN, alloc' \in BOOLEAN, handled' \in Nat,
           pc' \in {"loop", "first", "direct", "store", "stored"},
           pc' \in {"loop", "stored"} => buf' = <<>>,
           Increasing(Stream', arrived')
    PROVE  Inv'
  BY DEF Inv, TypeOK, ReaderKept, Byte

(* A step that leaves the reader and what it has got alone.                *)
LEMMA ReaderSame ==
    ASSUME Ready, client' \in BOOLEAN, hasRx' \in BOOLEAN, read' = read, taken' = taken,
           result' = result
    PROVE  ReaderKept
  BY ResultSame DEF Ready, ReaderKept

(* One call of _handleRxBuffer(b), where b is the pbuf's rest or nothing.  *)
LEMMA Handed ==
    ASSUME Inv, NEW b \in Seq(Byte), HandleRxBuffer(b)
    PROVE  /\ ReaderKept /\ rxbuf' \in Seq(Byte) /\ taken' \in Seq(Byte) /\ handled' \in Nat
           /\ Rest(b, handled') \in Seq(Byte)
           /\ taken' \o rxbuf' \o Rest(b, handled') = taken \o rxbuf \o b
<1>1. Moves(b) /\ ReaderKept
  BY InvParts, HandleKeeps
<1>2. rxbuf \in Seq(Byte) /\ taken \in Seq(Byte)
  BY InvParts DEF Ready
<1>3. /\ rxbuf' \in Seq(Byte) /\ taken' \in Seq(Byte) /\ handled' \in 0..Len(b)
      /\ Rest(b, handled') \in Seq(Byte)
      /\ taken' \o rxbuf' \o Rest(b, handled') = taken \o rxbuf \o b
  BY <1>1, <1>2, MovesKeep
<1>4. handled' \in Nat
  BY <1>3
<1> QED
  BY <1>1, <1>3, <1>4

(* _rxData() hands the pbuf on once; what is buffered goes before it.      *)
LEMMA FirstStep ==
    ASSUME Inv, HandFirst
    PROVE  Inv' /\ Stream' = Stream
<1>1. /\ HandleRxBuffer(buf) /\ buf' = Rest(buf, handled') /\ pc' \in {"direct", "store"}
      /\ up' = up /\ alloc' = alloc /\ arrived' = arrived
  BY DEF HandFirst
<1>2. /\ ReaderKept /\ rxbuf' \in Seq(Byte) /\ taken' \in Seq(Byte) /\ handled' \in Nat
      /\ buf' \in Seq(Byte) /\ taken' \o rxbuf' \o buf' = taken \o rxbuf \o buf
  BY <1>1, InvParts, Handed
<1>3. Stream' = Stream
  BY <1>2 DEF Stream
<1>4. arrived \in 0..MaxBytes /\ Increasing(Stream', arrived') /\ up \in BOOLEAN /\ alloc \in BOOLEAN
  BY <1>1, <1>3, InvParts
<1>5. Inv'
  BY <1>1, <1>2, <1>4, InvWhole
<1> QED
  BY <1>3, <1>5

(* With nothing buffered it goes on while the readers take something.      *)
LEMMA OnStep ==
    ASSUME Inv, HandOn
    PROVE  Inv' /\ Stream' = Stream
<1>1. up' = up /\ alloc' = alloc /\ arrived' = arrived /\ pc = "direct"
  BY DEF HandOn
<1>2. CASE WhileTaken
  <2>1. HandleRxBuffer(buf) /\ buf' = Rest(buf, handled') /\ pc' = "direct"
    BY <1>1, <1>2 DEF HandOn
  <2>2. /\ ReaderKept /\ rxbuf' \in Seq(Byte) /\ taken' \in Seq(Byte) /\ handled' \in Nat
        /\ buf' \in Seq(Byte) /\ taken' \o rxbuf' \o buf' = taken \o rxbuf \o buf
    BY <2>1, InvParts, Handed
  <2>3. Stream' = Stream
    BY <2>2 DEF Stream
  <2>4. arrived \in 0..MaxBytes /\ Increasing(Stream', arrived') /\ up \in BOOLEAN /\ alloc \in BOOLEAN
    BY <1>1, <2>3, InvParts
  <2>5. Inv'
    BY <1>1, <2>1, <2>2, <2>4, InvWhole
  <2> QED
    BY <2>3, <2>5
<1>3. CASE ~WhileTaken
  <2>1. /\ pc' = "store" /\ client' = client /\ read' = read /\ hasRx' = hasRx
        /\ rxbuf' = rxbuf /\ buf' = buf /\ handled' = handled /\ taken' = taken
        /\ result' = result
    BY <1>3 DEF HandOn
  <2>2. Stream' = Stream
    BY <2>1 DEF Stream
  <2>3. ReaderKept
    BY <2>1, InvParts, ReaderSame DEF Ready
  <2>4. arrived \in 0..MaxBytes /\ Increasing(Stream', arrived') /\ up \in BOOLEAN /\ alloc \in BOOLEAN
    BY <1>1, <2>2, InvParts
  <2>5. Inv'
    BY <1>1, <2>1, <2>3, <2>4, InvParts, InvWhole DEF Ready
  <2> QED
    BY <2>2, <2>5
<1> QED
  BY <1>2, <1>3

(* What was stored is offered again while the readers take something.      *)
LEMMA StoredStep ==
    ASSUME Inv, HandStored
    PROVE  Inv' /\ Stream' = Stream
<1>1. /\ pc = "stored" /\ HandleRxBuffer(<<>>) /\ pc' \in {"stored", "loop"}
      /\ up' = up /\ alloc' = alloc /\ arrived' = arrived /\ buf' = buf
  BY DEF HandStored
<1>2. buf = <<>> /\ <<>> \in Seq(Byte)
  BY <1>1, InvParts
<1>3. /\ ReaderKept /\ rxbuf' \in Seq(Byte) /\ taken' \in Seq(Byte) /\ handled' \in Nat
      /\ taken' \o rxbuf' \o Rest(<<>>, handled') = taken \o rxbuf \o <<>>
  BY <1>1, <1>2, Handed
<1>4. Rest(<<>>, handled') = <<>>
  <2>1. Moves(<<>>)
    BY <1>1, <1>2, InvParts, HandleKeeps
  <2>2. handled' \in 0..Len(<<>>)
    BY <2>1 DEF Moves
  <2>3. Len(<<>>) = 0 /\ handled' = 0
    BY <2>2
  <2> QED
    BY <1>2, <2>3, SplitEnds
<1>5. Stream' = Stream
  <2>1. taken' \o rxbuf' \o buf' = taken \o rxbuf \o buf
    BY ONLY <1>1, <1>2, <1>3, <1>4, Zenon
  <2> QED
    BY <2>1 DEF Stream
<1>6. arrived \in 0..MaxBytes /\ Increasing(Stream', arrived') /\ up \in BOOLEAN /\ alloc \in BOOLEAN
  BY <1>1, <1>5, InvParts
<1>7. Inv'
  BY <1>1, <1>2, <1>3, <1>6, InvWhole
<1> QED
  BY <1>5, <1>7

(* A shorter stream is still in order.                                     *)
LEMMA IncreasingFirst ==
    ASSUME NEW s \in Seq(Byte), NEW top, Increasing(s, top),
           NEW z \in Seq(Byte), Len(z) <= Len(s), \A i \in 1..Len(z) : z[i] = s[i]
    PROVE  Increasing(z, top)
<1>1. Len(z) \in Nat /\ Len(s) \in Nat /\ \A i \in 1..Len(z) : i \in 1..Len(s)
  OBVIOUS
<1> QED
  BY <1>1 DEF Increasing

(* The bytes of the next pbuf come after those before it.                  *)
LEMMA IncreasingMore ==
    ASSUME NEW s \in Seq(Byte), NEW top \in Nat, NEW n \in Nat, top + n <= MaxBytes,
           Increasing(s, top)
    PROVE  LET u == [i \in 1..n |-> top + i]
           IN  u \in Seq(Byte) /\ Increasing(s \o u, top + n)
<1> DEFINE u == [i \in 1..n |-> top + i]
           z == s \o u
<1>1. u \in Seq(Byte) /\ Len(u) = n /\ \A i \in 1..n : u[i] = top + i
  BY RxAssumption DEF Byte
<1> HIDE DEF u
<1>2. /\ z \in Seq(Byte) /\ Len(z) = Len(s) + n /\ Len(s) \in Nat
      /\ \A i \in 1..Len(s) : z[i] = s[i]
      /\ \A i \in 1..n : z[Len(s) + i] = u[i]
  <2>1. s \in Seq(Byte) /\ u \in Seq(Byte) /\ Len(u) = n
    BY <1>1
  <2>2. /\ s \o u \in Seq(Byte) /\ Len(s \o u) = Len(s) + Len(u) /\ Len(s) \in Nat
        /\ \A i \in 1..Len(s) : (s \o u)[i] = s[i]
        /\ \A i \in 1..Len(u) : (s \o u)[Len(s) + i] = u[i]
    BY ONLY <2>1
  <2> QED
    BY ONLY <2>1, <2>2, Zenon
<1> HIDE DEF z
<1>3. ASSUME NEW i \in 1..Len(z)
      PROVE  \/ i \in 1..Len(s) /\ z[i] = s[i] /\ z[i] <= top
             \/ i > Len(s) /\ z[i] = top + (i - Len(s))
  <2>1. CASE i <= Len(s)
    BY <2>1, <1>2 DEF Increasing
  <2>2. CASE ~(i <= Len(s))
    <3>1. i - Len(s) \in 1..n /\ Len(s) + (i - Len(s)) = i
      BY <2>2, <1>2
    <3>2. z[Len(s) + (i - Len(s))] = u[i - Len(s)]
      BY <3>1, <1>2
    <3>3. z[i] = top + (i - Len(s))
      BY <3>1, <3>2, <1>1
    <3> QED
      BY <3>3, <2>2, <1>2
  <2> QED
    BY <2>1, <2>2
<1>4. \A i \in 1..Len(s) : s[i] \in Nat
  BY RxAssumption DEF Byte
<1>5. ASSUME NEW i \in 1..Len(z), NEW j \in 1..Len(z), i < j PROVE z[i] < z[j]
  <2>1. CASE j <= Len(s)
    BY <2>1, <1>2, <1>3, <1>5 DEF Increasing
  <2>2. CASE ~(j <= Len(s))
    <3>1. z[j] = top + (j - Len(s)) /\ j > Len(s)
      BY <2>2, <1>2, <1>3
    <3>2. CASE i \in 1..Len(s) /\ z[i] = s[i] /\ z[i] <= top
      BY <3>1, <3>2, <1>2, <1>4
    <3>3. CASE i > Len(s) /\ z[i] = top + (i - Len(s))
      BY <3>1, <3>3, <1>2, <1>5
    <3> QED
      BY <3>2, <3>3, <1>3
  <2> QED
    BY <2>1, <2>2
<1>6. ASSUME NEW i \in 1..Len(z) PROVE z[i] <= top + n
  <2>1. CASE i \in 1..Len(s) /\ z[i] = s[i] /\ z[i] <= top
    BY <2>1, <1>4
  <2>2. CASE i > Len(s) /\ z[i] = top + (i - Len(s))
    BY <2>2, <1>2
  <2> QED
    BY <2>1, <2>2, <1>3
<1>7. Increasing(z, top + n)
  BY <1>5, <1>6 DEF Increasing
<1> QED
  BY <1>1, <1>7 DEF u, z

(* What the pbuf's rest leaves in _RXbuffer when memory runs out: the      *)
(* stream loses its end.                                                   *)
LEMMA StoreStep ==
    ASSUME Inv, Store
    PROVE  Inv'
<1>1. PICK k \in 0..Len(buf) : rxbuf' = rxbuf \o First(buf, k)
  BY DEF Store
<1>2. /\ buf' = <<>> /\ pc' \in {"stored", "loop"}
      /\ client' = client /\ up' = up /\ alloc' = alloc /\ read' = read /\ hasRx' = hasRx
      /\ handled' = handled /\ arrived' = arrived /\ taken' = taken /\ result' = result
  BY DEF Store
<1>3. /\ Ready /\ buf \in Seq(Byte) /\ rxbuf \in Seq(Byte) /\ taken \in Seq(Byte)
      /\ Increasing(Stream, arrived)
  BY InvParts DEF Ready
<1> DEFINE f == First(buf, k)
<1>4. f \in Seq(Byte) /\ Len(f) = k /\ k <= Len(buf) /\ \A i \in 1..k : f[i] = buf[i]
  <2>1. f \in Seq(Byte) /\ Len(f) = k /\ \A i \in 1..k : f[i] = buf[i]
    BY ONLY <1>3, <1>1, SplitAll, ZenonT(30)
  <2> QED
    BY <2>1, <1>3
<1> HIDE DEF f
<1>5. rxbuf' = rxbuf \o f /\ rxbuf' \in Seq(Byte)
  BY <1>1, <1>3, <1>4, JoinedLen DEF f
<1> DEFINE y == taken \o rxbuf
<1>6. y \in Seq(Byte)
  BY <1>3, JoinedLen
<1>7. taken \o (rxbuf \o f) = y \o f
  <2>1. \A s, t, u \in Seq(Byte) : (s \o t) \o u = s \o (t \o u)
    BY ConcatAssociative, SMTT(40)
  <2> QED
    BY ONLY <1>3, <1>4, <2>1, Zenon
<1> HIDE DEF y
<1>8. y \o f \in Seq(Byte) /\ y \o buf \in Seq(Byte) /\ (y \o f) \o <<>> = y \o f
  <2>1. y \o f \in Seq(Byte) /\ y \o buf \in Seq(Byte)
    BY <1>3, <1>4, <1>6, JoinedLen
  <2> QED
    BY <2>1, ConcatEmptySeq
<1>9. Stream = y \o buf /\ Stream' = y \o f
  <2>1. Stream = y \o buf
    BY DEF Stream, y
  <2>2. Stream' = (taken \o (rxbuf \o f)) \o <<>>
    BY <1>2, <1>5 DEF Stream
  <2> QED
    BY ONLY <2>1, <2>2, <1>7, <1>8, Zenon
<1>10. /\ Len(y \o f) <= Len(y \o buf)
       /\ \A i \in 1..Len(y \o f) : (y \o f)[i] = (y \o buf)[i]
  BY ONLY <1>3, <1>4, <1>6, <1>1
<1>11. Increasing(y \o f, arrived)
  <2> DEFINE s == y \o buf
             z == y \o f
  <2>1. /\ s \in Seq(Byte) /\ z \in Seq(Byte) /\ Len(z) <= Len(s)
        /\ \A i \in 1..Len(z) : z[i] = s[i]
        /\ Increasing(s, arrived)
    BY <1>3, <1>8, <1>9, <1>10
  <2> HIDE DEF s, z
  <2>2. Increasing(z, arrived)
    BY <2>1, IncreasingFirst
  <2> QED
    BY <2>2 DEF z
<1>12. Increasing(Stream', arrived')
  BY ONLY <1>2, <1>9, <1>11, Zenon
<1>13. ReaderKept
  BY <1>2, <1>3, ReaderSame DEF Ready
<1>14. /\ taken' \in Seq(Byte) /\ buf' \in Seq(Byte) /\ arrived' \in 0..MaxBytes
       /\ up' \in BOOLEAN /\ alloc' \in BOOLEAN /\ handled' \in Nat
  BY <1>2, <1>3, InvParts
<1> QED
  BY <1>2, <1>5, <1>12, <1>13, <1>14, InvWhole

(* The next pbuf.                                                          *)
LEMMA DataStep ==
    ASSUME Inv, NEW n \in 1..MaxPbuf, NEW fin \in BOOLEAN, RxData(n, fin)
    PROVE  Inv'
<1>1. /\ pc = "loop" /\ arrived + n <= MaxBytes /\ arrived' = arrived + n /\ up' = ~fin
      /\ alloc' = alloc
      /\ client' = client /\ read' = read /\ hasRx' = hasRx /\ rxbuf' = rxbuf
      /\ handled' = handled /\ taken' = taken /\ result' = result
      /\ \/ /\ buf' = [i \in 1..n |-> arrived + i]
            /\ pc' \in {"store", "first"}
         \/ buf' = buf /\ pc' = pc
  BY DEF RxData
<1>2. /\ Ready /\ buf = <<>> /\ rxbuf \in Seq(Byte) /\ taken \in Seq(Byte)
      /\ Increasing(Stream, arrived) /\ arrived \in Nat /\ n \in Nat /\ handled \in Nat
      /\ arrived + n \in 0..MaxBytes /\ alloc \in BOOLEAN
  BY <1>1, InvParts, RxAssumption DEF Ready
<1> DEFINE y == taken \o rxbuf
           u == [i \in 1..n |-> arrived + i]
<1>3. y \in Seq(Byte) /\ y \o <<>> = y
  <2>1. y \in Seq(Byte)
    BY <1>2, JoinedLen
  <2> QED
    BY <2>1, ConcatEmptySeq
<1>4. Stream = y
  BY <1>2, <1>3 DEF Stream
<1> HIDE DEF y
<1>5. u \in Seq(Byte) /\ Increasing(y \o u, arrived + n)
  BY <1>1, <1>2, <1>3, <1>4, IncreasingMore
<1> HIDE DEF u
<1>6. ReaderKept
  BY <1>1, <1>2, ReaderSame DEF Ready
<1>7. CASE buf' = u /\ pc' \in {"store", "first"}
  <2>1. Stream' = y \o u
    BY <1>1, <1>7 DEF Stream, y
  <2>2. Increasing(Stream', arrived')
    BY ONLY <2>1, <1>1, <1>5, Zenon
  <2> QED
    BY <2>2, <1>1, <1>2, <1>5, <1>6, <1>7, InvWhole
<1>8. CASE buf' = buf /\ pc' = pc
  <2>1. Stream' = Stream
    BY <1>1, <1>8 DEF Stream
  <2>2. Increasing(Stream, arrived + n)
    <3>1. \A i \in 1..Len(y) : y[i] \in Nat
      BY <1>3, RxAssumption DEF Byte
    <3> QED
      BY <1>2, <1>4, <3>1 DEF Increasing
  <2>3. Increasing(Stream', arrived')
    BY ONLY <2>1, <2>2, <1>1, Zenon
  <2>4. buf' \in Seq(Byte) /\ buf' = <<>> /\ pc' = "loop"
    BY <1>1, <1>2, <1>8
  <2> QED
    BY <2>3, <2>4, <1>1, <1>2, <1>6, InvWhole
<1> QED
  BY <1>1, <1>7, <1>8 DEF u

(* The application's own calls.                                            *)
LEMMA CallStep ==
    ASSUME Inv, Ask \/ Stop \/ OnDisconnect
    PROVE  Inv'
<1>1. /\ rxbuf' = rxbuf /\ buf' = buf /\ handled' = handled /\ pc' = pc
      /\ arrived' = arrived /\ taken' = taken /\ result' = result
  BY DEF Ask, Stop, OnDisconnect
<1>2. /\ Ready /\ buf \in Seq(Byte) /\ rxbuf \in Seq(Byte) /\ taken \in Seq(Byte)
      /\ read \in Reads /\ ReadOK(read, taken) /\ client \in BOOLEAN /\ hasRx \in BOOLEAN
  BY InvParts DEF Ready
<1>3. HandlerCalls(read, Len(taken)) \/ OnDisconnect
  BY DEF Ask, Stop, HandlerCalls
<1>4. client' \in BOOLEAN /\ hasRx' \in BOOLEAN /\ read' \in Reads /\ ReadOK(read', taken)
  <2>1. CASE HandlerCalls(read, Len(taken))
    BY <1>2, <2>1, CallsKeep
  <2>2. CASE OnDisconnect
    BY <1>2, <2>2 DEF OnDisconnect
  <2> QED
    BY <1>3, <2>1, <2>2
<1>5. ReaderKept
  BY <1>1, <1>2, <1>4, ResultSame DEF ReaderKept
<1>6. Stream' = Stream
  BY <1>1 DEF Stream
<1>7. up' \in BOOLEAN /\ alloc' \in BOOLEAN
  BY InvParts DEF Ask, Stop, OnDisconnect
<1>8. arrived \in 0..MaxBytes /\ Increasing(Stream', arrived')
  BY <1>1, <1>6, InvParts
<1> QED
  BY <1>1, <1>2, <1>5, <1>7, <1>8, InvParts, InvWhole

(* The invariant holds at the start.                                       *)
LEMMA Start == Init => Inv
<1> SUFFICES ASSUME Init PROVE Inv
  OBVIOUS
<1>1. /\ client = TRUE /\ up = TRUE /\ alloc \in BOOLEAN /\ read = Read("free", 0, 0) /\ hasRx = FALSE
      /\ rxbuf = <<>> /\ buf = <<>> /\ handled = 0 /\ pc = "loop" /\ arrived = 0
      /\ taken = <<>> /\ result = [read |-> Read("none", 0, 0), bytes |-> <<>>]
  BY DEF Init
<1>2. Read("free", 0, 0) \in Reads /\ Read("none", 0, 0) \in Reads
  BY DEF Read, Reads, Modes
<1>3. TypeOK
  <2>1. result.read = Read("none", 0, 0)
    BY <1>1
  <2>2. <<>> \in Seq(1..MaxBytes) /\ 0 \in 0..MaxBytes /\ 0 \in Nat
    BY RxAssumption
  <2>3. /\ client \in BOOLEAN /\ up \in BOOLEAN /\ alloc \in BOOLEAN /\ hasRx \in BOOLEAN
        /\ pc \in {"loop", "first", "direct", "store", "stored"}
    BY <1>1
  <2> QED
    BY ONLY <1>1, <1>2, <2>1, <2>2, <2>3, Zenon DEF TypeOK
<1>4. ReadOK(read, taken)
  BY <1>1 DEF ReadOK, Read
<1>5. ResultExact
  BY <1>1 DEF ResultExact, Read
<1>6. Len(Stream) = 0
  BY <1>1 DEF Stream
<1>7. Increasing(Stream, arrived)
  BY <1>6 DEF Increasing
<1> QED
  BY <1>1, <1>3, <1>4, <1>5, <1>7 DEF Inv

(* Every step keeps it, and the stream changes only when data arrive, when *)
(* the application calls, or when there is no memory to store it.          *)
LEMMA Step ==
    ASSUME Inv, [Next]_vars
    PROVE  Inv' /\ (pc \notin {"loop", "store"} => Stream' = Stream)
<1>1. CASE UNCHANGED vars
  <2>1. /\ client' = client /\ up' = up /\ alloc' = alloc /\ read' = read /\ hasRx' = hasRx
        /\ rxbuf' = rxbuf /\ buf' = buf /\ handled' = handled /\ pc' = pc
        /\ arrived' = arrived /\ taken' = taken /\ result' = result
    BY <1>1 DEF vars
  <2>2. Stream' = Stream
    BY <2>1 DEF Stream
  <2>3. ReaderKept
    BY <2>1, InvParts, ReaderSame DEF Ready
  <2>4. arrived \in 0..MaxBytes /\ Increasing(Stream', arrived')
    BY <2>1, <2>2, InvParts
  <2>5. Inv'
    BY <2>1, <2>3, <2>4, InvParts, InvWhole DEF Ready
  <2> QED
    BY <2>2, <2>5
<1>2. CASE \E n \in 1..MaxPbuf, fin \in BOOLEAN : RxData(n, fin)
  BY <1>2, DataStep DEF RxData
<1>3. CASE Ask \/ Stop \/ OnDisconnect
  <2>1. pc = "loop"
    BY <1>3 DEF Ask, Stop, OnDisconnect
  <2> QED
    BY <1>3, <2>1, CallStep
<1>4. CASE Store
  <2>1. pc = "store"
    BY <1>4 DEF Store
  <2> QED
    BY <1>4, <2>1, StoreStep
<1> QED
  BY <1>1, <1>2, <1>3, <1>4, FirstStep, OnStep, StoredStep DEF Next, Loop

(* The invariant holds throughout.                                         *)
THEOREM Invariance == Spec => []Inv
<1>1. Inv /\ [Next]_vars => Inv'
  BY Step
<1> QED
  BY <1>1, Start, PTL DEF Spec

-----------------------------------------------------------------------------
(* Every variable has its type: _rxSize and len never go below zero,       *)
(* however reads, switches of the mode and pbufs of any size follow each   *)
(* other.                                                                  *)
THEOREM Types == Spec => []TypeOK
<1>1. Inv => TypeOK
  BY DEF Inv
<1> QED
  BY <1>1, Invariance, PTL

(* Whatever the application reads, and however it switches between the     *)
(* three ways of reading in its handlers, the bytes it has got, those in   *)
(* _RXbuffer and those of the pbuf are in order and none is there twice.   *)
THEOREM InOrder == Spec => []RxOrdered
<1>1. Inv => RxOrdered
  BY DEF Inv, Increasing, RxOrdered
<1> QED
  BY <1>1, Invariance, PTL

(* A finished readBytes() got the bytes it asked for, a finished           *)
(* readStringUntil() one line, for every placing of the terminators.       *)
THEOREM ReadsExact == Spec => []ResultExact
<1>1. Inv => ResultExact
  BY DEF Inv
<1> QED
  BY <1>1, Invariance, PTL

(* _handleRxBuffer() only moves bytes: nothing is lost on the way through  *)
(* the handlers and _RXbuffer except where a pbuf's rest is stored.        *)
THEOREM NothingLost == Spec => RxKept
<1>1. Inv /\ [Next]_vars => (pc \notin {"loop", "store"} => Stream' = Stream)
  BY Step
<1> QED
  BY <1>1, Invariance, PTL DEF Spec, RxKept

=============================================================================
