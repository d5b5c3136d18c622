------------------------- MODULE TcpBearSsl_proofs -------------------------
(***************************************************************************)
(* Proofs about TcpBearSsl, for every flight of records, every record      *)
(* length and every size of the buffers.                                   *)
(***************************************************************************)
EXTENDS TcpBearSsl, WellFoundedInduction, TLAPS

-----------------------------------------------------------------------------
(* The inductive invariant.                                                *)

F(i) == stack[i].f

(* The frames of tcp_ssl_read() that wait for process_ssl_engine().        *)
Bottom == {"refeed", "leave", "overflow"}

(* What holds when a handler may write: the nested process_ssl_engine()    *)
(* then has nothing to report.                                             *)
Quiet == ~Closed /\ eng.pld = 0 /\ sess.handshake_done

(* The calls in progress, innermost first.                                 *)
Shape ==
    \/ stack = <<>>
    \/ Len(stack) = 1 /\ F(1) \in Bottom \cup {"feed"}
    \/ Len(stack) = 1 /\ F(1) = "process" /\ Quiet
    \/ Len(stack) = 2 /\ F(1) = "process" /\ F(2) \in Bottom
    \/ Len(stack) = 2 /\ F(1) = "on_error" /\ Closed /\ F(2) \in Bottom
    \/ Len(stack) = 2 /\ F(1) = "on_handshake" /\ Quiet /\ ~Sendable /\ F(2) \in Bottom
    \/ Len(stack) = 3 /\ F(1) = "process" /\ F(2) = "on_handshake" /\ Quiet /\ F(3) \in Bottom
    \/ Len(stack) = 3 /\ F(1) = "on_data" /\ F(2) = "process" /\ F(3) \in Bottom
                      /\ ~Closed /\ eng.pld = 0
    \/ Len(stack) = 4 /\ F(1) = "process" /\ F(2) = "on_data" /\ F(3) = "process"
                      /\ F(4) \in Bottom /\ Quiet

(* The engine is being fed, or process_ssl_engine() runs for the read.     *)
Pumping ==
    \/ Len(stack) = 1 /\ F(1) = "feed"
    \/ Len(stack) = 2 /\ F(1) = "process"

(* The session is open during a call and its engine is open between calls; *)
(* data waits in the engine, and the end of the handshake is unreported,   *)
(* only while the read is pumping; and the read leaves nothing it could    *)
(* have sent.                                                              *)
Calls ==
    /\ stack # <<>> => sess.open
    /\ stack = <<>> /\ sess.open => ~Closed
    /\ eng.pld # 0 => ~Closed /\ Pumping
    /\ sess.handshake_done => eng.ready
    /\ eng.ready /\ ~sess.handshake_done =>
        /\ eng.out = 0
        /\ Closed \/ Pumping \/ (Len(stack) = 3 /\ F(1) = "on_data")
    /\ Len(stack) = 1 /\ F(1) = "leave" => Closed \/ ~Sendable

(* What was handed on is what the engine has decoded, as long as it has    *)
(* not failed; and it has decoded nothing before the handshake was over.   *)
Records ==
    /\ eng.pld # 0 => /\ eng.pld = eng.pos \div RecLen /\ eng.pos % RecLen = 0
                      /\ Flight[eng.pld] = "app"
    /\ ~Closed => {got[i] : i \in 1..Len(got)} = DataUpTo(eng.pos \div RecLen) \ {eng.pld}
    /\ \A i, j \in 1..Len(got) : i < j => got[i] < got[j]
    /\ eng.pld # 0 \/ got # <<>> => eng.ready
    /\ eng.ready => \E q \in 1..(eng.pos \div RecLen) : Flight[q] = "done"

Feeding == \E i \in 1..Len(stack) : stack[i].f \in {"feed", "refeed"}

(* The peer sends no more than its flight; no unit is counted twice; there *)
(* is something left to feed when the engine was full; and a read that     *)
(* kept nothing leaves the accumulator empty.                              *)
Units ==
    /\ net.arrived <= net.reach * RecLen
    /\ eng.pos + Len(accum) <= net.arrived
    /\ (\E i \in 1..Len(stack) : stack[i].f = "refeed") => accum # <<>>
    /\ sess.open /\ ~Overflowing /\ eng.st # "spoiled" /\ ~hist.kept /\ ~Feeding =>
        accum = <<>>

Inv == TypeOK /\ StreamExact /\ Shape /\ Calls /\ Records /\ Units

-----------------------------------------------------------------------------
(* Facts about numbers.                                                    *)

(* A non-empty set of numbers has a least element.                         *)
LEMMA LeastNumber ==
    ASSUME NEW T \in SUBSET Nat, T # {}
    PROVE  \E x \in T : \A y \in T : x <= y
  <1> DEFINE R == {ss \in Nat \X Nat : ss[1] < ss[2]}
  <1>1. IsWellFoundedOn(R, Nat)
    BY NatLessThanWellFounded DEF OpToRel
  <1>2. PICK x \in T : \A y \in T : ~(<<y, x>> \in R)
    BY <1>1, WFMin
  <1>3. ASSUME NEW y \in T PROVE x <= y
    <2>1. x \in Nat /\ y \in Nat /\ <<y, x>> \in Nat \X Nat
      OBVIOUS
    <2>2. ~(<<y, x>> \in R)
      BY <1>2
    <2>3. ~(y < x)
      BY <2>1, <2>2
    <2> QED
      BY <2>1, <2>3
  <1> QED
    BY <1>3

(* A record is at least two units long.                                    *)
LEMMA RecLenFact == RecLen \in Nat /\ RecLen >= 2
  BY GlueAssumption DEF RecLen

(* Where the engine stands in its record, and what it asks for: at most    *)
(* the rest of the record.  (SMT knows div and mod of constants, so the    *)
(* facts are stated for any d.)                                            *)
LEMMA DivMod ==
    ASSUME NEW p \in Nat, NEW d \in Nat, d >= 2
    PROVE  /\ p \div d \in Nat /\ p % d \in 0..(d - 1)
           /\ p = d * (p \div d) + (p % d)
  BY SMT

(* Feeding m units, at most up to the end of a record, ends that record or *)
(* none.                                                                   *)
LEMMA Advance ==
    ASSUME NEW p \in Nat, NEW m \in Nat, m > 0, NEW d \in Nat, d >= 2,
           m <= (IF p % d = 0 THEN 1 ELSE d - (p % d))
    PROVE  /\ (p + m) % d = 0 => (p + m) \div d = (p \div d) + 1
           /\ (p + m) % d # 0 => (p + m) \div d = p \div d
  BY SMT

(* A position within k records lies in one of them.                        *)
LEMMA DivBound ==
    ASSUME NEW p \in Nat, NEW d \in Nat, d >= 2, NEW k \in Nat, p <= k * d
    PROVE  p \div d <= k
  <1>1. p \div d \in Nat /\ d * (p \div d) <= p
    BY DivMod, SMT
  <1> DEFINE q == p \div d
  <1>2. q \in Nat /\ d * q <= k * d
    BY <1>1
  <1> HIDE DEF q
  <1>3. q <= k
    BY <1>2, SMT
  <1> QED
    BY <1>3 DEF q

(* Multiplication keeps the order.                                         *)
LEMMA TimesMono ==
    ASSUME NEW a \in Nat, NEW b \in Nat, NEW d \in Nat, a <= b
    PROVE  a * d \in Nat /\ a * d <= b * d
  BY SMT

(* The peer's next stop lies in its flight, not before where it stands.    *)
LEMMA NextStopFact ==
    ASSUME NEW r \in 0..Len(Flight)
    PROVE  NextStop(r) \in r..Len(Flight)
  <1> DEFINE stops == {q \in (r + 1)..Len(Flight) : Flight[q] = "ask"} \cup {Len(Flight)}
  <1>1. Len(Flight) \in Nat
    BY GlueAssumption
  <1>2. stops \in SUBSET Nat /\ stops # {} /\ \A q \in stops : q \in r..Len(Flight)
    BY <1>1
  <1>3. \E q \in stops : \A t \in stops : q <= t
    BY <1>2, LeastNumber
  <1>4. NextStop(r) \in stops
    BY <1>3 DEF NextStop
  <1> QED
    BY <1>2, <1>4

-----------------------------------------------------------------------------
(* Facts about the stack.                                                  *)

FrameNames == {"feed", "refeed", "leave", "overflow", "process", "on_data",
               "on_handshake", "on_error"}

(* The names of the frames.                                                *)
LEMMA Names ==
    /\ 0 \in Nat
    /\ "feed" \in FrameNames /\ "refeed" \in FrameNames /\ "leave" \in FrameNames
    /\ "overflow" \in FrameNames /\ "process" \in FrameNames /\ "on_data" \in FrameNames
    /\ "on_handshake" \in FrameNames /\ "on_error" \in FrameNames
  BY DEF FrameNames

(* The empty sequence is the one of length 0.                              *)
LEMMA EmptyLen ==
    ASSUME NEW T, NEW k \in Seq(T)
    PROVE  Len(k) \in Nat /\ (k = <<>> <=> Len(k) = 0)
  OBVIOUS

(* The frames after a push.                                                *)
LEMMA Pushed ==
    ASSUME NEW f \in FrameNames, NEW n \in Nat, NEW k \in Seq(Frames)
    PROVE  /\ Push(f, n, k) \in Seq(Frames)
           /\ Push(f, n, k) # <<>>
           /\ Len(Push(f, n, k)) = Len(k) + 1
           /\ Push(f, n, k)[1].f = f
           /\ \A j \in 2..(Len(k) + 1) : Push(f, n, k)[j] = k[j - 1]
  <1>1. Frame(f, n) \in Frames /\ Frame(f, n).f = f
    BY DEF Frame, Frames, FrameNames
  <1>2. <<Frame(f, n)>> \in Seq(Frames) /\ Len(<<Frame(f, n)>>) = 1
    BY <1>1
  <1> QED
    BY <1>1, <1>2 DEF Push

(* A frame on an empty stack.                                              *)
LEMMA PushedFirst ==
    ASSUME NEW f \in FrameNames
    PROVE  /\ Push(f, 0, <<>>) \in Seq(Frames) /\ Push(f, 0, <<>>) # <<>>
           /\ Len(Push(f, 0, <<>>)) = 1 /\ Push(f, 0, <<>>)[1].f = f
  <1> DEFINE e == <<>>
  <1>1. e \in Seq(Frames) /\ Len(e) = 0 /\ 0 \in Nat
    OBVIOUS
  <1> HIDE DEF e
  <1>2. /\ Push(f, 0, e) \in Seq(Frames) /\ Push(f, 0, e) # <<>>
        /\ Len(Push(f, 0, e)) = Len(e) + 1 /\ Push(f, 0, e)[1].f = f
    BY <1>1, Pushed
  <1>3. Len(Push(f, 0, e)) = 1
    BY <1>1, <1>2
  <1> QED
    BY <1>2, <1>3 DEF e

(* The frames after a pop.                                                 *)
LEMMA Popped ==
    ASSUME NEW k \in Seq(Frames), k # <<>>
    PROVE  /\ Tail(k) \in Seq(Frames)
           /\ Head(k) = k[1] /\ Head(k) \in Frames
           /\ Len(k) \in Nat /\ Len(k) > 0
           /\ Len(Tail(k)) = Len(k) - 1
           /\ Len(Tail(k)) = 0 => Tail(k) = <<>>
           /\ \A j \in 1..(Len(k) - 1) : Tail(k)[j] = k[j + 1]
  <1>1. Len(k) \in Nat /\ Len(k) > 0 /\ Head(k) = k[1] /\ Head(k) \in Frames
    OBVIOUS
  <1>2. Tail(k) \in Seq(Frames) /\ Len(Tail(k)) = Len(k) - 1
    OBVIOUS
  <1>3. Len(Tail(k)) = 0 => Tail(k) = <<>>
    BY <1>2, EmptyLen
  <1>4. \A j \in 1..(Len(k) - 1) : Tail(k)[j] = k[j + 1]
    BY <1>1, <1>2
  <1> QED
    BY <1>1, <1>2, <1>3, <1>4

(* A frame takes the place of the innermost one.                           *)
LEMMA Replaced ==
    ASSUME NEW f \in FrameNames, NEW n \in Nat, NEW k \in Seq(Frames), k # <<>>
    PROVE  /\ Push(f, n, Tail(k)) \in Seq(Frames)
           /\ Push(f, n, Tail(k)) # <<>>
           /\ Len(Push(f, n, Tail(k))) = Len(k)
           /\ Push(f, n, Tail(k))[1].f = f
           /\ \A j \in 2..Len(k) : Push(f, n, Tail(k))[j] = k[j]
  <1>1. /\ Tail(k) \in Seq(Frames) /\ Len(k) \in Nat /\ Len(k) > 0
        /\ Len(Tail(k)) = Len(k) - 1
        /\ \A j \in 1..(Len(k) - 1) : Tail(k)[j] = k[j + 1]
    BY Popped
  <1> DEFINE t == Tail(k)
  <1>2. /\ Push(f, n, t) \in Seq(Frames) /\ Push(f, n, t) # <<>>
        /\ Len(Push(f, n, t)) = Len(t) + 1 /\ Push(f, n, t)[1].f = f
        /\ \A j \in 2..(Len(t) + 1) : Push(f, n, t)[j] = t[j - 1]
    BY <1>1, Pushed, ZenonT(30)
  <1>3. ASSUME NEW j \in 2..Len(k) PROVE Push(f, n, t)[j] = k[j]
    <2>1. j - 1 \in 1..(Len(k) - 1) /\ j \in 2..(Len(t) + 1) /\ (j - 1) + 1 = j
      BY <1>1
    <2>2. Push(f, n, t)[j] = t[j - 1]
      BY <1>2, <2>1
    <2>3. t[j - 1] = k[(j - 1) + 1]
      BY <1>1, <2>1
    <2> QED
      BY <2>1, <2>2, <2>3
  <1> QED
    BY <1>1, <1>2, <1>3

(* process_ssl_engine() is called from the innermost frame, which becomes  *)
(* f.                                                                      *)
LEMMA Called ==
    ASSUME NEW f \in FrameNames, NEW n \in Nat, NEW k \in Seq(Frames), Len(k) = 1
    PROVE  LET s == Push("process", 0, Push(f, n, Tail(k)))
           IN /\ s \in Seq(Frames) /\ s # <<>> /\ Len(s) = 2
              /\ s[1].f = "process" /\ s[2].f = f
  <1> DEFINE t == Push(f, n, Tail(k))
  <1>1. k # <<>>
    OBVIOUS
  <1>2. t \in Seq(Frames) /\ Len(t) = 1 /\ t[1].f = f
    BY <1>1, Replaced
  <1> HIDE DEF t
  <1> DEFINE s == Push("process", 0, t)
  <1>3. /\ s \in Seq(Frames) /\ s # <<>> /\ Len(s) = Len(t) + 1
        /\ s[1].f = "process" /\ \A j \in 2..(Len(t) + 1) : s[j] = t[j - 1]
    <2>1. "process" \in FrameNames /\ 0 \in Nat
      BY DEF FrameNames
    <2> QED
      BY <1>2, <2>1, Pushed, ZenonT(30)
  <1> HIDE DEF s
  <1>4. s[2] = t[1]
    BY <1>2, <1>3
  <1>5. /\ s \in Seq(Frames) /\ s # <<>> /\ Len(s) = 2
        /\ s[1].f = "process" /\ s[2].f = f
    BY <1>2, <1>3, <1>4
  <1> QED
    BY <1>5 DEF s, t

-----------------------------------------------------------------------------
(* The pieces of the engine and of the accumulator that the steps use.     *)

(* What the assumptions say about the constants.                           *)
LEMMA ConstFacts ==
    /\ Len(Flight) \in Nat /\ \A q \in 1..Len(Flight) : Flight[q] \in Kinds
    /\ AccumSize \in Nat /\ AccumSize > 0 /\ MaxFeedLoops \in Nat /\ MaxSegment \in Nat
    /\ SndBuf \in Nat /\ SndBuf > 0 /\ MaxRecord \in Nat /\ MaxRecord > 0
    /\ MaxWrites \in Nat
  <1>1. Len(Flight) \in Nat /\ \A q \in 1..Len(Flight) : Flight[q] \in Kinds
    BY GlueAssumption
  <1>2. /\ AccumSize \in Nat \ {0} /\ MaxFeedLoops \in Nat \ {0} /\ MaxSegment \in Nat \ {0}
        /\ SndBuf \in Nat \ {0} /\ MaxRecord \in Nat \ {0}
    BY GlueAssumption, Zenon
  <1> QED
    BY <1>1, <1>2, GlueAssumption

(* What a chain of m units in front of the accumulator looks like.         *)
LEMMA Prepend ==
    ASSUME NEW a \in Nat, NEW m \in Nat, NEW n \in Nat, m <= n, NEW s \in Seq(1..a)
    PROVE  LET t == [i \in 1..m |-> a + i] \o s
           IN /\ t \in Seq(1..(a + n)) /\ Len(t) = m + Len(s)
              /\ \A i \in 1..m : t[i] = a + i
              /\ \A i \in (m + 1)..(m + Len(s)) : t[i] = s[i - m]
  <1> DEFINE h == [i \in 1..m |-> a + i]
  <1>1. h \in Seq(1..(a + n)) /\ Len(h) = m /\ \A i \in 1..m : h[i] = a + i
    OBVIOUS
  <1>2. s \in Seq(1..(a + n)) /\ Len(s) \in Nat
    <2>1. Len(s) \in Nat /\ \A i \in 1..Len(s) : s[i] \in 1..a
      OBVIOUS
    <2>2. \A i \in 1..Len(s) : s[i] \in 1..(a + n)
      BY <2>1
    <2> QED
      BY <2>1, <2>2
  <1> HIDE DEF h
  <1>3. /\ h \o s \in Seq(1..(a + n)) /\ Len(h \o s) = m + Len(s)
        /\ \A i \in 1..m : (h \o s)[i] = h[i]
        /\ \A i \in (m + 1)..(m + Len(s)) : (h \o s)[i] = s[i - m]
    BY <1>1, <1>2, SMTT(30)
  <1> QED
    BY <1>1, <1>3 DEF h

(* The engine as BearSSL may leave it after m more units of the stream.    *)
Grown(m) ==
    /\ eng' \in Engines /\ eng'.pos = eng.pos + m
    /\ eng'.st \in {"open", "closed"}
    /\ \/ /\ (eng.pos + m) % RecLen # 0
          /\ eng'.st = "open" /\ eng'.pld = 0 /\ eng'.ready = eng.ready /\ eng'.out = eng.out
       \/ /\ (eng.pos + m) % RecLen = 0
          /\ LET k == (eng.pos + m) \div RecLen IN
             /\ k \in 1..Len(Flight)
             /\ \/ /\ Flight[k] = "app" /\ eng.ready /\ eng'.st = "open" /\ eng'.pld = k
                   /\ eng'.ready = eng.ready /\ eng'.out = eng.out
                \/ /\ Flight[k] = "app" /\ ~eng.ready /\ eng'.st = "closed" /\ eng'.pld = 0
                   /\ eng'.ready = eng.ready /\ eng'.out = eng.out
                \/ /\ Flight[k] # "app" /\ eng'.pld = 0
                   /\ eng'.ready # eng.ready =>
                        Flight[k] = "done" /\ eng'.ready /\ eng'.out = eng.out
                   /\ eng'.out # eng.out => Flight[k] = "ask"

(* When the engine takes data, and how much up to the end of a piece.      *)
LEMMA AvailableFact ==
    ASSUME eng \in Engines, Available > 0
    PROVE  /\ eng.st = "open" /\ eng.pld = 0 /\ (eng.ready \/ eng.out = 0)
           /\ Available \in Nat
           /\ Available = IF eng.pos % RecLen = 0 THEN 1 ELSE RecLen - (eng.pos % RecLen)
  <1>1. eng.pos % RecLen \in 0..(RecLen - 1) /\ RecLen \in Nat /\ eng.pos \in Nat
    BY RecLenFact, DivMod DEF Engines
  <1> QED
    BY <1>1 DEF Available, Closed, Engines

(* The engine is fed m units of the accumulator.                           *)
LEMMA FedFact ==
    ASSUME TypeOK, Units, StreamExact, sess.open, ~Overflowing, accum # <<>>, Available > 0,
           eng' \in Fed(SubSeq(accum, 1, ToFeed))
    PROVE  /\ ToFeed \in 1..Len(accum)
           /\ \/ Grown(ToFeed) /\ \A i \in 1..ToFeed : accum[i] = eng.pos + i
              \/ eng' = [eng EXCEPT !.st = "spoiled"] /\ hist.kept
  <1> DEFINE m == ToFeed
             units == SubSeq(accum, 1, m)
             e == [eng EXCEPT !.pos = @ + Len(units)]
  <1>1. /\ eng \in Engines /\ eng.pos \in Nat
        /\ accum \in Seq(1..net.arrived) /\ Len(accum) \in Nat /\ Len(accum) > 0
        /\ net.arrived \in Nat /\ net.reach \in 0..Len(Flight)
    <2>1. Len(accum) \in Nat /\ Len(accum) > 0
      BY EmptyLen DEF TypeOK
    <2> QED
      BY <2>1 DEF TypeOK, Engines
  <1>2. /\ eng.st = "open" /\ eng.pld = 0 /\ Available \in Nat
        /\ Available = IF eng.pos % RecLen = 0 THEN 1 ELSE RecLen - (eng.pos % RecLen)
    BY <1>1, AvailableFact
  <1>3. m \in 1..Len(accum) /\ m <= Available /\ m \in Nat /\ m > 0
    BY <1>1, <1>2 DEF ToFeed, Least
  <1> HIDE DEF m
  <1>4. Len(units) = m /\ \A i \in 1..m : units[i] = accum[i]
    BY <1>1, <1>3
  <1> HIDE DEF units
  <1>5. CASE \E i \in 1..m : units[i] # eng.pos + i
    <2>1. eng' = [eng EXCEPT !.st = "spoiled"]
      BY <1>4, <1>5 DEF Fed, units, m
    <2>2. PICK i \in 1..m : accum[i] # eng.pos + i
      BY <1>4, <1>5
    <2>3. hist.kept
      BY <1>2, <1>3, <2>2 DEF StreamExact
    <2> QED
      BY <1>3, <2>1, <2>3 DEF m
  <1>6. CASE ~ \E i \in 1..m : units[i] # eng.pos + i
    <2>1. \A i \in 1..m : accum[i] = eng.pos + i
      BY <1>4, <1>6
    <2>2. eng' \in IF e.pos % RecLen # 0 THEN {e} ELSE Complete(e, Flight[e.pos \div RecLen])
      <3>1. ~(Len(units) > Available)
        BY <1>2, <1>3, <1>4
      <3>2. ~ \E i \in 1..Len(units) : units[i] # eng.pos + i
        BY <1>4, <1>6
      <3> QED
        BY <3>1, <3>2 DEF Fed, units, m
    <2>3. e \in Engines /\ e.pos = eng.pos + m /\ e.st = "open" /\ e.pld = 0
                /\ e.ready = eng.ready /\ e.out = eng.out
      BY <1>1, <1>2, <1>3, <1>4, SMTT(30) DEF Engines
    <2> HIDE DEF e
    <2>4. CASE e.pos % RecLen # 0
      <3>1. eng' = e
        BY <2>2, <2>4
      <3> QED
        BY <1>3, <2>1, <2>3, <2>4, <3>1 DEF Grown, m
    <2>5. CASE e.pos % RecLen = 0
      <3> DEFINE k == e.pos \div RecLen
      <3>1. k \in 1..Len(Flight)
        <4>1. (eng.pos + m) \div RecLen = (eng.pos \div RecLen) + 1
          BY <1>1, <1>2, <1>3, <2>3, <2>5, RecLenFact, Advance, SMTT(30)
        <4>2. eng.pos \div RecLen \in Nat
          BY <1>1, RecLenFact, DivMod
        <4>3. eng.pos + m <= net.reach * RecLen
          <5>1. net.reach * RecLen \in Nat
            BY <1>1, RecLenFact, ConstFacts, TimesMono
          <5> QED
            BY <1>1, <1>3, <5>1 DEF Units
        <4>4. (eng.pos + m) \div RecLen <= net.reach
          BY <1>1, <1>3, <4>3, RecLenFact, ConstFacts, DivBound
        <4> QED
          BY <1>1, <2>3, <4>1, <4>2, <4>4, ConstFacts
      <3>2. eng' \in Complete(e, Flight[k]) /\ Flight[k] \in Kinds
        BY <2>2, <2>5, <3>1, ConstFacts
      <3>3. k = (eng.pos + m) \div RecLen
        BY <2>3
      <3> HIDE DEF k
      <3>4. CASE Flight[k] = "app" /\ e.ready
        <4>1. eng' = [e EXCEPT !.pld = k]
          BY <3>2, <3>4 DEF Complete, k
        <4>2. eng' \in Engines
          BY <4>1, <2>3, <3>1 DEF Engines
        <4> QED
          BY <1>3, <2>1, <2>3, <2>5, <3>1, <3>3, <3>4, <4>1, <4>2 DEF Grown, m, Engines
      <3>6. CASE Flight[k] = "app" /\ ~e.ready
        <4>1. eng' = [e EXCEPT !.st = "closed"]
          BY <3>2, <3>6 DEF Complete
        <4>2. eng' \in Engines
          BY <4>1, <2>3 DEF Engines
        <4> QED
          BY <1>3, <2>1, <2>3, <2>5, <3>1, <3>3, <3>6, <4>1, <4>2 DEF Grown, m, Engines
      <3>5. CASE Flight[k] # "app"
        <4>1. eng' \in {e, [e EXCEPT !.st = "closed"]} \/
              (Flight[k] = "ask" /\ eng' = [e EXCEPT !.out = 1]) \/
              (Flight[k] = "done" /\ eng' = [e EXCEPT !.ready = TRUE])
          BY <3>2, <3>5 DEF Complete, Kinds
        <4>2. eng' \in Engines
          <5>1. CASE eng' = e
            BY <5>1, <2>3
          <5>2. CASE eng' = [e EXCEPT !.st = "closed"]
            BY <5>2, <2>3 DEF Engines
          <5>3. CASE eng' = [e EXCEPT !.out = 1]
            BY <5>3, <2>3, ConstFacts DEF Engines
          <5>4. CASE eng' = [e EXCEPT !.ready = TRUE]
            BY <5>4, <2>3 DEF Engines
          <5> QED
            BY <4>1, <5>1, <5>2, <5>3, <5>4
        <4>3. /\ eng'.pos = e.pos /\ eng'.st \in {"open", "closed"} /\ eng'.pld = 0
              /\ eng'.ready # e.ready => Flight[k] = "done" /\ eng'.ready /\ eng'.out = e.out
              /\ eng'.out # e.out => Flight[k] = "ask"
          BY <4>1, <2>3 DEF Engines
        <4>4. Grown(m)
          BY <2>3, <2>5, <3>1, <3>3, <3>5, <4>2, <4>3 DEF Grown
        <4> QED
          BY <1>3, <2>1, <4>4 DEF m
      <3> QED
        BY <3>4, <3>5, <3>6
    <2> QED
      BY <2>4, <2>5
  <1> QED
    BY <1>5, <1>6

-----------------------------------------------------------------------------
(* Which frames a step adds or takes away.                                 *)

Has(k, g) == \E i \in 1..Len(k) : k[i].f = g

(* A push adds no frame but its own.                                       *)
LEMMA HasPushed ==
    ASSUME NEW f \in FrameNames, NEW n \in Nat, NEW k \in Seq(Frames), NEW g, g # f
    PROVE  Has(Push(f, n, k), g) <=> Has(k, g)
  <1> DEFINE s == Push(f, n, k)
  <1>1. /\ Len(k) \in Nat /\ Len(s) = Len(k) + 1 /\ s[1].f = f
        /\ \A j \in 2..(Len(k) + 1) : s[j] = k[j - 1]
    BY Pushed, EmptyLen
  <1> HIDE DEF s
  <1>2. ASSUME NEW i \in 1..Len(s), s[i].f = g PROVE Has(k, g)
    <2>1. i \in 2..(Len(k) + 1) /\ i - 1 \in 1..Len(k)
      BY <1>1, <1>2
    <2>2. k[i - 1].f = g
      BY <1>1, <1>2, <2>1
    <2> QED
      BY <2>1, <2>2 DEF Has
  <1>3. ASSUME NEW i \in 1..Len(k), k[i].f = g PROVE Has(s, g)
    <2>1. i + 1 \in 2..(Len(k) + 1) /\ i + 1 \in 1..Len(s) /\ (i + 1) - 1 = i
      BY <1>1
    <2>2. s[i + 1] = k[i]
      BY <1>1, <2>1
    <2> QED
      BY <1>3, <2>1, <2>2 DEF Has
  <1>4. Has(s, g) <=> Has(k, g)
    BY <1>2, <1>3 DEF Has
  <1> QED
    BY <1>4 DEF s

(* A pop takes no frame but the top.                                       *)
LEMMA HasPopped ==
    ASSUME NEW k \in Seq(Frames), k # <<>>, NEW g, g # k[1].f
    PROVE  Has(Tail(k), g) <=> Has(k, g)
  <1> DEFINE t == Tail(k)
  <1>1. /\ Len(k) \in Nat /\ Len(k) > 0 /\ Len(t) = Len(k) - 1
        /\ \A j \in 1..(Len(k) - 1) : t[j] = k[j + 1]
    BY Popped
  <1> HIDE DEF t
  <1>2. ASSUME NEW i \in 1..Len(t), t[i].f = g PROVE Has(k, g)
    <2>1. i + 1 \in 1..Len(k) /\ k[i + 1].f = g
      BY <1>1, <1>2
    <2> QED
      BY <2>1 DEF Has
  <1>3. ASSUME NEW i \in 1..Len(k), k[i].f = g PROVE Has(t, g)
    <2>1. i - 1 \in 1..Len(t) /\ (i - 1) + 1 = i
      BY <1>1, <1>3
    <2>2. t[i - 1] = k[(i - 1) + 1]
      BY <1>1, <2>1
    <2> QED
      BY <1>3, <2>1, <2>2 DEF Has
  <1>4. Has(t, g) <=> Has(k, g)
    BY <1>2, <1>3 DEF Has
  <1> QED
    BY <1>4 DEF t

(* Replacing the top changes no other frame.                               *)
LEMMA HasReplaced ==
    ASSUME NEW f \in FrameNames, NEW n \in Nat, NEW k \in Seq(Frames), k # <<>>,
           NEW g, g # f, g # k[1].f
    PROVE  Has(Push(f, n, Tail(k)), g) <=> Has(k, g)
  <1>1. Tail(k) \in Seq(Frames)
    BY Popped
  <1> QED
    BY <1>1, HasPushed, HasPopped

(* The frames of a read that the stack may end with.                       *)
SameRead ==
    /\ Has(stack', "feed") <=> Has(stack, "feed")
    /\ Has(stack', "refeed") <=> Has(stack, "refeed")
    /\ Has(stack', "overflow") <=> Has(stack, "overflow")

(* A step that leaves the stream alone, and the frames of the read.        *)
LEMMA StreamKept ==
    ASSUME Inv, SameRead, UNCHANGED <<accum, hist>>, sess'.open = sess.open,
           net'.arrived = net.arrived, net'.reach \in Nat, net'.reach >= net.reach,
           eng'.pos = eng.pos, eng'.st = eng.st
    PROVE  StreamExact' /\ Units'
  <1>1. StreamExact /\ Units
    BY DEF Inv
  <1>2. Overflowing' <=> Overflowing
    BY DEF SameRead, Has, Overflowing
  <1>3. Feeding' <=> Feeding
    BY DEF SameRead, Has, Feeding
  <1>4. (\E i \in 1..Len(stack) : stack[i].f = "refeed")' <=>
            (\E i \in 1..Len(stack) : stack[i].f = "refeed")
    BY DEF SameRead, Has
  <1>5. StreamExact'
    BY <1>1, <1>2 DEF StreamExact
  <1>6. net'.arrived <= net'.reach * RecLen
    <2>1. net.reach \in Nat /\ net.arrived \in Nat
      BY ConstFacts DEF Inv, TypeOK
    <2>2. net.reach * RecLen \in Nat /\ net.reach * RecLen <= net'.reach * RecLen
          /\ net'.reach * RecLen \in Nat
      BY <2>1, RecLenFact, TimesMono
    <2> QED
      BY <1>1, <2>1, <2>2 DEF Units
  <1> QED
    BY <1>1, <1>2, <1>3, <1>4, <1>5, <1>6 DEF Units

(* A step that leaves the accumulator alone is well typed when the rest is. *)
LEMMA TypeKept ==
    ASSUME TypeOK, accum' = accum, net'.arrived = net.arrived,
           eng' \in Engines, stack' \in Seq(Frames), Len(stack') <= 4,
           sess' \in [open : BOOLEAN, handshake_done : BOOLEAN],
           net' \in [arrived : 0..(Len(Flight) * RecLen), free : 0..SndBuf,
                     reach : 0..Len(Flight)],
           got' \in Seq(1..Len(Flight)),
           hist' \in [kept : BOOLEAN, writes : 0..MaxWrites]
    PROVE  TypeOK'
  <1>1. (accum \in Seq(1..net.arrived) /\ Len(accum) <= AccumSize)'
    BY DEF TypeOK
  <1> QED
    BY <1>1 DEF TypeOK

(* The parts of the type invariant.                                        *)
LEMMA TypeParts ==
    ASSUME TypeOK
    PROVE  /\ eng \in Engines /\ eng.pos \in Nat /\ eng.pld \in 0..Len(Flight)
           /\ eng.out \in 0..MaxRecord /\ eng.ready \in BOOLEAN
           /\ stack \in Seq(Frames) /\ Len(stack) <= 4
           /\ sess \in [open : BOOLEAN, handshake_done : BOOLEAN]
           /\ net \in [arrived : 0..(Len(Flight) * RecLen), free : 0..SndBuf,
                       reach : 0..Len(Flight)]
           /\ net.arrived \in Nat /\ net.reach \in 0..Len(Flight) /\ net.free \in 0..SndBuf
           /\ accum \in Seq(1..net.arrived) /\ Len(accum) <= AccumSize
           /\ got \in Seq(1..Len(Flight))
           /\ hist \in [kept : BOOLEAN, writes : 0..MaxWrites]
  BY DEF TypeOK, Engines

(* The frame on top.                                                       *)
LEMMA TopFact ==
    ASSUME TypeOK
    PROVE  /\ stack \in Seq(Frames) /\ Len(stack) \in Nat /\ (stack = <<>> <=> Len(stack) = 0)
           /\ \A f : Top(f) => stack # <<>> /\ Len(stack) > 0 /\ F(1) = f /\ stack[1].n \in Nat
           /\ \A f : Top(f) => Head(stack) = stack[1]
  <1>1. stack \in Seq(Frames) /\ Len(stack) \in Nat /\ (stack = <<>> <=> Len(stack) = 0)
    BY EmptyLen DEF TypeOK
  <1>2. ASSUME NEW f, Top(f) PROVE stack # <<>> /\ Len(stack) > 0 /\ F(1) = f
               /\ stack[1].n \in Nat /\ Head(stack) = stack[1]
    <2>1. stack # <<>> /\ Head(stack).f = f
      BY <1>2 DEF Top
    <2>2. Head(stack) = stack[1] /\ Head(stack) \in Frames
      BY <1>1, <2>1, Popped
    <2> QED
      BY <1>1, <2>1, <2>2 DEF F, Frames
  <1> QED
    BY <1>1, <1>2

-----------------------------------------------------------------------------
(* process_ssl_engine() and the handlers keep the invariant.               *)

(* process_ssl_engine() finds the engine closed.                           *)
LEMMA ProcessClosedStep == Inv /\ ProcessClosed => Inv'
  <1> SUFFICES ASSUME Inv, ProcessClosed PROVE Inv'
    OBVIOUS
  <1>1. /\ TypeOK /\ Shape /\ Calls /\ Records
    BY DEF Inv
  <1>2. /\ stack \in Seq(Frames) /\ stack # <<>> /\ F(1) = "process"
        /\ stack' = Push("on_error", 0, Tail(stack))
    BY <1>1, TopFact DEF ProcessClosed
  <1>3. /\ Closed /\ eng' = eng /\ accum' = accum /\ sess' = sess /\ net' = net /\ got' = got
        /\ hist' = hist
    BY DEF ProcessClosed
  <1>4. Len(stack) = 2 /\ F(2) \in Bottom
    BY <1>1, <1>2, <1>3 DEF Shape, Quiet, Bottom
  <1>5. /\ stack' \in Seq(Frames) /\ stack' # <<>> /\ Len(stack') = 2
        /\ stack'[1].f = "on_error" /\ stack'[2].f = stack[2].f
    <2>1. \A j \in 2..Len(stack) : stack'[j] = stack[j]
      BY <1>2, Names, Replaced
    <2> QED
      BY <1>2, <1>4, <2>1, Names, Replaced
  <1>6. SameRead
    BY <1>2, Names, HasReplaced DEF SameRead, F
  <1>7. StreamExact' /\ Units'
    BY <1>1, <1>3, <1>6, ConstFacts, TypeParts, StreamKept
  <1>8. TypeOK'
    BY <1>1, <1>3, <1>5, TypeParts, TypeKept
  <1>9. Shape'
    BY <1>3, <1>4, <1>5 DEF Shape, F, Closed
  <1>10. Calls'
    BY <1>1, <1>2, <1>3, <1>5 DEF Calls, F, Closed, Pumping
  <1>11. Records'
    BY <1>1, <1>3 DEF Records, Closed
  <1> QED
    BY <1>7, <1>8, <1>9, <1>10, <1>11 DEF Inv

(* It finds application data.                                              *)
LEMMA ProcessDataStep == Inv /\ ProcessData => Inv'
  <1> SUFFICES ASSUME Inv, ProcessData PROVE Inv'
    OBVIOUS
  <1>1. /\ TypeOK /\ Shape /\ Calls /\ Records
    BY DEF Inv
  <1>2. /\ stack \in Seq(Frames) /\ stack # <<>> /\ F(1) = "process"
        /\ stack' = Push("on_data", 0, stack)
    BY <1>1, TopFact DEF ProcessData
  <1>3. /\ ~Closed /\ eng.pld # 0 /\ eng' = [eng EXCEPT !.pld = 0]
        /\ got' = Append(got, eng.pld)
        /\ accum' = accum /\ sess' = sess /\ net' = net /\ hist' = hist
    BY DEF ProcessData, RecvApp
  <1>4. Len(stack) = 2 /\ F(2) \in Bottom
    BY <1>1, <1>2, <1>3 DEF Shape, Quiet, Bottom
  <1>5. /\ stack' \in Seq(Frames) /\ stack' # <<>> /\ Len(stack') = 3
        /\ stack'[1].f = "on_data" /\ stack'[2].f = "process" /\ stack'[3].f = stack[2].f
    <2> DEFINE s == Push("on_data", 0, stack)
    <2>1. /\ s \in Seq(Frames) /\ s # <<>> /\ Len(s) = Len(stack) + 1 /\ s[1].f = "on_data"
          /\ \A j \in 2..(Len(stack) + 1) : s[j] = stack[j - 1]
      <3>1. "on_data" \in FrameNames /\ 0 \in Nat /\ stack \in Seq(Frames)
        BY <1>2, Names
      <3> QED
        BY <3>1, Pushed
    <2> HIDE DEF s
    <2>2. s[2] = stack[1] /\ s[3] = stack[2]
      BY <1>4, <2>1
    <2>3. stack' = s
      BY <1>2 DEF s
    <2> QED
      BY <1>2, <1>4, <2>1, <2>2, <2>3 DEF F
  <1>6. SameRead
    BY <1>2, Names, HasPushed DEF SameRead
  <1>7. /\ eng' \in Engines /\ eng'.pld = 0 /\ eng'.pos = eng.pos /\ eng'.st = eng.st
        /\ eng'.ready = eng.ready /\ eng'.out = eng.out
    <2>1. eng \in Engines /\ 0 \in 0..Len(Flight)
      BY <1>1, TypeParts, ConstFacts
    <2> QED
      BY <1>3, <2>1 DEF Engines
  <1>8. StreamExact' /\ Units'
    BY <1>1, <1>3, <1>6, <1>7, ConstFacts, TypeParts, StreamKept
  <1>9. eng.pld \in 1..Len(Flight) /\ got \in Seq(1..Len(Flight)) /\ Len(got) \in Nat
    BY <1>1, <1>3, TypeParts, ConstFacts, EmptyLen, SMTT(30)
  <1>10. /\ got' \in Seq(1..Len(Flight)) /\ Len(got') = Len(got) + 1
         /\ got'[Len(got) + 1] = eng.pld /\ \A i \in 1..Len(got) : got'[i] = got[i]
    BY <1>3, <1>9
  <1>11. TypeOK'
    BY <1>1, <1>3, <1>5, <1>7, <1>10, TypeParts, TypeKept
  <1>12. Shape'
    BY <1>3, <1>4, <1>5, <1>7 DEF Shape, F, Closed
  <1>13. Calls'
    BY <1>1, <1>2, <1>3, <1>5, <1>7 DEF Calls, F, Closed, Pumping
  <1>14. Records'
    <2> DEFINE k == eng.pos \div RecLen
    <2>1. k \in Nat /\ eng.pld = k /\ Flight[k] = "app" /\ k # 0
      BY <1>1, <1>3, RecLenFact, DivMod, TypeParts DEF Records, Closed
    <2>2. {got[i] : i \in 1..Len(got)} = DataUpTo(k) \ {k}
      BY <1>1, <1>3, <2>1 DEF Records
    <2>9. eng.ready
      BY <1>1, <1>3 DEF Records
    <2> HIDE DEF k
    <2>3. k \in DataUpTo(k) /\ \A q \in DataUpTo(k) : q <= k
      BY <2>1 DEF DataUpTo
    <2>4. {got'[i] : i \in 1..Len(got')} = {got[i] : i \in 1..Len(got)} \cup {k}
      <3>1. \A i \in 1..Len(got') : i \in 1..Len(got) \/ i = Len(got) + 1
        BY <1>9, <1>10
      <3>2. \A i \in 1..Len(got) : i \in 1..Len(got')
        BY <1>9, <1>10
      <3>3. Len(got) + 1 \in 1..Len(got') /\ got'[Len(got) + 1] = k
        BY <1>9, <1>10, <2>1
      <3> QED
        BY <1>10, <3>1, <3>2, <3>3
    <2>5. {got'[i] : i \in 1..Len(got')} = DataUpTo(k)
      BY <2>2, <2>3, <2>4
    <2>6. \A i \in 1..Len(got) : got[i] < k
      <3>1. \A i \in 1..Len(got) : got[i] \in DataUpTo(k) \ {k}
        BY <2>2
      <3> QED
        BY <2>1, <3>1 DEF DataUpTo
    <2>7. \A i, j \in 1..Len(got') : i < j => got'[i] < got'[j]
      <3>1. \A i, j \in 1..Len(got) : i < j => got[i] < got[j]
        BY <1>1 DEF Records, Closed
      <3>2. ASSUME NEW i \in 1..Len(got'), NEW j \in 1..Len(got'), i < j
            PROVE  got'[i] < got'[j]
        <4>1. i \in 1..Len(got) /\ (j \in 1..Len(got) \/ j = Len(got) + 1)
          <5>1. Len(got) \in Nat /\ Len(got') = Len(got) + 1
            BY <1>9, <1>10
          <5> QED
            BY <3>2, <5>1
        <4> QED
          BY <1>10, <2>1, <2>6, <3>1, <3>2, <4>1
      <3> QED
        BY <3>2
    <2>8. 0 \notin DataUpTo(k)
      BY <2>1 DEF DataUpTo
    <2> QED
      BY <1>1, <1>7, <2>1, <2>5, <2>7, <2>8, <2>9 DEF Records, k, DataUpTo
  <1> QED
    BY <1>8, <1>11, <1>12, <1>13, <1>14 DEF Inv

(* It finds a record to send that fits.                                    *)
LEMMA ProcessSendStep == Inv /\ ProcessSend => Inv'
  <1> SUFFICES ASSUME Inv, ProcessSend PROVE Inv'
    OBVIOUS
  <1>1. /\ TypeOK /\ Shape /\ Calls /\ Records
    BY DEF Inv
  <1>2. /\ stack \in Seq(Frames) /\ stack # <<>> /\ F(1) = "process" /\ stack' = stack
    BY <1>1, TopFact DEF ProcessSend
  <1>3. /\ ~Closed /\ eng.out # 0 /\ eng.out <= net.free /\ eng' = [eng EXCEPT !.out = 0]
        /\ accum' = accum /\ sess' = sess /\ got' = got /\ hist' = hist
    BY DEF ProcessSend, Sendable
  <1>4. /\ eng' \in Engines /\ eng'.pld = eng.pld /\ eng'.pos = eng.pos /\ eng'.st = eng.st
        /\ eng'.ready = eng.ready /\ eng'.out = 0
    <2>1. eng \in Engines /\ 0 \in 0..MaxRecord
      BY <1>1, TypeParts, ConstFacts
    <2> QED
      BY <1>3, <2>1 DEF Engines
  <1>5. /\ net' \in [arrived : 0..(Len(Flight) * RecLen), free : 0..SndBuf, reach : 0..Len(Flight)]
        /\ net'.arrived = net.arrived /\ net'.reach \in Nat /\ net'.reach >= net.reach
    <2>1. /\ net \in [arrived : 0..(Len(Flight) * RecLen), free : 0..SndBuf, reach : 0..Len(Flight)]
          /\ eng.out \in 0..MaxRecord
      BY <1>1, TypeParts
    <2>2. NextStop(net.reach) \in net.reach..Len(Flight)
      BY <2>1, NextStopFact
    <2>3. CASE net' = net
      BY <2>1, <2>3, ConstFacts
    <2>4. ASSUME NEW r \in net.reach..Len(Flight),
                 net' = [net EXCEPT !.free = net.free - eng.out, !.reach = r]
          PROVE  /\ net' \in [arrived : 0..(Len(Flight) * RecLen), free : 0..SndBuf,
                              reach : 0..Len(Flight)]
                 /\ net'.arrived = net.arrived /\ net'.reach \in Nat /\ net'.reach >= net.reach
      <3>1. net.free - eng.out \in 0..SndBuf /\ r \in 0..Len(Flight)
        BY <1>3, <2>1, ConstFacts
      <3>2. /\ net' \in [arrived : 0..(Len(Flight) * RecLen), free : 0..SndBuf,
                           reach : 0..Len(Flight)]
            /\ net'.arrived = net.arrived /\ net'.reach = r
        BY <2>1, <2>4, <3>1
      <3> QED
        BY <2>1, <3>1, <3>2, ConstFacts
    <2>5. net.reach \in net.reach..Len(Flight)
      BY <2>1, ConstFacts
    <2> QED
      BY <2>2, <2>3, <2>4, <2>5 DEF ProcessSend
  <1>6. SameRead
    BY <1>2 DEF SameRead
  <1>7. StreamExact' /\ Units'
    BY <1>3, <1>4, <1>5, <1>6, StreamKept
  <1>8. TypeOK'
    BY <1>1, <1>2, <1>3, <1>4, <1>5, TypeParts, TypeKept
  <1>9. Shape'
    BY <1>1, <1>2, <1>3, <1>4 DEF Shape, F, Closed, Quiet, Bottom
  <1>10. Calls'
    BY <1>1, <1>2, <1>3, <1>4 DEF Calls, F, Closed, Pumping
  <1>11. Records'
    BY <1>1, <1>3, <1>4 DEF Records, Closed
  <1> QED
    BY <1>7, <1>8, <1>9, <1>10, <1>11 DEF Inv

(* It finds nothing more to do, or the end of the handshake.               *)
LEMMA ProcessEndStep == Inv /\ ProcessEnd => Inv'
  <1> SUFFICES ASSUME Inv, ProcessEnd PROVE Inv'
    OBVIOUS
  <1>1. /\ TypeOK /\ Shape /\ Calls /\ Records
    BY DEF Inv
  <1>2. stack \in Seq(Frames) /\ stack # <<>> /\ F(1) = "process" /\ Len(stack) \in Nat
    BY <1>1, TopFact DEF ProcessEnd
  <1>3. /\ ~Closed /\ eng.pld = 0 /\ ~Sendable
        /\ eng' = eng /\ accum' = accum /\ net' = net /\ got' = got /\ hist' = hist
    BY DEF ProcessEnd, RecvApp
  <1>0. /\ sess' = [sess EXCEPT !.handshake_done = sess.handshake_done \/ NowUp]
        /\ stack' = IF NowUp THEN Push("on_handshake", 0, Tail(stack)) ELSE Tail(stack)
    BY DEF ProcessEnd
  <1>4. /\ sess' \in [open : BOOLEAN, handshake_done : BOOLEAN] /\ sess'.open = sess.open
        /\ NowUp => sess'.handshake_done
        /\ ~NowUp => (sess'.handshake_done <=> sess.handshake_done)
    <2>1. sess \in [open : BOOLEAN, handshake_done : BOOLEAN]
      BY <1>1, TypeParts
    <2> QED
      BY <1>0, <2>1
  <1>5. eng.ready /\ ~NowUp => sess.handshake_done
    BY <1>1, <1>3 DEF NowUp, SendApp, Calls
  <1>6. CASE NowUp
    <2>1. ~sess.handshake_done /\ eng.ready /\ eng.out = 0
      BY <1>6 DEF NowUp, SendApp
    <2>2. Len(stack) = 2 /\ F(2) \in Bottom
      BY <1>1, <1>2, <2>1 DEF Shape, Quiet, Bottom
    <2>3. stack' = Push("on_handshake", 0, Tail(stack))
      BY <1>0, <1>6
    <2>4. /\ stack' \in Seq(Frames) /\ stack' # <<>> /\ Len(stack') = 2
          /\ stack'[1].f = "on_handshake" /\ stack'[2].f = stack[2].f
      <3>1. \A j \in 2..Len(stack) : stack'[j] = stack[j]
        BY <1>2, <2>3, Names, Replaced
      <3> QED
        BY <1>2, <2>2, <2>3, <3>1, Names, Replaced
    <2>5. SameRead
      BY <1>2, <2>3, Names, HasReplaced DEF SameRead, F
    <2>6. StreamExact' /\ Units'
      BY <1>1, <1>3, <1>4, <2>5, ConstFacts, TypeParts, StreamKept
    <2>7. TypeOK'
      <3>1. /\ eng' \in Engines /\ got' \in Seq(1..Len(Flight)) /\ Len(stack') <= 4
            /\ hist' \in [kept : BOOLEAN, writes : 0..MaxWrites] /\ accum' = accum /\ net' = net
        BY <1>1, <1>3, <2>4, TypeParts
      <3>2. net \in [arrived : 0..(Len(Flight) * RecLen), free : 0..SndBuf, reach : 0..Len(Flight)]
        BY <1>1, TypeParts
      <3> QED
        BY <1>1, <1>4, <2>4, <3>1, <3>2, TypeKept
    <2>8. Shape'
      BY <1>3, <1>4, <1>6, <2>2, <2>4 DEF Shape, F, Closed, Quiet, Sendable
    <2>9. Calls'
      BY <1>1, <1>2, <1>3, <1>4, <1>6, <2>1, <2>4 DEF Calls, F, Closed, Pumping
    <2>10. Records'
      BY <1>1, <1>3 DEF Records, Closed
    <2> QED
      BY <2>6, <2>7, <2>8, <2>9, <2>10 DEF Inv
  <1>7. CASE ~NowUp
    <2>1. stack' = Tail(stack)
      BY <1>0, <1>7
    <2>2. /\ stack' \in Seq(Frames) /\ Len(stack') = Len(stack) - 1
          /\ Len(stack') = 0 => stack' = <<>>
          /\ \A j \in 1..(Len(stack) - 1) : stack'[j] = stack[j + 1]
      BY <1>2, <2>1, Popped
    <2>3. /\ Len(stack) = 1 \/ Len(stack) = 2 \/ Len(stack) = 3 \/ Len(stack) = 4
          /\ Len(stack) = 2 => F(2) \in Bottom
          /\ Len(stack) = 3 => F(2) = "on_handshake" /\ F(3) \in Bottom /\ Quiet
          /\ Len(stack) = 4 => F(2) = "on_data" /\ F(3) = "process" /\ F(4) \in Bottom
      <3>1. F(1) \notin Bottom \cup {"feed"} /\ F(1) # "on_error" /\ F(1) # "on_handshake"
            /\ F(1) # "on_data"
        BY <1>2 DEF Bottom
      <3>2. Len(stack) = 1 \/ Len(stack) = 2 \/ Len(stack) = 3 \/ Len(stack) = 4
        BY <1>1, <1>2 DEF Shape
      <3>3. Len(stack) = 2 => F(2) \in Bottom
        BY <1>1, <1>2, <3>1 DEF Shape
      <3>4. Len(stack) = 3 => F(2) = "on_handshake" /\ F(3) \in Bottom /\ Quiet
        BY <1>1, <1>2, <3>1 DEF Shape
      <3>5. Len(stack) = 4 => F(2) = "on_data" /\ F(3) = "process" /\ F(4) \in Bottom
        BY <1>1, <1>2, <3>1 DEF Shape
      <3> QED
        BY <3>2, <3>3, <3>4, <3>5
    <2>4. /\ Len(stack) = 2 => stack'[1] = stack[2]
          /\ Len(stack) = 3 => stack'[1] = stack[2] /\ stack'[2] = stack[3]
          /\ Len(stack) = 4 => stack'[1] = stack[2] /\ stack'[2] = stack[3] /\ stack'[3] = stack[4]
      BY <2>2
    <2>5. SameRead
      BY <1>2, <2>1, HasPopped DEF SameRead, F
    <2>6. StreamExact' /\ Units'
      BY <1>1, <1>3, <1>4, <2>5, ConstFacts, TypeParts, StreamKept
    <2>7. TypeOK'
      BY <1>1, <1>3, <1>4, <2>2, <2>3, TypeParts, TypeKept
    <2>8. Shape'
      <3>1. CASE Len(stack) = 1
        BY <2>2, <3>1 DEF Shape
      <3>2. CASE Len(stack) = 2
        BY <2>2, <2>3, <2>4, <3>2 DEF Shape, F
      <3>3. CASE Len(stack) = 3
        <4>1. Len(stack') = 2 /\ F(1)' = "on_handshake" /\ F(2)' \in Bottom
          BY <2>2, <2>3, <2>4, <3>3 DEF F
        <4>2. Quiet' /\ ~Sendable'
          BY <1>3, <1>4, <1>7, <2>3, <3>3 DEF Quiet, Closed, Sendable
        <4> QED
          BY <4>1, <4>2 DEF Shape
      <3>4. CASE Len(stack) = 4
        <4>1. /\ Len(stack') = 3 /\ F(1)' = "on_data" /\ F(2)' = "process" /\ F(3)' \in Bottom
          BY <2>2, <2>3, <2>4, <3>4 DEF F
        <4>2. ~Closed' /\ eng'.pld = 0
          BY <1>3 DEF Closed
        <4> QED
          BY <4>1, <4>2 DEF Shape
      <3> QED
        BY <2>3, <3>1, <3>2, <3>3, <3>4
    <2>9. Calls'
      <3>1. sess.open
        BY <1>1, <1>2 DEF Calls
      <3>2. eng'.ready <=> sess'.handshake_done
        BY <1>1, <1>3, <1>4, <1>5, <1>7 DEF Calls
      <3> QED
        BY <1>3, <1>4, <3>1, <3>2 DEF Calls, F, Closed, Sendable
    <2>10. Records'
      BY <1>1, <1>3 DEF Records, Closed
    <2> QED
      BY <2>6, <2>7, <2>8, <2>9, <2>10 DEF Inv
  <1> QED
    BY <1>6, <1>7

(* A handler that it called returns.                                       *)
LEMMA HandlerReturnStep == Inv /\ HandlerReturn => Inv'
  <1> SUFFICES ASSUME Inv, HandlerReturn PROVE Inv'
    OBVIOUS
  <1>1. /\ TypeOK /\ Shape /\ Calls /\ Records
    BY DEF Inv
  <1>2. /\ stack \in Seq(Frames) /\ stack # <<>> /\ F(1) \in UserCode /\ Len(stack) \in Nat
        /\ stack' = Tail(stack)
    BY <1>1, TopFact DEF HandlerReturn
  <1>3. /\ eng' = eng /\ accum' = accum /\ sess' = sess /\ net' = net /\ got' = got /\ hist' = hist
    BY DEF HandlerReturn
  <1>4. /\ stack' \in Seq(Frames) /\ Len(stack') = Len(stack) - 1
        /\ \A j \in 1..(Len(stack) - 1) : stack'[j] = stack[j + 1]
    BY <1>2, Popped
  <1>5. SameRead
    BY <1>2, HasPopped DEF SameRead, F, UserCode
  <1>6. StreamExact' /\ Units'
    BY <1>1, <1>3, <1>5, ConstFacts, TypeParts, StreamKept
  <1>7. \/ /\ Len(stack) = 2 /\ F(2) \in Bottom /\ eng.pld = 0
           /\ Closed \/ (~Sendable /\ sess.handshake_done)
        \/ /\ Len(stack) = 3 /\ F(2) = "process" /\ F(3) \in Bottom /\ eng.pld = 0 /\ ~Closed
    <2>1. eng.pld # 0 => ~Closed /\ Pumping
      BY <1>1 DEF Calls
    <2> QED
      BY <1>1, <1>2, <2>1 DEF Shape, Quiet, Bottom, UserCode, Pumping
  <1>8. /\ Len(stack) = 2 => Len(stack') = 1 /\ stack'[1] = stack[2]
        /\ Len(stack) = 3 => Len(stack') = 2 /\ stack'[1] = stack[2] /\ stack'[2] = stack[3]
    BY <1>4
  <1>9. TypeOK' /\ stack' # <<>>
    <2>1. stack' # <<>> /\ Len(stack') <= 4
      BY <1>4, <1>7, <1>8, EmptyLen, SMTT(30)
    <2> QED
      BY <1>1, <1>3, <1>4, <2>1, TypeParts, TypeKept
  <1>10. Shape'
    BY <1>7, <1>8 DEF Shape, F
  <1>11. Calls'
    <2>1. CASE Len(stack) = 2
      BY <1>1, <1>2, <1>3, <1>7, <1>8, <1>9, <2>1 DEF Calls, F, Closed, Pumping, Sendable
    <2>2. CASE Len(stack) = 3
      BY <1>1, <1>2, <1>3, <1>7, <1>8, <1>9, <2>2 DEF Calls, F, Closed, Pumping
    <2> QED
      BY <1>7, <2>1, <2>2
  <1>12. Records'
    BY <1>1, <1>3 DEF Records, Closed
  <1> QED
    BY <1>6, <1>9, <1>10, <1>11, <1>12 DEF Inv

-----------------------------------------------------------------------------
(* So do tcp_ssl_write(), the peer's acknowledgements and the end.         *)

(* tcp_ssl_write().                                                        *)
LEMMA WriteStep == ASSUME Inv, NEW n \in 1..MaxRecord, Write(n) PROVE Inv'
  <1>1. /\ TypeOK /\ Shape /\ Calls /\ Records
    BY DEF Inv
  <1>2. /\ stack \in Seq(Frames) /\ Len(stack) \in Nat /\ (stack = <<>> <=> Len(stack) = 0)
        /\ \/ Len(stack) = 0
           \/ Len(stack) > 0 /\ F(1) = "on_data"
           \/ Len(stack) > 0 /\ F(1) = "on_handshake"
    BY <1>1, TopFact DEF Write
  <1>3. /\ sess.open /\ sess.handshake_done /\ hist.writes < MaxWrites /\ ~Closed /\ eng.ready
        /\ eng' = [eng EXCEPT !.out = n] /\ hist' = [hist EXCEPT !.writes = hist.writes + 1]
        /\ stack' = Push("process", 0, stack)
        /\ accum' = accum /\ sess' = sess /\ net' = net /\ got' = got
    BY DEF Write, SendApp
  <1>4. \/ Len(stack) = 0
        \/ Len(stack) = 2 /\ F(1) = "on_handshake" /\ F(2) \in Bottom
        \/ Len(stack) = 3 /\ F(1) = "on_data" /\ F(2) = "process" /\ F(3) \in Bottom
    BY <1>1, <1>2 DEF Shape, Bottom
  <1>5. eng.pld = 0
    BY <1>1, <1>4 DEF Calls, Pumping
  <1>6. /\ stack' \in Seq(Frames) /\ stack' # <<>> /\ Len(stack') = Len(stack) + 1
        /\ stack'[1].f = "process"
        /\ Len(stack) = 2 => stack'[2] = stack[1] /\ stack'[3] = stack[2]
        /\ Len(stack) = 3 => stack'[2] = stack[1] /\ stack'[3] = stack[2] /\ stack'[4] = stack[3]
    <2> DEFINE s == Push("process", 0, stack)
    <2>1. /\ s \in Seq(Frames) /\ s # <<>> /\ Len(s) = Len(stack) + 1 /\ s[1].f = "process"
          /\ \A j \in 2..(Len(stack) + 1) : s[j] = stack[j - 1]
      <3>1. "process" \in FrameNames /\ 0 \in Nat /\ stack \in Seq(Frames)
        BY <1>2, Names
      <3> QED
        BY <3>1, Pushed
    <2> HIDE DEF s
    <2>2. /\ Len(stack) = 2 => s[2] = stack[1] /\ s[3] = stack[2]
          /\ Len(stack) = 3 => s[2] = stack[1] /\ s[3] = stack[2] /\ s[4] = stack[3]
      BY <2>1
    <2>3. stack' = s
      BY <1>3 DEF s
    <2> QED
      BY <2>1, <2>2, <2>3
  <1>7. SameRead
    BY <1>2, <1>3, Names, HasPushed DEF SameRead
  <1>8. /\ eng' \in Engines /\ eng'.pld = eng.pld /\ eng'.pos = eng.pos /\ eng'.st = eng.st
        /\ eng'.ready = eng.ready
    <2>1. eng \in Engines /\ n \in 0..MaxRecord
      BY <1>1, TypeParts, ConstFacts
    <2> QED
      BY <1>3, <2>1 DEF Engines
  <1>9. hist' \in [kept : BOOLEAN, writes : 0..MaxWrites] /\ hist'.kept = hist.kept
    <2>1. hist \in [kept : BOOLEAN, writes : 0..MaxWrites]
      BY <1>1, TypeParts
    <2>2. hist.writes + 1 \in 0..MaxWrites
      BY <1>3, <2>1, ConstFacts
    <2> QED
      BY <1>3, <2>1, <2>2
  <1>10. StreamExact' /\ Units'
    <2>1. StreamExact /\ Units
      BY DEF Inv
    <2>2. (Overflowing' <=> Overflowing) /\ (Feeding' <=> Feeding)
      BY <1>7 DEF SameRead, Has, Overflowing, Feeding
    <2>3. (\E i \in 1..Len(stack) : stack[i].f = "refeed")' <=>
            (\E i \in 1..Len(stack) : stack[i].f = "refeed")
      BY <1>7 DEF SameRead, Has
    <2>4. accum' = accum /\ sess' = sess /\ net' = net
      BY <1>3
    <2> QED
      BY <1>8, <1>9, <2>1, <2>2, <2>3, <2>4 DEF StreamExact, Units
  <1>11. TypeOK'
    <2>1. accum' = accum /\ sess' = sess /\ net' = net /\ got' = got
      BY <1>3
    <2>2. Len(stack') <= 4
      <3>1. Len(stack') = Len(stack) + 1
        BY <1>6
      <3>2. Len(stack) = 0 \/ Len(stack) = 2 \/ Len(stack) = 3
        BY <1>4
      <3>3. \A a, b : (a = 0 \/ a = 2 \/ a = 3) /\ b = a + 1 => b <= 4
        OBVIOUS
      <3> QED
        BY <3>1, <3>2, <3>3, Zenon
    <2> QED
      BY <1>1, <1>6, <1>8, <1>9, <2>1, <2>2, TypeParts, TypeKept
  <1>12. Quiet'
    BY <1>3, <1>5, <1>8 DEF Quiet, Closed
  <1>13. Shape'
    <2>1. CASE Len(stack) = 0
      BY <1>6, <1>12, <2>1 DEF Shape, F
    <2>2. CASE Len(stack) = 2
      <3>1. Len(stack') = 3 /\ F(1)' = "process" /\ F(2)' = "on_handshake" /\ F(3)' \in Bottom
        BY <1>4, <1>6, <2>2 DEF F
      <3> QED
        BY <1>12, <3>1 DEF Shape
    <2>3. CASE Len(stack) = 3
      <3>1. Len(stack') = 4 /\ F(1)' = "process" /\ F(2)' = "on_data" /\ F(3)' = "process"
                            /\ F(4)' \in Bottom
        BY <1>4, <1>6, <2>3 DEF F
      <3> QED
        BY <1>12, <3>1 DEF Shape
    <2> QED
      BY <1>4, <2>1, <2>2, <2>3
  <1>14. Calls'
    BY <1>3, <1>5, <1>6, <1>8 DEF Calls, F
  <1>15. Records'
    BY <1>1, <1>3, <1>8 DEF Records, Closed
  <1> QED
    BY <1>10, <1>11, <1>13, <1>14, <1>15 DEF Inv

(* The peer acknowledges what was sent.                                    *)
LEMMA AckedStep == ASSUME Inv, NEW n \in 1..SndBuf, Acked(n) PROVE Inv'
  <1>1. /\ TypeOK /\ Shape /\ Calls /\ Records /\ StreamExact /\ Units
    BY DEF Inv
  <1>2. /\ stack = <<>> /\ net.free + n <= SndBuf /\ net' = [net EXCEPT !.free = net.free + n]
        /\ eng' = eng /\ accum' = accum /\ sess' = sess /\ stack' = stack /\ got' = got /\ hist' = hist
    BY DEF Acked
  <1>3. /\ net' \in [arrived : 0..(Len(Flight) * RecLen), free : 0..SndBuf, reach : 0..Len(Flight)]
        /\ net'.arrived = net.arrived /\ net'.reach = net.reach
    <2>1. net \in [arrived : 0..(Len(Flight) * RecLen), free : 0..SndBuf, reach : 0..Len(Flight)]
      BY <1>1, TypeParts
    <2>2. net.free + n \in 0..SndBuf
      BY <1>2, <2>1, ConstFacts
    <2> QED
      BY <1>2, <2>1, <2>2
  <1>4. TypeOK'
    BY <1>1, <1>2, <1>3, TypeParts, TypeKept
  <1>5. Shape'
    BY <1>2 DEF Shape
  <1>6. Calls'
    BY <1>1, <1>2 DEF Calls, F, Closed, Pumping
  <1>7. Records'
    BY <1>1, <1>2 DEF Records, Closed
  <1>8. StreamExact' /\ Units'
    BY <1>1, <1>2, <1>3 DEF StreamExact, Units, Overflowing, Feeding
  <1> QED
    BY <1>4, <1>5, <1>6, <1>7, <1>8 DEF Inv

(* tcp_ssl_free().                                                         *)
LEMMA FreeStep == Inv /\ tcp_ssl_free => Inv'
  <1> SUFFICES ASSUME Inv, tcp_ssl_free PROVE Inv'
    OBVIOUS
  <1>1. /\ TypeOK /\ Shape /\ Calls /\ Records /\ StreamExact /\ Units
    BY DEF Inv
  <1>2. /\ stack = <<>> /\ sess' = [sess EXCEPT !.open = FALSE]
        /\ eng' = eng /\ accum' = accum /\ net' = net /\ stack' = stack /\ got' = got /\ hist' = hist
    BY DEF tcp_ssl_free
  <1>3. /\ sess' \in [open : BOOLEAN, handshake_done : BOOLEAN]
        /\ sess'.open = FALSE /\ sess'.handshake_done = sess.handshake_done
    <2>1. sess \in [open : BOOLEAN, handshake_done : BOOLEAN]
      BY <1>1, TypeParts
    <2> QED
      BY <1>2, <2>1
  <1>4. TypeOK'
    BY <1>1, <1>2, <1>3, TypeParts, TypeKept
  <1>5. Shape'
    BY <1>2 DEF Shape
  <1>6. Calls'
    BY <1>1, <1>2, <1>3 DEF Calls, F, Closed, Pumping
  <1>7. Records'
    BY <1>1, <1>2 DEF Records, Closed
  <1>8. StreamExact' /\ Units'
    BY <1>1, <1>2, <1>3 DEF StreamExact, Units, Overflowing, Feeding
  <1> QED
    BY <1>4, <1>5, <1>6, <1>7, <1>8 DEF Inv

-----------------------------------------------------------------------------
(* And so does tcp_ssl_read().                                             *)

(* The stack while no handler and no process_ssl_engine() runs.            *)
LEMMA BottomFact ==
    ASSUME Inv, stack # <<>>, F(1) \in Bottom \cup {"feed"}
    PROVE  /\ Len(stack) = 1 /\ sess.open
           /\ Overflowing <=> F(1) = "overflow"
           /\ Feeding <=> F(1) \in {"feed", "refeed"}
           /\ (\E i \in 1..Len(stack) : stack[i].f = "refeed") <=> F(1) = "refeed"
           /\ F(1) # "feed" => eng.pld = 0 /\ (eng.ready /\ ~sess.handshake_done => Closed)
  <1>1. /\ TypeOK /\ Shape /\ Calls
    BY DEF Inv
  <1>2. F(1) # "process" /\ F(1) # "on_error" /\ F(1) # "on_handshake" /\ F(1) # "on_data"
    BY DEF Bottom
  <1>3. Len(stack) = 1
    BY <1>1, <1>2 DEF Shape
  <1>4. sess.open /\ (F(1) # "feed" => ~Pumping)
    BY <1>1, <1>3 DEF Calls, Pumping
  <1>5. F(1) # "feed" => eng.pld = 0 /\ (eng.ready /\ ~sess.handshake_done => Closed)
    BY <1>1, <1>3, <1>4 DEF Calls
  <1>6. 1..Len(stack) = {1}
    BY <1>3
  <1> QED
    BY <1>3, <1>4, <1>5, <1>6 DEF Overflowing, Feeding, F

(* tcp_ssl_read() returns.                                                 *)
LEMMA LeaveStep == Inv /\ Leave => Inv'
  <1> SUFFICES ASSUME Inv, Leave PROVE Inv'
    OBVIOUS
  <1>1. /\ TypeOK /\ Shape /\ Calls /\ Records /\ StreamExact /\ Units
    BY DEF Inv
  <1>2. /\ stack \in Seq(Frames) /\ stack # <<>> /\ F(1) \in {"leave", "overflow"}
        /\ Top("leave") => F(1) = "leave"
    BY <1>1, TopFact DEF Leave
  <1>3. /\ stack' = Tail(stack) /\ sess' = [sess EXCEPT !.open = Top("leave") /\ ~Closed]
        /\ eng' = eng /\ accum' = accum /\ net' = net /\ got' = got /\ hist' = hist
    BY DEF Leave
  <1>4. /\ Len(stack) = 1 /\ sess.open /\ eng.pld = 0
        /\ Overflowing <=> F(1) = "overflow"
        /\ ~Feeding /\ (eng.ready /\ ~sess.handshake_done => Closed)
    BY <1>2, BottomFact DEF Bottom
  <1>5. stack' = <<>>
    BY <1>2, <1>3, <1>4, Popped
  <1>6. /\ sess' \in [open : BOOLEAN, handshake_done : BOOLEAN]
        /\ sess'.open => F(1) = "leave" /\ ~Closed
        /\ sess'.handshake_done = sess.handshake_done
    <2>1. sess \in [open : BOOLEAN, handshake_done : BOOLEAN]
      BY <1>1, TypeParts
    <2> QED
      BY <1>2, <1>3, <2>1
  <1>7. eng' = eng /\ accum' = accum /\ net' = net /\ got' = got /\ hist' = hist
    BY <1>3
  <1>8. TypeOK'
    <2>1. stack' \in Seq(Frames) /\ Len(stack') <= 4
      BY <1>5
    <2> QED
      BY <1>1, <1>6, <1>7, <2>1, TypeParts, TypeKept
  <1>9. Shape'
    BY <1>5 DEF Shape
  <1>10. Calls'
    BY <1>1, <1>4, <1>5, <1>6, <1>7 DEF Calls, Closed
  <1>11. Records'
    BY <1>1, <1>7 DEF Records, Closed
  <1>12. StreamExact' /\ Units'
    BY <1>1, <1>4, <1>5, <1>6, <1>7 DEF StreamExact, Units
  <1> QED
    BY <1>8, <1>9, <1>10, <1>11, <1>12 DEF Inv

(* What the two calls of process_ssl_engine() in tcp_ssl_read() share.     *)
LEMMA FeedOverStep ==
    ASSUME Inv, stack # <<>>, F(1) \in {"feed", "refeed"}, FeedOver
    PROVE  Inv'
  <1>1. /\ TypeOK /\ Shape /\ Calls /\ Records /\ StreamExact /\ Units
    BY DEF Inv
  <1>2. hist' = [hist EXCEPT !.kept = hist.kept \/ accum # <<>>]
    BY DEF FeedOver
  <1>3. eng' = eng /\ accum' = accum /\ net' = net /\ got' = got /\ sess' = sess
    BY DEF FeedOver
  <1>4. /\ Len(stack) = 1 /\ sess.open /\ ~Overflowing
    BY BottomFact DEF Bottom
  <1>5. /\ stack' \in Seq(Frames) /\ stack' # <<>> /\ Len(stack') = 2
        /\ stack'[1].f = "process" /\ stack'[2].f = "leave"
    <2>1. "leave" \in FrameNames /\ 0 \in Nat /\ stack \in Seq(Frames)
      BY <1>1, Names, TypeParts
    <2>2. stack' = Push("process", 0, Push("leave", 0, Tail(stack)))
      BY DEF FeedOver
    <2> QED
      BY <1>4, <2>1, <2>2, Called
  <1>6. /\ hist' \in [kept : BOOLEAN, writes : 0..MaxWrites]
        /\ hist'.kept <=> hist.kept \/ accum # <<>>
    <2>1. hist \in [kept : BOOLEAN, writes : 0..MaxWrites]
      BY <1>1, TypeParts
    <2> QED
      BY <1>2, <2>1
  <1>7. TypeOK'
    <2>1. stack' \in Seq(Frames) /\ Len(stack') <= 4
      BY <1>5
    <2> QED
      BY <1>1, <1>3, <1>6, <2>1, TypeParts, TypeKept
  <1>8. 1..Len(stack') = {1, 2}
    BY <1>5
  <1>9. /\ ~Overflowing' /\ ~(\E i \in 1..Len(stack) : stack[i].f = "refeed")'
    BY <1>5, <1>8 DEF Overflowing
  <1>10. Shape'
    <2>1. Len(stack') = 2 /\ F(1)' = "process" /\ F(2)' \in Bottom
      BY <1>5 DEF F, Bottom
    <2> QED
      BY <2>1 DEF Shape
  <1>11. Calls'
    <2>1. Pumping' /\ Len(stack') = 2 /\ stack' # <<>>
      BY <1>5 DEF Pumping, F
    <2> QED
      BY <1>1, <1>3, <1>4, <2>1 DEF Calls, Closed
  <1>12. Records'
    BY <1>1, <1>3 DEF Records, Closed
  <1>13. StreamExact'
    BY <1>1, <1>3, <1>4, <1>6, <1>9 DEF StreamExact
  <1>14. Units'
    BY <1>1, <1>3, <1>6, <1>9 DEF Units
  <1> QED
    BY <1>7, <1>10, <1>11, <1>12, <1>13, <1>14 DEF Inv

FeedFull(n) ==
    /\ stack' = Push("process", 0, Push("refeed", n, Tail(stack)))
    /\ UNCHANGED <<eng, accum, sess, net, got, hist>>

(* The engine takes nothing: process_ssl_engine() is run first.            *)
LEMMA FeedFullStep ==
    ASSUME Inv, stack # <<>>, F(1) = "feed", accum # <<>>, NEW n \in Nat, FeedFull(n)
    PROVE  Inv'
  <1>1. /\ TypeOK /\ Shape /\ Calls /\ Records /\ StreamExact /\ Units
    BY DEF Inv
  <1>2. /\ eng' = eng /\ accum' = accum /\ net' = net /\ got' = got /\ sess' = sess /\ hist' = hist
    BY DEF FeedFull
  <1>3. /\ Len(stack) = 1 /\ sess.open /\ ~Overflowing
    BY BottomFact DEF Bottom
  <1>4. /\ stack' \in Seq(Frames) /\ stack' # <<>> /\ Len(stack') = 2
        /\ stack'[1].f = "process" /\ stack'[2].f = "refeed"
    <2>1. "refeed" \in FrameNames /\ stack \in Seq(Frames)
      BY <1>1, Names, TypeParts
    <2>2. stack' = Push("process", 0, Push("refeed", n, Tail(stack)))
      BY DEF FeedFull
    <2> QED
      BY <1>3, <2>1, <2>2, Called
  <1>5. TypeOK'
    <2>1. stack' \in Seq(Frames) /\ Len(stack') <= 4
      BY <1>4
    <2> QED
      BY <1>1, <1>2, <2>1, TypeParts, TypeKept
  <1>6. 1..Len(stack') = {1, 2}
    BY <1>4
  <1>7. ~Overflowing' /\ Feeding'
    BY <1>4, <1>6 DEF Overflowing, Feeding
  <1>8. Shape'
    <2>1. Len(stack') = 2 /\ F(1)' = "process" /\ F(2)' \in Bottom
      BY <1>4 DEF F, Bottom
    <2> QED
      BY <2>1 DEF Shape
  <1>9. Calls'
    <2>1. Pumping' /\ Len(stack') = 2 /\ stack' # <<>>
      BY <1>4 DEF Pumping, F
    <2> QED
      BY <1>1, <1>2, <1>3, <2>1 DEF Calls, Closed
  <1>10. Records'
    BY <1>1, <1>2 DEF Records, Closed
  <1>11. StreamExact'
    BY <1>1, <1>2, <1>3, <1>7 DEF StreamExact
  <1>12. Units'
    BY <1>1, <1>2, <1>7 DEF Units
  <1> QED
    BY <1>5, <1>8, <1>9, <1>10, <1>11, <1>12 DEF Inv

(* What is left of the accumulator after m units were taken off it.        *)
LEMMA TakenOff ==
    ASSUME NEW a \in Nat, NEW s \in Seq(1..a), NEW m \in 1..Len(s)
    PROVE  LET t == SubSeq(s, m + 1, Len(s))
           IN /\ t \in Seq(1..a) /\ Len(t) = Len(s) - m
              /\ \A i \in 1..Len(t) : t[i] = s[m + i] /\ m + i \in 1..Len(s)
  <1> DEFINE t == SubSeq(s, m + 1, Len(s))
  <1>1. Len(s) \in Nat /\ m \in Nat
    OBVIOUS
  <1>2. t \in Seq(1..a) /\ Len(t) = Len(s) - m
    BY <1>1
  <1>3. \A i \in 1..(Len(s) - m) : t[i] = s[m + i] /\ m + i \in 1..Len(s)
    BY <1>1
  <1> HIDE DEF t
  <1>4. \A i \in 1..Len(t) : t[i] = s[m + i] /\ m + i \in 1..Len(s)
    BY <1>2, <1>3
  <1> QED
    BY <1>2, <1>4 DEF t

(* The engine takes some of the accumulated units.                         *)
LEMMA FeedUnitsStep ==
    ASSUME Inv, stack # <<>>, F(1) \in {"feed", "refeed"}, accum # <<>>, Available > 0,
           NEW n \in Nat, FeedUnits(n)
    PROVE  Inv'
  <1>1. /\ TypeOK /\ Shape /\ Calls /\ Records /\ StreamExact /\ Units
    BY DEF Inv
  <1>2. /\ sess' = sess /\ net' = net /\ got' = got /\ hist' = hist
    BY DEF FeedUnits
  <1>3. /\ Len(stack) = 1 /\ sess.open /\ ~Overflowing
    BY BottomFact DEF Bottom
  <1>4. /\ stack' \in Seq(Frames) /\ stack' # <<>> /\ Len(stack') = 1 /\ stack'[1].f = "feed"
    <2>1. "feed" \in FrameNames /\ stack \in Seq(Frames)
      BY <1>1, Names, TypeParts
    <2>2. stack' = Push("feed", n, Tail(stack))
      BY DEF FeedUnits
    <2> QED
      BY <1>3, <2>1, <2>2, Replaced
  <1> DEFINE m == ToFeed
  <1>5. /\ m \in 1..Len(accum)
        /\ \/ Grown(m) /\ \A i \in 1..m : accum[i] = eng.pos + i
           \/ eng' = [eng EXCEPT !.st = "spoiled"] /\ hist.kept
    <2>1. eng' \in Fed(SubSeq(accum, 1, ToFeed))
      BY DEF FeedUnits
    <2> QED
      BY <1>1, <1>3, <2>1, FedFact
  <1>6. accum' = SubSeq(accum, m + 1, Len(accum))
    BY DEF FeedUnits
  <1>7. /\ eng \in Engines /\ eng.pos \in Nat /\ net.arrived \in Nat
        /\ accum \in Seq(1..net.arrived) /\ Len(accum) \in Nat /\ Len(accum) <= AccumSize
        /\ AccumSize \in Nat
    BY <1>1, TypeParts, ConstFacts, EmptyLen
  <1> HIDE DEF m
  <1>8. /\ accum' \in Seq(1..net.arrived) /\ Len(accum') = Len(accum) - m
        /\ \A i \in 1..Len(accum') : accum'[i] = accum[m + i] /\ m + i \in 1..Len(accum)
    BY <1>5, <1>6, <1>7, TakenOff, ZenonT(30)
  <1>9. /\ eng.st = "open" /\ eng.pld = 0 /\ (eng.ready \/ eng.out = 0)
        /\ m <= (IF eng.pos % RecLen = 0 THEN 1 ELSE RecLen - (eng.pos % RecLen))
    <2>1. /\ eng.st = "open" /\ eng.pld = 0 /\ (eng.ready \/ eng.out = 0)
          /\ Available \in Nat
          /\ Available = IF eng.pos % RecLen = 0 THEN 1 ELSE RecLen - (eng.pos % RecLen)
      BY <1>7, AvailableFact
    <2>2. m <= Available
      BY <1>7, <2>1 DEF m, ToFeed, Least
    <2> QED
      BY <2>1, <2>2
  <1>10. ~Overflowing' /\ Feeding' /\ ~(\E i \in 1..Len(stack) : stack[i].f = "refeed")'
    <2>1. 1..Len(stack') = {1}
      BY <1>4
    <2> QED
      BY <1>4, <2>1 DEF Overflowing, Feeding
  <1>11. Pumping'
    BY <1>4 DEF Pumping, F
  <1>12. Shape'
    <2>1. Len(stack') = 1 /\ F(1)' \in Bottom \cup {"feed"}
      BY <1>4 DEF F
    <2> QED
      BY <2>1 DEF Shape
  <1>13. eng' \in Engines => TypeOK'
    <2>1. accum' \in Seq(1..net'.arrived) /\ Len(accum') <= AccumSize
      BY <1>2, <1>5, <1>7, <1>8
    <2>2. stack' \in Seq(Frames) /\ Len(stack') <= 4
      BY <1>4
    <2> QED
      BY <1>1, <1>2, <2>1, <2>2 DEF TypeOK
  <1>14. CASE eng' = [eng EXCEPT !.st = "spoiled"] /\ hist.kept
    <2>1. /\ eng' \in Engines /\ eng'.st = "spoiled" /\ eng'.pos = eng.pos /\ eng'.pld = 0
          /\ eng'.ready = eng.ready /\ eng'.out = eng.out
      BY <1>7, <1>9, <1>14 DEF Engines
    <2>2. TypeOK'
      BY <1>13, <2>1
    <2>3. StreamExact'
      BY <1>2, <1>14, <2>1 DEF StreamExact
    <2>4. Calls'
      BY <1>1, <1>2, <1>3, <1>4, <1>11, <2>1 DEF Calls, Closed, F
    <2>5. Records'
      BY <1>1, <1>2, <1>9, <2>1 DEF Records, Closed
    <2>6. Units'
      <3>1. eng'.pos + Len(accum') <= net'.arrived
        BY <1>1, <1>2, <1>5, <1>7, <1>8, <2>1 DEF Units
      <3> QED
        BY <1>1, <1>2, <1>10, <3>1 DEF Units
    <2> QED
      BY <1>12, <2>2, <2>3, <2>4, <2>5, <2>6 DEF Inv
  <1>15. CASE Grown(m) /\ \A i \in 1..m : accum[i] = eng.pos + i
    <2> DEFINE k == eng.pos \div RecLen
    <2>1. k \in Nat /\ RecLen \in Nat /\ RecLen >= 2
      BY <1>7, RecLenFact, DivMod
    <2>2. /\ (eng.pos + m) % RecLen = 0 => (eng.pos + m) \div RecLen = k + 1
          /\ (eng.pos + m) % RecLen # 0 => (eng.pos + m) \div RecLen = k
      <3>1. m \in Nat /\ m > 0
        BY <1>5, <1>7
      <3>2. m <= (IF eng.pos % RecLen = 0 THEN 1 ELSE RecLen - (eng.pos % RecLen))
        BY <1>9
      <3>3. eng.pos \in Nat
        BY <1>7
      <3> QED
        BY <2>1, <3>1, <3>2, <3>3, Advance DEF k
    <2>3. /\ {got[i] : i \in 1..Len(got)} = DataUpTo(k)
          /\ \A i, j \in 1..Len(got) : i < j => got[i] < got[j]
          /\ got # <<>> => eng.ready
          /\ eng.ready => \E q \in 1..k : Flight[q] = "done"
      <3>1. 0 \notin DataUpTo(k)
        BY DEF DataUpTo
      <3> QED
        BY <1>1, <1>9, <3>1 DEF Records, Closed
    <2> HIDE DEF k
    <2>4. /\ eng' \in Engines /\ eng'.pos = eng.pos + m /\ eng'.st \in {"open", "closed"}
      BY <1>15 DEF Grown
    <2>5. \/ /\ (eng.pos + m) % RecLen # 0
             /\ eng'.st = "open" /\ eng'.pld = 0 /\ eng'.ready = eng.ready /\ eng'.out = eng.out
          \/ /\ (eng.pos + m) % RecLen = 0 /\ k + 1 \in 1..Len(Flight)
             /\ \/ /\ Flight[k + 1] = "app" /\ eng.ready /\ eng'.st = "open"
                   /\ eng'.pld = k + 1 /\ eng'.ready = eng.ready /\ eng'.out = eng.out
                \/ /\ Flight[k + 1] = "app" /\ ~eng.ready /\ eng'.st = "closed"
                   /\ eng'.pld = 0 /\ eng'.ready = eng.ready /\ eng'.out = eng.out
                \/ /\ Flight[k + 1] # "app" /\ eng'.pld = 0
                   /\ eng'.ready # eng.ready =>
                        Flight[k + 1] = "done" /\ eng'.ready /\ eng'.out = eng.out
                   /\ eng'.out # eng.out => Flight[k + 1] = "ask"
      BY <1>15, <2>2 DEF Grown
    <2>6. TypeOK'
      BY <1>13, <2>4
    <2>7. StreamExact'
      <3>1. /\ eng.pos + Len(accum) = net.arrived
            /\ \A i, j \in 1..Len(accum) : accum[i] = accum[j] => i = j
            /\ ~hist.kept => \A i \in 1..Len(accum) : accum[i] = eng.pos + i
        BY <1>1, <1>3, <1>9 DEF StreamExact
      <3>2. eng'.pos + Len(accum') = net'.arrived
        BY <1>2, <1>5, <1>7, <1>8, <2>4, <3>1
      <3>3. \A i, j \in 1..Len(accum') : accum'[i] = accum'[j] => i = j
        <4> TAKE i, j \in 1..Len(accum')
        <4> HAVE accum'[i] = accum'[j]
        <4>1. m + i = m + j
          BY <1>8, <3>1, SMTT(30)
        <4> QED
          BY <1>5, <1>7, <1>8, <4>1
      <3>4. ~hist'.kept => \A i \in 1..Len(accum') : accum'[i] = eng'.pos + i
        <4> HAVE ~hist'.kept
        <4> TAKE i \in 1..Len(accum')
        <4>1. accum'[i] = eng.pos + (m + i)
          BY <1>2, <1>8, <3>1
        <4> QED
          BY <1>5, <1>7, <1>8, <2>4, <4>1
      <3> QED
        BY <2>4, <3>2, <3>3, <3>4 DEF StreamExact
    <2>8. Units'
      <3>1. eng'.pos + Len(accum') <= net'.arrived
        BY <1>1, <1>2, <1>5, <1>7, <1>8, <2>4 DEF Units
      <3> QED
        BY <1>1, <1>2, <1>10, <3>1 DEF Units
    <2>9. Calls'
      <3>1. eng'.pld # 0 => ~Closed'
        BY <2>1, <2>5 DEF Closed
      <3>2. sess'.handshake_done => eng'.ready
        BY <1>1, <1>2, <2>5 DEF Calls
      <3>3. eng'.ready /\ ~sess'.handshake_done => eng'.out = 0
        <4>1. ASSUME eng'.ready, ~sess'.handshake_done, eng'.out # 0 PROVE FALSE
          <5>1. eng.ready => eng.out = 0
            BY <1>1, <1>2, <4>1 DEF Calls
          <5>2. eng.out = 0
            BY <1>9, <5>1
          <5>3. eng.ready /\ k + 1 \in 1..Len(Flight) /\ Flight[k + 1] = "ask"
            BY <2>5, <4>1, <5>2
          <5>4. PICK q \in 1..k : Flight[q] = "done"
            BY <2>3, <5>3
          <5>5. q \in 1..Len(Flight) /\ q < k + 1
            BY <2>1, <5>3, ConstFacts
          <5> QED
            BY <5>3, <5>4, <5>5, NoRenegotiation
        <4> QED
          BY <4>1
      <3> QED
        BY <1>2, <1>3, <1>4, <1>11, <3>1, <3>2, <3>3 DEF Calls, F
    <2>10. Records'
      <3>1. CASE (eng.pos + m) % RecLen # 0
        <4>1. eng'.pld = 0 /\ eng'.ready = eng.ready /\ eng'.pos \div RecLen = k
          BY <2>2, <2>4, <2>5, <3>1
        <4>2. 0 \notin DataUpTo(k)
          BY <2>1 DEF DataUpTo
        <4> QED
          BY <1>2, <2>3, <4>1, <4>2 DEF Records, Closed
      <3>2. CASE (eng.pos + m) % RecLen = 0
        <4>1. /\ eng'.pos \div RecLen = k + 1 /\ eng'.pos % RecLen = 0 /\ k + 1 \in 1..Len(Flight)
          BY <2>2, <2>4, <2>5, <3>2
        <4>2. eng'.pld # 0 => eng'.pld = k + 1 /\ Flight[k + 1] = "app"
          BY <2>5, <3>2
        <4>5. eng'.pld # 0 \/ got # <<>> => eng'.ready
          BY <2>3, <2>5, <3>2
        <4>3. ~Closed' => DataUpTo(k + 1) \ {eng'.pld} = DataUpTo(k)
          <5> HAVE ~Closed'
          <5>1. \A q : q \in 1..(k + 1) <=> q \in 1..k \/ q = k + 1
            BY <2>1
          <5>2. k + 1 \notin 1..k /\ 0 \notin 1..(k + 1)
            BY <2>1
          <5>3. Flight[k + 1] = "app" => eng'.pld = k + 1
            BY <2>5, <3>2 DEF Closed
          <5> QED
            BY <2>1, <4>2, <5>1, <5>2, <5>3 DEF DataUpTo
        <4>4. eng'.ready => \E q \in 1..(k + 1) : Flight[q] = "done"
          <5>1. CASE eng.ready
            BY <2>1, <2>3, <5>1
          <5>2. CASE ~eng.ready
            <6>1. eng'.ready => Flight[k + 1] = "done"
              BY <2>5, <3>2, <5>2
            <6>2. k + 1 \in 1..(k + 1)
              BY <2>1
            <6> QED
              BY <6>1, <6>2
          <5> QED
            BY <5>1, <5>2
        <4> QED
          BY <1>2, <2>3, <4>1, <4>2, <4>3, <4>4, <4>5 DEF Records
      <3> QED
        BY <3>1, <3>2
    <2> QED
      BY <1>12, <2>6, <2>7, <2>8, <2>9, <2>10 DEF Inv
  <1> QED
    BY <1>5, <1>14, <1>15

(* tcp_ssl_read() itself: the chain goes in front of the accumulator.      *)
LEMMA ReadStep == ASSUME Inv, NEW n \in 1..MaxSegment, Read(n) PROVE Inv'
  <1>1. /\ TypeOK /\ Shape /\ Calls /\ Records /\ StreamExact /\ Units
    BY DEF Inv
  <1>2. /\ stack = <<>> /\ sess.open /\ net.arrived + n <= net.reach * RecLen
        /\ net' = [net EXCEPT !.arrived = net.arrived + n]
        /\ eng' = eng /\ sess' = sess /\ got' = got /\ hist' = hist
    BY DEF Read
  <1>3. /\ n \in Nat /\ n > 0 /\ net.arrived \in Nat /\ eng.pos \in Nat
        /\ accum \in Seq(1..net.arrived) /\ Len(accum) \in Nat /\ Len(accum) <= AccumSize
        /\ AccumSize \in Nat
    BY <1>1, TypeParts, ConstFacts, EmptyLen
  <1>4. /\ net' \in [arrived : 0..(Len(Flight) * RecLen), free : 0..SndBuf, reach : 0..Len(Flight)]
        /\ net'.arrived = net.arrived + n /\ net'.reach = net.reach
    <2>1. /\ net \in [arrived : 0..(Len(Flight) * RecLen), free : 0..SndBuf, reach : 0..Len(Flight)]
          /\ net.reach \in 0..Len(Flight)
      BY <1>1, TypeParts
    <2>2. net.reach * RecLen \in Nat /\ net.reach * RecLen <= Len(Flight) * RecLen
          /\ Len(Flight) * RecLen \in Nat
      <3>1. net.reach \in Nat /\ Len(Flight) \in Nat /\ net.reach <= Len(Flight)
        BY <2>1, ConstFacts
      <3> QED
        BY <3>1, RecLenFact, TimesMono
    <2>3. net.arrived + n \in 0..(Len(Flight) * RecLen)
      BY <1>2, <1>3, <2>2
    <2> QED
      BY <1>2, <2>1, <2>3
  <1>5. /\ ~Closed /\ eng.pld = 0 /\ (eng.ready => sess.handshake_done)
        /\ ~Overflowing /\ ~Feeding
    <2>1. Len(stack) = 0 /\ 1..0 = {}
      BY <1>2
    <2>2. ~Pumping /\ ~(Len(stack) = 3 /\ F(1) = "on_data")
      BY <2>1 DEF Pumping
    <2>3. ~Overflowing /\ ~Feeding
      BY <2>1 DEF Overflowing, Feeding
    <2> QED
      BY <1>1, <1>2, <2>2, <2>3 DEF Calls
  <1>6. /\ eng.pos + Len(accum) = net.arrived
        /\ \A i, j \in 1..Len(accum) : accum[i] = accum[j] => i = j
        /\ ~hist.kept => accum = <<>>
    BY <1>1, <1>2, <1>5 DEF StreamExact, Units, Closed
  <1>7. Records'
    BY <1>1, <1>2 DEF Records, Closed
  <1>8. net'.arrived <= net'.reach * RecLen
    BY <1>2, <1>4
  <1>9. ASSUME accum' \in Seq(1..net'.arrived), Len(accum') <= AccumSize,
               stack' \in Seq(Frames), Len(stack') <= 4
        PROVE  TypeOK'
    BY <1>1, <1>2, <1>4, <1>9 DEF TypeOK
  <1>10. CASE FitsAccum(n)
    <2>1. accum' = [i \in 1..n |-> net.arrived + i] \o accum
      BY <1>10 DEF Read
    <2>2. /\ accum' \in Seq(1..(net.arrived + n)) /\ Len(accum') = n + Len(accum)
          /\ \A i \in 1..n : accum'[i] = net.arrived + i
          /\ \A i \in (n + 1)..(n + Len(accum)) : accum'[i] = accum[i - n]
      BY <1>3, <2>1, Prepend
    <2>3. Len(accum') <= AccumSize
      BY <1>3, <1>10, <2>2 DEF FitsAccum
    <2>4. /\ stack' \in Seq(Frames) /\ stack' # <<>> /\ Len(stack') = 1 /\ stack'[1].f = "feed"
      <3>1. stack' = Push("feed", 0, <<>>)
        BY <1>10 DEF Read
      <3> QED
        BY <3>1, Names, PushedFirst
    <2>5. TypeOK'
      BY <1>4, <1>9, <2>2, <2>3, <2>4
    <2>6. ~Overflowing' /\ Feeding' /\ ~(\E i \in 1..Len(stack) : stack[i].f = "refeed")'
      <3>1. 1..Len(stack') = {1}
        BY <2>4
      <3> QED
        BY <2>4, <3>1 DEF Overflowing, Feeding
    <2>7. Shape'
      <3>1. Len(stack') = 1 /\ F(1)' \in Bottom \cup {"feed"}
        BY <2>4 DEF F
      <3> QED
        BY <3>1 DEF Shape
    <2>8. Calls'
      BY <1>1, <1>2, <1>5, <2>4 DEF Calls, Closed, Pumping, F
    <2>9. eng'.pos + Len(accum') = net'.arrived
      BY <1>2, <1>3, <1>4, <1>6, <2>2, SMTT(30)
    <2>10. StreamExact'
      <3>1. \A i, j \in 1..Len(accum') : accum'[i] = accum'[j] => i = j
        <4>0. \A x \in 1..n : accum'[x] > net.arrived
          <5>1. \A x \in 1..n : accum'[x] = net.arrived + x
            BY <2>2
          <5> QED
            BY <1>3, <5>1
        <4> TAKE i, j \in 1..Len(accum')
        <4> HAVE accum'[i] = accum'[j]
        <4>1. /\ i \in 1..n => accum'[i] > net.arrived
              /\ j \in 1..n => accum'[j] > net.arrived
          BY <4>0
        <4>2. /\ i \notin 1..n => /\ accum'[i] = accum[i - n] /\ i - n \in 1..Len(accum)
                                  /\ accum[i - n] \in 1..net.arrived
              /\ j \notin 1..n => /\ accum'[j] = accum[j - n] /\ j - n \in 1..Len(accum)
                                  /\ accum[j - n] \in 1..net.arrived
          <5>1. \A x \in 1..(n + Len(accum)) : x \notin 1..n =>
                    x \in (n + 1)..(n + Len(accum)) /\ x - n \in 1..Len(accum)
            BY <1>3
          <5>2. \A x \in 1..Len(accum) : accum[x] \in 1..net.arrived
            BY <1>3, SMTT(30)
          <5>3. i \in 1..(n + Len(accum)) /\ j \in 1..(n + Len(accum))
            BY <2>2
          <5> QED
            BY <2>2, <5>1, <5>2, <5>3
        <4>3. CASE i \in 1..n /\ j \in 1..n
          BY <1>3, <2>2, <4>3
        <4>4. CASE i \notin 1..n /\ j \notin 1..n
          <5>1. i - n = j - n
            BY <1>6, <4>2, <4>4
          <5> QED
            BY <1>3, <2>2, <5>1
        <4>5. CASE ~(i \in 1..n <=> j \in 1..n)
          BY <1>3, <4>1, <4>2, <4>5
        <4> QED
          BY <4>3, <4>4, <4>5
      <3>2. ~hist'.kept => \A i \in 1..Len(accum') : accum'[i] = eng'.pos + i
        <4> HAVE ~hist'.kept
        <4>1. Len(accum) = 0
          BY <1>2, <1>6
        <4> QED
          BY <1>2, <1>3, <1>6, <2>2, <4>1
      <3>3. eng'.st # "spoiled"
        BY <1>2, <1>5 DEF Closed
      <3> QED
        BY <2>9, <3>1, <3>2, <3>3 DEF StreamExact
    <2>11. Units'
      <3>1. eng'.pos + Len(accum') <= net'.arrived
        BY <1>3, <1>4, <2>9
      <3> QED
        BY <1>8, <2>6, <3>1 DEF Units
    <2> QED
      BY <1>7, <2>5, <2>7, <2>8, <2>10, <2>11 DEF Inv
  <1>11. CASE ~FitsAccum(n)
    <2> DEFINE m == AccumSize - Len(accum)
    <2>1. m \in Nat /\ m <= n
      BY <1>3, <1>11 DEF FitsAccum
    <2>2. accum' = [i \in 1..m |-> net.arrived + i] \o accum
      BY <1>11 DEF Read
    <2> HIDE DEF m
    <2>3. /\ accum' \in Seq(1..(net.arrived + n)) /\ Len(accum') = m + Len(accum)
      BY <1>3, <2>1, <2>2, Prepend
    <2>4. Len(accum') = AccumSize
      BY <1>3, <2>3 DEF m
    <2>5. /\ stack' \in Seq(Frames) /\ stack' # <<>> /\ Len(stack') = 2
          /\ stack'[1].f = "process" /\ stack'[2].f = "overflow"
      <3> DEFINE s == Push("overflow", 0, <<>>)
      <3>1. stack' = Push("process", 0, s)
        BY <1>11 DEF Read
      <3>3. s \in Seq(Frames) /\ Len(s) = 1 /\ s[1].f = "overflow"
        BY Names, PushedFirst
      <3> HIDE DEF s
      <3>4. "process" \in FrameNames /\ 0 \in Nat /\ s \in Seq(Frames)
        BY <3>3, Names
      <3> DEFINE t == Push("process", 0, s)
      <3>5. /\ t \in Seq(Frames) /\ t # <<>> /\ Len(t) = Len(s) + 1 /\ t[1].f = "process"
            /\ \A j \in 2..(Len(s) + 1) : t[j] = s[j - 1]
        BY <3>4, Pushed
      <3> HIDE DEF t
      <3>6. t[2] = s[1]
        BY <3>3, <3>5
      <3>7. stack' = t
        BY <3>1 DEF t
      <3> QED
        BY <3>3, <3>5, <3>6, <3>7
    <2>6. TypeOK'
      <3>1. Len(stack') <= 4 /\ Len(accum') <= AccumSize
        BY <1>3, <2>4, <2>5
      <3> QED
        BY <1>4, <1>9, <2>3, <2>5, <3>1
    <2>7. Overflowing' /\ ~(\E i \in 1..Len(stack) : stack[i].f = "refeed")'
      <3>1. 1..Len(stack') = {1, 2}
        BY <2>5
      <3> QED
        BY <2>5, <3>1 DEF Overflowing
    <2>8. Shape'
      <3>1. Len(stack') = 2 /\ F(1)' = "process" /\ F(2)' \in Bottom
        BY <2>5 DEF F, Bottom
      <3> QED
        BY <3>1 DEF Shape
    <2>9. Calls'
      BY <1>1, <1>2, <1>5, <2>5 DEF Calls, Closed, Pumping, F
    <2>10. StreamExact'
      BY <1>2, <1>5, <2>7 DEF StreamExact, Closed
    <2>11. Units'
      <3>1. eng'.pos + Len(accum') <= net'.arrived
        BY <1>2, <1>3, <1>4, <1>6, <2>1, <2>3, SMTT(30)
      <3> QED
        BY <1>8, <2>7, <3>1 DEF Units
    <2> QED
      BY <1>7, <2>6, <2>8, <2>9, <2>10, <2>11 DEF Inv
  <1> QED
    BY <1>10, <1>11

-----------------------------------------------------------------------------
(* The theorems.                                                           *)

(* The invariant holds at the start.                                       *)
LEMMA InitInv == Init => Inv
  <1> SUFFICES ASSUME Init PROVE Inv
    OBVIOUS
  <1>1. /\ eng = [st |-> "open", pos |-> 0, ready |-> FALSE, pld |-> 0, out |-> 0]
        /\ accum = <<>> /\ sess = [open |-> TRUE, handshake_done |-> FALSE] /\ stack = <<>>
        /\ net = [arrived |-> 0, free |-> SndBuf - 1, reach |-> NextStop(0)] /\ got = <<>>
        /\ hist = [kept |-> FALSE, writes |-> 0]
    BY DEF Init
  <1>2. NextStop(0) \in 0..Len(Flight)
    BY ConstFacts, NextStopFact
  <1>3. NextStop(0) * RecLen \in Nat /\ Len(Flight) * RecLen \in Nat
    BY <1>2, ConstFacts, RecLenFact, TimesMono
  <1>4. 0 \div RecLen = 0
    BY RecLenFact, SMT
  <1>5. TypeOK
    BY <1>1, <1>2, <1>3, ConstFacts DEF TypeOK, Engines
  <1>6. Len(stack) = 0 /\ Len(accum) = 0 /\ Len(got) = 0
    BY <1>1
  <1>7. Shape /\ Calls
    BY <1>1, <1>6 DEF Shape, Calls, Closed
  <1>8. Records
    <2>1. DataUpTo(0) = {} /\ {got[i] : i \in 1..Len(got)} = {}
      BY <1>6 DEF DataUpTo
    <2> QED
      BY <1>1, <1>4, <1>6, <2>1 DEF Records
  <1>9. StreamExact /\ Units
    BY <1>1, <1>3, <1>6 DEF StreamExact, Units
  <1> QED
    BY <1>5, <1>7, <1>8, <1>9 DEF Inv

(* The loop of tcp_ssl_read() feeds the engine.                            *)
LEMMA FeedStep == Inv /\ Feed => Inv'
  <1> SUFFICES ASSUME Inv, Feed PROVE Inv'
    OBVIOUS
  <1> DEFINE n == Head(stack).n
  <1>1. stack # <<>> /\ F(1) = "feed" /\ n \in Nat /\ n + 1 \in Nat
    <2>1. TypeOK
      BY DEF Inv
    <2>2. Top("feed")
      BY DEF Feed
    <2>3. stack # <<>> /\ F(1) = "feed" /\ stack[1].n \in Nat /\ Head(stack) = stack[1]
      BY <2>1, <2>2, TopFact
    <2> QED
      BY <2>3
  <1>2. \/ FeedOver
        \/ accum # <<>> /\ Available > 0 /\ FeedUnits(n + 1)
        \/ accum # <<>> /\ FeedFull(n + 1)
    BY DEF Feed, FeedFull
  <1> HIDE DEF n
  <1>3. CASE FeedOver
    BY <1>1, <1>3, FeedOverStep
  <1>4. CASE accum # <<>> /\ Available > 0 /\ FeedUnits(n + 1)
    BY <1>1, <1>4, FeedUnitsStep
  <1>5. CASE accum # <<>> /\ FeedFull(n + 1)
    BY <1>1, <1>5, FeedFullStep
  <1> QED
    BY <1>2, <1>3, <1>4, <1>5

(* It goes on after a run of process_ssl_engine().                         *)
LEMMA RefeedStep == Inv /\ Refeed => Inv'
  <1> SUFFICES ASSUME Inv, Refeed PROVE Inv'
    OBVIOUS
  <1> DEFINE n == Head(stack).n
  <1>1. stack # <<>> /\ F(1) = "refeed" /\ n \in Nat /\ accum # <<>>
    <2>1. TypeOK /\ Units
      BY DEF Inv
    <2>2. Top("refeed")
      BY DEF Refeed
    <2>3. stack # <<>> /\ F(1) = "refeed" /\ stack[1].n \in Nat /\ Head(stack) = stack[1]
      BY <2>1, <2>2, TopFact
    <2>4. \E i \in 1..Len(stack) : stack[i].f = "refeed"
      BY <2>3, BottomFact DEF Bottom
    <2> QED
      BY <2>1, <2>3, <2>4 DEF Units
  <1>2. FeedOver \/ (Available > 0 /\ FeedUnits(n))
    BY DEF Refeed
  <1> HIDE DEF n
  <1>3. CASE FeedOver
    BY <1>1, <1>3, FeedOverStep
  <1>4. CASE Available > 0 /\ FeedUnits(n)
    BY <1>1, <1>4, FeedUnitsStep
  <1> QED
    BY <1>2, <1>3, <1>4

(* Every step keeps the invariant.                                         *)
LEMMA Inductive == Inv /\ [Next]_vars => Inv'
  <1> SUFFICES ASSUME Inv, [Next]_vars PROVE Inv'
    OBVIOUS
  <1>1. CASE Code
    BY <1>1, FeedStep, RefeedStep, LeaveStep, ProcessClosedStep, ProcessDataStep,
       ProcessSendStep, ProcessEndStep, HandlerReturnStep DEF Code, Process
  <1>2. ASSUME NEW n \in 1..MaxSegment, Read(n) PROVE Inv'
    BY <1>2, ReadStep
  <1>3. ASSUME NEW n \in 1..MaxRecord, Write(n) PROVE Inv'
    BY <1>3, WriteStep
  <1>4. ASSUME NEW n \in 1..SndBuf, Acked(n) PROVE Inv'
    BY <1>4, AckedStep
  <1>5. CASE tcp_ssl_free
    BY <1>5, FreeStep
  <1>6. CASE UNCHANGED vars
    <2>1. /\ eng' = eng /\ accum' = accum /\ sess' = sess /\ stack' = stack /\ net' = net
          /\ got' = got /\ hist' = hist
      BY <1>6 DEF vars
    <2>2. TypeOK'
      BY <2>1, TypeParts, TypeKept DEF Inv
    <2>6. Records'
      BY <2>1 DEF Inv, Records, Closed
    <2>3. StreamExact' /\ Units'
      BY <2>1 DEF Inv, StreamExact, Units, Overflowing, Feeding
    <2>4. Shape'
      BY <2>1 DEF Inv, Shape, F, Closed, Quiet, Sendable
    <2>5. Calls'
      BY <2>1 DEF Inv, Calls, F, Closed, Sendable, Pumping
    <2> QED
      BY <2>2, <2>3, <2>4, <2>5, <2>6 DEF Inv
  <1> QED
    BY <1>1, <1>2, <1>3, <1>4, <1>5, <1>6 DEF Next

(* The invariant holds in every reachable state.                           *)
LEMMA Invariance == Spec => []Inv
  BY InitInv, Inductive, PTL DEF Spec

(* The accumulator and the send buffer are never overrun, and no handler   *)
(* of the client is called inside another.                                 *)
THEOREM Types == Spec => []TypeOK
  <1>1. Inv => TypeOK
    BY DEF Inv
  <1> QED
    BY <1>1, Invariance, PTL

(* tcp_ssl_read() feeds every unit that arrived, once; it feeds them in    *)
(* order unless a read had left bytes in the accumulator.                  *)
THEOREM ReadExact == Spec => []StreamExact
  <1>1. Inv => StreamExact
    BY DEF Inv
  <1> QED
    BY <1>1, Invariance, PTL

(* When tcp_ssl_read() has returned, process_ssl_engine() has handed on    *)
(* all data and reported the end of the handshake.                         *)
THEOREM Reporting == Spec => []AllReported
  <1>1. Inv => AllReported
    <2> SUFFICES ASSUME Inv, stack = <<>>, sess.open
                 PROVE  /\ {got[i] : i \in 1..Len(got)} = DataUpTo(eng.pos \div RecLen)
                        /\ \A i, j \in 1..Len(got) : i < j => got[i] < got[j]
                        /\ sess.handshake_done <=> eng.ready
      BY DEF AllReported
    <2>1. TypeOK /\ Calls /\ Records
      BY DEF Inv
    <2>2. Len(stack) = 0
      OBVIOUS
    <2>3. ~Pumping /\ ~(Len(stack) = 3 /\ F(1) = "on_data")
      BY <2>2 DEF Pumping
    <2>4. ~Closed /\ eng.pld = 0 /\ (sess.handshake_done <=> eng.ready)
      BY <2>1, <2>3 DEF Calls
    <2>5. 0 \notin DataUpTo(eng.pos \div RecLen)
      BY <2>1, TypeParts, RecLenFact, DivMod DEF DataUpTo
    <2> QED
      BY <2>1, <2>4, <2>5 DEF Records
  <1> QED
    BY <1>1, Invariance, PTL

(* A stack with a frame on it is not empty.                                *)
LEMMA PushNotEmpty ==
    ASSUME NEW f \in FrameNames, NEW n \in Nat, NEW k \in Seq(Frames)
    PROVE  Push(f, n, k) # <<>>
  BY Pushed

(* process_ssl_engine() runs last in tcp_ssl_read() and tcp_ssl_write():   *)
(* when they return, the send buffer would not take another record.        *)
THEOREM SendPumped == Spec => Pumped
  <1>1. ASSUME Inv, Next, stack # <<>>, stack' = <<>>, sess'.open PROVE ~Sendable'
    <2>1. /\ TypeOK /\ Calls /\ stack \in Seq(Frames) /\ Tail(stack) \in Seq(Frames)
      BY <1>1, TypeParts, Popped DEF Inv
    <2>2. CASE Leave
      <3>1. F(1) \in {"leave", "overflow"} /\ (Top("leave") => F(1) = "leave")
        BY <2>1, <2>2, TopFact DEF Leave
      <3>2. Len(stack) = 1 /\ sess \in [open : BOOLEAN, handshake_done : BOOLEAN]
        BY <1>1, <2>1, <3>1, BottomFact, TypeParts DEF Bottom
      <3>3. sess' = [sess EXCEPT !.open = Top("leave") /\ ~Closed] /\ eng' = eng /\ net' = net
        BY <2>2 DEF Leave
      <3>4. Top("leave") /\ ~Closed
        BY <1>1, <3>2, <3>3
      <3> QED
        BY <2>1, <3>1, <3>2, <3>3, <3>4 DEF Calls, Sendable
    <2>3. CASE ProcessEnd
      BY <2>3 DEF ProcessEnd, Sendable
    <2>4. CASE HandlerReturn
      <3>1. F(1) \in UserCode /\ Len(stack) \in Nat
        BY <2>1, <2>4, TopFact DEF HandlerReturn
      <3>2. Len(stack) = 2 \/ Len(stack) = 3
        <4>1. F(1) # "process" /\ F(1) \notin Bottom \cup {"feed"}
          BY <3>1 DEF UserCode, Bottom
        <4> QED
          BY <1>1, <4>1 DEF Inv, Shape
      <3>3. Len(stack') = Len(stack) - 1
        BY <1>1, <2>1, <2>4, Popped DEF HandlerReturn
      <3>4. Len(stack') = 0
        BY <1>1
      <3> QED
        BY <3>2, <3>3, <3>4, SMTT(30)
    <2>5. CASE Feed \/ Refeed
      <3>1. "leave" \in FrameNames /\ "refeed" \in FrameNames /\ "process" \in FrameNames
            /\ "feed" \in FrameNames /\ 0 \in Nat
        BY Names
      <3>2. Head(stack).n \in Nat /\ Head(stack).n + 1 \in Nat
        BY <1>1, <2>1, Popped DEF Frames
      <3>3. CASE FeedOver
        <4>1. Push("leave", 0, Tail(stack)) \in Seq(Frames)
          BY <2>1, <3>1, Pushed
        <4> QED
          BY <1>1, <3>1, <3>3, <4>1, PushNotEmpty DEF FeedOver
      <3>4. ASSUME NEW n \in Nat, FeedUnits(n) PROVE FALSE
        BY <1>1, <2>1, <3>1, <3>4, PushNotEmpty DEF FeedUnits
      <3>5. CASE FeedFull(Head(stack).n + 1)
        <4>1. Push("refeed", Head(stack).n + 1, Tail(stack)) \in Seq(Frames)
          BY <2>1, <3>1, <3>2, Pushed
        <4> QED
          BY <1>1, <3>1, <3>5, <4>1, PushNotEmpty DEF FeedFull
      <3> QED
        BY <2>5, <3>2, <3>3, <3>4, <3>5 DEF Feed, Refeed, FeedFull
    <2>6. CASE ProcessClosed \/ ProcessData
      BY <1>1, <2>1, <2>6, Names, PushNotEmpty DEF ProcessClosed, ProcessData
    <2>7. CASE ProcessSend
      BY <1>1, <2>7 DEF ProcessSend
    <2>8. ASSUME NEW n \in 1..MaxRecord, Write(n) PROVE FALSE
      BY <1>1, <2>1, <2>8, Names, PushNotEmpty DEF Write
    <2>9. ASSUME NEW n, Read(n) \/ Acked(n) \/ tcp_ssl_free PROVE FALSE
      BY <1>1, <2>9 DEF Read, Acked, tcp_ssl_free
    <2> QED
      BY <1>1, <2>2, <2>3, <2>4, <2>5, <2>6, <2>7, <2>8, <2>9 DEF Next, Code, Process
  <1>2. Inv /\ [Next]_vars =>
          [stack # <<>> /\ stack' = <<>> /\ sess'.open => ~Sendable']_vars
    BY <1>1
  <1> QED
    BY <1>2, Invariance, PTL DEF Spec, Pumped

-----------------------------------------------------------------------------
(* The refinement: every step is a step of SecureStream or changes nothing *)
(* the client sees.                                                        *)

SecureNext == Secure!Arrive \/ Secure!Hand \/ Secure!ComeUp \/ Secure!Fail

Unseen ==
    /\ net'.arrived = net.arrived /\ got' = got
    /\ sess'.handshake_done = sess.handshake_done
    /\ (Closed \/ ~sess.open)' = (Closed \/ ~sess.open)

(* A record that process_ssl_engine() hands on is the next one, and all of *)
(* it has arrived.                                                         *)
LEMMA HandsNext == Inv /\ ProcessData => Secure!Hand
  <1> SUFFICES ASSUME Inv, ProcessData PROVE Secure!Hand
    OBVIOUS
  <1>1. TypeOK /\ Calls /\ Records /\ Units
    BY DEF Inv
  <1>2. /\ ~Closed /\ eng.pld # 0 /\ eng' = [eng EXCEPT !.pld = 0]
        /\ got' = Append(got, eng.pld) /\ sess' = sess /\ net' = net
        /\ stack # <<>>
    BY DEF ProcessData, RecvApp, Top
  <1>3. ~Closed' /\ sess.open
    BY <1>1, <1>2, TypeParts DEF Closed, Calls, Engines
  <1> DEFINE k == eng.pos \div RecLen
             Data == DataUpTo(Len(Flight))
             Handed == {got[i] : i \in 1..Len(got)}
  <1>4. k \in Nat /\ eng.pld = k /\ k \in 1..Len(Flight) /\ Flight[k] = "app" /\ eng.pos % RecLen = 0
    <2>1. eng.pld = k /\ Flight[k] = "app" /\ eng.pos % RecLen = 0
      BY <1>1, <1>2 DEF Records
    <2>2. eng.pld \in 1..Len(Flight)
      BY <1>1, <1>2, TypeParts, ConstFacts, SMTT(30)
    <2> QED
      BY <2>1, <2>2, ConstFacts
  <1>5. Handed = DataUpTo(k) \ {k}
    BY <1>1, <1>2, <1>4 DEF Records
  <1>6. k * RecLen <= net.arrived
    <2>1. eng.pos = RecLen * k + (eng.pos % RecLen)
      BY <1>1, RecLenFact, DivMod, TypeParts
    <2>2. eng.pos = k * RecLen
      BY <1>4, <2>1, RecLenFact, TypeParts, <1>1
    <2>3. eng.pos \in Nat /\ Len(accum) \in Nat /\ net.arrived \in Nat
      BY <1>1, TypeParts, EmptyLen
    <2>4. eng.pos + Len(accum) <= net.arrived
      BY <1>1 DEF Units
    <2> QED
      BY <2>2, <2>3, <2>4
  <1> HIDE DEF k
  <1>7. k \in Data \ Handed
    BY <1>4, <1>5 DEF DataUpTo
  <1>8. \A q \in Data \ Handed : k <= q
    <2> TAKE q \in Data \ Handed
    <2>1. q \in 1..Len(Flight) /\ Flight[q] = "app" /\ q \notin DataUpTo(k) \ {k}
      BY <1>5 DEF DataUpTo
    <2> QED
      BY <1>4, <2>1, ConstFacts DEF DataUpTo
  <1>9. got' = Append(got, k)
    BY <1>2, <1>4
  <1> QED
    BY <1>2, <1>3, <1>6, <1>7, <1>8, <1>9 DEF Secure!Hand, Secure!Handed

(* Every step is a step of SecureStream or changes nothing it speaks of.   *)
LEMMA Refines == Inv /\ Inv' /\ [Next]_vars => SecureNext \/ Unseen
  <1> SUFFICES ASSUME Inv, Inv', [Next]_vars PROVE SecureNext \/ Unseen
    OBVIOUS
  <1>1. TypeOK /\ Calls /\ Records
    BY DEF Inv
  <1>2. /\ eng \in Engines /\ sess \in [open : BOOLEAN, handshake_done : BOOLEAN]
        /\ net \in [arrived : 0..(Len(Flight) * RecLen), free : 0..SndBuf, reach : 0..Len(Flight)]
        /\ net.arrived \in Nat
    BY <1>1, TypeParts
  <1>3. stack # <<>> => sess.open
    BY <1>1 DEF Calls
  <1>4. ASSUME NEW n \in Nat, FeedUnits(n), Available > 0, stack # <<>> PROVE SecureNext \/ Unseen
    <2>1. sess' = sess /\ net' = net /\ got' = got
      BY <1>4 DEF FeedUnits
    <2>2. ~Closed
      BY <1>2, <1>4, AvailableFact DEF Closed
    <2>3. CASE Closed'
      BY <1>3, <1>4, <2>1, <2>2, <2>3 DEF SecureNext, Secure!Fail
    <2>4. CASE ~Closed'
      BY <1>3, <1>4, <2>1, <2>2, <2>4 DEF Unseen
    <2> QED
      BY <2>3, <2>4
  <1>5. CASE Feed \/ Refeed
    <2>1. stack # <<>>
      BY <1>5 DEF Feed, Refeed, Top
    <2>2. Head(stack).n \in Nat /\ Head(stack).n + 1 \in Nat
      BY <1>1, <2>1, TypeParts, Popped, SMTT(30) DEF Frames
    <2>3. CASE FeedOver \/ FeedFull(Head(stack).n + 1)
      BY <2>3 DEF FeedOver, FeedFull, Unseen, Closed
    <2> QED
      BY <1>4, <1>5, <2>1, <2>2, <2>3 DEF Feed, Refeed, FeedFull
  <1>6. CASE Leave
    <2>1. eng' = eng /\ net' = net /\ got' = got /\ stack # <<>>
          /\ sess' = [sess EXCEPT !.open = Top("leave") /\ ~Closed]
      BY <1>6 DEF Leave, Top
    <2>2. /\ sess'.handshake_done = sess.handshake_done /\ sess.open
          /\ Closed' <=> Closed
          /\ sess'.open => ~Closed
      BY <1>2, <1>3, <2>1 DEF Closed
    <2>3. CASE Closed \/ sess'.open
      BY <2>1, <2>2, <2>3 DEF Unseen
    <2>4. CASE ~Closed /\ ~sess'.open
      BY <2>1, <2>2, <2>4 DEF SecureNext, Secure!Fail
    <2> QED
      BY <2>3, <2>4
  <1>7. CASE ProcessClosed \/ HandlerReturn
    BY <1>7 DEF ProcessClosed, HandlerReturn, Unseen, Closed
  <1>8. CASE ProcessData
    BY <1>8, HandsNext DEF SecureNext
  <1>9. CASE ProcessSend
    <2>1. /\ eng' = [eng EXCEPT !.out = 0] /\ sess' = sess /\ got' = got
      BY <1>9 DEF ProcessSend
    <2>2. net'.arrived = net.arrived
      BY <1>2, <1>9 DEF ProcessSend
    <2>3. Closed' <=> Closed
      BY <1>2, <2>1 DEF Closed, Engines
    <2> QED
      BY <2>1, <2>2, <2>3 DEF Unseen
  <1>10. CASE ProcessEnd
    <2>1. /\ eng' = eng /\ net' = net /\ got' = got /\ stack # <<>> /\ ~Closed
          /\ sess' = [sess EXCEPT !.handshake_done = sess.handshake_done \/ NowUp]
      BY <1>10 DEF ProcessEnd, Top
    <2>2. /\ sess'.open = sess.open /\ (Closed' <=> Closed)
          /\ NowUp => ~sess.handshake_done /\ sess'.handshake_done
          /\ ~NowUp => sess'.handshake_done = sess.handshake_done
      BY <1>2, <2>1 DEF Closed, NowUp
    <2>3. CASE NowUp
      BY <1>3, <2>1, <2>2, <2>3 DEF SecureNext, Secure!ComeUp
    <2>4. CASE ~NowUp
      BY <2>1, <2>2, <2>4 DEF Unseen
    <2> QED
      BY <2>3, <2>4
  <1>11. ASSUME NEW n \in 1..MaxSegment, Read(n) PROVE SecureNext \/ Unseen
    <2>1. /\ stack = <<>> /\ sess.open /\ net' = [net EXCEPT !.arrived = net.arrived + n]
          /\ eng' = eng /\ sess' = sess /\ got' = got
      BY <1>11 DEF Read
    <2>2. ~Closed /\ ~Closed'
      BY <1>1, <2>1 DEF Calls, Closed
    <2>3. n \in Nat /\ n > 0
      BY ConstFacts
    <2>4. net'.arrived \in Nat /\ net'.arrived > net.arrived
      BY <1>2, <2>1, <2>3
    <2>5. got # <<>> => sess.handshake_done
      <3>1. got # <<>> => eng.ready
        BY <1>1 DEF Records
      <3>2. ~Pumping /\ Len(stack) # 3
        BY <2>1 DEF Pumping
      <3> QED
        BY <1>1, <2>2, <3>1, <3>2 DEF Calls
    <2> QED
      BY <2>1, <2>2, <2>4, <2>5 DEF SecureNext, Secure!Arrive
  <1>12. ASSUME NEW n \in 1..MaxRecord, Write(n) PROVE SecureNext \/ Unseen
    <2>1. eng' = [eng EXCEPT !.out = n] /\ sess' = sess /\ got' = got /\ net' = net
      BY <1>12 DEF Write
    <2>2. Closed' <=> Closed
      BY <1>2, <2>1 DEF Closed, Engines
    <2> QED
      BY <2>1, <2>2 DEF Unseen
  <1>13. ASSUME NEW n \in 1..SndBuf, Acked(n) PROVE SecureNext \/ Unseen
    <2>1. /\ eng' = eng /\ sess' = sess /\ got' = got /\ net' = [net EXCEPT !.free = net.free + n]
      BY <1>13 DEF Acked
    <2>2. net'.arrived = net.arrived
      BY <1>2, <2>1
    <2> QED
      BY <2>1, <2>2 DEF Unseen, Closed
  <1>14. CASE tcp_ssl_free
    <2>1. /\ eng' = eng /\ net' = net /\ got' = got /\ stack = <<>> /\ sess.open
          /\ sess' = [sess EXCEPT !.open = FALSE]
      BY <1>14 DEF tcp_ssl_free
    <2>2. ~Closed /\ ~sess'.open /\ sess'.handshake_done = sess.handshake_done
      BY <1>1, <1>2, <2>1 DEF Calls
    <2> QED
      BY <2>1, <2>2 DEF SecureNext, Secure!Fail
  <1>15. CASE UNCHANGED vars
    BY <1>15 DEF vars, Unseen, Closed
  <1> QED
    BY <1>5, <1>6, <1>7, <1>8, <1>9, <1>10, <1>11, <1>12, <1>13, <1>14, <1>15
       DEF Next, Code, Process

(* The session implements SecureStream: the client gets the data of the    *)
(* peer's records, each once, in order and complete, the end of the        *)
(* handshake at most once and, when it was given data, before anything     *)
(* more arrives, and nothing after the engine or the connection failed.    *)
THEOREM SecureRefinement == Spec => ImplementsStream
  <1>1. Init => Secure!StreamInit
    <2> SUFFICES ASSUME Init PROVE Secure!StreamInit
      OBVIOUS
    <2>1. eng.st = "open" /\ net.arrived = 0 /\ got = <<>> /\ ~sess.handshake_done /\ sess.open
      BY DEF Init
    <2> QED
      BY <2>1 DEF Secure!StreamInit, Closed
  <1>2. Inv /\ Inv' /\ [Next]_vars =>
          [Secure!Arrive \/ Secure!Hand \/ Secure!ComeUp \/ Secure!Fail]_(Secure!svars)
    BY Refines DEF SecureNext, Unseen, Secure!svars
  <1> QED
    BY <1>1, <1>2, Invariance, PTL DEF Spec, ImplementsStream, Secure!StreamSpec

=============================================================================
