----------------------- MODULE AsyncTCPBufferTx_proofs -----------------------
(***************************************************************************)
(* Proofs about AsyncTCPBufferTx.  A chain of cbufs is laid out when its   *)
(* cbufs hold consecutive bytes and none of them, but a single one, is     *)
(* empty; write() and _sendBuffer() keep it so.                            *)
(***************************************************************************)
EXTENDS AsyncTCPBufferTx, TLAPS

-----------------------------------------------------------------------------
(* A chain as the code keeps it: at least one cbuf, none beyond its size,  *)
(* and an empty cbuf only when it is alone.                                *)
IsChain(ch) ==
    /\ ch \in Seq(Seq(1..MaxBytes)) /\ Len(ch) >= 1
    /\ \A i \in 1..Len(ch) : Len(ch[i]) <= Mss
    /\ Len(ch) > 1 => \A i \in 1..Len(ch) : ch[i] # <<>>

(* A cbuf that holds consecutive bytes.                                    *)
Run(s) == \A k \in 1..Len(s) : s[k] = s[1] + k - 1

(* ch holds the bytes a+1 to b, in order.                                  *)
Laid(ch, a, b) ==
    /\ \A i \in 1..Len(ch) : Run(ch[i])
    /\ \A i \in 1..(Len(ch) - 1) : ch[i + 1][1] = ch[i][1] + Len(ch[i])
    /\ ch[1] # <<>> => ch[1][1] = a + 1
    /\ ch[Len(ch)] # <<>> => ch[Len(ch)][1] + Len(ch[Len(ch)]) = b + 1
    /\ ch[1] = <<>> => a = b

(* The bytes write() copies.                                               *)
Bytes(b, w) == [i \in 1..w |-> b + i]

-----------------------------------------------------------------------------
(* The arithmetic the provers do not find among other facts.               *)
LEMMA Sums ==
    ASSUME NEW x \in Int, NEW y \in Int, NEW z \in Int
    PROVE  /\ \A b : x + y = b + 1 /\ b \in Int => x + (y + z) = b + z + 1
           /\ \A b : x + y = b + 1 /\ b \in Int => b + (z - y) = x + z - 1
           /\ x >= 0 /\ y >= 0 /\ x + y = 0 => x = 0 /\ y = 0
  OBVIOUS

(* What write() copies is a sequence of bytes of the stream.               *)
LEMMA BytesSeq ==
    ASSUME NEW b \in Nat, NEW w \in Nat, b + w <= MaxBytes
    PROVE  /\ Bytes(b, w) \in Seq(1..MaxBytes)
           /\ Len(Bytes(b, w)) = w
           /\ \A k \in 1..w : Bytes(b, w)[k] = b + k
<1>1. \A k \in 1..w : b + k \in 1..MaxBytes
  BY TxSizeAssumption
<1> QED
  BY <1>1 DEF Bytes

(* A cbuf that more bytes are copied into.                                 *)
LEMMA CbufFilled ==
    ASSUME NEW s \in Seq(1..MaxBytes), NEW b \in Nat, NEW w \in Nat, b + w <= MaxBytes
    PROVE  LET t == s \o Bytes(b, w)
           IN  /\ t \in Seq(1..MaxBytes) /\ Len(t) = Len(s) + w
               /\ \A k \in 1..Len(s) : t[k] = s[k]
               /\ \A k \in (Len(s) + 1)..(Len(s) + w) : t[k] = b + (k - Len(s))
<1>1. /\ Bytes(b, w) \in Seq(1..MaxBytes) /\ Len(Bytes(b, w)) = w
      /\ \A k \in 1..w : Bytes(b, w)[k] = b + k
  BY BytesSeq
<1> DEFINE u == Bytes(b, w)
<1> HIDE DEF u
<1>2. u \in Seq(1..MaxBytes) /\ Len(u) = w /\ \A k \in 1..w : u[k] = b + k
  BY <1>1 DEF u
<1>3. /\ s \o u \in Seq(1..MaxBytes) /\ Len(s \o u) = Len(s) + w
      /\ \A k \in 1..Len(s) : (s \o u)[k] = s[k]
  BY <1>2
<1>4. ASSUME NEW k \in (Len(s) + 1)..(Len(s) + w) PROVE (s \o u)[k] = b + (k - Len(s))
  <2>1. k - Len(s) \in 1..w /\ k \in 1..(Len(s) + Len(u)) /\ ~(k <= Len(s))
    BY <1>2
  <2>2. (s \o u)[k] = u[k - Len(s)]
    BY <2>1, <1>2
  <2> QED
    BY <2>1, <2>2, <1>2
<1> QED
  BY <1>3, <1>4 DEF u

(* It holds consecutive bytes if it did, and the new ones follow the last. *)
LEMMA RunFilled ==
    ASSUME NEW s \in Seq(1..MaxBytes), NEW b \in Nat, NEW w \in Nat, b + w <= MaxBytes,
           Run(s),
           s # <<>> => s[1] + Len(s) = b + 1
    PROVE  LET t == s \o Bytes(b, w)
           IN  /\ Run(t)
               /\ t # <<>> => t[1] + Len(t) = b + w + 1
               /\ s # <<>> => t[1] = s[1]
               /\ s = <<>> /\ t # <<>> => t[1] = b + 1
<1> DEFINE t == s \o Bytes(b, w)
<1> HIDE DEF t
<1>1. /\ t \in Seq(1..MaxBytes) /\ Len(t) = Len(s) + w
      /\ \A k \in 1..Len(s) : t[k] = s[k]
      /\ \A k \in (Len(s) + 1)..(Len(s) + w) : t[k] = b + (k - Len(s))
  BY CbufFilled DEF t
<1>2. CASE s = <<>>
  BY <1>1, <1>2 DEF t, Run
<1>3. CASE s # <<>>
  <2>1. Len(s) \in Nat /\ Len(s) >= 1 /\ s[1] \in 1..MaxBytes /\ MaxBytes \in Nat
    BY <1>3, TxSizeAssumption
  <2>a. t[1] = s[1] /\ t[1] \in Int
    <3>1. 1 \in 1..Len(s)
      BY <2>1
    <3> QED
      BY <3>1, <1>1, <2>1
  <2>2. s[1] + Len(s) = b + 1 /\ t[1] + Len(t) = b + w + 1
    <3>1. s[1] + Len(s) = b + 1
      BY <1>3
    <3> QED
      <4>1. s[1] \in Int /\ Len(s) \in Int /\ w \in Int /\ b \in Int
        BY <2>1
      <4>2. s[1] + (Len(s) + w) = b + w + 1
        BY <4>1, <3>1, Sums, SMTT(30)
      <4> QED
        BY ONLY <4>2, <3>1, <1>1, <2>a, Zenon
  <2>3. ASSUME NEW k \in 1..Len(t) PROVE t[k] = t[1] + k - 1
    <3>1. CASE k <= Len(s)
      BY <3>1, <2>1, <2>a, <1>1 DEF Run
    <3>2. CASE ~(k <= Len(s))
      <4>1. t[k] = b + (k - Len(s))
        <5>1. k \in (Len(s) + 1)..(Len(s) + w)
          BY <3>2, <2>1, <1>1
        <5> QED
          BY <5>1, <1>1
      <4> QED
        <5>1. s[1] \in Int /\ Len(s) \in Int /\ k \in Int /\ b \in Int
          BY <2>1
        <5>2. b + (k - Len(s)) = s[1] + k - 1
          BY ONLY <5>1, <2>2
        <5> QED
          BY ONLY <4>1, <5>2, <2>a, Zenon
    <3> QED
      BY <3>1, <3>2
  <2> QED
    BY <2>a, <2>2, <2>3, <1>3 DEF t, Run
<1> QED
  BY <1>2, <1>3

(* Filling the last cbuf.                                                  *)
LEMMA ExtendChain ==
    ASSUME NEW ch, NEW b \in Nat, NEW w \in Nat, b + w <= MaxBytes,
           IsChain(ch), Len(ch[Len(ch)]) + w <= Mss
    PROVE  LET c == [ch EXCEPT ![Len(ch)] = @ \o Bytes(b, w)]
           IN  /\ IsChain(c)
               /\ \A a \in Nat : Laid(ch, a, b) => Laid(c, a, b + w)
<1> DEFINE n == Len(ch)
           t == ch[n] \o Bytes(b, w)
           c == [ch EXCEPT ![n] = t]
<1>1. /\ ch \in Seq(Seq(1..MaxBytes)) /\ n \in Nat /\ n >= 1
      /\ \A i \in 1..n : ch[i] \in Seq(1..MaxBytes) /\ Len(ch[i]) <= Mss /\ Len(ch[i]) \in Nat
      /\ n > 1 => \A i \in 1..n : ch[i] # <<>>
      /\ n \in 1..n /\ 1 \in 1..n
      /\ ch[n] \in Seq(1..MaxBytes) /\ Len(ch[n]) \in Nat
      /\ Len(ch[n]) = 0 <=> ch[n] = <<>>
      /\ MaxBytes \in Nat /\ Mss \in Nat
  BY TxSizeAssumption DEF IsChain
<1>2. t \in Seq(1..MaxBytes) /\ Len(t) = Len(ch[n]) + w
  BY <1>1, CbufFilled, ZenonT(30)
<1> HIDE DEF t
<1>3. c \in Seq(Seq(1..MaxBytes)) /\ Len(c) = n /\ c[n] = t
      /\ \A i \in 1..n : i # n => c[i] = ch[i]
  BY <1>1, <1>2
<1> HIDE DEF c
<1>4. IsChain(c)
  <2>1. \A i \in 1..n : Len(c[i]) <= Mss
    BY <1>1, <1>2, <1>3
  <2>2. n > 1 => \A i \in 1..n : c[i] # <<>>
    <3> SUFFICES ASSUME n > 1, NEW i \in 1..n PROVE c[i] # <<>>
      OBVIOUS
    <3>1. ch[i] # <<>> /\ Len(ch[i]) > 0
      BY <1>1
    <3>2. CASE i = n
      BY <3>1, <3>2, <1>2, <1>3
    <3>3. CASE i # n
      BY <3>1, <3>3, <1>3
    <3> QED
      BY <3>2, <3>3
  <2> QED
    BY <1>1, <1>3, <2>1, <2>2 DEF IsChain
<1>5. ASSUME NEW a \in Nat, Laid(ch, a, b) PROVE Laid(c, a, b + w)
  <2>1. /\ \A i \in 1..n : Run(ch[i])
        /\ \A i \in 1..(n - 1) : ch[i + 1][1] = ch[i][1] + Len(ch[i])
        /\ ch[1] # <<>> => ch[1][1] = a + 1
        /\ ch[n] # <<>> => ch[n][1] + Len(ch[n]) = b + 1
        /\ ch[1] = <<>> => a = b
    BY <1>5 DEF Laid
  <2>2. /\ Run(t)
        /\ t # <<>> => t[1] + Len(t) = b + w + 1
        /\ ch[n] # <<>> => t[1] = ch[n][1]
        /\ ch[n] = <<>> /\ t # <<>> => t[1] = b + 1
    <3>1. Run(ch[n])
      BY <2>1, <1>1
    <3> QED
      BY <3>1, <2>1, <1>1, RunFilled DEF t
  <2>5. \A i \in 1..n : Run(c[i])
    <3> SUFFICES ASSUME NEW i \in 1..n PROVE Run(c[i])
      OBVIOUS
    <3>1. CASE i = n
      BY <3>1, <2>2, <1>3
    <3>2. CASE i # n
      BY <3>2, <2>1, <1>3
    <3> QED
      BY <3>1, <3>2
  <2>6. \A i \in 1..(n - 1) : c[i + 1][1] = c[i][1] + Len(c[i])
    <3> SUFFICES ASSUME NEW i \in 1..(n - 1)
                 PROVE  c[i + 1][1] = c[i][1] + Len(c[i])
      OBVIOUS
    <3>1. c[i] = ch[i] /\ n > 1 /\ i + 1 \in 1..n
      BY <1>1, <1>3
    <3>2. c[i + 1][1] = ch[i + 1][1]
      <4>1. CASE i + 1 = n
        <5>1. ch[n] # <<>>
          BY <3>1, <1>1
        <5> QED
          BY <4>1, <5>1, <1>3, <2>2
      <4>2. CASE i + 1 # n
        BY <4>2, <3>1, <1>3
      <4> QED
        BY <4>1, <4>2
    <3> QED
      BY <3>1, <3>2, <2>1
  <2>7. c[1] # <<>> => c[1][1] = a + 1
    <3>1. CASE n = 1 /\ ch[1] = <<>>
      BY <3>1, <1>3, <2>1, <2>2
    <3>2. CASE n = 1 /\ ch[1] # <<>>
      BY <3>2, <1>3, <2>1, <2>2
    <3>3. CASE n # 1
      BY <3>3, <1>1, <1>3, <2>1
    <3> QED
      BY <3>1, <3>2, <3>3
  <2>8. c[1] = <<>> => a = b + w
    <3>1. CASE n = 1
      <4>1. c[1] = <<>> => Len(t) = 0
        BY <3>1, <1>3
      <4>2. Len(t) = 0 => w = 0 /\ Len(ch[1]) = 0
        <5>1. Len(ch[1]) \in Nat /\ Len(t) = Len(ch[1]) + w
          BY <3>1, <1>1, <1>2
        <5>2. Len(ch[1]) \in Int /\ Len(ch[1]) >= 0 /\ w \in Int /\ w >= 0
          BY <5>1
        <5> QED
          BY ONLY <5>1, <5>2, Sums, Zenon
      <4> QED
        BY <4>1, <4>2, <3>1, <1>1, <2>1
    <3>2. CASE n # 1
      <4>1. c[1] = ch[1] /\ ch[1] # <<>>
        BY <3>2, <1>1, <1>3, SMTT(30)
      <4> QED
        BY <4>1
    <3> QED
      BY <3>1, <3>2
  <2> QED
    BY <1>3, <2>2, <2>5, <2>6, <2>7, <2>8 DEF Laid
<1> QED
  BY <1>4, <1>5 DEF c, t

(* Another cbuf, filled at once.                                           *)
LEMMA GrowChain ==
    ASSUME NEW ch, NEW b \in Nat, NEW w \in Nat \ {0}, b + w <= MaxBytes, w <= Mss,
           IsChain(ch), Len(ch[Len(ch)]) = Mss
    PROVE  LET d == Append(ch, <<>>)
               c == [d EXCEPT ![Len(d)] = @ \o Bytes(b, w)]
           IN  /\ IsChain(c)
               /\ \A a \in Nat : Laid(ch, a, b) => Laid(c, a, b + w)
<1> DEFINE n == Len(ch)
           d == Append(ch, <<>>)
           t == <<>> \o Bytes(b, w)
           c == [d EXCEPT ![n + 1] = t]
<1>1. /\ ch \in Seq(Seq(1..MaxBytes)) /\ n \in Nat /\ n >= 1
      /\ \A i \in 1..n : ch[i] \in Seq(1..MaxBytes) /\ Len(ch[i]) <= Mss
      /\ n > 1 => \A i \in 1..n : ch[i] # <<>>
      /\ n \in 1..n /\ 1 \in 1..n
  BY DEF IsChain
<1>2. \A i \in 1..n : ch[i] # <<>>
  <2>1. ch[n] # <<>>
    BY TxSizeAssumption
  <2> QED
    BY <1>1, <2>1, SMTT(30)
<1>3. /\ t \in Seq(1..MaxBytes) /\ Len(t) = w /\ Run(t)
      /\ t # <<>> => t[1] + Len(t) = b + w + 1
      /\ t # <<>> => t[1] = b + 1
  <2>1. <<>> \in Seq(1..MaxBytes) /\ Len(<<>>) = 0 /\ Run(<<>>)
    BY DEF Run
  <2>2. w \in Nat
    OBVIOUS
  <2>3. t \in Seq(1..MaxBytes) /\ Len(t) = 0 + w
    BY <2>1, <2>2, CbufFilled, ZenonT(30)
  <2>4. /\ Run(t)
        /\ t # <<>> => t[1] + Len(t) = b + w + 1
        /\ t # <<>> => t[1] = b + 1
    <3>1. ASSUME NEW s, s = <<>>
          PROVE  /\ Run(s \o Bytes(b, w))
                 /\ s \o Bytes(b, w) # <<>> =>
                      (s \o Bytes(b, w))[1] + Len(s \o Bytes(b, w)) = b + w + 1
                 /\ s = <<>> /\ s \o Bytes(b, w) # <<>> => (s \o Bytes(b, w))[1] = b + 1
      <4>1. s \in Seq(1..MaxBytes) /\ Run(s) /\ (s # <<>> => s[1] + Len(s) = b + 1)
        BY <2>1, <3>1
      <4> QED
        BY ONLY <4>1, <2>2, b \in Nat, b + w <= MaxBytes, RunFilled, Zenon
    <3> QED
      BY <3>1
  <2> QED
    BY <2>3, <2>4
<1> HIDE DEF t
<1>4. t # <<>>
  BY <1>3
<1>5. d \in Seq(Seq(1..MaxBytes)) /\ Len(d) = n + 1 /\ d[n + 1] = <<>>
      /\ \A i \in 1..n : d[i] = ch[i]
  BY <1>1
<1> HIDE DEF d
<1>6. c \in Seq(Seq(1..MaxBytes)) /\ Len(c) = n + 1 /\ c[n + 1] = t
      /\ \A i \in 1..n : c[i] = ch[i]
  <2>1. \A i \in 1..n : i # n + 1 /\ i \in 1..(n + 1)
    BY <1>1
  <2>2. n + 1 \in 1..(n + 1)
    BY <1>1
  <2> QED
    BY <2>1, <2>2, <1>3, <1>5
<1>7. c = [d EXCEPT ![Len(d)] = @ \o Bytes(b, w)]
  BY <1>5 DEF c, t
<1> HIDE DEF c
<1>8. IsChain(c)
  <2>1. \A i \in 1..(n + 1) : Len(c[i]) <= Mss /\ c[i] # <<>>
    <3> SUFFICES ASSUME NEW i \in 1..(n + 1) PROVE Len(c[i]) <= Mss /\ c[i] # <<>>
      OBVIOUS
    <3>1. CASE i = n + 1
      BY <3>1, <1>3, <1>4, <1>6
    <3>2. CASE i # n + 1
      <4>1. i \in 1..n
        BY <3>2, <1>1
      <4> QED
        BY <4>1, <1>1, <1>2, <1>6
    <3> QED
      BY <3>1, <3>2
  <2> QED
    BY <2>1, <1>1, <1>6 DEF IsChain
<1>9. ASSUME NEW a \in Nat, Laid(ch, a, b) PROVE Laid(c, a, b + w)
  <2>1. /\ \A i \in 1..n : Run(ch[i])
        /\ \A i \in 1..(n - 1) : ch[i + 1][1] = ch[i][1] + Len(ch[i])
        /\ ch[1] # <<>> => ch[1][1] = a + 1
        /\ ch[n] # <<>> => ch[n][1] + Len(ch[n]) = b + 1
    BY <1>9 DEF Laid
  <2>2. \A i \in 1..(n + 1) : Run(c[i])
    <3> SUFFICES ASSUME NEW i \in 1..(n + 1) PROVE Run(c[i])
      OBVIOUS
    <3>1. CASE i = n + 1
      BY <3>1, <1>3, <1>6
    <3>2. CASE i # n + 1
      <4>1. i \in 1..n
        BY <3>2, <1>1
      <4> QED
        BY <4>1, <2>1, <1>6
    <3> QED
      BY <3>1, <3>2
  <2>3. \A i \in 1..n : c[i + 1][1] = c[i][1] + Len(c[i])
    <3> SUFFICES ASSUME NEW i \in 1..n PROVE c[i + 1][1] = c[i][1] + Len(c[i])
      OBVIOUS
    <3>1. CASE i = n
      <4>1. c[n] = ch[n] /\ c[n + 1] = t /\ ch[n] # <<>>
        BY <1>1, <1>2, <1>6
      <4>2. ch[n][1] + Len(ch[n]) = b + 1 /\ t[1] = b + 1
        BY <4>1, <2>1, <1>3, <1>4
      <4> QED
        BY ONLY <3>1, <4>1, <4>2, Zenon
    <3>2. CASE i # n
      <4>1. i \in 1..(n - 1) /\ i + 1 \in 1..n
        BY <3>2, <1>1
      <4>2. c[i + 1] = ch[i + 1] /\ c[i] = ch[i]
        BY <4>1, <1>6
      <4> QED
        BY <4>1, <4>2, <2>1
    <3> QED
      BY <3>1, <3>2
  <2>4. c[1] # <<>> /\ c[1][1] = a + 1
    BY <1>1, <1>2, <1>6, <2>1
  <2>5. (n + 1) - 1 = n
    BY <1>1
  <2>6. \A i \in 1..((n + 1) - 1) : c[i + 1][1] = c[i][1] + Len(c[i])
    BY <2>3, <2>5
  <2> QED
    BY <1>3, <1>6, <2>2, <2>4, <2>6 DEF Laid
<1> QED
  BY <1>7, <1>8, <1>9 DEF d

(* What is left of a cbuf after n bytes were taken from it, and these.     *)
LEMMA CbufTaken ==
    ASSUME NEW S, NEW s \in Seq(S), NEW n \in 0..Len(s)
    PROVE  /\ Rest(s, n) \in Seq(S) /\ Len(Rest(s, n)) = Len(s) - n
           /\ \A k \in 1..(Len(s) - n) : Rest(s, n)[k] = s[n + k]
           /\ First(s, n) \in Seq(S) /\ Len(First(s, n)) = n
           /\ \A k \in 1..n : First(s, n)[k] = s[k]
  BY DEF Rest, First

(* It holds consecutive bytes, if it did.                                  *)
LEMMA RunTaken ==
    ASSUME NEW s \in Seq(1..MaxBytes), NEW n \in 0..Len(s), Run(s)
    PROVE  /\ Run(Rest(s, n))
           /\ Rest(s, n) # <<>> => Rest(s, n)[1] = s[1] + n
<1> DEFINE t == Rest(s, n)
<1>1. /\ t \in Seq(1..MaxBytes) /\ Len(t) = Len(s) - n
      /\ \A k \in 1..(Len(s) - n) : t[k] = s[n + k]
  BY CbufTaken
<1> HIDE DEF t
<1>2. Len(s) \in Nat /\ n \in Nat /\ n <= Len(s) /\ Len(s) - n \in Nat
  <2>1. Len(s) \in Nat
    OBVIOUS
  <2> QED
    BY <2>1
<1>3. \A k \in 1..Len(s) : s[1] \in Int
  BY <1>2, TxSizeAssumption
<1>4. ASSUME NEW k \in 1..Len(t) PROVE t[k] = s[1] + (n + k) - 1 /\ s[1] \in Int
  <2>1. n + k \in 1..Len(s) /\ k \in 1..(Len(s) - n)
    BY <1>1, <1>2
  <2> QED
    BY <2>1, <1>1, <1>3 DEF Run
<1>5. t # <<>> => 1 \in 1..Len(t)
  BY <1>1, <1>2
<1>6. ASSUME t # <<>> PROVE t[1] = s[1] + n
  BY <1>4, <1>5, <1>6, <1>2
<1>7. ASSUME NEW k \in 1..Len(t) PROVE t[k] = t[1] + k - 1
  <2>1. 1 \in 1..Len(t) /\ k \in Int
    BY <1>1, <1>2
  <2>2. t[1] = s[1] + (n + 1) - 1 /\ t[k] = s[1] + (n + k) - 1 /\ s[1] \in Int
    BY <2>1, <1>4
  <2> QED
    BY ONLY <2>1, <2>2, <1>2
<1> QED
  BY <1>6, <1>7 DEF t, Run

(* tcp_write() goes on where it stopped.                                   *)
LEMMA WireGrows ==
    ASSUME NEW u \in Seq(1..MaxBytes), NEW s \in Seq(1..MaxBytes), NEW n \in 0..Len(s),
           \A i \in 1..Len(u) : u[i] = i, Run(s), s # <<>> => s[1] = Len(u) + 1
    PROVE  LET v == u \o First(s, n)
           IN  /\ v \in Seq(1..MaxBytes) /\ Len(v) = Len(u) + n
               /\ \A i \in 1..Len(v) : v[i] = i
<1> DEFINE t == First(s, n)
           v == u \o t
<1>1. t \in Seq(1..MaxBytes) /\ Len(t) = n /\ \A k \in 1..n : t[k] = s[k]
  BY CbufTaken
<1>2. Len(u) \in Nat /\ n \in Nat /\ n <= Len(s) /\ Len(s) \in Nat
  OBVIOUS
<1> HIDE DEF t
<1>3. v \in Seq(1..MaxBytes) /\ Len(v) = Len(u) + n
  BY <1>1, SMTT(30)
<1>4. ASSUME NEW i \in 1..(Len(u) + n) PROVE v[i] = i
  <2>1. CASE i <= Len(u)
    BY <2>1, <1>1, <1>2
  <2>2. CASE ~(i <= Len(u))
    <3>1. i - Len(u) \in 1..n /\ i - Len(u) \in 1..Len(s) /\ s # <<>>
      BY <2>2, <1>2
    <3>2. v[i] = t[i - Len(u)]
      BY <2>2, <1>1, <1>2
    <3>3. t[i - Len(u)] = s[i - Len(u)]
      BY <3>1, <1>1
    <3>4. s[i - Len(u)] = s[1] + (i - Len(u)) - 1 /\ s[1] = Len(u) + 1
      BY <3>1 DEF Run
    <3>5. s[i - Len(u)] = i
      BY ONLY <3>4, <1>2, i \in 1..(Len(u) + n)
    <3> QED
      BY ONLY <3>2, <3>3, <3>5, Zenon
  <2> QED
    BY <2>1, <2>2
<1> QED
  BY <1>3, <1>4 DEF t

(* Taking bytes from the head, which is deleted when empty.                *)
LEMMA TakeChain ==
    ASSUME NEW ch, NEW n \in 0..Len(ch[1]), NEW b \in Nat, IsChain(ch), ch[1] # <<>>
    PROVE  LET c == DeleteEmpty([ch EXCEPT ![1] = Rest(@, n)])
           IN  /\ IsChain(c)
               /\ \A a \in Nat : Laid(ch, a, b) => Laid(c, a + n, b)
<1> DEFINE m == Len(ch)
           t == Rest(ch[1], n)
           d == [ch EXCEPT ![1] = t]
<1>1. /\ ch \in Seq(Seq(1..MaxBytes)) /\ m \in Nat /\ m >= 1
      /\ \A i \in 1..m : ch[i] \in Seq(1..MaxBytes) /\ Len(ch[i]) <= Mss /\ Len(ch[i]) \in Nat
      /\ \A i \in 1..m : ch[i] # <<>>
      /\ m \in 1..m /\ 1 \in 1..m
  BY DEF IsChain
<1>2. ch[1] \in Seq(1..MaxBytes) /\ Len(ch[1]) \in Nat /\ n \in Nat /\ n <= Len(ch[1])
      /\ Len(ch[1]) <= Mss /\ Mss \in Nat
  BY <1>1, TxSizeAssumption
<1>3. t \in Seq(1..MaxBytes) /\ Len(t) = Len(ch[1]) - n /\ Len(t) <= Mss
      /\ (t = <<>> <=> n = Len(ch[1]))
  <2>1. t \in Seq(1..MaxBytes) /\ Len(t) = Len(ch[1]) - n
    BY <1>2, CbufTaken, ZenonT(30)
  <2> HIDE DEF t
  <2> QED
    BY <2>1, <1>2
<1> HIDE DEF t
<1>4. d \in Seq(Seq(1..MaxBytes)) /\ Len(d) = m /\ d[1] = t
      /\ \A i \in 1..m : i # 1 => d[i] = ch[i]
  BY <1>1, <1>3
<1> HIDE DEF d
<1>5. \A a \in Nat : Laid(ch, a, b) =>
        /\ \A i \in 1..m : Run(ch[i])
        /\ \A i \in 1..(m - 1) : ch[i + 1][1] = ch[i][1] + Len(ch[i])
        /\ ch[1][1] = a + 1
        /\ ch[m][1] + Len(ch[m]) = b + 1
        /\ Run(t)
        /\ t # <<>> => t[1] = ch[1][1] + n
  <2> SUFFICES ASSUME NEW a \in Nat, Laid(ch, a, b)
               PROVE  /\ \A i \in 1..m : Run(ch[i])
                      /\ \A i \in 1..(m - 1) : ch[i + 1][1] = ch[i][1] + Len(ch[i])
                      /\ ch[1][1] = a + 1
                      /\ ch[m][1] + Len(ch[m]) = b + 1
                      /\ Run(t)
                      /\ t # <<>> => t[1] = ch[1][1] + n
    OBVIOUS
  <2>1. /\ \A i \in 1..m : Run(ch[i])
        /\ \A i \in 1..(m - 1) : ch[i + 1][1] = ch[i][1] + Len(ch[i])
        /\ ch[1][1] = a + 1
        /\ ch[m][1] + Len(ch[m]) = b + 1
    BY <1>1 DEF Laid
  <2>2. Run(ch[1])
    BY <2>1, <1>1
  <2> QED
    BY <2>1, <2>2, <1>2, RunTaken DEF t
<1>6. CASE t = <<>> /\ m > 1
  <2> DEFINE c == Tail(d)
  <2>1. c = DeleteEmpty(d)
    <3>1. Head(d) = t
      BY <1>4, <1>1
    <3> QED
      BY <3>1, <1>4, <1>6 DEF DeleteEmpty
  <2>2. c \in Seq(Seq(1..MaxBytes)) /\ Len(c) = m - 1
        /\ \A i \in 1..(m - 1) : c[i] = ch[i + 1]
    <3>1. c \in Seq(Seq(1..MaxBytes)) /\ Len(c) = m - 1
          /\ \A i \in 1..(m - 1) : c[i] = d[i + 1]
      BY <1>4, <1>6, <1>1
    <3>2. \A i \in 1..(m - 1) : d[i + 1] = ch[i + 1]
      BY <1>4, <1>1
    <3> QED
      BY <3>1, <3>2
  <2> HIDE DEF c
  <2>3. \A i \in 1..(m - 1) : i + 1 \in 1..m
    BY <1>1
  <2>4. IsChain(c)
    <3>1. \A i \in 1..(m - 1) : Len(c[i]) <= Mss /\ c[i] # <<>>
      BY <2>2, <2>3, <1>1
    <3>2. m - 1 >= 1
      BY <1>6, <1>1
    <3> QED
      BY <2>2, <3>1, <3>2 DEF IsChain
  <2>5. ASSUME NEW a \in Nat, Laid(ch, a, b) PROVE Laid(c, a + n, b)
    <3>1. /\ \A i \in 1..m : Run(ch[i])
          /\ \A i \in 1..(m - 1) : ch[i + 1][1] = ch[i][1] + Len(ch[i])
          /\ ch[1][1] = a + 1
          /\ ch[m][1] + Len(ch[m]) = b + 1
      BY <2>5, <1>5
    <3>2. \A i \in 1..(m - 1) : Run(c[i])
      BY <3>1, <2>2, <2>3
    <3>3. \A i \in 1..((m - 1) - 1) : c[i + 1][1] = c[i][1] + Len(c[i])
      <4> SUFFICES ASSUME NEW i \in 1..((m - 1) - 1)
                   PROVE  c[i + 1][1] = c[i][1] + Len(c[i])
        OBVIOUS
      <4>1. i \in 1..(m - 1) /\ i + 1 \in 1..(m - 1)
        BY <1>1
      <4>2. c[i] = ch[i + 1] /\ c[i + 1] = ch[(i + 1) + 1]
        BY <4>1, <2>2
      <4> QED
        BY <4>1, <4>2, <3>1
    <3>4. c[1] # <<>> /\ c[1][1] = (a + n) + 1
      <4>1. 1 \in 1..(m - 1) /\ c[1] = ch[1 + 1] /\ 1 + 1 \in 1..m
        BY <1>1, <1>6, <2>2
      <4>2. ch[1 + 1][1] = ch[1][1] + Len(ch[1]) /\ n = Len(ch[1]) /\ ch[1 + 1] # <<>>
        BY <4>1, <3>1, <1>1, <1>3, <1>6
      <4>3. (a + 1) + n = (a + n) + 1
        BY <1>2
      <4> QED
        BY ONLY <4>1, <4>2, <4>3, <3>1, Zenon
    <3>5. c[m - 1][1] + Len(c[m - 1]) = b + 1
      <4>1. m - 1 \in 1..(m - 1) /\ (m - 1) + 1 = m
        BY <1>1, <1>6
      <4>2. c[m - 1] = ch[m]
        BY <4>1, <2>2
      <4> QED
        BY <4>2, <3>1
    <3> QED
      BY <2>2, <3>2, <3>3, <3>4, <3>5 DEF Laid
  <2> QED
    BY <2>1, <2>4, <2>5 DEF d, t
<1>7. CASE ~(t = <<>> /\ m > 1)
  <2>1. d = DeleteEmpty(d)
    <3>1. Head(d) = t
      BY <1>4, <1>1
    <3> QED
      BY <3>1, <1>4, <1>7 DEF DeleteEmpty
  <2>2. IsChain(d)
    <3>1. \A i \in 1..m : Len(d[i]) <= Mss /\ (m > 1 => d[i] # <<>>)
      <4> SUFFICES ASSUME NEW i \in 1..m PROVE Len(d[i]) <= Mss /\ (m > 1 => d[i] # <<>>)
        OBVIOUS
      <4>1. CASE i = 1
        BY <4>1, <1>3, <1>4, <1>7
      <4>2. CASE i # 1
        BY <4>2, <1>1, <1>4
      <4> QED
        BY <4>1, <4>2
    <3> QED
      BY <3>1, <1>1, <1>4 DEF IsChain
  <2>3. ASSUME NEW a \in Nat, Laid(ch, a, b) PROVE Laid(d, a + n, b)
    <3>1. /\ \A i \in 1..m : Run(ch[i])
          /\ \A i \in 1..(m - 1) : ch[i + 1][1] = ch[i][1] + Len(ch[i])
          /\ ch[1][1] = a + 1
          /\ ch[m][1] + Len(ch[m]) = b + 1
          /\ Run(t)
          /\ t # <<>> => t[1] = ch[1][1] + n
      BY <2>3, <1>5
    <3>2. \A i \in 1..m : Run(d[i])
      <4> SUFFICES ASSUME NEW i \in 1..m PROVE Run(d[i])
        OBVIOUS
      <4>1. CASE i = 1
        BY <4>1, <1>4, <3>1
      <4>2. CASE i # 1
        BY <4>2, <1>4, <3>1
      <4> QED
        BY <4>1, <4>2
    <3>3. d[1] # <<>> => d[1][1] = (a + n) + 1
      <4>1. (a + 1) + n = (a + n) + 1
        BY <1>2
      <4> QED
        BY ONLY <4>1, <3>1, <1>4, Zenon
    <3>4. t # <<>> => t[1] + Len(t) = ch[1][1] + Len(ch[1])
      <4>1. ch[1][1] \in Int
        BY <3>1
      <4>2. \A x, y \in Int : (x + n) + (y - n) = x + y
        BY <1>2
      <4>3. Len(ch[1]) \in Int
        BY <1>2
      <4> QED
        BY ONLY <4>1, <4>2, <4>3, <3>1, <1>3, Zenon
    <3>5. \A i \in 1..(m - 1) : d[i + 1][1] = d[i][1] + Len(d[i])
      <4> SUFFICES ASSUME NEW i \in 1..(m - 1)
                   PROVE  d[i + 1][1] = d[i][1] + Len(d[i])
        OBVIOUS
      <4>1. i \in 1..m /\ i + 1 \in 1..m /\ i + 1 # 1 /\ m > 1
        BY <1>1
      <4>2. d[i + 1] = ch[i + 1] /\ ch[i + 1][1] = ch[i][1] + Len(ch[i])
        BY <4>1, <1>4, <3>1
      <4>3. CASE i = 1
        <5>1. t # <<>> /\ d[i] = t
          BY <4>1, <4>3, <1>4, <1>7
        <5> QED
          BY ONLY <4>2, <4>3, <5>1, <3>4, Zenon
      <4>4. CASE i # 1
        BY <4>1, <4>2, <4>4, <1>4
      <4> QED
        BY <4>3, <4>4
    <3>6. d[m] # <<>> => d[m][1] + Len(d[m]) = b + 1
      <4>1. CASE m = 1
        BY ONLY <4>1, <1>4, <3>1, <3>4, Zenon
      <4>2. CASE m # 1
        BY <4>2, <1>1, <1>4, <3>1
      <4> QED
        BY <4>1, <4>2
    <3>7. d[1] = <<>> => a + n = b
      <4>1. d[1] = <<>> => n = Len(ch[1]) /\ m = 1
        BY <1>1, <1>3, <1>4, <1>7
      <4>2. m = 1 => (a + 1) + Len(ch[1]) = b + 1
        BY ONLY <3>1, Zenon
      <4> QED
        BY <4>1, <4>2, <1>2
    <3> QED
      BY <1>4, <3>2, <3>3, <3>5, <3>6, <3>7 DEF Laid
  <2> QED
    BY <2>1, <2>2, <2>3 DEF d, t
<1> QED
  BY <1>6, <1>7

-----------------------------------------------------------------------------
(* The inductive invariant: the chain is one the code keeps, and write()   *)
(* takes no more than it was given.  While no tcp_output() fails, the      *)
(* chain holds exactly what was accepted and is not on the wire.           *)
Inv == TypeOK /\ IsChain(chain) /\ accepted + left <= MaxBytes

Ordered ==
    /\ \A i \in 1..Len(wire) : wire[i] = i
    /\ Laid(chain, Len(wire), accepted)

(* What a step does to the chain and to the counters of write().           *)
ChainKept ==
    /\ IsChain(chain')
    /\ accepted' \in 0..MaxBytes /\ left' \in 0..MaxBytes /\ accepted' + left' <= MaxBytes
    /\ \A a \in Nat : Laid(chain, a, accepted) => Laid(chain', a, accepted')

(* A chain has one buffer or several.                                      *)
LEMMA OneOrMore == \A x \in Nat : x >= 1 => x > 1 \/ x = 1
  OBVIOUS

(* The smaller of two numbers.                                             *)
LEMMA LeastOf ==
    ASSUME NEW m \in Nat, NEW n \in Nat
    PROVE  Least(m, n) \in Nat /\ Least(m, n) <= m /\ Least(m, n) <= n
  BY DEF Least

(* The client's fields after a write or an acknowledgement.                *)
LEMMA ConnsUpdated ==
    ASSUME NEW c \in Conns, NEW u \in Nat, NEW v \in BOOLEAN
    PROVE  LET d == [c EXCEPT !.unacked = u, !.busy = v]
           IN  d \in Conns /\ d.unacked = u
  BY DEF Conns

(* write() fills the last cbuf.                                            *)
LEMMA FillLast ==
    ASSUME Inv, NEW n \in Nat, accepted + n <= MaxBytes, Fill(chain, n)
    PROVE  ChainKept
<1> DEFINE w == Least(n, Mss - Len(chain[Len(chain)]))
<1>1. /\ chain' = [chain EXCEPT ![Len(chain)] = @ \o Bytes(accepted, w)]
      /\ accepted' = accepted + w /\ left' = n - w
  BY DEF Fill, Last, Bytes
<1>2. accepted \in Nat /\ MaxBytes \in Nat /\ IsChain(chain)
  BY TxSizeAssumption DEF Inv, TypeOK
<1>3. Len(chain[Len(chain)]) \in Nat /\ Len(chain[Len(chain)]) <= Mss /\ Mss \in Nat
  BY <1>2, TxSizeAssumption DEF IsChain
<1>4. w \in Nat /\ w <= n /\ Len(chain[Len(chain)]) + w <= Mss
  <2>1. Mss - Len(chain[Len(chain)]) \in Nat
    BY <1>3
  <2>2. w \in Nat /\ w <= n /\ w <= Mss - Len(chain[Len(chain)])
    BY <2>1, LeastOf
  <2> HIDE DEF w
  <2> QED
    BY <2>2, <1>3
<1> HIDE DEF w
<1>5. accepted + w <= MaxBytes /\ accepted + w \in 0..MaxBytes
      /\ n - w \in 0..MaxBytes /\ (accepted + w) + (n - w) <= MaxBytes
  BY <1>2, <1>4
<1>6. IsChain(chain') /\ \A a \in Nat : Laid(chain, a, accepted) => Laid(chain', a, accepted + w)
  BY <1>1, <1>2, <1>4, <1>5, ExtendChain
<1> QED
  BY <1>1, <1>5, <1>6 DEF ChainKept

(* write() appends a cbuf when the last one is full, and fills it.         *)
LEMMA FillNew ==
    ASSUME Inv, NEW n \in Nat \ {0}, accepted + n <= MaxBytes, room = 0,
           Fill(Append(chain, <<>>), n)
    PROVE  ChainKept
<1> DEFINE d == Append(chain, <<>>)
           w == Least(n, Mss)
<1>1. accepted \in Nat /\ MaxBytes \in Nat /\ IsChain(chain) /\ Mss \in Nat \ {0}
  BY TxSizeAssumption DEF Inv, TypeOK
<1>2. Len(chain[Len(chain)]) = Mss
  <2>1. Len(chain[Len(chain)]) \in Nat
    BY <1>1 DEF IsChain
  <2> QED
    BY <1>1, <2>1 DEF room, Last
<1>3. Len(d[Len(d)]) = 0
  BY <1>1 DEF IsChain
<1> HIDE DEF d
<1>4. Least(n, Mss - Len(d[Len(d)])) = w
  BY <1>1, <1>3 DEF Least
<1>5. /\ chain' = [d EXCEPT ![Len(d)] = @ \o Bytes(accepted, w)]
      /\ accepted' = accepted + w /\ left' = n - w
  BY <1>4 DEF Fill, Last, Bytes, d
<1>6. w \in Nat \ {0} /\ w <= n /\ w <= Mss
  BY <1>1 DEF Least
<1> HIDE DEF w
<1>7. accepted + w <= MaxBytes /\ accepted + w \in 0..MaxBytes
      /\ n - w \in 0..MaxBytes /\ (accepted + w) + (n - w) <= MaxBytes
  BY <1>1, <1>6
<1>8. IsChain(chain') /\ \A a \in Nat : Laid(chain, a, accepted) => Laid(chain', a, accepted + w)
  BY <1>1, <1>2, <1>5, <1>6, <1>7, GrowChain DEF d
<1> QED
  BY <1>5, <1>7, <1>8 DEF ChainKept

(* A step that leaves the chain, the wire and write() alone.               *)
LEMMA ChainSame ==
    ASSUME Inv, chain' = chain, accepted' = accepted, left' \in {left, 0}
    PROVE  ChainKept
<1>1. left \in 0..MaxBytes /\ accepted \in 0..MaxBytes /\ accepted + left <= MaxBytes
      /\ MaxBytes \in Nat
  BY TxSizeAssumption DEF Inv, TypeOK
<1>2. IsChain(chain')
  BY DEF Inv
<1>3. left' \in 0..MaxBytes /\ accepted' + left' <= MaxBytes
  <2>1. CASE left' = left
    BY <2>1, <1>1
  <2>2. CASE left' = 0
    BY <2>2, <1>1
  <2> QED
    BY <2>1, <2>2
<1> QED
  BY <1>1, <1>2, <1>3 DEF ChainKept

-----------------------------------------------------------------------------
(* The rest of the state: everything but the chain and its counters.       *)
RestKept ==
    /\ alive' \in BOOLEAN /\ client' \in BOOLEAN
    /\ conn' \in Conns /\ conn'.unacked <= SndBuf
    /\ net' \in NetStates
    /\ pc' \in {"loop", "write", "flush"} /\ sending' \in {"no", "app", "handler"}
    /\ wire' \in Seq(1..MaxBytes)

(* What a step has to show for the invariant.                              *)
LEMMA KeptTogether == ASSUME ChainKept, RestKept PROVE Inv'
<1>1. chain' # <<>> /\ chain' \in Seq(Seq(1..MaxBytes)) 
      /\ \A i \in 1..Len(chain') : Len(chain'[i]) <= Mss
  BY DEF ChainKept, IsChain
<1> QED
  BY <1>1 DEF ChainKept, RestKept, Inv, TypeOK

(* _sendBuffer() hands on what was taken from the head of the chain.       *)
LEMMA SendKeeps ==
    ASSUME Inv, SendIteration
    PROVE  /\ Inv'
           /\ "noroute" \notin NetStates /\ Ordered => Ordered'
<1> DEFINE h == chain[1]
           m == Least(Len(h), space)
           k == IF net = "ok" THEN m ELSE 0
<1>1. /\ IsChain(chain) /\ accepted \in Nat /\ wire \in Seq(1..MaxBytes)
      /\ conn \in Conns /\ conn.unacked \in Nat /\ conn.unacked <= SndBuf /\ SndBuf \in Nat
      /\ net \in NetStates
  BY TxSizeAssumption DEF Inv, TypeOK, Conns
<1>2. /\ chain \in Seq(Seq(1..MaxBytes)) /\ Len(chain) >= 1 /\ Head(chain) = h
      /\ h \in Seq(1..MaxBytes) /\ Len(h) \in Nat
  BY <1>1 DEF IsChain
<1>3. h # <<>> /\ Amount = m /\ space > 0
  BY <1>2 DEF SendIteration, MaySend, Amount
<1>4. m \in 0..Len(h) /\ m \in Nat /\ conn.unacked + m <= SndBuf
  BY <1>1, <1>2, <1>3 DEF space, Least
<1>5. /\ wire' = IF net = "nomem" THEN wire ELSE wire \o First(h, m)
      /\ conn' = [conn EXCEPT !.unacked = IF net = "nomem" THEN @ ELSE @ + m,
                              !.busy = net = "ok"]
      /\ chain' = DeleteEmpty([chain EXCEPT ![1] = Rest(@, k)])
      /\ alive' = alive /\ client' = client /\ net' = net /\ pc' = pc /\ left' = left
      /\ sending' = sending /\ accepted' = accepted
  BY <1>2, <1>3 DEF SendIteration
<1> HIDE DEF m
<1>6. k \in 0..Len(h) /\ k \in Nat
  BY <1>2, <1>4
<1>7. IsChain(chain') /\ \A a \in Nat : Laid(chain, a, accepted) => Laid(chain', a + k, accepted)
  <2> HIDE DEF k
  <2> QED
    BY <1>1, <1>3, <1>5, <1>6, TakeChain
<1>8. First(h, m) \in Seq(1..MaxBytes) /\ wire' \in Seq(1..MaxBytes)
  <2>1. First(h, m) \in Seq(1..MaxBytes)
    BY <1>2, <1>4, CbufTaken
  <2> QED
    <3>1. wire \o First(h, m) \in Seq(1..MaxBytes)
      BY ONLY <2>1, <1>1
    <3> QED
      BY ONLY <2>1, <3>1, <1>1, <1>5, Zenon
<1>9. conn' \in Conns /\ conn'.unacked <= SndBuf
  <2> DEFINE u == IF net = "nomem" THEN conn.unacked ELSE conn.unacked + m
             v == (net = "ok")
  <2>1. u \in Nat /\ u <= SndBuf /\ v \in BOOLEAN
    BY <1>1, <1>4
  <2>2. conn' = [conn EXCEPT !.unacked = u, !.busy = v]
    BY <1>5
  <2> HIDE DEF u, v
  <2> QED
    BY <2>1, <2>2, <1>1, ConnsUpdated, ZenonT(30)
<1>10. Inv'
  <2>1. chain' # <<>> /\ chain' \in Seq(Seq(1..MaxBytes)) 
        /\ \A i \in 1..Len(chain') : Len(chain'[i]) <= Mss
    BY <1>7 DEF IsChain
  <2>2. /\ alive \in BOOLEAN /\ client \in BOOLEAN /\ pc \in {"loop", "write", "flush"}
        /\ left \in 0..MaxBytes /\ sending \in {"no", "app", "handler"}
        /\ accepted \in 0..MaxBytes /\ accepted + left <= MaxBytes
    BY DEF Inv, TypeOK
  <2> HIDE DEF h, k
  <2> QED
    BY <2>1, <2>2, <1>1, <1>5, <1>7, <1>8, <1>9 DEF Inv, TypeOK
<1>11. ASSUME "noroute" \notin NetStates, Ordered PROVE Ordered'
  <2>1. \/ net = "nomem" /\ k = 0 /\ wire' = wire
        \/ net = "ok" /\ k = m /\ wire' = wire \o First(h, m)
    BY <1>1, <1>5, <1>11, TxModeAssumption
  <2>2. /\ \A i \in 1..Len(wire) : wire[i] = i
        /\ Laid(chain, Len(wire), accepted) /\ Len(wire) \in Nat
    BY <1>1, <1>11 DEF Ordered
  <2>3. Run(h) /\ h[1] = Len(wire) + 1
    BY <2>2, <1>2, <1>3 DEF Laid
  <2>4. Laid(chain', Len(wire) + k, accepted)
    BY <2>2, <1>7
  <2>5. CASE wire' = wire /\ k = 0
    <3>1. Len(wire) + k = Len(wire)
      BY <2>5, <2>2
    <3> QED
      BY ONLY <3>1, <2>2, <2>4, <2>5, <1>5, Zenon DEF Ordered
  <2>6. CASE k = m /\ wire' = wire \o First(h, m)
    <3> HIDE DEF h
    <3>1. Len(wire') = Len(wire) + m /\ \A i \in 1..Len(wire') : wire'[i] = i
      BY <2>2, <2>3, <2>6, <1>1, <1>2, <1>4, WireGrows, ZenonT(30)
    <3> HIDE DEF k
    <3> QED
      BY ONLY <3>1, <2>4, <2>6, <1>5, Zenon DEF Ordered
  <2> QED
    BY <2>1, <2>5, <2>6
<1> QED
  BY <1>10, <1>11

(* A step that does not send changes nothing on the wire, and keeps the    *)
(* order when it keeps the chain.                                          *)
LEMMA OrderKept ==
    ASSUME Inv, ChainKept, wire' = wire, Ordered
    PROVE  Ordered'
<1>1. Len(wire) \in Nat
  BY DEF Inv, TypeOK
<1> QED
  BY <1>1 DEF ChainKept, Ordered

(* Every step of the specification is one that sends, or keeps the chain.  *)
LEMMA StepKeeps ==
    ASSUME Inv, [Next]_vars
    PROVE  SendIteration \/ (ChainKept /\ RestKept /\ wire' = wire)
<1>1. /\ accepted \in 0..MaxBytes /\ left \in 0..MaxBytes /\ accepted + left <= MaxBytes
      /\ MaxBytes \in Nat /\ SndBuf \in Nat
      /\ alive \in BOOLEAN /\ client \in BOOLEAN
      /\ conn \in Conns /\ conn.unacked <= SndBuf
      /\ net \in NetStates
      /\ pc \in {"loop", "write", "flush"} /\ sending \in {"no", "app", "handler"}
      /\ wire \in Seq(1..MaxBytes)
  BY TxSizeAssumption DEF Inv, TypeOK
<1>2. ASSUME NEW n \in 1..MaxBytes, Write(n) PROVE ChainKept /\ RestKept /\ wire' = wire
  <2>1. /\ accepted + n <= MaxBytes /\ Fill(chain, n) /\ n \in Nat
        /\ alive' = alive /\ client' = client /\ conn' = conn /\ net' = net /\ wire' = wire
        /\ pc' = "write" /\ sending' = "app"
    BY <1>2 DEF Write, Fill
  <2>2. ChainKept
    BY <2>1, FillLast
  <2> QED
    BY <2>1, <2>2, <1>1 DEF RestKept
<1>3. ASSUME WriteGoesOn PROVE ChainKept /\ RestKept /\ wire' = wire
  <2>1. alive' = alive /\ client' = client /\ conn' = conn /\ net' = net /\ wire' = wire
    BY <1>3 DEF WriteGoesOn
  <2>2. CASE /\ left = 0 \/ room = 0
             /\ pc' = "loop" /\ left' = 0
             /\ UNCHANGED <<chain, sending, accepted>>
    BY <2>1, <2>2, <1>1, ChainSame DEF RestKept
  <2>3. CASE left > 0 /\ Fill(IF room = 0 THEN Append(chain, <<>>) ELSE chain, left)
    <3>1. left \in Nat \ {0} /\ left \in Nat
      BY <2>3, <1>1
    <3>2. CASE room = 0
      <4>1. Fill(Append(chain, <<>>), left)
        BY <2>3, <3>2
      <4> QED
        BY <4>1, <3>1, <3>2, <2>1, <1>1, FillNew DEF RestKept, Fill
    <3>3. CASE room # 0
      <4>1. Fill(chain, left)
        BY <2>3, <3>3
      <4> QED
        BY <4>1, <3>1, <2>1, <1>1, FillLast DEF RestKept, Fill
    <3> QED
      BY <3>2, <3>3
  <2> QED
    BY <2>2, <2>3, <1>3 DEF WriteGoesOn
<1>4. ASSUME Flush \/ FlushGoesOn \/ SendReturns \/ Stop \/ OnPoll
      PROVE  ChainKept /\ RestKept /\ wire' = wire
  <2>1. chain' = chain /\ accepted' = accepted /\ left' = left
    BY <1>4 DEF Flush, FlushGoesOn, SendReturns, Stop, OnPoll
  <2>2. RestKept /\ wire' = wire
    BY <1>1, <1>4 DEF Flush, FlushGoesOn, SendReturns, Stop, OnPoll, RestKept, Conns
  <2> QED
    BY <2>1, <2>2, ChainSame
<1>5. ASSUME NEW n \in 1..SndBuf, OnAck(n) PROVE ChainKept /\ RestKept /\ wire' = wire
  <2>1. chain' = chain /\ accepted' = accepted /\ left' = left
    BY <1>5 DEF OnAck
  <2>2. conn.unacked \in Nat /\ n <= conn.unacked /\ conn.unacked - n \in Nat
    BY <1>1, <1>5 DEF OnAck, Conns
  <2>3. conn' = [conn EXCEPT !.unacked = @ - n, !.busy = @ /\ conn.unacked # n]
    BY <1>5 DEF OnAck
  <2>4. conn' \in Conns /\ conn'.unacked <= SndBuf
    <3> DEFINE u == conn.unacked - n
               v == conn.busy /\ conn.unacked # n
    <3>1. u \in Nat /\ u <= SndBuf /\ v \in BOOLEAN
      BY <2>2, <1>1
    <3>2. conn' = [conn EXCEPT !.unacked = u, !.busy = v]
      BY <2>3
    <3> HIDE DEF u, v
    <3> QED
      BY <3>1, <3>2, <1>1, ConnsUpdated, ZenonT(30)
  <2>5. RestKept /\ wire' = wire
    BY <1>1, <1>5, <2>4 DEF OnAck, RestKept
  <2> QED
    BY <2>1, <2>5, ChainSame
<1>6. ASSUME OnTimeout \/ ClosesAsAsked \/ PeerCloses PROVE ChainKept /\ RestKept /\ wire' = wire
  <2>1. chain' = chain /\ accepted' = accepted /\ left' = left
    BY <1>6 DEF OnTimeout, ClosesAsAsked, PeerCloses, OnDisconnect
  <2>2. RestKept /\ wire' = wire
    BY <1>1, <1>6 DEF OnTimeout, ClosesAsAsked, PeerCloses, OnDisconnect, RestKept, Conns
  <2> QED
    BY <2>1, <2>2, ChainSame
<1>7. ASSUME NEW s \in NetStates, NetChanges(s) PROVE ChainKept /\ RestKept /\ wire' = wire
  BY <1>1, <1>7, ChainSame DEF NetChanges, RestKept
<1>8. ASSUME UNCHANGED vars PROVE ChainKept /\ RestKept /\ wire' = wire
  BY <1>1, <1>8, ChainSame DEF vars, RestKept
<1> QED
  BY <1>2, <1>3, <1>4, <1>5, <1>6, <1>7, <1>8 DEF Next, Loop

(* The invariant and the order of the bytes hold at the start.             *)
LEMMA Start == Init => Inv /\ Ordered
<1> SUFFICES ASSUME Init PROVE Inv /\ Ordered
  OBVIOUS
<1>1. chain = << <<>> >> /\ accepted = 0 /\ left = 0 /\ wire = <<>>
  BY DEF Init
<1>2. IsChain(chain)
  BY <1>1, TxSizeAssumption DEF IsChain
<1>3. TypeOK
  BY <1>1, TxSizeAssumption, TxModeAssumption DEF Init, TypeOK, Conns
<1>4. Ordered
  BY <1>1 DEF Ordered, Laid, Run
<1> QED
  BY <1>1, <1>2, <1>3, <1>4, TxSizeAssumption DEF Inv

(* Every step keeps the invariant.                                         *)
LEMMA Step == Inv /\ [Next]_vars => Inv'
  BY StepKeeps, SendKeeps, KeptTogether

-----------------------------------------------------------------------------
(* Every state is of its type: the chain is never empty, no cbuf holds     *)
(* more than it can, and no more than TCP_SND_BUF is in flight.            *)
THEOREM Types == Spec => []TypeOK
<1>1. Inv => TypeOK
  BY DEF Inv
<1> QED
  BY <1>1, Start, Step, PTL DEF Spec

(* No data is stranded behind an empty cbuf: _sendBuffer() and onPoll look *)
(* at the head alone.                                                      *)
THEOREM HeadFirst == Spec => []NoneStranded
<1>1. Inv => NoneStranded
  <2> SUFFICES ASSUME Inv PROVE NoneStranded
    OBVIOUS
  <2>1. chain \in Seq(Seq(1..MaxBytes)) /\ Len(chain) >= 1 /\ Head(chain) = chain[1]
        /\ (Len(chain) > 1 => chain[1] # <<>>)
    BY DEF Inv, IsChain
  <2>2. Len(chain) \in Nat
    BY <2>1
  <2>3. Len(chain) > 1 \/ Len(chain) = 1
    BY ONLY <2>1, <2>2, OneOrMore, Zenon
  <2> QED
    BY <2>1, <2>3 DEF NoneStranded
<1> QED
  BY <1>1, Start, Step, PTL DEF Spec

(* As long as tcp_output() does not fail, lwIP gets the bytes the          *)
(* application wrote, each once and in order, and all that have left the   *)
(* chain.                                                                  *)
THEOREM SentInOrder == ("noroute" \notin NetStates) => (Spec => []StreamIntact)
<1> SUFFICES ASSUME "noroute" \notin NetStates PROVE Spec => []StreamIntact
  OBVIOUS
<1>1. Inv /\ Ordered /\ [Next]_vars => Inv' /\ Ordered'
  BY StepKeeps, SendKeeps, KeptTogether, OrderKept
<1>2. Inv /\ Ordered => StreamIntact
  <2> SUFFICES ASSUME Inv, Ordered, ~Pending PROVE Len(wire) = accepted
    BY DEF Ordered, StreamIntact
  <2>1. Len(chain) >= 1 /\ Len(chain) \in Nat
    BY DEF Inv, IsChain
  <2>2. chain[1] = <<>>
    BY <2>1 DEF Pending
  <2> QED
    BY <2>2 DEF Ordered, Laid
<1> QED
  BY <1>1, <1>2, Start, PTL DEF Spec

(* flush() comes back only with nothing left in any cbuf, or disconnected, *)
(* though it looks at the last cbuf alone.                                 *)
THEOREM FlushExact == Spec => FlushComplete
<1>1. Inv /\ [Next]_vars => [pc = "flush" /\ pc' = "loop" => ~Pending \/ ~connected]_vars
  <2> SUFFICES ASSUME Inv, Next, pc = "flush", pc' = "loop", connected PROVE ~Pending
    OBVIOUS
  <2>1. FlushDone
    BY DEF Next, Write, WriteGoesOn, Fill, Flush, FlushGoesOn, SendReturns, SendIteration,
           Stop, Loop, OnAck, OnPoll, OnTimeout, ClosesAsAsked, PeerCloses, OnDisconnect,
           NetChanges
  <2>2. /\ chain \in Seq(Seq(1..MaxBytes)) /\ Len(chain) >= 1 /\ Len(chain) \in 1..Len(chain)
        /\ Len(chain) > 1 => \A i \in 1..Len(chain) : chain[i] # <<>>
    BY DEF Inv, IsChain
  <2>3. chain[Len(chain)] = <<>>
    BY <2>1 DEF FlushDone, AllSent, Last
  <2>4. Len(chain) = 1
    <3>1. Len(chain) \in Nat
      BY <2>2
    <3>2. Len(chain) > 1 \/ Len(chain) = 1
      BY ONLY <2>2, <3>1, OneOrMore, Zenon
    <3> QED
      BY <2>2, <2>3, <3>2
  <2> QED
    BY <2>3, <2>4 DEF Pending
<1> QED
  BY <1>1, Start, Step, PTL DEF Spec, FlushComplete

=============================================================================
