------------------------ MODULE AsyncServerTls_proofs ------------------------
(***************************************************************************)
(* Proofs about AsyncServerTls: what parse_certificates() leaves allocated *)
(* for every PEM text, the ownership of the certificates, the listener and *)
(* the sessions.                                                           *)
(***************************************************************************)
EXTENDS AsyncServerTls, AsyncServer_proofs, WellFoundedInduction

-----------------------------------------------------------------------------
(* A non-empty set of numbers has a least element, the form of induction   *)
(* used below: a least counterexample.                                     *)
LEMMA LeastNumber ==
    ASSUME NEW T \in SUBSET Nat, T # {}
    PROVE  \E x \in T : \A y \in T : x <= y
<1> DEFINE R == {ss \in Nat \X Nat : ss[1] < ss[2]}
<1>1. IsWellFoundedOn(R, Nat)
  BY NatLessThanWellFounded DEF OpToRel
<1>2. PICK x \in T : \A y \in T : ~(<<y, x>> \in R)
  BY <1>1, WFMin
<1>3. ASSUME NEW y \in T PROVE x <= y
  <2>1. x \in Nat /\ y \in Nat /\ <<y, x>> \in Nat \X Nat
    OBVIOUS
  <2>2. ~(<<y, x>> \in R)
    BY <1>2
  <2>3. ~(y < x)
    BY <2>1, <2>2
  <2> QED
    BY <2>1, <2>3
<1> QED
  BY <1>3

(* f is the run of parse_certificates() over the first n objects of pem.   *)
Run(f, pem, n) ==
    f = [i \in 0..n |-> IF i = 0 THEN Start0 ELSE Parse1(f[i - 1], pem[i])]

(* There is one for every n.                                               *)
LEMMA RunExists ==
    ASSUME NEW pem, NEW m \in Nat
    PROVE  \E f : Run(f, pem, m)
<1> DEFINE T == {n \in Nat : ~\E f : Run(f, pem, n)}
<1> SUFFICES ASSUME T # {} PROVE FALSE
  OBVIOUS
<1>1. PICK n \in T : \A y \in T : n <= y
  <2>1. T \in SUBSET Nat
    OBVIOUS
  <2> HIDE DEF T
  <2> QED
    BY <2>1, LeastNumber
<1>2. n # 0
  <2>1. Run([i \in 0..0 |-> Start0], pem, 0)
    BY DEF Run
  <2> QED
    BY <2>1
<1>3. n - 1 \in Nat /\ n - 1 \notin T
  BY <1>1, <1>2
<1>4. PICK f : Run(f, pem, n - 1)
  BY <1>3
<1> DEFINE g == [i \in 0..n |-> IF i < n THEN f[i] ELSE Parse1(f[n - 1], pem[n])]
<1>5. \A i \in 0..(n - 1) : f[i] = IF i = 0 THEN Start0 ELSE Parse1(f[i - 1], pem[i])
  BY <1>4 DEF Run
<1>6. ASSUME NEW i \in 0..n PROVE g[i] = IF i = 0 THEN Start0 ELSE Parse1(g[i - 1], pem[i])
  <2>1. n \in Nat
    OBVIOUS
  <2>2. CASE i < n
    <3>1. i \in 0..(n - 1) /\ (i # 0 => i - 1 \in 0..n /\ i - 1 < n)
      BY <2>1, <2>2
    <3>2. g[i] = f[i] /\ (i # 0 => g[i - 1] = f[i - 1])
      BY <2>1, <2>2, <3>1
    <3> QED
      BY ONLY <3>1, <3>2, <1>5, Zenon
  <2>3. CASE ~(i < n)
    <3>1. i = n /\ i # 0 /\ n - 1 \in 0..n /\ n - 1 < n
      BY <2>1, <2>3, <1>2
    <3>2. g[i] = Parse1(f[n - 1], pem[n]) /\ g[n - 1] = f[n - 1]
      BY <2>3, <3>1
    <3> HIDE DEF g
    <3> QED
      BY <3>1, <3>2
  <2> QED
    BY <2>2, <2>3
<1>7. Run(g, pem, n)
  <2>1. g = [i \in 0..n |-> g[i]]
    OBVIOUS
  <2> HIDE DEF g
  <2> QED
    BY <2>1, <1>6 DEF Run
<1> QED
  BY <1>7

(* What parse_certificates() returns is the end of such a run.             *)
LEMMA ParsedByRun ==
    ASSUME NEW pem \in Pems
    PROVE  \E f : Run(f, pem, Len(pem)) /\ parse_certificates(pem) = f[Len(pem)]
<1> DEFINE f == CHOOSE f : f = [i \in 0..Len(pem) |->
                                  IF i = 0 THEN Start0 ELSE Parse1(f[i - 1], pem[i])]
<1>1. parse_certificates(pem) = f[Len(pem)]
  BY DEF parse_certificates
<1>2. Len(pem) \in Nat
  BY TlsServerAssumption
<1>3. \E h : Run(h, pem, Len(pem))
  BY <1>2, RunExists
<1>4. Run(f, pem, Len(pem))
  BY <1>3 DEF Run
<1> QED
  BY <1>1, <1>4

-----------------------------------------------------------------------------
(* parse_certificates(): the buffers that are allocated are those of the   *)
(* chain and the one being filled; after a failure there are none.         *)

ParseStates == [chain : Nat, live : Nat, buf : BOOLEAN, ok : BOOLEAN]

Tidy(s) ==
    /\ s \in ParseStates
    /\ s.live = s.chain + (IF s.buf THEN 1 ELSE 0)
    /\ ~s.ok => s.chain = 0 /\ ~s.buf

(* Freeing and filling the buffer, in any tidy state.                      *)
LEMMA BufferTidy ==
    ASSUME NEW s, Tidy(s)
    PROVE  /\ Tidy(FreeBuf(s)) /\ ~FreeBuf(s).buf /\ FreeBuf(s).ok = s.ok
           /\ s.ok => Tidy(Filled(s)) /\ Filled(s).ok /\ Filled(s).buf
           /\ ~s.buf => Tidy(FreeAll(s))
<1>1. /\ s \in ParseStates /\ s.chain \in Nat /\ s.live \in Nat
      /\ ~s.ok => s.chain = 0 /\ ~s.buf
  BY DEF Tidy, ParseStates
<1>2. (s.buf => s.live = s.chain + 1) /\ (~s.buf => s.live = s.chain)
  BY <1>1 DEF Tidy
<1>3. Tidy(FreeBuf(s)) /\ ~FreeBuf(s).buf /\ FreeBuf(s).ok = s.ok
  <2> DEFINE t == [s EXCEPT !.live = s.chain, !.buf = FALSE]
  <2>1. FreeBuf(s) = t
    <3>1. CASE s.buf
      <4>1. s.live - 1 = s.chain
        BY <3>1, <1>1, <1>2
      <4> QED
        BY <3>1, <4>1 DEF FreeBuf
    <3>2. CASE ~s.buf
      BY <3>2, <1>1, <1>2 DEF FreeBuf
    <3> QED
      BY <3>1, <3>2
  <2>2. t \in ParseStates /\ t.chain = s.chain /\ t.live = s.chain /\ ~t.buf /\ t.ok = s.ok
    BY <1>1 DEF ParseStates
  <2> HIDE DEF t
  <2> QED
    BY <2>1, <2>2, <1>1 DEF Tidy
<1>4. ASSUME s.ok PROVE Tidy(Filled(s)) /\ Filled(s).ok /\ Filled(s).buf
  <2> DEFINE t == [s EXCEPT !.live = s.chain + 1, !.buf = TRUE]
  <2>1. Filled(s) = t
    <3>1. CASE s.buf
      BY <3>1, <1>1, <1>2 DEF Filled
    <3>2. CASE ~s.buf
      BY <3>2, <1>1, <1>2 DEF Filled
    <3> QED
      BY <3>1, <3>2
  <2>2. t \in ParseStates /\ t.chain = s.chain /\ t.live = s.chain + 1 /\ t.buf = TRUE
        /\ t.ok = s.ok
    <3> DEFINE n == s.chain + 1
    <3>1. n \in Nat
      BY <1>1
    <3> HIDE DEF n
    <3>2. [s EXCEPT !.live = n, !.buf = TRUE] \in ParseStates
      BY <1>1, <3>1 DEF ParseStates
    <3>3. t = [s EXCEPT !.live = n, !.buf = TRUE]
      BY DEF n
    <3>4. t.chain = s.chain /\ t.live = n /\ t.buf = TRUE /\ t.ok = s.ok
      BY <1>1, <3>3 DEF ParseStates
    <3> QED
      BY <3>2, <3>3, <3>4 DEF n
  <2> HIDE DEF t
  <2> QED
    BY <2>1, <2>2, <1>1, <1>4 DEF Tidy
<1>5. ASSUME ~s.buf PROVE Tidy(FreeAll(s))
  <2> DEFINE t == [s EXCEPT !.live = 0, !.chain = 0, !.ok = FALSE]
  <2>1. FreeAll(s) = t
    <3>1. s.live - s.chain = 0
      BY <1>1, <1>2, <1>5
    <3> QED
      BY <3>1 DEF FreeAll
  <2>2. t \in ParseStates /\ t.chain = 0 /\ t.live = 0 /\ ~t.buf /\ ~t.ok
    BY <1>1, <1>5 DEF ParseStates
  <2> HIDE DEF t
  <2> QED
    BY <2>1, <2>2 DEF Tidy
<1> QED
  BY <1>3, <1>4, <1>5

(* An object of the text leaves the parser tidy.                           *)
LEMMA ParseTidy ==
    ASSUME NEW s, Tidy(s), NEW object \in Objects
    PROVE  Tidy(Parse1(s, object))
<1> DEFINE b == FreeBuf(s)
<1>1. Tidy(b) /\ ~b.buf /\ b.ok = s.ok
  BY BufferTidy
<1> HIDE DEF b
<1>2. CASE ~s.ok
  BY <1>2 DEF Parse1
<1>3. CASE s.ok /\ object \in {"cert", "other"}
  <2> DEFINE c == Filled(b)
  <2>1. Parse1(s, object) = EndObject(c, object)
    BY <1>3 DEF Parse1, b
  <2>2. Tidy(c) /\ c.ok /\ c.buf
    BY <1>1, <1>3, BufferTidy
  <2> HIDE DEF c
  <2>3. CASE object = "cert"
    <3>1. EndObject(c, object) = [c EXCEPT !.chain = @ + 1, !.buf = FALSE]
      BY <2>2, <2>3 DEF EndObject
    <3>2. Tidy([c EXCEPT !.chain = @ + 1, !.buf = FALSE])
      <4> DEFINE t == [c EXCEPT !.chain = @ + 1, !.buf = FALSE]
      <4>1. c \in ParseStates /\ c.chain \in Nat /\ c.live = c.chain + 1
        BY <2>2 DEF Tidy, ParseStates
      <4>2. t \in ParseStates /\ t.chain = c.chain + 1 /\ t.live = c.live /\ ~t.buf /\ t.ok
        BY <2>2, <4>1 DEF ParseStates
      <4> HIDE DEF t
      <4>3. Tidy(t)
        BY <4>1, <4>2 DEF Tidy
      <4> QED
        BY <4>3 DEF t
    <3> QED
      BY <2>1, <3>1, <3>2
  <2>4. CASE object # "cert"
    <3>1. EndObject(c, object) = FreeBuf(c)
      BY <2>4 DEF EndObject
    <3> QED
      BY <2>1, <2>2, <3>1, BufferTidy
  <2> QED
    BY <2>3, <2>4
<1>4. CASE s.ok /\ object = "empty"
  <2>1. Parse1(s, object) = FreeBuf(b)
    BY <1>1, <1>4 DEF Parse1, EndObject, b
  <2> QED
    BY <2>1, <1>1, BufferTidy
<1>5. CASE s.ok /\ object \in {"bad", "oom"}
  <2>1. Parse1(s, object) = FreeAll(FreeBuf(Filled(b)))
    BY <1>5 DEF Parse1, b
  <2>2. Tidy(Filled(b))
    BY <1>1, <1>5, BufferTidy
  <2>3. Tidy(FreeBuf(Filled(b))) /\ ~FreeBuf(Filled(b)).buf
    BY <2>2, BufferTidy
  <2> QED
    BY <2>1, <2>3, BufferTidy
<1>6. CASE s.ok /\ object = "cut"
  <2>1. Parse1(s, object) = Filled(b)
    BY <1>6 DEF Parse1, b
  <2> QED
    BY <2>1, <1>1, <1>6, BufferTidy
<1> QED
  BY <1>2, <1>3, <1>4, <1>5, <1>6 DEF Objects

(* So does the whole text, by induction over its objects.                  *)
LEMMA TextTidy ==
    ASSUME NEW pem \in Pems
    PROVE  Tidy(parse_certificates(pem))
<1>1. PICK f : Run(f, pem, Len(pem)) /\ parse_certificates(pem) = f[Len(pem)]
  BY ParsedByRun
<1>2. Len(pem) \in Nat /\ \A i \in 1..Len(pem) : pem[i] \in Objects
  BY TlsServerAssumption
<1>3. \A i \in 0..Len(pem) : f[i] = IF i = 0 THEN Start0 ELSE Parse1(f[i - 1], pem[i])
  BY <1>1 DEF Run
<1> DEFINE T == {n \in Nat : n <= Len(pem) /\ ~Tidy(f[n])}
<1>4. ASSUME T # {} PROVE FALSE
  <2>1. PICK n \in T : \A y \in T : n <= y
    <3>1. T \in SUBSET Nat
      OBVIOUS
    <3> HIDE DEF T
    <3> QED
      BY <1>4, <3>1, LeastNumber
  <2>2. n \in Nat /\ n <= Len(pem) /\ ~Tidy(f[n]) /\ n \in 0..Len(pem)
    BY <1>2
  <2>3. CASE n = 0
    <3>1. f[0] = Start0
      BY <2>2, <2>3, <1>3
    <3>2. Tidy(Start0)
      BY DEF Tidy, ParseStates, Start0
    <3> QED
      BY <2>2, <2>3, <3>1, <3>2
  <2>4. CASE n # 0
    <3>1. n - 1 \in Nat /\ n - 1 <= Len(pem) /\ n \in 1..Len(pem) /\ ~(n <= n - 1)
      BY <2>2, <2>4, <1>2
    <3>2. Tidy(f[n - 1])
      BY <2>1, <3>1
    <3>3. f[n] = Parse1(f[n - 1], pem[n])
      BY <2>2, <2>4, <1>3
    <3> QED
      BY <2>2, <3>1, <3>2, <3>3, <1>2, ParseTidy
  <2> QED
    BY <2>3, <2>4
<1>5. Len(pem) \notin T
  BY <1>4
<1> QED
  BY <1>1, <1>2, <1>5

-----------------------------------------------------------------------------
(* The list of sessions: the first one for p is of p's g-th connection.    *)

Sessions == [tcp : Conns, gen : Nat]

Newest(ss, p, g) ==
    \E i \in 1..Len(ss) :
        /\ ss[i].tcp = p /\ ss[i].gen = g
        /\ \A j \in 1..Len(ss) : ss[j].tcp = p => i <= j

(* That is the session find_ssl_pcb() returns.                             *)
LEMMA FindNewest ==
    ASSUME NEW ss \in Seq(Sessions), NEW p, NEW g
    PROVE  LET places == {i \in 1..Len(ss) : ss[i].tcp = p}
               first == CHOOSE i \in places : \A j \in places : i <= j
           IN  Newest(ss, p, g) <=> places # {} /\ ss[first].gen = g
<1> DEFINE places == {i \in 1..Len(ss) : ss[i].tcp = p}
           first == CHOOSE i \in places : \A j \in places : i <= j
<1>1. ASSUME places # {}
      PROVE  first \in places /\ \A j \in places : first <= j
  <2>1. places \in SUBSET Nat
    OBVIOUS
  <2> HIDE DEF places
  <2>2. \E i \in places : \A j \in places : i <= j
    BY <1>1, <2>1, LeastNumber
  <2> QED
    BY <2>2
<1>2. ASSUME Newest(ss, p, g) PROVE places # {} /\ ss[first].gen = g
  <2>1. PICK i \in 1..Len(ss) : /\ ss[i].tcp = p /\ ss[i].gen = g
                                /\ \A j \in 1..Len(ss) : ss[j].tcp = p => i <= j
    BY <1>2 DEF Newest
  <2>2. i \in places /\ i \in Int
    BY <2>1
  <2>3. first \in places /\ first <= i
    BY <2>2, <1>1
  <2> HIDE DEF first
  <2>4. first \in 1..Len(ss) /\ i <= first /\ first \in Int
    BY <2>1, <2>3
  <2>5. first = i
    BY <2>2, <2>3, <2>4
  <2> QED
    BY <2>1, <2>2, <2>5
<1>3. ASSUME places # {}, ss[first].gen = g PROVE Newest(ss, p, g)
  <2>1. first \in places /\ \A j \in places : first <= j
    BY <1>1, <1>3
  <2> HIDE DEF first
  <2> QED
    BY <2>1, <1>3 DEF Newest
<1> QED
  BY <1>2, <1>3

(* A new session goes to the front.                                        *)
LEMMA RegisterNewest ==
    ASSUME NEW ss \in Seq(Sessions), NEW p \in Conns, NEW g \in Nat
    PROVE  LET tt == <<[tcp |-> p, gen |-> g]>> \o ss
           IN  /\ tt \in Seq(Sessions)
               /\ Newest(tt, p, g)
               /\ \A q \in Conns \ {p} : \A h : Newest(ss, q, h) => Newest(tt, q, h)
<1> DEFINE e == [tcp |-> p, gen |-> g]
           tt == <<e>> \o ss
<1>1. e \in Sessions /\ e.tcp = p /\ e.gen = g
  BY DEF Sessions
<1> HIDE DEF e
<1>2. /\ tt \in Seq(Sessions) /\ Len(tt) = Len(ss) + 1 /\ Len(ss) \in Nat /\ tt[1] = e
      /\ \A i \in 1..Len(ss) : tt[i + 1] = ss[i]
  BY <1>1
<1>3. \A j \in 1..Len(tt) : j # 1 => j - 1 \in 1..Len(ss) /\ tt[j] = ss[j - 1]
  <2> SUFFICES ASSUME NEW j \in 1..Len(tt), j # 1
               PROVE  j - 1 \in 1..Len(ss) /\ tt[j] = ss[j - 1]
    OBVIOUS
  <2> HIDE DEF tt
  <2>1. j - 1 \in 1..Len(ss) /\ (j - 1) + 1 = j
    BY <1>2
  <2>2. tt[(j - 1) + 1] = ss[j - 1]
    BY <2>1, <1>2
  <2> QED
    BY <2>1, <2>2
<1> HIDE DEF tt
<1>4. Newest(tt, p, g)
  <2>1. 1 \in 1..Len(tt) /\ \A j \in 1..Len(tt) : 1 <= j
    BY <1>2
  <2> QED
    BY <2>1, <1>1, <1>2 DEF Newest
<1>5. ASSUME NEW q \in Conns \ {p}, NEW h, Newest(ss, q, h) PROVE Newest(tt, q, h)
  <2>1. PICK i \in 1..Len(ss) : /\ ss[i].tcp = q /\ ss[i].gen = h
                                /\ \A j \in 1..Len(ss) : ss[j].tcp = q => i <= j
    BY <1>5 DEF Newest
  <2>2. i + 1 \in 1..Len(tt) /\ tt[i + 1] = ss[i]
    BY <1>2
  <2>3. ASSUME NEW j \in 1..Len(tt), tt[j].tcp = q PROVE i + 1 <= j
    <3>1. j # 1
      BY <2>3, <1>1, <1>2
    <3>2. j - 1 \in 1..Len(ss) /\ tt[j] = ss[j - 1]
      BY <3>1, <1>3
    <3>3. i <= j - 1
      BY <3>2, <2>1, <2>3
    <3> QED
      BY <3>3, <1>2
  <2> QED
    BY <2>1, <2>2, <2>3 DEF Newest
<1> QED
  BY <1>2, <1>4, <1>5 DEF tt, e

(* Two sequences joined.                                                   *)
LEMMA Joined ==
    ASSUME NEW S, NEW s \in Seq(S), NEW t \in Seq(S)
    PROVE  s \o t \in Seq(S) /\ Len(s \o t) = Len(s) + Len(t)
  OBVIOUS

(* Removing a session leaves the other pcbs' first ones.                   *)
LEMMA RemoveNewest ==
    ASSUME NEW ss \in Seq(Sessions), NEW k \in 1..Len(ss)
    PROVE  LET tt == SubSeq(ss, 1, k - 1) \o SubSeq(ss, k + 1, Len(ss))
           IN  /\ tt \in Seq(Sessions)
               /\ \A q, h : q # ss[k].tcp /\ Newest(ss, q, h) => Newest(tt, q, h)
<1> DEFINE u == SubSeq(ss, 1, k - 1)
           v == SubSeq(ss, k + 1, Len(ss))
           tt == u \o v
<1>1. Len(ss) \in Nat /\ k \in Nat /\ 1 <= k /\ k <= Len(ss)
  OBVIOUS
<1>2. /\ u \in Seq(Sessions) /\ Len(u) = k - 1
      /\ \A i \in 1..(k - 1) : u[i] = ss[i]
  BY <1>1
<1>3. v \in Seq(Sessions) /\ Len(v) = Len(ss) - k
      /\ \A i \in 1..(Len(ss) - k) : v[i] = ss[i + k]
  BY <1>1
<1> HIDE DEF u, v
<1>4. /\ tt \in Seq(Sessions) /\ Len(tt) = Len(ss) - 1
      /\ \A i \in 1..(Len(ss) - 1) : tt[i] = IF i < k THEN ss[i] ELSE ss[i + 1]
  <2>1. tt \in Seq(Sessions) /\ Len(tt) = (k - 1) + (Len(ss) - k)
    <3>1. tt \in Seq(Sessions) /\ Len(tt) = Len(u) + Len(v)
      BY <1>2, <1>3, Joined
    <3> QED
      BY ONLY <3>1, <1>2, <1>3, Zenon
  <2>2. Len(tt) = Len(ss) - 1
    BY <2>1, <1>1
  <2>3. ASSUME NEW i \in 1..(Len(ss) - 1)
        PROVE  tt[i] = IF i < k THEN ss[i] ELSE ss[i + 1]
    <3>1. CASE i < k
      <4>1. i \in 1..(k - 1)
        BY <3>1, <1>1
      <4>2. tt[i] = u[i]
        BY <4>1, <1>2, <1>3
      <4> QED
        BY <3>1, <4>1, <4>2, <1>2
    <3>2. CASE ~(i < k)
      <4>1. /\ i - (k - 1) \in 1..(Len(ss) - k) /\ (i - (k - 1)) + k = i + 1
            /\ ~(i <= k - 1) /\ i \in 1..((k - 1) + (Len(ss) - k))
        BY <3>2, <1>1
      <4>2. tt[i] = v[i - (k - 1)]
        BY <4>1, <1>2, <1>3
      <4>3. v[i - (k - 1)] = ss[(i - (k - 1)) + k]
        BY <4>1, <1>3
      <4> QED
        BY <3>2, <4>1, <4>2, <4>3
    <3> QED
      BY <3>1, <3>2
  <2> QED
    BY <2>1, <2>2, <2>3
<1> HIDE DEF tt
<1>5. ASSUME NEW q, NEW h, q # ss[k].tcp, Newest(ss, q, h) PROVE Newest(tt, q, h)
  <2>1. PICK i \in 1..Len(ss) : /\ ss[i].tcp = q /\ ss[i].gen = h
                                /\ \A j \in 1..Len(ss) : ss[j].tcp = q => i <= j
    BY <1>5 DEF Newest
  <2>2. i # k /\ i \in Nat
    BY <2>1, <1>5
  <2> DEFINE m == IF i < k THEN i ELSE i - 1
  <2>3. m \in 1..(Len(ss) - 1) /\ tt[m] = ss[i]
    <3>1. CASE i < k
      BY <3>1, <2>2, <1>1, <1>4
    <3>2. CASE ~(i < k)
      <4>1. m = i - 1 /\ m \in 1..(Len(ss) - 1) /\ ~(m < k) /\ m + 1 = i
        BY <3>2, <2>2, <1>1
      <4> HIDE DEF m
      <4> QED
        BY <4>1, <1>4
    <3> QED
      BY <3>1, <3>2
  <2>4. ASSUME NEW j \in 1..(Len(ss) - 1), tt[j].tcp = q PROVE m <= j
    <3>1. CASE j < k
      <4>1. j \in 1..Len(ss) /\ tt[j] = ss[j]
        BY <3>1, <1>1, <1>4
      <4>2. i <= j
        BY <4>1, <2>1, <2>4
      <4> QED
        BY <4>2, <3>1, <2>2, <1>1
    <3>2. CASE ~(j < k)
      <4>1. j + 1 \in 1..Len(ss) /\ tt[j] = ss[j + 1]
        BY <3>2, <1>1, <1>4
      <4>2. i <= j + 1
        BY <4>1, <2>1, <2>4
      <4> QED
        BY <4>2, <3>2, <2>2, <1>1
    <3> QED
      BY <3>1, <3>2
  <2> HIDE DEF m
  <2>5. m \in 1..Len(tt) /\ \A j \in 1..Len(tt) : tt[j].tcp = q => m <= j
    BY <2>3, <2>4, <1>4
  <2> QED
    BY <2>1, <2>3, <2>5 DEF Newest
<1> QED
  BY <1>4, <1>5 DEF tt, u, v

-----------------------------------------------------------------------------
(* The inductive invariant.                                                *)

TlsType ==
    /\ con \in [Conns -> {"none", "plain", "tls"} \cup Gone]
    /\ gen \in [Conns -> Nat]
    /\ sessions \in Seq(Sessions)
    /\ certs \in [chain : Nat, live : Nat, cut : Nat]

TlsInv == ServerInv /\ TlsType /\ CertsOwned /\ SessionFound

(* SessionFound, in terms of the newest entry of the list for a pcb.       *)
LEMMA FoundNewest ==
    /\ sessions \in Seq(Sessions) =>
         (SessionFound <=> \A p \in Conns : con[p] = "tls" => Newest(sessions, p, gen[p]))
    /\ sessions' \in Seq(Sessions) =>
         (SessionFound' <=> \A p \in Conns : con'[p] = "tls" => Newest(sessions', p, gen'[p]))
<1>1. ASSUME sessions \in Seq(Sessions), NEW p \in Conns
      PROVE  Newest(sessions, p, gen[p]) <=> tcp_ssl_has(p) /\ sessions[Find(p)].gen = gen[p]
  BY <1>1, FindNewest, ZenonT(40) DEF tcp_ssl_has, Find, Places
<1>2. ASSUME sessions' \in Seq(Sessions), NEW p \in Conns
      PROVE  Newest(sessions', p, gen'[p]) <=>
               tcp_ssl_has(p)' /\ sessions'[Find(p)'].gen = gen'[p]
  BY <1>2, FindNewest, ZenonT(40) DEF tcp_ssl_has, Find, Places
<1> QED
  BY <1>1, <1>2 DEF SessionFound

(* The certificates, when a step does not begin a secure server.           *)
LEMMA CertsKept ==
    ASSUME TlsInv, srv' \in Servers, AfterFinish, srv'.ctx => srv.ctx
    PROVE  CertsOwned' /\ certs' \in [chain : Nat, live : Nat, cut : Nat]
<1>1. /\ certs \in [chain : Nat, live : Nat, cut : Nat]
      /\ certs.live = certs.chain + certs.cut /\ (certs.chain > 0 <=> srv.ctx)
      /\ certs.chain \in Nat /\ certs.live \in Nat /\ certs.cut \in Nat
  BY DEF TlsInv, TlsType, CertsOwned
<1>2. CASE srv.ctx /\ ~srv'.ctx
  <2>1. certs' = [certs EXCEPT !.live = @ - certs.chain, !.chain = 0]
    BY <1>2 DEF AfterFinish, Freed
  <2>2. certs.live - certs.chain = certs.cut
    BY <1>1
  <2>3. /\ certs' \in [chain : Nat, live : Nat, cut : Nat]
        /\ certs'.chain = 0 /\ certs'.live = certs.cut /\ certs'.cut = certs.cut
    BY <2>1, <2>2, <1>1
  <2> QED
    BY <2>3, <1>1, <1>2 DEF CertsOwned
<1>3. CASE ~(srv.ctx /\ ~srv'.ctx)
  <2>1. certs' = certs /\ (srv.ctx <=> srv'.ctx)
    BY <1>3 DEF AfterFinish
  <2> QED
    BY <2>1, <1>1 DEF CertsOwned
<1> QED
  BY <1>2, <1>3

(* Steps that leave the server and the certificates alone.                 *)
LEMMA CertsSame ==
    ASSUME TlsInv, srv' = srv, certs' = certs
    PROVE  CertsOwned' /\ certs' \in [chain : Nat, live : Nat, cut : Nat]
  BY DEF TlsInv, TlsType, CertsOwned

(* Steps that leave the server and its listeners alone.                    *)
LEMMA ServerSame ==
    ASSUME TlsInv, UNCHANGED <<srv, lst>>
    PROVE  ServerInv'
  BY DEF TlsInv, ServerInv, ServerType, ListenerOwned

(* The sessions, when none of them changes.                                *)
LEMMA SessionsSame ==
    ASSUME TlsInv, con' = con, sessions' = sessions, gen' = gen
    PROVE  /\ SessionFound'
           /\ con' \in [Conns -> {"none", "plain", "tls"} \cup Gone]
           /\ gen' \in [Conns -> Nat] /\ sessions' \in Seq(Sessions)
<1>1. /\ con' \in [Conns -> {"none", "plain", "tls"} \cup Gone]
      /\ gen' \in [Conns -> Nat] /\ sessions' \in Seq(Sessions) /\ SessionFound
      /\ sessions \in Seq(Sessions)
  BY DEF TlsInv, TlsType
<1> QED
  BY <1>1, FoundNewest

-----------------------------------------------------------------------------
(* onClient(), begin(), end() and the destructor.                          *)
LEMMA ServerStep ==
    ASSUME TlsInv, (OnClient \/ Begin \/ End \/ Delete) /\ AfterFinish
                     /\ UNCHANGED <<sessions, gen, uses>>
    PROVE  TlsInv'
<1>1. srv \in Servers /\ ServerInv
  BY DEF TlsInv, ServerInv, ServerType
<1>2. con' = con /\ sessions' = sessions /\ gen' = gen
  BY DEF OnClient, Begin, End, Delete
<1>3. ServerInv' /\ (srv'.ctx => srv.ctx)
  <2>1. CASE OnClient
    BY <1>1, <2>1 DEF OnClient, ServerInv, ServerType, ListenerOwned, Servers
  <2>2. CASE Begin
    <3>1. ServerInv'
      BY <1>1, <2>2, StartKeeps DEF Begin
    <3>2. srv'.ctx => srv.ctx
      BY <1>1, <2>2 DEF Begin, Start, Servers
    <3> QED
      BY <3>1, <3>2
  <2>3. CASE End
    <3>1. ServerInv'
      BY <1>1, <2>3, FinishKeeps DEF End
    <3>2. ~srv'.ctx
      BY <1>1, <2>3 DEF End, Finish, Servers
    <3> QED
      BY <3>1, <3>2
  <2>4. CASE Delete
    <3> DEFINE s == [srv EXCEPT !.alive = FALSE]
    <3>1. s \in Servers /\ s.pcb = srv.pcb
      BY <1>1 DEF Servers
    <3>2. Finish(s)
      BY <2>4 DEF Delete
    <3> HIDE DEF s
    <3>3. ServerInv'
      BY <1>1, <3>1, <3>2, FinishKeeps
    <3>4. ~srv'.ctx
      BY <3>1, <3>2 DEF Finish, Servers
    <3> QED
      BY <3>3, <3>4
  <2> QED
    BY <2>1, <2>2, <2>3, <2>4
<1>4. srv' \in Servers
  BY <1>3 DEF ServerInv, ServerType
<1> QED
  BY <1>2, <1>3, <1>4, CertsKept, SessionsSame DEF TlsInv, TlsType

(* beginSecure(): what the parser left is the context's, or freed.         *)
LEMMA SecureStep ==
    ASSUME TlsInv, NEW pem \in Pems, NEW ok \in BOOLEAN, TlsBeginSecure(pem, ok)
    PROVE  TlsInv'
<1> DEFINE r == parse_certificates(pem)
           d == IF r.buf THEN certs.cut + 1 ELSE certs.cut
<1>1. Tidy(r)
  BY TextTidy
<1> HIDE DEF r
<1>2. r.chain \in Nat /\ r.live \in Nat /\ r.live = r.chain + (IF r.buf THEN 1 ELSE 0)
  BY <1>1 DEF Tidy, ParseStates
<1>3. /\ certs \in [chain : Nat, live : Nat, cut : Nat]
      /\ certs.live = certs.chain + certs.cut /\ (certs.chain > 0 <=> srv.ctx)
      /\ certs.chain \in Nat /\ certs.live \in Nat /\ certs.cut \in Nat
      /\ srv \in Servers /\ ServerInv
  BY DEF TlsInv, TlsType, CertsOwned, ServerInv, ServerType
<1>4. srv.alive /\ ~srv.ctx
  BY DEF TlsBeginSecure
<1>5. certs.chain = 0 /\ certs.live = certs.cut
  BY <1>3, <1>4
<1>6. d \in Nat /\ certs.live + r.live = r.chain + d
  BY <1>2, <1>3, <1>5
<1>7. Parsed(r) = [certs EXCEPT !.live = certs.live + r.live, !.cut = d, !.chain = r.chain]
  BY <1>3 DEF Parsed
<1> HIDE DEF d
<1>8. /\ Parsed(r) \in [chain : Nat, live : Nat, cut : Nat]
      /\ Parsed(r).chain = r.chain /\ Parsed(r).live = r.chain + d /\ Parsed(r).cut = d
  <2> DEFINE n == certs.live + r.live
  <2>1. n \in Nat /\ n = r.chain + d
    BY <1>2, <1>3, <1>6
  <2>2. Parsed(r) = [certs EXCEPT !.live = n, !.cut = d, !.chain = r.chain]
    BY <1>7
  <2> HIDE DEF n
  <2>3. /\ Parsed(r) \in [chain : Nat, live : Nat, cut : Nat]
        /\ Parsed(r).chain = r.chain /\ Parsed(r).live = n /\ Parsed(r).cut = d
    BY <2>1, <2>2, <1>2, <1>3, <1>6
  <2> QED
    BY <2>1, <2>3
<1>9. con' = con /\ sessions' = sessions /\ gen' = gen
  BY DEF TlsBeginSecure, BeginSecure, vars
<1>10. CASE r.chain = 0 \/ ~ok
  <2>1. certs' = Freed(Parsed(r)) /\ UNCHANGED <<srv, lst>>
    BY <1>10 DEF TlsBeginSecure, vars, r
  <2>2. certs' = [Parsed(r) EXCEPT !.live = d, !.chain = 0]
    <3>1. Parsed(r).live - Parsed(r).chain = d
      BY <1>2, <1>6, <1>8
    <3> QED
      BY <2>1, <3>1 DEF Freed
  <2>3. /\ certs' \in [chain : Nat, live : Nat, cut : Nat]
        /\ certs'.chain = 0 /\ certs'.live = d /\ certs'.cut = d
    BY <2>2, <1>6, <1>8
  <2>4. CertsOwned'
    BY <2>1, <2>3, <1>4, <1>6 DEF CertsOwned
  <2> QED
    BY <2>1, <2>3, <2>4, <1>9, ServerSame, SessionsSame DEF TlsInv, TlsType
<1>11. CASE ~(r.chain = 0 \/ ~ok)
  <2> DEFINE s == [srv EXCEPT !.ctx = TRUE]
  <2>1. certs' = Parsed(r) /\ BeginSecure
    BY <1>11 DEF TlsBeginSecure, r
  <2>2. Start(s)
    BY <2>1 DEF BeginSecure
  <2>3. s \in Servers /\ s.pcb = srv.pcb /\ s.alive = srv.alive /\ s.ctx
    BY <1>3 DEF Servers
  <2> HIDE DEF s
  <2>4. ServerInv'
    BY <2>2, <2>3, <1>3, <1>4, StartKeeps
  <2>5. srv'.ctx
    BY <2>2, <2>3 DEF Start, Servers
  <2>6. r.chain > 0
    BY <1>2, <1>11
  <2>7. CertsOwned'
    BY <2>1, <2>5, <2>6, <1>8 DEF CertsOwned
  <2> QED
    BY <2>1, <2>4, <2>7, <1>8, <1>9, SessionsSame DEF TlsInv, TlsType
<1> QED
  BY <1>10, <1>11

(* A pcb that gets a session, at the front, or none, while its client is   *)
(* not yet open.                                                           *)
LEMMA AcceptSessions ==
    ASSUME TlsInv, NEW p \in Conns, con[p] = "none",
           NEW st \in {"plain", "tls"} \cup Gone, con' = [con EXCEPT ![p] = st],
           gen' = [gen EXCEPT ![p] = @ + 1],
           \/ sessions' = Registered(p)
           \/ sessions' = sessions /\ st # "tls"
    PROVE  /\ SessionFound'
           /\ con' \in [Conns -> {"none", "plain", "tls"} \cup Gone]
           /\ gen' \in [Conns -> Nat] /\ sessions' \in Seq(Sessions)
<1>1. /\ con \in [Conns -> {"none", "plain", "tls"} \cup Gone]
      /\ gen \in [Conns -> Nat] /\ sessions \in Seq(Sessions) /\ SessionFound
  BY DEF TlsInv, TlsType
<1>2. \A q \in Conns : con[q] = "tls" => Newest(sessions, q, gen[q])
  BY <1>1, FoundNewest
<1>3. /\ con' \in [Conns -> {"none", "plain", "tls"} \cup Gone]
      /\ con'[p] = st /\ \A q \in Conns \ {p} : con'[q] = con[q]
  BY <1>1
<1>4. /\ gen' \in [Conns -> Nat]
      /\ gen'[p] = gen[p] + 1 /\ \A q \in Conns \ {p} : gen'[q] = gen[q]
  BY <1>1
<1>5. /\ Registered(p) \in Seq(Sessions) /\ Newest(Registered(p), p, gen[p] + 1)
      /\ \A q \in Conns \ {p} : \A h : Newest(sessions, q, h) => Newest(Registered(p), q, h)
  <2>1. gen[p] + 1 \in Nat
    BY <1>1
  <2> QED
    BY <1>1, <2>1, RegisterNewest DEF Registered
<1>6. sessions' \in Seq(Sessions)
  BY <1>1, <1>5
<1>7. ASSUME NEW q \in Conns, con'[q] = "tls" PROVE Newest(sessions', q, gen'[q])
  <2>1. CASE q = p
    <3>1. sessions' = Registered(p)
      BY <1>3, <1>7, <2>1
    <3> QED
      BY ONLY <2>1, <3>1, <1>4, <1>5, Zenon
  <2>2. CASE q # p
    <3>1. Newest(sessions, q, gen[q]) /\ gen'[q] = gen[q]
      BY <1>2, <1>3, <1>4, <1>7, <2>2
    <3>2. Newest(sessions', q, gen[q])
      BY <2>2, <3>1, <1>5
    <3> QED
      BY <3>1, <3>2
  <2> QED
    BY <2>1, <2>2
<1> QED
  BY <1>3, <1>4, <1>6, <1>7, FoundNewest

(* _s_accept() and the onClient handler.                                   *)
LEMMA AcceptStep ==
    ASSUME TlsInv, NEW l \in Listeners, NEW p \in Conns, TlsAccept(l, p)
    PROVE  TlsInv'
<1>1. srv \in Servers /\ ServerInv
  BY DEF TlsInv, ServerInv, ServerType
<1>2. con[p] = "none" /\ gen' = [gen EXCEPT ![p] = @ + 1] /\ AfterFinish
  BY DEF TlsAccept
<1>3. \/ UNCHANGED <<srv, lst>>
      \/ Finish(srv)
  BY DEF TlsAccept, Handled, HandledClosed
<1>4. ServerInv' /\ (srv'.ctx => srv.ctx)
  <2>1. CASE UNCHANGED <<srv, lst>>
    BY <2>1, ServerSame
  <2>2. CASE Finish(srv)
    <3>1. ServerInv'
      BY <1>1, <2>2, FinishKeeps
    <3>2. ~srv'.ctx
      BY <1>1, <2>2 DEF Finish, Servers
    <3> QED
      BY <3>1, <3>2
  <2> QED
    BY <1>3, <2>1, <2>2
<1>5. srv' \in Servers
  BY <1>4 DEF ServerInv, ServerType
<1>6. \E st \in {"plain", "tls"} \cup Gone :
        /\ con' = [con EXCEPT ![p] = st]
        /\ \/ sessions' = Registered(p)
           \/ sessions' = sessions /\ st # "tls"
  <2>1. CASE Refuse(p) /\ sessions' = sessions
    BY <2>1 DEF Refuse, Answer, Gone
  <2>2. CASE ~srv.ctx /\ Handled(p) /\ sessions' = sessions
    BY <2>2 DEF Handled, HandlerEnds, Answer, Kind, Gone
  <2>3. CASE srv.ctx /\ Handled(p) /\ sessions' = Registered(p)
    BY <2>3 DEF Handled, HandlerEnds, Answer, Kind, Gone
  <2>4. CASE HandledClosed(p) /\ sessions' = sessions
    BY <2>4 DEF HandledClosed, Answer, Gone
  <2> QED
    BY <2>1, <2>2, <2>3, <2>4 DEF TlsAccept
<1>7. /\ SessionFound'
      /\ con' \in [Conns -> {"none", "plain", "tls"} \cup Gone]
      /\ gen' \in [Conns -> Nat] /\ sessions' \in Seq(Sessions)
  BY <1>2, <1>6, AcceptSessions
<1> QED
  BY <1>2, <1>4, <1>5, <1>7, CertsKept DEF TlsInv, TlsType

(* A connection ends: another's session is not lost.                       *)
LEMMA EndStep ==
    ASSUME TlsInv, NEW p \in Conns, ClientEnds(p)
    PROVE  TlsInv'
<1>1. /\ con \in [Conns -> {"none", "plain", "tls"} \cup Gone]
      /\ gen \in [Conns -> Nat] /\ sessions \in Seq(Sessions) /\ SessionFound
  BY DEF TlsInv, TlsType
<1>2. \A q \in Conns : con[q] = "tls" => Newest(sessions, q, gen[q])
  BY <1>1, FoundNewest
<1>3. PICK st \in Gone : con' = [con EXCEPT ![p] = st]
  BY DEF ClientEnds
<1>4. UNCHANGED <<srv, lst>> /\ gen' = gen /\ certs' = certs
      /\ sessions' = IF uses[p] THEN tcp_ssl_free(p) ELSE sessions
  BY DEF ClientEnds
<1>5. sessions' \in Seq(Sessions)
      /\ \A q \in Conns \ {p} : \A h : Newest(sessions, q, h) => Newest(sessions', q, h)
  <2>1. CASE sessions' = sessions
    BY <2>1, <1>1
  <2>2. CASE tcp_ssl_has(p) /\ sessions' = tcp_ssl_free(p)
    <3>1. Find(p) \in 1..Len(sessions) /\ sessions[Find(p)].tcp = p
      <4>1. Places(p) \in SUBSET Nat /\ Places(p) # {}
        BY <2>2 DEF Places, tcp_ssl_has
      <4>2. \E i \in Places(p) : \A j \in Places(p) : i <= j
        BY <4>1, LeastNumber
      <4>3. Find(p) \in Places(p)
        BY <4>2 DEF Find
      <4> QED
        BY <4>3 DEF Places
    <3>2. sessions' = SubSeq(sessions, 1, Find(p) - 1)
                        \o SubSeq(sessions, Find(p) + 1, Len(sessions))
      BY <2>2 DEF tcp_ssl_free
    <3> QED
      BY <1>1, <3>1, <3>2, RemoveNewest
  <2> QED
    BY <2>1, <2>2, <1>4 DEF tcp_ssl_free
<1>6. ASSUME NEW q \in Conns, con'[q] = "tls" PROVE Newest(sessions', q, gen'[q])
  <2>1. q # p /\ con[q] = "tls"
    BY <1>1, <1>3, <1>6 DEF Gone
  <2> QED
    BY <2>1, <1>2, <1>4, <1>5
<1>7. con' \in [Conns -> {"none", "plain", "tls"} \cup Gone]
  BY <1>1, <1>3
<1>8. SessionFound'
  BY <1>5, <1>6, FoundNewest
<1> QED
  BY <1>1, <1>4, <1>5, <1>7, <1>8, ServerSame, CertsSame DEF TlsInv, TlsType

(* The memory of a pcb is used again.                                      *)
LEMMA RecycleStep ==
    ASSUME TlsInv, NEW p \in Conns, Recycle(p)
    PROVE  TlsInv'
<1>1. /\ con \in [Conns -> {"none", "plain", "tls"} \cup Gone]
      /\ gen \in [Conns -> Nat] /\ sessions \in Seq(Sessions) /\ SessionFound
  BY DEF TlsInv, TlsType
<1>2. \A q \in Conns : con[q] = "tls" => Newest(sessions, q, gen[q])
  BY <1>1, FoundNewest
<1>3. con' = [con EXCEPT ![p] = "none"] /\ UNCHANGED <<srv, lst>>
      /\ sessions' = sessions /\ gen' = gen /\ certs' = certs
  BY DEF Recycle
<1>4. con' \in [Conns -> {"none", "plain", "tls"} \cup Gone]
      /\ \A q \in Conns : con'[q] = "tls" => con[q] = "tls"
  BY <1>1, <1>3
<1>5. SessionFound'
  BY <1>1, <1>2, <1>3, <1>4, FoundNewest
<1> QED
  BY <1>1, <1>3, <1>4, <1>5, ServerSame, CertsSame DEF TlsInv, TlsType

(* The invariant holds at the start.                                       *)
LEMMA TlsStart == TlsInit => TlsInv
<1> SUFFICES ASSUME TlsInit PROVE TlsInv
  OBVIOUS
<1>1. ServerInv
  BY DEF TlsInit, Init, ServerInv, ServerType, ListenerOwned, Servers
<1>2. TlsType
  BY DEF TlsInit, Init, TlsType, NoCerts
<1>3. CertsOwned
  BY DEF TlsInit, Init, CertsOwned, NoCerts
<1>4. SessionFound
  BY DEF TlsInit, Init, SessionFound
<1> QED
  BY <1>1, <1>2, <1>3, <1>4 DEF TlsInv

(* Every step of the server, of lwIP or of a session keeps it.             *)
LEMMA TlsStep == TlsInv /\ [TlsNext]_serverVars => TlsInv'
<1> SUFFICES ASSUME TlsInv, [TlsNext]_serverVars PROVE TlsInv'
  OBVIOUS
<1>1. ASSUME NEW p \in Conns, Copy(p) PROVE TlsInv'
  BY <1>1, ServerSame, CertsSame, SessionsSame DEF Copy, vars, TlsInv, TlsType
<1>2. CASE UNCHANGED serverVars
  BY <1>2, ServerSame, CertsSame, SessionsSame DEF serverVars, vars, TlsInv, TlsType
<1> QED
  BY <1>1, <1>2, ServerStep, SecureStep, AcceptStep, EndStep, RecycleStep DEF TlsNext

-----------------------------------------------------------------------------
(* For every PEM text and on every path through beginSecure(): a           *)
(* certificate buffer belongs to the context, or has been freed, once.     *)
THEOREM CertificatesOwned == TlsSpec => []CertsOwned
<1>1. TlsInv => CertsOwned
  BY DEF TlsInv
<1> QED
  BY <1>1, TlsStart, TlsStep, PTL DEF TlsSpec

(* find_ssl_pcb() finds the session of an open connection, though sessions *)
(* of earlier connections on the same pcb are never removed: a new session *)
(* goes to the front, and no other connection's end takes it away.         *)
THEOREM OwnSessionFound == TlsSpec => []SessionFound
<1>1. TlsInv => SessionFound
  BY DEF TlsInv
<1> QED
  BY <1>1, TlsStart, TlsStep, PTL DEF TlsSpec

(* The ownership of the listener, with the TLS paths of beginSecure() and  *)
(* of _accept() too.                                                       *)
THEOREM TlsListenersOwned == TlsSpec => []ListenerOwned
<1>1. TlsInv => ListenerOwned
  BY DEF TlsInv, ServerInv
<1> QED
  BY <1>1, TlsStart, TlsStep, PTL DEF TlsSpec

=============================================================================
