----------------------------- MODULE TcpBearSsl -----------------------------
(***************************************************************************)
(* One client session of the BearSSL glue (tcp_bearssl.cpp): tcp_ssl_read, *)
(* tcp_ssl_write and process_ssl_engine() between lwIP, the BearSSL engine *)
(* and the handlers AsyncClient installs.                                  *)
(*                                                                         *)
(* The peer's bytes are numbered from 1; a record is a header unit and     *)
(* Body more.  Every call in progress is a frame: tcp_ssl_read()'s loop    *)
(* ("feed", "refeed" after a full engine was processed), its end           *)
(* ("leave", "overflow"), process_ssl_engine() ("process") and a handler.  *)
(* A handler may write, which runs process_ssl_engine() inside itself.     *)
(* (A handler that frees the session is in AsyncClientTls.)                *)
(***************************************************************************)
EXTENDS Integers, Sequences

CONSTANTS
    Flight,        \* the kinds of the records the peer sends, in order
    Body,          \* units of a record after its header
    AccumSize,     \* ASYNC_TCP_SSL_IN_BUFFER_SIZE, of the accumulator
    MaxFeedLoops,  \* ASYNC_TCP_SSL_MAX_FEED_LOOPS
    MaxSegment,    \* the longest pbuf chain lwIP delivers
    SndBuf,        \* TCP_SND_BUF
    MaxRecord,     \* the longest record the application writes
    MaxWrites      \* bound: records the application writes

Kinds == {"hs", "ask", "done", "app", "alert"}

ASSUME GlueAssumption ==
    /\ Flight \in Seq(Kinds)
    /\ \A n \in {Body, AccumSize, MaxFeedLoops, MaxSegment, SndBuf, MaxRecord} : n \in Nat \ {0}
    /\ MaxWrites \in Nat

(* The session sets BR_OPT_NO_RENEGOTIATION: the record that ends the      *)
(* handshake is the last handshake record.                                 *)
ASSUME NoRenegotiation ==
    \A q, r \in 1..Len(Flight) :
        Flight[q] = "done" /\ q < r => Flight[r] \in {"app", "alert"}

VARIABLES
    eng,      \* the BearSSL engine
    accum,    \* recvrec_accum from recvrec_accum_pos on
    sess,     \* the rest of the tcp_ssl_pcb
    stack,    \* frames in progress, the innermost first
    net,      \* units arrived, the record up to which the peer sends, free send buffer
    got,      \* the records handed to on_data
    hist      \* ghosts: a read left bytes behind; records written

vars == <<eng, accum, sess, stack, net, got, hist>>

-----------------------------------------------------------------------------
(* The engine.  It has taken pos units; a handshake record may call for an *)
(* answer ("ask"); pld is a data record to be read, out the length of a    *)
(* record to be sent.  It is "spoiled" when it was given other units than  *)
(* the peer sent, which it notices by the record header or the MAC.        *)

RecLen == 1 + Body

Engines ==
    [st : {"open", "closed", "spoiled"}, pos : Nat, ready : BOOLEAN,
     pld : 0..Len(Flight), out : 0..MaxRecord]

Closed == eng.st # "open"
RecvApp == ~Closed /\ eng.pld # 0
SendApp == ~Closed /\ eng.ready /\ eng.out = 0

(* br_ssl_engine_recvrec_buf(): the rest of the header or of the body;     *)
(* nothing while data waits or an answer is to be sent.                    *)
Available ==
    IF Closed \/ eng.pld # 0 \/ (~eng.ready /\ eng.out # 0) THEN 0
    ELSE IF eng.pos % RecLen = 0 THEN 1 ELSE RecLen - (eng.pos % RecLen)

(* What a complete record makes of the engine; any message of the          *)
(* handshake may turn out unacceptable, and data before its end is.        *)
Complete(e, kind) ==
    CASE kind = "app" /\ e.ready -> {[e EXCEPT !.pld = e.pos \div RecLen]}
      [] kind = "app" /\ ~e.ready -> {[e EXCEPT !.st = "closed"]}
      [] kind = "alert" -> {[e EXCEPT !.st = "closed"]}
      [] kind = "hs" -> {e, [e EXCEPT !.st = "closed"]}
      [] kind = "ask" -> {[e EXCEPT !.out = 1], [e EXCEPT !.st = "closed"]}
      [] kind = "done" -> {[e EXCEPT !.ready = TRUE], [e EXCEPT !.st = "closed"]}

(* The peer waits for an answer after the next "ask" behind record r.      *)
NextStop(r) ==
    LET stops == {q \in (r + 1)..Len(Flight) : Flight[q] = "ask"} \cup {Len(Flight)}
    IN CHOOSE q \in stops : \A t \in stops : q <= t

(* br_ssl_engine_recvrec_ack()                                             *)
Fed(units) ==
    LET e == [eng EXCEPT !.pos = @ + Len(units)] IN
    IF Len(units) > Available \/ \E i \in 1..Len(units) : units[i] # eng.pos + i
      THEN {[eng EXCEPT !.st = "spoiled"]}
      ELSE IF e.pos % RecLen # 0 THEN {e}
      ELSE Complete(e, Flight[e.pos \div RecLen])

-----------------------------------------------------------------------------
Frames ==
    [f : {"feed", "refeed", "leave", "overflow", "process", "on_data", "on_handshake",
          "on_error"}, n : Nat]

Frame(f, n) == [f |-> f, n |-> n]
Push(f, n, k) == <<Frame(f, n)>> \o k
Top(f) == stack # <<>> /\ Head(stack).f = f
UserCode == {"on_data", "on_handshake", "on_error"}

Least(a, b) == IF a < b THEN a ELSE b

(* tcp_ssl_new_client(): the first record has gone out.                    *)
Init ==
    /\ eng = [st |-> "open", pos |-> 0, ready |-> FALSE, pld |-> 0, out |-> 0]
    /\ accum = <<>>
    /\ sess = [open |-> TRUE, handshake_done |-> FALSE]
    /\ stack = <<>>
    /\ net = [arrived |-> 0, free |-> SndBuf - 1, reach |-> NextStop(0)]
    /\ got = <<>>
    /\ hist = [kept |-> FALSE, writes |-> 0]

-----------------------------------------------------------------------------
(* tcp_ssl_read()                                                          *)

(* Mutant: a full accumulator is not noticed.                              *)
Unchecked(n) == TRUE

FitsAccum(n) == n <= AccumSize - Len(accum)

(* The chain goes into the accumulator, in front of what is there: the     *)
(* accumulator grows backwards.  A chain that does not fit fails the read, *)
(* after what fits is copied and one more process_ssl_engine().            *)
Read(n) ==
    /\ stack = <<>> /\ sess.open
    /\ net.arrived + n <= net.reach * RecLen
    /\ net' = [net EXCEPT !.arrived = @ + n]
    /\ IF FitsAccum(n)
         THEN /\ accum' = [i \in 1..n |-> net.arrived + i] \o accum
              /\ stack' = Push("feed", 0, <<>>)
         ELSE /\ accum' = [i \in 1..(AccumSize - Len(accum)) |-> net.arrived + i] \o accum
              /\ stack' = Push("process", 0, Push("overflow", 0, <<>>))
    /\ UNCHANGED <<eng, sess, got, hist>>

ToFeed == Least(Len(accum), Available)

FeedUnits(n) ==
    /\ eng' \in Fed(SubSeq(accum, 1, ToFeed))
    /\ accum' = SubSeq(accum, ToFeed + 1, Len(accum))
    /\ stack' = Push("feed", n, Tail(stack))
    /\ UNCHANGED <<sess, net, got, hist>>

(* Mutants: what is left is thrown away; the last process is forgotten.    *)
DropsRest ==
    /\ accum' = <<>>
    /\ hist' = [hist EXCEPT !.kept = @ \/ accum # <<>>]
    /\ stack' = Push("process", 0, Push("leave", 0, Tail(stack)))
    /\ UNCHANGED <<eng, sess, net, got>>
NoLastRun ==
    /\ hist' = [hist EXCEPT !.kept = @ \/ accum # <<>>]
    /\ stack' = Push("leave", 0, Tail(stack))
    /\ UNCHANGED <<eng, accum, sess, net, got>>

(* The loop is over; what was not fed is kept for the next read.           *)
FeedOver ==
    /\ hist' = [hist EXCEPT !.kept = @ \/ accum # <<>>]
    /\ stack' = Push("process", 0, Push("leave", 0, Tail(stack)))
    /\ UNCHANGED <<eng, accum, sess, net, got>>

(* A full engine is processed before more is fed.                          *)
Feed ==
    /\ Top("feed")
    /\ LET n == Head(stack).n IN
       IF accum = <<>> \/ n = MaxFeedLoops THEN FeedOver
       ELSE IF Available > 0 THEN FeedUnits(n + 1)
       ELSE /\ stack' = Push("process", 0, Push("refeed", n + 1, Tail(stack)))
            /\ UNCHANGED <<eng, accum, sess, net, got, hist>>

Refeed ==
    /\ Top("refeed")
    /\ IF Available > 0 THEN FeedUnits(Head(stack).n) ELSE FeedOver

(* A failed read makes the client close and free the session.              *)
Leave ==
    /\ Top("leave") \/ Top("overflow")
    /\ sess' = [sess EXCEPT !.open = Top("leave") /\ ~Closed]
    /\ stack' = Tail(stack)
    /\ UNCHANGED <<eng, accum, net, got, hist>>

-----------------------------------------------------------------------------
(* process_ssl_engine(): a closed engine is reported, data is handed on, a *)
(* record is sent if the send buffer takes it; else the loop ends.  That   *)
(* data and records are shorter than the buffers BearSSL keeps them in is  *)
(* tested, too; they are, with a header and a MAC beside them.             *)

Sendable == eng.out # 0 /\ eng.out <= net.free

ProcessClosed ==
    /\ Top("process") /\ Closed
    /\ stack' = Push("on_error", 0, Tail(stack))
    /\ UNCHANGED <<eng, accum, sess, net, got, hist>>

(* Mutant: the data is not acknowledged before on_data.                    *)
HandsUnacked ==
    /\ Top("process") /\ RecvApp
    /\ got' = Append(got, eng.pld)
    /\ stack' = Push("on_data", 0, stack)
    /\ UNCHANGED <<eng, accum, sess, net, hist>>

(* Mutant: data that comes along with the end of the handshake is skipped. *)
HandsWhenUp ==
    /\ Top("process") /\ RecvApp
    /\ eng' = [eng EXCEPT !.pld = 0]
    /\ got' = IF sess.handshake_done THEN Append(got, eng.pld) ELSE got
    /\ stack' = IF sess.handshake_done THEN Push("on_data", 0, stack) ELSE stack
    /\ UNCHANGED <<accum, sess, net, hist>>

ProcessData ==
    /\ Top("process") /\ RecvApp
    /\ eng' = [eng EXCEPT !.pld = 0]
    /\ got' = Append(got, eng.pld)
    /\ stack' = Push("on_data", 0, stack)
    /\ UNCHANGED <<accum, sess, net, hist>>

(* Mutant: the record stays in the engine until tcp_write() takes it.      *)
SendAgain ==
    /\ Top("process") /\ ~Closed /\ ~RecvApp /\ Sendable
    /\ \/ net' = [net EXCEPT !.free = @ - eng.out] /\ eng' = [eng EXCEPT !.out = 0]
       \/ UNCHANGED <<net, eng>>
    /\ stack' = Push("process", 1 - Head(stack).n, Tail(stack))
    /\ UNCHANGED <<accum, sess, got, hist>>

(* The result of tcp_write() is ignored: the record may be lost, and the   *)
(* peer never gets its answer.                                             *)
ProcessSend ==
    /\ Top("process") /\ ~Closed /\ ~RecvApp /\ Sendable
    /\ net' \in {net, [net EXCEPT !.free = @ - eng.out,
                                  !.reach = IF eng.ready THEN @ ELSE NextStop(@)]}
    /\ eng' = [eng EXCEPT !.out = 0]
    /\ UNCHANGED <<accum, sess, stack, got, hist>>

(* The test of a client session.                                           *)
NowUp == ~sess.handshake_done /\ SendApp

ProcessEnd ==
    /\ Top("process") /\ ~Closed /\ ~RecvApp /\ ~Sendable
    /\ sess' = [sess EXCEPT !.handshake_done = @ \/ NowUp]
    /\ stack' = IF NowUp THEN Push("on_handshake", 0, Tail(stack)) ELSE Tail(stack)
    /\ UNCHANGED <<eng, accum, net, got, hist>>

(* The client's handlers return.                                           *)
HandlerReturn ==
    /\ \E f \in UserCode : Top(f)
    /\ stack' = Tail(stack)
    /\ UNCHANGED <<eng, accum, sess, net, got, hist>>

-----------------------------------------------------------------------------
(* tcp_ssl_write(), from loop() or a handler.  The client asks space()     *)
(* first, which wants the handshake done and some send buffer.  While the  *)
(* last record waits nothing is taken, and nothing is sent either.         *)
Write(n) ==
    /\ stack = <<>> \/ Top("on_data") \/ Top("on_handshake")
    /\ sess.open /\ sess.handshake_done /\ net.free > 0 /\ hist.writes < MaxWrites
    /\ SendApp
    /\ eng' = [eng EXCEPT !.out = n]
    /\ hist' = [hist EXCEPT !.writes = @ + 1]
    /\ stack' = Push("process", 0, stack)
    /\ UNCHANGED <<accum, sess, net, got>>

(* The peer acknowledges n units; _sent() does not go on sending.          *)
Acked(n) ==
    /\ stack = <<>> /\ sess.open /\ net.free + n <= SndBuf
    /\ net' = [net EXCEPT !.free = @ + n]
    /\ UNCHANGED <<eng, accum, sess, stack, got, hist>>

(* The connection ends.                                                    *)
tcp_ssl_free ==
    /\ stack = <<>> /\ sess.open
    /\ sess' = [sess EXCEPT !.open = FALSE]
    /\ UNCHANGED <<eng, accum, stack, net, got, hist>>

-----------------------------------------------------------------------------
Process == ProcessClosed \/ ProcessData \/ ProcessSend \/ ProcessEnd
Code == Feed \/ Refeed \/ Leave \/ Process \/ HandlerReturn

Next ==
    \/ Code
    \/ \E n \in 1..MaxSegment : Read(n)
    \/ \E n \in 1..MaxRecord : Write(n)
    \/ \E n \in 1..SndBuf : Acked(n)
    \/ tcp_ssl_free

Spec == Init /\ [][Next]_vars

(* Code in progress goes on.                                               *)
FairSpec == Spec /\ WF_vars(Code)

-----------------------------------------------------------------------------
(* Types; the accumulator and the send buffer are never overrun, and calls *)
(* nest at most as deep as a write in a handler: no handler is called      *)
(* inside another.                                                         *)
TypeOK ==
    /\ eng \in Engines
    /\ accum \in Seq(1..net.arrived) /\ Len(accum) <= AccumSize
    /\ sess \in [open : BOOLEAN, handshake_done : BOOLEAN]
    /\ stack \in Seq(Frames) /\ Len(stack) <= 4
    /\ net \in [arrived : 0..(Len(Flight) * RecLen), free : 0..SndBuf,
               reach : 0..Len(Flight)]
    /\ got \in Seq(1..Len(Flight))
    /\ hist \in [kept : BOOLEAN, writes : 0..MaxWrites]

(* tcp_ssl_read() neither loses nor doubles a unit: what arrived has been  *)
(* fed or is in the accumulator.  The order is kept, too, unless a read    *)
(* left bytes in the accumulator: only then is the engine ever spoiled.    *)
Overflowing == \E i \in 1..Len(stack) : stack[i].f = "overflow"

StreamExact ==
    /\ eng.st = "spoiled" => hist.kept
    /\ sess.open /\ ~Overflowing /\ eng.st # "spoiled" =>
        /\ eng.pos + Len(accum) = net.arrived
        /\ \A i, j \in 1..Len(accum) : accum[i] = accum[j] => i = j
        /\ ~hist.kept => \A i \in 1..Len(accum) : accum[i] = eng.pos + i

(* The engine never gets bytes in another order than the peer sent them.   *)
FedInOrder == eng.st # "spoiled"

(* When tcp_ssl_read() has returned, all data of the records fed so far    *)
(* has been handed to on_data, in order and once, and the handshake, if it *)
(* is over, has been reported.                                             *)
DataUpTo(k) == {r \in 1..k : Flight[r] = "app"}

AllReported ==
    stack = <<>> /\ sess.open =>
        /\ {got[i] : i \in 1..Len(got)} = DataUpTo(eng.pos \div RecLen)
        /\ \A i, j \in 1..Len(got) : i < j => got[i] < got[j]
        /\ sess.handshake_done <=> eng.ready

(* When control goes back to lwIP or loop(), no record is left unsent that *)
(* the send buffer would have taken.                                       *)
Pumped == [][ stack # <<>> /\ stack' = <<>> /\ sess'.open => ~Sendable' ]_vars

(* The session implements SecureStream, also when bytes come out of order: *)
(* it fails then, but hands on nothing wrong.                              *)
Secure == INSTANCE SecureStream WITH
    Data <- DataUpTo(Len(Flight)), arrived <- net.arrived,
    up <- sess.handshake_done, failed <- Closed \/ ~sess.open

ImplementsStream == Secure!StreamSpec

(* tcp_ssl_read() and tcp_ssl_write() return, whatever the engine does.    *)
ReadReturns == []<>(stack = <<>>)

=============================================================================
