--------------------------- MODULE AsyncTCPBufferRx ---------------------------
(***************************************************************************)
(* The receiving half of AsyncTCPBuffer (ESPAsyncTCPBuffer.{h,cpp}).  The  *)
(* application reads in one of three ways: onData(), which may take less   *)
(* than it is offered, readBytes() and readStringUntil(), which end in a   *)
(* call of its done handler.  What no reader takes waits in _RXbuffer.     *)
(* A handler may start the next read, or stop(), while _rxData() is in the *)
(* middle of its loops; these are modelled one _handleRxBuffer() at a      *)
(* time, a handler's answer and its calls being part of that step.         *)
(*                                                                         *)
(* A byte is its position in the stream the peer sent.                     *)
(***************************************************************************)
EXTENDS Integers, Sequences, SequencesExt

CONSTANTS
    Terminators,  \* the positions of the terminator in the stream
    MaxRead,      \* bound: length of a readBytes()
    MaxPbuf,      \* bound: bytes in one pbuf
    MaxBytes      \* bound: bytes the peer sends

ASSUME RxAssumption ==
    /\ Terminators \subseteq Nat
    /\ MaxRead \in Nat /\ MaxPbuf \in Nat /\ MaxBytes \in Nat

VARIABLES
    client,   \* _client # NULL
    up,       \* _client->connected()
    alloc,    \* _RXbuffer # NULL: there was memory for it when it was made
    read,     \* _RXmode, what is left of a readBytes(), and what it began with
    hasRx,    \* _cbRX is set
    rxbuf,    \* the bytes in *_RXbuffer
    buf,      \* the part of the pbuf _rxData() still has
    handled,  \* what the last _handleRxBuffer() returned
    pc,       \* where _rxData() is
    arrived,  \* bytes delivered to _rxData()
    taken,    \* bytes the application got, in order
    result    \* the last read that called done(true): its kind and bytes

vars == <<client, up, alloc, read, hasRx, rxbuf, buf, handled, pc, arrived, taken, result>>

-----------------------------------------------------------------------------
(* Reads: from is the length of taken when it began, size is _rxSize.  A   *)
(* read is "void" when the application gave it no destination or handler.  *)
Modes == {"none", "free", "bytes", "string", "void"}
Reads == [mode : Modes, size : Nat, want : Nat, from : Nat]

Read(mode, n, from) == [mode |-> mode, size |-> n, want |-> n, from |-> from]

(* What the application may ask for next.                                  *)
Asks(from) ==
    {Read(m, 0, from) : m \in {"none", "free", "string", "void"}}
        \cup {Read("bytes", n, from) : n \in 0..MaxRead}

First(s, n) == SubSeq(s, 1, n)
Rest(s, n) == SubSeq(s, n + 1, Len(s))
Least(m, n) == IF m < n THEN m ELSE n

Init ==
    /\ client = TRUE /\ up = TRUE /\ alloc \in BOOLEAN
    /\ read = Read("free", 0, 0) /\ hasRx = FALSE
    /\ rxbuf = <<>> /\ buf = <<>> /\ handled = 0 /\ pc = "loop"
    /\ arrived = 0 /\ taken = <<>>
    /\ result = [read |-> Read("none", 0, 0), bytes |-> <<>>]

(* In a handler the application leaves the read as it is (r), asks for     *)
(* another, or calls stop(), after which there is no client.               *)
HandlerCalls(r, from) ==
    \/ read' = r /\ UNCHANGED <<client, hasRx>>
    \/ /\ \E ask \in Asks(from) :
            /\ read' = ask
            /\ hasRx' = (hasRx \/ ask.mode = "free")
       /\ UNCHANGED client
    \/ client' = FALSE /\ read' = Read("none", 0, from) /\ UNCHANGED hasRx

(* done(true): the mode is NONE before the handler runs.                   *)
Done(all) ==
    /\ result' = [read |-> read, bytes |-> Rest(all, read.from)]
    /\ HandlerCalls(Read("none", 0, Len(all)), Len(all))

-----------------------------------------------------------------------------
(* _handleRxBuffer(), given the bytes b of the pbuf (none when it is       *)
(* called with NULL).  What is buffered goes first.                        *)

(* Mutant: everything offered is removed, taken or not.                    *)
RemoveOffered(r) == <<>>

(* onData took r of the buffered bytes it was offered.                     *)
RemoveTaken(r) == Rest(rxbuf, r)

HandleFree(b) ==
    \E r \in 0..Len(rxbuf), s \in 0..Len(b) :
        LET old == taken \o First(rxbuf, r)
        IN  /\ s > 0 => r = Len(rxbuf)
            /\ rxbuf' = RemoveTaken(r)
            /\ taken' = old \o First(b, s)
            /\ handled' = s
            /\ HandlerCalls(read, Len(taken'))
            /\ UNCHANGED result

(* Mutant: the bytes from the buffer are not taken off _rxSize.            *)
BytesPastSize(b, n) == IF n = Len(rxbuf) THEN Least(read.size, Len(b)) ELSE 0

(* n bytes came from the buffer; the pbuf is read once that is empty.      *)
BytesFromNew(b, n) == IF n = Len(rxbuf) THEN Least(read.size - n, Len(b)) ELSE 0

HandleBytes(b) ==
    LET n == Least(read.size, Len(rxbuf))
        m == BytesFromNew(b, n)
        all == taken \o First(rxbuf, n) \o First(b, m)
    IN  /\ rxbuf' = Rest(rxbuf, n)
        /\ taken' = all
        /\ handled' = m
        /\ IF read.size = n + m
             THEN Done(all)
             ELSE /\ read' = [read EXCEPT !.size = @ - (n + m)]
                  /\ UNCHANGED <<client, hasRx, result>>

(* Mutant: the longest such prefix.                                        *)
LastLine(s) ==
    LET ends == {i \in 1..Len(s) : s[i] \in Terminators}
    IN IF ends = {} THEN 0 ELSE CHOOSE i \in ends : \A j \in ends : i >= j

(* The length of the shortest prefix of s that ends in a terminator, or 0. *)
LineLength(s) ==
    LET ends == {i \in 1..Len(s) : s[i] \in Terminators}
    IN IF ends = {} THEN 0 ELSE CHOOSE i \in ends : \A j \in ends : i <= j

HandleString(b) ==
    LET n == LineLength(rxbuf)
        m == LineLength(b)
        all == IF n > 0 THEN taken \o First(rxbuf, n)
               ELSE taken \o rxbuf \o (IF m > 0 THEN First(b, m) ELSE b)
    IN  /\ rxbuf' = IF n > 0 THEN Rest(rxbuf, n) ELSE <<>>
        /\ taken' = all
        /\ handled' = IF n > 0 THEN 0 ELSE IF m > 0 THEN m ELSE Len(b)
        /\ IF n > 0 \/ m > 0
             THEN Done(all)
             ELSE UNCHANGED <<client, read, hasRx, result>>

HandleNothing == handled' = 0 /\ UNCHANGED <<client, read, hasRx, rxbuf, taken, result>>

HandleRxBuffer(b) ==
    CASE ~client \/ read.mode \in {"none", "void"} -> HandleNothing
      [] client /\ read.mode = "free" -> IF hasRx THEN HandleFree(b) ELSE HandleNothing
      [] client /\ read.mode = "bytes" -> HandleBytes(b)
      [] client /\ read.mode = "string" -> HandleString(b)

-----------------------------------------------------------------------------
(* _rxData(): hands the pbuf over, stores what is left of it, and then     *)
(* hands over what is stored.                                              *)

(* lwIP delivers a pbuf; with fin the client is in CLOSE_WAIT by then and  *)
(* connected() no longer holds.                                            *)
RxData(n, fin) ==
    /\ pc = "loop" /\ up /\ arrived + n <= MaxBytes
    /\ arrived' = arrived + n
    /\ up' = ~fin
    /\ IF client /\ ~fin /\ alloc
         THEN /\ buf' = [i \in 1..n |-> arrived + i]
              /\ pc' = IF read.mode = "none" THEN "store" ELSE "first"
         ELSE UNCHANGED <<buf, pc>>
    /\ UNCHANGED <<client, alloc, read, hasRx, rxbuf, handled, taken, result>>

HandFirst ==
    /\ pc = "first"
    /\ HandleRxBuffer(buf)
    /\ buf' = Rest(buf, handled')
    /\ pc' = IF rxbuf' = <<>> THEN "direct" ELSE "store"
    /\ UNCHANGED <<up, alloc, arrived>>

(* Mutant: goes on while there is data, taken or not.                      *)
WhileData == read.mode # "none" /\ buf # <<>>

(* while(_RXmode != ATB_RX_MODE_NONE && handled != 0 && len > 0)           *)
WhileTaken == read.mode # "none" /\ handled # 0 /\ buf # <<>>

HandOn ==
    /\ pc = "direct"
    /\ IF WhileTaken
         THEN /\ HandleRxBuffer(buf)
              /\ buf' = Rest(buf, handled')
              /\ UNCHANGED pc
         ELSE /\ pc' = "store"
              /\ UNCHANGED <<client, read, hasRx, rxbuf, buf, handled, taken, result>>
    /\ UNCHANGED <<up, alloc, arrived>>

(* Mutant: the rest of the pbuf goes before what is buffered.              *)
StoreInFront ==
    /\ pc = "store"
    /\ rxbuf' = buf \o rxbuf
    /\ buf' = <<>>
    /\ pc' = IF rxbuf' # <<>> /\ read.mode # "none" THEN "stored" ELSE "loop"
    /\ UNCHANGED <<client, up, alloc, read, hasRx, handled, arrived, taken, result>>

(* _RXbuffer->resizeAdd() may fail; what does not fit is lost.             *)
Store ==
    /\ pc = "store"
    /\ \E k \in 0..Len(buf) : rxbuf' = rxbuf \o First(buf, k)
    /\ buf' = <<>>
    /\ pc' = IF rxbuf' # <<>> /\ read.mode # "none" THEN "stored" ELSE "loop"
    /\ UNCHANGED <<client, up, alloc, read, hasRx, handled, arrived, taken, result>>

HandStored ==
    /\ pc = "stored"
    /\ HandleRxBuffer(<<>>)
    /\ pc' = IF read'.mode # "none" /\ handled' # 0 THEN "stored" ELSE "loop"
    /\ UNCHANGED <<up, alloc, buf, arrived>>

-----------------------------------------------------------------------------
(* Calls from loop(), and the end of the connection.                       *)

(* readBytes(), readStringUntil(), onData(), noCallback().                 *)
Ask ==
    /\ pc = "loop" /\ client
    /\ \E ask \in Asks(Len(taken)) :
         /\ read' = ask
         /\ hasRx' = (hasRx \/ ask.mode = "free")
    /\ UNCHANGED <<client, up, alloc, rxbuf, buf, handled, pc, arrived, taken, result>>

(* stop(): an unfinished read ends in done(false); new reads that handler  *)
(* asks for are refused, there being no client any more.                   *)
Stop ==
    /\ pc = "loop" /\ client
    /\ client' = FALSE
    /\ read' = Read("none", 0, Len(taken))
    /\ UNCHANGED <<up, alloc, hasRx, rxbuf, buf, handled, pc, arrived, taken, result>>

OnDisconnect ==
    /\ pc = "loop" /\ client
    /\ client' = FALSE /\ up' = FALSE
    /\ UNCHANGED <<alloc, read, hasRx, rxbuf, buf, handled, pc, arrived, taken, result>>

-----------------------------------------------------------------------------
Loop == HandFirst \/ HandOn \/ Store \/ HandStored

Next ==
    \/ \E n \in 1..MaxPbuf, fin \in BOOLEAN : RxData(n, fin)
    \/ Loop \/ Ask \/ Stop \/ OnDisconnect

Spec == Init /\ [][Next]_vars

FairSpec == Spec /\ WF_vars(Loop)

-----------------------------------------------------------------------------
(* Every variable has its type; _rxSize and len are unsigned in the code   *)
(* and never go below zero.                                                *)
TypeOK ==
    /\ client \in BOOLEAN /\ up \in BOOLEAN /\ alloc \in BOOLEAN /\ hasRx \in BOOLEAN
    /\ read \in Reads
    /\ rxbuf \in Seq(1..MaxBytes) /\ buf \in Seq(1..MaxBytes) /\ taken \in Seq(1..MaxBytes)
    /\ handled \in Nat /\ arrived \in 0..MaxBytes
    /\ pc \in {"loop", "first", "direct", "store", "stored"}
    /\ result.read \in Reads

(* Whatever way the application reads and switches, it gets the bytes in   *)
(* order and none twice, also after memory ran out.                        *)
Stream == taken \o rxbuf \o buf

RxOrdered == \A i, j \in 1..Len(Stream) : i < j => Stream[i] < Stream[j]

(* No byte is lost on the way through the handlers and _RXbuffer but the   *)
(* ones that do not fit when the pbuf's rest is stored.                    *)
RxKept == [][pc \notin {"loop", "store"} => Stream' = Stream]_vars

(* A finished readBytes() got exactly the bytes it asked for, a finished   *)
(* readStringUntil() one line: it ends with the terminator and has no      *)
(* other.  Either may have taken several pbufs and buffered data.          *)
ResultExact ==
    LET b == result.bytes IN
    /\ result.read.mode = "bytes" => Len(b) = result.read.want
    /\ result.read.mode = "string" =>
         \A i \in 1..Len(b) : b[i] \in Terminators <=> i = Len(b)

(* _rxData() returns, also when a handler takes nothing.                   *)
RxReturns == pc # "loop" ~> pc = "loop"

=============================================================================
