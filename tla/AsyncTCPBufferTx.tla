--------------------------- MODULE AsyncTCPBufferTx ---------------------------
(***************************************************************************)
(* The sending half of AsyncTCPBuffer (ESPAsyncTCPBuffer.{h,cpp}): a chain *)
(* of fixed-size cbufs between the application's write() and the           *)
(* AsyncClient, which takes new data only when nothing is in flight.       *)
(*                                                                         *)
(* write() and flush() are loops around _sendBuffer(), itself a loop, and  *)
(* are modelled one iteration at a time.  lwIP runs in between only where  *)
(* the code gives it the processor: in loop() and in flush()'s delay(0).   *)
(* A byte is its position in the stream the application wrote.             *)
(***************************************************************************)
EXTENDS Integers, Sequences, SequencesExt

CONSTANTS
    Mss,         \* TCP_MSS, the size of a cbuf
    SndBuf,      \* TCP_SND_BUF
    NetStates,   \* what lwIP meets: "ok", "nomem", "noroute"
    Deletes,     \* what the onDisconnect handler may answer; TRUE: delete it
    MaxBytes     \* bound: bytes the application writes

ASSUME TxSizeAssumption ==
    Mss \in Nat \ {0} /\ SndBuf \in Nat \ {0} /\ MaxBytes \in Nat
ASSUME TxModeAssumption ==
    /\ "ok" \in NetStates /\ NetStates \subseteq {"ok", "nomem", "noroute"}
    /\ Deletes \subseteq BOOLEAN /\ Deletes # {}

VARIABLES
    chain,     \* the cbufs, _TXbufferRead first and _TXbufferWrite last
    alive,     \* the AsyncTCPBuffer has not been deleted
    client,    \* _client # NULL
    conn,      \* the AsyncClient, as far as it matters here
    net,       \* "nomem": tcp_write() fails; "noroute": tcp_output() fails
    pc,        \* where the application is: in loop(), write() or flush()
    left,      \* write()'s bytesLeft
    sending,   \* who is in _sendBuffer(): nobody, the application, a handler
    accepted,  \* bytes write() has taken
    wire       \* bytes tcp_write() has queued, in order

vars == <<chain, alive, client, conn, net, pc, left, sending, accepted, wire>>

-----------------------------------------------------------------------------
(* The client, on a plain connection: with TLS send() never sets _pcb_busy *)
(* and space() keeps some of the send buffer back.  up: connected(), busy: *)
(* _pcb_busy, unacked: _tx_unacked_len, asked: close() was called.         *)
Conns == [up : BOOLEAN, busy : BOOLEAN, unacked : Nat, asked : BOOLEAN]

connected == client /\ conn.up
space == SndBuf - conn.unacked
canSend == ~conn.busy /\ space > 0

-----------------------------------------------------------------------------
room == Mss - Len(Last(chain))
Pending == \E i \in 1..Len(chain) : chain[i] # <<>>
First(s, n) == SubSeq(s, 1, n)
Rest(s, n) == SubSeq(s, n + 1, Len(s))
Least(m, n) == IF m < n THEN m ELSE n

Init ==
    /\ chain = << <<>> >>
    /\ alive = TRUE /\ client = TRUE
    /\ conn = [up |-> TRUE, busy |-> FALSE, unacked |-> 0, asked |-> FALSE]
    /\ net = "ok"
    /\ pc = "loop" /\ left = 0 /\ sending = "no"
    /\ accepted = 0 /\ wire = <<>>

(* lwIP and the client's handlers run when the application is in loop() or *)
(* flush() is in its delay(0).                                             *)
Yields == sending = "no" /\ (pc = "loop" \/ (pc = "flush" /\ connected /\ ~canSend))

-----------------------------------------------------------------------------
(* write(): fills _TXbufferWrite, calls _sendBuffer(), and appends another *)
(* cbuf only when the last one is full.                                    *)

(* Mutant: more is copied than fits.                                       *)
FillPast(ch, n) ==
    /\ chain' = [ch EXCEPT ![Len(ch)] = @ \o [i \in 1..n |-> accepted + i]]
    /\ accepted' = accepted + n
    /\ left' = 0
    /\ pc' = "write" /\ sending' = "app"

Fill(ch, n) ==
    LET w == Least(n, Mss - Len(Last(ch)))
    IN  /\ chain' = [ch EXCEPT ![Len(ch)] = @ \o [i \in 1..w |-> accepted + i]]
        /\ accepted' = accepted + w
        /\ left' = n - w
        /\ pc' = "write" /\ sending' = "app"

Write(n) ==
    /\ pc = "loop" /\ sending = "no" /\ alive /\ connected
    /\ accepted + n <= MaxBytes
    /\ Fill(chain, n)
    /\ UNCHANGED <<alive, client, conn, net, wire>>

(* After _sendBuffer(): done, out of heap, or another round.               *)
WriteGoesOn ==
    /\ pc = "write" /\ sending = "no"
    /\ \/ /\ left = 0 \/ room = 0
          /\ pc' = "loop" /\ left' = 0
          /\ UNCHANGED <<chain, sending, accepted>>
       \/ left > 0 /\ Fill(IF room = 0 THEN Append(chain, <<>>) ELSE chain, left)
    /\ UNCHANGED <<alive, client, conn, net, wire>>

-----------------------------------------------------------------------------
(* _sendBuffer(), one iteration of its loop.  Only the first cbuf is       *)
(* looked at.                                                              *)
MaySend == connected /\ space > 0 /\ Head(chain) # <<>> /\ canSend
Amount == Least(Len(Head(chain)), space)

(* Mutants: an empty cbuf stays at the head; a cbuf is deleted after one   *)
(* write whatever is left in it.                                           *)
KeepEmpty(ch) == ch
DropHead(ch) == IF Len(ch) > 1 THEN Tail(ch) ELSE ch

(* The empty head is deleted when another cbuf follows.                    *)
DeleteEmpty(ch) == IF Head(ch) = <<>> /\ Len(ch) > 1 THEN Tail(ch) ELSE ch

(* _client->write(): what was queued, and whether it says so.  When        *)
(* tcp_output() fails the data is queued and the answer is 0.              *)
SendIteration ==
    /\ sending # "no" /\ MaySend
    /\ wire' = IF net = "nomem" THEN wire ELSE wire \o First(Head(chain), Amount)
    /\ conn' = [conn EXCEPT !.unacked = IF net = "nomem" THEN @ ELSE @ + Amount,
                            !.busy = net = "ok"]
    /\ LET sent == IF net = "ok" THEN Amount ELSE 0
       IN chain' = DeleteEmpty([chain EXCEPT ![1] = Rest(@, sent)])
    /\ UNCHANGED <<alive, client, net, pc, left, sending, accepted>>

(* flush() begins only, and goes on, while _TXbufferWrite has data.        *)
AllSent == Last(chain) = <<>>

(* Mutant: flush() sends once.                                             *)
SentOnce == pc = "flush" /\ sending = "app"

FlushDone == pc = "flush" /\ sending = "app" /\ AllSent

(* The loop ends, or new[] fails.                                          *)
SendReturns ==
    /\ sending # "no"
    /\ sending' = "no"
    /\ pc' = IF FlushDone THEN "loop" ELSE pc
    /\ UNCHANGED <<chain, alive, client, conn, net, left, accepted, wire>>

-----------------------------------------------------------------------------
(* flush(): waits until the client can send or is gone.                    *)
Flush ==
    /\ pc = "loop" /\ sending = "no" /\ alive /\ ~AllSent
    /\ pc' = "flush"
    /\ UNCHANGED <<chain, alive, client, conn, net, left, sending, accepted, wire>>

FlushGoesOn ==
    /\ pc = "flush" /\ sending = "no" /\ alive
    /\ \/ ~connected /\ pc' = "loop" /\ UNCHANGED sending
       \/ connected /\ canSend /\ sending' = "app" /\ UNCHANGED pc
    /\ UNCHANGED <<chain, alive, client, conn, net, left, accepted, wire>>

(* stop(): the client is asked to close and forgotten.                     *)
Stop ==
    /\ pc = "loop" /\ sending = "no" /\ alive /\ client
    /\ client' = FALSE /\ conn' = [conn EXCEPT !.asked = TRUE]
    /\ UNCHANGED <<chain, alive, net, pc, left, sending, accepted, wire>>

-----------------------------------------------------------------------------
(* The handlers _attachCallbacks() installs.                               *)

(* onAck, called when everything in flight is acknowledged.                *)
OnAck(n) ==
    /\ Yields /\ conn.up /\ n <= conn.unacked
    /\ conn' = [conn EXCEPT !.unacked = @ - n, !.busy = @ /\ conn.unacked # n]
    /\ sending' = IF conn.unacked = n THEN "handler" ELSE "no"
    /\ UNCHANGED <<chain, alive, client, net, pc, left, accepted, wire>>

(* onPoll.                                                                 *)
OnPoll ==
    /\ Yields /\ conn.up /\ ~conn.asked /\ Head(chain) # <<>>
    /\ sending' = "handler"
    /\ UNCHANGED <<chain, alive, client, conn, net, pc, left, accepted, wire>>

(* Mutant: the client may go on after an acknowledgement timed out.        *)
IgnoreTimeout ==
    /\ Yields /\ conn.up /\ ~conn.asked /\ conn.busy
    /\ conn' = [conn EXCEPT !.busy = FALSE]
    /\ UNCHANGED <<chain, alive, client, net, pc, left, sending, accepted, wire>>

(* onTimeout: the acknowledgement timed out.                               *)
OnTimeout ==
    /\ Yields /\ conn.up /\ ~conn.asked /\ conn.busy
    /\ conn' = [conn EXCEPT !.busy = FALSE, !.asked = TRUE]
    /\ UNCHANGED <<chain, alive, client, net, pc, left, sending, accepted, wire>>

(* onDisconnect: the AsyncClient is deleted, and the buffer if its own     *)
(* handler says so.                                                        *)
OnDisconnect ==
    /\ conn' = [conn EXCEPT !.up = FALSE]
    /\ client' = FALSE
    /\ \E del \in Deletes : alive' = (alive /\ ~del)
    /\ UNCHANGED <<chain, net, pc, left, sending, accepted, wire>>

(* The client closes at a poll when asked to, and when the peer does.      *)
ClosesAsAsked == Yields /\ conn.up /\ conn.asked /\ OnDisconnect
PeerCloses == Yields /\ conn.up /\ OnDisconnect

(* lwIP runs out of memory or loses the route, and recovers.               *)
NetChanges(s) ==
    /\ Yields /\ net # s
    /\ net' = s
    /\ UNCHANGED <<chain, alive, client, conn, pc, left, sending, accepted, wire>>

-----------------------------------------------------------------------------
Loop == WriteGoesOn \/ SendIteration \/ (~MaySend /\ SendReturns) \/ FlushGoesOn

Next ==
    \/ \E n \in 1..MaxBytes : Write(n)
    \/ Flush \/ Stop \/ Loop \/ SendReturns
    \/ \E n \in 1..SndBuf : OnAck(n)
    \/ OnPoll \/ OnTimeout \/ ClosesAsAsked \/ PeerCloses
    \/ \E s \in NetStates : NetChanges(s)

Spec == Init /\ [][Next]_vars

(* The processor goes on and new[] does not fail forever; polls keep       *)
(* coming, so a close that was asked for is made and, if the peer stays    *)
(* silent, an acknowledgement times out.                                   *)
FairSpec ==
    /\ Spec /\ WF_vars(Loop) /\ SF_vars(SendIteration)
    /\ SF_vars(OnPoll) /\ SF_vars(OnTimeout) /\ SF_vars(ClosesAsAsked)

-----------------------------------------------------------------------------
(* The chain is never empty, no cbuf holds more than it can, and never     *)
(* more than TCP_SND_BUF is in flight.                                     *)
TypeOK ==
    /\ chain \in Seq(Seq(1..MaxBytes)) /\ chain # <<>>
    /\ \A i \in 1..Len(chain) : Len(chain[i]) <= Mss
    /\ alive \in BOOLEAN /\ client \in BOOLEAN
    /\ conn \in Conns /\ conn.unacked <= SndBuf
    /\ net \in NetStates
    /\ pc \in {"loop", "write", "flush"} /\ left \in 0..MaxBytes
    /\ sending \in {"no", "app", "handler"}
    /\ accepted \in 0..MaxBytes
    /\ wire \in Seq(1..MaxBytes)

(* lwIP is handed the bytes the application wrote, each once and in order, *)
(* and those that are not in the chain any more have all been handed over. *)
StreamIntact ==
    /\ \A i \in 1..Len(wire) : wire[i] = i
    /\ ~Pending => Len(wire) = accepted

(* The head of the chain, the only cbuf that onPoll and _sendBuffer() look *)
(* at, is not empty while a later one has data: no data is stranded.       *)
NoneStranded == Head(chain) = <<>> => Len(chain) = 1

(* flush() returns with everything handed to lwIP, or disconnected; it     *)
(* tests _TXbufferWrite, the last cbuf, alone.                             *)
FlushComplete == [][pc = "flush" /\ pc' = "loop" => ~Pending \/ ~connected]_vars

(* What is written is handed over unless the connection ends or lwIP is    *)
(* out of memory.                                                          *)
Delivered == (Pending /\ conn.up) ~> (~Pending \/ ~conn.up \/ net # "ok")

(* flush() comes back, unless lwIP is out of memory (_sendBuffer() then    *)
(* spins).                                                                 *)
FlushReturns == pc = "flush" ~> (pc = "loop" \/ ~alive \/ net # "ok")

=============================================================================
