# TLA+ models of ESPAsyncTCP

ESPAsyncTCP is an asynchronous TCP library for the ESP8266: C++ classes around
the raw API of lwIP, with no threads. lwIP calls the library back from its main
loop, the library calls the application's handlers, the handlers call the
library's methods. What is hard about it is not parallelism but re-entrancy:
objects are closed, aborted, reconnected and deleted by handlers that run
inside the very methods that go on using them, and lwIP requires each callback
to say truthfully whether it aborted its pcb.

The modules are plain TLA+, checked with TLC and, where said so, proved with
TLAPS. Line numbers in `PROJECT.json` refer to the sources in `src/`.

## Inventory

| Component | State | Operations | Interacts with |
|---|---|---|---|
| `ACErrorTracker` | `_close_error`, `_errored`, `_client` | `setCloseError`, `setErrored`, `getCallbackCloseError` | shared (`shared_ptr`) by the client and each callback in progress; outlives the client |
| `AsyncClient` | `_pcb`, busy and close flags, transmit and receive counters, two timestamps, handlers | `connect` (address, name), `close`, `abort`, `add`/`send`/`write`, `ack`/`ackLater`/`ackPacket`, destructor; callbacks `_connected`, `_recv`, `_sent`, `_poll`, `_error`, `_dns_found` | lwIP below, the application (or `AsyncTCPBuffer`) above |
| `AsyncServer` | listening pcb, TLS context, `onClient` handler | `begin`, `beginSecure`, `end`, destructor, `_accept` | builds an `AsyncClient` per connection |
| `AsyncTCPBuffer` | chain of send buffers, receive buffer, read mode | `write`, `flush`, `readBytes`, `readStringUntil`, `onData`, `stop`; handlers for the client's events | owns and deletes an `AsyncClient`, is deleted by its own disconnect handler |
| `AsyncClient`, TLS side | `_use_tls`, `_handshake_done`, the validator | the `_use_tls` branches of the above, the handshake timeout, `_s_data`, `_s_handshake`, `_s_ssl_error` | the BearSSL glue |
| BearSSL glue (`tcp_bearssl`) | list of sessions, and for each the record accumulator, the engine, `handshake_done` | `tcp_ssl_new_client/server`, `_read`, `_write`, `_free`, `_has`, `process_ssl_engine` | called by `AsyncClient`, calls its data, handshake and error handlers |
| Certificates | chain and key of a server's context | `parse_certificates`, `tcp_ssl_new_server_ctx` | `AsyncServer::beginSecure`, the sessions of accepted clients |
| Cipher tables, configuration, debug output, examples | – | – | not state machines of this library |

What makes them correct:

* **Client.** It never uses a pcb or itself after their end; lwIP is told
  `ERR_ABRT` exactly when the pcb was aborted; each connection ends in exactly
  one `onDisconnect` and nothing follows it; the receive window is returned
  once; the transmit counters agree with lwIP; a requested close, an expired
  timeout and a silent peer all lead somewhere.
* **Buffer.** Bytes go through both halves once and in order, whatever the
  network and the handlers do; nothing is stranded; loops end.
* **Server.** At most one listening pcb, never one that outlives the object;
  truthful accept results; certificates freed once.
* **TLS.** A session lives exactly as long as its connection and is not used
  after its end, although the handlers run inside it; the engine gets the
  peer's bytes in order, whatever the segments and the buffer sizes; data and
  the end of the handshake are reported once; nothing is sent in the clear; a
  handshake that does not go on is given up.

The hazards behind these, each at its line, are in `PROJECT.json`. The
hard behaviours are: handlers that re-enter (`_recv`, `_error`, `abort`,
`_rxData`, `process_ssl_engine`), failures half way (`tcp_close`, `tcp_output`, `tcp_connect`,
`resizeAdd`), reuse of a client for several connections, timeouts against late
acknowledgements, data together with a FIN, and `flush()`, the one place where
the library lets lwIP run inside a call of the application.

## Modules

| Module | Models | Used by |
|---|---|---|
| `ACErrorTracker` | the tracker, as operators on a value | `AsyncClient` |
| `AsyncClient` | one client (plain TCP), its pcbs, its application | `AsyncClientMC`, `AsyncClientTls`, `AsyncClient_proofs`, `AsyncClientLedger_proofs` |
| `ConnectionLife` | abstract specification: what a client promises about connections | instantiated by `AsyncClient` (`Lifecycle`) |
| `AsyncClientTls` | the same client compiled with TLS, composed with its sessions | `AsyncClientTlsMC`, `AsyncClientTls_proofs` |
| `TcpBearSsl` | one client session of the glue: accumulator, feed loop, engine loop | `TcpBearSslMC`, `TcpBearSsl_proofs` |
| `SecureStream` | abstract specification: what a session promises its client | instantiated by `TcpBearSsl` (`ImplementsStream`) |
| `AsyncTCPBufferTx` | sending half of the buffer | `AsyncTCPBufferTxMC`, `AsyncTCPBufferTx_proofs` |
| `AsyncTCPBufferRx` | receiving half | its run, `AsyncTCPBufferRx_proofs` |
| `AsyncServer` | the server | `AsyncServerTls`, `AsyncServer_proofs` |
| `AsyncServerTls` | the server with its certificates, and the sessions of accepted clients | `AsyncServerTlsMC`, `AsyncServerTls_proofs` |
| `*MC` | applications, network conditions and symmetry for TLC | the runs |
| `*_proofs` | theorems; those of `AsyncClientLedger`, `AsyncClientTls` and `AsyncServerTls` rest on those of the module they extend | – |

### AsyncClient

*State.* `c` holds the members under their names without the underscore; the
two timestamps are kept as ages in poll intervals (`sent_age`, `rx_age`), which
stop growing at the timeout that reads them. `et` is the tracker. `lw` is lwIP's
side of each pcb: its state, the callbacks installed for this client, the data
unacknowledged and not yet consumed, whether a poll is due. Each pcb is used
once, so that what happens to a pcb after its end stays visible. `dns` says that
the resolver holds the object; `held` counts the pbufs the application keeps
from `onPacket`.

*The call stack* is a variable. A frame stands for a handler in progress, or for
code still to run after one: `ret` (the trampoline's return value), `abort` (the
tail of `abort()`), `dtor` (the tail of the destructor), `fin` (lwIP delivers
the FIN that came with data). A step either pushes (lwIP or the application
calls), or returns from the top frame and runs what follows it in the code. So
`_error()` is two steps, before and after `onError`; `_recv()` is one step per
pbuf and handler; everything between two handlers is one step, as in the code
nothing else can run there.

*Actions* follow the code: `S_connected`, `S_failed`, `S_recv`, `S_recv_fin`,
`S_sent`, `S_poll`, `S_error`, `S_dns_found` are lwIP's calls;
`Connect`, `ConnectHost`, `CloseNow`, `CloseLater`, `Abort`, `Add`, `Send`,
`Write`, `Ack`, `AckLater`, `AckPacket`, `Delete` are the application's;
the `...Return` actions are what follows a handler. `Close_` is `_close()` with
its two outcomes, `Error_` is `_error()`, `Connect_` is the body of `connect()`
with its failures. All handlers are assumed to be set; `DataHandlers` says whether
pbufs go to `onData`, to `onPacket`, which shadows it, or now to one, now to the
other.

*The application* is a constant, `App`: the methods it calls and from where
(loop or which handler). Three rules of use are built in, all of which the code
relies on: the object is not deleted twice, not deleted while lwIP or the
resolver still has to answer an attempt (nothing would cancel it), and `ack()`,
`ackPacket()`, `send()` are called only with a pcb. `Overlap` says whether the
application starts an attempt before the last one ended.

### AsyncClientTls

Each connection the application makes is plain or TLS (`TlsModes`). The actions
of `AsyncClient` are taken over: where a `_use_tls` branch replaces the code, an
action of this module does (`Tls_connected`, `Tls_recv`, `Tls_sent`, `TlsWrite`,
`Started`); where the branch adds to it, the plain action is conjoined with what
is added (`AfterClose` and `AfterError` are the TLS lines of `_close()` and
`_error()`). `tls` holds the two flags and the tracker's `hasClient()`, `ssl`
the session of each pcb, reduced to what the client sees: handshaking, ready or
closed, data waiting, a record waiting for the send buffer. A `tcp_write()` that
fails loses the record it was given, as nobody looks at its result.
`tcp_ssl_read()` is
a frame with the number of engine runs to come, and the handlers that
`process_ssl_engine()` calls are frames above it, so that what a handler does to
the session is done while the frame below still needs it.

An accepted client has `_use_tls` FALSE even when the server is secure (see
`server_sessions`); here it is a plain client. `connect()` sets `_use_tls`
before anything else, also when it then refuses because a connection is open,
and `_connected()` goes on after a failed validator; both are modelled as they
are.

### TcpBearSsl

Bytes are units numbered by their place in the peer's stream, a record is a
header unit and `Body` more, and the peer sends a `Flight` of records, waiting
for an answer where TLS has it wait. The BearSSL engine is external and modelled
by how the glue uses it: it asks for the rest of the header, then for the rest
of the record; it takes nothing while data waits to be read or an answer to be
sent; given other units than the next ones it fails ("spoiled"), and
so does data before the end of the handshake. That data and records are shorter
than BearSSL's buffers, which `process_ssl_engine()` tests, always holds. The
accumulator is a sequence: new units go in front, as the code copies them in
front of `recvrec_accum_pos`. Each turn of the feed loop and of
`process_ssl_engine()` is a step, with the calls in progress on a stack; a
handler may write, which runs `process_ssl_engine()` once more inside it.

`SecureStream` does not ask for the end of the handshake to be reported before
the first data: `process_ssl_engine()` hands data on first and reports the end of
the handshake last, so that data that comes with it in one segment arrives
before. It asks that the report then follows before anything more arrives.

### AsyncTCPBufferTx and AsyncTCPBufferRx

The two halves share only `_client` and the end of the connection and are
modelled apart. Bytes are their positions in the stream, so order, loss and
duplication are visible. The loops of `write()`, `flush()`, `_sendBuffer()` and
`_rxData()` are modelled one iteration at a time; lwIP runs in between only
where the code lets it (`Yields`: in `loop()` and in `flush()`'s `delay(0)`).
The sending half sees a plain client as connected, busy, so much unacknowledged,
asked to close (a TLS client is never busy, as `send()` does nothing for it, and
`space()` keeps some of the send buffer back). `net` is what `tcp_write()` and
`tcp_output()` do: succeed, fail for lack of memory, or fail for lack of a route with the data queued. In the
receiving half a handler's answer and the calls it makes (another read, another
mode, `stop()`) belong to the step that calls it. A read may lack its destination
or handler ("void"), and `_RXbuffer` may never have been allocated (`alloc`):
then nothing is taken. The cbuf of the core library
is external and taken as a bounded sequence.

### AsyncServer

`srv` are the members, `lst` and `con` lwIP's listening and incoming pcbs, `ret`
the last result of the accept callback. What an `onClient` handler does inside
it (`HandlerDoes`) is part of `Accept`. The result is ERR_OK also for a
connection the handler aborted, and a `beginSecure()` whose `begin()` failed
leaves its context behind; both are modelled as they are.

`AsyncServerTls` adds the two pieces of memory TLS gives a server. `certs`
counts certificate buffers while `parse_certificates()` goes through a PEM text
object by object: a certificate, something else, an empty object, a malformed
one, one for which memory runs out, one that is cut off. `sessions` is the list
`tcp_ssl_pcbs`, whose entries are tagged with the connection they were made for;
pcbs are used again (`Recycle`), so that a stale entry can meet a new connection
on the same address. Only `operator=` (`Copy`) gives a client `_use_tls`, and
with it the duty to free the session.

## Runs

Passing runs:

| Run | What it shows |
|---|---|
| `client_tls` | plain and TLS connections of one client, two in a row, closed, deleted, reconnected and written to from loop and handlers: no use of a pcb, a session or the object after its end; sessions owned and working; handshakes bounded; truthful `ERR_ABRT`; one `onDisconnect` each and silence after it; `ConnectionLife` |
| `client_stream` | receive window and transmit counters of one connection, with `onData`/`ackLater`/`ack`, `onPacket`/`ackPacket`, and both in turn |
| `client_live` | liveness of close, busy and the timeouts, on an accepted plain connection and on TLS ones, also when attempts overlap |
| `bearssl` | over every cut of a handshake, three data records and a close_notify into segments, with writes, failing `tcp_write()` and overflow: bytes exact, data and handshake delivered, no re-entry, records sent, reads return; `SecureStream` implemented |
| `buffer_tx` | over a plain client: stream intact, nothing stranded, `flush()` complete and returning, data handed over, with `tcp_write()` failing at times |
| `buffer_rx` | order kept and no byte lost over all mixtures of reads, but for what does not fit when memory runs out; finished reads exact; `_rxData()` returns |
| `server` | listener ownership, certificate buffers on every path of parsing (but for the last one of a text that is cut off), and the right session found for each open connection |

Runs that end in a counterexample, each showing where a comment and the code
disagree (details and quotations under "findings" in `PROJECT.json`):

| Run | Disagreement |
|---|---|
| `client_abort_in_handler` | `abort()` in a handler is returned to lwIP as `ERR_OK`, against the guarantee in its comment |
| `client_close_in_data` | the `hasClient()` guards of `_recv()` are ineffective for plain clients: `close(true)` in `onData` with delete in `onDisconnect` leaves `_recv()` running on a deleted object |
| `buffer_no_route` | `write()` returns 0 for data it has queued, and the buffer sends it twice |
| `bearssl_order` | bytes that a read kept (more records than the feed loop takes) are fed after the next segment's: the engine sees them out of order and the connection fails |
| `server_sessions` | the session of an accepted connection is never freed, as `_use_tls` stays FALSE: the list of "active" connections grows by a session and its buffers with each |

The passing properties except exactly what the code does not keep, and say so
in their comments:

* `AbortReportedOnce`, `AckPending`, `WindowExact` and `TxLedger` speak of a
  client's first connection (`FirstUse`). A reused client keeps the tracker's
  `_close_error` and `_errored` (its next connection may return `ERR_ABRT` for a
  live pcb, or hide an abort) and `_tx_unacked_len` (it stays busy for nothing).
* `WindowExact` also excludes the time after `close()`, which gives the window
  back and keeps `_rx_ack_len`; `WindowReturned`, an upper bound, does not see
  that a later `ack()` gives it back again.
* `Delivered` and `FlushReturns` except the time when lwIP is out of memory:
  `_sendBuffer()` then spins. The buffer may be deleted inside `flush()`.
* `RxKept` and `RxOrdered` are about data that reaches the buffer. What arrives
  together with the peer's FIN is dropped before (`connected()` is false in
  `CLOSE_WAIT`), all data is when there is no `_RXbuffer`, what does not fit when
  memory runs out is lost in `Store`, and a read started by a done handler is not served from
  `_RXbuffer` until more data arrives.
* `SilentPeerDropped` needs an ack timeout longer than the poll interval; with a
  shorter one the ack timeout preempts the rx timeout at every poll. The default
  (3 s) is longer.
* `NoStaleSession` and the dangling-frame properties hold for applications that
  do not end the connection at once (`close(true)`, delete, abort) from a handler
  whose caller goes on: `onData`, and on a TLS connection also `onConnect` and
  `onError`, which run inside `tcp_ssl_read()`. `close()` without `now` is in the
  model from every handler and is safe. No handler of `client_tls` aborts, so
  what `abort()` does after a handler deleted the object is not reached there.
* No property speaks of an object deleted while an attempt is under way:
  `Delete`'s guard excludes it.
* `SessionOwned` excepts a pcb whose `_recv()` was called with an error: `_pcb`
  is forgotten before `_error()` could free the session.
* `NoDanglingTlsFrame` excepts `_connected()` after a failed validator, and
  `_sent()` when a plain `connect()` failed just before the delete (then
  `_use_tls` is FALSE and `hasClient()` is not cleared).
* `StreamExact` claims order only as long as no read has kept bytes, and says
  that nothing else disturbs it; `ImplementsStream` says that the client is never
  handed wrong data because of it.
* `Pumped` asks for what fits when control returns. A record that does not fit
  waits for the next read: neither acknowledgements nor writes send it. One that
  `tcp_write()` refuses is lost; what is shown is that a handshake stalled by it
  is ended (`HandshakeBounded`).
* `CertsOwned` counts apart the last buffer of a PEM text that is cut off, which
  nobody frees.
* `SessionFound` holds because new sessions go to the front of the list; stale
  ones remain behind them. It speaks of TLS connections: on a plain one whose pcb
  has the address of a stale session, `operator=` finds that session.

### Bounds

* Two pcbs are a first connection and a reuse, or two overlapping attempts; no
  property relates more than two. Pcbs are interchangeable (symmetry) except in
  the run with liveness.
* Lengths are counted in units: a send buffer of 1 to 3, a window of 1 to 3, a
  chain of up to 3 pbufs, so that "part", "all", "first", "middle" and "last"
  all occur. `RxBound` and `TxBound` cap what the application keeps and
  `_tx_acked_len`; `TxBound` also caps `_tx_unacked_len` where records are lost,
  which nothing in the code bounds.
* Timeouts of 1 to 3 poll intervals; the receive timeout is longer than the
  acknowledgement timeout, so that the latter can fire repeatedly before, and
  longer than the handshake timeout, as in `async_config.h` (5 s and 2 s).
* TLS: up to two engine runs in one read (`MaxRuns`): one handler's effect meets
  the next run, and a third repeats the second. In a send buffer of three a
  record of two fits or waits.
* The glue: records of three units, an accumulator of three records, four turns
  of the feed loop (two records) and segments of up to ten units. These keep the
  proportions of the code: ten turns are five records, and a segment (1460
  bytes) can exceed the accumulator (1024). Every cut of the eight records into
  segments is explored.
* PEM texts of up to three objects, chosen so that each kind follows a
  certificate or stands alone; two connections on each of two pcbs.
* Buffers: cbufs of 2 and a send buffer of 3 bytes (neither divides the other),
  up to 7 bytes, hence chains of several cbufs with heads partly sent; pbufs of
  up to 3 and reads of up to 2 bytes over a stream of 5, with terminators at 2
  and 4, so that a pbuf spans reads and a read spans pbufs.
* Three listeners: begin, end, begin again, once more.

Deadlock is not checked where a run's application can really be finished: the
client deleted or its pcbs used up, all bytes sent.

### Fairness

*Client:* weak fairness of `Return` (handlers return, C++ goes on); strong
fairness of `Tick` and of each `S_poll`: lwIP's timers run in the same loop as
everything else and cannot be starved by traffic, though any single event may
come before them. Nothing is assumed about the peer or the application. With
TLS the same (`TlsReturn`, `Tls_poll`).
*Glue:* weak fairness of the code in progress; `ReadReturns` then says that its
loops end, whatever the peer sends and the handlers write.
*Sending half:* weak fairness of the loops; strong fairness of the polls and
timeouts, as above, and of `SendIteration` (`new[]` does not fail each time).
*Receiving half:* weak fairness of the loop in `_rxData()`.

## Proofs

Each theorem is of the specification a run checks, for all values of the
constants that satisfy the named assumptions: any number of pcbs and units, any
application `App`, any peer. Every safety invariant, step property and
refinement of the passing runs has one. Where a theorem has a hypothesis beyond
the modules' assumptions, it is there because the code needs it, and a run or an
entry of the list above shows what happens without it.

| Module | Theorems | Hypotheses |
|---|---|---|
| `AsyncClient_proofs` | `TypeCorrect`; `Ownership` (`PcbUsable`, `CallbacksOwned`); `DisconnectsOnce`; `ImplementsLife` | no overlapping attempts, but for `TypeCorrect` |
| `AsyncClientLedger_proofs` | `WindowComesBack`, `WindowNeverTwice`, `SentLedger` | no overlapping attempts |
| | `BusyForAReason` (`AckPending`) | and no call of `send()` |
| | `AbortsReported` (`AbortReportedOnce`) | and `abort()` from `loop()` only |
| `AsyncClientTls_proofs` | `TlsTypeCorrect`, `TlsOwnership`, `TlsDisconnectsOnce`, `TlsImplementsLife`; `SessionsOwned`, `SessionsWork`, `HandshakeIsBounded` | no overlapping attempts |
| | `ReadsKeepTheirSession` (`NoStaleSession`) | and `SparesReads` |
| | `SilentWhenOver` (`SilentAfterDisconnect`) | and `SparesData` |
| | `DeletionIsSafe` (`NoDanglingTlsFrame`) | and `DeletesSafely` |
| `TcpBearSsl_proofs` | `Types`; `ReadExact`; `Reporting`; `SendPumped`; `SecureRefinement` | – |
| `AsyncTCPBufferTx_proofs` | `Types`; `HeadFirst` (`NoneStranded`); `FlushExact` | – |
| | `SentInOrder` (`StreamIntact`) | `tcp_output()` does not fail for want of a route |
| `AsyncTCPBufferRx_proofs` | `Invariance`; `Types`; `InOrder`; `ReadsExact`; `NothingLost` (`RxKept`) | – |
| `AsyncServer_proofs` | `ListenersAreOwned` | – |
| `AsyncServerTls_proofs` | `CertificatesOwned`; `OwnSessionFound`; `TlsListenersOwned` | – |

### Assumptions and hypotheses

* `Overlap = FALSE`: with overlapping attempts the first pcb is orphaned
  (`_connected()` overwrites `_pcb`), and nothing below would hold.
  `client_live` checks what remains.
* `NoRenegotiation` (`TcpBearSsl`): after the end of the handshake the peer
  sends data and alerts only.
  The code sets `BR_OPT_NO_RENEGOTIATION` on the engine.
* `TlsAssumption`: a handshake timeout of at least one poll interval and not
  above the receive timeout (which would preempt it), and a send buffer.
* `"noroute" \notin NetStates`: `buffer_no_route` shows the byte sent twice
  otherwise.
* No `send()`: it marks the client busy also with nothing to send.
* `abort()` from `loop()` only: `client_abort_in_handler` is the counterexample
  for a handler.
* `SparesReads`: no `close(true)`, `abort()` or delete in the handlers that
  `tcp_ssl_read()` calls, whose session this would free under it.
* `SparesData`: none of these in `onData`; `client_close_in_data` shows that
  `_recv()` goes on.
* `DeletesSafely`: `close(true)` and delete only in `SafeContexts`, that is
  `loop()`, `onConnect` of a plain client, `onTimeout`, `onPoll`,
  `onDisconnect`, and `onAck` of a TLS client; no `abort()`. `client_close_in_data`
  closes in `onData` and deletes in the `onDisconnect` this causes.

The hypotheses can be met: the application of `client_tls`, which connects,
writes, closes and deletes from loop and handlers, satisfies all of them.

### Client

`TypeOK` is inductive as it stands; it includes that no counter goes below zero.
The other invariants are not.

* *Ownership.* `OwnershipInv` adds `Core` (every pcb that can call the client is
  `_pcb` or the one attempt under way; an attempt excludes a connection and a
  lookup; a deleted client has neither), `DtorQuiet` (while the destructor is on
  the stack there is no pcb, no lookup and no attempt: it is what lets
  `DtorReturn` delete the object) and `AbortQuiet` (while the tail of `abort()`
  is pending, `_pcb` is NULL, so that its late `_pcb = NULL` cannot drop a new
  connection). Steps are first sorted into a few kinds by what they do to
  ownership and to the stack (`EveryStepHasAKind`, `EveryStepHasAStackKind`),
  and the invariant is shown for each kind.
* *Announcing.* `AnnounceInv` says that an ended pcb has been announced unless
  exactly one `error_cb` frame about it is on the stack, whose return will
  announce it. The refinement of `ConnectionLife` follows: every step maps to
  one of its steps or changes no phase.
* *Ledgers.* What lwIP counts as unconsumed is, in the middle of `_recv()`,
  spread over `_rx_ack_len`, the pbufs the application holds and the frame of
  the data handler. `LedgerInv` therefore says whose delivery is on the stack
  (`DeliveryOwned`: at most one, of the current connection if there is one), and
  that pcbs and clients that never connected have counted nothing (`PcbsFresh`,
  `ClientFresh`), which is what `FirstUse` rests on. `BusyWaits` is
  `AckPending` without `connected()`.
* *Tracker.* `TrackerInv` ties the tracker to the frames that will read it: with
  a `ret` frame on the stack, an aborted pcb has left `ERR_ABRT` and no error
  behind; a recorded error means that the connection is gone, and while the tail
  of `abort()` is pending there is one.

### TLS side of the client

`TlsInv` is `AnnounceInv` and `SessionInv`. The actions taken over from
`AsyncClient` are shown to be `Orderly`, of a kind and a stack kind of the plain
client, so that its proofs apply; those that TLS replaces are shown to be so one
by one. `SessionInv` says that a TLS connection has its session
(`SessionThere`), that a session not yet done has not been silent for too long
(`HandshakeInTime`, which needs that an attempt begins without a handshake,
`AttemptFresh`), that `tcp_ssl_read()` works on the connection in `_pcb` if
there still is one (`ReadsCurrent`), and that a failed engine is found only
under it (`FailureSeen`), which makes `SessionWorks` hold when lwIP runs again.

The last three theorems are about the shape of the call stack, for which
`EveryTlsStepHasAStackKind` sorts the steps a second time. `ReadsOnTop`: one
`tcp_ssl_read()` at most, on top or just below its handler. `RecvAlone`: `onData`
on top only, about the connection in `_pcb`. `Shaped`: below the top there are
only frames that have nothing more to do with the object, and the destructor's;
below the destructor's none but the former.

### Glue

`Inv` adds to the types and to `StreamExact`: the stacks that can occur
(`Shape`; its depth is what shows that no handler runs inside another of its
kind), what may wait in the engine and when (`Calls`: data and the end of the
handshake only while a read is pumping), what was handed on (`Records`: the data
of the records decoded but for the one waiting, as long as the engine has not
failed, and none before the end of the handshake), and how many units are where
(`Units`: a read that kept nothing leaves the accumulator empty). `SendPumped`
and the refinement of `SecureStream` follow step by step.

### Buffer

*Sending half.* `IsChain`: there is a cbuf, none over its size, and an empty one
only alone. This is why `_sendBuffer()` and `onPoll` may look at the head alone
and `flush()` at the last. For the order `Ordered` adds that the chain holds
exactly the bytes accepted and not on the wire, laid out one after the other
(`Laid`), which each turn of `_sendBuffer()` and `write()` has to keep.

*Receiving half.* What the application has taken, `_RXbuffer` and the rest of the
pbuf form one increasing stream; a read under way has got what was taken since
it began, and no whole line (`ReadOK`). A turn of the loop is shown to move bytes
from the front of that stream to what is taken (`Moves`), whatever the handlers
switch to.

### Server

`ListenerOwned` is inductive with its types. `SessionFound` is restated as "the
first entry for the pcb is of its present connection" (`Newest`), which a push,
a free and the reuse of another pcb keep. `CertsOwned` needs what
`parse_certificates()` computes for every PEM text.

### Induction over data

The parsing loop, the search for a line's end and the records of a flight are
recursive functions or unbounded searches. The induction theorems of the library
are out of the provers' reach, but its statement that every non-empty set of
numbers has a least element is not (`LeastNumber`, from
`NatLessThanWellFounded` and `WFMin`): such facts are proved by looking at the
first number at which they would fail.

### Only model-checked

* Liveness, as fairness and ENABLED are outside what the prover handles:
  `CloseHonoured`, `BusyEnds`, `SilentPeerDropped`, `Delivered`, `FlushReturns`,
  `RxReturns`, `ReadReturns`.
* `AbortReportedOnce` and `AckPending` in a build with TLS. They are proved for
  the default build (`ASYNC_TCP_SSL_ENABLED` 0), that is for `Spec` of
  `AsyncClient`; `client_tls` checks them for `TlsSpec`.
* The properties of the runs that end in a counterexample.

## Not modelled

The BearSSL engine, lwIP and `cbuf` are external and modelled by how the code
uses them. The engine of a server session: the accepted client never calls
`tcp_ssl_read()` (`_use_tls` is FALSE), and `tcp_ssl_new_server()` does not
reset the engine, as `tcp_ssl_new_client()` does, so that a copy made with
`operator=` has no handshake to run either. That `end()` deletes the
certificates such a session points to is therefore not a property either. Which
validator `_initClientX509Validator()` installs, its callbacks in `tcp_bearssl.cpp` (they
hash and compare bytes that BearSSL passes in) and the setters for fingerprints,
keys and trust anchors; only success or failure is modelled. Cipher tables.
`operator=` on a client with a connection, and `operator+=`, a list that nothing
walks. Changing handlers or timeouts in mid-connection. Deleting an
`AsyncTCPBuffer` other than from its disconnect handler, which leaves the
client's handlers pointing to it until the next poll. Nagle and other socket
options, getters, string tables, debug output, configuration. The wrap-around of
`millis()` (differences of unsigned values are immune to it) and of
`_rx_since_timeout * 1000`.

Behaviour that is in the models, and that no property asks about because it
would not hold: a pcb whose `tcp_connect()` failed is never freed; a lookup whose
`connect()` fails is not reported; `close()` without a connection closes the
next one; `_accept()` returns `ERR_OK` for a connection its handler aborted; a
`beginSecure()` whose `begin()` failed cannot be repeated; a read under way when
the connection ends never calls done, and one started by a done handler waits
for more data to arrive.

## Plan

Done: the client (first, as everything else rests on it), its abstract
specification and proofs; the buffer's two halves; the server; the TLS side of
client, glue and server; a theorem for every safety property of the passing
runs.

Next:

1. `AbortReportedOnce` and `AckPending` for `TlsSpec`: the tracker's and the
   ledger's kinds of steps for the actions that TLS replaces.
2. `AsyncTCPBuffer` on top of the full client, deleted by the application.
