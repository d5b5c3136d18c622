--------------------------- MODULE AsyncServerTls ---------------------------
(***************************************************************************)
(* AsyncServer compiled with ASYNC_TCP_SSL_ENABLED: beginSecure() builds a *)
(* TLS context from PEM text, and every connection accepted with a context *)
(* gets a session in the list tcp_ssl_pcbs of tcp_bearssl.cpp.  The steps  *)
(* of AsyncServer are composed with what this adds; the connections now    *)
(* end, and lwIP uses the memory of their pcbs again.                      *)
(*                                                                         *)
(* The constructor of an accepted AsyncClient registers a session and      *)
(* leaves _use_tls FALSE; only operator= looks the session up and sets it. *)
(***************************************************************************)
EXTENDS AsyncServer, Sequences

CONSTANTS
    Pems,   \* the PEM texts the application passes: sequences of objects
    MaxGen, \* bound: connections made on one pcb's memory
    MaxCut  \* bound: texts loaded that are cut off

(* Objects of a PEM text: a certificate, something else, one without data, *)
(* a malformed one, one there is no memory for, one that is cut off.       *)
Objects == {"cert", "other", "empty", "bad", "oom", "cut"}

ASSUME TlsServerAssumption ==
    /\ Pems \subseteq Seq(Objects)
    /\ \A pem \in Pems : \A i \in 1..Len(pem) : pem[i] = "cut" => i = Len(pem)
    /\ MaxGen \in Nat /\ MaxCut \in Nat

VARIABLES
    sessions,  \* tcp_ssl_pcbs: the pcb, and which of the connections on it
    gen,       \* connections made so far on each pcb
    uses,      \* _use_tls of the AsyncClient that has the pcb
    certs      \* certificate buffers: of the context, live in all, cut off

serverVars == <<vars, sessions, gen, uses, certs>>

-----------------------------------------------------------------------------
(* parse_certificates(), object by object: chain counts the certificates   *)
(* found, live the buffers that are allocated, buf is the one being filled *)
(* and ok says that decoding goes on.                                      *)

Start0 == [chain |-> 0, live |-> 0, buf |-> FALSE, ok |-> TRUE]

FreeBuf(s) == [s EXCEPT !.live = IF s.buf THEN @ - 1 ELSE @, !.buf = FALSE]
FreeAll(s) == [s EXCEPT !.live = @ - s.chain, !.chain = 0, !.ok = FALSE]

(* append_to_cert_vector()                                                 *)
Filled(s) == [s EXCEPT !.live = IF s.buf THEN @ ELSE @ + 1, !.buf = TRUE]

(* Mutant: an object that is no certificate keeps its buffer.              *)
KeepsOther(s, object) ==
    IF object = "cert" THEN [s EXCEPT !.chain = @ + 1, !.buf = FALSE]
                       ELSE [s EXCEPT !.buf = FALSE]

(* BR_PEM_END_OBJ                                                          *)
EndObject(s, object) ==
    IF object = "cert" /\ s.buf THEN [s EXCEPT !.chain = @ + 1, !.buf = FALSE]
                                ELSE FreeBuf(s)

Parse1(s, object) ==
    LET b == FreeBuf(s)     \* BR_PEM_BEGIN_OBJ
    IN CASE ~s.ok -> s
         [] s.ok /\ object \in {"cert", "other"} -> EndObject(Filled(b), object)
         [] s.ok /\ object = "empty" -> EndObject(b, object)
         [] s.ok /\ object \in {"bad", "oom"} -> FreeAll(FreeBuf(Filled(b)))
         [] s.ok /\ object = "cut" -> Filled(b)

parse_certificates(pem) ==
    LET f[i \in 0..Len(pem)] == IF i = 0 THEN Start0 ELSE Parse1(f[i - 1], pem[i])
    IN f[Len(pem)]

NoCerts == [chain |-> 0, live |-> 0, cut |-> 0]

(* After a parse that left its last buffer, and after the context is gone: *)
(* ~BearSSL_SSL_CTX() frees the chain.                                     *)
Parsed(r) ==
    [certs EXCEPT !.live = @ + r.live, !.cut = IF r.buf THEN @ + 1 ELSE @, !.chain = r.chain]
Freed(k) == [k EXCEPT !.live = @ - k.chain, !.chain = 0]

AfterFinish == certs' = IF srv.ctx /\ ~srv'.ctx THEN Freed(certs) ELSE certs

-----------------------------------------------------------------------------
(* The list of sessions.                                                   *)

(* Mutant: a new session goes to the end of the list.                      *)
RegisteredLast(p) == Append(sessions, [tcp |-> p, gen |-> gen[p] + 1])

(* tcp_ssl_new_server(): a new session goes to the front.                  *)
Registered(p) == <<[tcp |-> p, gen |-> gen[p] + 1]>> \o sessions

(* find_ssl_pcb(), as a position; tcp_ssl_has().                           *)
Places(p) == {i \in 1..Len(sessions) : sessions[i].tcp = p}
Find(p) == CHOOSE i \in Places(p) : \A j \in Places(p) : i <= j
tcp_ssl_has(p) == Places(p) # {}

tcp_ssl_free(p) ==
    IF tcp_ssl_has(p)
      THEN SubSeq(sessions, 1, Find(p) - 1) \o SubSeq(sessions, Find(p) + 1, Len(sessions))
      ELSE sessions

TlsInit ==
    /\ Init
    /\ sessions = <<>>
    /\ gen = [p \in Conns |-> 0]
    /\ uses = [p \in Conns |-> FALSE]
    /\ certs = NoCerts

-----------------------------------------------------------------------------
(* beginSecure(): tcp_ssl_new_server_ctx() fails without a certificate, or *)
(* without a key (ok is FALSE), and deletes what it made.                  *)
TlsBeginSecure(pem, ok) ==
    /\ srv.alive /\ ~srv.ctx
    /\ LET r == parse_certificates(pem) IN
       /\ r.buf => certs.cut < MaxCut
       /\ IF r.chain = 0 \/ ~ok
            THEN certs' = Freed(Parsed(r)) /\ UNCHANGED vars
            ELSE certs' = Parsed(r) /\ BeginSecure
    /\ UNCHANGED <<sessions, gen, uses>>

(* onClient is called for p; the handler keeps it, ends it or ends the     *)
(* server.                                                                 *)
Handled(p) ==
    \/ HandlerEnds(p) /\ UNCHANGED <<srv, lst>>
    \/ /\ Answer(p, Kind, "ERR_OK")
       /\ \/ "keep" \in HandlerDoes /\ UNCHANGED <<srv, lst>>
          \/ "end" \in HandlerDoes /\ Finish(srv)

(* The AsyncClient got no session and has closed p in its constructor;     *)
(* onClient is called all the same, with nothing left to close.            *)
HandledClosed(p) ==
    /\ \E st \in Gone : Answer(p, st, "ERR_OK")
    /\ \/ UNCHANGED <<srv, lst>>
       \/ "end" \in HandlerDoes /\ Finish(srv)

TlsAccept(l, p) ==
    /\ lst[l].st = "listening" /\ lst[l].arg /\ con[p] = "none" /\ gen[p] < MaxGen
    /\ gen' = [gen EXCEPT ![p] = @ + 1]
    /\ \/ Refuse(p) /\ UNCHANGED <<srv, lst, sessions>>
       \/ srv.cb /\ ~srv.ctx /\ Handled(p) /\ UNCHANGED sessions
       \/ srv.cb /\ srv.ctx /\ Handled(p) /\ sessions' = Registered(p)
       \/ srv.cb /\ srv.ctx /\ HandledClosed(p) /\ UNCHANGED sessions
    /\ AfterFinish
    /\ UNCHANGED uses

(* The application copies the client it was given (operator=).             *)
Copy(p) ==
    /\ con[p] \in {"plain", "tls"}
    /\ uses' = [uses EXCEPT ![p] = tcp_ssl_has(p)]
    /\ UNCHANGED <<vars, sessions, gen, certs>>

(* The client closes, aborts or fails: the session goes if _use_tls.       *)
ClientEnds(p) ==
    /\ con[p] \in {"plain", "tls"}
    /\ \E st \in Gone : con' = [con EXCEPT ![p] = st]
    /\ sessions' = IF uses[p] THEN tcp_ssl_free(p) ELSE sessions
    /\ UNCHANGED <<srv, lst, ret, gen, uses, certs>>

(* lwIP hands the memory of p out again, to a client made anew.            *)
Recycle(p) ==
    /\ con[p] \in Gone
    /\ con' = [con EXCEPT ![p] = "none"]
    /\ uses' = [uses EXCEPT ![p] = FALSE]
    /\ UNCHANGED <<srv, lst, ret, sessions, gen, certs>>

-----------------------------------------------------------------------------
TlsNext ==
    \/ (OnClient \/ Begin \/ End \/ Delete) /\ AfterFinish /\ UNCHANGED <<sessions, gen, uses>>
    \/ \E pem \in Pems, ok \in BOOLEAN : TlsBeginSecure(pem, ok)
    \/ \E p \in Conns :
         \/ \E l \in Listeners : TlsAccept(l, p)
         \/ Copy(p) \/ ClientEnds(p) \/ Recycle(p)

TlsSpec == TlsInit /\ [][TlsNext]_serverVars

-----------------------------------------------------------------------------
(* A certificate buffer is part of the context or has been freed, on every *)
(* path through parse_certificates() and beginSecure(), and none is freed  *)
(* twice.  (Except the last one of a PEM text that is cut off.)            *)
CertsOwned ==
    /\ certs.live = certs.chain + certs.cut
    /\ certs.chain > 0 <=> srv.ctx

(* For an open TLS connection find_ssl_pcb() finds its own session, also   *)
(* when an older one for the same pcb is still in the list.                *)
SessionFound ==
    \A p \in Conns :
        con[p] = "tls" => tcp_ssl_has(p) /\ sessions[Find(p)].gen = gen[p]

(* A session is in the list only while its connection is open.             *)
SessionsActive ==
    \A i \in 1..Len(sessions) :
        con[sessions[i].tcp] = "tls" /\ sessions[i].gen = gen[sessions[i].tcp]

=============================================================================
