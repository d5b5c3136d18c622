----------------------------- MODULE AsyncServer -----------------------------
(***************************************************************************)
(* AsyncServer (ESPAsyncTCPServer.{h,cpp}): owns at most one listening     *)
(* pcb, and for a secure server a TLS context; wraps every connection lwIP *)
(* accepts in an AsyncClient and hands it to the application's onClient    *)
(* handler, from within lwIP's accept callback.                            *)
(***************************************************************************)
EXTENDS Integers, FiniteSets

CONSTANTS
    Listeners,   \* pcbs for listening
    Conns,       \* pcbs of incoming connections
    NULL,        \* the null pointer
    HandlerDoes  \* what onClient may do: "keep", "close" (now), "abort", "end"

ASSUME ServerAssumption ==
    /\ NULL \notin Listeners \cup Conns
    /\ HandlerDoes \subseteq {"keep", "close", "abort", "end"}

VARIABLES
    srv,   \* the AsyncServer's members
    lst,   \* lwIP's side of the listening pcbs: state, and whether arg is set
    con,   \* what became of the incoming connections
    ret    \* the last value _s_accept() returned, and for which pcb

vars == <<srv, lst, con, ret>>

-----------------------------------------------------------------------------
Servers == [alive : BOOLEAN, pcb : Listeners \cup {NULL}, ctx : BOOLEAN, cb : BOOLEAN]
Gone == {"closed", "aborted"}

Init ==
    /\ srv = [alive |-> TRUE, pcb |-> NULL, ctx |-> FALSE, cb |-> FALSE]
    /\ lst = [l \in Listeners |-> [st |-> "unused", arg |-> FALSE]]
    /\ con = [p \in Conns |-> "none"]
    /\ ret = [p |-> NULL, value |-> "ERR_OK"]

OnClient ==
    /\ srv.alive
    /\ srv' = [srv EXCEPT !.cb = TRUE]
    /\ UNCHANGED <<lst, con, ret>>

(* Mutant: does not look whether the server listens already.               *)
StartAgain(s) ==
    \/ srv' = s /\ UNCHANGED lst
    \/ \E l \in Listeners :
         /\ lst[l].st = "unused"
         /\ lst' = [lst EXCEPT ![l] = [st |-> "listening", arg |-> TRUE]]
         /\ srv' = [s EXCEPT !.pcb = l]

(* begin(): nothing when listening; tcp_new_ip_type() may fail, and so may *)
(* tcp_bind() and tcp_listen(), after which the pcb is closed.             *)
Start(s) ==
    \/ srv' = s /\ UNCHANGED lst
    \/ /\ s.pcb = NULL
       /\ \E l \in Listeners :
            /\ lst[l].st = "unused"
            /\ \/ /\ lst' = [lst EXCEPT ![l].st = "closed"]
                  /\ srv' = s
               \/ /\ lst' = [lst EXCEPT ![l] = [st |-> "listening", arg |-> TRUE]]
                  /\ srv' = [s EXCEPT !.pcb = l]

Begin ==
    /\ srv.alive
    /\ Start(srv)
    /\ UNCHANGED <<con, ret>>

(* beginSecure(): nothing when there is a context, even if it does not     *)
(* listen.  (A context that cannot be made changes nothing.)               *)
BeginSecure ==
    /\ srv.alive /\ ~srv.ctx
    /\ Start([srv EXCEPT !.ctx = TRUE])
    /\ UNCHANGED <<con, ret>>

(* end(): detaches and closes the listening pcb, or aborts it.             *)
Finish(s) ==
    /\ srv' = [s EXCEPT !.pcb = NULL, !.ctx = FALSE]
    /\ \/ s.pcb = NULL /\ UNCHANGED lst
       \/ s.pcb # NULL /\ \E st \in Gone :
            lst' = [lst EXCEPT ![s.pcb] = [st |-> st, arg |-> FALSE]]

End ==
    /\ srv.alive
    /\ Finish(srv)
    /\ UNCHANGED <<con, ret>>

Delete ==
    /\ srv.alive
    /\ Finish([srv EXCEPT !.alive = FALSE])
    /\ UNCHANGED <<con, ret>>

-----------------------------------------------------------------------------
(* _s_accept() for a new pcb p.  (Called without a pcb or with an error it *)
(* returns ERR_OK and changes nothing.)                                    *)

Answer(p, st, value) ==
    /\ con' = [con EXCEPT ![p] = st]
    /\ ret' = [p |-> p, value |-> value]

(* Nobody to take it, or no memory for an AsyncClient.                     *)
Refuse(p) == Answer(p, "closed", "ERR_OK") \/ Answer(p, "aborted", "ERR_ABRT")

(* The onClient handler ends the connection: the AsyncClient's pcb is      *)
(* closed or aborted, and _accept() returns ERR_OK all the same.           *)
HandlerEnds(p) ==
    \/ "close" \in HandlerDoes /\ \E st \in Gone : Answer(p, st, "ERR_OK")
    \/ "abort" \in HandlerDoes /\ Answer(p, "aborted", "ERR_OK")

Kind == IF srv.ctx THEN "tls" ELSE "plain"

Accept(l, p) ==
    /\ lst[l].st = "listening" /\ lst[l].arg /\ con[p] = "none"
    /\ \/ Refuse(p) /\ UNCHANGED <<srv, lst>>
       \/ srv.cb /\ HandlerEnds(p) /\ UNCHANGED <<srv, lst>>
       \/ /\ srv.cb /\ Answer(p, Kind, "ERR_OK")
          /\ \/ "keep" \in HandlerDoes /\ UNCHANGED <<srv, lst>>
             \/ "end" \in HandlerDoes /\ Finish(srv)

-----------------------------------------------------------------------------
Next ==
    \/ OnClient \/ Begin \/ BeginSecure \/ End \/ Delete
    \/ \E l \in Listeners, p \in Conns : Accept(l, p)

Spec == Init /\ [][Next]_vars

-----------------------------------------------------------------------------
(* Every listening pcb in lwIP is the one the living server has in _pcb:   *)
(* a deleted or restarted server leaves none behind that would call it.    *)
ListenerOwned ==
    \A l \in Listeners :
        lst[l].st = "listening" \/ lst[l].arg =>
            srv.alive /\ srv.pcb = l /\ lst[l] = [st |-> "listening", arg |-> TRUE]

=============================================================================
