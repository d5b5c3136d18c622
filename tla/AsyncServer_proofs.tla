-------------------------- MODULE AsyncServer_proofs --------------------------
(***************************************************************************)
(* Proofs about AsyncServer, for every set of pcbs and every onClient      *)
(* handler.                                                                *)
(***************************************************************************)
EXTENDS AsyncServer, TLAPS

ServerType ==
    /\ srv \in Servers
    /\ lst \in [Listeners -> [st : {"unused", "listening"} \cup Gone, arg : BOOLEAN]]

ServerInv == ServerType /\ ListenerOwned

(* begin() leaves at most its own listener, whatever fails on the way.     *)
LEMMA StartKeeps ==
    ASSUME ServerInv, NEW s \in Servers, s.pcb = srv.pcb, s.alive = srv.alive, s.alive, Start(s)
    PROVE  ServerInv'
  <1>1. CASE srv' = s /\ UNCHANGED lst
    BY <1>1 DEF ServerInv, ServerType, ListenerOwned
  <1>2. ASSUME s.pcb = NULL, NEW l \in Listeners,
               \/ lst' = [lst EXCEPT ![l].st = "closed"] /\ srv' = s
               \/ /\ lst' = [lst EXCEPT ![l] = [st |-> "listening", arg |-> TRUE]]
                  /\ srv' = [s EXCEPT !.pcb = l]
        PROVE  ServerInv'
    <2>n. \A m \in Listeners : lst[m].st # "listening" /\ ~lst[m].arg
      BY <1>2, ServerAssumption DEF ServerInv, ListenerOwned
    <2>2. CASE lst' = [lst EXCEPT ![l].st = "closed"] /\ srv' = s
      <3>1. ServerType'
        BY <2>2 DEF ServerInv, ServerType, Gone
      <3>2. \A m \in Listeners : lst'[m].st # "listening" /\ ~lst'[m].arg
        BY <2>n, <2>2 DEF ServerInv, ServerType
      <3> QED
        BY <3>1, <3>2 DEF ServerInv, ListenerOwned
    <2>3. CASE /\ lst' = [lst EXCEPT ![l] = [st |-> "listening", arg |-> TRUE]]
               /\ srv' = [s EXCEPT !.pcb = l]
      <3>1. ServerType'
        BY <2>3 DEF ServerInv, ServerType, Servers, Gone
      <3>2. srv'.pcb = l /\ srv'.alive
        BY <2>3 DEF Servers
      <3>3. /\ lst'[l] = [st |-> "listening", arg |-> TRUE]
            /\ \A m \in Listeners \ {l} : lst'[m].st # "listening" /\ ~lst'[m].arg
        BY <2>n, <2>3 DEF ServerInv, ServerType
      <3> QED
        BY <3>1, <3>2, <3>3 DEF ServerInv, ListenerOwned
    <2> QED
      BY <1>2, <2>2, <2>3
  <1> QED
    BY <1>1, <1>2 DEF Start

(* end() leaves no listener, also when it ends in the destructor or in the *)
(* onClient handler.                                                       *)
LEMMA FinishKeeps ==
    ASSUME ServerInv, NEW s \in Servers, s.pcb = srv.pcb, Finish(s)
    PROVE  ServerInv'
  <1>0. srv' \in Servers
    BY DEF Finish, Servers
  <1>1. lst' \in [Listeners -> [st : {"unused", "listening"} \cup Gone, arg : BOOLEAN]]
    <2>1. CASE s.pcb = NULL
      BY <2>1 DEF Finish, ServerInv, ServerType
    <2>2. CASE s.pcb # NULL
      <3>1. PICK st \in Gone : lst' = [lst EXCEPT ![s.pcb] = [st |-> st, arg |-> FALSE]]
        BY <2>2 DEF Finish
      <3> QED
        BY <3>1 DEF ServerInv, ServerType
    <2> QED
      BY <2>1, <2>2
  <1>2. \A l \in Listeners : lst'[l].st # "listening" /\ ~lst'[l].arg
    BY ServerAssumption DEF ServerInv, ServerType, ListenerOwned, Finish, Gone
  <1> QED
    BY <1>0, <1>1, <1>2 DEF ServerInv, ServerType, ListenerOwned

(* Whatever fails in begin() and wherever end() is called from, lwIP never *)
(* has a listening pcb the server does not own.                            *)
THEOREM ListenersAreOwned == Spec => []ListenerOwned
  <1>1. Init => ServerInv
    BY DEF Init, ServerInv, ServerType, ListenerOwned, Servers
  <1>2. ServerInv /\ [Next]_vars => ServerInv'
    <2> SUFFICES ASSUME ServerInv, [Next]_vars PROVE ServerInv'
      OBVIOUS
    <2>t. srv \in Servers
      BY DEF ServerInv, ServerType
    <2>1. CASE OnClient
      BY <2>1 DEF OnClient, ServerInv, ServerType, ListenerOwned, Servers
    <2>2. CASE Begin
      BY <2>t, <2>2, StartKeeps DEF Begin
    <2>3. CASE BeginSecure
      <3>1. [srv EXCEPT !.ctx = TRUE] \in Servers
        BY <2>t DEF Servers
      <3>2. [srv EXCEPT !.ctx = TRUE].pcb = srv.pcb /\ [srv EXCEPT !.ctx = TRUE].alive = srv.alive
        BY <2>t DEF Servers
      <3> QED
        BY <2>3, <3>1, <3>2, StartKeeps DEF BeginSecure
    <2>4. CASE End
      BY <2>t, <2>4, FinishKeeps DEF End
    <2>5. CASE Delete
      <3>1. [srv EXCEPT !.alive = FALSE] \in Servers
        BY <2>t DEF Servers
      <3>2. [srv EXCEPT !.alive = FALSE].pcb = srv.pcb
        BY <2>t DEF Servers
      <3> QED
        BY <2>5, <3>1, <3>2, FinishKeeps DEF Delete
    <2>6. ASSUME NEW l \in Listeners, NEW p \in Conns, Accept(l, p) PROVE ServerInv'
      <3>1. CASE UNCHANGED <<srv, lst>>
        BY <3>1 DEF ServerInv, ServerType, ListenerOwned
      <3>2. CASE Finish(srv)
        BY <2>t, <3>2, FinishKeeps
      <3> QED
        BY <2>6, <3>1, <3>2 DEF Accept
    <2>7. CASE UNCHANGED vars
      BY <2>7 DEF vars, ServerInv, ServerType, ListenerOwned
    <2> QED
      BY <2>1, <2>2, <2>3, <2>4, <2>5, <2>6, <2>7 DEF Next
  <1>3. ServerInv => ListenerOwned
    BY DEF ServerInv
  <1> QED
    BY <1>1, <1>2, <1>3, PTL DEF Spec

=============================================================================
