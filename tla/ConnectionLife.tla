--------------------------- MODULE ConnectionLife ---------------------------
(***************************************************************************)
(* What an AsyncClient promises its application about connections: it has  *)
(* at most one at a time, none comes back, and the end of each, and of     *)
(* each attempt, is announced by onDisconnect exactly once.                *)
(***************************************************************************)
CONSTANT Conns

VARIABLE phase   \* of every connection the client may make

Phases == {"none", "opening", "open", "ended", "announced"}
Live(q) == phase[q] \in {"opening", "open"}

LifeInit ==
    \/ phase = [q \in Conns |-> "none"]
    \/ \E p \in Conns : phase = [q \in Conns |-> IF q = p THEN "open" ELSE "none"]

Become(p, ph) == phase' = [phase EXCEPT ![p] = ph]

Attempt(p) == phase[p] = "none" /\ (\A q \in Conns : ~Live(q)) /\ Become(p, "opening")
Establish(p) == phase[p] = "opening" /\ Become(p, "open")
End(p) == Live(p) /\ Become(p, "ended")
Announce(p) == phase[p] = "ended" /\ Become(p, "announced")
Close(p) == Live(p) /\ Become(p, "announced")

LifeNext ==
    \E p \in Conns : Attempt(p) \/ Establish(p) \/ End(p) \/ Announce(p) \/ Close(p)

LifeSpec == LifeInit /\ [][LifeNext]_phase

=============================================================================
