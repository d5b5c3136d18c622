---------------------------- MODULE SecureStream ----------------------------
(***************************************************************************)
(* What a TLS session promises its client: the application data of the     *)
(* peer's records, each once, in order and only when all of the record has *)
(* arrived; the end of the handshake at most once; and nothing after a     *)
(* failure.  Data that comes along with the end of the handshake may be    *)
(* handed over before the handshake is reported, but the report follows    *)
(* before anything else arrives: a client that has got data does not take  *)
(* itself for unconnected when it is called the next time.                 *)
(***************************************************************************)
EXTENDS Integers, Sequences

CONSTANTS
    Data,     \* the numbers of the peer's data records
    RecLen    \* the length of a record

VARIABLES arrived, got, up, failed

svars == <<arrived, got, up, failed>>

StreamInit == arrived = 0 /\ got = <<>> /\ ~up /\ ~failed

Arrive ==
    /\ ~failed
    /\ got # <<>> => up
    /\ arrived' \in Nat /\ arrived' > arrived
    /\ UNCHANGED <<got, up, failed>>

Handed == {got[i] : i \in 1..Len(got)}

(* The least data record that was not handed on yet, once it is complete.  *)
Hand ==
    /\ ~failed
    /\ \E r \in Data \ Handed :
        /\ \A q \in Data \ Handed : r <= q
        /\ r * RecLen <= arrived
        /\ got' = Append(got, r)
    /\ UNCHANGED <<arrived, up, failed>>

ComeUp == ~failed /\ ~up /\ up' /\ UNCHANGED <<arrived, got, failed>>
Fail == ~failed /\ failed' /\ UNCHANGED <<arrived, got, up>>

StreamSpec == StreamInit /\ [][Arrive \/ Hand \/ ComeUp \/ Fail]_svars

=============================================================================
