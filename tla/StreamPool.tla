----------------------------- MODULE StreamPool -----------------------------
(***************************************************************************)
(* What a connection pool promises to those who share its connections: a   *)
(* caller has a seat on one connection, which is being dialled or usable,  *)
(* with at most MaxStream others; there are at most MaxConn of them; the   *)
(* pool takes no connection away from a caller that has a seat on it, but  *)
(* when it is shut or another caller has found the connection dead.        *)
(* Connections may end by themselves, and seats on them are given back     *)
(* like any other.  Module ConnPool is shown to implement this             *)
(* specification.                                                          *)
(***************************************************************************)
EXTENDS Naturals, FiniteSets

CONSTANTS Conn, Stream, None, MaxConn, MaxStream

VARIABLES
    offer,            \* offer[c]: "out", "dialing" or "usable"
    seat,             \* seat[s]: the connection caller s has a seat on, or None
    shut

poolVars == <<offer, seat, shut>>

PoolInit ==
    /\ offer = [c \in Conn |-> "out"]
    /\ seat = [s \in Stream |-> None]
    /\ shut = FALSE

Seated(c) == {s \in Stream : seat[s] = c}

Offered == {c \in Conn : offer[c] # "out"}

Sit(s, c) ==
    /\ ~shut
    /\ seat[s] = None
    /\ seat' = [seat EXCEPT ![s] = c]
    /\ UNCHANGED shut

Dial(s, c) ==
    /\ offer[c] = "out" /\ Seated(c) = {}
    /\ MaxConn > 0 => Cardinality(Offered) < MaxConn
    /\ offer' = [offer EXCEPT ![c] = "dialing"]
    /\ Sit(s, c)

Join(s, c) ==
    /\ c \in Offered
    /\ Cardinality(Seated(c)) < MaxStream
    /\ Sit(s, c)
    /\ UNCHANGED offer

(* The dial succeeds or fails; a connection ends.                          *)
Changes(c) ==
    /\ c \in Offered
    /\ \/ offer[c] = "dialing" /\ offer' = [offer EXCEPT ![c] = "usable"]
       \/ offer' = [offer EXCEPT ![c] = "out"]
    /\ UNCHANGED <<seat, shut>>

Without(X) == [c \in Conn |-> IF c \in X THEN "out" ELSE offer[c]]

(* A caller gets up, and the pool closes connections nobody is left on.    *)
Leave(s, X) ==
    /\ seat[s] # None
    /\ seat' = [seat EXCEPT ![s] = None]
    /\ \A c \in X : offer[c] = "usable" /\ Seated(c) \subseteq {s}
    /\ offer' = Without(X)
    /\ UNCHANGED shut

(* A caller says that its connection is dead.                              *)
Complain(s) ==
    /\ seat[s] # None
    /\ seat' = [seat EXCEPT ![s] = None]
    /\ offer' = Without({seat[s]})
    /\ UNCHANGED shut

Shut ==
    /\ ~shut
    /\ shut' = TRUE
    /\ offer' = Without(Conn)
    /\ UNCHANGED seat

PoolNext ==
    \/ \E s \in Stream, c \in Conn : Dial(s, c) \/ Join(s, c)
    \/ \E c \in Conn : Changes(c)
    \/ \E s \in Stream : Complain(s) \/ \E X \in SUBSET Conn : Leave(s, X)
    \/ Shut

PoolSpec == PoolInit /\ [][PoolNext]_poolVars
=============================================================================
