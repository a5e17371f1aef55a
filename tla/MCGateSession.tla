--------------------------- MODULE MCGateSession ----------------------------
EXTENDS GateSession

CONSTANTS e1, e2

MCEntity == {e1, e2}

\* nothing in the gate, the game or the messages names an entity
Untouched ==
    /\ logins = {} /\ connMap = {} /\ \A e \in Entity : client[e] = 0
    /\ \A c \in Client : clientToGame[c] = none
    /\ unread = <<>> /\ \A k \in Link : toGate[k] = <<>>

\* The entities are interchangeable, so the first one that a login takes may be e1.
\* Only the choice is cut: a login that can be handled can still be handled.
FirstIsE1 == Untouched => \A e \in Entity \ {e1} : \A c \in Client : <<c, e>> \notin logins'
=============================================================================
