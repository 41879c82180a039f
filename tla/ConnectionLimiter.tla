------------------------- MODULE ConnectionLimiter -------------------------
(***************************************************************************)
(* What both servers promise about the connections they serve: never more  *)
(* than MaxConnections at a time, none admitted after the shutdown.        *)
(* SocksServer and HttpProxy are shown to implement this specification.    *)
(***************************************************************************)
EXTENDS Naturals, FiniteSets

CONSTANTS
    Connections,      \* the connections clients may make
    MaxConnections    \* server.maxConcurrentConnections

VARIABLES
    served,           \* the connections whose resources the server still holds
    admitting         \* is the server still taking connections?

LimiterInit == served = {} /\ admitting = TRUE

Admit(c) ==
    /\ admitting
    /\ c \notin served
    /\ Cardinality(served) < MaxConnections
    /\ served' = served \cup {c}
    /\ UNCHANGED admitting

Leave(c) ==
    /\ c \in served
    /\ served' = served \ {c}
    /\ UNCHANGED admitting

Shutdown ==
    /\ admitting
    /\ admitting' = FALSE
    /\ UNCHANGED served

LimiterNext ==
    \/ \E c \in Connections : Admit(c) \/ Leave(c)
    \/ Shutdown

LimiterSpec == LimiterInit /\ [][LimiterNext]_<<served, admitting>>

\* What follows from it, and what the proofs use: the connections served are
\* never more than the limit.
WithinLimit == IsFiniteSet(served) /\ Cardinality(served) <= MaxConnections
=============================================================================
