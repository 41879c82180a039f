---------------------------- MODULE HttpSession ----------------------------
(***************************************************************************)
(* HttpSession.ts: an accepted request is an HttpSession, an accepted      *)
(* CONNECT an HttpsSession; the one is modelled in HttpExchange, the other *)
(* in HttpTunnel.                                                          *)
(***************************************************************************)
EXTENDS HttpTunnel, HttpExchange

VARIABLE class

sessionVars == <<class, tunnelVars, exchangeVars>>

HttpSessionInit ==
    /\ class \in {"HttpSession", "HttpsSession"}
    /\ TunnelInit
    /\ ExchangeInit

ServesTunnel ==
    /\ class = "HttpsSession"
    /\ TunnelNext
    /\ UNCHANGED <<class, exchangeVars>>

ServesExchange ==
    /\ class = "HttpSession"
    /\ ExchangeNext
    /\ UNCHANGED <<class, tunnelVars>>

HttpSessionNext == ServesTunnel \/ ServesExchange

HttpSessionSpec == HttpSessionInit /\ [][HttpSessionNext]_sessionVars

\* The fairness of the session there is.
FairHttpSessionSpec ==
    /\ HttpSessionSpec
    /\ class = "HttpsSession" => TunnelFairness
    /\ class = "HttpSession" => ExchangeFairness

\* The inductive invariant of the proofs.
HttpSessionInv == class \in {"HttpSession", "HttpsSession"} /\ TunnelInv /\ ExchangeInv
=============================================================================
