-------------------------- MODULE RealtimeViewers --------------------------
(***************************************************************************)
(* The users of the one code set of _KIS_RT_HUB: the clients of            *)
(* /ws/news-prices (NewsPriceHub), those of /ws/nxt-prices (NxtPriceHub,   *)
(* through the proxy _KisNxtRtHub) and the HTTP handlers that ask for a    *)
(* code (_ensure_rt_subscription).  Each replaces or extends the set as if *)
(* it were its own.                                                        *)
(***************************************************************************)
EXTENDS NewsPriceHub

CONSTANTS Viewers, MaxViewers, Wishes, Nobody, MaxAsks  \* see NxtPriceHub

VARIABLES entry, asked, route, write, holder, asks, overlap  \* see NxtPriceHub

NXT == INSTANCE NxtPriceHub

viewerVars == <<codes, newsOwn, NXT!ownVars>>

\* A code set changed by another user than the NXT clients has interfered with
\* what they wrote.
Interfere ==
    /\ overlap' = (overlap \/ codes' # codes)
    /\ UNCHANGED <<entry, asked, route, write, holder, asks>>

\* _ensure_rt_subscription: an HTTP handler adds the code it is asked for.
EnsureSubscription(x) ==
    /\ x \notin codes
    /\ Event
    /\ Add(x)
    /\ UNCHANGED <<clients, requested, idle, shut, conn, sync, last, age, run, active, taken,
                   stale>>

\* A step of the NXT clients or of their set_codes calls.
NewsRests == UNCHANGED <<clients, requested, idle, shut, conn, sync, last, age, run, active, taken,
                         stale, events>>

Init == NewsInit /\ NXT!NxtInit

Next ==
    \/ NewsNext /\ Interfere
    \/ \E x \in Codes : EnsureSubscription(x) /\ Interfere
    \/ NXT!NxtNext /\ NewsRests

Fairness ==
    /\ \A r \in Readers : WF_viewerVars(RouteStep(r) /\ Interfere)
    /\ \A a \in Syncers : WF_viewerVars(SyncStep(a) /\ Interfere)
    /\ WF_viewerVars(RunStep /\ Interfere) /\ WF_viewerVars(Age /\ Interfere)
    /\ \A v \in Viewers : WF_viewerVars(NXT!NxtStep(v) /\ NewsRests)

Spec == Init /\ [][Next]_viewerVars
FairSpec == Spec /\ Fairness
=============================================================================
