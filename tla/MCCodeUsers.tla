---------------------------- MODULE MCCodeUsers ----------------------------
(***************************************************************************)
(* A hub and the two groups of users of a hub's code set: `part', chosen   *)
(* in the initial state, says whether the order book hub's requests and    *)
(* sweeper run (SubLedger), the users of the executions hub                *)
(* (RealtimeViewers), or one caller of the executions hub with its thread, *)
(* its sessions and both TR ids (KisHub).  The parts share no variable;    *)
(* those that do not run rest in their initial states.                     *)
(***************************************************************************)
EXTENDS SubLedger, TLC

CONSTANTS A, B, C, n1, n2, v1, v2, v3, Runner, Nobody, caller, hub

\* What stands for nothing is neither the hub nor a connection.
ASSUME NamesAssumption == None # hub /\ None \notin Nat

VARIABLES
    part,
    rtCodes, clients, requested, idle, shut, conn, sync, last, age, run, active, taken,
    staleReaders, events, entry, asked, route, write, holder, asks, overlap,
    hubCodes, ws, loop, key, thread, alive, hubPc, rem, add, ens, cws, cloop, post,
    hpc, session, subscribed, toAdd, toDel, wanted, open, upstream, nextConn, sched,
    hubCalls, faults, hubOverlap, calm

RT == INSTANCE RealtimeViewers WITH
        Codes <- {A, B, C}, MaxCodes <- 2, codes <- rtCodes, stale <- staleReaders,
        Readers <- {n1, n2}, Lists <- {{C}}, Base <- {A, B}, MaxReaders <- 2, MaxEvents <- 2,
        Viewers <- {v1, v2, v3}, MaxViewers <- 2, Wishes <- {{A}, {B}}, MaxAsks <- 1

KH == INSTANCE KisHub WITH
        Codes <- {A, B}, MaxCodes <- 1, Callers <- {caller}, Hubs <- {hub}, NumTr <- 2,
        MaxCalls <- 3, MaxConns <- 4, MaxFaults <- 1,
        codes <- hubCodes, pc <- hubPc, conn <- session, calls <- hubCalls, overlap <- hubOverlap

rtVars  == <<rtCodes, clients, requested, idle, shut, conn, sync, last, age, run, active,
             taken, staleReaders, events, entry, asked, route, write, holder, asks, overlap>>
hubVars == <<hubCodes, ws, loop, key, thread, alive, hubPc, rem, add, ens, cws, cloop, post,
             hpc, session, subscribed, toAdd, toDel, wanted, open, upstream, nextConn, sched,
             hubCalls, faults, hubOverlap, calm>>
allVars == <<part, vars, rtVars, hubVars>>

\* Who opens a connection: two readers, one of each kind, or three viewers for
\* the two places of their hub.
Present(readers, viewers) ==
    /\ \A r \in {n1, n2} : conn[r] = "new" <=> r \in readers
    /\ \A v \in {v1, v2, v3} : route[v] = "new" <=> v \in viewers

UsersInit ==
    /\ part \in {"ledger", "viewers", "hub"}
    /\ Init
    /\ RT!Init
    /\ KH!Init
    /\ IF part = "viewers"
       THEN \/ events = 0 /\ Present({n1}, {})
            \/ /\ events = 1
               /\ Present({n1, n2}, {}) \/ Present({n1}, {v1})
            \/ events = 2 /\ Present({}, {v1, v2, v3})
       ELSE events = 0 /\ Present({}, {})

UsersNext ==
    \/ part = "ledger" /\ Next /\ UNCHANGED <<part, rtVars, hubVars>>
    \/ part = "viewers" /\ RT!Next /\ UNCHANGED <<part, vars, hubVars>>
    \/ part = "hub" /\ KH!Next /\ UNCHANGED <<part, vars, rtVars>>

\* A step of a coroutine other than the task _run.
Coroutine ==
    \/ (\E r \in {n1, n2} : RT!RouteStep(r)) /\ RT!Interfere
    \/ (\E a \in RT!Syncers \ {Runner} : RT!SyncStep(a)) /\ RT!Interfere
    \/ RT!NewsRests /\ \E v \in {v1, v2, v3} : RT!NXT!NxtStep(v)

\* The fairness of each specification, for the part that runs.  A behaviour has
\* finitely many steps of coroutines other than _run, and _run takes one step
\* after the other: one condition for each says of all what a condition for
\* every one of them would.
UsersFairness ==
    /\ WF_vars(part = "ledger" /\ Tick) /\ WF_vars(part = "ledger" /\ Sweeper)
    /\ \A c \in Clients : WF_vars(part = "ledger" /\ FinishRequest(c))
    /\ WF_rtVars(part = "viewers" /\ Coroutine)
    /\ WF_rtVars(part = "viewers" /\ (RT!RunStep \/ RT!SyncStep(Runner)) /\ RT!Interfere)
    /\ WF_rtVars(part = "viewers" /\ RT!Age /\ RT!Interfere)
    /\ WF_hubVars(part = "hub" /\ KH!CallStep(caller))
    /\ WF_hubVars(part = "hub" /\ KH!HubStep(hub))
    /\ WF_hubVars(part = "hub" /\ KH!RunScheduled(hub))

UsersSpec == UsersInit /\ [][UsersNext]_allVars /\ UsersFairness

-----------------------------------------------------------------------------
\* The type invariants of the parts.
UsersTypeOK == TypeOK /\ RT!NewsTypeOK /\ RT!NXT!NxtTypeOK /\ KH!TypeOK

\* The properties of the viewers and of the hub, under the names of their
\* modules.
ViewersCovered   == RT!NXT!ViewersCovered
SessionsConverge == KH!SessionsConverge
PeerConverges    == KH!PeerConverges
=============================================================================
