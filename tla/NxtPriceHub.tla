---------------------------- MODULE NxtPriceHub ----------------------------
(***************************************************************************)
(* _NxtPriceWsHub of part02_list_theme_market.py: the clients of           *)
(* /ws/nxt-prices and the codes they make the NXT realtime hub hold.  The  *)
(* hub of clients runs on the event loop: what it does between two awaits  *)
(* is one step.  _KIS_NXT_RT_HUB.set_codes only forwards to _KIS_RT_HUB,   *)
(* whose set it replaces; it runs in a worker thread, after _lock is       *)
(* released except when the last client leaves.                            *)
(***************************************************************************)
EXTENDS CodeSet

CONSTANTS
    Viewers,     \* websocket connections, each with a client id of its own
    MaxViewers,  \* _max_clients
    Wishes,      \* the sets of codes a viewer may subscribe
    Nobody,      \* no connection
    MaxAsks      \* bound: subscribe messages of one connection

VARIABLES
    entry,    \* the connections in self._clients
    asked,    \* asked[v]: the "codes" of v's entry
    route,    \* route[v]: where the coroutine of v's websocket stands
    write,    \* write[v]: the argument of the set_codes call v awaits
    holder,   \* who holds _lock across an await
    asks,     \* history: asks[v]: subscribe messages of v so far
    overlap   \* history: the last set_codes call to start did not run alone

ownVars == <<entry, asked, route, write, holder, asks, overlap>>
nxtVars == <<codes, ownVars>>

Union(vs) == UNION {asked[v] : v \in vs}

\* A set_codes call of the hub of clients that has not returned.
Writing(v) == route[v] \in {"ask", "bye"}

NxtTypeOK ==
    /\ codes \in SUBSET Codes
    /\ entry \in SUBSET Viewers
    /\ asked \in [Viewers -> SUBSET Codes]
    /\ route \in [Viewers -> {"new", "busy", "accept", "loop", "ask", "left", "bye", "gone"}]
    /\ write \in [Viewers -> SUBSET Codes]
    /\ holder \in Viewers \cup {Nobody}
    /\ asks \in [Viewers -> 0 .. MaxAsks]
    /\ overlap \in BOOLEAN

\* A connection that is gone from the start stands for one that never opens.
NxtInit ==
    /\ codes = {} /\ entry = {} /\ holder = Nobody
    /\ asked = [v \in Viewers |-> {}]
    /\ route \in [Viewers -> {"new", "gone"}]
    /\ write = [v \in Viewers |-> {}]
    /\ asks = [v \in Viewers |-> 0] /\ overlap = FALSE

-----------------------------------------------------------------------------
Goto(v, where) == route' = [route EXCEPT ![v] = where]

\* connect: registered before accept, or refused while the lock is held.
Connect(v) ==
    /\ route[v] = "new"
    /\ holder = Nobody
    /\ \/ /\ Cardinality(entry) >= MaxViewers
          /\ holder' = v
          /\ Goto(v, "busy")
          /\ UNCHANGED entry
       \/ /\ Cardinality(entry) < MaxViewers
          /\ entry' = entry \cup {v}
          /\ Goto(v, "accept")
          /\ UNCHANGED holder
    /\ UNCHANGED <<codes, asked, write, asks, overlap>>

\* accept, the "busy" message and close are awaited under the lock.
Refuse(v) ==
    /\ route[v] = "busy"
    /\ holder' = Nobody
    /\ Goto(v, "gone")
    /\ UNCHANGED <<codes, entry, asked, write, asks, overlap>>

\* accept and the "connected" message; when either raises, nobody calls
\* disconnect: the entry stays until a broadcast to it fails.
Accept(v) ==
    /\ route[v] = "accept"
    /\ route' \in {[route EXCEPT ![v] = "loop"], [route EXCEPT ![v] = "gone"]}
    /\ UNCHANGED <<codes, entry, asked, write, holder, asks, overlap>>

\* Starting a set_codes call with the codes cs.
StartWrite(v, cs, where) ==
    /\ write' = [write EXCEPT ![v] = cs]
    /\ overlap' = \E w \in Viewers \ {v} : Writing(w)
    /\ Goto(v, where)

\* update_codes: the union is taken under the lock and written without it.
Subscribe(v, cs) ==
    /\ route[v] = "loop"
    /\ holder = Nobody
    /\ asks[v] < MaxAsks
    /\ asks' = [asks EXCEPT ![v] = @ + 1]
    /\ \/ /\ v \in entry
          /\ asked' = [asked EXCEPT ![v] = cs]
          /\ StartWrite(v, UNION {asked'[w] : w \in entry}, "ask")
       \/ /\ v \notin entry
          /\ UNCHANGED <<asked, write, route, overlap>>
    /\ UNCHANGED <<codes, entry, holder>>

\* The client goes away: receive_text raises and the route calls disconnect.
Leave(v) ==
    /\ route[v] = "loop"
    /\ Goto(v, "left")
    /\ UNCHANGED <<codes, entry, asked, write, holder, asks, overlap>>

\* Mutant: the union is taken before the entry is removed.
DisconnectLate(v) ==
    /\ route[v] = "left"
    /\ holder = Nobody
    /\ entry' = entry \ {v}
    /\ asked' = [asked EXCEPT ![v] = {}]
    /\ holder' = IF entry' = {} THEN v ELSE Nobody
    /\ StartWrite(v, Union(entry), "bye")
    /\ UNCHANGED <<codes, asks>>

\* disconnect: the last one to leave keeps the lock while it empties the hub.
Disconnect(v) ==
    /\ route[v] = "left"
    /\ holder = Nobody
    /\ entry' = entry \ {v}
    /\ asked' = [asked EXCEPT ![v] = {}]
    /\ holder' = IF entry' = {} THEN v ELSE Nobody
    /\ StartWrite(v, Union(entry'), "bye")
    /\ UNCHANGED <<codes, asks>>

\* The worker thread runs set_codes and the call returns.
SetCodes(v) ==
    /\ Writing(v)
    /\ Replace(write[v])
    /\ write' = [write EXCEPT ![v] = {}]
    /\ Goto(v, IF route[v] = "ask" THEN "loop" ELSE "gone")
    /\ holder' = IF holder = v THEN Nobody ELSE holder
    /\ UNCHANGED <<entry, asked, asks, overlap>>

\* _run: a client to which the broadcast fails is dropped; its websocket is
\* not closed, its codes stay in the hub.
Prune(v) ==
    /\ holder = Nobody
    /\ v \in entry
    /\ asked[v] # {}
    /\ entry' = entry \ {v}
    /\ UNCHANGED <<codes, asked, route, write, holder, asks, overlap>>

NxtStep(v) == Refuse(v) \/ Accept(v) \/ Disconnect(v) \/ SetCodes(v)

NxtNext == \E v \in Viewers :
    \/ Connect(v) \/ Refuse(v) \/ Accept(v) \/ Leave(v) \/ Disconnect(v) \/ SetCodes(v)
    \/ Prune(v)
    \/ \E cs \in Wishes : Subscribe(v, cs)

NxtSpec == NxtInit /\ [][NxtNext]_nxtVars
-----------------------------------------------------------------------------
(* Properties.                                                             *)

\* When the last set_codes call to start ran alone and has returned, the
\* realtime hub holds every code of a registered client, and no code that
\* neither a client nor a dropped connection asked for: the unions that
\* update_codes and disconnect take under _lock miss nothing (part02 165-207).
ViewersCovered ==
    (~overlap /\ \A v \in Viewers : ~Writing(v)) =>
        /\ codes \subseteq Union(Viewers)
        /\ Cardinality(Union(Viewers)) <= MaxCodes => Union(entry) \subseteq codes
=============================================================================
