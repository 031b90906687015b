------------------------- MODULE OverseasProxyProofs -------------------------
(***************************************************************************)
(* What holds of the overseas proxy for every number of clients and pairs, *)
(* and however many messages and faults.                                   *)
(***************************************************************************)
EXTENDS OverseasProxy, TLAPS

-----------------------------------------------------------------------------
(* The inductive invariant.                                                *)

\* The task whose message is under way is sending, and has not settled the pair.
FlightPending ==
    flight # None => /\ tpc[flight.task] = "send"
                     /\ flight.pair \in toRemove[flight.task] \cup toAdd[flight.task]

\* While there is no connection nothing is under way.
NothingWithoutLink == lpc \in {"off", "top", "connect"} => flight = None /\ link # "up"

\* On a live connection the peer is ahead of _upstream_pairs by the message
\* under way.
PeerAhead ==
    link = "up" =>
        peer = IF flight = None THEN believed
               ELSE IF flight.pair \in toRemove[flight.task] THEN believed \ {flight.pair}
               ELSE believed \cup {flight.pair}

\* _desired_pairs is up to date, and only open endpoints have demands.
DemandKnown ==
    /\ desired = Union(subs)
    /\ \A c \in Clients : ep[c] # "open" => subs[c] \in {None, {}}

ProxyInv == TypeOK /\ FlightPending /\ NothingWithoutLink /\ PeerAhead /\ DemandKnown

LEMMA InitProxy == Init => ProxyInv
  <1> SUFFICES ASSUME Init PROVE ProxyInv
    OBVIOUS
  <1>1. TypeOK
    <2>1. messages \in 0 .. MaxMessages /\ faults \in 0 .. MaxFaults
      BY BoundAssumption DEF Init
    <2> QED
      BY <2>1 DEF Init, TypeOK, Tasks
  <1>2. DemandKnown
    BY DEF Init, DemandKnown, Union
  <1> QED
    BY <1>1, <1>2 DEF Init, ProxyInv, FlightPending, NothingWithoutLink, PeerAhead

\* What the message under way is made of.
LEMMA FlightFields ==
    ASSUME TypeOK, flight # None
    PROVE  flight.task \in Tasks /\ flight.pair \in Pairs
  BY DEF TypeOK, Flight

\* Demands are sets of pairs, and their union is one.
LEMMA UnionType ==
    ASSUME NEW s \in [Clients -> {None} \cup SUBSET Pairs]
    PROVE  Union(s) \in SUBSET Pairs
  <1>1. \A c \in Clients : s[c] # None => s[c] \in SUBSET Pairs
    OBVIOUS
  <1> QED
    BY <1>1 DEF Union

\* A client without demands makes no difference to the union.
LEMMA UnionSame ==
    ASSUME NEW s, NEW u,
           \A c \in Clients : u[c] = s[c] \/ (s[c] \in {None, {}} /\ u[c] \in {None, {}})
    PROVE  Union(s) = Union(u)
  <1>1. ASSUME NEW x PROVE x \in Union(s) <=> \E c \in Clients : s[c] # None /\ x \in s[c]
    BY DEF Union
  <1>2. ASSUME NEW x PROVE x \in Union(u) <=> \E c \in Clients : u[c] # None /\ x \in u[c]
    BY DEF Union
  <1>3. ASSUME NEW x, NEW c \in Clients PROVE (s[c] # None /\ x \in s[c]) <=>
                                              (u[c] # None /\ x \in u[c])
    <2>1. CASE u[c] = s[c]
      BY <2>1
    <2>2. CASE s[c] \in {None, {}} /\ u[c] \in {None, {}}
      BY <2>2
    <2> QED
      BY <2>1, <2>2
  <1>4. ASSUME NEW x PROVE x \in Union(s) <=> x \in Union(u)
    BY <1>1, <1>2, <1>3
  <1> QED
    BY <1>4

-----------------------------------------------------------------------------
(* The endpoints.                                                          *)

\* A sync that begins disturbs no message under way.
LEMMA SyncBegins ==
    ASSUME ProxyInv, NEW t \in Tasks, NEW b \in BOOLEAN, BeginSync(t, b)
    PROVE  /\ tpc' \in [Tasks -> {"idle", "sync", "send"}]
           /\ removing' \in [Tasks -> BOOLEAN]
           /\ overlap' \in BOOLEAN
           /\ UNCHANGED <<toRemove, toAdd, flight>>
           /\ FlightPending'
  <1>1. /\ tpc[t] = "idle" /\ tpc' = [tpc EXCEPT ![t] = "sync"]
        /\ UNCHANGED <<toRemove, toAdd, flight>>
    BY DEF BeginSync
  <1>2. FlightPending'
    <2> SUFFICES ASSUME flight # None
                 PROVE  /\ tpc'[flight.task] = "send"
                        /\ flight.pair \in toRemove[flight.task] \cup toAdd[flight.task]
      BY <1>1 DEF FlightPending
    <2>1. flight.task \in Tasks /\ flight.task # t
      BY <1>1, FlightFields DEF ProxyInv, FlightPending
    <2> QED
      BY <2>1, <1>1 DEF ProxyInv, FlightPending, TypeOK
  <1> QED
    BY <1>1, <1>2 DEF BeginSync, ProxyInv, TypeOK

LEMMA AddClientStep ==
    ASSUME ProxyInv, NEW c \in Clients, AddClient(c)
    PROVE  ProxyInv'
  <1>1. /\ ep[c] = "off" /\ subs' = [subs EXCEPT ![c] = {}]
        /\ ep' = [ep EXCEPT ![c] = "welcome"]
        /\ lpc' = IF lpc = "off" THEN "top" ELSE lpc
        /\ UNCHANGED <<desired, believed, link, peer, tpc, toRemove, toAdd, removing, flight,
                       dropping, messages, faults, overlap>>
    BY DEF AddClient, syncVars
  <1>2. TypeOK'
    BY <1>1 DEF ProxyInv, TypeOK
  <1>3. FlightPending' /\ PeerAhead'
    BY <1>1 DEF ProxyInv, FlightPending, PeerAhead
  <1>4. NothingWithoutLink'
    BY <1>1 DEF ProxyInv, NothingWithoutLink
  <1>5. \A d \in Clients : /\ subs'[d] = subs[d] \/ (subs[d] \in {None, {}} /\ subs'[d] \in {None, {}})
                           /\ ep'[d] # "open" => subs'[d] \in {None, {}}
    BY <1>1 DEF ProxyInv, TypeOK, DemandKnown
  <1>6. DemandKnown'
    BY <1>1, <1>5, UnionSame DEF ProxyInv, DemandKnown
  <1> QED
    BY <1>2, <1>3, <1>4, <1>6 DEF ProxyInv

LEMMA WelcomeStep ==
    ASSUME ProxyInv, NEW c \in Clients, Welcome(c)
    PROVE  ProxyInv'
  <1>1. /\ ep[c] = "welcome"
        /\ ep' = [ep EXCEPT ![c] = "open"] \/ ep' = [ep EXCEPT ![c] = "gone"]
        /\ UNCHANGED <<subs, desired, believed, link, peer, tpc, toRemove, toAdd, removing,
                       flight, lpc, dropping, messages, overlap>>
        /\ faults' \in 0 .. MaxFaults
    BY BoundAssumption DEF Welcome, syncVars, ProxyInv, TypeOK
  <1>2. TypeOK'
    BY <1>1 DEF ProxyInv, TypeOK
  <1>3. FlightPending' /\ PeerAhead' /\ NothingWithoutLink'
    BY <1>1 DEF ProxyInv, FlightPending, PeerAhead, NothingWithoutLink
  <1>4. DemandKnown'
    BY <1>1 DEF ProxyInv, TypeOK, DemandKnown, Union
  <1> QED
    BY <1>2, <1>3, <1>4 DEF ProxyInv

LEMMA HandleStep ==
    ASSUME ProxyInv, NEW c \in Clients, NEW ps \in SUBSET Pairs, Handle(c, ps)
    PROVE  ProxyInv'
  <1>1. /\ ep[c] = "open" /\ subs' = [subs EXCEPT ![c] = ps]
        /\ desired' = Union(subs') /\ BeginSync(c, FALSE)
        /\ UNCHANGED <<believed, link, peer, ep, lpc, dropping, faults>>
        /\ messages < MaxMessages /\ messages' = messages + 1
    BY DEF Handle
  <1>m. messages' \in 0 .. MaxMessages
    BY <1>1, BoundAssumption DEF ProxyInv, TypeOK
  <1>2. c \in Tasks
    BY DEF Tasks
  <1>3. /\ tpc' \in [Tasks -> {"idle", "sync", "send"}] /\ removing' \in [Tasks -> BOOLEAN]
        /\ overlap' \in BOOLEAN /\ UNCHANGED <<toRemove, toAdd, flight>> /\ FlightPending'
    BY <1>1, <1>2, SyncBegins
  <1>4. subs' \in [Clients -> {None} \cup SUBSET Pairs]
    BY <1>1 DEF ProxyInv, TypeOK
  <1>5. TypeOK'
    BY <1>1, <1>m, <1>3, <1>4, UnionType DEF ProxyInv, TypeOK
  <1>6. PeerAhead' /\ NothingWithoutLink'
    BY <1>1, <1>3 DEF ProxyInv, PeerAhead, NothingWithoutLink
  <1>7. DemandKnown'
    BY <1>1 DEF ProxyInv, TypeOK, DemandKnown
  <1> QED
    BY <1>3, <1>5, <1>6, <1>7 DEF ProxyInv

LEMMA UnknownActionStep ==
    ASSUME ProxyInv, NEW c \in Clients, UnknownAction(c)
    PROVE  ProxyInv'
  <1>1. /\ ep[c] = "open" /\ subs' = [subs EXCEPT ![c] = Asked(c)]
        /\ UNCHANGED <<desired, believed, link, peer, ep, tpc, toRemove, toAdd, removing, flight,
                       lpc, dropping, faults, overlap>>
        /\ messages' \in 0 .. MaxMessages
    BY BoundAssumption DEF UnknownAction, syncVars, ProxyInv, TypeOK
  <1>2. Asked(c) \in SUBSET Pairs /\ (subs[c] = None => Asked(c) = {})
        /\ (subs[c] # None => Asked(c) = subs[c])
    BY DEF Asked, ProxyInv, TypeOK
  <1>3. TypeOK'
    BY <1>1, <1>2 DEF ProxyInv, TypeOK
  <1>4. FlightPending' /\ PeerAhead' /\ NothingWithoutLink'
    BY <1>1 DEF ProxyInv, FlightPending, PeerAhead, NothingWithoutLink
  <1>5. \A d \in Clients : /\ subs'[d] = subs[d] \/ (subs[d] \in {None, {}} /\ subs'[d] \in {None, {}})
                           /\ ep'[d] # "open" => subs'[d] \in {None, {}}
    BY <1>1, <1>2 DEF ProxyInv, TypeOK, DemandKnown
  <1>6. DemandKnown'
    BY <1>1, <1>5, UnionSame DEF ProxyInv, DemandKnown
  <1> QED
    BY <1>3, <1>4, <1>6 DEF ProxyInv

LEMMA RemoveStep ==
    ASSUME ProxyInv, NEW t \in Tasks, NEW c \in Clients, RemoveClient(t, c),
           UNCHANGED <<believed, link, peer, lpc, messages, faults>>,
           dropping' \in {None} \cup Clients,
           ep' = ep \/ ep' = [ep EXCEPT ![c] = "ending"]
    PROVE  ProxyInv'
  <1>1. /\ subs' = [subs EXCEPT ![c] = None] /\ desired' = Union(subs') /\ BeginSync(t, TRUE)
    BY DEF RemoveClient
  <1>2. /\ tpc' \in [Tasks -> {"idle", "sync", "send"}] /\ removing' \in [Tasks -> BOOLEAN]
        /\ overlap' \in BOOLEAN /\ UNCHANGED <<toRemove, toAdd, flight>> /\ FlightPending'
    BY <1>1, SyncBegins
  <1>3. subs' \in [Clients -> {None} \cup SUBSET Pairs]
    BY <1>1 DEF ProxyInv, TypeOK
  <1>4. TypeOK'
    BY <1>1, <1>2, <1>3, UnionType DEF ProxyInv, TypeOK
  <1>5. PeerAhead' /\ NothingWithoutLink'
    BY <1>2 DEF ProxyInv, PeerAhead, NothingWithoutLink
  <1>6. DemandKnown'
    BY <1>1 DEF ProxyInv, TypeOK, DemandKnown
  <1> QED
    BY <1>2, <1>4, <1>5, <1>6 DEF ProxyInv

-----------------------------------------------------------------------------
(* The syncs.                                                              *)

\* What the steps of a sync leave alone.
LEMMA DemandFrame ==
    ASSUME ProxyInv, UNCHANGED <<subs, desired, ep>>
    PROVE  DemandKnown'
  BY DEF ProxyInv, DemandKnown, Union

LEMMA CompareStep ==
    ASSUME ProxyInv, NEW t \in Tasks, Compare(t)
    PROVE  ProxyInv'
  <1>1. /\ tpc[t] = "sync" /\ tpc' = [tpc EXCEPT ![t] = "send"]
        /\ UNCHANGED <<subs, desired, believed, link, peer, ep, removing, flight, lpc, dropping,
                       messages, faults, overlap>>
        /\ \E r, a \in SUBSET Pairs : /\ toRemove' = [toRemove EXCEPT ![t] = r]
                                      /\ toAdd' = [toAdd EXCEPT ![t] = a]
    BY DEF Compare, ProxyInv, TypeOK
  <1>2. TypeOK'
    BY <1>1 DEF ProxyInv, TypeOK
  <1>3. flight # None => /\ flight.task \in Tasks /\ flight.task # t
                         /\ tpc'[flight.task] = tpc[flight.task]
                         /\ toRemove'[flight.task] = toRemove[flight.task]
                         /\ toAdd'[flight.task] = toAdd[flight.task]
    BY <1>1, FlightFields DEF ProxyInv, FlightPending, TypeOK
  <1>4. FlightPending' /\ PeerAhead' /\ NothingWithoutLink'
    BY <1>1, <1>3 DEF ProxyInv, FlightPending, PeerAhead, NothingWithoutLink
  <1> QED
    BY <1>1, <1>2, <1>4, DemandFrame DEF ProxyInv

LEMMA SendStep ==
    ASSUME ProxyInv, NEW t \in Tasks, Send(t)
    PROVE  ProxyInv'
  <1>1. /\ tpc[t] = "send" /\ flight = None /\ link = "up"
        /\ UNCHANGED <<subs, desired, believed, link, ep, tpc, toRemove, toAdd, removing, lpc,
                       dropping, messages, faults, overlap>>
    BY DEF Send, syncVars
  <1>2. PICK p \in Todo(t) : /\ flight' = [task |-> t, pair |-> p]
                             /\ peer' = IF p \in toRemove[t] THEN peer \ {p} ELSE peer \cup {p}
    BY DEF Send
  <1>3. p \in Pairs /\ p \in toRemove[t] \cup toAdd[t]
    BY <1>2 DEF Todo, ProxyInv, TypeOK
  <1>4. flight' \in Flight /\ flight' # None /\ flight'.task = t /\ flight'.pair = p
    BY <1>2, <1>3, FlightAssumption DEF Flight
  <1>5. peer = believed
    BY <1>1 DEF ProxyInv, PeerAhead
  <1>6. TypeOK'
    BY <1>1, <1>2, <1>3, <1>4 DEF ProxyInv, TypeOK
  <1>7. FlightPending' /\ PeerAhead'
    BY <1>1, <1>2, <1>3, <1>4, <1>5 DEF FlightPending, PeerAhead
  <1>8. NothingWithoutLink'
    BY <1>1 DEF ProxyInv, NothingWithoutLink
  <1> QED
    BY <1>1, <1>6, <1>7, <1>8, DemandFrame DEF ProxyInv

LEMMA SentStep ==
    ASSUME ProxyInv, NEW t \in Tasks, Sent(t)
    PROVE  ProxyInv'
  <1> DEFINE p == flight.pair
  <1>1. /\ flight # None /\ flight.task = t /\ Believe(t, p) /\ flight' = None
        /\ UNCHANGED <<subs, desired, link, peer, ep, tpc, removing, lpc, dropping, messages,
                       faults, overlap>>
    BY DEF Sent
  <1>2. p \in Pairs
    BY <1>1, FlightFields DEF ProxyInv
  <1>3. /\ believed' = IF p \in toRemove[t] THEN believed \ {p} ELSE believed \cup {p}
        /\ toRemove' \in [Tasks -> SUBSET Pairs] /\ toAdd' \in [Tasks -> SUBSET Pairs]
    BY <1>1 DEF Believe, ProxyInv, TypeOK
  <1>4. TypeOK'
    BY <1>1, <1>2, <1>3 DEF ProxyInv, TypeOK
  <1>5. FlightPending' /\ PeerAhead'
    BY <1>1, <1>3 DEF ProxyInv, FlightPending, PeerAhead
  <1>6. NothingWithoutLink'
    BY <1>1 DEF ProxyInv, NothingWithoutLink
  <1> QED
    BY <1>1, <1>4, <1>5, <1>6, DemandFrame DEF ProxyInv

LEMMA SendNothingStep ==
    ASSUME ProxyInv, NEW t \in Tasks, SendNothing(t)
    PROVE  ProxyInv'
  <1>1. /\ flight = None /\ link # "up"
        /\ UNCHANGED <<subs, desired, link, peer, ep, tpc, removing, flight, lpc, dropping,
                       messages, faults, overlap>>
    BY DEF SendNothing
  <1>2. PICK p \in Todo(t) : Believe(t, p)
    BY DEF SendNothing
  <1>3. p \in Pairs
    BY DEF Todo, ProxyInv, TypeOK
  <1>4. /\ believed' \in SUBSET Pairs
        /\ toRemove' \in [Tasks -> SUBSET Pairs] /\ toAdd' \in [Tasks -> SUBSET Pairs]
    BY <1>2, <1>3 DEF Believe, ProxyInv, TypeOK
  <1>5. TypeOK'
    BY <1>1, <1>4 DEF ProxyInv, TypeOK
  <1>6. FlightPending' /\ PeerAhead' /\ NothingWithoutLink'
    BY <1>1 DEF ProxyInv, FlightPending, PeerAhead, NothingWithoutLink
  <1> QED
    BY <1>1, <1>5, <1>6, DemandFrame DEF ProxyInv

LEMMA EndSyncStep ==
    ASSUME ProxyInv, NEW t \in Tasks, EndSync(t)
    PROVE  ProxyInv'
  <1>1. /\ tpc[t] = "send" /\ Todo(t) = {} /\ tpc' = [tpc EXCEPT ![t] = "idle"]
        /\ removing' = [removing EXCEPT ![t] = FALSE]
        /\ ep' = [c \in Clients |-> IF c = t /\ ep[c] = "ending" THEN "gone" ELSE ep[c]]
        /\ UNCHANGED <<subs, desired, believed, toRemove, toAdd, flight, lpc, dropping, messages,
                       faults, overlap>>
        /\ (link' = "dead" /\ peer' = {} /\ link = "up") \/ UNCHANGED <<link, peer>>
    BY DEF EndSync
  <1>2. TypeOK'
    BY <1>1 DEF ProxyInv, TypeOK
  <1>3. flight # None => flight.task \in Tasks /\ flight.task # t
    BY <1>1, FlightFields DEF ProxyInv, FlightPending, Todo
  <1>4. FlightPending'
    BY <1>1, <1>3 DEF ProxyInv, FlightPending, TypeOK
  <1>5. PeerAhead' /\ NothingWithoutLink'
    BY <1>1 DEF ProxyInv, PeerAhead, NothingWithoutLink
  <1>6. DemandKnown'
    <2>1. \A c \in Clients : ep'[c] # "open" => ep[c] # "open"
      BY <1>1
    <2> QED
      BY <2>1, <1>1 DEF ProxyInv, DemandKnown, Union
  <1> QED
    BY <1>2, <1>4, <1>5, <1>6 DEF ProxyInv

-----------------------------------------------------------------------------
(* The listener.                                                           *)

LEMMA ConnectStep ==
    ASSUME ProxyInv, Connect
    PROVE  ProxyInv'
  <1>1. /\ lpc = "connect" /\ lpc' = "listen" /\ link' = "up" /\ peer' = {} /\ believed' = {}
        /\ BeginSync(Listener, FALSE)
        /\ UNCHANGED <<subs, desired, ep, dropping, messages, faults>>
    BY DEF Connect
  <1>2. Listener \in Tasks
    BY DEF Tasks
  <1>3. /\ tpc' \in [Tasks -> {"idle", "sync", "send"}] /\ removing' \in [Tasks -> BOOLEAN]
        /\ overlap' \in BOOLEAN /\ UNCHANGED <<toRemove, toAdd, flight>> /\ FlightPending'
    BY <1>1, <1>2, SyncBegins
  <1>4. flight = None
    BY <1>1 DEF ProxyInv, NothingWithoutLink
  <1>5. TypeOK'
    BY <1>1, <1>3 DEF ProxyInv, TypeOK
  <1>6. PeerAhead' /\ NothingWithoutLink'
    BY <1>1, <1>3, <1>4 DEF PeerAhead, NothingWithoutLink
  <1> QED
    BY <1>1, <1>3, <1>5, <1>6, DemandFrame DEF ProxyInv

LEMMA ListenerSteps ==
    ASSUME ProxyInv, Top \/ ConnectFails \/ Drop \/ RecvFails \/ Backoff
                        \/ \E c \in Clients : BroadcastFails(c)
    PROVE  ProxyInv'
  <1>1. /\ UNCHANGED <<subs, desired, ep, tpc, toRemove, toAdd, removing, flight, messages,
                       overlap>>
        /\ believed' = believed \/ believed' = {}
        /\ (link' = link /\ peer' = peer /\ believed' = believed) \/ link' \in {"dead", "none"}
        /\ peer' = peer \/ peer' = {}
        /\ faults' \in 0 .. MaxFaults
        /\ dropping' \in {None} \cup Clients
        /\ lpc' \in {"off", "top", "connect", "listen", "backoff"}
    BY BoundAssumption DEF Top, ConnectFails, Drop, RecvFails, Backoff, BroadcastFails, syncVars,
                           ProxyInv, TypeOK
  <1>2. TypeOK'
    BY <1>1 DEF ProxyInv, TypeOK
  <1>3. FlightPending' /\ PeerAhead'
    BY <1>1 DEF ProxyInv, FlightPending, PeerAhead
  <1>4. NothingWithoutLink'
    BY DEF Top, ConnectFails, Drop, RecvFails, Backoff, BroadcastFails, syncVars,
           ProxyInv, NothingWithoutLink
  <1> QED
    BY <1>1, <1>2, <1>3, <1>4, DemandFrame DEF ProxyInv

LEMMA ProxyStep == ProxyInv /\ [Next]_vars => ProxyInv'
  <1> SUFFICES ASSUME ProxyInv, [Next]_vars PROVE ProxyInv'
    OBVIOUS
  <1>1. ASSUME NEW c \in Clients, AddClient(c) \/ Welcome(c) \/ UnknownAction(c) PROVE ProxyInv'
    BY <1>1, AddClientStep, WelcomeStep, UnknownActionStep
  <1>2. ASSUME NEW c \in Clients, Disconnect(c) PROVE ProxyInv'
    BY <1>2, RemoveStep DEF Disconnect, Tasks, ProxyInv, TypeOK
  <1>3. ASSUME NEW c \in Clients, NEW ps \in SUBSET Pairs,
               Subscribe(c, ps) \/ Unsubscribe(c, ps) \/ Clear(c)
        PROVE  ProxyInv'
    <2>1. Asked(c) \in SUBSET Pairs
      BY DEF Asked, ProxyInv, TypeOK
    <2> QED
      BY <1>3, <2>1, HandleStep DEF Subscribe, Unsubscribe, Clear
  <1>4. ASSUME NEW t \in Tasks, Compare(t) \/ Send(t) \/ Sent(t) \/ SendNothing(t) \/ EndSync(t)
        PROVE  ProxyInv'
    BY <1>4, CompareStep, SendStep, SentStep, SendNothingStep, EndSyncStep
  <1>5. CASE DropDead
    BY <1>5, RemoveStep DEF DropDead, Tasks, ProxyInv, TypeOK
  <1>6. CASE Connect
    BY <1>6, ConnectStep
  <1>7. CASE Top \/ ConnectFails \/ Drop \/ RecvFails \/ Backoff
                \/ \E c \in Clients : BroadcastFails(c)
    BY <1>7, ListenerSteps
  <1>8. CASE UNCHANGED vars
    BY <1>8 DEF vars, syncVars, ProxyInv, TypeOK, FlightPending, NothingWithoutLink, PeerAhead,
                DemandKnown, Union
  <1> QED
    BY <1>1, <1>2, <1>3, <1>4, <1>5, <1>6, <1>7, <1>8 DEF Next

\* The proxy's state and its tasks' locals keep their types.
THEOREM TypeCorrect == Spec => []TypeOK
  <1>1. ProxyInv => TypeOK
    BY DEF ProxyInv
  <1> QED
    BY <1>1, InitProxy, ProxyStep, PTL DEF Spec

\* Whenever no message is under way, _upstream_pairs is what the peer has
\* registered on a live connection.
THEOREM Believed == Spec => []BelievedIsPeer
  <1>1. ProxyInv => BelievedIsPeer
    BY DEF ProxyInv, PeerAhead, BelievedIsPeer
  <1> QED
    BY <1>1, InitProxy, ProxyStep, PTL DEF Spec

\* The proxy asks for what clients with a running endpoint want, and no more.
THEOREM LivingDemand == Spec => []DesiredByTheLiving
  <1>1. ProxyInv => DesiredByTheLiving
    <2> SUFFICES ASSUME ProxyInv PROVE DesiredByTheLiving
      OBVIOUS
    <2> DEFINE living == UNION {subs[c] : c \in {d \in Present : ep[d] = "open"}}
    <2>1. ASSUME NEW x PROVE x \in Union(subs) <=> \E c \in Clients : subs[c] # None /\ x \in subs[c]
      BY DEF Union
    <2>2. ASSUME NEW x PROVE x \in living <=>
                         \E c \in Clients : subs[c] # None /\ ep[c] = "open" /\ x \in subs[c]
      BY DEF Present
    <2>3. \A c \in Clients : subs[c] # None /\ ep[c] # "open" => subs[c] = {}
      BY DEF ProxyInv, DemandKnown
    <2>4. ASSUME NEW x PROVE x \in Union(subs) <=> x \in living
      BY <2>1, <2>2, <2>3
    <2>5. Union(subs) = living
      BY <2>4
    <2> QED
      BY <2>5 DEF ProxyInv, DemandKnown, DesiredByTheLiving
  <1> QED
    BY <1>1, InitProxy, ProxyStep, PTL DEF Spec

-----------------------------------------------------------------------------
(* A sync that is alone.                                                   *)

\* While the last sync to begin met no other, it is the only one.
OneActive ==
    ~overlap => \A t \in Tasks, u \in Tasks : tpc[t] # "idle" /\ tpc[u] # "idle" => t = u

\* Then, on a live connection, what is believed registered is what is desired,
\* but for the pairs that sync has still to send.
Settles ==
    ~overlap /\ link = "up" =>
        /\ (\A t \in Tasks : tpc[t] = "idle") => believed = desired
        /\ \A t \in Tasks : tpc[t] = "send" => (believed \ toRemove[t]) \cup toAdd[t] = desired

LoneInv == ProxyInv /\ OneActive /\ Settles

LEMMA InitLone == Init => LoneInv
  <1>1. Init => OneActive /\ Settles
    BY DEF Init, OneActive, Settles
  <1> QED
    BY <1>1, InitProxy DEF LoneInv

\* A sync that begins is alone, or notes that it is not.
LEMMA LoneBegins ==
    ASSUME ProxyInv, NEW t \in Tasks, NEW b \in BOOLEAN, BeginSync(t, b)
    PROVE  OneActive' /\ Settles'
  <1>1. /\ tpc' = [tpc EXCEPT ![t] = "sync"]
        /\ overlap' = \E u \in Tasks \ {t} : tpc[u] # "idle"
    BY DEF BeginSync
  <1>2. ~overlap' => \A u \in Tasks : u # t => tpc'[u] = "idle"
    BY <1>1 DEF ProxyInv, TypeOK
  <1>3. tpc'[t] = "sync"
    BY <1>1 DEF ProxyInv, TypeOK
  <1> QED
    BY <1>2, <1>3 DEF OneActive, Settles

\* Steps that neither begin nor move a sync, and leave what is believed and
\* desired as it is, or the connection lost.
LEMMA LoneFrame ==
    ASSUME LoneInv, UNCHANGED <<tpc, toRemove, toAdd, desired, overlap>>,
           (UNCHANGED <<link, believed>>) \/ link' # "up"
    PROVE  OneActive' /\ Settles'
  BY DEF LoneInv, OneActive, Settles

LEMMA LoneCompare ==
    ASSUME LoneInv, NEW t \in Tasks, Compare(t)
    PROVE  OneActive' /\ Settles'
  <1>1. /\ tpc[t] = "sync" /\ tpc' = [tpc EXCEPT ![t] = "send"]
        /\ UNCHANGED <<desired, believed, link, overlap>>
    BY DEF Compare
  <1>2. link = "up" => toRemove'[t] = believed \ desired /\ toAdd'[t] = desired \ believed
    BY DEF Compare, LoneInv, ProxyInv, TypeOK
  <1>3. /\ tpc'[t] = "send"
        /\ \A u \in Tasks : u # t => tpc'[u] = tpc[u]
    BY <1>1 DEF LoneInv, ProxyInv, TypeOK
  <1>4. OneActive'
    BY <1>1, <1>3 DEF LoneInv, OneActive
  <1>5. ~overlap => \A u \in Tasks : u # t => tpc'[u] = "idle"
    BY <1>1, <1>3 DEF LoneInv, OneActive
  <1>6. link = "up" => (believed \ toRemove'[t]) \cup toAdd'[t] = desired
    BY <1>2
  <1>7. Settles'
    BY <1>1, <1>3, <1>5, <1>6 DEF Settles
  <1> QED
    BY <1>4, <1>7

\* A pair that is settled moves from the task's locals into what is believed.
LEMMA LoneSent ==
    ASSUME LoneInv, NEW t \in Tasks, Sent(t)
    PROVE  OneActive' /\ Settles'
  <1> DEFINE p == flight.pair
  <1>1. /\ flight # None /\ flight.task = t /\ Believe(t, p)
        /\ UNCHANGED <<desired, link, tpc, overlap>>
    BY DEF Sent
  <1>2. tpc[t] = "send" /\ p \in toRemove[t] \cup toAdd[t]
    BY <1>1 DEF LoneInv, ProxyInv, FlightPending
  <1>3. (believed' \ toRemove'[t]) \cup toAdd'[t] = (believed \ toRemove[t]) \cup toAdd[t]
    <2>1. CASE p \in toRemove[t]
      <3>1. /\ believed' = believed \ {p} /\ toAdd' = toAdd
            /\ toRemove'[t] = toRemove[t] \ {p}
        BY <1>1, <2>1 DEF Believe, LoneInv, ProxyInv, TypeOK
      <3> QED
        BY <2>1, <3>1
    <2>2. CASE p \notin toRemove[t]
      <3>1. /\ believed' = believed \cup {p} /\ toRemove' = toRemove
            /\ toAdd'[t] = toAdd[t] \ {p}
        BY <1>1, <2>2 DEF Believe, LoneInv, ProxyInv, TypeOK
      <3> QED
        BY <1>2, <2>2, <3>1
    <2> QED
      BY <2>1, <2>2
  <1>4. OneActive'
    BY <1>1 DEF LoneInv, OneActive
  <1>5. ~overlap => \A u \in Tasks : tpc[u] # "idle" => u = t
    BY <1>2 DEF LoneInv, OneActive
  <1>6. Settles'
    <2> HIDE DEF p
    <2> QED
      BY <1>1, <1>2, <1>3, <1>5 DEF LoneInv, Settles
  <1> QED
    BY <1>4, <1>6

LEMMA LoneEnds ==
    ASSUME LoneInv, NEW t \in Tasks, EndSync(t)
    PROVE  OneActive' /\ Settles'
  <1>1. /\ tpc[t] = "send" /\ toRemove[t] = {} /\ toAdd[t] = {}
        /\ tpc' = [tpc EXCEPT ![t] = "idle"]
        /\ UNCHANGED <<desired, believed, toRemove, toAdd, overlap>>
        /\ link' = link \/ link' # "up"
    BY DEF EndSync, Todo
  <1>2. tpc'[t] = "idle" /\ \A u \in Tasks : u # t => tpc'[u] = tpc[u]
    BY <1>1 DEF LoneInv, ProxyInv, TypeOK
  <1>3. OneActive'
    BY <1>1, <1>2 DEF LoneInv, OneActive
  <1>4. ~overlap /\ link = "up" => believed = desired
    BY <1>1 DEF LoneInv, Settles
  <1>5. Settles'
    BY <1>1, <1>2, <1>4 DEF LoneInv, OneActive, Settles
  <1> QED
    BY <1>3, <1>5

LEMMA LoneStep == LoneInv /\ [Next]_vars => LoneInv'
  <1> SUFFICES ASSUME LoneInv, [Next]_vars PROVE OneActive' /\ Settles'
    BY ProxyStep DEF LoneInv
  <1>1. ASSUME NEW c \in Clients, AddClient(c) \/ Welcome(c) \/ UnknownAction(c)
        PROVE  OneActive' /\ Settles'
    BY <1>1, LoneFrame DEF AddClient, Welcome, UnknownAction, syncVars
  <1>2. ASSUME NEW c \in Clients, Disconnect(c)
        PROVE  OneActive' /\ Settles'
    BY <1>2, LoneBegins DEF Disconnect, RemoveClient, Tasks, LoneInv
  <1>3. ASSUME NEW c \in Clients, NEW ps \in SUBSET Pairs,
               Subscribe(c, ps) \/ Unsubscribe(c, ps) \/ Clear(c)
        PROVE  OneActive' /\ Settles'
    BY <1>3, LoneBegins DEF Subscribe, Unsubscribe, Clear, Handle, Tasks, LoneInv
  <1>4. ASSUME NEW t \in Tasks, Compare(t) \/ Sent(t) \/ EndSync(t)
        PROVE  OneActive' /\ Settles'
    BY <1>4, LoneCompare, LoneSent, LoneEnds
  <1>5. ASSUME NEW t \in Tasks, Send(t)
        PROVE  OneActive' /\ Settles'
    BY <1>5, LoneFrame DEF Send, syncVars
  <1>6. ASSUME NEW t \in Tasks, SendNothing(t)
        PROVE  OneActive' /\ Settles'
    BY <1>6 DEF SendNothing, LoneInv, OneActive, Settles
  <1>7. CASE DropDead
    BY <1>7, LoneBegins DEF DropDead, RemoveClient, Tasks, LoneInv
  <1>8. CASE Connect
    BY <1>8, LoneBegins DEF Connect, Tasks, LoneInv
  <1>9. CASE Top \/ ConnectFails \/ Drop \/ RecvFails \/ Backoff
                \/ \E c \in Clients : BroadcastFails(c)
    BY <1>9, LoneFrame DEF Top, ConnectFails, Drop, RecvFails, Backoff, BroadcastFails, syncVars
  <1>10. CASE UNCHANGED vars
    BY <1>10, LoneFrame DEF vars, syncVars
  <1> QED
    BY <1>1, <1>2, <1>3, <1>4, <1>5, <1>6, <1>7, <1>8, <1>9, <1>10 DEF Next

\* Once a sync that overlapped no other is done, the peer has what the clients
\* want, whatever earlier syncs left behind.
THEOREM LoneSync == Spec => []LoneSyncAgrees
  <1>1. LoneInv => LoneSyncAgrees
    <2> SUFFICES ASSUME LoneInv, link = "up", \A t \in Tasks : tpc[t] = "idle", ~overlap
                 PROVE  peer = desired
      BY DEF LoneSyncAgrees
    <2>1. flight = None
      BY FlightFields DEF LoneInv, ProxyInv, FlightPending
    <2>2. peer = believed
      BY <2>1 DEF LoneInv, ProxyInv, PeerAhead
    <2> QED
      BY <2>2 DEF LoneInv, Settles
  <1> QED
    BY <1>1, InitLone, LoneStep, PTL DEF Spec

-----------------------------------------------------------------------------
(* The proxy implements Registry: a step changes the demands and nothing   *)
(* that is under way, or it changes no demand and makes no request but for *)
(* what is desired.                                                        *)

LEMMA DueMembers ==
    /\ \A r : r \in Due <=> r \in desired \/ \E t \in Tasks : r \in toAdd[t]
    /\ \A r : r \in Due' <=> r \in desired' \/ \E t \in Tasks : r \in toAdd'[t]
  BY DEF Due

\* A step that changes the demands.
LEMMA DemandMaps ==
    ASSUME desired' \in SUBSET Pairs, UNCHANGED <<peer, toAdd>>
    PROVE  R!Demand
  <1>1. desired' \subseteq Due' /\ Due' \subseteq Due \cup desired'
    BY DueMembers
  <1> QED
    BY <1>1 DEF R!Demand

\* A step that changes none, and compares or sends.
LEMMA RunOutMaps ==
    ASSUME desired' = desired, \A t \in Tasks : toAdd'[t] \subseteq toAdd[t] \cup desired
    PROVE  R!RunOut
  <1>1. desired \subseteq Due' /\ Due' \subseteq Due
    BY DueMembers
  <1> QED
    BY <1>1 DEF R!RunOut

\* A step that changes none, and asks the peer for nothing.
LEMMA ReleaseMaps ==
    ASSUME UNCHANGED desired, peer' \subseteq peer,
           \A t \in Tasks : toAdd'[t] \subseteq toAdd[t] \cup desired
    PROVE  R!Release
  BY RunOutMaps DEF R!Release

LEMMA SendMaps ==
    ASSUME NEW t \in Tasks, Send(t)
    PROVE  R!RegistryNext
  <1>1. UNCHANGED <<desired, toAdd>>
    BY DEF Send, syncVars
  <1>2. PICK p \in Todo(t) : peer' = IF p \in toRemove[t] THEN peer \ {p} ELSE peer \cup {p}
    BY DEF Send
  <1>3. CASE p \in toRemove[t]
    BY <1>1, <1>2, <1>3, ReleaseMaps DEF R!RegistryNext
  <1>4. CASE p \notin toRemove[t]
    <2>1. p \in Due
      BY <1>2, <1>4, DueMembers DEF Todo
    <2>2. R!RunOut
      BY <1>1, RunOutMaps
    <2> QED
      BY <1>1, <1>2, <1>4, <2>1, <2>2 DEF R!Acquire, R!RegistryNext
  <1> QED
    BY <1>3, <1>4

LEMMA SyncMaps ==
    ASSUME TypeOK, NEW t \in Tasks,
           Compare(t) \/ Sent(t) \/ SendNothing(t) \/ EndSync(t)
    PROVE  R!Release
  <1>1. UNCHANGED desired /\ peer' \subseteq peer
    BY DEF Compare, Sent, SendNothing, EndSync, syncVars
  <1>2. toAdd \in [Tasks -> SUBSET Pairs]
    BY DEF TypeOK
  <1>3. \A u \in Tasks : toAdd'[u] \subseteq toAdd[u] \cup desired
    <2>1. CASE Compare(t)
      BY <1>2, <2>1 DEF Compare
    <2>2. CASE Sent(t) \/ SendNothing(t)
      BY <1>2, <2>2 DEF Sent, SendNothing, Believe
    <2>3. CASE EndSync(t)
      BY <2>3 DEF EndSync
    <2> QED
      BY <2>1, <2>2, <2>3
  <1> QED
    BY <1>1, <1>3, ReleaseMaps

LEMMA ProxyMaps ==
    ASSUME ProxyInv, [Next]_vars
    PROVE  [R!RegistryNext]_R!registryVars
  <1>1. desired' \in SUBSET Pairs /\ TypeOK
    BY ProxyStep DEF ProxyInv, TypeOK
  <1>2. ASSUME NEW c \in Clients, NEW ps \in SUBSET Pairs, Handle(c, ps) PROVE R!RegistryNext
    BY <1>1, <1>2, DemandMaps DEF Handle, BeginSync, R!RegistryNext
  <1>3. ASSUME NEW c \in Clients, Clear(c) \/ UnknownAction(c) \/ AddClient(c)
                                  \/ Welcome(c) \/ BroadcastFails(c) \/ Disconnect(c)
        PROVE  R!RegistryNext
    BY <1>1, <1>3, DemandMaps
       DEF Clear, Handle, UnknownAction, AddClient, Welcome, BroadcastFails, Disconnect,
           RemoveClient, BeginSync, syncVars, R!RegistryNext
  <1>4. CASE DropDead
    BY <1>1, <1>4, DemandMaps DEF DropDead, RemoveClient, BeginSync, R!RegistryNext
  <1>5. ASSUME NEW t \in Tasks,
               Compare(t) \/ Send(t) \/ Sent(t) \/ SendNothing(t) \/ EndSync(t)
        PROVE  R!RegistryNext
    BY <1>1, <1>5, SendMaps, SyncMaps DEF R!RegistryNext
  <1>6. CASE Top \/ Connect \/ ConnectFails \/ Drop \/ RecvFails \/ Backoff
    <2>1. UNCHANGED <<desired, toAdd>> /\ peer' \subseteq peer
      BY <1>6 DEF Top, Connect, ConnectFails, Drop, RecvFails, Backoff, BeginSync, syncVars
    <2> QED
      BY <2>1, ReleaseMaps DEF R!RegistryNext
  <1>7. CASE UNCHANGED vars
    <2>1. UNCHANGED <<desired, toAdd, peer>>
      BY <1>7 DEF vars, syncVars
    <2> QED
      BY <1>1, <2>1, DemandMaps DEF R!RegistryNext
  <1>8. ASSUME NEW c \in Clients, NEW ps \in SUBSET Pairs, Subscribe(c, ps) \/ Unsubscribe(c, ps)
        PROVE  R!RegistryNext
    <2>1. Asked(c) \in SUBSET Pairs
      BY <1>1 DEF TypeOK, Asked
    <2> QED
      BY <1>2, <1>8, <2>1 DEF Subscribe, Unsubscribe
  <1> QED
    BY <1>3, <1>4, <1>5, <1>6, <1>7, <1>8 DEF Next

LEMMA InitMaps == Init => R!RegistryInit
  BY DEF Init, R!RegistryInit, Due

\* The proxy implements the registry, whatever overlapping syncs compare and
\* however often the connection is lost (252-319): a pair appears at the peer
\* only if it is desired, or was when some sync compared.
THEOREM Refinement == Spec => ImplementsRegistry
  <1>1. ProxyInv /\ [Next]_vars => [R!RegistryNext]_R!registryVars
    BY ProxyMaps
  <1> QED
    BY <1>1, InitProxy, ProxyStep, InitMaps, PTL DEF Spec, ImplementsRegistry, R!RegistrySpec
=============================================================================
