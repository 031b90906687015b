--------------------------- MODULE OverseasProxy ---------------------------
(***************************************************************************)
(* KISWebSocketProxy (services/websocket_service.py) and its endpoint in   *)
(* routes/overseas_stocks.py: one upstream connection shared by browser    *)
(* clients.  Everything runs on one event loop, so an action is what a     *)
(* task does between two awaits.  Each endpoint task, and the listener     *)
(* task when it connects or drops dead clients, runs _sync_upstream: one   *)
(* comparison of the desired pairs with the pairs believed registered, and *)
(* then one message at a time, in whatever order the tasks get _send_lock. *)
(*                                                                         *)
(* A pair is a (tr_id, symbol); the peer's registrations live and die with *)
(* the connection.                                                         *)
(***************************************************************************)
EXTENDS Naturals, FiniteSets

CONSTANTS Clients,      \* browser connections
          Pairs,        \* (tr_id, symbol)
          Listener,     \* the task of connect_and_listen
          None,         \* Python's None
          MaxMessages,  \* bound: client messages handled
          MaxFaults     \* bound: lost connections and failed connects

ASSUME NamesAssumption ==
    Listener \notin Clients /\ None \notin Clients /\ \A ps \in SUBSET Pairs : None # ps
ASSUME BoundAssumption == MaxMessages \in Nat /\ MaxFaults \in Nat

Tasks == Clients \cup {Listener}
Flight == [task : Tasks, pair : Pairs]

ASSUME FlightAssumption == None \notin Flight

VARIABLES
    subs,       \* subs[c]: the pairs of client c in _clients, or None
    desired,    \* _desired_pairs
    believed,   \* _upstream_pairs
    link,       \* "none": _ws is None; "up"; "dead": _ws is a lost connection
    peer,       \* what the peer has registered on the connection
    ep,         \* ep[c]: where the endpoint of client c is
    tpc,        \* tpc[t]: where task t is in _sync_upstream
    toRemove, toAdd, \* its locals
    removing,   \* removing[t]: t is in remove_client
    flight,     \* the send that holds _send_lock, or None
    lpc,        \* where connect_and_listen is
    dropping,   \* the client a broadcast failed for, or None
    messages, faults, \* bounds
    overlap     \* history: the last sync to begin found another in progress

syncVars == <<tpc, toRemove, toAdd, removing>>
vars == <<subs, desired, believed, link, peer, ep, syncVars, flight, lpc, dropping,
          messages, faults, overlap>>

TypeOK ==
    /\ subs \in [Clients -> {None} \cup SUBSET Pairs]
    /\ desired \in SUBSET Pairs /\ believed \in SUBSET Pairs /\ peer \in SUBSET Pairs
    /\ link \in {"none", "up", "dead"}
    /\ ep \in [Clients -> {"off", "welcome", "open", "ending", "gone"}]
    /\ tpc \in [Tasks -> {"idle", "sync", "send"}]
    /\ toRemove \in [Tasks -> SUBSET Pairs] /\ toAdd \in [Tasks -> SUBSET Pairs]
    /\ removing \in [Tasks -> BOOLEAN]
    /\ flight \in {None} \cup Flight
    /\ lpc \in {"off", "top", "connect", "listen", "backoff"}
    /\ dropping \in {None} \cup Clients
    /\ messages \in 0 .. MaxMessages /\ faults \in 0 .. MaxFaults
    /\ overlap \in BOOLEAN

Init ==
    /\ subs = [c \in Clients |-> None]
    /\ desired = {} /\ believed = {} /\ link = "none" /\ peer = {}
    /\ ep = [c \in Clients |-> "off"]
    /\ tpc = [t \in Tasks |-> "idle"]
    /\ toRemove = [t \in Tasks |-> {}] /\ toAdd = [t \in Tasks |-> {}]
    /\ removing = [t \in Tasks |-> FALSE]
    /\ flight = None /\ lpc = "off" /\ dropping = None
    /\ messages = 0 /\ faults = 0 /\ overlap = FALSE

-----------------------------------------------------------------------------
Present == {c \in Clients : subs[c] # None}

\* _recompute_desired_locked
Union(s) == UNION {s[c] : c \in {d \in Clients : s[d] # None}}

\* A task has changed _clients under the lock, or connected, and goes on to
\* _sync_upstream.
BeginSync(t, inRemove) ==
    /\ tpc[t] = "idle"
    /\ tpc' = [tpc EXCEPT ![t] = "sync"]
    /\ removing' = [removing EXCEPT ![t] = inRemove]
    /\ overlap' = \E u \in Tasks \ {t} : tpc[u] # "idle"
    /\ UNCHANGED <<toRemove, toAdd, flight>>

\* remove_client(c), run by task t: the section under the lock.
RemoveClient(t, c) ==
    /\ subs' = [subs EXCEPT ![c] = None]
    /\ desired' = Union(subs')
    /\ BeginSync(t, TRUE)

-----------------------------------------------------------------------------
(* The endpoint.                                                           *)

\* accept, add_client and _ensure_running.
AddClient(c) ==
    /\ ep[c] = "off"
    /\ subs' = [subs EXCEPT ![c] = {}]
    /\ ep' = [ep EXCEPT ![c] = "welcome"]
    /\ lpc' = IF lpc = "off" THEN "top" ELSE lpc
    /\ UNCHANGED <<desired, believed, link, peer, syncVars, flight, dropping,
                   messages, faults, overlap>>

\* The welcome message is sent before the try block: when that fails the
\* endpoint ends without remove_client.
Welcome(c) ==
    /\ ep[c] = "welcome"
    /\ \/ ep' = [ep EXCEPT ![c] = "open"] /\ UNCHANGED faults
       \/ /\ faults < MaxFaults
          /\ faults' = faults + 1
          /\ ep' = [ep EXCEPT ![c] = "gone"]
    /\ UNCHANGED <<subs, desired, believed, link, peer, syncVars, flight, lpc, dropping,
                   messages, overlap>>

\* setdefault: a client that a failed broadcast has dropped is put back.
Asked(c) == IF subs[c] = None THEN {} ELSE subs[c]

\* handle_client_message, when it leaves c with the pairs ps.
Handle(c, ps) ==
    /\ ep[c] = "open" /\ tpc[c] = "idle"
    /\ messages < MaxMessages
    /\ messages' = messages + 1
    /\ subs' = [subs EXCEPT ![c] = ps]
    /\ desired' = Union(subs')
    /\ BeginSync(c, FALSE)
    /\ UNCHANGED <<believed, link, peer, ep, lpc, dropping, faults>>

Subscribe(c, ps)   == Handle(c, Asked(c) \cup ps)
Unsubscribe(c, ps) == Handle(c, Asked(c) \ ps)
Clear(c)           == Handle(c, {})

\* An unknown action: setdefault, and nothing else.
UnknownAction(c) ==
    /\ ep[c] = "open" /\ tpc[c] = "idle"
    /\ messages < MaxMessages
    /\ messages' = messages + 1
    /\ subs' = [subs EXCEPT ![c] = Asked(c)]
    /\ UNCHANGED <<desired, believed, link, peer, ep, syncVars, flight, lpc, dropping,
                   faults, overlap>>

\* Mutant: a client that is gone keeps its part of _desired_pairs.
DisconnectNoRecompute(c) ==
    /\ ep[c] = "open" /\ tpc[c] = "idle"
    /\ ep' = [ep EXCEPT ![c] = "ending"]
    /\ subs' = [subs EXCEPT ![c] = None]
    /\ BeginSync(c, TRUE)
    /\ UNCHANGED <<desired, believed, link, peer, lpc, dropping, messages, faults>>

\* receive_text or handle_client_message raises.
Disconnect(c) ==
    /\ ep[c] = "open" /\ tpc[c] = "idle"
    /\ ep' = [ep EXCEPT ![c] = "ending"]
    /\ RemoveClient(c, c)
    /\ UNCHANGED <<believed, link, peer, lpc, dropping, messages, faults>>

-----------------------------------------------------------------------------
(* _sync_upstream.                                                         *)

\* Mutant: only additions are sent.
CompareAddOnly(t) ==
    /\ tpc[t] = "sync"
    /\ tpc' = [tpc EXCEPT ![t] = "send"]
    /\ toAdd' = [toAdd EXCEPT ![t] = IF link = "none" THEN {} ELSE desired \ believed]
    /\ UNCHANGED <<subs, desired, believed, link, peer, ep, toRemove, removing, flight, lpc,
                   dropping, messages, faults, overlap>>

\* Mutant: whatever differs is added.
CompareEither(t) ==
    /\ tpc[t] = "sync"
    /\ tpc' = [tpc EXCEPT ![t] = "send"]
    /\ toRemove' = [toRemove EXCEPT ![t] = IF link = "none" THEN {} ELSE believed \ desired]
    /\ toAdd' = [toAdd EXCEPT ![t] = IF link = "none" THEN {}
                                     ELSE (desired \ believed) \cup (believed \ desired)]
    /\ UNCHANGED <<subs, desired, believed, link, peer, ep, removing, flight, lpc, dropping,
                   messages, faults, overlap>>

\* desired and _upstream_pairs are compared, once.
Compare(t) ==
    /\ tpc[t] = "sync"
    /\ tpc' = [tpc EXCEPT ![t] = "send"]
    /\ toRemove' = [toRemove EXCEPT ![t] = IF link = "none" THEN {} ELSE believed \ desired]
    /\ toAdd' = [toAdd EXCEPT ![t] = IF link = "none" THEN {} ELSE desired \ believed]
    /\ UNCHANGED <<subs, desired, believed, link, peer, ep, removing, flight, lpc, dropping,
                   messages, faults, overlap>>

\* What t may send next: the removals first.
Todo(t) == IF toRemove[t] # {} THEN toRemove[t] ELSE toAdd[t]

\* t is done with p, whether or not the message went out.
Believe(t, p) ==
    IF p \in toRemove[t]
    THEN /\ believed' = believed \ {p}
         /\ toRemove' = [toRemove EXCEPT ![t] = @ \ {p}]
         /\ UNCHANGED toAdd
    ELSE /\ believed' = believed \cup {p}
         /\ toAdd' = [toAdd EXCEPT ![t] = @ \ {p}]
         /\ UNCHANGED toRemove

\* ws.send under _send_lock: the message leaves, the await is pending.
Send(t) ==
    /\ tpc[t] = "send" /\ flight = None /\ link = "up"
    /\ \E p \in Todo(t) :
        /\ flight' = [task |-> t, pair |-> p]
        /\ peer' = IF p \in toRemove[t] THEN peer \ {p} ELSE peer \cup {p}
    /\ UNCHANGED <<subs, desired, believed, link, ep, syncVars, lpc, dropping,
                   messages, faults, overlap>>

\* The await is over, successfully or not.
Sent(t) ==
    /\ flight # None /\ flight.task = t
    /\ Believe(t, flight.pair)
    /\ flight' = None
    /\ UNCHANGED <<subs, desired, link, peer, ep, tpc, removing, lpc, dropping,
                   messages, faults, overlap>>

\* No connection any more: the early return, or an exception that is logged.
SendNothing(t) ==
    /\ tpc[t] = "send" /\ link # "up"
    /\ flight = None
    /\ \E p \in Todo(t) : Believe(t, p)
    /\ UNCHANGED <<subs, desired, link, peer, ep, tpc, removing, flight, lpc, dropping,
                   messages, faults, overlap>>

\* _sync_upstream returns; remove_client closes a connection without clients.
EndSync(t) ==
    /\ tpc[t] = "send" /\ Todo(t) = {}
    /\ tpc' = [tpc EXCEPT ![t] = "idle"]
    /\ removing' = [removing EXCEPT ![t] = FALSE]
    /\ IF removing[t] /\ Present = {} /\ link = "up"
       THEN link' = "dead" /\ peer' = {}
       ELSE UNCHANGED <<link, peer>>
    /\ ep' = [c \in Clients |-> IF c = t /\ ep[c] = "ending" THEN "gone" ELSE ep[c]]
    /\ UNCHANGED <<subs, desired, believed, toRemove, toAdd, flight, lpc, dropping,
                   messages, faults, overlap>>

-----------------------------------------------------------------------------
(* connect_and_listen.                                                     *)

\* There are clients, and _get_approval_key has a key.
Top ==
    /\ lpc = "top" /\ Present # {}
    /\ lpc' = "connect"
    /\ UNCHANGED <<subs, desired, believed, link, peer, ep, syncVars, flight, dropping,
                   messages, faults, overlap>>

\* Mutant: what was believed while there was no connection stays.
ConnectKeep ==
    /\ lpc = "connect"
    /\ lpc' = "listen"
    /\ link' = "up" /\ peer' = {}
    /\ BeginSync(Listener, FALSE)
    /\ UNCHANGED <<subs, desired, believed, ep, dropping, messages, faults>>

\* _ws is set and _upstream_pairs cleared; then a sync.
Connect ==
    /\ lpc = "connect"
    /\ lpc' = "listen"
    /\ link' = "up" /\ peer' = {} /\ believed' = {}
    /\ BeginSync(Listener, FALSE)
    /\ UNCHANGED <<subs, desired, ep, dropping, messages, faults>>

ConnectFails ==
    /\ lpc = "connect" /\ faults < MaxFaults
    /\ faults' = faults + 1
    /\ lpc' = "backoff"
    /\ UNCHANGED <<subs, desired, believed, link, peer, ep, syncVars, flight, dropping,
                   messages, overlap>>

\* The connection is lost.
Drop ==
    /\ link = "up" /\ faults < MaxFaults
    /\ faults' = faults + 1
    /\ link' = "dead" /\ peer' = {}
    /\ UNCHANGED <<subs, desired, believed, ep, syncVars, flight, lpc, dropping,
                   messages, overlap>>

\* recv raises: three seconds of sleep ..
RecvFails ==
    /\ lpc = "listen" /\ tpc[Listener] = "idle" /\ dropping = None
    /\ link = "dead"
    /\ lpc' = "backoff"
    /\ UNCHANGED <<subs, desired, believed, link, peer, ep, syncVars, flight, dropping,
                   messages, faults, overlap>>

\* .. and then finally; a send pending on the lost connection has raised long
\* before.
Backoff ==
    /\ lpc = "backoff" /\ flight = None
    /\ lpc' = "top"
    /\ link' = "none" /\ believed' = {}
    /\ UNCHANGED <<subs, desired, peer, ep, syncVars, flight, dropping, messages, faults, overlap>>

\* A message is broadcast and cannot be sent to c.
BroadcastFails(c) ==
    /\ lpc = "listen" /\ tpc[Listener] = "idle" /\ dropping = None
    /\ link = "up" /\ c \in Present
    /\ dropping' = c
    /\ UNCHANGED <<subs, desired, believed, link, peer, ep, syncVars, flight, lpc,
                   messages, faults, overlap>>

\* Mutant: the dead client is left in _clients.
DropDeadNot ==
    /\ dropping # None
    /\ dropping' = None
    /\ BeginSync(Listener, TRUE)
    /\ UNCHANGED <<subs, desired, believed, link, peer, ep, lpc, messages, faults>>

\* After the other sends of the broadcast, remove_client for it.
DropDead ==
    /\ dropping # None
    /\ dropping' = None
    /\ RemoveClient(Listener, dropping)
    /\ UNCHANGED <<believed, link, peer, ep, lpc, messages, faults>>

-----------------------------------------------------------------------------
SyncStep(t) == Compare(t) \/ Send(t) \/ Sent(t) \/ SendNothing(t) \/ EndSync(t)

Next ==
    \/ \E c \in Clients :
        \/ AddClient(c) \/ Welcome(c) \/ Clear(c) \/ UnknownAction(c) \/ Disconnect(c)
        \/ \E ps \in (SUBSET Pairs) \ {{}} : Subscribe(c, ps) \/ Unsubscribe(c, ps)
        \/ BroadcastFails(c)
    \/ \E t \in Tasks :
        Compare(t) \/ Send(t) \/ Sent(t) \/ SendNothing(t) \/ EndSync(t)
    \/ Top \/ Connect \/ ConnectFails \/ Drop \/ RecvFails \/ Backoff \/ DropDead

Spec == Init /\ [][Next]_vars

\* Tasks on the event loop are scheduled; _send_lock serves in order, and a
\* sync sends finitely often; the peer's heartbeats are broadcast, which finds
\* the clients whose endpoint is gone.
Fairness ==
    /\ \A t \in Tasks : WF_vars(SyncStep(t))
    /\ \A c \in Clients : WF_vars(Welcome(c)) /\ WF_vars(ep[c] = "gone" /\ BroadcastFails(c))
    /\ WF_vars(Top) /\ WF_vars(Connect) /\ WF_vars(RecvFails) /\ WF_vars(Backoff)
    /\ WF_vars(DropDead)

FairSpec == Spec /\ Fairness

-----------------------------------------------------------------------------
(* Properties.                                                             *)

\* _upstream_pairs is what the peer has registered whenever no send is pending
\* on a live connection, through lost connections, failed sends and syncs that
\* outlive the connection they began on (199-217, 302-319).
BelievedIsPeer == link = "up" /\ flight = None => believed = peer

\* What the proxy asks for is what clients with a running endpoint want: a
\* client that left, was dropped or never got its welcome asks for nothing.
DesiredByTheLiving ==
    desired = UNION {subs[c] : c \in {d \in Present : ep[d] = "open"}}

\* A sync that begins while no other is in progress puts things right,
\* whatever overlapping syncs did to each other before: once it is done the
\* peer has what the clients want.
LoneSyncAgrees ==
    link = "up" /\ (\A t \in Tasks : tpc[t] = "idle") /\ ~overlap => peer = desired

\* The proxy, seen as a registry: what may still be requested is desired, or
\* was when a sync compared and has not been sent since.
Due == desired \cup UNION {toAdd[t] : t \in Tasks}

R == INSTANCE Registry WITH Items <- Pairs, due <- Due, held <- peer

\* A pair appears at the peer only while a client wants it or by a sync that
\* compared when one did: neither the memory of an earlier connection nor an
\* overlapping sync brings back what was given up before.
ImplementsRegistry == R!RegistrySpec

\* When messages and faults stop, the connection is up if anybody wants
\* anything, the peer has what they want unless the last syncs overlapped, and
\* clients whose endpoint ended without removing them have been dropped.
EventuallyServed ==
    <>[](/\ desired # {} => link = "up" /\ (overlap \/ peer = desired)
         /\ \A c \in Clients : ep[c] = "gone" => subs[c] = None)
=============================================================================
