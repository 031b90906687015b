---------------------------- MODULE NewsPriceHub ----------------------------
(***************************************************************************)
(* _NewsPriceWsHub of part01_realtime_base.py: the clients of              *)
(* /ws/news-prices, the codes they request, and the task _run that         *)
(* broadcasts to them.  Routes, snapshot tasks and _run all end in         *)
(* _sync_rt_codes, which replaces the codes of the shared realtime hub     *)
(* twice (once through the NXT proxy) from worker threads, with no lock    *)
(* held.  Everything else runs on the event loop between two awaits.       *)
(***************************************************************************)
EXTENDS CodeSet

CONSTANTS
    Readers,     \* websocket connections, each with a client id of its own
    Lists,       \* the sets of codes a client may subscribe
    Base,        \* _get_news_ws_broadcast_codes(): the codes sent to everyone
    MaxReaders,  \* _NEWS_WS_MAX_CLIENTS
    Runner,      \* the task _run
    MaxEvents    \* bound: subscribe messages, lapses into idleness, departures, failures

VARIABLES
    clients,   \* the connections in self._clients
    requested, \* requested[r]: the "codes" of r's entry
    idle,      \* connections silent for more than _NEWS_WS_IDLE_SEC
    shut,      \* connections _run has closed
    conn,      \* conn[r]: where the coroutine of r's websocket stands
    sync,      \* sync[a]: the _sync_rt_codes call that a has in progress
    last,      \* self._last_rt_codes
    age,       \* now - self._last_rt_set_ts
    run,       \* where _run stands
    active,    \* its active_snapshot
    taken,     \* the requests in that snapshot
    stale,     \* its stale_cids
    events     \* history: the events so far

newsOwn  == <<clients, requested, idle, shut, conn, sync, last, age, run, active, taken, stale,
              events>>
newsVars == <<codes, newsOwn>>

\* Whoever calls _sync_rt_codes: a route, the snapshot task a connect starts,
\* or _run.
Route(r)    == <<"route", r>>
Snapshot(r) == <<"snapshot", r>>
Syncers     == {Route(r) : r \in Readers} \cup {Snapshot(r) : r \in Readers} \cup {Runner}

\* No call, or waiting for the first or the second set_codes with `arg'.
NoSync   == [at |-> "none", arg |-> {}]
Syncs(cs) == [at : {"none", "rt", "nxt"}, arg : SUBSET cs]
Requests(rs) == UNION {requested[r] : r \in rs}

NewsTypeOK ==
    /\ codes \in SUBSET Codes
    /\ clients \in SUBSET Readers /\ idle \in SUBSET Readers /\ shut \in SUBSET Readers
    /\ requested \in [Readers -> SUBSET Codes]
    /\ conn \in [Readers -> {"new", "accept", "loop", "left", "empty", "emptyNxt", "gone"}]
    /\ sync \in [Syncers -> Syncs(Codes)]
    /\ last \in SUBSET Codes
    /\ age \in {"new", "mid", "old"}
    /\ run \in {"off", "top", "fetch", "sync", "send", "prune", "sleep"}
    /\ active \in SUBSET Readers /\ taken \in SUBSET Codes /\ stale \in SUBSET Readers
    /\ events \in 0 .. MaxEvents

\* A connection that is gone from the start stands for one that never opens.
\* The events of a behaviour may be fewer than MaxEvents.
NewsInit ==
    /\ codes = {} /\ clients = {} /\ idle = {} /\ shut = {}
    /\ requested = [r \in Readers |-> {}]
    /\ conn \in [Readers -> {"new", "gone"}]
    /\ sync = [a \in Syncers |-> NoSync]
    /\ last = {} /\ age = "old"
    /\ run = "off" /\ active = {} /\ taken = {} /\ stale = {}
    /\ events \in 0 .. MaxEvents

-----------------------------------------------------------------------------
(* _sync_rt_codes.                                                         *)

\* Past the throttle: `cs' goes to the hub, cut to MAX_CODES.
StartSync(a, cs) ==
    \E t \in Truncations(cs) : sync' = [sync EXCEPT ![a] = [at |-> "rt", arg |-> t]]

\* _KIS_RT_HUB.set_codes in a worker thread.
SyncRt(a) ==
    /\ sync[a].at = "rt"
    /\ Replace(sync[a].arg)
    /\ sync' = [sync EXCEPT ![a].at = "nxt"]
    /\ UNCHANGED <<clients, requested, idle, shut, conn, last, age, run, active, taken, stale,
                   events>>

\* _KIS_NXT_RT_HUB.set_codes, which is the same hub; then the coroutine
\* resumes and remembers what it has set and when.
SyncNxt(a) ==
    /\ sync[a].at = "nxt"
    /\ Replace(sync[a].arg)
    /\ last' = sync[a].arg
    /\ age' = "new"
    /\ sync' = [sync EXCEPT ![a] = NoSync]
    /\ run' = IF a = Runner THEN "send" ELSE run
    /\ UNCHANGED <<clients, requested, idle, shut, conn, active, taken, stale, events>>

\* The set timestamp grows older than the minimum interval, then than the
\* heartbeat.
Age ==
    /\ age' = IF age = "new" THEN "mid" ELSE "old"
    /\ age # "old"
    /\ UNCHANGED <<codes, clients, requested, idle, shut, conn, sync, last, run, active, taken,
                   stale, events>>

-----------------------------------------------------------------------------
(* The routes.                                                             *)

\* What the clients and the network do of their own accord is bounded.
Event == events < MaxEvents /\ events' = events + 1

\* connect: the entry exists, and _run exists, before the socket is accepted.
Connect(r) ==
    /\ conn[r] = "new"
    /\ \/ /\ Cardinality(clients) < MaxReaders
          /\ clients' = clients \cup {r}
          /\ run' = IF run = "off" THEN "top" ELSE run
          /\ conn' = [conn EXCEPT ![r] = "accept"]
       \/ /\ Cardinality(clients) >= MaxReaders
          /\ conn' = [conn EXCEPT ![r] = "gone"]
          /\ UNCHANGED <<clients, run>>
    /\ UNCHANGED <<codes, requested, idle, shut, sync, last, age, active, taken, stale, events>>

\* accept and "connected": then the route listens and the task
\* _send_initial_snapshot syncs the broadcast codes alone, unless the entry is
\* gone again.  If the socket is gone, nobody calls disconnect.
Accept(r) ==
    /\ conn[r] = "accept"
    /\ \/ /\ r \notin shut
          /\ conn' = [conn EXCEPT ![r] = "loop"]
          /\ IF r \in clients /\ Base # {} THEN StartSync(Snapshot(r), Base) ELSE UNCHANGED sync
          /\ UNCHANGED events
       \/ /\ conn' = [conn EXCEPT ![r] = "gone"]
          /\ UNCHANGED sync
          /\ IF r \in shut THEN UNCHANGED events ELSE Event
    /\ UNCHANGED <<codes, clients, requested, idle, shut, last, age, run, active, taken, stale>>

\* A message: the route touches the entry, if there still is one.
Touch(r) == idle' = IF r \in clients THEN idle \ {r} ELSE idle

Ping(r) ==
    /\ conn[r] = "loop" /\ r \notin shut /\ sync[Route(r)] = NoSync
    /\ r \in idle
    /\ Touch(r)
    /\ UNCHANGED <<codes, clients, requested, shut, conn, sync, last, age, run, active, taken,
                   stale, events>>

\* update_codes: a dropped client is answered with no codes.
Subscribe(r, cs) ==
    /\ conn[r] = "loop" /\ r \notin shut /\ sync[Route(r)] = NoSync
    /\ Event
    /\ Touch(r)
    /\ IF r \in clients
       THEN /\ requested' = [requested EXCEPT ![r] = cs]
            /\ StartSync(Route(r), (UNION {requested'[q] : q \in clients}) \cup Base)
       ELSE UNCHANGED <<requested, sync>>
    /\ UNCHANGED <<codes, clients, shut, conn, last, age, run, active, taken, stale>>

\* No message for _NEWS_WS_IDLE_SEC.
Lapse(r) ==
    /\ r \in clients \ idle
    /\ Event
    /\ idle' = idle \cup {r}
    /\ UNCHANGED <<codes, clients, requested, shut, conn, sync, last, age, run, active, taken,
                   stale>>

\* receive_text raises: the client went away or _run closed the socket.
Leave(r) ==
    /\ conn[r] = "loop" /\ sync[Route(r)] = NoSync
    /\ \/ r \in shut /\ UNCHANGED events
       \/ r \notin shut /\ Event
    /\ conn' = [conn EXCEPT ![r] = "left"]
    /\ UNCHANGED <<codes, clients, requested, idle, shut, sync, last, age, run, active, taken,
                   stale>>

\* disconnect under _lock: whoever leaves nobody behind empties the hub.
Disconnect(r) ==
    /\ conn[r] = "left"
    /\ clients' = clients \ {r}
    /\ idle' = idle \ {r}
    /\ requested' = [requested EXCEPT ![r] = {}]
    /\ conn' = [conn EXCEPT ![r] = IF clients' = {} THEN "empty" ELSE "gone"]
    /\ UNCHANGED <<codes, shut, sync, last, age, run, active, taken, stale, events>>

\* The two set_codes([]), after the lock is released; the second resumes the
\* route, which forgets what was set.
Empty(r) ==
    /\ conn[r] \in {"empty", "emptyNxt"}
    /\ Replace({})
    /\ conn' = [conn EXCEPT ![r] = IF @ = "empty" THEN "emptyNxt" ELSE "gone"]
    /\ IF conn[r] = "emptyNxt" THEN last' = {} /\ age' = "old" ELSE UNCHANGED <<last, age>>
    /\ UNCHANGED <<clients, requested, idle, shut, sync, run, active, taken, stale, events>>

-----------------------------------------------------------------------------
(* The task _run.                                                          *)

\* A snapshot under _lock.  Without clients the task ends; with none but idle
\* ones it drops them, closes no socket, and sleeps.
RunTop ==
    /\ run \in {"top", "sleep"}
    /\ active' = clients \ idle
    /\ taken' = Requests(active')
    /\ stale' = IF active' = {} THEN {} ELSE clients \cap idle
    /\ clients' = IF active' = {} THEN {} ELSE clients
    /\ run' = IF clients = {} THEN "off" ELSE IF active' = {} THEN "sleep" ELSE "sync"
    /\ UNCHANGED <<codes, requested, idle, shut, conn, sync, last, age, events>>


\* _prioritize_rt_codes: of the requests and the broadcast codes, the requests
\* go first, cut to MAX_CODES like all the rest; which ones are cut depends on
\* the time they were last touched.  Only a code whose page was opened in the
\* last 20 seconds outranks a request.
Prioritize(t) ==
    \E first \in Truncations(taken) :
        /\ t \in Truncations(first \cup Base)
        /\ \/ (first \subseteq t \/ t \subseteq first) /\ UNCHANGED events
           \/ Event

\* _sync_rt_codes(.., force=False): what is left after the cut is not set again
\* before the heartbeat, and not before the minimum interval if it differs from
\* what was last set.  Equal sets in another order differ.
RunSync ==
    /\ run = "sync" /\ sync[Runner] = NoSync
    /\ \E t \in SUBSET Codes :
        /\ Prioritize(t)
        /\ \/ /\ age = "new" \/ (age = "mid" /\ t = last)
              /\ run' = "send"
              /\ UNCHANGED sync
           \/ /\ age = "old" \/ (age = "mid" /\ (t # last \/ Cardinality(t) > 1))
              /\ StartSync(Runner, t)
              /\ UNCHANGED run
    /\ UNCHANGED <<codes, clients, requested, idle, shut, conn, last, age, active, taken, stale>>

Unreachable == {r \in active : conn[r] # "loop"}

\* The broadcast: it fails on a socket that is not accepted or already gone,
\* and may fail or time out on any other.
RunSend ==
    /\ run = "send"
    /\ \E failed \in SUBSET active :
        /\ Unreachable \subseteq failed
        /\ IF failed = Unreachable THEN UNCHANGED events ELSE Event
        /\ stale' = stale \cup failed
    /\ run' = "prune"
    /\ UNCHANGED <<codes, clients, requested, idle, shut, conn, sync, last, age, active, taken>>

\* Stale clients are dropped under _lock and their sockets closed.
RunPrune ==
    /\ run = "prune"
    /\ clients' = clients \ stale
    /\ shut' = shut \cup stale
    /\ run' = "sleep" /\ stale' = {} /\ active' = {} /\ taken' = {}
    /\ UNCHANGED <<codes, requested, idle, conn, sync, last, age, events>>

RouteStep(r) == Accept(r) \/ Disconnect(r) \/ Empty(r) \/ (r \in shut /\ Leave(r))
RunStep      == RunTop \/ RunSync \/ RunSend \/ RunPrune
SyncStep(a)  == SyncRt(a) \/ SyncNxt(a)

NewsNext ==
    \/ \E r \in Readers :
        \/ Connect(r) \/ Accept(r) \/ Ping(r) \/ Lapse(r) \/ Leave(r) \/ Disconnect(r) \/ Empty(r)
        \/ \E cs \in Lists : Subscribe(r, cs)
    \/ \E a \in Syncers : SyncRt(a) \/ SyncNxt(a)
    \/ RunTop \/ RunSync \/ RunSend \/ RunPrune \/ Age

\* Coroutines and worker threads are scheduled, and time passes.
NewsFairness ==
    /\ \A r \in Readers : WF_newsVars(RouteStep(r))
    /\ \A a \in Syncers : WF_newsVars(SyncStep(a))
    /\ WF_newsVars(RunStep) /\ WF_newsVars(Age)

NewsSpec == NewsInit /\ [][NewsNext]_newsVars /\ NewsFairness
-----------------------------------------------------------------------------
(* Properties.                                                             *)

=============================================================================
