---------------------------- MODULE StockFlowHub ----------------------------
(***************************************************************************)
(* _StockFlowWsHub of part01_realtime_base.py: each client of              *)
(* /ws/stock-flow looks at one code.  A subscription gets a full snapshot  *)
(* from a task of its own; the broadcast loop then sends what differs from *)
(* the signature it remembers for the client.  Everything runs on one      *)
(* event loop and is interleaved at the awaits.                            *)
(*                                                                         *)
(* The payload of a code is a version; order book and large trades have a  *)
(* signature each in the code, which are treated alike.                    *)
(***************************************************************************)
EXTENDS Naturals, FiniteSets

CONSTANTS
    Watchers,    \* websocket connections
    Codes,       \* stock codes
    Null,        \* no code, no signature, nothing shown
    MaxWatchers, \* _STOCK_FLOW_WS_MAX_CLIENTS
    MaxData,     \* bound: changes of a code's payload
    MaxSubs      \* bound: left[w] at first

ASSUME FlowAssumption == MaxData \in Nat /\ MaxSubs \in Nat

VARIABLES
    data,     \* data[x]: the payload _load_stock_flow_payload returns for x
    watching, \* the connections in self._clients
    looks,    \* looks[w]: entry["code"]
    sig,      \* sig[w]: entry's signatures, together
    ws,       \* ws[w]: where the coroutine of w's websocket stands
    tasks,    \* the tasks of _send_initial_snapshot
    phase,    \* where _run stands; "none" if self._task is done
    round,    \* its snapshot of the clients with a code: code, signature
    fetched,  \* the payloads it loaded
    todo,     \* clients it has still to go through
    drop,     \* stale_cids
    update,   \* sig_updates
    shows,    \* shows[w]: what the client displays for the code it looks at
    left,     \* bound: left[w]: subscribe messages w may still send
    loose     \* history: w's display and its signature have parted

flowVars == <<data, watching, looks, sig, ws, tasks, phase, round, fetched, todo, drop, update,
              shows, left, loose>>

Version == 0 .. MaxData
Mark    == [code : Codes, is : Version]   \* a signature, or a display
IsPartial(f, D, R) == DOMAIN f \subseteq D /\ \A d \in DOMAIN f : f[d] \in R
ASSUME NullAssumption == Null \notin Mark

NoRound == [x \in {} |-> Null]

FlowTypeOK ==
    /\ data \in [Codes -> Version]
    /\ watching \in SUBSET Watchers
    /\ looks \in [Watchers -> Codes \cup {Null}]
    /\ sig \in [Watchers -> Mark \cup {Null}]
    /\ ws \in [Watchers -> {"new", "busy", "accept", "loop", "gone"}]
    /\ tasks \subseteq [w : Watchers, code : Codes, has : Version \cup {Null}, nth : 0 .. MaxSubs]
    /\ phase \in {"none", "top", "load", "send"}
    /\ IsPartial(round, Watchers, [code : Codes, sig : Mark \cup {Null}, nth : 0 .. MaxSubs])
    /\ IsPartial(fetched, Codes, Version)
    /\ todo \in SUBSET Watchers /\ drop \in SUBSET Watchers
    /\ IsPartial(update, Watchers, Mark)
    /\ shows \in [Watchers -> Mark \cup {Null}]
    /\ left \in [Watchers -> 0 .. MaxSubs]
    /\ loose \in SUBSET Watchers

\* A connection that is gone from the start stands for one that never opens.
FlowInit ==
    /\ data = [x \in Codes |-> 0]
    /\ watching = {} /\ tasks = {} /\ phase = "none"
    /\ looks = [w \in Watchers |-> Null] /\ sig = [w \in Watchers |-> Null]
    /\ ws \in [Watchers -> {"new", "gone"}]
    /\ round = NoRound /\ fetched = NoRound /\ update = NoRound
    /\ todo = {} /\ drop = {}
    /\ shows = [w \in Watchers |-> Null] /\ left \in [Watchers -> 0 .. MaxSubs] /\ loose = {}

DataChanges(x) ==
    /\ data[x] < MaxData
    /\ data' = [data EXCEPT ![x] = @ + 1]
    /\ UNCHANGED <<watching, looks, sig, ws, tasks, phase, round, fetched, todo, drop, update,
                   shows, left, loose>>

-----------------------------------------------------------------------------
(* The endpoint.                                                             *)

\* connect: registered before accept, with a loop started if none runs.
WatcherConnects(w) ==
    /\ ws[w] = "new"
    /\ IF Cardinality(watching) >= MaxWatchers
       THEN /\ ws' = [ws EXCEPT ![w] = "busy"]
            /\ UNCHANGED <<watching, phase>>
       ELSE /\ ws' = [ws EXCEPT ![w] = "accept"]
            /\ watching' = watching \cup {w}
            /\ phase' = IF phase = "none" THEN "top" ELSE phase
    /\ UNCHANGED <<data, looks, sig, tasks, round, fetched, todo, drop, update, shows, left, loose>>

\* accept and the first message; when either raises, nobody disconnects.
WatcherAccepted(w) ==
    /\ ws[w] \in {"busy", "accept"}
    /\ \/ ws[w] = "accept" /\ ws' = [ws EXCEPT ![w] = "loop"]
       \/ ws' = [ws EXCEPT ![w] = "gone"]
    /\ UNCHANGED <<data, watching, looks, sig, tasks, phase, round, fetched, todo, drop, update,
                   shows, left, loose>>

\* Mutant: the signatures of the previous code stay.
UpdateCodeKeepsSignature(w, c) ==
    /\ ws[w] = "loop" /\ left[w] > 0
    /\ left' = [left EXCEPT ![w] = @ - 1]
    /\ shows' = [shows EXCEPT ![w] = Null]
    /\ IF w \in watching
       THEN /\ looks' = [looks EXCEPT ![w] = c]
            /\ loose' = loose \ {w}
            /\ tasks' = IF c = Null THEN tasks
                        ELSE tasks \cup {[w |-> w, code |-> c, has |-> Null, nth |-> left'[w]]}
       ELSE UNCHANGED <<looks, tasks, loose>>
    /\ UNCHANGED <<data, watching, sig, ws, phase, round, fetched, todo, drop, update>>

\* update_code: the client shows nothing until something comes; without a
\* valid code no snapshot is sent.
UpdateCode(w, c) ==
    /\ ws[w] = "loop" /\ left[w] > 0
    /\ left' = [left EXCEPT ![w] = @ - 1]
    /\ shows' = [shows EXCEPT ![w] = Null]
    /\ IF w \in watching
       THEN /\ looks' = [looks EXCEPT ![w] = c]
            /\ sig' = [sig EXCEPT ![w] = Null]
            /\ loose' = loose \ {w}
            /\ tasks' = IF c = Null THEN tasks
                        ELSE tasks \cup {[w |-> w, code |-> c, has |-> Null, nth |-> left'[w]]}
       ELSE UNCHANGED <<looks, sig, tasks, loose>>
    /\ UNCHANGED <<data, watching, ws, phase, round, fetched, todo, drop, update>>

\* The client leaves, or was closed; the finally clause disconnects.
WatcherLeaves(w) ==
    /\ ws[w] = "loop"
    /\ ws' = [ws EXCEPT ![w] = "gone"]
    /\ watching' = watching \ {w}
    /\ looks' = [looks EXCEPT ![w] = Null] /\ sig' = [sig EXCEPT ![w] = Null]
    /\ shows' = [shows EXCEPT ![w] = Null] /\ loose' = loose \ {w}
    /\ UNCHANGED <<data, tasks, phase, round, fetched, todo, drop, update, left>>

-----------------------------------------------------------------------------
(* _send_initial_snapshot.                                                   *)

SnapshotLoads(t) ==
    /\ t \in tasks /\ t.has = Null
    /\ \/ tasks' = (tasks \ {t}) \cup {[t EXCEPT !.has = data[t.code]]}
       \/ tasks' = tasks \ {t}            \* the load raises: nothing is sent
    /\ UNCHANGED <<data, watching, looks, sig, ws, phase, round, fetched, todo, drop, update,
                   shows, left, loose>>

\* A message for the code the client looks at is what it shows.
Receives(w, code, is) ==
    shows' = IF ws[w] = "loop" /\ looks[w] = code
             THEN [shows EXCEPT ![w] = [code |-> code, is |-> is]] ELSE shows

\* Sent only if the entry still has the code; by then a broadcast may have
\* brought something newer.
SnapshotSends(t) ==
    /\ t \in tasks /\ t.has # Null
    /\ tasks' = tasks \ {t}
    /\ IF t.w \in watching /\ looks[t.w] = t.code
       THEN /\ Receives(t.w, t.code, t.has)
            /\ loose' = IF shows[t.w] # Null /\ shows[t.w].is > t.has
                        THEN loose \cup {t.w} ELSE loose
       ELSE UNCHANGED <<shows, loose>>
    /\ UNCHANGED <<data, watching, looks, sig, ws, phase, round, fetched, todo, drop, update, left>>

-----------------------------------------------------------------------------
(* _run.                                                                     *)

\* The snapshot of the clients; those idle for too long are to be dropped.
RoundTop ==
    /\ phase = "top"
    /\ IF watching = {}
       THEN phase' = "none" /\ UNCHANGED <<round, todo, drop>>
       ELSE /\ phase' = "load"
            /\ \E idle \in SUBSET watching :
                /\ drop' = idle
                /\ todo' = {w \in watching \ idle : looks[w] # Null}
                /\ round' = [w \in todo' |-> [code |-> looks[w], sig |-> sig[w], nth |-> left[w]]]
    /\ UNCHANGED <<data, watching, looks, sig, ws, tasks, fetched, update, shows, left, loose>>

\* In a thread; a load that raises ends the loop until somebody connects.
RoundLoads ==
    /\ phase = "load"
    /\ \/ /\ phase' = "send"
          /\ fetched' = [x \in {round[w].code : w \in todo} |-> data[x]]
          /\ UNCHANGED <<round, todo, drop>>
       \/ /\ phase' = "none"
          /\ round' = NoRound /\ todo' = {} /\ drop' = {}
          /\ UNCHANGED fetched
    /\ UNCHANGED <<data, watching, looks, sig, ws, tasks, update, shows, left, loose>>

\* One client: what it lacks is sent; every so often a message goes out
\* without news, and that or any other send may fail.
RoundSends(w) ==
    /\ phase = "send" /\ w \in todo
    /\ todo' = todo \ {w}
    /\ LET new == [code |-> round[w].code, is |-> fetched[round[w].code]] IN
       \/ /\ update' = [v \in DOMAIN update \cup {w} |-> IF v = w THEN new ELSE update[v]]
          /\ IF round[w].sig # new THEN Receives(w, new.code, new.is) ELSE UNCHANGED shows
          /\ UNCHANGED drop
       \/ /\ drop' = drop \cup {w}
          /\ UNCHANGED <<update, shows>>
    /\ UNCHANGED <<data, watching, looks, sig, ws, tasks, phase, round, fetched, left, loose>>

\* Under the lock again: the dropped are removed, and the signatures of what was
\* sent go to whoever is left, whatever it looks at by now.
RoundWrites ==
    /\ phase = "send" /\ todo = {}
    /\ phase' = "top"
    /\ watching' = watching \ drop
    /\ LET told == watching' \cap DOMAIN update IN
        /\ sig' = [w \in Watchers |-> IF w \in told THEN update[w] ELSE sig[w]]
        /\ loose' = loose \cup {w \in told : left[w] # round[w].nth}
    /\ round' = NoRound /\ fetched' = NoRound /\ update' = NoRound /\ drop' = {}
    /\ UNCHANGED <<data, looks, ws, tasks, todo, shows, left>>

FlowNext ==
    \/ \E x \in Codes : DataChanges(x)
    \/ \E w \in Watchers :
        \/ WatcherConnects(w) \/ WatcherAccepted(w) \/ WatcherLeaves(w) \/ RoundSends(w)
        \/ \E c \in Codes \cup {Null} : UpdateCode(w, c)
    \/ \E t \in tasks : SnapshotLoads(t) \/ SnapshotSends(t)
    \/ RoundTop \/ RoundLoads \/ RoundWrites

FlowSpec == FlowInit /\ [][FlowNext]_flowVars
-----------------------------------------------------------------------------
(* Properties.                                                               *)

\* A client's signature never claims more than the client shows: while it is
\* registered and looks at the code of the signature written last, it displays
\* that content or a later one, so that a payload withheld because its
\* signature is unchanged is one the client has.  Exempt are a client whose
\* snapshot came after a newer broadcast, and one that subscribed again during
\* the round that wrote its signature (part01 2660-2671, 2780-2825).
SignatureIsShown ==
    \A w \in watching \ loose : ws[w] = "loop" /\ sig[w] # Null =>
        /\ shows[w] # Null
        /\ shows[w].code = sig[w].code /\ shows[w].is >= sig[w].is
=============================================================================
