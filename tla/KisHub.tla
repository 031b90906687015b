------------------------------- MODULE KisHub -------------------------------
(***************************************************************************)
(* The domestic KIS realtime hubs of part01_realtime_base.py:              *)
(* _KisDomesticRtHub (executions, two TR ids per code) and                 *)
(* _KisDomesticOrderbookHub (order book, one TR id per code).              *)
(*                                                                         *)
(* Request threads (Callers) change the desired set _codes under _lock and *)
(* then, outside the lock, push the difference to the live connection with *)
(* run_coroutine_threadsafe.  A hub thread owns an event loop on which it  *)
(* connects, subscribes a snapshot, and keeps sending the difference       *)
(* between _codes and the set `subscribed' it remembers.  The peer (KIS)   *)
(* keeps one registration per (code, TR id) and connection.                *)
(***************************************************************************)
EXTENDS CodeSet, Integers, Sequences

CONSTANTS Callers,    \* threads that call add_codes / remove_codes / set_codes
          Hubs,       \* hub threads that _ensure_running may create
          None,       \* Python's None
          NumTr,      \* 1 + len(EXTRA_TR_IDS): messages sent per code
          MaxCalls,   \* bound: public calls made in a behaviour
          MaxConns,   \* bound: connections made in a behaviour
          MaxFaults   \* bound: failed keys, failed connects and lost connections

ASSUME CapacityAssumption == MaxCodes \in Nat \ {0} /\ NumTr \in Nat \ {0}
ASSUME BoundAssumption    == MaxCalls \in Nat /\ MaxConns \in Nat /\ MaxFaults \in Nat
ASSUME NoneAssumption     == None \notin Hubs /\ None \notin Nat

VARIABLES
    ws,         \* self._ws: the connection live sends go to, or None
    loop,       \* self._loop: the event loop they are scheduled on, or None
    key,        \* self._approval_key is set
    thread,     \* self._thread
    alive,      \* hub threads whose start() has run
    \* one public call in progress per caller
    pc, rem, add, ens, cws, cloop, post,
    \* the session of each hub thread
    hpc, conn, subscribed, toAdd, toDel, wanted,
    \* the network and the peer
    open,       \* connections both ends believe in
    upstream,   \* upstream[n]: registrations (code, TR index) of connection n
    nextConn,   \* connections made so far
    sched,      \* sched[h]: coroutines scheduled on the loop of h, in order
    \* bounds and history
    calls, faults,
    overlap,    \* two of the calls made since all callers were last idle overlap
    calm        \* connections that no overlapping calls can have sent to

sharedVars == <<codes, ws, loop, key, thread, alive>>
callerVars == <<pc, rem, add, ens, cws, cloop, post>>
hubVars    == <<hpc, conn, subscribed, toAdd, toDel, wanted>>
netVars    == <<open, upstream, nextConn, sched>>
history    == <<overlap, calm>>
vars       == <<sharedVars, callerVars, hubVars, netVars, calls, faults, history>>

TrIdx == 1 .. NumTr
Regs  == Codes \X TrIdx
Conns == 1 .. MaxConns
LiveMsg == [conn: Conns, type: {"sub", "unsub"}, reg: Regs]

\* What `for code in ..: for tr_id in ..' may send next of the set s: the TR
\* ids of a code in order, and no other code before all of them are sent.
NextReg(s) ==
    {r \in s : /\ \A q \in s : q[1] = r[1] => q[2] >= r[2]
               /\ r[2] = 1 => \A q \in s : <<q[1], 1>> \in s}

TypeOK ==
    /\ codes \in SUBSET Codes
    /\ ws \in Conns \cup {None}
    /\ loop \in Hubs \cup {None}
    /\ key \in BOOLEAN
    /\ thread \in Hubs \cup {None}
    /\ alive \in SUBSET Hubs
    /\ pc \in [Callers -> {"idle", "unsub", "unsubPost", "sub", "subPost", "ensure", "start"}]
    /\ rem \in [Callers -> SUBSET Codes]
    /\ add \in [Callers -> SUBSET Codes]
    /\ ens \in [Callers -> {"never", "ifCodes", "always"}]
    /\ cws \in [Callers -> Conns \cup {None}]
    /\ cloop \in [Callers -> Hubs \cup {None}]
    /\ post \in [Callers -> SUBSET Regs]
    /\ hpc \in [Hubs -> {"off", "top", "key", "connect", "snapshot", "send", "diff", "recv",
                      "backoff"}]
    /\ conn \in [Hubs -> Conns \cup {None}]
    /\ subscribed \in [Hubs -> SUBSET Codes]
    /\ toAdd \in [Hubs -> SUBSET Regs]
    /\ toDel \in [Hubs -> SUBSET Regs]
    /\ wanted \in [Hubs -> BOOLEAN]
    /\ open \in SUBSET Conns
    /\ upstream \in [Conns -> SUBSET Regs]
    /\ nextConn \in 0 .. MaxConns
    /\ sched \in [Hubs -> Seq(LiveMsg)]
    /\ calls \in 0 .. MaxCalls
    /\ faults \in 0 .. MaxFaults
    /\ overlap \in BOOLEAN
    /\ calm \in SUBSET Conns

Init ==
    /\ codes = {} /\ ws = None /\ loop = None /\ key = FALSE
    /\ thread = None /\ alive = {}
    /\ pc = [c \in Callers |-> "idle"]
    /\ rem = [c \in Callers |-> {}] /\ add = [c \in Callers |-> {}]
    /\ ens = [c \in Callers |-> "never"]
    /\ cws = [c \in Callers |-> None] /\ cloop = [c \in Callers |-> None]
    /\ post = [c \in Callers |-> {}]
    /\ hpc = [h \in Hubs |-> "off"]
    /\ conn = [h \in Hubs |-> None]
    /\ subscribed = [h \in Hubs |-> {}]
    /\ toAdd = [h \in Hubs |-> {}] /\ toDel = [h \in Hubs |-> {}]
    /\ wanted = [h \in Hubs |-> FALSE]
    /\ open = {} /\ upstream = [n \in Conns |-> {}] /\ nextConn = 0
    /\ sched = [h \in Hubs |-> <<>>]
    /\ calls = 0 /\ faults = 0 /\ overlap = FALSE /\ calm = {}

-----------------------------------------------------------------------------
(* Public calls: the section under _lock.                                  *)

Busy(c) == pc[c] # "idle"

BeginCall(c) ==
    /\ ~Busy(c)
    /\ calls < MaxCalls
    /\ calls' = calls + 1
    /\ overlap' = \E d \in Callers : Busy(d)
    /\ calm' = IF overlap' THEN {} ELSE calm
    /\ UNCHANGED <<ws, loop, key, thread, alive, cws, cloop, post, faults>>
    /\ UNCHANGED hubVars
    /\ UNCHANGED netVars

\* add_codes([x]).
AddCodes(c, x) ==
    /\ BeginCall(c)
    /\ Add(x)
    /\ rem' = [rem EXCEPT ![c] = {}]
    /\ add' = [add EXCEPT ![c] = codes' \ codes]
    /\ ens' = [ens EXCEPT ![c] = "ifCodes"]
    /\ pc' = [pc EXCEPT ![c] = "sub"]

\* remove_codes(req).
RemoveCodes(c, req) ==
    /\ BeginCall(c)
    /\ Remove(req)
    /\ rem' = [rem EXCEPT ![c] = codes \cap req]
    /\ add' = [add EXCEPT ![c] = {}]
    /\ ens' = [ens EXCEPT ![c] = "never"]
    /\ pc' = [pc EXCEPT ![c] = "unsub"]

\* set_codes(s).
SetCodes(c, s) ==
    /\ BeginCall(c)
    /\ Replace(s)
    /\ rem' = [rem EXCEPT ![c] = codes \ codes']
    /\ add' = [add EXCEPT ![c] = codes' \ codes]
    /\ ens' = [ens EXCEPT ![c] = IF codes' = {} THEN "never" ELSE "always"]
    /\ pc' = [pc EXCEPT ![c] = "unsub"]

(* Public calls: after the lock is released.                               *)

\* _unsubscribe_live / _subscribe_live read self._ws, self._loop and the
\* approval key; without any of them, or with nothing to send, they return.
LiveBegin(c) ==
    LET diff == IF pc[c] = "unsub" THEN rem[c] ELSE add[c]
        live == diff # {} /\ ws # None /\ loop # None /\ key
    IN  /\ pc[c] \in {"unsub", "sub"}
        /\ \/ /\ live
              /\ cws' = [cws EXCEPT ![c] = ws]
              /\ cloop' = [cloop EXCEPT ![c] = loop]
              /\ post' = [post EXCEPT ![c] = diff \X TrIdx]
              /\ pc' = [pc EXCEPT ![c] = IF @ = "unsub" THEN "unsubPost" ELSE "subPost"]
           \/ /\ ~live
              /\ pc' = [pc EXCEPT ![c] = IF @ = "unsub" THEN "sub" ELSE "ensure"]
              /\ UNCHANGED <<cws, cloop, post>>
        /\ UNCHANGED <<rem, add, ens, calls, faults, history>>
        /\ UNCHANGED sharedVars /\ UNCHANGED hubVars /\ UNCHANGED netVars

\* One run_coroutine_threadsafe: the TR ids of a code go out in order.
LivePost(c) ==
    /\ pc[c] \in {"unsubPost", "subPost"}
    /\ \E r \in NextReg(post[c]) :
        /\ sched' = [sched EXCEPT ![cloop[c]] = Append(@,
                        [conn |-> cws[c],
                         type |-> IF pc[c] = "unsubPost" THEN "unsub" ELSE "sub",
                         reg  |-> r])]
        /\ post' = [post EXCEPT ![c] = @ \ {r}]
    /\ pc' = [pc EXCEPT ![c] = IF post'[c] # {} THEN @
                               ELSE IF @ = "unsubPost" THEN "sub" ELSE "ensure"]
    /\ UNCHANGED <<rem, add, ens, cws, cloop, open, upstream, nextConn, calls, faults, history>>
    /\ UNCHANGED sharedVars /\ UNCHANGED hubVars

\* The call returns and its locals are gone.
Return(c) ==
    /\ pc' = [pc EXCEPT ![c] = "idle"]
    /\ rem' = [rem EXCEPT ![c] = {}]
    /\ add' = [add EXCEPT ![c] = {}]
    /\ ens' = [ens EXCEPT ![c] = "never"]
    /\ cws' = [cws EXCEPT ![c] = None]
    /\ cloop' = [cloop EXCEPT ![c] = None]
    /\ UNCHANGED post

\* _ensure_running under the lock: an assigned thread counts only once alive.
Ensure(c) ==
    /\ pc[c] = "ensure"
    /\ \/ /\ \/ ens[c] = "never"
             \/ ens[c] = "ifCodes" /\ codes = {}
             \/ thread \in alive
          /\ Return(c)
          /\ UNCHANGED thread
       \/ /\ ens[c] = "always" \/ (ens[c] = "ifCodes" /\ codes # {})
          /\ thread \notin alive
          /\ \E h \in Hubs \ alive :
                /\ \A d \in Callers : pc[d] = "start" => cloop[d] # h
                /\ thread' = h
                /\ cloop' = [cloop EXCEPT ![c] = h]
          /\ pc' = [pc EXCEPT ![c] = "start"]
          /\ UNCHANGED <<rem, add, ens, cws, post>>
    /\ UNCHANGED <<codes, ws, loop, key, alive, calls, faults, history>>
    /\ UNCHANGED hubVars /\ UNCHANGED netVars

\* t.start(), outside the lock (cloop holds the local variable t); the thread
\* enters _run and publishes its loop.
StartThread(c) ==
    /\ pc[c] = "start"
    /\ alive' = alive \cup {cloop[c]}
    /\ loop' = cloop[c]
    /\ hpc' = [hpc EXCEPT ![cloop[c]] = "top"]
    /\ Return(c)
    /\ UNCHANGED <<codes, ws, key, thread, conn, subscribed, toAdd, toDel, wanted,
                   calls, faults, history>>
    /\ UNCHANGED netVars

-----------------------------------------------------------------------------
(* The hub thread: _run and its coroutine _inner.                          *)

HubFrame == UNCHANGED callerVars /\ UNCHANGED calls

\* Top of the loop: a snapshot of _codes, or an idle wait that drops the key.
Top(h) ==
    /\ hpc[h] = "top"
    /\ IF codes = {}
       THEN key' = FALSE /\ UNCHANGED <<hpc, toAdd>>
       ELSE /\ hpc' = [hpc EXCEPT ![h] = "key"]
            /\ toAdd' = [toAdd EXCEPT ![h] = codes \X TrIdx]
            /\ UNCHANGED key
    /\ UNCHANGED <<codes, ws, loop, thread, alive, conn, subscribed, toDel, wanted,
                   faults, history>>
    /\ UNCHANGED netVars /\ HubFrame

GetKey(h) ==
    /\ hpc[h] = "key"
    /\ hpc' = [hpc EXCEPT ![h] = "connect"]
    /\ key' = TRUE
    /\ UNCHANGED <<codes, ws, loop, thread, alive, conn, subscribed, toAdd, toDel, wanted,
                   faults, history>>
    /\ UNCHANGED netVars /\ HubFrame

\* Mutant: `subscribed' outlives the session.
EndSessionRemember(h) ==
    /\ hpc' = [hpc EXCEPT ![h] = "top"]
    /\ ws' = None
    /\ conn' = [conn EXCEPT ![h] = None]
    /\ toAdd' = [toAdd EXCEPT ![h] = {}]
    /\ toDel' = [toDel EXCEPT ![h] = {}]
    /\ wanted' = [wanted EXCEPT ![h] = FALSE]
    /\ UNCHANGED <<subscribed, codes, loop, key, thread, alive>>

\* The session is over: finally clears self._ws, and its locals are gone.
EndSession(h) ==
    /\ hpc' = [hpc EXCEPT ![h] = "top"]
    /\ ws' = None
    /\ conn' = [conn EXCEPT ![h] = None]
    /\ subscribed' = [subscribed EXCEPT ![h] = {}]
    /\ toAdd' = [toAdd EXCEPT ![h] = {}]
    /\ toDel' = [toDel EXCEPT ![h] = {}]
    /\ wanted' = [wanted EXCEPT ![h] = FALSE]
    /\ UNCHANGED <<codes, loop, key, thread, alive>>

\* No approval key: sleep and start over; ws is None already, and finally
\* sets it again.
KeyFails(h) ==
    /\ hpc[h] = "key"
    /\ faults < MaxFaults
    /\ faults' = faults + 1
    /\ EndSession(h)
    /\ UNCHANGED history
    /\ UNCHANGED netVars /\ HubFrame

\* A new connection; the snapshot in toAdd is subscribed first.
Connect(h) ==
    /\ hpc[h] = "connect"
    /\ nextConn < MaxConns
    /\ nextConn' = nextConn + 1
    /\ open' = open \cup {nextConn'}
    /\ conn' = [conn EXCEPT ![h] = nextConn']
    /\ ws' = nextConn'
    /\ hpc' = [hpc EXCEPT ![h] = "snapshot"]
    /\ calm' = IF overlap /\ \E c \in Callers : Busy(c) THEN calm ELSE calm \cup {nextConn'}
    /\ UNCHANGED <<codes, loop, key, thread, alive, subscribed, toAdd, toDel, wanted, upstream,
                   sched, faults, overlap>>
    /\ HubFrame

ConnectFails(h) ==
    /\ hpc[h] = "connect"
    /\ faults < MaxFaults
    /\ faults' = faults + 1
    /\ hpc' = [hpc EXCEPT ![h] = "backoff"]
    /\ UNCHANGED <<conn, subscribed, toAdd, toDel, wanted, history>>
    /\ UNCHANGED sharedVars /\ UNCHANGED netVars /\ HubFrame

\* await _send_subscribe(.., "1"), one message at a time: raises on a lost
\* connection, which ends the session.
SendAdd(h) ==
    /\ hpc[h] \in {"snapshot", "send"}
    /\ \E r \in NextReg(toAdd[h]) :
        IF conn[h] \in open
        THEN /\ upstream' = [upstream EXCEPT ![conn[h]] = @ \cup {r}]
             /\ subscribed' = [subscribed EXCEPT ![h] = IF r[2] = NumTr THEN @ \cup {r[1]} ELSE @]
             /\ toAdd' = [toAdd EXCEPT ![h] = @ \ {r}]
             /\ UNCHANGED hpc
        ELSE /\ hpc' = [hpc EXCEPT ![h] = "backoff"]
             /\ UNCHANGED <<upstream, subscribed, toAdd>>
    /\ UNCHANGED <<conn, toDel, wanted, open, nextConn, sched, faults, history>>
    /\ UNCHANGED sharedVars /\ HubFrame

\* Mutant: only the first TR id is unsubscribed.
SendDelFirstTr(h) ==
    /\ hpc[h] = "send"
    /\ toAdd[h] = {}
    /\ \E r \in NextReg(toDel[h]) :
        /\ upstream' = IF conn[h] \in open /\ r[2] = 1
                       THEN [upstream EXCEPT ![conn[h]] = @ \ {r}] ELSE upstream
        /\ subscribed' = [subscribed EXCEPT ![h] = IF r[2] = NumTr THEN @ \ {r[1]} ELSE @]
        /\ toDel' = [toDel EXCEPT ![h] = @ \ {r}]
    /\ UNCHANGED <<hpc, conn, toAdd, wanted, open, nextConn, sched, faults, history>>
    /\ UNCHANGED sharedVars /\ HubFrame

\* await _send_subscribe(.., "2") after all additions; its failure is ignored.
SendDel(h) ==
    /\ hpc[h] = "send"
    /\ toAdd[h] = {}
    /\ \E r \in NextReg(toDel[h]) :
        /\ upstream' = IF conn[h] \in open
                       THEN [upstream EXCEPT ![conn[h]] = @ \ {r}] ELSE upstream
        /\ subscribed' = [subscribed EXCEPT ![h] = IF r[2] = NumTr THEN @ \ {r[1]} ELSE @]
        /\ toDel' = [toDel EXCEPT ![h] = @ \ {r}]
    /\ UNCHANGED <<hpc, conn, toAdd, wanted, open, nextConn, sched, faults, history>>
    /\ UNCHANGED sharedVars /\ HubFrame

\* Everything sent: the snapshot is compared at once with what is desired by
\* now; after a comparison, wait for a message.
SendDone(h) ==
    /\ toAdd[h] = {} /\ toDel[h] = {}
    /\ \/ hpc[h] = "snapshot" /\ hpc' = [hpc EXCEPT ![h] = "diff"]
       \/ hpc[h] = "send" /\ wanted[h] /\ hpc' = [hpc EXCEPT ![h] = "recv"]
    /\ UNCHANGED <<conn, subscribed, toAdd, toDel, wanted, faults, history>>
    /\ UNCHANGED sharedVars /\ UNCHANGED netVars /\ HubFrame

\* Mutant: the connection is left open.
CloseUnusedNot(h) ==
    /\ hpc[h] = "send"
    /\ toAdd[h] = {} /\ toDel[h] = {}
    /\ ~wanted[h]
    /\ EndSession(h)
    /\ UNCHANGED <<open, upstream, nextConn, sched, faults, history>>
    /\ HubFrame

\* Nothing desired any more: close, and the finally clause clears self._ws.
CloseUnused(h) ==
    /\ hpc[h] = "send"
    /\ toAdd[h] = {} /\ toDel[h] = {}
    /\ ~wanted[h]
    /\ open' = open \ {conn[h]}
    /\ upstream' = [upstream EXCEPT ![conn[h]] = {}]
    /\ EndSession(h)
    /\ UNCHANGED <<nextConn, sched, faults, history>>
    /\ HubFrame

\* recv returned a message, or timed out and the ping was answered.
Recv(h) ==
    /\ hpc[h] = "recv"
    /\ hpc' = [hpc EXCEPT ![h] = IF conn[h] \in open THEN "diff" ELSE "backoff"]
    /\ UNCHANGED <<conn, subscribed, toAdd, toDel, wanted, faults, history>>
    /\ UNCHANGED sharedVars /\ UNCHANGED netVars /\ HubFrame

\* Mutant: codes that are not desired any more are left alone.
DiffAddOnly(h) ==
    /\ hpc[h] = "diff"
    /\ toAdd' = [toAdd EXCEPT ![h] = (codes \ subscribed[h]) \X TrIdx]
    /\ toDel' = [toDel EXCEPT ![h] = {}]
    /\ wanted' = [wanted EXCEPT ![h] = codes # {}]
    /\ hpc' = [hpc EXCEPT ![h] = "send"]
    /\ UNCHANGED <<conn, subscribed, faults, history>>
    /\ UNCHANGED sharedVars /\ UNCHANGED netVars /\ HubFrame

\* Mutant: the two differences are exchanged.
DiffExchanged(h) ==
    /\ hpc[h] = "diff"
    /\ toAdd' = [toAdd EXCEPT ![h] = (subscribed[h] \ codes) \X TrIdx]
    /\ toDel' = [toDel EXCEPT ![h] = (codes \ subscribed[h]) \X TrIdx]
    /\ wanted' = [wanted EXCEPT ![h] = codes # {}]
    /\ hpc' = [hpc EXCEPT ![h] = "send"]
    /\ UNCHANGED <<conn, subscribed, faults, history>>
    /\ UNCHANGED sharedVars /\ UNCHANGED netVars /\ HubFrame

\* desired, read under the lock, against what this session has sent.
Diff(h) ==
    /\ hpc[h] = "diff"
    /\ toAdd' = [toAdd EXCEPT ![h] = (codes \ subscribed[h]) \X TrIdx]
    /\ toDel' = [toDel EXCEPT ![h] = (subscribed[h] \ codes) \X TrIdx]
    /\ wanted' = [wanted EXCEPT ![h] = codes # {}]
    /\ hpc' = [hpc EXCEPT ![h] = "send"]
    /\ UNCHANGED <<conn, subscribed, faults, history>>
    /\ UNCHANGED sharedVars /\ UNCHANGED netVars /\ HubFrame

\* The except branch sleeps first; only then finally clears self._ws.
Backoff(h) ==
    /\ hpc[h] = "backoff"
    /\ EndSession(h)
    /\ UNCHANGED <<faults, history>>
    /\ UNCHANGED netVars /\ HubFrame

\* The loop of h runs the next scheduled coroutine: ws.send on the connection
\* captured by the caller.  It raises, unobserved, on a closed connection.
RunScheduled(h) ==
    /\ sched[h] # <<>>
    /\ LET m == Head(sched[h]) IN
        upstream' = IF m.conn \notin open THEN upstream
                    ELSE IF m.type = "sub"
                         THEN [upstream EXCEPT ![m.conn] = @ \cup {m.reg}]
                         ELSE [upstream EXCEPT ![m.conn] = @ \ {m.reg}]
    /\ sched' = [sched EXCEPT ![h] = Tail(@)]
    /\ UNCHANGED <<open, nextConn, faults, history>>
    /\ UNCHANGED sharedVars /\ UNCHANGED hubVars /\ HubFrame

\* The peer or the network drops a connection; its registrations go with it.
Drop(n) ==
    /\ n \in open
    /\ faults < MaxFaults
    /\ faults' = faults + 1
    /\ open' = open \ {n}
    /\ upstream' = [upstream EXCEPT ![n] = {}]
    /\ UNCHANGED <<nextConn, sched, history>>
    /\ UNCHANGED sharedVars /\ UNCHANGED hubVars /\ HubFrame

-----------------------------------------------------------------------------
CallStep(c) == LiveBegin(c) \/ LivePost(c) \/ Ensure(c) \/ StartThread(c)

HubStep(h) == \/ Top(h) \/ GetKey(h) \/ Connect(h) \/ SendAdd(h) \/ SendDel(h)
              \/ SendDone(h) \/ CloseUnused(h) \/ Recv(h) \/ Diff(h) \/ Backoff(h)

Next ==
    \/ \E c \in Callers :
        \/ \E x \in Codes : AddCodes(c, x)
        \/ \E req \in (SUBSET Codes) \ {{}} : RemoveCodes(c, req)
        \/ \E s \in SUBSET Codes : SetCodes(c, s)
        \/ LiveBegin(c) \/ LivePost(c) \/ Ensure(c) \/ StartThread(c)
    \/ \E h \in Hubs :
        \/ Top(h) \/ GetKey(h) \/ Connect(h) \/ SendAdd(h) \/ SendDel(h)
        \/ SendDone(h) \/ CloseUnused(h) \/ Recv(h) \/ Diff(h) \/ Backoff(h)
        \/ KeyFails(h) \/ ConnectFails(h) \/ RunScheduled(h)
    \/ \E n \in Conns : Drop(n)

Spec == Init /\ [][Next]_vars

\* A call in progress returns; a hub thread and its loop keep being scheduled.
Fairness ==
    /\ \A c \in Callers : WF_vars(CallStep(c))
    /\ \A h \in Hubs : WF_vars(HubStep(h)) /\ WF_vars(RunScheduled(h))

FairSpec == Spec /\ Fairness
-----------------------------------------------------------------------------
(* Properties.                                                             *)

\* The hub never desires more than MAX_CODES codes, whichever threads add,
\* remove and replace them (part01 add_codes / set_codes, line 218).
CapacityRespected == Cardinality(codes) <= MaxCodes

\* Every connection believed open belongs to the running session of one hub
\* thread: a session that ends, or loses its connection, leaves none behind.
NoLeakedConnection ==
    \A n \in open : \E h \in alive : conn[h] = n /\ hpc[h] \in {"snapshot", "send", "diff", "recv"}

\* The peer's registrations of session h agree with the hub about every code
\* on which _codes and the session's `subscribed' agree: such a code is never
\* sent again, so a disagreement would last until the next reconnection.
PeerAgrees(h) ==
    \A x \in Codes, i \in TrIdx :
        /\ x \in codes \cap subscribed[h] => <<x, i>> \in upstream[conn[h]]
        /\ x \notin codes \cup subscribed[h] => <<x, i>> \notin upstream[conn[h]]

Settled(h) == hpc[h] = "recv" /\ conn[h] \in open
Quiet == (\A c \in Callers : ~Busy(c)) /\ (\A h \in Hubs : sched[h] = <<>>)

\* While one hub thread runs, calls that do not overlap keep the peer in
\* agreement: whatever a call's live sends and the session's own sends do to
\* each other, once both are done the peer has what the hub desires.  With two
\* threads, which racing first calls can start, self._ws and self._approval_key
\* belong to whichever session wrote them last (lines 512, 520, 606), so that
\* the other session misses live sends it will never repeat.
CalmSessionsAgree ==
    Quiet => \A h \in Hubs : alive = {h} /\ Settled(h) /\ conn[h] \in calm => PeerAgrees(h)

\* What the docstrings of _subscribe_live and _unsubscribe_live promise
\* ("thread-safe"): the same without asking that calls do not overlap.
LiveSendsThreadSafe ==
    Quiet => \A h \in Hubs : Settled(h) => PeerAgrees(h)

\* When the calls and the faults stop, every hub thread ends up holding an
\* open connection on which it has subscribed exactly the desired codes, or
\* none when nothing is desired.
SessionsConverge ==
    <>[](\A h \in alive : IF codes = {} THEN conn[h] = None
                           ELSE conn[h] \in open /\ subscribed[h] = codes)

-----------------------------------------------------------------------------
(* The hub implements Registry.                                            *)

\* The registrations the hub desires, and those the peer has.
Desired == {r \in Regs : r[1] \in codes}
Held    == {r \in Regs : \E n \in Conns : r \in upstream[n]}

\* The request for r is on its way: computed by a session, about to be posted
\* by a caller, or scheduled on a loop.
OnTheWay(r) ==
    \/ \E h \in Hubs : r \in toAdd[h]
    \/ \E c \in Callers : \/ pc[c] \in {"unsub", "unsubPost", "sub"} /\ r[1] \in add[c]
                          \/ pc[c] = "subPost" /\ r \in post[c]
    \/ \E h \in Hubs : \E i \in DOMAIN sched[h] :
            sched[h][i].type = "sub" /\ sched[h][i].reg = r

Due == {r \in Regs : r \in Desired \/ OnTheWay(r)}

R == INSTANCE Registry WITH Items <- Regs, desired <- Desired, due <- Due, held <- Held

\* A registration appears at the peer only for a desired code or by a request
\* that was on its way when the code was removed: neither a comparison with an
\* old session's memory nor a reconnection brings back what nobody wants.
ImplementsRegistry == R!RegistrySpec

\* When the calls and the faults stop, the peer has exactly what is desired: the
\* connections of earlier sessions and the messages still scheduled for them
\* leave nothing behind.
PeerConverges == R!Delivers
=============================================================================
