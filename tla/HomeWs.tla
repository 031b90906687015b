------------------------------- MODULE HomeWs -------------------------------
(***************************************************************************)
(* /ws/home of part08_home_ws_prewarm.py: every refresh of the home        *)
(* snapshot is broadcast to the connected clients, one message per section,*)
(* the sections whose hash is the one last sent left out.  A client is     *)
(* greeted with the snapshot at hand through the same function, so with    *)
(* the same hashes.                                                        *)
(*                                                                         *)
(* Coroutines of the event loop are interleaved at their awaits; a refresh *)
(* thread only stores the snapshot and schedules a broadcast.  A section's *)
(* content is the number of the refresh that changed it.                   *)
(***************************************************************************)
EXTENDS Naturals, Sequences, FiniteSets

CONSTANTS
    Sections,   \* keys of _HOME_WS_SECTION_TYPES
    MaxClients, \* bound: connections
    MaxRefresh  \* bound: refreshes

ASSUME HomeWsAssumption == MaxClients \in Nat /\ MaxRefresh \in Nat \ {0}

VARIABLES
    snapshot,   \* _HOME_SNAPSHOT_CACHE["data"]; without a section, none at all
    refreshes,  \* how many refreshes there were
    pushing,    \* the payload a refresh thread is about to push, <<>> if none
    queue,      \* broadcasts scheduled on the loop and not started
    seq,        \* _HOME_WS_SEQ
    recent,     \* _HOME_WS_LAST_BROADCAST_TS is within the minimal interval
    hash,       \* _HOME_WS_SECTION_HASH; 0 is no hash
    clients,    \* _HOME_WS_CLIENTS
    gone,       \* clients that have closed their socket
    conn,       \* conn[c]: where the coroutine of c's websocket stands
    late,       \* late[c]: where its deferred greeting stands
    mail,       \* mail[c]: messages of a greeting built and not yet sent
    out,        \* broadcasts started: their messages and who is still to get them
    view,       \* view[c]: what the client shows, section by section
    audience    \* history: audience[s]: the clients registered when a broadcast set
                \* the hash of the section; nobody when a greeting did

homeWsVars == <<snapshot, refreshes, pushing, queue, seq, recent, hash, clients, gone,
                conn, late, mail, out, view, audience>>

\* Ids come from _HOME_WS_NEXT_ID; a browser that reconnects gets a new one.
Clients == 1 .. MaxClients

NoPayload == [s \in {} |-> 0]
Payloads  == UNION {[ss -> 1 .. MaxRefresh] : ss \in SUBSET Sections}
Mails     == [seq : 0 .. MaxRefresh, msgs : Payloads]
Blank     == [s \in Sections |-> [seq |-> 0, is |-> 0]]
Flights   == [seq : 0 .. MaxRefresh, msgs : Payloads, to : SUBSET Clients,
              dead : SUBSET Clients, listed : BOOLEAN]
NoMail    == [seq |-> 0, msgs |-> NoPayload]

HomeWsTypeOK ==
    /\ snapshot \in Payloads /\ pushing \in Payloads /\ queue \in Seq(Payloads)
    /\ refreshes \in 0 .. MaxRefresh /\ seq \in 0 .. MaxRefresh /\ recent \in BOOLEAN
    /\ hash \in [Sections -> 0 .. MaxRefresh]
    /\ clients \in SUBSET Clients /\ gone \in SUBSET Clients
    /\ conn \in [Clients -> {"new", "greet", "loop", "closed"}]
    /\ late \in [Clients -> {"none", "fetch", "build", "send"}]
    /\ mail \in [Clients -> Mails]
    /\ out \subseteq Flights
    /\ view \in [Clients -> [Sections -> [seq : 0 .. MaxRefresh, is : 0 .. MaxRefresh]]]
    /\ audience \in [Sections -> SUBSET Clients]

\* The server may have refreshed before the first client comes; a connection
\* that is closed from the start stands for one that never opens.
HomeWsInit ==
    /\ refreshes \in {0, 1}
    /\ snapshot = [s \in (IF refreshes = 0 THEN {} ELSE Sections) |-> 1]
    /\ pushing = NoPayload /\ queue = <<>> /\ seq = 0 /\ recent = FALSE
    /\ hash = [s \in Sections |-> 0] /\ audience = [s \in Sections |-> {}]
    /\ clients = {} /\ gone = {}
    /\ conn \in [Clients -> {"new", "closed"}]
    /\ late = [c \in Clients |-> "none"]
    /\ mail = [c \in Clients |-> NoMail] /\ out = {}
    /\ view = [c \in Clients |-> Blank]

-----------------------------------------------------------------------------
(* _build_partial_messages: the sections of p whose hash is not the one last *)
(* built, which becomes the last one.                                        *)

Changed(p) == {s \in DOMAIN p : hash[s] # p[s]}

BuildFor(p, forWhom) ==
    /\ hash' = [s \in Sections |-> IF s \in Changed(p) THEN p[s] ELSE hash[s]]
    /\ audience' = [s \in Sections |-> IF s \in Changed(p) THEN forWhom ELSE audience[s]]

Messages(p, n) == [seq |-> n, msgs |-> [s \in Changed(p) |-> p[s]]]

\* The browser shows a section unless it has seen a message with a larger seq
\* for it.
Shown(c, m) == [s \in Sections |->
    IF s \in DOMAIN m.msgs /\ m.seq >= view[c][s].seq
    THEN [seq |-> m.seq, is |-> m.msgs[s]]
    ELSE view[c][s]]

-----------------------------------------------------------------------------
(* Refreshes: the payload is stored, then pushed by the same thread, which   *)
(* holds the only claim meanwhile.                                           *)

\* A refresh changes some sections; a source without data leaves one out.
Refresh ==
    /\ refreshes < MaxRefresh /\ pushing = NoPayload
    /\ refreshes' = refreshes + 1
    /\ \E ss \in (SUBSET Sections) \ {{}} : \E new \in SUBSET ss :
        snapshot' = [s \in ss |-> IF s \in new \/ s \notin DOMAIN snapshot
                                  THEN refreshes + 1 ELSE snapshot[s]]
    /\ pushing' = snapshot'
    /\ UNCHANGED <<queue, seq, recent, hash, clients, gone, conn, late, mail, out,
                   view, audience>>

\* home_ws_push_from_thread: nobody connected or a broadcast not long ago, and
\* the payload is not pushed at all.
Push ==
    /\ pushing # NoPayload
    /\ pushing' = NoPayload
    /\ queue' = IF clients = {} \/ recent THEN queue ELSE Append(queue, pushing)
    /\ UNCHANGED <<snapshot, refreshes, seq, recent, hash, clients, gone, conn, late, mail,
                   out, view, audience>>

IntervalPasses ==
    /\ recent
    /\ recent' = FALSE
    /\ UNCHANGED <<snapshot, refreshes, pushing, queue, seq, hash, clients, gone, conn,
                   late, mail, out, view, audience>>

-----------------------------------------------------------------------------
(* _home_ws_broadcast and _home_ws_send_all.                                 *)

\* Mutant: the sequence number is not advanced.
BroadcastSameSeq ==
    /\ queue # <<>>
    /\ queue' = Tail(queue)
    /\ recent' = TRUE
    /\ \E silent \in SUBSET {c \in clients : conn[c] = "loop"} :
        /\ BuildFor(Head(queue), clients \ silent)
        /\ clients' = clients \ silent
        /\ out' = out \cup {[seq |-> seq, msgs |-> Messages(Head(queue), seq).msgs,
                             dead |-> {}, listed |-> silent = {},
                             to |-> IF silent = {} THEN clients ELSE {}]}
    /\ UNCHANGED <<snapshot, refreshes, pushing, seq, gone, conn, late, mail, view>>

\* The messages are built, the clients that were silent for HOME_WS_IDLE_SEC are
\* dropped, and unless one of them has to be closed first the others are listed.
Broadcast ==
    /\ queue # <<>>
    /\ queue' = Tail(queue)
    /\ seq' = seq + 1 /\ recent' = TRUE
    /\ \E silent \in SUBSET {c \in clients : conn[c] = "loop"} :
        /\ BuildFor(Head(queue), clients \ silent)
        /\ clients' = clients \ silent
        /\ out' = out \cup {[seq |-> seq', msgs |-> Messages(Head(queue), seq').msgs,
                             dead |-> {}, listed |-> silent = {},
                             to |-> IF silent = {} THEN clients ELSE {}]}
    /\ UNCHANGED <<snapshot, refreshes, pushing, gone, conn, late, mail, view>>

\* The silent ones are closed; now the clients are listed.
Pruned(b) ==
    /\ b \in out /\ ~b.listed
    /\ out' = (out \ {b}) \cup {[b EXCEPT !.listed = TRUE, !.to = clients]}
    /\ UNCHANGED <<snapshot, refreshes, pushing, queue, seq, recent, hash, clients, gone,
                   conn, late, mail, view, audience>>

\* One client gets the messages, or its socket raises.
Send(b, c) ==
    /\ b \in out /\ b.listed /\ c \in b.to
    /\ IF c \in gone
       THEN /\ out' = (out \ {b}) \cup {[b EXCEPT !.to = @ \ {c}, !.dead = @ \cup {c}]}
            /\ UNCHANGED view
       ELSE /\ out' = (out \ {b}) \cup {[b EXCEPT !.to = @ \ {c}]}
            /\ view' = [view EXCEPT ![c] = Shown(c, b)]
    /\ UNCHANGED <<snapshot, refreshes, pushing, queue, seq, recent, hash, clients, gone,
                   conn, late, mail, audience>>

\* The dead are dropped at the end.
Sent(b) ==
    /\ b \in out /\ b.listed /\ b.to = {}
    /\ out' = out \ {b}
    /\ clients' = clients \ b.dead
    /\ UNCHANGED <<snapshot, refreshes, pushing, queue, seq, recent, hash, gone, conn, late,
                   mail, view, audience>>

-----------------------------------------------------------------------------
(* ws_home.                                                                  *)

\* Accepted and registered; with a snapshot at hand its messages are built at
\* once, without one the greeting is left to a task.
Connect(c) ==
    /\ conn[c] = "new" /\ \A d \in 1 .. c - 1 : conn[d] # "new"
    /\ clients' = clients \cup {c}
    /\ conn' = [conn EXCEPT ![c] = "greet"]
    /\ IF snapshot # NoPayload
       THEN /\ BuildFor(snapshot, {})
            /\ mail' = [mail EXCEPT ![c] = Messages(snapshot, seq)]
            /\ UNCHANGED late
       ELSE /\ late' = [late EXCEPT ![c] = "fetch"]
            /\ UNCHANGED <<hash, audience, mail>>
    /\ UNCHANGED <<snapshot, refreshes, pushing, queue, seq, recent, gone, out, view>>

\* The greeting is sent; a socket that raises is dropped.
Greet(c) ==
    /\ conn[c] = "greet"
    /\ mail' = [mail EXCEPT ![c] = NoMail]
    /\ IF c \in gone
       THEN /\ clients' = clients \ {c}
            /\ conn' = [conn EXCEPT ![c] = "closed"]
            /\ late' = [late EXCEPT ![c] = "none"]
            /\ UNCHANGED view
       ELSE /\ conn' = [conn EXCEPT ![c] = "loop"]
            /\ view' = [view EXCEPT ![c] = Shown(c, mail[c])]
            /\ UNCHANGED <<clients, late>>
    /\ UNCHANGED <<snapshot, refreshes, pushing, queue, seq, recent, hash, gone, out, audience>>

\* _send_deferred_snapshot, created once the warm-up messages are sent: the
\* snapshot is read in a thread (in mail, its number not yet set), its messages
\* are built on the loop if the client is still there, then sent.
LateFetch(c) ==
    /\ conn[c] # "greet" /\ late[c] = "fetch"
    /\ mail' = [mail EXCEPT ![c].msgs = snapshot]
    /\ late' = [late EXCEPT ![c] = "build"]
    /\ UNCHANGED <<snapshot, refreshes, pushing, queue, seq, recent, hash, clients, gone,
                   conn, out, view, audience>>

LateBuild(c) ==
    /\ late[c] = "build"
    /\ IF c \in clients
       THEN /\ BuildFor(mail[c].msgs, {})
            /\ mail' = [mail EXCEPT ![c] = Messages(mail[c].msgs, seq)]
            /\ late' = [late EXCEPT ![c] = "send"]
       ELSE /\ mail' = [mail EXCEPT ![c] = NoMail]
            /\ late' = [late EXCEPT ![c] = "none"]
            /\ UNCHANGED <<hash, audience>>
    /\ UNCHANGED <<snapshot, refreshes, pushing, queue, seq, recent, clients, gone, conn,
                   out, view>>

LateSend(c) ==
    /\ late[c] = "send"
    /\ mail' = [mail EXCEPT ![c] = NoMail]
    /\ late' = [late EXCEPT ![c] = "none"]
    /\ view' = IF c \in gone THEN view ELSE [view EXCEPT ![c] = Shown(c, mail[c])]
    /\ UNCHANGED <<snapshot, refreshes, pushing, queue, seq, recent, hash, clients, gone,
                   conn, out, audience>>

\* The socket closes, by the client or by a prune; later receive_text raises
\* and the finally clause drops the client.
Leave(c) ==
    /\ conn[c] \in {"greet", "loop"} /\ c \notin gone
    /\ gone' = gone \cup {c}
    /\ view' = [view EXCEPT ![c] = Blank]
    /\ UNCHANGED <<snapshot, refreshes, pushing, queue, seq, recent, hash, clients, conn,
                   late, mail, out, audience>>

Finally(c) ==
    /\ conn[c] = "loop" /\ c \in gone
    /\ conn' = [conn EXCEPT ![c] = "closed"]
    /\ clients' = clients \ {c}
    /\ UNCHANGED <<snapshot, refreshes, pushing, queue, seq, recent, hash, gone, late, mail, out,
                   view, audience>>

HomeWsNext ==
    \/ Refresh \/ Push \/ IntervalPasses \/ Broadcast
    \/ \E b \in out : Pruned(b) \/ Sent(b) \/ \E c \in b.to : Send(b, c)
    \/ \E c \in Clients :
        \/ Connect(c) \/ Greet(c) \/ LateFetch(c) \/ LateBuild(c) \/ LateSend(c)
        \/ Leave(c) \/ Finally(c)

HomeWsSpec == HomeWsInit /\ [][HomeWsNext]_homeWsVars
-----------------------------------------------------------------------------
(* Properties.                                                               *)

\* The hash of a section stands for what clients show: when every broadcast
\* that carries the section is over, each client that was registered when its
\* hash was last set by one shows that content, although broadcasts overlap
\* while a client is slow, and greetings built earlier arrive later; the
\* sequence numbers see to it (part08 256, 442-447).
BroadcastWins ==
    \A s \in Sections : (\A b \in out : s \notin DOMAIN b.msgs) =>
        \A c \in (audience[s] \cap clients) \ gone : view[c][s].is = hash[s]
=============================================================================
