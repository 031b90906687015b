------------------------------ MODULE LimitUp ------------------------------
(***************************************************************************)
(* The limit-up watch of part07_limitup_pollers.py in one worker process:  *)
(* a scan compares the stocks at the upper price limit with those of an    *)
(* earlier scan and lists the ones that were released.  The poller scans   *)
(* at an interval, requests may force a scan; scans overlap, and share the *)
(* state only at the moments they hold the lock.                           *)
(*                                                                         *)
(* A stock is "up", "off" or, when unknown, "none".  The list of releases  *)
(* is the set of its stocks (the endpoint shows one entry of each); its    *)
(* table in the database is written along and read at a start.             *)
(***************************************************************************)
EXTENDS Naturals, FiniteSets

CONSTANTS
    Watched,    \* stock codes
    Poller,     \* the background thread
    Forcers,    \* threads of requests with force_refresh
    MaxProbes   \* 25

VARIABLES
    atLimit,    \* stocks at their limit in the market
    ranked,     \* stocks that are among KIS's rankings
    calm,       \* market, KIS and database rest: nothing moves, nothing fails
    tracked,    \* _LIMIT_UP_STATE
    events,     \* _LIMIT_UP_BREAK_EVENTS
    rows,       \* limit_up_break_events of today
    cooling,    \* stocks with a release within 60 s: _LIMIT_UP_LAST_EVENT_TS
    scanned,    \* _LIMIT_UP_LAST_RUN is within the interval
    scan,       \* scan[t]: the scan of thread t
    wereOff,    \* history: stocks that were below their limit at some time
    misread     \* history: other stocks, of which a failed probe was taken for a price
                \* of zero

limitVars == <<atLimit, ranked, calm, tracked, events, rows, cooling, scanned, scan, wereOff,
               misread>>

Threads == {Poller} \cup Forcers
Seen    == [Watched -> {"none", "up", "off"}]
Unseen  == [c \in Watched |-> "none"]
Is(c)   == IF c \in atLimit THEN "up" ELSE "off"

\* A scan: what it has seen, the state it read and then the one it will write,
\* the stocks whose last release was long enough ago when it began, the releases
\* and the returns it found.
NoScan == [at |-> "idle", seen |-> Unseen, state |-> Unseen, free |-> {}, news |-> {}, back |-> {}]
Steps  == {"idle", "prev", "probe", "diff", "broken", "save", "commit", "delete"}

LimitTypeOK ==
    /\ atLimit \in SUBSET Watched /\ ranked \in SUBSET Watched /\ calm \in BOOLEAN
    /\ tracked \in Seen
    /\ events \in SUBSET Watched /\ rows \in SUBSET Watched /\ cooling \in SUBSET Watched
    /\ scanned \in BOOLEAN
    /\ scan \in [Threads -> [at : Steps, seen : Seen, state : Seen, free : SUBSET Watched,
                             news : SUBSET Watched, back : SUBSET Watched]]
    /\ wereOff \in SUBSET Watched /\ misread \in SUBSET Watched

LimitInit ==
    /\ atLimit \in SUBSET Watched /\ ranked \in SUBSET Watched /\ calm = FALSE
    /\ tracked = Unseen /\ events = {} /\ rows = {} /\ cooling = {} /\ scanned = FALSE
    /\ scan = [t \in Threads |-> NoScan]
    /\ wereOff = Watched \ atLimit /\ misread = {}

-----------------------------------------------------------------------------
(* Outside the process.                                                    *)

MarketMoves(c) ==
    /\ ~calm
    /\ \/ atLimit' = (atLimit \ {c}) \cup ({c} \ atLimit) /\ UNCHANGED ranked
       \/ ranked' = (ranked \ {c}) \cup ({c} \ ranked) /\ UNCHANGED atLimit
    /\ wereOff' = wereOff \cup (Watched \ atLimit') /\ misread' = misread \ wereOff'
    /\ UNCHANGED <<calm, tracked, events, rows, cooling, scanned, scan>>

\* The other worker processes, each with a state of its own and the same code;
\* here they save only releases of stocks that were below their limit.
OthersWrite(c) ==
    /\ ~calm
    /\ c \in rows \cup wereOff
    /\ rows' = (rows \ {c}) \cup ({c} \ rows)
    /\ UNCHANGED <<atLimit, ranked, calm, tracked, events, cooling, scanned, scan, wereOff, misread>>

Rest ==
    /\ calm' = TRUE
    /\ UNCHANGED <<atLimit, ranked, tracked, events, rows, cooling, scanned, scan, wereOff, misread>>

Elapse ==
    /\ scanned' = FALSE
    /\ UNCHANGED <<atLimit, ranked, calm, tracked, events, rows, cooling, scan, wereOff, misread>>

\* 60 s since the release; a scan that is under way compares its own start.
CoolDown(c) ==
    /\ cooling' = cooling \ {c}
    /\ UNCHANGED <<atLimit, ranked, calm, tracked, events, rows, scanned, scan, wereOff, misread>>

\* The process dies and is started: today's releases are loaded before it
\* serves, unless the query fails.
Restart ==
    /\ ~calm
    /\ tracked' = Unseen /\ cooling' = {} /\ scanned' = FALSE
    /\ scan' = [t \in Threads |-> NoScan]
    /\ events' \in {rows, {}}
    /\ UNCHANGED <<atLimit, ranked, calm, rows, wereOff, misread>>

-----------------------------------------------------------------------------
(* _scan_limit_up_break.                                                   *)

Becomes(t, r) == scan' = [scan EXCEPT ![t] = r]

\* Throttled, unless forced; then the two rankings are read.  A call that fails
\* is an empty ranking, and a collector that cannot be built ends the scan.
Begin(t) ==
    /\ scan[t].at = "idle"
    /\ t = Poller => ~scanned
    /\ scanned' = TRUE
    /\ \/ \E got \in SUBSET ranked :
            /\ calm => got = ranked
            /\ Becomes(t, [scan[t] EXCEPT !.at = "prev", !.free = Watched \ cooling,
                            !.seen = [c \in Watched |-> IF c \in got THEN Is(c) ELSE "none"]])
       \/ ~calm /\ UNCHANGED scan
    /\ UNCHANGED <<atLimit, ranked, calm, tracked, events, rows, cooling, wereOff, misread>>

\* missing_watch: stocks at the limit that left the rankings.
Missing(prev, seen) == {c \in Watched : prev[c] = "up" /\ seen[c] = "none"}

ReadPrev(t) ==
    /\ scan[t].at = "prev"
    /\ Becomes(t, [scan[t] EXCEPT !.state = tracked,
                    !.at = IF Missing(tracked, scan[t].seen) = {} THEN "diff" ELSE "probe"])
    /\ UNCHANGED <<atLimit, ranked, calm, tracked, events, rows, cooling, scanned, wereOff, misread>>

\* Some of them are asked for one by one.  get_price answers a failed call with
\* zeros, and only rarely raises.
Probe(t) ==
    /\ scan[t].at = "probe"
    /\ LET missing == Missing(scan[t].state, scan[t].seen) IN
       \E answers \in Seen :
        /\ \A c \in Watched \ missing : answers[c] = scan[t].seen[c]
        /\ \A c \in missing : answers[c] \in {"none", Is(c), "off"}
        /\ Cardinality({c \in missing : answers[c] # "none"}) <= MaxProbes
        /\ (calm /\ Cardinality(missing) <= MaxProbes) => \A c \in missing : answers[c] = Is(c)
        /\ misread' = misread \cup {c \in missing \ wereOff : answers[c] = "off"}
        /\ Becomes(t, [scan[t] EXCEPT !.at = "diff", !.seen = answers])
    /\ UNCHANGED <<atLimit, ranked, calm, tracked, events, rows, cooling, scanned, wereOff>>

\* A stock that was up and could not be seen is kept.
NextState(prev, seen) == [c \in Watched |->
    IF seen[c] # "none" THEN seen[c] ELSE IF prev[c] = "up" THEN "up" ELSE "none"]

\* Noted the releases, of stocks without one in the last minute; the time compared
\* is that of the scan's start, so a release by another scan since then counts too.
Noted(t, released) ==
    /\ scan[t].at = "diff"
    /\ LET news == scan[t].free \cap released IN
        /\ cooling' = cooling \cup news
        /\ scan' = [u \in Threads |->
            IF u = t THEN [scan[t] EXCEPT !.at = "broken", !.news = news, !.free = {},
                                          !.state = NextState(@, scan[t].seen)]
                     ELSE [scan[u] EXCEPT !.free = @ \ news]]
    /\ UNCHANGED <<atLimit, ranked, calm, tracked, events, rows, scanned, wereOff, misread>>

\* Mutant: whatever was up and is not seen at its limit was released.
DiffUnseen(t) == Noted(t, {c \in Watched : scan[t].state[c] = "up" /\ scan[t].seen[c] # "up"})

\* Releases: stocks that were up and were seen below their limit.
Diff(t) == Noted(t, {c \in Watched : scan[t].state[c] = "up" /\ scan[t].seen[c] = "off"})

\* Found the stocks that are back; without releases there is nothing to save.
Found(t, back) ==
    /\ scan[t].at = "broken"
    /\ Becomes(t, [scan[t] EXCEPT !.at = IF scan[t].news = {} THEN "commit" ELSE "save",
                    !.seen = Unseen, !.back = back])
    /\ UNCHANGED <<atLimit, ranked, calm, tracked, events, rows, cooling, scanned, wereOff, misread>>

\* Mutant: a return is noticed only while the stock is not tracked as up.
ReadBrokenOnReturn(t) == Found(t, {c \in events : scan[t].seen[c] = "up" /\ tracked[c] # "up"})

\* recaptured: listed stocks that are at their limit again.
ReadBroken(t) == Found(t, {c \in events : scan[t].seen[c] = "up"})

\* _save_limit_up_events_to_db; an error is logged and forgotten.
Save(t) ==
    /\ scan[t].at = "save"
    /\ rows' = rows \cup scan[t].news \/ (~calm /\ UNCHANGED rows)
    /\ Becomes(t, [scan[t] EXCEPT !.at = "commit"])
    /\ UNCHANGED <<atLimit, ranked, calm, tracked, events, cooling, scanned, wereOff, misread>>

\* Under the lock: the state is replaced, releases are listed, and stocks that
\* are back are taken off the list.
PutState(t) ==
    /\ scan[t].at = "commit"
    /\ tracked' = scan[t].state
    /\ events' = (events \cup scan[t].news) \ scan[t].back
    /\ Becomes(t, IF scan[t].back = {} THEN NoScan
                   ELSE [NoScan EXCEPT !.at = "delete", !.back = scan[t].back])
    /\ UNCHANGED <<atLimit, ranked, calm, rows, cooling, scanned, wereOff, misread>>

\* _remove_recaptured_from_db.
Delete(t) ==
    /\ scan[t].at = "delete"
    /\ rows' = rows \ scan[t].back \/ (~calm /\ UNCHANGED rows)
    /\ Becomes(t, NoScan)
    /\ UNCHANGED <<atLimit, ranked, calm, tracked, events, cooling, scanned, wereOff, misread>>

ScanStep(t) == ReadPrev(t) \/ Probe(t) \/ Diff(t) \/ ReadBroken(t) \/ Save(t)
               \/ PutState(t) \/ Delete(t)

LimitNext ==
    \/ \E c \in Watched : MarketMoves(c) \/ OthersWrite(c) \/ CoolDown(c)
    \/ Rest \/ Elapse \/ Restart
    \/ \E t \in Threads : Begin(t) \/ ReadPrev(t) \/ Probe(t) \/ Diff(t)
                          \/ ReadBroken(t) \/ Save(t) \/ PutState(t) \/ Delete(t)

\* Time passes, the poller scans whenever it is not throttled, scans end.
LimitFairness ==
    /\ WF_limitVars(Elapse) /\ WF_limitVars(Begin(Poller))
    /\ \A t \in Threads : WF_limitVars(ScanStep(t))

LimitSpec == LimitInit /\ [][LimitNext]_limitVars /\ LimitFairness
-----------------------------------------------------------------------------
(* Properties.                                                             *)

\* Once market, KIS and database rest, what is served becomes right for good,
\* whatever scans of earlier prices are still to commit: the ranked stocks are
\* tracked as they are, and a stock tracked at its limit is there and is not
\* listed as released (part07 187-225).
ReleasesSettle ==
    (<>[]calm) => <>[](\A c \in Watched :
        /\ c \in ranked => tracked[c] = Is(c)
        /\ tracked[c] = "up" => c \in atLimit \ events)

\* Only a stock that was below its limit, or whose probe failed and was taken
\* for a price of zero, is ever listed as released, whatever scans overlap,
\* restarts and other processes' writes bring back (part07 133-225).
ListedWereOff == events \subseteq wereOff \cup misread

\* A tracked stock is kept when it could not be probed (part07 197), so that
\* only a stock that was below its limit is ever listed as released.
KeptIfProbeFails == events \subseteq wereOff
=============================================================================
