----------------------------- MODULE MCServices -----------------------------
(***************************************************************************)
(* The services around the realtime hubs, one at a time: `part', chosen in *)
(* the initial state, says which of them runs; the others rest in one      *)
(* initial state of theirs.  The parts share nothing, so the behaviours of *)
(* a part are those of its own specification, and its properties are asked *)
(* of those behaviours alone.                                              *)
(***************************************************************************)
EXTENDS HomeSnapshot, HomeWs, StockFlowHub, PrefCache, RestBreaker,
        KisGate, LimitUp, PriceRefresh, Lifespan, RankingCache, TLC

CONSTANTS w1, w2,             \* clients of the stock flow
          p1, p2, r1, r2,       \* worker processes, threads that read a preference
          s1, s2, s3          \* requests of rankings

VARIABLE part

\* Each of the two reads in a process of its own.
ReaderProcess == r1 :> p1 @@ r2 :> p2
RankingProcess == s1 :> p1 @@ s2 :> p1 @@ s3 :> p2

vars == <<part, homeVars, homeWsVars, flowVars, gateVars, breakerVars, prefVars, limitVars,
          refreshVars, lifeVars, rankVars>>

-----------------------------------------------------------------------------
(* The initial states of the part that runs, and one for a part at rest.   *)

\* At rest the snapshot in memory is the current one.
HomeStart ==
    IF part = "home"
    THEN HomeInit
    ELSE /\ world = 0 /\ mem = 0 /\ memAge = "fresh" /\ redis = Nothing /\ inflight = Nothing
         /\ at = [w \in Workers |-> "idle"] /\ built = [w \in Workers |-> Nothing]
         /\ get = [g \in Getters |-> "idle"] /\ found = [g \in Getters |-> Nothing]
         /\ awaited = [g \in Getters |-> Nothing] /\ fails = 0

\* A client that comes before the first refresh comes alone.
HomeWsStart ==
    /\ HomeWsInit
    /\ IF part = "homeWs" THEN refreshes = 0 => conn[2] = "closed"
                          ELSE refreshes = 0 /\ conn = [c \in 1 .. 2 |-> "closed"]

\* One client that subscribes twice, or two that compete for the one place.
FlowStart ==
    /\ FlowInit
    /\ IF part = "stockFlow"
       THEN \/ ws = (w1 :> "new" @@ w2 :> "gone") /\ left = (w1 :> 2 @@ w2 :> 0)
            \/ ws = (w1 :> "new" @@ w2 :> "new") /\ left = (w1 :> 1 @@ w2 :> 0)
       ELSE ws = [w \in {w1, w2} |-> "gone"] /\ left = [w \in {w1, w2} |-> 0]

GateStart    == GateInit /\ (part # "gate" => up /\ ~crowd)
BreakerStart == BreakerInit /\ (part # "breaker" => good)
LimitStart   == LimitInit /\ atLimit = Watched /\ (part # "limitUp" => ranked = {})
RefreshStart == RefreshInit /\ (part # "refresh" => hot = {1})

\* The environment is empty, or it asks for no refreshes of prices.
LifeStart == LifespanInit /\ env \in {{}, {"prices"}} /\ (part # "lifespan" => env = {} /\ ~allowed)

Init ==
    /\ part \in {"home", "homeWs", "stockFlow", "gate", "breaker", "prefs", "limitUp", "refresh",
                "lifespan", "ranking"}
    /\ HomeStart /\ HomeWsStart /\ FlowStart /\ GateStart /\ BreakerStart /\ PrefInit
    /\ LimitStart /\ RefreshStart /\ LifeStart /\ RankInit

-----------------------------------------------------------------------------
Next ==
    \/ /\ part = "home" /\ HomeNext
       /\ UNCHANGED <<part, homeWsVars, flowVars, gateVars, breakerVars, prefVars, limitVars,
                     refreshVars, lifeVars, rankVars>>
    \/ /\ part = "homeWs" /\ HomeWsNext
       /\ UNCHANGED <<part, homeVars, flowVars, gateVars, breakerVars, prefVars, limitVars,
                     refreshVars, lifeVars, rankVars>>
    \/ /\ part = "stockFlow" /\ FlowNext
       /\ UNCHANGED <<part, homeVars, homeWsVars, gateVars, breakerVars, prefVars, limitVars,
                     refreshVars, lifeVars, rankVars>>
    \/ /\ part = "gate" /\ GateNext
       /\ UNCHANGED <<part, homeVars, homeWsVars, flowVars, breakerVars, prefVars, limitVars,
                     refreshVars, lifeVars, rankVars>>
    \/ /\ part = "breaker" /\ BreakerNext
       /\ UNCHANGED <<part, homeVars, homeWsVars, flowVars, gateVars, prefVars, limitVars,
                     refreshVars, lifeVars, rankVars>>
    \/ /\ part = "prefs" /\ PrefNext
       /\ UNCHANGED <<part, homeVars, homeWsVars, flowVars, gateVars, breakerVars, limitVars,
                     refreshVars, lifeVars, rankVars>>
    \/ /\ part = "limitUp" /\ LimitNext
       /\ UNCHANGED <<part, homeVars, homeWsVars, flowVars, gateVars, breakerVars, prefVars,
                     refreshVars, lifeVars, rankVars>>
    \/ /\ part = "refresh" /\ RefreshNext
       /\ UNCHANGED <<part, homeVars, homeWsVars, flowVars, gateVars, breakerVars, prefVars,
                     limitVars, lifeVars, rankVars>>
    \/ /\ part = "lifespan" /\ LifespanNext
       /\ UNCHANGED <<part, homeVars, homeWsVars, flowVars, gateVars, breakerVars, prefVars,
                     limitVars, refreshVars, rankVars>>
    \/ /\ part = "ranking" /\ RankNext
       /\ UNCHANGED <<part, homeVars, homeWsVars, flowVars, gateVars, breakerVars, prefVars,
                     limitVars, refreshVars, lifeVars>>

\* The fairness of each part's specification, for the part that runs.
Fairness ==
    /\ WF_homeVars(part = "home" /\ MemAges) /\ WF_homeVars(part = "home" /\ RedisExpires)
    /\ \A w \in Workers : WF_homeVars(part = "home" /\ WorkStep(w))
    /\ \A g \in Getters : WF_homeVars(part = "home" /\ GetStep(g))
    /\ WF_gateVars(part = "gate" /\ GateTick) /\ WF_gateVars(part = "gate" /\ PollerStep)
    /\ WF_gateVars(part = "gate" /\ Answered)
    /\ WF_breakerVars(part = "breaker" /\ TimePasses)
    /\ \A f \in Fetchers :
        /\ WF_breakerVars(part = "breaker" /\ AllowCall(f))
        /\ WF_breakerVars(part = "breaker" /\ (MarkSuccess(f) \/ MarkFailure(f) \/ SoftError(f)))
    /\ WF_limitVars(part = "limitUp" /\ Elapse)
    /\ WF_limitVars(part = "limitUp" /\ Begin(Poller))
    /\ \A t \in Threads : WF_limitVars(part = "limitUp" /\ ScanStep(t))
    /\ \A w \in Refreshers :
        /\ WF_refreshVars(part = "refresh" /\ RefreshStep(w))
        /\ WF_refreshVars(part = "refresh" /\ FullDue(w))
        /\ WF_refreshVars(part = "refresh" /\ w \in due /\ RefreshFull(w))
    /\ WF_lifeVars(part = "lifespan" /\ StartPoller)
    /\ WF_lifeVars(part = "lifespan" /\ Acquire)
    /\ WF_lifeVars(part = "lifespan" /\ PricesWritten)
    /\ WF_lifeVars(part = "lifespan" /\ Minute)
    /\ \A r \in Listers : /\ WF_lifeVars(part = "lifespan" /\ ListFinds(r))
                          /\ WF_lifeVars(part = "lifespan" /\ ListStarts(r))

Spec == Init /\ [][Next]_vars /\ Fairness

-----------------------------------------------------------------------------
\* The type invariants of the parts.
ServicesTypeOK ==
    CASE part = "home"      -> HomeTypeOK
      [] part = "homeWs"    -> HomeWsTypeOK
      [] part = "stockFlow" -> FlowTypeOK
      [] part = "gate"      -> GateTypeOK
      [] part = "breaker"   -> BreakerTypeOK
      [] part = "prefs"     -> PrefTypeOK
      [] part = "limitUp"   -> LimitTypeOK
      [] part = "refresh"   -> RefreshTypeOK
      [] part = "lifespan"  -> LifespanTypeOK
      [] part = "ranking"   -> RankTypeOK
=============================================================================
