---------------------------- MODULE KisHubProofs ----------------------------
(***************************************************************************)
(* What holds of a domestic hub for every set of codes, callers and hub    *)
(* threads, every capacity and every number of TR ids per code.            *)
(***************************************************************************)
EXTENDS KisHub, FiniteSetTheorems, TLAPS

-----------------------------------------------------------------------------
(* The inductive invariant.                                                *)

\* What a caller holds in its locals, at the points where it uses them.
CallersHold ==
    \A c \in Callers :
        /\ pc[c] \in {"unsubPost", "subPost"} => cws[c] \in Conns /\ cloop[c] \in Hubs
        /\ pc[c] = "start" => cloop[c] \in Hubs \ alive

\* Two callers never start the same thread, and only started threads run.
OneStarter ==
    \A c, d \in Callers :
        pc[c] = "start" /\ pc[d] = "start" /\ c # d => cloop[c] # cloop[d]
RunningStarted == \A h \in Hubs : hpc[h] # "off" => h \in alive

InSession(h) == hpc[h] \in {"snapshot", "send", "diff", "recv"}

HubInv == /\ TypeOK
          /\ CallersHold
          /\ OneStarter
          /\ RunningStarted
          /\ CapacityRespected
          /\ NoLeakedConnection

LEMMA InitHub == Init => HubInv
  <1> SUFFICES ASSUME Init PROVE HubInv
    OBVIOUS
  <1>1. Cardinality({}) = 0
    BY FS_EmptySet
  <1>2. TypeOK
    <2>1. calls \in 0 .. MaxCalls /\ faults \in 0 .. MaxFaults /\ nextConn \in 0 .. MaxConns
      BY BoundAssumption DEF Init
    <2>2. sched \in [Hubs -> Seq(LiveMsg)]
      BY DEF Init
    <2>3. /\ pc \in [Callers -> {"idle", "unsub", "unsubPost", "sub", "subPost",
                                 "ensure", "start"}]
          /\ rem \in [Callers -> SUBSET Codes] /\ add \in [Callers -> SUBSET Codes]
          /\ ens \in [Callers -> {"never", "ifCodes", "always"}]
          /\ cws \in [Callers -> Conns \cup {None}] /\ cloop \in [Callers -> Hubs \cup {None}]
          /\ post \in [Callers -> SUBSET Regs]
      BY DEF Init
    <2>4. /\ hpc \in [Hubs -> {"off", "top", "key", "connect", "snapshot", "send", "diff",
                               "recv", "backoff"}]
          /\ conn \in [Hubs -> Conns \cup {None}] /\ subscribed \in [Hubs -> SUBSET Codes]
          /\ toAdd \in [Hubs -> SUBSET Regs] /\ toDel \in [Hubs -> SUBSET Regs]
          /\ wanted \in [Hubs -> BOOLEAN]
      BY DEF Init
    <2> QED
      BY <2>1, <2>2, <2>3, <2>4 DEF Init, TypeOK
  <1>3. CapacityRespected
    BY <1>1, CapacityAssumption DEF Init, CapacityRespected
  <1> QED
    BY <1>2, <1>3 DEF Init, HubInv, CallersHold, OneStarter, RunningStarted, NoLeakedConnection

-----------------------------------------------------------------------------
(* The calls.                                                              *)

LEMMA FiniteCodes ==
    ASSUME TypeOK
    PROVE  /\ IsFiniteSet(codes) /\ Cardinality(codes) \in Nat
           /\ \A s \in SUBSET codes : Cardinality(s) <= Cardinality(codes)
  <1>1. IsFiniteSet(codes)
    BY CodesAssumption, FS_Subset DEF TypeOK
  <1> QED
    BY <1>1, FS_CardinalityType, FS_Subset

\* What the public calls have in common: they touch _codes and their locals.
LEMMA CallStarts ==
    ASSUME HubInv, NEW c \in Callers, BeginCall(c),
           codes' \in SUBSET Codes, Cardinality(codes') <= MaxCodes,
           NEW r \in SUBSET Codes, NEW a \in SUBSET Codes,
           NEW e \in {"never", "ifCodes", "always"}, NEW at \in {"unsub", "sub"},
           rem' = [rem EXCEPT ![c] = r],
           add' = [add EXCEPT ![c] = a],
           ens' = [ens EXCEPT ![c] = e],
           pc' = [pc EXCEPT ![c] = at]
    PROVE  HubInv'
  <1>1. TypeOK'
    <2>1. calls' \in 0 .. MaxCalls
      BY BoundAssumption DEF BeginCall, HubInv, TypeOK
    <2>2. overlap' \in BOOLEAN /\ calm' \in SUBSET Conns
      BY DEF BeginCall, HubInv, TypeOK
    <2>3. /\ rem' \in [Callers -> SUBSET Codes] /\ add' \in [Callers -> SUBSET Codes]
          /\ ens' \in [Callers -> {"never", "ifCodes", "always"}]
          /\ pc' \in [Callers -> {"idle", "unsub", "unsubPost", "sub", "subPost",
                                  "ensure", "start"}]
      BY DEF HubInv, TypeOK
    <2> QED
      BY <2>1, <2>2, <2>3 DEF BeginCall, HubInv, TypeOK, hubVars, netVars
  <1>2. CallersHold' /\ OneStarter'
    BY DEF BeginCall, HubInv, TypeOK, CallersHold, OneStarter
  <1>3. RunningStarted' /\ NoLeakedConnection'
    BY DEF BeginCall, HubInv, RunningStarted, NoLeakedConnection, hubVars, netVars
  <1> QED
    BY <1>1, <1>2, <1>3 DEF HubInv, CapacityRespected

LEMMA AddCodesStep ==
    ASSUME HubInv, NEW c \in Callers, NEW x \in Codes, AddCodes(c, x)
    PROVE  HubInv'
  <1>1. codes \in SUBSET Codes /\ Cardinality(codes) <= MaxCodes
    BY DEF HubInv, TypeOK, CapacityRespected
  <1>2. codes' \in SUBSET Codes
    BY <1>1 DEF AddCodes, Add
  <1>3. Cardinality(codes') <= MaxCodes
    <2>1. CASE Cardinality(codes) >= MaxCodes
      BY <1>1, <2>1 DEF AddCodes, Add
    <2>2. CASE ~(Cardinality(codes) >= MaxCodes)
      <3>1. IsFiniteSet(codes) /\ Cardinality(codes) \in Nat
        BY FiniteCodes DEF HubInv
      <3>2. CASE x \in codes
        <4>1. codes' = codes
          BY <2>2, <3>2 DEF AddCodes, Add
        <4> QED
          BY <1>1, <4>1
      <3>3. CASE x \notin codes
        <4>1. Cardinality(codes \cup {x}) = Cardinality(codes) + 1
          BY <3>1, <3>3, FS_AddElement
        <4>2. codes' = codes \cup {x}
          BY <2>2 DEF AddCodes, Add
        <4>3. Cardinality(codes') = Cardinality(codes) + 1
          BY <4>1, <4>2
        <4> QED
          BY <2>2, <3>1, <4>3, CapacityAssumption
      <3> QED
        BY <3>2, <3>3
    <2> QED
      BY <2>1, <2>2
  <1>4. codes' \ codes \in SUBSET Codes
    BY <1>2
  <1> QED
    BY <1>2, <1>3, <1>4, CallStarts DEF AddCodes

LEMMA RemoveCodesStep ==
    ASSUME HubInv, NEW c \in Callers, NEW req \in SUBSET Codes, RemoveCodes(c, req)
    PROVE  HubInv'
  <1>1. codes \in SUBSET Codes /\ Cardinality(codes) <= MaxCodes
    BY DEF HubInv, TypeOK, CapacityRespected
  <1>2. codes' = codes \ req /\ codes' \in SUBSET codes
    BY DEF RemoveCodes, Remove
  <1>3. Cardinality(codes') <= MaxCodes
    <2>1. /\ Cardinality(codes') <= Cardinality(codes)
          /\ Cardinality(codes) \in Nat /\ Cardinality(codes') \in Nat
      <3>1. IsFiniteSet(codes')
        BY <1>2, FiniteCodes, FS_Subset DEF HubInv
      <3> QED
        BY <1>2, <3>1, FiniteCodes, FS_CardinalityType DEF HubInv
    <2> QED
      BY <1>1, <2>1, CapacityAssumption
  <1>4. codes \cap req \in SUBSET Codes
    BY <1>1
  <1> QED
    BY <1>1, <1>2, <1>3, <1>4, CallStarts DEF RemoveCodes

LEMMA SetCodesStep ==
    ASSUME HubInv, NEW c \in Callers, NEW s \in SUBSET Codes, SetCodes(c, s)
    PROVE  HubInv'
  <1>1. codes' \in Truncations(s)
    BY DEF SetCodes, Replace
  <1>2. codes' \in SUBSET Codes /\ codes \in SUBSET Codes
    BY <1>1 DEF Truncations, HubInv, TypeOK
  <1>3. Cardinality(codes') <= MaxCodes
    BY <1>1, CapacityAssumption DEF Truncations
  <1> DEFINE e == IF codes' = {} THEN "never" ELSE "always"
  <1>4. codes \ codes' \in SUBSET Codes /\ codes' \ codes \in SUBSET Codes
        /\ e \in {"never", "ifCodes", "always"}
    BY <1>2
  <1> HIDE DEF e
  <1>5. ens' = [ens EXCEPT ![c] = e]
    BY DEF SetCodes, e
  <1> QED
    BY <1>2, <1>3, <1>4, <1>5, CallStarts DEF SetCodes

LEMMA LiveBeginStep ==
    ASSUME HubInv, NEW c \in Callers, LiveBegin(c)
    PROVE  HubInv'
  <1> DEFINE diff == IF pc[c] = "unsub" THEN rem[c] ELSE add[c]
  <1>0. diff \X TrIdx \in SUBSET Regs
    BY DEF HubInv, TypeOK, Regs
  <1>1. TypeOK'
    <2>1. post' \in [Callers -> SUBSET Regs]
      <3>1. \/ post' = [post EXCEPT ![c] = diff \X TrIdx]
            \/ post' = post
        BY DEF LiveBegin
      <3>2. post \in [Callers -> SUBSET Regs]
        BY DEF HubInv, TypeOK
      <3> HIDE DEF diff
      <3>3. [post EXCEPT ![c] = diff \X TrIdx] \in [Callers -> SUBSET Regs]
        BY <1>0, <3>2
      <3> QED
        BY <3>1, <3>2, <3>3
    <2>2. cws' \in [Callers -> Conns \cup {None}] /\ cloop' \in [Callers -> Hubs \cup {None}]
      <3>1. \/ UNCHANGED <<cws, cloop>>
            \/ cws' = [cws EXCEPT ![c] = ws] /\ cloop' = [cloop EXCEPT ![c] = loop]
        BY DEF LiveBegin
      <3>2. ws \in Conns \cup {None} /\ loop \in Hubs \cup {None}
        BY DEF HubInv, TypeOK
      <3> QED
        BY <3>1, <3>2 DEF HubInv, TypeOK
    <2>3. pc' \in [Callers -> {"idle", "unsub", "unsubPost", "sub", "subPost",
                               "ensure", "start"}]
      <3>1. PICK where \in {"unsubPost", "subPost", "sub", "ensure"} :
              pc' = [pc EXCEPT ![c] = where]
        BY DEF LiveBegin
      <3>2. pc \in [Callers -> {"idle", "unsub", "unsubPost", "sub", "subPost",
                                "ensure", "start"}]
        BY DEF HubInv, TypeOK
      <3> QED
        BY <3>1, <3>2
    <2> QED
      BY <2>1, <2>2, <2>3 DEF LiveBegin, HubInv, TypeOK, sharedVars, hubVars, netVars, history
  <1>2. CallersHold' /\ OneStarter'
    BY DEF LiveBegin, HubInv, TypeOK, CallersHold, OneStarter, sharedVars
  <1> QED
    BY <1>1, <1>2 DEF LiveBegin, HubInv, RunningStarted, CapacityRespected, NoLeakedConnection,
                      sharedVars, hubVars, netVars

LEMMA LivePostStep ==
    ASSUME HubInv, NEW c \in Callers, LivePost(c)
    PROVE  HubInv'
  <1>1. cws[c] \in Conns /\ cloop[c] \in Hubs /\ post[c] \in SUBSET Regs
    BY DEF LivePost, HubInv, CallersHold, TypeOK
  <1>2. PICK r \in post[c] :
            /\ sched' = [sched EXCEPT ![cloop[c]] = Append(@,
                        [conn |-> cws[c],
                         type |-> IF pc[c] = "unsubPost" THEN "unsub" ELSE "sub",
                         reg  |-> r])]
            /\ post' = [post EXCEPT ![c] = @ \ {r}]
    BY DEF LivePost, NextReg
  <1> DEFINE m == [conn |-> cws[c],
                   type |-> IF pc[c] = "unsubPost" THEN "unsub" ELSE "sub",
                   reg  |-> r]
  <1>3. m \in LiveMsg
    BY <1>1 DEF LiveMsg
  <1> HIDE DEF m
  <1>4. sched' \in [Hubs -> Seq(LiveMsg)]
    <2>1. sched' = [sched EXCEPT ![cloop[c]] = Append(sched[cloop[c]], m)]
      BY <1>2 DEF m
    <2>2. Append(sched[cloop[c]], m) \in Seq(LiveMsg)
      BY <1>1, <1>3 DEF HubInv, TypeOK
    <2> QED
      BY <2>1, <2>2 DEF HubInv, TypeOK
  <1>5. TypeOK'
    BY <1>2, <1>4 DEF LivePost, HubInv, TypeOK, sharedVars, hubVars, history
  <1>6. CallersHold' /\ OneStarter'
    BY DEF LivePost, HubInv, TypeOK, CallersHold, OneStarter, sharedVars
  <1> QED
    BY <1>5, <1>6 DEF LivePost, HubInv, RunningStarted, CapacityRespected, NoLeakedConnection,
                      sharedVars, hubVars

LEMMA EnsureStep ==
    ASSUME HubInv, NEW c \in Callers, Ensure(c)
    PROVE  HubInv'
  <1>1. TypeOK'
    <2>1. CASE Return(c) /\ UNCHANGED thread
      BY <2>1 DEF Ensure, Return, HubInv, TypeOK, hubVars, netVars, history
    <2>2. CASE \E h \in Hubs : thread' = h /\ cloop' = [cloop EXCEPT ![c] = h]
                               /\ pc' = [pc EXCEPT ![c] = "start"]
                               /\ UNCHANGED <<rem, add, ens, cws, post>>
      BY <2>2 DEF Ensure, HubInv, TypeOK, hubVars, netVars, history
    <2> QED
      BY <2>1, <2>2 DEF Ensure
  <1>2. CallersHold' /\ OneStarter'
    <2>1. CASE Return(c)
      BY <2>1 DEF Ensure, Return, HubInv, TypeOK, CallersHold, OneStarter
    <2>2. ASSUME NEW h \in Hubs \ alive,
                 \A d \in Callers : pc[d] = "start" => cloop[d] # h,
                 cloop' = [cloop EXCEPT ![c] = h], pc' = [pc EXCEPT ![c] = "start"],
                 UNCHANGED <<cws, alive>>
          PROVE  CallersHold' /\ OneStarter'
      BY <2>2 DEF HubInv, TypeOK, CallersHold, OneStarter
    <2> QED
      BY <2>1, <2>2 DEF Ensure
  <1> QED
    BY <1>1, <1>2 DEF Ensure, HubInv, RunningStarted, CapacityRespected, NoLeakedConnection,
                      hubVars, netVars

LEMMA StartThreadStep ==
    ASSUME HubInv, NEW c \in Callers, StartThread(c)
    PROVE  HubInv'
  <1>1. cloop[c] \in Hubs \ alive /\ hpc[cloop[c]] = "off"
    BY DEF StartThread, HubInv, CallersHold, RunningStarted
  <1>2. TypeOK'
    BY <1>1 DEF StartThread, Return, HubInv, TypeOK, netVars, history
  <1>3. CallersHold' /\ OneStarter'
    BY <1>1 DEF StartThread, Return, HubInv, TypeOK, CallersHold, OneStarter
  <1>4. RunningStarted' /\ NoLeakedConnection'
    BY <1>1 DEF StartThread, HubInv, TypeOK, RunningStarted, NoLeakedConnection, netVars
  <1> QED
    BY <1>2, <1>3, <1>4 DEF StartThread, HubInv, CapacityRespected

-----------------------------------------------------------------------------
(* The sessions.                                                           *)

\* A session step of h that keeps its callers alone, and shows for its own
\* connection what NoLeakedConnection says of all.
LEMMA SessionFrame ==
    ASSUME HubInv, NEW h \in Hubs, UNCHANGED <<callerVars, codes, alive>>,
           TypeOK', hpc[h] # "off",
           \A g \in Hubs : g # h => hpc'[g] = hpc[g] /\ conn'[g] = conn[g],
           \A n \in open' : \/ n \in open /\ n # conn[h]
                            \/ n \in open /\ ~InSession(h)
                            \/ conn'[h] = n /\ InSession(h)'
    PROVE  HubInv'
  <1>1. h \in alive
    BY DEF HubInv, RunningStarted
  <1>2. CallersHold' /\ OneStarter' /\ CapacityRespected'
    BY DEF HubInv, CallersHold, OneStarter, CapacityRespected, callerVars
  <1>3. RunningStarted'
    BY <1>1 DEF HubInv, RunningStarted
  <1>4. NoLeakedConnection'
    <2> SUFFICES ASSUME NEW n \in open'
                 PROVE  \E g \in alive : conn'[g] = n /\ InSession(g)'
      BY DEF NoLeakedConnection, InSession
    <2>1. CASE conn'[h] = n /\ InSession(h)'
      BY <1>1, <2>1
    <2>2. CASE n \in open /\ (n # conn[h] \/ ~InSession(h))
      <3>1. PICK g \in alive : conn[g] = n /\ InSession(g)
        BY <2>2 DEF HubInv, NoLeakedConnection, InSession
      <3>2. g # h /\ g \in Hubs
        BY <2>2, <3>1 DEF HubInv, TypeOK
      <3> QED
        BY <3>1, <3>2 DEF InSession
    <2> QED
      BY <2>1, <2>2
  <1> QED
    BY <1>2, <1>3, <1>4 DEF HubInv

LEMMA QuietSteps ==
    ASSUME HubInv, NEW h \in Hubs, Top(h) \/ GetKey(h) \/ ConnectFails(h)
    PROVE  HubInv'
  <1>1. TypeOK'
    <2>1. codes \X TrIdx \in SUBSET Regs
      BY DEF HubInv, TypeOK, Regs
    <2>2. toAdd' \in [Hubs -> SUBSET Regs]
      BY <2>1 DEF Top, GetKey, ConnectFails, HubInv, TypeOK
    <2>3. faults' \in 0 .. MaxFaults
      BY BoundAssumption DEF Top, GetKey, ConnectFails, HubInv, TypeOK
    <2> QED
      BY <2>2, <2>3 DEF Top, GetKey, ConnectFails, HubInv, TypeOK, HubFrame, callerVars,
                        netVars, sharedVars, history
  <1>2. ~InSession(h) /\ hpc[h] # "off"
    BY DEF Top, GetKey, ConnectFails, InSession
  <1>3. UNCHANGED <<callerVars, codes, alive, conn, open>>
    BY DEF Top, GetKey, ConnectFails, HubFrame, netVars, sharedVars
  <1>4. \A g \in Hubs : g # h => hpc'[g] = hpc[g]
    BY DEF Top, GetKey, ConnectFails, HubInv, TypeOK
  <1> QED
    BY <1>1, <1>2, <1>3, <1>4, SessionFrame

\* Leaving the loop over sessions.
LEMMA EndSessionType ==
    ASSUME HubInv, NEW h \in Hubs, EndSession(h)
    PROVE  /\ hpc' \in [Hubs -> {"off", "top", "key", "connect", "snapshot", "send", "diff",
                                 "recv", "backoff"}]
           /\ ws' \in Conns \cup {None}
           /\ conn' \in [Hubs -> Conns \cup {None}]
           /\ subscribed' \in [Hubs -> SUBSET Codes]
           /\ toAdd' \in [Hubs -> SUBSET Regs]
           /\ toDel' \in [Hubs -> SUBSET Regs]
           /\ wanted' \in [Hubs -> BOOLEAN]
           /\ UNCHANGED <<codes, loop, key, thread, alive>>
           /\ \A g \in Hubs : g # h => hpc'[g] = hpc[g] /\ conn'[g] = conn[g]
  BY DEF EndSession, HubInv, TypeOK

LEMMA EndSteps ==
    ASSUME HubInv, NEW h \in Hubs, KeyFails(h) \/ Backoff(h) \/ CloseUnused(h)
    PROVE  HubInv'
  <1>1. EndSession(h) /\ UNCHANGED <<callerVars, calls, nextConn, sched, history>>
    BY DEF KeyFails, Backoff, CloseUnused, HubFrame, netVars, history
  <1>2. TypeOK'
    <2>1. faults' \in 0 .. MaxFaults
      BY BoundAssumption DEF KeyFails, Backoff, CloseUnused, HubInv, TypeOK
    <2>2. open' \in SUBSET Conns /\ upstream' \in [Conns -> SUBSET Regs]
      BY DEF KeyFails, Backoff, CloseUnused, netVars, HubInv, TypeOK
    <2> QED
      BY <1>1, <2>1, <2>2, EndSessionType DEF HubInv, TypeOK, callerVars, history
  <1>3. hpc[h] # "off"
    BY DEF KeyFails, Backoff, CloseUnused
  <1>4. \A n \in open' : n \in open /\ (n # conn[h] \/ ~InSession(h))
    BY DEF KeyFails, Backoff, CloseUnused, InSession, netVars
  <1>5. UNCHANGED <<codes, alive>>
    BY <1>1 DEF EndSession
  <1> QED
    BY <1>1, <1>2, <1>3, <1>4, <1>5, EndSessionType, SessionFrame

LEMMA ConnectStep ==
    ASSUME HubInv, NEW h \in Hubs, Connect(h)
    PROVE  HubInv'
  <1>1. nextConn' \in Conns /\ nextConn' \in 0 .. MaxConns
    BY BoundAssumption DEF Connect, HubInv, TypeOK, Conns
  <1>2. TypeOK'
    <2>1. /\ open' \in SUBSET Conns /\ conn' \in [Hubs -> Conns \cup {None}]
          /\ ws' \in Conns /\ calm' \in SUBSET Conns
          /\ wanted' \in [Hubs -> BOOLEAN]
      BY <1>1 DEF Connect, HubInv, TypeOK
    <2>2. hpc' \in [Hubs -> {"off", "top", "key", "connect", "snapshot", "send", "diff",
                             "recv", "backoff"}]
      BY DEF Connect, HubInv, TypeOK
    <2> QED
      BY <1>1, <2>1, <2>2 DEF Connect, HubInv, TypeOK, HubFrame, callerVars
  <1>3. ~InSession(h) /\ hpc[h] # "off"
    BY DEF Connect, InSession
  <1>4. conn'[h] = nextConn' /\ InSession(h)' /\ open' = open \cup {nextConn'}
    BY DEF Connect, HubInv, TypeOK, InSession
  <1>5. /\ UNCHANGED <<callerVars, codes, alive>>
        /\ \A g \in Hubs : g # h => hpc'[g] = hpc[g] /\ conn'[g] = conn[g]
    BY DEF Connect, HubFrame, HubInv, TypeOK
  <1> QED
    BY <1>2, <1>3, <1>4, <1>5, SessionFrame

LEMMA SendSteps ==
    ASSUME HubInv, NEW h \in Hubs,
           SendAdd(h) \/ SendDel(h) \/ SendDone(h) \/ Recv(h) \/ Diff(h)
    PROVE  HubInv'
  <1>1. UNCHANGED <<callerVars, codes, alive, ws, loop, key, thread, conn, open, nextConn,
                    sched, calls, faults, history>>
    BY DEF SendAdd, SendDel, SendDone, Recv, Diff, HubFrame, sharedVars, netVars, history
  <1>2. \A r \in Regs : r[1] \in Codes
    BY DEF Regs
  <1>3. NextReg(toAdd[h]) \subseteq Regs /\ NextReg(toDel[h]) \subseteq Regs
    BY DEF NextReg, HubInv, TypeOK
  <1>4. upstream' \in [Conns -> SUBSET Regs]
    <2>1. ASSUME NEW r \in Regs
          PROVE  /\ [upstream EXCEPT ![conn[h]] = @ \cup {r}] \in [Conns -> SUBSET Regs]
                 /\ [upstream EXCEPT ![conn[h]] = @ \ {r}] \in [Conns -> SUBSET Regs]
      BY DEF HubInv, TypeOK
    <2>2. CASE SendAdd(h)
      BY <1>3, <2>1, <2>2 DEF SendAdd, HubInv, TypeOK
    <2>3. CASE SendDel(h)
      BY <1>3, <2>1, <2>3 DEF SendDel, HubInv, TypeOK
    <2>4. CASE SendDone(h) \/ Recv(h) \/ Diff(h)
      BY <2>4 DEF SendDone, Recv, Diff, netVars, HubInv, TypeOK
    <2> QED
      BY <2>2, <2>3, <2>4
  <1>5. subscribed' \in [Hubs -> SUBSET Codes]
    <2>1. CASE SendAdd(h)
      <3>1. \/ UNCHANGED subscribed
            \/ \E x \in Codes : subscribed' = [subscribed EXCEPT ![h] = @ \cup {x}]
            \/ subscribed' = [subscribed EXCEPT ![h] = @]
        BY <1>2, <1>3, <2>1 DEF SendAdd
      <3>2. subscribed \in [Hubs -> SUBSET Codes]
        BY DEF HubInv, TypeOK
      <3>3. ASSUME NEW x \in Codes
            PROVE  [subscribed EXCEPT ![h] = @ \cup {x}] \in [Hubs -> SUBSET Codes]
        BY <3>2
      <3>4. [subscribed EXCEPT ![h] = @] \in [Hubs -> SUBSET Codes]
        BY <3>2
      <3> QED
        BY <3>1, <3>2, <3>3, <3>4
    <2>2. CASE SendDel(h)
      BY <1>2, <1>3, <2>2 DEF SendDel, HubInv, TypeOK
    <2>3. CASE SendDone(h) \/ Recv(h) \/ Diff(h)
      BY <2>3 DEF SendDone, Recv, Diff, HubInv, TypeOK
    <2> QED
      BY <2>1, <2>2, <2>3
  <1>6. toAdd' \in [Hubs -> SUBSET Regs] /\ toDel' \in [Hubs -> SUBSET Regs]
    <2>1. /\ (codes \ subscribed[h]) \X TrIdx \in SUBSET Regs
          /\ (subscribed[h] \ codes) \X TrIdx \in SUBSET Regs
      BY DEF HubInv, TypeOK, Regs
    <2>2. CASE Diff(h)
      BY <2>1, <2>2 DEF Diff, HubInv, TypeOK
    <2>3. ASSUME NEW r
          PROVE  /\ [toAdd EXCEPT ![h] = @ \ {r}] \in [Hubs -> SUBSET Regs]
                 /\ [toDel EXCEPT ![h] = @ \ {r}] \in [Hubs -> SUBSET Regs]
      BY DEF HubInv, TypeOK
    <2>4. CASE SendAdd(h)
      <3>1. /\ UNCHANGED toDel
            /\ UNCHANGED toAdd \/ \E r : toAdd' = [toAdd EXCEPT ![h] = @ \ {r}]
        BY <2>4 DEF SendAdd
      <3> QED
        BY <2>3, <3>1 DEF HubInv, TypeOK
    <2>5. CASE SendDel(h)
      BY <2>3, <2>5 DEF SendDel, HubInv, TypeOK
    <2>6. CASE SendDone(h) \/ Recv(h)
      BY <2>6 DEF SendDone, Recv, HubInv, TypeOK
    <2> QED
      BY <2>2, <2>4, <2>5, <2>6
  <1>7. wanted' \in [Hubs -> BOOLEAN]
    BY DEF SendAdd, SendDel, SendDone, Recv, Diff, HubInv, TypeOK
  <1>8. /\ hpc' \in [Hubs -> {"off", "top", "key", "connect", "snapshot", "send", "diff",
                              "recv", "backoff"}]
        /\ \A g \in Hubs : g # h => hpc'[g] = hpc[g]
    BY DEF SendAdd, SendDel, SendDone, Recv, Diff, HubInv, TypeOK
  <1>9. TypeOK'
    BY <1>1, <1>4, <1>5, <1>6, <1>7, <1>8 DEF HubInv, TypeOK, callerVars, history
  <1>10. hpc[h] # "off" /\ (conn[h] \in open => InSession(h)')
    BY DEF SendAdd, SendDel, SendDone, Recv, Diff, HubInv, TypeOK, InSession
  <1> QED
    BY <1>1, <1>8, <1>9, <1>10, SessionFrame

-----------------------------------------------------------------------------
(* The network.                                                            *)

LEMMA RunScheduledStep ==
    ASSUME HubInv, NEW h \in Hubs, RunScheduled(h)
    PROVE  HubInv'
  <1>1. sched[h] \in Seq(LiveMsg) /\ sched[h] # <<>>
    BY DEF RunScheduled, HubInv, TypeOK
  <1>2. Head(sched[h]) \in LiveMsg /\ Tail(sched[h]) \in Seq(LiveMsg)
    BY <1>1
  <1>3. Head(sched[h]).reg \in Regs
    BY <1>2 DEF LiveMsg
  <1>4. sched' \in [Hubs -> Seq(LiveMsg)]
    BY <1>2 DEF RunScheduled, HubInv, TypeOK
  <1>5. upstream' \in [Conns -> SUBSET Regs]
    BY <1>3 DEF RunScheduled, HubInv, TypeOK
  <1>6. TypeOK'
    BY <1>4, <1>5 DEF RunScheduled, HubInv, TypeOK, HubFrame, callerVars, sharedVars, hubVars,
                      history
  <1> QED
    BY <1>6 DEF RunScheduled, HubInv, HubFrame, CallersHold, OneStarter, RunningStarted,
                CapacityRespected, NoLeakedConnection, callerVars, sharedVars, hubVars

LEMMA DropStep ==
    ASSUME HubInv, NEW n \in Conns, Drop(n)
    PROVE  HubInv'
  <1>1. faults' \in 0 .. MaxFaults
    BY BoundAssumption DEF Drop, HubInv, TypeOK
  <1>2. TypeOK'
    BY <1>1 DEF Drop, HubInv, TypeOK, HubFrame, callerVars, sharedVars, hubVars, history
  <1> QED
    BY <1>2 DEF Drop, HubInv, HubFrame, CallersHold, OneStarter, RunningStarted,
                CapacityRespected, NoLeakedConnection, callerVars, sharedVars, hubVars

-----------------------------------------------------------------------------
LEMMA HubStepInv == HubInv /\ [Next]_vars => HubInv'
  <1> SUFFICES ASSUME HubInv, [Next]_vars PROVE HubInv'
    OBVIOUS
  <1>1. ASSUME NEW c \in Callers,
               \/ \E x \in Codes : AddCodes(c, x)
               \/ \E req \in (SUBSET Codes) \ {{}} : RemoveCodes(c, req)
               \/ \E s \in SUBSET Codes : SetCodes(c, s)
        PROVE  HubInv'
    BY <1>1, AddCodesStep, RemoveCodesStep, SetCodesStep
  <1>2. ASSUME NEW c \in Callers,
               LiveBegin(c) \/ LivePost(c) \/ Ensure(c) \/ StartThread(c)
        PROVE  HubInv'
    BY <1>2, LiveBeginStep, LivePostStep, EnsureStep, StartThreadStep
  <1>3. ASSUME NEW h \in Hubs, \/ Top(h) \/ GetKey(h) \/ ConnectFails(h)
                               \/ KeyFails(h) \/ Backoff(h) \/ CloseUnused(h)
        PROVE  HubInv'
    BY <1>3, QuietSteps, EndSteps
  <1>4. ASSUME NEW h \in Hubs, \/ Connect(h) \/ SendAdd(h) \/ SendDel(h) \/ SendDone(h)
                               \/ Recv(h) \/ Diff(h) \/ RunScheduled(h)
        PROVE  HubInv'
    BY <1>4, ConnectStep, SendSteps, RunScheduledStep
  <1>5. ASSUME NEW n \in Conns, Drop(n) PROVE HubInv'
    BY <1>5, DropStep
  <1>6. CASE UNCHANGED vars
    BY <1>6 DEF HubInv, TypeOK, CallersHold, OneStarter, RunningStarted, CapacityRespected,
                NoLeakedConnection, vars, sharedVars, callerVars, hubVars, netVars, history
  <1> QED
    BY <1>1, <1>2, <1>3, <1>4, <1>5, <1>6 DEF Next

\* Every variable keeps its type; in particular a live send always has a
\* connection and a loop to go to.
THEOREM TypeCorrect == Spec => []TypeOK
  <1>1. HubInv => TypeOK
    BY DEF HubInv
  <1> QED
    BY <1>1, InitHub, HubStepInv, PTL DEF Spec

\* add_codes and set_codes keep the desired set within MAX_CODES, whichever
\* threads add, remove and replace codes at the same time.
THEOREM Capacity == Spec => []CapacityRespected
  <1>1. HubInv => CapacityRespected
    BY DEF HubInv
  <1> QED
    BY <1>1, InitHub, HubStepInv, PTL DEF Spec

\* However callers race to start hub threads and sessions fail, a connection
\* that is open belongs to the running session of a started thread.
THEOREM NoLeak == Spec => []NoLeakedConnection
  <1>1. HubInv => NoLeakedConnection
    BY DEF HubInv
  <1> QED
    BY <1>1, InitHub, HubStepInv, PTL DEF Spec

-----------------------------------------------------------------------------
(* A calm session.                                                         *)

\* Where a session keeps what, and that it sends the TR ids of a code in order:
\* those still to be sent are the last ones.
Upward(s) == \A r \in s : \A j \in TrIdx : j >= r[2] => <<r[1], j>> \in s
LocalsOf(h) ==
    /\ hpc[h] \in {"off", "top", "key", "connect"} =>
         conn[h] = None /\ subscribed[h] = {} /\ toDel[h] = {}
    /\ hpc[h] \in {"off", "top", "diff", "recv"} => toAdd[h] = {}
    /\ hpc[h] \in {"snapshot", "diff", "recv"} => toDel[h] = {}
    /\ hpc[h] \in {"key", "connect"} =>
         \A r \in toAdd[h] : \A j \in TrIdx : <<r[1], j>> \in toAdd[h]
    /\ Upward(toAdd[h]) /\ Upward(toDel[h])
    /\ \A r \in toAdd[h] : r[1] \notin subscribed[h]
    /\ \A r \in toDel[h] : r[1] \in subscribed[h]
Locals == \A h \in Hubs : LocalsOf(h)

\* A connection number that was not used yet is used nowhere.
Fresh ==
    \A n \in Conns : n > nextConn =>
        /\ upstream[n] = {} /\ n # ws
        /\ \A h \in Hubs : conn[h] # n
        /\ \A h \in Hubs : \A i \in DOMAIN sched[h] : sched[h][i].conn # n
        /\ \A c \in Callers : pc[c] \in {"unsubPost", "subPost"} => cws[c] # n

\* While calls do not overlap there is one, and codes has what it says.
OneCall ==
    (~overlap \/ calm # {}) =>
        \A c \in Callers : Busy(c) =>
            /\ \A d \in Callers : Busy(d) => c = d
            /\ rem[c] \cap codes = {} /\ add[c] \subseteq codes
Posted ==
    \A c \in Callers :
        /\ pc[c] = "unsubPost" => \A r \in post[c] : r[1] \in rem[c]
        /\ pc[c] = "subPost" => \A r \in post[c] : r[1] \in add[c]

\* What the threads share is the one hub thread's as long as there is one.
LoneThread ==
    /\ IF alive = {} THEN loop = None /\ ws = None ELSE loop \in alive
    /\ \A c \in Callers : pc[c] \in {"unsubPost", "subPost"} => cloop[c] \in alive
    /\ \A h \in Hubs \ alive : conn[h] = None /\ sched[h] = <<>>
    /\ \A h \in Hubs : alive = {h} =>
         ws = conn[h] /\ (ws # None \/ hpc[h] = "connect" => key)

\* The call that has still to post a message for r to connection n.
Posting(n, r) ==
    \E c \in Callers :
        \/ pc[c] = "unsub" /\ r[1] \in rem[c]
        \/ pc[c] \in {"unsub", "unsubPost", "sub"} /\ r[1] \in add[c]
        \/ pc[c] \in {"unsubPost", "subPost"} /\ cws[c] = n /\ r \in post[c]

\* What the set of codes wants to be said of r, and the scheduled messages for it.
Wants(r) == IF r[1] \in codes THEN "sub" ELSE "unsub"
Says(m, n, r) == m.conn = n /\ m.reg = r /\ m.type = Wants(r)
Denies(m, n, r) == m.conn = n /\ m.reg = r /\ m.type # Wants(r)

\* The last word on r is the one wanted.
LastWord(s, n, r) ==
    \A i \in DOMAIN s : Denies(s[i], n, r) => \E j \in DOMAIN s : j > i /\ Says(s[j], n, r)
Said(s, n, r) == \E i \in DOMAIN s : Says(s[i], n, r)

\* The session has sent r, and nothing against it since.
HasSent(h, r) ==
    /\ r \notin toAdd[h]
    /\ \/ \E i \in TrIdx : <<r[1], i>> \in toAdd[h]
       \/ r \in toDel[h]
       \/ r[1] \in subscribed[h] /\ \A i \in TrIdx : <<r[1], i>> \notin toDel[h]

\* Unless a call has still to post for r, the last scheduled word on it is what
\* codes wants, and where the session's memory agrees with codes the peer does
\* too, or a scheduled message will see to it.
Steady(h, r) ==
    /\ LastWord(sched[h], conn[h], r)
    /\ (HasSent(h, r) <=> r[1] \in codes) =>
         (r \in upstream[conn[h]] <=> r[1] \in codes) \/ Said(sched[h], conn[h], r)
Faithful ==
    \A h \in Hubs : alive = {h} /\ conn[h] \in open \cap calm =>
        \A r \in Regs : Posting(conn[h], r) \/ Steady(h, r)

CalmInv ==
    HubInv /\ Locals /\ Fresh /\ OneCall /\ Posted /\ LoneThread /\ Faithful

\* A step of one hub thread leaves the locals of the others alone.
LEMMA OthersKeep ==
    ASSUME HubInv, NEW h \in Hubs, NEW g \in Hubs, g # h, HubStep(h) \/ KeyFails(h) \/ ConnectFails(h)
    PROVE  /\ hpc'[g] = hpc[g] /\ conn'[g] = conn[g] /\ subscribed'[g] = subscribed[g]
           /\ toAdd'[g] = toAdd[g] /\ toDel'[g] = toDel[g]
  <1>1. /\ hpc \in [Hubs -> {"off", "top", "key", "connect", "snapshot", "send", "diff", "recv",
                             "backoff"}]
        /\ conn \in [Hubs -> Conns \cup {None}] /\ subscribed \in [Hubs -> SUBSET Codes]
        /\ toAdd \in [Hubs -> SUBSET Regs] /\ toDel \in [Hubs -> SUBSET Regs]
    BY DEF HubInv, TypeOK
  <1>2. CASE Top(h) \/ GetKey(h) \/ ConnectFails(h) \/ Connect(h)
    BY <1>1, <1>2 DEF Top, GetKey, ConnectFails, Connect
  <1>3. CASE KeyFails(h) \/ CloseUnused(h) \/ Backoff(h)
    BY <1>1, <1>3 DEF KeyFails, CloseUnused, Backoff, EndSession
  <1>4. CASE SendAdd(h)
    BY <1>1, <1>4 DEF SendAdd
  <1>5. CASE SendDel(h)
    BY <1>1, <1>5 DEF SendDel
  <1>6. CASE SendDone(h) \/ Recv(h) \/ Diff(h)
    BY <1>1, <1>6 DEF SendDone, Recv, Diff
  <1> QED
    BY <1>2, <1>3, <1>4, <1>5, <1>6 DEF HubStep

\* The first of the TR ids of a code still to be sent, and what is left then.
LEMMA Sending ==
    ASSUME NEW s \in SUBSET Regs, Upward(s), NEW r \in NextReg(s)
    PROVE  /\ r \in Regs /\ r[1] \in Codes /\ r[2] \in TrIdx /\ r = <<r[1], r[2]>>
           /\ Upward(s \ {r})
           /\ r[2] = NumTr => \A q \in s : q[1] = r[1] => q = r
           /\ r[2] # NumTr => <<r[1], NumTr>> \in s \ {r}
  <1>1. r \in s /\ r \in Codes \X TrIdx /\ \A q \in s : q[1] = r[1] => q[2] >= r[2]
    BY DEF NextReg, Regs
  <1>2. \A q \in s : q \in Codes \X TrIdx
    BY DEF Regs
  <1>3. Upward(s \ {r})
    BY <1>1, <1>2 DEF Upward, TrIdx
  <1>4. r[2] = NumTr => \A q \in s : q[1] = r[1] => q = r
    BY <1>1, <1>2 DEF TrIdx
  <1>5. r[2] # NumTr => <<r[1], NumTr>> \in s \ {r}
    BY <1>1, CapacityAssumption DEF Upward, TrIdx
  <1> QED
    BY <1>1, <1>3, <1>4, <1>5 DEF Regs

LEMMA LocalsSend ==
    ASSUME HubInv, NEW h \in Hubs, LocalsOf(h), SendAdd(h) \/ SendDel(h)
    PROVE  LocalsOf(h)'
  <1>1. /\ hpc \in [Hubs -> {"off", "top", "key", "connect", "snapshot", "send", "diff", "recv",
                             "backoff"}]
        /\ conn \in [Hubs -> Conns \cup {None}] /\ subscribed \in [Hubs -> SUBSET Codes]
        /\ toAdd \in [Hubs -> SUBSET Regs] /\ toDel \in [Hubs -> SUBSET Regs]
    BY DEF HubInv, TypeOK
  <1>2. Upward(toAdd[h]) /\ Upward(toDel[h])
    BY DEF LocalsOf
  <1>3. CASE SendAdd(h)
    <2>1. PICK r \in NextReg(toAdd[h]) :
            IF conn[h] \in open
            THEN /\ subscribed' = [subscribed EXCEPT ![h] = IF r[2] = NumTr THEN @ \cup {r[1]} ELSE @]
                 /\ toAdd' = [toAdd EXCEPT ![h] = @ \ {r}]
                 /\ UNCHANGED hpc
            ELSE /\ hpc' = [hpc EXCEPT ![h] = "backoff"]
                 /\ UNCHANGED <<subscribed, toAdd>>
      BY <1>3 DEF SendAdd
    <2>2. hpc[h] \in {"snapshot", "send"} /\ UNCHANGED <<conn, toDel>>
      BY <1>3 DEF SendAdd
    <2>3. CASE conn[h] \in open
      <3>1. /\ toAdd'[h] = toAdd[h] \ {r} /\ hpc' = hpc
            /\ subscribed'[h] = IF r[2] = NumTr THEN subscribed[h] \cup {r[1]} ELSE subscribed[h]
        BY <1>1, <2>1, <2>3
      <3>2. toAdd[h] \in SUBSET Regs
        BY <1>1
      <3>3. Upward(toAdd[h] \ {r}) /\ (r[2] = NumTr => \A q \in toAdd[h] : q[1] = r[1] => q = r)
        BY <1>2, <3>2, Sending
      <3>4. Upward(toAdd[h])' /\ Upward(toDel[h])'
        BY <1>2, <2>2, <3>1, <3>3 DEF Upward
      <3> QED
        BY <2>2, <3>1, <3>3, <3>4 DEF LocalsOf
    <2>4. CASE conn[h] \notin open
      <3>1. hpc'[h] = "backoff" /\ UNCHANGED <<subscribed, toAdd>>
        BY <1>1, <2>1, <2>4
      <3> QED
        BY <2>2, <3>1 DEF LocalsOf, Upward
    <2> QED
      BY <2>3, <2>4
  <1>4. CASE SendDel(h)
    <2>1. PICK r \in NextReg(toDel[h]) :
            /\ subscribed' = [subscribed EXCEPT ![h] = IF r[2] = NumTr THEN @ \ {r[1]} ELSE @]
            /\ toDel' = [toDel EXCEPT ![h] = @ \ {r}]
      BY <1>4 DEF SendDel
    <2>2. hpc[h] = "send" /\ toAdd[h] = {} /\ UNCHANGED <<conn, toAdd, hpc>>
      BY <1>4 DEF SendDel
    <2>3. /\ toDel'[h] = toDel[h] \ {r}
          /\ subscribed'[h] = IF r[2] = NumTr THEN subscribed[h] \ {r[1]} ELSE subscribed[h]
      BY <1>1, <2>1
    <2>4. toDel[h] \in SUBSET Regs
      BY <1>1
    <2>5. Upward(toDel[h] \ {r}) /\ (r[2] = NumTr => \A q \in toDel[h] : q[1] = r[1] => q = r)
      BY <1>2, <2>4, Sending
    <2>6. Upward(toAdd[h])' /\ Upward(toDel[h])'
      BY <1>2, <2>2, <2>3, <2>5 DEF Upward
    <2> QED
      BY <2>2, <2>3, <2>5, <2>6 DEF LocalsOf
  <1> QED
    BY <1>3, <1>4

LEMMA LocalsStep ==
    ASSUME HubInv, Locals, [Next]_vars
    PROVE  Locals'
  <1>1. /\ hpc \in [Hubs -> {"off", "top", "key", "connect", "snapshot", "send", "diff", "recv",
                             "backoff"}]
        /\ conn \in [Hubs -> Conns \cup {None}] /\ subscribed \in [Hubs -> SUBSET Codes]
        /\ toAdd \in [Hubs -> SUBSET Regs] /\ toDel \in [Hubs -> SUBSET Regs]
    BY DEF HubInv, TypeOK
  <1>2. CASE UNCHANGED hubVars
    BY <1>2 DEF Locals, LocalsOf, Upward, hubVars
  <1>3. ASSUME NEW c \in Callers, StartThread(c)
        PROVE  Locals'
    <2>1. cloop[c] \in Hubs /\ hpc[cloop[c]] = "off"
      BY <1>1, <1>3 DEF StartThread, HubInv, CallersHold, RunningStarted
    <2>2. hpc' = [hpc EXCEPT ![cloop[c]] = "top"] /\ UNCHANGED <<conn, subscribed, toAdd, toDel>>
      BY <1>3 DEF StartThread
    <2> QED
      BY <1>1, <2>1, <2>2 DEF Locals, LocalsOf, Upward
  <1>4. ASSUME NEW h \in Hubs, HubStep(h) \/ KeyFails(h) \/ ConnectFails(h)
        PROVE  Locals'
    <2>1. ASSUME NEW g \in Hubs, g # h PROVE LocalsOf(g)'
      <3>1. /\ hpc'[g] = hpc[g] /\ conn'[g] = conn[g] /\ subscribed'[g] = subscribed[g]
            /\ toAdd'[g] = toAdd[g] /\ toDel'[g] = toDel[g]
        BY <1>4, <2>1, OthersKeep
      <3> QED
        BY <3>1 DEF Locals, LocalsOf, Upward
    <2>2. LocalsOf(h)
      BY DEF Locals
    <2> SUFFICES LocalsOf(h)'
      BY <2>1 DEF Locals
    <2>3. Upward({}) /\ \A cs \in SUBSET Codes : Upward(cs \X TrIdx)
      BY DEF Upward
    <2>4. CASE Top(h)
      <3>1. \/ UNCHANGED <<hpc, toAdd>>
            \/ hpc'[h] = "key" /\ toAdd'[h] = codes \X TrIdx
        BY <1>1, <2>4 DEF Top
      <3>2. hpc[h] = "top" /\ UNCHANGED <<conn, subscribed, toDel>> /\ codes \in SUBSET Codes
        BY <2>4 DEF Top, HubInv, TypeOK
      <3>3. CASE UNCHANGED <<hpc, toAdd>>
        BY <2>2, <3>2, <3>3 DEF LocalsOf, Upward
      <3>4. CASE hpc'[h] = "key" /\ toAdd'[h] = codes \X TrIdx
        <4>1. Upward(toAdd[h])' /\ Upward(toDel[h])'
          BY <2>2, <2>3, <3>2, <3>4 DEF LocalsOf, Upward
        <4> QED
          BY <2>2, <3>2, <3>4, <4>1 DEF LocalsOf
      <3> QED
        BY <3>1, <3>3, <3>4
    <2>5. CASE GetKey(h) \/ ConnectFails(h) \/ SendDone(h) \/ Recv(h)
      <3>1. UNCHANGED <<conn, subscribed, toAdd, toDel>>
        BY <2>5 DEF GetKey, ConnectFails, SendDone, Recv
      <3>2. \/ hpc[h] = "key" /\ hpc'[h] = "connect"
            \/ hpc[h] = "connect" /\ hpc'[h] = "backoff"
            \/ hpc[h] = "recv" /\ hpc'[h] \in {"diff", "backoff"}
            \/ toAdd[h] = {} /\ toDel[h] = {} /\ hpc[h] = "snapshot" /\ hpc'[h] = "diff"
            \/ toAdd[h] = {} /\ toDel[h] = {} /\ hpc[h] = "send" /\ hpc'[h] = "recv"
        BY <1>1, <2>5 DEF GetKey, ConnectFails, SendDone, Recv
      <3> QED
        BY <2>2, <3>1, <3>2 DEF LocalsOf, Upward
    <2>6. CASE Connect(h)
      <3>1. /\ hpc[h] = "connect" /\ hpc'[h] = "snapshot"
            /\ UNCHANGED <<subscribed, toAdd, toDel>>
        BY <1>1, <2>6 DEF Connect
      <3> QED
        BY <2>2, <3>1 DEF LocalsOf, Upward
    <2>7. CASE KeyFails(h) \/ CloseUnused(h) \/ Backoff(h)
      <3>1. /\ hpc'[h] = "top" /\ conn'[h] = None /\ subscribed'[h] = {}
            /\ toAdd'[h] = {} /\ toDel'[h] = {}
        BY <1>1, <2>7 DEF KeyFails, CloseUnused, Backoff, EndSession
      <3> QED
        BY <3>1 DEF LocalsOf, Upward
    <2>8. CASE SendAdd(h) \/ SendDel(h)
      BY <2>2, <2>8, LocalsSend
    <2>9. CASE Diff(h)
      <3>1. /\ hpc'[h] = "send" /\ UNCHANGED <<conn, subscribed>>
            /\ toAdd'[h] = (codes \ subscribed[h]) \X TrIdx
            /\ toDel'[h] = (subscribed[h] \ codes) \X TrIdx
        BY <1>1, <2>9 DEF Diff
      <3>2. Upward(toAdd[h])' /\ Upward(toDel[h])'
        BY <3>1 DEF Upward
      <3> QED
        BY <3>1, <3>2 DEF LocalsOf
    <2> QED
      BY <1>4, <2>4, <2>5, <2>6, <2>7, <2>8, <2>9 DEF HubStep
  <1>5. ASSUME NEW h \in Hubs, RunScheduled(h) PROVE UNCHANGED hubVars
    BY <1>5 DEF RunScheduled
  <1>6. ASSUME NEW n \in Conns, Drop(n) PROVE UNCHANGED hubVars
    BY <1>6 DEF Drop
  <1>7. ASSUME NEW c \in Callers,
               \/ \E x \in Codes : AddCodes(c, x)
               \/ \E req \in (SUBSET Codes) \ {{}} : RemoveCodes(c, req)
               \/ \E s \in SUBSET Codes : SetCodes(c, s)
               \/ LiveBegin(c) \/ LivePost(c) \/ Ensure(c)
        PROVE  UNCHANGED hubVars
    BY <1>7 DEF AddCodes, RemoveCodes, SetCodes, BeginCall, LiveBegin, LivePost, Ensure
  <1> QED
    BY <1>2, <1>3, <1>4, <1>5, <1>6, <1>7 DEF Next, HubStep, vars

-----------------------------------------------------------------------------
\* The messages of a loop with one more, and without the first.
LEMMA Appended ==
    ASSUME NEW s \in Seq(LiveMsg), NEW m \in LiveMsg
    PROVE  /\ Append(s, m) \in Seq(LiveMsg)
           /\ DOMAIN Append(s, m) = DOMAIN s \cup {Len(s) + 1}
           /\ \A i \in DOMAIN s : i \in Nat /\ i < Len(s) + 1 /\ Append(s, m)[i] = s[i]
           /\ Append(s, m)[Len(s) + 1] = m
  OBVIOUS

LEMMA Popped ==
    ASSUME NEW s \in Seq(LiveMsg), s # <<>>
    PROVE  /\ Head(s) \in LiveMsg /\ Head(s) = s[1] /\ 1 \in DOMAIN s
           /\ \A i \in DOMAIN Tail(s) : i \in Nat /\ i + 1 \in DOMAIN s /\ Tail(s)[i] = s[i + 1]
           /\ \A i \in DOMAIN s : i \in Nat /\ (i # 1 => i - 1 \in DOMAIN Tail(s) /\ Tail(s)[i - 1] = s[i])
  OBVIOUS

\* What LivePost does to the loops.
LEMMA Posts ==
    ASSUME HubInv, NEW c \in Callers, LivePost(c)
    PROVE  /\ pc[c] \in {"unsubPost", "subPost"} /\ cws[c] \in Conns /\ cloop[c] \in Hubs
           /\ \E r \in post[c] :
                LET m == [conn |-> cws[c], type |-> IF pc[c] = "unsubPost" THEN "unsub" ELSE "sub",
                          reg |-> r]
                IN  /\ r \in Regs /\ m \in LiveMsg
                    /\ sched'[cloop[c]] = Append(sched[cloop[c]], m)
                    /\ \A g \in Hubs : g # cloop[c] => sched'[g] = sched[g]
                    /\ post'[c] = post[c] \ {r}
           /\ \A d \in Callers : d # c => post'[d] = post[d] /\ pc'[d] = pc[d]
           /\ pc'[c] = IF post'[c] # {} THEN pc[c]
                       ELSE IF pc[c] = "unsubPost" THEN "sub" ELSE "ensure"
           /\ UNCHANGED <<sharedVars, hubVars, rem, add, cws, cloop, open, upstream, nextConn, history>>
  <1>1. /\ pc[c] \in {"unsubPost", "subPost"} /\ cws[c] \in Conns /\ cloop[c] \in Hubs
        /\ post[c] \in SUBSET Regs
    BY DEF LivePost, HubInv, CallersHold, TypeOK
  <1>2. PICK r \in post[c] :
            /\ sched' = [sched EXCEPT ![cloop[c]] = Append(@,
                        [conn |-> cws[c],
                         type |-> IF pc[c] = "unsubPost" THEN "unsub" ELSE "sub",
                         reg  |-> r])]
            /\ post' = [post EXCEPT ![c] = @ \ {r}]
    BY DEF LivePost, NextReg
  <1>3. r \in Regs
    BY <1>1
  <1>4. [conn |-> cws[c], type |-> IF pc[c] = "unsubPost" THEN "unsub" ELSE "sub", reg |-> r]
          \in LiveMsg
    BY <1>1, <1>3 DEF LiveMsg
  <1>5. sched \in [Hubs -> Seq(LiveMsg)] /\ post \in [Callers -> SUBSET Regs]
    BY DEF HubInv, TypeOK
  <1>6. /\ sched'[cloop[c]] = Append(sched[cloop[c]],
                        [conn |-> cws[c],
                         type |-> IF pc[c] = "unsubPost" THEN "unsub" ELSE "sub",
                         reg  |-> r])
        /\ \A g \in Hubs : g # cloop[c] => sched'[g] = sched[g]
        /\ post'[c] = post[c] \ {r}
        /\ \A d \in Callers : d # c => post'[d] = post[d]
    BY <1>1, <1>2, <1>5
  <1>7. pc' = [pc EXCEPT ![c] = IF post'[c] # {} THEN @
                               ELSE IF @ = "unsubPost" THEN "sub" ELSE "ensure"]
        /\ DOMAIN pc = Callers
    BY DEF LivePost, HubInv, TypeOK
  <1>8. UNCHANGED <<sharedVars, hubVars, rem, add, cws, cloop, open, upstream, nextConn, history>>
    BY DEF LivePost
  <1>9. /\ \A d \in Callers : d # c => pc'[d] = pc[d]
        /\ pc'[c] = IF post'[c] # {} THEN pc[c]
                    ELSE IF pc[c] = "unsubPost" THEN "sub" ELSE "ensure"
    BY <1>7
  <1> QED
    BY <1>1, <1>3, <1>4, <1>6, <1>8, <1>9

\* What LiveBegin does to the caller.
LEMMA Begins ==
    ASSUME HubInv, NEW c \in Callers, LiveBegin(c)
    PROVE  LET diff == IF pc[c] = "unsub" THEN rem[c] ELSE add[c] IN
           /\ pc[c] \in {"unsub", "sub"}
           /\ \/ /\ diff # {} /\ ws # None /\ loop # None /\ key
                 /\ cws'[c] = ws /\ cloop'[c] = loop /\ post'[c] = diff \X TrIdx
                 /\ pc'[c] = IF pc[c] = "unsub" THEN "unsubPost" ELSE "subPost"
              \/ /\ ~(diff # {} /\ ws # None /\ loop # None /\ key)
                 /\ pc'[c] = IF pc[c] = "unsub" THEN "sub" ELSE "ensure"
                 /\ UNCHANGED <<cws, cloop, post>>
           /\ \A d \in Callers : d # c =>
                pc'[d] = pc[d] /\ cws'[d] = cws[d] /\ cloop'[d] = cloop[d] /\ post'[d] = post[d]
           /\ UNCHANGED <<sharedVars, hubVars, netVars, rem, add, history>>
  <1>1. DOMAIN pc = Callers /\ DOMAIN cws = Callers /\ DOMAIN cloop = Callers /\ DOMAIN post = Callers
    BY DEF HubInv, TypeOK
  <1> QED
    BY <1>1 DEF LiveBegin

\* What a scheduled coroutine does to the registrations.
LEMMA Runs ==
    ASSUME HubInv, NEW h \in Hubs, RunScheduled(h)
    PROVE  LET m == Head(sched[h]) IN
           /\ sched[h] # <<>> /\ sched[h] \in Seq(LiveMsg)
           /\ sched'[h] = Tail(sched[h]) /\ \A g \in Hubs : g # h => sched'[g] = sched[g]
           /\ m \in LiveMsg
           /\ \A n \in Conns : n # m.conn => upstream'[n] = upstream[n]
           /\ m.conn \in open => upstream'[m.conn] = IF m.type = "sub"
                                                     THEN upstream[m.conn] \cup {m.reg}
                                                     ELSE upstream[m.conn] \ {m.reg}
           /\ m.conn \notin open => upstream' = upstream
           /\ UNCHANGED <<sharedVars, hubVars, callerVars, open, nextConn, history>>
  <1>1. sched \in [Hubs -> Seq(LiveMsg)] /\ upstream \in [Conns -> SUBSET Regs]
    BY DEF HubInv, TypeOK
  <1>2. sched[h] # <<>> /\ sched[h] \in Seq(LiveMsg)
    BY <1>1 DEF RunScheduled
  <1>3. Head(sched[h]) \in LiveMsg /\ Head(sched[h]).conn \in Conns
    BY <1>2, Popped DEF LiveMsg
  <1>4. /\ sched' = [sched EXCEPT ![h] = Tail(@)]
        /\ UNCHANGED <<sharedVars, hubVars, callerVars, open, nextConn, history>>
    BY DEF RunScheduled, HubFrame
  <1>5. LET m == Head(sched[h]) IN
        upstream' = IF m.conn \notin open THEN upstream
                    ELSE IF m.type = "sub"
                         THEN [upstream EXCEPT ![m.conn] = @ \cup {m.reg}]
                         ELSE [upstream EXCEPT ![m.conn] = @ \ {m.reg}]
    BY DEF RunScheduled
  <1> QED
    BY <1>1, <1>2, <1>3, <1>4, <1>5

LEMMA FreshStep ==
    ASSUME HubInv, Fresh, [Next]_vars
    PROVE  Fresh'
  <1>1. /\ ws \in Conns \cup {None} /\ conn \in [Hubs -> Conns \cup {None}]
        /\ cws \in [Callers -> Conns \cup {None}] /\ upstream \in [Conns -> SUBSET Regs]
        /\ nextConn \in 0 .. MaxConns /\ MaxConns \in Nat
        /\ pc \in [Callers -> {"idle", "unsub", "unsubPost", "sub", "subPost", "ensure", "start"}]
        /\ sched \in [Hubs -> Seq(LiveMsg)]
        /\ None \notin Conns
    BY BoundAssumption, NoneAssumption DEF HubInv, TypeOK, Conns
  <1>2. CASE UNCHANGED <<ws, conn, cws, upstream, nextConn, sched>>
              /\ \A c \in Callers : pc'[c] = pc[c] \/ pc'[c] \notin {"unsubPost", "subPost"}
    BY <1>2 DEF Fresh
  <1>3. ASSUME NEW c \in Callers,
               \/ \E x \in Codes : AddCodes(c, x)
               \/ \E req \in (SUBSET Codes) \ {{}} : RemoveCodes(c, req)
               \/ \E s \in SUBSET Codes : SetCodes(c, s)
        PROVE  Fresh'
    BY <1>1, <1>2, <1>3 DEF AddCodes, RemoveCodes, SetCodes, BeginCall, hubVars, netVars
  <1>4. ASSUME NEW c \in Callers, LiveBegin(c) PROVE Fresh'
    BY <1>1, <1>4, Begins DEF Fresh, sharedVars, hubVars, netVars
  <1>5. ASSUME NEW c \in Callers, LivePost(c) PROVE Fresh'
    <2>1. PICK r \in post[c] :
                LET m == [conn |-> cws[c], type |-> IF pc[c] = "unsubPost" THEN "unsub" ELSE "sub",
                          reg |-> r]
                IN  /\ m \in LiveMsg
                    /\ sched'[cloop[c]] = Append(sched[cloop[c]], m)
                    /\ \A g \in Hubs : g # cloop[c] => sched'[g] = sched[g]
      BY <1>5, Posts
    <2>2. /\ pc[c] \in {"unsubPost", "subPost"} /\ cloop[c] \in Hubs
          /\ UNCHANGED <<ws, conn, cws, upstream, nextConn>>
          /\ \A d \in Callers : pc'[d] \in {"unsubPost", "subPost"} =>
                                  pc[d] \in {"unsubPost", "subPost"}
      BY <1>5, Posts DEF sharedVars, hubVars
    <2>3. ASSUME NEW h \in Hubs, NEW i \in DOMAIN sched'[h]
          PROVE  (h = cloop[c] /\ sched'[h][i].conn = cws[c])
                 \/ (i \in DOMAIN sched[h] /\ sched'[h][i] = sched[h][i])
      <3>1. CASE h = cloop[c]
        <4> DEFINE m == [conn |-> cws[c],
                         type |-> IF pc[c] = "unsubPost" THEN "unsub" ELSE "sub", reg |-> r]
        <4>1. sched[h] \in Seq(LiveMsg) /\ m \in LiveMsg /\ m.conn = cws[c]
          BY <1>1, <2>1
        <4>2. sched'[h] = Append(sched[h], m)
          BY <2>1, <3>1
        <4> HIDE DEF m
        <4>3. /\ DOMAIN sched'[h] = DOMAIN sched[h] \cup {Len(sched[h]) + 1}
              /\ \A j \in DOMAIN sched[h] : sched'[h][j] = sched[h][j]
              /\ sched'[h][Len(sched[h]) + 1] = m
          BY <4>1, <4>2, Appended
        <4> QED
          BY <2>3, <3>1, <4>1, <4>3
      <3>2. CASE h # cloop[c]
        BY <2>1, <2>3, <3>2
      <3> QED
        BY <3>1, <3>2
    <2> QED
      BY <2>2, <2>3 DEF Fresh
  <1>6. ASSUME NEW c \in Callers, Ensure(c) \/ StartThread(c) PROVE Fresh'
    BY <1>1, <1>2, <1>6 DEF Ensure, StartThread, Return, hubVars, netVars, Fresh
  <1>7. ASSUME NEW h \in Hubs, Top(h) \/ GetKey(h) \/ ConnectFails(h) \/ SendDone(h) \/ Recv(h)
                               \/ Diff(h)
        PROVE  Fresh'
    BY <1>2, <1>7 DEF Top, GetKey, ConnectFails, SendDone, Recv, Diff, HubFrame, sharedVars,
                      netVars, callerVars
  <1>8. ASSUME NEW h \in Hubs, KeyFails(h) \/ CloseUnused(h) \/ Backoff(h)
        PROVE  Fresh'
    <2>1. /\ ws' = None /\ conn' = [conn EXCEPT ![h] = None]
          /\ UNCHANGED <<cws, pc, nextConn, sched>>
          /\ \A n \in Conns : upstream'[n] = {} \/ upstream'[n] = upstream[n]
      BY <1>1, <1>8 DEF KeyFails, CloseUnused, Backoff, EndSession, HubFrame, netVars, callerVars
    <2> QED
      BY <1>1, <2>1 DEF Fresh
  <1>9. ASSUME NEW h \in Hubs, Connect(h)
        PROVE  Fresh'
    <2>1. /\ nextConn' = nextConn + 1 /\ ws' = nextConn' /\ conn' = [conn EXCEPT ![h] = nextConn']
          /\ UNCHANGED <<cws, pc, sched, upstream>>
      BY <1>9 DEF Connect, HubFrame, callerVars
    <2> QED
      BY <1>1, <2>1 DEF Fresh, Conns
  <1>10. ASSUME NEW h \in Hubs, SendAdd(h) \/ SendDel(h)
        PROVE  Fresh'
    <2>1. /\ UNCHANGED <<ws, conn, cws, pc, nextConn, sched>>
          /\ \A n \in Conns : n # conn[h] => upstream'[n] = upstream[n]
      BY <1>1, <1>10 DEF SendAdd, SendDel, HubFrame, sharedVars, callerVars
    <2> QED
      BY <2>1 DEF Fresh
  <1>11. ASSUME NEW h \in Hubs, RunScheduled(h)
        PROVE  Fresh'
    <2>1. /\ sched[h] # <<>> /\ sched[h] \in Seq(LiveMsg)
          /\ sched'[h] = Tail(sched[h]) /\ \A g \in Hubs : g # h => sched'[g] = sched[g]
          /\ \A n \in Conns : n # Head(sched[h]).conn => upstream'[n] = upstream[n]
          /\ UNCHANGED <<ws, conn, cws, pc, nextConn>>
      BY <1>11, Runs DEF sharedVars, hubVars, callerVars
    <2>2. /\ Head(sched[h]) = sched[h][1] /\ 1 \in DOMAIN sched[h]
          /\ \A i \in DOMAIN sched'[h] : i + 1 \in DOMAIN sched[h]
                                          /\ sched'[h][i] = sched[h][i + 1]
      BY <2>1, Popped
    <2>3. Head(sched[h]).conn <= nextConn \/ Head(sched[h]).conn \notin Conns
      BY <1>1, <2>2 DEF Fresh, Conns
    <2>4. ASSUME NEW g \in Hubs, NEW i \in DOMAIN sched'[g]
          PROVE  \E j \in DOMAIN sched[g] : sched'[g][i] = sched[g][j]
      <3>1. CASE g = h
        BY <2>2, <2>4, <3>1
      <3>2. CASE g # h
        BY <2>1, <2>4, <3>2
      <3> QED
        BY <3>1, <3>2
    <2>5. \A n \in Conns : n > nextConn => n # Head(sched[h]).conn
      BY <1>1, <2>3 DEF Conns
    <2> QED
      BY <2>1, <2>4, <2>5 DEF Fresh
  <1>12. ASSUME NEW n \in Conns, Drop(n)
        PROVE  Fresh'
    <2>1. /\ UNCHANGED <<ws, conn, cws, pc, nextConn, sched>>
          /\ \A m \in Conns : upstream'[m] = {} \/ upstream'[m] = upstream[m]
      BY <1>1, <1>12 DEF Drop, HubFrame, sharedVars, hubVars, callerVars
    <2> QED
      BY <2>1 DEF Fresh
  <1>13. CASE UNCHANGED vars
    BY <1>2, <1>13 DEF vars, sharedVars, callerVars, hubVars, netVars
  <1> QED
    BY <1>3, <1>4, <1>5, <1>6, <1>7, <1>8, <1>9, <1>10, <1>11, <1>12, <1>13 DEF Next

LEMMA OneCallStep ==
    ASSUME HubInv, OneCall, [Next]_vars
    PROVE  OneCall'
  <1>1. /\ pc \in [Callers -> {"idle", "unsub", "unsubPost", "sub", "subPost", "ensure", "start"}]
        /\ rem \in [Callers -> SUBSET Codes] /\ add \in [Callers -> SUBSET Codes]
        /\ overlap \in BOOLEAN
    BY DEF HubInv, TypeOK
  <1>2. CASE /\ UNCHANGED <<codes, overlap, calm>>
             /\ \A c \in Callers : Busy(c)' => Busy(c) /\ rem'[c] = rem[c] /\ add'[c] = add[c]
    BY <1>2 DEF OneCall
  <1>3. ASSUME NEW c \in Callers, BeginCall(c), DOMAIN pc' = Callers,
               \A d \in Callers : d # c => pc'[d] = pc[d],
               rem'[c] \cap codes' = {} /\ add'[c] \subseteq codes'
        PROVE  OneCall'
    <2>1. overlap' = (\E d \in Callers : Busy(d)) /\ (overlap' => calm' = {})
      BY <1>3 DEF BeginCall
    <2>2. ~overlap' => \A d \in Callers : Busy(d)' => d = c
      BY <1>3, <2>1 DEF Busy
    <2> QED
      BY <1>3, <2>1, <2>2 DEF OneCall
  <1>4. ASSUME NEW c \in Callers,
               \/ \E x \in Codes : AddCodes(c, x)
               \/ \E req \in (SUBSET Codes) \ {{}} : RemoveCodes(c, req)
               \/ \E s \in SUBSET Codes : SetCodes(c, s)
        PROVE  OneCall'
    <2>1. /\ BeginCall(c)
          /\ DOMAIN pc' = Callers /\ \A d \in Callers : d # c => pc'[d] = pc[d]
      BY <1>1, <1>4 DEF AddCodes, RemoveCodes, SetCodes
    <2>2. rem'[c] \cap codes' = {} /\ add'[c] \subseteq codes'
      <3>1. CASE \E x \in Codes : AddCodes(c, x)
        BY <1>1, <3>1 DEF AddCodes
      <3>2. CASE \E req \in (SUBSET Codes) \ {{}} : RemoveCodes(c, req)
        BY <1>1, <3>2 DEF RemoveCodes, Remove
      <3>3. CASE \E s \in SUBSET Codes : SetCodes(c, s)
        BY <1>1, <3>3 DEF SetCodes
      <3> QED
        BY <1>4, <3>1, <3>2, <3>3
    <2> QED
      BY <1>3, <2>1, <2>2
  <1>5. ASSUME NEW c \in Callers, LiveBegin(c) PROVE OneCall'
    BY <1>2, <1>5, Begins DEF Busy, sharedVars, history
  <1>6. ASSUME NEW c \in Callers, LivePost(c) PROVE OneCall'
    BY <1>2, <1>6, Posts DEF Busy, sharedVars, history
  <1>7. ASSUME NEW c \in Callers, Ensure(c) \/ StartThread(c) PROVE OneCall'
    BY <1>1, <1>2, <1>7 DEF Ensure, StartThread, Return, Busy, history
  <1>8. ASSUME NEW h \in Hubs, Connect(h) PROVE OneCall'
    <2>1. /\ UNCHANGED <<codes, overlap, pc, rem, add>>
          /\ (overlap /\ \E c \in Callers : Busy(c)) => calm' = calm
      BY <1>8 DEF Connect, HubFrame, callerVars
    <2> QED
      BY <2>1 DEF OneCall, Busy
  <1>9. ASSUME NEW h \in Hubs,
               \/ Top(h) \/ GetKey(h) \/ ConnectFails(h) \/ SendDone(h) \/ Recv(h) \/ Diff(h)
               \/ KeyFails(h) \/ CloseUnused(h) \/ Backoff(h) \/ SendAdd(h) \/ SendDel(h)
               \/ RunScheduled(h)
        PROVE  OneCall'
    BY <1>2, <1>9 DEF Top, GetKey, ConnectFails, SendDone, Recv, Diff, KeyFails, CloseUnused,
                      Backoff, EndSession, SendAdd, SendDel, RunScheduled, HubFrame, sharedVars,
                      callerVars, history, Busy
  <1>10. ASSUME NEW n \in Conns, Drop(n) PROVE OneCall'
    BY <1>2, <1>10 DEF Drop, HubFrame, sharedVars, callerVars, history, Busy
  <1>11. CASE UNCHANGED vars
    BY <1>2, <1>11 DEF vars, sharedVars, callerVars, history, Busy
  <1> QED
    BY <1>4, <1>5, <1>6, <1>7, <1>8, <1>9, <1>10, <1>11 DEF Next

LEMMA PostedStep ==
    ASSUME HubInv, Posted, [Next]_vars
    PROVE  Posted'
  <1>1. /\ pc \in [Callers -> {"idle", "unsub", "unsubPost", "sub", "subPost", "ensure", "start"}]
        /\ rem \in [Callers -> SUBSET Codes] /\ add \in [Callers -> SUBSET Codes]
        /\ post \in [Callers -> SUBSET Regs]
    BY DEF HubInv, TypeOK
  <1>2. CASE \A c \in Callers :
                pc'[c] \in {"unsubPost", "subPost"} =>
                  pc'[c] = pc[c] /\ rem'[c] = rem[c] /\ add'[c] = add[c] /\ post'[c] \subseteq post[c]
    BY <1>2 DEF Posted
  <1>3. ASSUME NEW c \in Callers,
               \/ \E x \in Codes : AddCodes(c, x)
               \/ \E req \in (SUBSET Codes) \ {{}} : RemoveCodes(c, req)
               \/ \E s \in SUBSET Codes : SetCodes(c, s)
        PROVE  Posted'
    BY <1>1, <1>2, <1>3 DEF AddCodes, RemoveCodes, SetCodes, BeginCall
  <1>4. ASSUME NEW c \in Callers, LiveBegin(c) PROVE Posted'
    <2> DEFINE diff == IF pc[c] = "unsub" THEN rem[c] ELSE add[c]
    <2>1. \A r \in diff \X TrIdx : r[1] \in diff
      OBVIOUS
    <2> QED
      BY <1>1, <1>4, <2>1, Begins DEF Posted
  <1>5. ASSUME NEW c \in Callers, LivePost(c) PROVE Posted'
    BY <1>2, <1>5, Posts
  <1>6. ASSUME NEW c \in Callers, Ensure(c) \/ StartThread(c) PROVE Posted'
    BY <1>1, <1>2, <1>6 DEF Ensure, StartThread, Return
  <1>7. CASE UNCHANGED <<pc, rem, add, post>>
    BY <1>2, <1>7
  <1>8. ASSUME NEW h \in Hubs,
               \/ Top(h) \/ GetKey(h) \/ Connect(h) \/ ConnectFails(h) \/ SendDone(h) \/ Recv(h)
               \/ Diff(h) \/ KeyFails(h) \/ CloseUnused(h) \/ Backoff(h) \/ SendAdd(h)
               \/ SendDel(h) \/ RunScheduled(h)
        PROVE  Posted'
    BY <1>7, <1>8 DEF Top, GetKey, Connect, ConnectFails, SendDone, Recv, Diff, KeyFails,
                      CloseUnused, Backoff, SendAdd, SendDel, RunScheduled, HubFrame, callerVars
  <1>9. ASSUME NEW n \in Conns, Drop(n) PROVE Posted'
    BY <1>7, <1>9 DEF Drop, HubFrame, callerVars
  <1>10. CASE UNCHANGED vars
    BY <1>7, <1>10 DEF vars, callerVars
  <1> QED
    BY <1>3, <1>4, <1>5, <1>6, <1>8, <1>9, <1>10 DEF Next

LEMMA LoneThreadStep ==
    ASSUME HubInv, Locals, LoneThread, [Next]_vars
    PROVE  LoneThread'
  <1>1. /\ hpc \in [Hubs -> {"off", "top", "key", "connect", "snapshot", "send", "diff", "recv",
                             "backoff"}]
        /\ conn \in [Hubs -> Conns \cup {None}] /\ alive \in SUBSET Hubs
        /\ pc \in [Callers -> {"idle", "unsub", "unsubPost", "sub", "subPost", "ensure", "start"}]
        /\ cloop \in [Callers -> Hubs \cup {None}]
        /\ sched \in [Hubs -> Seq(LiveMsg)] /\ None \notin Hubs
    BY NoneAssumption DEF HubInv, TypeOK
  <1>2. CASE /\ UNCHANGED <<ws, loop, alive, conn, sched>>
             /\ \/ UNCHANGED key
                \/ key'
                \/ \A h \in Hubs : alive = {h} => (conn[h] = None /\ hpc'[h] # "connect")
             /\ \A h \in Hubs : hpc'[h] = "connect" => hpc[h] = "connect" \/ key'
             /\ \A c \in Callers : pc'[c] \in {"unsubPost", "subPost"} =>
                  (cloop'[c] = loop /\ loop # None) \/ (pc'[c] = pc[c] /\ cloop'[c] = cloop[c])
    <2>1. \A c \in Callers : pc'[c] \in {"unsubPost", "subPost"} => cloop'[c] \in alive'
      BY <1>2 DEF LoneThread
    <2>2. \A h \in Hubs : alive' = {h} =>
             ws' = conn'[h] /\ (ws' # None \/ hpc'[h] = "connect" => key')
      BY <1>2 DEF LoneThread
    <2> QED
      BY <1>2, <2>1, <2>2 DEF LoneThread
  <1>3. ASSUME NEW c \in Callers,
               \/ \E x \in Codes : AddCodes(c, x)
               \/ \E req \in (SUBSET Codes) \ {{}} : RemoveCodes(c, req)
               \/ \E s \in SUBSET Codes : SetCodes(c, s)
        PROVE  LoneThread'
    <2>1. /\ UNCHANGED <<ws, loop, key, alive, conn, sched, hpc, cloop>>
          /\ \A d \in Callers : pc'[d] = pc[d] \/ pc'[d] \notin {"unsubPost", "subPost"}
      BY <1>1, <1>3 DEF AddCodes, RemoveCodes, SetCodes, BeginCall, hubVars, netVars
    <2> QED
      BY <1>2, <2>1
  <1>4. ASSUME NEW c \in Callers, LiveBegin(c) PROVE LoneThread'
    <2>1. UNCHANGED <<ws, loop, key, alive, conn, sched, hpc>>
      BY <1>4, Begins DEF sharedVars, hubVars, netVars
    <2>2. \A d \in Callers : d # c => pc'[d] = pc[d] /\ cloop'[d] = cloop[d]
      BY <1>4, Begins
    <2>3. pc'[c] \in {"unsubPost", "subPost"} => cloop'[c] = loop /\ loop # None
      BY <1>4, Begins
    <2>4. \A d \in Callers : pc'[d] \in {"unsubPost", "subPost"} =>
             (cloop'[d] = loop /\ loop # None) \/ (pc'[d] = pc[d] /\ cloop'[d] = cloop[d])
      <3>1. TAKE d \in Callers
      <3>2. CASE d = c
        BY <2>3, <3>2
      <3>3. CASE d # c
        BY <2>2, <3>3
      <3> QED
        BY <3>2, <3>3
    <2> QED
      BY <1>2, <2>1, <2>4
  <1>5. ASSUME NEW c \in Callers, LivePost(c) PROVE LoneThread'
    <2>1. /\ UNCHANGED <<ws, loop, key, alive, conn, hpc, cloop>>
          /\ pc[c] \in {"unsubPost", "subPost"}
          /\ \A g \in Hubs : g # cloop[c] => sched'[g] = sched[g]
          /\ \A d \in Callers : pc'[d] \in {"unsubPost", "subPost"} =>
                                  pc[d] \in {"unsubPost", "subPost"}
      BY <1>5, Posts DEF sharedVars, hubVars
    <2> QED
      BY <2>1 DEF LoneThread
  <1>6. ASSUME NEW c \in Callers, Ensure(c) PROVE LoneThread'
    <2>1. /\ UNCHANGED <<ws, loop, key, alive, conn, sched, hpc>>
          /\ \A d \in Callers : \/ pc'[d] = pc[d] /\ cloop'[d] = cloop[d]
                                \/ pc'[d] \notin {"unsubPost", "subPost"}
      BY <1>1, <1>6 DEF Ensure, Return, hubVars, netVars
    <2> QED
      BY <1>2, <2>1
  <1>7. ASSUME NEW c \in Callers, StartThread(c) PROVE LoneThread'
    <2>1. cloop[c] \in Hubs \ alive
      BY <1>7 DEF StartThread, HubInv, CallersHold
    <2>2. /\ alive' = alive \cup {cloop[c]} /\ loop' = cloop[c] /\ UNCHANGED <<ws, key, conn, sched>>
          /\ \A d \in Callers : pc'[d] \in {"unsubPost", "subPost"} =>
                                  pc'[d] = pc[d] /\ cloop'[d] = cloop[d]
          /\ hpc'[cloop[c]] = "top"
      BY <1>1, <1>7, <2>1 DEF StartThread, Return, netVars
    <2> QED
      BY <2>1, <2>2 DEF LoneThread
  <1>8. ASSUME NEW h \in Hubs, HubStep(h) \/ KeyFails(h) \/ ConnectFails(h)
        PROVE  LoneThread'
    <2>1. h \in alive
      BY <1>8 DEF HubStep, Top, GetKey, Connect, SendAdd, SendDel, SendDone, CloseUnused, Recv,
                  Diff, Backoff, KeyFails, ConnectFails, HubInv, RunningStarted
    <2>2. CASE Top(h)
      <3>1. conn[h] = None
        BY <2>2 DEF Top, Locals, LocalsOf
      <3>2. hpc' = hpc \/ hpc' = [hpc EXCEPT ![h] = "key"]
        BY <2>2 DEF Top
      <3>3. hpc[h] = "top" /\ UNCHANGED <<ws, loop, alive, conn, sched, pc, cloop>>
        BY <2>2 DEF Top, HubFrame, callerVars, netVars
      <3> QED
        BY <1>1, <1>2, <2>1, <3>1, <3>2, <3>3
    <2>3. CASE GetKey(h)
      <3>1. key' /\ UNCHANGED <<ws, loop, alive, conn, sched, pc, cloop>>
        BY <2>3 DEF GetKey, HubFrame, callerVars, netVars
      <3> QED
        BY <1>2, <3>1
    <2>4. CASE ConnectFails(h) \/ SendDone(h) \/ Recv(h) \/ Diff(h) \/ SendAdd(h) \/ SendDel(h)
      <3>1. UNCHANGED <<ws, loop, key, alive, conn, sched, pc, cloop>>
        BY <2>4 DEF ConnectFails, SendDone, Recv, Diff, SendAdd, SendDel, HubFrame,
                    callerVars, netVars, sharedVars
      <3>2. \A g \in Hubs : hpc'[g] = "connect" => hpc[g] = "connect"
        BY <1>1, <2>4 DEF ConnectFails, SendDone, Recv, Diff, SendAdd, SendDel
      <3> QED
        BY <1>2, <3>1, <3>2
    <2>5. CASE Connect(h)
      <3>1. /\ UNCHANGED <<loop, key, alive, sched, pc, cloop>>
            /\ ws' = nextConn' /\ conn'[h] = nextConn'
            /\ \A g \in Hubs : g # h => conn'[g] = conn[g]
        BY <1>1, <2>5 DEF Connect, HubFrame, callerVars
      <3>2. alive = {h} => key
        BY <2>5 DEF Connect, LoneThread
      <3> QED
        BY <1>1, <2>1, <3>1, <3>2 DEF LoneThread
    <2>6. CASE KeyFails(h) \/ CloseUnused(h) \/ Backoff(h)
      <3>1. /\ UNCHANGED <<loop, key, alive, sched, pc, cloop>>
            /\ ws' = None /\ conn'[h] = None /\ hpc'[h] = "top"
            /\ \A g \in Hubs : g # h => conn'[g] = conn[g]
        BY <1>1, <2>6 DEF KeyFails, CloseUnused, Backoff, EndSession, HubFrame, callerVars, netVars
      <3> QED
        BY <1>1, <2>1, <3>1 DEF LoneThread
    <2> QED
      BY <1>8, <2>2, <2>3, <2>4, <2>5, <2>6 DEF HubStep
  <1>9. ASSUME NEW h \in Hubs, RunScheduled(h) PROVE LoneThread'
    <2>1. /\ sched[h] # <<>> /\ \A g \in Hubs : g # h => sched'[g] = sched[g]
          /\ UNCHANGED <<ws, loop, key, alive, conn, hpc, pc, cloop>>
      BY <1>9, Runs DEF sharedVars, hubVars, callerVars
    <2> QED
      BY <2>1 DEF LoneThread
  <1>10. ASSUME NEW n \in Conns, Drop(n) PROVE LoneThread'
    BY <1>2, <1>10 DEF Drop, HubFrame, sharedVars, callerVars, hubVars
  <1>11. CASE UNCHANGED vars
    BY <1>2, <1>11 DEF vars, sharedVars, callerVars, hubVars, netVars
  <1> QED
    BY <1>3, <1>4, <1>5, <1>6, <1>7, <1>8, <1>9, <1>10, <1>11 DEF Next, HubStep

-----------------------------------------------------------------------------
(* The steps keep a calm session faithful.                                 *)

LEMMA SteadyKept ==
    ASSUME NEW h \in Hubs, NEW r \in Regs, Steady(h, r),
           UNCHANGED <<codes, conn, sched, upstream, subscribed, toAdd, toDel>>
    PROVE  Steady(h, r)'
  BY DEF Steady, LastWord, Said, Says, Denies, Wants, HasSent

LEMMA FaithfulKept ==
    ASSUME Faithful, UNCHANGED <<alive, calm, codes, conn, sched, subscribed, toAdd, toDel>>,
           open' \subseteq open,
           \A h \in Hubs : conn[h] \in open' => upstream'[conn[h]] = upstream[conn[h]],
           \A h \in Hubs, r \in Regs :
               alive = {h} /\ conn[h] \in open /\ Posting(conn[h], r) => Posting(conn[h], r)'
    PROVE  Faithful'
  <1> SUFFICES ASSUME NEW h \in Hubs, alive = {h}, conn[h] \in open' \cap calm, NEW r \in Regs,
                      ~Posting(conn[h], r)'
               PROVE  Steady(h, r)'
    BY DEF Faithful
  <1>1. Steady(h, r)
    BY DEF Faithful
  <1>2. upstream'[conn[h]] = upstream[conn[h]]
    OBVIOUS
  <1> QED
    BY <1>1, <1>2 DEF Steady, LastWord, Said, Says, Denies, Wants, HasSent

LEMMA FaithfulCall ==
    ASSUME HubInv, OneCall, Faithful, OneCall', NEW c \in Callers,
           \/ \E x \in Codes : AddCodes(c, x)
           \/ \E req \in (SUBSET Codes) \ {{}} : RemoveCodes(c, req)
           \/ \E s \in SUBSET Codes : SetCodes(c, s)
    PROVE  Faithful'
  <1>1. /\ pc \in [Callers -> {"idle", "unsub", "unsubPost", "sub", "subPost", "ensure", "start"}]
        /\ rem \in [Callers -> SUBSET Codes] /\ add \in [Callers -> SUBSET Codes]
        /\ codes \in SUBSET Codes
    BY DEF HubInv, TypeOK
  <1>2. BeginCall(c)
    BY DEF AddCodes, RemoveCodes, SetCodes
  <1>3. \A x : (x \in codes /\ x \notin codes') => x \in rem'[c] /\ pc'[c] = "unsub"
    <2>1. CASE \E x \in Codes : AddCodes(c, x)
      BY <1>1, <2>1 DEF AddCodes, Add
    <2>2. CASE \E req \in (SUBSET Codes) \ {{}} : RemoveCodes(c, req)
      BY <1>1, <2>2 DEF RemoveCodes, Remove
    <2>3. CASE \E s \in SUBSET Codes : SetCodes(c, s)
      BY <1>1, <2>3 DEF SetCodes
    <2> QED
      BY <2>1, <2>2, <2>3
  <1>4. \A x : (x \notin codes /\ x \in codes') => x \in add'[c] /\ pc'[c] \in {"unsub", "sub"}
    <2>1. CASE \E x \in Codes : AddCodes(c, x)
      BY <1>1, <2>1 DEF AddCodes
    <2>2. CASE \E req \in (SUBSET Codes) \ {{}} : RemoveCodes(c, req)
      BY <1>1, <2>2 DEF RemoveCodes, Remove
    <2>3. CASE \E s \in SUBSET Codes : SetCodes(c, s)
      BY <1>1, <2>3 DEF SetCodes
    <2> QED
      BY <2>1, <2>2, <2>3
  <1> SUFFICES ASSUME NEW h \in Hubs, alive' = {h}, conn'[h] \in open' \cap calm', NEW r \in Regs,
                      ~Posting(conn[h], r)'
               PROVE  Steady(h, r)'
    BY DEF Faithful
  <1>5. /\ UNCHANGED <<alive, open, conn, sched, upstream, subscribed, toAdd, toDel>>
        /\ calm' = calm /\ \A d \in Callers : pc[d] = "idle"
    BY <1>2 DEF BeginCall, hubVars, netVars, Busy
  <1>6. Steady(h, r)
    BY <1>5 DEF Faithful, Posting
  <1>7. r[1] \in codes' <=> r[1] \in codes
    BY <1>3, <1>4 DEF Posting
  <1> QED
    BY <1>5, <1>6, <1>7 DEF Steady, LastWord, Said, Says, Denies, Wants, HasSent

LEMMA FaithfulLiveBegin ==
    ASSUME HubInv, LoneThread, Faithful, NEW c \in Callers, LiveBegin(c)
    PROVE  Faithful'
  <1>1. UNCHANGED <<codes, sharedVars, hubVars, netVars, rem, add, history>>
    BY Begins DEF sharedVars
  <1>2. ASSUME NEW h \in Hubs, NEW r \in Regs, alive = {h}, conn[h] \in open, Posting(conn[h], r)
        PROVE  Posting(conn[h], r)'
    <2>1. PICK d \in Callers :
              \/ pc[d] = "unsub" /\ r[1] \in rem[d]
              \/ pc[d] \in {"unsub", "unsubPost", "sub"} /\ r[1] \in add[d]
              \/ pc[d] \in {"unsubPost", "subPost"} /\ cws[d] = conn[h] /\ r \in post[d]
      BY <1>2 DEF Posting
    <2>2. CASE d # c
      BY <1>1, <2>1, <2>2, Begins DEF Posting, hubVars
    <2>3. CASE d = c
      <3> DEFINE diff == IF pc[c] = "unsub" THEN rem[c] ELSE add[c]
      <3>1. ws = conn[h] /\ ws # None /\ loop # None /\ key
        BY <1>2, NoneAssumption DEF LoneThread, HubInv, TypeOK, Conns
      <3>2. r[1] \in diff => r \in diff \X TrIdx
        BY DEF Regs
      <3>3. pc[c] \in {"unsub", "sub"}
        BY Begins
      <3>4. CASE r[1] \in diff
        <4>1. cws'[c] = conn[h] /\ r \in post'[c] /\ pc'[c] \in {"unsubPost", "subPost"}
          BY <3>1, <3>2, <3>4, Begins
        <4> QED
          BY <1>1, <4>1 DEF Posting, hubVars
      <3>5. CASE r[1] \notin diff
        <4>1. pc[c] = "unsub" /\ r[1] \in add[c]
          BY <2>1, <2>3, <3>3, <3>5
        <4>2. pc'[c] \in {"unsubPost", "sub"}
          BY <4>1, Begins
        <4> QED
          BY <1>1, <4>1, <4>2 DEF Posting
      <3> QED
        BY <3>4, <3>5
    <2> QED
      BY <2>2, <2>3
  <1> QED
    BY <1>1, <1>2, FaithfulKept DEF sharedVars, hubVars, netVars, history

LEMMA FaithfulPost ==
    ASSUME HubInv, OneCall, Posted, LoneThread, Faithful, NEW c \in Callers, LivePost(c)
    PROVE  Faithful'
  <1>1. PICK q \in post[c] :
              LET m == [conn |-> cws[c], type |-> IF pc[c] = "unsubPost" THEN "unsub" ELSE "sub",
                        reg |-> q]
              IN  /\ q \in Regs /\ m \in LiveMsg
                  /\ sched'[cloop[c]] = Append(sched[cloop[c]], m)
                  /\ post'[c] = post[c] \ {q}
    BY Posts
  <1>2. /\ pc[c] \in {"unsubPost", "subPost"}
        /\ \A d \in Callers : d # c => post'[d] = post[d] /\ pc'[d] = pc[d]
        /\ pc'[c] = IF post'[c] # {} THEN pc[c]
                    ELSE IF pc[c] = "unsubPost" THEN "sub" ELSE "ensure"
        /\ UNCHANGED <<sharedVars, hubVars, rem, add, cws, cloop, open, upstream, nextConn, history>>
    BY Posts
  <1> DEFINE m == [conn |-> cws[c], type |-> IF pc[c] = "unsubPost" THEN "unsub" ELSE "sub",
                   reg |-> q]
  <1>3. m \in LiveMsg /\ m.conn = cws[c] /\ m.reg = q
        /\ m.type = IF pc[c] = "unsubPost" THEN "unsub" ELSE "sub"
    BY <1>1
  <1>4. sched'[cloop[c]] = Append(sched[cloop[c]], m)
    BY <1>1
  <1> HIDE DEF m
  <1> SUFFICES ASSUME NEW h \in Hubs, alive = {h}, conn[h] \in open \cap calm, NEW r \in Regs,
                      ~Posting(conn[h], r)'
               PROVE  Steady(h, r)'
    BY <1>2 DEF Faithful, sharedVars, hubVars, history
  <1>5. /\ cloop[c] = h /\ sched[h] \in Seq(LiveMsg)
        /\ UNCHANGED <<codes, conn, upstream, subscribed, toAdd, toDel, cws, rem, add>>
    BY <1>2 DEF LoneThread, HubInv, TypeOK, sharedVars, hubVars
  <1> DEFINE s == sched[h]
  <1>6. /\ DOMAIN sched'[h] = DOMAIN s \cup {Len(s) + 1}
        /\ \A i \in DOMAIN s : i \in Nat /\ i < Len(s) + 1 /\ sched'[h][i] = s[i]
        /\ sched'[h][Len(s) + 1] = m
    BY <1>3, <1>4, <1>5, Appended
  <1>7. CASE cws[c] = conn[h] /\ q = r
    <2>1. m.type = Wants(r)
      <3>1. /\ Busy(c) => (rem[c] \cap codes = {} /\ add[c] \subseteq codes)
        BY DEF OneCall
      <3>2. /\ pc[c] = "unsubPost" => r[1] \in rem[c]
            /\ pc[c] = "subPost" => r[1] \in add[c]
        BY <1>7 DEF Posted
      <3> QED
        BY <1>2, <1>3, <3>1, <3>2 DEF Busy, Wants
    <2>2. Says(sched'[h][Len(s) + 1], conn[h], r)
      BY <1>3, <1>6, <1>7, <2>1 DEF Says
    <2>3. \A n : \A w \in LiveMsg : Says(w, n, r)' <=> Says(w, n, r)
      BY <1>5 DEF Says, Wants
    <2>4. Said(sched[h], conn[h], r)'
      BY <1>5, <1>6, <2>2 DEF Said, Says, Wants
    <2>5. LastWord(sched[h], conn[h], r)'
      <3>1. ~Denies(sched'[h][Len(s) + 1], conn[h], r)
        BY <2>2 DEF Says, Denies
      <3>2. \A i \in DOMAIN sched'[h] : i # Len(s) + 1 => Len(s) + 1 > i
        BY <1>6
      <3> QED
        BY <1>5, <1>6, <2>2, <3>1, <3>2 DEF LastWord, Says, Denies, Wants
    <2> QED
      BY <2>4, <2>5 DEF Steady
  <1>8. CASE cws[c] # conn[h] \/ q # r
    <2>1. ~Posting(conn[h], r)
      <3> SUFFICES ASSUME Posting(conn[h], r) PROVE FALSE
        OBVIOUS
      <3>1. PICK d \in Callers :
              \/ pc[d] = "unsub" /\ r[1] \in rem[d]
              \/ pc[d] \in {"unsub", "unsubPost", "sub"} /\ r[1] \in add[d]
              \/ pc[d] \in {"unsubPost", "subPost"} /\ cws[d] = conn[h] /\ r \in post[d]
        BY DEF Posting
      <3>2. CASE d # c
        BY <1>2, <1>5, <3>1, <3>2 DEF Posting
      <3>3. CASE d = c
        <4>1. CASE r[1] \in add[c] /\ pc[c] = "unsubPost"
          BY <1>2, <1>5, <4>1 DEF Posting
        <4>2. CASE cws[c] = conn[h] /\ r \in post[c]
          <5>1. r \in post'[c] /\ pc'[c] = pc[c]
            BY <1>1, <1>2, <1>8, <4>2
          <5> QED
            BY <1>2, <1>5, <4>2, <5>1 DEF Posting
        <4> QED
          BY <1>2, <3>1, <3>3, <4>1, <4>2
      <3> QED
        BY <3>2, <3>3
    <2>2. Steady(h, r)
      BY <2>1 DEF Faithful
    <2>3. ~Says(m, conn[h], r) /\ ~Denies(m, conn[h], r)
      BY <1>3, <1>8 DEF Says, Denies
    <2>4. LastWord(sched[h], conn[h], r)'
      <3> SUFFICES ASSUME NEW i \in DOMAIN sched'[h], Denies(sched'[h][i], conn[h], r)
                   PROVE  \E j \in DOMAIN sched'[h] : j > i /\ Says(sched'[h][j], conn[h], r)
        BY <1>5 DEF LastWord, Says, Denies, Wants
      <3>1. i \in DOMAIN s /\ Denies(s[i], conn[h], r)
        BY <1>6, <2>3
      <3>2. PICK j \in DOMAIN s : j > i /\ Says(s[j], conn[h], r)
        BY <2>2, <3>1 DEF Steady, LastWord
      <3> QED
        BY <1>6, <3>2
    <2>5. Said(sched[h], conn[h], r) => Said(sched[h], conn[h], r)'
      BY <1>5, <1>6 DEF Said, Says, Wants
    <2>6. HasSent(h, r)' <=> HasSent(h, r)
      BY <1>5 DEF HasSent
    <2> QED
      BY <1>5, <2>2, <2>4, <2>5, <2>6 DEF Steady
  <1> QED
    BY <1>7, <1>8

LEMMA FaithfulReturns ==
    ASSUME HubInv, LoneThread, Faithful, NEW c \in Callers, Ensure(c) \/ StartThread(c)
    PROVE  Faithful'
  <1>1. /\ pc \in [Callers -> {"idle", "unsub", "unsubPost", "sub", "subPost", "ensure", "start"}]
        /\ rem \in [Callers -> SUBSET Codes] /\ add \in [Callers -> SUBSET Codes]
        /\ cws \in [Callers -> Conns \cup {None}]
    BY DEF HubInv, TypeOK
  <1>2. /\ pc[c] \in {"ensure", "start"}
        /\ \A d \in Callers : d # c => /\ pc'[d] = pc[d] /\ rem'[d] = rem[d] /\ add'[d] = add[d]
                                       /\ cws'[d] = cws[d]
        /\ UNCHANGED <<post, codes, conn, sched, subscribed, toAdd, toDel, calm, open, upstream>>
    BY <1>1 DEF Ensure, StartThread, Return, hubVars, netVars, history
  <1>3. \A n, r : Posting(n, r) => Posting(n, r)'
    BY <1>2 DEF Posting
  <1>4. CASE Ensure(c)
    <2>1. UNCHANGED alive
      BY <1>4 DEF Ensure
    <2> QED
      BY <1>2, <1>3, <2>1, FaithfulKept
  <1>5. CASE StartThread(c)
    <2>1. alive' = alive \cup {cloop[c]} /\ cloop[c] \in Hubs \ alive
      BY <1>5 DEF StartThread, HubInv, CallersHold
    <2>2. \A h \in Hubs : alive' = {h} => conn'[h] \notin open'
      BY <1>2, <2>1, NoneAssumption DEF LoneThread, HubInv, TypeOK, Conns
    <2> QED
      BY <2>2 DEF Faithful
  <1> QED
    BY <1>4, <1>5

LEMMA SteadySend ==
    ASSUME HubInv, Locals, NEW h \in Hubs, conn[h] \in open, SendAdd(h) \/ SendDel(h),
           NEW r \in Regs, Steady(h, r)
    PROVE  Steady(h, r)'
  <1>1. /\ subscribed \in [Hubs -> SUBSET Codes] /\ upstream \in [Conns -> SUBSET Regs]
        /\ toAdd \in [Hubs -> SUBSET Regs] /\ toDel \in [Hubs -> SUBSET Regs]
        /\ conn[h] \in Conns
    BY DEF HubInv, TypeOK
  <1>2. UNCHANGED <<codes, conn, sched>>
    BY DEF SendAdd, SendDel, sharedVars
  <1>3. Upward(toAdd[h]) /\ Upward(toDel[h]) /\ toAdd[h] \in SUBSET Regs /\ toDel[h] \in SUBSET Regs
    BY <1>1 DEF Locals, LocalsOf
  <1>4. LastWord(sched[h], conn[h], r)'
    BY <1>2 DEF Steady, LastWord, Says, Denies, Wants
  <1>5. Said(sched[h], conn[h], r) => Said(sched[h], conn[h], r)'
    BY <1>2 DEF Said, Says, Wants
  <1>6. CASE SendAdd(h)
    <2>1. PICK q \in NextReg(toAdd[h]) :
             /\ upstream' = [upstream EXCEPT ![conn[h]] = @ \cup {q}]
             /\ subscribed' = [subscribed EXCEPT ![h] = IF q[2] = NumTr THEN @ \cup {q[1]} ELSE @]
             /\ toAdd' = [toAdd EXCEPT ![h] = @ \ {q}]
      BY <1>6 DEF SendAdd
    <2>2. /\ q \in Regs /\ q[2] \in TrIdx /\ q = <<q[1], q[2]>> /\ q \in toAdd[h]
          /\ q[2] = NumTr => \A p \in toAdd[h] : p[1] = q[1] => p = q
          /\ q[2] # NumTr => <<q[1], NumTr>> \in toAdd[h] \ {q}
      BY <1>3, Sending DEF NextReg
    <2>3. /\ upstream'[conn[h]] = upstream[conn[h]] \cup {q} /\ toAdd'[h] = toAdd[h] \ {q}
          /\ subscribed'[h] = IF q[2] = NumTr THEN subscribed[h] \cup {q[1]} ELSE subscribed[h]
          /\ toDel' = toDel
      BY <1>1, <1>6, <2>1 DEF SendAdd
    <2>4. NumTr \in TrIdx
      BY CapacityAssumption DEF TrIdx
    <2>5. q[1] \notin subscribed[h] /\ \A i \in TrIdx : <<q[1], i>> \notin toDel[h]
      BY <2>2 DEF Locals, LocalsOf
    <2>6. \/ <<q[1], NumTr>> \in toAdd'[h]
          \/ q[1] \in subscribed'[h] /\ \A i \in TrIdx : <<q[1], i>> \notin toDel'[h]
      BY <2>2, <2>3, <2>5
    <2>7. CASE r = q
      <3>1. HasSent(h, r)'
        BY <2>3, <2>4, <2>6, <2>7 DEF HasSent
      <3>2. r \in upstream'[conn[h]]
        BY <2>3, <2>7
      <3> QED
        BY <1>2, <1>4, <3>1, <3>2 DEF Steady
    <2>8. CASE r # q
      <3>1. HasSent(h, r)' <=> HasSent(h, r)
        <4>1. CASE r[1] = q[1]
          <5>1. HasSent(h, r) <=> r \notin toAdd[h]
            BY <2>2, <4>1 DEF HasSent
          <5>2. HasSent(h, r)' <=> r \notin toAdd'[h]
            BY <2>4, <2>6, <4>1 DEF HasSent
          <5> QED
            BY <2>3, <2>8, <5>1, <5>2
        <4>2. CASE r[1] # q[1]
          <5>1. \A i \in TrIdx : <<r[1], i>> \in toAdd'[h] <=> <<r[1], i>> \in toAdd[h]
            BY <2>2, <2>3, <4>2
          <5>2. r[1] \in subscribed'[h] <=> r[1] \in subscribed[h]
            BY <2>3, <4>2
          <5> QED
            BY <2>3, <2>8, <5>1, <5>2 DEF HasSent
        <4> QED
          BY <4>1, <4>2
      <3>2. r \in upstream'[conn[h]] <=> r \in upstream[conn[h]]
        BY <2>3, <2>8
      <3> QED
        BY <1>2, <1>4, <1>5, <3>1, <3>2 DEF Steady
    <2> QED
      BY <2>7, <2>8
  <1>7. CASE SendDel(h)
    <2>1. PICK q \in NextReg(toDel[h]) :
             /\ upstream' = [upstream EXCEPT ![conn[h]] = @ \ {q}]
             /\ subscribed' = [subscribed EXCEPT ![h] = IF q[2] = NumTr THEN @ \ {q[1]} ELSE @]
             /\ toDel' = [toDel EXCEPT ![h] = @ \ {q}]
      BY <1>7 DEF SendDel
    <2>2. /\ q \in Regs /\ q[2] \in TrIdx /\ q = <<q[1], q[2]>> /\ q \in toDel[h]
          /\ q[2] # NumTr => <<q[1], NumTr>> \in toDel[h] \ {q}
      BY <1>3, Sending DEF NextReg
    <2>3. /\ upstream'[conn[h]] = upstream[conn[h]] \ {q} /\ toDel'[h] = toDel[h] \ {q}
          /\ subscribed'[h] = IF q[2] = NumTr THEN subscribed[h] \ {q[1]} ELSE subscribed[h]
          /\ toAdd[h] = {} /\ toAdd' = toAdd
      BY <1>1, <1>7, <2>1 DEF SendDel
    <2>4. NumTr \in TrIdx
      BY CapacityAssumption DEF TrIdx
    <2>5. <<q[1], NumTr>> \in toDel'[h] \/ q[1] \notin subscribed'[h]
      BY <2>2, <2>3
    <2>6. CASE r[1] = q[1]
      <3>1. HasSent(h, r) <=> r \in toDel[h]
        BY <2>2, <2>3, <2>6 DEF HasSent
      <3>2. HasSent(h, r)' <=> r \in toDel'[h]
        BY <2>3, <2>4, <2>5, <2>6 DEF HasSent
      <3>3. CASE r = q
        <4>1. ~HasSent(h, r)' /\ r \notin upstream'[conn[h]]
          BY <2>3, <3>2, <3>3
        <4> QED
          BY <1>2, <1>4, <4>1 DEF Steady
      <3>4. CASE r # q
        BY <1>2, <1>4, <1>5, <2>3, <3>1, <3>2, <3>4 DEF Steady
      <3> QED
        BY <3>3, <3>4
    <2>7. CASE r[1] # q[1]
      <3>1. \A i \in TrIdx : <<r[1], i>> \in toDel'[h] <=> <<r[1], i>> \in toDel[h]
        BY <2>2, <2>3, <2>7
      <3>2. r[1] \in subscribed'[h] <=> r[1] \in subscribed[h]
        BY <2>3, <2>7
      <3>3. r # q
        BY <2>7
      <3>4. HasSent(h, r)' <=> HasSent(h, r)
        BY <2>3, <3>1, <3>2, <3>3 DEF HasSent
      <3> QED
        BY <1>2, <1>4, <1>5, <2>3, <3>3, <3>4 DEF Steady
    <2> QED
      BY <2>6, <2>7
  <1> QED
    BY <1>6, <1>7

LEMMA SteadyDiff ==
    ASSUME HubInv, Locals, NEW h \in Hubs, Diff(h), NEW r \in Regs, Steady(h, r)
    PROVE  Steady(h, r)'
  <1>1. /\ UNCHANGED <<codes, conn, sched, upstream, subscribed>>
        /\ toAdd[h] = {} /\ toDel[h] = {}
        /\ toAdd'[h] = (codes \ subscribed[h]) \X TrIdx
        /\ toDel'[h] = (subscribed[h] \ codes) \X TrIdx
    BY DEF Diff, Locals, LocalsOf, HubInv, TypeOK, sharedVars, netVars
  <1>2. /\ r[2] \in TrIdx /\ r = <<r[1], r[2]>>
    BY DEF Regs
  <1>3. HasSent(h, r) <=> r[1] \in subscribed[h]
    BY <1>1 DEF HasSent
  <1>4. HasSent(h, r)' <=> r[1] \in subscribed[h]
    BY <1>1, <1>2 DEF HasSent
  <1> QED
    BY <1>1, <1>3, <1>4 DEF Steady, LastWord, Said, Says, Denies, Wants

\* A connection starts with nothing registered and nothing sent.
LEMMA SteadyConnect ==
    ASSUME HubInv, Locals, Fresh, NEW h \in Hubs, Connect(h), NEW r \in Regs
    PROVE  Steady(h, r)'
  <1>1. /\ UNCHANGED <<codes, sched, upstream, subscribed, toAdd, toDel>>
        /\ conn'[h] = nextConn' /\ nextConn' \in Conns /\ nextConn' > nextConn
        /\ hpc[h] = "connect"
    BY BoundAssumption DEF Connect, HubInv, TypeOK, Conns
  <1>2. upstream[nextConn'] = {} /\ \A i \in DOMAIN sched[h] : sched[h][i].conn # nextConn'
    BY <1>1 DEF Fresh
  <1>3. r[2] \in TrIdx /\ r = <<r[1], r[2]>>
    BY DEF Regs
  <1>4. ~HasSent(h, r)'
    <2>1. \A p \in toAdd[h] : \A j \in TrIdx : <<p[1], j>> \in toAdd[h]
      BY <1>1 DEF Locals, LocalsOf
    <2>2. \A i \in TrIdx : <<r[1], i>> \in toAdd[h] => r \in toAdd[h]
      <3> SUFFICES ASSUME NEW i \in TrIdx, <<r[1], i>> \in toAdd[h] PROVE r \in toAdd[h]
        OBVIOUS
      <3>1. <<r[1], i>>[1] = r[1]
        OBVIOUS
      <3> QED
        BY <1>3, <2>1, <3>1
    <2>3. toDel[h] = {} /\ subscribed[h] = {}
      BY <1>1 DEF Locals, LocalsOf
    <2> QED
      BY <1>1, <2>2, <2>3 DEF HasSent
  <1> QED
    BY <1>1, <1>2, <1>4 DEF Steady, LastWord, Denies

LEMMA FaithfulHub ==
    ASSUME HubInv, Locals, Fresh, LoneThread, Faithful, NEW g \in Hubs,
           HubStep(g) \/ KeyFails(g) \/ ConnectFails(g)
    PROVE  Faithful'
  <1>1. g \in alive
    BY DEF HubStep, Top, GetKey, Connect, SendAdd, SendDel, SendDone, CloseUnused, Recv,
           Diff, Backoff, KeyFails, ConnectFails, HubInv, RunningStarted
  <1>2. UNCHANGED <<callerVars, alive>>
    BY DEF HubStep, Top, GetKey, Connect, SendAdd, SendDel, SendDone, CloseUnused, Recv,
           Diff, Backoff, KeyFails, ConnectFails, EndSession, HubFrame, sharedVars
  <1> SUFFICES ASSUME NEW h \in Hubs, alive = {h}, conn'[h] \in open' \cap calm', NEW r \in Regs,
                      ~Posting(conn[h], r)'
               PROVE  Steady(h, r)'
    BY <1>2 DEF Faithful
  <1>3. g = h
    BY <1>1
  <1>4. CASE Top(h) \/ GetKey(h) \/ ConnectFails(h) \/ KeyFails(h) \/ CloseUnused(h) \/ Backoff(h)
    <2>1. conn'[h] = None
      BY <1>4 DEF Top, GetKey, ConnectFails, KeyFails, CloseUnused, Backoff, EndSession, Locals,
                  LocalsOf, HubInv, TypeOK
    <2>2. conn'[h] \in Conns
      BY <1>4 DEF Top, GetKey, ConnectFails, KeyFails, CloseUnused, Backoff, netVars, HubInv, TypeOK
    <2> QED
      BY <2>1, <2>2, NoneAssumption DEF Conns
  <1>5. CASE Connect(h)
    BY <1>5, SteadyConnect
  <1>6. CASE SendAdd(h) \/ SendDel(h) \/ SendDone(h) \/ Recv(h) \/ Diff(h)
    <2>1. UNCHANGED <<conn, open, calm>>
      BY <1>6 DEF SendAdd, SendDel, SendDone, Recv, Diff, netVars, history
    <2>2. ~Posting(conn[h], r)
      BY <1>2, <2>1 DEF Posting, callerVars
    <2>3. Steady(h, r)
      BY <2>1, <2>2 DEF Faithful
    <2>4. CASE SendAdd(h) \/ SendDel(h)
      BY <2>1, <2>3, <2>4, SteadySend
    <2>5. CASE Diff(h)
      BY <2>3, <2>5, SteadyDiff
    <2>6. CASE SendDone(h) \/ Recv(h)
      <3>1. UNCHANGED <<codes, conn, sched, upstream, subscribed, toAdd, toDel>>
        BY <2>6 DEF SendDone, Recv, sharedVars, netVars
      <3> QED
        BY <2>3, <3>1, SteadyKept
    <2> QED
      BY <1>6, <2>4, <2>5, <2>6
  <1> QED
    BY <1>3, <1>4, <1>5, <1>6 DEF HubStep

LEMMA FaithfulRun ==
    ASSUME HubInv, LoneThread, Faithful, NEW g \in Hubs, RunScheduled(g)
    PROVE  Faithful'
  <1> DEFINE m == Head(sched[g])
  <1>1. /\ sched[g] # <<>> /\ sched[g] \in Seq(LiveMsg)
        /\ sched'[g] = Tail(sched[g])
        /\ m \in LiveMsg
        /\ \A n \in Conns : n # m.conn => upstream'[n] = upstream[n]
        /\ m.conn \in open => upstream'[m.conn] = IF m.type = "sub"
                                                  THEN upstream[m.conn] \cup {m.reg}
                                                  ELSE upstream[m.conn] \ {m.reg}
        /\ UNCHANGED <<sharedVars, hubVars, callerVars, open, nextConn, history>>
    BY Runs
  <1>2. g \in alive
    BY <1>1 DEF LoneThread
  <1> SUFFICES ASSUME NEW h \in Hubs, alive = {h}, conn[h] \in open \cap calm, NEW r \in Regs,
                      ~Posting(conn[h], r)'
               PROVE  Steady(h, r)'
    BY <1>1 DEF Faithful, sharedVars, hubVars, history
  <1>3. g = h /\ conn[h] \in Conns
    BY <1>2 DEF HubInv, TypeOK
  <1>4. UNCHANGED <<codes, conn, subscribed, toAdd, toDel>>
    BY <1>1 DEF sharedVars, hubVars
  <1>5. Steady(h, r)
    BY <1>1 DEF Faithful, Posting, hubVars, callerVars
  <1>6. HasSent(h, r)' <=> HasSent(h, r)
    BY <1>4 DEF HasSent
  <1> DEFINE s == sched[h]
             u == sched'[h]
  <1>7. /\ m = s[1] /\ 1 \in DOMAIN s /\ m.type \in {"sub", "unsub"}
        /\ \A i \in DOMAIN u : i \in Nat /\ i + 1 \in DOMAIN s /\ u[i] = s[i + 1]
        /\ \A i \in DOMAIN s : i \in Nat /\ (i # 1 => i - 1 \in DOMAIN u /\ u[i - 1] = s[i])
    <2>1. s \in Seq(LiveMsg) /\ s # <<>> /\ u = Tail(s) /\ m = Head(s)
      BY <1>1, <1>3
    <2>2. m.type \in {"sub", "unsub"}
      BY <1>1 DEF LiveMsg
    <2> HIDE DEF s, u, m
    <2> QED
      BY <2>1, <2>2, Popped
  <1> HIDE DEF m
  <1>8. \A w : /\ Says(w, conn[h], r)' <=> Says(w, conn[h], r)
               /\ Denies(w, conn[h], r)' <=> Denies(w, conn[h], r)
    BY <1>4 DEF Says, Denies, Wants
  <1>9. LastWord(sched[h], conn[h], r)'
    <2> SUFFICES ASSUME NEW i \in DOMAIN u, Denies(u[i], conn[h], r)
                 PROVE  \E j \in DOMAIN u : j > i /\ Says(u[j], conn[h], r)
      BY <1>4 DEF LastWord, Says, Denies, Wants
    <2>1. i \in Nat /\ i + 1 \in DOMAIN s /\ Denies(s[i + 1], conn[h], r)
      BY <1>7
    <2>2. PICK j \in DOMAIN s : j > i + 1 /\ Says(s[j], conn[h], r)
      BY <1>5, <2>1 DEF Steady, LastWord
    <2>3. j \in Nat /\ j - 1 \in DOMAIN u /\ u[j - 1] = s[j] /\ j - 1 > i
      BY <1>7, <2>1, <2>2
    <2> QED
      BY <2>2, <2>3
  <1>10. (\E j \in DOMAIN s : j # 1 /\ Says(s[j], conn[h], r)) => Said(sched[h], conn[h], r)'
    <2> SUFFICES ASSUME NEW j \in DOMAIN s, j # 1, Says(s[j], conn[h], r)
                 PROVE  \E i \in DOMAIN u : Says(u[i], conn[h], r)
      BY <1>4 DEF Said, Says, Wants
    <2> QED
      BY <1>7
  <1>11. CASE Says(m, conn[h], r)
    <2>1. r \in upstream'[conn[h]] <=> r[1] \in codes
      BY <1>1, <1>7, <1>11 DEF Says, Wants
    <2> QED
      BY <1>4, <1>9, <2>1 DEF Steady
  <1>12. CASE Denies(m, conn[h], r)
    <2>1. \E j \in DOMAIN s : j # 1 /\ Says(s[j], conn[h], r)
      BY <1>5, <1>7, <1>12 DEF Steady, LastWord
    <2> QED
      BY <1>9, <1>10, <2>1 DEF Steady
  <1>13. CASE ~Says(m, conn[h], r) /\ ~Denies(m, conn[h], r)
    <2>1. m.conn # conn[h] \/ m.reg # r
      BY <1>13 DEF Says, Denies
    <2>2. r \in upstream'[conn[h]] <=> r \in upstream[conn[h]]
      BY <1>1, <1>3, <2>1
    <2>3. Said(sched[h], conn[h], r) => Said(sched[h], conn[h], r)'
      BY <1>7, <1>10, <1>13 DEF Said
    <2> QED
      BY <1>4, <1>5, <1>6, <1>9, <2>2, <2>3 DEF Steady
  <1> QED
    BY <1>11, <1>12, <1>13

\* Nothing is said, sent or posted at the start.
LEMMA InitCalm == Init => CalmInv
  <1> SUFFICES ASSUME Init PROVE CalmInv
    OBVIOUS
  <1>1. HubInv
    BY InitHub
  <1>2. Locals
    BY DEF Init, Locals, LocalsOf, Upward
  <1>3. Fresh
    BY NoneAssumption DEF Init, Fresh, Conns
  <1>4. OneCall /\ Posted
    BY DEF Init, OneCall, Posted, Busy
  <1>5. LoneThread
    BY DEF Init, LoneThread
  <1>6. Faithful
    BY DEF Init, Faithful
  <1> QED
    BY <1>1, <1>2, <1>3, <1>4, <1>5, <1>6 DEF CalmInv

\* A connection lost is no longer spoken of; the others are not touched.
LEMMA FaithfulDrop ==
    ASSUME HubInv, Faithful, NEW n \in Conns, Drop(n)
    PROVE  Faithful'
  <1>1. /\ UNCHANGED <<alive, calm, codes, conn, sched, subscribed, toAdd, toDel>>
        /\ UNCHANGED callerVars
        /\ open' = open \ {n}
    BY DEF Drop, sharedVars, hubVars, HubFrame, history
  <1>2. \A m \in Conns : m # n => upstream'[m] = upstream[m]
    BY DEF Drop, HubInv, TypeOK
  <1>3. \A h \in Hubs : conn[h] \in open' => upstream'[conn[h]] = upstream[conn[h]]
    BY <1>1, <1>2 DEF HubInv, TypeOK
  <1>4. \A h \in Hubs, r \in Regs : Posting(conn[h], r) => Posting(conn[h], r)'
    BY <1>1 DEF Posting, callerVars
  <1> QED
    BY <1>1, <1>3, <1>4, FaithfulKept

LEMMA FaithfulStutter ==
    ASSUME Faithful, UNCHANGED vars
    PROVE  Faithful'
  <1>1. /\ UNCHANGED <<alive, calm, codes, conn, sched, subscribed, toAdd, toDel>>
        /\ UNCHANGED <<callerVars, open, upstream>>
    BY DEF vars, sharedVars, hubVars, netVars, history
  <1>2. \A h \in Hubs, r \in Regs : Posting(conn[h], r) => Posting(conn[h], r)'
    BY <1>1 DEF Posting, callerVars
  <1> QED
    BY <1>1, <1>2, FaithfulKept

LEMMA CalmStep == CalmInv /\ [Next]_vars => CalmInv'
  <1> SUFFICES ASSUME CalmInv, [Next]_vars PROVE CalmInv'
    OBVIOUS
  <1>1. HubInv /\ Locals /\ Fresh /\ OneCall /\ Posted /\ LoneThread /\ Faithful
    BY DEF CalmInv
  <1>2. HubInv'
    BY <1>1, HubStepInv
  <1>3. Locals' /\ Fresh' /\ OneCall' /\ Posted' /\ LoneThread'
    BY <1>1, LocalsStep, FreshStep, OneCallStep, PostedStep, LoneThreadStep
  <1>4. Faithful'
    <2>1. ASSUME NEW c \in Callers,
                 \/ \E x \in Codes : AddCodes(c, x)
                 \/ \E req \in (SUBSET Codes) \ {{}} : RemoveCodes(c, req)
                 \/ \E s \in SUBSET Codes : SetCodes(c, s)
          PROVE  Faithful'
      BY <1>1, <1>3, <2>1, FaithfulCall
    <2>2. ASSUME NEW c \in Callers, LiveBegin(c)
          PROVE  Faithful'
      BY <1>1, <2>2, FaithfulLiveBegin
    <2>3. ASSUME NEW c \in Callers, LivePost(c)
          PROVE  Faithful'
      BY <1>1, <2>3, FaithfulPost
    <2>4. ASSUME NEW c \in Callers, Ensure(c) \/ StartThread(c)
          PROVE  Faithful'
      BY <1>1, <2>4, FaithfulReturns
    <2>5. ASSUME NEW h \in Hubs, HubStep(h) \/ KeyFails(h) \/ ConnectFails(h)
          PROVE  Faithful'
      BY <1>1, <2>5, FaithfulHub
    <2>6. ASSUME NEW h \in Hubs, RunScheduled(h)
          PROVE  Faithful'
      BY <1>1, <2>6, FaithfulRun
    <2>7. ASSUME NEW n \in Conns, Drop(n)
          PROVE  Faithful'
      BY <1>1, <2>7, FaithfulDrop
    <2>8. CASE UNCHANGED vars
      BY <1>1, <2>8, FaithfulStutter
    <2> QED
      BY <2>1, <2>2, <2>3, <2>4, <2>5, <2>6, <2>7, <2>8 DEF Next, HubStep
  <1> QED
    BY <1>2, <1>3, <1>4 DEF CalmInv

\* While one hub thread runs, calls that do not overlap leave no trace of the
\* order in which their live sends and the session's own sends went out: once
\* both are done the peer has, of every code the session settled, what the hub
\* desires.
THEOREM CalmAgree == Spec => []CalmSessionsAgree
  <1>1. CalmInv => CalmSessionsAgree
    <2> SUFFICES ASSUME CalmInv, Quiet, NEW h \in Hubs, alive = {h}, Settled(h), conn[h] \in calm
                 PROVE  PeerAgrees(h)
      BY DEF CalmSessionsAgree
    <2> SUFFICES ASSUME NEW x \in Codes, NEW i \in TrIdx, x \in codes <=> x \in subscribed[h]
                 PROVE  <<x, i>> \in upstream[conn[h]] <=> x \in codes
      BY DEF PeerAgrees
    <2> DEFINE r == <<x, i>>
    <2>1. r \in Regs /\ r[1] = x
      BY DEF Regs
    <2>2. ~Posting(conn[h], r)
      BY DEF Quiet, Busy, Posting
    <2>3. Steady(h, r)
      BY <2>1, <2>2 DEF CalmInv, Faithful, Settled
    <2>4. toAdd[h] = {} /\ toDel[h] = {}
      BY DEF CalmInv, Locals, LocalsOf, Settled
    <2>5. ~Said(sched[h], conn[h], r)
      BY DEF Quiet, Said
    <2>6. HasSent(h, r) <=> r[1] \in codes
      BY <2>1, <2>4 DEF HasSent
    <2> QED
      BY <2>1, <2>3, <2>5, <2>6 DEF Steady
  <1> QED
    BY <1>1, InitCalm, CalmStep, PTL DEF Spec
-----------------------------------------------------------------------------
(* KisHub implements Registry: every step of the hub is a step of the      *)
(* registry, or leaves its variables alone.  TypeOK is all the invariant   *)
(* the simulation needs: what a session believes about its connection may  *)
(* be wrong, but what it sends has been demanded.                          *)

\* What a caller c still has to post.
ToPost(c, r) == \/ pc[c] \in {"unsub", "unsubPost", "sub"} /\ r[1] \in add[c]
                \/ pc[c] = "subPost" /\ r \in post[c]

\* What is scheduled on the loop of h.
Scheduled(h, r) == \E i \in DOMAIN sched[h] : sched[h][i].type = "sub" /\ sched[h][i].reg = r

LEMMA OnTheWaySplits ==
    ASSUME NEW r
    PROVE  OnTheWay(r) <=> \/ \E h \in Hubs : r \in toAdd[h]
                           \/ \E c \in Callers : ToPost(c, r)
                           \/ \E h \in Hubs : Scheduled(h, r)
  BY DEF OnTheWay, ToPost, Scheduled

LEMMA OnTheWaySplitsNext ==
    ASSUME NEW r
    PROVE  OnTheWay(r)' <=> \/ \E h \in Hubs : r \in toAdd'[h]
                            \/ \E c \in Callers : ToPost(c, r)'
                            \/ \E h \in Hubs : Scheduled(h, r)'
  BY DEF OnTheWay, ToPost, Scheduled

\* A step that demands makes no request but for what it demands.
LEMMA Demands ==
    ASSUME upstream' = upstream,
           \A r \in Regs : OnTheWay(r)' => r \in Desired' \/ OnTheWay(r)
    PROVE  R!Demand
  <1>1. Held' = Held
    BY DEF Held
  <1>2. Desired' \in SUBSET Regs /\ Desired' \subseteq Due' /\ Due' \subseteq Due \cup Desired'
    BY DEF Desired, Due
  <1> QED
    BY <1>1, <1>2 DEF R!Demand

\* Any other step leaves the demand alone and makes no request at all.
LEMMA Proceeds ==
    ASSUME codes' = codes,
           \A r \in Regs : OnTheWay(r)' => r \in Desired \/ OnTheWay(r),
           \/ Held' \subseteq Held
           \/ \E x \in Due : Held' = Held \cup {x}
    PROVE  R!RegistryNext
  <1>1. Desired' = Desired
    BY DEF Desired
  <1>2. Desired \subseteq Due' /\ Due' \subseteq Due
    BY <1>1 DEF Desired, Due
  <1>3. R!RunOut
    BY <1>2 DEF R!RunOut
  <1> QED
    BY <1>1, <1>3 DEF R!RegistryNext, R!Acquire, R!Release

-----------------------------------------------------------------------------
(* The calls.                                                              *)

LEMMA CallMaps ==
    ASSUME TypeOK, NEW c \in Callers, BeginCall(c),
           NEW a \in SUBSET Codes, a \subseteq codes', NEW at \in {"unsub", "sub"},
           add' = [add EXCEPT ![c] = a],
           pc' = [pc EXCEPT ![c] = at]
    PROVE  R!RegistryNext
  <1>1. UNCHANGED <<toAdd, sched, upstream, post>>
    BY DEF BeginCall, hubVars, netVars
  <1>2. ASSUME NEW r \in Regs, OnTheWay(r)'
        PROVE  r \in Desired' \/ OnTheWay(r)
    <2>1. CASE \E h \in Hubs : r \in toAdd'[h]
      BY <1>1, <2>1, OnTheWaySplits
    <2>2. CASE \E h \in Hubs : Scheduled(h, r)'
      BY <1>1, <2>2, OnTheWaySplits DEF Scheduled
    <2>3. CASE \E d \in Callers : ToPost(d, r)'
      <3>1. PICK d \in Callers : ToPost(d, r)'
        BY <2>3
      <3>2. CASE d = c
        BY <3>1, <3>2 DEF ToPost, Desired, TypeOK
      <3>3. CASE d # c
        <4>1. pc'[d] = pc[d] /\ add'[d] = add[d]
          BY <3>3 DEF TypeOK
        <4>2. ToPost(d, r)
          BY <1>1, <3>1, <4>1 DEF ToPost
        <4> QED
          BY <4>2, OnTheWaySplits
      <3> QED
        BY <3>2, <3>3
    <2> QED
      BY <1>2, <2>1, <2>2, <2>3, OnTheWaySplitsNext
  <1> QED
    BY <1>1, <1>2, Demands DEF R!RegistryNext

LEMMA CallsMap ==
    ASSUME TypeOK, NEW c \in Callers,
           \/ \E x \in Codes : AddCodes(c, x)
           \/ \E req \in (SUBSET Codes) \ {{}} : RemoveCodes(c, req)
           \/ \E s \in SUBSET Codes : SetCodes(c, s)
    PROVE  R!RegistryNext
  <1>1. ASSUME NEW x \in Codes, AddCodes(c, x) PROVE R!RegistryNext
    <2>1. codes' \in SUBSET Codes
      BY <1>1 DEF AddCodes, Add, TypeOK
    <2>2. codes' \ codes \in SUBSET Codes /\ codes' \ codes \subseteq codes'
      BY <2>1
    <2> QED
      BY <1>1, <2>2, CallMaps DEF AddCodes
  <1>2. ASSUME NEW req \in SUBSET Codes, RemoveCodes(c, req) PROVE R!RegistryNext
    <2>1. {} \in SUBSET Codes /\ {} \subseteq codes'
      OBVIOUS
    <2> QED
      BY <1>2, <2>1, CallMaps DEF RemoveCodes
  <1>3. ASSUME NEW s \in SUBSET Codes, SetCodes(c, s) PROVE R!RegistryNext
    <2>1. codes' \in SUBSET Codes
      BY <1>3 DEF SetCodes, Replace, Truncations
    <2>2. codes' \ codes \in SUBSET Codes /\ codes' \ codes \subseteq codes'
      BY <2>1
    <2> QED
      BY <1>3, <2>2, CallMaps DEF SetCodes
  <1> QED
    BY <1>1, <1>2, <1>3

\* A caller that goes on posts what it already held.
LEMMA CallerProceeds ==
    ASSUME codes' = codes, UNCHANGED <<toAdd, sched, upstream>>,
           \A c \in Callers, r \in Regs : ToPost(c, r)' => ToPost(c, r)
    PROVE  R!RegistryNext
  <1>1. Held' \subseteq Held
    BY DEF Held
  <1>2. ASSUME NEW r \in Regs, OnTheWay(r)' PROVE OnTheWay(r)
    <2>1. CASE \E h \in Hubs : r \in toAdd'[h]
      BY <2>1, OnTheWaySplits
    <2>2. CASE \E h \in Hubs : Scheduled(h, r)'
      BY <2>2, OnTheWaySplits DEF Scheduled
    <2>3. CASE \E c \in Callers : ToPost(c, r)'
      BY <2>3, OnTheWaySplits
    <2> QED
      BY <1>2, <2>1, <2>2, <2>3, OnTheWaySplitsNext
  <1> QED
    BY <1>1, <1>2, Proceeds

LEMMA LiveBeginMaps ==
    ASSUME TypeOK, NEW c \in Callers, LiveBegin(c)
    PROVE  R!RegistryNext
  <1>1. UNCHANGED <<codes, toAdd, sched, upstream, add, rem>>
    BY DEF LiveBegin, sharedVars, hubVars, netVars
  <1>2. ASSUME NEW d \in Callers, NEW r \in Regs, ToPost(d, r)' PROVE ToPost(d, r)
    <2>1. CASE d # c
      BY <1>1, <1>2, <2>1 DEF LiveBegin, ToPost, TypeOK
    <2>2. CASE d = c /\ pc[c] = "sub"
      <3>1. pc'[c] \in {"subPost", "ensure"} /\ (pc'[c] = "subPost" => post'[c] = add[c] \X TrIdx)
        BY <2>2 DEF LiveBegin, TypeOK
      <3>2. r \in add[c] \X TrIdx
        BY <1>2, <2>2, <3>1 DEF ToPost
      <3> QED
        BY <2>2, <3>2 DEF ToPost
    <2>3. CASE d = c /\ pc[c] = "unsub"
      <3>1. pc'[c] \in {"unsubPost", "sub"}
        BY <2>3 DEF LiveBegin, TypeOK
      <3> QED
        BY <1>1, <1>2, <2>3, <3>1 DEF ToPost
    <2> QED
      BY <2>1, <2>2, <2>3 DEF LiveBegin
  <1> QED
    BY <1>1, <1>2, CallerProceeds

\* Returning, or starting a thread, posts nothing.
LEMMA EnsureMaps ==
    ASSUME TypeOK, NEW c \in Callers, Ensure(c) \/ StartThread(c)
    PROVE  R!RegistryNext
  <1>1. UNCHANGED <<codes, toAdd, sched, upstream, post>>
    BY DEF Ensure, StartThread, Return, hubVars, netVars
  <1>2. /\ pc'[c] \in {"idle", "start"}
        /\ \A d \in Callers : d # c => pc'[d] = pc[d] /\ add'[d] = add[d]
    BY DEF Ensure, StartThread, Return, TypeOK
  <1>3. ASSUME NEW d \in Callers, NEW r \in Regs, ToPost(d, r)' PROVE ToPost(d, r)
    BY <1>1, <1>2, <1>3 DEF ToPost
  <1> QED
    BY <1>1, <1>3, CallerProceeds

\* A posted message is scheduled instead.
LEMMA LivePostMaps ==
    ASSUME TypeOK, NEW c \in Callers, cloop[c] \in Hubs, LivePost(c)
    PROVE  R!RegistryNext
  <1>1. UNCHANGED <<codes, toAdd, upstream, add>>
    BY DEF LivePost, sharedVars, hubVars
  <1>2. Held' \subseteq Held
    BY <1>1 DEF Held
  <1> DEFINE msg(r) == [conn |-> cws[c], type |-> IF pc[c] = "unsubPost" THEN "unsub" ELSE "sub",
                        reg |-> r]
  <1>3. PICK q \in NextReg(post[c]) :
            /\ sched' = [sched EXCEPT ![cloop[c]] = Append(@, msg(q))]
            /\ post' = [post EXCEPT ![c] = @ \ {q}]
    BY DEF LivePost
  <1>4. q \in post[c]
    BY DEF NextReg
  <1>5. ASSUME NEW d \in Callers, NEW r \in Regs, ToPost(d, r)' PROVE ToPost(d, r)
    <2>1. CASE d # c
      BY <1>1, <1>3, <1>5, <2>1 DEF LivePost, ToPost, TypeOK
    <2>2. CASE d = c /\ pc[c] = "subPost"
      <3>1. pc'[c] \in {"subPost", "ensure"}
        BY <2>2 DEF LivePost, TypeOK
      <3>2. post'[c] \subseteq post[c]
        BY <1>3 DEF TypeOK
      <3> QED
        BY <1>5, <2>2, <3>1, <3>2 DEF ToPost
    <2>3. CASE d = c /\ pc[c] = "unsubPost"
      <3>1. pc'[c] \in {"unsubPost", "sub"}
        BY <2>3 DEF LivePost, TypeOK
      <3> QED
        BY <1>1, <1>5, <2>3, <3>1 DEF ToPost
    <2> QED
      BY <2>1, <2>2, <2>3 DEF LivePost
  <1>6. ASSUME NEW h \in Hubs, NEW r \in Regs, Scheduled(h, r)'
        PROVE  Scheduled(h, r) \/ ToPost(c, r)
    <2>1. CASE h # cloop[c]
      BY <1>3, <1>6, <2>1 DEF Scheduled, TypeOK
    <2>2. CASE h = cloop[c]
      <3>1. sched[h] \in Seq(LiveMsg) /\ sched'[h] = Append(sched[h], msg(q))
        BY <1>3, <2>2 DEF TypeOK
      <3>2. PICK i \in DOMAIN sched'[h] : sched'[h][i].type = "sub" /\ sched'[h][i].reg = r
        BY <1>6 DEF Scheduled
      <3>3. CASE i \in DOMAIN sched[h]
        <4>1. sched'[h][i] = sched[h][i]
          BY <3>1, <3>3
        <4> QED
          BY <3>2, <3>3, <4>1 DEF Scheduled
      <3>4. CASE i \notin DOMAIN sched[h]
        <4>1. sched'[h][i] = msg(q)
          BY <3>1, <3>2, <3>4
        <4>2. r = q /\ pc[c] # "unsubPost"
          BY <3>2, <4>1
        <4> QED
          BY <1>4, <4>2 DEF LivePost, ToPost
      <3> QED
        BY <3>3, <3>4
    <2> QED
      BY <2>1, <2>2
  <1>7. ASSUME NEW r \in Regs, OnTheWay(r)' PROVE OnTheWay(r)
    <2>1. CASE \E h \in Hubs : r \in toAdd'[h]
      BY <1>1, <2>1, OnTheWaySplits
    <2>2. CASE \E h \in Hubs : Scheduled(h, r)'
      BY <1>6, <2>2, OnTheWaySplits
    <2>3. CASE \E d \in Callers : ToPost(d, r)'
      BY <1>5, <2>3, OnTheWaySplits
    <2> QED
      BY <1>7, <2>1, <2>2, <2>3, OnTheWaySplitsNext
  <1> QED
    BY <1>1, <1>2, <1>7, Proceeds

-----------------------------------------------------------------------------
(* The sessions and the network.                                           *)

\* A session that computes nothing to send but what is desired.
LEMMA SessionProceeds ==
    ASSUME codes' = codes, UNCHANGED <<pc, add, post, sched>>,
           \A h \in Hubs, r \in Regs : r \in toAdd'[h] => r \in Desired \/ OnTheWay(r),
           \/ Held' \subseteq Held
           \/ \E x \in Due : Held' = Held \cup {x}
    PROVE  R!RegistryNext
  <1>1. ASSUME NEW r \in Regs, OnTheWay(r)' PROVE r \in Desired \/ OnTheWay(r)
    <2>1. CASE \E h \in Hubs : r \in toAdd'[h]
      BY <2>1
    <2>2. CASE \E h \in Hubs : Scheduled(h, r)'
      BY <2>2, OnTheWaySplits DEF Scheduled
    <2>3. CASE \E c \in Callers : ToPost(c, r)'
      BY <2>3, OnTheWaySplits DEF ToPost
    <2> QED
      BY <1>1, <2>1, <2>2, <2>3, OnTheWaySplitsNext
  <1> QED
    BY <1>1, Proceeds

\* Steps that leave the peer alone or take registrations from it.
LEMMA SessionsMap ==
    ASSUME TypeOK, NEW h \in Hubs,
           \/ Top(h) \/ GetKey(h) \/ ConnectFails(h) \/ KeyFails(h) \/ Backoff(h) \/ CloseUnused(h)
           \/ Connect(h) \/ SendDel(h) \/ SendDone(h) \/ Recv(h) \/ Diff(h)
    PROVE  R!RegistryNext
  <1>1. UNCHANGED <<codes, pc, add, post, sched>>
    BY DEF Top, GetKey, ConnectFails, KeyFails, Backoff, CloseUnused, Connect, SendDel, SendDone,
           Recv, Diff, EndSession, HubFrame, callerVars, netVars, sharedVars
  <1>2. Held' \subseteq Held
    <2>1. CASE SendDel(h)
      <3>1. \A n \in Conns : upstream'[n] \subseteq upstream[n]
        BY <2>1 DEF SendDel, TypeOK
      <3> QED
        BY <3>1 DEF Held
    <2>2. CASE CloseUnused(h)
      <3>1. \A n \in Conns : upstream'[n] \subseteq upstream[n]
        BY <2>2 DEF CloseUnused, TypeOK
      <3> QED
        BY <3>1 DEF Held
    <2>3. CASE ~SendDel(h) /\ ~CloseUnused(h)
      <3>1. upstream' = upstream
        BY <2>3 DEF Top, GetKey, ConnectFails, KeyFails, Backoff, Connect, SendDone, Recv, Diff,
                    netVars
      <3> QED
        BY <3>1 DEF Held
    <2> QED
      BY <2>1, <2>2, <2>3
  <1>3. ASSUME NEW g \in Hubs, NEW r \in Regs, r \in toAdd'[g]
        PROVE  r \in Desired \/ OnTheWay(r)
    <2>1. toAdd'[g] \subseteq toAdd[g] \cup (codes \X TrIdx)
      BY DEF Top, GetKey, ConnectFails, KeyFails, Backoff, CloseUnused, Connect, SendDel, SendDone,
             Recv, Diff, EndSession, TypeOK
    <2>2. CASE r \in toAdd[g]
      BY <2>2, OnTheWaySplits
    <2>3. CASE r \in codes \X TrIdx
      BY <2>3 DEF Desired
    <2> QED
      BY <1>3, <2>1, <2>2, <2>3
  <1> QED
    BY <1>1, <1>2, <1>3, SessionProceeds

LEMMA SendAddMaps ==
    ASSUME TypeOK, NEW h \in Hubs, SendAdd(h)
    PROVE  R!RegistryNext
  <1>1. UNCHANGED <<codes, pc, add, post, sched>>
    BY DEF SendAdd, HubFrame, callerVars, sharedVars
  <1>2. PICK q \in NextReg(toAdd[h]) :
            \/ /\ conn[h] \in open
               /\ upstream' = [upstream EXCEPT ![conn[h]] = @ \cup {q}]
               /\ toAdd' = [toAdd EXCEPT ![h] = @ \ {q}]
            \/ UNCHANGED <<upstream, toAdd>>
    BY DEF SendAdd
  <1>3. q \in toAdd[h] /\ q \in Regs
    BY DEF NextReg, TypeOK
  <1>4. q \in Due
    BY <1>3, OnTheWaySplits DEF Due
  <1>5. Held' \subseteq Held \/ Held' = Held \cup {q}
    <2>1. CASE UNCHANGED upstream
      BY <2>1 DEF Held
    <2>2. CASE conn[h] \in open /\ upstream' = [upstream EXCEPT ![conn[h]] = @ \cup {q}]
      <3>1. conn[h] \in Conns
        BY <2>2 DEF TypeOK
      <3>2. \A n \in Conns : upstream'[n] = IF n = conn[h] THEN upstream[n] \cup {q} ELSE upstream[n]
        BY <2>2, <3>1 DEF TypeOK
      <3> QED
        BY <1>3, <3>1, <3>2 DEF Held
    <2> QED
      BY <1>2, <2>1, <2>2
  <1>6. ASSUME NEW g \in Hubs, NEW r \in Regs, r \in toAdd'[g] PROVE OnTheWay(r)
    <2>1. toAdd'[g] \subseteq toAdd[g]
      BY <1>2 DEF TypeOK
    <2> QED
      BY <1>6, <2>1, OnTheWaySplits
  <1> QED
    BY <1>1, <1>4, <1>5, <1>6, SessionProceeds

LEMMA RunScheduledMaps ==
    ASSUME TypeOK, NEW h \in Hubs, RunScheduled(h)
    PROVE  R!RegistryNext
  <1> DEFINE m == Head(sched[h])
  <1>1. UNCHANGED <<codes, pc, add, post, toAdd>>
    BY DEF RunScheduled, HubFrame, callerVars, hubVars, sharedVars
  <1>2. sched[h] \in Seq(LiveMsg) /\ sched[h] # <<>>
    BY DEF RunScheduled, TypeOK
  <1>3. m \in LiveMsg /\ 1 \in DOMAIN sched[h] /\ m = sched[h][1]
    BY <1>2
  <1>4. m.reg \in Regs
    BY <1>3 DEF LiveMsg
  <1>5. ASSUME m.type = "sub" PROVE m.reg \in Due
    <2>1. Scheduled(h, m.reg)
      BY <1>3, <1>5 DEF Scheduled
    <2> QED
      BY <1>4, <2>1, OnTheWaySplits DEF Due
  <1>6. Held' \subseteq Held \/ \E x \in Due : Held' = Held \cup {x}
    <2>1. CASE m.conn \notin open
      <3>1. upstream' = upstream
        BY <2>1 DEF RunScheduled
      <3> QED
        BY <3>1 DEF Held
    <2>2. CASE m.conn \in open /\ m.type = "sub"
      <3>1. upstream' = [upstream EXCEPT ![m.conn] = @ \cup {m.reg}]
        BY <2>2 DEF RunScheduled
      <3>2. m.conn \in Conns
        BY <2>2 DEF TypeOK
      <3>3. \A n \in Conns :
                upstream'[n] = IF n = m.conn THEN upstream[n] \cup {m.reg} ELSE upstream[n]
        BY <3>1, <3>2 DEF TypeOK
      <3>4. Held' = Held \cup {m.reg}
        BY <1>4, <3>2, <3>3 DEF Held
      <3> QED
        BY <1>5, <2>2, <3>4
    <2>3. CASE m.conn \in open /\ m.type # "sub"
      <3>1. upstream' = [upstream EXCEPT ![m.conn] = @ \ {m.reg}]
        BY <2>3 DEF RunScheduled
      <3>2. \A n \in Conns : upstream'[n] \subseteq upstream[n]
        BY <3>1 DEF TypeOK
      <3> QED
        BY <3>2 DEF Held
    <2> QED
      BY <2>1, <2>2, <2>3
  <1>7. ASSUME NEW g \in Hubs, NEW r \in Regs, Scheduled(g, r)' PROVE Scheduled(g, r)
    <2>1. CASE g # h
      BY <1>7, <2>1 DEF RunScheduled, Scheduled, TypeOK
    <2>2. CASE g = h
      <3>1. sched'[h] = Tail(sched[h])
        BY DEF RunScheduled, TypeOK
      <3>2. PICK i \in DOMAIN sched'[h] : sched'[h][i].type = "sub" /\ sched'[h][i].reg = r
        BY <1>7, <2>2 DEF Scheduled
      <3>3. i + 1 \in DOMAIN sched[h] /\ sched'[h][i] = sched[h][i + 1]
        BY <1>2, <3>1, <3>2
      <3> QED
        BY <2>2, <3>2, <3>3 DEF Scheduled
    <2> QED
      BY <2>1, <2>2
  <1>8. ASSUME NEW r \in Regs, OnTheWay(r)' PROVE OnTheWay(r)
    <2>1. CASE \E g \in Hubs : r \in toAdd'[g]
      BY <1>1, <2>1, OnTheWaySplits
    <2>2. CASE \E g \in Hubs : Scheduled(g, r)'
      BY <1>7, <2>2, OnTheWaySplits
    <2>3. CASE \E c \in Callers : ToPost(c, r)'
      BY <1>1, <2>3, OnTheWaySplits DEF ToPost
    <2> QED
      BY <1>8, <2>1, <2>2, <2>3, OnTheWaySplitsNext
  <1> QED
    BY <1>1, <1>6, <1>8, Proceeds

LEMMA DropMaps ==
    ASSUME TypeOK, NEW n \in Conns, Drop(n)
    PROVE  R!RegistryNext
  <1>1. UNCHANGED <<codes, pc, add, post, sched, toAdd>>
    BY DEF Drop, HubFrame, callerVars, hubVars, sharedVars
  <1>2. \A k \in Conns : upstream'[k] \subseteq upstream[k]
    BY DEF Drop, TypeOK
  <1>3. Held' \subseteq Held
    BY <1>2 DEF Held
  <1>4. \A h \in Hubs, r \in Regs : r \in toAdd'[h] => OnTheWay(r)
    BY <1>1, OnTheWaySplits
  <1> QED
    BY <1>1, <1>3, <1>4, SessionProceeds

-----------------------------------------------------------------------------
LEMMA InitMaps == Init => R!RegistryInit
  <1> SUFFICES ASSUME Init PROVE R!RegistryInit
    OBVIOUS
  <1>1. Desired = {} /\ Held = {}
    BY DEF Init, Desired, Held
  <1>2. \A r \in Regs : ~OnTheWay(r)
    BY DEF Init, OnTheWay
  <1> QED
    BY <1>1, <1>2 DEF R!RegistryInit, Due

LEMMA StutterMaps == UNCHANGED vars => UNCHANGED R!registryVars
  <1> SUFFICES ASSUME UNCHANGED vars PROVE UNCHANGED R!registryVars
    OBVIOUS
  <1>1. UNCHANGED <<codes, upstream, toAdd, pc, add, post, sched>>
    BY DEF vars, sharedVars, callerVars, hubVars, netVars
  <1>2. Desired' = Desired /\ Held' = Held
    BY <1>1 DEF Desired, Held
  <1>3. \A r \in Regs : OnTheWay(r)' <=> OnTheWay(r)
    BY <1>1 DEF OnTheWay
  <1>4. Due' = Due
    BY <1>2, <1>3 DEF Due
  <1> QED
    BY <1>2, <1>4 DEF R!registryVars

\* One step of the hub is one of the registry, or none.
LEMMA StepMaps == HubInv /\ [Next]_vars => [R!RegistryNext]_R!registryVars
  <1> SUFFICES ASSUME HubInv, [Next]_vars PROVE [R!RegistryNext]_R!registryVars
    OBVIOUS
  <1>0. TypeOK /\ CallersHold
    BY DEF HubInv
  <1>1. ASSUME NEW c \in Callers,
               \/ \E x \in Codes : AddCodes(c, x)
               \/ \E req \in (SUBSET Codes) \ {{}} : RemoveCodes(c, req)
               \/ \E s \in SUBSET Codes : SetCodes(c, s)
        PROVE  R!RegistryNext
    BY <1>0, <1>1, CallsMap
  <1>2. ASSUME NEW c \in Callers, LiveBegin(c) \/ Ensure(c) \/ StartThread(c)
        PROVE  R!RegistryNext
    BY <1>0, <1>2, LiveBeginMaps, EnsureMaps
  <1>3. ASSUME NEW c \in Callers, LivePost(c) PROVE R!RegistryNext
    <2>1. cloop[c] \in Hubs
      BY <1>0, <1>3 DEF CallersHold, LivePost
    <2> QED
      BY <1>0, <1>3, <2>1, LivePostMaps
  <1>4. ASSUME NEW h \in Hubs,
               \/ Top(h) \/ GetKey(h) \/ ConnectFails(h) \/ KeyFails(h) \/ Backoff(h)
               \/ CloseUnused(h) \/ Connect(h) \/ SendDel(h) \/ SendDone(h) \/ Recv(h) \/ Diff(h)
        PROVE  R!RegistryNext
    BY <1>0, <1>4, SessionsMap
  <1>5. ASSUME NEW h \in Hubs, SendAdd(h) \/ RunScheduled(h) PROVE R!RegistryNext
    BY <1>0, <1>5, SendAddMaps, RunScheduledMaps
  <1>6. ASSUME NEW n \in Conns, Drop(n) PROVE R!RegistryNext
    BY <1>0, <1>6, DropMaps
  <1>7. CASE UNCHANGED vars
    BY <1>7, StutterMaps
  <1> QED
    BY <1>1, <1>2, <1>3, <1>4, <1>5, <1>6, <1>7 DEF Next

\* A hub of any size implements the registry (part01 216-430): a registration
\* appears at the peer only for a code that is desired, or by a request under
\* way since it was.
THEOREM Refinement == Spec => ImplementsRegistry
  <1>1. Init => HubInv
    BY InitHub
  <1>2. HubInv /\ [Next]_vars => HubInv'
    BY HubStepInv
  <1>3. Init => R!RegistryInit
    BY InitMaps
  <1>4. HubInv /\ [Next]_vars => [R!RegistryNext]_R!registryVars
    BY StepMaps
  <1> QED
    BY <1>1, <1>2, <1>3, <1>4, PTL DEF Spec, ImplementsRegistry, R!RegistrySpec
=============================================================================
