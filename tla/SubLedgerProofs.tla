--------------------------- MODULE SubLedgerProofs ---------------------------
(***************************************************************************)
(* What holds of the ledger, its sweeper and the order book hub for every  *)
(* set of codes and clients, every capacity and every pair of thresholds;  *)
(* and that the harness of the users of a code set runs nothing but its    *)
(* parts, of which what was proved of each alone therefore holds.          *)
(***************************************************************************)
EXTENDS MCCodeUsers, FiniteSetTheorems, TLAPS

\* Between its first snapshot and the removal, what the sweeper found stale
\* and nobody touched since is still stale.
StillStale ==
    spc = "remove" => \A x \in stale \ since :
        x \in Tracked /\ records[x].age > Idle /\ records[x].dwell > Dwell

\* After the removal, what it found stale is in the hub again only by a
\* request that has touched it, or will.
ReturnedByRequest ==
    spc \in {"prune", "pop"} => \A x \in stale \cap codes : x \in since \cup Pending

LedgerInv == TypeOK /\ StillStale /\ ReturnedByRequest /\ TrackedUnlessSlipped

LEMMA MaxAgeType == MaxAge \in Nat /\ MaxAge > Idle /\ MaxAge > Dwell
  BY ThresholdAssumption DEF MaxAge

LEMMA InitLedger == Init => LedgerInv
  <1> SUFFICES ASSUME Init PROVE LedgerInv
    OBVIOUS
  <1>1. TypeOK
    <2>1. calls \in 0 .. MaxCalls
      BY BoundAssumption DEF Init
    <2>2. records \in [Codes -> Record \cup {None}] /\ touching \in [Clients -> Codes \cup {None}]
      BY DEF Init
    <2> QED
      BY <2>1, <2>2 DEF Init, TypeOK
  <1> QED
    BY <1>1 DEF Init, LedgerInv, StillStale, ReturnedByRequest, TrackedUnlessSlipped

\* A record is not None, and has ages.
LEMMA RecordFields ==
    ASSUME NEW r \in Record
    PROVE  r # None /\ r.age \in 0 .. MaxAge /\ r.dwell \in 0 .. MaxAge
  BY NoneAssumption DEF Record

LEMMA TickStep ==
    ASSUME LedgerInv, Tick
    PROVE  LedgerInv'
  <1>1. ASSUME NEW x \in Tracked
        PROVE  /\ records'[x] \in Record
               /\ IsStale(records[x]) => IsStale(records'[x])
    <2>1. records[x] \in Record /\ x \in Codes
      BY DEF Tracked, LedgerInv, TypeOK
    <2>2. records[x].age \in 0 .. MaxAge /\ records[x].dwell \in 0 .. MaxAge
      BY <2>1, RecordFields
    <2>3. records'[x] = [age |-> Older(records[x].age), dwell |-> Older(records[x].dwell)]
      BY <2>1, NoneAssumption DEF Tick, Tracked
    <2>4. ASSUME NEW n \in 0 .. MaxAge
          PROVE  Older(n) \in 0 .. MaxAge /\ Older(n) >= n
      BY MaxAgeType DEF Older
    <2> QED
      BY <2>2, <2>3, <2>4, MaxAgeType, ThresholdAssumption DEF Record, IsStale
  <1>2. \A x \in Codes : x \notin Tracked => records'[x] = None
    BY DEF Tick, Tracked
  <1>3. records' \in [Codes -> Record \cup {None}]
    <2>1. \A x \in Codes : records'[x] \in Record \cup {None}
      BY <1>1, <1>2
    <2> QED
      BY <2>1 DEF Tick
  <1>4. Tracked' = Tracked
    BY <1>1, <1>2, NoneAssumption DEF Tracked
  <1>5. UNCHANGED <<codes, touching, spc, stale, doomed, calls, since, slipped>>
    BY DEF Tick
  <1>6. StillStale'
    BY <1>1, <1>4, <1>5 DEF LedgerInv, StillStale, IsStale
  <1> QED
    BY <1>3, <1>4, <1>5, <1>6
    DEF LedgerInv, TypeOK, ReturnedByRequest, TrackedUnlessSlipped, Pending

LEMMA RequestStep ==
    ASSUME LedgerInv, NEW c \in Clients, NEW x \in Codes,
           OrderbookRequest(c, x) \/ PriceRequest(c, x)
    PROVE  LedgerInv'
  <1>1. codes' \subseteq codes \cup {x}
    BY DEF OrderbookRequest, PriceRequest, Add
  <1>2. Begin(c, x) /\ touching[c] = None
    BY DEF OrderbookRequest, PriceRequest, Begin
  <1>3. Pending' = Pending \cup {x}
    <2>1. x # None
      BY NoneAssumption
    <2>2. touching' = [touching EXCEPT ![c] = x]
      BY <1>2 DEF Begin
    <2>3. \A d \in Clients : touching'[d] = IF d = c THEN x ELSE touching[d]
      BY <2>2 DEF LedgerInv, TypeOK
    <2> QED
      BY <1>2, <2>1, <2>3 DEF Pending
  <1>4. calls' \in 0 .. MaxCalls
    BY <1>2, BoundAssumption DEF Begin, LedgerInv, TypeOK
  <1>5. TypeOK'
    BY <1>1, <1>2, <1>4 DEF Begin, LedgerInv, TypeOK
  <1>6. Tracked' = Tracked
    BY <1>2 DEF Begin, Tracked
  <1>7. StillStale' /\ ReturnedByRequest' /\ TrackedUnlessSlipped'
    BY <1>1, <1>2, <1>3, <1>6
    DEF Begin, LedgerInv, StillStale, ReturnedByRequest, TrackedUnlessSlipped
  <1> QED
    BY <1>5, <1>7 DEF LedgerInv

LEMMA FinishStep ==
    ASSUME LedgerInv, NEW c \in Clients, FinishRequest(c)
    PROVE  LedgerInv'
  <1> DEFINE x == touching[c]
  <1>1. x \in Codes
    BY DEF FinishRequest, LedgerInv, TypeOK
  <1>2. records'[x] \in Record /\ records' \in [Codes -> Record \cup {None}]
    <2> DEFINE dw == IF records[x] = None THEN 0 ELSE records[x].dwell
    <2>1. dw \in 0 .. MaxAge /\ 0 \in 0 .. MaxAge
      BY <1>1, RecordFields, MaxAgeType DEF LedgerInv, TypeOK
    <2> HIDE DEF dw
    <2>2. [age |-> 0, dwell |-> dw] \in Record
      BY <2>1 DEF Record
    <2>3. records' = [records EXCEPT ![x] = [age |-> 0, dwell |-> dw]]
      BY DEF FinishRequest, Touch, dw
    <2> QED
      BY <1>1, <2>2, <2>3 DEF LedgerInv, TypeOK
  <1>3. \A y \in Codes : y # x => records'[y] = records[y]
    BY <1>1 DEF FinishRequest, Touch, LedgerInv, TypeOK
  <1>4. Tracked' = Tracked \cup {x}
    BY <1>1, <1>2, <1>3, RecordFields DEF Tracked
  <1>5. since' = since \cup {x} /\ UNCHANGED <<codes, spc, stale, doomed, calls, slipped>>
    BY DEF FinishRequest
  <1>6. touching' \in [Clients -> Codes \cup {None}] /\ Pending \subseteq Pending' \cup {x}
    BY DEF FinishRequest, LedgerInv, TypeOK, Pending
  <1>7. TypeOK'
    BY <1>1, <1>2, <1>5, <1>6 DEF LedgerInv, TypeOK
  <1>8. StillStale'
    BY <1>3, <1>4, <1>5 DEF LedgerInv, TypeOK, StillStale
  <1> QED
    BY <1>4, <1>5, <1>6, <1>7, <1>8 DEF LedgerInv, ReturnedByRequest, TrackedUnlessSlipped

LEMMA SweeperStep ==
    ASSUME LedgerInv, Sweeper
    PROVE  LedgerInv'
  <1>1. StaleCodes \subseteq Codes
    BY DEF StaleCodes, Tracked
  <1>2. CASE Snapshot
    <2>1. TypeOK' /\ TrackedUnlessSlipped'
      BY <1>1, <1>2
      DEF Snapshot, LedgerInv, TypeOK, TrackedUnlessSlipped, Tracked, Pending
    <2>2. StillStale'
      BY <1>2 DEF Snapshot, StillStale, StaleCodes, IsStale, Tracked
    <2>3. ReturnedByRequest'
      BY <1>2 DEF Snapshot, ReturnedByRequest
    <2> QED
      BY <2>1, <2>2, <2>3 DEF LedgerInv
  <1>3. CASE RemoveStale
    BY <1>3
    DEF RemoveStale, Remove, LedgerInv, TypeOK, StillStale, ReturnedByRequest,
        TrackedUnlessSlipped, Tracked, Pending
  <1>4. CASE Prune
    BY <1>1, <1>4
    DEF Prune, LedgerInv, TypeOK, StillStale, ReturnedByRequest, TrackedUnlessSlipped,
        Tracked, Pending
  <1>5. CASE Pop
    <2>1. TypeOK'
      BY <1>5 DEF Pop, LedgerInv, TypeOK
    <2>2. ASSUME ~slipped', NEW x \in codes
          PROVE  x \in Tracked' \cup Pending'
      <3>1. x \in Tracked \cup Pending /\ Pending' = Pending
        BY <1>5, <2>2 DEF Pop, LedgerInv, TrackedUnlessSlipped, Pending
      <3>2. CASE x \notin doomed
        BY <1>5, <3>1, <3>2 DEF Pop, Tracked
      <3>3. CASE x \in doomed /\ x \in Tracked
        <4>1. x \in stale /\ x \notin since
          BY <1>5, <2>2, <3>3 DEF Pop
        <4> QED
          BY <1>5, <3>1, <4>1 DEF Pop, LedgerInv, ReturnedByRequest
      <3> QED
        BY <3>1, <3>2, <3>3
    <2>3. StillStale' /\ ReturnedByRequest'
      BY <1>5 DEF Pop, StillStale, ReturnedByRequest
    <2>4. TrackedUnlessSlipped'
      BY <1>5, <2>2 DEF Pop, TrackedUnlessSlipped
    <2> QED
      BY <2>1, <2>3, <2>4 DEF LedgerInv
  <1> QED
    BY <1>2, <1>3, <1>4, <1>5 DEF Sweeper

LEMMA LedgerStep == LedgerInv /\ [Next]_vars => LedgerInv'
  <1> SUFFICES ASSUME LedgerInv, [Next]_vars PROVE LedgerInv'
    OBVIOUS
  <1>1. CASE UNCHANGED vars
    BY <1>1 DEF LedgerInv, TypeOK, StillStale, ReturnedByRequest, TrackedUnlessSlipped,
                Tracked, Pending, vars
  <1> QED
    BY <1>1, TickStep, RequestStep, FinishStep, SweeperStep DEF Next, Sweeper

\* Every variable keeps its type.
THEOREM TypeCorrect == Spec => []TypeOK
  <1>1. LedgerInv => TypeOK
    BY DEF LedgerInv
  <1> QED
    BY <1>1, InitLedger, LedgerStep, PTL DEF Spec

\* A code in the order book hub has a record in the ledger, or a request is
\* about to make one: only the sweeper's two snapshots can part them.
THEOREM Tracking == Spec => []TrackedUnlessSlipped
  <1>1. LedgerInv => TrackedUnlessSlipped
    BY DEF LedgerInv
  <1> QED
    BY <1>1, InitLedger, LedgerStep, PTL DEF Spec

\* The sweeper unsubscribes only what was idle and known for long enough,
\* unless a request touched it in between.
THEOREM SweepsIdleOnly == Spec => SweptOnlyWhenIdle
  <1> DEFINE Spared == \A x \in codes \ codes' :
                \/ x \in since
                \/ records[x].age > Idle /\ records[x].dwell > Dwell
  <1>1. LedgerInv /\ [Next]_vars => [Spared]_vars
    <2> SUFFICES ASSUME LedgerInv, Next PROVE Spared
      OBVIOUS
    <2>1. CASE RemoveStale
      BY <2>1 DEF RemoveStale, Remove, LedgerInv, StillStale
    <2>2. CASE ~RemoveStale
      <3>1. codes \subseteq codes'
        BY <2>2 DEF Next, Tick, OrderbookRequest, PriceRequest, Add, FinishRequest,
                    Snapshot, Prune, Pop
      <3> QED
        BY <3>1
    <2> QED
      BY <2>1, <2>2
  <1> QED
    BY <1>1, InitLedger, LedgerStep, PTL DEF Spec, SweptOnlyWhenIdle

-----------------------------------------------------------------------------
(* The harness of the users of a code set: one part runs and the others    *)
(* rest, so that each of the three specifications is satisfied, and with   *)
(* it what has been proved of it.  RT and RTP are two instances of the     *)
(* same definitions, and so are KH and KHP.                                *)

RTP == INSTANCE RealtimeViewersProofs WITH
        Codes <- {A, B, C}, MaxCodes <- 2, codes <- rtCodes, stale <- staleReaders,
        Readers <- {n1, n2}, Lists <- {{C}}, Base <- {A, B}, MaxReaders <- 2, MaxEvents <- 2,
        Viewers <- {v1, v2, v3}, MaxViewers <- 2, Wishes <- {{A}, {B}}, MaxAsks <- 1

KHP == INSTANCE KisHubProofs WITH
        Codes <- {A, B}, MaxCodes <- 1, Callers <- {caller}, Hubs <- {hub}, NumTr <- 2,
        MaxCalls <- 3, MaxConns <- 4, MaxFaults <- 1,
        codes <- hubCodes, pc <- hubPc, conn <- session, calls <- hubCalls, overlap <- hubOverlap

\* The assumptions of the instances.
LEMMA FiniteCodes == RTP!IsFiniteSet({A, B, C}) /\ KHP!IsFiniteSet({A, B})
  <1>1. IsFiniteSet({A})
    BY FS_Singleton
  <1>2. IsFiniteSet({A} \cup {B})
    BY <1>1, FS_AddElement
  <1>3. IsFiniteSet({A} \cup {B} \cup {C})
    BY <1>2, FS_AddElement
  <1>4. {A, B} = {A} \cup {B} /\ {A, B, C} = {A} \cup {B} \cup {C}
    OBVIOUS
  <1> QED
    BY <1>2, <1>3, <1>4 DEF RTP!IsFiniteSet, KHP!IsFiniteSet, IsFiniteSet

LEMMA SameNews == RT!NewsNext <=> RTP!NewsNext
  BY Zenon
  DEF RT!Route, RTP!Route, RT!Snapshot, RTP!Snapshot, RT!Syncers, RTP!Syncers, RT!NoSync,
      RTP!NoSync, RT!Requests, RTP!Requests, RT!StartSync, RTP!StartSync, RT!SyncRt,
      RTP!SyncRt, RT!SyncNxt, RTP!SyncNxt, RT!Age, RTP!Age, RT!Event, RTP!Event, RT!Connect,
      RTP!Connect, RT!Accept, RTP!Accept, RT!Touch, RTP!Touch, RT!Ping, RTP!Ping,
      RT!Subscribe, RTP!Subscribe, RT!Lapse, RTP!Lapse, RT!Leave, RTP!Leave, RT!Disconnect,
      RTP!Disconnect, RT!Empty, RTP!Empty, RT!RunTop, RTP!RunTop, RT!RunSync, RTP!RunSync,
      RT!Prioritize, RTP!Prioritize,
      RT!Unreachable, RTP!Unreachable, RT!RunSend, RTP!RunSend, RT!RunPrune, RTP!RunPrune,
      RT!NewsNext, RTP!NewsNext, RT!Replace, RTP!Replace, RT!Truncations, RTP!Truncations,
      RT!Cardinality, RTP!Cardinality

LEMMA SameNxt == RT!NXT!NxtNext <=> RTP!NXT!NxtNext
  BY Zenon
  DEF RT!NXT!ownVars, RTP!NXT!ownVars, RT!NXT!nxtVars, RTP!NXT!nxtVars, RT!NXT!Union,
      RTP!NXT!Union, RT!NXT!Writing, RTP!NXT!Writing, RT!NXT!Goto, RTP!NXT!Goto,
      RT!NXT!Connect, RTP!NXT!Connect, RT!NXT!Refuse, RTP!NXT!Refuse, RT!NXT!Accept,
      RTP!NXT!Accept, RT!NXT!StartWrite, RTP!NXT!StartWrite, RT!NXT!Subscribe,
      RTP!NXT!Subscribe, RT!NXT!Leave, RTP!NXT!Leave, RT!NXT!Disconnect, RTP!NXT!Disconnect,
      RT!NXT!SetCodes, RTP!NXT!SetCodes, RT!NXT!Prune, RTP!NXT!Prune, RT!NXT!NxtNext,
      RTP!NXT!NxtNext, RT!NXT!Replace, RTP!NXT!Replace, RT!NXT!Truncations,
      RTP!NXT!Truncations, RT!NXT!Cardinality, RTP!NXT!Cardinality

LEMMA SameUsers ==
    /\ RT!Init <=> RTP!Init
    /\ RT!Next <=> RTP!Next
    /\ UNCHANGED RT!viewerVars => UNCHANGED RTP!viewerVars
    /\ RT!NewsTypeOK <=> RTP!NewsTypeOK
    /\ RT!NXT!NxtTypeOK <=> RTP!NXT!NxtTypeOK
    /\ RT!NXT!ViewersCovered <=> RTP!NXT!ViewersCovered
  <1>1. RT!Next <=> RTP!Next
    BY Zenon, SameNews, SameNxt
    DEF RT!Next, RTP!Next, RT!Interfere, RTP!Interfere, RT!EnsureSubscription,
      RTP!EnsureSubscription, RT!NewsRests, RTP!NewsRests, RT!Event, RTP!Event, RT!Add,
      RTP!Add, RT!Cardinality, RTP!Cardinality
  <1>2. RT!Init <=> RTP!Init
    BY Zenon
    DEF RT!Init, RTP!Init, RT!NewsInit, RTP!NewsInit, RT!NXT!NxtInit, RTP!NXT!NxtInit,
      RT!Syncers, RTP!Syncers, RT!Route, RTP!Route, RT!Snapshot, RTP!Snapshot, RT!NoSync,
      RTP!NoSync
  <1>3. UNCHANGED RT!viewerVars => UNCHANGED RTP!viewerVars
    BY Zenon
    DEF RT!viewerVars, RTP!viewerVars, RT!newsOwn, RTP!newsOwn, RT!NXT!ownVars,
      RTP!NXT!ownVars
  <1>4. RT!NewsTypeOK <=> RTP!NewsTypeOK
    BY Zenon
    DEF RT!NewsTypeOK, RTP!NewsTypeOK, RT!Syncers, RTP!Syncers, RT!Route, RTP!Route,
      RT!Snapshot, RTP!Snapshot, RT!Syncs, RTP!Syncs
  <1>5. RT!NXT!NxtTypeOK <=> RTP!NXT!NxtTypeOK
    BY Zenon
    DEF RT!NXT!NxtTypeOK, RTP!NXT!NxtTypeOK, RT!NXT!Cardinality, RTP!NXT!Cardinality
  <1>6. RT!NXT!ViewersCovered <=> RTP!NXT!ViewersCovered
    BY Zenon
    DEF RT!NXT!ViewersCovered, RTP!NXT!ViewersCovered, RT!NXT!Writing, RTP!NXT!Writing,
      RT!NXT!Union, RTP!NXT!Union, RT!NXT!Cardinality, RTP!NXT!Cardinality
  <1> QED
    BY <1>1, <1>2, <1>3, <1>4, <1>5, <1>6

LEMMA SameHub ==
    /\ KH!Init <=> KHP!Init
    /\ KH!Next <=> KHP!Next
    /\ UNCHANGED KH!vars => UNCHANGED KHP!vars
    /\ KH!TypeOK <=> KHP!TypeOK
  <1>1. KH!Init <=> KHP!Init
    BY Zenon
    DEF KH!Init, KHP!Init, KH!Conns, KHP!Conns
  <1>2. KH!Next <=> KHP!Next
    BY Zenon
    DEF KH!Next, KHP!Next, KH!Busy, KHP!Busy, KH!BeginCall, KHP!BeginCall, KH!AddCodes,
      KHP!AddCodes, KH!RemoveCodes, KHP!RemoveCodes, KH!SetCodes, KHP!SetCodes,
      KH!LiveBegin, KHP!LiveBegin, KH!LivePost, KHP!LivePost, KH!Return, KHP!Return,
      KH!Ensure, KHP!Ensure, KH!StartThread, KHP!StartThread, KH!sharedVars, KHP!sharedVars,
      KH!callerVars, KHP!callerVars, KH!hubVars, KHP!hubVars, KH!netVars, KHP!netVars,
      KH!history, KHP!history, KH!TrIdx, KHP!TrIdx, KH!Regs, KHP!Regs, KH!Conns, KHP!Conns,
      KH!Add, KHP!Add, KH!Remove, KHP!Remove, KH!Replace, KHP!Replace, KH!Truncations,
      KHP!Truncations, KH!Cardinality, KHP!Cardinality, KH!HubFrame, KHP!HubFrame, KH!Top,
      KHP!Top, KH!GetKey, KHP!GetKey, KH!EndSession, KHP!EndSession, KH!KeyFails,
      KHP!KeyFails, KH!Connect, KHP!Connect, KH!ConnectFails, KHP!ConnectFails, KH!SendAdd,
      KHP!SendAdd, KH!SendDel, KHP!SendDel, KH!SendDone, KHP!SendDone, KH!CloseUnused,
      KHP!CloseUnused, KH!Recv, KHP!Recv, KH!Diff, KHP!Diff, KH!Backoff, KHP!Backoff,
      KH!RunScheduled, KHP!RunScheduled, KH!Drop, KHP!Drop, KH!NextReg, KHP!NextReg
  <1>3. UNCHANGED KH!vars => UNCHANGED KHP!vars
    BY Zenon
    DEF KH!vars, KHP!vars, KH!sharedVars, KHP!sharedVars, KH!callerVars, KHP!callerVars,
      KH!hubVars, KHP!hubVars, KH!netVars, KHP!netVars, KH!history, KHP!history
  <1>4. KH!TypeOK <=> KHP!TypeOK
    BY Zenon
    DEF KH!TypeOK, KHP!TypeOK, KH!TrIdx, KHP!TrIdx, KH!Regs, KHP!Regs, KH!Conns, KHP!Conns,
      KH!LiveMsg, KHP!LiveMsg
  <1> QED
    BY <1>1, <1>2, <1>3, <1>4

\* A step of the harness is a step of one part, or rests, for each of them.
LEMMA UserSteps ==
    ASSUME [UsersNext]_allVars
    PROVE  [Next]_vars /\ [RT!Next]_(RT!viewerVars) /\ [KH!Next]_(KH!vars)
  <1>1. UNCHANGED rtVars => UNCHANGED RT!viewerVars
    BY DEF rtVars, RT!viewerVars, RT!newsOwn, RT!NXT!ownVars
  <1>2. UNCHANGED hubVars => UNCHANGED KH!vars
    BY DEF hubVars, KH!vars, KH!sharedVars, KH!callerVars, KH!hubVars, KH!netVars, KH!history
  <1> QED
    BY <1>1, <1>2 DEF UsersNext, allVars

\* What the harness runs are the three specifications: whichever part it runs
\* and in whatever order, its behaviours are behaviours of each.
THEOREM PartsAsSpecified == UsersSpec => Spec /\ RTP!Spec /\ KHP!Spec
  <1>1. UsersInit => Init /\ RTP!Init /\ KHP!Init
    BY SameUsers, SameHub DEF UsersInit
  <1>2. [UsersNext]_allVars =>
            [Next]_vars /\ [RTP!Next]_(RTP!viewerVars) /\ [KHP!Next]_(KHP!vars)
    BY UserSteps, SameUsers, SameHub
  <1> QED
    BY <1>1, <1>2, PTL DEF UsersSpec, Spec, RTP!Spec, KHP!Spec

\* When the last set_codes call of the viewers ran alone, the hub has what the
\* registered ones ask for, and nothing none of them asked for, whatever news
\* readers and HTTP handlers do to the same set (part02 165-207).
THEOREM HarnessCovers == UsersSpec => []ViewersCovered
  <1>1. {{A}, {B}} \subseteq SUBSET {A, B, C} /\ 2 \in Nat
    OBVIOUS
  <1>2. RTP!Spec => []RTP!NXT!ViewersCovered
    BY <1>1, FiniteCodes, RTP!ViewersAreCovered
  <1>3. RTP!NXT!ViewersCovered => ViewersCovered
    BY SameUsers DEF ViewersCovered
  <1> QED
    BY <1>2, <1>3, PartsAsSpecified, PTL

\* Whichever part runs, the ledger, the viewers' hubs and the hub with both of
\* its TR ids are well typed.
THEOREM UsersTyped == UsersSpec => []UsersTypeOK
  <1>1. RTP!UsersAssumption /\ 2 \in Nat
    BY DEF RTP!UsersAssumption
  <1>2. RTP!Spec => [](RTP!NewsTypeOK /\ RTP!NXT!NxtTypeOK)
    BY <1>1, FiniteCodes, RTP!UsersTyped
  <1>3. 1 \in Nat \ {0} /\ 2 \in Nat \ {0} /\ 3 \in Nat /\ 4 \in Nat
        /\ None \notin {hub} /\ None \notin Nat
    BY NamesAssumption
  <1>4. KHP!Spec => []KHP!TypeOK
    BY <1>3, FiniteCodes, KHP!TypeCorrect
  <1>5. TypeOK /\ RTP!NewsTypeOK /\ RTP!NXT!NxtTypeOK /\ KHP!TypeOK => UsersTypeOK
    BY SameUsers, SameHub DEF UsersTypeOK
  <1> QED
    BY <1>2, <1>4, <1>5, TypeCorrect, PartsAsSpecified, PTL
=============================================================================
