------------------------ MODULE RealtimeViewersProofs ------------------------
(***************************************************************************)
(* What holds of the NXT viewers for every number of them, of readers and  *)
(* of codes, whoever else writes the code set they share.                  *)
(***************************************************************************)
EXTENDS RealtimeViewers, FiniteSetTheorems, TLAPS

-----------------------------------------------------------------------------
(* The inductive invariant.                                                *)

ViewersTyped ==
    /\ entry \in SUBSET Viewers
    /\ asked \in [Viewers -> SUBSET Codes]
    /\ write \in [Viewers -> SUBSET Codes]
    /\ route \in [Viewers -> {"new", "busy", "accept", "loop", "ask", "left", "bye", "gone"}]

\* Nobody has asked for anything before the connection is open.
NewAskNothing == \A v \in Viewers : route[v] = "new" => asked[v] = {}

\* While the last set_codes call to start was alone, it is the only one under
\* way, and what it writes misses no code of a registered client.
OneWriter ==
    ~overlap => \A v \in Viewers, w \in Viewers : NXT!Writing(v) /\ NXT!Writing(w) => v = w
WritesUnion ==
    ~overlap => \A v \in Viewers : NXT!Writing(v) =>
        NXT!Union(entry) \subseteq write[v] /\ write[v] \subseteq NXT!Union(Viewers)

ViewersInv ==
    ViewersTyped /\ NewAskNothing /\ OneWriter /\ WritesUnion /\ NXT!ViewersCovered

LEMMA InitViewers == Init => ViewersInv
  BY DEF Init, NXT!NxtInit, ViewersInv, ViewersTyped, NewAskNothing, OneWriter, WritesUnion,
         NXT!ViewersCovered, NXT!Writing, NXT!Union

\* The instance counts as this module does.
LEMMA SameCount == \A S : NXT!Cardinality(S) = Cardinality(S)
  BY DEF NXT!Cardinality, Cardinality

-----------------------------------------------------------------------------
(* The steps of the viewers.                                               *)

\* A step that starts and ends no call, and registers nobody who has asked for
\* something.
LEMMA CallsRest ==
    ASSUME ViewersInv, UNCHANGED <<codes, asked, write, overlap>>,
           \A v \in Viewers : NXT!Writing(v)' <=> NXT!Writing(v),
           \A v \in entry' \ entry : asked[v] = {},
           entry' \in SUBSET Viewers
    PROVE  OneWriter' /\ WritesUnion' /\ NXT!ViewersCovered'
  <1>1. NXT!Union(entry)' \subseteq NXT!Union(entry)
    BY DEF NXT!Union
  <1>2. NXT!Union(Viewers)' = NXT!Union(Viewers)
    BY DEF NXT!Union
  <1> QED
    BY <1>1, <1>2 DEF ViewersInv, OneWriter, WritesUnion, NXT!ViewersCovered

\* A call that starts writes the union of what registered clients ask for.
LEMMA CallStarts ==
    ASSUME ViewersInv, NEW v \in Viewers, NEW cs \in SUBSET Codes, NEW where \in {"ask", "bye"},
           NXT!StartWrite(v, cs, where), cs = NXT!Union(entry)',
           entry' \in SUBSET Viewers
    PROVE  /\ write' \in [Viewers -> SUBSET Codes]
           /\ route' \in [Viewers -> {"new", "busy", "accept", "loop", "ask", "left", "bye", "gone"}]
           /\ OneWriter' /\ WritesUnion' /\ NXT!ViewersCovered'
  <1>1. /\ write' = [write EXCEPT ![v] = cs]
        /\ overlap' = \E w \in Viewers \ {v} : NXT!Writing(w)
        /\ route' = [route EXCEPT ![v] = where]
    BY DEF NXT!StartWrite, NXT!Goto
  <1>2. NXT!Writing(v)' /\ write'[v] = cs
    BY <1>1 DEF NXT!Writing, ViewersInv, ViewersTyped
  <1>3. \A w \in Viewers : w # v => (NXT!Writing(w)' <=> NXT!Writing(w))
    BY <1>1 DEF NXT!Writing, ViewersInv, ViewersTyped
  <1>4. ~overlap' => \A w \in Viewers : NXT!Writing(w)' => w = v
    BY <1>1, <1>3
  <1>5. cs \subseteq NXT!Union(Viewers)'
    BY DEF NXT!Union
  <1>6. OneWriter' /\ WritesUnion' /\ NXT!ViewersCovered'
    BY <1>2, <1>4, <1>5 DEF OneWriter, WritesUnion, NXT!ViewersCovered
  <1> QED
    BY <1>1, <1>6 DEF ViewersInv, ViewersTyped

\* Steps of a connection that start and end no call.
LEMMA RouteSteps ==
    ASSUME ViewersInv, NEW v \in Viewers,
           NXT!Connect(v) \/ NXT!Refuse(v) \/ NXT!Accept(v) \/ NXT!Leave(v) \/ NXT!Prune(v)
    PROVE  ViewersInv'
  <1> USE DEF NXT!Connect, NXT!Refuse, NXT!Accept, NXT!Leave, NXT!Prune, NXT!Goto
  <1>1. ViewersTyped' /\ NewAskNothing'
    BY DEF ViewersInv, ViewersTyped, NewAskNothing
  <1>2. \A w \in Viewers : NXT!Writing(w)' <=> NXT!Writing(w)
    BY DEF NXT!Writing, ViewersInv, ViewersTyped
  <1>3. /\ UNCHANGED <<codes, asked, write, overlap>> /\ entry' \in SUBSET Viewers
        /\ \A w \in entry' \ entry : asked[w] = {}
    BY DEF ViewersInv, ViewersTyped, NewAskNothing
  <1>4. OneWriter' /\ WritesUnion' /\ NXT!ViewersCovered'
    BY <1>2, <1>3, CallsRest
  <1> QED
    BY <1>1, <1>4 DEF ViewersInv

LEMMA SubscribeStep ==
    ASSUME ViewersInv, NEW v \in Viewers, NEW cs \in SUBSET Codes, NXT!Subscribe(v, cs)
    PROVE  ViewersInv'
  <1>1. CASE v \in entry
    <2> DEFINE all == UNION {asked'[w] : w \in entry}
    <2>1. /\ route[v] = "loop" /\ UNCHANGED <<codes, entry, holder>>
          /\ asked' = [asked EXCEPT ![v] = cs]
          /\ NXT!StartWrite(v, all, "ask")
      BY <1>1 DEF NXT!Subscribe
    <2>2. asked' \in [Viewers -> SUBSET Codes] /\ entry' \in SUBSET Viewers
      BY <2>1 DEF ViewersInv, ViewersTyped
    <2>3. all \in SUBSET Codes /\ all = NXT!Union(entry)'
      BY <2>1, <2>2 DEF NXT!Union
    <2>4. /\ write' \in [Viewers -> SUBSET Codes]
          /\ route' \in [Viewers -> {"new", "busy", "accept", "loop", "ask", "left", "bye", "gone"}]
          /\ OneWriter' /\ WritesUnion' /\ NXT!ViewersCovered'
      <3> HIDE DEF all
      <3> QED
        BY <2>1, <2>2, <2>3, CallStarts
    <2>5. NewAskNothing'
      BY <2>1 DEF ViewersInv, ViewersTyped, NewAskNothing, NXT!StartWrite, NXT!Goto
    <2> QED
      BY <2>2, <2>4, <2>5 DEF ViewersInv, ViewersTyped
  <1>2. CASE v \notin entry
    <2>1. UNCHANGED <<codes, entry, asked, write, route, overlap>>
      BY <1>2 DEF NXT!Subscribe
    <2> QED
      BY <2>1 DEF ViewersInv, ViewersTyped, NewAskNothing, OneWriter, WritesUnion,
                  NXT!ViewersCovered, NXT!Writing, NXT!Union
  <1> QED
    BY <1>1, <1>2

LEMMA DisconnectStep ==
    ASSUME ViewersInv, NEW v \in Viewers, NXT!Disconnect(v)
    PROVE  ViewersInv'
  <1>1. /\ route[v] = "left" /\ entry' = entry \ {v} /\ UNCHANGED codes
        /\ asked' = [asked EXCEPT ![v] = {}]
        /\ NXT!StartWrite(v, NXT!Union(entry'), "bye")
    BY DEF NXT!Disconnect
  <1>2. asked' \in [Viewers -> SUBSET Codes] /\ entry' \in SUBSET Viewers
    BY <1>1 DEF ViewersInv, ViewersTyped
  <1>3. \A w \in entry' : asked'[w] = asked[w]
    BY <1>1 DEF ViewersInv, ViewersTyped
  <1>4. NXT!Union(entry') = NXT!Union(entry)'
    BY <1>3 DEF NXT!Union
  <1>5. NXT!Union(entry') \in SUBSET Codes
    BY <1>1 DEF NXT!Union, ViewersInv, ViewersTyped
  <1>6. /\ write' \in [Viewers -> SUBSET Codes]
        /\ route' \in [Viewers -> {"new", "busy", "accept", "loop", "ask", "left", "bye", "gone"}]
        /\ OneWriter' /\ WritesUnion' /\ NXT!ViewersCovered'
    BY <1>1, <1>2, <1>4, <1>5, CallStarts
  <1>7. NewAskNothing'
    BY <1>1 DEF ViewersInv, ViewersTyped, NewAskNothing, NXT!StartWrite, NXT!Goto
  <1> QED
    BY <1>2, <1>6, <1>7 DEF ViewersInv, ViewersTyped

\* The one call under way returns: the hub has what it wrote.
LEMMA SetCodesStep ==
    ASSUME ViewersInv, NEW v \in Viewers, NXT!SetCodes(v)
    PROVE  ViewersInv'
  <1>1. /\ NXT!Writing(v) /\ NXT!Replace(write[v])
        /\ write' = [write EXCEPT ![v] = {}]
        /\ route' = [route EXCEPT ![v] = IF route[v] = "ask" THEN "loop" ELSE "gone"]
        /\ UNCHANGED <<entry, asked, overlap>>
    BY DEF NXT!SetCodes, NXT!Goto
  <1>2. ViewersTyped' /\ NewAskNothing'
    BY <1>1 DEF ViewersInv, ViewersTyped, NewAskNothing
  <1>3. /\ ~NXT!Writing(v)'
        /\ \A w \in Viewers : w # v => (NXT!Writing(w)' <=> NXT!Writing(w))
    BY <1>1 DEF NXT!Writing, ViewersInv, ViewersTyped
  <1>4. ~overlap => \A w \in Viewers : ~NXT!Writing(w)'
    BY <1>1, <1>3 DEF ViewersInv, OneWriter
  <1>5. OneWriter' /\ WritesUnion'
    BY <1>1, <1>4 DEF OneWriter, WritesUnion
  <1>6. NXT!Union(Viewers)' = NXT!Union(Viewers) /\ NXT!Union(entry)' = NXT!Union(entry)
    BY <1>1 DEF NXT!Union
  <1>7. codes' \subseteq write[v]
    BY <1>1 DEF NXT!Replace, NXT!Truncations
  <1>8. ASSUME ~overlap, Cardinality(NXT!Union(Viewers)) <= MaxCodes
        PROVE  codes' = write[v]
    <2>1. NXT!Union(Viewers) \in SUBSET Codes
      BY DEF NXT!Union, ViewersInv, ViewersTyped
    <2>2. IsFiniteSet(NXT!Union(Viewers)) /\ MaxCodes \in Nat
      BY <2>1, CodesAssumption, FS_Subset
    <2>3. write[v] \subseteq NXT!Union(Viewers)
      BY <1>1, <1>8 DEF ViewersInv, WritesUnion
    <2>4. /\ Cardinality(write[v]) <= Cardinality(NXT!Union(Viewers))
          /\ Cardinality(write[v]) \in Nat /\ Cardinality(NXT!Union(Viewers)) \in Nat
      BY <2>2, <2>3, FS_Subset, FS_CardinalityType
    <2>5. ~(Cardinality(write[v]) > MaxCodes)
      BY <1>8, <2>2, <2>4
    <2>6. codes' \in NXT!Truncations(write[v])
      BY <1>1 DEF NXT!Replace
    <2> QED
      BY <2>5, <2>6, SameCount DEF NXT!Truncations
  <1>9. ~overlap => /\ codes' \subseteq NXT!Union(Viewers)
                    /\ Cardinality(NXT!Union(Viewers)) <= MaxCodes =>
                         NXT!Union(entry) \subseteq codes'
    <2>1. ~overlap => /\ NXT!Union(entry) \subseteq write[v]
                      /\ write[v] \subseteq NXT!Union(Viewers)
      BY <1>1 DEF ViewersInv, WritesUnion
    <2> QED
      BY <1>7, <1>8, <2>1
  <1>10. NXT!ViewersCovered'
    <2>1. ~overlap' => ~overlap
      BY <1>1
    <2> QED
      BY <1>6, <1>9, <2>1, SameCount DEF NXT!ViewersCovered
  <1> QED
    BY <1>2, <1>5, <1>10 DEF ViewersInv

-----------------------------------------------------------------------------
(* The other users of the code set.                                        *)

\* Whoever else changes the set counts as an overlap until the next call.
LEMMA InterfereStep ==
    ASSUME ViewersInv, Interfere
    PROVE  ViewersInv'
  <1>1. UNCHANGED <<entry, asked, route, write>>
    BY DEF Interfere
  <1>2. ~overlap' => ~overlap /\ codes' = codes
    BY DEF Interfere
  <1>3. \A v \in Viewers : NXT!Writing(v)' <=> NXT!Writing(v)
    BY <1>1 DEF NXT!Writing
  <1>4. NXT!Union(entry)' = NXT!Union(entry) /\ NXT!Union(Viewers)' = NXT!Union(Viewers)
    BY <1>1 DEF NXT!Union
  <1>5. ViewersTyped' /\ NewAskNothing'
    BY <1>1 DEF ViewersInv, ViewersTyped, NewAskNothing
  <1>6. OneWriter'
    BY <1>2, <1>3 DEF ViewersInv, OneWriter
  <1>7. WritesUnion'
    BY <1>1, <1>2, <1>3, <1>4 DEF ViewersInv, WritesUnion
  <1>8. NXT!ViewersCovered'
    BY <1>2, <1>3, <1>4 DEF ViewersInv, NXT!ViewersCovered
  <1> QED
    BY <1>5, <1>6, <1>7, <1>8 DEF ViewersInv

LEMMA NextViewers ==
    ASSUME Wishes \subseteq SUBSET Codes, ViewersInv, [Next]_viewerVars
    PROVE  ViewersInv'
  <1>1. CASE UNCHANGED viewerVars
    BY <1>1 DEF viewerVars, NXT!ownVars, ViewersInv, ViewersTyped, NewAskNothing, OneWriter,
                WritesUnion, NXT!ViewersCovered, NXT!Writing, NXT!Union
  <1>2. CASE Interfere
    BY <1>2, InterfereStep
  <1>3. CASE NXT!NxtNext
    <2>1. PICK v \in Viewers :
            \/ NXT!Connect(v) \/ NXT!Refuse(v) \/ NXT!Accept(v) \/ NXT!Leave(v)
            \/ NXT!Disconnect(v) \/ NXT!SetCodes(v) \/ NXT!Prune(v)
            \/ \E cs \in Wishes : NXT!Subscribe(v, cs)
      BY <1>3 DEF NXT!NxtNext
    <2> QED
      BY <2>1, RouteSteps, SubscribeStep, DisconnectStep, SetCodesStep
  <1> QED
    BY <1>1, <1>2, <1>3 DEF Next

\* When the last set_codes call of the viewers ran alone, the hub has what the
\* registered ones ask for, and nothing none of them asked for, for any number
\* of viewers and codes and whatever news readers and HTTP handlers do to the
\* same set (part02 165-207).
THEOREM ViewersAreCovered ==
    ASSUME Wishes \subseteq SUBSET Codes
    PROVE  Spec => []NXT!ViewersCovered
  <1>1. ViewersInv => NXT!ViewersCovered
    BY DEF ViewersInv
  <1>2. ViewersInv /\ [Next]_viewerVars => ViewersInv'
    BY NextViewers
  <1> QED
    BY <1>1, <1>2, InitViewers, PTL DEF Spec

-----------------------------------------------------------------------------
(* Types, and the capacity of the hub, of the composition of the two hubs  *)
(* and the HTTP handlers: whoever writes the code set cuts it to the limit. *)

UsersAssumption ==
    Wishes \subseteq SUBSET Codes /\ Lists \subseteq SUBSET Codes /\ Base \subseteq Codes
    /\ MaxEvents \in Nat /\ MaxAsks \in Nat

Within == codes \in SUBSET Codes /\ Cardinality(codes) <= MaxCodes

\* What the viewers' hub keeps besides what ViewersTyped says.
NxtOwn ==
    /\ holder \in Viewers \cup {Nobody}
    /\ asks \in [Viewers -> 0 .. MaxAsks]
    /\ overlap \in BOOLEAN

\* What the readers' hub keeps of its own, in two parts for the provers.
NewsTables ==
    /\ requested \in [Readers -> SUBSET Codes]
    /\ conn \in [Readers -> {"new", "accept", "loop", "left", "empty", "emptyNxt", "gone"}]
    /\ sync \in [Syncers -> Syncs(Codes)]
NewsSets ==
    /\ clients \in SUBSET Readers /\ idle \in SUBSET Readers /\ shut \in SUBSET Readers
    /\ last \in SUBSET Codes
    /\ age \in {"new", "mid", "old"}
    /\ run \in {"off", "top", "fetch", "sync", "send", "prune", "sleep"}
    /\ active \in SUBSET Readers /\ taken \in SUBSET Codes /\ stale \in SUBSET Readers
    /\ events \in 0 .. MaxEvents
NewsOwn == NewsTables /\ NewsSets

UsersInv == ViewersInv /\ Within /\ NewsOwn /\ NxtOwn

-----------------------------------------------------------------------------
(* The code set.                                                           *)

LEMMA CutDown ==
    ASSUME NEW s \in SUBSET Codes, NEW t \in Truncations(s)
    PROVE  t \in SUBSET Codes /\ t \subseteq s /\ Cardinality(t) <= MaxCodes
  <1>1. IsFiniteSet(s) /\ Cardinality(s) \in Nat /\ MaxCodes \in Nat
    BY CodesAssumption, FS_Subset, FS_CardinalityType
  <1> QED
    BY <1>1 DEF Truncations

LEMMA ReplaceWithin ==
    ASSUME NEW s \in SUBSET Codes, Replace(s)
    PROVE  Within'
  BY CutDown DEF Replace, Within

LEMMA AddWithin ==
    ASSUME Within, NEW x \in Codes, Add(x)
    PROVE  Within'
  <1>1. IsFiniteSet(codes) /\ Cardinality(codes) \in Nat /\ MaxCodes \in Nat
    BY CodesAssumption, FS_Subset, FS_CardinalityType DEF Within
  <1>2. CASE Cardinality(codes) >= MaxCodes
    BY <1>2 DEF Add, Within
  <1>3. CASE ~(Cardinality(codes) >= MaxCodes)
    <2>1. codes' = codes \cup {x}
      BY <1>3 DEF Add
    <2>2. Cardinality(codes \cup {x}) <= Cardinality(codes) + 1
      BY <1>1, FS_AddElement
    <2>3. IsFiniteSet(codes \cup {x}) /\ Cardinality(codes \cup {x}) \in Nat
      BY <1>1, FS_AddElement, FS_CardinalityType
    <2> QED
      BY <1>1, <1>3, <2>1, <2>2, <2>3 DEF Within
  <1> QED
    BY <1>2, <1>3

-----------------------------------------------------------------------------
(* The news readers.                                                       *)

LEMMA NoSyncType == NoSync \in Syncs(Codes)
  BY DEF NoSync, Syncs

LEMMA SyncersType ==
    /\ Runner \in Syncers
    /\ \A r \in Readers : Route(r) \in Syncers /\ Snapshot(r) \in Syncers
  BY DEF Syncers

\* A call past the throttle leaves the table of calls well-typed.
LEMMA SyncStarts ==
    ASSUME NewsOwn, NEW a \in Syncers, NEW cs \in SUBSET Codes, StartSync(a, cs)
    PROVE  sync' \in [Syncers -> Syncs(Codes)]
  <1>1. PICK t \in Truncations(cs) : sync' = [sync EXCEPT ![a] = [at |-> "rt", arg |-> t]]
    BY DEF StartSync
  <1>2. [at |-> "rt", arg |-> t] \in Syncs(Codes)
    BY CutDown DEF Syncs
  <1> QED
    BY <1>1, <1>2 DEF NewsOwn, NewsTables

LEMMA SyncNews ==
    ASSUME Within, NewsOwn, NEW a \in Syncers, SyncRt(a) \/ SyncNxt(a)
    PROVE  Within' /\ NewsOwn'
  <1>1. sync \in [Syncers -> Syncs(Codes)] /\ sync[a] \in Syncs(Codes)
    BY DEF NewsOwn, NewsTables
  <1>2. sync[a].arg \in SUBSET Codes /\ sync[a].at \in {"none", "rt", "nxt"}
    BY <1>1 DEF Syncs
  <1>3. Replace(sync[a].arg)
    BY DEF SyncRt, SyncNxt
  <1>4. Within'
    BY <1>2, <1>3, ReplaceWithin
  <1>5. sync' \in [Syncers -> Syncs(Codes)]
    <2>1. PICK x \in Syncs(Codes) : sync' = [sync EXCEPT ![a] = x]
      <3>1. CASE SyncRt(a)
        <4>1. [sync[a] EXCEPT !.at = "nxt"] \in Syncs(Codes)
          BY <1>1 DEF Syncs
        <4>2. sync' = [sync EXCEPT ![a] = [sync[a] EXCEPT !.at = "nxt"]]
          BY <3>1 DEF SyncRt
        <4> QED
          BY <4>1, <4>2
      <3>2. CASE SyncNxt(a)
        BY <3>2, NoSyncType DEF SyncNxt
      <3> QED
        BY <3>1, <3>2
    <2> QED
      BY <1>1, <2>1
  <1>6. last' \in SUBSET Codes /\ NewsSets'
    BY <1>2 DEF SyncRt, SyncNxt, NewsOwn, NewsSets
  <1>7. UNCHANGED <<requested, conn>>
    BY DEF SyncRt, SyncNxt
  <1> QED
    BY <1>4, <1>5, <1>6, <1>7 DEF NewsOwn, NewsTables

LEMMA RouteNews ==
    ASSUME UsersAssumption, Within, NewsOwn, NEW r \in Readers,
           \/ Connect(r) \/ Accept(r) \/ Ping(r) \/ Lapse(r) \/ Leave(r)
           \/ Disconnect(r) \/ Empty(r)
    PROVE  Within' /\ NewsOwn'
  <1> USE DEF NewsOwn, NewsTables, NewsSets, Touch, Event
  <1>0. MaxEvents \in Nat
    BY DEF UsersAssumption
  <1>1. CASE Connect(r)
    BY <1>1 DEF Connect, Within
  <1>2. CASE Accept(r)
    <2>1. sync' \in [Syncers -> Syncs(Codes)]
      <3>1. CASE StartSync(Snapshot(r), Base)
        BY <3>1, SyncStarts, SyncersType DEF UsersAssumption
      <3>2. CASE UNCHANGED sync
        BY <3>2
      <3> QED
        BY <1>2, <3>1, <3>2 DEF Accept
    <2>2. /\ UNCHANGED <<codes, clients, requested, idle, shut, last, age, run, active, taken, stale>>
          /\ conn' = [conn EXCEPT ![r] = "loop"] \/ conn' = [conn EXCEPT ![r] = "gone"]
          /\ events' = events \/ Event
      BY <1>2 DEF Accept
    <2> QED
      BY <1>0, <2>1, <2>2 DEF Within
  <1>3. CASE Ping(r) \/ Lapse(r) \/ Leave(r)
    BY <1>0, <1>3 DEF Ping, Lapse, Leave, Within
  <1>4. CASE Disconnect(r)
    BY <1>4 DEF Disconnect, Within
  <1>5. CASE Empty(r)
    <2>1. Within'
      BY <1>5, ReplaceWithin DEF Empty
    <2> QED
      BY <1>5, <2>1 DEF Empty
  <1> QED
    BY <1>1, <1>2, <1>3, <1>4, <1>5

LEMMA SubscribeNews ==
    ASSUME UsersAssumption, Within, NewsOwn, NEW r \in Readers, NEW cs \in Lists,
           Subscribe(r, cs)
    PROVE  Within' /\ NewsOwn'
  <1>1. MaxEvents \in Nat /\ cs \in SUBSET Codes /\ Base \in SUBSET Codes
    BY DEF UsersAssumption
  <1>2. requested' \in [Readers -> SUBSET Codes] /\ sync' \in [Syncers -> Syncs(Codes)]
    <2>1. CASE r \in clients
      <3> DEFINE theirs == UNION {requested'[q] : q \in clients}
                 all    == theirs \cup Base
      <3>1. requested' = [requested EXCEPT ![r] = cs] /\ StartSync(Route(r), all)
        BY <2>1 DEF Subscribe
      <3>2. requested' \in [Readers -> SUBSET Codes]
        BY <1>1, <3>1 DEF NewsOwn, NewsTables
      <3>3. all \in SUBSET Codes
        <4>1. \A q \in clients : requested'[q] \subseteq Codes
          BY <3>2 DEF NewsOwn, NewsSets
        <4>2. ASSUME NEW x \in theirs PROVE x \in Codes
          <5>1. PICK q \in clients : x \in requested'[q]
            BY <4>2, Zenon
          <5> QED
            BY <4>1, <5>1
        <4> HIDE DEF theirs
        <4> QED
          BY <1>1, <4>2
      <3>4. sync' \in [Syncers -> Syncs(Codes)]
        <4> HIDE DEF all
        <4> QED
          BY <3>1, <3>3, SyncStarts, SyncersType
      <3> QED
        BY <3>2, <3>4
    <2>2. CASE r \notin clients
      BY <2>2 DEF Subscribe, NewsOwn, NewsTables
    <2> QED
      BY <2>1, <2>2
  <1>3. idle' \in SUBSET Readers /\ events' \in 0 .. MaxEvents
    BY <1>1 DEF Subscribe, Touch, Event, NewsOwn, NewsSets
  <1>4. UNCHANGED <<codes, clients, shut, conn, last, age, run, active, taken, stale>>
    BY DEF Subscribe
  <1> QED
    BY <1>2, <1>3, <1>4 DEF Within, NewsOwn, NewsTables, NewsSets

LEMMA RunNews ==
    ASSUME UsersAssumption, Within, NewsOwn, RunStep \/ Age
    PROVE  Within' /\ NewsOwn'
  <1>0. MaxEvents \in Nat /\ Base \in SUBSET Codes
    BY DEF UsersAssumption
  <1>1. CASE RunTop
    <2>1. taken' \in SUBSET Codes
      <3>1. active' \subseteq Readers /\ taken' = Requests(active')
        BY <1>1 DEF RunTop, NewsOwn, NewsSets
      <3> QED
        BY <3>1 DEF Requests, NewsOwn, NewsTables
    <2> QED
      BY <1>1, <2>1 DEF RunTop, Within, NewsOwn, NewsTables, NewsSets
  <1>2. CASE RunSync
    <2>1. PICK t \in SUBSET Codes :
            /\ Prioritize(t)
            /\ \/ run' = "send" /\ UNCHANGED sync
               \/ StartSync(Runner, t) /\ UNCHANGED run
      BY <1>2 DEF RunSync
    <2>2. sync' \in [Syncers -> Syncs(Codes)]
      <3>1. CASE StartSync(Runner, t)
        BY <3>1, SyncStarts, SyncersType
      <3>2. CASE UNCHANGED sync
        BY <3>2 DEF NewsOwn, NewsTables
      <3> QED
        BY <2>1, <3>1, <3>2
    <2>3. events' \in 0 .. MaxEvents
      BY <1>0, <2>1 DEF Prioritize, Event, NewsOwn, NewsSets
    <2>4. UNCHANGED <<codes, clients, requested, idle, shut, conn, last, age, active, taken, stale>>
      BY <1>2 DEF RunSync
    <2>5. run' \in {run, "send"}
      BY <2>1
    <2> QED
      BY <2>2, <2>3, <2>4, <2>5 DEF Within, NewsOwn, NewsTables, NewsSets
  <1>3. CASE RunSend \/ RunPrune
    BY <1>0, <1>3 DEF RunSend, RunPrune, Event, Within, NewsOwn, NewsTables, NewsSets
  <1>4. CASE Age
    BY <1>4 DEF Age, Within, NewsOwn, NewsTables, NewsSets
  <1> QED
    BY <1>1, <1>2, <1>3, <1>4 DEF RunStep

-----------------------------------------------------------------------------
(* The viewers, and both.                                                  *)

LEMMA ViewersStep ==
    ASSUME UsersAssumption, UsersInv, NXT!NxtNext
    PROVE  Within' /\ NxtOwn'
  <1>0. MaxAsks \in Nat /\ Wishes \subseteq SUBSET Codes
    BY DEF UsersAssumption
  <1>1. ASSUME NEW v \in Viewers,
               NXT!Connect(v) \/ NXT!Refuse(v) \/ NXT!Accept(v) \/ NXT!Leave(v) \/ NXT!Prune(v)
        PROVE  Within' /\ NxtOwn'
    BY <1>1 DEF UsersInv, Within, NxtOwn, NXT!Connect, NXT!Refuse, NXT!Accept, NXT!Leave, NXT!Prune
  <1>2. ASSUME NEW v \in Viewers, NXT!Disconnect(v)
        PROVE  Within' /\ NxtOwn'
    BY <1>2 DEF UsersInv, Within, NxtOwn, NXT!Disconnect, NXT!StartWrite
  <1>3. ASSUME NEW v \in Viewers, NEW cs \in Wishes, NXT!Subscribe(v, cs)
        PROVE  Within' /\ NxtOwn'
    <2>1. asks' \in [Viewers -> 0 .. MaxAsks]
      BY <1>0, <1>3 DEF NXT!Subscribe, UsersInv, NxtOwn
    <2>2. UNCHANGED <<codes, holder>> /\ overlap' \in BOOLEAN
      BY <1>3 DEF NXT!Subscribe, NXT!StartWrite, UsersInv, NxtOwn
    <2> QED
      BY <2>1, <2>2 DEF UsersInv, Within, NxtOwn
  <1>4. ASSUME NEW v \in Viewers, NXT!SetCodes(v)
        PROVE  Within' /\ NxtOwn'
    <2>1. write[v] \in SUBSET Codes
      BY DEF UsersInv, ViewersInv, ViewersTyped
    <2>2. codes' \in NXT!Truncations(write[v])
      BY <1>4 DEF NXT!SetCodes, NXT!Replace
    <2>3. NXT!Truncations(write[v]) = Truncations(write[v])
      BY SameCount DEF NXT!Truncations, Truncations
    <2>4. Within'
      BY <2>1, <2>2, <2>3, ReplaceWithin DEF Replace
    <2> QED
      BY <1>4, <2>4 DEF NXT!SetCodes, UsersInv, NxtOwn
  <1> QED
    BY <1>1, <1>2, <1>3, <1>4 DEF NXT!NxtNext

LEMMA NextUsers ==
    ASSUME UsersAssumption, UsersInv, [Next]_viewerVars
    PROVE  UsersInv'
  <1>1. ViewersInv'
    BY NextViewers DEF UsersAssumption, UsersInv
  <1>2. CASE UNCHANGED viewerVars
    BY <1>1, <1>2 DEF viewerVars, newsOwn, NXT!ownVars, UsersInv, Within, NewsOwn, NewsTables,
                      NewsSets, NxtOwn
  <1>3. ASSUME Interfere PROVE NxtOwn'
    BY <1>3 DEF Interfere, UsersInv, NxtOwn
  <1>4. CASE NewsNext /\ Interfere
    <2>1. Within' /\ NewsOwn'
      BY <1>4, SyncNews, RouteNews, SubscribeNews, RunNews DEF NewsNext, RunStep, UsersInv
    <2> QED
      BY <1>1, <1>3, <1>4, <2>1 DEF UsersInv
  <1>5. CASE \E x \in Codes : EnsureSubscription(x) /\ Interfere
    <2>1. Within'
      BY <1>5, AddWithin DEF EnsureSubscription, UsersInv
    <2>2. NewsOwn'
      BY <1>5 DEF EnsureSubscription, Event, UsersAssumption, UsersInv, NewsOwn, NewsTables,
                  NewsSets
    <2> QED
      BY <1>1, <1>3, <1>5, <2>1, <2>2 DEF UsersInv
  <1>6. CASE NXT!NxtNext /\ NewsRests
    <2>1. NewsOwn'
      BY <1>6 DEF NewsRests, UsersInv, NewsOwn, NewsTables, NewsSets
    <2> QED
      BY <1>1, <1>6, <2>1, ViewersStep DEF UsersInv
  <1> QED
    BY <1>2, <1>4, <1>5, <1>6 DEF Next

LEMMA InitUsers == UsersAssumption /\ Init => UsersInv
  <1> SUFFICES ASSUME UsersAssumption, Init PROVE UsersInv
    OBVIOUS
  <1>1. Within
    BY FS_EmptySet, CodesAssumption DEF Init, NewsInit, Within
  <1>2. NewsOwn
    <2>1. sync \in [Syncers -> Syncs(Codes)]
      BY NoSyncType DEF Init, NewsInit
    <2>2. requested \in [Readers -> SUBSET Codes]
      BY DEF Init, NewsInit
    <2>3. conn \in [Readers -> {"new", "accept", "loop", "left", "empty", "emptyNxt", "gone"}]
      BY DEF Init, NewsInit
    <2>4. NewsSets
      BY DEF Init, NewsInit, NewsSets, UsersAssumption
    <2> QED
      BY <2>1, <2>2, <2>3, <2>4 DEF NewsOwn, NewsTables
  <1>3. NxtOwn
    <2>1. overlap \in BOOLEAN /\ holder \in Viewers \cup {Nobody}
      BY DEF Init, NXT!NxtInit
    <2>2. 0 \in 0 .. MaxAsks /\ asks = [v \in Viewers |-> 0]
      BY DEF Init, NXT!NxtInit, UsersAssumption
    <2> QED
      BY <2>1, <2>2 DEF NxtOwn
  <1> QED
    BY <1>1, <1>2, <1>3, InitViewers DEF UsersInv

\* The types of both WebSocket hubs that share the code set.
THEOREM UsersTyped ==
    ASSUME UsersAssumption
    PROVE  Spec => [](NewsTypeOK /\ NXT!NxtTypeOK)
  <1>1. UsersInv => NewsTypeOK /\ NXT!NxtTypeOK
    BY DEF UsersInv, ViewersInv, ViewersTyped, Within, NewsOwn, NewsTables, NewsSets, NxtOwn,
           NewsTypeOK, NXT!NxtTypeOK
  <1>2. UsersInv /\ [Next]_viewerVars => UsersInv'
    BY NextUsers
  <1> QED
    BY <1>1, <1>2, InitUsers, PTL DEF Spec

\* Whoever writes the code set, two hubs that replace it twice per call and
\* handlers that add to it, from whatever they read before: no set is ever
\* beyond MAX_CODES (part01 242, 269).
THEOREM SharedSetWithin ==
    ASSUME UsersAssumption
    PROVE  Spec => [](Cardinality(codes) <= MaxCodes)
  <1>1. UsersInv => Cardinality(codes) <= MaxCodes
    BY DEF UsersInv, Within
  <1>2. UsersInv /\ [Next]_viewerVars => UsersInv'
    BY NextUsers
  <1> QED
    BY <1>1, <1>2, InitUsers, PTL DEF Spec
=============================================================================
