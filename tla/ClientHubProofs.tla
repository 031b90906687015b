-------------------------- MODULE ClientHubProofs --------------------------
(***************************************************************************)
(* What holds of the two WebSocket hubs that send each client only what it *)
(* lacks, the stock flow and the home page, for every set of clients,      *)
(* codes and sections and every bound.                                     *)
(***************************************************************************)
EXTENDS StockFlowHub, HomeWs, SequenceTheorems, TLAPS

-----------------------------------------------------------------------------
(* The stock flow: what a signature stands for.  The invariant follows the *)
(* round of the broadcast loop, whose copies of the entries grow stale.    *)

\* Which of _run's own data there is at each of its points.
RoundShape ==
    /\ phase \in {"none", "top"} => DOMAIN round = {} /\ todo = {}
    /\ phase = "load" => todo = DOMAIN round
    /\ phase # "send" => DOMAIN update = {}
    /\ todo \subseteq DOMAIN round /\ DOMAIN update \subseteq DOMAIN round
    /\ \A w \in DOMAIN round : ws[w] \in {"loop", "gone"} /\ (w \in watching => ws[w] = "loop")

\* A code is looked at, and signed for, through an open websocket only.
Lookers == \A w \in Watchers : looks[w] # Null \/ sig[w] # Null => ws[w] = "loop"

\* What the round read of a client still holds, or the client has subscribed
\* since, and has no signature.
RoundCurrent ==
    \A w \in DOMAIN round \cap watching :
        /\ left[w] <= round[w].nth
        /\ IF left[w] = round[w].nth
           THEN looks[w] = round[w].code /\ sig[w] = round[w].sig
           ELSE sig[w] = Null

\* Signatures and fetched payloads are never ahead of the data.
Signed(w) == w \in watching \ loose /\ sig[w] # Null
NotAhead ==
    /\ \A w \in Watchers : Signed(w) =>
            sig[w].code = looks[w] /\ sig[w].is <= data[sig[w].code]
    /\ phase = "send" =>
        /\ \A w \in DOMAIN round :
            LET x == round[w].code
            IN  /\ x \in DOMAIN fetched /\ fetched[x] <= data[x]
                /\ Signed(w) /\ left[w] = round[w].nth => sig[w].is <= fetched[x]

\* What the round has sent, or withheld as known, is shown.
Told ==
    \A w \in DOMAIN update :
        /\ update[w] = [code |-> round[w].code, is |-> fetched[round[w].code]]
        /\ w \in watching \ loose /\ left[w] = round[w].nth =>
                /\ shows[w] # Null
                /\ shows[w].code = update[w].code /\ shows[w].is >= update[w].is

FlowInv ==
    FlowTypeOK /\ RoundShape /\ Lookers /\ RoundCurrent /\ NotAhead /\ Told /\ SignatureIsShown

LEMMA FlowInitInv == FlowInit => FlowInv
  <1> SUFFICES ASSUME FlowInit PROVE FlowInv
    OBVIOUS
  <1>1. DOMAIN round = {} /\ DOMAIN update = {} /\ DOMAIN fetched = {}
    BY DEF FlowInit, NoRound
  <1>2. FlowTypeOK
    <2>1. data \in [Codes -> Version]
      BY FlowAssumption DEF FlowInit, Version
    <2> QED
      BY <1>1, <2>1 DEF FlowInit, FlowTypeOK, IsPartial
  <1> QED
    BY <1>1, <1>2 DEF FlowInit, FlowInv, RoundShape, Lookers, RoundCurrent, NotAhead, Signed,
                      Told, SignatureIsShown

LEMMA DataChangesStep ==
    ASSUME FlowInv, NEW x \in Codes, DataChanges(x)
    PROVE  FlowInv'
  <1>1. data \in [Codes -> Nat] /\ data' \in [Codes -> Nat] /\ \A y \in Codes : data[y] <= data'[y]
    BY FlowAssumption DEF FlowInv, FlowTypeOK, DataChanges, Version
  <1>2. FlowTypeOK'
    <2>1. data' \in [Codes -> Version]
      BY FlowAssumption DEF FlowInv, FlowTypeOK, DataChanges, Version
    <2> QED
      BY <2>1 DEF FlowInv, FlowTypeOK, DataChanges, IsPartial
  <1>3. RoundShape' /\ Lookers' /\ RoundCurrent' /\ Told' /\ SignatureIsShown'
    BY DEF FlowInv, DataChanges, RoundShape, Lookers, RoundCurrent, Told, SignatureIsShown
  <1>4. NotAhead'
    <2>1. \A w \in Watchers : sig[w] # Null => sig[w].code \in Codes /\ sig[w].is \in Nat
      BY DEF FlowInv, FlowTypeOK, Mark, Version
    <2>2. \A w \in DOMAIN round : round[w].code \in Codes
      BY DEF FlowInv, FlowTypeOK, IsPartial
    <2>3. \A y \in DOMAIN fetched : fetched[y] \in Nat
      BY DEF FlowInv, FlowTypeOK, IsPartial, Version
    <2>4. UNCHANGED <<watching, looks, sig, phase, round, fetched, left, loose>>
      BY DEF DataChanges
    <2>5. \A w \in Watchers : Signed(w)' = Signed(w)
      BY <2>4 DEF Signed
    <2>6. ASSUME NEW w \in Watchers, Signed(w)
          PROVE  sig[w].code = looks[w] /\ sig[w].is <= data'[sig[w].code]
      BY <1>1, <2>1, <2>6 DEF FlowInv, NotAhead, Signed
    <2>7. ASSUME phase = "send", NEW w \in DOMAIN round
          PROVE  fetched[round[w].code] <= data'[round[w].code]
      BY <1>1, <2>2, <2>3, <2>7 DEF FlowInv, NotAhead
    <2> QED
      BY <2>4, <2>5, <2>6, <2>7 DEF FlowInv, NotAhead, FlowTypeOK, IsPartial
  <1> QED
    BY <1>2, <1>3, <1>4 DEF FlowInv

LEMMA WatcherConnectsStep ==
    ASSUME FlowInv, NEW w \in Watchers, WatcherConnects(w)
    PROVE  FlowInv'
  <1>1. /\ UNCHANGED <<data, looks, sig, tasks, round, fetched, todo, drop, update, shows,
                       left, loose>>
        /\ ws[w] = "new" /\ ws'[w] \in {"busy", "accept"}
        /\ \A v \in Watchers : v # w => ws'[v] = ws[v] /\ (v \in watching' <=> v \in watching)
        /\ watching \subseteq watching' /\ watching' \subseteq Watchers
        /\ phase' = phase \/ (phase = "none" /\ phase' = "top")
    <2>1. ws[w] = "new" /\ ws \in [Watchers -> {"new", "busy", "accept", "loop", "gone"}]
          /\ watching \subseteq Watchers
      BY DEF WatcherConnects, FlowInv, FlowTypeOK
    <2>2. CASE Cardinality(watching) >= MaxWatchers
      <3>1. ws' = [ws EXCEPT ![w] = "busy"] /\ UNCHANGED <<watching, phase>>
            /\ UNCHANGED <<data, looks, sig, tasks, round, fetched, todo, drop, update, shows,
                           left, loose>>
        BY <2>2, Zenon DEF WatcherConnects
      <3>2. ws'[w] = "busy" /\ \A v \in Watchers : v # w => ws'[v] = ws[v]
        BY <2>1, <3>1
      <3> QED
        BY <2>1, <3>1, <3>2
    <2>3. CASE ~(Cardinality(watching) >= MaxWatchers)
      <3>1. /\ ws' = [ws EXCEPT ![w] = "accept"] /\ watching' = watching \cup {w}
            /\ phase' = IF phase = "none" THEN "top" ELSE phase
            /\ UNCHANGED <<data, looks, sig, tasks, round, fetched, todo, drop, update, shows,
                           left, loose>>
        BY <2>3, Zenon DEF WatcherConnects
      <3>2. ws'[w] = "accept" /\ \A v \in Watchers : v # w => ws'[v] = ws[v]
        BY <2>1, <3>1
      <3>3. phase' = phase \/ (phase = "none" /\ phase' = "top")
        BY <3>1
      <3> QED
        BY <2>1, <3>1, <3>2, <3>3
    <2> QED
      BY <2>2, <2>3
  <1>2. w \notin DOMAIN round /\ looks[w] = Null /\ sig[w] = Null
    BY <1>1 DEF FlowInv, RoundShape, Lookers
  <1>3. FlowTypeOK'
    <2>1. ws' \in [Watchers -> {"new", "busy", "accept", "loop", "gone"}]
      BY DEF WatcherConnects, FlowInv, FlowTypeOK
    <2> QED
      BY <1>1, <2>1 DEF FlowInv, FlowTypeOK
  <1>4. DOMAIN round \subseteq Watchers
    BY DEF FlowInv, FlowTypeOK, IsPartial
  <1>5. RoundShape' /\ Lookers' /\ RoundCurrent'
    BY <1>1, <1>2, <1>4 DEF FlowInv, RoundShape, Lookers, RoundCurrent
  <1>6. NotAhead'
    BY <1>1, <1>2, <1>4 DEF FlowInv, NotAhead, Signed
  <1> QED
    BY <1>1, <1>2, <1>3, <1>4, <1>5, <1>6
    DEF FlowInv, Told, SignatureIsShown, RoundShape

LEMMA WatcherAcceptedStep ==
    ASSUME FlowInv, NEW w \in Watchers, WatcherAccepted(w)
    PROVE  FlowInv'
  <1>1. /\ UNCHANGED <<data, watching, looks, sig, tasks, phase, round, fetched, todo, drop,
                       update, shows, left, loose>>
        /\ ws[w] \in {"busy", "accept"} /\ ws'[w] \in {"loop", "gone"}
        /\ \A v \in Watchers : v # w => ws'[v] = ws[v]
        /\ ws' \in [Watchers -> {"new", "busy", "accept", "loop", "gone"}]
    BY DEF WatcherAccepted, FlowInv, FlowTypeOK
  <1>2. w \notin DOMAIN round /\ looks[w] = Null /\ sig[w] = Null
    BY <1>1 DEF FlowInv, RoundShape, Lookers
  <1>3. DOMAIN round \subseteq Watchers
    BY DEF FlowInv, FlowTypeOK, IsPartial
  <1>4. FlowTypeOK'
    BY <1>1 DEF FlowInv, FlowTypeOK
  <1>5. RoundShape' /\ Lookers' /\ RoundCurrent' /\ NotAhead' /\ Told'
    BY <1>1, <1>2, <1>3 DEF FlowInv, RoundShape, Lookers, RoundCurrent, NotAhead, Signed, Told
  <1>6. SignatureIsShown'
    BY <1>1, <1>2 DEF FlowInv, SignatureIsShown, FlowTypeOK
  <1> QED
    BY <1>4, <1>5, <1>6 DEF FlowInv

\* A client that subscribes again is on nobody's list: what the round read of
\* it no longer counts, and it has no signature.
LEMMA UpdateCodeStep ==
    ASSUME FlowInv, NEW w \in Watchers, NEW c \in Codes \cup {Null}, UpdateCode(w, c)
    PROVE  FlowInv'
  <1>1. /\ UNCHANGED <<data, watching, ws, phase, round, fetched, todo, drop, update>>
        /\ ws[w] = "loop" /\ left[w] > 0
        /\ left' = [left EXCEPT ![w] = @ - 1] /\ shows' = [shows EXCEPT ![w] = Null]
    BY DEF UpdateCode
  <1>2. /\ left \in [Watchers -> 0 .. MaxSubs] /\ shows \in [Watchers -> Mark \cup {Null}]
        /\ looks \in [Watchers -> Codes \cup {Null}] /\ sig \in [Watchers -> Mark \cup {Null}]
        /\ MaxSubs \in Nat /\ DOMAIN round \subseteq Watchers
        /\ DOMAIN update \subseteq DOMAIN round
    BY FlowAssumption DEF FlowInv, FlowTypeOK, IsPartial, RoundShape
  <1>3. /\ left'[w] = left[w] - 1 /\ left'[w] \in 0 .. MaxSubs /\ shows'[w] = Null
        /\ \A v \in Watchers : v # w => left'[v] = left[v] /\ shows'[v] = shows[v]
    BY <1>1, <1>2
  <1>4. /\ w \in watching => sig'[w] = Null
        /\ w \notin watching => looks' = looks /\ sig' = sig /\ loose' = loose
        /\ \A v \in Watchers : v # w => /\ looks'[v] = looks[v] /\ sig'[v] = sig[v]
                                      /\ (v \in loose' <=> v \in loose)
        /\ looks' \in [Watchers -> Codes \cup {Null}] /\ sig' \in [Watchers -> Mark \cup {Null}]
        /\ loose' \subseteq loose
    BY <1>2 DEF UpdateCode
  <1>5. FlowTypeOK'
    <2>1. tasks' \subseteq
               [w : Watchers, code : Codes, has : Version \cup {Null}, nth : 0 .. MaxSubs]
      BY <1>3 DEF UpdateCode, FlowInv, FlowTypeOK
    <2>2. left' \in [Watchers -> 0 .. MaxSubs] /\ shows' \in [Watchers -> Mark \cup {Null}]
      BY <1>1, <1>2, <1>3
    <2> QED
      BY <1>1, <1>4, <2>1, <2>2 DEF FlowInv, FlowTypeOK
  <1>6. RoundShape' /\ Lookers'
    BY <1>1, <1>4 DEF FlowInv, RoundShape, Lookers
  <1>7. RoundCurrent'
    <2>1. ASSUME NEW v \in DOMAIN round \cap watching
          PROVE  /\ left'[v] <= round[v].nth
                 /\ IF left'[v] = round[v].nth
                    THEN looks'[v] = round[v].code /\ sig'[v] = round[v].sig
                    ELSE sig'[v] = Null
      <3>1. CASE v = w
        <4>1. left[w] <= round[w].nth /\ round[w].nth \in Nat /\ left[w] \in Nat
          BY <1>2, <3>1 DEF FlowInv, RoundCurrent, FlowTypeOK, IsPartial
        <4> QED
          BY <1>3, <1>4, <3>1, <4>1
      <3>2. CASE v # w
        <4>1. left'[v] = left[v] /\ looks'[v] = looks[v] /\ sig'[v] = sig[v]
          BY <1>2, <1>3, <1>4, <3>2
        <4> QED
          BY <4>1 DEF FlowInv, RoundCurrent
      <3> QED
        BY <3>1, <3>2
    <2> QED
      BY <1>1, <2>1 DEF RoundCurrent
  <1>8. w \in watching /\ w \in DOMAIN round => left'[w] # round[w].nth
    BY <1>2, <1>3 DEF FlowInv, RoundCurrent, FlowTypeOK, IsPartial
  <1>9. NotAhead'
    <2>1. \A v \in Watchers : Signed(v)' => v # w /\ Signed(v)
      BY <1>1, <1>4 DEF Signed
    <2> QED
      BY <1>1, <1>2, <1>3, <1>4, <2>1 DEF FlowInv, NotAhead
  <1>10. Told' /\ SignatureIsShown'
    BY <1>1, <1>2, <1>3, <1>4, <1>8 DEF FlowInv, Told, SignatureIsShown, FlowTypeOK
  <1> QED
    BY <1>5, <1>6, <1>7, <1>9, <1>10 DEF FlowInv

LEMMA WatcherLeavesStep ==
    ASSUME FlowInv, NEW w \in Watchers, WatcherLeaves(w)
    PROVE  FlowInv'
  <1>1. /\ UNCHANGED <<data, tasks, phase, round, fetched, todo, drop, update, left>>
        /\ ws[w] = "loop" /\ w \notin watching' /\ watching' = watching \ {w}
        /\ loose' = loose \ {w}
    BY DEF WatcherLeaves
  <1>2. /\ ws'[w] = "gone" /\ looks'[w] = Null /\ sig'[w] = Null
        /\ \A v \in Watchers : v # w => /\ ws'[v] = ws[v] /\ looks'[v] = looks[v]
                                      /\ sig'[v] = sig[v] /\ shows'[v] = shows[v]
        /\ DOMAIN round \subseteq Watchers /\ DOMAIN update \subseteq DOMAIN round
    BY DEF WatcherLeaves, FlowInv, FlowTypeOK, IsPartial, RoundShape
  <1>3. FlowTypeOK'
    BY DEF WatcherLeaves, FlowInv, FlowTypeOK, IsPartial
  <1>4. RoundShape' /\ Lookers' /\ RoundCurrent'
    BY <1>1, <1>2 DEF FlowInv, RoundShape, Lookers, RoundCurrent
  <1>5. NotAhead'
    <2>1. \A v \in Watchers : Signed(v)' => v # w /\ Signed(v)
      BY <1>1, <1>2 DEF Signed
    <2> QED
      BY <1>1, <1>2, <2>1 DEF FlowInv, NotAhead
  <1>6. Told' /\ SignatureIsShown'
    BY <1>1, <1>2 DEF FlowInv, Told, SignatureIsShown, FlowTypeOK
  <1> QED
    BY <1>3, <1>4, <1>5, <1>6 DEF FlowInv

LEMMA SnapshotLoadsStep ==
    ASSUME FlowInv, NEW t \in tasks, SnapshotLoads(t)
    PROVE  FlowInv'
  <1>1. UNCHANGED <<data, watching, looks, sig, ws, phase, round, fetched, todo, drop, update,
                    shows, left, loose>>
    BY DEF SnapshotLoads
  <1>2. tasks' \subseteq [w : Watchers, code : Codes, has : Version \cup {Null}, nth : 0 .. MaxSubs]
    BY DEF SnapshotLoads, FlowInv, FlowTypeOK
  <1>3. FlowTypeOK'
    BY <1>1, <1>2 DEF FlowInv, FlowTypeOK
  <1> QED
    BY <1>1, <1>3 DEF FlowInv, RoundShape, Lookers, RoundCurrent, NotAhead, Signed, Told,
                      SignatureIsShown

\* The first snapshot: it may set a client back, and then the client is loose.
LEMMA SnapshotSendsStep ==
    ASSUME FlowInv, NEW t \in tasks, SnapshotSends(t)
    PROVE  FlowInv'
  <1>1. UNCHANGED <<data, watching, looks, sig, ws, phase, round, fetched, todo, drop,
                    update, left>>
    BY DEF SnapshotSends
  <1>2. /\ t \in [w : Watchers, code : Codes, has : Version \cup {Null}, nth : 0 .. MaxSubs]
        /\ t.has # Null /\ shows \in [Watchers -> Mark \cup {Null}] /\ tasks' \subseteq tasks
    BY DEF SnapshotSends, FlowInv, FlowTypeOK
  <1> DEFINE new == [code |-> t.code, is |-> t.has]
  <1>3. new \in Mark /\ new # Null /\ t.w \in Watchers /\ t.has \in Nat
    BY <1>2, NullAssumption DEF Mark, Version
  <1>4. /\ shows' \in [Watchers -> Mark \cup {Null}] /\ loose' \subseteq Watchers
        /\ loose \subseteq loose'
    BY <1>2, <1>3 DEF SnapshotSends, Receives, FlowInv, FlowTypeOK
  <1>5. FlowTypeOK'
    BY <1>1, <1>2, <1>4 DEF FlowInv, FlowTypeOK
  <1>6. \A v \in Watchers : v \notin loose' /\ shows'[v] # shows[v] =>
            /\ v \in watching /\ looks[v] = t.code /\ shows'[v] = new
            /\ shows[v] # Null => ~(shows[v].is > t.has)
    <2>1. \A v \in Watchers : v # t.w => shows'[v] = shows[v]
      BY <1>2 DEF SnapshotSends, Receives
    <2>2. shows'[t.w] # shows[t.w] =>
              t.w \in watching /\ looks[t.w] = t.code /\ shows'[t.w] = new
      BY <1>2, <1>3 DEF SnapshotSends, Receives
    <2>3. t.w \in watching /\ looks[t.w] = t.code /\ t.w \notin loose' /\ shows[t.w] # Null =>
              ~(shows[t.w].is > t.has)
      BY DEF SnapshotSends
    <2> QED
      BY <2>1, <2>2, <2>3
  <1>7. \A v \in Watchers : shows[v] # Null => shows[v].is \in Nat
    BY <1>2 DEF Mark, Version
  <1>8. \A v \in Watchers : sig[v] # Null => sig[v].is \in Nat
    BY DEF FlowInv, FlowTypeOK, Mark, Version
  <1>9. \A v \in DOMAIN update : update[v].is \in Nat /\ v \in Watchers
    BY DEF FlowInv, FlowTypeOK, IsPartial, Mark, Version
  <1>10. RoundShape' /\ Lookers' /\ RoundCurrent' /\ NotAhead'
    BY <1>1, <1>4 DEF FlowInv, RoundShape, Lookers, RoundCurrent, NotAhead, Signed
  <1>11. SignatureIsShown'
    <2> SUFFICES ASSUME NEW v \in watching \ loose', ws[v] = "loop", sig[v] # Null
                 PROVE  /\ shows'[v] # Null
                        /\ shows'[v].code = sig[v].code /\ shows'[v].is >= sig[v].is
      BY <1>1 DEF SignatureIsShown
    <2>1. /\ v \in Watchers /\ shows[v] # Null
          /\ shows[v].code = sig[v].code /\ shows[v].is >= sig[v].is /\ sig[v].code = looks[v]
      BY <1>4 DEF FlowInv, SignatureIsShown, NotAhead, Signed, FlowTypeOK
    <2>2. CASE shows'[v] = shows[v]
      BY <2>1, <2>2
    <2>3. CASE shows'[v] # shows[v]
      <3>1. looks[v] = t.code /\ shows'[v] = new /\ ~(shows[v].is > t.has)
        BY <1>6, <2>1, <2>3
      <3>2. shows'[v].code = t.code /\ shows'[v].is = t.has
        BY <3>1
      <3> QED
        BY <1>3, <1>7, <1>8, <2>1, <3>1, <3>2
    <2> QED
      BY <2>2, <2>3
  <1>12. Told'
    <2> SUFFICES ASSUME NEW v \in DOMAIN update, v \in watching \ loose', left[v] = round[v].nth
                 PROVE  /\ shows'[v] # Null
                        /\ shows'[v].code = update[v].code /\ shows'[v].is >= update[v].is
      BY <1>1 DEF FlowInv, Told
    <2>1. /\ shows[v] # Null /\ shows[v].code = update[v].code /\ shows[v].is >= update[v].is
          /\ update[v].code = round[v].code
      BY <1>4 DEF FlowInv, Told
    <2>2. looks[v] = round[v].code
      BY DEF FlowInv, RoundShape, RoundCurrent
    <2>3. CASE shows'[v] = shows[v]
      BY <2>1, <2>3
    <2>4. CASE shows'[v] # shows[v]
      <3>1. looks[v] = t.code /\ shows'[v] = new /\ ~(shows[v].is > t.has)
        BY <1>6, <1>9, <2>1, <2>4
      <3>2. shows'[v].code = t.code /\ shows'[v].is = t.has
        BY <3>1
      <3> QED
        BY <1>3, <1>7, <1>9, <2>1, <2>2, <3>1, <3>2
    <2> QED
      BY <2>3, <2>4
  <1> QED
    BY <1>5, <1>10, <1>11, <1>12 DEF FlowInv

LEMMA RoundTopStep == FlowInv /\ RoundTop => FlowInv'
  <1> SUFFICES ASSUME FlowInv, RoundTop PROVE FlowInv'
    OBVIOUS
  <1>1. /\ UNCHANGED <<data, watching, looks, sig, ws, tasks, fetched, update, shows, left, loose>>
        /\ phase = "top"
    BY DEF RoundTop
  <1>2. CASE watching = {}
    <2>1. phase' = "none" /\ UNCHANGED <<round, todo, drop>>
      BY <1>2 DEF RoundTop
    <2>2. FlowTypeOK'
      BY <1>1, <2>1 DEF FlowInv, FlowTypeOK
    <2> QED
      BY <1>1, <2>1, <2>2 DEF FlowInv, RoundShape, Lookers, RoundCurrent, NotAhead, Signed, Told,
                              SignatureIsShown
  <1>3. CASE watching # {}
    <2>1. PICK idle \in SUBSET watching :
              /\ drop' = idle /\ phase' = "load"
              /\ todo' = {w \in watching \ idle : looks[w] # Null}
              /\ round' = [w \in todo' |-> [code |-> looks[w], sig |-> sig[w], nth |-> left[w]]]
      BY <1>3 DEF RoundTop
    <2>2. DOMAIN round' = todo' /\ todo' \subseteq watching /\ watching \subseteq Watchers
      BY <2>1 DEF FlowInv, FlowTypeOK
    <2>3. \A w \in todo' : /\ round'[w].code = looks[w] /\ round'[w].sig = sig[w]
                           /\ round'[w].nth = left[w] /\ ws[w] = "loop" /\ looks[w] # Null
                           /\ round'[w] = [code |-> looks[w], sig |-> sig[w], nth |-> left[w]]
      BY <2>1, <2>2 DEF FlowInv, Lookers
    <2>4. \A w \in todo' : round'[w] \in [code : Codes, sig : Mark \cup {Null}, nth : 0 .. MaxSubs]
      BY <2>2, <2>3 DEF FlowInv, FlowTypeOK
    <2>5. FlowTypeOK'
      BY <1>1, <2>1, <2>2, <2>4 DEF FlowInv, FlowTypeOK, IsPartial
    <2>6. DOMAIN update = {}
      BY <1>1 DEF FlowInv, RoundShape
    <2>7. RoundShape' /\ Lookers'
      BY <1>1, <2>1, <2>2, <2>3, <2>6 DEF FlowInv, RoundShape, Lookers
    <2>8. RoundCurrent'
      BY <1>1, <2>2, <2>3, FlowAssumption DEF FlowInv, FlowTypeOK, RoundCurrent
    <2> QED
      BY <1>1, <2>1, <2>5, <2>6, <2>7, <2>8 DEF FlowInv, NotAhead, Signed, Told, SignatureIsShown
  <1> QED
    BY <1>2, <1>3

LEMMA RoundLoadsStep == FlowInv /\ RoundLoads => FlowInv'
  <1> SUFFICES ASSUME FlowInv, RoundLoads PROVE FlowInv'
    OBVIOUS
  <1>1. /\ UNCHANGED <<data, watching, looks, sig, ws, tasks, update, shows, left, loose>>
        /\ phase = "load" /\ todo = DOMAIN round /\ DOMAIN update = {}
    BY DEF RoundLoads, FlowInv, RoundShape
  <1>2. CASE phase' = "none" /\ round' = NoRound /\ todo' = {} /\ drop' = {} /\ UNCHANGED fetched
    <2>1. DOMAIN round' = {}
      BY <1>2 DEF NoRound
    <2>2. FlowTypeOK'
      BY <1>1, <1>2, <2>1 DEF FlowInv, FlowTypeOK, IsPartial
    <2> QED
      BY <1>1, <1>2, <2>1, <2>2 DEF FlowInv, RoundShape, Lookers, RoundCurrent, NotAhead, Signed,
                                    Told, SignatureIsShown
  <1>3. CASE /\ phase' = "send" /\ fetched' = [x \in {round[w].code : w \in todo} |-> data[x]]
             /\ UNCHANGED <<round, todo, drop>>
    <2>1. \A w \in DOMAIN round : /\ round[w].code \in Codes /\ round[w].code \in DOMAIN fetched'
                                 /\ fetched'[round[w].code] = data[round[w].code]
      BY <1>1, <1>3 DEF FlowInv, FlowTypeOK, IsPartial
    <2>2. IsPartial(fetched', Codes, Version)
      BY <1>1, <1>3 DEF FlowInv, FlowTypeOK, IsPartial
    <2>3. FlowTypeOK'
      BY <1>1, <1>3, <2>2 DEF FlowInv, FlowTypeOK
    <2>4. NotAhead'
      <3>1. \A w \in DOMAIN round : fetched'[round[w].code] <= data[round[w].code]
        BY <2>1, FlowAssumption DEF FlowInv, FlowTypeOK, Version
      <3>2. ASSUME NEW w \in DOMAIN round, Signed(w), left[w] = round[w].nth
            PROVE  sig[w].is <= fetched'[round[w].code]
        <4>1. looks[w] = round[w].code
          BY <3>2 DEF FlowInv, RoundCurrent, Signed
        <4>2. sig[w].code = looks[w] /\ sig[w].is <= data[sig[w].code]
          BY <3>2 DEF FlowInv, NotAhead, FlowTypeOK, IsPartial
        <4> QED
          BY <2>1, <4>1, <4>2
      <3>3. \A w \in Watchers : Signed(w)' = Signed(w)
        BY <1>1 DEF Signed
      <3>4. DOMAIN round \subseteq Watchers
        BY DEF FlowInv, FlowTypeOK, IsPartial
      <3> QED
        BY <1>1, <1>3, <2>1, <3>1, <3>2, <3>3, <3>4 DEF FlowInv, NotAhead
    <2> QED
      BY <1>1, <1>3, <2>3, <2>4 DEF FlowInv, RoundShape, Lookers, RoundCurrent, Told,
                                    SignatureIsShown
  <1> QED
    BY <1>2, <1>3 DEF RoundLoads

\* A payload is withheld only where the signature read at the top of the round
\* is still the client's, or will not be written as one it can rely on.
LEMMA RoundSendsStep ==
    ASSUME FlowInv, NEW w \in Watchers, RoundSends(w)
    PROVE  FlowInv'
  <1> DEFINE new == [code |-> round[w].code, is |-> fetched[round[w].code]]
  <1>1. /\ UNCHANGED <<data, watching, looks, sig, ws, tasks, phase, round, fetched, left, loose>>
        /\ phase = "send" /\ w \in todo /\ todo' = todo \ {w} /\ w \in DOMAIN round
    BY DEF RoundSends, FlowInv, RoundShape
  <1>2. /\ round[w].code \in Codes /\ fetched[round[w].code] \in Version
        /\ new \in Mark /\ new # Null /\ new.is \in Nat /\ new.code = round[w].code
        /\ shows \in [Watchers -> Mark \cup {Null}]
    <2>1. round[w].code \in Codes /\ shows \in [Watchers -> Mark \cup {Null}]
      BY <1>1 DEF FlowInv, FlowTypeOK, IsPartial
    <2>2. fetched[round[w].code] \in Version
      BY <1>1 DEF FlowInv, FlowTypeOK, IsPartial, NotAhead
    <2> QED
      BY <2>1, <2>2, NullAssumption DEF Mark, Version
  <1> HIDE DEF new
  <1>3. CASE drop' = drop \cup {w} /\ UNCHANGED <<update, shows>>
    <2>1. FlowTypeOK'
      BY <1>1, <1>3 DEF FlowInv, FlowTypeOK
    <2> QED
      BY <1>1, <1>3, <2>1 DEF FlowInv, RoundShape, Lookers, RoundCurrent, NotAhead, Signed, Told,
                              SignatureIsShown
  <1>4. CASE /\ update' = [v \in DOMAIN update \cup {w} |-> IF v = w THEN new ELSE update[v]]
             /\ IF round[w].sig # new THEN Receives(w, new.code, new.is) ELSE UNCHANGED shows
             /\ UNCHANGED drop
    <2>1. /\ DOMAIN update' = DOMAIN update \cup {w} /\ update'[w] = new
          /\ \A v \in DOMAIN update : v # w => update'[v] = update[v]
      BY <1>4
    <2>2. \A v \in Watchers : v # w => shows'[v] = shows[v]
      BY <1>2, <1>4 DEF Receives
    <2>3. shows'[w] # shows[w] => /\ round[w].sig # new /\ looks[w] = new.code
                                  /\ shows'[w] = new
      BY <1>2, <1>4 DEF Receives, new
    <2>4. shows' \in [Watchers -> Mark \cup {Null}]
      BY <1>2, <1>4 DEF Receives, new
    <2>5. FlowTypeOK'
      <3>1. IsPartial(update', Watchers, Mark)
        BY <1>2, <2>1 DEF FlowInv, FlowTypeOK, IsPartial
      <3> QED
        BY <1>1, <1>4, <2>4, <3>1 DEF FlowInv, FlowTypeOK
    <2>6. RoundShape' /\ Lookers' /\ RoundCurrent' /\ NotAhead'
      BY <1>1, <2>1 DEF FlowInv, RoundShape, Lookers, RoundCurrent, NotAhead, Signed
    <2>7. ASSUME w \in watching \ loose, sig[w] # Null
          PROVE  /\ left[w] = round[w].nth /\ looks[w] = new.code /\ sig[w] = round[w].sig
                 /\ sig[w].is <= new.is /\ sig[w].code = new.code /\ sig[w].is \in Nat
      <3>1. left[w] = round[w].nth /\ looks[w] = new.code /\ sig[w] = round[w].sig
        BY <1>1, <1>2, <2>7 DEF FlowInv, RoundCurrent
      <3>2. sig[w].is <= new.is /\ sig[w].code = new.code
        BY <1>1, <1>2, <2>7, <3>1 DEF FlowInv, NotAhead, Signed, new
      <3>3. sig[w].is \in Nat
        BY <2>7 DEF FlowInv, FlowTypeOK, Mark, Version
      <3> QED
        BY <3>1, <3>2, <3>3
    <2>8. SignatureIsShown'
      <3> SUFFICES ASSUME NEW v \in watching \ loose, ws[v] = "loop", sig[v] # Null
                   PROVE  /\ shows'[v] # Null
                          /\ shows'[v].code = sig[v].code /\ shows'[v].is >= sig[v].is
        BY <1>1 DEF SignatureIsShown
      <3>1. /\ v \in Watchers /\ shows[v] # Null
            /\ shows[v].code = sig[v].code /\ shows[v].is >= sig[v].is
        BY DEF FlowInv, SignatureIsShown, FlowTypeOK
      <3>2. CASE shows'[v] = shows[v]
        BY <3>1, <3>2
      <3>3. CASE shows'[v] # shows[v]
        <4>1. v = w /\ shows'[v] = new
          BY <2>2, <2>3, <3>1, <3>3
        <4> QED
          BY <1>2, <2>7, <4>1
      <3> QED
        BY <3>2, <3>3
    <2>9. Told'
      <3>1. ASSUME w \in watching \ loose, left[w] = round[w].nth
            PROVE  shows'[w] # Null /\ shows'[w].code = new.code /\ shows'[w].is >= new.is
        <4>1. ws[w] = "loop" /\ looks[w] = round[w].code /\ sig[w] = round[w].sig
          BY <1>1, <3>1 DEF FlowInv, RoundShape, RoundCurrent
        <4>2. CASE round[w].sig # new
          <5>1. shows' = [shows EXCEPT ![w] = [code |-> new.code, is |-> new.is]]
            BY <1>2, <1>4, <4>1, <4>2 DEF Receives
          <5> QED
            BY <1>2, <5>1 DEF new
        <4>3. CASE round[w].sig = new
          <5>1. shows' = shows /\ sig[w] = new
            BY <1>4, <4>1, <4>3
          <5> QED
            BY <1>2, <3>1, <4>1, <5>1 DEF FlowInv, SignatureIsShown
        <4> QED
          BY <4>2, <4>3
      <3>2. new = [code |-> round[w].code, is |-> fetched[round[w].code]]
        BY DEF new
      <3>3. DOMAIN update \subseteq Watchers
        BY DEF FlowInv, FlowTypeOK, IsPartial
      <3> QED
        BY <1>1, <2>1, <2>2, <3>1, <3>2, <3>3 DEF FlowInv, Told
    <2> QED
      BY <2>5, <2>6, <2>8, <2>9 DEF FlowInv
  <1> QED
    BY <1>3, <1>4 DEF RoundSends, new

\* The end of the round: a client that has not subscribed since is shown what
\* its new signature says.
LEMMA RoundWritesStep == FlowInv /\ RoundWrites => FlowInv'
  <1> SUFFICES ASSUME FlowInv, RoundWrites PROVE FlowInv'
    OBVIOUS
  <1> DEFINE told == watching' \cap DOMAIN update
  <1>1. /\ UNCHANGED <<data, looks, ws, tasks, todo, shows, left>>
        /\ phase = "send" /\ todo = {} /\ phase' = "top" /\ watching' \subseteq watching
        /\ round' = NoRound /\ fetched' = NoRound /\ update' = NoRound /\ drop' = {}
        /\ sig' = [w \in Watchers |-> IF w \in told THEN update[w] ELSE sig[w]]
        /\ loose' = loose \cup {w \in told : left[w] # round[w].nth}
    BY DEF RoundWrites
  <1>2. DOMAIN round' = {} /\ DOMAIN fetched' = {} /\ DOMAIN update' = {}
    BY <1>1 DEF NoRound
  <1>3. /\ watching \subseteq Watchers /\ DOMAIN update \subseteq DOMAIN round
        /\ \A w \in DOMAIN update : update[w] \in Mark
        /\ \A w \in DOMAIN round \cap watching : ws[w] = "loop"
    BY DEF FlowInv, FlowTypeOK, IsPartial, RoundShape
  <1>4. \A w \in Watchers : sig'[w] = IF w \in told THEN update[w] ELSE sig[w]
    BY <1>1
  <1>5. told \subseteq Watchers /\ told \subseteq watching /\ told \subseteq DOMAIN update
    BY <1>1, <1>3
  <1>6. FlowTypeOK'
    <2>1. sig' \in [Watchers -> Mark \cup {Null}] /\ loose' \subseteq Watchers
      BY <1>1, <1>3, <1>4, <1>5 DEF FlowInv, FlowTypeOK
    <2> QED
      BY <1>1, <1>2, <1>3, <2>1 DEF FlowInv, FlowTypeOK, IsPartial
  <1>7. ASSUME NEW w \in told, w \notin loose'
        PROVE  /\ ws[w] = "loop" /\ sig'[w] = update[w] /\ update[w].code = looks[w]
               /\ update[w].is <= data[looks[w]]
               /\ shows[w] # Null /\ shows[w].code = update[w].code /\ shows[w].is >= update[w].is
    <2>1. /\ w \in watching \ loose /\ left[w] = round[w].nth
          /\ w \in DOMAIN update /\ w \in DOMAIN round
      BY <1>1, <1>3, <1>5, <1>7
    <2>2. looks[w] = round[w].code /\ ws[w] = "loop"
      BY <1>3, <2>1 DEF FlowInv, RoundCurrent
    <2>3. update[w] = [code |-> round[w].code, is |-> fetched[round[w].code]]
      BY <2>1 DEF FlowInv, Told
    <2>4. fetched[round[w].code] <= data[round[w].code]
      BY <1>1, <2>1 DEF FlowInv, NotAhead
    <2>5. shows[w] # Null /\ shows[w].code = update[w].code /\ shows[w].is >= update[w].is
      BY <2>1 DEF FlowInv, Told
    <2> QED
      BY <1>4, <1>5, <2>2, <2>3, <2>4, <2>5
  <1> HIDE DEF told
  <1>8. RoundShape' /\ Lookers' /\ RoundCurrent'
    <2>1. \A w \in told : ws[w] = "loop"
      BY <1>3, <1>5
    <2> QED
      BY <1>1, <1>2, <1>4, <2>1 DEF FlowInv, RoundShape, Lookers, RoundCurrent
  <1>9. NotAhead'
    <2> SUFFICES ASSUME NEW w \in Watchers, Signed(w)'
                 PROVE  sig'[w].code = looks[w] /\ sig'[w].is <= data[sig'[w].code]
      BY <1>1, <1>2 DEF NotAhead
    <2>1. CASE w \in told
      BY <1>7, <2>1 DEF Signed
    <2>2. CASE w \notin told
      <3>1. sig'[w] = sig[w] /\ Signed(w)
        BY <1>1, <1>4, <2>2 DEF Signed
      <3> QED
        BY <3>1 DEF FlowInv, NotAhead
    <2> QED
      BY <2>1, <2>2
  <1>10. SignatureIsShown'
    <2> SUFFICES ASSUME NEW w \in watching' \ loose', ws[w] = "loop", sig'[w] # Null
                 PROVE  /\ shows[w] # Null
                        /\ shows[w].code = sig'[w].code /\ shows[w].is >= sig'[w].is
      BY <1>1 DEF SignatureIsShown
    <2>1. CASE w \in told
      BY <1>7, <2>1
    <2>2. CASE w \notin told
      <3>1. sig'[w] = sig[w] /\ w \in watching \ loose
        BY <1>1, <1>3, <1>4, <2>2
      <3> QED
        BY <3>1 DEF FlowInv, SignatureIsShown
    <2> QED
      BY <2>1, <2>2
  <1> QED
    BY <1>2, <1>6, <1>8, <1>9, <1>10 DEF FlowInv, Told

LEMMA FlowStep == FlowInv /\ [FlowNext]_flowVars => FlowInv'
  <1> SUFFICES ASSUME FlowInv, [FlowNext]_flowVars PROVE FlowInv'
    OBVIOUS
  <1>1. ASSUME NEW x \in Codes, DataChanges(x) PROVE FlowInv'
    BY <1>1, DataChangesStep
  <1>2. ASSUME NEW w \in Watchers,
               WatcherConnects(w) \/ WatcherAccepted(w) \/ WatcherLeaves(w) \/ RoundSends(w)
        PROVE  FlowInv'
    BY <1>2, WatcherConnectsStep, WatcherAcceptedStep, WatcherLeavesStep, RoundSendsStep
  <1>3. ASSUME NEW w \in Watchers, NEW c \in Codes \cup {Null}, UpdateCode(w, c) PROVE FlowInv'
    BY <1>3, UpdateCodeStep
  <1>4. ASSUME NEW t \in tasks, SnapshotLoads(t) \/ SnapshotSends(t) PROVE FlowInv'
    BY <1>4, SnapshotLoadsStep, SnapshotSendsStep
  <1>5. CASE RoundTop \/ RoundLoads \/ RoundWrites
    BY <1>5, RoundTopStep, RoundLoadsStep, RoundWritesStep
  <1>6. CASE UNCHANGED flowVars
    BY <1>6 DEF flowVars, FlowInv, FlowTypeOK, RoundShape, Lookers, RoundCurrent, NotAhead, Signed,
                Told, SignatureIsShown
  <1> QED
    BY <1>1, <1>2, <1>3, <1>4, <1>5, <1>6 DEF FlowNext

\* The hub is well typed: every round, task and signature speaks of a code.
THEOREM FlowTypeCorrect == FlowSpec => []FlowTypeOK
  <1>1. FlowInv => FlowTypeOK
    BY DEF FlowInv
  <1> QED
    BY <1>1, FlowInitInv, FlowStep, PTL DEF FlowSpec

\* part01 2660-2671, 2780-2825: what is withheld from a client because its
\* signature is unchanged is something the client shows, whatever it subscribes
\* to while a round, a load or its first snapshot is under way, but for the
\* clients named loose.
THEOREM SignaturesAreShown == FlowSpec => []SignatureIsShown
  <1>1. FlowInv => SignatureIsShown
    BY DEF FlowInv
  <1> QED
    BY <1>1, FlowInitInv, FlowStep, PTL DEF FlowSpec

-----------------------------------------------------------------------------
(* The home page: what a section's hash stands for.  The invariant names,  *)
(* for a hash that a broadcast set, the number of that broadcast.          *)

\* Every refresh is pushed and broadcast at most once.
Budget == seq + Len(queue) + (IF pushing = NoPayload THEN 0 ELSE 1) <= refreshes

\* No number is used before it is given out.
Numbered ==
    /\ \A b \in out : b.seq <= seq
    /\ \A c \in Clients : mail[c].seq <= seq
    /\ \A c \in Clients, s \in Sections : view[c][s].seq <= seq

\* A connection that has not been accepted is nobody's audience, and one that
\* is being greeted has no other message built.
Registered ==
    \A c \in Clients :
        /\ conn[c] = "new" => c \notin clients /\ late[c] = "none"
                              /\ \A s \in Sections : c \notin audience[s]
        /\ conn[c] = "greet" => late[c] \in {"none", "fetch"}

\* The last broadcast that set the hash of s had the number n: nothing later
\* carries s, and each of its audience shows it or is still to get it.
SetBy(s, n) ==
    /\ \A c \in Clients :
        /\ view[c][s].seq <= n
        /\ view[c][s].seq = n => view[c][s].is = hash[s]
        /\ late[c] # "build" /\ s \in DOMAIN mail[c].msgs => mail[c].seq < n
    /\ \A b \in out : s \in DOMAIN b.msgs =>
            b.seq < n \/ (b.seq = n /\ b.msgs[s] = hash[s])
    /\ \A c \in (audience[s] \cap clients) \ gone :
        \/ view[c][s].seq = n
        \/ \E b \in out : b.seq = n /\ s \in DOMAIN b.msgs /\ (b.listed => c \in b.to)

Settled == \A s \in Sections : audience[s] # {} => \E n \in 1 .. seq : SetBy(s, n)

HomeWsInv == HomeWsTypeOK /\ Budget /\ Numbered /\ Registered /\ Settled

LEMMA PayloadType ==
    /\ \A pay \in Payloads : /\ DOMAIN pay \subseteq Sections
                             /\ \A s \in DOMAIN pay : pay[s] \in 1 .. MaxRefresh
    /\ \A ss \in SUBSET Sections : \A f \in [ss -> 1 .. MaxRefresh] : f \in Payloads
    /\ NoPayload \in Payloads /\ DOMAIN NoPayload = {}
  <1>1. NoPayload \in [{} -> 1 .. MaxRefresh] /\ DOMAIN NoPayload = {}
    BY DEF NoPayload
  <1> QED
    BY <1>1 DEF Payloads

LEMMA MessagesType ==
    ASSUME NEW pay \in Payloads, NEW n \in 0 .. MaxRefresh
    PROVE  /\ Messages(pay, n) \in Mails /\ Messages(pay, n).seq = n
           /\ DOMAIN Messages(pay, n).msgs = Changed(pay)
           /\ \A s \in Changed(pay) : Messages(pay, n).msgs[s] = pay[s] /\ s \in Sections
  <1>1. Changed(pay) \subseteq Sections /\ \A s \in Changed(pay) : pay[s] \in 1 .. MaxRefresh
    BY PayloadType DEF Changed
  <1>2. [s \in Changed(pay) |-> pay[s]] \in Payloads
    BY <1>1, PayloadType
  <1> QED
    BY <1>1, <1>2 DEF Messages, Mails

\* Building moves the hash and the audience of the sections that changed.
LEMMA BuildType ==
    ASSUME HomeWsTypeOK, NEW pay \in Payloads, NEW whom \in SUBSET Clients, BuildFor(pay, whom)
    PROVE  /\ hash' \in [Sections -> 0 .. MaxRefresh] /\ audience' \in [Sections -> SUBSET Clients]
           /\ \A s \in Changed(pay) : s \in Sections /\ hash'[s] = pay[s] /\ audience'[s] = whom
           /\ \A s \in Sections \ Changed(pay) : hash'[s] = hash[s] /\ audience'[s] = audience[s]
  <1>1. /\ Changed(pay) \subseteq Sections /\ \A s \in Changed(pay) : pay[s] \in 0 .. MaxRefresh
    BY PayloadType, HomeWsAssumption DEF Changed
  <1> QED
    BY <1>1 DEF BuildFor, HomeWsTypeOK

\* A message replaces what is shown unless it is older.
LEMMA ShownIs ==
    ASSUME HomeWsTypeOK, NEW c \in Clients, NEW m,
           m.seq \in 0 .. MaxRefresh, m.msgs \in Payloads, view' = [view EXCEPT ![c] = Shown(c, m)]
    PROVE  /\ view' \in [Clients -> [Sections -> [seq : 0 .. MaxRefresh, is : 0 .. MaxRefresh]]]
           /\ \A d \in Clients \ {c} : view'[d] = view[d]
           /\ \A s \in Sections :
                IF s \in DOMAIN m.msgs /\ m.seq >= view[c][s].seq
                THEN view'[c][s].seq = m.seq /\ view'[c][s].is = m.msgs[s]
                ELSE view'[c][s] = view[c][s]
  <1> DEFINE V == [seq : 0 .. MaxRefresh, is : 0 .. MaxRefresh]
  <1>1. view \in [Clients -> [Sections -> V]]
    BY DEF HomeWsTypeOK
  <1>2. ASSUME NEW s \in DOMAIN m.msgs PROVE [seq |-> m.seq, is |-> m.msgs[s]] \in V
    BY PayloadType, HomeWsAssumption
  <1>3. Shown(c, m) \in [Sections -> V]
    BY <1>1, <1>2 DEF Shown
  <1>4. view'[c] = Shown(c, m)
    BY <1>1
  <1> QED
    BY <1>1, <1>3, <1>4 DEF Shown

LEMMA ShownType ==
    ASSUME HomeWsTypeOK, NEW c \in Clients, NEW m,
           m.seq \in 0 .. MaxRefresh, m.msgs \in Payloads, view' = [view EXCEPT ![c] = Shown(c, m)]
    PROVE  /\ view' \in [Clients -> [Sections -> [seq : 0 .. MaxRefresh, is : 0 .. MaxRefresh]]]
           /\ \A d \in Clients \ {c} : view'[d] = view[d]
           /\ \A s \in Sections : view'[c][s].seq = m.seq \/ view'[c][s] = view[c][s]
  <1> USE ShownIs
  <1>1. ASSUME NEW s \in Sections PROVE view'[c][s].seq = m.seq \/ view'[c][s] = view[c][s]
    <2>1. CASE s \in DOMAIN m.msgs /\ m.seq >= view[c][s].seq
      BY <2>1
    <2>2. CASE ~(s \in DOMAIN m.msgs /\ m.seq >= view[c][s].seq)
      BY <2>2
    <2> QED
      BY <2>1, <2>2
  <1> QED
    BY <1>1

\* Delivering a message that is older than n, or is the one that set the hash,
\* spoils no view.
LEMMA Delivered ==
    ASSUME HomeWsTypeOK, NEW c \in Clients, NEW m,
           m.seq \in 0 .. MaxRefresh, m.msgs \in Payloads, view' = [view EXCEPT ![c] = Shown(c, m)],
           NEW s \in Sections, NEW n \in Nat,
           s \in DOMAIN m.msgs => m.seq < n \/ (m.seq = n /\ m.msgs[s] = hash[s]),
           \A d \in Clients : view[d][s].seq <= n /\ (view[d][s].seq = n => view[d][s].is = hash[s])
    PROVE  /\ \A d \in Clients :
                /\ view'[d][s].seq <= n
                /\ view'[d][s].seq = n => view'[d][s].is = hash[s]
                /\ view[d][s].seq = n => view'[d][s].seq = n
           /\ s \in DOMAIN m.msgs /\ m.seq = n => view'[c][s].seq = n
  <1>1. /\ \A d \in Clients \ {c} : view'[d] = view[d]
        /\ IF s \in DOMAIN m.msgs /\ m.seq >= view[c][s].seq
           THEN view'[c][s].seq = m.seq /\ view'[c][s].is = m.msgs[s]
           ELSE view'[c][s] = view[c][s]
    BY ShownIs
  <1>2. \A d \in Clients : view[d][s].seq \in Nat
    BY DEF HomeWsTypeOK
  <1> QED
    BY <1>1, <1>2

\* The same for the messages of a greeting, which may be lost.
LEMMA MailDelivered ==
    ASSUME HomeWsTypeOK, NEW c \in Clients,
           view' = view \/ view' = [view EXCEPT ![c] = Shown(c, mail[c])],
           NEW s \in Sections, NEW n \in Nat,
           s \in DOMAIN mail[c].msgs => mail[c].seq < n,
           \A d \in Clients : view[d][s].seq <= n /\ (view[d][s].seq = n => view[d][s].is = hash[s])
    PROVE  \A d \in Clients :
                /\ view'[d][s].seq <= n
                /\ view'[d][s].seq = n => view'[d][s].is = hash[s]
                /\ view[d][s].seq = n => view'[d][s].seq = n
  <1>1. CASE view' = view
    BY <1>1
  <1>2. CASE view' = [view EXCEPT ![c] = Shown(c, mail[c])]
    <2>1. mail[c].seq \in 0 .. MaxRefresh /\ mail[c].msgs \in Payloads
      BY DEF HomeWsTypeOK, Mails
    <2>2. /\ \A d \in Clients \ {c} : view'[d] = view[d]
          /\ IF s \in DOMAIN mail[c].msgs /\ mail[c].seq >= view[c][s].seq
             THEN view'[c][s].seq = mail[c].seq
             ELSE view'[c][s] = view[c][s]
      <3> USE DEF Shown
      <3>1. view \in [Clients -> [Sections -> [seq : 0 .. MaxRefresh, is : 0 .. MaxRefresh]]]
        BY DEF HomeWsTypeOK
      <3> QED
        BY <1>2, <3>1
    <2>3. \A d \in Clients : view[d][s].seq \in Nat
      BY DEF HomeWsTypeOK
    <2> QED
      BY <2>1, <2>2, <2>3
  <1> QED
    BY <1>1, <1>2

LEMMA HomeWsInitInv == HomeWsInit => HomeWsInv
  <1> SUFFICES ASSUME HomeWsInit PROVE HomeWsInv
    OBVIOUS
  <1>1. snapshot \in Payloads
    <2> DEFINE ss == IF refreshes = 0 THEN {} ELSE Sections
    <2>1. ss \in SUBSET Sections /\ snapshot \in [ss -> 1 .. MaxRefresh]
      BY HomeWsAssumption DEF HomeWsInit
    <2> QED
      BY <2>1, PayloadType
  <1>2. NoMail \in Mails /\ DOMAIN NoMail.msgs = {} /\ NoMail.seq = 0
    BY PayloadType, HomeWsAssumption DEF NoMail, Mails
  <1>3. HomeWsTypeOK
    <2>1. /\ queue \in Seq(Payloads) /\ pushing \in Payloads
          /\ mail \in [Clients -> Mails] /\ out \subseteq Flights
      BY <1>2, PayloadType DEF HomeWsInit
    <2>2. Blank \in [Sections -> [seq : 0 .. MaxRefresh, is : 0 .. MaxRefresh]]
      BY HomeWsAssumption DEF Blank
    <2>3. view \in [Clients -> [Sections -> [seq : 0 .. MaxRefresh, is : 0 .. MaxRefresh]]]
      BY <2>2 DEF HomeWsInit
    <2>4. /\ refreshes \in 0 .. MaxRefresh /\ seq \in 0 .. MaxRefresh
          /\ hash \in [Sections -> 0 .. MaxRefresh] /\ audience \in [Sections -> SUBSET Clients]
      BY HomeWsAssumption DEF HomeWsInit
    <2> QED
      BY <1>1, <2>1, <2>3, <2>4 DEF HomeWsInit, HomeWsTypeOK
  <1>4. Budget /\ Numbered /\ Registered
    BY <1>2 DEF HomeWsInit, Budget, Numbered, Registered, Blank
  <1>5. Settled
    BY DEF HomeWsInit, Settled
  <1> QED
    BY <1>3, <1>4, <1>5 DEF HomeWsInv

\* What stands when neither messages, views, hashes nor clients change.
LEMMA SettledStands ==
    ASSUME Settled, UNCHANGED <<seq, hash, clients, gone, late, mail, out, view, audience>>
    PROVE  Settled'
  BY DEF Settled, SetBy

LEMMA HomeRefreshStep == HomeWsInv /\ Refresh => HomeWsInv'
  <1> SUFFICES ASSUME HomeWsInv, Refresh PROVE HomeWsInv'
    OBVIOUS
  <1>1. /\ UNCHANGED <<queue, seq, recent, hash, clients, gone, conn, late, mail, out,
                       view, audience>>
        /\ refreshes' = refreshes + 1 /\ refreshes < MaxRefresh /\ pushing = NoPayload
        /\ pushing' = snapshot'
    BY DEF Refresh
  <1>2. refreshes \in 0 .. MaxRefresh /\ MaxRefresh \in Nat
    BY HomeWsAssumption DEF HomeWsInv, HomeWsTypeOK
  <1>3. snapshot' \in Payloads
    <2>0. PICK ss \in SUBSET Sections : \E new \in SUBSET ss :
              snapshot' = [s \in ss |-> IF s \in new \/ s \notin DOMAIN snapshot
                                        THEN refreshes + 1 ELSE snapshot[s]]
      BY DEF Refresh
    <2>1. PICK new \in SUBSET ss :
              snapshot' = [s \in ss |-> IF s \in new \/ s \notin DOMAIN snapshot
                                        THEN refreshes + 1 ELSE snapshot[s]]
      BY <2>0
    <2>2. \A s \in DOMAIN snapshot : snapshot[s] \in 1 .. MaxRefresh
      BY PayloadType DEF HomeWsInv, HomeWsTypeOK
    <2>3. snapshot' \in [ss -> 1 .. MaxRefresh]
      BY <1>1, <1>2, <2>1, <2>2
    <2> QED
      BY <2>3, PayloadType
  <1>4. HomeWsTypeOK'
    BY <1>1, <1>2, <1>3 DEF HomeWsInv, HomeWsTypeOK
  <1>5. Budget'
    <2>1. Len(queue) \in Nat /\ seq \in Nat
      BY DEF HomeWsInv, HomeWsTypeOK
    <2>2. seq + Len(queue) <= refreshes
      BY <1>1, <2>1 DEF HomeWsInv, Budget
    <2> QED
      BY <1>1, <1>2, <2>1, <2>2 DEF Budget
  <1>6. Numbered' /\ Registered' /\ Settled'
    BY <1>1, SettledStands DEF HomeWsInv, Numbered, Registered
  <1> QED
    BY <1>4, <1>5, <1>6 DEF HomeWsInv

LEMMA PushStep == HomeWsInv /\ (Push \/ IntervalPasses) => HomeWsInv'
  <1> SUFFICES ASSUME HomeWsInv, Push \/ IntervalPasses PROVE HomeWsInv'
    OBVIOUS
  <1>1. UNCHANGED <<snapshot, refreshes, seq, hash, clients, gone, conn, late, mail, out, view,
                    audience>>
    BY DEF Push, IntervalPasses
  <1>2. /\ pushing \in Payloads /\ queue \in Seq(Payloads) /\ seq \in Nat /\ refreshes \in Nat
        /\ Len(queue) \in Nat
    BY DEF HomeWsInv, HomeWsTypeOK
  <1>3. CASE Push
    <2>1. /\ pushing # NoPayload /\ pushing' = NoPayload /\ recent' = recent
          /\ queue' = queue \/ queue' = Append(queue, pushing)
      BY <1>3 DEF Push
    <2>2. queue' \in Seq(Payloads) /\ Len(queue') \in Nat /\ Len(queue') <= Len(queue) + 1
      BY <1>2, <2>1
    <2>3. HomeWsTypeOK'
      BY <1>1, <2>1, <2>2, PayloadType DEF HomeWsInv, HomeWsTypeOK
    <2>4. Budget'
      BY <1>1, <1>2, <2>1, <2>2 DEF HomeWsInv, Budget
    <2> QED
      BY <1>1, <2>3, <2>4, SettledStands DEF HomeWsInv, Numbered, Registered
  <1>4. CASE IntervalPasses
    <2>1. recent' = FALSE /\ UNCHANGED <<pushing, queue>>
      BY <1>4 DEF IntervalPasses
    <2>2. HomeWsTypeOK'
      BY <1>1, <2>1 DEF HomeWsInv, HomeWsTypeOK
    <2> QED
      BY <1>1, <2>1, <2>2, SettledStands DEF HomeWsInv, Budget, Numbered, Registered
  <1> QED
    BY <1>3, <1>4

\* A broadcast is the newest message of the sections that changed, and those
\* are the ones whose hash it sets.
LEMMA BroadcastStep == HomeWsInv /\ Broadcast => HomeWsInv'
  <1> SUFFICES ASSUME HomeWsInv, Broadcast PROVE HomeWsInv'
    OBVIOUS
  <1> DEFINE pay == Head(queue)
             msg == Messages(pay, seq + 1)
  <1>1. /\ UNCHANGED <<snapshot, refreshes, pushing, gone, conn, late, mail, view>>
        /\ queue # <<>> /\ queue' = Tail(queue) /\ seq' = seq + 1 /\ recent' = TRUE
    BY DEF Broadcast
  <1>2. PICK silent \in SUBSET clients :
            /\ BuildFor(pay, clients \ silent) /\ clients' = clients \ silent
            /\ out' = out \cup {[seq |-> seq', msgs |-> Messages(pay, seq').msgs, dead |-> {},
                                 listed |-> silent = {},
                                 to |-> IF silent = {} THEN clients ELSE {}]}
    BY DEF Broadcast
  <1> DEFINE new == [seq |-> seq + 1, msgs |-> msg.msgs, dead |-> {},
                     listed |-> silent = {}, to |-> IF silent = {} THEN clients ELSE {}]
  <1>3. /\ queue \in Seq(Payloads) /\ seq \in Nat /\ refreshes \in 0 .. MaxRefresh
        /\ clients \subseteq Clients /\ MaxRefresh \in Nat
    BY HomeWsAssumption DEF HomeWsInv, HomeWsTypeOK
  <1>4. /\ pay \in Payloads /\ queue' \in Seq(Payloads) /\ Len(queue') = Len(queue) - 1
        /\ Len(queue) \in Nat /\ Len(queue) >= 1
    BY <1>1, <1>3
  <1>5. seq + 1 \in 1 .. MaxRefresh /\ Budget'
    BY <1>1, <1>3, <1>4 DEF HomeWsInv, Budget
  <1>6. /\ msg \in Mails /\ msg.seq = seq + 1 /\ DOMAIN msg.msgs = Changed(pay)
        /\ \A s \in Changed(pay) : msg.msgs[s] = pay[s]
    BY <1>4, <1>5, MessagesType
  <1>7. /\ hash' \in [Sections -> 0 .. MaxRefresh] /\ audience' \in [Sections -> SUBSET Clients]
        /\ \A s \in Changed(pay) : hash'[s] = pay[s] /\ audience'[s] = clients \ silent
        /\ \A s \in Sections \ Changed(pay) : hash'[s] = hash[s] /\ audience'[s] = audience[s]
    <2>1. HomeWsTypeOK
      BY DEF HomeWsInv
    <2> HIDE DEF pay
    <2> QED
      BY <1>2, <1>3, <1>4, <2>1, BuildType
  <1> HIDE DEF pay, msg
  <1>8. /\ out' = out \cup {new} /\ new \in Flights /\ new.seq = seq + 1
        /\ new.msgs = msg.msgs /\ (new.listed => new.to = clients)
        /\ clients' = clients \ silent /\ (new.listed => silent = {})
    BY <1>1, <1>2, <1>3, <1>5, <1>6 DEF Flights, Mails, msg
  <1> HIDE DEF new
  <1>9. HomeWsTypeOK'
    BY <1>1, <1>3, <1>4, <1>5, <1>7, <1>8 DEF HomeWsInv, HomeWsTypeOK
  <1>10. Numbered'
    <2>1. /\ \A b \in out : b.seq \in Nat
          /\ \A c \in Clients : mail[c].seq \in Nat
          /\ \A c \in Clients, s \in Sections : view[c][s].seq \in Nat
      BY DEF HomeWsInv, HomeWsTypeOK, Flights, Mails
    <2> QED
      <3>1. \A b \in out' : b.seq <= seq'
        BY <1>1, <1>3, <1>8, <2>1 DEF HomeWsInv, Numbered
      <3>2. /\ \A c \in Clients : mail'[c].seq <= seq'
            /\ \A c \in Clients, s \in Sections : view'[c][s].seq <= seq'
        BY <1>1, <1>3, <2>1 DEF HomeWsInv, Numbered
      <3> QED
        BY <3>1, <3>2 DEF Numbered
  <1>11. Registered'
    BY <1>1, <1>3, <1>7, <1>8 DEF HomeWsInv, Registered
  <1>12. ASSUME NEW s \in Changed(pay), s \in Sections, NEW n \in Nat, n = seq + 1
         PROVE  SetBy(s, n)'
    <2>1. \A c \in Clients : /\ view[c][s].seq \in Nat /\ view[c][s].seq <= seq
                             /\ mail[c].seq \in Nat /\ mail[c].seq <= seq
      BY <1>12 DEF HomeWsInv, Numbered, HomeWsTypeOK, Mails
    <2>2. \A b \in out : b.seq \in Nat /\ b.seq <= seq
      BY DEF HomeWsInv, Numbered, HomeWsTypeOK, Flights
    <2>3. \A b \in out' : s \in DOMAIN b.msgs =>
              b.seq < n \/ (b.seq = n /\ b.msgs[s] = hash'[s])
      BY <1>3, <1>6, <1>7, <1>8, <1>12, <2>2
    <2>4. \A c \in audience'[s] : \E b \in out' :
              b.seq = n /\ s \in DOMAIN b.msgs /\ (b.listed => c \in b.to)
      BY <1>6, <1>7, <1>8, <1>12
    <2>5. \A c \in Clients : /\ view'[c][s].seq <= n /\ view'[c][s].seq # n
                             /\ mail'[c].seq < n
      BY <1>1, <1>3, <1>12, <2>1
    <2> QED
      BY <1>1, <2>3, <2>4, <2>5 DEF SetBy
  <1>13. ASSUME NEW s \in Sections \ Changed(pay), NEW n \in Nat, SetBy(s, n) PROVE SetBy(s, n)'
    <2>1. s \notin DOMAIN new.msgs /\ hash'[s] = hash[s] /\ audience'[s] = audience[s]
      BY <1>6, <1>7, <1>8
    <2>2. clients' \subseteq clients /\ out \subseteq out' /\ \A b \in out' : b \in out \/ b = new
      BY <1>8
    <2> QED
      BY <1>1, <1>13, <2>1, <2>2 DEF SetBy
  <1>14. Settled'
    <2> SUFFICES ASSUME NEW s \in Sections, audience'[s] # {}
                 PROVE  \E n \in 1 .. seq' : SetBy(s, n)'
      BY DEF Settled
    <2>1. CASE s \in Changed(pay)
      <3>1. PICK n \in Nat : n = seq + 1
        BY <1>3
      <3>2. SetBy(s, n)' /\ n \in 1 .. seq'
        BY <1>1, <1>3, <1>12, <2>1, <3>1
      <3> QED
        BY <3>2
    <2>2. CASE s \notin Changed(pay)
      <3>1. PICK n \in 1 .. seq : SetBy(s, n)
        BY <1>7, <2>2 DEF HomeWsInv, Settled
      <3>2. n \in Nat /\ n \in 1 .. seq'
        BY <1>1, <1>3
      <3> QED
        BY <1>13, <2>2, <3>1, <3>2
    <2> QED
      BY <2>1, <2>2
  <1> QED
    BY <1>5, <1>9, <1>10, <1>11, <1>14 DEF HomeWsInv

\* A step that sets no hash is judged section by section.
LEMMA KeepSettled ==
    ASSUME HomeWsInv, UNCHANGED <<seq, audience>>,
           \A s \in Sections : \A n \in Nat \ {0} : audience[s] # {} /\ SetBy(s, n) => SetBy(s, n)'
    PROVE  Settled'
  <1> SUFFICES ASSUME NEW s \in Sections, audience[s] # {}
               PROVE  \E n \in 1 .. seq : SetBy(s, n)'
    BY DEF Settled
  <1>1. PICK n \in 1 .. seq : SetBy(s, n)
    BY DEF HomeWsInv, Settled
  <1>2. n \in Nat \ {0}
    BY DEF HomeWsInv, HomeWsTypeOK
  <1> QED
    BY <1>1, <1>2

\* One broadcast among those under way is replaced by itself, further on.
LEMMA Replaced ==
    ASSUME HomeWsInv, NEW b \in out, NEW b1, b1 \in Flights, b1.seq = b.seq, b1.msgs = b.msgs,
           out' = (out \ {b}) \cup {b1}
    PROVE  /\ out' \subseteq Flights /\ \A a \in out' : a.seq <= seq
           /\ \A s \in Sections, n \in Nat : SetBy(s, n) =>
                \A a \in out' : s \in DOMAIN a.msgs =>
                    a.seq < n \/ (a.seq = n /\ a.msgs[s] = hash[s])
  <1>1. b1 \in out' /\ \A a \in out' : a = b1 \/ a \in out
    OBVIOUS
  <1> QED
    BY <1>1 DEF HomeWsInv, HomeWsTypeOK, Numbered, SetBy

LEMMA PrunedStep ==
    ASSUME HomeWsInv, NEW b \in out, Pruned(b)
    PROVE  HomeWsInv'
  <1> DEFINE b1 == [b EXCEPT !.listed = TRUE, !.to = clients]
  <1>1. /\ UNCHANGED <<snapshot, refreshes, pushing, queue, seq, recent, hash, clients, gone,
                       conn, late, mail, view, audience>>
        /\ ~b.listed /\ out' = (out \ {b}) \cup {b1}
    BY DEF Pruned
  <1>2. b \in Flights /\ clients \subseteq Clients
    BY DEF HomeWsInv, HomeWsTypeOK
  <1>3. /\ b1 \in Flights /\ b1.seq = b.seq /\ b1.msgs = b.msgs /\ b1.to = clients
    BY <1>2 DEF Flights
  <1> HIDE DEF b1
  <1>4. /\ out' \subseteq Flights /\ \A a \in out' : a.seq <= seq
        /\ \A s \in Sections, n \in Nat : SetBy(s, n) =>
                \A a \in out' : s \in DOMAIN a.msgs =>
                    a.seq < n \/ (a.seq = n /\ a.msgs[s] = hash[s])
    BY <1>1, <1>3, Replaced
  <1>5. HomeWsTypeOK' /\ Budget' /\ Numbered' /\ Registered'
    BY <1>1, <1>4 DEF HomeWsInv, HomeWsTypeOK, Budget, Numbered, Registered
  <1>6. ASSUME NEW s \in Sections, NEW n \in Nat, SetBy(s, n) PROVE SetBy(s, n)'
    <2>1. ASSUME NEW c \in clients, NEW a \in out,
                 a.seq = n, s \in DOMAIN a.msgs, a.listed => c \in a.to
          PROVE  \E a1 \in out' : a1.seq = n /\ s \in DOMAIN a1.msgs /\ (a1.listed => c \in a1.to)
      BY <1>1, <1>3, <2>1
    <2> QED
      BY <1>1, <1>4, <1>6, <2>1 DEF SetBy
  <1>7. Settled'
    BY <1>1, <1>6, KeepSettled
  <1> QED
    BY <1>5, <1>7 DEF HomeWsInv

LEMMA SendStep ==
    ASSUME HomeWsInv, NEW b \in out, NEW c \in b.to, Send(b, c)
    PROVE  HomeWsInv'
  <1>1. /\ UNCHANGED <<snapshot, refreshes, pushing, queue, seq, recent, hash, clients, gone,
                       conn, late, mail, audience>>
        /\ b.listed
    BY DEF Send
  <1>2. b \in Flights /\ c \in Clients /\ HomeWsTypeOK
    BY DEF HomeWsInv, HomeWsTypeOK, Flights
  <1>3. PICK b1 \in Flights : /\ b1.seq = b.seq /\ b1.msgs = b.msgs /\ b1.listed
                              /\ b1.to = b.to \ {c} /\ out' = (out \ {b}) \cup {b1}
    <2>1. CASE c \in gone
      <3> DEFINE b1 == [b EXCEPT !.to = @ \ {c}, !.dead = @ \cup {c}]
      <3>1. /\ b1 \in Flights /\ b1.seq = b.seq /\ b1.msgs = b.msgs /\ b1.listed
            /\ b1.to = b.to \ {c}
        BY <1>1, <1>2 DEF Flights
      <3>2. out' = (out \ {b}) \cup {b1}
        BY <2>1 DEF Send
      <3> HIDE DEF b1
      <3> QED
        BY <3>1, <3>2
    <2>2. CASE c \notin gone
      <3> DEFINE b1 == [b EXCEPT !.to = @ \ {c}]
      <3>1. /\ b1 \in Flights /\ b1.seq = b.seq /\ b1.msgs = b.msgs /\ b1.listed
            /\ b1.to = b.to \ {c}
        BY <1>1, <1>2 DEF Flights
      <3>2. out' = (out \ {b}) \cup {b1}
        BY <2>2 DEF Send
      <3> HIDE DEF b1
      <3> QED
        BY <3>1, <3>2
    <2> QED
      BY <2>1, <2>2
  <1>4. /\ out' \subseteq Flights /\ \A a \in out' : a.seq <= seq
        /\ \A s \in Sections, n \in Nat : SetBy(s, n) =>
                \A a \in out' : s \in DOMAIN a.msgs =>
                    a.seq < n \/ (a.seq = n /\ a.msgs[s] = hash[s])
    BY <1>3, Replaced
  <1>5. CASE c \in gone
    <2>1. view' = view
      BY <1>5 DEF Send
    <2>2. HomeWsTypeOK' /\ Budget' /\ Numbered' /\ Registered'
      BY <1>1, <1>4, <2>1 DEF HomeWsInv, HomeWsTypeOK, Budget, Numbered, Registered
    <2>3. ASSUME NEW s \in Sections, NEW n \in Nat, SetBy(s, n) PROVE SetBy(s, n)'
      <3>1. ASSUME NEW d \in (audience[s] \cap clients) \ gone, NEW a \in out,
                   a.seq = n, s \in DOMAIN a.msgs, a.listed => d \in a.to
            PROVE  \E a1 \in out' : a1.seq = n /\ s \in DOMAIN a1.msgs /\ (a1.listed => d \in a1.to)
        BY <1>1, <1>3, <1>5, <3>1
      <3> QED
        BY <1>1, <1>4, <2>1, <2>3, <3>1 DEF SetBy
    <2>4. Settled'
      BY <1>1, <2>3, KeepSettled
    <2> QED
      BY <2>2, <2>4 DEF HomeWsInv
  <1>6. CASE c \notin gone
    <2>1. /\ view' = [view EXCEPT ![c] = Shown(c, b)]
          /\ b.seq \in 0 .. MaxRefresh /\ b.msgs \in Payloads
      BY <1>2, <1>6 DEF Send, Flights
    <2>2. /\ view' \in [Clients -> [Sections -> [seq : 0 .. MaxRefresh, is : 0 .. MaxRefresh]]]
          /\ \A d \in Clients \ {c} : view'[d] = view[d]
          /\ \A s \in Sections :
                view'[c][s].seq = b.seq \/ view'[c][s] = view[c][s]
      BY <1>2, <2>1, ShownType
    <2>3. HomeWsTypeOK' /\ Budget' /\ Registered'
      BY <1>1, <1>4, <2>2 DEF HomeWsInv, HomeWsTypeOK, Budget, Registered
    <2>4. Numbered'
      BY <1>1, <1>2, <1>4, <2>2 DEF HomeWsInv, Numbered
    <2>5. ASSUME NEW s \in Sections, NEW n \in Nat, SetBy(s, n) PROVE SetBy(s, n)'
      <3>1. /\ \A d \in Clients :
                /\ view'[d][s].seq <= n
                /\ view'[d][s].seq = n => view'[d][s].is = hash[s]
                /\ view[d][s].seq = n => view'[d][s].seq = n
            /\ s \in DOMAIN b.msgs /\ b.seq = n => view'[c][s].seq = n
        <4>1. s \in DOMAIN b.msgs => b.seq < n \/ (b.seq = n /\ b.msgs[s] = hash[s])
          BY <2>5 DEF SetBy
        <4>2. \A d \in Clients :
                  view[d][s].seq <= n /\ (view[d][s].seq = n => view[d][s].is = hash[s])
          BY <2>5 DEF SetBy
        <4> QED
          BY <1>2, <2>1, <4>1, <4>2, Delivered
      <3>2. ASSUME NEW d \in (audience[s] \cap clients) \ gone, NEW a \in out,
                   a.seq = n, s \in DOMAIN a.msgs, a.listed => d \in a.to
            PROVE  \/ view'[d][s].seq = n
                   \/ \E a1 \in out' :
                        a1.seq = n /\ s \in DOMAIN a1.msgs /\ (a1.listed => d \in a1.to)
        BY <1>1, <1>3, <3>1, <3>2
      <3>3. \A d \in (audience[s] \cap clients) \ gone : d \in Clients
        BY <1>2 DEF HomeWsTypeOK
      <3> QED
        BY <1>1, <1>4, <2>5, <3>1, <3>2, <3>3 DEF SetBy
    <2>6. Settled'
      BY <1>1, <2>5, KeepSettled
    <2> QED
      BY <2>3, <2>4, <2>6 DEF HomeWsInv
  <1> QED
    BY <1>5, <1>6

LEMMA SentStep ==
    ASSUME HomeWsInv, NEW b \in out, Sent(b)
    PROVE  HomeWsInv'
  <1>1. /\ UNCHANGED <<snapshot, refreshes, pushing, queue, seq, recent, hash, gone, conn, late,
                       mail, view, audience>>
        /\ b.listed /\ b.to = {} /\ out' = out \ {b} /\ clients' \subseteq clients
    BY DEF Sent
  <1>2. HomeWsTypeOK' /\ Budget' /\ Numbered' /\ Registered'
    BY <1>1 DEF HomeWsInv, HomeWsTypeOK, Budget, Numbered, Registered
  <1>3. ASSUME NEW s \in Sections, NEW n \in Nat, SetBy(s, n) PROVE SetBy(s, n)'
    BY <1>1, <1>3 DEF SetBy
  <1>4. Settled'
    BY <1>1, <1>3, KeepSettled
  <1> QED
    BY <1>2, <1>4 DEF HomeWsInv

-----------------------------------------------------------------------------
(* The greetings of ws_home.                                               *)

\* Messages built for one client set no hash that a broadcast stands for: the
\* sections they carry lose their audience, and of the others they have none.
LEMMA GreetingBuilt ==
    ASSUME HomeWsInv, NEW c \in Clients, NEW pay \in Payloads, BuildFor(pay, {}),
           mail' = [mail EXCEPT ![c] = Messages(pay, seq)], UNCHANGED <<seq, gone, out, view>>,
           \A s \in Sections : audience[s] \cap clients' \subseteq clients,
           \A d \in Clients \ {c} : late'[d] = late[d]
    PROVE  /\ mail' \in [Clients -> Mails]
           /\ hash' \in [Sections -> 0 .. MaxRefresh] /\ audience' \in [Sections -> SUBSET Clients]
           /\ \A s \in Sections : audience'[s] \subseteq audience[s]
           /\ Numbered' /\ Settled'
  <1> DEFINE msg == Messages(pay, seq)
  <1>1. HomeWsTypeOK /\ seq \in 0 .. MaxRefresh /\ mail \in [Clients -> Mails]
    BY DEF HomeWsInv, HomeWsTypeOK
  <1>2. msg \in Mails /\ msg.seq = seq /\ DOMAIN msg.msgs = Changed(pay)
    BY <1>1, MessagesType
  <1>3. /\ hash' \in [Sections -> 0 .. MaxRefresh] /\ audience' \in [Sections -> SUBSET Clients]
        /\ \A s \in Changed(pay) : audience'[s] = {}
        /\ \A s \in Sections \ Changed(pay) : hash'[s] = hash[s] /\ audience'[s] = audience[s]
    BY <1>1, BuildType
  <1> HIDE DEF msg
  <1>4. /\ mail' \in [Clients -> Mails] /\ mail'[c] = msg
        /\ \A d \in Clients \ {c} : mail'[d] = mail[d]
    BY <1>1, <1>2 DEF msg
  <1>5. Numbered'
    BY <1>1, <1>2, <1>4 DEF HomeWsInv, Numbered
  <1>6. Settled'
    <2> SUFFICES ASSUME NEW s \in Sections, audience'[s] # {}
                 PROVE  \E n \in 1 .. seq' : SetBy(s, n)'
      BY DEF Settled
    <2>1. s \notin Changed(pay) /\ hash'[s] = hash[s] /\ audience'[s] = audience[s]
      BY <1>3
    <2>2. PICK n \in 1 .. seq : SetBy(s, n)
      BY <2>1 DEF HomeWsInv, Settled
    <2>3. ASSUME NEW d \in Clients
          PROVE  late'[d] # "build" /\ s \in DOMAIN mail'[d].msgs => mail'[d].seq < n
      BY <1>2, <1>4, <2>1, <2>2 DEF SetBy
    <2>4. (audience'[s] \cap clients') \ gone' \subseteq (audience[s] \cap clients) \ gone
      BY <2>1
    <2> QED
      BY <2>1, <2>2, <2>3, <2>4 DEF SetBy
  <1> QED
    BY <1>3, <1>4, <1>5, <1>6

\* A greeting that is sent, or lost with its socket, was built before the
\* broadcast that a hash stands for, or does not carry the section.
LEMMA GreetingSent ==
    ASSUME HomeWsInv, NEW c \in Clients, late[c] # "build",
           mail' = [mail EXCEPT ![c] = NoMail],
           view' = view \/ view' = [view EXCEPT ![c] = Shown(c, mail[c])],
           UNCHANGED <<seq, hash, gone, out, audience>>, clients' \subseteq clients,
           \A d \in Clients \ {c} : late'[d] = late[d]
    PROVE  /\ mail' \in [Clients -> Mails]
           /\ view' \in [Clients -> [Sections -> [seq : 0 .. MaxRefresh, is : 0 .. MaxRefresh]]]
           /\ Numbered' /\ Settled'
  <1>1. /\ HomeWsTypeOK /\ mail \in [Clients -> Mails] /\ mail[c] \in Mails
        /\ mail[c].seq \in 0 .. MaxRefresh /\ mail[c].msgs \in Payloads
    BY DEF HomeWsInv, HomeWsTypeOK, Mails
  <1>0. PICK m \in Mails : m = mail[c] /\ m.seq \in 0 .. MaxRefresh /\ m.msgs \in Payloads
    BY <1>1
  <1>2. NoMail \in Mails /\ DOMAIN NoMail.msgs = {} /\ NoMail.seq = 0
    BY PayloadType, HomeWsAssumption DEF NoMail, Mails
  <1>3. /\ mail' \in [Clients -> Mails] /\ mail'[c].seq = 0 /\ DOMAIN mail'[c].msgs = {}
        /\ \A d \in Clients \ {c} : mail'[d] = mail[d]
    BY <1>1, <1>2
  <1>4. /\ view' \in [Clients -> [Sections -> [seq : 0 .. MaxRefresh, is : 0 .. MaxRefresh]]]
        /\ \A d \in Clients \ {c} : view'[d] = view[d]
        /\ \A s \in Sections : view'[c][s].seq = mail[c].seq \/ view'[c][s] = view[c][s]
    <2>1. CASE view' = view
      BY <2>1 DEF HomeWsInv, HomeWsTypeOK
    <2>2. CASE view' = [view EXCEPT ![c] = Shown(c, mail[c])]
      BY <1>0, <1>1, <2>2, ShownType
    <2> QED
      BY <2>1, <2>2
  <1>5. Numbered'
    <2>1. seq \in Nat
      BY DEF HomeWsInv, HomeWsTypeOK
    <2> QED
      BY <1>3, <1>4, <2>1 DEF HomeWsInv, Numbered
  <1>6. ASSUME NEW s \in Sections, NEW n \in Nat \ {0}, SetBy(s, n) PROVE SetBy(s, n)'
    <2>1. \A d \in Clients :
            /\ view'[d][s].seq <= n
            /\ view'[d][s].seq = n => view'[d][s].is = hash[s]
            /\ view[d][s].seq = n => view'[d][s].seq = n
      <3>1. s \in DOMAIN mail[c].msgs => mail[c].seq < n
        BY <1>6 DEF SetBy
      <3>2. \A d \in Clients :
                view[d][s].seq <= n /\ (view[d][s].seq = n => view[d][s].is = hash[s])
        BY <1>6 DEF SetBy
      <3> QED
        BY <1>1, <3>1, <3>2, MailDelivered
    <2>2. \A d \in Clients : late'[d] # "build" /\ s \in DOMAIN mail'[d].msgs => mail'[d].seq < n
      BY <1>3, <1>6 DEF SetBy
    <2>3. clients \subseteq Clients
      BY DEF HomeWsInv, HomeWsTypeOK
    <2> QED
      BY <1>6, <2>1, <2>2, <2>3 DEF SetBy
  <1>7. Settled'
    BY <1>6, KeepSettled
  <1> QED
    BY <1>3, <1>4, <1>5, <1>7

LEMMA ConnectStep ==
    ASSUME HomeWsInv, NEW c \in Clients, Connect(c)
    PROVE  HomeWsInv'
  <1>1. /\ UNCHANGED <<snapshot, refreshes, pushing, queue, seq, recent, gone, out, view>>
        /\ conn[c] = "new" /\ clients' = clients \cup {c} /\ conn' = [conn EXCEPT ![c] = "greet"]
    BY DEF Connect
  <1>2. late[c] = "none" /\ \A s \in Sections : c \notin audience[s]
    BY <1>1 DEF HomeWsInv, Registered
  <1>3. clients' \subseteq Clients /\ conn' \in [Clients -> {"new", "greet", "loop", "closed"}]
    BY <1>1 DEF HomeWsInv, HomeWsTypeOK
  <1>4. CASE snapshot # NoPayload
    <2>1. /\ BuildFor(snapshot, {}) /\ mail' = [mail EXCEPT ![c] = Messages(snapshot, seq)]
          /\ late' = late /\ snapshot \in Payloads
      BY <1>4 DEF Connect, HomeWsInv, HomeWsTypeOK
    <2>2. /\ mail' \in [Clients -> Mails]
          /\ hash' \in [Sections -> 0 .. MaxRefresh] /\ audience' \in [Sections -> SUBSET Clients]
          /\ \A s \in Sections : audience'[s] \subseteq audience[s]
          /\ Numbered' /\ Settled'
      BY <1>1, <1>2, <2>1, GreetingBuilt
    <2>3. HomeWsTypeOK' /\ Budget'
      BY <1>1, <1>3, <2>1, <2>2 DEF HomeWsInv, HomeWsTypeOK, Budget
    <2>4. Registered'
      BY <1>1, <1>2, <2>1, <2>2 DEF HomeWsInv, HomeWsTypeOK, Registered
    <2> QED
      BY <2>2, <2>3, <2>4 DEF HomeWsInv
  <1>5. CASE snapshot = NoPayload
    <2>1. late' = [late EXCEPT ![c] = "fetch"] /\ UNCHANGED <<hash, audience, mail>>
      BY <1>5 DEF Connect
    <2>2. HomeWsTypeOK' /\ Budget' /\ Numbered'
      BY <1>1, <1>3, <2>1 DEF HomeWsInv, HomeWsTypeOK, Budget, Numbered
    <2>3. Registered'
      BY <1>1, <1>2, <2>1 DEF HomeWsInv, HomeWsTypeOK, Registered
    <2>4. ASSUME NEW s \in Sections, NEW n \in Nat \ {0}, SetBy(s, n) PROVE SetBy(s, n)'
      <3>1. audience[s] \cap clients' \subseteq clients
        BY <1>1, <1>2
      <3>2. \A d \in Clients : late'[d] # "build" => late[d] # "build"
        BY <1>2, <2>1 DEF HomeWsInv, HomeWsTypeOK
      <3> QED
        BY <1>1, <2>1, <2>4, <3>1, <3>2 DEF SetBy
    <2>5. Settled'
      BY <1>1, <2>1, <2>4, KeepSettled
    <2> QED
      BY <2>2, <2>3, <2>5 DEF HomeWsInv
  <1> QED
    BY <1>4, <1>5

LEMMA GreetStep ==
    ASSUME HomeWsInv, NEW c \in Clients, Greet(c)
    PROVE  HomeWsInv'
  <1>1. /\ UNCHANGED <<snapshot, refreshes, pushing, queue, seq, recent, hash, gone, out, audience>>
        /\ conn[c] = "greet" /\ mail' = [mail EXCEPT ![c] = NoMail]
        /\ view' = view \/ view' = [view EXCEPT ![c] = Shown(c, mail[c])]
        /\ late' = late \/ late' = [late EXCEPT ![c] = "none"]
        /\ conn' = [conn EXCEPT ![c] = "loop"] \/ conn' = [conn EXCEPT ![c] = "closed"]
        /\ clients' \subseteq clients
    BY DEF Greet
  <1>2. /\ late' \in [Clients -> {"none", "fetch", "build", "send"}] /\ late[c] # "build"
        /\ \A d \in Clients \ {c} : late'[d] = late[d] /\ conn'[d] = conn[d]
        /\ conn' \in [Clients -> {"new", "greet", "loop", "closed"}]
        /\ conn'[c] \in {"loop", "closed"}
    <2>1. late[c] # "build"
      BY <1>1 DEF HomeWsInv, Registered
    <2> QED
      BY <1>1, <2>1 DEF HomeWsInv, HomeWsTypeOK
  <1>3. /\ mail' \in [Clients -> Mails]
        /\ view' \in [Clients -> [Sections -> [seq : 0 .. MaxRefresh, is : 0 .. MaxRefresh]]]
        /\ Numbered' /\ Settled'
    BY <1>1, <1>2, GreetingSent
  <1>4. HomeWsTypeOK' /\ Budget'
    BY <1>1, <1>2, <1>3 DEF HomeWsInv, HomeWsTypeOK, Budget
  <1>5. Registered'
    BY <1>1, <1>2 DEF HomeWsInv, Registered
  <1> QED
    BY <1>3, <1>4, <1>5 DEF HomeWsInv

LEMMA LateStep ==
    ASSUME HomeWsInv, NEW c \in Clients, LateFetch(c) \/ LateBuild(c) \/ LateSend(c)
    PROVE  HomeWsInv'
  <1>1. /\ UNCHANGED <<snapshot, refreshes, pushing, queue, seq, recent, clients, gone, conn, out>>
        /\ late' \in [Clients -> {"none", "fetch", "build", "send"}]
        /\ \A d \in Clients \ {c} : late'[d] = late[d]
        /\ conn[c] \notin {"new", "greet"}
    <2>1. UNCHANGED <<snapshot, refreshes, pushing, queue, seq, recent, clients, gone, conn, out>>
      BY DEF LateFetch, LateBuild, LateSend
    <2>2. late' \in {[late EXCEPT ![c] = "build"], [late EXCEPT ![c] = "send"],
                     [late EXCEPT ![c] = "none"]}
      BY DEF LateFetch, LateBuild, LateSend
    <2>3. conn[c] # "greet" /\ late[c] # "none"
      BY DEF LateFetch, LateBuild, LateSend, HomeWsInv, Registered
    <2> QED
      BY <2>1, <2>2, <2>3 DEF HomeWsInv, HomeWsTypeOK, Registered
  <1>2. Budget'
    BY <1>1 DEF HomeWsInv, Budget
  <1>3. ASSUME \A s \in Sections : audience'[s] \subseteq audience[s] PROVE Registered'
    BY <1>1, <1>3 DEF HomeWsInv, Registered
  <1>4. CASE LateFetch(c)
    <2>1. /\ UNCHANGED <<hash, view, audience>> /\ late'[c] = "build"
          /\ mail' = [mail EXCEPT ![c].msgs = snapshot]
      BY <1>4 DEF LateFetch, HomeWsInv, HomeWsTypeOK
    <2>2. /\ mail' \in [Clients -> Mails] /\ mail'[c].seq = mail[c].seq
          /\ \A d \in Clients \ {c} : mail'[d] = mail[d]
      BY <2>1 DEF HomeWsInv, HomeWsTypeOK, Mails
    <2>3. HomeWsTypeOK' /\ Numbered'
      BY <1>1, <2>1, <2>2 DEF HomeWsInv, HomeWsTypeOK, Numbered
    <2>4. ASSUME NEW s \in Sections, NEW n \in Nat \ {0}, SetBy(s, n) PROVE SetBy(s, n)'
      BY <1>1, <2>1, <2>2, <2>4 DEF SetBy
    <2>5. Settled'
      BY <1>1, <2>1, <2>4, KeepSettled
    <2> QED
      BY <1>2, <1>3, <2>1, <2>3, <2>5 DEF HomeWsInv
  <1>5. CASE LateBuild(c) /\ c \in clients
    <2> DEFINE pay == mail[c].msgs
    <2>1. /\ BuildFor(pay, {}) /\ mail' = [mail EXCEPT ![c] = Messages(pay, seq)] /\ view' = view
      BY <1>5 DEF LateBuild
    <2>2. pay \in Payloads
      BY DEF HomeWsInv, HomeWsTypeOK, Mails
    <2> HIDE DEF pay
    <2>3. /\ mail' \in [Clients -> Mails]
          /\ hash' \in [Sections -> 0 .. MaxRefresh] /\ audience' \in [Sections -> SUBSET Clients]
          /\ \A s \in Sections : audience'[s] \subseteq audience[s]
          /\ Numbered' /\ Settled'
      BY <1>1, <2>1, <2>2, GreetingBuilt
    <2>4. HomeWsTypeOK'
      BY <1>1, <2>1, <2>3 DEF HomeWsInv, HomeWsTypeOK
    <2> QED
      BY <1>2, <1>3, <2>3, <2>4 DEF HomeWsInv
  <1>6. CASE LateBuild(c) /\ c \notin clients
    <2>1. /\ UNCHANGED <<hash, view, audience>> /\ mail' = [mail EXCEPT ![c] = NoMail]
      BY <1>6 DEF LateBuild
    <2>2. NoMail \in Mails /\ DOMAIN NoMail.msgs = {} /\ NoMail.seq = 0
      BY PayloadType, HomeWsAssumption DEF NoMail, Mails
    <2>3. /\ mail' \in [Clients -> Mails] /\ mail'[c].seq = 0 /\ DOMAIN mail'[c].msgs = {}
          /\ \A d \in Clients \ {c} : mail'[d] = mail[d]
      BY <2>1, <2>2 DEF HomeWsInv, HomeWsTypeOK
    <2>4. HomeWsTypeOK' /\ Numbered'
      BY <1>1, <2>1, <2>3 DEF HomeWsInv, HomeWsTypeOK, Numbered
    <2>5. ASSUME NEW s \in Sections, NEW n \in Nat \ {0}, SetBy(s, n) PROVE SetBy(s, n)'
      BY <1>1, <2>1, <2>3, <2>5 DEF SetBy
    <2>6. Settled'
      BY <1>1, <2>1, <2>5, KeepSettled
    <2> QED
      BY <1>2, <1>3, <2>1, <2>4, <2>6 DEF HomeWsInv
  <1>7. CASE LateSend(c)
    <2>1. /\ UNCHANGED <<hash, audience>> /\ mail' = [mail EXCEPT ![c] = NoMail]
          /\ view' = view \/ view' = [view EXCEPT ![c] = Shown(c, mail[c])]
          /\ late[c] # "build"
      BY <1>7 DEF LateSend
    <2>2. /\ mail' \in [Clients -> Mails]
          /\ view' \in [Clients -> [Sections -> [seq : 0 .. MaxRefresh, is : 0 .. MaxRefresh]]]
          /\ Numbered' /\ Settled'
      BY <1>1, <2>1, GreetingSent
    <2>3. HomeWsTypeOK'
      BY <1>1, <2>1, <2>2 DEF HomeWsInv, HomeWsTypeOK
    <2> QED
      BY <1>2, <1>3, <2>1, <2>2, <2>3 DEF HomeWsInv
  <1> QED
    BY <1>4, <1>5, <1>6, <1>7

LEMMA LeaveStep ==
    ASSUME HomeWsInv, NEW c \in Clients, Leave(c) \/ Finally(c)
    PROVE  HomeWsInv'
  <1>1. /\ UNCHANGED <<snapshot, refreshes, pushing, queue, seq, recent, hash, late, mail, out,
                       audience>>
        /\ clients' \subseteq clients
    BY DEF Leave, Finally
  <1>2. CASE Leave(c)
    <2>1. /\ UNCHANGED <<clients, conn>> /\ gone' = gone \cup {c}
          /\ view' = [view EXCEPT ![c] = Blank]
      BY <1>2 DEF Leave
    <2>2. Blank \in [Sections -> [seq : 0 .. MaxRefresh, is : 0 .. MaxRefresh]]
      BY HomeWsAssumption DEF Blank
    <2>3. /\ view' \in [Clients -> [Sections -> [seq : 0 .. MaxRefresh, is : 0 .. MaxRefresh]]]
          /\ \A d \in Clients \ {c} : view'[d] = view[d]
          /\ \A s \in Sections : view'[c][s].seq = 0
      BY <2>1, <2>2 DEF HomeWsInv, HomeWsTypeOK, Blank
    <2>4. HomeWsTypeOK' /\ Budget' /\ Registered'
      BY <1>1, <2>1, <2>3 DEF HomeWsInv, HomeWsTypeOK, Budget, Registered
    <2>5. Numbered'
      <3>1. seq \in Nat
        BY DEF HomeWsInv, HomeWsTypeOK
      <3>2. \A d \in Clients, s \in Sections : view'[d][s].seq <= seq
        BY <2>3, <3>1 DEF HomeWsInv, Numbered
      <3> QED
        BY <1>1, <3>2 DEF HomeWsInv, Numbered
    <2>6. ASSUME NEW s \in Sections, NEW n \in Nat \ {0}, SetBy(s, n) PROVE SetBy(s, n)'
      <3>1. \A d \in Clients : /\ view'[d][s].seq <= n
                               /\ view'[d][s].seq = n => view'[d] = view[d]
        BY <2>3, <2>6 DEF SetBy
      <3>2. /\ \A d \in (audience[s] \cap clients) \ gone' :
                  d \in (audience[s] \cap clients) \ gone /\ view'[d] = view[d]
        BY <2>1, <2>3 DEF HomeWsInv, HomeWsTypeOK
      <3> QED
        BY <1>1, <2>1, <2>6, <3>1, <3>2 DEF SetBy
    <2>7. Settled'
      BY <1>1, <2>6, KeepSettled
    <2> QED
      BY <2>4, <2>5, <2>7 DEF HomeWsInv
  <1>3. CASE Finally(c)
    <2>1. UNCHANGED <<gone, view>> /\ conn' = [conn EXCEPT ![c] = "closed"]
      BY <1>3 DEF Finally
    <2>2. HomeWsTypeOK' /\ Budget' /\ Numbered' /\ Registered'
      BY <1>1, <2>1 DEF HomeWsInv, HomeWsTypeOK, Budget, Numbered, Registered
    <2>3. ASSUME NEW s \in Sections, NEW n \in Nat \ {0}, SetBy(s, n) PROVE SetBy(s, n)'
      BY <1>1, <2>1, <2>3 DEF SetBy
    <2>4. Settled'
      BY <1>1, <2>3, KeepSettled
    <2> QED
      BY <2>2, <2>4 DEF HomeWsInv
  <1> QED
    BY <1>2, <1>3

LEMMA HomeWsStep == HomeWsInv /\ [HomeWsNext]_homeWsVars => HomeWsInv'
  <1> SUFFICES ASSUME HomeWsInv, [HomeWsNext]_homeWsVars PROVE HomeWsInv'
    OBVIOUS
  <1>1. CASE Refresh \/ Push \/ IntervalPasses \/ Broadcast
    BY <1>1, HomeRefreshStep, PushStep, BroadcastStep
  <1>2. ASSUME NEW b \in out, Pruned(b) \/ Sent(b) \/ \E c \in b.to : Send(b, c) PROVE HomeWsInv'
    BY <1>2, PrunedStep, SentStep, SendStep
  <1>3. ASSUME NEW c \in Clients,
               \/ Connect(c) \/ Greet(c) \/ LateFetch(c) \/ LateBuild(c) \/ LateSend(c)
               \/ Leave(c) \/ Finally(c)
        PROVE  HomeWsInv'
    BY <1>3, ConnectStep, GreetStep, LateStep, LeaveStep
  <1>4. CASE UNCHANGED homeWsVars
    <2>1. HomeWsTypeOK' /\ Budget' /\ Numbered' /\ Registered'
      BY <1>4 DEF homeWsVars, HomeWsInv, HomeWsTypeOK, Budget, Numbered, Registered
    <2> QED
      BY <1>4, <2>1, SettledStands DEF homeWsVars, HomeWsInv
  <1> QED
    BY <1>1, <1>2, <1>3, <1>4 DEF HomeWsNext

\* A broadcast that set a hash is shown by its audience once it is delivered.
LEMMA SettledWins == HomeWsInv => BroadcastWins
  <1> SUFFICES ASSUME HomeWsInv, NEW s \in Sections, \A b \in out : s \notin DOMAIN b.msgs,
                      NEW c \in (audience[s] \cap clients) \ gone
               PROVE  view[c][s].is = hash[s]
    BY DEF BroadcastWins
  <1>1. PICK n \in 1 .. seq : SetBy(s, n)
    BY DEF HomeWsInv, Settled
  <1>2. view[c][s].seq = n /\ c \in Clients
    BY <1>1 DEF SetBy, HomeWsInv, HomeWsTypeOK
  <1> QED
    BY <1>1, <1>2 DEF SetBy

\* The hub is well typed.
THEOREM HomeWsTypeCorrect == HomeWsSpec => []HomeWsTypeOK
  <1>1. HomeWsInv => HomeWsTypeOK
    BY DEF HomeWsInv
  <1> QED
    BY <1>1, HomeWsInitInv, HomeWsStep, PTL DEF HomeWsSpec

\* part08 256, 442-447: the hash of a section that a broadcast set is what
\* every client of that broadcast shows once it is delivered, whatever older
\* broadcasts and greetings arrive in between.
THEOREM BroadcastsWin == HomeWsSpec => []BroadcastWins
  <1> QED
    BY SettledWins, HomeWsInitInv, HomeWsStep, PTL DEF HomeWsSpec
=============================================================================
