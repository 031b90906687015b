----------------------------- MODULE PrefCache -----------------------------
(***************************************************************************)
(* get_pref and upsert_pref of services/notification_pref.py for one       *)
(* token: a row of the database and, in each worker process, a cache with  *)
(* a time to live.  An upsert evicts the entry of its own process only; a  *)
(* read that began before it may store the old preference afterwards.      *)
(* A preference is the number of the upsert that wrote it, 0 the default.  *)
(***************************************************************************)
EXTENDS Naturals

CONSTANTS
    Processes,  \* worker processes
    Readers,    \* threads that check a preference before a push
    ProcessOf,  \* [Readers -> Processes]
    Ttl,        \* _PREF_CACHE_TTL, in ticks
    MaxUpserts  \* bound: upserts

ASSUME PrefAssumption ==
    /\ ProcessOf \in [Readers -> Processes]
    /\ Ttl \in Nat \ {0} /\ MaxUpserts \in Nat

VARIABLES
    row,        \* the preference in the database
    replaced,   \* history: replaced[n]: ticks since n was replaced; saturated
    cache,      \* cache[p]: _PREF_CACHE[token] of p: its age and preference
    reader,     \* reader[r]: where get_pref stands, since when, and what it read
    evicting    \* processes whose upsert is committed and not yet evicted

prefVars == <<row, replaced, cache, reader, evicting>>

Ages  == 0 .. Ttl          \* Ttl and older are one
Prefs == 0 .. MaxUpserts
Older(a) == IF a < Ttl THEN a + 1 ELSE Ttl

PrefTypeOK ==
    /\ row \in Prefs
    /\ replaced \in [Prefs -> Ages]
    /\ cache \in [Processes -> [age : Ages, is : Prefs]]
    /\ reader \in [Readers -> [at : {"idle", "query", "fill"}, age : Ages, is : Prefs]]
    /\ evicting \in SUBSET Processes

\* An entry that is too old is as good as none.
NoEntry  == [age |-> Ttl, is |-> 0]
AtRest   == [at |-> "idle", age |-> 0, is |-> 0]

PrefInit ==
    /\ row = 0 /\ replaced = [n \in Prefs |-> 0]
    /\ cache = [p \in Processes |-> NoEntry]
    /\ reader = [r \in Readers |-> AtRest]
    /\ evicting = {}

\* Everything that carries a time grows older.
Tick ==
    /\ replaced' = [n \in Prefs |-> IF n < row THEN Older(replaced[n]) ELSE 0]
    /\ cache' = [p \in Processes |-> [cache[p] EXCEPT !.age = Older(@)]]
    /\ reader' = [r \in Readers |->
                    IF reader[r].at = "idle" THEN AtRest
                    ELSE [reader[r] EXCEPT !.age = Older(@)]]
    /\ UNCHANGED <<row, evicting>>

-----------------------------------------------------------------------------
\* get_pref: the time is taken first; a fresh entry answers.
GetPref(r) ==
    /\ reader[r].at = "idle"
    /\ cache[ProcessOf[r]].age >= Ttl
    /\ reader' = [reader EXCEPT ![r] = [at |-> "query", age |-> 0, is |-> 0]]
    /\ UNCHANGED <<row, replaced, cache, evicting>>

\* The query; an error is answered with the default, and not cached.
Query(r) ==
    /\ reader[r].at = "query"
    /\ reader' \in {[reader EXCEPT ![r].at = "fill", ![r].is = row],
                    [reader EXCEPT ![r] = AtRest]}
    /\ UNCHANGED <<row, replaced, cache, evicting>>

\* Mutant: the entry is stamped with the time at which it is stored.
FillStampedLate(r) ==
    /\ reader[r].at = "fill"
    /\ cache' = [cache EXCEPT ![ProcessOf[r]] = [age |-> 0, is |-> reader[r].is]]
    /\ reader' = [reader EXCEPT ![r] = AtRest]
    /\ UNCHANGED <<row, replaced, evicting>>

\* The entry is stored with the time at which get_pref began.
Fill(r) ==
    /\ reader[r].at = "fill"
    /\ cache' = [cache EXCEPT ![ProcessOf[r]] = [age |-> reader[r].age, is |-> reader[r].is]]
    /\ reader' = [reader EXCEPT ![r] = AtRest]
    /\ UNCHANGED <<row, replaced, evicting>>

\* upsert_pref: the commit, and then the eviction.
Upsert(p) ==
    /\ row < MaxUpserts
    /\ p \notin evicting
    /\ row' = row + 1
    /\ evicting' = evicting \cup {p}
    /\ UNCHANGED <<replaced, cache, reader>>

Evict(p) ==
    /\ p \in evicting
    /\ evicting' = evicting \ {p}
    /\ cache' = [cache EXCEPT ![p] = NoEntry]
    /\ UNCHANGED <<row, replaced, reader>>

PrefNext ==
    \/ Tick
    \/ \E r \in Readers : GetPref(r) \/ Query(r) \/ Fill(r)
    \/ \E p \in Processes : Upsert(p) \/ Evict(p)

PrefSpec == PrefInit /\ [][PrefNext]_prefVars
-----------------------------------------------------------------------------
(* Properties.                                                             *)

\* A cached preference that is still served is the one in the database or was
\* replaced less than Ttl ago, in every process, whatever reads were under way
\* when it was replaced: a changed preference is honoured within 30 seconds.
ServedRecently ==
    \A p \in Processes : cache[p].age < Ttl /\ cache[p].is # row =>
        replaced[cache[p].is] < Ttl
=============================================================================
