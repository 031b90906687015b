------------------------------ MODULE CodeSet ------------------------------
(***************************************************************************)
(* The set of codes a KIS hub desires, as its public interface changes it  *)
(* under _lock: KisHub adds the threads, connections and failures behind   *)
(* it, SubLedger the requests and the sweeper in front of it.              *)
(***************************************************************************)
EXTENDS Naturals, FiniteSets

CONSTANTS Codes,    \* stock codes
          MaxCodes  \* MAX_CODES of the hub

ASSUME CodesAssumption == IsFiniteSet(Codes) /\ MaxCodes \in Nat

VARIABLE codes      \* self._codes

\* Mutant: > for >=.
AddOffByOne(x) ==
    codes' = IF Cardinality(codes) > MaxCodes THEN codes ELSE codes \cup {x}

\* add_codes([x]): skipped without a word when the set is full.
Add(x) ==
    codes' = IF Cardinality(codes) >= MaxCodes THEN codes ELSE codes \cup {x}

\* remove_codes(req).
Remove(req) == codes' = codes \ req

\* What set_codes keeps of its argument: the first MAX_CODES codes.
Truncations(s) ==
    {t \in SUBSET s : \/ Cardinality(s) <= MaxCodes /\ t = s
                      \/ Cardinality(s) > MaxCodes /\ Cardinality(t) = MaxCodes}

\* set_codes(s) replaces the whole set, whoever added its members.
Replace(s) == codes' \in Truncations(s)
=============================================================================
