------------------------------ MODULE Registry ------------------------------
(***************************************************************************)
(* What a subscription hub promises, whatever threads, sessions and failing*)
(* connections are behind it: a remote party holds registrations, and one  *)
(* appears there only if it is desired, or was and its request is still on *)
(* the way; a request that is not on the way is never made up.             *)
(***************************************************************************)

CONSTANT Items      \* what can be registered

VARIABLES desired,  \* what the users of the hub want registered
          due,      \* what may still be requested: desired, or on its way
          held      \* what the remote party has registered

registryVars == <<desired, due, held>>

RegistryInit == desired = {} /\ due = {} /\ held = {}

\* The users want s from now on.
Demand == \E s \in SUBSET Items :
    /\ desired' = s
    /\ s \subseteq due' /\ due' \subseteq due \cup s
    /\ UNCHANGED held

\* Requests that nobody wants any more run out.
RunOut == desired \subseteq due' /\ due' \subseteq due

\* A request arrives.
Acquire == \E x \in due :
    /\ held' = held \cup {x}
    /\ RunOut
    /\ UNCHANGED desired

\* Registrations end: cancelled, or lost with a connection.
Release ==
    /\ held' \subseteq held
    /\ RunOut
    /\ UNCHANGED desired

RegistryNext == Demand \/ Acquire \/ Release

RegistrySpec == RegistryInit /\ [][RegistryNext]_registryVars

\* In the end the remote party has what is desired.
Delivers == <>[](held = desired)
=============================================================================
