------------------------------- MODULE BanList -------------------------------
(***************************************************************************)
(* What the ban list of package ban promises its callers, without records, *)
(* counters, clocks or files: every address is free, temporarily banned or *)
(* permanently banned; an address an administrator pardoned is never       *)
(* banned again; the second ban of an address is permanent; and a restart  *)
(* of the process forgets nothing unless reading or writing the ban file   *)
(* failed.  BanStore implements this specification.                        *)
(***************************************************************************)
CONSTANT IP

Kind == {"none", "temporary", "permanent"}

VARIABLES
  kind,      \* kind[ip]: what Store.Kind(ip) answers ("none" for the empty string)
  prior,     \* addresses that were banned at least once
  pardoned,  \* addresses an administrator unbanned
  durable    \* the ban file on disk says what memory says

vars == <<kind, prior, pardoned, durable>>

Consistent(k, pr, pa) ==
  /\ k \in [IP -> Kind]
  /\ pr \subseteq IP
  /\ pa \subseteq IP
  /\ \A ip \in IP : k[ip] # "none" => ip \in pr
  /\ pr \cap pa = {}

Init ==
  /\ kind = [ip \in IP |-> "none"]
  /\ prior = {}
  /\ pardoned = {}
  /\ durable \in BOOLEAN

\* A first offence: banned for a while.
BanTemporarily(ip) ==
  /\ ip \notin pardoned \cup prior
  /\ kind' = [kind EXCEPT ![ip] = "temporary"]
  /\ prior' = prior \cup {ip}
  /\ durable' \in BOOLEAN
  /\ UNCHANGED pardoned

\* A further offence, or one that deserves no second chance.
BanForGood(ip) ==
  /\ ip \notin pardoned
  /\ kind[ip] # "permanent"
  /\ kind' = [kind EXCEPT ![ip] = "permanent"]
  /\ prior' = prior \cup {ip}
  /\ durable' \in BOOLEAN
  /\ UNCHANGED pardoned

\* Time passes: some temporary bans end; the addresses stay marked.
Expire(S) ==
  /\ \A ip \in S : kind[ip] = "temporary"
  /\ kind' = [ip \in IP |-> IF ip \in S THEN "none" ELSE kind[ip]]
  /\ UNCHANGED <<prior, pardoned, durable>>

\* An administrator forgives the addresses in S for good.
Pardon(S) ==
  /\ kind' = [ip \in IP |-> IF ip \in S THEN "none" ELSE kind[ip]]
  /\ prior' = prior \ S
  /\ pardoned' = pardoned \cup S
  /\ durable' \in BOOLEAN

\* The process restarts.  Only a fault of the file, before or during the
\* restart, lets the list differ from what it was.
Restart ==
  /\ durable' \in BOOLEAN
  /\ durable /\ durable' => UNCHANGED <<kind, prior, pardoned>>
  /\ kind' \in [IP -> Kind]
  /\ prior' \in SUBSET IP
  /\ pardoned' \in SUBSET IP
  /\ Consistent(kind', prior', pardoned')

Next ==
  \/ \E ip \in IP : BanTemporarily(ip) \/ BanForGood(ip)
  \/ \E S \in SUBSET IP : Expire(S) \/ Pardon(S)
  \/ Restart

Spec == Init /\ [][Next]_vars
=============================================================================
