---------------------------- MODULE SkillCatalog ----------------------------
(***************************************************************************)
(* What the Skill library promises of a Team: a Skill gets revisions 1, 2,  *)
(* 3, ... of which the last is current, until it is archived for good, and   *)
(* of the Skills with one name at most one is on offer.                      *)
(***************************************************************************)
EXTENDS Naturals

CONSTANTS Skills, Named     \* Named[s]: the name of a Skill

VARIABLE catalog    \* catalog[s]: the current revision, 0 before the first

Offered(s) == catalog[s].current > 0 /\ ~catalog[s].archived

CatalogInit == catalog = [s \in Skills |-> [current |-> 0, archived |-> FALSE]]

Publish(s) ==
    /\ ~catalog[s].archived
    /\ \A t \in Skills \ {s} : Offered(t) => Named[t] # Named[s]
    /\ catalog' = [catalog EXCEPT ![s].current = @ + 1]

Archive(s) ==
    /\ Offered(s)
    /\ catalog' = [catalog EXCEPT ![s].archived = TRUE]

CatalogNext == \E s \in Skills : Publish(s) \/ Archive(s)

CatalogSpec == CatalogInit /\ [][CatalogNext]_catalog
=============================================================================
