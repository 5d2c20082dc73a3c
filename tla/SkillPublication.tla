-------------------------- MODULE SkillPublication --------------------------
(***************************************************************************)
(* The Skills of one Team and one name: their publication by requests that   *)
(* first reserve a revision in the database, then put its archive into the   *)
(* object store, and only then make it the current revision.  A request is    *)
(* one step for each transaction and each call of the store; it may end after *)
(* any of them, because the store fails or the control plane stops, and a      *)
(* user may send the same archive again.                                      *)
(***************************************************************************)
EXTENDS Naturals, FiniteSets

CONSTANTS Skills,       \* Skill ids of this name, which new Skills take
          Revisions,    \* revision ids, which reservations take
          Zips,         \* archives, told apart by their SHA-256
          Requests,     \* publication requests in progress at a time
          MaxFaults     \* bound: puts the store loses or damages

VARIABLES skills,       \* skills[s]: the Skill row
          revisions,    \* revisions[r]: the SkillRevision row
          objects,      \* objects[r]: what the store has under the revision's key
          requests,     \* requests[c]: a create or a publishRevision
          faults

vars == <<skills, revisions, objects, requests, faults>>
rows == <<skills, revisions>>
----------------------------------------------------------------------------
Skill == [status : {"absent", "active", "archived"}, current : Revisions \cup {"none"},
          revision : Nat]                               \* resourceRevision
NoSkill == [status |-> "absent", current |-> "none", revision |-> 0]

Revision == [status : {"absent", "uploading", "ready", "failed"}, skill : Skills \cup {"none"},
             base : Revisions \cup {"none"}, zip : Zips \cup {"none"},
             sequence : Nat]                            \* 0: null
NoRevision == [status |-> "absent", skill |-> "none", base |-> "none", zip |-> "none",
               sequence |-> 0]

Request == [at : {"free", "head", "put", "again", "finalize", "fail"},
            revision : Revisions \cup {"none"}, expected : Nat]
NoRequest == [at |-> "free", revision |-> "none", expected |-> 0]

ASSUME IdsAssumption ==
    /\ IsFiniteSet(Revisions) /\ IsFiniteSet(Skills)
    /\ "none" \notin Skills \cup Revisions \cup Zips
ASSUME MaxFaultsAssumption == MaxFaults \in Nat
----------------------------------------------------------------------------
PublicationInit ==
    /\ skills = [s \in Skills |-> NoSkill]
    /\ revisions = [r \in Revisions |-> NoRevision]
    /\ objects = [r \in Revisions |-> "missing"]
    /\ requests = [c \in Requests |-> NoRequest]
    /\ faults = 0

At(c, point) == requests[c].at = point

Go(c, point) == requests' = [requests EXCEPT ![c].at = point]

Answer(c) == requests' = [requests EXCEPT ![c] = NoRequest]

(* #completePublication: a revision that is ready or failed is the answer. *)
Reserved(c, r, n) ==
    requests' = [requests EXCEPT ![c] =
                    IF revisions'[r].status = "uploading"
                    THEN [at |-> "head", revision |-> r, expected |-> n]
                    ELSE NoRequest]

(* The revision reserved before for the same archive on the same base. *)
Earlier(s, base, z) ==
    {r \in Revisions : /\ revisions[r].status # "absent" /\ revisions[r].skill = s
                       /\ revisions[r].base = base /\ revisions[r].zip = z}

(* #createSkillRevision *)
Reserve(r, s, base, z) ==
    /\ revisions[r].status = "absent"
    /\ revisions' = [revisions EXCEPT ![r] =
                        [status |-> "uploading", skill |-> s, base |-> base, zip |-> z,
                         sequence |-> 0]]
----------------------------------------------------------------------------
(* Mutant: only Skills that have a revision hold their name. *)
NamesakesVisible(s) ==
    {t \in Skills \ {s} : skills[t].status = "active" /\ skills[t].current # "none"}

(* activeName is unique in a Team. *)
Namesakes(s) == {t \in Skills \ {s} : skills[t].status = "active"}

(* reserveInitialSkillPublication for a name that no Skill has ... *)
CreateSkill(c, s, r, z) ==
    /\ At(c, "free")
    /\ skills[s].status = "absent" /\ Namesakes(s) = {}
    /\ skills' = [skills EXCEPT ![s].status = "active"]
    /\ Reserve(r, s, "none", z)
    /\ Reserved(c, r, 0)
    /\ UNCHANGED <<objects, faults>>

(* ... or one whose first publication has not been completed: the archive may be
   another one. *)
CreateAnew(c, s, r, z) ==
    /\ At(c, "free")
    /\ skills[s].status = "active" /\ skills[s].current = "none"
    /\ Earlier(s, "none", z) = {}
    /\ Reserve(r, s, "none", z)
    /\ Reserved(c, r, 0)
    /\ UNCHANGED <<skills, objects, faults>>

CreateAgain(c, s, r, z) ==
    /\ At(c, "free")
    /\ skills[s].status = "active"
    /\ r \in Earlier(s, "none", z)
    /\ UNCHANGED <<rows, objects, faults>>
    /\ Reserved(c, r, 0)

(* The ready revision with that number. *)
Numbered(s, n) ==
    {b \in Revisions : revisions[b].skill = s /\ revisions[b].sequence = n}

(* reserveSkillRevisionPublication *)
PublishRevision(c, s, r, z, n) ==
    /\ At(c, "free")
    /\ n > 0 /\ skills[s].revision = n
    /\ skills[s].status = "active" /\ Numbered(s, n) = {skills[s].current}
    /\ Earlier(s, skills[s].current, z) = {}
    /\ Reserve(r, s, skills[s].current, z)
    /\ Reserved(c, r, n)
    /\ UNCHANGED <<skills, objects, faults>>

(* Found even for an archived Skill, by the second look after the conflict. *)
PublishAgain(c, s, r, z, n) ==
    /\ At(c, "free")
    /\ n > 0 /\ skills[s].current # "none"
    /\ \E b \in Numbered(s, n) : r \in Earlier(s, b, z)
    /\ UNCHANGED <<rows, objects, faults>>
    /\ Reserved(c, r, n)

(* archiveSkillRecord: its only step. *)
ArchiveSkill(s, n) ==
    /\ skills[s].status = "active" /\ skills[s].current # "none"
    /\ skills[s].revision = n
    /\ skills' = [skills EXCEPT ![s].status = "archived", ![s].revision = n + 1]
    /\ UNCHANGED <<revisions, objects, requests, faults>>
----------------------------------------------------------------------------
(* headMatchesReservation *)
AfterHead(c) == IF objects[requests[c].revision] = "intact" THEN "finalize" ELSE "fail"

FirstHead(c) ==
    /\ At(c, "head")
    /\ Go(c, IF objects[requests[c].revision] = "missing" THEN "put" ELSE AfterHead(c))
    /\ UNCHANGED <<rows, objects, faults>>

(* Mutant: what was put is taken to be there. *)
AfterPutUnread == "finalize"

AfterPut == "again"

Put(c) ==
    /\ At(c, "put")
    /\ objects' = [objects EXCEPT ![requests[c].revision] = "intact"]
    /\ Go(c, AfterPut)
    /\ UNCHANGED <<rows, faults>>

(* The store acknowledges what it does not keep, or not as it was sent. *)
PutBadly(c) ==
    /\ At(c, "put")
    /\ faults < MaxFaults
    /\ faults' = faults + 1
    /\ \/ objects' = [objects EXCEPT ![requests[c].revision] = "damaged"]
       \/ UNCHANGED objects
    /\ Go(c, AfterPut)
    /\ UNCHANGED rows

SecondHead(c) ==
    /\ At(c, "again")
    /\ IF objects[requests[c].revision] = "missing" THEN Answer(c) ELSE Go(c, AfterHead(c))
    /\ UNCHANGED <<rows, objects, faults>>

(* Mutant: the revision was reserved for the current one, and is not compared again. *)
FinalizableAsReserved(c) ==
    LET v == revisions[requests[c].revision]
    IN  v.status = "uploading" /\ skills[v.skill].status = "active"

Finalizable(c) ==
    LET v == revisions[requests[c].revision]
        s == skills[v.skill]
    IN  /\ v.status = "uploading"
        /\ s.status = "active" /\ s.revision = requests[c].expected /\ s.current = v.base

(* finalizeSkillRevisionPublication *)
Finalize(c) ==
    /\ At(c, "finalize")
    /\ Finalizable(c)
    /\ LET r == requests[c].revision
           n == requests[c].expected + 1
       IN  /\ revisions' = [revisions EXCEPT ![r].status = "ready", ![r].sequence = n]
           /\ skills' = [skills EXCEPT ![revisions[r].skill].current = r,
                                       ![revisions[r].skill].revision = n]
    /\ Answer(c)
    /\ UNCHANGED <<objects, faults>>

FinalizeRefused(c) ==
    /\ At(c, "finalize")
    /\ ~Finalizable(c)
    /\ IF revisions[requests[c].revision].status = "ready" THEN Answer(c) ELSE Go(c, "fail")
    /\ UNCHANGED <<rows, objects, faults>>

(* Mutant: whatever has become of the revision since. *)
FailableAlways(r) == TRUE

Failable(r) == revisions[r].status = "uploading"

(* failSkillRevisionPublication *)
Fail(c) ==
    /\ At(c, "fail")
    /\ revisions' = IF Failable(requests[c].revision)
                    THEN [revisions EXCEPT ![requests[c].revision].status = "failed"]
                    ELSE revisions
    /\ Answer(c)
    /\ UNCHANGED <<skills, objects, faults>>

(* The store cannot be reached, or the control plane stops. *)
GiveUp(c) ==
    /\ ~At(c, "free")
    /\ Answer(c)
    /\ UNCHANGED <<rows, objects, faults>>
----------------------------------------------------------------------------
PublicationNext ==
    \/ \E c \in Requests :
          \/ \E s \in Skills, r \in Revisions, z \in Zips :
                \/ CreateSkill(c, s, r, z) \/ CreateAnew(c, s, r, z) \/ CreateAgain(c, s, r, z)
                \/ \E n \in 1..Cardinality(Revisions) :
                      PublishRevision(c, s, r, z, n) \/ PublishAgain(c, s, r, z, n)
          \/ FirstHead(c) \/ Put(c) \/ PutBadly(c) \/ SecondHead(c)
          \/ Finalize(c) \/ FinalizeRefused(c) \/ Fail(c) \/ GiveUp(c)
    \/ \E s \in Skills : \E n \in 1..Cardinality(Revisions) : ArchiveSkill(s, n)

PublicationSpec == PublicationInit /\ [][PublicationNext]_vars
----------------------------------------------------------------------------
PublicationTypeOK ==
    /\ skills \in [Skills -> Skill]
    /\ revisions \in [Revisions -> Revision]
    /\ objects \in [Revisions -> {"missing", "intact", "damaged"}]
    /\ requests \in [Requests -> Request]
    /\ faults \in 0..MaxFaults

ReadyOf(s) == {r \in Revisions : revisions[r].status = "ready" /\ revisions[r].skill = s}

(* The ready revisions of a Skill are one chain: they are numbered from 1 without a
   gap or a duplicate, each was reserved on the one before, and the last is the
   current one, whatever was published, repeated or archived at the same time; the
   resource revision counts them and the archiving. *)
ReadyChain ==
    \A s \in Skills :
        /\ \A r \in ReadyOf(s) :
              revisions[r].sequence = IF revisions[r].base = "none" THEN 1
                                      ELSE revisions[revisions[r].base].sequence + 1
        /\ \A r \in ReadyOf(s) : revisions[r].base \in ReadyOf(s) \cup {"none"}
        /\ \A q, r \in ReadyOf(s) : revisions[q].sequence = revisions[r].sequence => q = r
        /\ IF ReadyOf(s) = {} THEN skills[s].current = "none"
           ELSE /\ skills[s].current \in ReadyOf(s)
                /\ \A r \in ReadyOf(s) :
                      revisions[r].sequence <= revisions[skills[s].current].sequence
        /\ skills[s].revision = Cardinality(ReadyOf(s))
                                + (IF skills[s].status = "archived" THEN 1 ELSE 0)

(* A revision that readers are offered can be downloaded: whichever request put its
   archive, and whatever became of that request, the store has an object for it. *)
ReadyIsStored ==
    \A r \in Revisions : revisions[r].status = "ready" => objects[r] # "missing"

(* What a publication has come to is final: no request that was late with the same
   revision withdraws a ready one or revives a failed one. *)
OutcomeFinal ==
    [][ \A r \in Revisions :
           revisions[r].status \in {"ready", "failed"} => revisions'[r] = revisions[r] ]_vars

(* The protocol implements the catalog that its readers rely on. *)
Catalog == INSTANCE SkillCatalog
               WITH Named <- [s \in Skills |-> "name"],
                    catalog <- [s \in Skills |->
                                   [current |-> IF skills[s].current = "none" THEN 0
                                                ELSE revisions[skills[s].current].sequence,
                                    archived |-> skills[s].status = "archived"]]
ImplementsCatalog == Catalog!CatalogSpec
=============================================================================
