---------------------- MODULE SkillPublication_proofs ----------------------
(***************************************************************************)
(* Publication is correct for any number of Skills, revisions, archives and  *)
(* requests.  What makes it so is that a revision is finalized only on the    *)
(* very revision it was reserved on, and that the resource revision the        *)
(* request expects is then the number of that one (Numbering).                 *)
(***************************************************************************)
EXTENDS SkillPublication, FiniteSetTheorems, TLAPS

(* The number of the current revision, 0 before the first. *)
Latest(s) == IF skills[s].current = "none" THEN 0 ELSE revisions[skills[s].current].sequence

(* What reserving has left: a row that is absent holds nothing, one that is not is of a
   Skill there is, and was reserved on nothing or on a ready revision of that Skill. *)
Reservations ==
    /\ \A s \in Skills : skills[s].status = "absent" => skills[s] = NoSkill
    /\ \A r \in Revisions :
          IF revisions[r].status = "absent" THEN revisions[r] = NoRevision
          ELSE /\ revisions[r].skill \in Skills /\ skills[revisions[r].skill].status # "absent"
               /\ revisions[r].base \in ReadyOf(revisions[r].skill) \cup {"none"}
               /\ revisions[r].status # "ready" => revisions[r].sequence = 0

(* The ready revisions of a Skill are numbered along their bases up to the current one,
   as many as there are. *)
Numbering ==
    \A s \in Skills :
        /\ \A r \in ReadyOf(s) :
              /\ revisions[r].sequence \in 1..Latest(s)
              /\ revisions[r].sequence = IF revisions[r].base = "none" THEN 1
                                         ELSE revisions[revisions[r].base].sequence + 1
        /\ \A q, r \in ReadyOf(s) : revisions[q].sequence = revisions[r].sequence => q = r
        /\ skills[s].current = "none" => ReadyOf(s) = {}
        /\ skills[s].current # "none" => skills[s].current \in ReadyOf(s)
        /\ Cardinality(ReadyOf(s)) = Latest(s)
        /\ skills[s].revision = Latest(s) + (IF skills[s].status = "archived" THEN 1 ELSE 0)

OneActive ==
    \A s, t \in Skills : skills[s].status = "active" /\ skills[t].status = "active" => s = t

(* A request works on a revision that was reserved, and once it has seen the object that
   object stays. *)
Working ==
    \A c \in Requests :
        requests[c].at # "free" =>
            /\ requests[c].revision \in Revisions
            /\ revisions[requests[c].revision].status # "absent"
            /\ requests[c].at = "finalize" => objects[requests[c].revision] # "missing"

PublicationInv ==
    PublicationTypeOK /\ Reservations /\ Numbering /\ OneActive /\ Working /\ ReadyIsStored
----------------------------------------------------------------------------
LEMMA TypesKept ==
    ASSUME PublicationTypeOK, [PublicationNext]_vars
    PROVE  PublicationTypeOK'
<1> USE IdsAssumption DEF PublicationTypeOK, rows
<1> USE DEF Skill, Revision, Request
<1>1. ASSUME NEW c \in Requests, NEW r \in Revisions, NEW n \in Nat, revisions' \in [Revisions -> Revision],
             Reserved(c, r, n)
      PROVE  requests' \in [Requests -> Request]
  BY <1>1 DEF Reserved, NoRequest
<1>2. ASSUME NEW r \in Revisions, NEW s \in Skills, NEW base \in Revisions \cup {"none"}, NEW z \in Zips,
             Reserve(r, s, base, z)
      PROVE  revisions' \in [Revisions -> Revision]
  BY <1>2 DEF Reserve
<1>3. ASSUME NEW c \in Requests, NEW s \in Skills, NEW r \in Revisions, NEW z \in Zips,
             CreateSkill(c, s, r, z) \/ CreateAnew(c, s, r, z) \/ CreateAgain(c, s, r, z)
      PROVE  PublicationTypeOK'
  <2>1. CASE CreateSkill(c, s, r, z)
    <3>1. revisions' \in [Revisions -> Revision]
      BY <1>2, <2>1 DEF CreateSkill
    <3>2. skills' \in [Skills -> Skill]
      BY <2>1 DEF CreateSkill
    <3> QED BY <1>1, <2>1, <3>1, <3>2 DEF CreateSkill
  <2>2. CASE CreateAnew(c, s, r, z)
    <3>1. revisions' \in [Revisions -> Revision]
      BY <1>2, <2>2 DEF CreateAnew
    <3> QED BY <1>1, <2>2, <3>1 DEF CreateAnew
  <2>3. CASE CreateAgain(c, s, r, z)
    BY <1>1, <2>3 DEF CreateAgain
  <2> QED BY <1>3, <2>1, <2>2, <2>3
<1>4. ASSUME NEW c \in Requests, NEW s \in Skills, NEW r \in Revisions, NEW z \in Zips, NEW n \in Nat,
             PublishRevision(c, s, r, z, n) \/ PublishAgain(c, s, r, z, n)
      PROVE  PublicationTypeOK'
  <2>1. CASE PublishRevision(c, s, r, z, n)
    <3>1. revisions' \in [Revisions -> Revision]
      BY <1>2, <2>1 DEF PublishRevision
    <3> QED BY <1>1, <2>1, <3>1 DEF PublishRevision
  <2>2. CASE PublishAgain(c, s, r, z, n)
    BY <1>1, <2>2 DEF PublishAgain
  <2> QED BY <1>4, <2>1, <2>2
<1>5. ASSUME NEW c \in Requests,
             \/ Answer(c)
             \/ \E point \in {"put", "again", "finalize", "fail"} : Go(c, point)
      PROVE  requests' \in [Requests -> Request]
  <2>1. CASE Answer(c)
    BY <2>1 DEF Answer, NoRequest
  <2>2. ASSUME NEW point \in {"put", "again", "finalize", "fail"}, Go(c, point)
        PROVE  requests' \in [Requests -> Request]
    BY <2>2 DEF Go
  <2> QED BY <1>5, <2>1, <2>2
<1>6. ASSUME NEW c \in Requests,
             FirstHead(c) \/ Put(c) \/ PutBadly(c) \/ SecondHead(c) \/ FinalizeRefused(c) \/ GiveUp(c)
      PROVE  PublicationTypeOK'
  <2>1. AfterHead(c) \in {"put", "again", "finalize", "fail"} /\ AfterPut \in {"again"}
    BY DEF AfterHead, AfterPut
  <2>2. requests' \in [Requests -> Request]
    BY <1>5, <1>6, <2>1 DEF FirstHead, Put, PutBadly, SecondHead, FinalizeRefused, GiveUp
  <2>3. faults' \in 0..MaxFaults
    BY <1>6, MaxFaultsAssumption DEF FirstHead, Put, PutBadly, SecondHead, FinalizeRefused, GiveUp
  <2>4. objects' \in [Revisions -> {"missing", "intact", "damaged"}]
    BY <1>6 DEF FirstHead, Put, PutBadly, SecondHead, FinalizeRefused, GiveUp
  <2> QED BY <1>6, <2>2, <2>3, <2>4
          DEF FirstHead, Put, PutBadly, SecondHead, FinalizeRefused, GiveUp
<1>7. ASSUME NEW c \in Requests, Finalize(c) \/ Fail(c)
      PROVE  PublicationTypeOK'
  <2>1. requests' \in [Requests -> Request]
    BY <1>5, <1>7 DEF Finalize, Fail
  <2>2. requests[c].expected + 1 \in Nat /\ requests[c].revision \in Revisions \cup {"none"}
    OBVIOUS
  <2>3. revisions' \in [Revisions -> Revision]
    BY <1>7, <2>2 DEF Finalize, Fail
  <2>4. skills' \in [Skills -> Skill]
    <3> DEFINE r == requests[c].revision
               x == revisions[r].skill
               n == requests[c].expected + 1
    <3>1. ASSUME NEW k \in Revisions \cup {"none"}, NEW m \in Nat
          PROVE  [skills EXCEPT ![x].current = k, ![x].revision = m] \in [Skills -> Skill]
      <4> HIDE DEF x, PublicationTypeOK
      <4>1. skills \in [Skills -> Skill]
        BY DEF PublicationTypeOK
      <4>2. ASSUME NEW t \in Skills
            PROVE  [skills[t] EXCEPT !.current = k, !.revision = m] \in Skill
        BY <4>1
      <4> QED BY <4>1, <4>2
    <3>2. CASE Finalize(c)
      <4>1. skills' = [skills EXCEPT ![x].current = r, ![x].revision = n]
        BY <3>2 DEF Finalize
      <4> QED BY <2>2, <3>1, <4>1
    <3>3. CASE Fail(c)
      BY <3>3 DEF Fail
    <3> QED BY <1>7, <3>2, <3>3
  <2> QED BY <1>7, <2>1, <2>3, <2>4 DEF Finalize, Fail
<1>8. ASSUME NEW s \in Skills, NEW n \in Nat, ArchiveSkill(s, n)
      PROVE  PublicationTypeOK'
  BY <1>8 DEF ArchiveSkill
<1>9. CASE UNCHANGED vars
  BY <1>9 DEF vars
<1>10. Cardinality(Revisions) \in Nat
  BY FS_CardinalityType
<1> QED BY <1>3, <1>4, <1>6, <1>7, <1>8, <1>9, <1>10 DEF PublicationNext
----------------------------------------------------------------------------
(* What a step makes of the rows of Skills and revisions. *)

NewUpload(r, s, base, z) ==
    /\ base \in ReadyOf(s) \cup {"none"}
    /\ Reserve(r, s, base, z)
    /\ \/ skills[s].status = "active" /\ UNCHANGED skills
       \/ /\ skills[s].status = "absent" /\ Namesakes(s) = {} /\ base = "none"
          /\ skills' = [skills EXCEPT ![s].status = "active"]

NewFailure(r) ==
    /\ revisions[r].status = "uploading"
    /\ revisions' = [revisions EXCEPT ![r].status = "failed"]
    /\ UNCHANGED skills

NewReady(r, s) ==
    /\ revisions[r].status = "uploading" /\ revisions[r].skill = s
    /\ skills[s].status = "active" /\ skills[s].current = revisions[r].base
    /\ revisions' = [revisions EXCEPT ![r].status = "ready", ![r].sequence = skills[s].revision + 1]
    /\ skills' = [skills EXCEPT ![s].current = r, ![s].revision = skills[s].revision + 1]
    /\ objects[r] # "missing" /\ UNCHANGED objects

NewArchived(s) ==
    /\ skills[s].status = "active" /\ skills[s].current # "none"
    /\ skills' = [skills EXCEPT ![s].status = "archived", ![s].revision = skills[s].revision + 1]
    /\ UNCHANGED revisions

LEMMA RowsTurn ==
    ASSUME PublicationInv, [PublicationNext]_vars
    PROVE  \/ UNCHANGED rows
           \/ \E r \in Revisions, s \in Skills, z \in Zips : \E base \in Revisions \cup {"none"} :
                 NewUpload(r, s, base, z)
           \/ \E r \in Revisions : NewFailure(r)
           \/ \E r \in Revisions, s \in Skills : NewReady(r, s)
           \/ \E s \in Skills : NewArchived(s)
<1> USE DEF rows
<1>1. ASSUME NEW c \in Requests, NEW s \in Skills, NEW r \in Revisions, NEW z \in Zips,
             CreateSkill(c, s, r, z) \/ CreateAnew(c, s, r, z)
      PROVE  NewUpload(r, s, "none", z)
  BY <1>1 DEF CreateSkill, CreateAnew, NewUpload
<1>2. ASSUME NEW c \in Requests, NEW s \in Skills, NEW r \in Revisions, NEW z \in Zips, NEW n \in Nat,
             PublishRevision(c, s, r, z, n)
      PROVE  NewUpload(r, s, skills[s].current, z) /\ skills[s].current \in Revisions \cup {"none"}
  BY <1>2 DEF PublishRevision, NewUpload, PublicationInv, Numbering, PublicationTypeOK, Skill
<1>3. ASSUME NEW c \in Requests, Finalize(c)
      PROVE  \E r \in Revisions, s \in Skills : NewReady(r, s)
  <2> DEFINE r == requests[c].revision
             s == revisions[r].skill
  <2>1. r \in Revisions /\ objects[r] # "missing" /\ revisions[r].status = "uploading"
    BY <1>3 DEF Finalize, Finalizable, At, PublicationInv, Working
  <2>2. s \in Skills
    BY <2>1 DEF PublicationInv, Reservations
  <2>3. NewReady(r, s)
    BY <1>3, <2>1 DEF Finalize, Finalizable, NewReady
  <2> QED BY <2>1, <2>2, <2>3
<1>4. ASSUME NEW c \in Requests, Fail(c)
      PROVE  UNCHANGED rows \/ \E r \in Revisions : NewFailure(r)
  BY <1>4 DEF Fail, Failable, NewFailure, At, PublicationInv, Working
<1>5. ASSUME NEW s \in Skills, NEW n \in Nat, ArchiveSkill(s, n)
      PROVE  NewArchived(s)
  BY <1>5 DEF ArchiveSkill, NewArchived
<1>6. ASSUME NEW c \in Requests, NEW s \in Skills, NEW r \in Revisions, NEW z \in Zips, NEW n \in Nat,
             CreateAgain(c, s, r, z) \/ PublishAgain(c, s, r, z, n)
      PROVE  UNCHANGED rows
  BY <1>6 DEF CreateAgain, PublishAgain
<1>7. ASSUME NEW c \in Requests,
             FirstHead(c) \/ Put(c) \/ PutBadly(c) \/ SecondHead(c) \/ FinalizeRefused(c) \/ GiveUp(c)
      PROVE  UNCHANGED rows
  BY <1>7 DEF FirstHead, Put, PutBadly, SecondHead, FinalizeRefused, GiveUp
<1>8. CASE UNCHANGED vars
  BY <1>8 DEF vars
<1>9. Cardinality(Revisions) \in Nat
  BY FS_CardinalityType, IdsAssumption
<1>10. ASSUME NEW n \in 1..Cardinality(Revisions)
       PROVE  n \in Nat
  BY <1>9, <1>10
<1> QED
  <2>1. CASE \E c \in Requests, s \in Skills, r \in Revisions, z \in Zips :
                CreateSkill(c, s, r, z) \/ CreateAnew(c, s, r, z)
    BY <1>1, <2>1
  <2>2. CASE \E c \in Requests, s \in Skills, r \in Revisions, z \in Zips :
                \E n \in 1..Cardinality(Revisions) : PublishRevision(c, s, r, z, n)
    BY <1>2, <1>10, <2>2
  <2>3. CASE \E c \in Requests, s \in Skills, r \in Revisions, z \in Zips :
                \/ CreateAgain(c, s, r, z)
                \/ \E n \in 1..Cardinality(Revisions) : PublishAgain(c, s, r, z, n)
    BY <1>6, <1>9, <1>10, <2>3
  <2>4. CASE \E s \in Skills : \E n \in 1..Cardinality(Revisions) : ArchiveSkill(s, n)
    BY <1>5, <1>10, <2>4
  <2> QED BY <1>3, <1>4, <1>7, <1>8, <2>1, <2>2, <2>3, <2>4 DEF PublicationNext
----------------------------------------------------------------------------
RowsInv == PublicationTypeOK /\ Reservations /\ Numbering /\ OneActive

(* A reservation adds no ready revision, and starts on one there is. *)
LEMMA UploadKeeps ==
    ASSUME RowsInv, PublicationTypeOK',
           NEW r \in Revisions, NEW s \in Skills, NEW z \in Zips, NEW base \in Revisions \cup {"none"},
           NewUpload(r, s, base, z)
    PROVE  (Reservations /\ Numbering /\ OneActive)'
<1> USE IdsAssumption
<1> DEFINE row == [status |-> "uploading", skill |-> s, base |-> base, zip |-> z, sequence |-> 0]
<1>1. /\ revisions[r] = NoRevision
      /\ revisions' = [revisions EXCEPT ![r] = row]
      /\ revisions \in [Revisions -> Revision]
  BY DEF NewUpload, Reserve, RowsInv, Reservations, PublicationTypeOK
<1>2. ASSUME NEW t \in Skills
      PROVE  ReadyOf(t)' = ReadyOf(t) /\ r \notin ReadyOf(t)
  BY <1>1 DEF ReadyOf, NoRevision
<1>3. ASSUME NEW t \in Skills
      PROVE  /\ skills'[t].current = skills[t].current /\ skills'[t].revision = skills[t].revision
             /\ skills'[t].status = "archived" <=> skills[t].status = "archived"
             /\ skills[t].status # "absent" => skills'[t].status # "absent"
             /\ skills'[t].status = "absent" => skills'[t] = skills[t] /\ t # s
             /\ skills'[s].status # "absent"
  BY DEF NewUpload, RowsInv, PublicationTypeOK, Skill
<1>4. Reservations'
  <2>1. ASSUME NEW t \in Skills, skills'[t].status = "absent"
        PROVE  skills'[t] = NoSkill
    BY <1>3, <2>1 DEF RowsInv, Reservations
  <2>2. ASSUME NEW q \in Revisions, revisions'[q].status # "absent"
        PROVE  /\ revisions'[q].skill \in Skills
               /\ skills'[revisions'[q].skill].status # "absent"
               /\ revisions'[q].base \in {"none"} \cup ReadyOf(revisions[q].skill)'
               /\ revisions'[q].status # "ready" => revisions'[q].sequence = 0
    <3>1. CASE q = r
      <4>1. revisions'[q] = row
        BY <1>1, <3>1
      <4>2. base \in ReadyOf(s)' \cup {"none"}
        BY <1>2 DEF NewUpload
      <4> QED BY <1>3, <4>1, <4>2
    <3>2. CASE q # r
      <4>1. revisions'[q] = revisions[q]
        BY <1>1, <3>2
      <4>2. /\ revisions[q].skill \in Skills /\ skills[revisions[q].skill].status # "absent"
            /\ revisions[q].base \in ReadyOf(revisions[q].skill) \cup {"none"}
            /\ revisions[q].status # "ready" => revisions[q].sequence = 0
        BY <2>2, <4>1 DEF RowsInv, Reservations
      <4>3. PICK t \in Skills : t = revisions[q].skill
        BY <4>2
      <4> QED BY <1>2, <1>3, <4>1, <4>2, <4>3
    <3> QED BY <3>1, <3>2
  <2>3. ASSUME NEW q \in Revisions, revisions'[q].status = "absent"
        PROVE  revisions'[q] = NoRevision
    <3>1. q # r
      BY <1>1, <2>3
    <3> QED BY <1>1, <2>3, <3>1 DEF RowsInv, Reservations
  <2> QED BY <2>1, <2>2, <2>3 DEF Reservations
<1>5. Numbering'
  <2> SUFFICES ASSUME NEW t \in Skills
               PROVE  (/\ \A q \in ReadyOf(t) :
                             /\ revisions[q].sequence \in 1..Latest(t)
                             /\ revisions[q].sequence = IF revisions[q].base = "none" THEN 1
                                                        ELSE revisions[revisions[q].base].sequence + 1
                       /\ \A q, p \in ReadyOf(t) : revisions[q].sequence = revisions[p].sequence => q = p
                       /\ skills[t].current = "none" => ReadyOf(t) = {}
                       /\ skills[t].current # "none" => skills[t].current \in ReadyOf(t)
                       /\ Cardinality(ReadyOf(t)) = Latest(t)
                       /\ skills[t].revision = Latest(t) + (IF skills[t].status = "archived" THEN 1 ELSE 0))'
    BY DEF Numbering
  <2>1. ASSUME NEW q \in ReadyOf(t)
        PROVE  revisions'[q] = revisions[q] /\ (revisions[q].base = "none" \/ revisions[q].base \in ReadyOf(t))
    BY <1>1, <1>2 DEF ReadyOf, RowsInv, Reservations
  <2>2. Latest(t)' = Latest(t)
    BY <1>2, <1>3, <2>1 DEF Latest, RowsInv, Numbering
  <2> QED BY <1>2, <1>3, <2>1, <2>2 DEF RowsInv, Numbering
<1>6. OneActive'
  BY DEF OneActive, RowsInv, NewUpload, Namesakes, PublicationTypeOK, Skill
<1> QED BY <1>4, <1>5, <1>6

LEMMA FailureKeeps ==
    ASSUME RowsInv, NEW r \in Revisions, NewFailure(r)
    PROVE  (Reservations /\ Numbering /\ OneActive)'
<1>1. /\ revisions' = [revisions EXCEPT ![r].status = "failed"] /\ skills' = skills
      /\ revisions[r].status = "uploading" /\ revisions \in [Revisions -> Revision]
  BY DEF NewFailure, RowsInv, PublicationTypeOK
<1>2. ASSUME NEW q \in Revisions
      PROVE  /\ revisions'[q].skill = revisions[q].skill /\ revisions'[q].base = revisions[q].base
             /\ revisions'[q].sequence = revisions[q].sequence
             /\ q # r => revisions'[q] = revisions[q]
             /\ revisions'[r].status = "failed"
  BY <1>1 DEF Revision
<1>3. ASSUME NEW t
      PROVE  ReadyOf(t)' = ReadyOf(t)
  BY <1>1, <1>2 DEF ReadyOf
<1>4. Reservations'
  <2>1. ASSUME NEW q \in Revisions, revisions'[q].status # "absent"
        PROVE  /\ revisions'[q].skill \in Skills
               /\ skills'[revisions'[q].skill].status # "absent"
               /\ revisions'[q].base \in {"none"} \cup ReadyOf(revisions[q].skill)'
               /\ revisions'[q].status # "ready" => revisions'[q].sequence = 0
    <3>1. /\ revisions[q].skill \in Skills /\ skills[revisions[q].skill].status # "absent"
          /\ revisions[q].base \in ReadyOf(revisions[q].skill) \cup {"none"}
          /\ revisions[q].status # "ready" => revisions[q].sequence = 0
      BY <1>1, <1>2, <2>1 DEF RowsInv, Reservations
    <3>2. PICK t \in Skills : t = revisions[q].skill
      BY <3>1
    <3> QED BY <1>1, <1>2, <1>3, <2>1, <3>1, <3>2
  <2>2. ASSUME NEW q \in Revisions, revisions'[q].status = "absent"
        PROVE  revisions'[q] = NoRevision
    BY <1>1, <1>2, <2>2 DEF RowsInv, Reservations
  <2> QED BY <1>1, <2>1, <2>2 DEF Reservations, RowsInv
<1>5. Numbering'
  <2>1. ASSUME NEW t \in Skills
        PROVE  Latest(t)' = Latest(t)
    BY <1>1, <1>2 DEF Latest, RowsInv, PublicationTypeOK, Skill
  <2>2. ASSUME NEW t \in Skills, NEW q \in ReadyOf(t)
        PROVE  q \in Revisions /\ (revisions[q].base = "none" \/ revisions[q].base \in Revisions)
    BY DEF ReadyOf, RowsInv, Reservations
  <2> QED BY <1>1, <1>2, <1>3, <2>1, <2>2 DEF Numbering, RowsInv
<1>6. OneActive'
  BY <1>1 DEF OneActive, RowsInv
<1> QED BY <1>4, <1>5, <1>6

(* Finalizing extends the chain of its Skill by one, and no other chain. *)
LEMMA ReadyKeeps ==
    ASSUME RowsInv, NEW r \in Revisions, NEW s \in Skills, NewReady(r, s)
    PROVE  (Reservations /\ Numbering /\ OneActive)'
<1> USE IdsAssumption
<1>1. /\ revisions' = [revisions EXCEPT ![r].status = "ready", ![r].sequence = skills[s].revision + 1]
      /\ skills' = [skills EXCEPT ![s].current = r, ![s].revision = skills[s].revision + 1]
      /\ revisions[r].status = "uploading" /\ revisions[r].skill = s
      /\ skills[s].status = "active" /\ skills[s].current = revisions[r].base
      /\ revisions \in [Revisions -> Revision] /\ skills \in [Skills -> Skill]
  BY DEF NewReady, RowsInv, PublicationTypeOK
<1>2. ASSUME NEW q \in Revisions
      PROVE  /\ revisions'[q].skill = revisions[q].skill /\ revisions'[q].base = revisions[q].base
             /\ q # r => revisions'[q] = revisions[q]
             /\ revisions'[r].status = "ready" /\ revisions'[r].sequence = skills[s].revision + 1
  BY <1>1 DEF Revision
<1>3. ASSUME NEW t \in Skills
      PROVE  /\ skills'[t].status = skills[t].status
             /\ t # s => skills'[t] = skills[t]
             /\ skills'[s].current = r /\ skills'[s].revision = skills[s].revision + 1
  BY <1>1 DEF Skill
<1>4. ASSUME NEW t \in Skills
      PROVE  r \notin ReadyOf(t) /\ ReadyOf(t)' = IF t = s THEN ReadyOf(t) \cup {r} ELSE ReadyOf(t)
  BY <1>1, <1>2 DEF ReadyOf
<1>5. skills[s].revision = Latest(s) /\ Latest(s) \in Nat
  BY <1>1 DEF Numbering, RowsInv, Latest, PublicationTypeOK, Skill, Revision
<1>6. Latest(s)' = Latest(s) + 1
  BY <1>2, <1>3, <1>5, r # "none" DEF Latest
<1>7. ASSUME NEW t \in Skills, NEW q \in ReadyOf(t)
      PROVE  /\ q \in Revisions /\ q # r /\ revisions'[q] = revisions[q]
             /\ revisions[q].base = "none" \/ revisions[q].base \in ReadyOf(t)
             /\ revisions[q].base # "none" => /\ revisions[q].base \in Revisions
                                              /\ revisions'[revisions[q].base] = revisions[revisions[q].base]
             /\ revisions[q].sequence \in 1..Latest(t)
             /\ revisions[q].sequence = IF revisions[q].base = "none" THEN 1
                                        ELSE revisions[revisions[q].base].sequence + 1
  <2>1. q \in Revisions /\ q # r /\ revisions'[q] = revisions[q]
    BY <1>2, <1>4 DEF ReadyOf
  <2>2. revisions[q].base = "none" \/ revisions[q].base \in ReadyOf(t)
    BY <2>1 DEF ReadyOf, RowsInv, Reservations
  <2>3. ASSUME NEW b \in ReadyOf(t)
        PROVE  b \in Revisions /\ revisions'[b] = revisions[b]
    BY <1>2, <1>4 DEF ReadyOf
  <2> QED BY <2>1, <2>2, <2>3 DEF RowsInv, Numbering
<1>8. Reservations'
  <2>1. ASSUME NEW q \in Revisions, revisions'[q].status # "absent"
        PROVE  /\ revisions'[q].skill \in Skills
               /\ skills'[revisions'[q].skill].status # "absent"
               /\ revisions'[q].base \in {"none"} \cup ReadyOf(revisions[q].skill)'
               /\ revisions'[q].status # "ready" => revisions'[q].sequence = 0
    <3>1. /\ revisions[q].skill \in Skills /\ skills[revisions[q].skill].status # "absent"
          /\ revisions[q].base \in ReadyOf(revisions[q].skill) \cup {"none"}
          /\ revisions[q].status # "ready" => revisions[q].sequence = 0
      BY <1>1, <1>2, <2>1 DEF RowsInv, Reservations
    <3>2. PICK t \in Skills : t = revisions[q].skill
      BY <3>1
    <3> QED BY <1>2, <1>3, <1>4, <2>1, <3>1, <3>2
  <2>2. ASSUME NEW q \in Revisions, revisions'[q].status = "absent"
        PROVE  revisions'[q] = NoRevision
    BY <1>1, <1>2, <2>2 DEF RowsInv, Reservations
  <2>3. ASSUME NEW t \in Skills, skills'[t].status = "absent"
        PROVE  skills'[t] = NoSkill
    BY <1>1, <1>3, <2>3 DEF RowsInv, Reservations
  <2> QED BY <2>1, <2>2, <2>3 DEF Reservations
<1>9. Numbering'
  <2> SUFFICES ASSUME NEW t \in Skills
               PROVE  (/\ \A q \in ReadyOf(t) :
                             /\ revisions[q].sequence \in 1..Latest(t)
                             /\ revisions[q].sequence = IF revisions[q].base = "none" THEN 1
                                                        ELSE revisions[revisions[q].base].sequence + 1
                       /\ \A q, p \in ReadyOf(t) : revisions[q].sequence = revisions[p].sequence => q = p
                       /\ skills[t].current = "none" => ReadyOf(t) = {}
                       /\ skills[t].current # "none" => skills[t].current \in ReadyOf(t)
                       /\ Cardinality(ReadyOf(t)) = Latest(t)
                       /\ skills[t].revision = Latest(t) + (IF skills[t].status = "archived" THEN 1 ELSE 0))'
    BY DEF Numbering
  <2>1. CASE t # s
    <3>1. Latest(t)' = Latest(t)
      BY <1>3, <1>7, <2>1 DEF Latest, RowsInv, Numbering
    <3> QED BY <1>3, <1>4, <1>7, <2>1, <3>1 DEF RowsInv, Numbering
  <2>2. CASE t = s
    <3>1. revisions'[r].sequence = IF revisions'[r].base = "none" THEN 1
                                   ELSE revisions'[revisions'[r].base].sequence + 1
      <4>1. CASE skills[s].current = "none"
        <5>1. revisions'[r].base = "none"
          BY <1>1, <1>2, <4>1
        <5>2. revisions'[r].sequence = 1
          BY <1>2, <1>5, <4>1 DEF Latest
        <5> QED BY <5>1, <5>2
      <4>2. CASE skills[s].current # "none"
        <5>1. skills[s].current \in ReadyOf(s)
          BY <4>2 DEF RowsInv, Numbering
        <5> QED BY <1>1, <1>2, <1>5, <1>7, <4>2, <5>1 DEF Latest
      <4> QED BY <4>1, <4>2
    <3>2. ReadyOf(s)' = ReadyOf(s) \cup {r} /\ r \notin ReadyOf(s)
      BY <1>4
    <3>3. revisions'[r].sequence = Latest(s) + 1
      BY <1>2, <1>5
    <3>4. ASSUME NEW q \in ReadyOf(s)
          PROVE  /\ revisions'[q].sequence \in 1..Latest(s)
                 /\ revisions'[q].sequence = IF revisions'[q].base = "none" THEN 1
                                             ELSE revisions'[revisions'[q].base].sequence + 1
      BY <1>7
    <3>5. \A q, p \in ReadyOf(s) : revisions'[q].sequence = revisions'[p].sequence => q = p
      BY <1>7 DEF RowsInv, Numbering
    <3>6. Cardinality(ReadyOf(s)') = Latest(s) + 1
      <4>1. IsFiniteSet(ReadyOf(s))
        BY FS_Subset DEF ReadyOf
      <4>2. Cardinality(ReadyOf(s)) = Latest(s)
        BY DEF RowsInv, Numbering
      <4> QED BY <3>2, <4>1, <4>2, FS_AddElement
    <3>7. \A q \in ReadyOf(s)' : revisions'[q].sequence \in 1..(Latest(s) + 1)
      BY <1>5, <3>2, <3>3, <3>4
    <3>8. \A q, p \in ReadyOf(s)' : revisions'[q].sequence = revisions'[p].sequence => q = p
      BY <1>5, <3>2, <3>3, <3>4, <3>5
    <3>9. skills'[s].current # "none" /\ skills'[s].current \in ReadyOf(s)'
      BY <1>3, <3>2
    <3>10. skills'[s].revision = Latest(s)' + (IF skills'[s].status = "archived" THEN 1 ELSE 0)
      BY <1>1, <1>3, <1>5, <1>6
    <3> QED BY <1>6, <2>2, <3>1, <3>2, <3>4, <3>6, <3>7, <3>8, <3>9, <3>10
  <2> QED BY <2>1, <2>2
<1>10. OneActive'
  BY <1>3 DEF OneActive, RowsInv
<1> QED BY <1>8, <1>9, <1>10

LEMMA ArchivedKeeps ==
    ASSUME RowsInv, NEW s \in Skills, NewArchived(s)
    PROVE  (Reservations /\ Numbering /\ OneActive)'
<1>1. /\ skills' = [skills EXCEPT ![s].status = "archived", ![s].revision = skills[s].revision + 1]
      /\ revisions' = revisions /\ skills[s].status = "active" /\ skills \in [Skills -> Skill]
  BY DEF NewArchived, RowsInv, PublicationTypeOK
<1>2. ASSUME NEW t \in Skills
      PROVE  /\ skills'[t].current = skills[t].current
             /\ t # s => skills'[t] = skills[t]
             /\ skills'[s].status = "archived" /\ skills'[s].revision = skills[s].revision + 1
  BY <1>1 DEF Skill
<1>3. ASSUME NEW t
      PROVE  ReadyOf(t)' = ReadyOf(t)
  BY <1>1 DEF ReadyOf
<1>4. ASSUME NEW t \in Skills
      PROVE  Latest(t)' = Latest(t)
  BY <1>1, <1>2 DEF Latest
<1>5. Reservations'
  <2>1. ASSUME NEW q \in Revisions, revisions[q].status # "absent"
        PROVE  skills'[revisions[q].skill].status # "absent"
    BY <1>1, <1>2, <2>1 DEF RowsInv, Reservations
  <2>2. \A t \in Skills : skills'[t].status = "absent" => skills'[t] = NoSkill
    BY <1>1, <1>2 DEF RowsInv, Reservations
  <2> QED BY <1>1, <1>3, <2>1, <2>2 DEF RowsInv, Reservations
<1>6. Numbering'
  <2>1. Latest(s) \in Nat
    BY <1>1 DEF Latest, Numbering, RowsInv, PublicationTypeOK, Skill, Revision
  <2> QED BY <1>1, <1>2, <1>3, <1>4, <2>1 DEF RowsInv, Numbering
<1>7. OneActive'
  BY <1>1, <1>2 DEF RowsInv, OneActive
<1> QED BY <1>5, <1>6, <1>7
----------------------------------------------------------------------------
LEMMA RowsKept ==
    ASSUME PublicationInv, [PublicationNext]_vars
    PROVE  (Reservations /\ Numbering /\ OneActive)'
<1>1. RowsInv /\ PublicationTypeOK'
  BY TypesKept DEF PublicationInv, RowsInv
<1>2. CASE UNCHANGED rows
  <2>1. \A t : ReadyOf(t)' = ReadyOf(t) /\ Latest(t)' = Latest(t)
    BY <1>2 DEF rows, ReadyOf, Latest
  <2> QED BY <1>1, <1>2, <2>1 DEF rows, RowsInv, Reservations, Numbering, OneActive
<1> QED BY <1>1, <1>2, RowsTurn, UploadKeeps, FailureKeeps, ReadyKeeps, ArchivedKeeps

(* What a step makes of one revision. *)
LEMMA RevisionTurn ==
    ASSUME PublicationInv, [PublicationNext]_vars, NEW q \in Revisions
    PROVE  \/ revisions'[q] = revisions[q]
           \/ revisions[q].status = "absent" /\ revisions'[q].status = "uploading"
           \/ revisions[q].status = "uploading" /\ revisions'[q].status = "failed"
           \/ /\ revisions[q].status = "uploading" /\ revisions'[q].status = "ready"
              /\ objects[q] # "missing" /\ UNCHANGED objects
<1>1. revisions \in [Revisions -> Revision]
  BY DEF PublicationInv, PublicationTypeOK
<1>2. ASSUME NEW r \in Revisions, NEW s \in Skills, NEW z \in Zips, NEW base \in Revisions \cup {"none"},
             NewUpload(r, s, base, z)
      PROVE  revisions'[q] = revisions[q] \/ (revisions[q].status = "absent" /\ revisions'[q].status = "uploading")
  BY <1>1, <1>2 DEF NewUpload, Reserve
<1>3. ASSUME NEW r \in Revisions, NewFailure(r)
      PROVE  revisions'[q] = revisions[q] \/ (revisions[q].status = "uploading" /\ revisions'[q].status = "failed")
  BY <1>1, <1>3 DEF NewFailure, Revision
<1>4. ASSUME NEW r \in Revisions, NEW s \in Skills, NewReady(r, s)
      PROVE  \/ revisions'[q] = revisions[q]
             \/ /\ revisions[q].status = "uploading" /\ revisions'[q].status = "ready"
                /\ objects[q] # "missing" /\ UNCHANGED objects
  BY <1>1, <1>4 DEF NewReady, Revision
<1>5. ASSUME NEW s \in Skills, NewArchived(s)
      PROVE  revisions' = revisions
  BY <1>5 DEF NewArchived
<1>6. CASE UNCHANGED rows
  BY <1>6 DEF rows
<1> QED BY <1>2, <1>3, <1>4, <1>5, <1>6, RowsTurn

(* No step takes a reservation or an object away. *)
LEMMA NothingTaken ==
    ASSUME PublicationInv, [PublicationNext]_vars, NEW r \in Revisions
    PROVE  /\ revisions[r].status # "absent" => revisions'[r].status # "absent"
           /\ objects[r] # "missing" => objects'[r] # "missing"
<1>1. revisions \in [Revisions -> Revision] /\ objects \in [Revisions -> {"missing", "intact", "damaged"}]
  BY DEF PublicationInv, PublicationTypeOK
<1>2. ASSUME revisions[r].status # "absent"
      PROVE  revisions'[r].status # "absent"
  BY <1>2, RevisionTurn
<1>3. ASSUME NEW c \in Requests, Put(c) \/ PutBadly(c), objects[r] # "missing"
      PROVE  objects'[r] # "missing"
  BY <1>1, <1>3 DEF Put, PutBadly
<1>4. ASSUME objects[r] # "missing"
      PROVE  objects'[r] # "missing"
  <2>1. UNCHANGED objects \/ \E c \in Requests : Put(c) \/ PutBadly(c)
    <3>1. ASSUME NEW c \in Requests, NEW s \in Skills, NEW q \in Revisions, NEW z \in Zips, NEW n,
                 \/ CreateSkill(c, s, q, z) \/ CreateAnew(c, s, q, z) \/ CreateAgain(c, s, q, z)
                 \/ PublishRevision(c, s, q, z, n) \/ PublishAgain(c, s, q, z, n) \/ ArchiveSkill(s, n)
          PROVE  UNCHANGED objects
      BY <3>1 DEF CreateSkill, CreateAnew, CreateAgain, PublishRevision, PublishAgain, ArchiveSkill
    <3>2. ASSUME NEW s \in Skills, NEW n, ArchiveSkill(s, n)
          PROVE  UNCHANGED objects
      BY <3>2 DEF ArchiveSkill
    <3>3. ASSUME NEW c \in Requests,
                 \/ FirstHead(c) \/ SecondHead(c) \/ Finalize(c) \/ FinalizeRefused(c)
                 \/ Fail(c) \/ GiveUp(c)
          PROVE  UNCHANGED objects
      BY <3>3 DEF FirstHead, SecondHead, Finalize, FinalizeRefused, Fail, GiveUp
    <3>4. CASE UNCHANGED vars
      BY <3>4 DEF vars
    <3> QED BY <3>1, <3>2, <3>3, <3>4 DEF PublicationNext
  <2> QED BY <1>3, <1>4, <2>1
<1> QED BY <1>2, <1>4

LEMMA StoredKept ==
    ASSUME PublicationInv, [PublicationNext]_vars
    PROVE  ReadyIsStored'
<1> SUFFICES ASSUME NEW r \in Revisions, revisions'[r].status = "ready"
             PROVE  objects'[r] # "missing"
  BY DEF ReadyIsStored
<1>2. CASE revisions[r].status = "ready"
  BY <1>2, NothingTaken DEF PublicationInv, ReadyIsStored
<1>3. CASE revisions[r].status # "ready"
  BY <1>3, RevisionTurn
<1> QED BY <1>2, <1>3

LEMMA WorkingKept ==
    ASSUME PublicationInv, [PublicationNext]_vars
    PROVE  Working'
<1> SUFFICES ASSUME NEW c \in Requests, requests'[c].at # "free"
             PROVE  /\ requests'[c].revision \in Revisions
                    /\ revisions'[requests'[c].revision].status # "absent"
                    /\ requests'[c].at = "finalize" => objects'[requests'[c].revision] # "missing"
  BY DEF Working
<1> USE DEF PublicationInv, PublicationTypeOK
<1>1. requests \in [Requests -> Request]
  OBVIOUS
<1>2. CASE requests'[c] = requests[c]
  BY <1>2, NothingTaken DEF Working
<1>3. ASSUME NEW r \in Revisions, NEW n \in Nat, NEW d \in Requests, Reserved(d, r, n), requests'[c] # requests[c]
      PROVE  /\ requests'[c].revision = r /\ requests'[c].at = "head"
             /\ revisions'[r].status = "uploading"
  BY <1>1, <1>3 DEF Reserved, NoRequest
<1>4. ASSUME NEW d \in Requests, Answer(d), requests'[c] # requests[c]
      PROVE  FALSE
  BY <1>1, <1>4 DEF Answer, NoRequest
<1>5. ASSUME NEW d \in Requests, NEW point, Go(d, point), requests'[c] # requests[c]
      PROVE  /\ c = d /\ requests'[c].at = point /\ requests'[c].revision = requests[c].revision
  BY <1>1, <1>5 DEF Go, Request
<1>6. ASSUME NEW d \in Requests, NEW point, Go(d, point), ~At(d, "free"), requests'[c] # requests[c],
             point = "finalize" => objects[requests[d].revision] # "missing"
      PROVE  /\ requests'[c].revision \in Revisions
             /\ revisions'[requests'[c].revision].status # "absent"
             /\ requests'[c].at = "finalize" => objects'[requests'[c].revision] # "missing"
  BY <1>5, <1>6, NothingTaken DEF Working, At
<1>7. ASSUME NEW d \in Requests, FirstHead(d) \/ SecondHead(d) \/ FinalizeRefused(d)
      PROVE  /\ requests'[c].revision \in Revisions
             /\ revisions'[requests'[c].revision].status # "absent"
             /\ requests'[c].at = "finalize" => objects'[requests'[c].revision] # "missing"
  <2>1. AfterHead(d) = "finalize" => objects[requests[d].revision] # "missing"
    BY DEF AfterHead
  <2>2. \/ Answer(d)
        \/ \E point : /\ Go(d, point) /\ ~At(d, "free")
                      /\ point = "finalize" => objects[requests[d].revision] # "missing"
    BY <1>7, <2>1 DEF FirstHead, SecondHead, FinalizeRefused, At
  <2> QED BY <1>2, <1>4, <1>6, <2>2
<1>8. ASSUME NEW d \in Requests, Put(d) \/ PutBadly(d)
      PROVE  /\ requests'[c].revision \in Revisions
             /\ revisions'[requests'[c].revision].status # "absent"
             /\ requests'[c].at = "finalize" => objects'[requests'[c].revision] # "missing"
  <2>1. Go(d, "again") /\ ~At(d, "free")
    BY <1>8 DEF Put, PutBadly, AfterPut, At
  <2> QED BY <1>2, <1>6, <2>1
<1>9. ASSUME NEW d \in Requests, Finalize(d) \/ Fail(d) \/ GiveUp(d)
      PROVE  requests'[c] = requests[c]
  BY <1>4, <1>9 DEF Finalize, Fail, GiveUp
<1>10. ASSUME NEW d \in Requests, NEW s \in Skills, NEW r \in Revisions, NEW z \in Zips,
              NEW n \in 1..Cardinality(Revisions),
              \/ CreateSkill(d, s, r, z) \/ CreateAnew(d, s, r, z) \/ CreateAgain(d, s, r, z)
              \/ PublishRevision(d, s, r, z, n) \/ PublishAgain(d, s, r, z, n)
       PROVE  /\ requests'[c].revision \in Revisions
              /\ revisions'[requests'[c].revision].status # "absent"
              /\ requests'[c].at = "finalize" => objects'[requests'[c].revision] # "missing"
  <2>1. Cardinality(Revisions) \in Nat
    BY FS_CardinalityType, IdsAssumption
  <2>2. \E m \in Nat : Reserved(d, r, m)
    BY <1>10, <2>1 DEF CreateSkill, CreateAnew, CreateAgain, PublishRevision, PublishAgain
  <2>3. ASSUME requests'[c] # requests[c]
        PROVE  /\ requests'[c].revision = r /\ requests'[c].at = "head"
               /\ revisions'[r].status = "uploading"
    BY <1>3, <2>2, <2>3
  <2> QED BY <1>2, <2>3
<1>11. CASE \E s \in Skills : \E n \in 1..Cardinality(Revisions) : ArchiveSkill(s, n)
  BY <1>2, <1>11 DEF ArchiveSkill
<1>12. CASE UNCHANGED vars
  BY <1>2, <1>12 DEF vars
<1>13. CASE \E d \in Requests, s \in Skills, r \in Revisions, z \in Zips :
               CreateSkill(d, s, r, z) \/ CreateAnew(d, s, r, z) \/ CreateAgain(d, s, r, z)
  <2>1. PICK d \in Requests, s \in Skills, r \in Revisions, z \in Zips :
                CreateSkill(d, s, r, z) \/ CreateAnew(d, s, r, z) \/ CreateAgain(d, s, r, z)
    BY <1>13
  <2>2. Reserved(d, r, 0)
    BY <2>1 DEF CreateSkill, CreateAnew, CreateAgain
  <2>3. ASSUME requests'[c] # requests[c]
        PROVE  /\ requests'[c].revision = r /\ requests'[c].at = "head"
               /\ revisions'[r].status = "uploading"
    BY <1>3, <2>2, <2>3
  <2> QED BY <1>2, <2>3
<1> QED BY <1>2, <1>7, <1>8, <1>9, <1>10, <1>11, <1>12, <1>13 DEF PublicationNext

LEMMA Preserved ==
    ASSUME PublicationInv, [PublicationNext]_vars
    PROVE  PublicationInv'
BY TypesKept, RowsKept, StoredKept, WorkingKept DEF PublicationInv

LEMMA Initially ==
    ASSUME PublicationInit
    PROVE  PublicationInv
<1> USE DEF PublicationInit
<1>1. PublicationTypeOK
  BY MaxFaultsAssumption DEF PublicationTypeOK, Skill, NoSkill, Revision, NoRevision, Request, NoRequest
<1>2. \A s \in Skills : ReadyOf(s) = {}
  BY DEF ReadyOf, NoRevision
<1>3. \A s \in Skills : Latest(s) = 0
  BY DEF Latest, NoSkill
<1>4. Numbering
  <2>1. Cardinality({}) = 0
    BY FS_EmptySet
  <2>2. \A s \in Skills : skills[s] = NoSkill
    OBVIOUS
  <2>3. ASSUME NEW s \in Skills
        PROVE  /\ skills[s].current = "none" /\ skills[s].status # "archived"
               /\ skills[s].revision = 0
    BY <2>2 DEF NoSkill
  <2>4. ASSUME NEW s \in Skills
        PROVE  skills[s].revision = Latest(s) + (IF skills[s].status = "archived" THEN 1 ELSE 0)
    BY <1>3, <2>3
  <2> QED BY <1>2, <1>3, <2>1, <2>3, <2>4 DEF Numbering
<1>5. Reservations /\ OneActive /\ Working /\ ReadyIsStored
  BY DEF Reservations, OneActive, Working, ReadyIsStored, NoSkill, NoRevision, NoRequest
<1> QED BY <1>1, <1>4, <1>5 DEF PublicationInv
----------------------------------------------------------------------------
(* The inductive invariant holds in every behavior. *)
THEOREM PublicationInvariant == PublicationSpec => []PublicationInv
BY Initially, Preserved, PTL DEF PublicationSpec

(* Skill and SkillRevision rows, objects and requests keep their types. *)
THEOREM PublicationTypes == PublicationSpec => []PublicationTypeOK
BY PublicationInvariant, PTL DEF PublicationInv

(* finalizeSkillRevisionPublication: the ready revisions of a Skill are one chain,
   numbered without a gap or a duplicate up to the current one. *)
THEOREM ReadyRevisionsAreOneChain == PublicationSpec => []ReadyChain
<1>1. ASSUME PublicationInv
      PROVE  ReadyChain
  <2> SUFFICES ASSUME NEW s \in Skills
               PROVE  /\ \A r \in ReadyOf(s) :
                            revisions[r].sequence = IF revisions[r].base = "none" THEN 1
                                                    ELSE revisions[revisions[r].base].sequence + 1
                      /\ \A r \in ReadyOf(s) : revisions[r].base \in ReadyOf(s) \cup {"none"}
                      /\ \A q, r \in ReadyOf(s) : revisions[q].sequence = revisions[r].sequence => q = r
                      /\ IF ReadyOf(s) = {} THEN skills[s].current = "none"
                         ELSE /\ skills[s].current \in ReadyOf(s)
                              /\ \A r \in ReadyOf(s) :
                                    revisions[r].sequence <= revisions[skills[s].current].sequence
                      /\ skills[s].revision = Cardinality(ReadyOf(s))
                                              + (IF skills[s].status = "archived" THEN 1 ELSE 0)
    BY DEF ReadyChain
  <2>1. \A r \in ReadyOf(s) : revisions[r].base \in ReadyOf(s) \cup {"none"}
    BY <1>1 DEF PublicationInv, Reservations, ReadyOf
  <2>2. IF ReadyOf(s) = {} THEN skills[s].current = "none"
        ELSE /\ skills[s].current \in ReadyOf(s)
             /\ \A r \in ReadyOf(s) : revisions[r].sequence <= revisions[skills[s].current].sequence
    <3>1. CASE skills[s].current = "none"
      BY <1>1, <3>1 DEF PublicationInv, Numbering
    <3>2. CASE skills[s].current # "none"
      <4>1. skills[s].current \in ReadyOf(s) /\ Latest(s) = revisions[skills[s].current].sequence
        BY <1>1, <3>2 DEF PublicationInv, Numbering, Latest
      <4>2. \A r \in ReadyOf(s) : revisions[r].sequence \in 1..Latest(s)
        BY <1>1 DEF PublicationInv, Numbering
      <4> QED BY <4>1, <4>2
    <3> QED BY <3>1, <3>2
  <2> QED BY <1>1, <2>1, <2>2 DEF PublicationInv, Numbering
<1> QED BY <1>1, PublicationInvariant, PTL

(* #completePublication: a revision is made ready only when its object was seen. *)
THEOREM ReadyRevisionsAreStored == PublicationSpec => []ReadyIsStored
BY PublicationInvariant, PTL DEF PublicationInv

(* finalizeSkillRevisionPublication and failSkillRevisionPublication: what a
   publication has come to, no late request changes. *)
THEOREM OutcomesAreFinal == PublicationSpec => OutcomeFinal
<1>1. ASSUME PublicationInv, [PublicationNext]_vars, NEW r \in Revisions,
             revisions[r].status \in {"ready", "failed"}
      PROVE  revisions'[r] = revisions[r]
  BY <1>1, RevisionTurn
<1>2. ASSUME PublicationInv, [PublicationNext]_vars
      PROVE  [\A r \in Revisions :
                 revisions[r].status \in {"ready", "failed"} => revisions'[r] = revisions[r]]_vars
  BY <1>1, <1>2
<1> QED BY <1>2, PublicationInvariant, PTL DEF PublicationSpec, OutcomeFinal

(* Reserving, putting and finalizing implement the catalog: a Skill's revisions come
   one by one, under a name that no other Skill on offer has. *)
THEOREM PublicationImplementsCatalog == PublicationSpec => ImplementsCatalog
<1> DEFINE cat == [s \in Skills |-> [current |-> IF skills[s].current = "none" THEN 0
                                                 ELSE revisions[skills[s].current].sequence,
                                     archived |-> skills[s].status = "archived"]]
<1>1. ASSUME PublicationInit
      PROVE  Catalog!CatalogInit
  BY <1>1 DEF PublicationInit, NoSkill, Catalog!CatalogInit
<1>2. ASSUME PublicationInv, [PublicationNext]_vars
      PROVE  [Catalog!CatalogNext]_cat
  <2> USE DEF PublicationInv
  <2>1. /\ revisions \in [Revisions -> Revision] /\ skills \in [Skills -> Skill]
        /\ revisions' \in [Revisions -> Revision] /\ skills' \in [Skills -> Skill]
    BY <1>2, TypesKept DEF PublicationTypeOK
  <2>2. ASSUME NEW s \in Skills
        PROVE  cat[s] = [current |-> Latest(s), archived |-> skills[s].status = "archived"]
    BY DEF Latest
  <2>3. ASSUME NEW s \in Skills
        PROVE  cat'[s] = [current |-> Latest(s)', archived |-> skills'[s].status = "archived"]
    BY DEF Latest
  <2>4. cat = [s \in Skills |-> cat[s]] /\ cat' = [s \in Skills |-> cat'[s]]
    OBVIOUS
  <2>5. ASSUME \A s \in Skills : Latest(s)' = Latest(s)
                                 /\ (skills'[s].status = "archived" <=> skills[s].status = "archived")
        PROVE  cat' = cat
    <3> HIDE DEF cat
    <3>1. ASSUME NEW s \in Skills
          PROVE  cat'[s] = cat[s]
      <4> DEFINE gone == skills[s].status = "archived"
                 gone1 == skills'[s].status = "archived"
      <4>1. gone = gone1
        BY <2>5
      <4>2. Latest(s)' = Latest(s)
        BY <2>5
      <4>3. cat[s] = [current |-> Latest(s), archived |-> gone]
        BY <2>2
      <4>4. cat'[s] = [current |-> Latest(s)', archived |-> gone1]
        BY <2>3
      <4> HIDE DEF gone, gone1, Latest
      <4> QED BY <4>1, <4>2, <4>3, <4>4, Zenon
    <3> QED BY <2>4, <3>1
  <2>6. CASE UNCHANGED rows
    BY <2>6 DEF rows
  <2>7. ASSUME NEW r \in Revisions, NEW s \in Skills, NEW z \in Zips, NEW base \in Revisions \cup {"none"},
               NewUpload(r, s, base, z)
        PROVE  cat' = cat
    <3>1. \A t \in Skills : /\ skills'[t].current = skills[t].current
                            /\ skills'[t].status = "archived" <=> skills[t].status = "archived"
      <4> HIDE DEF PublicationInv, cat
      <4>1. UNCHANGED skills \/ (skills[s].status = "absent" /\ skills' = [skills EXCEPT ![s].status = "active"])
        BY <2>7 DEF NewUpload
      <4> QED BY <2>1, <4>1 DEF Skill
    <3>2. ASSUME NEW t \in Skills, skills[t].current # "none"
          PROVE  skills[t].current \in Revisions \ {r}
      <4>1. skills[t].current \in ReadyOf(t)
        BY <1>2, <3>2 DEF Numbering
      <4>2. revisions[r].status = "absent"
        BY <2>7 DEF NewUpload, Reserve
      <4> QED BY <4>1, <4>2 DEF ReadyOf
    <3>3. \A t \in Skills : Latest(t)' = Latest(t)
      BY <2>1, <2>7, <3>1, <3>2 DEF Latest, NewUpload, Reserve
    <3> QED BY <2>5, <3>1, <3>3
  <2>8. ASSUME NEW r \in Revisions, NewFailure(r)
        PROVE  cat' = cat
    BY <2>1, <2>5, <2>8 DEF NewFailure, Latest, Skill, Revision
  <2>9. ASSUME NEW r \in Revisions, NEW s \in Skills, NewReady(r, s)
        PROVE  Catalog!Publish(s)
    <3>1. skills[s].status = "active" /\ ~cat[s].archived
      BY <2>2, <2>9 DEF NewReady
    <3>2. ASSUME NEW t \in Skills \ {s}, cat[t].current > 0, ~cat[t].archived
          PROVE  FALSE
      <4>1. skills[t].current # "none"
        BY <3>2
      <4>2. skills[t].status \in {"active", "absent"}
        BY <2>1, <2>2, <3>2 DEF Skill
      <4>3. skills[t].status = "active"
        BY <1>2, <4>1, <4>2 DEF Reservations, NoSkill
      <4> QED BY <1>2, <3>1, <3>2, <4>3 DEF OneActive
    <3>3. cat' = [cat EXCEPT ![s].current = @ + 1]
      <4>1. /\ skills[s].revision = Latest(s) /\ Latest(s)' = Latest(s) + 1
            /\ skills'[s].status = skills[s].status
        <5>1. skills[s].revision = Latest(s)
          BY <1>2, <3>1 DEF Numbering, Latest, Revision, PublicationTypeOK
        <5>2. skills'[s].current = r /\ revisions'[r].sequence = skills[s].revision + 1
          BY <2>1, <2>9 DEF NewReady, Revision, Skill
        <5>3. skills'[s].status = skills[s].status
          BY <2>1, <2>9 DEF NewReady, Skill
        <5> QED BY <5>1, <5>2, <5>3, IdsAssumption DEF Latest
      <4>2. ASSUME NEW t \in Skills, t # s
            PROVE  skills'[t] = skills[t] /\ Latest(t)' = Latest(t)
        <5>1. skills'[t] = skills[t]
          BY <2>1, <2>9, <4>2 DEF NewReady
        <5>2. skills[t].current # "none" => skills[t].current \in Revisions \ {r}
          BY <1>2, <2>9, <4>2 DEF Numbering, ReadyOf, NewReady
        <5>3. ASSUME NEW q \in Revisions \ {r}
              PROVE  revisions'[q] = revisions[q]
          BY <2>1, <2>9 DEF NewReady
        <5> QED BY <5>1, <5>2, <5>3 DEF Latest
      <4>3. ASSUME NEW t \in Skills
            PROVE  cat'[t] = IF t = s THEN [cat[t] EXCEPT !.current = @ + 1] ELSE cat[t]
        <5>1. CASE t = s
          BY <2>2, <2>3, <4>1, <5>1
        <5>2. CASE t # s
          <6>1. cat'[t].current = cat[t].current /\ cat'[t].archived = cat[t].archived
            BY <4>2, <5>2 DEF Latest
          <6> QED BY <5>2, <6>1
        <5> QED BY <5>1, <5>2
      <4> HIDE DEF cat
      <4> QED BY <2>4, <4>3
    <3> QED BY <3>1, <3>2, <3>3 DEF Catalog!Publish, Catalog!Offered
  <2>10. ASSUME NEW s \in Skills, NewArchived(s)
         PROVE  Catalog!Archive(s)
    <3>1. Catalog!Offered(s)
      <4>1. skills[s].status = "active" /\ skills[s].current \in ReadyOf(s) /\ skills[s].current # "none"
        BY <1>2, <2>10 DEF NewArchived, Numbering
      <4>2. Latest(s) > 0
        <5>1. Latest(s) = revisions[skills[s].current].sequence
          BY <4>1 DEF Latest
        <5>2. revisions[skills[s].current].sequence \in 1..Latest(s)
          BY <1>2, <4>1 DEF Numbering
        <5>3. Latest(s) \in Nat
          BY <2>1, <4>1, <5>1 DEF ReadyOf, Revision
        <5> QED BY <5>2, <5>3
      <4> QED BY <2>2, <4>1, <4>2 DEF Catalog!Offered
    <3>2. cat' = [cat EXCEPT ![s].archived = TRUE]
      <4>1. ASSUME NEW t \in Skills
            PROVE  /\ Latest(t)' = Latest(t) /\ skills'[s].status = "archived"
                   /\ t # s => skills'[t].status = skills[t].status
        BY <2>1, <2>10 DEF NewArchived, Latest, Skill
      <4>2. ASSUME NEW t \in Skills
            PROVE  cat'[t] = IF t = s THEN [cat[t] EXCEPT !.archived = TRUE] ELSE cat[t]
        <5>1. CASE t = s
          <6>1. cat'[s].current = cat[s].current /\ cat'[s].archived = TRUE
            BY <4>1 DEF Latest
          <6> QED BY <5>1, <6>1
        <5>2. CASE t # s
          <6>1. cat'[t].current = cat[t].current /\ cat'[t].archived = cat[t].archived
            BY <4>1, <5>2 DEF Latest
          <6> QED BY <5>2, <6>1
        <5> QED BY <5>1, <5>2
      <4> HIDE DEF cat
      <4> QED BY <2>4, <4>2
    <3> QED BY <3>1, <3>2 DEF Catalog!Archive
  <2> QED BY <1>2, <2>6, <2>7, <2>8, <2>9, <2>10, RowsTurn DEF Catalog!CatalogNext
<1> QED BY <1>1, <1>2, PublicationInvariant, PTL
        DEF PublicationSpec, ImplementsCatalog, Catalog!CatalogSpec
=============================================================================
