------------------------- MODULE TeamAccess_proofs -------------------------
(***************************************************************************)
(* Every Team in use keeps an Owner and every active User a Team, for any     *)
(* number of Users, Teams, login sessions and requests.  What a request was    *)
(* permitted is not needed for it: the transactions look again at everything   *)
(* the property speaks of.  Needed is that a request which comes to its         *)
(* transaction names rows there are (Knows).                                    *)
(***************************************************************************)
EXTENDS TeamAccess, FiniteSetTheorems, TLAPS

(* What a request has found out by the point it has come to. *)
Knows(r) ==
    /\ r.at # "free" => r.session \in Sessions
    /\ r.at \in {"fallback", "fallbackAgain"} => r.team \in Teams /\ r.role \in Roles
    /\ r.at = "list" => r.team \in Teams
    /\ r.at = "act" /\ r.kind \in {"archive", "role", "add", "remove"} => r.team \in Teams
    /\ r.at = "act" /\ r.kind = "remove" =>
          r.target \in Users /\ members[r.team][r.target] # NoMembership

RequestsKnow == \A q \in Requests : Knows(requests[q])

AccessInv == AccessTypeOK /\ RequestsKnow /\ OwnedAndPlaced

(* No membership is ever deleted. *)
RowsStay ==
    \A t \in Teams, u \in Users : members[t][u] # NoMembership => members'[t][u] # NoMembership
----------------------------------------------------------------------------
LEMMA KindsKnown ==
    /\ DOMAIN May = {"archive", "role", "add", "remove", "read"}
    /\ Kinds \subseteq AllKinds
    /\ AllKinds = {"archive", "role", "add", "remove", "read", "create", "switch", "deactivate"}
  BY BoundsAssumption DEF May, AllKinds

LEMMA NoRequestKnows == NoRequest \in Request /\ NoRequest.at = "free"
  BY DEF NoRequest, Request

(* An answered request knows nothing, and the others what they knew. *)
LEMMA Answered ==
    ASSUME requests \in [Requests -> Request], RequestsKnow, RowsStay,
           NEW q \in Requests, Answer(q)
    PROVE  requests' \in [Requests -> Request] /\ RequestsKnow'
  <1>1. requests' \in [Requests -> Request] BY NoRequestKnows DEF Answer
  <1>2. ASSUME NEW p \in Requests PROVE Knows(requests[p])'
    <2>1. CASE p = q
      BY <2>1, NoRequestKnows DEF Answer, Knows
    <2>2. CASE p # q
      <3>1. requests'[p] = requests[p] BY <2>2 DEF Answer
      <3>2. Knows(requests[p]) BY DEF RequestsKnow
      <3> QED BY <3>1, <3>2 DEF Knows, RowsStay
    <2> QED BY <2>1, <2>2
  <1> QED BY <1>1, <1>2 DEF RequestsKnow

(* A request that goes on knows what its next point asks for. *)
LEMMA WentOn ==
    ASSUME requests \in [Requests -> Request], RequestsKnow, RowsStay,
           NEW q \in Requests, NEW r \in Request, Knows(r)',
           requests' = [requests EXCEPT ![q] = r]
    PROVE  requests' \in [Requests -> Request] /\ RequestsKnow'
  <1>1. ASSUME NEW p \in Requests PROVE Knows(requests[p])'
    <2>1. CASE p = q
      <3>1. requests'[p] = r BY <2>1
      <3> QED BY <3>1 DEF Knows
    <2>2. CASE p # q
      <3>1. requests'[p] = requests[p] BY <2>2
      <3>2. Knows(requests[p]) BY DEF RequestsKnow
      <3> QED BY <3>1, <3>2 DEF Knows, RowsStay
    <2> QED BY <2>1, <2>2
  <1> QED BY <1>1 DEF RequestsKnow

(* Nothing happens to the Users, the Teams and their members. *)
LEMMA Untouched ==
    ASSUME OwnedAndPlaced, UNCHANGED <<users, teams, members>>
    PROVE  OwnedAndPlaced' /\ RowsStay
  BY DEF OwnedAndPlaced, RowsStay, Owners, Belongs, Active

(* The role of an active member. *)
LEMMA ActiveRole ==
    ASSUME members \in [Teams -> [Users -> Membership \cup {NoMembership}]],
           NEW t \in Teams, NEW u \in Users, Active(t, u)
    PROVE  members[t][u].role \in Roles
  BY DEF Active, Membership, NoMembership

(* requirePermission lets a request go on at the Team it was given. *)
LEMMA PermittedKnows ==
    ASSUME requests \in [Requests -> Request], RequestsKnow, RowsStay,
           NEW q \in Requests, NEW t \in Teams, NEW role \in Roles, Permitted(q, t, role),
           requests[q].at # "free"
    PROVE  requests' \in [Requests -> Request] /\ RequestsKnow'
  <1> DEFINE Gone(point) == [requests[q] EXCEPT !.at = point, !.team = t, !.role = role]
  <1>1. requests[q] \in Request /\ requests[q].session \in Sessions
    BY DEF RequestsKnow, Knows
  <1>2. ASSUME NEW point \in {"again", "list", "act"},
               point = "act" => requests[q].kind # "remove",
               requests' = [requests EXCEPT ![q] = Gone(point)]
        PROVE  requests' \in [Requests -> Request] /\ RequestsKnow'
    <2>0. PICK r : r = Gone(point) OBVIOUS
    <2>1. /\ r \in Request /\ r.at = point /\ r.team = t /\ r.role = role
          /\ r.kind = requests[q].kind /\ r.session = requests[q].session
      BY <1>1, <2>0 DEF Request
    <2>2. Knows(r)' BY <1>1, <1>2, <2>1 DEF Knows
    <2> HIDE DEF Gone
    <2> QED BY <1>2, <2>0, <2>1, <2>2, WentOn
  <1>3. \/ Answer(q)
        \/ \E point \in {"again", "list", "act"} :
              /\ point = "act" => requests[q].kind # "remove"
              /\ requests' = [requests EXCEPT ![q] = Gone(point)]
    BY DEF Permitted
  <1> QED BY <1>2, <1>3, Answered
----------------------------------------------------------------------------
(* More than one Owner: there is another one. *)
LEMMA AnotherOwner ==
    ASSUME NEW t, NEW u, u \in Owners(t), OwnedWithout(t, u)
    PROVE  \E o \in Owners(t) : o # u
  <1>1. SUFFICES ASSUME Owners(t) = {u} PROVE FALSE OBVIOUS
  <1>2. Cardinality(Owners(t)) = 1 BY <1>1, FS_Singleton
  <1>3. Cardinality(Owners(t)) > 1 BY DEF OwnedWithout
  <1> QED BY <1>2, <1>3

(* A new Team has the Owner that makes it, and takes nothing from the others. *)
LEMMA FoundKeeps ==
    ASSUME AccessTypeOK, OwnedAndPlaced, NEW t \in Teams, NEW u \in Users, Found(t, u)
    PROVE  /\ teams' \in [Teams -> {"none", "active", "archived"}]
           /\ members' \in [Teams -> [Users -> Membership \cup {NoMembership}]]
           /\ RowsStay
           /\ \A o \in Teams : teams'[o] = "active" => Owners(o)' # {}
           /\ \A v \in Users : users[v] = "active" \/ v = u => \E o \in Teams : Belongs(o, v)'
  <1> DEFINE owner == [role |-> "owner", status |-> "active"]
  <1>1. owner \in Membership /\ owner # NoMembership BY DEF Membership, Roles, NoMembership
  <1>2. /\ teams' = [teams EXCEPT ![t] = "active"] /\ teams[t] = "none"
        /\ members' = [members EXCEPT ![t][u] = owner]
    BY DEF Found
  <1>3. /\ teams' \in [Teams -> {"none", "active", "archived"}]
        /\ members' \in [Teams -> [Users -> Membership \cup {NoMembership}]]
    BY <1>1, <1>2 DEF AccessTypeOK
  <1>4. /\ members'[t][u] = owner /\ teams'[t] = "active"
        /\ \A o \in Teams \ {t} : teams'[o] = teams[o] /\ members'[o] = members[o]
        /\ \A v \in Users \ {u} : members'[t][v] = members[t][v]
    BY <1>2 DEF AccessTypeOK
  <1>5. RowsStay BY <1>1, <1>4 DEF RowsStay, AccessTypeOK
  <1>6. u \in Owners(t)' /\ Belongs(t, u)' BY <1>4 DEF Owners, Belongs, Active
  <1>7. ASSUME NEW o \in Teams, teams'[o] = "active" PROVE Owners(o)' # {}
    <2>1. CASE o = t BY <1>6, <2>1
    <2>2. CASE o # t BY <1>4, <1>7, <2>2 DEF OwnedAndPlaced, Owners, Active
    <2> QED BY <2>1, <2>2
  <1>8. ASSUME NEW v \in Users, users[v] = "active" PROVE \E o \in Teams : Belongs(o, v)'
    <2>1. PICK o \in Teams : Belongs(o, v) BY <1>8 DEF OwnedAndPlaced
    <2>2. o # t BY <1>2, <2>1 DEF Belongs
    <2> QED BY <1>4, <2>1, <2>2 DEF Belongs, Active
  <1> QED BY <1>3, <1>5, <1>6, <1>7, <1>8

(* The step of one membership of Team t: the Team has an Owner after it, and the User is
   still in it or in another one. *)
LEMMA RowKeeps ==
    ASSUME AccessTypeOK, OwnedAndPlaced, UNCHANGED <<users, teams>>,
           NEW t \in Teams, NEW u \in Users, NEW row \in Membership,
           members' = [members EXCEPT ![t][u] = row],
           u \in Owners(t) /\ ~(row.role = "owner" /\ row.status = "active") => OwnedWithout(t, u),
           Active(t, u) => row.status = "active" \/ Elsewhere(t, u)
    PROVE  /\ members' \in [Teams -> [Users -> Membership \cup {NoMembership}]]
           /\ RowsStay /\ OwnedAndPlaced'
  <1>1. members' \in [Teams -> [Users -> Membership \cup {NoMembership}]] BY DEF AccessTypeOK
  <1>2. /\ members'[t][u] = row
        /\ \A o \in Teams \ {t} : members'[o] = members[o]
        /\ \A v \in Users \ {u} : members'[t][v] = members[t][v]
    BY DEF AccessTypeOK
  <1>3. row # NoMembership BY DEF Membership, Roles, NoMembership
  <1>4. RowsStay BY <1>2, <1>3 DEF RowsStay, AccessTypeOK
  <1>5. ASSUME NEW o \in Teams, teams[o] = "active" PROVE Owners(o)' # {}
    <2>1. Owners(o) # {} BY <1>5 DEF OwnedAndPlaced
    <2>2. CASE o # t BY <1>2, <2>1, <2>2 DEF Owners, Active
    <2>3. CASE o = t /\ \E v \in Owners(t) : v # u BY <1>2, <2>3 DEF Owners, Active
    <2>4. CASE o = t /\ \A v \in Owners(t) : v = u
      <3>1. u \in Owners(t) BY <2>1, <2>4
      <3>2. row.role = "owner" /\ row.status = "active" BY <2>4, <3>1, AnotherOwner
      <3>3. u \in Owners(t)' BY <1>2, <3>2 DEF Owners, Active
      <3> QED BY <2>4, <3>3
    <2> QED BY <2>2, <2>3, <2>4
  <1>6. ASSUME NEW v \in Users, users[v] = "active" PROVE \E o \in Teams : Belongs(o, v)'
    <2>1. PICK o \in Teams : Belongs(o, v) BY <1>6 DEF OwnedAndPlaced
    <2>2. CASE o # t \/ v # u BY <1>2, <2>1, <2>2 DEF Belongs, Active
    <2>3. CASE o = t /\ v = u
      <3>1. CASE row.status = "active" BY <1>2, <2>1, <2>3, <3>1 DEF Belongs, Active
      <3>2. CASE Elsewhere(t, u) BY <1>2, <2>3, <3>2 DEF Elsewhere, Belongs, Active
      <3> QED BY <2>1, <2>3, <3>1, <3>2 DEF Belongs
    <2> QED BY <2>2, <2>3
  <1> QED BY <1>1, <1>4, <1>5, <1>6 DEF OwnedAndPlaced
----------------------------------------------------------------------------
LEMMA InitAccess == AccessInit => AccessInv
  <1> SUFFICES ASSUME AccessInit PROVE AccessInv OBVIOUS
  <1>1. AccessTypeOK
    BY NoRequestKnows DEF AccessInit, AccessTypeOK, NoMembership, NoSession, Session
  <1>2. RequestsKnow BY NoRequestKnows DEF AccessInit, RequestsKnow, Knows
  <1>3. OwnedAndPlaced BY DEF AccessInit, OwnedAndPlaced
  <1> QED BY <1>1, <1>2, <1>3 DEF AccessInv

(* Logins, and what a request does before its transaction. *)
LEMMA RequestsKeep ==
    ASSUME AccessInv,
           \/ \E s \in Sessions : EndSession(s)
           \/ \E q \in Requests :
                 \/ \E s \in Sessions : BeginLogin(q, s) \/ \E kind \in Kinds : Begin(q, s, kind)
                 \/ Login(q) \/ Resolve(q) \/ SettleFallback(q) \/ Unresolved(q) \/ Fail(q)
                 \/ \E t \in Teams : FallBack(q, t) \/ SwitchTeam(q, t)
                 \/ \E u \in Users : ListMembers(q, u)
    PROVE  AccessInv'
  <1> USE DEF AccessInv
  <1>0. UNCHANGED <<users, teams, members>>
    BY DEF EndSession, BeginLogin, Begin, Login, Resolve, SettleFallback, Unresolved, Fail,
           FallBack, SwitchTeam, ListMembers
  <1>1. OwnedAndPlaced' /\ RowsStay BY <1>0, Untouched
  <1> DEFINE Right == /\ sessions' \in [Sessions -> Session]
                      /\ requests' \in [Requests -> Request] /\ RequestsKnow'
  <1>T. /\ sessions \in [Sessions -> Session] /\ requests \in [Requests -> Request]
        /\ members \in [Teams -> [Users -> Membership \cup {NoMembership}]]
        /\ UserOf \in [Sessions -> Users]
    BY UserOfAssumption DEF AccessTypeOK
  <1>K. RequestsKnow OBVIOUS
  <1>2. ASSUME NEW s \in Sessions, EndSession(s) PROVE Right
    <2>1. NoSession \in Session BY DEF NoSession, Session
    <2>2. sessions' \in [Sessions -> Session] BY <1>2, <1>T, <2>1 DEF EndSession
    <2>3. UNCHANGED requests BY <1>2 DEF EndSession
    <2> QED BY <2>2, <2>3, <1>0, <1>T, <1>K DEF RequestsKnow, Knows
  <1>3. ASSUME NEW q \in Requests, NEW s \in Sessions, BeginLogin(q, s) PROVE Right
    <2> DEFINE r == [NoRequest EXCEPT !.at = "login", !.session = s]
    <2>1. r \in Request /\ r.at = "login" /\ r.session = s BY DEF NoRequest, Request
    <2>2. Knows(r)' BY <2>1 DEF Knows
    <2>3. requests' = [requests EXCEPT ![q] = r] /\ UNCHANGED sessions BY <1>3 DEF BeginLogin
    <2> HIDE DEF r
    <2> QED BY <1>1, <1>T, <1>K, <2>1, <2>2, <2>3, WentOn
  <1>4. ASSUME NEW q \in Requests, NEW s \in Sessions, NEW kind \in Kinds, Begin(q, s, kind)
        PROVE  Right
    <2> DEFINE r == [NoRequest EXCEPT !.at = IF kind \in DOMAIN May THEN "resolve" ELSE "act",
                                      !.kind = kind, !.session = s]
    <2>1. /\ r \in Request /\ r.session = s /\ r.kind = kind
          /\ r.at = IF kind \in DOMAIN May THEN "resolve" ELSE "act"
      BY KindsKnown DEF NoRequest, Request
    <2>2. Knows(r)' BY <2>1, KindsKnown DEF Knows
    <2>3. requests' = [requests EXCEPT ![q] = r] /\ UNCHANGED sessions BY <1>4 DEF Begin
    <2> HIDE DEF r
    <2> QED BY <1>1, <1>T, <1>K, <2>1, <2>2, <2>3, WentOn
  <1>5. ASSUME NEW q \in Requests, Login(q) PROVE Right
    <2>1. requests[q].session \in Sessions BY <1>5, <1>K DEF Login, RequestsKnow, Knows
    <2>2. sessions' \in [Sessions -> Session] BY <1>5, <1>T, <2>1 DEF Login, Session
    <2> QED BY <1>1, <1>5, <1>T, <1>K, <2>2, Answered DEF Login
  <1>6. ASSUME NEW q \in Requests, Resolve(q) PROVE Right
    <2> DEFINE s == requests[q].session
               t == sessions[s].team
    <2>1. s \in Sessions BY <1>6, <1>K DEF Resolve, RequestsKnow, Knows
    <2>2. t \in Teams BY <1>6, <1>T, <2>1 DEF Resolve, StillIn, Session
    <2>3. members[t][UserOf[s]].role \in Roles
      <3>1. Active(t, UserOf[s]) BY <1>6 DEF Resolve, StillIn, Belongs
      <3>2. UserOf[s] \in Users BY <1>T, <2>1
      <3> HIDE DEF s, t
      <3> QED BY <1>T, <2>2, <3>1, <3>2, ActiveRole
    <2>4. /\ Permitted(q, t, members[t][UserOf[s]].role)
          /\ requests[q].at # "free" /\ UNCHANGED sessions
      BY <1>6 DEF Resolve
    <2> HIDE DEF s, t
    <2> QED BY <1>1, <1>T, <1>K, <2>2, <2>3, <2>4, PermittedKnows
  <1>7. ASSUME NEW q \in Requests, SettleFallback(q) PROVE Right
    <2> DEFINE r == requests[q]
    <2>1. r.session \in Sessions /\ r.team \in Teams /\ r.role \in Roles /\ r.at # "free"
      BY <1>7, <1>K DEF SettleFallback, RequestsKnow, Knows
    <2>2. sessions' \in [Sessions -> Session]
      BY <1>7, <1>T, <2>1 DEF SettleFallback, Session
    <2>3. Permitted(q, r.team, r.role) BY <1>7 DEF SettleFallback
    <2> QED BY <1>1, <1>T, <1>K, <2>1, <2>2, <2>3, PermittedKnows
  <1>8. ASSUME NEW q \in Requests, Unresolved(q) \/ Fail(q) PROVE Right
    BY <1>1, <1>8, <1>T, <1>K, Answered DEF Unresolved, Fail
  <1>9. ASSUME NEW q \in Requests, NEW t \in Teams, FallBack(q, t) PROVE Right
    <2> DEFINE u == UserOf[requests[q].session]
               next == [requests[q] EXCEPT
                           !.at = IF requests[q].at = "resolve" THEN "fallback"
                                  ELSE "fallbackAgain",
                           !.team = t, !.role = members[t][u].role]
    <2>1. requests[q].session \in Sessions BY <1>9, <1>K DEF FallBack, RequestsKnow, Knows
    <2>2. members[t][u].role \in Roles
      <3>1. Active(t, u) /\ u \in Users BY <1>9, <1>T, <2>1 DEF FallBack, Belongs
      <3> HIDE DEF u
      <3> QED BY <1>T, <3>1, ActiveRole
    <2>r. PICK r : r = next OBVIOUS
    <2>3. /\ r \in Request /\ r.at \in {"fallback", "fallbackAgain"}
          /\ r.session = requests[q].session /\ r.team = t /\ r.role = members[t][u].role
      BY <1>T, <2>2, <2>r DEF Request
    <2>4. Knows(r)' BY <2>1, <2>2, <2>3 DEF Knows
    <2>5. requests' = [requests EXCEPT ![q] = r] /\ UNCHANGED sessions
      BY <1>9, <2>r DEF FallBack
    <2> HIDE DEF next, u
    <2> QED BY <1>1, <1>T, <1>K, <2>3, <2>4, <2>5, WentOn
  <1>10. ASSUME NEW q \in Requests, NEW t \in Teams, SwitchTeam(q, t) PROVE Right
    <2>r. PICK r : r = [requests[q] EXCEPT !.at = "resolve", !.kind = "read"] OBVIOUS
    <2>1. requests[q].session \in Sessions
      BY <1>10, <1>K DEF SwitchTeam, Acting, RequestsKnow, Knows
    <2>2. r \in Request /\ r.at = "resolve" /\ r.session = requests[q].session
      <3>1. "read" \in AllKinds BY KindsKnown
      <3> QED BY <1>T, <2>r, <3>1 DEF Request
    <2>3. Knows(r)' BY <2>1, <2>2 DEF Knows
    <2>4. requests' = [requests EXCEPT ![q] = r] BY <1>10, <1>T, <2>r DEF SwitchTeam
    <2>5. sessions' \in [Sessions -> Session] BY <1>10, <1>T, <2>1 DEF SwitchTeam, Session
    <2> QED BY <1>1, <1>T, <1>K, <2>2, <2>3, <2>4, <2>5, WentOn
  <1>11. ASSUME NEW q \in Requests, NEW u \in Users, ListMembers(q, u) PROVE Right
    <2>r. PICK r : r = [requests[q] EXCEPT !.at = "act", !.target = u] OBVIOUS
    <2>1. /\ requests[q].session \in Sessions /\ requests[q].team \in Teams
          /\ members[requests[q].team][u] # NoMembership
      BY <1>11, <1>K DEF ListMembers, RequestsKnow, Knows
    <2>2. /\ r \in Request /\ r.at = "act" /\ r.target = u /\ r.team = requests[q].team
          /\ r.session = requests[q].session
      BY <1>T, <2>r DEF Request
    <2>3. Knows(r)' BY <1>0, <2>1, <2>2 DEF Knows
    <2>4. /\ Answer(q) \/ requests' = [requests EXCEPT ![q] = r]
          /\ UNCHANGED sessions
      BY <1>11, <2>r DEF ListMembers
    <2> QED BY <1>1, <1>T, <1>K, <2>2, <2>3, <2>4, WentOn, Answered
  <1>12. Right BY <1>2, <1>3, <1>4, <1>5, <1>6, <1>7, <1>8, <1>9, <1>10, <1>11
  <1> QED BY <1>0, <1>1, <1>12 DEF AccessTypeOK
----------------------------------------------------------------------------
LEMMA RegisterKeeps ==
    ASSUME AccessInv, NEW u \in Users, NEW t \in Teams, NEW s \in Sessions, Register(u, t, s)
    PROVE  AccessInv'
  <1>1. /\ AccessTypeOK /\ RequestsKnow /\ OwnedAndPlaced /\ Found(t, u)
        /\ users' = [users EXCEPT ![u] = "active"] /\ UNCHANGED requests
        /\ sessions' = [sessions EXCEPT ![s] = [live |-> TRUE, team |-> t]]
    BY DEF AccessInv, Register
  <1>2. /\ teams' \in [Teams -> {"none", "active", "archived"}]
        /\ members' \in [Teams -> [Users -> Membership \cup {NoMembership}]]
        /\ RowsStay
        /\ \A o \in Teams : teams'[o] = "active" => Owners(o)' # {}
        /\ \A v \in Users : users[v] = "active" \/ v = u => \E o \in Teams : Belongs(o, v)'
    BY <1>1, FoundKeeps
  <1>3. /\ users' \in [Users -> {"none", "active", "disabled"}]
        /\ sessions' \in [Sessions -> Session] /\ requests' \in [Requests -> Request]
        /\ \A v \in Users \ {u} : users'[v] = users[v]
    BY <1>1 DEF AccessTypeOK, Session
  <1>4. AccessTypeOK' BY <1>2, <1>3 DEF AccessTypeOK
  <1>5. RequestsKnow'
    <2> SUFFICES ASSUME NEW q \in Requests PROVE Knows(requests[q])' BY DEF RequestsKnow
    <2>1. Knows(requests[q]) BY <1>1 DEF RequestsKnow
    <2> QED BY <1>1, <1>2, <2>1 DEF Knows, RowsStay
  <1>6. OwnedAndPlaced' BY <1>2, <1>3 DEF OwnedAndPlaced
  <1> QED BY <1>4, <1>5, <1>6 DEF AccessInv

LEMMA CreateTeamKeeps ==
    ASSUME AccessInv, NEW q \in Requests, NEW t \in Teams, CreateTeam(q, t)
    PROVE  AccessInv'
  <1> DEFINE u == UserOf[requests[q].session]
  <1>1. /\ AccessTypeOK /\ RequestsKnow /\ OwnedAndPlaced /\ Found(t, u)
        /\ Answer(q) /\ UNCHANGED <<users, sessions>>
    BY DEF AccessInv, CreateTeam
  <1>2. u \in Users
    BY UserOfAssumption, <1>1 DEF CreateTeam, Acting, RequestsKnow, Knows
  <1> HIDE DEF u
  <1>3. /\ teams' \in [Teams -> {"none", "active", "archived"}]
        /\ members' \in [Teams -> [Users -> Membership \cup {NoMembership}]]
        /\ RowsStay
        /\ \A o \in Teams : teams'[o] = "active" => Owners(o)' # {}
        /\ \A v \in Users : users[v] = "active" \/ v = u => \E o \in Teams : Belongs(o, v)'
    BY <1>1, <1>2, FoundKeeps
  <1>4. requests' \in [Requests -> Request] /\ RequestsKnow'
    BY <1>1, <1>3, Answered DEF AccessTypeOK
  <1>5. AccessTypeOK' BY <1>1, <1>3, <1>4 DEF AccessTypeOK
  <1>6. OwnedAndPlaced' BY <1>1, <1>3 DEF OwnedAndPlaced
  <1> QED BY <1>4, <1>5, <1>6 DEF AccessInv

(* The three transactions that write one membership. *)
LEMMA MembershipKeeps ==
    ASSUME AccessInv, NEW q \in Requests,
           \/ \E u \in Users : AddMember(q, u) \/ \E role \in Given : SetMemberRole(q, u, role)
           \/ RemoveMember(q)
    PROVE  AccessInv'
  <1> DEFINE t == requests[q].team
  <1>1. /\ AccessTypeOK /\ RequestsKnow /\ OwnedAndPlaced
        /\ Answer(q) /\ UNCHANGED <<users, teams, sessions>>
    BY DEF AccessInv, AddMember, SetMemberRole, RemoveMember
  <1>2. t \in Teams
    BY <1>1 DEF AddMember, SetMemberRole, RemoveMember, Acting, RequestsKnow, Knows
  <1> DEFINE Wrote == /\ members' \in [Teams -> [Users -> Membership \cup {NoMembership}]]
                      /\ RowsStay /\ OwnedAndPlaced'
  <1>3. ASSUME NEW u \in Users, AddMember(q, u) PROVE Wrote
    <2> DEFINE row == [role |-> "member", status |-> "active"]
    <2>1. row \in Membership /\ row.status = "active" BY DEF Membership, Roles
    <2>2. members' = [members EXCEPT ![t][u] = row] /\ members[t][u] = NoMembership
      BY <1>3 DEF AddMember
    <2>3. u \notin Owners(t) BY <2>2 DEF Owners, Active, NoMembership
    <2> HIDE DEF t, row
    <2> QED BY <1>1, <1>2, <2>1, <2>2, <2>3, RowKeeps
  <1>4. ASSUME NEW u \in Users, NEW role \in Given, SetMemberRole(q, u, role) PROVE Wrote
    <2> DEFINE row == [members[t][u] EXCEPT !.role = role]
    <2>1. members[t][u] \in Membership /\ role \in Roles
      BY <1>1, <1>2, <1>4, BoundsAssumption DEF SetMemberRole, AccessTypeOK
    <2>2. row \in Membership /\ row.role = role /\ row.status = members[t][u].status
      BY <2>1 DEF Membership
    <2>3. members' = [members EXCEPT ![t][u] = row]
      BY <1>1, <1>2, <1>4 DEF SetMemberRole, AccessTypeOK
    <2>4. u \in Owners(t) /\ ~(row.role = "owner" /\ row.status = "active") => OwnedWithout(t, u)
      BY <1>4, <2>2 DEF SetMemberRole, Owners, Active
    <2>5. Active(t, u) => row.status = "active" BY <2>2 DEF Active
    <2> HIDE DEF t, row
    <2> QED BY <1>1, <1>2, <2>2, <2>3, <2>4, <2>5, RowKeeps
  <1>5. ASSUME RemoveMember(q) PROVE Wrote
    <2> DEFINE u == requests[q].target
               row == [members[t][u] EXCEPT !.status = "disabled"]
    <2>1. u \in Users /\ members[t][u] \in Membership
      BY <1>1, <1>2, <1>5 DEF RemoveMember, Acting, RequestsKnow, Knows, AccessTypeOK
    <2>2. row \in Membership /\ row.status = "disabled" BY <2>1 DEF Membership
    <2>3. members' = [members EXCEPT ![t][u] = row]
      BY <1>1, <1>2, <1>5, <2>1 DEF RemoveMember, AccessTypeOK
    <2>4. Active(t, u) => Elsewhere(t, u) /\ OwnedWithout(t, u) BY <1>5 DEF RemoveMember
    <2>5. u \in Owners(t) => Active(t, u) BY DEF Owners
    <2> HIDE DEF t, u, row
    <2> QED BY <1>1, <1>2, <2>1, <2>2, <2>3, <2>4, <2>5, RowKeeps
  <1>6. Wrote BY <1>3, <1>4, <1>5
  <1>7. requests' \in [Requests -> Request] /\ RequestsKnow'
    BY <1>1, <1>6, Answered DEF AccessTypeOK
  <1> QED BY <1>1, <1>6, <1>7 DEF AccessInv, AccessTypeOK

LEMMA ArchiveKeeps ==
    ASSUME AccessInv, NEW q \in Requests, ArchiveTeam(q)
    PROVE  AccessInv'
  <1> DEFINE t == requests[q].team
  <1>1. /\ AccessTypeOK /\ RequestsKnow /\ OwnedAndPlaced
        /\ Answer(q) /\ UNCHANGED <<users, members, sessions>>
        /\ teams[t] = "active" => \A u \in Users : Active(t, u) => Elsewhere(t, u)
        /\ teams' = [teams EXCEPT ![t] = "archived"]
    BY DEF AccessInv, ArchiveTeam
  <1>2. t \in Teams BY <1>1 DEF ArchiveTeam, Acting, RequestsKnow, Knows
  <1> HIDE DEF t
  <1>3. /\ teams' \in [Teams -> {"none", "active", "archived"}]
        /\ teams'[t] = "archived" /\ \A o \in Teams \ {t} : teams'[o] = teams[o]
    BY <1>1, <1>2 DEF AccessTypeOK
  <1>4. RowsStay BY <1>1 DEF RowsStay
  <1>5. ASSUME NEW o \in Teams, teams'[o] = "active" PROVE Owners(o)' # {}
    <2>1. o # t /\ teams[o] = "active" BY <1>3, <1>5
    <2>2. Owners(o) # {} BY <1>1, <2>1 DEF OwnedAndPlaced
    <2> QED BY <1>1, <2>2 DEF Owners, Active
  <1>6. ASSUME NEW u \in Users, users[u] = "active" PROVE \E o \in Teams : Belongs(o, u)'
    <2>1. PICK o \in Teams : Belongs(o, u) BY <1>1, <1>6 DEF OwnedAndPlaced
    <2>2. PICK p \in Teams \ {t} : Belongs(p, u)
      BY <1>1, <2>1 DEF Belongs, Elsewhere
    <2> QED BY <1>1, <1>3, <2>2 DEF Belongs, Active
  <1>7. OwnedAndPlaced' BY <1>1, <1>5, <1>6 DEF OwnedAndPlaced
  <1>8. requests' \in [Requests -> Request] /\ RequestsKnow'
    BY <1>1, <1>4, Answered DEF AccessTypeOK
  <1> QED BY <1>1, <1>3, <1>7, <1>8 DEF AccessInv, AccessTypeOK

LEMMA DeactivateKeeps ==
    ASSUME AccessInv, NEW q \in Requests, Deactivate(q)
    PROVE  AccessInv'
  <1> DEFINE u == UserOf[requests[q].session]
  <1>1. /\ AccessTypeOK /\ RequestsKnow /\ OwnedAndPlaced
        /\ Answer(q) /\ UNCHANGED <<teams, members>>
        /\ users' = [users EXCEPT ![u] = "disabled"]
        /\ sessions' = [s \in Sessions |-> IF users[u] = "active" /\ UserOf[s] = u
                                           THEN NoSession ELSE sessions[s]]
    BY DEF AccessInv, Deactivate
  <1> HIDE DEF u
  <1>2. /\ users' \in [Users -> {"none", "active", "disabled"}]
        /\ \A v \in Users : users'[v] = "active" => users[v] = "active"
    BY <1>1 DEF AccessTypeOK
  <1>3. sessions' \in [Sessions -> Session]
    BY <1>1 DEF AccessTypeOK, NoSession, Session
  <1>4. OwnedAndPlaced' BY <1>1, <1>2 DEF OwnedAndPlaced, Owners, Belongs, Active
  <1>5. RowsStay BY <1>1 DEF RowsStay
  <1>6. requests' \in [Requests -> Request] /\ RequestsKnow'
    BY <1>1, <1>5, Answered DEF AccessTypeOK
  <1> QED BY <1>1, <1>2, <1>3, <1>4, <1>6 DEF AccessInv, AccessTypeOK
----------------------------------------------------------------------------
LEMMA StepKeeps == AccessInv /\ [AccessNext]_vars => AccessInv'
  <1> SUFFICES ASSUME AccessInv, [AccessNext]_vars PROVE AccessInv' OBVIOUS
  <1>1. CASE UNCHANGED vars
    BY <1>1 DEF vars, AccessInv, AccessTypeOK, RequestsKnow, Knows, OwnedAndPlaced, Owners,
                Belongs, Active
  <1>2. CASE AccessNext
    <2>1. CASE \E u \in Users, t \in Teams, s \in Sessions : Register(u, t, s)
      BY <2>1, RegisterKeeps
    <2>2. CASE \E q \in Requests, t \in Teams : CreateTeam(q, t)
      BY <2>2, CreateTeamKeeps
    <2>3. CASE \E q \in Requests :
                  \/ \E u \in Users :
                        AddMember(q, u) \/ \E role \in Given : SetMemberRole(q, u, role)
                  \/ RemoveMember(q)
      BY <2>3, MembershipKeeps
    <2>4. CASE \E q \in Requests : ArchiveTeam(q) BY <2>4, ArchiveKeeps
    <2>5. CASE \E q \in Requests : Deactivate(q) BY <2>5, DeactivateKeeps
    <2>6. CASE \/ \E s \in Sessions : EndSession(s)
               \/ \E q \in Requests :
                     \/ \E s \in Sessions :
                           BeginLogin(q, s) \/ \E kind \in Kinds : Begin(q, s, kind)
                     \/ Login(q) \/ Resolve(q) \/ SettleFallback(q) \/ Unresolved(q) \/ Fail(q)
                     \/ \E t \in Teams : FallBack(q, t) \/ SwitchTeam(q, t)
                     \/ \E u \in Users : ListMembers(q, u)
      BY <2>6, RequestsKeep
    <2> QED BY <1>2, <2>1, <2>2, <2>3, <2>4, <2>5, <2>6 DEF AccessNext
  <1> QED BY <1>1, <1>2

(* The inductive invariant: types, what requests know, and the property itself. *)
THEOREM AccessInvariant == AccessSpec => []AccessInv
  BY InitAccess, StepKeeps, PTL DEF AccessSpec

(* Every reachable state has its type. *)
THEOREM AccessTypes == AccessSpec => []AccessTypeOK
  <1>1. AccessInv => AccessTypeOK BY DEF AccessInv
  <1> QED BY <1>1, AccessInvariant, PTL

(* However many requests change roles, members, Teams and accounts on what they have read
   before, a Team in use has an Owner and an active User a Team in use. *)
THEOREM AlwaysOwnedAndPlaced == AccessSpec => []OwnedAndPlaced
  <1>1. AccessInv => OwnedAndPlaced BY DEF AccessInv
  <1> QED BY <1>1, AccessInvariant, PTL
=============================================================================
