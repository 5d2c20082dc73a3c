----------------------------- MODULE TeamAccess -----------------------------
(***************************************************************************)
(* Users, the Teams they belong to and the Team a login session is in.       *)
(*                                                                         *)
(* A request resolves the Team of its session and the role its user has there *)
(* with reads of their own, and acts in a serializable transaction later:      *)
(* meanwhile other requests change roles, remove members, archive Teams and    *)
(* deactivate accounts.  What the transactions check again is what keeps every  *)
(* Team with an Owner and every User with a Team.                             *)
(***************************************************************************)
EXTENDS Naturals, FiniteSets

CONSTANTS Users, Teams,
          Sessions,      \* AuthSession rows, and
          UserOf,        \* the user of each
          Requests,      \* requests in progress at a time
          Kinds,         \* bound: the requests that are made
          Ending,        \* bound: the sessions that are ended
          Given          \* bound: the roles that are given

VARIABLES users,         \* users[u]: the status of a User
          teams,         \* teams[t]: the status of a Team
          members,       \* members[t][u]: the TeamMembership row
          sessions,      \* sessions[s]: the AuthSession row
          requests       \* requests[q]: what a request knows

vars == <<users, teams, members, sessions, requests>>
----------------------------------------------------------------------------
Roles == {"owner", "admin", "member"}

(* rolePermissions, for the requests that change something *)
May == [archive |-> {"owner"}, role |-> {"owner"}, add |-> {"owner", "admin"},
        remove |-> {"owner", "admin"}, read |-> Roles]

AllKinds == DOMAIN May \cup {"create", "switch", "deactivate"}

Membership == [role : Roles, status : {"active", "disabled"}]
NoMembership == [role |-> "none", status |-> "none"]

Session == [live : BOOLEAN, team : Teams \cup {"none"}]
NoSession == [live |-> FALSE, team |-> "none"]              \* there is no row

Request == [at : {"free", "login", "resolve", "fallback", "again", "fallbackAgain", "list", "act"},
            kind : AllKinds \cup {"none"}, session : Sessions \cup {"none"},
            team : Teams \cup {"none"}, role : Roles \cup {"none"},
            target : Users \cup {"none"}]
NoRequest == [at |-> "free", kind |-> "none", session |-> "none", team |-> "none",
              role |-> "none", target |-> "none"]

ASSUME UserOfAssumption == UserOf \in [Sessions -> Users]
ASSUME IdsAssumption == "none" \notin Users \cup Teams \cup Sessions
ASSUME BoundsAssumption ==
    Kinds \subseteq AllKinds /\ Ending \subseteq Sessions /\ Given \subseteq Roles
----------------------------------------------------------------------------
Active(t, u) == members[t][u].status = "active"

(* getTeamContext *)
Belongs(t, u) == teams[t] = "active" /\ Active(t, u)

(* ... with an active membership; whether the User is active is not asked. *)
Owners(t) == {u \in Users : Active(t, u) /\ members[t][u].role = "owner"}

(* Mutant: whether the other Team is still there is not looked at. *)
ElsewhereAtAll(t, u) == \E o \in Teams \ {t} : Active(o, u)

Elsewhere(t, u) == \E o \in Teams \ {t} : Belongs(o, u)
----------------------------------------------------------------------------
AccessInit ==
    /\ users = [u \in Users |-> "none"]
    /\ teams = [t \in Teams |-> "none"]
    /\ members = [t \in Teams |-> [u \in Users |-> NoMembership]]
    /\ sessions = [s \in Sessions |-> NoSession]
    /\ requests = [q \in Requests |-> NoRequest]

Answer(q) == requests' = [requests EXCEPT ![q] = NoRequest]

Unused(s) == sessions[s] = NoSession /\ \A q \in Requests : requests[q].session # s

(* A Team and the membership of the User who makes it. *)
Found(t, u) ==
    /\ teams[t] = "none"
    /\ teams' = [teams EXCEPT ![t] = "active"]
    /\ members' = [members EXCEPT ![t][u] = [role |-> "owner", status |-> "active"]]

(* registerLocalUser *)
Register(u, t, s) ==
    /\ users[u] = "none" /\ Unused(s) /\ UserOf[s] = u
    /\ Found(t, u)
    /\ users' = [users EXCEPT ![u] = "active"]
    /\ sessions' = [sessions EXCEPT ![s] = [live |-> TRUE, team |-> t]]
    /\ UNCHANGED requests

(* LocalAuthService.login, up to the verification of the password ... *)
BeginLogin(q, s) ==
    /\ requests[q] = NoRequest
    /\ users[UserOf[s]] = "active" /\ Unused(s)
    /\ requests' = [requests EXCEPT ![q] = [NoRequest EXCEPT !.at = "login", !.session = s]]
    /\ UNCHANGED <<users, teams, members, sessions>>

(* ... and createAuthSession, which does not ask for the User again. *)
Login(q) ==
    /\ requests[q].at = "login"
    /\ sessions' = [sessions EXCEPT ![requests[q].session] = [live |-> TRUE, team |-> "none"]]
    /\ Answer(q)
    /\ UNCHANGED <<users, teams, members>>

(* Logout, revocation, expiry, another password, and the session of a User who is no
   longer active. *)
EndSession(s) ==
    /\ s \in Ending /\ sessions[s].live
    /\ sessions' = [sessions EXCEPT ![s] = NoSession]
    /\ UNCHANGED <<users, teams, members, requests>>
----------------------------------------------------------------------------
(* authenticateRequest, for a request of each kind *)
Begin(q, s, kind) ==
    /\ requests[q] = NoRequest
    /\ sessions[s].live /\ users[UserOf[s]] = "active"
    /\ requests' = [requests EXCEPT ![q] =
                       [NoRequest EXCEPT !.at = IF kind \in DOMAIN May THEN "resolve" ELSE "act",
                                         !.kind = kind, !.session = s]]
    /\ UNCHANGED <<users, teams, members, sessions>>

(* requirePermission, which refuses a role that may not and a Team that the request did
   not name; where changeMemberRole or removeMember is called next, the Team is resolved
   once more, and is not compared with anything. *)
Permitted(q, t, role) ==
    LET r == requests[q]
        go(point) == requests' = [requests EXCEPT ![q] = [r EXCEPT !.at = point, !.team = t,
                                                                   !.role = role]]
    IN  IF r.kind = "read" \/ role \notin May[r.kind]
        THEN Answer(q)
        ELSE IF r.at \in {"resolve", "fallback"}
             THEN Answer(q) \/ go(IF r.kind \in {"role", "remove"} THEN "again" ELSE "act")
             ELSE go(IF r.kind = "remove" THEN "list" ELSE "act")

StillIn(s) == sessions[s].team # "none" /\ Belongs(sessions[s].team, UserOf[s])

(* resolveActiveTeam: the Team of the session, if the User still belongs to it ... *)
Resolve(q) ==
    LET s == requests[q].session
        t == sessions[s].team
    IN  /\ requests[q].at \in {"resolve", "again"}
        /\ sessions[s].live /\ StillIn(s)
        /\ Permitted(q, t, members[t][UserOf[s]].role)
        /\ UNCHANGED <<users, teams, members, sessions>>

(* ... or one of the others ... *)
FallBack(q, t) ==
    LET r == requests[q]
        u == UserOf[r.session]
        point == IF r.at = "resolve" THEN "fallback" ELSE "fallbackAgain"
    IN  /\ r.at \in {"resolve", "again"}
        /\ sessions[r.session].live /\ ~StillIn(r.session)
        /\ Belongs(t, u)
        /\ requests' = [requests EXCEPT ![q] = [r EXCEPT !.at = point, !.team = t,
                                                        !.role = members[t][u].role]]
        /\ UNCHANGED <<users, teams, members, sessions>>

(* ... which is written into the session without another look. *)
SettleFallback(q) ==
    LET r == requests[q]
    IN  /\ r.at \in {"fallback", "fallbackAgain"}
        /\ sessions' = IF sessions[r.session].live
                       THEN [sessions EXCEPT ![r.session].team = r.team]
                       ELSE sessions
        /\ Permitted(q, r.team, r.role)
        /\ UNCHANGED <<users, teams, members>>

(* There is no session any more, or no Team for its User. *)
Unresolved(q) ==
    LET s == requests[q].session
    IN  /\ requests[q].at \in {"resolve", "again"}
        /\ ~sessions[s].live \/ \A t \in Teams : ~Belongs(t, UserOf[s])
        /\ Answer(q)
        /\ UNCHANGED <<users, teams, members, sessions>>

(* listMembers and assertCanManageMember *)
ListMembers(q, u) ==
    LET r == requests[q]
    IN  /\ r.at = "list"
        /\ members[r.team][u] # NoMembership
        /\ IF r.role = "admin" /\ members[r.team][u].role = "owner"
           THEN Answer(q)
           ELSE requests' = [requests EXCEPT ![q] = [r EXCEPT !.at = "act", !.target = u]]
        /\ UNCHANGED <<users, teams, members, sessions>>
----------------------------------------------------------------------------
(* The transactions. *)

Acting(q, kind) == requests[q].at = "act" /\ requests[q].kind = kind

(* createTeam *)
CreateTeam(q, t) ==
    /\ Acting(q, "create")
    /\ Found(t, UserOf[requests[q].session])
    /\ Answer(q)
    /\ UNCHANGED <<users, sessions>>

(* addMemberByUsername: a User has one membership of a Team, once and for all. *)
AddMember(q, u) ==
    LET t == requests[q].team
    IN  /\ Acting(q, "add")
        /\ teams[t] = "active" /\ users[u] # "none" /\ members[t][u] = NoMembership
        /\ members' = [members EXCEPT ![t][u] = [role |-> "member", status |-> "active"]]
        /\ Answer(q)
        /\ UNCHANGED <<users, teams, sessions>>

OwnedWithout(t, u) == u \in Owners(t) => Cardinality(Owners(t)) > 1

(* setMemberRole *)
SetMemberRole(q, u, role) ==
    LET t == requests[q].team
    IN  /\ Acting(q, "role")
        /\ members[t][u] # NoMembership
        /\ role = "owner" \/ OwnedWithout(t, u)
        /\ members' = [members EXCEPT ![t][u].role = role]
        /\ Answer(q)
        /\ UNCHANGED <<users, teams, sessions>>

(* removeMember; a membership that is disabled already is left as it is. *)
RemoveMember(q) ==
    LET t == requests[q].team
        u == requests[q].target
    IN  /\ Acting(q, "remove")
        /\ Active(t, u) => Elsewhere(t, u) /\ OwnedWithout(t, u)
        /\ members' = [members EXCEPT ![t][u].status = "disabled"]
        /\ Answer(q)
        /\ UNCHANGED <<users, teams, sessions>>

(* archiveTeam *)
ArchiveTeam(q) ==
    LET t == requests[q].team
    IN  /\ Acting(q, "archive")
        /\ teams[t] = "active" => \A u \in Users : Active(t, u) => Elsewhere(t, u)
        /\ teams' = [teams EXCEPT ![t] = "archived"]
        /\ Answer(q)
        /\ UNCHANGED <<users, members, sessions>>

(* setActiveTeam; the route resolves the Team for its answer. *)
SwitchTeam(q, t) ==
    LET s == requests[q].session
    IN  /\ Acting(q, "switch")
        /\ sessions[s].live /\ Belongs(t, UserOf[s])
        /\ sessions' = [sessions EXCEPT ![s].team = t]
        /\ requests' = [requests EXCEPT ![q] = [@ EXCEPT !.at = "resolve", !.kind = "read"]]
        /\ UNCHANGED <<users, teams, members>>

(* deactivateLocalUser *)
Deactivate(q) ==
    LET u == UserOf[requests[q].session]
        own == {t \in Teams : Belongs(t, u)}
    IN  /\ Acting(q, "deactivate")
        /\ users[u] = "active" => Cardinality(own) > 1 /\ \A t \in own : OwnedWithout(t, u)
        /\ users' = [users EXCEPT ![u] = "disabled"]
        /\ sessions' = [s \in Sessions |-> IF users[u] = "active" /\ UserOf[s] = u
                                           THEN NoSession ELSE sessions[s]]
        /\ Answer(q)
        /\ UNCHANGED <<teams, members>>

(* The transaction refuses what it was asked, or the request ends in another way. *)
Fail(q) ==
    /\ requests[q] # NoRequest
    /\ Answer(q)
    /\ UNCHANGED <<users, teams, members, sessions>>
----------------------------------------------------------------------------
AccessNext ==
    \/ \E s \in Sessions :
          \/ EndSession(s)
          \/ \E u \in Users, t \in Teams : Register(u, t, s)
    \/ \E q \in Requests :
          \/ \E s \in Sessions : BeginLogin(q, s) \/ \E kind \in Kinds : Begin(q, s, kind)
          \/ Login(q) \/ Resolve(q) \/ SettleFallback(q) \/ Unresolved(q)
          \/ RemoveMember(q) \/ ArchiveTeam(q) \/ Deactivate(q) \/ Fail(q)
          \/ \E t \in Teams : FallBack(q, t) \/ CreateTeam(q, t) \/ SwitchTeam(q, t)
          \/ \E u \in Users :
                \/ ListMembers(q, u) \/ AddMember(q, u)
                \/ \E role \in Given : SetMemberRole(q, u, role)

AccessSpec == AccessInit /\ [][AccessNext]_vars
----------------------------------------------------------------------------
AccessTypeOK ==
    /\ users \in [Users -> {"none", "active", "disabled"}]
    /\ teams \in [Teams -> {"none", "active", "archived"}]
    /\ members \in [Teams -> [Users -> Membership \cup {NoMembership}]]
    /\ sessions \in [Sessions -> Session]
    /\ requests \in [Requests -> Request]

(* Every Team that is in use has an Owner, and every active User belongs to a Team that
   is in use (FR-036, FR-017), whatever the requests had been authorized for when the
   roles, the memberships, the Teams and the accounts were still others. *)
OwnedAndPlaced ==
    /\ \A t \in Teams : teams[t] = "active" => Owners(t) # {}
    /\ \A u \in Users : users[u] = "active" => \E t \in Teams : Belongs(t, u)
=============================================================================
