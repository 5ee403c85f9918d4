--------------------------- MODULE WorkspaceMembers ---------------------------
(* The members of one workspace and the three operations that manage them    *)
(* (api/src/modules/workspaces, api/src/modules/auth/guards).  A request is   *)
(* let in by the roles guard, then the service reads the caller's membership  *)
(* again, then the member it is about, and writes: four database round trips  *)
(* with nothing that orders them with those of another request.               *)
EXTENDS Naturals

CONSTANTS Users,
          Owner,        \* the user that created the workspace
          Passwords,    \* the passwords of accounts
          Scenarios     \* the roles and accounts a behaviour starts with, and its bounds:
                        \* the calls, edits, writes and session steps it may start

WorkspaceRole == {"OWNER", "ADMIN", "MEMBER", "VIEWER"}
NoRole == "NONE"

\* A user's row: there is none, addMember made it, or it has a password.
Accounts == {"none", "invited"} \cup Passwords
Budgets  == [calls : Nat, edits : Nat, writes : Nat, sessions : Nat]

ASSUME MembersAssumption ==
  /\ Owner \in Users
  /\ Passwords \cap {"none", "invited"} = {}
  /\ Scenarios \subseteq
       [roles   : {r \in [Users -> WorkspaceRole \cup {NoRole}] :
                     \A u \in Users : r[u] = "OWNER" <=> u = Owner},
        account : [Users -> Accounts],
        budget  : Budgets]

VARIABLES member,   \* per user: the id of its membership row and its role
          account,  \* per user: its account
          call,     \* per user: its member management request under way
          budget    \* what is left of the bounds

members == <<member, account, call>>

Rows  == [row : Nat, role : WorkspaceRole \cup {NoRole}]
Calls == [pc     : {"idle", "actor", "member", "commit"},
          op     : {"none", "add", "update", "remove"},
          target : Users,
          row    : Nat,                                \* memberId of the route
          role   : WorkspaceRole \cup {NoRole},        \* role of the body
          guard  : WorkspaceRole \cup {NoRole},        \* role the guard read
          actor  : WorkspaceRole \cup {NoRole},        \* role the service read
          seen   : WorkspaceRole \cup {NoRole}]        \* member's role as read

NoCall == [pc |-> "idle", op |-> "none", target |-> Owner, row |-> 0,
           role |-> NoRole, guard |-> NoRole, actor |-> NoRole, seen |-> NoRole]

\* WorkspacesService.create stores the workspace with its owner; the others
\* have been added since.
MembersInit ==
  /\ \E s \in Scenarios :
       /\ member = [u \in Users |-> [row |-> 1, role |-> s.roles[u]]]
       /\ account = s.account
       /\ budget = s.budget
  /\ call = [u \in Users |-> NoCall]

\* WorkspaceRolesGuard.canActivate: the role is read from the table, not from
\* the token.
canActivate(u, roles) == member[u].role \in roles

\* The decorators of the controllers.
MemberRoutes == {"OWNER", "ADMIN"}
WriteRoutes  == {"OWNER", "ADMIN", "MEMBER"}
ReadRoutes   == WorkspaceRole

Spend(kind) ==
  /\ budget[kind] > 0
  /\ budget' = [budget EXCEPT ![kind] = @ - 1]

\* A request for member management passes the guard.
request(u, op, target, role) ==
  /\ call[u].pc = "idle"
  /\ canActivate(u, MemberRoutes)
  /\ Spend("calls")
  /\ call' = [call EXCEPT ![u] =
       [NoCall EXCEPT !.pc = "actor", !.op = op, !.target = target,
                      !.row = member[target].row, !.role = role,
                      !.guard = member[u].role]]
  /\ UNCHANGED <<member, account>>

refuse(u) ==
  /\ call' = [call EXCEPT ![u] = NoCall]
  /\ UNCHANGED <<member, account, budget>>

assertCanAssignRole(actor, role) ==
  /\ role # "OWNER"
  /\ ~ (actor = "ADMIN" /\ role = "ADMIN")

\* Mutant: only the member's present role is compared, not the next one.
assertCanUpdateMember_Grants(actor, self, seen, role) ==
  /\ seen # "OWNER" /\ role # "OWNER"
  /\ ~ self
  /\ actor = "ADMIN" => seen # "ADMIN"

\* Mutant: the next role is not compared with OWNER.
assertCanUpdateMember_Crowns(actor, self, seen, role) ==
  /\ seen # "OWNER"
  /\ ~ self
  /\ actor = "ADMIN" => seen # "ADMIN" /\ role # "ADMIN"

assertCanUpdateMember(actor, self, seen, role) ==
  /\ seen # "OWNER" /\ role # "OWNER"
  /\ ~ self
  /\ actor = "ADMIN" => seen # "ADMIN" /\ role # "ADMIN"

assertCanRemoveMember(actor, self, seen) ==
  /\ seen # "OWNER"
  /\ ~ self
  /\ ~ (actor = "ADMIN" /\ seen = "ADMIN")

\* The service reads the caller's membership; addMember decides on it alone.
getActorMembership(u) ==
  LET c == call[u]  actor == member[u].role
  IN  /\ c.pc = "actor"
      /\ IF actor = NoRole \/ (c.op = "add" /\ ~ assertCanAssignRole(actor, c.role))
         THEN refuse(u)
         ELSE /\ call' = [call EXCEPT
                   ![u].pc = IF c.op = "add" THEN "commit" ELSE "member",
                   ![u].actor = actor]
              /\ UNCHANGED <<member, account, budget>>

RowPresent(c) == member[c.target].role # NoRole /\ member[c.target].row = c.row

\* updateMemberRole and removeMember read the member and decide.
getMember(u) ==
  LET c == call[u]  seen == member[c.target].role  self == c.target = u
  IN  /\ c.pc = "member"
      /\ IF /\ RowPresent(c)
            /\ c.op = "update" => assertCanUpdateMember(c.actor, self, seen, c.role)
            /\ c.op = "remove" => assertCanRemoveMember(c.actor, self, seen)
         THEN /\ call' = [call EXCEPT ![u].pc = "commit", ![u].seen = seen]
              /\ UNCHANGED <<member, account, budget>>
         ELSE refuse(u)

\* The user is upserted and made a member, in one transaction; a member of the
\* workspace already is a conflict.
addMember(u) ==
  LET c == call[u]
  IN  /\ c.pc = "commit" /\ c.op = "add"
      /\ \/ /\ member[c.target].role = NoRole
            /\ member' = [member EXCEPT ![c.target] = [row |-> @.row + 1, role |-> c.role]]
            /\ account' = [account EXCEPT ![c.target] = IF @ = "none" THEN "invited" ELSE @]
         \/ /\ member[c.target].role # NoRole
            /\ UNCHANGED <<member, account>>
      /\ call' = [call EXCEPT ![u] = NoCall]
      /\ UNCHANGED budget

\* workspaceMember.update by id, and nothing but the id.
updateMemberRole(u) ==
  LET c == call[u]
  IN  /\ c.pc = "commit" /\ c.op = "update"
      /\ member' = IF RowPresent(c) THEN [member EXCEPT ![c.target].role = c.role] ELSE member
      /\ call' = [call EXCEPT ![u] = NoCall]
      /\ UNCHANGED <<account, budget>>

\* workspaceMember.delete by id.
removeMember(u) ==
  LET c == call[u]
  IN  /\ c.pc = "commit" /\ c.op = "remove"
      /\ member' = IF RowPresent(c) THEN [member EXCEPT ![c.target].role = NoRole] ELSE member
      /\ call' = [call EXCEPT ![u] = NoCall]
      /\ UNCHANGED <<account, budget>>

MembersNext ==
  \E u \in Users :
    \/ \E target \in Users, role \in WorkspaceRole :
         \/ member[target].role = NoRole /\ request(u, "add", target, role)
         \/ member[target].role # NoRole /\ request(u, "update", target, role)
    \/ \E target \in Users :
         member[target].role # NoRole /\ request(u, "remove", target, NoRole)
    \/ getActorMembership(u)
    \/ getMember(u)
    \/ addMember(u)
    \/ updateMemberRole(u)
    \/ removeMember(u)

MembersTypeOK ==
  /\ member \in [Users -> Rows]
  /\ call \in [Users -> Calls]
  /\ account \in [Users -> Accounts]
  /\ budget \in Budgets

\* The workspace keeps its one owner (assertCanAssignRole,
\* assertCanUpdateMember, assertCanRemoveMember): whatever requests overlap,
\* nobody else becomes OWNER and the owner is neither demoted nor removed.
OneOwner == \A u \in Users : member[u].role = "OWNER" <=> u = Owner

\* Admins are made, demoted and removed by the owner.  The checks of
\* WorkspacesService work on roles read before the write, so a request by
\* somebody else gets through in two races only: its caller lost the role of
\* admin between the guard and the service (whose checks restrain nobody but
\* admins), or the member became an admin after it was read.
AdminsManagedByOwner ==
  [][\A u \in Users :
       (member[u].role = "ADMIN") # (member'[u].role = "ADMIN") =>
         \E a \in Users :
           /\ call[a].pc = "commit" /\ call[a].target = u /\ call'[a].pc = "idle"
           /\ \/ call[a].actor = "OWNER"
              \/ call[a].guard = "ADMIN" /\ call[a].actor # "ADMIN"
              \/ call[a].op # "add" /\ call[a].seen # member[u].role]_members
================================================================================
