--------------------------- MODULE WorkspaceProofs ---------------------------
(***************************************************************************)
(* Proofs about workspaces, for every number of users, overlapping member  *)
(* requests, tabs' requests, writers and versions: who is owner and who    *)
(* makes admins, what a session shows and what ends it, whose password an  *)
(* account keeps, and that stored versions are immutable and can be run.   *)
(***************************************************************************)
EXTENDS WorkflowEditor, DefinitionProofs

-----------------------------------------------------------------------------
(* The shape of the steps *)

MemberRequest(u) ==
  \/ \E target \in Users, role \in WorkspaceRole :
       \/ member[target].role = NoRole /\ request(u, "add", target, role)
       \/ member[target].role # NoRole /\ request(u, "update", target, role)
  \/ \E target \in Users :
       member[target].role # NoRole /\ request(u, "remove", target, NoRole)

MemberStep(u) ==
  \/ MemberRequest(u)
  \/ getActorMembership(u) \/ getMember(u)
  \/ addMember(u) \/ updateMemberRole(u) \/ removeMember(u)

\* Only the member management touches memberships.
LEMMA OtherSteps ==
  ASSUME [Next]_vars
  PROVE  \/ /\ \E u \in Users : MemberStep(u)
            /\ UNCHANGED <<sessionVars, history, write, page>>
         \/ UNCHANGED <<member, call>>
<1>1. CASE MembersNext /\ UNCHANGED <<sessionVars, history, write, page>>
  BY <1>1 DEF MembersNext, MemberStep, MemberRequest
<1>2. CASE SessionNext
  BY <1>2 DEF SessionNext, Elsewhere, registerRead, register, signIn, signOut, otherTab,
     expire, send, apiRequest
<1>3. CASE ApiNext
  BY <1>3 DEF ApiNext, post, findCurrent, insertVersion, answer, members
<1>4. CASE PageNext
  BY <1>4 DEF PageNext, startEditing, addNode, deleteNode, handleNodesChange,
     handleEdgesChange, handleConnect, deleteEdge, updateSelectedEdge, Draft,
     saveDefinition, restoreVersion, post, saveFails, refetch, onSuccess,
     onSuccessThenEffect, discardDraft, saveMetadata, runWorkflow, Unchanged, members
<1>5. CASE UNCHANGED vars
  BY <1>5 DEF vars, members
<1> QED  BY <1>1, <1>2, <1>3, <1>4, <1>5 DEF Next

-----------------------------------------------------------------------------
(* Members *)

Roles == WorkspaceRole \cup {NoRole}
MembersTypes == member \in [Users -> Rows] /\ call \in [Users -> Calls]

\* What the checks of the service have established about a request that is
\* about to write.
Checked(c, u) ==
  /\ c.op = "add" => assertCanAssignRole(c.actor, c.role)
  /\ c.op = "update" => /\ assertCanUpdateMember(c.actor, c.target = u, c.seen, c.role)
                        /\ c.target # Owner
  /\ c.op = "remove" => /\ assertCanRemoveMember(c.actor, c.target = u, c.seen)
                        /\ c.target # Owner

\* A request under way has passed the guard; only the owner passed it as owner,
\* and is still found to be.
CallInv ==
  \A u \in Users :
    /\ call[u].pc # "idle" => call[u].op # "none" /\ call[u].guard \in MemberRoutes
    /\ call[u].guard = "OWNER" => u = Owner
    /\ call[u].pc \in {"member", "commit"} /\ u = Owner => call[u].actor = "OWNER"
    /\ call[u].pc = "member" => call[u].op \in {"update", "remove"}
    /\ call[u].pc = "commit" => Checked(call[u], u)

MembersInv == MembersTypes /\ OneOwner /\ CallInv

LEMMA NoCallType == NoCall \in Calls
BY MembersAssumption DEF NoCall, Calls, NoRole

LEMMA MembersInitInv == Init => MembersInv
<1> SUFFICES ASSUME Init  PROVE MembersInv
  OBVIOUS
<1>1. PICK s \in Scenarios : member = [u \in Users |-> [row |-> 1, role |-> s.roles[u]]]
  BY DEF Init, MembersInit
<1>2. /\ s.roles \in [Users -> Roles]
      /\ \A u \in Users : s.roles[u] = "OWNER" <=> u = Owner
  BY MembersAssumption DEF Roles
<1>3. call = [u \in Users |-> NoCall]
  BY DEF Init, MembersInit
<1>4. MembersTypes
  BY <1>1, <1>2, <1>3, NoCallType DEF MembersTypes, Rows, Roles
<1>5. OneOwner
  BY <1>1, <1>2 DEF OneOwner
<1>6. CallInv
  BY <1>3 DEF CallInv, NoCall, NoRole
<1> QED  BY <1>4, <1>5, <1>6 DEF MembersInv

\* The call u' of a step that changes one call.
LEMMA CallStep ==
  ASSUME MembersInv, NEW u \in Users, NEW c \in Calls,
         call' = [call EXCEPT ![u] = c], member' = member,
         /\ c.pc # "idle" => c.op # "none" /\ c.guard \in MemberRoutes
         /\ c.guard = "OWNER" => u = Owner
         /\ c.pc \in {"member", "commit"} /\ u = Owner => c.actor = "OWNER"
         /\ c.pc = "member" => c.op \in {"update", "remove"}
         /\ c.pc = "commit" => Checked(c, u)
  PROVE  MembersInv'
<1>1. call \in [Users -> Calls]
  BY DEF MembersInv, MembersTypes
<1>2. MembersTypes' /\ OneOwner'
  BY <1>1 DEF MembersInv, MembersTypes, OneOwner
<1>3. \A v \in Users : v # u => call'[v] = call[v]
  BY <1>1
<1>4. call'[u] = c
  BY <1>1
<1>5. CallInv'
  BY <1>3, <1>4 DEF MembersInv, CallInv
<1> QED  BY <1>2, <1>5 DEF MembersInv

LEMMA Refused ==
  ASSUME MembersInv, NEW u \in Users, member' = member,
         call' = [call EXCEPT ![u] = NoCall]
  PROVE  MembersInv'
BY CallStep, NoCallType DEF NoCall, NoRole

LEMMA MembersStepInv ==
  ASSUME MembersInv, NEW u \in Users, MemberStep(u)
  PROVE  MembersInv'
<1> DEFINE c == call[u]
<1>a. /\ member \in [Users -> Rows] /\ call \in [Users -> Calls] /\ c \in Calls
      /\ OneOwner /\ CallInv
  BY DEF MembersInv, MembersTypes
<1>b. \A v \in Users : member[v].role \in Roles /\ member[v].row \in Nat
  BY <1>a DEF Rows, Roles
<1>1. CASE MemberRequest(u)
  <2>1. PICK op \in {"add", "update", "remove"}, target \in Users, role \in Roles :
          request(u, op, target, role)
    BY <1>1 DEF MemberRequest, Roles
  <2> DEFINE d == [NoCall EXCEPT !.pc = "actor", !.op = op, !.target = target,
                      !.row = member[target].row, !.role = role,
                      !.guard = member[u].role]
  <2>2. /\ call' = [call EXCEPT ![u] = d] /\ member' = member
        /\ member[u].role \in MemberRoutes
    BY <2>1 DEF request, canActivate
  <2>3. /\ d \in Calls /\ d.pc = "actor" /\ d.op = op /\ d.guard = member[u].role
    BY <1>b, NoCallType DEF NoCall, Calls, Roles
  <2>4. d.guard = "OWNER" => u = Owner
    BY <2>3, <1>a DEF OneOwner
  <2> HIDE DEF d
  <2> QED  BY <2>2, <2>3, <2>4, CallStep
<1>2. CASE getActorMembership(u)
  <2>1. CASE refuse(u)
    BY <2>1, Refused DEF refuse
  <2>2. CASE /\ ~ (c.op = "add" /\ ~ assertCanAssignRole(member[u].role, c.role))
             /\ call' = [call EXCEPT
                   ![u].pc = IF c.op = "add" THEN "commit" ELSE "member",
                   ![u].actor = member[u].role]
             /\ member' = member
    <3> DEFINE d == [c EXCEPT !.pc = IF c.op = "add" THEN "commit" ELSE "member",
                              !.actor = member[u].role]
    <3>1. call' = [call EXCEPT ![u] = d]
      BY <2>2, <1>a DEF Calls
    <3>2. /\ d \in Calls /\ d.actor = member[u].role /\ d.op = c.op /\ d.guard = c.guard
          /\ d.role = c.role
          /\ d.pc = IF c.op = "add" THEN "commit" ELSE "member"
      BY <1>a, <1>b DEF Calls, Roles
    <3>3. /\ c.op \in {"add", "update", "remove"} /\ c.guard \in MemberRoutes
          /\ c.guard = "OWNER" => u = Owner
      BY <1>2, <1>a DEF getActorMembership, CallInv, Calls
    <3>4. d.pc = "commit" => Checked(d, u)
      BY <3>2, <3>3, <2>2 DEF Checked
    <3>5. u = Owner => d.actor = "OWNER"
      BY <3>2, <1>a, MembersAssumption DEF OneOwner
    <3>6. /\ d.pc = "member" => d.op \in {"update", "remove"}
          /\ d.op # "none" /\ d.guard \in MemberRoutes
          /\ d.guard = "OWNER" => u = Owner
      BY <3>2, <3>3
    <3>7. call' = [call EXCEPT ![u] = d] /\ member' = member /\ d \in Calls
      BY <2>2, <3>1, <3>2
    <3> HIDE DEF d
    <3> QED  BY <3>4, <3>5, <3>6, <3>7, CallStep
  <2> QED  BY <1>2, <2>1, <2>2 DEF getActorMembership
<1>3. CASE getMember(u)
  <2>1. CASE refuse(u)
    BY <2>1, Refused DEF refuse
  <2>2. CASE /\ c.pc = "member"
             /\ c.op = "update" => assertCanUpdateMember(c.actor, c.target = u,
                                                         member[c.target].role, c.role)
             /\ c.op = "remove" => assertCanRemoveMember(c.actor, c.target = u,
                                                         member[c.target].role)
             /\ call' = [call EXCEPT ![u].pc = "commit",
                                     ![u].seen = member[c.target].role]
             /\ member' = member
    <3> DEFINE d == [c EXCEPT !.pc = "commit", !.seen = member[c.target].role]
    <3>1. call' = [call EXCEPT ![u] = d]
      BY <2>2, <1>a DEF Calls
    <3>2. c.target \in Users
      BY <1>a DEF Calls
    <3>3. /\ d \in Calls /\ d.actor = c.actor /\ d.op = c.op /\ d.guard = c.guard
          /\ d.role = c.role /\ d.target = c.target
          /\ d.pc = "commit" /\ d.seen = member[c.target].role
      BY <1>a, <1>b, <3>2 DEF Calls, Roles
    <3>4. /\ c.op \in {"update", "remove"} /\ c.guard \in MemberRoutes
          /\ c.guard = "OWNER" => u = Owner
          /\ u = Owner => c.actor = "OWNER"
      BY <2>2, <1>a DEF CallInv
    <3>5. c.target # Owner
      BY <2>2, <3>2, <3>4, <1>a DEF OneOwner, assertCanUpdateMember, assertCanRemoveMember
    <3>6. Checked(d, u)
      BY <2>2, <3>3, <3>4, <3>5 DEF Checked
    <3> HIDE DEF d
    <3> QED  BY <2>2, <3>1, <3>3, <3>4, <3>6, CallStep
  <2> QED  BY <1>3, <2>1, <2>2 DEF getMember
<1>4. CASE addMember(u) \/ updateMemberRole(u) \/ removeMember(u)
  <2>1. /\ c.pc = "commit" /\ c.op \in {"add", "update", "remove"} /\ Checked(c, u)
        /\ c.target \in Users /\ c.role \in Roles
    BY <1>4, <1>a DEF addMember, updateMemberRole, removeMember, CallInv, Calls, Roles
  <2>2. call' = [call EXCEPT ![u] = NoCall]
    BY <1>4 DEF addMember, updateMemberRole, removeMember
  <2>3. /\ \A v \in Users : v # c.target => member'[v] = member[v]
        /\ \/ member' = member
           \/ /\ c.op = "add" /\ member[c.target].role = NoRole
              /\ member'[c.target] = [row |-> member[c.target].row + 1, role |-> c.role]
           \/ /\ c.op = "update"
              /\ member'[c.target] = [member[c.target] EXCEPT !.role = c.role]
           \/ /\ c.op = "remove"
              /\ member'[c.target] = [member[c.target] EXCEPT !.role = NoRole]
        /\ DOMAIN member' = Users /\ member' = [v \in Users |-> member'[v]]
    BY <1>4, <1>a, <2>1 DEF addMember, updateMemberRole, removeMember
  <2>4. member'[c.target] \in Rows
    BY <2>3, <2>1, <1>a, <1>b DEF Rows, Roles
  <2>5. MembersTypes'
    BY <2>2, <2>3, <2>4, <2>1, <1>a, NoCallType DEF MembersTypes
  <2>6. OneOwner'
    <3> SUFFICES ASSUME NEW v \in Users
                 PROVE  member'[v].role = "OWNER" <=> v = Owner
      BY DEF OneOwner
    <3>1. CASE v # c.target \/ member' = member
      BY <3>1, <2>3, <1>a DEF OneOwner
    <3>2. CASE v = c.target /\ c.op = "add" /\ member[c.target].role = NoRole
      BY <3>2, <2>3, <2>1, <1>a, <1>b DEF OneOwner, Checked, assertCanAssignRole, NoRole, Rows
    <3>3. CASE v = c.target /\ c.op = "update"
      BY <3>3, <2>3, <2>1, <1>a, <1>b DEF OneOwner, Checked, assertCanUpdateMember, Rows
    <3>4. CASE v = c.target /\ c.op = "remove"
      BY <3>4, <2>3, <2>1, <1>a, <1>b DEF OneOwner, Checked, NoRole, Rows
    <3> QED  BY <3>1, <3>2, <3>3, <3>4, <2>3
  <2>7. CallInv'
    <3>1. \A v \in Users : call'[v] = call[v] \/ call'[v] = NoCall
      BY <2>2, <1>a
    <3> QED  BY <3>1, <1>a DEF CallInv, NoCall, NoRole
  <2> QED  BY <2>5, <2>6, <2>7 DEF MembersInv
<1> QED  BY <1>1, <1>2, <1>3, <1>4 DEF MemberStep

LEMMA MembersInvHolds == Spec => []MembersInv
<1>1. Init => MembersInv
  BY MembersInitInv
<1>2. MembersInv /\ [Next]_vars => MembersInv'
  <2> SUFFICES ASSUME MembersInv, [Next]_vars  PROVE MembersInv'
    OBVIOUS
  <2>1. CASE UNCHANGED <<member, call>>
    BY <2>1 DEF MembersInv, MembersTypes, OneOwner, CallInv
  <2> QED  BY <2>1, OtherSteps, MembersStepInv
<1> QED  BY <1>1, <1>2, PTL DEF Spec

\* Whatever requests overlap, the workspace has its one owner
\* (workspaces.service.ts, the three assertCan checks).
THEOREM OneOwnerHolds == Spec => []OneOwner
BY MembersInvHolds, PTL DEF MembersInv

\* Admins come and go by the owner, or by one of the two races between the
\* guard, the reads of the service and its write (workspaces.service.ts).
THEOREM AdminsManagedByOwnerHolds == Spec => AdminsManagedByOwner
<1> DEFINE Step ==
       \A u \in Users :
         (member[u].role = "ADMIN") # (member'[u].role = "ADMIN") =>
           \E a \in Users :
             /\ call[a].pc = "commit" /\ call[a].target = u /\ call'[a].pc = "idle"
             /\ \/ call[a].actor = "OWNER"
                \/ call[a].guard = "ADMIN" /\ call[a].actor # "ADMIN"
                \/ call[a].op # "add" /\ call[a].seen # member[u].role
<1>1. MembersInv /\ [Next]_vars => [Step]_members
  <2> SUFFICES ASSUME MembersInv, [Next]_vars, NEW u \in Users,
                      (member[u].role = "ADMIN") # (member'[u].role = "ADMIN")
               PROVE  \E a \in Users :
             /\ call[a].pc = "commit" /\ call[a].target = u /\ call'[a].pc = "idle"
             /\ \/ call[a].actor = "OWNER"
                \/ call[a].guard = "ADMIN" /\ call[a].actor # "ADMIN"
                \/ call[a].op # "add" /\ call[a].seen # member[u].role
    OBVIOUS
  <2>a. /\ member \in [Users -> Rows] /\ call \in [Users -> Calls]
        /\ OneOwner /\ CallInv
    BY DEF MembersInv, MembersTypes
  <2>1. PICK a \in Users : MemberStep(a) /\ member' # member
    BY OtherSteps
  <2>2. addMember(a) \/ updateMemberRole(a) \/ removeMember(a)
    BY <2>1 DEF MemberStep, MemberRequest, request, getActorMembership, getMember, refuse
  <2> DEFINE c == call[a]
  <2>3. /\ c \in Calls /\ c.pc = "commit" /\ Checked(c, a) /\ c.guard \in MemberRoutes
        /\ c.guard = "OWNER" => c.actor = "OWNER"
    BY <2>2, <2>a DEF addMember, updateMemberRole, removeMember, CallInv
  <2>4. call'[a].pc = "idle"
    BY <2>2, <2>a DEF addMember, updateMemberRole, removeMember, NoCall
  <2>5. c.target = u /\ c.target \in Users
    BY <2>2, <2>3, <2>a DEF addMember, updateMemberRole, removeMember, Calls
  <2>6. \/ c.op = "add" /\ c.role = "ADMIN"
        \/ c.op = "update" /\ (member[u].role = "ADMIN" \/ c.role = "ADMIN")
        \/ c.op = "remove" /\ member[u].role = "ADMIN"
    BY <2>2, <2>3, <2>5, <2>a DEF addMember, updateMemberRole, removeMember, Rows, NoRole
  <2>7. c.actor = "ADMIN" => c.op # "add" /\ c.seen # member[u].role
    BY <2>3, <2>6 DEF Checked, assertCanAssignRole, assertCanUpdateMember,
       assertCanRemoveMember
  <2>8. \/ c.actor = "OWNER"
        \/ c.guard = "ADMIN" /\ c.actor # "ADMIN"
        \/ c.op # "add" /\ c.seen # member[u].role
    BY <2>3, <2>7 DEF MemberRoutes
  <2> QED  BY <2>3, <2>4, <2>5, <2>8
<1>2. Spec => [][Step]_members
  BY <1>1, MembersInvHolds, PTL DEF Spec
<1> QED  BY <1>2 DEF AdminsManagedByOwner

-----------------------------------------------------------------------------
(* Accounts *)

\* A registration that is about to write found no password.
SignupInv ==
  /\ account \in [Users -> Accounts]
  /\ signup \in [Passwords -> [pc : {"idle", "write"}, user : Users, seen : Accounts]]
  /\ \A p \in Passwords : signup[p].pc = "write" => signup[p].seen \notin Passwords

\* Who touches accounts and registrations.
LEMMA AccountSteps ==
  ASSUME [Next]_vars
  PROVE  \/ UNCHANGED <<account, signup>>
         \/ \E u \in Users : addMember(u) /\ signup' = signup
         \/ \E p \in Passwords, u \in Users : registerRead(p, u)
         \/ \E p \in Passwords : register(p)
<1>1. CASE MembersNext /\ UNCHANGED <<sessionVars, history, write, page>>
  BY <1>1 DEF MembersNext, request, getActorMembership, getMember, refuse,
     updateMemberRole, removeMember, sessionVars
<1>2. CASE SessionNext
  BY <1>2 DEF SessionNext, signIn, signOut, otherTab, expire, send, apiRequest
<1>3. CASE ApiNext /\ UNCHANGED sessionVars
  BY <1>3 DEF ApiNext, post, findCurrent, insertVersion, answer, members, sessionVars
<1>4. CASE PageNext /\ UNCHANGED sessionVars
  BY <1>4 DEF PageNext, startEditing, addNode, deleteNode, handleNodesChange,
     handleEdgesChange, handleConnect, deleteEdge, updateSelectedEdge, Draft,
     saveDefinition, restoreVersion, post, saveFails, refetch, onSuccess,
     onSuccessThenEffect, discardDraft, saveMetadata, runWorkflow, Unchanged, members,
     sessionVars
<1>5. CASE UNCHANGED vars
  BY <1>5 DEF vars, members, sessionVars
<1> QED  BY <1>1, <1>2, <1>3, <1>4, <1>5 DEF Next

LEMMA SignupInvHolds == Spec => []SignupInv
<1>1. Init => SignupInv
  <2> SUFFICES ASSUME Init  PROVE SignupInv
    OBVIOUS
  <2>1. account \in [Users -> Accounts]
    BY MembersAssumption DEF Init, MembersInit
  <2>2. \A p \in Passwords : signup[p] = NoSignup
    BY DEF Init, SessionInit
  <2>3. signup \in [Passwords -> [pc : {"idle", "write"}, user : Users, seen : Accounts]]
    BY MembersAssumption DEF Init, SessionInit, NoSignup, Accounts
  <2> QED  BY <2>1, <2>2, <2>3 DEF SignupInv, NoSignup
<1>2. MembersInv /\ SignupInv /\ [Next]_vars => SignupInv'
  <2> SUFFICES ASSUME MembersInv, SignupInv, [Next]_vars  PROVE SignupInv'
    OBVIOUS
  <2> USE DEF SignupInv
  <2>1. CASE UNCHANGED <<account, signup>>
    BY <2>1
  <2>2. ASSUME NEW u \in Users, addMember(u), signup' = signup  PROVE SignupInv'
    <3>1. account' \in [Users -> Accounts]
      BY <2>2 DEF addMember, Accounts
    <3> QED  BY <3>1, <2>2
  <2>3. ASSUME NEW p \in Passwords, NEW u \in Users, registerRead(p, u)  PROVE SignupInv'
    <3>1. /\ signup' = [signup EXCEPT ![p] = [pc |-> "write", user |-> u,
                                               seen |-> account[u]]]
          /\ account' = account /\ account[u] \notin Passwords
      BY <2>3 DEF registerRead, Registered
    <3> QED  BY <3>1
  <2>4. ASSUME NEW p \in Passwords, register(p)  PROVE SignupInv'
    <3>1. account' \in [Users -> Accounts]
      BY <2>4 DEF register, Accounts
    <3>2. signup' = [signup EXCEPT ![p] = NoSignup]
      BY <2>4 DEF register
    <3>3. NoSignup \in [pc : {"idle", "write"}, user : Users, seen : Accounts]
      BY MembersAssumption DEF NoSignup, Accounts
    <3> QED  BY <3>1, <3>2, <3>3 DEF NoSignup
  <2> QED  BY <2>1, <2>2, <2>3, <2>4, AccountSteps
<1> QED  BY <1>1, <1>2, MembersInvHolds, PTL DEF Spec

\* An account keeps the password it was registered with, except when two
\* registrations found it as an invitation had left it (auth.service.ts).
THEOREM PasswordKeptHolds == Spec => PasswordKept
<1> DEFINE Step ==
       \A u \in Users, p \in Passwords :
         account[u] = p /\ account'[u] # p =>
           \E q \in Passwords \ {p} : /\ account'[u] = q
                                      /\ signup[q].user = u /\ signup[q].seen = "invited"
<1>1. SignupInv /\ [Next]_vars => [Step]_<<members, budget, sessionVars>>
  <2> SUFFICES ASSUME SignupInv, [Next]_vars, NEW u \in Users, NEW p \in Passwords,
                      account[u] = p, account'[u] # p
               PROVE  \E q \in Passwords \ {p} :
                        /\ account'[u] = q
                        /\ signup[q].user = u /\ signup[q].seen = "invited"
    OBVIOUS
  <2>a. p # "none" /\ p # "invited" /\ account \in [Users -> Accounts]
    BY MembersAssumption DEF SignupInv
  <2>1. ASSUME NEW v \in Users, addMember(v)  PROVE FALSE
    BY <2>1, <2>a DEF addMember
  <2>2. ASSUME NEW v \in Users, NEW q \in Passwords, registerRead(q, v)  PROVE FALSE
    BY <2>2 DEF registerRead
  <2>3. PICK q \in Passwords : register(q)
    BY <2>1, <2>2, AccountSteps
  <2>4. account' = IF signup[q].seen = "none" /\ account[signup[q].user] # "none" THEN account
                   ELSE [account EXCEPT ![signup[q].user] = q]
    BY <2>3 DEF register
  <2>5. signup[q].user = u /\ account'[u] = q /\ signup[q].seen # "none"
    BY <2>4, <2>a
  <2>6. signup[q].seen \in Accounts \ Passwords
    BY <2>3 DEF SignupInv, register
  <2>7. signup[q].seen = "invited"
    BY <2>5, <2>6 DEF Accounts
  <2> QED  BY <2>5, <2>7
<1>2. Spec => [][Step]_<<members, budget, sessionVars>>
  BY <1>1, SignupInvHolds, PTL DEF Spec
<1> QED  BY <1>2 DEF PasswordKept

-----------------------------------------------------------------------------
(* Bounds *)

BudgetInv == budget \in Budgets

LEMMA SpendBudget ==
  ASSUME BudgetInv, NEW kind \in {"calls", "edits", "writes", "sessions"}, Spend(kind)
  PROVE  BudgetInv'
BY DEF BudgetInv, Spend, Budgets

LEMMA BudgetInvHolds == Spec => []BudgetInv
<1>1. Init => BudgetInv
  BY MembersAssumption DEF Init, MembersInit, BudgetInv
<1>2. BudgetInv /\ [Next]_vars => BudgetInv'
  <2> SUFFICES ASSUME BudgetInv, [Next]_vars  PROVE BudgetInv'
    OBVIOUS
  <2>1. CASE budget' = budget
    BY <2>1 DEF BudgetInv
  <2>2. CASE MembersNext
    BY <2>1, <2>2, SpendBudget DEF MembersNext, request, getActorMembership, getMember,
       refuse, addMember, updateMemberRole, removeMember
  <2>3. CASE SessionNext
    BY <2>1, <2>3, SpendBudget DEF SessionNext, registerRead, register, signIn, signOut,
       otherTab, expire, send, apiRequest
  <2>4. CASE ApiNext
    BY <2>1, <2>4, SpendBudget DEF ApiNext, post, findCurrent, insertVersion, answer
  <2>5. CASE PageNext
    BY <2>1, <2>5, SpendBudget DEF PageNext, startEditing, addNode, deleteNode,
       handleNodesChange, handleEdgesChange, handleConnect, deleteEdge, updateSelectedEdge,
       Draft, saveDefinition, restoreVersion, post, saveFails, refetch, onSuccess,
       onSuccessThenEffect, discardDraft, saveMetadata, runWorkflow
  <2>6. CASE UNCHANGED vars
    BY <2>1, <2>6 DEF vars
  <2> QED  BY <2>2, <2>3, <2>4, <2>5, <2>6 DEF Next
<1> QED  BY <1>1, <1>2, PTL DEF Spec

-----------------------------------------------------------------------------
(* Sessions *)

Tabs == [storage : Tokens, token : Tokens, cache : SUBSET Users,
         requests : SUBSET Requests, notice : BOOLEAN, foreign : BOOLEAN]

\* A tab b after n tokens were issued.  As long as no other tab has interfered,
\* the stored token is the tab's, what is still expected was asked for with it,
\* and all else that is under way is older.
TabInv(b, n) ==
  /\ b \in Tabs
  /\ b.storage.n <= n /\ b.token.n <= n
  /\ \A r \in b.requests : r.token.n <= n
  /\ b.storage # NoToken => b.storage.n > 0
  /\ b.token # NoToken => b.token.n > 0
  /\ ~ b.foreign =>
       /\ b.storage = b.token
       /\ \A r \in b.requests : r.kind # "dropped" => r.token = b.token /\ b.token # NoToken
       /\ b.token # NoToken => \A r \in b.requests : r.token = b.token \/ r.token.n < b.token.n
       /\ b.cache \subseteq (IF b.token = NoToken THEN {} ELSE {b.token.user})

SessionInv == tokens.issued \in Nat /\ TabInv(browser, tokens.issued)

LEMMA NoTokenType == NoToken \in Tokens /\ NoToken.n = 0
BY MembersAssumption DEF NoToken, Tokens

\* Clearing leaves nothing that is expected, and nothing cached.
LEMMA ClearedTab ==
  ASSUME NEW b \in Tabs, NEW n \in Nat, TabInv(b, n), NEW m \in BOOLEAN, NEW d,
         d = [Cleared(b) EXCEPT !.storage = NoToken, !.token = NoToken, !.notice = m]
  PROVE  TabInv(d, n) /\ \A r \in d.requests : r.kind = "dropped"
<1>1. /\ d.storage = NoToken /\ d.token = NoToken /\ d.notice = m /\ d.cache = {}
      /\ d.foreign = FALSE
      /\ d.requests = {[r EXCEPT !.kind = "dropped"] : r \in b.requests}
      /\ d = [storage |-> d.storage, token |-> d.token, cache |-> d.cache,
              requests |-> d.requests, notice |-> d.notice, foreign |-> d.foreign]
  BY DEF Cleared, Tabs
<1>2. \A r \in d.requests :
        r.kind = "dropped" /\ r \in Requests /\ \E q \in b.requests : r.token = q.token
  <2> SUFFICES ASSUME NEW q \in b.requests, NEW r, r = [q EXCEPT !.kind = "dropped"]
               PROVE  r.kind = "dropped" /\ r \in Requests /\ r.token = q.token
    BY <1>1
  <2>1. q \in Requests
    BY DEF Tabs
  <2> QED  BY <2>1 DEF Requests
<1>3. d \in Tabs
  BY <1>1, <1>2, NoTokenType DEF Tabs
<1>4. \A r \in d.requests : r.token.n <= n
  BY <1>2 DEF TabInv
<1> QED  BY <1>1, <1>2, <1>3, <1>4, NoTokenType DEF TabInv

\* The steps that end nothing.
LEMMA TabIssue ==
  ASSUME NEW b \in Tabs, NEW n \in Nat, TabInv(b, n), NEW u \in Users, NEW d,
         NEW t, t = [user |-> u, n |-> n + 1],
         \/ d = [b EXCEPT !.storage = t, !.foreign = TRUE]
         \/ b.token = NoToken /\ d = [b EXCEPT !.storage = t, !.token = t, !.notice = FALSE]
  PROVE  TabInv(d, n + 1)
<1>1. t \in Tokens /\ t.n = n + 1 /\ t # NoToken
  BY NoTokenType DEF Tokens
<1>2. d.requests = b.requests /\ d.cache = b.cache /\ d \in Tabs
  BY <1>1 DEF Tabs
<1>3. /\ b.storage.n \in Nat /\ b.token.n \in Nat
      /\ \A r \in b.requests : r.token.n \in Nat
  BY DEF Tabs, Requests, Tokens
<1>4. \A r \in b.requests : r.token.n <= n + 1 /\ r.token.n < n + 1
  BY <1>3 DEF TabInv
<1>5. CASE d = [b EXCEPT !.storage = t, !.foreign = TRUE]
  <2>1. d.storage = t /\ d.token = b.token /\ d.foreign = TRUE
    BY <1>5 DEF Tabs
  <2> QED  BY <2>1, <1>1, <1>2, <1>3, <1>4 DEF TabInv
<1>6. CASE b.token = NoToken /\ d = [b EXCEPT !.storage = t, !.token = t, !.notice = FALSE]
  <2>1. d.storage = t /\ d.token = t /\ d.foreign = b.foreign
    BY <1>6 DEF Tabs
  <2>2. ~ b.foreign => b.cache = {} /\ \A r \in b.requests : r.kind = "dropped"
    BY <1>6 DEF TabInv
  <2> QED  BY <2>1, <2>2, <1>1, <1>2, <1>4 DEF TabInv
<1> QED  BY <1>5, <1>6

LEMMA TabStorageGone ==
  ASSUME NEW b \in Tabs, NEW n \in Nat, TabInv(b, n), NEW d,
         d = [b EXCEPT !.storage = NoToken, !.foreign = TRUE]
  PROVE  TabInv(d, n)
<1>1. /\ d \in Tabs /\ d.storage = NoToken /\ d.foreign = TRUE
      /\ d.token = b.token /\ d.requests = b.requests
  BY NoTokenType DEF Tabs
<1> QED  BY <1>1, NoTokenType DEF TabInv

LEMMA TabSend ==
  ASSUME NEW b \in Tabs, NEW n \in Nat, TabInv(b, n), NEW kind \in {"me", "page"}, NEW d,
         b.token # NoToken,
         d = [b EXCEPT !.requests = @ \cup {[kind |-> kind, token |-> b.storage]}]
  PROVE  TabInv(d, n)
<1> DEFINE q == [kind |-> kind, token |-> b.storage]
<1>1. q \in Requests /\ q.token = b.storage /\ q.kind = kind
  BY DEF Tabs, Requests
<1> HIDE DEF q
<1>2. /\ d \in Tabs /\ d.requests = b.requests \cup {q} /\ d.storage = b.storage
      /\ d.token = b.token /\ d.cache = b.cache /\ d.foreign = b.foreign
  BY <1>1 DEF Tabs, q
<1> QED  BY <1>1, <1>2 DEF TabInv

LEMMA TabAnswer ==
  ASSUME NEW b \in Tabs, NEW n \in Nat, TabInv(b, n), NEW r \in b.requests, NEW d,
         \/ d = [b EXCEPT !.requests = @ \ {r}]
         \/ /\ r.kind # "dropped"
            /\ d = [[b EXCEPT !.requests = @ \ {r}] EXCEPT !.cache = @ \cup {r.token.user}]
  PROVE  TabInv(d, n)
<1>1. r \in Requests /\ r.token.user \in Users
  BY DEF Tabs, Requests, Tokens
<1>2. /\ d \in Tabs /\ d.requests = b.requests \ {r} /\ d.storage = b.storage
      /\ d.token = b.token /\ d.foreign = b.foreign
      /\ \/ d.cache = b.cache
         \/ r.kind # "dropped" /\ d.cache = b.cache \cup {r.token.user}
  <2>1. CASE d = [b EXCEPT !.requests = @ \ {r}]
    BY <2>1 DEF Tabs
  <2>2. CASE /\ r.kind # "dropped"
             /\ d = [[b EXCEPT !.requests = @ \ {r}] EXCEPT !.cache = @ \cup {r.token.user}]
    <3> DEFINE e == [b EXCEPT !.requests = @ \ {r}]
    <3>1. /\ e \in Tabs /\ e.requests = b.requests \ {r} /\ e.storage = b.storage
          /\ e.token = b.token /\ e.foreign = b.foreign /\ e.cache = b.cache
      BY DEF Tabs
    <3>2. d = [e EXCEPT !.cache = @ \cup {r.token.user}]
      BY <2>2
    <3> HIDE DEF e
    <3>3. /\ d \in Tabs /\ d.requests = e.requests /\ d.storage = e.storage
          /\ d.token = e.token /\ d.foreign = e.foreign
          /\ d.cache = e.cache \cup {r.token.user}
      BY <3>1, <3>2, <1>1 DEF Tabs
    <3> QED  BY <3>1, <3>3, <2>2
  <2> QED  BY <2>1, <2>2
<1>3. ~ b.foreign /\ r.kind # "dropped" => r.token = b.token /\ b.token # NoToken
  BY DEF TabInv
<1> QED  BY <1>2, <1>3 DEF TabInv

\* Nobody else touches the tab.
LEMMA TabSteps ==
  ASSUME [Next]_vars
  PROVE  UNCHANGED <<tokens, browser>> \/ SessionNext
BY DEF Next, sessionVars, vars

LEMMA SessionInvHolds == Spec => []SessionInv
<1>1. Init => SessionInv
  <2> SUFFICES ASSUME Init  PROVE SessionInv
    OBVIOUS
  <2>1. /\ browser = [storage |-> NoToken, token |-> NoToken, cache |-> {}, requests |-> {},
                      notice |-> FALSE, foreign |-> FALSE]
        /\ tokens.issued = 0
    BY DEF Init, SessionInit
  <2>2. browser \in Tabs
    BY <2>1, NoTokenType DEF Tabs
  <2> QED  BY <2>1, <2>2, NoTokenType DEF SessionInv, TabInv
<1>2. SessionInv /\ [Next]_vars => SessionInv'
  <2> SUFFICES ASSUME SessionInv, [Next]_vars  PROVE SessionInv'
    OBVIOUS
  <2>a. PICK b \in Tabs, n \in Nat :
          b = browser /\ n = tokens.issued /\ TabInv(b, n)
    BY DEF SessionInv, TabInv
  <2>b. ASSUME NEW d, browser' = d, NEW k \in Nat, tokens'.issued = k, TabInv(d, k)
        PROVE  SessionInv'
    BY <2>b DEF SessionInv
  <2>c. PICK d : d = browser'
    OBVIOUS
  <2>d. ASSUME tokens' = tokens, TabInv(d, n)  PROVE SessionInv'
    BY <2>a, <2>b, <2>c, <2>d
  <2>e. ASSUME NEW u \in Users, Issue(u), TabInv(d, n + 1)  PROVE SessionInv'
    <3>1. tokens'.issued = n + 1
      BY <2>e, <2>a DEF Issue
    <3> QED  BY <3>1, <2>b, <2>c, <2>e
  <2>1. CASE UNCHANGED <<tokens, browser>>
    BY <2>1, <2>a, <2>c, <2>d
  <2>2. ASSUME NEW p \in Passwords, NEW u \in Users, registerRead(p, u)  PROVE SessionInv'
    BY <2>2, <2>1 DEF registerRead
  <2>3. ASSUME NEW p \in Passwords, register(p)  PROVE SessionInv'
    BY <2>3, <2>1 DEF register
  <2>4. ASSUME NEW u \in Users, signIn(u)  PROVE SessionInv'
    <3>1. d = [b EXCEPT !.storage = NextToken(u), !.token = NextToken(u), !.notice = FALSE]
      BY <2>4, <2>a, <2>c DEF signIn
    <3>2. NextToken(u) = [user |-> u, n |-> n + 1] /\ b.token = NoToken /\ Issue(u)
      BY <2>4, <2>a DEF NextToken, signIn
    <3>3. TabInv(d, n + 1)
      BY <3>1, <3>2, <2>a, TabIssue
    <3> QED  BY <3>2, <3>3, <2>e
  <2>5. CASE signOut
    <3>1. /\ tokens' = tokens
          /\ d = [Cleared(b) EXCEPT !.storage = NoToken, !.token = NoToken, !.notice = FALSE]
      BY <2>5, <2>a, <2>c DEF signOut
    <3>2. TabInv(d, n)
      BY <3>1, <2>a, ClearedTab
    <3> QED  BY <3>1, <3>2, <2>d
  <2>6. CASE otherTab
    <3>1. ASSUME NEW u \in Users, Issue(u),
                 browser' = [browser EXCEPT !.storage = NextToken(u), !.foreign = TRUE]
          PROVE  SessionInv'
      <4>1. NextToken(u) = [user |-> u, n |-> n + 1]
        BY <2>a DEF NextToken
      <4>2. TabInv(d, n + 1)
        BY <4>1, <3>1, <2>a, <2>c, TabIssue
      <4> QED  BY <3>1, <4>2, <2>e
    <3>2. CASE /\ tokens' = tokens
               /\ browser' = [browser EXCEPT !.storage = NoToken, !.foreign = TRUE]
      BY <3>2, <2>a, <2>c, <2>d, TabStorageGone
    <3> QED  BY <2>6, <3>1, <3>2 DEF otherTab
  <2>7. CASE expire
    <3>1. tokens'.issued = n /\ browser' = b
      BY <2>7, <2>a DEF expire
    <3> QED  BY <3>1, <2>a, <2>b
  <2>8. ASSUME NEW kind \in {"me", "page"}, send(kind)  PROVE SessionInv'
    <3>1. /\ tokens' = tokens /\ b.token # NoToken
          /\ d = [b EXCEPT !.requests = @ \cup {[kind |-> kind, token |-> b.storage]}]
      BY <2>8, <2>a, <2>c DEF send
    <3>2. TabInv(d, n)
      BY <3>1, <2>a, TabSend
    <3> QED  BY <3>1, <3>2, <2>d
  <2>9. ASSUME NEW r \in browser.requests, apiRequest(r)  PROVE SessionInv'
    <3> DEFINE done == [b EXCEPT !.requests = @ \ {r}]
    <3>a. tokens' = tokens /\ r \in b.requests
      BY <2>9, <2>a DEF apiRequest
    <3>1. CASE Ends(r)
      <4>1. d = [expireSession(done) EXCEPT !.notice = r.token # NoToken]
        BY <2>9, <2>a, <2>c, <3>1 DEF apiRequest
      <4>2. TabInv(done, n)
        BY <3>a, <2>a, TabAnswer
      <4>3. PICK e \in Tabs, m \in BOOLEAN : e = done /\ m = (r.token # NoToken)
        BY <4>2 DEF TabInv
      <4>4. d = [Cleared(e) EXCEPT !.storage = NoToken, !.token = NoToken, !.notice = m]
        BY <4>1, <4>3 DEF expireSession, Cleared, Tabs
      <4> HIDE DEF done
      <4>5. TabInv(d, n)
        BY <4>2, <4>3, <4>4, ClearedTab
      <4> QED  BY <4>5, <3>a, <2>d
    <3>2. CASE ~ Ends(r)
      <4>1. \/ d = [b EXCEPT !.requests = @ \ {r}]
            \/ /\ r.kind # "dropped"
               /\ d = [[b EXCEPT !.requests = @ \ {r}] EXCEPT !.cache = @ \cup {r.token.user}]
        BY <2>9, <2>a, <2>c, <3>2 DEF apiRequest
      <4>2. TabInv(d, n)
        BY <4>1, <3>a, <2>a, TabAnswer
      <4> QED  BY <4>2, <3>a, <2>d
    <3> QED  BY <3>1, <3>2
  <2> QED  BY <2>1, <2>2, <2>3, <2>4, <2>5, <2>6, <2>7, <2>8, <2>9, TabSteps DEF SessionNext
<1> QED  BY <1>1, <1>2, PTL DEF Spec

\* What a tab shows belongs to its user, whatever answers are late, unless
\* another tab has changed the stored token (auth-provider.tsx, http.ts).
THEOREM CacheBelongsToUserHolds == Spec => []CacheBelongsToUser
<1>1. SessionInv => CacheBelongsToUser
  BY DEF SessionInv, TabInv, CacheBelongsToUser
<1> QED  BY <1>1, SessionInvHolds, PTL

\* A session its user does not end is ended by a token that has expired: its
\* own, or that of a late answer to an earlier session (http.ts).
THEOREM SessionEndsByExpiryHolds == Spec => SessionEndsByExpiry
<1> DEFINE Step ==
       browser.token # NoToken /\ browser'.token = NoToken /\ budget' = budget =>
         \E r \in browser.requests \ browser'.requests :
           /\ r.token = NoToken \/ r.token.n \in tokens.expired
           /\ r.token = browser.token \/ r.token.n < browser.token.n \/ browser.foreign
<1>1. MembersInv /\ BudgetInv /\ SessionInv /\ [Next]_vars
        => [Step]_<<members, budget, sessionVars>>
  <2> SUFFICES ASSUME SessionInv, BudgetInv, [Next]_vars, browser.token # NoToken,
                      browser'.token = NoToken, budget' = budget
               PROVE  \E r \in browser.requests \ browser'.requests :
           /\ r.token = NoToken \/ r.token.n \in tokens.expired
           /\ r.token = browser.token \/ r.token.n < browser.token.n \/ browser.foreign
    OBVIOUS
  <2>a. browser \in Tabs
    BY DEF SessionInv, TabInv
  <2>b. ASSUME NEW kind \in {"calls", "edits", "writes", "sessions"}, Spend(kind)
        PROVE  FALSE
    BY <2>b DEF Spend, BudgetInv, Budgets
  <2>1. PICK r \in browser.requests : apiRequest(r)
    BY <2>b, TabSteps DEF SessionNext, registerRead, register, signIn, signOut, otherTab,
       expire, send
  <2>2. Ends(r)
    BY <2>1, <2>a DEF apiRequest, Tabs
  <2>3. r.token = NoToken \/ r.token.n \in tokens.expired
    BY <2>2 DEF Ends, Status
  <2>4. r.token = browser.token \/ r.token.n < browser.token.n \/ browser.foreign
    BY DEF SessionInv, TabInv
  <2>5. browser'.requests =
          {[q EXCEPT !.kind = "dropped"] : q \in browser.requests \ {r}}
    BY <2>1, <2>2, <2>a DEF apiRequest, expireSession, Cleared, Tabs
  <2>6. \A q \in browser'.requests : q.kind = "dropped"
    BY <2>5, <2>a DEF Tabs, Requests
  <2>7. CASE r \notin browser'.requests
    BY <2>7, <2>3, <2>4
  <2>8. CASE r \in browser'.requests
    <3>1. PICK q \in browser.requests \ {r} : r = [q EXCEPT !.kind = "dropped"]
      BY <2>8, <2>5
    <3>2. q \in Requests /\ r \in Requests
      BY <2>a DEF Tabs
    <3>3. q.token = r.token /\ q.kind # "dropped"
      BY <3>1, <3>2 DEF Requests
    <3> QED  BY <3>1, <3>3, <2>3, <2>4, <2>6
  <2> QED  BY <2>7, <2>8
<1>2. Spec => [][Step]_<<members, budget, sessionVars>>
  BY <1>1, MembersInvHolds, SessionInvHolds, BudgetInvHolds, PTL DEF Spec
<1> QED  BY <1>2 DEF SessionEndsByExpiry

-----------------------------------------------------------------------------
(* Versions and the editor's page *)

Pages == [pc : {"idle", "sent", "settle", "lost"}, editing : BOOLEAN, fetched : Nat,
          base : Nat, draft : Definitions, role : Roles]

\* A request w of user u, with the versions h: what it is about to restore is
\* there, and a version it was answered with is the last one u has stored.
WriteInv(w, u, h) ==
  /\ w.pc = "read" /\ w.op = "restore" => w.from \in 1 .. Len(h)
  /\ w.pc = "insert" => w.seen <= Len(h)
  /\ w.got # 0 => /\ w.pc = "answered" /\ w.got \in 1 .. Len(h)
                  /\ h[w.got].by = u
                  /\ \A v \in w.got + 1 .. Len(h) : h[v].by # u

\* A page p whose user's request is w: one request at a time, whose version is
\* not newer than what the page shows once it is fetched.
PageInv(p, w, h) ==
  /\ p \in Pages /\ p.fetched \in 1 .. Len(h) /\ p.base \in 1 .. Len(h)
  /\ p.pc = "idle" => w = NoWrite
  /\ p.pc = "settle" => w.got # 0 /\ w.got <= p.fetched
  /\ p.base # p.fetched =>
       /\ p.base < p.fetched
       /\ h[p.base].by = Editor
       /\ \E v \in p.base + 1 .. p.fetched : h[v].by # Editor

EditorInv ==
  /\ history \in Seq(Versions) /\ Len(history) >= 1
  /\ write \in [Users -> Writes]
  /\ \A u \in Users : WriteInv(write[u], u, history)
  /\ PageInv(page, write[Editor], history)

LEMMA NoWriteType ==
  /\ NoWrite \in Writes /\ NoWrite.got = 0 /\ NoWrite.pc = "idle"
  /\ NoWrite.def \in Definitions
BY DEF NoWrite, Writes, Definitions

LEMMA FirstVersionsType == \A d \in FirstVersions : d \in Definitions
BY EditorAssumption DEF ValidDefinitions, Definitions

LEMMA EditorInitInv == Init => EditorInv
<1> SUFFICES ASSUME Init  PROVE EditorInv
  OBVIOUS
<1>1. PICK d \in FirstVersions : history = <<[def |-> d, by |-> Owner]>>
  BY DEF Init
<1>2. /\ history \in Seq(Versions) /\ Len(history) = 1
      /\ history[1] = [def |-> d, by |-> Owner]
  BY <1>1, FirstVersionsType, MembersAssumption DEF Versions
<1>3. write = [u \in Users |-> NoWrite]
  BY DEF Init
<1>4. page = [pc |-> "idle", editing |-> FALSE, fetched |-> 1, base |-> 1,
              draft |-> history[1].def, role |-> member[Editor].role]
  BY DEF Init, Loaded
<1>5. member[Editor].role \in Roles
  BY MembersInitInv, EditorAssumption DEF MembersInv, MembersTypes, Rows, Roles
<1>6. page \in Pages
  BY <1>2, <1>4, <1>5, FirstVersionsType DEF Pages
<1>7. PageInv(page, write[Editor], history)
  BY <1>2, <1>3, <1>4, <1>6, EditorAssumption DEF PageInv
<1>8. \A u \in Users : WriteInv(write[u], u, history)
  BY <1>3, NoWriteType DEF WriteInv
<1> QED  BY <1>2, <1>3, <1>7, <1>8, NoWriteType DEF EditorInv

\* A step that stores no version and moves at most one request, and the page.
LEMMA EditorMoves ==
  ASSUME EditorInv, history' = history, NEW u \in Users, NEW w \in Writes,
         write' = [write EXCEPT ![u] = w], WriteInv(w, u, history),
         NEW x, x = write'[Editor], PageInv(page', x, history)
  PROVE  EditorInv'
<1>1. write' \in [Users -> Writes]
  BY DEF EditorInv
<1>2. \A v \in Users : WriteInv(write'[v], v, history)
  <2> TAKE v \in Users
  <2>1. CASE v = u
    BY <2>1 DEF EditorInv
  <2>2. CASE v # u
    BY <2>2 DEF EditorInv
  <2> QED  BY <2>1, <2>2
<1> QED  BY <1>1, <1>2 DEF EditorInv, WriteInv, PageInv

LEMMA PageMoves ==
  ASSUME EditorInv, history' = history, write' = write,
         NEW p, p = page', PageInv(p, write[Editor], history)
  PROVE  EditorInv'
BY DEF EditorInv, WriteInv, PageInv

LEMMA VersionTypes ==
  ASSUME EditorInv, NEW i \in 1 .. Len(history)
  PROVE  history[i].def \in Definitions
<1>1. history[i] \in Versions
  BY DEF EditorInv
<1> QED  BY <1>1 DEF Versions

\* A refetch.
LEMMA FetchedPage ==
  ASSUME EditorInv
  PROVE  /\ Fetched(page) \in Pages /\ Fetched(page).pc = page.pc
         /\ Fetched(page).fetched = Len(history)
         /\ Fetched(page).base \in 1 .. Len(history)
         /\ \/ Fetched(page).base = Len(history)
            \/ Fetched(page) = page /\ page.fetched = Len(history)
         /\ PageInv(Fetched(page), write[Editor], history)
<1>a. /\ page \in Pages /\ Len(history) \in Nat /\ Len(history) >= 1
      /\ PageInv(page, write[Editor], history)
      /\ page.fetched \in 1 .. Len(history) /\ page.base \in 1 .. Len(history)
  BY DEF EditorInv, PageInv
<1>1. CASE Len(history) = page.fetched
  BY <1>1, <1>a DEF Fetched
<1>2. CASE Len(history) # page.fetched
  <2>1. history[Len(history)].def \in Definitions
    BY <1>a, VersionTypes
  <2>2. /\ Fetched(page) \in Pages /\ Fetched(page).pc = page.pc
        /\ Fetched(page).fetched = Len(history) /\ Fetched(page).base = Len(history)
    BY <2>1, <1>2, <1>a DEF Fetched, Pages
  <2>3. page.pc = "settle" => write[Editor].got <= Len(history)
    BY EditorAssumption, <1>a DEF EditorInv, PageInv, WriteInv
  <2> QED  BY <2>2, <2>3, <1>a DEF PageInv
<1> QED  BY <1>1, <1>2

LEMMA PostMoves ==
  ASSUME EditorInv, NEW u \in Users, NEW op \in {"create", "restore"},
         NEW d \in Definitions, NEW from \in Nat, post(u, op, d, from),
         op = "restore" => from \in 1 .. Len(history)
  PROVE  \E w \in Writes : /\ write' = [write EXCEPT ![u] = w]
                           /\ WriteInv(w, u, history)
<1> DEFINE w1 == [NoWrite EXCEPT !.pc = "read", !.op = op, !.def = d, !.from = from]
           w2 == [NoWrite EXCEPT !.pc = "answered"]
<1>1. w1 \in Writes /\ w1.from = from /\ w1.op = op /\ w1.got = 0
  BY DEF NoWrite, Writes
<1>2. w2 \in Writes /\ w2.pc = "answered" /\ w2.got = 0
  BY NoWriteType DEF NoWrite, Writes
<1>3. write' = [write EXCEPT ![u] = w1] \/ write' = [write EXCEPT ![u] = w2]
  BY DEF post
<1>4. w1.pc = "read"
  BY DEF NoWrite
<1> HIDE DEF w1, w2
<1>5. WriteInv(w1, u, history) /\ WriteInv(w2, u, history)
  BY <1>1, <1>2, <1>4 DEF WriteInv
<1> QED  BY <1>1, <1>2, <1>3, <1>5

LEMMA ApiInv ==
  ASSUME EditorInv, ApiNext
  PROVE  EditorInv'
<1>a. /\ history \in Seq(Versions) /\ Len(history) \in Nat /\ Len(history) >= 1
      /\ write \in [Users -> Writes] /\ Editor \in Users
      /\ PageInv(page, write[Editor], history)
  BY EditorAssumption DEF EditorInv
<1>1. PICK u \in Users :
        \/ /\ u # Editor
           /\ \/ \E d \in ValidDefinitions : post(u, "create", d, 0)
              \/ \E v \in 1 .. Len(history) : post(u, "restore", NoWrite.def, v)
           /\ UNCHANGED page
        \/ findCurrent(u)
        \/ insertVersion(u)
        \/ answer(u)
  BY DEF ApiNext
<1>2. CASE /\ u # Editor
           /\ \/ \E d \in ValidDefinitions : post(u, "create", d, 0)
              \/ \E v \in 1 .. Len(history) : post(u, "restore", NoWrite.def, v)
           /\ UNCHANGED page
  <2>1. \A d \in ValidDefinitions : d \in Definitions
    BY DEF ValidDefinitions, Definitions
  <2>2. PICK w \in Writes : write' = [write EXCEPT ![u] = w] /\ WriteInv(w, u, history)
    BY <1>2, <2>1, PostMoves, NoWriteType
  <2>3. history' = history /\ write'[Editor] = write[Editor]
    BY <1>2, <2>2, <1>a DEF post
  <2> QED  BY <2>2, <2>3, <1>2, <1>a, EditorMoves
<1>3. CASE findCurrent(u)
  <2> DEFINE w == [write[u] EXCEPT !.pc = "insert", !.seen = Len(history),
                     !.def = IF write[u].op = "restore"
                             THEN history[write[u].from].def ELSE @]
  <2>1. write' = [write EXCEPT ![u] = w] /\ history' = history /\ page' = page
    BY <1>3, <1>a DEF findCurrent, Writes
  <2>2. write[u].op = "restore" => history[write[u].from].def \in Definitions
    <3>1. write[u].op = "restore" => write[u].from \in 1 .. Len(history)
      BY <1>3 DEF findCurrent, EditorInv, WriteInv
    <3> QED  BY <3>1, VersionTypes
  <2>3. write[u].got = 0 /\ write[u].pc = "read"
    BY <1>3 DEF findCurrent, EditorInv, WriteInv
  <2>4. w \in Writes /\ w.pc = "insert" /\ w.got = 0
    BY <2>2, <2>3, <1>a DEF Writes
  <2>5. WriteInv(w, u, history)
    <3>1. w.seen = Len(history)
      BY <1>a DEF Writes
    <3> QED  BY <3>1, <2>4, <1>a DEF WriteInv
  <2>6. PageInv(page, write'[Editor], history)
    <3>1. CASE u # Editor
      BY <3>1, <2>1, <1>a
    <3>2. CASE u = Editor
      <4>1. page.pc # "idle" /\ page.pc # "settle"
        BY <3>2, <2>3, <1>a, NoWriteType DEF PageInv
      <4> QED  BY <4>1, <1>a DEF PageInv
    <3> QED  BY <3>1, <3>2
  <2> HIDE DEF w
  <2> QED  BY <2>1, <2>4, <2>5, <2>6, EditorMoves
<1>4. CASE insertVersion(u)
  <2> DEFINE n == write[u].seen + 1
  <2>0. /\ write[u].got = 0 /\ write[u].pc = "insert" /\ page' = page
        /\ write[u] \in Writes
    BY <1>4, <1>a DEF insertVersion, EditorInv, WriteInv
  <2>1. CASE n \in DOMAIN history
    <3> DEFINE w == [write[u] EXCEPT !.pc = "answered"]
    <3>1. write' = [write EXCEPT ![u] = w] /\ history' = history
      BY <1>4, <2>1, <1>a DEF insertVersion, Writes
    <3>2. w \in Writes /\ w.pc = "answered" /\ w.got = 0
      BY <2>0, <1>a DEF Writes
    <3>3. WriteInv(w, u, history)
      BY <3>2 DEF WriteInv
    <3>4. PageInv(page, write'[Editor], history)
      <4>1. CASE u # Editor
        BY <4>1, <3>1, <1>a
      <4>2. CASE u = Editor
        <5>1. page.pc # "idle" /\ page.pc # "settle"
          BY <4>2, <2>0, <1>a, NoWriteType DEF PageInv
        <5> QED  BY <5>1, <1>a DEF PageInv
      <4> QED  BY <4>1, <4>2
    <3> HIDE DEF w
    <3> QED  BY <3>1, <3>2, <3>3, <3>4, <2>0, EditorMoves
  <2>2. CASE n \notin DOMAIN history
    <3> DEFINE v == [def |-> write[u].def, by |-> u]
               w == [write[u] EXCEPT !.pc = "answered", !.got = n]
    <3>1. /\ history' = Append(history, v) /\ write' = [write EXCEPT ![u] = w]
      BY <1>4, <2>2, <1>a DEF insertVersion, Writes
    <3>2. v \in Versions /\ v.by = u
      BY <2>0, <1>a DEF Versions, Writes
    <3>3. w \in Writes /\ w.pc = "answered" /\ w.got = n
      <4>1. n \in Nat
        BY <2>0 DEF Writes
      <4> HIDE DEF n
      <4> QED  BY <4>1, <2>0 DEF Writes
    <3>4. n = Len(history) + 1
      <4>1. write[u].seen \in Nat /\ write[u].seen <= Len(history)
        BY <2>0, <1>a DEF EditorInv, WriteInv, Writes
      <4>2. DOMAIN history = 1 .. Len(history)
        BY <1>a
      <4> QED  BY <4>1, <4>2, <2>2, <1>a
    <3>5. /\ history' \in Seq(Versions) /\ Len(history') = Len(history) + 1
          /\ history'[n] = v
          /\ \A i \in 1 .. Len(history) : history'[i] = history[i]
      BY <3>1, <3>2, <3>4, <1>a
    <3> HIDE DEF v, w
    <3>6. write' \in [Users -> Writes] /\ write'[u] = w
      BY <3>1, <3>3, <1>a
    <3>7. \A x \in Users : WriteInv(write'[x], x, history')
      <4> TAKE x \in Users
      <4>1. CASE x = u
        BY <4>1, <3>1, <3>2, <3>3, <3>4, <3>5, <3>6, <1>a DEF WriteInv
      <4>2. CASE x # u
        <5>1. write'[x] = write[x] /\ write[x] \in Writes /\ WriteInv(write[x], x, history)
          BY <4>2, <3>1, <1>a DEF EditorInv
        <5>2. /\ write[x].from \in Nat /\ write[x].got \in Nat /\ write[x].seen \in Nat
          BY <5>1 DEF Writes
        <5>3. write[x].got # 0 =>
                /\ write[x].got \in 1 .. Len(history) /\ history'[write[x].got].by = x
                /\ \A i \in write[x].got + 1 .. Len(history') : history'[i].by # x
          <6> SUFFICES ASSUME write[x].got # 0, NEW i \in write[x].got + 1 .. Len(history')
                       PROVE  /\ write[x].got \in 1 .. Len(history)
                              /\ history'[write[x].got].by = x
                              /\ history'[i].by # x
            BY <5>1, <3>5 DEF WriteInv
          <6>1. CASE i = n
            BY <6>1, <5>1, <3>5, <3>2, <4>2 DEF WriteInv
          <6>2. CASE i # n
            <7>1. i \in write[x].got + 1 .. Len(history)
              BY <6>2, <3>4, <3>5, <5>2, <1>a
            <7> QED  BY <7>1, <5>1, <5>2, <3>5, <1>a DEF WriteInv
          <6> QED  BY <6>1, <6>2
        <5> QED  BY <5>1, <5>2, <5>3, <3>5, <1>a DEF WriteInv
      <4> QED  BY <4>1, <4>2
    <3>8. PageInv(page, write'[Editor], history')
      <4>1. /\ page \in Pages /\ page.fetched \in 1 .. Len(history)
            /\ page.base \in 1 .. Len(history)
        BY <1>a DEF PageInv
      <4>2. /\ page.pc = "idle" => write'[Editor] = NoWrite
            /\ page.pc = "settle" => write'[Editor].got # 0
                                     /\ write'[Editor].got <= page.fetched
        <5>1. CASE u # Editor
          BY <5>1, <3>1, <1>a DEF PageInv
        <5>2. CASE u = Editor
          BY <5>2, <2>0, <1>a, NoWriteType DEF PageInv
        <5> QED  BY <5>1, <5>2
      <4>3. page.base # page.fetched =>
              /\ page.base < page.fetched
              /\ history'[page.base].by = Editor
              /\ \E i \in page.base + 1 .. page.fetched : history'[i].by # Editor
        <5> SUFFICES ASSUME page.base # page.fetched
                     PROVE  /\ page.base < page.fetched
                            /\ history'[page.base].by = Editor
                            /\ \E i \in page.base + 1 .. page.fetched :
                                 history'[i].by # Editor
          OBVIOUS
        <5>1. PICK i \in page.base + 1 .. page.fetched : history[i].by # Editor
          BY <1>a DEF PageInv
        <5>2. i \in 1 .. Len(history)
          BY <5>1, <4>1, <1>a
        <5> QED  BY <5>1, <5>2, <4>1, <3>5, <1>a DEF PageInv
      <4> QED  BY <4>1, <4>2, <4>3, <3>5, <1>a DEF PageInv
    <3> QED  BY <3>5, <3>6, <3>7, <3>8, <2>0, <1>a DEF EditorInv
  <2> QED  BY <2>1, <2>2
<1>5. CASE answer(u)
  <2>1. /\ write' = [write EXCEPT ![u] = NoWrite] /\ history' = history /\ page' = page
        /\ u # Editor
    BY <1>5 DEF answer
  <2>2. write'[Editor] = write[Editor] /\ WriteInv(NoWrite, u, history)
    BY <2>1, <1>a, NoWriteType DEF WriteInv
  <2> QED  BY <2>1, <2>2, <1>a, NoWriteType, EditorMoves
<1> QED  BY <1>1, <1>2, <1>3, <1>4, <1>5

LEMMA DraftInv ==
  ASSUME EditorInv, NEW d \in Definitions, Draft(d)
  PROVE  EditorInv'
<1>1. /\ history' = history /\ write' = write /\ page' = [page EXCEPT !.draft = d]
  BY DEF Draft, Unchanged
<1>2. PICK p : p = page'
  OBVIOUS
<1>3. PageInv(page, write[Editor], history) /\ page \in Pages
  BY DEF EditorInv, PageInv
<1>4. /\ p \in Pages /\ p.pc = page.pc /\ p.base = page.base /\ p.fetched = page.fetched
  BY <1>1, <1>2, <1>3 DEF Pages
<1>5. PageInv(p, write[Editor], history)
  BY <1>3, <1>4 DEF PageInv
<1> QED  BY <1>1, <1>2, <1>5, PageMoves

LEMMA WithoutNodesType ==
  ASSUME page.draft \in Definitions, NEW ns
  PROVE  WithoutNodes(ns) \in Definitions
BY DEF WithoutNodes, Definitions

LEMMA PageStepInv ==
  ASSUME EditorInv, PageNext
  PROVE  EditorInv'
<1>a. /\ history \in Seq(Versions) /\ Len(history) \in Nat /\ Len(history) >= 1
      /\ write \in [Users -> Writes] /\ Editor \in Users
      /\ PageInv(page, write[Editor], history)
      /\ WriteInv(write[Editor], Editor, history)
      /\ page \in Pages /\ page.fetched \in 1 .. Len(history)
      /\ page.base \in 1 .. Len(history)
  BY EditorAssumption DEF EditorInv, PageInv
<1>b. /\ page.draft \in Definitions /\ page.draft.nodes \in SUBSET NodeIds
      /\ page.draft.edges \in SUBSET (NodeIds \X NodeIds)
  BY <1>a DEF Pages, Definitions
<1>c. ASSUME NEW E \in SUBSET (NodeIds \X NodeIds)
      PROVE  [page.draft EXCEPT !.edges = E] \in Definitions
  BY <1>b DEF Definitions
<1>1. CASE startEditing
  <2>1. PICK p : p = page'
    OBVIOUS
  <2>2. /\ p = [page EXCEPT !.editing = TRUE] /\ history' = history /\ write' = write
    BY <1>1, <2>1 DEF startEditing, Unchanged
  <2>3. /\ p \in Pages /\ p.pc = page.pc /\ p.base = page.base /\ p.fetched = page.fetched
    BY <2>2, <1>a DEF Pages
  <2>4. PageInv(p, write[Editor], history)
    BY <2>3, <1>a DEF PageInv
  <2> QED  BY <2>1, <2>2, <2>4, PageMoves
<1>2. CASE addNode
  <2>1. PICK n \in NodeIds : Draft([page.draft EXCEPT !.nodes = @ \cup {n}])
    BY <1>2 DEF addNode
  <2>2. [page.draft EXCEPT !.nodes = @ \cup {n}] \in Definitions
    BY <1>b DEF Definitions
  <2> QED  BY <2>1, <2>2, DraftInv
<1>3. CASE deleteNode \/ handleNodesChange
  BY <1>3, <1>b, WithoutNodesType, DraftInv DEF deleteNode, handleNodesChange
<1>4. CASE handleEdgesChange \/ deleteEdge
  <2>1. PICK es : Draft([page.draft EXCEPT !.edges = page.draft.edges \ es])
    BY <1>4 DEF handleEdgesChange, deleteEdge
  <2> QED  BY <2>1, <1>b, <1>c, DraftInv
<1>5. CASE handleConnect
  <2>1. PICK n \in NodeIds, m \in NodeIds :
          Draft([page.draft EXCEPT !.edges = page.draft.edges \cup {<<n, m>>}])
    BY <1>5, <1>b DEF handleConnect
  <2>2. page.draft.edges \cup {<<n, m>>} \in SUBSET (NodeIds \X NodeIds)
    BY <1>b
  <2> QED  BY <2>1, <2>2, <1>c, DraftInv
<1>6. CASE updateSelectedEdge
  <2>1. PICK e \in page.draft.edges, n \in NodeIds, m \in NodeIds :
          Draft([page.draft EXCEPT !.edges = (page.draft.edges \ {e}) \cup {<<n, m>>}])
    BY <1>6, <1>b DEF updateSelectedEdge
  <2>2. (page.draft.edges \ {e}) \cup {<<n, m>>} \in SUBSET (NodeIds \X NodeIds)
    BY <1>b
  <2> QED  BY <2>1, <2>2, <1>c, DraftInv
<1>7. CASE saveDefinition \/ restoreVersion
  <2>1. PICK w \in Writes :
          write' = [write EXCEPT ![Editor] = w] /\ WriteInv(w, Editor, history)
    <3>1. CASE saveDefinition
      BY <3>1, <1>a, <1>b, PostMoves DEF saveDefinition
    <3>2. CASE restoreVersion
      <4>1. PICK v \in 1 .. page.fetched - 1 : post(Editor, "restore", NoWrite.def, v)
        BY <3>2 DEF restoreVersion
      <4>2. v \in 1 .. Len(history)
        BY <4>1, <1>a
      <4> QED  BY <4>1, <4>2, <1>a, NoWriteType, PostMoves
    <3> QED  BY <3>1, <3>2, <1>7
  <2>2. PICK p : p = page'
    OBVIOUS
  <2>3. /\ p = [page EXCEPT !.pc = "sent"] /\ history' = history
    BY <1>7, <2>2 DEF saveDefinition, restoreVersion, post
  <2>4. /\ p \in Pages /\ p.pc = "sent" /\ p.base = page.base /\ p.fetched = page.fetched
    BY <2>3, <1>a DEF Pages
  <2>5. PageInv(p, write'[Editor], history)
    BY <2>4, <1>a DEF PageInv
  <2> QED  BY <2>1, <2>2, <2>3, <2>5, <1>a, EditorMoves
<1>8. CASE saveFails
  <2>1. PICK p : p = page'
    OBVIOUS
  <2>2. /\ p = [page EXCEPT !.pc = "idle"] /\ history' = history
        /\ write' = [write EXCEPT ![Editor] = NoWrite]
    BY <1>8, <2>1 DEF saveFails, Unchanged
  <2>3. /\ p \in Pages /\ p.pc = "idle" /\ p.base = page.base /\ p.fetched = page.fetched
    BY <2>2, <1>a DEF Pages
  <2>4. write'[Editor] = NoWrite /\ WriteInv(NoWrite, Editor, history)
    BY <2>2, <1>a, NoWriteType DEF WriteInv
  <2>5. PageInv(p, write'[Editor], history)
    BY <2>3, <2>4, <1>a DEF PageInv
  <2> QED  BY <2>1, <2>2, <2>4, <2>5, <1>a, NoWriteType, EditorMoves
<1>9. CASE refetch
  <2>1. PICK p : p = page'
    OBVIOUS
  <2>2. /\ p = [Fetched(page) EXCEPT !.pc = "settle"] \/ p = [page EXCEPT !.pc = "lost"]
        /\ history' = history /\ write' = write /\ write[Editor].got # 0
    BY <1>9, <2>1 DEF refetch, Saved, Unchanged
  <2>3. CASE p = [page EXCEPT !.pc = "lost"]
    <3>1. /\ p \in Pages /\ p.pc = "lost" /\ p.base = page.base /\ p.fetched = page.fetched
      BY <2>3, <1>a DEF Pages
    <3>2. PageInv(p, write[Editor], history)
      BY <3>1, <1>a DEF PageInv
    <3> QED  BY <3>2, <2>1, <2>2, PageMoves
  <2>4. CASE p = [Fetched(page) EXCEPT !.pc = "settle"]
    <3>1. PICK f : f = Fetched(page)
      OBVIOUS
    <3>2. f \in Pages /\ f.fetched = Len(history) /\ PageInv(f, write[Editor], history)
      BY <3>1, FetchedPage
    <3>3. /\ p \in Pages /\ p.pc = "settle" /\ p.base = f.base /\ p.fetched = f.fetched
      BY <3>1, <3>2, <2>4 DEF Pages
    <3>4. write[Editor].got <= Len(history)
      BY <2>2, <1>a DEF WriteInv
    <3>5. PageInv(p, write[Editor], history)
      BY <3>2, <3>3, <3>4, <2>2 DEF PageInv
    <3> QED  BY <3>5, <2>1, <2>2, PageMoves
  <2> QED  BY <2>2, <2>3, <2>4
<1>10. CASE onSuccess
  <2> DEFINE got == write[Editor].got
  <2>1. PICK p : p = page'
    OBVIOUS
  <2>2. /\ p = [page EXCEPT !.pc = "idle", !.editing = FALSE,
                            !.base = got, !.draft = history[got].def]
        /\ history' = history /\ write' = [write EXCEPT ![Editor] = NoWrite]
        /\ page.pc = "settle"
    BY <1>10, <2>1 DEF onSuccess, Unchanged
  <2>3. /\ got # 0 /\ got <= page.fetched /\ got \in 1 .. Len(history)
        /\ history[got].by = Editor
        /\ \A v \in got + 1 .. Len(history) : history[v].by # Editor
    BY <2>2, <1>a DEF PageInv, WriteInv
  <2>4. history[got].def \in Definitions
    BY <2>3, VersionTypes
  <2>a. got \in Nat
    BY <2>3
  <2>d. PICK d \in Definitions : d = history[got].def
    BY <2>4
  <2> HIDE DEF got
  <2>e. p = [page EXCEPT !.pc = "idle", !.editing = FALSE, !.base = got, !.draft = d]
    BY <2>2, <2>d
  <2>5. /\ p \in Pages /\ p.pc = "idle" /\ p.base = got /\ p.fetched = page.fetched
    BY <2>e, <2>a, <1>a DEF Pages
  <2>6. write'[Editor] = NoWrite /\ WriteInv(NoWrite, Editor, history)
    BY <2>2, <1>a, NoWriteType DEF WriteInv
  <2>7. got # page.fetched =>
          got < page.fetched /\ \E v \in got + 1 .. page.fetched : history[v].by # Editor
    <3> SUFFICES ASSUME got # page.fetched
                 PROVE  /\ got < page.fetched
                        /\ \E v \in got + 1 .. page.fetched : history[v].by # Editor
      OBVIOUS
    <3>1. got < page.fetched /\ got + 1 \in got + 1 .. page.fetched
      BY <2>3, <1>a
    <3>2. got + 1 \in got + 1 .. Len(history)
      BY <3>1, <2>3, <1>a
    <3> QED  BY <3>1, <3>2, <2>3
  <2>8. PageInv(p, write'[Editor], history)
    BY <2>3, <2>5, <2>6, <2>7, <1>a DEF PageInv
  <2> QED  BY <2>1, <2>2, <2>6, <2>8, <1>a, NoWriteType, EditorMoves
<1>11. CASE onSuccessThenEffect
  <2>1. PICK p : p = page'
    OBVIOUS
  <2>2. /\ p = [Fetched(page) EXCEPT !.pc = "idle", !.editing = FALSE]
        /\ history' = history /\ write' = [write EXCEPT ![Editor] = NoWrite]
    BY <1>11, <2>1 DEF onSuccessThenEffect, Unchanged
  <2>3. PICK f : f = Fetched(page)
    OBVIOUS
  <2>4. f \in Pages /\ PageInv(f, write[Editor], history)
    BY <2>3, FetchedPage
  <2>5. /\ p \in Pages /\ p.pc = "idle" /\ p.base = f.base /\ p.fetched = f.fetched
    BY <2>2, <2>3, <2>4 DEF Pages
  <2>6. write'[Editor] = NoWrite /\ WriteInv(NoWrite, Editor, history)
    BY <2>2, <1>a, NoWriteType DEF WriteInv
  <2>7. PageInv(p, write'[Editor], history)
    BY <2>4, <2>5, <2>6 DEF PageInv
  <2> QED  BY <2>1, <2>2, <2>6, <2>7, <1>a, NoWriteType, EditorMoves
<1>12. CASE discardDraft
  <2>1. PICK p : p = page'
    OBVIOUS
  <2>2. /\ p = [page EXCEPT !.editing = FALSE, !.base = page.fetched,
                            !.draft = history[page.fetched].def]
        /\ history' = history /\ write' = write
    BY <1>12, <2>1 DEF discardDraft, Unchanged
  <2>3. history[page.fetched].def \in Definitions
    BY <1>a, VersionTypes
  <2>4. /\ p \in Pages /\ p.pc = page.pc /\ p.base = page.fetched
        /\ p.fetched = page.fetched
    BY <2>2, <2>3, <1>a DEF Pages
  <2>5. PageInv(p, write[Editor], history)
    BY <2>4, <1>a DEF PageInv
  <2> QED  BY <2>1, <2>2, <2>5, PageMoves
<1>13. CASE saveMetadata
  <2>1. PICK p : p = page'
    OBVIOUS
  <2>2. p = Fetched(page) /\ history' = history /\ write' = write
    BY <1>13, <2>1 DEF saveMetadata, Unchanged
  <2>3. PageInv(p, write[Editor], history)
    BY <2>2, FetchedPage
  <2> QED  BY <2>1, <2>2, <2>3, PageMoves
<1>14. CASE runWorkflow
  <2>1. PICK p : p = page'
    OBVIOUS
  <2>2. PICK v \in {page.fetched, Len(history)} : p = Loaded(v, page.role)
    BY <1>14, <2>1 DEF runWorkflow
  <2>3. history' = history /\ write' = write /\ page.pc = "idle"
    BY <1>14 DEF runWorkflow, Unchanged
  <2>4. v \in 1 .. Len(history) /\ history[v].def \in Definitions /\ page.role \in Roles
    BY <1>a, VersionTypes DEF Pages
  <2>5. /\ p \in Pages /\ p.pc = "idle" /\ p.base = v /\ p.fetched = v
    BY <2>2, <2>4 DEF Loaded, Pages
  <2>6. PageInv(p, write[Editor], history)
    BY <2>3, <2>4, <2>5, <1>a DEF PageInv
  <2> QED  BY <2>1, <2>3, <2>6, PageMoves
<1> QED  BY <1>1, <1>2, <1>3, <1>4, <1>5, <1>6, <1>7, <1>8, <1>9, <1>10, <1>11, <1>12,
            <1>13, <1>14 DEF PageNext

LEMMA EditorInvHolds == Spec => []EditorInv
<1>1. Init => EditorInv
  BY EditorInitInv
<1>2. EditorInv /\ [Next]_vars => EditorInv'
  <2> SUFFICES ASSUME EditorInv, [Next]_vars  PROVE EditorInv'
    OBVIOUS
  <2>1. CASE UNCHANGED <<history, write, page>>
    BY <2>1 DEF EditorInv, WriteInv, PageInv
  <2> QED  BY <2>1, ApiInv, PageStepInv DEF Next, vars
<1> QED  BY <1>1, <1>2, PTL DEF Spec

\* The draft was taken from the version the page shows, or lags behind it
\* because somebody else stored a version while the page's save was answered
\* (workflow-detail-page.tsx).
THEOREM DraftBelongsToShownHolds == Spec => []DraftBelongsToShown
<1>1. EditorInv => DraftBelongsToShown
  BY DEF EditorInv, PageInv, DraftBelongsToShown
<1> QED  BY <1>1, EditorInvHolds, PTL

\* Stored versions are never changed or removed, however many writers overlap
\* (workflows.service.ts, createVersion and restoreVersion).
THEOREM VersionsKeptHolds == Spec => VersionsKept
<1> DEFINE Step == /\ Len(history) <= Len(history')
                   /\ \A v \in DOMAIN history : history'[v] = history[v]
<1>1. EditorInv /\ [Next]_vars => [Step]_vars
  <2> SUFFICES ASSUME EditorInv, [Next]_vars  PROVE Step
    OBVIOUS
  <2>a. history \in Seq(Versions) /\ Len(history) \in Nat
    BY DEF EditorInv
  <2>1. CASE history' = history
    BY <2>1, <2>a
  <2>2. CASE PageNext
    BY <2>1, <2>2 DEF PageNext, startEditing, addNode, deleteNode, handleNodesChange,
       handleEdgesChange, handleConnect, deleteEdge, updateSelectedEdge, Draft,
       saveDefinition, restoreVersion, post, saveFails, refetch, onSuccess,
       onSuccessThenEffect, discardDraft, saveMetadata, runWorkflow, Unchanged
  <2>3. ASSUME NEW u \in Users, insertVersion(u)  PROVE Step
    <3>1. CASE \E v \in Versions : history' = Append(history, v)
      <4>1. PICK v \in Versions : history' = Append(history, v)
        BY <3>1
      <4> QED  BY <4>1, <2>a
    <3>2. [def |-> write[u].def, by |-> u] \in Versions
      BY DEF EditorInv, Writes, Versions
    <3> QED  BY <2>1, <2>3, <3>1, <3>2 DEF insertVersion
  <2>4. CASE ApiNext
    BY <2>1, <2>3, <2>4 DEF ApiNext, post, findCurrent, answer
  <2>5. CASE UNCHANGED vars
    BY <2>1, <2>5 DEF vars
  <2> HIDE DEF Step
  <2> QED  BY <2>1, <2>2, <2>4, <2>5 DEF Next
<1>2. Spec => [][Step]_vars
  BY <1>1, EditorInvHolds, PTL DEF Spec
<1> QED  BY <1>2 DEF VersionsKept
-----------------------------------------------------------------------------
(* Types *)

TokensType == tokens \in [issued : Nat, expired : SUBSET Nat]

\* Tokens are numbered as they are issued, and what expires is such a number.
LEMMA TokensTypeHolds == Spec => []TokensType
<1>1. Init => TokensType
  BY DEF Init, SessionInit, TokensType
<1>2. SessionInv /\ TokensType /\ [Next]_vars => TokensType'
  <2> SUFFICES ASSUME SessionInv, TokensType, [Next]_vars  PROVE TokensType'
    OBVIOUS
  <2>1. CASE tokens' = tokens
    BY <2>1 DEF TokensType
  <2>2. ASSUME NEW u \in Users, Issue(u)  PROVE TokensType'
    BY <2>2 DEF Issue, TokensType
  <2>3. CASE expire
    <3>1. browser.storage.n \in Nat
      BY DEF SessionInv, TabInv, Tabs, Tokens
    <3> QED  BY <2>3, <3>1 DEF expire, TokensType
  <2>4. ASSUME NEW p \in Passwords, NEW u \in Users, registerRead(p, u)  PROVE TokensType'
    BY <2>1, <2>4 DEF registerRead
  <2>5. ASSUME NEW p \in Passwords, register(p)  PROVE TokensType'
    BY <2>1, <2>5 DEF register
  <2>6. ASSUME NEW u \in Users, signIn(u)  PROVE TokensType'
    BY <2>2, <2>6 DEF signIn
  <2>7. CASE signOut \/ send("me") \/ send("page")
    BY <2>1, <2>7 DEF signOut, send
  <2>8. CASE otherTab
    <3>1. (\E u \in Users : Issue(u)) \/ tokens' = tokens
      BY <2>8, Zenon DEF otherTab
    <3> QED  BY <2>1, <2>2, <3>1
  <2>9. ASSUME NEW r \in browser.requests, apiRequest(r)  PROVE TokensType'
    <3>1. tokens' = tokens
      BY <2>9 DEF apiRequest
    <3> QED  BY <2>1, <3>1
  <2> QED  BY <2>1, <2>3, <2>4, <2>5, <2>6, <2>7, <2>8, <2>9, TabSteps DEF SessionNext
<1> QED  BY <1>1, <1>2, SessionInvHolds, PTL DEF Spec

\* Every variable has its type, and the page has a request under way exactly
\* while it waits for one (WorkspacesService, AuthService, WorkflowsService and
\* the pages of the web client).
THEOREM TypeOKHolds == Spec => []TypeOK
<1>1. MembersInv /\ SignupInv /\ BudgetInv /\ SessionInv /\ TokensType /\ EditorInv => TypeOK
  <2> SUFFICES ASSUME MembersInv, SignupInv, BudgetInv, SessionInv, TokensType, EditorInv
               PROVE  TypeOK
    OBVIOUS
  <2>1. MembersTypeOK
    BY DEF MembersTypeOK, MembersInv, MembersTypes, SignupInv, BudgetInv
  <2>2. SessionTypeOK
    BY DEF SessionTypeOK, SignupInv, TokensType, SessionInv, TabInv, Tabs
  <2>3. history \in Seq(Versions) /\ history # <<>> /\ DOMAIN history = 1 .. Len(history)
    BY DEF EditorInv
  <2>4. /\ page \in Pages /\ page.fetched \in DOMAIN history /\ page.base \in DOMAIN history
        /\ page.pc = "idle" => write[Editor] = NoWrite
    BY <2>3 DEF EditorInv, PageInv
  <2>5. page \in [pc : {"idle", "sent", "settle", "lost"}, editing : BOOLEAN,
                  fetched : DOMAIN history, base : DOMAIN history, draft : Definitions,
                  role : WorkspaceRole \cup {NoRole}]
    BY <2>4 DEF Pages, Roles
  <2>6. write \in [Users -> Writes]
    BY DEF EditorInv
  <2> QED  BY <2>1, <2>2, <2>3, <2>4, <2>5, <2>6 DEF TypeOK
<1> QED  BY <1>1, MembersInvHolds, SignupInvHolds, BudgetInvHolds, SessionInvHolds,
            TokensTypeHolds, EditorInvHolds, PTL

-----------------------------------------------------------------------------
(* What is stored has been checked *)

\* Every stored version has passed the schema, and so has what a request is
\* about to store: the body of a new version by the validation pipe, that of a
\* restored one because it is a stored version.
RequestValid(w) ==
  /\ w.pc \in {"read", "insert"} => w.op \in {"create", "restore"}
  /\ w.pc = "read" /\ w.op = "create" => w.def \in ValidDefinitions
  /\ w.pc = "insert" => w.def \in ValidDefinitions

StoredInv ==
  /\ \A v \in 1 .. Len(history) : history[v].def \in ValidDefinitions
  /\ \A u \in Users : RequestValid(write[u])

\* A definition the schema accepts is one of the bodies the API lets through.
LEMMA SchemaValid ==
  ASSUME NEW d \in Definitions, workflowDefinitionSchema(d)
  PROVE  d \in ValidDefinitions
<1>1. d = [nodes |-> d.nodes, edges |-> d.edges]
  BY DEF Definitions
<1> QED  BY <1>1 DEF ValidDefinitions

\* A step that stores nothing and moves at most one request.
LEMMA RequestMoves ==
  ASSUME EditorInv, StoredInv, history' = history, NEW u \in Users, NEW w,
         write' = [write EXCEPT ![u] = w], RequestValid(w)
  PROVE  StoredInv'
<1>1. write \in [Users -> Writes]
  BY DEF EditorInv
<1>2. ASSUME NEW x \in Users  PROVE RequestValid(write'[x])
  <2>1. CASE x = u
    BY <1>1, <2>1
  <2>2. CASE x # u
    BY <1>1, <2>2 DEF StoredInv
  <2> QED  BY <2>1, <2>2
<1> QED  BY <1>2 DEF StoredInv, RequestValid

\* A new request, accepted or refused.
LEMMA PostStored ==
  ASSUME EditorInv, StoredInv, NEW u \in Users, NEW op \in {"create", "restore"},
         NEW d \in Definitions, NEW from, post(u, op, d, from)
  PROVE  StoredInv'
<1> DEFINE w1 == [NoWrite EXCEPT !.pc = "read", !.op = op, !.def = d, !.from = from]
           w2 == [NoWrite EXCEPT !.pc = "answered"]
<1>1. w1.pc = "read" /\ w1.op = op /\ w1.def = d /\ w2.pc = "answered"
  BY DEF NoWrite
<1>2. \/ write' = [write EXCEPT ![u] = w1] /\ (op = "create" => workflowDefinitionSchema(d))
      \/ write' = [write EXCEPT ![u] = w2]
  BY DEF post
<1>3. history' = history
  BY DEF post
<1> HIDE DEF w1, w2
<1>4. /\ (op = "create" => workflowDefinitionSchema(d)) => RequestValid(w1)
      /\ RequestValid(w2)
  BY <1>1, SchemaValid DEF RequestValid
<1> QED  BY <1>2, <1>3, <1>4, RequestMoves

LEMMA StoredInvHolds == Spec => []StoredInv
<1>1. Init => StoredInv
  <2> SUFFICES ASSUME Init  PROVE StoredInv
    OBVIOUS
  <2>1. PICK d \in FirstVersions : history = <<[def |-> d, by |-> Owner]>>
    BY DEF Init
  <2>2. Len(history) = 1 /\ history[1].def = d /\ d \in ValidDefinitions
    BY <2>1, EditorAssumption
  <2>3. \A u \in Users : write[u].pc = "idle"
    <3>1. write = [u \in Users |-> NoWrite]
      BY DEF Init
    <3> QED  BY <3>1, NoWriteType
  <2> QED  BY <2>2, <2>3 DEF StoredInv, RequestValid
<1>2. EditorInv /\ StoredInv /\ [Next]_vars => StoredInv'
  <2> SUFFICES ASSUME EditorInv, StoredInv, [Next]_vars  PROVE StoredInv'
    OBVIOUS
  <2>a. /\ history \in Seq(Versions) /\ Len(history) \in Nat /\ Len(history) >= 1
        /\ write \in [Users -> Writes] /\ page \in Pages /\ Editor \in Users
    BY EditorAssumption DEF EditorInv, PageInv
  <2>b. \A d \in ValidDefinitions : d \in Definitions
    BY DEF ValidDefinitions, Definitions
  <2>c. RequestValid(NoWrite)
    BY NoWriteType DEF RequestValid
  <2>1. CASE UNCHANGED <<history, write>>
    BY <2>1 DEF StoredInv, RequestValid
  <2>2. ASSUME NEW u \in Users,
               \/ \E d \in ValidDefinitions : post(u, "create", d, 0)
               \/ \E v \in 1 .. Len(history) : post(u, "restore", NoWrite.def, v)
        PROVE  StoredInv'
    <3>1. ASSUME NEW d \in ValidDefinitions, post(u, "create", d, 0)  PROVE StoredInv'
      BY <3>1, <2>b, PostStored
    <3>2. ASSUME NEW v, post(u, "restore", NoWrite.def, v)  PROVE StoredInv'
      BY <3>2, NoWriteType, PostStored
    <3> QED  BY <2>2, <3>1, <3>2
  <2>3. ASSUME NEW u \in Users, findCurrent(u)  PROVE StoredInv'
    <3> DEFINE w == [write[u] EXCEPT !.pc = "insert", !.seen = Len(history),
                       !.def = IF write[u].op = "restore"
                               THEN history[write[u].from].def ELSE @]
    <3>1. /\ write' = [write EXCEPT ![u] = w] /\ history' = history
          /\ write[u].pc = "read"
      BY <2>3, <2>a DEF findCurrent, Writes
    <3>2. /\ w.pc = "insert" /\ w.op = write[u].op
          /\ w.def = IF write[u].op = "restore"
                     THEN history[write[u].from].def ELSE write[u].def
      BY <2>a DEF Writes
    <3>3. write[u].op = "restore" => write[u].from \in 1 .. Len(history)
      BY <3>1 DEF EditorInv, WriteInv
    <3>4. RequestValid(write[u])
      BY DEF StoredInv
    <3> HIDE DEF w
    <3>5. w.def \in ValidDefinitions
      BY <3>1, <3>2, <3>3, <3>4 DEF RequestValid, StoredInv
    <3>6. RequestValid(w)
      BY <3>1, <3>2, <3>4, <3>5 DEF RequestValid
    <3> QED  BY <3>1, <3>6, RequestMoves
  <2>4. ASSUME NEW u \in Users, insertVersion(u)  PROVE StoredInv'
    <3>1. PICK w : write' = [write EXCEPT ![u] = w] /\ w.pc = "answered"
      <4> DEFINE w1 == [write[u] EXCEPT !.pc = "answered", !.got = write[u].seen + 1]
                 w2 == [write[u] EXCEPT !.pc = "answered"]
      <4>1. w1.pc = "answered" /\ w2.pc = "answered"
        BY <2>a DEF Writes
      <4>2. write' = [write EXCEPT ![u] = w1] \/ write' = [write EXCEPT ![u] = w2]
        BY <2>4 DEF insertVersion
      <4> QED  BY <4>1, <4>2
    <3>2. RequestValid(w)
      BY <3>1 DEF RequestValid
    <3>3. CASE history' = history
      BY <3>1, <3>2, <3>3, RequestMoves
    <3>4. CASE history' # history
      <4>1. /\ history' = Append(history, [def |-> write[u].def, by |-> u])
            /\ write[u].pc = "insert"
        BY <2>4, <3>4 DEF insertVersion
      <4>2. write[u].def \in ValidDefinitions
        BY <4>1 DEF StoredInv, RequestValid
      <4>3. [def |-> write[u].def, by |-> u] \in Versions
        BY <2>a DEF Writes, Versions
      <4>4. \A v \in 1 .. Len(history') : history'[v].def \in ValidDefinitions
        <5>1. PICK x \in Versions : /\ history' = Append(history, x)
                                    /\ x.def \in ValidDefinitions
          BY <4>1, <4>2, <4>3
        <5>2. /\ Len(history') = Len(history) + 1 /\ history'[Len(history) + 1] = x
              /\ \A v \in 1 .. Len(history) : history'[v] = history[v]
          BY <2>a, <5>1
        <5> QED  BY <2>a, <5>1, <5>2 DEF StoredInv
      <4>5. ASSUME NEW x \in Users  PROVE RequestValid(write'[x])
        <5>1. CASE x = u
          BY <2>a, <3>1, <3>2, <5>1
        <5>2. CASE x # u
          BY <2>a, <3>1, <5>2 DEF StoredInv
        <5> QED  BY <5>1, <5>2
      <4> QED  BY <4>4, <4>5 DEF StoredInv, RequestValid
    <3> QED  BY <3>3, <3>4
  <2>5. ASSUME NEW u \in Users, history' = history,
               write' = [write EXCEPT ![u] = NoWrite]
        PROVE  StoredInv'
    BY <2>5, <2>c, RequestMoves
  <2>6. CASE ApiNext
    BY <2>2, <2>3, <2>4, <2>5, <2>6 DEF ApiNext, answer
  <2>7. CASE saveDefinition
    <3>1. page.draft \in Definitions
      BY <2>a DEF Pages
    <3> QED  BY <2>7, <2>a, <3>1, PostStored DEF saveDefinition
  <2>8. CASE restoreVersion
    BY <2>8, <2>a, NoWriteType, PostStored DEF restoreVersion
  <2>9. CASE saveFails \/ onSuccess \/ onSuccessThenEffect
    BY <2>9, <2>a, <2>5 DEF saveFails, onSuccess, onSuccessThenEffect, Unchanged
  <2>10. CASE \/ startEditing \/ addNode \/ deleteNode \/ handleNodesChange
              \/ handleEdgesChange \/ handleConnect \/ deleteEdge \/ updateSelectedEdge
              \/ refetch \/ discardDraft \/ saveMetadata \/ runWorkflow
    BY <2>1, <2>10 DEF startEditing, addNode, deleteNode, handleNodesChange,
       handleEdgesChange, handleConnect, deleteEdge, updateSelectedEdge, Draft, refetch,
       discardDraft, saveMetadata, runWorkflow, Unchanged
  <2> QED  BY <2>1, <2>6, <2>7, <2>8, <2>9, <2>10 DEF Next, PageNext, vars
<1> QED  BY <1>1, <1>2, EditorInvHolds, PTL DEF Spec

\* However the writers, the restores and the edits of the page interleave, the
\* table holds only versions that the worker can execute and the canvas can
\* lay out: only what the schema accepts is ever stored, and that suffices
\* (OrderingSoundHolds).
THEOREM StoredVersionsRunHolds == Spec => []StoredVersionsRun
<1>1. EditorInv /\ StoredInv => StoredVersionsRun
  <2> SUFFICES ASSUME EditorInv, StoredInv, NEW v \in DOMAIN history
               PROVE  /\ InOrder(history[v].def, orderWorkflowNodes(history[v].def))
                      /\ ~ Hangs(history[v].def)
    BY DEF StoredVersionsRun
  <2>1. history[v].def \in ValidDefinitions
    BY DEF EditorInv, StoredInv
  <2> QED  BY <2>1, OrderingSoundHolds DEF OrderingSound
<1> QED  BY <1>1, EditorInvHolds, StoredInvHolds, PTL

=============================================================================
