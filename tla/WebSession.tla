------------------------------ MODULE WebSession ------------------------------
(* Accounts (api/src/modules/auth) and the session of one browser tab            *)
(* (web/src/features/auth, web/src/shared/api/http.ts): the token it keeps in    *)
(* local storage, which it shares with the browser's other tabs, its own copy of *)
(* the token, the cache of what its queries returned and the requests it has     *)
(* under way.  What the query library does is taken from its documentation:      *)
(* clearing the cache drops its data and the answers still to come.              *)
EXTENDS WorkspaceMembers

VARIABLES signup,   \* per password: the registration that would set it
          tokens,   \* tokens issued so far, and those that have expired
          browser   \* storage, and the tab

sessionVars == <<signup, tokens, browser>>

NoToken == [user |-> Owner, n |-> 0]
Tokens  == [user : Users, n : Nat]
NoSignup == [pc |-> "idle", user |-> Owner, seen |-> "none"]

\* A request carries the token that was stored when it was sent; "dropped" once
\* nobody waits for its answer.
Requests == [kind : {"me", "page", "dropped"}, token : Tokens]

SessionTypeOK ==
  /\ signup \in [Passwords -> [pc : {"idle", "write"}, user : Users, seen : Accounts]]
  /\ tokens \in [issued : Nat, expired : SUBSET Nat]
  /\ browser \in [storage : Tokens, token : Tokens, cache : SUBSET Users,
                  requests : SUBSET Requests, notice : BOOLEAN, foreign : BOOLEAN]

SessionInit ==
  /\ signup = [p \in Passwords |-> NoSignup]
  /\ tokens = [issued |-> 0, expired |-> {}]
  /\ browser = [storage |-> NoToken, token |-> NoToken, cache |-> {}, requests |-> {},
                notice |-> FALSE, foreign |-> FALSE]

Registered(u) == account[u] \in Passwords

\* The members and the page of another browser are left alone.
Elsewhere == UNCHANGED <<member, call>>

--------------------------------------------------------------------------------
(* AuthService.register *)

\* Mutant: the account is not looked at for a password.
registerRead_Unchecked(p, u) ==
  /\ signup[p].pc = "idle" /\ \A w \in Users : account[w] # p
  /\ Spend("sessions")
  /\ signup' = [signup EXCEPT ![p] = [pc |-> "write", user |-> u, seen |-> account[u]]]
  /\ Elsewhere /\ UNCHANGED <<account, tokens, browser>>

\* findUnique: an account with a password is a conflict.
registerRead(p, u) ==
  /\ signup[p].pc = "idle" /\ \A w \in Users : account[w] # p
  /\ ~ Registered(u)
  /\ Spend("sessions")
  /\ signup' = [signup EXCEPT ![p] = [pc |-> "write", user |-> u, seen |-> account[u]]]
  /\ Elsewhere /\ UNCHANGED <<account, tokens, browser>>

\* An account that was not there is created, which fails if it is by now; one
\* that was there is updated by its id.
register(p) ==
  LET s == signup[p]
  IN  /\ s.pc = "write"
      /\ account' = IF s.seen = "none" /\ account[s.user] # "none" THEN account
                    ELSE [account EXCEPT ![s.user] = p]
      /\ signup' = [signup EXCEPT ![p] = NoSignup]
      /\ Elsewhere /\ UNCHANGED <<budget, tokens, browser>>

--------------------------------------------------------------------------------
(* AuthProvider *)

NextToken(u) == [user |-> u, n |-> tokens.issued + 1]

Issue(u) == /\ Registered(u)
            /\ tokens' = [tokens EXCEPT !.issued = @ + 1]

\* queryClient.clear
Cleared(b) ==
  [b EXCEPT !.cache = {}, !.foreign = FALSE,
            !.requests = {[r EXCEPT !.kind = "dropped"] : r \in b.requests}]

\* The login page, which is shown while the tab has no token.
signIn(u) ==
  /\ browser.token = NoToken /\ Issue(u)
  /\ Spend("sessions")
  /\ browser' = [browser EXCEPT !.storage = NextToken(u), !.token = NextToken(u),
                                !.notice = FALSE]
  /\ Elsewhere /\ UNCHANGED <<account, signup>>

\* Mutant: the cache is left to the next user.
signOut_KeepsCache ==
  /\ browser.token # NoToken
  /\ Spend("sessions")
  /\ browser' = [browser EXCEPT !.storage = NoToken, !.token = NoToken, !.notice = FALSE]
  /\ Elsewhere /\ UNCHANGED <<account, signup, tokens>>

signOut ==
  /\ browser.token # NoToken
  /\ Spend("sessions")
  /\ browser' = [Cleared(browser) EXCEPT !.storage = NoToken, !.token = NoToken,
                                         !.notice = FALSE]
  /\ Elsewhere /\ UNCHANGED <<account, signup, tokens>>

expireSession(b) == [Cleared(b) EXCEPT !.storage = NoToken, !.token = NoToken]

\* Another tab signs in or out: this one shares the storage, and is not told.
otherTab ==
  /\ Spend("sessions")
  /\ \/ \E u \in Users : /\ browser.storage = NoToken /\ Issue(u)
                         /\ browser' = [browser EXCEPT !.storage = NextToken(u),
                                                       !.foreign = TRUE]
     \/ /\ browser.storage # NoToken /\ UNCHANGED tokens
        /\ browser' = [browser EXCEPT !.storage = NoToken, !.foreign = TRUE]
  /\ Elsewhere /\ UNCHANGED <<account, signup>>

\* The token that is stored reaches the end of its life.
expire ==
  /\ browser.storage # NoToken /\ browser.storage.n \notin tokens.expired
  /\ Spend("sessions")
  /\ tokens' = [tokens EXCEPT !.expired = @ \cup {browser.storage.n}]
  /\ Elsewhere /\ UNCHANGED <<account, signup, browser>>

--------------------------------------------------------------------------------
(* apiRequest *)

\* ProtectedRoute shows pages only to a tab with a token.
send(kind) ==
  /\ browser.token # NoToken
  /\ Spend("sessions")
  /\ browser' = [browser EXCEPT !.requests =
                   @ \cup {[kind |-> kind, token |-> browser.storage]}]
  /\ Elsewhere /\ UNCHANGED <<account, signup, tokens>>

\* JwtAuthGuard; the pages of the workspace are behind WorkspaceRolesGuard too.
Status(r) ==
  IF r.token = NoToken \/ r.token.n \in tokens.expired THEN 401
  ELSE IF r.kind = "page" /\ ~ canActivate(r.token.user, ReadRoutes) THEN 403 ELSE 200

\* Mutant: every refusal ends the session.
Ends_Any(r) == Status(r) # 200

\* notifySessionExpired, for a request that had a token; and the effect on the
\* error of the query for the user, whatever it had.
Ends(r) == Status(r) = 401 /\ (r.token # NoToken \/ r.kind = "me")

\* The answer.  A dropped request returns no data, but it still ends the session.
apiRequest(r) ==
  LET done == [browser EXCEPT !.requests = @ \ {r}]
  IN  /\ r \in browser.requests
      /\ browser' = IF Ends(r) THEN [expireSession(done) EXCEPT !.notice = r.token # NoToken]
                    ELSE IF Status(r) = 200 /\ r.kind # "dropped"
                         THEN [done EXCEPT !.cache = @ \cup {r.token.user}]
                         ELSE done
      /\ Elsewhere /\ UNCHANGED <<account, budget, signup, tokens>>

SessionNext ==
  \/ \E p \in Passwords, u \in Users : registerRead(p, u)
  \/ \E p \in Passwords : register(p)
  \/ \E u \in Users : signIn(u)
  \/ signOut \/ otherTab \/ expire
  \/ send("me") \/ send("page")
  \/ \E r \in browser.requests : apiRequest(r)

--------------------------------------------------------------------------------
\* What a tab shows was returned to the user who is signed in on it, never to
\* one who signed in before (AuthProvider clears the cache when a session ends,
\* and an answer that is still to come goes nowhere).  Only another tab that
\* signs in or out meanwhile can change whose data the requests return.
CacheBelongsToUser ==
  ~ browser.foreign =>
    browser.cache \subseteq (IF browser.token = NoToken THEN {} ELSE {browser.token.user})

\* A session that its user does not end is ended by an answer 401, so by a token
\* that is no longer valid; and when it is not the session's own token, the
\* request was sent in an earlier session and its answer is late (http.ts does
\* not compare the token it sent with the one that is stored).
SessionEndsByExpiry ==
  [][browser.token # NoToken /\ browser'.token = NoToken /\ budget' = budget =>
       \E r \in browser.requests \ browser'.requests :
         /\ r.token = NoToken \/ r.token.n \in tokens.expired
         /\ r.token = browser.token \/ r.token.n < browser.token.n \/ browser.foreign
    ]_<<members, budget, sessionVars>>

\* Registering never takes an account from whoever has registered it, except in
\* one race: both found the account as addMember had made it, without a password
\* (register then updates by id; for a new account the unique email decides).
PasswordKept ==
  [][\A u \in Users, p \in Passwords :
       account[u] = p /\ account'[u] # p =>
         \E q \in Passwords \ {p} : /\ account'[u] = q
                                    /\ signup[q].user = u /\ signup[q].seen = "invited"
    ]_<<members, budget, sessionVars>>
================================================================================
