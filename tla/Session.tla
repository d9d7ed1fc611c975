-------------------------------- MODULE Session --------------------------------
(***************************************************************************)
(* Logging in and staying logged in: the /auth endpoints, the tokens and   *)
(* the role gate of the API (api/routes_auth.py, api/auth.py, api/rbac.py, *)
(* db/dao_users.py), and the client's token store and fetch wrapper        *)
(* (desktop_client/frontend/src/services/api.js).                          *)
(*                                                                         *)
(* The handlers are coroutines without an await before their answer, so    *)
(* each is one action; a database call may raise at every one of its       *)
(* steps.  Requests of one client overlap, and each waits for the network  *)
(* between its steps.  The client is one window, and a reload drops what   *)
(* it has under way when the page is left, which is some time after it was *)
(* asked for.                                                              *)
(***************************************************************************)
EXTENDS Integers

CONSTANTS
    Users,        \* the names in the users table
    Roles,        \* the roles that occur: admin, operator, auditor
    Paths,        \* the routes called: those any user may call, and an admin's
    Admin,        \* ADMIN_SEED_USERNAME
    Requests,     \* the requests the client can have under way at a time
    AccessLife,   \* JWT_ACCESS_EXPIRE_MINUTES
    RefreshLife,  \* JWT_REFRESH_EXPIRE_DAYS
    MaxTime,      \* bound of the model: the clock
    MaxLogins     \* bound of the model: attempts to log in

ASSUME SessionAssumption ==
    /\ Admin \in Users
    /\ Roles \subseteq {"admin", "operator", "auditor"}
    /\ Paths \subseteq {"any", "admin"}
    /\ AccessLife \in Nat \ {0} /\ RefreshLife \in Nat \ {0}
    /\ MaxTime \in Nat /\ MaxLogins \in Nat

VARIABLES
    clock,
    users,     \* role and is_active of each user; nothing in the code changes them
    lastLogin, \* last_login of each user
    audit,     \* how many LOGIN_SUCCESS and LOGIN_FAILURE rows name each user
    told,      \* ghost: how many logins of each user were answered with yes and with no
    page,      \* what the client shows: the login form, the application, or the
               \* application of a window whose reload has begun
    store,     \* localStorage: the access and the refresh token
    form,      \* the login under way
    req,       \* the requests under way
    out        \* ghost: when the last sign-out was, if no login followed it

server == <<users, lastLogin, audit, told>>
vars == <<clock, server, page, store, form, req, out>>

\* The claims of a token; since, when its login was, is a ghost.  The role in it is
\* only for the client to show.
Token == [type : {"access", "refresh"}, sub : Users, exp : Nat, since : Nat]
None == [type |-> "none"]
MaybeToken == Token \cup {None}
EmptyStore == [access |-> None, refresh |-> None]

NoForm == [at |-> "idle"]
Idle == [at |-> "idle"]

NotOut == -1

Init ==
    /\ clock = 0
    /\ users \in [Users -> [role : Roles, active : {TRUE}]]
    /\ users[Admin].role = "admin"
    /\ lastLogin = [u \in Users |-> 0]
    /\ audit = [u \in Users |-> [yes |-> 0, no |-> 0]]
    /\ told = audit
    /\ page = "login" /\ store = EmptyStore /\ form = NoForm
    /\ req = [r \in Requests |-> Idle]
    /\ out = NotOut

-------------------------------------------------------------------------------
(* Tokens *)

create_access_token(u, since) ==
    [type |-> "access", sub |-> u, exp |-> clock + AccessLife, since |-> since]

create_refresh_token(u) ==
    [type |-> "refresh", sub |-> u, exp |-> clock + RefreshLife, since |-> clock]

\* decode_token and the check of the type.
Valid(t, type) == t.type = type /\ clock < t.exp

\* get_current_user, then require_role on an admin route: the roles of now count.
Answer(path, t) ==
    IF ~Valid(t, "access") \/ ~users[t.sub].active THEN 401
    ELSE IF path = "admin" /\ users[t.sub].role # "admin" THEN 403
    ELSE 200

-------------------------------------------------------------------------------
(* The environment *)

Tick ==
    /\ clock < MaxTime
    /\ clock' = clock + 1
    /\ UNCHANGED <<server, page, store, form, req, out>>

\* An administrator edits the users table by hand.
EditUser ==
    /\ \E u \in Users, role \in Roles, active \in BOOLEAN :
          users' = [users EXCEPT ![u] = [role |-> role, active |-> active]]
    /\ UNCHANGED <<clock, lastLogin, audit, told, page, store, form, req, out>>

-------------------------------------------------------------------------------
(* Logging in *)

SubmitLogin(u, right) ==
    /\ page = "login" /\ form.at = "idle"
    /\ told[u].yes + told[u].no < MaxLogins
    /\ form' = [at |-> "sent", user |-> u, right |-> right]
    /\ UNCHANGED <<clock, server, page, store, req, out>>

Refused == [at |-> "answered", yes |-> FALSE]

\* A wrong password, or an account that is not active: audited, then refused.
RejectLogin ==
    /\ form.at = "sent"
    /\ ~(form.right /\ users[form.user].active)
    /\ audit' = [audit EXCEPT ![form.user].no = @ + 1]
    /\ told' = [told EXCEPT ![form.user].no = @ + 1]
    /\ form' = Refused
    /\ UNCHANGED <<clock, users, lastLogin, page, store, req, out>>

\* Mutant: the answer does not wait for the audit row.
MutUnaudited ==
    /\ form.at = "sent" /\ form.right /\ users[form.user].active
    /\ lastLogin' = [lastLogin EXCEPT ![form.user] = clock]
    /\ audit' \in {audit, [audit EXCEPT ![form.user].yes = @ + 1]}
    /\ told' = [told EXCEPT ![form.user].yes = @ + 1]
    /\ form' = [at |-> "answered", yes |-> TRUE,
                access |-> create_access_token(form.user, clock),
                refresh |-> create_refresh_token(form.user)]
    /\ UNCHANGED <<clock, users, page, store, req, out>>

AcceptLogin ==
    /\ form.at = "sent" /\ form.right /\ users[form.user].active
    /\ lastLogin' = [lastLogin EXCEPT ![form.user] = clock]
    /\ audit' = [audit EXCEPT ![form.user].yes = @ + 1]
    /\ told' = [told EXCEPT ![form.user].yes = @ + 1]
    /\ form' = [at |-> "answered", yes |-> TRUE,
                access |-> create_access_token(form.user, clock),
                refresh |-> create_refresh_token(form.user)]
    /\ UNCHANGED <<clock, users, page, store, req, out>>

\* A database call raises (or the rate limit refuses): the last_login may have been
\* written before the audit row was not.
LoginRaises ==
    /\ form.at = "sent"
    /\ lastLogin' \in {lastLogin} \cup
          (IF form.right /\ users[form.user].active
           THEN {[lastLogin EXCEPT ![form.user] = clock]} ELSE {})
    /\ form' = Refused
    /\ UNCHANGED <<clock, users, audit, told, page, store, req, out>>

ReceiveLogin ==
    /\ form.at = "answered"
    /\ IF form.yes
       THEN /\ store' = [access |-> form.access, refresh |-> form.refresh]
            /\ page' = "app"
            /\ out' = NotOut
       ELSE UNCHANGED <<store, page, out>>
    /\ form' = NoForm
    /\ UNCHANGED <<clock, server, req>>

-------------------------------------------------------------------------------
(* authFetch *)

\* waitForApi returns at once; getHeaders has the access token of now, if any.  A page
\* that is being left still runs.
Send(r, path) ==
    /\ page # "login" /\ req[r].at \in {"idle", "done"}
    /\ req' = [req EXCEPT ![r] = [at |-> "sent", path |-> path, auth |-> store.access,
                                  retried |-> FALSE]]
    /\ UNCHANGED <<clock, server, page, store, form, out>>

\* The route answers, or it raises or the rate limit refuses: 500 stands for both.
Serve(r) ==
    /\ req[r].at = "sent"
    /\ \E code \in {Answer(req[r].path, req[r].auth), 500} :
          req' = [req EXCEPT ![r] = [at |-> "answered", path |-> req[r].path,
                                     auth |-> req[r].auth, retried |-> req[r].retried,
                                     code |-> code]]
    /\ UNCHANGED <<clock, server, page, store, form, out>>

Finished(r, code) == [at |-> "done", retried |-> req[r].retried, code |-> code]

Refreshing(r) == [at |-> "refreshing", path |-> req[r].path, auth |-> req[r].auth,
                  body |-> store.refresh]

\* Mutant: the retry's 401 is refreshed too.
MutRefreshForever(r) ==
    /\ req[r].at = "answered"
    /\ req' = [req EXCEPT ![r] =
                  IF req[r].code = 401 /\ store.refresh # None
                  THEN Refreshing(r) ELSE Finished(r, req[r].code)]
    /\ UNCHANGED <<clock, server, page, store, form, out>>

\* A 401 of the first attempt is refreshed, once, if there is a refresh token.
Receive(r) ==
    /\ req[r].at = "answered"
    /\ req' = [req EXCEPT ![r] =
                  IF req[r].code = 401 /\ ~req[r].retried /\ store.refresh # None
                  THEN Refreshing(r) ELSE Finished(r, req[r].code)]
    /\ UNCHANGED <<clock, server, page, store, form, out>>

Refreshed(r, token, fresh) ==
    [at |-> "refreshed", path |-> req[r].path, auth |-> req[r].auth, token |-> token,
     fresh |-> fresh]

\* Mutant: the answer renews the refresh token too.
MutSlidingRefresh(r) ==
    /\ req[r].at = "refreshing"
    /\ LET body == req[r].body
           granted == Valid(body, "refresh") /\ users[body.sub].active
       IN  \E ok \in {granted, FALSE} :
              req' = [req EXCEPT ![r] =
                  IF ok THEN Refreshed(r, create_access_token(body.sub, body.since),
                                       [create_refresh_token(body.sub) EXCEPT !.since = body.since])
                        ELSE Refreshed(r, None, None)]
    /\ UNCHANGED <<clock, server, page, store, form, out>>

\* POST /auth/refresh: a new access token and no new refresh token, or a refusal, a
\* failure or the rate limit.
ServeRefresh(r) ==
    /\ req[r].at = "refreshing"
    /\ LET body == req[r].body
           granted == Valid(body, "refresh") /\ users[body.sub].active
       IN  \E ok \in {granted, FALSE} :
              req' = [req EXCEPT ![r] =
                  IF ok THEN Refreshed(r, create_access_token(body.sub, body.since), None)
                        ELSE Refreshed(r, None, None)]
    /\ UNCHANGED <<clock, server, page, store, form, out>>

\* The headers of the retry: the new ones under those of the first attempt, so that
\* the old Authorization, if there was one, stays.
RetryAuth(r, access) == IF req[r].auth # None THEN req[r].auth ELSE access

Unauthorized == [at |-> "done", retried |-> FALSE, code |-> 401]

\* refreshAccessToken goes on: an answer that is not ok clears the store and the 401
\* stands; else the token is stored and the request sent again.
ReceiveRefresh(r) ==
    /\ req[r].at = "refreshed"
    /\ IF req[r].token = None
       THEN /\ store' = EmptyStore
            /\ req' = [req EXCEPT ![r] = Unauthorized]
       ELSE /\ store' = [access |-> req[r].token,
                         refresh |-> IF req[r].fresh # None THEN req[r].fresh
                                     ELSE store.refresh]
            /\ req' = [req EXCEPT ![r] = [at |-> "sent", path |-> req[r].path, retried |-> TRUE,
                                          auth |-> RetryAuth(r, req[r].token)]]
    /\ UNCHANGED <<clock, server, page, form, out>>

\* The fetch or the reading of its answer is rejected: nothing is stored or cleared,
\* and the 401 stands.
RefreshLost(r) ==
    /\ req[r].at \in {"refreshing", "refreshed"}
    /\ req' = [req EXCEPT ![r] = Unauthorized]
    /\ UNCHANGED <<clock, server, page, store, form, out>>

-------------------------------------------------------------------------------
(* Leaving *)

\* Mutant: the page is not loaded again.
MutNoReload ==
    /\ page # "login"
    /\ store' = EmptyStore
    /\ page' = "login"
    /\ out' = clock
    /\ UNCHANGED <<clock, server, form, req>>

\* The logout button: the tokens are removed and a reload is asked for.  The requests
\* under way go on until the page is left.
Logout ==
    /\ page # "login"
    /\ store' = EmptyStore
    /\ page' = "leaving"
    /\ out' = clock
    /\ UNCHANGED <<clock, server, form, req>>

\* The page is left, by the logout's reload or because the window is closed or loaded
\* again; the tokens stay.
Reload ==
    /\ page' = IF store.access # None THEN "app" ELSE "login"
    /\ form' = NoForm
    /\ req' = [r \in Requests |-> Idle]
    /\ out' = IF page = "leaving" THEN clock ELSE out
    /\ UNCHANGED <<clock, server, store>>

Login == \/ \E u \in Users, right \in BOOLEAN : SubmitLogin(u, right)
         \/ RejectLogin \/ AcceptLogin \/ LoginRaises \/ ReceiveLogin

Fetch(r) == \/ Serve(r) \/ Receive(r)
            \/ ServeRefresh(r) \/ ReceiveRefresh(r) \/ RefreshLost(r)

Next == \/ Tick \/ EditUser \/ Login \/ Logout \/ Reload
        \/ \E r \in Requests : Fetch(r) \/ \E path \in Paths : Send(r, path)

\* The server handles what arrives, the network delivers or fails, and the client's
\* continuations run: no request waits for ever on its own step.
Fairness == \A r \in Requests : WF_vars(Fetch(r))

Spec == Init /\ [][Next]_vars /\ Fairness

-------------------------------------------------------------------------------
(* Properties *)

Account == [role : Roles, active : BOOLEAN]
Count == [yes : Nat, no : Nat]

Forms == {NoForm, Refused}
    \cup [at : {"sent"}, user : Users, right : BOOLEAN]
    \cup [at : {"answered"}, yes : {TRUE}, access : Token, refresh : Token]
Codes == {200, 401, 403, 500}
RequestStates == {Idle}
    \cup [at : {"sent"}, path : Paths, auth : MaybeToken, retried : BOOLEAN]
    \cup [at : {"answered"}, path : Paths, auth : MaybeToken, retried : BOOLEAN, code : Codes]
    \cup [at : {"refreshing"}, path : Paths, auth : MaybeToken, body : Token]
    \cup [at : {"refreshed"}, path : Paths, auth : MaybeToken, token : MaybeToken,
          fresh : MaybeToken]
    \cup [at : {"done"}, retried : BOOLEAN, code : Codes]

TypeOK ==
    /\ clock \in Nat
    /\ users \in [Users -> Account]
    /\ lastLogin \in [Users -> Nat]
    /\ audit \in [Users -> Count] /\ told \in [Users -> Count]
    /\ page \in {"login", "app", "leaving"}
    /\ store \in [access : MaybeToken, refresh : MaybeToken]
    /\ form \in Forms
    /\ req \in [Requests -> RequestStates]
    /\ out \in Nat \cup {NotOut}

\* Every answer to a login has its row in the audit log, whatever failed on the way
\* ("so the audit trail is always written"), and who holds a token of a login is
\* recorded as logged in then or later.
LoginsAreAudited ==
    /\ \A u \in Users : told[u].yes <= audit[u].yes /\ told[u].no <= audit[u].no
    /\ store.refresh # None => /\ audit[store.refresh.sub].yes > 0
                               /\ lastLogin[store.refresh.sub] >= store.refresh.since

\* No token is good for longer after its login than the refresh token's life and one
\* access token's, however often and in whatever order the client refreshes.
SessionBounded ==
    \A t \in {store.access, store.refresh} :
        t # None => t.exp <= t.since + RefreshLife + AccessLife

\* What a refresh that was under way at a sign-out can undo is bounded: the window never
\* gets a refresh token back, nothing is refreshed once the page is left, and an access
\* token it was answered with meanwhile is good for one AccessLife at most.
SignOutIsBounded ==
    out # NotOut =>
        /\ store.refresh = None
        /\ page # "leaving" =>
              /\ \A r \in Requests : req[r].at \notin {"refreshing", "refreshed"}
              /\ store.access # None => store.access.exp <= out + AccessLife

\* A request is always settled, with one retry at most.
RequestSettles == \A r \in Requests : req[r].at = "sent" ~> req[r].at \in {"idle", "done"}

=============================================================================
