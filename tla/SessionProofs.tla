---------------------------- MODULE SessionProofs -----------------------------
(***************************************************************************)
(* What logging in promises for any users, lifetimes and number of         *)
(* overlapping requests, proved from one inductive invariant.              *)
(***************************************************************************)
EXTENDS Session, TLAPS

-------------------------------------------------------------------------------
(* The inductive invariant *)

\* A token ends with its session: a refresh token is made at the login, an access token
\* at the login or while the refresh token lasts.
Bounded(t) ==
    /\ t.type = "refresh" => t.exp <= t.since + RefreshLife
    /\ t.exp <= t.since + RefreshLife + AccessLife

\* The login a token stems from is on record.
Recorded(t) == audit[t.sub].yes > 0 /\ lastLogin[t.sub] >= t.since

\* No login is in the future.
LoginsPast == \A u \in Users : lastLogin[u] <= clock

\* An access token is made with one AccessLife to go, so none has more than that left.
Short(t) == t.exp <= clock + AccessLife

StoreInv ==
    /\ \A t \in {store.access, store.refresh} : t # None => Bounded(t)
    /\ store.access # None => Short(store.access)

FormInv == form.at = "answered" /\ form.yes =>
               /\ Bounded(form.access) /\ Short(form.access)
               /\ Bounded(form.refresh) /\ Recorded(form.refresh)

RequestInv ==
    \A r \in Requests :
        /\ req[r].at = "refreshing" => Bounded(req[r].body)
        /\ req[r].at = "refreshed" =>
              /\ req[r].fresh = None
              /\ req[r].token # None => Bounded(req[r].token) /\ Short(req[r].token)

\* The login form is shown only by a page without requests.
PageInv == page = "login" => \A r \in Requests : req[r].at = "idle"

\* A page that is being left was signed out, and nobody logs in on it.
LeavingInv ==
    /\ page = "leaving" => out # NotOut
    /\ form.at # "idle" => page = "login"

AuditInv ==
    /\ LoginsPast
    /\ \A u \in Users : told[u].yes <= audit[u].yes /\ told[u].no <= audit[u].no
    /\ store.refresh # None => Recorded(store.refresh)

\* What SignOutIsBounded says is inductive with them: a token stored while the page is
\* being left has one AccessLife to go from when it is left, at most.
IInv == /\ TypeOK /\ StoreInv /\ FormInv /\ RequestInv /\ PageInv
           /\ LeavingInv /\ AuditInv /\ SignOutIsBounded

-------------------------------------------------------------------------------
(* Records *)

LEMMA NoneIsNoToken == None \notin Token /\ EmptyStore \in [access : MaybeToken, refresh : MaybeToken]
  BY DEF None, Token, EmptyStore, MaybeToken

\* The tokens the server makes.
LEMMA AccessToken ==
    ASSUME clock \in Nat, NEW u \in Users, NEW s \in Nat
    PROVE  /\ create_access_token(u, s) \in Token
           /\ create_access_token(u, s).type = "access"
           /\ create_access_token(u, s).sub = u
           /\ create_access_token(u, s).since = s
           /\ create_access_token(u, s).exp = clock + AccessLife
  BY SessionAssumption DEF create_access_token, Token

LEMMA RefreshToken ==
    ASSUME clock \in Nat, NEW u \in Users
    PROVE  /\ create_refresh_token(u) \in Token
           /\ create_refresh_token(u).type = "refresh"
           /\ create_refresh_token(u).sub = u
           /\ create_refresh_token(u).since = clock
           /\ create_refresh_token(u).exp = clock + RefreshLife
  BY SessionAssumption DEF create_refresh_token, Token

\* The fields that the state of a request or of the form has.
LEMMA RequestFields ==
    ASSUME TypeOK, NEW r \in Requests
    PROVE  /\ req[r] \in RequestStates
           /\ req[r].at = "sent" =>
                 /\ req[r].path \in Paths /\ req[r].auth \in MaybeToken
                 /\ req[r].retried \in BOOLEAN
           /\ req[r].at = "answered" =>
                 /\ req[r].path \in Paths /\ req[r].auth \in MaybeToken
                 /\ req[r].retried \in BOOLEAN /\ req[r].code \in Codes
           /\ req[r].at = "refreshing" =>
                 /\ req[r].path \in Paths /\ req[r].auth \in MaybeToken
                 /\ req[r].body \in Token
           /\ req[r].at = "refreshed" =>
                 /\ req[r].path \in Paths /\ req[r].auth \in MaybeToken
                 /\ req[r].token \in MaybeToken /\ req[r].fresh \in MaybeToken
  <1>1. req[r] \in RequestStates
    BY DEF TypeOK
  <1>2. req[r].at = "sent" => req[r] \in
            [at : {"sent"}, path : Paths, auth : MaybeToken, retried : BOOLEAN]
    BY <1>1 DEF RequestStates, Idle
  <1>3. req[r].at = "answered" => req[r] \in
            [at : {"answered"}, path : Paths, auth : MaybeToken, retried : BOOLEAN,
             code : Codes]
    BY <1>1 DEF RequestStates, Idle
  <1>4. req[r].at = "refreshing" => req[r] \in
            [at : {"refreshing"}, path : Paths, auth : MaybeToken, body : Token]
    BY <1>1 DEF RequestStates, Idle
  <1>5. req[r].at = "refreshed" => req[r] \in
            [at : {"refreshed"}, path : Paths, auth : MaybeToken, token : MaybeToken,
             fresh : MaybeToken]
    BY <1>1 DEF RequestStates, Idle
  <1> QED
    BY <1>1, <1>2, <1>3, <1>4, <1>5

LEMMA FormFields ==
    ASSUME TypeOK
    PROVE  /\ form.at = "sent" => form.user \in Users /\ form.right \in BOOLEAN
           /\ form.at = "answered" /\ form.yes => form.access \in Token /\ form.refresh \in Token
  <1> DEFINE S == [at : {"sent"}, user : Users, right : BOOLEAN]
             A == [at : {"answered"}, yes : {TRUE}, access : Token, refresh : Token]
  <1>1. form = NoForm \/ form = Refused \/ form \in S \/ form \in A
    BY DEF TypeOK, Forms
  <1>2. NoForm.at = "idle" /\ Refused.at = "answered" /\ Refused.yes = FALSE
    BY DEF NoForm, Refused
  <1>3. form \in S => form.at = "sent" /\ form.user \in Users /\ form.right \in BOOLEAN
    OBVIOUS
  <1>4. form \in A => form.at = "answered" /\ form.access \in Token /\ form.refresh \in Token
    OBVIOUS
  <1> HIDE DEF S, A
  <1> QED
    BY <1>1, <1>2, <1>3, <1>4

-------------------------------------------------------------------------------
(* Steps *)

LEMMA InitIInv == Init => IInv
  <1> SUFFICES ASSUME Init
               PROVE  IInv
    OBVIOUS
  <1>1. /\ users \in [Users -> Account] /\ audit \in [Users -> Count] /\ told \in [Users -> Count]
        /\ NoForm \in Forms /\ Idle \in RequestStates
    BY DEF Init, Account, Count, Forms, RequestStates
  <1>2. TypeOK
    BY <1>1, NoneIsNoToken DEF Init, TypeOK, NotOut
  <1>3. store.access = None /\ store.refresh = None /\ form.at = "idle"
        /\ \A r \in Requests : req[r].at = "idle"
    BY DEF Init, EmptyStore, NoForm, Idle
  <1>4. LoginsPast /\ \A u \in Users : told[u].yes <= audit[u].yes /\ told[u].no <= audit[u].no
    BY DEF Init, LoginsPast
  <1> QED
    BY <1>2, <1>3, <1>4 DEF Init, IInv, StoreInv, FormInv, RequestInv, PageInv, LeavingInv,
                            AuditInv, SignOutIsBounded

LEMMA EnvironmentKeeps == IInv /\ (Tick \/ EditUser) => IInv'
  <1> SUFFICES ASSUME IInv, Tick \/ EditUser
               PROVE  IInv'
    OBVIOUS
  <1>0. TypeOK
    BY DEF IInv
  <1>1. /\ UNCHANGED <<lastLogin, audit, told, page, store, form, req, out>>
        /\ clock' \in Nat /\ clock' >= clock /\ clock \in Nat
        /\ users' \in [Users -> Account]
    BY DEF Tick, EditUser, server, IInv, TypeOK, Account
  <1>2. TypeOK'
    BY <1>1 DEF IInv, TypeOK
  <1>3. LoginsPast'
    BY <1>1 DEF IInv, TypeOK, AuditInv, LoginsPast
  <1>4. ASSUME NEW t \in Token, Short(t)
        PROVE  t.exp <= clock' + AccessLife
    <2>1. t.exp \in Nat /\ AccessLife \in Nat
      BY SessionAssumption DEF Token
    <2> QED
      BY <1>1, <1>4, <2>1 DEF Short
  <1>5. StoreInv'
    <2>1. store.access # None => store.access \in Token
      BY <1>0 DEF TypeOK, MaybeToken
    <2> QED
      BY <1>1, <1>4, <2>1 DEF IInv, StoreInv, Bounded, Short
  <1>6. FormInv'
    <2>1. form.at = "answered" /\ form.yes => form.access.exp <= clock' + AccessLife
      BY <1>0, <1>4, FormFields DEF IInv, FormInv
    <2> QED
      BY <1>1, <2>1 DEF IInv, FormInv, Bounded, Recorded, Short
  <1>7. RequestInv'
    <2>1. ASSUME NEW r \in Requests, req[r].at = "refreshed", req[r].token # None
          PROVE  req[r].token.exp <= clock' + AccessLife
      <3>1. req[r].token \in Token
        BY <1>0, <2>1, RequestFields DEF MaybeToken
      <3> QED
        BY <1>4, <2>1, <3>1 DEF IInv, RequestInv
    <2> QED
      BY <1>1, <2>1 DEF IInv, RequestInv, Bounded, Short
  <1> QED
    BY <1>1, <1>2, <1>3, <1>5, <1>6, <1>7 DEF IInv, PageInv, LeavingInv, AuditInv, Recorded,
                                              SignOutIsBounded

LEMMA LoginKeeps == IInv /\ Login => IInv'
  <1> SUFFICES ASSUME IInv, Login
               PROVE  IInv'
    OBVIOUS
  <1>0. TypeOK /\ clock \in Nat
    BY DEF IInv, TypeOK
  <1>1. ASSUME NEW u \in Users, NEW right \in BOOLEAN, SubmitLogin(u, right)
        PROVE  IInv'
    <2>1. form' \in Forms /\ form'.at = "sent" /\ page = "login"
          /\ UNCHANGED <<clock, server, page, store, req, out>>
      BY <1>1 DEF SubmitLogin, Forms
    <2>2. TypeOK'
      BY <2>1 DEF IInv, TypeOK, server
    <2> QED
      BY <2>1, <2>2 DEF IInv, StoreInv, FormInv, RequestInv, PageInv, LeavingInv, AuditInv,
                        Bounded, Short, Recorded, LoginsPast, SignOutIsBounded, server
  <1>2. CASE RejectLogin
    <2>1. /\ form.user \in Users /\ form' = Refused /\ form.at = "sent"
          /\ audit' = [audit EXCEPT ![form.user].no = @ + 1]
          /\ told' = [told EXCEPT ![form.user].no = @ + 1]
          /\ UNCHANGED <<clock, users, lastLogin, page, store, req, out>>
      BY <1>0, <1>2, FormFields DEF RejectLogin
    <2>2. /\ audit' \in [Users -> Count] /\ told' \in [Users -> Count]
          /\ \A u \in Users : told'[u].yes <= audit'[u].yes /\ told'[u].no <= audit'[u].no
          /\ \A u \in Users : audit'[u].yes = audit[u].yes
      <3>1. audit \in [Users -> Count] /\ told \in [Users -> Count]
        BY <1>0 DEF TypeOK
      <3>2. \A u \in Users : told[u].yes <= audit[u].yes /\ told[u].no <= audit[u].no
        BY DEF IInv, AuditInv
      <3> QED
        BY <2>1, <3>1, <3>2 DEF Count
    <2>3. Refused \in Forms /\ ~Refused.yes
      BY DEF Forms, Refused
    <2>4. TypeOK'
      BY <1>0, <2>1, <2>2, <2>3 DEF TypeOK
    <2>5. store.refresh # None => store.refresh.sub \in Users
      BY <1>0 DEF TypeOK, MaybeToken, Token
    <2>6. AuditInv'
      BY <2>1, <2>2, <2>5 DEF IInv, AuditInv, Recorded, LoginsPast
    <2> QED
      BY <2>1, <2>3, <2>4, <2>6 DEF IInv, StoreInv, FormInv, RequestInv, PageInv,
                                    LeavingInv, Bounded, Short, SignOutIsBounded
  <1>3. CASE AcceptLogin
    <2> DEFINE u == form.user
               access == create_access_token(u, clock)
               refresh == create_refresh_token(u)
               answer == [at |-> "answered", yes |-> TRUE, access |-> access, refresh |-> refresh]
    <2>1. /\ u \in Users /\ form.at = "sent"
          /\ lastLogin' = [lastLogin EXCEPT ![u] = clock]
          /\ audit' = [audit EXCEPT ![u].yes = @ + 1]
          /\ told' = [told EXCEPT ![u].yes = @ + 1]
          /\ form' = answer
          /\ UNCHANGED <<clock, users, page, store, req, out>>
      BY <1>0, <1>3, FormFields DEF AcceptLogin
    <2>2. /\ access \in Token /\ access.since = clock /\ access.exp = clock + AccessLife
          /\ access.type = "access"
      BY <1>0, <2>1, AccessToken
    <2>3. /\ refresh \in Token /\ refresh.since = clock /\ refresh.exp = clock + RefreshLife
          /\ refresh.sub = u
      BY <1>0, <2>1, RefreshToken
    <2> HIDE DEF access, refresh, u
    <2>4. answer \in Forms /\ answer.access = access /\ answer.refresh = refresh
      BY <2>2, <2>3 DEF Forms
    <2>5. /\ audit' \in [Users -> Count] /\ told' \in [Users -> Count]
          /\ \A v \in Users : told'[v].yes <= audit'[v].yes /\ told'[v].no <= audit'[v].no
          /\ \A v \in Users : audit'[v].yes >= audit[v].yes
          /\ audit'[u].yes > 0
      <3>1. audit \in [Users -> Count] /\ told \in [Users -> Count]
        BY <1>0 DEF TypeOK
      <3>2. \A v \in Users : told[v].yes <= audit[v].yes /\ told[v].no <= audit[v].no
        BY DEF IInv, AuditInv
      <3> QED
        BY <2>1, <3>1, <3>2 DEF Count
    <2>6. /\ lastLogin' \in [Users -> Nat] /\ lastLogin'[u] = clock
          /\ \A v \in Users : lastLogin'[v] >= lastLogin[v] /\ lastLogin'[v] <= clock
      BY <1>0, <2>1 DEF TypeOK, IInv, AuditInv, LoginsPast
    <2>7. TypeOK'
      BY <1>0, <2>1, <2>4, <2>5, <2>6 DEF TypeOK
    <2>8. AuditInv'
      <3>1. ASSUME store.refresh # None
            PROVE  Recorded(store.refresh)'
        <4>1. store.refresh \in Token /\ store.refresh.sub \in Users /\ store.refresh.since \in Nat
          BY <1>0, <3>1 DEF TypeOK, MaybeToken, Token
        <4>2. Recorded(store.refresh)
          BY <3>1 DEF IInv, AuditInv
        <4> DEFINE v == store.refresh.sub
        <4>3. /\ audit'[v].yes >= audit[v].yes /\ lastLogin'[v] >= lastLogin[v]
              /\ audit'[v].yes \in Nat /\ audit[v].yes \in Nat
              /\ lastLogin'[v] \in Nat /\ lastLogin[v] \in Nat
          BY <1>0, <2>5, <2>6, <4>1 DEF TypeOK, Count
        <4> QED
          BY <2>1, <4>1, <4>2, <4>3 DEF Recorded
      <3> QED
        BY <2>1, <2>5, <2>6, <3>1 DEF AuditInv, LoginsPast
    <2>9. FormInv'
      <3>1. Bounded(access) /\ Bounded(refresh) /\ Short(access)
        BY <1>0, <2>2, <2>3, SessionAssumption DEF Bounded, Short
      <3>2. audit'[refresh.sub].yes > 0 /\ lastLogin'[refresh.sub] >= refresh.since
        BY <1>0, <2>3, <2>5, <2>6
      <3>3. form'.access = access /\ form'.refresh = refresh
        BY <2>1, <2>4
      <3> QED
        BY <2>1, <3>1, <3>2, <3>3 DEF FormInv, Bounded, Short, Recorded
    <2> QED
      BY <2>1, <2>7, <2>8, <2>9 DEF IInv, StoreInv, RequestInv, PageInv, LeavingInv,
                                    Bounded, Short, SignOutIsBounded
  <1>4. CASE LoginRaises
    <2>1. /\ form' = Refused /\ UNCHANGED <<clock, users, audit, told, page, store, req, out>>
          /\ form.user \in Users /\ form.at = "sent"
          /\ lastLogin' = lastLogin \/ lastLogin' = [lastLogin EXCEPT ![form.user] = clock]
      BY <1>0, <1>4, FormFields DEF LoginRaises
    <2>2. Refused \in Forms /\ ~Refused.yes
      BY DEF Forms, Refused
    <2>3. /\ lastLogin' \in [Users -> Nat]
          /\ \A v \in Users : lastLogin'[v] >= lastLogin[v] /\ lastLogin'[v] <= clock
      BY <1>0, <2>1 DEF TypeOK, IInv, AuditInv, LoginsPast
    <2>4. TypeOK'
      BY <1>0, <2>1, <2>2, <2>3 DEF TypeOK
    <2>5. AuditInv'
      <3>1. ASSUME store.refresh # None
            PROVE  Recorded(store.refresh)'
        <4>1. store.refresh.sub \in Users /\ store.refresh.since \in Nat
          BY <1>0, <3>1 DEF TypeOK, MaybeToken, Token
        <4>2. Recorded(store.refresh)
          BY <3>1 DEF IInv, AuditInv
        <4> DEFINE v == store.refresh.sub
        <4>3. lastLogin'[v] >= lastLogin[v] /\ lastLogin'[v] \in Nat /\ lastLogin[v] \in Nat
          BY <1>0, <2>3, <4>1 DEF TypeOK
        <4> QED
          BY <2>1, <4>1, <4>2, <4>3 DEF Recorded
      <3> QED
        BY <2>1, <2>3, <3>1 DEF IInv, AuditInv, LoginsPast
    <2> QED
      BY <2>1, <2>2, <2>4, <2>5 DEF IInv, StoreInv, FormInv, RequestInv, PageInv,
                                    LeavingInv, Bounded, Short, SignOutIsBounded
  <1>5. CASE ReceiveLogin
    <2>1. /\ form.at = "answered" /\ form' = NoForm /\ UNCHANGED <<clock, server, req>>
          /\ NoForm \in Forms /\ NoForm.at = "idle"
      BY <1>5 DEF ReceiveLogin, Forms, NoForm
    <2>2. CASE form.yes
      <3>1. /\ store' = [access |-> form.access, refresh |-> form.refresh] /\ page' = "app"
            /\ out' = NotOut
            /\ form.access \in Token /\ form.refresh \in Token
        BY <1>0, <1>5, <2>1, <2>2, FormFields DEF ReceiveLogin
      <3>2. store'.access = form.access /\ store'.refresh = form.refresh
        BY <3>1
      <3>3. store' \in [access : MaybeToken, refresh : MaybeToken]
        BY <3>1 DEF MaybeToken
      <3>4. TypeOK'
        BY <1>0, <2>1, <3>1, <3>3 DEF TypeOK, server, NotOut
      <3>5. StoreInv' /\ AuditInv'
        BY <2>1, <2>2, <3>2 DEF IInv, FormInv, StoreInv, AuditInv, LoginsPast, Bounded,
                                Short, Recorded, server
      <3> QED
        BY <2>1, <3>1, <3>4, <3>5 DEF IInv, FormInv, RequestInv, PageInv, LeavingInv,
                                      Bounded, Short, SignOutIsBounded
    <2>3. CASE ~form.yes
      <3>1. UNCHANGED <<store, page, out>>
        BY <1>5, <2>3 DEF ReceiveLogin
      <3>2. TypeOK'
        BY <1>0, <2>1, <3>1 DEF TypeOK, server
      <3> QED
        BY <2>1, <3>1, <3>2 DEF IInv, StoreInv, FormInv, RequestInv, PageInv, LeavingInv,
                                AuditInv, Bounded, Short, Recorded, LoginsPast,
                                SignOutIsBounded, server
    <2> QED
      BY <2>2, <2>3
  <1> QED
    BY <1>1, <1>2, <1>3, <1>4, <1>5 DEF Login

\* A step of one request that leaves the store alone.
LEMMA RequestKeeps ==
    ASSUME IInv, NEW r \in Requests, NEW next \in RequestStates,
           req' = [req EXCEPT ![r] = next],
           next.at \notin {"refreshing", "refreshed"}, page # "login",
           UNCHANGED <<clock, server, page, store, form, out>>
    PROVE  IInv'
  <1>1. TypeOK'
    BY DEF IInv, TypeOK, server
  <1>2. RequestInv'
    BY DEF IInv, TypeOK, RequestInv, Bounded, Short
  <1>3. SignOutIsBounded'
    BY DEF IInv, TypeOK, SignOutIsBounded
  <1> QED
    BY <1>1, <1>2, <1>3 DEF IInv, StoreInv, FormInv, PageInv, LeavingInv, AuditInv, Bounded,
                            Short, Recorded, LoginsPast, server

\* Only a page with the application has requests that are not idle, and only one that is
\* being left refreshes after a sign-out.
LEMMA RequestsInApp ==
    ASSUME IInv, NEW r \in Requests, req[r].at # "idle"
    PROVE  page # "login"
  BY DEF IInv, PageInv, LeavingInv

LEMMA RefreshesLeaving ==
    ASSUME IInv, NEW r \in Requests, req[r].at \in {"refreshing", "refreshed"}, out # NotOut
    PROVE  page = "leaving"
  BY DEF IInv, SignOutIsBounded

\* Requests are sent, answered and refreshed.
LEMMA SendKeeps ==
    ASSUME IInv, NEW r \in Requests, NEW path \in Paths, Send(r, path)
    PROVE  IInv'
  <1> DEFINE next == [at |-> "sent", path |-> path, auth |-> store.access, retried |-> FALSE]
  <1>1. store.access \in MaybeToken
    BY DEF IInv, TypeOK
  <1>2. next \in RequestStates /\ next.at = "sent"
    BY <1>1 DEF RequestStates
  <1>3. req' = [req EXCEPT ![r] = next] /\ page # "login"
        /\ UNCHANGED <<clock, server, page, store, form, out>>
    BY DEF Send
  <1> HIDE DEF next
  <1> QED
    BY <1>2, <1>3, RequestKeeps

LEMMA ServeKeeps ==
    ASSUME IInv, NEW r \in Requests, Serve(r)
    PROVE  IInv'
  <1> DEFINE next(code) == [at |-> "answered", path |-> req[r].path, auth |-> req[r].auth,
                            retried |-> req[r].retried, code |-> code]
  <1>1. req[r].path \in Paths /\ req[r].auth \in MaybeToken /\ req[r].retried \in BOOLEAN
    BY RequestFields DEF Serve, IInv
  <1>2. page # "login" /\ UNCHANGED <<clock, server, page, store, form, out>>
    BY RequestsInApp DEF Serve
  <1>3. ASSUME NEW code \in Codes, req' = [req EXCEPT ![r] = next(code)]
        PROVE  IInv'
    <2>1. next(code) \in RequestStates /\ next(code).at = "answered"
      BY <1>1 DEF RequestStates
    <2> HIDE DEF next
    <2> QED
      BY <1>2, <1>3, <2>1, RequestKeeps
  <1>4. Answer(req[r].path, req[r].auth) \in Codes /\ 500 \in Codes
    BY DEF Answer, Codes
  <1>5. \/ req' = [req EXCEPT ![r] = next(Answer(req[r].path, req[r].auth))]
        \/ req' = [req EXCEPT ![r] = next(500)]
    BY Zenon DEF Serve
  <1> HIDE DEF next
  <1> QED
    BY <1>3, <1>4, <1>5

LEMMA ReceiveKeeps ==
    ASSUME IInv, NEW r \in Requests, Receive(r)
    PROVE  IInv'
  <1>1. /\ req[r].path \in Paths /\ req[r].auth \in MaybeToken
        /\ req[r].retried \in BOOLEAN /\ req[r].code \in Codes
    BY RequestFields DEF Receive, IInv
  <1>2. page # "login" /\ UNCHANGED <<clock, server, page, store, form, out>>
    BY RequestsInApp DEF Receive
  <1>3. CASE req[r].code = 401 /\ ~req[r].retried /\ store.refresh # None
    <2>1. store.refresh \in Token /\ Bounded(store.refresh)
      BY <1>3 DEF IInv, TypeOK, MaybeToken, StoreInv
    <2> DEFINE next == Refreshing(r)
    <2>2. next \in RequestStates /\ next.at = "refreshing" /\ next.body = store.refresh
      BY <1>1, <2>1 DEF RequestStates, Refreshing
    <2>3. req' = [req EXCEPT ![r] = next]
      BY <1>3 DEF Receive
    <2> HIDE DEF next
    <2>4. TypeOK'
      BY <1>2, <2>2, <2>3 DEF IInv, TypeOK, server
    <2>5. \A s \in Requests \ {r} : req'[s] = req[s]
      BY <2>3 DEF IInv, TypeOK
    <2>6. req'[r] = next
      BY <2>3 DEF IInv, TypeOK
    <2>7. RequestInv'
      BY <1>2, <2>1, <2>2, <2>5, <2>6 DEF IInv, RequestInv, Bounded, Short
    <2>8. SignOutIsBounded'
      BY <1>2, <1>3 DEF IInv, SignOutIsBounded
    <2> QED
      BY <1>2, <2>4, <2>7, <2>8 DEF IInv, StoreInv, FormInv, PageInv, LeavingInv, AuditInv,
                                    Bounded, Short, Recorded, LoginsPast, server
  <1>4. CASE ~(req[r].code = 401 /\ ~req[r].retried /\ store.refresh # None)
    <2> DEFINE next == Finished(r, req[r].code)
    <2>1. next \in RequestStates /\ next.at = "done"
      BY <1>1 DEF RequestStates, Finished
    <2>2. req' = [req EXCEPT ![r] = next]
      BY <1>4 DEF Receive
    <2> HIDE DEF next
    <2> QED
      BY <1>2, <2>1, <2>2, RequestKeeps
  <1> QED
    BY <1>3, <1>4

LEMMA ServeRefreshKeeps ==
    ASSUME IInv, NEW r \in Requests, ServeRefresh(r)
    PROVE  IInv'
  <1> DEFINE body == req[r].body
  <1>1. /\ req[r].path \in Paths /\ req[r].auth \in MaybeToken /\ body \in Token
        /\ Bounded(body)
    BY RequestFields DEF ServeRefresh, IInv, RequestInv
  <1>2. page # "login" /\ UNCHANGED <<clock, server, page, store, form, out>>
    BY RequestsInApp DEF ServeRefresh
  <1>3. ASSUME NEW t \in MaybeToken, t # None => Bounded(t) /\ Short(t),
               req' = [req EXCEPT ![r] = Refreshed(r, t, None)]
        PROVE  IInv'
    <2> DEFINE next == Refreshed(r, t, None)
    <2>1. /\ next \in RequestStates /\ next.at = "refreshed" /\ next.token = t
          /\ next.fresh = None
      BY <1>1 DEF RequestStates, Refreshed, MaybeToken
    <2>2. req' = [req EXCEPT ![r] = next]
      BY <1>3
    <2> HIDE DEF next
    <2>3. TypeOK'
      BY <1>2, <2>1, <2>2 DEF IInv, TypeOK, server
    <2>4. req'[r] = next /\ \A s \in Requests \ {r} : req'[s] = req[s]
      BY <2>2 DEF IInv, TypeOK
    <2>5. RequestInv'
      BY <1>2, <1>3, <2>1, <2>4 DEF IInv, RequestInv, Bounded, Short
    <2>6. SignOutIsBounded'
      BY <1>2, RefreshesLeaving DEF IInv, SignOutIsBounded, ServeRefresh
    <2> QED
      BY <1>2, <2>3, <2>5, <2>6 DEF IInv, StoreInv, FormInv, PageInv, LeavingInv, AuditInv,
                                    Bounded, Short, Recorded, LoginsPast, server
  <1>4. CASE Valid(body, "refresh")
    <2> DEFINE t == create_access_token(body.sub, body.since)
    <2>1. body.sub \in Users /\ body.since \in Nat /\ body.exp \in Nat /\ clock \in Nat
      BY <1>1 DEF Token, IInv, TypeOK
    <2>2. /\ t \in Token /\ t.type = "access" /\ t.since = body.since
          /\ t.exp = clock + AccessLife
      BY <2>1, AccessToken
    <2>3. clock < body.exp /\ body.exp <= body.since + RefreshLife
      BY <1>1, <1>4 DEF Valid, Bounded
    <2>4. Bounded(t) /\ Short(t)
      BY <2>1, <2>2, <2>3, SessionAssumption DEF Bounded, Short
    <2>5. \/ req' = [req EXCEPT ![r] = Refreshed(r, t, None)]
          \/ req' = [req EXCEPT ![r] = Refreshed(r, None, None)]
      BY DEF ServeRefresh
    <2> HIDE DEF t
    <2> QED
      BY <1>3, <2>2, <2>4, <2>5 DEF MaybeToken
  <1>5. CASE ~Valid(body, "refresh")
    <2>1. req' = [req EXCEPT ![r] = Refreshed(r, None, None)]
      BY <1>5 DEF ServeRefresh
    <2> QED
      BY <1>3, <2>1 DEF MaybeToken
  <1> QED
    BY <1>4, <1>5

LEMMA ReceiveRefreshKeeps ==
    ASSUME IInv, NEW r \in Requests, ReceiveRefresh(r)
    PROVE  IInv'
  <1>1. /\ req[r].path \in Paths /\ req[r].auth \in MaybeToken /\ req[r].token \in MaybeToken
        /\ req[r].fresh = None
        /\ req[r].token # None => Bounded(req[r].token) /\ Short(req[r].token)
    BY RequestFields DEF ReceiveRefresh, IInv, RequestInv
  <1>2. page # "login" /\ UNCHANGED <<clock, server, page, form, out>>
    BY RequestsInApp DEF ReceiveRefresh
  <1>3. ASSUME NEW next \in RequestStates, req' = [req EXCEPT ![r] = next],
               next.at \notin {"refreshing", "refreshed"},
               NEW a \in MaybeToken, NEW b \in {store.refresh, None},
               a # None => Bounded(a) /\ Short(a), store' = [access |-> a, refresh |-> b]
        PROVE  IInv'
    <2>1. store.refresh \in MaybeToken /\ b \in MaybeToken
      BY DEF IInv, TypeOK, MaybeToken
    <2>2. store'.access = a /\ store'.refresh = b
      BY <1>3
    <2>3. TypeOK'
      BY <1>2, <1>3, <2>1 DEF IInv, TypeOK, server
    <2>4. StoreInv'
      BY <1>2, <1>3, <2>2 DEF IInv, StoreInv, Bounded, Short
    <2>5. AuditInv'
      BY <1>2, <1>3, <2>2 DEF IInv, AuditInv, Recorded, LoginsPast, server
    <2>6. RequestInv'
      BY <1>2, <1>3 DEF IInv, TypeOK, RequestInv, Bounded, Short
    <2>7. SignOutIsBounded'
      BY <1>2, <1>3, <2>2, RefreshesLeaving DEF IInv, SignOutIsBounded, ReceiveRefresh
    <2> QED
      BY <1>2, <2>3, <2>4, <2>5, <2>6, <2>7 DEF IInv, FormInv, PageInv, LeavingInv, Bounded,
                                                Short, Recorded, server
  <1>4. CASE req[r].token = None
    <2>1. Unauthorized \in RequestStates /\ Unauthorized.at = "done"
      BY DEF RequestStates, Codes, Unauthorized
    <2>2. /\ req' = [req EXCEPT ![r] = Unauthorized]
          /\ store' = [access |-> None, refresh |-> None]
      BY <1>4 DEF ReceiveRefresh, EmptyStore
    <2> QED
      BY <1>3, <2>1, <2>2 DEF MaybeToken
  <1>5. CASE req[r].token # None
    <2> DEFINE next == [at |-> "sent", path |-> req[r].path, retried |-> TRUE,
                        auth |-> RetryAuth(r, req[r].token)]
    <2>1. next \in RequestStates /\ next.at = "sent"
      BY <1>1 DEF RequestStates, RetryAuth
    <2>2. /\ req' = [req EXCEPT ![r] = next]
          /\ store' = [access |-> req[r].token, refresh |-> store.refresh]
      BY <1>1, <1>5 DEF ReceiveRefresh
    <2> HIDE DEF next
    <2> QED
      BY <1>1, <1>3, <1>5, <2>1, <2>2
  <1> QED
    BY <1>4, <1>5

LEMMA RefreshLostKeeps ==
    ASSUME IInv, NEW r \in Requests, RefreshLost(r)
    PROVE  IInv'
  <1>1. Unauthorized \in RequestStates /\ Unauthorized.at = "done"
    BY DEF RequestStates, Codes, Unauthorized
  <1>2. /\ page # "login" /\ UNCHANGED <<clock, server, page, store, form, out>>
        /\ req' = [req EXCEPT ![r] = Unauthorized]
    BY RequestsInApp DEF RefreshLost
  <1> QED
    BY <1>1, <1>2, RequestKeeps

\* Signing out empties the store; the requests are dropped when the page is left, and
\* from then on nothing is refreshed without a login.
LEMMA EmptyStoreIsEmpty ==
    /\ EmptyStore.access = None /\ EmptyStore.refresh = None
    /\ EmptyStore \in [access : MaybeToken, refresh : MaybeToken]
  BY DEF EmptyStore, MaybeToken

LEMMA LogoutKeeps == IInv /\ Logout => IInv'
  <1> SUFFICES ASSUME IInv, Logout
               PROVE  IInv'
    OBVIOUS
  <1>1. /\ page # "login" /\ store' = EmptyStore /\ page' = "leaving" /\ out' = clock
        /\ UNCHANGED <<clock, server, form, req>>
    BY DEF Logout
  <1>2. store'.access = None /\ store'.refresh = None
    BY <1>1, EmptyStoreIsEmpty
  <1>3. TypeOK'
    BY <1>1, EmptyStoreIsEmpty DEF IInv, TypeOK, server
  <1>4. out' # NotOut
    BY <1>1 DEF IInv, TypeOK, NotOut
  <1> QED
    BY <1>1, <1>2, <1>3, <1>4 DEF IInv, StoreInv, FormInv, RequestInv, PageInv, LeavingInv,
                                  AuditInv, Bounded, Short, Recorded, LoginsPast,
                                  SignOutIsBounded, server

LEMMA ReloadKeeps == IInv /\ Reload => IInv'
  <1> SUFFICES ASSUME IInv, Reload
               PROVE  IInv'
    OBVIOUS
  <1>1. /\ form' = NoForm /\ req' = [r \in Requests |-> Idle]
        /\ UNCHANGED <<clock, server, store>>
        /\ page' \in {"login", "app"}
        /\ out' = IF page = "leaving" THEN clock ELSE out
    BY DEF Reload
  <1>2. /\ NoForm \in Forms /\ NoForm.at = "idle"
        /\ Idle \in RequestStates /\ Idle.at = "idle"
    BY DEF NoForm, Idle, Forms, RequestStates
  <1>3. TypeOK'
    BY <1>1, <1>2 DEF IInv, TypeOK, server
  <1>4. SignOutIsBounded'
    <2>1. \A r \in Requests : req'[r].at = "idle"
      BY <1>1, <1>2
    <2>2. CASE out = NotOut /\ page # "leaving"
      BY <1>1, <2>2 DEF SignOutIsBounded
    <2>3. CASE out # NotOut /\ page # "leaving"
      BY <1>1, <2>1, <2>3 DEF IInv, SignOutIsBounded
    <2>4. CASE page = "leaving"
      <3>1. store.refresh = None
        BY <2>4 DEF IInv, LeavingInv, SignOutIsBounded
      <3> QED
        BY <1>1, <2>1, <2>4, <3>1 DEF IInv, StoreInv, Short, SignOutIsBounded
    <2> QED
      BY <2>2, <2>3, <2>4
  <1> QED
    BY <1>1, <1>2, <1>3, <1>4 DEF IInv, StoreInv, FormInv, RequestInv, PageInv, LeavingInv,
                                  AuditInv, Bounded, Short, Recorded, LoginsPast, server

LEMMA NextKeeps == IInv /\ [Next]_vars => IInv'
  <1> SUFFICES ASSUME IInv, [Next]_vars
               PROVE  IInv'
    OBVIOUS
  <1>1. CASE UNCHANGED vars
    BY <1>1 DEF vars, server, IInv, TypeOK, StoreInv, FormInv, RequestInv, PageInv,
                LeavingInv, AuditInv, Bounded, Short, Recorded, LoginsPast, SignOutIsBounded
  <1> QED
    BY <1>1, EnvironmentKeeps, LoginKeeps, LogoutKeeps, ReloadKeeps, SendKeeps, ServeKeeps,
       ReceiveKeeps, ServeRefreshKeeps, ReceiveRefreshKeeps, RefreshLostKeeps DEF Next, Fetch

-------------------------------------------------------------------------------
(* The theorems *)

\* The invariant holds in every state of every run.
THEOREM Invariance == Spec => []IInv
  <1>1. Init => IInv
    BY InitIInv
  <1>2. IInv /\ [Next]_vars => IInv'
    BY NextKeeps
  <1> QED
    BY <1>1, <1>2, PTL DEF Spec

\* Every variable keeps its type.
THEOREM TypeCorrect == Spec => []TypeOK
  <1>1. IInv => TypeOK
    BY DEF IInv
  <1> QED
    BY <1>1, Invariance, PTL

\* No answer to a login without its audit row, and no token without its login's.
THEOREM Audited == Spec => []LoginsAreAudited
  <1>1. IInv => LoginsAreAudited
    BY DEF IInv, AuditInv, Recorded, LoginsAreAudited
  <1> QED
    BY <1>1, Invariance, PTL

\* However often and by however many requests a session is refreshed, it ends.
THEOREM SessionsEnd == Spec => []SessionBounded
  <1>1. IInv => SessionBounded
    <2> SUFFICES ASSUME IInv, NEW t \in {store.access, store.refresh}, t # None
                 PROVE  t.exp <= t.since + RefreshLife + AccessLife
      BY DEF SessionBounded
    <2> QED
      BY DEF IInv, StoreInv, Bounded
  <1> QED
    BY <1>1, Invariance, PTL

\* However late a refresh is answered, a sign-out leaves one AccessLife of access at most
\* and no way to refresh it.
THEOREM SignOutsHold == Spec => []SignOutIsBounded
  <1>1. IInv => SignOutIsBounded
    BY DEF IInv
  <1> QED
    BY <1>1, Invariance, PTL

=============================================================================
