------------------------------ MODULE Sessions ------------------------------
(* The session of one browser: its cookies, what its tabs share in local     *)
(* storage, the guard that every protected page runs, and the requests that  *)
(* renew, replace and end the session.  The server keeps nothing: a request  *)
(* is served with the cookies it is sent with, and what its answer sets is   *)
(* set when the answer arrives.                                              *)
(*                                                                           *)
(* Time is counted in refresh intervals (REFRESH_MIN_INTERVAL_MS) and kept   *)
(* as ages and as the time that is left, so that it needs no bound.          *)
EXTENDS Naturals, FiniteSets

CONSTANTS
  Tab,             \* the tabs of the browser
  Account, Admin,  \* the users who log in here, and the administrators of them
  Target,          \* the members an administrator looks after
  Timeout,         \* IDLE_TIMEOUT_MS = IDLE_SESSION_MAX_AGE_SECONDS
  MaxCalls,        \* bound: calls and logouts under way to which one is added
  None

ASSUME SessionsAssumption ==
  /\ Admin \subseteq Account /\ Account \cap Target = {}
  /\ None \notin Account \union Target
  /\ Timeout \in Nat \ {0} /\ MaxCalls \in Nat

VARIABLES
  cookie,    \* cu12_session, cu12_idle and cu12_impersonation
  storage,   \* the age of cu12:last-activity-at, and cu12:session-timeout-state
  tab,       \* each tab's page and the refs of its guard
  pending,   \* the answers under way to each tab, by who waits for them
  seen,      \* history: the age of the last login or refresh served, by user
  chosen,    \* history: the members an administrator has begun to look after
  handled,   \* history: the age of the last activity that was registered
  setBack    \* history: an extension has replaced the last activity by an older one

vars == <<cookie, storage, tab, pending, seen, chosen, handled, setBack>>
History == <<seen, chosen, handled, setBack>>

\* An idle token and what is left of its time; which member an administrator acts for.
NoToken == [user |-> None, left |-> 0]
NoOne == [actor |-> None, target |-> None]
Fresh(u) == [user |-> u, left |-> Timeout]

\* The answers that come to a tab: to tryRefresh, to the calls of its page, and
\* to a logout.
Caller == {"refresh", "call", "logout"}
Nothing == [kind |-> "none", token |-> NoToken, acts |-> NoOne]
Reply(k) == [Nothing EXCEPT !.kind = k]
UnderWay == {p \in Tab \X (Caller \ {"refresh"}) : pending[p[1]][p[2]] # Nothing}
Free(t, c) == pending[t][c] = Nothing /\ Cardinality(UnderWay) < MaxCalls

Age == 0 .. Timeout
Token == {NoToken} \union [user : Account, left : Age]
Acting == {NoOne} \union [actor : Admin, target : Target]
Answer == [kind : {"none", "renewed", "unauthorized", "login", "acts", "expired", "left"},
           token : Token, acts : Acting]
Page == [page : {"login", "protected"}, age : Age, due : BOOLEAN, out : BOOLEAN,
         extends : Age \union {None}]

\* Types; a token in the cookie has time left.
TypeOK ==
  /\ cookie \in [session : Account \union {None}, idle : Token, acts : Acting]
  /\ cookie.idle # NoToken => cookie.idle.left > 0
  /\ storage \in [age : Age, expired : BOOLEAN]
  /\ tab \in [Tab -> Page]
  /\ pending \in [Tab -> [Caller -> Answer]]
  /\ seen \in [Account -> Age] /\ chosen \in [Admin -> SUBSET Target]
  /\ handled \in Age /\ setBack \in BOOLEAN

Closed == [page |-> "login", age |-> Timeout, due |-> TRUE, out |-> FALSE,
           extends |-> None]

Init ==
  /\ cookie = [session |-> None, idle |-> NoToken, acts |-> NoOne]
  /\ storage = [age |-> Timeout, expired |-> FALSE]
  /\ tab = [t \in Tab |-> Closed]
  /\ pending = [t \in Tab |-> [c \in Caller |-> Nothing]]
  /\ seen = [u \in Account |-> Timeout] /\ chosen = [u \in Admin |-> {}]
  /\ handled = Timeout /\ setBack = FALSE

----------------------------------------------------------------------------
\* verifyActiveSession: both tokens are there, and of one user.
Active(u) == cookie.session = u /\ cookie.idle.user = u
SignedIn == \E u \in Account : Active(u)

\* Mutant: the member in the cookie, whoever sends it.
ActsFor(u) == IF cookie.acts # NoOne THEN cookie.acts.target ELSE u

\* requireAuthContext: for whom the user's requests are made.
Effective(u) ==
  IF u \in Admin /\ cookie.acts.actor = u THEN cookie.acts.target ELSE u

Guarding(t) == tab[t].page = "protected" /\ ~ tab[t].out

----------------------------------------------------------------------------
\* What a guard does.  Each of these gives the new tabs, storage and answers.
Now == [tab |-> tab, storage |-> storage, pending |-> pending, setBack |-> setBack]

Becomes(s) ==
  /\ tab' = s.tab /\ storage' = s.storage
  /\ pending' = s.pending /\ setBack' = s.setBack

Younger(a, b) == IF a < b THEN a ELSE b

\* Mutant: the tabs do not listen to each other.
SetActiveAlone(s, t, age) ==
  [s EXCEPT !.storage.age = age, !.setBack = @ \/ age > s.storage.age,
            !.tab[t].age = age]

\* setActiveStateNow for an activity of this age; onStorage in the other tabs,
\* whose events are late by far less than the unit of time.
SetActive(s, t, age) ==
  [s EXCEPT
     !.storage.age = age,
     !.setBack = @ \/ age > s.storage.age,
     !.tab = [u \in Tab |->
       IF u = t THEN [s.tab[u] EXCEPT !.age = age]
       ELSE IF Guarding(u) THEN [s.tab[u] EXCEPT !.age = Younger(@, age)]
       ELSE s.tab[u]]]

\* An extension goes on when the refresh it awaits is over, whatever came of it.
Extended(s, t) ==
  IF s.tab[t].extends = None THEN s
  ELSE [SetActive(s, t, s.tab[t].extends) EXCEPT !.tab[t].extends = None]

\* tryRefresh: it takes the place of the refresh under way.
Refreshes(s, t) ==
  [Extended(s, t) EXCEPT
     !.tab[t].due = FALSE,
     !.pending[t]["refresh"] =
       IF SignedIn THEN [Reply("renewed") EXCEPT !.token = Fresh(cookie.session)]
       ELSE Reply("unauthorized")]

Renewed == IF SignedIn THEN [seen EXCEPT ![cookie.session] = 0] ELSE seen

\* markSessionExpired: a logout is asked for, and awaited before the page goes.
MarkExpired(s, t) ==
  IF s.tab[t].out THEN s
  ELSE [s EXCEPT !.tab[t].out = TRUE, !.storage.expired = TRUE,
                 !.pending[t]["logout"] = Reply("expired")]

\* The page leaves: its guard aborts the refresh, and a page that is loaded
\* anew waits for no call any more.
Leaves(s, t, anew) ==
  [s EXCEPT !.tab[t] = Closed,
            !.pending[t]["refresh"] = Nothing, !.pending[t]["logout"] = Nothing,
            !.pending[t]["call"] = IF anew THEN Nothing ELSE @]

----------------------------------------------------------------------------
\* The login and consent routes issue both tokens.
LogIn(t, u) ==
  /\ tab[t].page = "login" /\ Free(t, "call")
  /\ pending' = [pending EXCEPT ![t]["call"] =
       [Reply("login") EXCEPT !.token = Fresh(u)]]
  /\ seen' = [seen EXCEPT ![u] = 0]
  /\ UNCHANGED <<cookie, storage, tab, chosen, handled, setBack>>

\* onSubmit, onSubmitConsent: applySessionPolicy.
LoggedIn(t) ==
  LET token == pending[t]["call"].token IN
  /\ pending[t]["call"].kind = "login"
  /\ cookie' = [cookie EXCEPT !.session = token.user,
                              !.idle = IF token.left = 0 THEN NoToken ELSE token]
  /\ storage' = [age |-> 0, expired |-> FALSE]
  /\ handled' = 0 /\ setBack' = FALSE
  /\ pending' = [pending EXCEPT ![t]["call"] = Nothing]
  /\ tab' = [u \in Tab |-> IF Guarding(u) THEN [tab[u] EXCEPT !.age = 0] ELSE tab[u]]
  /\ UNCHANGED <<seen, chosen>>

\* A protected page is opened.  Without a session the server shows the login
\* page, and its guard sends the page there if a session was said to be over.
Mount(t) ==
  /\ tab[t].page = "login" /\ SignedIn /\ ~ storage.expired
  /\ pending[t]["logout"] = Nothing
  /\ tab' = [tab EXCEPT ![t].page = "protected", ![t].age = storage.age]
  /\ UNCHANGED <<cookie, storage, pending>> /\ UNCHANGED History

\* registerActivity: what was set back before it is made good.
Touch(t) ==
  /\ Guarding(t)
  /\ LET s == [SetActive(Now, t, 0) EXCEPT !.setBack = FALSE] IN
     IF tab[t].due THEN Becomes(Refreshes(s, t)) /\ seen' = Renewed
     ELSE Becomes(s) /\ UNCHANGED seen
  /\ handled' = 0
  /\ UNCHANGED <<cookie, chosen>>

\* extendSession: the activity is stored after the refresh, as of the click.
\* The click was registered as one itself, or one was a moment before.
Extend(t) ==
  /\ Guarding(t) /\ tab[t].age = 0
  /\ IF tab[t].due
     THEN Becomes([Refreshes(Now, t) EXCEPT !.tab[t].extends = 0]) /\ seen' = Renewed
     ELSE Becomes(SetActive(Now, t, 0)) /\ UNCHANGED seen
  /\ UNCHANGED <<cookie, chosen, handled>>

\* Mutant: the time of a token runs from the arrival of the answer.
AnsweredAnew(t) ==
  /\ pending[t]["refresh"].kind = "renewed"
  /\ cookie' = [cookie EXCEPT !.idle = Fresh(pending[t]["refresh"].token.user)]
  /\ Becomes(Extended([Now EXCEPT !.pending[t]["refresh"] = Nothing], t))
  /\ UNCHANGED <<seen, chosen, handled>>

\* The answer to a refresh, if it comes: a failure is ignored.
RefreshAnswered(t) ==
  LET a == pending[t]["refresh"]
      s == [Now EXCEPT !.pending[t]["refresh"] = Nothing]
  IN
  /\ a # Nothing
  /\ \/ /\ a.kind = "renewed"
        /\ cookie' = [cookie EXCEPT !.idle = IF a.token.left = 0 THEN NoToken ELSE a.token]
        /\ Becomes(Extended(s, t))
     \/ /\ a.kind = "unauthorized"
        /\ Becomes(Extended(MarkExpired(s, t), t))
        /\ UNCHANGED cookie
  /\ UNCHANGED <<seen, chosen, handled>>

RefreshFailed(t) ==
  /\ pending[t]["refresh"] # Nothing
  /\ Becomes(Extended([Now EXCEPT !.pending[t]["refresh"] = Nothing], t))
  /\ UNCHANGED <<cookie, seen, chosen, handled>>

\* checkIdle.
CheckIdle(t) ==
  /\ Guarding(t) /\ tab[t].age = Timeout
  /\ Becomes(MarkExpired(Now, t))
  /\ UNCHANGED <<cookie, seen, chosen, handled>>

\* logout of a page, and fetchJson of a page whose request was refused.
Leave(t) ==
  /\ tab[t].page = "protected" /\ Free(t, "logout")
  /\ Becomes([Now EXCEPT !.pending[t]["logout"] = Reply("left")])
  /\ UNCHANGED <<cookie, seen, chosen, handled>>

\* clearAuthCookies, unless the request failed; then the page goes to the login.
LogoutAnswered(t) ==
  LET a == pending[t]["logout"]
      s == Leaves(Now, t, a.kind = "expired")
  IN
  /\ a # Nothing
  /\ cookie' \in {cookie, [session |-> None, idle |-> NoToken, acts |-> NoOne]}
  /\ Becomes(IF a.kind = "expired" THEN [s EXCEPT !.storage.expired = TRUE] ELSE s)
  /\ UNCHANGED <<seen, chosen, handled>>

\* An administrator begins to look after a member, or ends it.
Impersonate(t) ==
  /\ tab[t].page = "protected" /\ SignedIn /\ cookie.session \in Admin
  /\ Free(t, "call")
  /\ \E m \in Target \union {None} :
       /\ pending' = [pending EXCEPT ![t]["call"] =
            [Reply("acts") EXCEPT
               !.acts = IF m = None THEN NoOne
                        ELSE [actor |-> cookie.session, target |-> m]]]
       /\ chosen' = IF m = None THEN chosen
                    ELSE [chosen EXCEPT ![cookie.session] = @ \union {m}]
  /\ UNCHANGED <<cookie, storage, tab, seen, handled, setBack>>

Impersonated(t) ==
  /\ pending[t]["call"].kind = "acts"
  /\ cookie' = [cookie EXCEPT !.acts = pending[t]["call"].acts]
  /\ pending' = [pending EXCEPT ![t]["call"] = Nothing]
  /\ UNCHANGED <<storage, tab>> /\ UNCHANGED History

\* The longer times of the other two cookies run out.
RunOut ==
  /\ cookie' \in {[cookie EXCEPT !.session = None], [cookie EXCEPT !.acts = NoOne]}
  /\ cookie' # cookie
  /\ UNCHANGED <<storage, tab, pending>> /\ UNCHANGED History

----------------------------------------------------------------------------
Older(age) == IF age < Timeout THEN age + 1 ELSE Timeout
Runs(token) == [token EXCEPT !.left = IF @ = 0 THEN 0 ELSE @ - 1]

\* The timers of the guards run every second, long before a unit is over.
Tick ==
  /\ \A t \in Tab : ~ (Guarding(t) /\ tab[t].age = Timeout)
  /\ cookie' = [cookie EXCEPT !.idle = IF @.left <= 1 THEN NoToken ELSE Runs(@)]
  /\ storage' = [storage EXCEPT !.age = Older(@)]
  /\ tab' = [t \in Tab |->
       IF tab[t].page = "login" THEN tab[t]
       ELSE [tab[t] EXCEPT !.age = Older(@), !.due = TRUE,
                           !.extends = IF @ = None THEN None ELSE Older(@)]]
  /\ pending' = [t \in Tab |-> [c \in Caller |->
       [pending[t][c] EXCEPT !.token = Runs(@)]]]
  /\ seen' = [u \in Account |-> Older(seen[u])]
  /\ handled' = Older(handled)
  /\ UNCHANGED <<chosen, setBack>>

Next ==
  \/ \E t \in Tab :
       \/ \E u \in Account : LogIn(t, u)
       \/ LoggedIn(t) \/ Mount(t) \/ Touch(t) \/ Extend(t) \/ RefreshAnswered(t)
       \/ RefreshFailed(t) \/ CheckIdle(t) \/ Leave(t) \/ LogoutAnswered(t)
       \/ Impersonate(t) \/ Impersonated(t)
  \/ RunOut \/ Tick

Spec == Init /\ [][Next]_vars

\* A session that the server accepts is of a user who logged in or refreshed it
\* less than the idle timeout ago, however late the answer came, whatever tab
\* asked, and whatever other session the browser had in between (docs/06: the
\* idle session is extended only by refreshes).
IdleBound == \A u \in Account : Active(u) => seen[u] < Timeout

\* Whoever is served as somebody else is an administrator who chose to look
\* after this member: a cookie that outlives a login as another user, or comes
\* with an answer to the session before, gives nobody another's data.
ChosenImpersonation ==
  \A u \in Account : Active(u) =>
    Effective(u) = u \/ (u \in Admin /\ Effective(u) \in chosen[u])

\* No guard ends the session for idleness while the user is active in any tab.
\* The exception lasts from an extension whose refresh took so long that it
\* replaced the activity of another tab by its own older one (extendSession) to
\* the next activity or login.
NoEarlyTimeout ==
  [][\A t \in Tab : CheckIdle(t) => handled = Timeout \/ setBack]_vars
=============================================================================
