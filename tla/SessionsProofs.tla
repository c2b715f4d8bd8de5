--------------------------- MODULE SessionsProofs ---------------------------
(* Theorems about Sessions, for any number of tabs, users, administrators    *)
(* and members, any time-out and any number of answers under way.            *)
EXTENDS Sessions, TLAPS

\* An answer whose token is no younger than what was served, and whose member
\* was chosen by the administrator it names.
Owed(token, sn) == token = NoToken \/ sn[token.user] + token.left <= Timeout
Meant(acts, ch) == acts = NoOne \/ acts.target \in ch[acts.actor]
Sound(sn, ch) == {a \in Answer : Owed(a.token, sn) /\ Meant(a.acts, ch)}

\* The inductive invariant: tokens and choices are sound wherever they are.
SessionInv ==
  /\ TypeOK
  /\ Owed(cookie.idle, seen) /\ Meant(cookie.acts, chosen)
  /\ pending \in [Tab -> [Caller -> Sound(seen, chosen)]]

\* What a guard works on, with answers from A.
Guards(A) ==
  [tab : [Tab -> Page], storage : [age : Age, expired : BOOLEAN],
   pending : [Tab -> [Caller -> A]], setBack : BOOLEAN]

----------------------------------------------------------------------------
LEMMA Basics ==
  /\ 0 \in Age /\ Timeout \in Age
  /\ NoToken \in Token /\ NoOne \in Acting
  /\ \A u \in Account : Fresh(u) \in Token /\ Fresh(u) # NoToken
  /\ \A k \in {"none", "renewed", "unauthorized", "login", "acts", "expired", "left"} :
       Reply(k) = [kind |-> k, token |-> NoToken, acts |-> NoOne] /\ Reply(k) \in Answer
  /\ Nothing \in Answer /\ Closed \in Page
BY SessionsAssumption DEF Age, NoToken, NoOne, Token, Acting, Fresh, Reply, Nothing, Answer, Closed, Page

\* A record of a user is a token of somebody.
LEMMA TokensNamed ==
  ASSUME NEW k \in Token, k # NoToken
  PROVE  k.user \in Account /\ k.left \in Age
BY DEF Token

LEMMA PlainSound ==
  ASSUME NEW sn, NEW ch,
         NEW k \in {"none", "renewed", "unauthorized", "login", "acts", "expired", "left"}
  PROVE  Reply(k) \in Sound(sn, ch) /\ Nothing \in Sound(sn, ch)
BY Basics DEF Sound, Owed, Meant, Nothing

\* A login or refresh served makes no answer unsound, nor does a choice.
LEMMA SoundStays ==
  ASSUME NEW sn \in [Account -> Age], NEW sm \in [Account -> Age],
         NEW ch \in [Admin -> SUBSET Target], NEW ci \in [Admin -> SUBSET Target],
         \A u \in Account : sm[u] <= sn[u],
         \A u \in Admin : ch[u] \subseteq ci[u]
  PROVE  /\ \A k \in Token : Owed(k, sn) => Owed(k, sm)
         /\ \A x \in Acting : Meant(x, ch) => Meant(x, ci)
         /\ Sound(sn, ch) \subseteq Sound(sm, ci)
<1>1. ASSUME NEW k \in Token, Owed(k, sn) PROVE Owed(k, sm)
  <2>1. CASE k = NoToken
    BY <2>1 DEF Owed
  <2>2. CASE k # NoToken
    BY <1>1, <2>2, TokensNamed, SessionsAssumption DEF Owed, Age
  <2> QED BY <2>1, <2>2
<1>2. ASSUME NEW x \in Acting, Meant(x, ch) PROVE Meant(x, ci)
  BY <1>2 DEF Meant, Acting
<1> QED BY <1>1, <1>2 DEF Sound, Answer

----------------------------------------------------------------------------
\* One field of a page, one answer, one function of tabs at a time.
LEMMA OnePage ==
  ASSUME NEW f \in [Tab -> Page], NEW t \in Tab, NEW x \in Age \union {None}, NEW b \in BOOLEAN
  PROVE  /\ [f EXCEPT ![t].extends = x] \in [Tab -> Page]
         /\ [f EXCEPT ![t].due = b] \in [Tab -> Page]
         /\ [f EXCEPT ![t].out = b] \in [Tab -> Page]
BY DEF Page

LEMMA OneAnswer ==
  ASSUME NEW A, NEW f \in [Tab -> [Caller -> A]], NEW t \in Tab, NEW a \in A
  PROVE  /\ [f EXCEPT ![t]["refresh"] = a] \in [Tab -> [Caller -> A]]
         /\ [f EXCEPT ![t]["call"] = a] \in [Tab -> [Caller -> A]]
         /\ [f EXCEPT ![t]["logout"] = a] \in [Tab -> [Caller -> A]]
BY DEF Caller

\* What the guards do keeps the types, whatever set of answers they are among.
LEMMA GuardsActive ==
  ASSUME NEW A, NEW s \in Guards(A), NEW t \in Tab, NEW age \in Age
  PROVE  SetActive(s, t, age) \in Guards(A)
<1> DEFINE f == [u \in Tab |->
       IF u = t THEN [s.tab[u] EXCEPT !.age = age]
       ELSE IF Guarding(u) THEN [s.tab[u] EXCEPT !.age = Younger(@, age)]
       ELSE s.tab[u]]
       b == s.setBack \/ age > s.storage.age
       g == [s.storage EXCEPT !.age = age]
<1>1. ASSUME NEW u \in Tab PROVE f[u] \in Page
  <2>1. s.tab[u] \in Page /\ \A a \in Age : Younger(a, age) \in Age
    BY DEF Guards, Younger
  <2>2. \A p \in Page : p.age \in Age /\ \A a \in Age : [p EXCEPT !.age = a] \in Page
    BY DEF Page
  <2> QED BY <2>1, <2>2
<1>2. f \in [Tab -> Page]
  BY <1>1
<1>3. SetActive(s, t, age) = [s EXCEPT !.storage = g, !.setBack = b, !.tab = f]
  BY DEF SetActive, Guards
<1>4. b \in BOOLEAN
  OBVIOUS
<1>5. g \in [age : Age, expired : BOOLEAN]
  BY DEF Guards
<1> HIDE DEF f, b, g
<1> QED BY <1>2, <1>3, <1>4, <1>5 DEF Guards

LEMMA GuardsExtended ==
  ASSUME NEW A, NEW s \in Guards(A), NEW t \in Tab
  PROVE  Extended(s, t) \in Guards(A)
<1>1. CASE s.tab[t].extends = None
  BY <1>1 DEF Extended
<1>2. CASE s.tab[t].extends # None
  <2> DEFINE r == SetActive(s, t, s.tab[t].extends)
             f == [r.tab EXCEPT ![t].extends = None]
  <2>0. s.tab[t].extends \in Age
    BY <1>2 DEF Guards, Page
  <2>1. r \in Guards(A)
    BY <2>0, GuardsActive
  <2>2. Extended(s, t) = [r EXCEPT !.tab = f]
    BY <1>2 DEF Extended
  <2> HIDE DEF r
  <2>3. f \in [Tab -> Page]
    BY <2>1, OnePage DEF Guards
  <2> HIDE DEF f
  <2> QED BY <2>1, <2>2, <2>3 DEF Guards
<1> QED BY <1>1, <1>2

LEMMA GuardsRefresh ==
  ASSUME NEW A, NEW s \in Guards(A), NEW t \in Tab,
         Reply("unauthorized") \in A,
         SignedIn => [Reply("renewed") EXCEPT !.token = Fresh(cookie.session)] \in A
  PROVE  Refreshes(s, t) \in Guards(A)
<1> DEFINE r == Extended(s, t)
           a == IF SignedIn THEN [Reply("renewed") EXCEPT !.token = Fresh(cookie.session)]
                ELSE Reply("unauthorized")
           f == [r.tab EXCEPT ![t].due = FALSE]
           g == [r.pending EXCEPT ![t]["refresh"] = a]
<1>1. r \in Guards(A) /\ a \in A
  BY GuardsExtended
<1>2. Refreshes(s, t) = [r EXCEPT !.tab = f, !.pending = g]
  BY DEF Refreshes
<1> HIDE DEF r, a
<1>3. r.tab \in [Tab -> Page] /\ r.pending \in [Tab -> [Caller -> A]]
  BY <1>1 DEF Guards
<1>4. f \in [Tab -> Page]
  BY <1>3, OnePage
<1>5. g \in [Tab -> [Caller -> A]]
  BY <1>1, <1>3, OneAnswer
<1> HIDE DEF f, g
<1> QED BY <1>1, <1>2, <1>4, <1>5 DEF Guards

LEMMA GuardsExpire ==
  ASSUME NEW A, NEW s \in Guards(A), NEW t \in Tab, Reply("expired") \in A
  PROVE  MarkExpired(s, t) \in Guards(A)
<1> DEFINE f == [s.tab EXCEPT ![t].out = TRUE]
           e == [s.storage EXCEPT !.expired = TRUE]
           g == [s.pending EXCEPT ![t]["logout"] = Reply("expired")]
           r == [s EXCEPT !.tab = f, !.storage = e, !.pending = g]
<1>1. MarkExpired(s, t) = s \/ MarkExpired(s, t) = r
  BY DEF MarkExpired
<1>2. s.tab \in [Tab -> Page] /\ s.pending \in [Tab -> [Caller -> A]]
  BY DEF Guards
<1>3. f \in [Tab -> Page]
  BY <1>2, OnePage
<1>4. g \in [Tab -> [Caller -> A]]
  BY <1>2, OneAnswer
<1>5. e \in [age : Age, expired : BOOLEAN]
  BY DEF Guards
<1> HIDE DEF f, g, e
<1>6. r \in Guards(A)
  BY <1>3, <1>4, <1>5 DEF Guards
<1> QED BY <1>1, <1>6

LEMMA GuardsLeave ==
  ASSUME NEW A, NEW s \in Guards(A), NEW t \in Tab, NEW anew \in BOOLEAN, Nothing \in A
  PROVE  Leaves(s, t, anew) \in Guards(A)
<1> DEFINE f == [s.tab EXCEPT ![t] = Closed]
           x == IF anew THEN Nothing ELSE s.pending[t]["call"]
           g == [s.pending EXCEPT ![t]["refresh"] = Nothing, ![t]["logout"] = Nothing,
                                  ![t]["call"] = x]
<1>1. Leaves(s, t, anew) = [s EXCEPT !.tab = f, !.pending = g]
  BY DEF Leaves
<1>2. f \in [Tab -> Page]
  BY Basics DEF Guards
<1>3. x \in A
  BY DEF Guards, Caller
<1> HIDE DEF x
<1> DEFINE h == [s.pending EXCEPT ![t]["refresh"] = Nothing]
           k == [h EXCEPT ![t]["logout"] = Nothing]
<1>4. h \in [Tab -> [Caller -> A]]
  BY OneAnswer DEF Guards
<1>5. k \in [Tab -> [Caller -> A]]
  <2> HIDE DEF h
  <2> QED BY <1>4, OneAnswer
<1>6. g \in [Tab -> [Caller -> A]]
  <2>1. g = [k EXCEPT ![t]["call"] = x]
    BY <1>4, <1>5
  <2> HIDE DEF g, k
  <2> QED BY <1>3, <1>5, <2>1, OneAnswer
<1> HIDE DEF f, g
<1> QED BY <1>1, <1>2, <1>6 DEF Guards
----------------------------------------------------------------------------
\* Before a step: all there is stays sound by what the step serves or chooses.
LEMMA NowSound ==
  ASSUME SessionInv,
         seen' \in [Account -> Age], chosen' \in [Admin -> SUBSET Target],
         \A u \in Account : seen'[u] <= seen[u],
         \A u \in Admin : chosen[u] \subseteq chosen'[u]
  PROVE  /\ Now \in Guards(Sound(seen', chosen'))
         /\ Owed(cookie.idle, seen') /\ Meant(cookie.acts, chosen')
<1>1. /\ Sound(seen, chosen) \subseteq Sound(seen', chosen')
      /\ Owed(cookie.idle, seen') /\ Meant(cookie.acts, chosen')
  BY SoundStays DEF SessionInv, TypeOK
<1> QED BY <1>1 DEF Now, Guards, SessionInv, TypeOK

\* After it.
LEMMA BecomesSound ==
  ASSUME NEW s, s \in Guards(Sound(seen', chosen')), Becomes(s)
  PROVE  /\ tab' \in [Tab -> Page] /\ storage' \in [age : Age, expired : BOOLEAN]
         /\ pending' \in [Tab -> [Caller -> Answer]] /\ setBack' \in BOOLEAN
         /\ pending' \in [Tab -> [Caller -> Sound(seen', chosen')]]
BY DEF Guards, Becomes, Sound

\* A refresh gives a token of the user whom it serves now.
LEMMA RefreshSound ==
  ASSUME SessionInv, seen' = Renewed, NEW ch
  PROVE  /\ seen' \in [Account -> Age] /\ \A u \in Account : seen'[u] <= seen[u]
         /\ SignedIn => [Reply("renewed") EXCEPT !.token = Fresh(cookie.session)]
                           \in Sound(seen', ch)
<1>1. seen' \in [Account -> Age] /\ \A u \in Account : seen'[u] <= seen[u]
  <2>1. seen \in [Account -> 0 .. Timeout]
    BY DEF SessionInv, TypeOK, Age
  <2>2. CASE SignedIn
    BY <2>1, <2>2, SessionsAssumption DEF Renewed, Age, SignedIn, Active
  <2>3. CASE ~ SignedIn
    BY <2>1, <2>3, SessionsAssumption DEF Renewed, Age
  <2> QED BY <2>2, <2>3
<1>2. ASSUME NEW c \in Account, SignedIn, c = cookie.session
      PROVE  [Reply("renewed") EXCEPT !.token = Fresh(c)] \in Sound(seen', ch)
  <2>1. seen'[c] = 0
    BY <1>2 DEF Renewed, SessionInv, TypeOK
  <2>2. Owed(Fresh(c), seen')
    BY <2>1, SessionsAssumption DEF Owed, Fresh
  <2>3. [Reply("renewed") EXCEPT !.token = Fresh(c)]
          = [kind |-> "renewed", token |-> Fresh(c), acts |-> NoOne]
    BY Basics
  <2> QED BY <2>2, <2>3, Basics DEF Sound, Answer, Meant
<1>3. SignedIn => cookie.session \in Account
  BY DEF SignedIn, Active
<1> QED BY <1>1, <1>2, <1>3

----------------------------------------------------------------------------
\* What a step has to leave behind, part by part.
CookieSound ==
  /\ cookie \in [session : Account \union {None}, idle : Token, acts : Acting]
  /\ cookie.idle # NoToken => cookie.idle.left > 0
  /\ Owed(cookie.idle, seen) /\ Meant(cookie.acts, chosen)
TabsSound ==
  /\ tab \in [Tab -> Page] /\ storage \in [age : Age, expired : BOOLEAN]
  /\ pending \in [Tab -> [Caller -> Sound(seen, chosen)]] /\ setBack \in BOOLEAN
HistorySound ==
  /\ seen \in [Account -> Age] /\ chosen \in [Admin -> SUBSET Target]
  /\ handled \in Age

LEMMA Parts == SessionInv <=> CookieSound /\ TabsSound /\ HistorySound
BY DEF SessionInv, TypeOK, CookieSound, TabsSound, HistorySound, Sound

LEMMA PartsNext ==
  ASSUME CookieSound', TabsSound', HistorySound'
  PROVE  SessionInv'
BY DEF SessionInv, TypeOK, CookieSound, TabsSound, HistorySound, Sound

\* The guard's step, in these terms.
LEMMA TabsBecome ==
  ASSUME NEW s, s \in Guards(Sound(seen', chosen')), Becomes(s)
  PROVE  TabsSound'
BY DEF Guards, Becomes, TabsSound

LEMMA Kept ==
  ASSUME SessionInv, UNCHANGED cookie,
         seen' \in [Account -> Age], chosen' \in [Admin -> SUBSET Target],
         \A u \in Account : seen'[u] <= seen[u],
         \A u \in Admin : chosen[u] \subseteq chosen'[u]
  PROVE  CookieSound'
BY NowSound DEF CookieSound, SessionInv, TypeOK

\* Nothing is younger than itself, and every choice holds that was made.
LEMMA Same ==
  ASSUME SessionInv, UNCHANGED <<seen, chosen>>
  PROVE  /\ seen' \in [Account -> Age] /\ chosen' \in [Admin -> SUBSET Target]
         /\ \A u \in Account : seen'[u] <= seen[u]
         /\ \A u \in Admin : chosen[u] \subseteq chosen'[u]
BY SessionsAssumption DEF SessionInv, TypeOK, Age

LEMMA InitSound == Init => SessionInv
<1> SUFFICES ASSUME Init PROVE SessionInv
  OBVIOUS
<1>1. CookieSound
  BY Basics DEF Init, CookieSound, Owed, Meant
<1>2. Nothing \in Sound(seen, chosen)
  BY PlainSound
<1>3. pending \in [Tab -> [Caller -> Sound(seen, chosen)]]
  BY <1>2 DEF Init
<1>4. tab \in [Tab -> Page]
  BY Basics DEF Init
<1>5. TabsSound /\ HistorySound
  BY <1>3, <1>4, Basics DEF Init, TabsSound, HistorySound
<1> QED BY <1>1, <1>5, Parts

LEMMA LogInSound ==
  ASSUME SessionInv, NEW t \in Tab, NEW u \in Account, LogIn(t, u)
  PROVE  SessionInv'
<1> DEFINE a == [Reply("login") EXCEPT !.token = Fresh(u)]
<1>1. seen' = [seen EXCEPT ![u] = 0] /\ UNCHANGED <<cookie, storage, tab, chosen, handled, setBack>>
  BY DEF LogIn
<1>2. /\ seen' \in [Account -> Age] /\ chosen' \in [Admin -> SUBSET Target]
      /\ \A w \in Account : seen'[w] <= seen[w]
      /\ \A w \in Admin : chosen[w] \subseteq chosen'[w]
  <2>1. seen \in [Account -> 0 .. Timeout]
    BY DEF SessionInv, TypeOK, Age
  <2> QED BY <1>1, <2>1, SessionsAssumption DEF SessionInv, TypeOK, Age
<1>3. Now \in Guards(Sound(seen', chosen'))
  BY <1>2, NowSound
<1>4. a \in Sound(seen', chosen')
  <2>1. a = [kind |-> "login", token |-> Fresh(u), acts |-> NoOne]
    BY Basics
  <2>2. Owed(Fresh(u), seen')
    BY <1>1, SessionsAssumption DEF Owed, Fresh, SessionInv, TypeOK
  <2> QED BY <2>1, <2>2, Basics DEF Sound, Answer, Meant
<1>5. pending' = [pending EXCEPT ![t]["call"] = a]
  BY DEF LogIn
<1> HIDE DEF a
<1>6. pending' \in [Tab -> [Caller -> Sound(seen', chosen')]]
  BY <1>3, <1>4, <1>5, OneAnswer DEF Guards, Now
<1>7. CookieSound'
  BY <1>1, <1>2, Kept
<1>8. TabsSound' /\ HistorySound'
  BY <1>1, <1>2, <1>6 DEF TabsSound, HistorySound, SessionInv, TypeOK
<1> QED BY <1>7, <1>8, PartsNext

\* The answer that a tab takes is sound.
LEMMA Taken ==
  ASSUME SessionInv, NEW t \in Tab, NEW c \in Caller
  PROVE  /\ pending[t][c] \in Sound(seen, chosen)
         /\ pending[t][c] \in Answer
         /\ Owed(pending[t][c].token, seen) /\ Meant(pending[t][c].acts, chosen)
         /\ pending[t][c].token \in Token /\ pending[t][c].acts \in Acting
BY DEF SessionInv, Sound, Answer

\* A token is not kept when its time is over.
LEMMA Kicks ==
  ASSUME NEW k \in Token, NEW sn, Owed(k, sn)
  PROVE  LET x == IF k.left = 0 THEN NoToken ELSE k
         IN  x \in Token /\ Owed(x, sn) /\ (x # NoToken => x.left > 0)
<1>1. CASE k = NoToken
  BY <1>1, Basics DEF Owed, NoToken
<1>2. CASE k # NoToken
  BY <1>2, TokensNamed, Basics, SessionsAssumption DEF Owed, Age
<1> QED BY <1>1, <1>2

LEMMA LoggedInSound ==
  ASSUME SessionInv, NEW t \in Tab, LoggedIn(t)
  PROVE  SessionInv'
<1> DEFINE a == pending[t]["call"]
           x == IF a.token.left = 0 THEN NoToken ELSE a.token
           f == [u \in Tab |-> IF Guarding(u) THEN [tab[u] EXCEPT !.age = 0] ELSE tab[u]]
<1>1. UNCHANGED <<seen, chosen>> /\ setBack' = FALSE
  BY DEF LoggedIn
<1>2. Owed(a.token, seen) /\ a.token \in Token
  BY Taken DEF Caller
<1>3. a.token.user \in Account \union {None}
  BY <1>2 DEF Token, NoToken
<1>4. x \in Token /\ Owed(x, seen) /\ (x # NoToken => x.left > 0)
  BY <1>2, Kicks
<1>5. cookie' = [cookie EXCEPT !.session = a.token.user, !.idle = x]
  BY DEF LoggedIn
<1>6. /\ tab' = f /\ storage' = [age |-> 0, expired |-> FALSE] /\ handled' = 0
      /\ pending' = [pending EXCEPT ![t]["call"] = Nothing]
  BY DEF LoggedIn
<1>7. CookieSound'
  <2> HIDE DEF x, a
  <2> QED BY <1>1, <1>3, <1>4, <1>5 DEF CookieSound, SessionInv, TypeOK
<1>8. f \in [Tab -> Page]
  <2>1. ASSUME NEW u \in Tab PROVE f[u] \in Page
    BY Basics DEF SessionInv, TypeOK, Page
  <2> QED BY <2>1
<1>9. pending' \in [Tab -> [Caller -> Sound(seen, chosen)]]
  BY <1>6, PlainSound, OneAnswer DEF SessionInv
<1>10. TabsSound' /\ HistorySound'
  <2> HIDE DEF f
  <2> QED BY <1>1, <1>6, <1>8, <1>9, Basics DEF TabsSound, HistorySound, SessionInv, TypeOK
<1> QED BY <1>7, <1>10, PartsNext

LEMMA MountSound ==
  ASSUME SessionInv, NEW t \in Tab, Mount(t)
  PROVE  SessionInv'
<1>1. tab' = [tab EXCEPT ![t].page = "protected", ![t].age = storage.age]
      /\ UNCHANGED <<cookie, storage, pending, seen, chosen, handled, setBack>>
  BY DEF Mount, History
<1>2. tab' \in [Tab -> Page]
  <2> DEFINE r == [tab[t] EXCEPT !.page = "protected", !.age = storage.age]
  <2>1. tab' = [tab EXCEPT ![t] = r]
    BY <1>1
  <2>2. tab \in [Tab -> Page] /\ tab[t] \in Page /\ storage.age \in Age
    BY DEF SessionInv, TypeOK
  <2>3. r \in Page
    BY <2>2 DEF Page
  <2> HIDE DEF r
  <2> QED BY <2>1, <2>2, <2>3
<1> QED BY <1>1, <1>2, PartsNext DEF CookieSound, TabsSound, HistorySound, SessionInv, TypeOK

\* A step of the guard that changes no cookie and no history but seen.
LEMMA GuardSound ==
  ASSUME SessionInv, NEW s, s \in Guards(Sound(seen', chosen')), Becomes(s),
         UNCHANGED <<cookie, chosen>>, handled' \in Age,
         seen' \in [Account -> Age], \A u \in Account : seen'[u] <= seen[u]
  PROVE  SessionInv'
<1>1. chosen' \in [Admin -> SUBSET Target] /\ \A u \in Admin : chosen[u] \subseteq chosen'[u]
  BY DEF SessionInv, TypeOK
<1>2. CookieSound'
  BY <1>1, Kept
<1>3. TabsSound'
  BY TabsBecome
<1> QED BY <1>1, <1>2, <1>3, PartsNext DEF HistorySound

LEMMA TouchSound ==
  ASSUME SessionInv, NEW t \in Tab, Touch(t)
  PROVE  SessionInv'
<1> DEFINE a == SetActive(Now, t, 0)
           s == [a EXCEPT !.setBack = FALSE]
<1>0. ASSUME NEW A, Now \in Guards(A) PROVE s \in Guards(A)
  <2>1. a \in Guards(A)
    BY <1>0, GuardsActive, Basics
  <2> HIDE DEF a
  <2> QED BY <2>1 DEF Guards
<1>1. UNCHANGED <<cookie, chosen>> /\ handled' \in Age
  BY Basics DEF Touch
<1>2. CASE tab[t].due
  <2>1. Becomes(Refreshes(s, t)) /\ seen' = Renewed
    BY <1>2 DEF Touch
  <2>2. /\ seen' \in [Account -> Age] /\ \A u \in Account : seen'[u] <= seen[u]
        /\ SignedIn => [Reply("renewed") EXCEPT !.token = Fresh(cookie.session)]
                          \in Sound(seen', chosen')
    BY <2>1, RefreshSound
  <2>3. Now \in Guards(Sound(seen', chosen'))
    BY <1>1, <2>2, NowSound DEF SessionInv, TypeOK
  <2>4. s \in Guards(Sound(seen', chosen'))
    BY <2>3, <1>0
  <2>5. Refreshes(s, t) \in Guards(Sound(seen', chosen'))
    <3> HIDE DEF s
    <3> QED BY <2>2, <2>4, GuardsRefresh, PlainSound
  <2> QED BY <1>1, <2>1, <2>2, <2>5, GuardSound
<1>3. CASE ~ tab[t].due
  <2>1. Becomes(s) /\ UNCHANGED seen
    BY <1>3 DEF Touch
  <2>2. Now \in Guards(Sound(seen', chosen'))
    BY <1>1, <2>1, Same, NowSound
  <2>3. s \in Guards(Sound(seen', chosen'))
    BY <2>2, <1>0
  <2> QED BY <1>1, <2>1, <2>3, Same, GuardSound
<1> QED BY <1>2, <1>3

LEMMA ExtendSound ==
  ASSUME SessionInv, NEW t \in Tab, Extend(t)
  PROVE  SessionInv'
<1>1. UNCHANGED <<cookie, chosen>> /\ handled' \in Age
  BY DEF Extend, SessionInv, TypeOK
<1>2. CASE tab[t].due
  <2> DEFINE r == Refreshes(Now, t)
             f == [r.tab EXCEPT ![t].extends = 0]
             s == [r EXCEPT !.tab = f]
  <2>1. Becomes(s) /\ seen' = Renewed
    BY <1>2 DEF Extend
  <2>2. /\ seen' \in [Account -> Age] /\ \A u \in Account : seen'[u] <= seen[u]
        /\ SignedIn => [Reply("renewed") EXCEPT !.token = Fresh(cookie.session)]
                          \in Sound(seen', chosen')
    BY <2>1, RefreshSound
  <2>3. Now \in Guards(Sound(seen', chosen'))
    BY <1>1, <2>2, NowSound DEF SessionInv, TypeOK
  <2>4. r \in Guards(Sound(seen', chosen'))
    BY <2>2, <2>3, GuardsRefresh, PlainSound
  <2> HIDE DEF r
  <2>5. f \in [Tab -> Page]
    BY <2>4, OnePage, Basics DEF Guards
  <2> HIDE DEF f
  <2>6. s \in Guards(Sound(seen', chosen'))
    BY <2>4, <2>5 DEF Guards
  <2> HIDE DEF s
  <2> QED BY <1>1, <2>1, <2>2, <2>6, GuardSound
<1>3. CASE ~ tab[t].due
  <2>1. Becomes(SetActive(Now, t, 0)) /\ UNCHANGED seen
    BY <1>3 DEF Extend
  <2>2. Now \in Guards(Sound(seen', chosen'))
    BY <1>1, <2>1, Same, NowSound
  <2>3. SetActive(Now, t, 0) \in Guards(Sound(seen', chosen'))
    BY <2>2, GuardsActive, Basics
  <2> QED BY <1>1, <2>1, <2>3, Same, GuardSound
<1> QED BY <1>2, <1>3

\* The guards without one answer.
LEMMA NowWithout ==
  ASSUME SessionInv, UNCHANGED <<seen, chosen>>, NEW t \in Tab, NEW c \in Caller,
         NEW a \in Sound(seen, chosen)
  PROVE  [Now EXCEPT !.pending[t][c] = a] \in Guards(Sound(seen', chosen'))
<1> DEFINE g == [pending EXCEPT ![t][c] = a]
<1>1. Now \in Guards(Sound(seen', chosen'))
  BY Same, NowSound
<1>2. g \in [Tab -> [Caller -> Sound(seen, chosen)]]
  BY DEF SessionInv
<1>3. [Now EXCEPT !.pending[t][c] = a] = [Now EXCEPT !.pending = g]
  BY DEF Now
<1> HIDE DEF g
<1> QED BY <1>1, <1>2, <1>3 DEF Guards

LEMMA RefreshAnsweredSound ==
  ASSUME SessionInv, NEW t \in Tab, RefreshAnswered(t)
  PROVE  SessionInv'
<1> DEFINE a == pending[t]["refresh"]
           s == [Now EXCEPT !.pending[t]["refresh"] = Nothing]
           x == IF a.token.left = 0 THEN NoToken ELSE a.token
<1>1. UNCHANGED <<seen, chosen, handled>>
  BY DEF RefreshAnswered
<1>2. s \in Guards(Sound(seen', chosen'))
  BY <1>1, NowWithout, PlainSound DEF Caller
<1>3. HistorySound'
  BY <1>1 DEF HistorySound, SessionInv, TypeOK
<1>4. CASE cookie' = [cookie EXCEPT !.idle = x] /\ Becomes(Extended(s, t))
  <2>1. TabsSound'
    <3> HIDE DEF s
    <3> QED BY <1>2, <1>4, GuardsExtended, TabsBecome
  <2>2. Owed(a.token, seen) /\ a.token \in Token
    BY Taken DEF Caller
  <2>3. x \in Token /\ Owed(x, seen) /\ (x # NoToken => x.left > 0)
    BY <2>2, Kicks
  <2>4. CookieSound'
    <3> HIDE DEF x
    <3> QED BY <1>1, <1>4, <2>3 DEF CookieSound, SessionInv, TypeOK
  <2> QED BY <1>3, <2>1, <2>4, PartsNext
<1>5. CASE UNCHANGED cookie /\ Becomes(Extended(MarkExpired(s, t), t))
  <2>1. MarkExpired(s, t) \in Guards(Sound(seen', chosen'))
    <3> HIDE DEF s
    <3> QED BY <1>2, GuardsExpire, PlainSound
  <2>2. TabsSound'
    <3> DEFINE r == MarkExpired(s, t)
    <3> HIDE DEF r
    <3> QED BY <1>5, <2>1, GuardsExtended, TabsBecome DEF r
  <2>3. CookieSound'
    BY <1>1, <1>5, Same, Kept
  <2> QED BY <1>3, <2>2, <2>3, PartsNext
<1> QED BY <1>4, <1>5 DEF RefreshAnswered

LEMMA RefreshFailedSound ==
  ASSUME SessionInv, NEW t \in Tab, RefreshFailed(t)
  PROVE  SessionInv'
<1> DEFINE s == [Now EXCEPT !.pending[t]["refresh"] = Nothing]
<1>1. UNCHANGED <<cookie, seen, chosen, handled>> /\ Becomes(Extended(s, t))
  BY DEF RefreshFailed
<1>2. s \in Guards(Sound(seen', chosen'))
  BY <1>1, NowWithout, PlainSound DEF Caller
<1>3. Extended(s, t) \in Guards(Sound(seen', chosen'))
  <2> HIDE DEF s
  <2> QED BY <1>2, GuardsExtended
<1>4. handled' \in Age
  BY <1>1 DEF SessionInv, TypeOK
<1> QED BY <1>1, <1>3, <1>4, Same, GuardSound

LEMMA CheckIdleSound ==
  ASSUME SessionInv, NEW t \in Tab, CheckIdle(t)
  PROVE  SessionInv'
<1>1. UNCHANGED <<cookie, seen, chosen, handled>> /\ Becomes(MarkExpired(Now, t))
  BY DEF CheckIdle
<1>2. Now \in Guards(Sound(seen', chosen'))
  BY <1>1, Same, NowSound
<1>3. MarkExpired(Now, t) \in Guards(Sound(seen', chosen'))
  BY <1>2, GuardsExpire, PlainSound
<1>4. handled' \in Age
  BY <1>1 DEF SessionInv, TypeOK
<1> QED BY <1>1, <1>3, <1>4, Same, GuardSound

LEMMA LeaveSound ==
  ASSUME SessionInv, NEW t \in Tab, Leave(t)
  PROVE  SessionInv'
<1> DEFINE s == [Now EXCEPT !.pending[t]["logout"] = Reply("left")]
<1>1. UNCHANGED <<cookie, seen, chosen, handled>> /\ Becomes(s)
  BY DEF Leave
<1>2. s \in Guards(Sound(seen', chosen'))
  BY <1>1, NowWithout, PlainSound DEF Caller
<1>3. handled' \in Age
  BY <1>1 DEF SessionInv, TypeOK
<1> HIDE DEF s
<1> QED BY <1>1, <1>2, <1>3, Same, GuardSound

LEMMA LogoutAnsweredSound ==
  ASSUME SessionInv, NEW t \in Tab, LogoutAnswered(t)
  PROVE  SessionInv'
<1> DEFINE b == pending[t]["logout"].kind = "expired"
           s == Leaves(Now, t, b)
           r == [s EXCEPT !.storage.expired = TRUE]
<1>1. /\ UNCHANGED <<seen, chosen, handled>>
      /\ cookie' \in {cookie, [session |-> None, idle |-> NoToken, acts |-> NoOne]}
      /\ Becomes(IF b THEN r ELSE s)
  BY DEF LogoutAnswered
<1>2. Now \in Guards(Sound(seen', chosen'))
  BY <1>1, Same, NowSound
<1>3. s \in Guards(Sound(seen', chosen'))
  BY <1>2, GuardsLeave, PlainSound
<1>4. r \in Guards(Sound(seen', chosen'))
  <2> HIDE DEF s
  <2> QED BY <1>3 DEF Guards
<1>5. TabsSound'
  <2> HIDE DEF s, r, b
  <2> QED BY <1>1, <1>3, <1>4, TabsBecome
<1>6. CASE UNCHANGED cookie
  <2>1. CookieSound'
    BY <1>1, <1>6, Same, Kept
  <2> QED BY <1>1, <1>5, <2>1, PartsNext DEF HistorySound, SessionInv, TypeOK
<1>7. CASE cookie' = [session |-> None, idle |-> NoToken, acts |-> NoOne]
  <2>1. CookieSound'
    BY <1>7, Basics DEF CookieSound, Owed, Meant
  <2> QED BY <1>1, <1>5, <2>1, PartsNext DEF HistorySound, SessionInv, TypeOK
<1> QED BY <1>1, <1>6, <1>7

LEMMA ImpersonateSound ==
  ASSUME SessionInv, NEW t \in Tab, Impersonate(t)
  PROVE  SessionInv'
<1>1. cookie.session \in Admin /\ UNCHANGED <<cookie, storage, tab, seen, handled, setBack>>
  BY DEF Impersonate
<1>2. PICK m \in Target \union {None} :
        /\ pending' = [pending EXCEPT ![t]["call"] =
             [Reply("acts") EXCEPT
                !.acts = IF m = None THEN NoOne
                         ELSE [actor |-> cookie.session, target |-> m]]]
        /\ chosen' = IF m = None THEN chosen
                     ELSE [chosen EXCEPT ![cookie.session] = @ \union {m}]
  BY DEF Impersonate
<1> DEFINE x == IF m = None THEN NoOne ELSE [actor |-> cookie.session, target |-> m]
           a == [Reply("acts") EXCEPT !.acts = x]
<1>3. /\ seen' \in [Account -> Age] /\ chosen' \in [Admin -> SUBSET Target]
      /\ \A w \in Account : seen'[w] <= seen[w]
      /\ \A w \in Admin : chosen[w] \subseteq chosen'[w]
  <2>1. CASE m = None
    BY <1>1, <1>2, <2>1, Same
  <2>2. CASE m # None
    <3>1. chosen' = [chosen EXCEPT ![cookie.session] = @ \union {m}] /\ m \in Target
      BY <1>2, <2>2
    <3>2. chosen' \in [Admin -> SUBSET Target] /\ \A w \in Admin : chosen[w] \subseteq chosen'[w]
      BY <1>1, <3>1 DEF SessionInv, TypeOK
    <3>3. seen' \in [Account -> Age] /\ \A w \in Account : seen'[w] <= seen[w]
      BY <1>1, SessionsAssumption DEF SessionInv, TypeOK, Age
    <3> QED BY <3>2, <3>3
  <2> QED BY <2>1, <2>2
<1>4. Now \in Guards(Sound(seen', chosen'))
  BY <1>3, NowSound
<1>5. x \in Acting /\ Meant(x, chosen')
  <2>1. CASE m = None
    BY <2>1, Basics DEF Meant
  <2>2. CASE m # None
    <3>1. m \in chosen'[cookie.session]
      BY <1>1, <1>2, <2>2 DEF SessionInv, TypeOK
    <3> QED BY <1>1, <2>2, <3>1 DEF Meant, Acting
  <2> QED BY <2>1, <2>2
<1>6. a \in Sound(seen', chosen')
  <2> HIDE DEF x
  <2>1. a = [kind |-> "acts", token |-> NoToken, acts |-> x]
    BY Basics
  <2> QED BY <1>5, <2>1, Basics DEF Sound, Answer, Owed
<1>7. pending' = [pending EXCEPT ![t]["call"] = a]
  BY <1>2
<1> HIDE DEF a, x
<1>8. pending' \in [Tab -> [Caller -> Sound(seen', chosen')]]
  BY <1>4, <1>6, <1>7, OneAnswer DEF Guards, Now
<1>9. CookieSound'
  BY <1>1, <1>3, Kept
<1>10. TabsSound' /\ HistorySound'
  BY <1>1, <1>3, <1>8 DEF TabsSound, HistorySound, SessionInv, TypeOK
<1> QED BY <1>9, <1>10, PartsNext

LEMMA ImpersonatedSound ==
  ASSUME SessionInv, NEW t \in Tab, Impersonated(t)
  PROVE  SessionInv'
<1> DEFINE a == pending[t]["call"]
<1>1. /\ cookie' = [cookie EXCEPT !.acts = a.acts]
      /\ pending' = [pending EXCEPT ![t]["call"] = Nothing]
      /\ UNCHANGED <<storage, tab, seen, chosen, handled, setBack>>
  BY DEF Impersonated, History
<1>2. a.acts \in Acting /\ Meant(a.acts, chosen)
  BY Taken DEF Caller
<1> HIDE DEF a
<1>3. CookieSound'
  BY <1>1, <1>2 DEF CookieSound, SessionInv, TypeOK
<1>4. pending' \in [Tab -> [Caller -> Sound(seen, chosen)]]
  BY <1>1, PlainSound, OneAnswer DEF SessionInv
<1>5. TabsSound' /\ HistorySound'
  BY <1>1, <1>4 DEF TabsSound, HistorySound, SessionInv, TypeOK
<1> QED BY <1>3, <1>5, PartsNext

LEMMA RunOutSound ==
  ASSUME SessionInv, RunOut
  PROVE  SessionInv'
<1>1. /\ \/ cookie' = [cookie EXCEPT !.session = None]
         \/ cookie' = [cookie EXCEPT !.acts = NoOne]
      /\ UNCHANGED <<storage, tab, pending, seen, chosen, handled, setBack>>
  BY DEF RunOut, History
<1>2. CookieSound'
  BY <1>1, Basics DEF CookieSound, SessionInv, TypeOK, Meant
<1>3. TabsSound' /\ HistorySound'
  BY <1>1 DEF TabsSound, HistorySound, SessionInv, TypeOK
<1> QED BY <1>2, <1>3, PartsNext

\* A unit of time takes from a token what it adds to the age of a login.
LEMMA TokenRuns ==
  ASSUME NEW sn \in [Account -> Age], NEW sm,
         sm = [u \in Account |-> Older(sn[u])],
         NEW k \in Token, Owed(k, sn)
  PROVE  Runs(k) \in Token /\ Owed(Runs(k), sm)
<1>1. CASE k = NoToken
  BY <1>1, Basics DEF Runs, NoToken, Owed
<1>2. CASE k # NoToken
  <2>1. k \in [user : Account, left : Age]
    BY <1>2 DEF Token
  <2>2. Runs(k) = [user |-> k.user, left |-> IF k.left = 0 THEN 0 ELSE k.left - 1]
    BY <2>1 DEF Runs
  <2>3. k.user \in Account /\ k.left \in 0 .. Timeout /\ sn[k.user] \in 0 .. Timeout
    BY <2>1 DEF Age
  <2>4. (IF k.left = 0 THEN 0 ELSE k.left - 1) \in 0 .. Timeout
    BY <2>3, SessionsAssumption
  <2>5. Runs(k) \in Token
    BY <2>2, <2>3, <2>4 DEF Token, Age
  <2>6. sn[k.user] + k.left <= Timeout
    BY <1>2 DEF Owed
  <2>7. sm[k.user] = Older(sn[k.user])
    BY <2>3
  <2>8. sm[k.user] + (IF k.left = 0 THEN 0 ELSE k.left - 1) <= Timeout
    BY <2>3, <2>6, <2>7, SessionsAssumption DEF Older
  <2>9. Runs(k).user = k.user /\ Runs(k).left = IF k.left = 0 THEN 0 ELSE k.left - 1
    BY <2>2
  <2> QED BY <2>5, <2>8, <2>9 DEF Owed
<1> QED BY <1>1, <1>2

LEMMA TickSound ==
  ASSUME SessionInv, Tick
  PROVE  SessionInv'
<1>1. \A n \in Age : Older(n) \in Age
  BY SessionsAssumption DEF Older, Age
<1>2. seen' = [u \in Account |-> Older(seen[u])] /\ UNCHANGED <<chosen, setBack>>
  BY DEF Tick
<1>3. HistorySound'
  <2>1. seen' \in [Account -> Age]
    BY <1>1, <1>2 DEF SessionInv, TypeOK
  <2>2. handled' = Older(handled)
    BY DEF Tick
  <2> QED BY <1>1, <1>2, <2>1, <2>2 DEF HistorySound, SessionInv, TypeOK
<1>4. CookieSound'
  <2> DEFINE k == cookie.idle
             x == IF k.left <= 1 THEN NoToken ELSE Runs(k)
  <2>1. k \in Token /\ Owed(k, seen) /\ (k # NoToken => k.left > 0)
    BY DEF SessionInv, TypeOK
  <2>2. Runs(k) \in Token /\ Owed(Runs(k), seen')
    BY <1>2, <2>1, TokenRuns DEF SessionInv, TypeOK
  <2>3. cookie' = [cookie EXCEPT !.idle = x]
    BY DEF Tick
  <2>4. x \in Token /\ Owed(x, seen') /\ (x # NoToken => x.left > 0)
    <3>1. CASE x = NoToken
      BY <3>1, Basics DEF Owed
    <3>2. CASE x # NoToken
      <4>1. k # NoToken /\ x = Runs(k) /\ ~ (k.left <= 1)
        BY <3>2 DEF NoToken
      <4>2. k \in [user : Account, left : Age]
        BY <2>1, <4>1 DEF Token
      <4>3. Runs(k).left = k.left - 1 /\ k.left \in Nat
        BY <4>1, <4>2, SessionsAssumption DEF Runs, Age
      <4> QED BY <2>2, <4>1, <4>3
    <3> QED BY <3>1, <3>2
  <2> HIDE DEF x
  <2> QED BY <1>2, <2>3, <2>4 DEF CookieSound, SessionInv, TypeOK
<1>5. tab' \in [Tab -> Page]
  <2> DEFINE f(t) == IF tab[t].page = "login" THEN tab[t]
         ELSE [tab[t] EXCEPT !.age = Older(@), !.due = TRUE,
                             !.extends = IF @ = None THEN None ELSE Older(@)]
  <2>1. ASSUME NEW t \in Tab PROVE f(t) \in Page
    <3> DEFINE p == tab[t]
               x == IF p.extends = None THEN None ELSE Older(p.extends)
    <3>1. p \in Page /\ p.age \in Age /\ p.extends \in Age \union {None}
      BY DEF SessionInv, TypeOK, Page
    <3>2. Older(p.age) \in Age /\ x \in Age \union {None}
      BY <1>1, <3>1
    <3>3. f(t) = IF p.page = "login" THEN p
                 ELSE [p EXCEPT !.age = Older(p.age), !.due = TRUE, !.extends = x]
      BY <3>1 DEF Page
    <3> HIDE DEF p, x, f
    <3>4. [p EXCEPT !.age = Older(p.age), !.due = TRUE, !.extends = x] \in Page
      BY <3>1, <3>2 DEF Page
    <3> QED BY <3>1, <3>3, <3>4
  <2>2. tab' = [t \in Tab |-> f(t)]
    BY DEF Tick
  <2> HIDE DEF f
  <2> QED BY <2>1, <2>2
<1>6. pending' \in [Tab -> [Caller -> Sound(seen', chosen')]]
  <2> DEFINE g(t, c) == [pending[t][c] EXCEPT !.token = Runs(@)]
  <2>1. ASSUME NEW t \in Tab, NEW c \in Caller
        PROVE  g(t, c) \in Sound(seen', chosen')
    <3> DEFINE a == pending[t][c]
    <3>1. a \in Answer /\ Owed(a.token, seen) /\ Meant(a.acts, chosen) /\ a.token \in Token
      BY Taken
    <3>2. Runs(a.token) \in Token /\ Owed(Runs(a.token), seen')
      BY <1>2, <3>1, TokenRuns DEF SessionInv, TypeOK
    <3> HIDE DEF a
    <3>3. [a EXCEPT !.token = Runs(@)] \in Answer
      BY <3>1, <3>2 DEF Answer
    <3>4. /\ [a EXCEPT !.token = Runs(@)].token = Runs(a.token)
          /\ [a EXCEPT !.token = Runs(@)].acts = a.acts
      BY <3>1 DEF Answer
    <3>5. [a EXCEPT !.token = Runs(@)] \in Sound(seen', chosen')
      BY <1>2, <3>1, <3>2, <3>3, <3>4 DEF Sound
    <3> QED BY <3>5 DEF a
  <2>2. pending' = [t \in Tab |-> [c \in Caller |-> g(t, c)]]
    BY DEF Tick
  <2> HIDE DEF g
  <2> QED BY <2>1, <2>2
<1>7. storage' \in [age : Age, expired : BOOLEAN]
  BY <1>1 DEF Tick, SessionInv, TypeOK
<1>8. TabsSound'
  BY <1>2, <1>5, <1>6, <1>7 DEF TabsSound, SessionInv, TypeOK
<1> QED BY <1>3, <1>4, <1>8, PartsNext

----------------------------------------------------------------------------
LEMMA NextSound ==
  ASSUME SessionInv, [Next]_vars
  PROVE  SessionInv'
<1>1. ASSUME NEW t \in Tab, NEW u \in Account, LogIn(t, u) PROVE SessionInv'
  BY <1>1, LogInSound
<1>2. ASSUME NEW t \in Tab, LoggedIn(t) PROVE SessionInv'
  BY <1>2, LoggedInSound
<1>3. ASSUME NEW t \in Tab, Mount(t) PROVE SessionInv'
  BY <1>3, MountSound
<1>4. ASSUME NEW t \in Tab, Touch(t) PROVE SessionInv'
  BY <1>4, TouchSound
<1>5. ASSUME NEW t \in Tab, Extend(t) PROVE SessionInv'
  BY <1>5, ExtendSound
<1>6. ASSUME NEW t \in Tab, RefreshAnswered(t) PROVE SessionInv'
  BY <1>6, RefreshAnsweredSound
<1>7. ASSUME NEW t \in Tab, RefreshFailed(t) PROVE SessionInv'
  BY <1>7, RefreshFailedSound
<1>8. ASSUME NEW t \in Tab, CheckIdle(t) PROVE SessionInv'
  BY <1>8, CheckIdleSound
<1>9. ASSUME NEW t \in Tab, Leave(t) PROVE SessionInv'
  BY <1>9, LeaveSound
<1>10. ASSUME NEW t \in Tab, LogoutAnswered(t) PROVE SessionInv'
  BY <1>10, LogoutAnsweredSound
<1>11. ASSUME NEW t \in Tab, Impersonate(t) PROVE SessionInv'
  BY <1>11, ImpersonateSound
<1>12. ASSUME NEW t \in Tab, Impersonated(t) PROVE SessionInv'
  BY <1>12, ImpersonatedSound
<1>13. CASE RunOut
  BY <1>13, RunOutSound
<1>14. CASE Tick
  BY <1>14, TickSound
<1>15. CASE UNCHANGED vars
  BY <1>15 DEF vars, SessionInv, TypeOK, Sound
<1> QED
  BY <1>1, <1>2, <1>3, <1>4, <1>5, <1>6, <1>7, <1>8, <1>9, <1>10, <1>11, <1>12,
     <1>13, <1>14, <1>15 DEF Next

LEMMA SessionInvHolds == Spec => []SessionInv
<1>1. Init => SessionInv
  BY InitSound
<1>2. SessionInv /\ [Next]_vars => SessionInv'
  BY NextSound
<1> QED BY <1>1, <1>2, PTL DEF Spec

\* Everything keeps its type, and a token in the cookie has time left.
THEOREM TypesCorrect == Spec => []TypeOK
<1>1. SessionInv => TypeOK
  BY DEF SessionInv
<1> QED BY <1>1, SessionInvHolds, PTL

\* The server accepts a session only of a user who logged in or refreshed it
\* less than the idle timeout ago, for any number of tabs and late answers.
THEOREM IdleBounded == Spec => []IdleBound
<1>1. SessionInv => IdleBound
  <2> SUFFICES ASSUME SessionInv, NEW u \in Account, Active(u)
               PROVE  seen[u] < Timeout
    BY DEF IdleBound
  <2>1. cookie.idle.user = u /\ u # None
    BY SessionsAssumption DEF Active
  <2>2. cookie.idle # NoToken
    BY <2>1 DEF NoToken
  <2>3. cookie.idle \in [user : Account, left : Age] /\ cookie.idle.left > 0
    BY <2>2 DEF SessionInv, TypeOK, Token
  <2>4. seen[u] + cookie.idle.left <= Timeout
    BY <2>1, <2>2 DEF SessionInv, Owed
  <2>5. seen[u] \in 0 .. Timeout /\ cookie.idle.left \in 0 .. Timeout
    BY <2>3 DEF SessionInv, TypeOK, Age
  <2> QED BY <2>3, <2>4, <2>5, SessionsAssumption
<1> QED BY <1>1, SessionInvHolds, PTL

\* Whoever is served as another user is an administrator who chose this member,
\* whatever cookie outlived the login it was set in.
THEOREM ImpersonationChosen == Spec => []ChosenImpersonation
<1>1. SessionInv => ChosenImpersonation
  <2> SUFFICES ASSUME SessionInv, NEW u \in Account, Effective(u) # u
               PROVE  u \in Admin /\ Effective(u) \in chosen[u]
    BY DEF ChosenImpersonation
  <2>1. u \in Admin /\ cookie.acts.actor = u /\ Effective(u) = cookie.acts.target
    BY DEF Effective
  <2>2. cookie.acts # NoOne
    BY <2>1, SessionsAssumption DEF NoOne
  <2> QED BY <2>1, <2>2 DEF SessionInv, Meant
<1> QED BY <1>1, SessionInvHolds, PTL

----------------------------------------------------------------------------
\* The guards know of every activity: unless an extension has set it back, the
\* age that storage and each guard go by is at most that of the last one.
Timely(s, h) ==
  \/ s.setBack
  \/ /\ s.storage.age <= h
     /\ \A t \in Tab : s.tab[t].page = "protected" /\ ~ s.tab[t].out => s.tab[t].age <= h

InTime == Timely(Now, handled)

\* An activity that is older than what is stored sets it back; a younger one is
\* in time as well.
LEMMA ActiveTimely ==
  ASSUME NEW s \in Guards(Answer), NEW t \in Tab, NEW age \in Age, NEW h \in Age, Timely(s, h)
  PROVE  Timely(SetActive(s, t, age), h)
<1> DEFINE f == [u \in Tab |->
       IF u = t THEN [s.tab[u] EXCEPT !.age = age]
       ELSE IF Guarding(u) THEN [s.tab[u] EXCEPT !.age = Younger(@, age)]
       ELSE s.tab[u]]
           r == SetActive(s, t, age)
<1>1. r.storage.age = age /\ r.setBack = (s.setBack \/ age > s.storage.age) /\ r.tab = f
  BY DEF SetActive, Guards
<1>2. age \in Nat /\ h \in Nat /\ s.storage.age \in Nat
  BY SessionsAssumption DEF Age, Guards
<1>3. CASE s.setBack \/ age > s.storage.age
  BY <1>1, <1>3 DEF Timely
<1>4. CASE ~ s.setBack /\ ~ (age > s.storage.age)
  <2>1. s.storage.age <= h /\ age <= h
    BY <1>2, <1>4 DEF Timely
  <2>2. ASSUME NEW u \in Tab, f[u].page = "protected", ~ f[u].out PROVE f[u].age <= h
    <3>1. s.tab[u] \in Page /\ s.tab[u].age \in Nat
      BY SessionsAssumption DEF Guards, Page, Age
    <3>2. CASE u = t
      BY <2>1, <3>1, <3>2 DEF Page
    <3>3. CASE u # t
      <4>1. s.tab[u].age <= h
        BY <1>4, <2>2, <3>1, <3>3 DEF Timely, Page
      <4> QED BY <1>2, <2>1, <3>1, <3>3, <4>1 DEF Page, Younger
    <3> QED BY <3>2, <3>3
  <2> HIDE DEF f, r
  <2>3. Timely(r, h)
    BY <1>1, <2>1, <2>2 DEF Timely
  <2> QED BY <2>3 DEF r
<1> QED BY <1>3, <1>4

LEMMA ExtendedTimely ==
  ASSUME NEW s \in Guards(Answer), NEW t \in Tab, NEW h \in Age, Timely(s, h)
  PROVE  Timely(Extended(s, t), h)
<1>1. CASE s.tab[t].extends = None
  BY <1>1 DEF Extended
<1>2. CASE s.tab[t].extends # None
  <2> DEFINE r == SetActive(s, t, s.tab[t].extends)
             f == [r.tab EXCEPT ![t].extends = None]
  <2>1. s.tab[t].extends \in Age
    BY <1>2 DEF Guards, Page
  <2>2. r \in Guards(Answer) /\ Timely(r, h)
    BY <2>1, ActiveTimely, GuardsActive
  <2>3. Extended(s, t) = [r EXCEPT !.tab = f]
    BY <1>2 DEF Extended
  <2> HIDE DEF r
  <2>4. \A u \in Tab : f[u].page = r.tab[u].page /\ f[u].out = r.tab[u].out /\ f[u].age = r.tab[u].age
    BY <2>2 DEF Guards, Page
  <2> DEFINE q == [r EXCEPT !.tab = f]
  <2>5. q.setBack = r.setBack /\ q.storage = r.storage /\ q.tab = f
    BY <2>2 DEF Guards
  <2> HIDE DEF f, q
  <2> QED BY <2>2, <2>3, <2>4, <2>5 DEF Timely, q
<1> QED BY <1>1, <1>2

LEMMA RefreshTimely ==
  ASSUME NEW s \in Guards(Answer), NEW t \in Tab, NEW h \in Age, Timely(s, h)
  PROVE  Timely(Refreshes(s, t), h)
<1> DEFINE r == Extended(s, t)
           f == [r.tab EXCEPT ![t].due = FALSE]
           g == Refreshes(s, t)
<1>1. r \in Guards(Answer) /\ Timely(r, h)
  BY GuardsExtended, ExtendedTimely
<1>2. g.tab = f /\ g.storage = r.storage /\ g.setBack = r.setBack
  <2> HIDE DEF r
  <2> QED BY <1>1 DEF r, Refreshes, Guards
<1> HIDE DEF r, g
<1>3. \A u \in Tab : f[u].page = r.tab[u].page /\ f[u].out = r.tab[u].out /\ f[u].age = r.tab[u].age
  BY <1>1 DEF Guards, Page
<1> HIDE DEF f
<1>4. Timely(g, h)
  BY <1>1, <1>2, <1>3 DEF Timely
<1> QED BY <1>4 DEF g

LEMMA ExpireTimely ==
  ASSUME NEW s \in Guards(Answer), NEW t \in Tab, NEW h, Timely(s, h)
  PROVE  Timely(MarkExpired(s, t), h)
<1> DEFINE g == MarkExpired(s, t)
           f == [s.tab EXCEPT ![t].out = TRUE]
<1>1. CASE s.tab[t].out
  BY <1>1 DEF MarkExpired
<1>2. CASE ~ s.tab[t].out
  <2>1. g.tab = f /\ g.storage.age = s.storage.age /\ g.setBack = s.setBack
    BY <1>2 DEF MarkExpired, Guards
  <2>2. \A u \in Tab : ~ f[u].out => f[u] = s.tab[u]
    BY DEF Guards, Page
  <2> HIDE DEF g, f
  <2>3. Timely(g, h)
    BY <2>1, <2>2 DEF Timely
  <2> QED BY <2>3 DEF g
<1> QED BY <1>1, <1>2

LEMMA LeaveTimely ==
  ASSUME NEW s \in Guards(Answer), NEW t \in Tab, NEW anew \in BOOLEAN, NEW h, Timely(s, h)
  PROVE  Timely(Leaves(s, t, anew), h)
<1> DEFINE g == Leaves(s, t, anew)
           f == [s.tab EXCEPT ![t] = Closed]
<1>1. g.tab = f /\ g.storage = s.storage /\ g.setBack = s.setBack
  BY DEF Leaves, Guards
<1>2. \A u \in Tab : f[u].page # "protected" \/ f[u] = s.tab[u]
  BY DEF Guards, Closed
<1> HIDE DEF g, f
<1>3. Timely(g, h)
  BY <1>1, <1>2 DEF Timely
<1> QED BY <1>3 DEF g

LEMMA NowTimely ==
  ASSUME TypeOK
  PROVE  Now \in Guards(Answer) /\ handled \in Age /\ 0 \in Age
BY Basics DEF TypeOK, Now, Guards

LEMMA BecomesTimely ==
  ASSUME NEW s, Becomes(s), Timely(s, handled')
  PROVE  InTime'
BY DEF InTime, Timely, Now, Becomes

\* What is kept of the pages and of the activity.
LEMMA SameTimely ==
  ASSUME InTime, UNCHANGED <<tab, storage, handled, setBack>>
  PROVE  InTime'
BY DEF InTime, Timely, Now

\* Without the answer that a tab takes nothing is later.
LEMMA AnswerTimely ==
  ASSUME TypeOK, InTime, NEW t \in Tab, NEW c \in Caller, NEW a \in Answer
  PROVE  LET s == [Now EXCEPT !.pending[t][c] = a] IN s \in Guards(Answer) /\ Timely(s, handled)
<1> DEFINE g == [pending EXCEPT ![t][c] = a]
<1>1. g \in [Tab -> [Caller -> Answer]]
  BY DEF TypeOK
<1>2. [Now EXCEPT !.pending[t][c] = a] = [Now EXCEPT !.pending = g]
  BY DEF Now
<1> HIDE DEF g
<1> QED BY <1>1, <1>2, NowTimely DEF InTime, Timely, Guards, Now

LEMMA TouchTimely ==
  ASSUME TypeOK, NEW t \in Tab, Touch(t)
  PROVE  InTime'
<1> DEFINE a == SetActive(Now, t, 0)
           s == [a EXCEPT !.setBack = FALSE]
<1>1. a \in Guards(Answer) /\ s \in Guards(Answer)
  <2>1. a \in Guards(Answer)
    BY NowTimely, GuardsActive
  <2> HIDE DEF a
  <2> QED BY <2>1 DEF Guards
<1>2. Timely(s, 0)
  <2> DEFINE f == [u \in Tab |->
         IF u = t THEN [tab[u] EXCEPT !.age = 0]
         ELSE IF Guarding(u) THEN [tab[u] EXCEPT !.age = Younger(@, 0)]
         ELSE tab[u]]
  <2>1. s.storage.age = 0 /\ s.tab = f
    <3>1. a.storage.age = 0 /\ a.tab = f
      BY DEF SetActive, Now, TypeOK
    <3> HIDE DEF a, f
    <3> QED BY <1>1, <3>1 DEF Guards
  <2>2. ASSUME NEW u \in Tab, f[u].page = "protected", ~ f[u].out PROVE f[u].age <= 0
    <3>1. tab[u] \in Page /\ tab[u].age \in Nat
      BY SessionsAssumption DEF TypeOK, Page, Age
    <3>2. Guarding(u) \/ u = t
      BY <2>2, <3>1 DEF Guarding
    <3> QED BY <3>1, <3>2 DEF Page, Younger
  <2> HIDE DEF s, f
  <2> QED BY <2>1, <2>2 DEF Timely
<1> HIDE DEF s
<1>3. handled' = 0 /\ (Becomes(s) \/ Becomes(Refreshes(s, t)))
  BY DEF Touch, s
<1>4. Timely(Refreshes(s, t), 0)
  BY <1>1, <1>2, NowTimely, RefreshTimely
<1> QED BY <1>2, <1>3, <1>4, BecomesTimely

LEMMA ExtendTimely ==
  ASSUME TypeOK, InTime, NEW t \in Tab, Extend(t)
  PROVE  InTime'
<1>1. UNCHANGED handled /\ Now \in Guards(Answer) /\ Timely(Now, handled)
  BY NowTimely DEF Extend, InTime
<1>2. CASE tab[t].due
  <2> DEFINE r == Refreshes(Now, t)
             f == [r.tab EXCEPT ![t].extends = 0]
             s == [r EXCEPT !.tab = f]
  <2>1. Becomes(s)
    BY <1>2 DEF Extend
  <2>2. Timely(r, handled)
    BY <1>1, NowTimely, RefreshTimely
  <2>3. r \in Guards(Answer)
    <3>1. SignedIn => [Reply("renewed") EXCEPT !.token = Fresh(cookie.session)] \in Answer
      BY Basics DEF SignedIn, Active, Answer
    <3> QED BY <1>1, <3>1, GuardsRefresh, Basics
  <2> HIDE DEF r
  <2>4. \A u \in Tab : f[u].page = r.tab[u].page /\ f[u].out = r.tab[u].out /\ f[u].age = r.tab[u].age
    BY <2>3 DEF Guards, Page
  <2>5. s.tab = f /\ s.storage = r.storage /\ s.setBack = r.setBack
    BY <2>3 DEF Guards
  <2> HIDE DEF f, s
  <2>6. Timely(s, handled)
    BY <2>2, <2>4, <2>5 DEF Timely
  <2> QED BY <1>1, <2>1, <2>6, BecomesTimely
<1>3. CASE ~ tab[t].due
  <2>1. Becomes(SetActive(Now, t, 0))
    BY <1>3 DEF Extend
  <2>2. Timely(SetActive(Now, t, 0), handled)
    BY <1>1, NowTimely, ActiveTimely
  <2> QED BY <1>1, <2>1, <2>2, BecomesTimely
<1> QED BY <1>2, <1>3

LEMMA RefreshOverTimely ==
  ASSUME TypeOK, InTime, NEW t \in Tab, RefreshAnswered(t) \/ RefreshFailed(t)
  PROVE  InTime'
<1> DEFINE s == [Now EXCEPT !.pending[t]["refresh"] = Nothing]
<1>1. s \in Guards(Answer) /\ Timely(s, handled) /\ handled \in Age
  BY AnswerTimely, NowTimely, Basics DEF Caller
<1>2. UNCHANGED handled
  BY DEF RefreshAnswered, RefreshFailed
<1>3. Becomes(Extended(s, t)) \/ Becomes(Extended(MarkExpired(s, t), t))
  BY DEF RefreshAnswered, RefreshFailed
<1> HIDE DEF s
<1>4. MarkExpired(s, t) \in Guards(Answer) /\ Timely(MarkExpired(s, t), handled)
  BY <1>1, GuardsExpire, ExpireTimely, Basics
<1>5. Timely(Extended(s, t), handled)
  BY <1>1, ExtendedTimely
<1> DEFINE r == MarkExpired(s, t)
<1> HIDE DEF r
<1>6. Timely(Extended(r, t), handled)
  BY <1>1, <1>4, ExtendedTimely DEF r
<1> QED BY <1>2, <1>3, <1>5, <1>6, BecomesTimely DEF r

LEMMA EndTimely ==
  ASSUME TypeOK, InTime, NEW t \in Tab, CheckIdle(t) \/ Leave(t) \/ LogoutAnswered(t)
  PROVE  InTime'
<1>1. UNCHANGED handled /\ Now \in Guards(Answer) /\ Timely(Now, handled)
  BY NowTimely DEF CheckIdle, Leave, LogoutAnswered, InTime
<1>2. CASE CheckIdle(t)
  BY <1>1, <1>2, ExpireTimely, BecomesTimely DEF CheckIdle
<1>3. CASE Leave(t)
  BY <1>1, <1>3, AnswerTimely, BecomesTimely, Basics DEF Leave, Caller
<1>4. CASE LogoutAnswered(t)
  <2> DEFINE b == pending[t]["logout"].kind = "expired"
             s == Leaves(Now, t, b)
             r == [s EXCEPT !.storage.expired = TRUE]
  <2>1. Becomes(IF b THEN r ELSE s)
    BY <1>4 DEF LogoutAnswered
  <2>2. s \in Guards(Answer) /\ Timely(s, handled)
    BY <1>1, GuardsLeave, LeaveTimely, Basics
  <2> HIDE DEF s
  <2>3. r.tab = s.tab /\ r.storage.age = s.storage.age /\ r.setBack = s.setBack
    BY <2>2 DEF Guards
  <2> HIDE DEF r, b
  <2>4. Timely(r, handled)
    BY <2>2, <2>3 DEF Timely
  <2> QED BY <1>1, <2>1, <2>2, <2>4, BecomesTimely
<1> QED BY <1>2, <1>3, <1>4

LEMMA TickTimely ==
  ASSUME TypeOK, InTime, Tick
  PROVE  InTime'
<1>1. ASSUME NEW m \in Age, NEW n \in Age, m <= n PROVE Older(m) <= Older(n)
  BY <1>1, SessionsAssumption DEF Older, Age
<1>2. setBack' = setBack /\ handled' = Older(handled) /\ storage'.age = Older(storage.age)
  BY DEF Tick, TypeOK
<1>3. ASSUME NEW t \in Tab, tab'[t].page = "protected", ~ tab'[t].out
      PROVE  tab[t].page = "protected" /\ ~ tab[t].out /\ tab'[t].age = Older(tab[t].age)
  <2> DEFINE x == IF tab[t].extends = None THEN None ELSE Older(tab[t].extends)
  <2>1. tab[t] \in Page
    BY DEF TypeOK
  <2>2. tab'[t] = IF tab[t].page = "login" THEN tab[t]
                  ELSE [tab[t] EXCEPT !.age = Older(@), !.due = TRUE, !.extends = x]
    BY <2>1 DEF Tick, Page
  <2> HIDE DEF x
  <2> QED BY <1>3, <2>1, <2>2 DEF Page
<1>4. storage.age \in Age /\ handled \in Age /\ \A t \in Tab : tab[t].age \in Age
  BY DEF TypeOK, Page
<1>5. CASE setBack
  BY <1>2, <1>5 DEF InTime, Timely, Now
<1>6. CASE ~ setBack
  <2>1. storage'.age <= handled'
    BY <1>1, <1>2, <1>4, <1>6 DEF InTime, Timely, Now
  <2>2. ASSUME NEW t \in Tab, tab'[t].page = "protected", ~ tab'[t].out PROVE tab'[t].age <= handled'
    BY <1>1, <1>2, <1>3, <1>4, <1>6, <2>2 DEF InTime, Timely, Now
  <2> QED BY <2>1, <2>2 DEF InTime, Timely, Now
<1> QED BY <1>5, <1>6

LEMMA NextTimely ==
  ASSUME SessionInv, InTime, [Next]_vars
  PROVE  InTime'
<1> USE DEF SessionInv
<1>1. ASSUME NEW t \in Tab, LoggedIn(t) PROVE InTime'
  <2>1. storage'.age = 0 /\ handled' = 0
        /\ tab' = [u \in Tab |-> IF Guarding(u) THEN [tab[u] EXCEPT !.age = 0] ELSE tab[u]]
    BY <1>1 DEF LoggedIn
  <2>2. ASSUME NEW u \in Tab, tab'[u].page = "protected", ~ tab'[u].out PROVE tab'[u].age <= 0
    BY <2>1, <2>2 DEF Guarding, TypeOK, Page
  <2> QED BY <2>1, <2>2 DEF InTime, Timely, Now
<1>2. ASSUME NEW t \in Tab, Mount(t) PROVE InTime'
  <2>1. /\ tab' = [tab EXCEPT ![t].page = "protected", ![t].age = storage.age]
        /\ UNCHANGED <<storage, handled, setBack>>
    BY <1>2 DEF Mount, History
  <2>2. \A u \in Tab : u # t => tab'[u] = tab[u]
    BY <2>1 DEF TypeOK
  <2>3. tab'[t].age = storage.age
    BY <2>1 DEF TypeOK, Page
  <2> QED BY <2>1, <2>2, <2>3 DEF InTime, Timely, Now
<1>3. ASSUME NEW t \in Tab,
             \/ \E u \in Account : LogIn(t, u)
             \/ Impersonate(t) \/ Impersonated(t)
      PROVE  InTime'
  BY <1>3, SameTimely DEF LogIn, Impersonate, Impersonated, History
<1>4. CASE RunOut \/ UNCHANGED vars
  BY <1>4, SameTimely DEF RunOut, History, vars
<1> QED BY <1>1, <1>2, <1>3, <1>4, TouchTimely, ExtendTimely, RefreshOverTimely, EndTimely,
           TickTimely DEF Next

\* No guard ends the session for idleness while the user is active in any tab,
\* for any number of tabs: checkIdle goes by an age that is no older than the
\* last activity, unless extendSession has stored an older one over it since.
\* The exception ends with the next activity or login.
THEOREM ActiveUsersStay == Spec => NoEarlyTimeout
<1> DEFINE Late == \A t \in Tab : CheckIdle(t) => handled = Timeout \/ setBack
<1>1. Init => InTime
  BY SessionsAssumption DEF Init, InTime, Timely, Now, Closed
<1>2. SessionInv /\ InTime => Late
  <2> SUFFICES ASSUME SessionInv, InTime, NEW t \in Tab, CheckIdle(t), ~ setBack
               PROVE  handled = Timeout
    OBVIOUS
  <2>1. tab[t].age = Timeout /\ tab[t].age <= handled
    BY DEF CheckIdle, Guarding, InTime, Timely, Now
  <2> QED BY <2>1, SessionsAssumption DEF SessionInv, TypeOK, Age
<1>3. SessionInv /\ InTime /\ [Next]_vars => InTime' /\ [Late]_vars
  BY <1>2, NextTimely
<1> QED BY <1>1, <1>3, SessionInvHolds, PTL DEF Spec, NoEarlyTimeout
=============================================================================
