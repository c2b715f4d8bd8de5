---------------------------- MODULE AccessProofs ----------------------------
(***************************************************************************)
(* Theorems about Access, for every number of rows, processes, loads and   *)
(* calls, every set of plans and every time to live.                       *)
(***************************************************************************)
EXTENDS Access, TLAPS

-----------------------------------------------------------------------------
(* The type invariant *)

\* A load, a call and a login that go on go on with a user.
Undecided(c) == c.at \in {"idle", "over"} \/ (c.at = "write" /\ Enrols(c))

MembersInv ==
  /\ MemberTypeOK
  /\ \A k \in Load : load[k].at # "idle" => load[k].user \in User
  /\ \A a \in AdminCall : ~Undecided(admin[a]) => admin[a].user \in User

Anonymous == {"idle", "over", "portal", "create"}

LoginsInv ==
  /\ required \in BOOLEAN
  /\ policy \in [PolicyType -> [version : Version, active : BOOLEAN]]
  /\ consent \in [User -> [PolicyType -> Version]]
  /\ login \in [Login -> LoginState]
  /\ \A l \in Login : login[l].at \notin Anonymous => login[l].user \in User

TypeInv == MembersInv /\ LoginsInv /\ since \in [Login -> SUBSET User]

LEMMA InitTypes == ASSUME Init PROVE TypeInv
<1> USE MembersAssumption, AccessAssumption
<1> DEFINE u == CHOOSE u \in User : TRUE
<1>0. u \in User
  OBVIOUS
<1> HIDE DEF u
<1> PICK r \in {Unborn, Applicant, Member}, version \in {0, 1} : Begins(u, r, version)
  BY DEF Init, u
<1>1. r \in Row /\ Unborn \in Row
  BY DEF Unborn, Deleted, Applicant, Member, Row, Approval
<1>2. version \in Version
  BY DEF Version
<1>3. /\ row \in [User -> Row] /\ account \in User \cup {NoUser} /\ session \subseteq User
      /\ policy \in [PolicyType -> [version : Version, active : BOOLEAN]]
      /\ consent \in [User -> [PolicyType -> Version]]
  BY <1>0, <1>1, <1>2 DEF Begins, Version
<1>4. cache \in [Process -> [User -> Entry]] /\ inflight \in [Process -> [User -> Loads]]
  BY DEF Init, Entry, NoEntry, Loads
<1>5. /\ load \in [Load -> LoadState] /\ \A k \in Load : load[k].at = "idle"
  BY DEF Init, LoadState, Idle
<1>6. /\ admin \in [AdminCall -> AdminState] /\ \A a \in AdminCall : admin[a].at = "idle"
  BY DEF Init, AdminState, NoCall, Kinds, Approval
<1>7. Deleted \in Row
  BY DEF Deleted, Row, Approval
<1>8. /\ login \in [Login -> LoginState] /\ \A l \in Login : login[l].at = "idle"
  BY <1>7 DEF Init, LoginState, Blank, Version
<1>9. plan \in Plan /\ required \in BOOLEAN /\ since \in [Login -> SUBSET User]
  BY DEF Init
<1> QED BY <1>3, <1>4, <1>5, <1>6, <1>8, <1>9
    DEF TypeInv, MembersInv, LoginsInv, MemberTypeOK, Undecided, Anonymous

\* The cache and its loads.
LEMMA CacheSteps ==
  ASSUME MembersInv,
         \/ \E p \in Process, u \in User : StartLoad(p, u)
         \/ \E k \in Load : ReadLoad(k) \/ EndLoad(k)
         \/ Tick
         \/ \E p \in Process : Restart(p)
  PROVE  MembersInv'
<1> USE MembersAssumption DEF MembersInv, MemberTypeOK, Undecided
<1>1. Idle \in LoadState /\ NoEntry \in Entry
  BY DEF Idle, LoadState, NoEntry, Entry
<1>2. ASSUME NEW p \in Process, NEW u \in User, StartLoad(p, u) PROVE MembersInv'
  BY <1>2 DEF StartLoad, LoadState, Loads
<1>3. ASSUME NEW k \in Load, ReadLoad(k) PROVE MembersInv'
  <2>1. Admissible(row[load[k].user]) \in BOOLEAN
    BY <1>3 DEF ReadLoad, Admissible, Row
  <2> DEFINE r == [load[k] EXCEPT !.at = "read", !.admit = Admissible(row[load[k].user])]
  <2>2. load[k].at = "asked" /\ load' = [load EXCEPT ![k] = r]
    BY <1>3 DEF ReadLoad
  <2>3. r \in LoadState /\ r.user = load[k].user
    BY <2>1 DEF LoadState
  <2> HIDE DEF r
  <2>4. load' \in [Load -> LoadState]
    BY <2>2, <2>3
  <2>5. \A i \in Load : load'[i].at # "idle" => load'[i].user \in User
    BY <2>2, <2>3
  <2> QED BY <1>3, <2>4, <2>5 DEF ReadLoad
<1>4. ASSUME NEW k \in Load, EndLoad(k) PROVE MembersInv'
  <2> DEFINE p == load[k].process
             u == load[k].user
             e == [admit |-> load[k].admit, left |-> Ttl]
  <2>1. p \in Process /\ u \in User /\ e \in Entry
    BY <1>4 DEF EndLoad, LoadState, Entry
  <2>2. cache' = [cache EXCEPT ![p][u] = e] /\ inflight' = [inflight EXCEPT ![p][u] = "none"]
    BY <1>4 DEF EndLoad
  <2> HIDE DEF p, u, e
  <2>3. cache' \in [Process -> [User -> Entry]] /\ inflight' \in [Process -> [User -> Loads]]
    BY <2>1, <2>2 DEF Loads
  <2> QED BY <1>1, <1>4, <2>3 DEF EndLoad, Idle
<1>5. ASSUME Tick PROVE MembersInv'
  <2>1. ASSUME NEW e \in Entry PROVE Older(e) \in Entry
    BY <1>1 DEF Older, Entry
  <2> QED BY <1>5, <2>1 DEF Tick
<1>6. ASSUME NEW p \in Process, Restart(p) PROVE MembersInv'
  <2>1. cache' \in [Process -> [User -> Entry]] /\ inflight' \in [Process -> [User -> Loads]]
    BY <1>1, <1>6 DEF Restart, Loads
  <2>2. /\ load' \in [Load -> LoadState]
        /\ \A k \in Load : load'[k] = Idle \/ load'[k] = load[k]
    BY <1>1, <1>6 DEF Restart
  <2> QED BY <1>6, <2>1, <2>2 DEF Restart, Idle
<1> QED BY <1>2, <1>3, <1>4, <1>5, <1>6

LEMMA InvalidateTypes ==
  ASSUME MemberTypeOK, NEW p \in Process, NEW u \in User, Invalidate(p, u)
  PROVE  cache' \in [Process -> [User -> Entry]] /\ inflight' \in [Process -> [User -> Loads]]
<1>1. NoEntry \in Entry
  BY MembersAssumption DEF NoEntry, Entry
<1> QED BY <1>1 DEF Invalidate, MemberTypeOK, Loads

\* The calls of administrators.
AdminsKept ==
  /\ admin' \in [AdminCall -> AdminState]
  /\ \A b \in AdminCall : ~Undecided(admin'[b]) => admin'[b].user \in User

LEMMA AdminMoves ==
  ASSUME MembersInv, NEW a \in AdminCall, NEW r \in AdminState,
         ~Undecided(r) => r.user \in User,
         admin' = [admin EXCEPT ![a] = r]
  PROVE  AdminsKept
BY DEF MembersInv, MemberTypeOK, AdminsKept

LEMMA AdminEnds == ASSUME MembersInv, NEW a \in AdminCall, End(a) PROVE AdminsKept
<1>1. CallOver \in AdminState /\ Undecided(CallOver)
  BY DEF CallOver, NoCall, AdminState, Kinds, Approval, Undecided
<1> QED BY <1>1, AdminMoves DEF End

LEMMA AdminGoesOn ==
  ASSUME MembersInv, NEW a \in AdminCall, admin[a].user \in User,
         NEW at \in {"cleanup", "upsert", "store", "forget"},
         NEW b \in BOOLEAN,
         \/ admin' = [admin EXCEPT ![a] = [@ EXCEPT !.at = at]]
         \/ admin' = [admin EXCEPT ![a] = [@ EXCEPT !.at = at, !.had = b]]
  PROVE  AdminsKept
<1> DEFINE r == [admin[a] EXCEPT !.at = at]
           s == [admin[a] EXCEPT !.at = at, !.had = b]
<1>0. admin[a] \in AdminState
  BY DEF MembersInv, MemberTypeOK
<1>1. r \in AdminState /\ r.user \in User /\ s \in AdminState /\ s.user \in User
  BY <1>0 DEF AdminState
<1>2. admin' = [admin EXCEPT ![a] = r] \/ admin' = [admin EXCEPT ![a] = s]
  OBVIOUS
<1> HIDE DEF r, s
<1> QED BY <1>1, <1>2, AdminMoves

LEMMA RowWritten ==
  ASSUME MembersInv, NEW u \in User, NEW r \in Row, row' = [row EXCEPT ![u] = r]
  PROVE  row' \in [User -> Row]
BY DEF MembersInv, MemberTypeOK

\* What a call makes of a row is a row.
LEMMA RowValues ==
  ASSUME NEW r \in Row, NEW b \in BOOLEAN
  PROVE  /\ Decided(r, b) \in Row /\ Enrolled(r, b) \in Row
         /\ Anonymized(r) \in Row /\ AutoApproved(r) \in Row /\ [r EXCEPT !.mail = TRUE] \in Row
         /\ Deleted \in Row /\ Unborn \in Row /\ Applicant \in Row /\ Member \in Row
<1>1. Decided(r, b) \in Row
  BY DEF Decided, Row, Approval
<1>2. Enrolled(r, b) \in Row
  BY DEF Enrolled, Row, Approval
<1>3. Anonymized(r) \in Row
  <2> DEFINE q == [[r EXCEPT !.active = FALSE] EXCEPT !.withdrawn = TRUE]
             p == [q EXCEPT !.mail = FALSE]
  <2>1. q \in Row
    BY DEF Row
  <2>2. p \in Row
    <3> HIDE DEF q
    <3> QED BY <2>1 DEF Row
  <2>3. Anonymized(r) = [p EXCEPT !.byAdmin = FALSE]
    BY DEF Anonymized
  <2> HIDE DEF p
  <2> QED BY <2>2, <2>3 DEF Row
<1>4. AutoApproved(r) \in Row
  BY DEF AutoApproved, Row, Approval
<1>5. [r EXCEPT !.mail = TRUE] \in Row
  BY DEF Row
<1>6. Deleted \in Row /\ Unborn \in Row /\ Applicant \in Row /\ Member \in Row
  BY DEF Deleted, Unborn, Applicant, Member, Row, Approval
<1> QED BY <1>1, <1>2, <1>3, <1>4, <1>5, <1>6

LEMMA AdminSteps ==
  ASSUME MembersInv, NEW a \in AdminCall,
         \/ \E kind \in Kinds : EnrolRead(a, kind) \/ \E u \in User : AdminRead(a, kind, u)
         \/ AdminStep(a) \/ AdminDies(a)
  PROVE  MembersInv'
<1> USE MembersAssumption
<1>0. ASSUME AdminsKept, row' \in [User -> Row], account' \in User \cup {NoUser},
             UNCHANGED <<session, caching, plan>>
      PROVE  MembersInv'
  BY <1>0 DEF MembersInv, MemberTypeOK, AdminsKept, caching
<1>1. /\ row \in [User -> Row] /\ account \in User \cup {NoUser}
      /\ admin[a] \in AdminState /\ (~Undecided(admin[a]) => admin[a].user \in User)
  BY DEF MembersInv, MemberTypeOK
<1>3. ASSUME NEW kind \in Kinds, NEW u \in User, AdminRead(a, kind, u) PROVE MembersInv'
  <2> DEFINE r == [at |-> "write", kind |-> kind, user |-> u, saw |-> row[u].approval, had |-> FALSE]
  <2>1. r \in AdminState /\ r.user \in User
    BY <1>1 DEF AdminState, Row
  <2>2. admin' = [admin EXCEPT ![a] = r]
    BY <1>3 DEF AdminRead
  <2> HIDE DEF r
  <2> QED BY <1>0, <1>1, <1>3, <2>1, <2>2, AdminMoves DEF AdminRead
<1>4. ASSUME NEW kind \in Kinds, EnrolRead(a, kind) PROVE MembersInv'
  <2> DEFINE r == [NoCall EXCEPT !.at = "write", !.kind = kind,
                                 !.user = IF account # NoUser THEN account ELSE Holder]
  <2>1. Holder \in User \cup {NoUser}
    BY DEF Holder
  <2>2. r \in AdminState /\ Undecided(r)
    BY <1>1, <1>4, <2>1 DEF EnrolRead, AdminState, NoCall, Undecided, Enrols, Approval
  <2>3. admin' = [admin EXCEPT ![a] = r]
    BY <1>4 DEF EnrolRead
  <2> HIDE DEF r
  <2> QED BY <1>0, <1>1, <1>4, <2>2, <2>3, AdminMoves DEF EnrolRead
<1>5. ASSUME AdminDecide(a) PROVE MembersInv'
  <2>1. admin[a].user \in User
    BY <1>1, <1>5 DEF AdminDecide, Undecided, Enrols
  <2>2. row' \in [User -> Row]
    <3> DEFINE r == Decided(row[admin[a].user], admin[a].kind = "approve")
    <3>1. row' = row \/ row' = [row EXCEPT ![admin[a].user] = r]
      BY <1>5 DEF AdminDecide
    <3>2. r \in Row
      BY <1>1, <2>1, RowValues
    <3> HIDE DEF r
    <3> QED BY <1>1, <2>1, <3>1, <3>2, RowWritten
  <2>3. AdminsKept
    BY <1>5, <2>1, AdminEnds, AdminGoesOn DEF AdminDecide
  <2> QED BY <1>0, <1>1, <1>5, <2>2, <2>3 DEF AdminDecide
<1>6. ASSUME AdminPatch(a) PROVE MembersInv'
  <2>1. admin[a].user \in User
    BY <1>1, <1>6 DEF AdminPatch, Undecided, Enrols
  <2>2. row' \in [User -> Row]
    <3> DEFINE b == admin[a].kind = "activate"
               r == [row[admin[a].user] EXCEPT !.active = b]
    <3>1. b \in BOOLEAN /\ (row' = row \/ row' = [row EXCEPT ![admin[a].user] = r])
      BY <1>6 DEF AdminPatch
    <3> HIDE DEF b
    <3>2. r \in Row
      BY <1>1, <2>1, <3>1 DEF Row
    <3> HIDE DEF r
    <3> QED BY <1>1, <2>1, <3>1, <3>2, RowWritten
  <2>3. AdminsKept
    BY <1>6, <2>1, AdminEnds, AdminGoesOn DEF AdminPatch
  <2> QED BY <1>0, <1>1, <1>6, <2>2, <2>3 DEF AdminPatch
<1>7. ASSUME AdminWithdraw(a) PROVE MembersInv'
  <2>1. admin[a].user \in User
    BY <1>1, <1>7 DEF AdminWithdraw, Undecided, Enrols
  <2>2. row' \in [User -> Row]
    <3> DEFINE r == Anonymized(row[admin[a].user])
    <3>1. row' = row \/ row' = [row EXCEPT ![admin[a].user] = r]
      BY <1>7 DEF AdminWithdraw
    <3>2. r \in Row
      BY <1>1, <2>1, RowValues
    <3> HIDE DEF r
    <3> QED BY <1>1, <2>1, <3>1, <3>2, RowWritten
  <2>3. AdminsKept
    BY <1>7, <2>1, AdminEnds, AdminGoesOn DEF AdminWithdraw
  <2> QED BY <1>0, <1>1, <1>7, <2>2, <2>3 DEF AdminWithdraw
<1>8. ASSUME AdminCleanup(a) PROVE MembersInv'
  <2>1. admin[a].user \in User
    BY <1>1, <1>8 DEF AdminCleanup, Undecided
  <2>2. AdminsKept
    BY <1>8, <2>1, AdminGoesOn DEF AdminCleanup
  <2> QED BY <1>0, <1>1, <1>8, <2>2 DEF AdminCleanup
<1>9. ASSUME EnrolWrite(a) PROVE MembersInv'
  <2>1. CASE End(a) /\ UNCHANGED row
    BY <1>0, <1>1, <1>9, <2>1, AdminEnds DEF EnrolWrite
  <2>2. ASSUME NEW u \in User,
               row' = [row EXCEPT ![u] = Enrolled(@, admin[a].kind = "enrol")],
               admin' = [admin EXCEPT ![a] = [@ EXCEPT !.at = "upsert", !.user = u]]
        PROVE  MembersInv'
    <3> DEFINE r == [admin[a] EXCEPT !.at = "upsert", !.user = u]
    <3>1. r \in AdminState /\ r.user \in User
      BY <1>1 DEF AdminState
    <3>2. admin' = [admin EXCEPT ![a] = r]
      BY <2>2 DEF MembersInv, MemberTypeOK
    <3>3. row' \in [User -> Row]
      <4>1. Enrolled(row[u], admin[a].kind = "enrol") \in Row
        BY <1>1, RowValues
      <4> QED BY <2>2, <4>1, RowWritten
    <3> HIDE DEF r
    <3> QED BY <1>0, <1>1, <1>9, <3>1, <3>2, <3>3, AdminMoves DEF EnrolWrite
  <2> QED BY <1>9, <2>1, <2>2 DEF EnrolWrite
<1>10. ASSUME EnrolAccountRead(a) PROVE MembersInv'
  <2>1. admin[a].user \in User
    BY <1>1, <1>10 DEF EnrolAccountRead, Undecided
  <2>2. AdminsKept
    BY <1>10, <2>1, AdminGoesOn DEF EnrolAccountRead
  <2> QED BY <1>0, <1>1, <1>10, <2>2 DEF EnrolAccountRead
<1>11. ASSUME EnrolStore(a) PROVE MembersInv'
  <2>1. admin[a].user \in User
    BY <1>1, <1>11 DEF EnrolStore, Undecided
  <2>2. AdminsKept
    BY <1>11, <2>1, AdminGoesOn, AdminEnds DEF EnrolStore
  <2>3. account' \in User \cup {NoUser}
    BY <1>1, <1>11, <2>1 DEF EnrolStore, Stored
  <2> QED BY <1>0, <1>1, <1>11, <2>2, <2>3 DEF EnrolStore
<1>12. ASSUME AdminForget(a) PROVE MembersInv'
  <2>1. admin[a].user \in User
    BY <1>1, <1>12 DEF AdminForget, Undecided
  <2>2. cache' \in [Process -> [User -> Entry]] /\ inflight' \in [Process -> [User -> Loads]]
    BY <1>12, <2>1, InvalidateTypes DEF AdminForget, MembersInv
  <2>3. AdminsKept
    BY <1>12, AdminEnds DEF AdminForget
  <2> QED BY <1>12, <2>2, <2>3 DEF AdminForget, MembersInv, MemberTypeOK, AdminsKept
<1>13. ASSUME AdminDies(a) PROVE MembersInv'
  BY <1>0, <1>1, <1>13, AdminEnds DEF AdminDies
<1> QED
  BY <1>3, <1>4, <1>5, <1>6, <1>7, <1>8, <1>9, <1>10, <1>11, <1>12, <1>13 DEF AdminStep

\* The logins.
LoginsKept ==
  /\ login' \in [Login -> LoginState]
  /\ \A k \in Login : login'[k].at \notin Anonymous => login'[k].user \in User

LEMMA LoginMoves ==
  ASSUME LoginsInv, NEW l \in Login, NEW r \in LoginState,
         r.at \notin Anonymous => r.user \in User,
         login' = [login EXCEPT ![l] = r]
  PROVE  LoginsKept
BY DEF LoginsInv, LoginsKept

LEMMA LoginValues ==
  /\ Blank \in LoginState /\ LoginOver \in LoginState
  /\ LoginOver.at = "over" /\ [t \in PolicyType |-> 0] \in [PolicyType -> Version]
<1>1. Deleted \in Row
  BY DEF Deleted, Row, Approval
<1>2. [t \in PolicyType |-> 0] \in [PolicyType -> Version]
  BY AccessAssumption DEF Version
<1>3. Blank \in LoginState
  BY <1>1, <1>2 DEF Blank, LoginState
<1> QED BY <1>2, <1>3 DEF LoginOver, LoginState

LEMMA Refused == ASSUME LoginsInv, NEW l \in Login, Refuse(l) PROVE LoginsKept
BY LoginValues, LoginMoves DEF Refuse, Anonymous

LEMMA LoginGoesOn ==
  ASSUME LoginsInv, NEW l \in Login, NEW at \in {"create", "approved", "policy", "asked", "agree", "record"},
         at # "create" => login[l].user \in User, Goto(l, at)
  PROVE  LoginsKept
<1> DEFINE r == [login[l] EXCEPT !.at = at]
<1>0. login[l] \in LoginState
  BY DEF LoginsInv
<1>1. r \in LoginState /\ r.at = at /\ r.user = login[l].user
  BY <1>0 DEF LoginState
<1>2. login' = [login EXCEPT ![l] = r]
  BY DEF Goto
<1> HIDE DEF r
<1> QED BY <1>1, <1>2, LoginMoves DEF Anonymous

LEMMA LoginEnters == ASSUME LoginsInv, NEW l \in Login, login[l].user \in User, In(l) PROVE LoginsKept
<1> DEFINE r == [LoginOver EXCEPT !.at = "in", !.user = login[l].user, !.start = login[l].start]
<1>1. r \in LoginState /\ r.user \in User
  BY LoginValues DEF LoginsInv, LoginState
<1>2. login' = [login EXCEPT ![l] = r]
  BY DEF In
<1> HIDE DEF r
<1> QED BY <1>1, <1>2, LoginMoves

\* What a login may do to the rows and the rest of Members.
LEMMA MembersKept ==
  ASSUME MembersInv, row' \in [User -> Row], account' \in User \cup {NoUser}, session' \subseteq User,
         cache' \in [Process -> [User -> Entry]], inflight' \in [Process -> [User -> Loads]],
         plan' \in Plan, UNCHANGED <<load, admin>>
  PROVE  MembersInv'
BY DEF MembersInv, MemberTypeOK

LEMMA LoginSteps ==
  ASSUME MembersInv, LoginsInv, NEW l \in Login,
         Lookup(l) \/ LoginStep(l) \/ PostConsent(l) \/ LoginDies(l)
  PROVE  MembersInv' /\ LoginsInv'
<1> USE MembersAssumption
<1>1. /\ login[l] \in LoginState /\ (login[l].at \notin Anonymous => login[l].user \in User)
      /\ row \in [User -> Row] /\ account \in User \cup {NoUser} /\ session \subseteq User
      /\ cache \in [Process -> [User -> Entry]] /\ inflight \in [Process -> [User -> Loads]]
      /\ plan \in Plan
      /\ consent \in [User -> [PolicyType -> Version]]
      /\ policy \in [PolicyType -> [version : Version, active : BOOLEAN]]
  BY DEF MembersInv, MemberTypeOK, LoginsInv
<1>2. ASSUME LoginsKept, UNCHANGED <<required, policy>>, consent' \in [User -> [PolicyType -> Version]]
      PROVE  LoginsInv'
  BY <1>2 DEF LoginsKept, LoginsInv
<1>3. UNCHANGED memberVars => MembersInv'
  BY <1>1, MembersKept DEF memberVars
<1>4. ASSUME row' \in [User -> Row], account' \in User \cup {NoUser}, session' \subseteq User,
             UNCHANGED <<caching, admin, plan>>
      PROVE  MembersInv'
  BY <1>1, <1>4, MembersKept DEF caching
<1>5. Versions \in [PolicyType -> Version] /\ Holder \in User \cup {NoUser}
  BY <1>1 DEF Versions, Holder
<1>6. ASSUME NEW u \in User, NEW b \in BOOLEAN
      PROVE  AutoApproved(row[u]) \in Row /\ [row[u] EXCEPT !.mail = TRUE] \in Row
             /\ Deleted \in Row /\ Applicant \in Row /\ Member \in Row
  BY <1>1, RowValues
<1>10. ASSUME Lookup(l) PROVE MembersInv' /\ LoginsInv'
  <2> DEFINE r == [Blank EXCEPT !.at = "portal", !.user = account,
                                !.linked = account # NoUser, !.start = Versions]
  <2>1. r \in LoginState /\ r.at \in Anonymous
    BY <1>1, <1>5, LoginValues DEF LoginState, Anonymous
  <2>2. login' = [login EXCEPT ![l] = r]
    BY <1>10 DEF Lookup
  <2> HIDE DEF r
  <2>3. LoginsKept
    BY <2>1, <2>2, LoginMoves
  <2> QED BY <1>1, <1>2, <1>3, <1>10, <2>3 DEF Lookup
<1>11. ASSUME PortalAnswers(l) PROVE MembersInv' /\ LoginsInv'
  <2> DEFINE u == IF login[l].linked THEN login[l].user ELSE Holder
             r == [login[l] EXCEPT !.at = "seen", !.user = u, !.found = row[u]]
  <2>1. u \in User \cup {NoUser}
    BY <1>1, <1>5 DEF LoginState
  <2>2. \/ Refuse(l) \/ Goto(l, "create")
        \/ u \in User /\ login' = [login EXCEPT ![l] = r]
    BY <1>11, <2>1 DEF PortalAnswers
  <2> HIDE DEF u
  <2>3. u \in User => r \in LoginState /\ r.user \in User
    BY <1>1 DEF LoginState
  <2> HIDE DEF r
  <2>4. LoginsKept
    BY <2>2, <2>3, Refused, LoginGoesOn, LoginMoves
  <2> QED BY <1>1, <1>2, <1>3, <1>11, <2>4 DEF PortalAnswers
<1>12. ASSUME AutoApprove(l) PROVE MembersInv' /\ LoginsInv'
  <2>1. login[l].user \in User
    BY <1>1, <1>12 DEF AutoApprove, Anonymous
  <2>2. row' = row \/ row' = [row EXCEPT ![login[l].user] = AutoApproved(row[login[l].user])]
    BY <1>12 DEF AutoApprove
  <2>3. row' \in [User -> Row]
    BY <1>1, <1>6, <2>1, <2>2, RowWritten
  <2>4. LoginsKept
    BY <1>12, <2>1, LoginGoesOn DEF AutoApprove
  <2> QED BY <1>1, <1>2, <1>4, <1>12, <2>3, <2>4 DEF AutoApprove
<1>13. ASSUME AutoApproveForgets(l) PROVE MembersInv' /\ LoginsInv'
  <2>1. login[l].user \in User
    BY <1>1, <1>13 DEF AutoApproveForgets, Anonymous
  <2>2. cache' \in [Process -> [User -> Entry]] /\ inflight' \in [Process -> [User -> Loads]]
    BY <1>13, <2>1, InvalidateTypes DEF AutoApproveForgets, MembersInv
  <2>3. LoginsKept
    <3> DEFINE r == [login[l] EXCEPT !.at = "reread"]
    <3>1. r \in LoginState /\ r.user \in User /\ login' = [login EXCEPT ![l] = r]
      BY <1>1, <1>13, <2>1 DEF AutoApproveForgets, Goto, LoginState
    <3> HIDE DEF r
    <3> QED BY <3>1, LoginMoves
  <2>4. MembersInv'
    BY <1>1, <1>13, <2>2, MembersKept DEF AutoApproveForgets
  <2> QED BY <1>1, <1>2, <1>13, <2>3, <2>4 DEF AutoApproveForgets
<1>14. ASSUME Reread(l) PROVE MembersInv' /\ LoginsInv'
  <2> DEFINE r == [login[l] EXCEPT !.at = "decide", !.found = row[login[l].user]]
  <2>1. login[l].user \in User
    BY <1>1, <1>14 DEF Reread, Anonymous
  <2>2. r \in LoginState /\ r.user \in User
    BY <1>1, <2>1 DEF LoginState
  <2>3. Refuse(l) \/ login' = [login EXCEPT ![l] = r]
    BY <1>14 DEF Reread
  <2> HIDE DEF r
  <2>4. LoginsKept
    BY <2>2, <2>3, Refused, LoginMoves
  <2> QED BY <1>1, <1>2, <1>3, <1>14, <2>4 DEF Reread
<1>15. ASSUME Decide(l) PROVE MembersInv' /\ LoginsInv'
  <2> DEFINE r == [login[l] EXCEPT !.at = "upsert", !.found = Deleted]
             q == [row[login[l].user] EXCEPT !.mail = TRUE]
  <2>1. login[l].user \in User
    BY <1>1, <1>15 DEF Decide, Anonymous
  <2>2. r \in LoginState /\ r.user \in User
    BY <1>1, <1>6, <2>1 DEF LoginState
  <2>3. q \in Row
    BY <1>6, <2>1
  <2>4. /\ Refuse(l) \/ login' = [login EXCEPT ![l] = r]
        /\ row' = row \/ row' = [row EXCEPT ![login[l].user] = q]
    BY <1>1, <1>15, <2>1 DEF Decide
  <2> HIDE DEF r, q
  <2>5. LoginsKept /\ row' \in [User -> Row]
    BY <1>1, <2>1, <2>2, <2>3, <2>4, Refused, LoginMoves, RowWritten
  <2> QED BY <1>1, <1>2, <1>4, <1>15, <2>5 DEF Decide
<1>16. ASSUME CreateUser(l) PROVE MembersInv' /\ LoginsInv'
  <2>1. CASE Refuse(l) /\ UNCHANGED row
    BY <1>1, <1>2, <1>4, <1>16, <2>1, Refused DEF CreateUser
  <2>2. ASSUME NEW u \in User,
               row' = [row EXCEPT ![u] = IF required THEN Applicant ELSE Member],
               Refuse(l) \/ login' = [login EXCEPT ![l] = [@ EXCEPT !.at = "upsert", !.user = u, !.new = TRUE]]
        PROVE  MembersInv' /\ LoginsInv'
    <3> DEFINE r == [login[l] EXCEPT !.at = "upsert", !.user = u, !.new = TRUE]
    <3>1. r \in LoginState /\ r.user \in User
      BY <1>1 DEF LoginState
    <3>2. Refuse(l) \/ login' = [login EXCEPT ![l] = r]
      BY <2>2
    <3> HIDE DEF r
    <3>3. LoginsKept
      BY <3>1, <3>2, Refused, LoginMoves
    <3>4. row' \in [User -> Row]
      BY <1>6, <2>2, RowWritten
    <3> QED BY <1>1, <1>2, <1>4, <1>16, <3>3, <3>4 DEF CreateUser
  <2> QED BY <1>16, <2>1, <2>2 DEF CreateUser
<1>17. ASSUME ReadAccount(l) PROVE MembersInv' /\ LoginsInv'
  <2> DEFINE b == account = login[l].user
             r == [login[l] EXCEPT !.at = "store", !.had = b]
  <2>1. login[l].user \in User /\ b \in BOOLEAN /\ login' = [login EXCEPT ![l] = r]
    BY <1>1, <1>17 DEF ReadAccount, Anonymous
  <2> HIDE DEF b
  <2>2. r \in LoginState /\ r.user \in User
    BY <1>1, <2>1 DEF LoginState
  <2> HIDE DEF r
  <2>3. LoginsKept
    BY <2>1, <2>2, LoginMoves
  <2> QED BY <1>1, <1>2, <1>3, <1>17, <2>3 DEF ReadAccount
<1>18. ASSUME StoreAccount(l) PROVE MembersInv' /\ LoginsInv'
  <2>1. login[l].user \in User
    BY <1>1, <1>18 DEF StoreAccount, Anonymous
  <2>2. LoginsKept
    BY <1>18, <2>1, Refused, LoginGoesOn DEF StoreAccount
  <2>3. account' \in User \cup {NoUser}
    BY <1>1, <1>18, <2>1 DEF StoreAccount, Stored
  <2> QED BY <1>1, <1>2, <1>4, <1>18, <2>2, <2>3 DEF StoreAccount
<1>19. ASSUME ReadPolicies(l) PROVE MembersInv' /\ LoginsInv'
  <2> DEFINE r == [login[l] EXCEPT !.at = "consents", !.page = Versions]
  <2>1. login[l].user \in User /\ (Refuse(l) \/ login' = [login EXCEPT ![l] = r])
    BY <1>1, <1>19 DEF ReadPolicies, Anonymous
  <2>2. r \in LoginState /\ r.user \in User
    BY <1>1, <1>5, <2>1 DEF LoginState
  <2> HIDE DEF r
  <2>3. LoginsKept
    BY <2>1, <2>2, Refused, LoginMoves
  <2> QED BY <1>1, <1>2, <1>3, <1>19, <2>3 DEF ReadPolicies
<1>20. ASSUME CheckConsent(l) PROVE MembersInv' /\ LoginsInv'
  <2>1. login[l].user \in User
    BY <1>1, <1>20 DEF CheckConsent, Anonymous
  <2>2. LoginsKept
    BY <1>20, <2>1, LoginEnters, LoginGoesOn DEF CheckConsent
  <2>3. session' \subseteq User
    BY <1>1, <1>20, <2>1 DEF CheckConsent
  <2> QED BY <1>1, <1>2, <1>4, <1>20, <2>2, <2>3 DEF CheckConsent
<1>21. ASSUME PostConsent(l) PROVE MembersInv' /\ LoginsInv'
  <2>1. login[l].user \in User
    BY <1>1, <1>21 DEF PostConsent, Anonymous
  <2>2. LoginsKept
    BY <1>21, <2>1, Refused, LoginGoesOn DEF PostConsent
  <2> QED BY <1>1, <1>2, <1>3, <1>21, <2>2 DEF PostConsent
<1>22. ASSUME CheckPage(l) PROVE MembersInv' /\ LoginsInv'
  <2>1. login[l].user \in User
    BY <1>1, <1>22 DEF CheckPage, Anonymous
  <2>2. LoginsKept
    BY <1>22, <2>1, Refused, LoginGoesOn DEF CheckPage
  <2> QED BY <1>1, <1>2, <1>3, <1>22, <2>2 DEF CheckPage
<1>23. ASSUME RecordConsent(l) PROVE MembersInv' /\ LoginsInv'
  <2>1. login[l].user \in User
    BY <1>1, <1>23 DEF RecordConsent, Anonymous
  <2>2. LoginsKept /\ session' \subseteq User
    BY <1>1, <1>23, <2>1, Refused, LoginEnters DEF RecordConsent
  <2>3. consent' \in [User -> [PolicyType -> Version]]
    <3> DEFINE u == login[l].user
               new == [t \in PolicyType |->
                         IF login[l].page[t] > consent[u][t] THEN login[l].page[t] ELSE consent[u][t]]
    <3>1. new \in [PolicyType -> Version]
      BY <1>1, <2>1 DEF LoginState
    <3>2. consent' = consent \/ consent' = [consent EXCEPT ![u] = new]
      BY <1>23 DEF RecordConsent
    <3> HIDE DEF u, new
    <3> QED BY <1>1, <3>1, <3>2
  <2> QED BY <1>1, <1>2, <1>4, <1>23, <2>2, <2>3 DEF RecordConsent
<1>24. ASSUME LoginDies(l) PROVE MembersInv' /\ LoginsInv'
  BY <1>1, <1>2, <1>3, <1>24, Refused DEF LoginDies
<1> QED BY <1>10, <1>11, <1>12, <1>13, <1>14, <1>15, <1>16, <1>17, <1>18, <1>19, <1>20, <1>21,
           <1>22, <1>23, <1>24 DEF LoginStep

LEMMA OtherSteps ==
  ASSUME MembersInv, LoginsInv, Publish \/ \E u \in User : Retain(u)
  PROVE  MembersInv' /\ LoginsInv'
<1>1. ASSUME Publish PROVE MembersInv' /\ LoginsInv'
  <2>1. policy' \in [PolicyType -> [version : Version, active : BOOLEAN]]
    BY <1>1 DEF Publish
  <2>2. plan \in Plan /\ plan.edits > 0 /\ plan' = [plan EXCEPT !.edits = @ - 1]
    BY <1>1 DEF Publish, MembersInv, MemberTypeOK
  <2>3. plan' \in Plan
    BY <2>2 DEF Plan
  <2> QED BY <1>1, <2>1, <2>3 DEF Publish, caching, MembersInv, MemberTypeOK, LoginsInv
<1>2. ASSUME NEW u \in User, Retain(u) PROVE MembersInv' /\ LoginsInv'
  <2>1. row' \in [User -> Row]
    <3>1. row' = row \/ row' = [row EXCEPT ![u] = Deleted]
      BY <1>2 DEF Retain, Retire
    <3>2. Deleted \in Row
      BY DEF Deleted, Row, Approval
    <3> QED BY <3>1, <3>2 DEF MembersInv, MemberTypeOK
  <2>2. consent' \in [User -> [PolicyType -> Version]]
    BY <1>2, LoginValues DEF Retain, LoginsInv
  <2>3. MembersInv'
    BY <1>2, <2>1 DEF Retain, Retire, caching, MembersInv, MemberTypeOK
  <2> QED BY <1>2, <2>2, <2>3 DEF Retain, LoginsInv
<1> QED BY <1>1, <1>2

LEMMA StepTypes == ASSUME TypeInv, Next PROVE TypeInv'
<1>1. since' \in [Login -> SUBSET User]
  BY DEF TypeInv, Next, Remember
<1>2. CASE MemberNext /\ UNCHANGED accessVars
  <2>1. MembersInv'
    BY <1>2, CacheSteps, AdminSteps DEF TypeInv, MemberNext
  <2> QED BY <1>1, <1>2, <2>1 DEF TypeInv, LoginsInv, accessVars
<1>3. CASE \E l \in Login : Lookup(l) \/ LoginStep(l) \/ PostConsent(l) \/ LoginDies(l)
  BY <1>1, <1>3, LoginSteps DEF TypeInv
<1>4. CASE Publish \/ \E u \in User : Retain(u)
  BY <1>1, <1>4, OtherSteps DEF TypeInv
<1> QED BY <1>2, <1>3, <1>4 DEF Next, Step

LEMMA StutterTypes == ASSUME TypeInv, UNCHANGED vars PROVE TypeInv'
BY DEF vars, TypeInv, MembersInv, MemberTypeOK, LoginsInv

LEMMA TypesKept == Spec => []TypeInv
<1>1. Init => TypeInv
  BY InitTypes
<1>2. TypeInv /\ [Next]_vars => TypeInv'
  BY StepTypes, StutterTypes
<1> QED BY <1>1, <1>2, PTL DEF Spec

\* The variables keep their types, and whatever goes on goes on with a user:
\* the handlers of auth/login, auth/consent and admin/members never act on a
\* row they have not read.
THEOREM TypeCorrect == Spec => []TypeOK
<1>1. TypeInv => TypeOK
  BY DEF TypeInv, MembersInv, LoginsInv, TypeOK
<1> QED BY <1>1, TypesKept, PTL

-----------------------------------------------------------------------------
(* What a step makes of a row *)

Lost(r) == r.life = "gone" \/ (r.life = "here" /\ r.withdrawn)
Sound(r) == r.active => r.approval = "APPROVED" /\ (r.withdrawn => r.byAdmin)

\* A row that is written is a row, sound and born, and no lost one returns.
RowMove(r, s) ==
  /\ s \in Row /\ Sound(s)
  /\ s.life # "unborn"
  /\ Lost(r) => Lost(s)

\* An activation goes by an approval.
ActivationsApproved ==
  \A a \in AdminCall :
    admin[a].at = "write" /\ admin[a].kind = "activate" => admin[a].saw = "APPROVED"

\* A withdrawn row is active only by a decision of an administrator that was
\* written after the withdrawal, which resets byAdmin.
RevivedByAdmins == \A u \in User : row[u].withdrawn /\ row[u].active => row[u].byAdmin

RowsInv == TypeInv /\ ActiveIsApproved /\ RevivedByAdmins /\ ActivationsApproved

Moved(u, s) == RowMove(row[u], s) /\ row' = [row EXCEPT ![u] = s]
RowsMove == row' = row \/ \E u \in User : \E s \in Row : Moved(u, s)

LEMMA AdminMovesRows == ASSUME RowsInv, NEW a \in AdminCall, AdminStep(a) PROVE RowsMove
<1>1. /\ row \in [User -> Row] /\ \A u \in User : Sound(row[u])
      /\ admin[a] \in AdminState /\ (~Undecided(admin[a]) => admin[a].user \in User)
  BY DEF RowsInv, TypeInv, MembersInv, MemberTypeOK, ActiveIsApproved, RevivedByAdmins, Sound
<1>2. CASE AdminDecide(a)
  <2> DEFINE s == Decided(row[admin[a].user], admin[a].kind = "approve")
  <2>1. admin[a].user \in User
    BY <1>1, <1>2 DEF AdminDecide, Undecided, Enrols
  <2>2. s \in Row
    BY <1>1, <2>1, RowValues
  <2>3. row' = row \/ (row' = [row EXCEPT ![admin[a].user] = s] /\ row[admin[a].user].life = "here")
    BY <1>2 DEF AdminDecide
  <2>4. row[admin[a].user].life = "here" => RowMove(row[admin[a].user], s)
    BY <1>1, <2>1, <2>2 DEF RowMove, Lost, Sound, Decided, Row
  <2> HIDE DEF s
  <2> QED BY <2>1, <2>2, <2>3, <2>4 DEF RowsMove, Moved
<1>3. CASE AdminPatch(a)
  <2> DEFINE b == admin[a].kind = "activate"
             s == [row[admin[a].user] EXCEPT !.active = b]
  <2>1. admin[a].user \in User
    BY <1>1, <1>3 DEF AdminPatch, Undecided, Enrols
  <2>2. /\ row' = row \/ (row' = [row EXCEPT ![admin[a].user] = s] /\ row[admin[a].user].life = "here"
                                    /\ row[admin[a].user].approval = admin[a].saw
                                    /\ ~row[admin[a].user].withdrawn)
        /\ b \in BOOLEAN /\ (b => admin[a].saw = "APPROVED")
    BY <1>3 DEF AdminPatch, Unchanged, RowsInv, ActivationsApproved
  <2> HIDE DEF b
  <2>3. s \in Row
    BY <1>1, <2>1, <2>2 DEF Row
  <2>4. row' # row => RowMove(row[admin[a].user], s)
    BY <1>1, <2>1, <2>2, <2>3 DEF RowMove, Lost, Sound, Row
  <2> HIDE DEF s
  <2> QED BY <2>1, <2>2, <2>3, <2>4 DEF RowsMove, Moved
<1>4. CASE AdminWithdraw(a)
  <2> DEFINE s == Anonymized(row[admin[a].user])
  <2>1. admin[a].user \in User
    BY <1>1, <1>4 DEF AdminWithdraw, Undecided, Enrols
  <2>2. s \in Row
    BY <1>1, <2>1, RowValues
  <2>3. row' = row \/ (row' = [row EXCEPT ![admin[a].user] = s] /\ row[admin[a].user].life = "here")
    BY <1>4 DEF AdminWithdraw
  <2>4. row[admin[a].user].life = "here" => RowMove(row[admin[a].user], s)
    BY <1>1, <2>1, <2>2 DEF RowMove, Lost, Sound, Anonymized, Row
  <2> HIDE DEF s
  <2> QED BY <2>1, <2>2, <2>3, <2>4 DEF RowsMove, Moved
<1>5. CASE EnrolWrite(a)
  <2>1. CASE UNCHANGED row
    BY <2>1 DEF RowsMove
  <2>2. ASSUME NEW u \in User, row[u].life \in {"unborn", "here"},
               row' = [row EXCEPT ![u] = Enrolled(@, admin[a].kind = "enrol")]
        PROVE  RowsMove
    <3> DEFINE s == Enrolled(row[u], admin[a].kind = "enrol")
    <3>1. s \in Row
      BY <1>1, RowValues
    <3>2. RowMove(row[u], s)
      BY <1>1, <2>2, <3>1 DEF RowMove, Lost, Sound, Enrolled, Row
    <3>3. row' = [row EXCEPT ![u] = s]
      BY <2>2
    <3> HIDE DEF s
    <3> QED BY <3>1, <3>2, <3>3 DEF RowsMove, Moved
  <2> QED BY <1>5, <2>1, <2>2 DEF EnrolWrite
<1>6. CASE AdminCleanup(a) \/ EnrolAccountRead(a) \/ EnrolStore(a) \/ AdminForget(a)
  BY <1>6 DEF AdminCleanup, EnrolAccountRead, EnrolStore, AdminForget, RowsMove
<1> QED BY <1>2, <1>3, <1>4, <1>5, <1>6 DEF AdminStep

LEMMA LoginMovesRows ==
  ASSUME RowsInv, NEW l \in Login, Lookup(l) \/ LoginStep(l) \/ PostConsent(l) \/ LoginDies(l)
  PROVE  RowsMove
<1>1. /\ row \in [User -> Row] /\ \A u \in User : Sound(row[u])
      /\ login[l] \in LoginState /\ (login[l].at \notin Anonymous => login[l].user \in User)
  BY DEF RowsInv, TypeInv, MembersInv, MemberTypeOK, LoginsInv, ActiveIsApproved, RevivedByAdmins, Sound
<1>2. CASE AutoApprove(l)
  <2> DEFINE s == AutoApproved(row[login[l].user])
  <2>1. login[l].user \in User
    BY <1>1, <1>2 DEF AutoApprove, Anonymous
  <2>2. s \in Row
    BY <1>1, <2>1, RowValues
  <2>3. row' = row \/ (row' = [row EXCEPT ![login[l].user] = s] /\ row[login[l].user].life = "here"
                                    /\ ~row[login[l].user].withdrawn)
    BY <1>2 DEF AutoApprove, StillPending
  <2>4. row[login[l].user].life = "here" /\ ~row[login[l].user].withdrawn => RowMove(row[login[l].user], s)
    BY <1>1, <2>1, <2>2 DEF RowMove, Lost, Sound, AutoApproved, Row
  <2> HIDE DEF s
  <2> QED BY <2>1, <2>2, <2>3, <2>4 DEF RowsMove, Moved
<1>3. CASE Decide(l)
  <2> DEFINE s == [row[login[l].user] EXCEPT !.mail = TRUE]
  <2>1. login[l].user \in User
    BY <1>1, <1>3 DEF Decide, Anonymous
  <2>2. s \in Row
    BY <1>1, <2>1, RowValues
  <2>3. row' = row \/ (row' = [row EXCEPT ![login[l].user] = s] /\ row[login[l].user].life = "here")
    BY <1>3 DEF Decide, Linkable
  <2>4. row[login[l].user].life = "here" => RowMove(row[login[l].user], s)
    BY <1>1, <2>1, <2>2 DEF RowMove, Lost, Sound, Row
  <2> HIDE DEF s
  <2> QED BY <2>1, <2>2, <2>3, <2>4 DEF RowsMove, Moved
<1>4. CASE CreateUser(l)
  <2>1. CASE UNCHANGED row
    BY <2>1 DEF RowsMove
  <2>2. ASSUME NEW u \in User, row[u].life = "unborn",
               row' = [row EXCEPT ![u] = IF required THEN Applicant ELSE Member]
        PROVE  RowsMove
    <3> DEFINE s == IF required THEN Applicant ELSE Member
    <3>1. s \in Row
      BY <1>1, RowValues
    <3>2. RowMove(row[u], s)
      BY <2>2, <3>1 DEF RowMove, Lost, Sound, Applicant, Member, Unborn, Deleted
    <3>3. row' = [row EXCEPT ![u] = s]
      BY <2>2
    <3> HIDE DEF s
    <3> QED BY <3>1, <3>2, <3>3 DEF RowsMove, Moved
  <2> QED BY <1>4, <2>1, <2>2 DEF CreateUser
<1>5. ASSUME UNCHANGED memberVars PROVE RowsMove
  BY <1>5 DEF memberVars, RowsMove
<1>6. CASE \/ Lookup(l) \/ PortalAnswers(l) \/ Reread(l) \/ ReadAccount(l) \/ ReadPolicies(l)
           \/ PostConsent(l) \/ CheckPage(l) \/ LoginDies(l)
  BY <1>5, <1>6
     DEF Lookup, PortalAnswers, Reread, ReadAccount, ReadPolicies, PostConsent, CheckPage, LoginDies
<1>7. CASE AutoApproveForgets(l) \/ StoreAccount(l) \/ CheckConsent(l) \/ RecordConsent(l)
  BY <1>7 DEF AutoApproveForgets, StoreAccount, CheckConsent, RecordConsent, RowsMove
<1> QED BY <1>2, <1>3, <1>4, <1>6, <1>7 DEF LoginStep

LEMMA StepMovesRows == ASSUME RowsInv, Next PROVE RowsMove
<1>1. ASSUME MemberNext PROVE RowsMove
  <2>1. ASSUME NEW a \in AdminCall, AdminStep(a) PROVE RowsMove
    BY <2>1, AdminMovesRows
  <2>2. ASSUME ~(\E a \in AdminCall : AdminStep(a)) PROVE UNCHANGED row
    BY <1>1, <2>2
       DEF MemberNext, StartLoad, ReadLoad, EndLoad, Tick, Restart, EnrolRead, AdminRead, AdminDies
  <2> QED BY <2>1, <2>2 DEF RowsMove
<1>2. ASSUME Publish PROVE RowsMove
  BY <1>2 DEF Publish, RowsMove
<1>3. ASSUME NEW u \in User, Retain(u) PROVE RowsMove
  <2>1. row' = row \/ (row' = [row EXCEPT ![u] = Deleted])
    BY <1>3 DEF Retain, Retire
  <2>2. Deleted \in Row /\ RowMove(row[u], Deleted)
    BY DEF RowMove, Lost, Sound, Deleted, Row, Approval
  <2> QED BY <2>1, <2>2 DEF RowsMove, Moved
<1> QED BY <1>1, <1>2, <1>3, LoginMovesRows DEF Next, Step

-----------------------------------------------------------------------------
(* Only the approved are active *)

LEMMA InitRows == ASSUME Init PROVE RowsInv
<1> PICK r \in {Unborn, Applicant, Member}, version \in {0, 1} :
         Begins(CHOOSE u \in User : TRUE, r, version)
  BY DEF Init
<1>1. ActiveIsApproved /\ RevivedByAdmins
  BY DEF Begins, ActiveIsApproved, RevivedByAdmins, Unborn, Deleted, Applicant, Member
<1>2. ActivationsApproved
  BY DEF Init, ActivationsApproved, NoCall
<1> QED BY <1>1, <1>2, InitTypes DEF RowsInv

LEMMA StepActivations == ASSUME RowsInv, Next PROVE ActivationsApproved'
<1>1. admin \in [AdminCall -> AdminState]
  BY DEF RowsInv, TypeInv, MembersInv, MemberTypeOK
<1>2. UNCHANGED admin => ActivationsApproved'
  BY DEF RowsInv, ActivationsApproved
<1>3. ASSUME NEW a \in AdminCall, NEW r \in AdminState,
             r.at = "write" /\ r.kind = "activate" => r.saw = "APPROVED",
             admin' = [admin EXCEPT ![a] = r]
      PROVE  ActivationsApproved'
  BY <1>1, <1>3 DEF RowsInv, ActivationsApproved
<1>4. ASSUME NEW a \in AdminCall, End(a) PROVE ActivationsApproved'
  <2>1. CallOver \in AdminState /\ CallOver.at = "over"
    BY DEF CallOver, NoCall, AdminState, Kinds, Approval
  <2> QED BY <1>3, <1>4, <2>1 DEF End
<1>5. ASSUME NEW a \in AdminCall, NEW at \in {"cleanup", "upsert", "store", "forget"}, NEW u \in User, NEW b \in BOOLEAN,
             \/ admin' = [admin EXCEPT ![a] = [@ EXCEPT !.at = at]]
             \/ admin' = [admin EXCEPT ![a] = [@ EXCEPT !.at = at, !.user = u]]
             \/ admin' = [admin EXCEPT ![a] = [@ EXCEPT !.at = at, !.had = b]]
      PROVE  ActivationsApproved'
  <2>1. ASSUME NEW k \in AdminCall, k # a PROVE admin'[k] = admin[k]
    BY <1>1, <1>5, <2>1
  <2> DEFINE q == [admin[a] EXCEPT !.at = at]
             r == [admin[a] EXCEPT !.at = at, !.user = u]
             s == [admin[a] EXCEPT !.at = at, !.had = b]
  <2>2. q.at = at /\ r.at = at /\ s.at = at
    BY <1>1 DEF AdminState
  <2>3. admin'[a] \in {q, r, s}
    BY <1>1, <1>5
  <2> HIDE DEF q, r, s
  <2>4. admin'[a].at # "write"
    BY <2>2, <2>3
  <2> QED BY <2>1, <2>4 DEF RowsInv, ActivationsApproved
<1>6. ASSUME NEW a \in AdminCall, NEW kind \in Kinds, NEW u \in User, AdminRead(a, kind, u)
      PROVE  ActivationsApproved'
  <2> DEFINE r == [at |-> "write", kind |-> kind, user |-> u, saw |-> row[u].approval, had |-> FALSE]
  <2>1. r \in AdminState /\ (r.kind = "activate" => r.saw = "APPROVED") /\ admin' = [admin EXCEPT ![a] = r]
    BY <1>6 DEF AdminRead, AdminState, RowsInv, TypeInv, MembersInv, MemberTypeOK, Row
  <2> HIDE DEF r
  <2> QED BY <1>3, <2>1
<1>7. ASSUME NEW a \in AdminCall, NEW kind \in Kinds, EnrolRead(a, kind) PROVE ActivationsApproved'
  <2>1. \A k \in AdminCall : k # a => admin'[k] = admin[k]
    BY <1>1, <1>7 DEF EnrolRead
  <2>2. admin'[a].kind # "activate"
    BY <1>1, <1>7 DEF EnrolRead, NoCall
  <2> QED BY <2>1, <2>2 DEF RowsInv, ActivationsApproved
<1>8. ASSUME NEW a \in AdminCall, AdminStep(a) \/ AdminDies(a) PROVE ActivationsApproved'
  <2> PICK v \in User : TRUE
    BY MembersAssumption
  <2>1. CASE AdminDecide(a) \/ AdminPatch(a) \/ AdminWithdraw(a) \/ AdminCleanup(a)
    BY <1>4, <1>5, <2>1 DEF AdminDecide, AdminPatch, AdminWithdraw, AdminCleanup
  <2>2. CASE EnrolWrite(a)
    BY <1>4, <1>5, <2>2 DEF EnrolWrite
  <2>3. CASE EnrolAccountRead(a)
    BY <1>5, <2>3 DEF EnrolAccountRead
  <2>4. CASE EnrolStore(a) \/ AdminForget(a) \/ AdminDies(a)
    BY <1>4, <1>5, <2>4 DEF EnrolStore, AdminForget, AdminDies
  <2> QED BY <1>8, <2>1, <2>2, <2>3, <2>4 DEF AdminStep
<1>9. ASSUME ~(\E a \in AdminCall : \/ AdminStep(a) \/ AdminDies(a)
                                  \/ \E kind \in Kinds : EnrolRead(a, kind) \/ \E u \in User : AdminRead(a, kind, u))
      PROVE  UNCHANGED admin
  <2>1. CASE MemberNext
    BY <1>9, <2>1 DEF MemberNext, StartLoad, ReadLoad, EndLoad, Tick, Restart
  <2>2. CASE Publish \/ \E u \in User : Retain(u)
    BY <2>2 DEF Publish, Retain, Retire
  <2>3. ASSUME NEW l \in Login, Lookup(l) \/ LoginStep(l) \/ PostConsent(l) \/ LoginDies(l)
        PROVE  UNCHANGED admin
    BY <2>3 DEF Lookup, LoginStep, PortalAnswers, AutoApprove, AutoApproveForgets, Reread, Decide, CreateUser,
         ReadAccount, StoreAccount, ReadPolicies, CheckConsent, PostConsent, CheckPage, RecordConsent,
         LoginDies, memberVars
  <2> QED BY <2>1, <2>2, <2>3 DEF Next, Step
<1> QED BY <1>2, <1>6, <1>7, <1>8, <1>9

LEMMA StepRows == ASSUME RowsInv, Next PROVE RowsInv'
<1>1. TypeInv'
  BY StepTypes DEF RowsInv
<1>2. ActiveIsApproved' /\ RevivedByAdmins'
  BY StepMovesRows DEF RowsMove, Moved, RowMove, Sound, RowsInv, ActiveIsApproved, RevivedByAdmins,
     TypeInv, MembersInv, MemberTypeOK
<1> QED BY <1>1, <1>2, StepActivations DEF RowsInv

LEMMA StutterRows == ASSUME RowsInv, UNCHANGED vars PROVE RowsInv'
BY StutterTypes DEF RowsInv, ActiveIsApproved, RevivedByAdmins, ActivationsApproved, vars

LEMMA RowsKept == Spec => []RowsInv
<1>1. Init => RowsInv
  BY InitRows
<1>2. RowsInv /\ [Next]_vars => RowsInv'
  BY StepRows, StutterRows
<1> QED BY <1>1, <1>2, PTL DEF Spec

\* Only an approved member is active, whatever calls of administrators and
\* automatic approvals overtake each other: the activation is conditional on
\* the approval its handler read.
THEOREM OnlyApprovedAreActive == Spec => []ActiveIsApproved
<1>1. RowsInv => ActiveIsApproved
  BY DEF RowsInv
<1> QED BY <1>1, RowsKept, PTL

\* No login and no edit of the profile revives a withdrawn row, however long
\* it was under way: if the row is active, an administrator approved it after
\* the withdrawal or enrolled the person anew.  (That such a row is forgotten
\* in the end, unless it is active, is WithdrawnForgotten, checked by TLC.)
THEOREM WithdrawnStayOut == Spec => []RevivedByAdmins
<1>1. RowsInv => RevivedByAdmins
  BY DEF RowsInv
<1> QED BY <1>1, RowsKept, PTL

-----------------------------------------------------------------------------
(* No session for the refused *)

Owned == {"upsert", "store", "policy", "consents", "agree", "record", "in"}

\* What the call goes by, if it admits, was true at some moment of the call.
Rightful(c, seen) ==
  /\ c.at \in {"seen", "decide"} /\ Admissible(c.found) => c.user \in seen
  /\ c.at \in Owned => c.user \in seen

RightInv == RowsInv /\ \A l \in Login : Rightful(login[l], since[l])

LEMMA SinceGrows ==
  ASSUME RowsInv, Remember, NEW l \in Login, login'[l].at \notin {"idle", "asked", "over"}
  PROVE  /\ since[l] \subseteq since'[l]
         /\ \A u \in User : login[l].at # "in" /\ Admissible(row'[u]) => u \in since'[l]
BY DEF Remember

\* A call that does not move stays rightful.
LEMMA RightKept ==
  ASSUME RightInv, Remember, NEW l \in Login, UNCHANGED login[l]
  PROVE  Rightful(login[l], since[l])'
BY SinceGrows DEF RightInv, Rightful, Owned

LEMMA LoginRight ==
  ASSUME RightInv, Remember, NEW l \in Login,
         Lookup(l) \/ LoginStep(l) \/ PostConsent(l) \/ LoginDies(l)
  PROVE  Rightful(login'[l], since'[l])
<1>1. /\ login \in [Login -> LoginState] /\ login[l] \in LoginState
      /\ login[l].at \notin Anonymous => login[l].user \in User
      /\ row \in [User -> Row] /\ Rightful(login[l], since[l])
  BY DEF RightInv, RowsInv, TypeInv, LoginsInv, MembersInv, MemberTypeOK
<1>2. Refuse(l) => Rightful(login'[l], since'[l])
  BY <1>1, LoginValues DEF Refuse, Rightful, Owned
<1>3. ASSUME NEW at \in Owned \cup {"create", "approved", "asked", "reread"}, Goto(l, at)
      PROVE  login'[l].at = at /\ login'[l].user = login[l].user
  BY <1>1, <1>3 DEF Goto, LoginState, Owned
<1>4. In(l) => login'[l].at = "in" /\ login'[l].user = login[l].user
  BY <1>1, LoginValues DEF In, LoginState
<1>5. CASE Lookup(l)
  <2>1. login'[l].at = "portal"
    BY <1>1, <1>5 DEF Lookup, Blank
  <2> QED BY <2>1 DEF Rightful, Owned
<1>6. CASE PortalAnswers(l)
  <2>1. CASE Refuse(l) \/ Goto(l, "create")
    BY <1>2, <1>3, <2>1 DEF Rightful, Owned
  <2>2. ASSUME NEW u \in User \cup {NoUser}, u # NoUser, row[u].life = "here",
               login' = [login EXCEPT ![l] = [@ EXCEPT !.at = "seen", !.user = u, !.found = row[u]]]
        PROVE  Rightful(login'[l], since'[l])
    <3>1. login'[l].at = "seen" /\ login'[l].user = u /\ login'[l].found = row[u]
      BY <1>1, <2>2 DEF LoginState
    <3>2. row' = row /\ login[l].at # "in"
      BY <1>6 DEF PortalAnswers, memberVars
    <3> QED BY <2>2, <3>1, <3>2, SinceGrows DEF Rightful, Owned, RightInv
  <2>3. (IF login[l].linked THEN login[l].user ELSE Holder) \in User \cup {NoUser}
    BY <1>1 DEF LoginState, Holder
  <2> QED BY <1>6, <2>1, <2>2, <2>3 DEF PortalAnswers
<1>7. CASE AutoApprove(l) \/ AutoApproveForgets(l)
  BY <1>3, <1>7 DEF AutoApprove, AutoApproveForgets, Rightful, Owned
<1>8. CASE Reread(l)
  <2>1. CASE Refuse(l)
    BY <1>2, <2>1
  <2>2. CASE login' = [login EXCEPT ![l] = [@ EXCEPT !.at = "decide", !.found = row[login[l].user]]]
    <3>1. login'[l].at = "decide" /\ login'[l].user = login[l].user /\ login'[l].found = row[login[l].user]
      BY <1>1, <2>2 DEF LoginState
    <3>2. row' = row /\ login[l].at = "reread" /\ login[l].user \in User
      BY <1>1, <1>8 DEF Reread, memberVars, Anonymous
    <3> QED BY <3>1, <3>2, SinceGrows DEF Rightful, Owned, RightInv
  <2> QED BY <1>8, <2>1, <2>2 DEF Reread
<1>9. CASE Decide(l)
  <2>1. CASE Refuse(l)
    BY <1>2, <2>1
  <2>2. CASE /\ Admissible(login[l].found)
             /\ login' = [login EXCEPT ![l] = [@ EXCEPT !.at = "upsert", !.found = Deleted]]
    <3>1. login'[l].at = "upsert" /\ login'[l].user = login[l].user
      BY <1>1, <2>2 DEF LoginState
    <3>2. login[l].user \in since[l]
      BY <1>1, <1>9, <2>2 DEF Decide, Rightful
    <3> QED BY <3>1, <3>2, SinceGrows DEF Rightful, Owned, RightInv
  <2> QED BY <1>9, <2>1, <2>2 DEF Decide
<1>10. CASE CreateUser(l)
  <2>1. CASE Refuse(l)
    BY <1>2, <2>1
  <2>2. ASSUME NEW u \in User, ~required,
               row' = [row EXCEPT ![u] = IF required THEN Applicant ELSE Member],
               login' = [login EXCEPT ![l] = [@ EXCEPT !.at = "upsert", !.user = u, !.new = TRUE]]
        PROVE  Rightful(login'[l], since'[l])
    <3>1. login'[l].at = "upsert" /\ login'[l].user = u
      BY <1>1, <2>2 DEF LoginState
    <3>2. Admissible(row'[u])
      BY <1>1, <2>2 DEF Admissible, Member, Applicant, Unborn, Deleted
    <3>3. login[l].at = "create"
      BY <1>10 DEF CreateUser
    <3> QED BY <3>1, <3>2, <3>3, SinceGrows DEF Rightful, Owned, RightInv
  <2> QED BY <1>10, <2>1, <2>2 DEF CreateUser
<1>11. CASE ReadAccount(l)
  <2>1. login'[l].at = "store" /\ login'[l].user = login[l].user
    BY <1>1, <1>11 DEF ReadAccount, LoginState
  <2> QED BY <1>1, <1>11, <2>1, SinceGrows DEF ReadAccount, Rightful, Owned, RightInv
<1>12. CASE StoreAccount(l)
  <2>1. CASE Refuse(l)
    BY <1>2, <2>1
  <2>2. CASE Goto(l, "policy")
    BY <1>1, <1>3, <1>12, <2>2, SinceGrows DEF StoreAccount, Rightful, Owned, RightInv
  <2> QED BY <1>12, <2>1, <2>2 DEF StoreAccount
<1>13. CASE ReadPolicies(l)
  <2>1. CASE Refuse(l)
    BY <1>2, <2>1
  <2>2. CASE login' = [login EXCEPT ![l] = [@ EXCEPT !.at = "consents", !.page = Versions]]
    <3>1. login'[l].at = "consents" /\ login'[l].user = login[l].user
      BY <1>1, <2>2 DEF LoginState
    <3> QED BY <1>1, <1>13, <3>1, SinceGrows DEF ReadPolicies, Rightful, Owned, RightInv
  <2> QED BY <1>13, <2>1, <2>2 DEF ReadPolicies
<1>14. CASE CheckConsent(l)
  <2>1. CASE In(l)
    BY <1>1, <1>4, <1>14, <2>1, SinceGrows DEF CheckConsent, Rightful, Owned, RightInv
  <2>2. CASE Goto(l, "asked")
    BY <1>3, <2>2 DEF Rightful, Owned
  <2> QED BY <1>14, <2>1, <2>2 DEF CheckConsent
<1>15. CASE PostConsent(l)
  <2>1. CASE Refuse(l)
    BY <1>2, <2>1
  <2>2. CASE Enabled(row[login[l].user]) /\ Goto(l, "agree")
    <3>1. login'[l].at = "agree" /\ login'[l].user = login[l].user
      BY <1>3, <2>2 DEF Owned
    <3>2. row' = row /\ login[l].at = "asked" /\ login[l].user \in User
      BY <1>1, <1>15 DEF PostConsent, memberVars, Anonymous
    <3>3. Admissible(row[login[l].user])
      BY <2>2, <3>2 DEF Enabled, Admissible, RightInv, RowsInv, ActiveIsApproved
    <3> QED BY <3>1, <3>2, <3>3, SinceGrows DEF Rightful, Owned, RightInv
  <2> QED BY <1>15, <2>1, <2>2 DEF PostConsent
<1>16. CASE CheckPage(l)
  <2>1. CASE Refuse(l)
    BY <1>2, <2>1
  <2>2. CASE Goto(l, "record")
    BY <1>1, <1>3, <1>16, <2>2, SinceGrows DEF CheckPage, Rightful, Owned, RightInv
  <2> QED BY <1>16, <2>1, <2>2 DEF CheckPage
<1>17. CASE RecordConsent(l)
  <2>1. CASE Refuse(l)
    BY <1>2, <2>1
  <2>2. CASE In(l)
    BY <1>1, <1>4, <1>17, <2>2, SinceGrows DEF RecordConsent, Rightful, Owned, RightInv
  <2> QED BY <1>17, <2>1, <2>2 DEF RecordConsent
<1>18. CASE LoginDies(l)
  BY <1>2, <1>18 DEF LoginDies
<1> QED BY <1>5, <1>6, <1>7, <1>8, <1>9, <1>10, <1>11, <1>12, <1>13, <1>14, <1>15, <1>16, <1>17, <1>18
        DEF LoginStep

\* Every step moves at most one login.
LEMMA OneLoginMoves ==
  ASSUME RowsInv, Step
  PROVE  \/ UNCHANGED login
         \/ \E l \in Login :
              /\ Lookup(l) \/ LoginStep(l) \/ PostConsent(l) \/ LoginDies(l)
              /\ \A k \in Login : k # l => UNCHANGED login[k]
<1>1. login \in [Login -> LoginState]
  BY DEF RowsInv, TypeInv, LoginsInv
<1>2. CASE MemberNext /\ UNCHANGED accessVars
  BY <1>2 DEF accessVars
<1>3. CASE Publish \/ \E u \in User : Retain(u)
  BY <1>3 DEF Publish, Retain
<1>4. ASSUME NEW l \in Login, Lookup(l) \/ LoginStep(l) \/ PostConsent(l) \/ LoginDies(l)
      PROVE  \A k \in Login : k # l => UNCHANGED login[k]
  BY <1>1, <1>4 DEF Lookup, LoginStep, PortalAnswers, AutoApprove, AutoApproveForgets, Reread, Decide,
       CreateUser, ReadAccount, StoreAccount, ReadPolicies, CheckConsent, PostConsent, CheckPage,
       RecordConsent, LoginDies, Refuse, Goto, In
<1> QED BY <1>2, <1>3, <1>4 DEF Step

LEMMA StepRight == ASSUME RightInv, Next PROVE RightInv'
<1>1. RowsInv' /\ Remember /\ Step
  BY StepRows DEF RightInv, Next
<1>2. CASE UNCHANGED login
  BY <1>1, <1>2, RightKept DEF RightInv
<1>3. ASSUME NEW l \in Login, Lookup(l) \/ LoginStep(l) \/ PostConsent(l) \/ LoginDies(l),
             \A k \in Login : k # l => UNCHANGED login[k]
      PROVE  RightInv'
  BY <1>1, <1>3, RightKept, LoginRight DEF RightInv
<1> QED BY <1>1, <1>2, <1>3, OneLoginMoves DEF RightInv

LEMMA RightAlways == Spec => []RightInv
<1>1. Init => RightInv
  BY InitRows DEF Init, RightInv, Rightful, Owned, Blank
<1>2. RightInv /\ UNCHANGED vars => RightInv'
  BY StutterRows DEF RightInv, Rightful, vars
<1>3. RightInv /\ [Next]_vars => RightInv'
  BY <1>2, StepRight
<1> QED BY <1>1, <1>3, PTL DEF Spec

\* A call of auth/login or auth/consent that ends in a session is one of a
\* user who was active, approved and not withdrawn at some moment of it.
THEOREM RefusedHaveNoSession == Spec => []NoSessionForRefused
<1>1. RightInv => NoSessionForRefused
  BY DEF RightInv, Rightful, Owned, NoSessionForRefused
<1> QED BY <1>1, RightAlways, PTL

-----------------------------------------------------------------------------
(* Every session has its consents *)

Shown == {"consents", "asked", "agree", "record"}
Current(r) == r.life = "here" /\ ~r.withdrawn

Informed(c) ==
  \A t \in PolicyType :
    /\ c.at \notin {"idle", "over"} => c.start[t] <= policy[t].version
    /\ c.at \in Shown => c.start[t] <= c.page[t]
    /\ c.at = "in" /\ Current(row[c.user]) => c.start[t] <= consent[c.user][t]

\* A login goes on with a row that was there once, and so is there for good
\* or lost for good.
Found(c) == c.at \notin Anonymous => row[c.user].life # "unborn"

ConsentInv == RowsInv /\ \A l \in Login : Informed(login[l]) /\ Found(login[l])

LEMMA BornForGood ==
  ASSUME RowsInv, Next, NEW u \in User, row[u].life # "unborn"
  PROVE  row'[u].life # "unborn" /\ (Current(row'[u]) => Current(row[u]))
<1>1. row \in [User -> Row]
  BY DEF RowsInv, TypeInv, MembersInv, MemberTypeOK
<1>2. row[u].life \in {"here", "gone"}
  BY <1>1 DEF Row
<1>3. CASE row' = row
  BY <1>3
<1>4. ASSUME NEW v \in User, NEW s \in Row, Moved(v, s)
      PROVE  row'[u].life # "unborn" /\ (Current(row'[u]) => Current(row[u]))
  <2>1. CASE u # v
    BY <1>1, <1>4, <2>1 DEF Moved
  <2>2. CASE u = v
    <3>1. row'[u] = s /\ RowMove(row[u], s)
      BY <1>1, <1>4, <2>2 DEF Moved
    <3> QED BY <1>2, <3>1 DEF RowMove, Lost, Current
  <2> QED BY <2>1, <2>2
<1> QED BY <1>3, <1>4, StepMovesRows DEF RowsMove

LEMMA PoliciesGrow ==
  ASSUME RowsInv, Next, NEW t \in PolicyType
  PROVE  policy[t].version <= policy'[t].version
<1>1. policy[t].version \in Nat
  BY AccessAssumption DEF RowsInv, TypeInv, LoginsInv, Version
<1>2. CASE Publish
  <2>1. policy'[t] \in Publications(policy[t])
    <3> PICK next \in [PolicyType -> [version : Version, active : BOOLEAN]] :
             (\A s \in PolicyType : next[s] \in Publications(policy[s])) /\ policy' = next
      BY <1>2 DEF Publish
    <3> QED OBVIOUS
  <2>2. ASSUME NEW d, NEW n \in Publications(d) PROVE n.version \in {d.version, d.version + 1}
    <3>1. PICK b : \/ n = [version |-> d.version, active |-> b]
                   \/ n = [version |-> d.version + 1, active |-> b]
      BY Zenon DEF Publications
    <3> QED BY <3>1
  <2>3. policy'[t].version \in {policy[t].version, policy[t].version + 1}
    BY <2>1, <2>2
  <2> QED BY <1>1, <2>3
<1>3. CASE MemberNext /\ UNCHANGED accessVars
  BY <1>1, <1>3 DEF accessVars
<1>4. CASE \E u \in User : Retain(u)
  BY <1>1, <1>4 DEF Retain
<1>5. ASSUME NEW l \in Login, Lookup(l) \/ LoginStep(l) \/ PostConsent(l) \/ LoginDies(l)
      PROVE  UNCHANGED policy
  BY <1>5 DEF Lookup, LoginStep, PortalAnswers, AutoApprove, AutoApproveForgets, Reread, Decide,
       CreateUser, ReadAccount, StoreAccount, ReadPolicies, CheckConsent, PostConsent, CheckPage,
       RecordConsent, LoginDies
<1> QED BY <1>1, <1>2, <1>3, <1>4, <1>5 DEF Next, Step

LEMMA ConsentsGrow ==
  ASSUME RowsInv, Next, NEW u \in User, NEW t \in PolicyType, row[u].life # "unborn", Current(row'[u])
  PROVE  consent[u][t] <= consent'[u][t]
<1>1. /\ consent \in [User -> [PolicyType -> Version]] /\ consent[u][t] \in Nat
      /\ row \in [User -> Row]
  BY AccessAssumption DEF RowsInv, TypeInv, LoginsInv, MembersInv, MemberTypeOK, Version
<1>2. ASSUME NEW v \in User, Retain(v) PROVE consent[u][t] <= consent'[u][t]
  <2>1. Current(row[u])
    BY BornForGood
  <2>2. v # u
    BY <1>2, <2>1 DEF Retain, Retire, Current
  <2> QED BY <1>1, <1>2, <2>2 DEF Retain
<1>3. ASSUME NEW l \in Login, RecordConsent(l) PROVE consent[u][t] <= consent'[u][t]
  <2>1. login[l].page[t] \in Nat
    BY AccessAssumption DEF RowsInv, TypeInv, LoginsInv, LoginState, Version
  <2> DEFINE v == login[l].user
             new == [s \in PolicyType |->
                       IF login[l].page[s] > consent[v][s] THEN login[l].page[s] ELSE consent[v][s]]
  <2>2. v = u => consent[u][t] <= new[t]
    BY <1>1, <2>1
  <2>3. consent' = consent \/ consent' = [consent EXCEPT ![v] = new]
    BY <1>3 DEF RecordConsent
  <2> HIDE DEF v, new
  <2> QED BY <1>1, <2>2, <2>3
<1>4. CASE (MemberNext /\ UNCHANGED accessVars) \/ Publish
  BY <1>1, <1>4 DEF accessVars, Publish
<1>5. ASSUME NEW l \in Login, Lookup(l) \/ LoginStep(l) \/ PostConsent(l) \/ LoginDies(l), ~RecordConsent(l)
      PROVE  UNCHANGED consent
  BY <1>5 DEF Lookup, LoginStep, PortalAnswers, AutoApprove, AutoApproveForgets, Reread, Decide,
       CreateUser, ReadAccount, StoreAccount, ReadPolicies, CheckConsent, PostConsent, CheckPage,
       LoginDies
<1> QED BY <1>1, <1>2, <1>3, <1>4, <1>5 DEF Next, Step

\* A login that does not move stays informed and found.
LEMMA InformedKept ==
  ASSUME ConsentInv, Next, NEW l \in Login, UNCHANGED login[l]
  PROVE  Informed(login[l])' /\ Found(login[l])'
<1> DEFINE c == login[l]
<1>1. /\ c \in LoginState /\ (c.at \notin Anonymous => c.user \in User)
      /\ Informed(c) /\ Found(c) /\ RowsInv
  BY DEF ConsentInv, RowsInv, TypeInv, LoginsInv
<1>2. ASSUME NEW t \in PolicyType
      PROVE  /\ c.start[t] \in Nat /\ c.page[t] \in Nat
             /\ policy[t].version \in Nat /\ policy'[t].version \in Nat
             /\ \A u \in User : consent[u][t] \in Nat /\ consent'[u][t] \in Nat
  <2>1. LoginsInv /\ LoginsInv'
    BY <1>1, StepTypes DEF RowsInv, TypeInv
  <2> QED BY <1>1, <2>1, AccessAssumption DEF LoginsInv, LoginState, Version
<1>3. Found(c)'
  BY <1>1, BornForGood DEF Found
<1>4. ASSUME NEW t \in PolicyType PROVE c.at \notin {"idle", "over"} => c.start[t] <= policy'[t].version
  BY <1>1, <1>2, PoliciesGrow DEF Informed
<1>5. ASSUME NEW t \in PolicyType, c.at = "in", Current(row'[c.user])
      PROVE  c.start[t] <= consent'[c.user][t]
  <2>1. c.user \in User /\ row[c.user].life # "unborn"
    BY <1>1, <1>5 DEF Found, Anonymous
  <2>2. Current(row[c.user]) /\ consent[c.user][t] <= consent'[c.user][t]
    BY <1>1, <1>5, <2>1, BornForGood, ConsentsGrow
  <2> QED BY <1>1, <1>2, <1>5, <2>1, <2>2 DEF Informed
<1> QED BY <1>1, <1>3, <1>4, <1>5 DEF Informed, Found

LEMMA LoginInformed ==
  ASSUME ConsentInv, Next, NEW l \in Login,
         Lookup(l) \/ LoginStep(l) \/ PostConsent(l) \/ LoginDies(l)
  PROVE  Informed(login[l])' /\ Found(login[l])'
<1> DEFINE c == login[l]
<1>1. /\ login \in [Login -> LoginState] /\ c \in LoginState /\ (c.at \notin Anonymous => c.user \in User)
      /\ Informed(c) /\ Found(c) /\ RowsInv
      /\ row \in [User -> Row] /\ account \in User \cup {NoUser}
  BY DEF ConsentInv, RowsInv, TypeInv, LoginsInv, MembersInv, MemberTypeOK
<1>2. ASSUME NEW t \in PolicyType
      PROVE  /\ c.start[t] \in Nat /\ c.page[t] \in Nat
             /\ policy[t].version \in Nat /\ policy'[t].version \in Nat
             /\ policy[t].version <= policy'[t].version
             /\ \A u \in User : consent[u][t] \in Nat /\ consent'[u][t] \in Nat
  <2>1. LoginsInv /\ LoginsInv'
    BY <1>1, StepTypes DEF RowsInv, TypeInv
  <2> QED BY <1>1, <2>1, AccessAssumption, PoliciesGrow DEF LoginsInv, LoginState, Version
<1>3. ASSUME Refuse(l) PROVE Informed(c)' /\ Found(c)'
  <2>1. login'[l].at = "over"
    BY <1>1, <1>3, LoginValues DEF Refuse
  <2> QED BY <2>1 DEF Informed, Found, Anonymous, Shown
\* A login that is neither in nor anonymous keeps what it has.
<1>4. ASSUME c.at \notin {"idle", "over"},
             c'.at \notin {"idle", "over", "in"}, c'.start = c.start,
             c'.at \notin Anonymous => c'.user \in User /\ row'[c'.user].life # "unborn",
             c'.at \in Shown => \A t \in PolicyType : c.start[t] <= c'.page[t]
      PROVE  Informed(c)' /\ Found(c)'
  BY <1>1, <1>2, <1>4 DEF Informed, Found
<1>5. ASSUME c.at \notin Anonymous
      PROVE  c.user \in User /\ row'[c.user].life # "unborn"
  BY <1>1, <1>5, BornForGood DEF Found
<1>6. ASSUME NEW at \in {"approved", "reread", "policy", "asked", "agree", "record"}, Goto(l, at),
             c.at \notin Anonymous, at \in {"asked", "agree", "record"} => c.at \in Shown
      PROVE  Informed(c)' /\ Found(c)'
  <2>1. c'.at = at /\ c'.user = c.user /\ c'.start = c.start /\ c'.page = c.page
    BY <1>1, <1>6 DEF Goto, LoginState
  <2> QED BY <1>1, <1>4, <1>5, <1>6, <2>1 DEF Informed, Shown, Anonymous
<1>7. ASSUME In(l), c.at \notin Anonymous,
             \A t \in PolicyType : c.start[t] <= consent'[c.user][t]
      PROVE  Informed(c)' /\ Found(c)'
  <2>1. c'.at = "in" /\ c'.user = c.user /\ c'.start = c.start
    BY <1>1, <1>7, LoginValues DEF In, LoginState
  <2> QED BY <1>1, <1>2, <1>5, <1>7, <2>1 DEF Informed, Found, Shown, Anonymous
<1>8. CASE Lookup(l)
  <2>1. c'.at = "portal" /\ c'.start = Versions /\ policy' = policy
    BY <1>1, <1>8 DEF Lookup, Blank
  <2> QED BY <1>2, <2>1 DEF Informed, Found, Shown, Anonymous, Versions
<1>9. CASE PortalAnswers(l)
  <2>1. CASE Goto(l, "create")
    <3>1. c'.at = "create" /\ c'.start = c.start
      BY <1>1, <2>1 DEF Goto, LoginState
    <3> QED BY <1>4, <1>9, <3>1 DEF PortalAnswers, Shown, Anonymous
  <2>2. ASSUME NEW u \in User \cup {NoUser}, u # NoUser, row[u].life = "here",
               login' = [login EXCEPT ![l] = [@ EXCEPT !.at = "seen", !.user = u, !.found = row[u]]]
        PROVE  Informed(c)' /\ Found(c)'
    <3>1. c'.at = "seen" /\ c'.user = u /\ c'.start = c.start
      BY <1>1, <2>2 DEF LoginState
    <3>2. row' = row
      BY <1>9 DEF PortalAnswers, memberVars
    <3> QED BY <1>4, <1>9, <2>2, <3>1, <3>2 DEF PortalAnswers, Shown, Anonymous
  <2>3. (IF login[l].linked THEN login[l].user ELSE Holder) \in User \cup {NoUser}
    BY <1>1 DEF LoginState, Holder
  <2> QED BY <1>3, <1>9, <2>1, <2>2, <2>3 DEF PortalAnswers
<1>10. CASE AutoApprove(l) \/ AutoApproveForgets(l)
  BY <1>6, <1>10 DEF AutoApprove, AutoApproveForgets, Anonymous
<1>11. CASE Reread(l)
  <2>1. CASE login' = [login EXCEPT ![l] = [@ EXCEPT !.at = "decide", !.found = row[login[l].user]]]
    <3>1. c'.at = "decide" /\ c'.user = c.user /\ c'.start = c.start
      BY <1>1, <2>1 DEF LoginState
    <3> QED BY <1>4, <1>5, <1>11, <3>1 DEF Reread, Shown, Anonymous
  <2> QED BY <1>3, <1>11, <2>1 DEF Reread
<1>12. CASE Decide(l)
  <2>1. CASE login' = [login EXCEPT ![l] = [@ EXCEPT !.at = "upsert", !.found = Deleted]]
    <3>1. c'.at = "upsert" /\ c'.user = c.user /\ c'.start = c.start
      BY <1>1, <2>1 DEF LoginState
    <3> QED BY <1>4, <1>5, <1>12, <3>1 DEF Decide, Shown, Anonymous
  <2> QED BY <1>3, <1>12, <2>1 DEF Decide
<1>13. CASE CreateUser(l)
  <2>1. ASSUME NEW u \in User,
               row' = [row EXCEPT ![u] = IF required THEN Applicant ELSE Member],
               login' = [login EXCEPT ![l] = [@ EXCEPT !.at = "upsert", !.user = u, !.new = TRUE]]
        PROVE  Informed(c)' /\ Found(c)'
    <3>1. c'.at = "upsert" /\ c'.user = u /\ c'.start = c.start
      BY <1>1, <2>1 DEF LoginState
    <3>2. row'[u].life = "here"
      BY <1>1, <2>1 DEF Member, Applicant, Unborn, Deleted
    <3> QED BY <1>4, <1>13, <3>1, <3>2 DEF CreateUser, Shown, Anonymous
  <2> QED BY <1>3, <1>13, <2>1 DEF CreateUser
<1>14. CASE ReadAccount(l)
  <2>1. c'.at = "store" /\ c'.user = c.user /\ c'.start = c.start
    BY <1>1, <1>14 DEF ReadAccount, LoginState
  <2> QED BY <1>4, <1>5, <1>14, <2>1 DEF ReadAccount, Shown, Anonymous
<1>15. CASE StoreAccount(l)
  BY <1>3, <1>6, <1>15 DEF StoreAccount, Anonymous
<1>16. CASE ReadPolicies(l)
  <2>1. CASE login' = [login EXCEPT ![l] = [@ EXCEPT !.at = "consents", !.page = Versions]]
    <3>1. c'.at = "consents" /\ c'.user = c.user /\ c'.start = c.start /\ c'.page = Versions
      BY <1>1, <2>1 DEF LoginState
    <3>2. \A t \in PolicyType : c.start[t] <= Versions[t]
      BY <1>1, <1>16 DEF ReadPolicies, Informed, Versions
    <3> QED BY <1>4, <1>5, <1>16, <3>1, <3>2 DEF ReadPolicies, Shown, Anonymous
  <2> QED BY <1>3, <1>16, <2>1 DEF ReadPolicies
<1>17. CASE CheckConsent(l)
  <2>1. CASE Agreed(l) /\ In(l)
    <3>1. consent' = consent /\ c.at = "consents"
      BY <1>17 DEF CheckConsent
    <3>2. \A t \in PolicyType : c.start[t] <= consent[c.user][t]
      BY <1>1, <2>1, <3>1 DEF Agreed, Informed, Shown
    <3> QED BY <1>7, <2>1, <3>1, <3>2 DEF Anonymous
  <2>2. CASE Goto(l, "asked")
    BY <1>6, <1>17, <2>2 DEF CheckConsent, Shown, Anonymous
  <2> QED BY <1>17, <2>1, <2>2 DEF CheckConsent
<1>18. CASE PostConsent(l) \/ CheckPage(l)
  BY <1>3, <1>6, <1>18 DEF PostConsent, CheckPage, Shown, Anonymous
<1>19. CASE RecordConsent(l)
  <2>1. CASE /\ consent' = [consent EXCEPT ![c.user] = [t \in PolicyType |->
                              IF c.page[t] > consent[c.user][t] THEN c.page[t] ELSE consent[c.user][t]]]
             /\ In(l)
    <3>1. c.at = "record" /\ c.user \in User
      BY <1>1, <1>19 DEF RecordConsent, Anonymous
    <3>2. consent \in [User -> [PolicyType -> Version]]
      BY <1>1 DEF RowsInv, TypeInv, LoginsInv
    <3>3. \A t \in PolicyType :
            consent'[c.user][t] = IF c.page[t] > consent[c.user][t] THEN c.page[t] ELSE consent[c.user][t]
      BY <2>1, <3>1, <3>2
    <3>4. \A t \in PolicyType : c.start[t] <= consent'[c.user][t]
      BY <1>1, <1>2, <3>1, <3>3 DEF Informed, Shown
    <3> QED BY <1>7, <2>1, <3>1, <3>4 DEF Anonymous
  <2> QED BY <1>3, <1>19, <2>1 DEF RecordConsent
<1>20. CASE LoginDies(l)
  BY <1>3, <1>20 DEF LoginDies
<1> QED BY <1>8, <1>9, <1>10, <1>11, <1>12, <1>13, <1>14, <1>15, <1>16, <1>17, <1>18, <1>19, <1>20
        DEF LoginStep

LEMMA StepConsents == ASSUME ConsentInv, Next PROVE ConsentInv'
<1>1. RowsInv' /\ Step
  BY StepRows DEF ConsentInv, Next
<1>2. CASE UNCHANGED login
  BY <1>1, <1>2, InformedKept DEF ConsentInv
<1>3. ASSUME NEW l \in Login, Lookup(l) \/ LoginStep(l) \/ PostConsent(l) \/ LoginDies(l),
             \A k \in Login : k # l => UNCHANGED login[k]
      PROVE  ConsentInv'
  BY <1>1, <1>3, InformedKept, LoginInformed DEF ConsentInv
<1> QED BY <1>1, <1>2, <1>3, OneLoginMoves DEF ConsentInv

LEMMA ConsentsKept == Spec => []ConsentInv
<1>1. Init => ConsentInv
  BY InitRows DEF Init, ConsentInv, Informed, Found, Blank, Shown, Anonymous
<1>2. ConsentInv /\ UNCHANGED vars => ConsentInv'
  BY StutterRows DEF ConsentInv, Informed, Found, vars
<1>3. ConsentInv /\ [Next]_vars => ConsentInv'
  BY <1>2, StepConsents
<1> QED BY <1>1, <1>3, PTL DEF Spec

\* A login that ends in a session has on record, for every required type, the
\* consent to a document at least as new as the newest when it began, unless
\* the person withdrew since.
THEOREM EverySessionConsented == Spec => []SessionsConsented
<1>1. ConsentInv => SessionsConsented
  BY AccessAssumption
     DEF ConsentInv, Informed, SessionsConsented, Current, RowsInv, TypeInv, LoginsInv, LoginState, Version,
         Anonymous
<1> QED BY <1>1, ConsentsKept, PTL

=============================================================================
