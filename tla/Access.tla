------------------------------- MODULE Access -------------------------------
(***************************************************************************)
(* Who gets into the web application: portal logins with automatic         *)
(* approval, account link and policy consent (auth/login, auth/consent,    *)
(* member-approval.ts, policy.ts), composed with the member administration *)
(* and the cached answer every request is admitted by (Members).           *)
(*                                                                         *)
(* The logins are those of one person, who is no test user and no          *)
(* administrator.  A login call that the throttle refuses, or one whose    *)
(* session has expired since, is a call that was not made.                 *)
(***************************************************************************)
EXTENDS Members

CONSTANTS
  PolicyType,   \* REQUIRED_POLICY_TYPES
  MaxVersion    \* bound: versions of a policy document

ASSUME AccessAssumption == MaxVersion \in Nat \ {0}

VARIABLES
  required,  \* AppSettings.memberApprovalRequired
  policy,    \* [PolicyType -> [version, active]]: the latest document
  consent,   \* [User -> [PolicyType -> Nat]]: the latest version agreed to
  login,     \* the login calls
  since      \* history: users admissible at some moment of the call

accessVars == <<required, policy, consent, login>>
vars == <<row, account, session, cache, inflight, load, admin, plan, required, policy, consent, login, since>>

Version == 0..MaxVersion
Versions == [t \in PolicyType |-> policy[t].version]
Configured == \A t \in PolicyType : policy[t].active

\* at: where the call waits; linked: the portal id had an account; found: the
\* row as the call knows it; new: the call created the row; page: versions
\* shown; start: versions published when the call began.
Blank == [at |-> "idle", user |-> NoUser, linked |-> FALSE, found |-> Deleted, new |-> FALSE,
          had |-> FALSE, page |-> [t \in PolicyType |-> 0], start |-> [t \in PolicyType |-> 0]]
LoginOver == [Blank EXCEPT !.at = "over"]
Refuse(l) == login' = [login EXCEPT ![l] = LoginOver]
Goto(l, at) == login' = [login EXCEPT ![l].at = at]
In(l) == login' = [login EXCEPT ![l] = [LoginOver EXCEPT !.at = "in", !.user = login[l].user,
                                                         !.start = login[l].start]]

-----------------------------------------------------------------------------
Lookup(l) ==
  /\ l \in plan.logins /\ login[l].at = "idle"
  /\ login' = [login EXCEPT ![l] = [Blank EXCEPT !.at = "portal", !.user = account,
                                    !.linked = account # NoUser, !.start = Versions]]
  /\ UNCHANGED <<memberVars, required, policy, consent>>

\* The portal accepts or refuses the password, however late; then the row of
\* the account, else of the e-mail, is read.
PortalAnswers(l) ==
  LET u == IF login[l].linked THEN login[l].user ELSE Holder IN
  /\ login[l].at = "portal"
  /\ \/ Refuse(l)
     \/ u = NoUser /\ Goto(l, "create")
     \/ /\ u # NoUser /\ row[u].life = "here"
        /\ login' = [login EXCEPT ![l] = [@ EXCEPT !.at = "seen", !.user = u, !.found = row[u]]]
  /\ UNCHANGED <<memberVars, required, policy, consent>>

\* autoApprovePendingUserOnLogin
Approves(l) == login[l].found.approval = "PENDING" /\ ~login[l].found.withdrawn /\ ~required

\* Mutant: without withdrawnAt in "where".
OncePending(r) == r.life = "here" /\ r.approval = "PENDING"

StillPending(r) == r.life = "here" /\ r.approval = "PENDING" /\ ~r.withdrawn

AutoApproved(r) == [r EXCEPT !.approval = "APPROVED", !.active = TRUE, !.byAdmin = FALSE]

AutoApprove(l) ==
  LET u == login[l].user IN
  /\ login[l].at = "seen" /\ Approves(l)
  /\ row' = IF StillPending(row[u])
              THEN [row EXCEPT ![u] = AutoApproved(@)]
              ELSE row
  /\ Goto(l, "approved")
  /\ UNCHANGED <<account, session, caching, admin, required, policy, consent, plan>>

AutoApproveForgets(l) ==
  /\ login[l].at = "approved"
  /\ \E p \in Process : Invalidate(p, login[l].user)
  /\ Goto(l, "reread")
  /\ UNCHANGED <<row, account, session, load, admin, required, policy, consent, plan>>

Reread(l) ==
  LET u == login[l].user IN
  /\ login[l].at = "reread"
  /\ IF row[u].life = "here"
       THEN login' = [login EXCEPT ![l] = [@ EXCEPT !.at = "decide", !.found = row[u]]]
       ELSE Refuse(l)
  /\ UNCHANGED <<memberVars, required, policy, consent>>

Linkable(u) == row[u].life = "here" /\ MailFree(u)

\* Refused unless the row read is admissible; else a linked login writes the
\* portal id over the row's e-mail, by id.
Decide(l) ==
  LET u == login[l].user IN
  /\ login[l].at = "decide" \/ (login[l].at = "seen" /\ ~Approves(l))
  /\ IF ~Admissible(login[l].found) \/ (login[l].linked /\ ~Linkable(u))
       THEN Refuse(l) /\ UNCHANGED row
       ELSE /\ login' = [login EXCEPT ![l] = [@ EXCEPT !.at = "upsert", !.found = Deleted]]
            /\ row' = IF login[l].linked THEN [row EXCEPT ![u].mail = TRUE] ELSE row
  /\ UNCHANGED <<account, session, caching, admin, required, policy, consent, plan>>

Applicant == [Unborn EXCEPT !.life = "here", !.mail = TRUE]
Member == [Applicant EXCEPT !.active = TRUE, !.approval = "APPROVED"]

\* A first login.  Another row that took the e-mail meanwhile, or the bound
\* on User, ends it.
CreateUser(l) ==
  /\ login[l].at = "create"
  /\ \/ \E u \in User :
          /\ row[u].life = "unborn" /\ Holder = NoUser
          /\ row' = [row EXCEPT ![u] = IF required THEN Applicant ELSE Member]
          /\ IF required THEN Refuse(l)
             ELSE login' = [login EXCEPT ![l] = [@ EXCEPT !.at = "upsert", !.user = u, !.new = TRUE]]
     \/ /\ Holder # NoUser \/ \A u \in User : row[u].life # "unborn"
        /\ Refuse(l) /\ UNCHANGED row
  /\ UNCHANGED <<account, session, caching, admin, required, policy, consent, plan>>

ReadAccount(l) ==
  /\ login[l].at = "upsert"
  /\ login' = [login EXCEPT ![l] = [@ EXCEPT !.at = "store", !.had = account = login[l].user]]
  /\ UNCHANGED <<memberVars, required, policy, consent>>

\* A database error is swallowed unless the call created the row.
StoreAccount(l) ==
  LET u == login[l].user IN
  /\ login[l].at = "store"
  /\ account' = Stored(u, login[l].had)
  /\ IF login[l].new /\ ~Storable(u, login[l].had) THEN Refuse(l) ELSE Goto(l, "policy")
  /\ UNCHANGED <<row, session, caching, admin, required, policy, consent, plan>>

\* getPolicyConsentRequirement reads the active documents, then the consents.
ReadPolicies(l) ==
  /\ login[l].at = "policy"
  /\ IF Configured THEN login' = [login EXCEPT ![l] = [@ EXCEPT !.at = "consents", !.page = Versions]]
                   ELSE Refuse(l)
  /\ UNCHANGED <<memberVars, required, policy, consent>>

\* Mutant: any earlier consent will do.
AgreedOnce(l) == \A t \in PolicyType : consent[login[l].user][t] > 0

Agreed(l) == \A t \in PolicyType : consent[login[l].user][t] = login[l].page[t]

CheckConsent(l) ==
  /\ login[l].at = "consents"
  /\ IF Agreed(l)
       THEN In(l) /\ session' = session \cup {login[l].user}
       ELSE Goto(l, "asked") /\ UNCHANGED session
  /\ UNCHANGED <<row, account, caching, admin, required, policy, consent, plan>>

-----------------------------------------------------------------------------
(* auth/consent: the person agrees to the page with the token of the login. *)

\* Mutant: the token vouches for the user.
StillThere(r) == r.life = "here"

\* The user is read again, without the approval.
Enabled(r) == r.life = "here" /\ r.active /\ ~r.withdrawn

PostConsent(l) ==
  /\ login[l].at = "asked"
  /\ IF Enabled(row[login[l].user]) THEN Goto(l, "agree") ELSE Refuse(l)
  /\ UNCHANGED <<memberVars, required, policy, consent>>

SamePage(l) == Configured /\ login[l].page = Versions

CheckPage(l) ==
  /\ login[l].at = "agree"
  /\ IF SamePage(l) THEN Goto(l, "record") ELSE Refuse(l)
  /\ UNCHANGED <<memberVars, required, policy, consent>>

RecordConsent(l) ==
  LET u == login[l].user
      Newer(t) == IF login[l].page[t] > consent[u][t] THEN login[l].page[t] ELSE consent[u][t] IN
  /\ login[l].at = "record"
  /\ IF row[u].life = "here"
       THEN /\ consent' = [consent EXCEPT ![u] = [t \in PolicyType |-> Newer(t)]]
            /\ session' = session \cup {u}
            /\ In(l)
       ELSE Refuse(l) /\ UNCHANGED <<consent, session>>
  /\ UNCHANGED <<row, account, caching, admin, required, policy, plan>>

\* The call dies with its process, or on an error that is none of the above.
LoginDies(l) ==
  /\ login[l].at \notin {"idle", "asked", "in", "over"}
  /\ Refuse(l)
  /\ UNCHANGED <<memberVars, required, policy, consent>>

LoginStep(l) ==
  \/ PortalAnswers(l) \/ AutoApprove(l) \/ AutoApproveForgets(l) \/ Reread(l) \/ Decide(l)
  \/ CreateUser(l) \/ ReadAccount(l) \/ StoreAccount(l) \/ ReadPolicies(l) \/ CheckConsent(l)
  \/ CheckPage(l) \/ RecordConsent(l)

LoginsDone == \A l \in Login : login[l].at \in {"idle", "asked", "in", "over"}

-----------------------------------------------------------------------------
(* publishPoliciesByAdmin, one transaction: for each type new text makes a  *)
(* new latest document, else the latest may be switched on or off.          *)

Publications(d) ==
  {[version |-> d.version, active |-> b] : b \in IF d.version = 0 THEN {FALSE} ELSE BOOLEAN}
    \cup {[version |-> d.version + 1, active |-> b] : b \in BOOLEAN}

Publish ==
  /\ \E next \in [PolicyType -> [version : Version, active : BOOLEAN]] :
       /\ \A t \in PolicyType : next[t] \in Publications(policy[t])
       /\ next # policy
       /\ policy' = next
  /\ plan.edits > 0 /\ plan' = [plan EXCEPT !.edits = @ - 1]
  /\ UNCHANGED <<row, account, session, caching, admin, required, consent, login>>

\* Six months after the withdrawal no call of that time is under way.  The
\* consents are deleted even when the row is active again.
Retain(u) ==
  /\ AdminsDone /\ LoginsDone
  /\ Retire(u)
  /\ consent' = [consent EXCEPT ![u] = [t \in PolicyType |-> 0]]
  /\ UNCHANGED <<required, policy, login>>

-----------------------------------------------------------------------------
(* Init: nobody, an applicant or a member, before or after the documents    *)
(* are published (before, only in a plan that publishes).                   *)

Begins(u, r, version) ==
  /\ row = [v \in User |-> IF v = u THEN r ELSE Unborn]
  /\ account = IF r = Member THEN u ELSE NoUser
  /\ session = IF r = Member /\ version > 0 THEN {u} ELSE {}
  /\ policy = [t \in PolicyType |-> [version |-> version, active |-> version > 0]]
  /\ consent = [v \in User |-> [t \in PolicyType |-> IF v \in session THEN version ELSE 0]]

Init ==
  /\ plan \in Plans
  /\ \E r \in {Unborn, Applicant, Member}, version \in {0, 1} :
       /\ version = 0 => plan.edits > 0
       /\ Begins(CHOOSE u \in User : TRUE, r, version)
  /\ cache = [p \in Process |-> [u \in User |-> NoEntry]]
  /\ inflight = [p \in Process |-> [u \in User |-> "none"]]
  /\ load = [k \in Load |-> Idle]
  /\ admin = [a \in AdminCall |-> NoCall]
  /\ required \in BOOLEAN
  /\ login = [l \in Login |-> Blank]
  /\ since = [l \in Login |-> {}]

Step ==
  \/ MemberNext /\ UNCHANGED accessVars
  \/ \E l \in Login : Lookup(l) \/ LoginStep(l) \/ PostConsent(l) \/ LoginDies(l)
  \/ Publish
  \/ \E u \in User : Retain(u)

Remember ==
  since' = [l \in Login |->
    IF login'[l].at \in {"idle", "asked", "over"} THEN {}
    ELSE IF login[l].at = "in" THEN since[l]
    ELSE since[l] \cup {u \in User : Admissible(row'[u])}]

Next == Step /\ Remember

Spec == Init /\ [][Next]_vars

(* Calls end, by their own steps or with their process; the clock and the   *)
(* database do not stop; the retention job runs daily.                      *)
CallStep ==
  \/ (\E a \in AdminCall : AdminStep(a)) /\ UNCHANGED accessVars
  \/ \E l \in Login : LoginStep(l)

Fairness ==
  /\ WF_vars(Tick /\ UNCHANGED accessVars /\ Remember)
  /\ \A k \in Load : WF_vars((ReadLoad(k) \/ EndLoad(k)) /\ UNCHANGED accessVars /\ Remember)
  /\ WF_vars(CallStep /\ Remember)
  /\ WF_vars((\E u \in User : Retain(u)) /\ Remember)

FairSpec == Spec /\ Fairness

-----------------------------------------------------------------------------
(* Properties *)

LoginState ==
  [at : {"idle", "portal", "create", "seen", "approved", "reread", "decide", "upsert", "store",
         "policy", "consents", "asked", "agree", "record", "in", "over"},
   user : User \cup {NoUser}, linked : BOOLEAN, found : Row, new : BOOLEAN, had : BOOLEAN,
   page : [PolicyType -> Version], start : [PolicyType -> Version]]

(* Type invariant. *)
TypeOK ==
  /\ MemberTypeOK
  /\ required \in BOOLEAN
  /\ policy \in [PolicyType -> [version : Version, active : BOOLEAN]]
  /\ consent \in [User -> [PolicyType -> Version]]
  /\ login \in [Login -> LoginState]
  /\ since \in [Login -> SUBSET User]

(* Only an approved member is active, whatever calls of administrators and   *)
(* automatic approvals overtake each other: auth/consent and the worker ask  *)
(* for isActive and not for the approval.                                    *)
ActiveIsApproved == \A u \in User : row[u].active => row[u].approval = "APPROVED"

(* A call that ends in a session, of auth/login or of auth/consent, is one   *)
(* of a user who was active, approved and not withdrawn at some moment of    *)
(* that call: a rejection or a withdrawal before it is not bypassed, though  *)
(* login goes by rows read earlier and consent by isActive alone.            *)
NoSessionForRefused == \A l \in Login : login[l].at = "in" => login[l].user \in since[l]

(* A login that ends in a session has on record, for every required type,    *)
(* the consent to a document at least as new as the newest one published     *)
(* when the login began, however many are published meanwhile; the retention *)
(* job alone takes it away, from the withdrawn.                              *)
SessionsConsented ==
  \A l \in Login :
    LET r == row[login[l].user] IN
    login[l].at = "in" /\ r.life = "here" /\ ~r.withdrawn =>
    \A t \in PolicyType : consent[login[l].user][t] >= login[l].start[t]

(* What the processes answer requests by comes to agree with the row: when   *)
(* the calls are over, no stale answer outlives the TTL, neither one cached  *)
(* before an invalidation nor one read before and cached after it.           *)
CachesConverge ==
  <>[](\A p \in Process, u \in User :
         cache[p][u].left > 0 => (cache[p][u].admit <=> Admissible(row[u])))

(* The retention job deletes a withdrawn row (docs/03:114) unless it is      *)
(* active again by a decision of an administrator that had been read before  *)
(* the withdrawal or that enrols the person anew: no login and no edit of    *)
(* the profile revives it.                                                   *)
WithdrawnForgotten ==
  \A u \in User : row[u].withdrawn ~> (~row[u].withdrawn \/ (row[u].active /\ row[u].byAdmin))
=============================================================================
