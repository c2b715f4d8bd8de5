------------------------------ MODULE Members ------------------------------
(***************************************************************************)
(* The rows of one person and what administrators, the withdrawal and the  *)
(* retention job do to them, beside the cache from which every web process *)
(* answers "is this user active?" (apps/web: admin/members routes,         *)
(* auth-state-cache.ts, cu12-account.ts; worker: retention-cleanup.ts).    *)
(*                                                                         *)
(* A person has one portal id: it is the unique e-mail of at most one user *)
(* row and the unique cu12Id of at most one Cu12Account.  A withdrawn row  *)
(* loses the e-mail, so the person may get another row later.              *)
(***************************************************************************)
EXTENDS Naturals, FiniteSets

CONSTANTS
  User,         \* ids of user rows, never used twice
  NoUser,
  Process,      \* web processes, each with a cache of its own
  Ttl,          \* AUTH_STATE_TTL_MS in ticks of the clock
  Load,         \* bound: cache loads under way at a time
  AdminCall,    \* ids of calls of administrators
  Login,        \* ids of login calls
  Plans         \* bounds: what may happen in one behaviour, by kind

Plan == [logins : SUBSET Login, admins : SUBSET AdminCall, edits : Nat, requests : BOOLEAN]

ASSUME MembersAssumption ==
  /\ NoUser \notin User /\ User # {} /\ Process # {} /\ "none" \notin Load
  /\ Ttl \in Nat \ {0}
  /\ Plans \subseteq Plan

VARIABLES
  row,      \* the user rows
  account,  \* the user who holds the person's Cu12Account, or NoUser
  session,  \* users with a session cookie somewhere
  cache,    \* [Process -> [User -> entry]]; left = 0 is no entry
  inflight, \* [Process -> [User -> load]]: userInflight
  load,     \* the database reads under way for a cache
  admin,    \* the calls of administrators
  plan      \* what may still happen: from Plans

caching == <<cache, inflight, load>>
memberVars == <<row, account, session, cache, inflight, load, admin, plan>>

Approval == {"PENDING", "APPROVED", "REJECTED"}
Row == [life : {"unborn", "here", "gone"}, active : BOOLEAN, withdrawn : BOOLEAN,
        approval : Approval, mail : BOOLEAN, byAdmin : BOOLEAN]

\* Deletion cascades to everything that hangs on the row.
Deleted == [life |-> "gone", active |-> FALSE, withdrawn |-> FALSE,
            approval |-> "PENDING", mail |-> FALSE, byAdmin |-> FALSE]
Unborn == [Deleted EXCEPT !.life = "unborn"]

\* The row of the person's e-mail (unique), and whether u may take it.
Holder == IF \E u \in User : row[u].mail THEN CHOOSE u \in User : row[u].mail ELSE NoUser
MailFree(u) == Holder \in {u, NoUser}

(* loadActiveUser: whom a request with a session is answered for. *)
Admissible(r) == r.life = "here" /\ r.active /\ ~r.withdrawn /\ r.approval = "APPROVED"

-----------------------------------------------------------------------------
(* The cache *)

NoEntry == [admit |-> FALSE, left |-> 0]
Idle == [at |-> "idle", process |-> CHOOSE p \in Process : TRUE, user |-> NoUser, admit |-> FALSE]
Loads == {"none"} \cup Load

\* getCachedActiveUser: a miss without a load under way starts one; a hit
\* and a request that waits for the load change nothing.
StartLoad(p, u) ==
  /\ plan.requests /\ u \in session
  /\ cache[p][u].left = 0 /\ inflight[p][u] = "none"
  /\ \E k \in Load :
       /\ load[k].at = "idle"
       /\ load' = [load EXCEPT ![k] = [at |-> "asked", process |-> p, user |-> u, admit |-> FALSE]]
       /\ inflight' = [inflight EXCEPT ![p][u] = k]
  /\ UNCHANGED <<row, account, session, cache, admin, plan>>

ReadLoad(k) ==
  /\ load[k].at = "asked"
  /\ load' = [load EXCEPT ![k].at = "read", ![k].admit = Admissible(row[load[k].user])]
  /\ UNCHANGED <<row, account, session, cache, inflight, admin, plan>>

\* The answer is cached even when the entry was invalidated meanwhile, and
\* "finally" removes whichever load is registered by now.
EndLoad(k) ==
  LET p == load[k].process  u == load[k].user IN
  /\ load[k].at = "read"
  /\ cache' = [cache EXCEPT ![p][u] = [admit |-> load[k].admit, left |-> Ttl]]
  /\ inflight' = [inflight EXCEPT ![p][u] = "none"]
  /\ load' = [load EXCEPT ![k] = Idle]
  /\ UNCHANGED <<row, account, session, admin, plan>>

\* invalidateCachedAuthState, in the process that served the call; the load
\* itself goes on.
Invalidate(p, u) ==
  /\ cache' = [cache EXCEPT ![p][u] = NoEntry]
  /\ inflight' = [inflight EXCEPT ![p][u] = "none"]

\* Mutant: a hit at whatever age.
Ageless(e) == e

Older(e) == IF e.left <= 1 THEN NoEntry ELSE [e EXCEPT !.left = @ - 1]

Tick ==
  /\ \E p \in Process, u \in User : cache[p][u].left > 0
  /\ cache' = [p \in Process |-> [u \in User |-> Older(cache[p][u])]]
  /\ UNCHANGED <<row, account, session, inflight, load, admin, plan>>

\* A process ends and its caches and loads with it.
Restart(p) ==
  /\ cache' = [cache EXCEPT ![p] = [u \in User |-> NoEntry]]
  /\ inflight' = [inflight EXCEPT ![p] = [u \in User |-> "none"]]
  /\ load' = [k \in Load |-> IF load[k].process = p THEN Idle ELSE load[k]]
  /\ <<cache, load>> # <<cache', load'>>
  /\ UNCHANGED <<row, account, session, admin, plan>>

-----------------------------------------------------------------------------
(* upsertCu12Account reads whether the user has an account and then writes: *)
(* an update fails when the account is gone, a creation when the portal id  *)
(* has an account or the user is gone.                                      *)

Storable(u, had) == IF had THEN account = u ELSE account = NoUser /\ row[u].life = "here"
Stored(u, had) == IF Storable(u, had) THEN u ELSE account

-----------------------------------------------------------------------------
(* Calls of administrators: read the target, write it, invalidate.          *)

Kinds == {"approve", "reject", "activate", "deactivate", "withdraw", "enrol", "enrolInactive"}
NoCall == [at |-> "idle", kind |-> "approve", user |-> NoUser, saw |-> "PENDING", had |-> FALSE]
CallOver == [NoCall EXCEPT !.at = "over"]
Enrols(c) == c.kind \in {"enrol", "enrolInactive"}

End(a) == admin' = [admin EXCEPT ![a] = CallOver]

\* The first part of the handlers of one member: nobody touches a withdrawn
\* row, and only an approved member is activated.
AdminRead(a, kind, u) ==
  /\ a \in plan.admins /\ admin[a].at = "idle"
  /\ kind \in Kinds \ {"enrol", "enrolInactive"}
  /\ row[u].life = "here" /\ ~row[u].withdrawn
  /\ kind = "activate" => row[u].approval = "APPROVED"
  /\ admin' = [admin EXCEPT ![a] = [at |-> "write", kind |-> kind, user |-> u,
                                    saw |-> row[u].approval, had |-> FALSE]]
  /\ UNCHANGED <<row, account, session, caching, plan>>

\* POST members: the account's owner, else the holder of the e-mail.
EnrolRead(a, kind) ==
  /\ a \in plan.admins /\ admin[a].at = "idle"
  /\ kind \in {"enrol", "enrolInactive"}
  /\ admin' = [admin EXCEPT ![a] = [NoCall EXCEPT !.at = "write", !.kind = kind,
                                    !.user = IF account # NoUser THEN account ELSE Holder]]
  /\ UNCHANGED <<row, account, session, caching, plan>>

Decided(r, approve) ==
  [r EXCEPT !.approval = IF approve THEN "APPROVED" ELSE "REJECTED", !.active = approve, !.byAdmin = TRUE]

\* By id, whatever became of the row since it was read.
AdminDecide(a) ==
  LET u == admin[a].user IN
  /\ admin[a].at = "write" /\ admin[a].kind \in {"approve", "reject"}
  /\ IF row[u].life = "here"
       THEN /\ row' = [row EXCEPT ![u] = Decided(@, admin[a].kind = "approve")]
            /\ admin' = [admin EXCEPT ![a].at = "forget"]
       ELSE End(a) /\ UNCHANGED row
  /\ UNCHANGED <<account, session, caching, plan>>

\* PATCH: the row must be what the handler read, else MEMBER_CHANGED.
\* Mutant: without the approval in "where".
OnlyHere(r, saw) == r.life = "here" /\ ~r.withdrawn

Unchanged(r, saw) == r.life = "here" /\ ~r.withdrawn /\ r.approval = saw

AdminPatch(a) ==
  LET u == admin[a].user IN
  /\ admin[a].at = "write" /\ admin[a].kind \in {"activate", "deactivate"}
  /\ IF Unchanged(row[u], admin[a].saw)
       THEN /\ row' = [row EXCEPT ![u].active = admin[a].kind = "activate"]
            /\ admin' = [admin EXCEPT ![a].at = "forget"]
       ELSE End(a) /\ UNCHANGED row
  /\ UNCHANGED <<account, session, caching, plan>>

Anonymized(r) ==
  [r EXCEPT !.active = FALSE, !.withdrawn = TRUE, !.mail = FALSE, !.byAdmin = FALSE]

AdminWithdraw(a) ==
  LET u == admin[a].user IN
  /\ admin[a].at = "write" /\ admin[a].kind = "withdraw"
  /\ IF row[u].life = "here"
       THEN /\ row' = [row EXCEPT ![u] = Anonymized(@)]
            /\ admin' = [admin EXCEPT ![a].at = "cleanup"]
       ELSE End(a) /\ UNCHANGED row
  /\ UNCHANGED <<account, session, caching, plan>>

\* A step of the cleanup that fails is noted in the answer and no more.
AdminCleanup(a) ==
  /\ admin[a].at = "cleanup"
  /\ account' \in {account, IF account = admin[a].user THEN NoUser ELSE account}
  /\ admin' = [admin EXCEPT ![a].at = "forget"]
  /\ UNCHANGED <<row, session, caching, plan>>

Enrolled(r, active) ==
  [r EXCEPT !.life = "here", !.active = active, !.approval = "APPROVED", !.mail = TRUE, !.byAdmin = TRUE]

EnrolWrite(a) ==
  /\ admin[a].at = "write" /\ Enrols(admin[a])
  /\ \/ \E u \in User :
          /\ IF admin[a].user = NoUser THEN row[u].life = "unborn"
                                       ELSE u = admin[a].user /\ row[u].life = "here"
          /\ MailFree(u)
          /\ row' = [row EXCEPT ![u] = Enrolled(@, admin[a].kind = "enrol")]
          /\ admin' = [admin EXCEPT ![a] = [@ EXCEPT !.at = "upsert", !.user = u]]
     \/ /\ IF admin[a].user = NoUser
             THEN Holder # NoUser \/ \A u \in User : row[u].life # "unborn"
             ELSE row[admin[a].user].life # "here" \/ ~MailFree(admin[a].user)
        /\ End(a) /\ UNCHANGED row
  /\ UNCHANGED <<account, session, caching, plan>>

EnrolAccountRead(a) ==
  /\ admin[a].at = "upsert"
  /\ admin' = [admin EXCEPT ![a] = [@ EXCEPT !.at = "store", !.had = account = admin[a].user]]
  /\ UNCHANGED <<row, account, session, caching, plan>>

EnrolStore(a) ==
  LET u == admin[a].user IN
  /\ admin[a].at = "store"
  /\ account' = Stored(u, admin[a].had)
  /\ IF Storable(u, admin[a].had) THEN admin' = [admin EXCEPT ![a].at = "forget"] ELSE End(a)
  /\ UNCHANGED <<row, session, caching, plan>>

AdminForget(a) ==
  /\ admin[a].at = "forget"
  /\ \E p \in Process : Invalidate(p, admin[a].user)
  /\ End(a)
  /\ UNCHANGED <<row, account, session, load, plan>>

\* The call dies with its process.
AdminDies(a) ==
  /\ admin[a].at \notin {"idle", "over"}
  /\ End(a)
  /\ UNCHANGED <<row, account, session, caching, plan>>

AdminStep(a) ==
  \/ AdminDecide(a) \/ AdminPatch(a) \/ AdminWithdraw(a) \/ AdminCleanup(a)
  \/ EnrolWrite(a) \/ EnrolAccountRead(a) \/ EnrolStore(a) \/ AdminForget(a)

AdminsDone == \A a \in AdminCall : admin[a].at \in {"idle", "over"}

-----------------------------------------------------------------------------
(* delete-withdrawn-users, of the daily retention job: the row goes, unless *)
(* it is active, with what hangs on it.                                     *)

Retire(u) ==
  LET r == row[u] IN
  /\ r.life = "here" /\ r.withdrawn
  /\ row' = IF r.active THEN row ELSE [row EXCEPT ![u] = Deleted]
  /\ account' = IF account = u /\ ~r.active THEN NoUser ELSE account
  /\ UNCHANGED <<session, caching, admin, plan>>

-----------------------------------------------------------------------------
MemberNext ==
  \/ \E p \in Process, u \in User : StartLoad(p, u)
  \/ \E k \in Load : ReadLoad(k) \/ EndLoad(k)
  \/ Tick
  \/ \E p \in Process : Restart(p)
  \/ \E a \in AdminCall :
       \/ \E kind \in Kinds : EnrolRead(a, kind) \/ \E u \in User : AdminRead(a, kind, u)
       \/ AdminStep(a) \/ AdminDies(a)

Entry == [admit : BOOLEAN, left : 0..Ttl]
LoadState == [at : {"idle", "asked", "read"}, process : Process, user : User \cup {NoUser},
              admit : BOOLEAN]
AdminState == [at : {"idle", "write", "cleanup", "upsert", "store", "forget", "over"},
               kind : Kinds, user : User \cup {NoUser}, saw : Approval, had : BOOLEAN]

MemberTypeOK ==
  /\ row \in [User -> Row]
  /\ account \in User \cup {NoUser}
  /\ session \subseteq User
  /\ cache \in [Process -> [User -> Entry]]
  /\ inflight \in [Process -> [User -> Loads]]
  /\ load \in [Load -> LoadState]
  /\ admin \in [AdminCall -> AdminState]
  /\ plan \in Plan
=============================================================================
