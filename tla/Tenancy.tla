------------------------------- MODULE Tenancy -------------------------------
(***************************************************************************)
(* Users, accounts and the Tillin identity each call is made with          *)
(* (backend/app/api/routes/auth.py, api/services/accounts.py, api/deps.py, *)
(* api/routes/mcp_uploads.py, mcp/uploads.py).                             *)
(*                                                                         *)
(* A login asks Tillin who the user is, finds or creates the account of    *)
(* the company and stores the user's token.  Requests and signed upload    *)
(* links use the token of their user; background jobs use that of their    *)
(* launcher or the freshest of the account.                                *)
(*                                                                         *)
(* Tillin answers a token with the company its user is in now; only an     *)
(* operator (Admins) changes company there.                                *)
(***************************************************************************)
EXTENDS Naturals, Sequences, FiniteSets, SequencesExt

CONSTANTS
  Members, Admins,  \* client users, platform operators
  Companies,
  MaxSwitches, MaxJobs, MaxLinks   \* bounds: companies changed; jobs and links at a time

ASSUME TenancyAssumption ==
  /\ Members \cap Admins = {} /\ {"default", "missing"} \cap Companies = {}
  /\ {MaxSwitches, MaxJobs, MaxLinks} \subseteq Nat

VARIABLES
  home,     \* company of each user in Tillin, now
  account,  \* user.account_id
  token,    \* user.xano_token: absent, live or expired
  logins,   \* users with a token, the latest xano_token_at first
  jobs,     \* background jobs: account and launcher
  links,    \* upload links in circulation: user and account
  puts,     \* uploads between the check and the call: user, account, steady
  moved,    \* history: users who moved in Tillin since a login last told their company
  switches  \* bound

vars == <<home, account, token, logins, jobs, links, puts, moved, switches>>
identity == <<account, token, logins, moved>>
tillin == <<home, switches>>
work == <<jobs, links>>

----------------------------------------------------------------------------
Users == Members \cup Admins
Accounts == {"default"} \cup Companies

Missing == "missing"    \* no account yet

Init ==
  /\ home \in [Users -> Companies]
  /\ account = [u \in Users |-> Missing]
  /\ token = [u \in Users |-> "absent"]
  /\ logins = <<>>
  /\ jobs = {} /\ links = {} /\ puts = {}
  /\ moved = {} /\ switches = 0

----------------------------------------------------------------------------
(* Login.                                                                  *)

\* verify_login: Tillin knows the credentials; /auth/me, which names the
\* company, may fail on its own.  Then get_or_create_company_account, whose row
\* is that of the company whoever creates it, and _attach_xano_identity:
\* account and token in one commit, the account as it was when the company is
\* not known.  A move of the user between the answer and the commit is one
\* right after the login.
Login(u) ==
  /\ \E known \in BOOLEAN :
       /\ account' = [account EXCEPT ![u] = IF known THEN home[u] ELSE @]
       /\ moved' = IF known THEN moved \ {u} ELSE moved
  /\ token' = [token EXCEPT ![u] = "live"]
  /\ logins' = <<u>> \o SelectSeq(logins, LAMBDA v : v # u)
  /\ UNCHANGED <<tillin, work, puts>>

\* resolve_account_id: a user without an account gets the default one.
AccountOf(u) == IF account[u] = Missing THEN "default" ELSE account[u]

Backfill(u) == account' = [account EXCEPT ![u] = AccountOf(u)]

\* 72 hours after the login: the oldest token first.
Expire(u) ==
  /\ token[u] = "live"
  /\ \A i, j \in 1..Len(logins) : i < j /\ logins[i] = u => token[logins[j]] = "expired"
  /\ token' = [token EXCEPT ![u] = "expired"]
  /\ UNCHANGED <<tillin, account, logins, moved, puts, work>>

\* An operator moves to another company in Tillin.
Switch(u, c) ==
  /\ switches < MaxSwitches /\ c # home[u]
  /\ switches' = switches + 1
  /\ home' = [home EXCEPT ![u] = c]
  /\ moved' = moved \cup {u}
  /\ puts' = {IF p.user = u THEN [p EXCEPT !.steady = FALSE] ELSE p : p \in puts}
  /\ UNCHANGED <<account, token, logins, work>>

----------------------------------------------------------------------------
(* Background jobs: xano_client_for_account.                               *)

\* launch: the job keeps its account and its launcher.
LaunchJob(u) ==
  /\ Cardinality(jobs) < MaxJobs
  /\ token[u] # "absent"
  /\ Backfill(u)
  /\ jobs' = jobs \cup {<<AccountOf(u), u>>}
  /\ UNCHANGED <<tillin, token, logins, moved, puts, links>>

\* launcher_token: still of the account, and with a token.
LauncherUsable(a, u) == account[u] = a /\ token[u] # "absent"

\* Fault: operators are in the pool too.
AnyPool(a) == {u \in Users : account[u] = a /\ token[u] # "absent"}

\* freshest_company_token: the users of the account with a token, operators left out,
\* and of these the last who logged in, if any.
Pool(a) == {u \in Users \ Admins : account[u] = a /\ token[u] # "absent"}
LoggedInAfter(v, u) == \E i, j \in DOMAIN logins : i < j /\ logins[i] = v /\ logins[j] = u
Freshest(S) == {u \in S : \A v \in S : ~LoggedInAfter(v, u)}

\* The users whose token serves a job: none or one.
Serving(a, launcher) ==
  IF LauncherUsable(a, launcher) THEN {launcher} ELSE Freshest(Pool(a))

\* What a call for an account gets with the token of a user, or of nobody: the
\* client of a token cannot log in again, and only the default account falls
\* back on the service identity.
Answer(a, by) ==
  [result |-> IF by = {} THEN IF a = "default" THEN "service" ELSE "refused"
              ELSE IF \A u \in by : token[u] = "live" THEN "served" ELSE "expired",
   company |-> {home[u] : u \in by}]

\* The job reads what Answer(a, Serving(a, launcher)) gives it now.
RunJob(a, launcher) ==
  /\ <<a, launcher>> \in jobs
  /\ jobs' = jobs \ {<<a, launcher>>}
  /\ UNCHANGED <<tillin, identity, puts, links>>

----------------------------------------------------------------------------
(* Upload links and API tokens.                                            *)

\* sign_upload: the link carries the user and the account of the moment.
SignLink(u) ==
  /\ Cardinality(links) < MaxLinks
  /\ token[u] # "absent"
  /\ Backfill(u)
  /\ links' = links \cup {<<u, AccountOf(u)>>}
  /\ UNCHANGED <<tillin, token, logins, moved, puts, jobs>>

ExpireLink(l) ==
  /\ links' = links \ {l}
  /\ UNCHANGED <<tillin, identity, puts, jobs>>

\* Fault: the link alone decides.
SameAccountUnchecked(u, a) == TRUE

SameAccount(u, a) == AccountOf(u) = a

\* _store: refused when the account stored for the user is not the link's any
\* more.  `steady' records that the user has not moved since a login told his
\* company, and does not move before the call either.
Put(u, a) ==
  /\ puts = {} /\ <<u, a>> \in links
  /\ SameAccount(u, a)
  /\ puts' = {[user |-> u, account |-> a, steady |-> u \notin moved]}
  /\ UNCHANGED <<tillin, identity, work>>

\* The image goes where Answer(account, {user}) says now.
Send(p) ==
  /\ puts' = puts \ {p}
  /\ UNCHANGED <<tillin, identity, work>>

Next ==
  \/ \E u \in Users : Login(u) \/ Expire(u) \/ LaunchJob(u) \/ SignLink(u)
  \/ \E u \in Admins, c \in Companies : Switch(u, c)
  \/ \E a \in Accounts, u \in Users : RunJob(a, u) \/ Put(u, a)
  \/ \E l \in links : ExpireLink(l)
  \/ \E p \in puts : Send(p)

Spec == Init /\ [][Next]_vars

----------------------------------------------------------------------------
(* Properties.                                                             *)

\* What a background job reads for the account of a company is that company's,
\* whoever's token serves it and whoever has moved or logged in since, unless
\* its own launcher is an operator; and never through the service identity.
JobReadsItsCompany ==
  \A j \in jobs :
    LET by == Serving(j[1], j[2])  answer == Answer(j[1], by) IN
      j[1] \in Companies =>
        /\ answer.result # "service"
        /\ by \cap Admins \subseteq {j[2]}
        /\ by \cap Admins = {} => answer.company \subseteq {j[1]}

\* What goes through an upload link made for the account of a company reaches that
\* company, whoever has moved and logged in again between the link and the upload;
\* the code learns of a move at the next login only, so a user who has moved since
\* his last login, or moves during the request, is excepted.
UploadReachesItsCompany ==
  \A p \in puts :
    p.steady /\ p.account \in Companies => Answer(p.account, {p.user}).company = {p.account}

\* An upload is let through only for a user who is, at that moment, in the company
\* of the account the link was made for (mcp_uploads.py:74: `si l'utilisateur a
\* changé d'entreprise depuis l'émission du lien [...] refus plutôt qu'écriture
\* ailleurs').
RefusedElsewhere ==
  [][\A p \in puts' \ puts :
       p.account \in Companies => Answer(p.account, {p.user}).company = {p.account}]_vars
=============================================================================
