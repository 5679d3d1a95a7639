------------------------------- MODULE McpOAuth -------------------------------
(***************************************************************************)
(* Who may act through the MCP endpoint: the OAuth authorization server    *)
(* (mcp/oauth.py, api/routes/oauth_consent.py), the personal              *)
(* API tokens (api/services/api_tokens.py) and the guard every tool passes *)
(* (mcp/guard.py).                                                         *)
(*                                                                         *)
(* A client asks for an authorization; a signed-in user approves or denies *)
(* it; the code is exchanged once for a family of two tokens, an access    *)
(* token and a refresh token; a refresh revokes the family and issues      *)
(* another.  Everything is in the database and several web workers serve   *)
(* the requests: what a handler has read may be stale when it writes.      *)
(***************************************************************************)
EXTENDS Naturals, Sequences, FiniteSets

CONSTANTS
  Workers,    \* web workers, each serving one request at a time
  Users, Clients,
  Requests,   \* authorization requests (request_key)
  MaxCodes, MaxFamilies   \* bounds: codes handed out, families issued

ASSUME OAuthAssumption ==
  /\ {MaxCodes, MaxFamilies} \subseteq Nat \ {0}
  /\ Clients # {}   \* authorize is only reached by a registered client

VARIABLES
  active,    \* user.is_active
  grant,     \* oauth_authorization rows
  family,    \* oauth_token rows, two to a family, in order of issue
  code,      \* codes handed out so far; code_hash holds a number up to it
  proc,      \* what each worker is doing, with what it read
  clean      \* history: no rotation was overtaken

vars == <<active, grant, family, code, proc, clean>>

----------------------------------------------------------------------------
Scopes == {"read", "write"}

\* An authorization row before the client asks; user holds who approved it.
NoGrant == [asked |-> FALSE, client |-> CHOOSE c \in Clients : TRUE, scopes |-> {},
            user |-> {}, code |-> 0, used |-> FALSE, alive |-> FALSE]

Free == [op |-> "none"]

Is(w, op) == proc[w].op = op

Become(w, job) == proc' = [proc EXCEPT ![w] = job]

Families == 1..Len(family)

Init ==
  /\ active = [u \in Users |-> TRUE]
  /\ grant = [r \in Requests |-> NoGrant]
  /\ family = <<>>
  /\ code = 0
  /\ proc = [w \in Workers |-> Free]
  /\ clean = TRUE

----------------------------------------------------------------------------
(* The request and its consent.                                            *)

\* authorize: the scopes asked that exist, both when none is named.
Authorize(r, c, asked) ==
  /\ ~grant[r].asked /\ asked # {}
  /\ grant' = [grant EXCEPT ![r] = [NoGrant EXCEPT !.asked = TRUE, !.client = c,
                                                  !.scopes = asked, !.alive = TRUE]]
  /\ UNCHANGED <<active, family, code, proc, clean>>

\* pending_authorization.
Pending(g) == g.asked /\ ~g.used /\ g.user = {} /\ g.alive

\* approve_request and deny_request read the row and check it is pending ...
ReadPending(w, r, u, op) ==
  /\ Is(w, "none") /\ active[u] /\ Pending(grant[r])
  /\ op = "approve" => code < MaxCodes
  /\ Become(w, [op |-> op, request |-> r, user |-> u])
  /\ UNCHANGED <<active, grant, family, code, clean>>

\* The columns approve_authorization assigns; used_at is not among them.
Approved(g, u, n) == [g EXCEPT !.user = {u}, !.code = n, !.alive = TRUE]

\* ... and commit without looking again: a second approval replaces the code.
Approve(w) ==
  /\ Is(w, "approve") /\ code < MaxCodes
  /\ code' = code + 1
  /\ grant' = [grant EXCEPT ![proc[w].request] = Approved(@, proc[w].user, code + 1)]
  /\ Become(w, Free)
  /\ UNCHANGED <<active, family, clean>>

Deny(w) ==
  /\ Is(w, "deny")
  /\ grant' = [grant EXCEPT ![proc[w].request].used = TRUE]
  /\ Become(w, Free)
  /\ UNCHANGED <<active, family, code, clean>>

----------------------------------------------------------------------------
(* Codes and tokens.                                                       *)

\* load_authorization_code.
LoadCode(w, c, r, u) ==
  LET g == grant[r] IN
    /\ Is(w, "none") /\ Len(family) < MaxFamilies
    /\ g.code # 0 /\ g.client = c /\ ~g.used /\ u \in g.user /\ g.alive
    /\ Become(w, [op |-> "code", request |-> r, code |-> g.code, client |-> c,
                  user |-> u, scopes |-> g.scopes])
    /\ UNCHANGED <<active, grant, family, code, clean>>

\* _issue: an access and a refresh token of one family, with its history.
Issued(c, u, S, r, parent) ==
  Append(family, [client |-> c, user |-> u, scopes |-> S, revoked |-> FALSE,
                  access |-> TRUE, refresh |-> TRUE, request |-> r, parent |-> parent])

\* Fault: the update that consumes the code does not ask that it be unused.
ConsumableTwice(g, n) == g.code = n

\* UPDATE ... WHERE code_hash = n AND used_at IS NULL touches a row.
Consumable(g, n) == g.code = n /\ ~g.used

\* Consuming the code and issuing the tokens are one transaction; a user who
\* is no longer active rolls it back.
ExchangeCode(w) ==
  /\ Is(w, "code")
  /\ LET p == proc[w] IN
       IF Consumable(grant[p.request], p.code) /\ active[p.user]
       THEN /\ Len(family) < MaxFamilies
            /\ grant' = [grant EXCEPT ![p.request].used = TRUE]
            /\ family' = Issued(p.client, p.user, p.scopes, p.request, 0)
       ELSE UNCHANGED <<grant, family>>
  /\ Become(w, Free)
  /\ UNCHANGED <<active, code, clean>>

\* Fault: the lookup of a refresh token forgets the revocation.
ActiveWhenRevoked(f, kind) == f[kind]

\* _active_row.
ActiveRow(f, kind) == ~f.revoked /\ f[kind]

\* The scopes asked, or those of the token; refused when they exceed it.
Granted(asked, f) ==
  IF asked = {} THEN {f.scopes} ELSE {S \in {asked} : S \subseteq f.scopes}

Rotating(w) == Is(w, "rotate") \/ Is(w, "issue")

\* load_refresh_token and the second look of exchange_refresh_token ask the
\* same of the row, and a row that is not active stays so: one read.
LoadRefresh(w, c, i, asked) ==
  /\ Is(w, "none") /\ Len(family) < MaxFamilies
  /\ family[i].client = c /\ ActiveRow(family[i], "refresh")
  /\ \E S \in Granted(asked, family[i]) :
       Become(w, [op |-> "rotate", family |-> i, scopes |-> S])
  /\ clean' = (clean /\ \A v \in Workers : ~(Rotating(v) /\ proc[v].family = i))
  /\ UNCHANGED <<active, grant, family, code>>

\* Fault: the family stays in force until it expires.
KeptFamily(f) == f

\* UPDATE oauth_token SET revoked_at WHERE family: both tokens.
RevokedFamily(f) == [f EXCEPT !.revoked = TRUE]

\* _revoke_family commits ...
RevokeOld(w) ==
  /\ Is(w, "rotate")
  /\ family' = [family EXCEPT ![proc[w].family] = RevokedFamily(@)]
  /\ Become(w, [proc[w] EXCEPT !.op = "issue"])
  /\ UNCHANGED <<active, grant, code, clean>>

\* ... before _issue, a transaction of its own, which an inactive user fails.
IssueNew(w) ==
  /\ Is(w, "issue")
  /\ LET p == proc[w]  old == family[p.family] IN
       IF active[old.user]
       THEN /\ Len(family) < MaxFamilies
            /\ family' = Issued(old.client, old.user, p.scopes, old.request, p.family)
       ELSE UNCHANGED family
  /\ Become(w, Free)
  /\ UNCHANGED <<active, grant, code, clean>>

\* revoke_token, asked with a token that is still active.
Revoke(i) ==
  /\ ActiveRow(family[i], "access") \/ ActiveRow(family[i], "refresh")
  /\ family' = [family EXCEPT ![i] = RevokedFamily(@)]
  /\ clean' = (clean /\ \A v \in Workers : ~(Rotating(v) /\ proc[v].family = i))
  /\ UNCHANGED <<active, grant, code, proc>>

----------------------------------------------------------------------------
(* A tool call.                                                            *)

\* The scopes load_access_token puts in the token.
TokenScopes(f) == f.scopes

\* load_access_token: the worker now holds a user and
\* scopes, and looks at neither token nor row again.
Verify(w) ==
  /\ Is(w, "none")
  /\ \E i \in Families :
       /\ ActiveRow(family[i], "access") /\ active[family[i].user]
       /\ Become(w, [op |-> "verified", user |-> family[i].user,
                     scopes |-> TokenScopes(family[i])])
  /\ UNCHANGED <<active, grant, family, code, clean>>

\* current_user_id(write) and tool_context: refused, or the work begins.
StartTool(w, write) ==
  /\ Is(w, "verified")
  /\ LET p == proc[w] IN
       Become(w, IF /\ write => "write" \in p.scopes
                    /\ p.scopes # {}
                    /\ active[p.user]
                 THEN [op |-> "act", user |-> p.user, write |-> write]
                 ELSE Free)
  /\ UNCHANGED <<active, grant, family, code, clean>>

EndTool(w) ==
  /\ Is(w, "act")
  /\ Become(w, Free)
  /\ UNCHANGED <<active, grant, family, code, clean>>

----------------------------------------------------------------------------
(* Time and failures.                                                      *)

\* REQUEST_TTL, CODE_TTL.
ExpireGrant(r) ==
  /\ grant[r].alive
  /\ grant' = [grant EXCEPT ![r].alive = FALSE]
  /\ UNCHANGED <<active, family, code, proc, clean>>

\* ACCESS_TTL comes before REFRESH_TTL.
ExpireToken(i) ==
  /\ family[i].refresh
  /\ family' = [family EXCEPT ![i].access = FALSE, ![i].refresh = family[i].access]
  /\ UNCHANGED <<active, grant, code, proc, clean>>

\* The operator deactivates a user, in the database.
Deactivate(u) ==
  /\ active[u]
  /\ active' = [active EXCEPT ![u] = FALSE]
  /\ UNCHANGED <<grant, family, code, proc, clean>>

Kill(w) ==
  /\ ~Is(w, "none")
  /\ Become(w, Free)
  /\ UNCHANGED <<active, grant, family, code, clean>>

Next ==
  \/ \E r \in Requests :
       \/ \E c \in Clients, asked \in SUBSET Scopes : Authorize(r, c, asked)
       \/ ExpireGrant(r)
  \/ \E w \in Workers :
       \/ \E r \in Requests, u \in Users, op \in {"approve", "deny"} :
            ReadPending(w, r, u, op)
       \/ Approve(w) \/ Deny(w)
       \/ \E c \in Clients, r \in Requests, u \in Users : LoadCode(w, c, r, u)
       \/ ExchangeCode(w)
       \/ \E c \in Clients, i \in Families, asked \in SUBSET Scopes :
            LoadRefresh(w, c, i, asked)
       \/ RevokeOld(w) \/ IssueNew(w)
       \/ Verify(w) \/ EndTool(w) \/ Kill(w)
       \/ \E write \in BOOLEAN : StartTool(w, write)
  \/ \E i \in Families : Revoke(i) \/ ExpireToken(i)
  \/ \E u \in Users : Deactivate(u)

Spec == Init /\ [][Next]_vars

----------------------------------------------------------------------------
(* Properties.                                                             *)

\* Every variable stays in its type.
TypeOK ==
  /\ active \in [Users -> BOOLEAN]
  /\ grant \in [Requests -> [asked : BOOLEAN, client : Clients, scopes : SUBSET Scopes,
                             user : SUBSET Users, code : 0..MaxCodes,
                             used : BOOLEAN, alive : BOOLEAN]]
  /\ family \in Seq([client : Clients, user : Users, scopes : SUBSET Scopes,
                     revoked : BOOLEAN, access : BOOLEAN, refresh : BOOLEAN,
                     request : Requests, parent : 0..MaxFamilies])
  /\ clean \in BOOLEAN

FamiliesOf(r) == {i \in Families : family[i].request = r}

LiveOf(r) == {i \in FamiliesOf(r) : ~family[i].revoked}

\* An authorization is exchanged once, whatever approvals and exchanges of it
\* overlap: one family descends from it directly.
CodeOnce ==
  \A r \in Requests : Cardinality({i \in FamiliesOf(r) : family[i].parent = 0}) <= 1

\* As long as no rotation is overtaken by another of the same token or by its
\* revocation, one family at most is in force for an authorization.
OneLiveLine == clean => \A r \in Requests : Cardinality(LiveOf(r)) <= 1

Dead(r) ==
  /\ FamiliesOf(r) # {} /\ LiveOf(r) = {}
  /\ \A w \in Workers : Rotating(w) => family[proc[w].family].request # r

\* When nothing of an exchanged authorization is in force and no worker is
\* rotating it, it stays dead: no old token or code revives it.
RevocationFinal == [][\A r \in Requests : Dead(r) => Dead(r)']_vars
=============================================================================
