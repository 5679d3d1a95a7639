--------------------------- MODULE McpOAuthProofs ---------------------------
(***************************************************************************)
(* Theorems about McpOAuth, for every number of workers, users, clients,   *)
(* authorization requests, codes and token families.                       *)
(***************************************************************************)
EXTENDS McpOAuth, FiniteSetTheorems, TLAPS

-----------------------------------------------------------------------------
(* Type correctness *)

GrantRecord ==
  [asked : BOOLEAN, client : Clients, scopes : SUBSET Scopes, user : SUBSET Users,
   code : 0..MaxCodes, used : BOOLEAN, alive : BOOLEAN]

FamilyRecord ==
  [client : Clients, user : Users, scopes : SUBSET Scopes, revoked : BOOLEAN,
   access : BOOLEAN, refresh : BOOLEAN, request : Requests, parent : 0..MaxFamilies]

\* What a worker may hold, by the operation it is at.
JobRecord ==
  [op : {"none"}]
    \cup [op : {"approve", "deny"}, request : Requests, user : Users]
    \cup [op : {"code"}, request : Requests, code : Nat, client : Clients, user : Users,
          scopes : SUBSET Scopes]
    \cup [op : {"rotate", "issue"}, family : Nat \ {0}, scopes : SUBSET Scopes]
    \cup [op : {"verified"}, user : Users, scopes : SUBSET Scopes]
    \cup [op : {"act"}, user : Users, write : BOOLEAN]

\* The type invariant with the workers' jobs; a rotation is of a family that exists.
Typed ==
  /\ TypeOK /\ code \in 0..MaxCodes
  /\ proc \in [Workers -> JobRecord]
  /\ \A w \in Workers : Rotating(w) => proc[w].family \in Families

\* The fields of a job follow from its operation.
LEMMA JobFields ==
  ASSUME Typed, NEW w \in Workers
  PROVE  /\ proc[w].op \in {"approve", "deny"} =>
              proc[w].request \in Requests /\ proc[w].user \in Users
         /\ Is(w, "code") => /\ proc[w].request \in Requests /\ proc[w].user \in Users
                             /\ proc[w].client \in Clients /\ proc[w].scopes \subseteq Scopes
         /\ Rotating(w) => /\ proc[w].family \in Families /\ proc[w].scopes \subseteq Scopes
                           /\ proc[w] = [op |-> proc[w].op, family |-> proc[w].family,
                                         scopes |-> proc[w].scopes]
         /\ Is(w, "verified") => proc[w].user \in Users
  BY DEF Typed, JobRecord, Rotating, Is

\* The rows, as functions into their record types.
LEMMA Rows ==
  ASSUME Typed
  PROVE  /\ grant \in [Requests -> GrantRecord]
         /\ family \in Seq(FamilyRecord) /\ Len(family) \in Nat
         /\ \A i \in Families : family[i] \in FamilyRecord
<1>1. grant \in [Requests -> GrantRecord]
  BY DEF Typed, TypeOK, GrantRecord
<1>2. family \in Seq(FamilyRecord)
  BY DEF Typed, TypeOK, FamilyRecord
<1>3. QED BY <1>1, <1>2 DEF Families

\* A request and its consent write well-typed authorizations.
LEMMA GrantTypes ==
  ASSUME Typed, [Next]_vars
  PROVE  grant' \in [Requests -> GrantRecord] /\ code' \in 0..MaxCodes
<1>g. grant \in [Requests -> GrantRecord]
  BY Rows
<1>c. code \in 0..MaxCodes /\ MaxCodes \in Nat
  BY OAuthAssumption DEF Typed, OAuthAssumption
<1>1. ASSUME NEW r \in Requests, NEW c \in Clients, NEW asked \in SUBSET Scopes,
             Authorize(r, c, asked)
      PROVE  grant' \in [Requests -> GrantRecord] /\ code' \in 0..MaxCodes
  <2>1. NoGrant \in GrantRecord
    BY <1>c DEF NoGrant, GrantRecord
  <2>2. [NoGrant EXCEPT !.asked = TRUE, !.client = c, !.scopes = asked, !.alive = TRUE]
          \in GrantRecord
    BY <2>1 DEF GrantRecord
  <2>3. QED BY <1>1, <1>c, <1>g, <2>2 DEF Authorize
<1>2. ASSUME NEW w \in Workers, Approve(w)
      PROVE  grant' \in [Requests -> GrantRecord] /\ code' \in 0..MaxCodes
  <2>1. proc[w].request \in Requests /\ proc[w].user \in Users
    BY <1>2, JobFields DEF Approve, Is
  <2>2. code' = code + 1 /\ code + 1 \in 0..MaxCodes
    BY <1>2, <1>c DEF Approve
  <2>3. \A g \in GrantRecord : Approved(g, proc[w].user, code + 1) \in GrantRecord
    BY <2>1, <2>2 DEF GrantRecord, Approved
  <2>4. QED BY <1>2, <1>g, <2>1, <2>2, <2>3 DEF Approve
<1>3. ASSUME NEW r \in Requests,
             \/ grant' = [grant EXCEPT ![r].used = TRUE]
             \/ grant' = [grant EXCEPT ![r].alive = FALSE]
      PROVE  grant' \in [Requests -> GrantRecord]
  BY <1>3, <1>g DEF GrantRecord
<1>4. ASSUME NEW w \in Workers, Deny(w)
      PROVE  grant' \in [Requests -> GrantRecord] /\ code' \in 0..MaxCodes
  BY <1>3, <1>4, <1>c, JobFields DEF Deny, Is
<1>5. ASSUME NEW w \in Workers, ExchangeCode(w)
      PROVE  grant' \in [Requests -> GrantRecord] /\ code' \in 0..MaxCodes
  BY <1>3, <1>5, <1>c, <1>g, JobFields DEF ExchangeCode
<1>6. ASSUME NEW r \in Requests, ExpireGrant(r)
      PROVE  grant' \in [Requests -> GrantRecord] /\ code' \in 0..MaxCodes
  BY <1>3, <1>6, <1>c DEF ExpireGrant
<1>7. CASE UNCHANGED <<grant, code>>
  BY <1>7, <1>c, <1>g
<1>8. QED
  BY <1>1, <1>2, <1>4, <1>5, <1>6, <1>7
     DEF Next, vars, ReadPending, LoadCode, LoadRefresh, RevokeOld, IssueNew, Verify, EndTool,
         Kill, StartTool, Revoke, ExpireToken, Deactivate

-----------------------------------------------------------------------------
(* What a step does to the families *)

\* A family keeps its client, user, authorization and parent, and stays revoked.
Continues(f, g) ==
  /\ g.client = f.client /\ g.user = f.user /\ g.request = f.request /\ g.parent = f.parent
  /\ f.revoked => g.revoked

\* Exchanging a code starts a family, as the first one of its authorization.
Starts(w) ==
  /\ ExchangeCode(w) /\ Consumable(grant[proc[w].request], proc[w].code)
  /\ grant' = [grant EXCEPT ![proc[w].request].used = TRUE]
  /\ family' = Issued(proc[w].client, proc[w].user, proc[w].scopes, proc[w].request, 0)

\* Rotating a family adds one that continues its authorization.
Succeeds(w) ==
  /\ IssueNew(w)
  /\ family' = Issued(family[proc[w].family].client, family[proc[w].family].user,
                      proc[w].scopes, family[proc[w].family].request, proc[w].family)

\* Rows of families are appended by those two steps and otherwise updated in place.
LEMMA FamilySteps ==
  ASSUME Typed, [Next]_vars
  PROVE  /\ family' \in Seq(FamilyRecord)
         /\ \/ \E w \in Workers : Starts(w) \/ Succeeds(w)
            \/ /\ Len(family') = Len(family)
               /\ \A i \in Families : Continues(family[i], family'[i])
<1> USE Rows DEF Families
<1>1. ASSUME NEW w \in Workers, ExchangeCode(w), family' # family
      PROVE  Starts(w) /\ family' \in Seq(FamilyRecord)
  <2>1. Starts(w)
    BY <1>1 DEF ExchangeCode, Starts
  <2>2. /\ proc[w].client \in Clients /\ proc[w].user \in Users
        /\ proc[w].scopes \subseteq Scopes /\ proc[w].request \in Requests
    BY <1>1, JobFields DEF ExchangeCode
  <2>3. 0 \in 0..MaxFamilies
    BY OAuthAssumption DEF OAuthAssumption
  <2>4. QED BY <2>1, <2>2, <2>3 DEF Starts, Issued, FamilyRecord
<1>2. ASSUME NEW w \in Workers, IssueNew(w), family' # family
      PROVE  Succeeds(w) /\ family' \in Seq(FamilyRecord)
  <2>1. Succeeds(w) /\ Len(family) < MaxFamilies
    BY <1>2 DEF IssueNew, Succeeds
  <2>2. proc[w].family \in 1..Len(family) /\ proc[w].scopes \subseteq Scopes
    BY <1>2, JobFields DEF IssueNew, Rotating
  <2>3. proc[w].family \in 0..MaxFamilies
    BY <2>1, <2>2, OAuthAssumption DEF OAuthAssumption
  <2>4. family[proc[w].family] \in FamilyRecord
    BY <2>2
  <2>5. QED BY <2>1, <2>2, <2>3, <2>4 DEF Succeeds, Issued, FamilyRecord
<1>3. ASSUME NEW i \in Families, NEW g \in FamilyRecord, Continues(family[i], g),
             family' = [family EXCEPT ![i] = g]
      PROVE  /\ family' \in Seq(FamilyRecord) /\ Len(family') = Len(family)
             /\ \A k \in Families : Continues(family[k], family'[k])
  BY <1>3 DEF Continues
<1>4. ASSUME NEW i \in Families, family' = [family EXCEPT ![i] = RevokedFamily(@)]
      PROVE  /\ family' \in Seq(FamilyRecord) /\ Len(family') = Len(family)
             /\ \A k \in Families : Continues(family[k], family'[k])
  <2>1. RevokedFamily(family[i]) \in FamilyRecord /\ Continues(family[i], RevokedFamily(family[i]))
    BY DEF RevokedFamily, FamilyRecord, Continues
  <2>2. QED BY <1>3, <1>4, <2>1
<1>5. ASSUME NEW w \in Workers, RevokeOld(w)
      PROVE  /\ family' \in Seq(FamilyRecord) /\ Len(family') = Len(family)
             /\ \A k \in Families : Continues(family[k], family'[k])
  BY <1>4, <1>5, JobFields DEF RevokeOld, Rotating
<1>6. ASSUME NEW i \in Families, Revoke(i)
      PROVE  /\ family' \in Seq(FamilyRecord) /\ Len(family') = Len(family)
             /\ \A k \in Families : Continues(family[k], family'[k])
  BY <1>4, <1>6 DEF Revoke
<1>7. ASSUME NEW i \in Families, ExpireToken(i)
      PROVE  /\ family' \in Seq(FamilyRecord) /\ Len(family') = Len(family)
             /\ \A k \in Families : Continues(family[k], family'[k])
  <2> DEFINE g == [family[i] EXCEPT !.access = FALSE, !.refresh = family[i].access]
  <2>1. g \in FamilyRecord /\ Continues(family[i], g)
    BY DEF FamilyRecord, Continues
  <2>2. family' = [family EXCEPT ![i] = g]
    BY <1>7 DEF ExpireToken, FamilyRecord
  <2>3. QED BY <1>3, <2>1, <2>2
<1>8. CASE family' = family
  BY <1>8 DEF Continues
<1>9. QED
  BY <1>1, <1>2, <1>5, <1>6, <1>7, <1>8
     DEF Next, vars, Authorize, ReadPending, Approve, Deny, LoadCode, LoadRefresh, Verify,
         EndTool, Kill, StartTool, ExpireGrant, Deactivate

\* Families are never withdrawn.
LEMMA FamiliesGrow ==
  ASSUME Typed, [Next]_vars
  PROVE  /\ Len(family') \in Nat /\ Len(family) \in Nat /\ Len(family) <= Len(family')
         /\ Families \subseteq Families'
         /\ \A i \in Families : Continues(family[i], family'[i])
<1>1. ASSUME NEW w \in Workers, Starts(w) \/ Succeeds(w)
      PROVE  \E f \in FamilyRecord : family' = Append(family, f)
  BY <1>1, FamilySteps, Rows DEF Starts, Succeeds, Issued, FamilyRecord
<1>2. QED
  BY <1>1, FamilySteps, Rows DEF Families, Continues

\* What a worker holds next.
LEMMA JobTypes ==
  ASSUME Typed, [Next]_vars
  PROVE  /\ proc' \in [Workers -> JobRecord]
         /\ \A w \in Workers : Rotating(w)' => proc'[w].family \in Families
<1> DEFINE NextJobs == /\ proc' \in [Workers -> JobRecord]
                       /\ \A v \in Workers : Rotating(v)' => proc'[v].family \in Families
<1> USE DEF Become
<1>p. proc \in [Workers -> JobRecord] /\ \A w \in Workers : Rotating(w) => proc[w].family \in Families
  BY DEF Typed
<1>0. ASSUME NEW w \in Workers, NEW job \in JobRecord, proc' = [proc EXCEPT ![w] = job],
             job.op \in {"rotate", "issue"} => job.family \in Families
      PROVE  NextJobs
  BY <1>0, <1>p DEF Rotating, Is
<1>f. Free \in JobRecord /\ Free.op = "none"
  BY DEF Free, JobRecord
<1>1. ASSUME NEW w \in Workers, NEW r \in Requests, NEW u \in Users,
             NEW op \in {"approve", "deny"}, ReadPending(w, r, u, op)
      PROVE  NextJobs
  <2>1. [op |-> op, request |-> r, user |-> u] \in JobRecord
    BY DEF JobRecord
  <2>2. QED BY <1>0, <1>1, <2>1 DEF ReadPending
<1>2. ASSUME NEW w \in Workers, NEW c \in Clients, NEW r \in Requests, NEW u \in Users,
             LoadCode(w, c, r, u)
      PROVE  NextJobs
  <2>1. grant[r].code \in Nat /\ grant[r].scopes \in SUBSET Scopes
    BY Rows, OAuthAssumption DEF GrantRecord, OAuthAssumption
  <2>2. [op |-> "code", request |-> r, code |-> grant[r].code, client |-> c, user |-> u,
         scopes |-> grant[r].scopes] \in JobRecord
    BY <2>1 DEF JobRecord
  <2>3. QED BY <1>0, <1>2, <2>2 DEF LoadCode
<1>3. ASSUME NEW w \in Workers, NEW c \in Clients, NEW i \in Families,
             NEW asked \in SUBSET Scopes, LoadRefresh(w, c, i, asked)
      PROVE  NextJobs
  <2>1. i \in Nat \ {0} /\ family[i].scopes \in SUBSET Scopes
    BY Rows DEF Families, FamilyRecord
  <2>2. PICK S \in Granted(asked, family[i]) :
          proc' = [proc EXCEPT ![w] = [op |-> "rotate", family |-> i, scopes |-> S]]
    BY <1>3 DEF LoadRefresh
  <2>3. S \in SUBSET Scopes
    BY <2>1, <2>2 DEF Granted
  <2>4. [op |-> "rotate", family |-> i, scopes |-> S] \in JobRecord
    BY <2>1, <2>3 DEF JobRecord
  <2>5. QED BY <1>0, <2>2, <2>4
<1>4. ASSUME NEW w \in Workers, RevokeOld(w)
      PROVE  NextJobs
  <2>1. proc[w] \in [op : {"rotate"}, family : Nat \ {0}, scopes : SUBSET Scopes]
    BY <1>4, <1>p DEF RevokeOld, Is, JobRecord
  <2>2. [proc[w] EXCEPT !.op = "issue"]
          = [op |-> "issue", family |-> proc[w].family, scopes |-> proc[w].scopes]
    BY <2>1
  <2>3. [op |-> "issue", family |-> proc[w].family, scopes |-> proc[w].scopes] \in JobRecord
    BY <2>1 DEF JobRecord
  <2>4. proc[w].family \in Families
    BY <1>4, <1>p DEF RevokeOld, Rotating
  <2>5. QED BY <1>0, <1>4, <2>2, <2>3, <2>4 DEF RevokeOld
<1>5. ASSUME NEW w \in Workers, Verify(w)
      PROVE  NextJobs
  <2>1. PICK i \in Families :
          proc' = [proc EXCEPT ![w] = [op |-> "verified", user |-> family[i].user,
                                       scopes |-> family[i].scopes]]
    BY <1>5 DEF Verify, TokenScopes
  <2>2. family[i].user \in Users /\ family[i].scopes \in SUBSET Scopes
    BY Rows DEF FamilyRecord
  <2>3. [op |-> "verified", user |-> family[i].user, scopes |-> family[i].scopes] \in JobRecord
    BY <2>2 DEF JobRecord
  <2>4. QED BY <1>0, <2>1, <2>3
<1>6. ASSUME NEW w \in Workers, NEW write \in BOOLEAN, StartTool(w, write)
      PROVE  NextJobs
  <2>1. proc[w].user \in Users
    BY <1>6, JobFields DEF StartTool
  <2>2. [op |-> "act", user |-> proc[w].user, write |-> write] \in JobRecord
    BY <2>1 DEF JobRecord
  <2>3. QED BY <1>0, <1>6, <1>f, <2>2 DEF StartTool
<1>7. ASSUME NEW w \in Workers,
             Approve(w) \/ Deny(w) \/ ExchangeCode(w) \/ IssueNew(w) \/ EndTool(w) \/ Kill(w)
      PROVE  NextJobs
  BY <1>0, <1>7, <1>f DEF Approve, Deny, ExchangeCode, IssueNew, EndTool, Kill
<1>8. CASE proc' = proc
  BY <1>8, <1>p DEF Rotating, Is
<1>9. QED
  BY <1>1, <1>2, <1>3, <1>4, <1>5, <1>6, <1>7, <1>8
     DEF Next, vars, Authorize, ExpireGrant, Revoke, ExpireToken, Deactivate

\* The tables and the workers' jobs always hold values of their types.
THEOREM TypedInvariant == Spec => []Typed
<1>1. Init => Typed
  <2> SUFFICES ASSUME Init PROVE Typed
    OBVIOUS
  <2>1. NoGrant \in GrantRecord
    BY OAuthAssumption DEF NoGrant, GrantRecord, OAuthAssumption
  <2>2. family \in Seq(FamilyRecord)
    BY DEF Init
  <2>3. TypeOK
    BY <2>1, <2>2 DEF Init, TypeOK, GrantRecord, FamilyRecord
  <2>4. Free \in JobRecord /\ Free.op = "none"
    BY DEF Free, JobRecord
  <2>5. QED BY <2>3, <2>4, OAuthAssumption DEF Init, Typed, Rotating, Is, OAuthAssumption
<1>2. Typed /\ [Next]_vars => Typed'
  <2> SUFFICES ASSUME Typed, [Next]_vars PROVE Typed'
    OBVIOUS
  <2>1. active' \in [Users -> BOOLEAN] /\ clean' \in BOOLEAN
    <3>1. active \in [Users -> BOOLEAN] /\ clean \in BOOLEAN
      BY DEF Typed, TypeOK
    <3>2. active' = active \/ \E u \in Users : active' = [active EXCEPT ![u] = FALSE]
      BY DEF Next, vars, Authorize, ReadPending, Approve, Deny, LoadCode, ExchangeCode,
             LoadRefresh, RevokeOld, IssueNew, Verify, EndTool, Kill, StartTool, Revoke,
             ExpireToken, ExpireGrant, Deactivate
    <3>3. clean' \in BOOLEAN
      BY <3>1 DEF Next, vars, Authorize, ReadPending, Approve, Deny, LoadCode, ExchangeCode,
             LoadRefresh, RevokeOld, IssueNew, Verify, EndTool, Kill, StartTool, Revoke,
             ExpireToken, ExpireGrant, Deactivate
    <3>4. QED BY <3>1, <3>2, <3>3
  <2>2. TypeOK'
    BY <2>1, GrantTypes, FamilySteps DEF TypeOK, GrantRecord, FamilyRecord
  <2>3. QED BY <2>2, GrantTypes, JobTypes, FamiliesGrow DEF Typed
<1>3. QED BY <1>1, <1>2, PTL DEF Spec

-----------------------------------------------------------------------------
(* An authorization is exchanged once *)

\* Consent and exchange are about requests a client has made.
AskedFor ==
  /\ \A w \in Workers : proc[w].op \in {"approve", "deny", "code"} => grant[proc[w].request].asked
  /\ \A r \in Requests : grant[r].code # 0 => grant[r].asked

\* An authorization with a family has been asked for and is used up.
FamiliesUseTheCode ==
  \A i \in Families : grant[family[i].request].asked /\ grant[family[i].request].used

\* At most one family of an authorization has no parent.
OneRoot ==
  \A i, k \in Families :
    family[i].request = family[k].request /\ family[i].parent = 0 /\ family[k].parent = 0 => i = k

Exchanged == AskedFor /\ FamiliesUseTheCode /\ OneRoot

\* Once asked for an authorization stays so, and once used; the columns are never reset.
LEMMA GrantsGrow ==
  ASSUME Typed, AskedFor, [Next]_vars, NEW r \in Requests, grant[r].asked
  PROVE  grant'[r].asked /\ (grant[r].used => grant'[r].used)
<1> USE Rows DEF GrantRecord
<1>1. ASSUME NEW q \in Requests, NEW c \in Clients, NEW asked \in SUBSET Scopes,
             Authorize(q, c, asked)
      PROVE  grant'[r] = grant[r]
  BY <1>1 DEF Authorize
<1>2. ASSUME NEW w \in Workers, Approve(w)
      PROVE  grant'[r].asked /\ (grant[r].used => grant'[r].used)
  <2>1. proc[w].request \in Requests
    BY <1>2, JobFields DEF Approve, Is
  <2>2. QED BY <1>2, <2>1 DEF Approve, Approved
<1>3. ASSUME NEW w \in Workers, Deny(w) \/ ExchangeCode(w)
      PROVE  grant'[r].asked /\ (grant[r].used => grant'[r].used)
  BY <1>3 DEF Deny, ExchangeCode
<1>4. ASSUME NEW q \in Requests, ExpireGrant(q)
      PROVE  grant'[r].asked /\ (grant[r].used => grant'[r].used)
  BY <1>4 DEF ExpireGrant
<1>5. CASE grant' = grant
  BY <1>5
<1>6. QED
  BY <1>1, <1>2, <1>3, <1>4, <1>5
     DEF Next, vars, ReadPending, LoadCode, LoadRefresh, RevokeOld, IssueNew, Verify, EndTool,
         Kill, StartTool, Revoke, ExpireToken, Deactivate

\* A worker starts consent or an exchange only on a request that was made.
LEMMA AskedForStep ==
  ASSUME Typed, AskedFor, [Next]_vars PROVE AskedFor'
<1>p. proc \in [Workers -> JobRecord]
  BY DEF Typed
<1>1. ASSUME NEW w \in Workers, proc'[w].op \in {"approve", "deny", "code"},
             proc'[w] # proc[w]
      PROVE  proc'[w].request \in Requests /\ grant[proc'[w].request].asked
  <2>1. ASSUME NEW v \in Workers, NEW r \in Requests, NEW u \in Users,
               NEW op \in {"approve", "deny"}, ReadPending(v, r, u, op)
        PROVE  proc'[w].request \in Requests /\ grant[proc'[w].request].asked
    BY <1>1, <1>p, <2>1 DEF ReadPending, Become, Pending
  <2>2. ASSUME NEW v \in Workers, NEW c \in Clients, NEW r \in Requests, NEW u \in Users,
               LoadCode(v, c, r, u)
        PROVE  proc'[w].request \in Requests /\ grant[proc'[w].request].asked
    BY <1>1, <1>p, <2>2 DEF LoadCode, Become, AskedFor
  <2>3. ASSUME NEW v \in Workers, NEW job, proc' = [proc EXCEPT ![v] = job],
               job.op \notin {"approve", "deny", "code"}
        PROVE  FALSE
    BY <1>1, <1>p, <2>3
  <2>4. ASSUME NEW v \in Workers, NEW c \in Clients, NEW i \in Families,
               NEW asked \in SUBSET Scopes, LoadRefresh(v, c, i, asked)
        PROVE  FALSE
    BY <2>3, <2>4 DEF LoadRefresh, Become
  <2>5. ASSUME NEW v \in Workers, RevokeOld(v)
        PROVE  FALSE
    <3>1. [proc[v] EXCEPT !.op = "issue"].op = "issue"
      BY <2>5, JobFields DEF RevokeOld, Rotating
    <3>2. QED BY <2>3, <2>5, <3>1 DEF RevokeOld, Become
  <2>6. ASSUME NEW v \in Workers, Verify(v)
        PROVE  FALSE
    BY <2>3, <2>6 DEF Verify, Become
  <2>7. ASSUME NEW v \in Workers, NEW write \in BOOLEAN,
               \/ Approve(v) \/ Deny(v) \/ ExchangeCode(v) \/ IssueNew(v) \/ EndTool(v)
               \/ Kill(v) \/ StartTool(v, write)
        PROVE  FALSE
    BY <2>3, <2>7
       DEF Approve, Deny, ExchangeCode, IssueNew, EndTool, Kill, StartTool, Become, Free
  <2>8. CASE proc' = proc
    BY <1>1, <2>8
  <2>9. QED
    BY <2>1, <2>2, <2>4, <2>5, <2>6, <2>7, <2>8
       DEF Next, vars, Authorize, ExpireGrant, Revoke, ExpireToken, Deactivate
<1>2. ASSUME NEW w \in Workers, proc[w].op \in {"approve", "deny", "code"}
      PROVE  proc[w].request \in Requests
  BY <1>2, JobFields DEF Is
<1>3. ASSUME NEW r \in Requests, grant'[r].code # 0 PROVE grant'[r].asked
  <2>1. CASE grant[r].asked
    BY <2>1, GrantsGrow
  <2>2. CASE ~grant[r].asked
    <3>1. ASSUME NEW q \in Requests, NEW c \in Clients, NEW asked \in SUBSET Scopes,
                 Authorize(q, c, asked), q = r
          PROVE  grant'[r].asked
      BY <3>1, Rows DEF Authorize, NoGrant
    <3>2. ASSUME NEW w \in Workers, Approve(w) \/ Deny(w) PROVE proc[w].request # r
      BY <2>2, <3>2 DEF Approve, Deny, Is, AskedFor
    <3>3. ASSUME NEW w \in Workers, ExchangeCode(w) PROVE proc[w].request # r
      BY <2>2, <3>3 DEF ExchangeCode, Is, AskedFor
    <3>4. ASSUME NEW q \in Requests, ExpireGrant(q) PROVE grant'[r].code = grant[r].code
      BY <3>4, Rows DEF ExpireGrant, GrantRecord
    <3>5. \/ grant'[r].asked \/ grant'[r] = grant[r] \/ grant'[r].code = grant[r].code
      BY <3>1, <3>2, <3>3, <3>4, Rows
         DEF Next, vars, Authorize, Approve, Deny, ExchangeCode, ReadPending, LoadCode,
             LoadRefresh, RevokeOld, IssueNew, Verify, EndTool, Kill, StartTool, Revoke,
             ExpireToken, Deactivate
    <3>6. QED BY <1>3, <2>2, <3>5 DEF AskedFor
  <2>3. QED BY <2>1, <2>2
<1>4. QED BY <1>1, <1>2, <1>3, GrantsGrow DEF AskedFor

\* The authorization of a family, in its row.
LEMMA FamilyRequest ==
  ASSUME Typed PROVE \A i \in Families : family[i].request \in Requests
  BY Rows DEF FamilyRecord

\* A family that starts belongs to a code that was not used, which it uses up.
LEMMA StartStep ==
  ASSUME Typed, Exchanged, NEW w \in Workers, Starts(w)
  PROVE  /\ Len(family') = Len(family) + 1 /\ Families' = Families \cup {Len(family')}
         /\ Len(family') \notin Families
         /\ \A i \in Families : family'[i] = family[i] /\ family[i].request # proc[w].request
         /\ family'[Len(family')].request = proc[w].request
         /\ family'[Len(family')].parent = 0 /\ ~family'[Len(family')].revoked
         /\ grant'[proc[w].request].asked /\ grant'[proc[w].request].used
<1>r. proc[w].request \in Requests /\ ~grant[proc[w].request].used
      /\ grant[proc[w].request].asked
  BY JobFields DEF Starts, ExchangeCode, Is, Consumable, Exchanged, AskedFor
<1>1. /\ Len(family') = Len(family) + 1 /\ Families' = Families \cup {Len(family')}
      /\ Len(family') \notin Families
      /\ \A i \in Families : family'[i] = family[i]
      /\ family'[Len(family')].request = proc[w].request
      /\ family'[Len(family')].parent = 0 /\ ~family'[Len(family')].revoked
  BY Rows DEF Starts, Issued, Families
<1>2. \A i \in Families : family[i].request # proc[w].request
  BY <1>r DEF Exchanged, FamiliesUseTheCode
<1>3. grant'[proc[w].request].asked /\ grant'[proc[w].request].used
  BY <1>r, Rows DEF Starts, GrantRecord
<1>4. QED BY <1>1, <1>2, <1>3

\* A family that succeeds another has it as its parent.
LEMMA SuccessionStep ==
  ASSUME Typed, NEW w \in Workers, Succeeds(w)
  PROVE  /\ Len(family') = Len(family) + 1 /\ Families' = Families \cup {Len(family')}
         /\ Len(family') \notin Families
         /\ \A i \in Families : family'[i] = family[i]
         /\ Is(w, "issue") /\ proc[w].family \in Families
         /\ family'[Len(family')].request = family[proc[w].family].request
         /\ family'[Len(family')].parent # 0 /\ ~family'[Len(family')].revoked
         /\ grant' = grant
<1>1. Is(w, "issue") /\ proc[w].family \in Families /\ grant' = grant
  BY JobFields DEF Succeeds, IssueNew, Rotating
<1>2. QED BY <1>1, Rows DEF Succeeds, Issued, Families

\* Every step keeps the facts of Exchanged, one family without a parent for each authorization among them.
LEMMA ExchangedStep == ASSUME Typed, Exchanged, [Next]_vars PROVE Exchanged'
<1>1. AskedFor'
  BY AskedForStep DEF Exchanged
<1>g. \A i \in Families : grant'[family[i].request].asked /\ grant'[family[i].request].used
  BY FamilyRequest, GrantsGrow DEF Exchanged, FamiliesUseTheCode
<1>2. CASE \E w \in Workers : Starts(w)
  <2>1. PICK w \in Workers : Starts(w)
    BY <1>2
  <2>2. FamiliesUseTheCode' /\ OneRoot'
    BY <1>g, <2>1, StartStep DEF Exchanged, FamiliesUseTheCode, OneRoot
  <2>3. QED BY <1>1, <2>2 DEF Exchanged
<1>3. CASE \E w \in Workers : Succeeds(w)
  <2>1. PICK w \in Workers : Succeeds(w)
    BY <1>3
  <2>2. FamiliesUseTheCode' /\ OneRoot'
    BY <1>g, <2>1, SuccessionStep DEF Exchanged, FamiliesUseTheCode, OneRoot
  <2>3. QED BY <1>1, <2>2 DEF Exchanged
<1>4. CASE Len(family') = Len(family) /\ \A i \in Families : Continues(family[i], family'[i])
  <2>1. FamiliesUseTheCode' /\ OneRoot'
    BY <1>g, <1>4 DEF Exchanged, FamiliesUseTheCode, OneRoot, Continues, Families
  <2>2. QED BY <1>1, <2>1 DEF Exchanged
<1>5. QED BY <1>2, <1>3, <1>4, FamilySteps

\* In every reachable state a family comes from an authorization that is used up, and one alone without a parent.
LEMMA ExchangedInvariant == Spec => []Exchanged
<1>1. Init => Exchanged
  BY DEF Init, Exchanged, AskedFor, FamiliesUseTheCode, OneRoot, Families, Free, NoGrant
<1>2. QED BY <1>1, ExchangedStep, TypedInvariant, PTL DEF Spec

\* A set in which any two elements are equal has one at most.
LEMMA AtMostOne ==
  ASSUME NEW S, \A x, y \in S : x = y
  PROVE  Cardinality(S) <= 1
<1>1. CASE S = {}
  BY <1>1, FS_EmptySet
<1>2. CASE S # {}
  <2>1. PICK x : S = {x}
    BY <1>2
  <2>2. QED BY <2>1, FS_Singleton
<1>3. QED BY <1>1, <1>2

\* An authorization is exchanged once, whatever approvals, denials, exchanges, rotations
\* and crashes of any number of workers overlap.
THEOREM CodeExchangedOnce == Spec => []CodeOnce
<1>1. Exchanged => CodeOnce
  <2> SUFFICES ASSUME Exchanged, NEW r \in Requests
               PROVE  Cardinality({i \in FamiliesOf(r) : family[i].parent = 0}) <= 1
    BY DEF CodeOnce
  <2>1. \A i, k \in {n \in FamiliesOf(r) : family[n].parent = 0} : i = k
    BY DEF Exchanged, OneRoot, FamiliesOf
  <2>2. QED BY <2>1, AtMostOne
<1>2. QED BY <1>1, ExchangedInvariant, PTL

-----------------------------------------------------------------------------
(* Who rotates a token *)

\* A rotation goes on with its family, or starts on one that is not revoked and ends the
\* clean record if another worker is rotating it.
LEMMA RotationSteps ==
  ASSUME Typed, [Next]_vars, NEW w \in Workers, Rotating(w)'
  PROVE  \/ /\ Rotating(w) /\ proc'[w].family = proc[w].family
            /\ Is(w, "rotate")' => Is(w, "rotate")
            /\ Is(w, "issue")' /\ Is(w, "rotate") => RevokeOld(w)
         \/ /\ Is(w, "rotate")' /\ ~family[proc'[w].family].revoked /\ family' = family
            /\ \A v \in Workers \ {w} : proc'[v] = proc[v]
            /\ clean' => \A v \in Workers : ~(Rotating(v) /\ proc[v].family = proc'[w].family)
<1>p. proc \in [Workers -> JobRecord]
  BY DEF Typed
<1> USE DEF Rotating, Is, Become
<1>1. ASSUME NEW v \in Workers, NEW c \in Clients, NEW i \in Families,
             NEW asked \in SUBSET Scopes, LoadRefresh(v, c, i, asked)
      PROVE  \/ /\ Rotating(w) /\ proc'[w] = proc[w]
             \/ /\ Is(w, "rotate")' /\ ~family[proc'[w].family].revoked /\ family' = family
                /\ \A u \in Workers \ {w} : proc'[u] = proc[u]
                /\ clean' => \A u \in Workers : ~(Rotating(u) /\ proc[u].family = proc'[w].family)
  <2>1. PICK S : proc' = [proc EXCEPT ![v] = [op |-> "rotate", family |-> i, scopes |-> S]]
    BY <1>1 DEF LoadRefresh
  <2>2. CASE v = w
    BY <1>1, <1>p, <2>1, <2>2 DEF LoadRefresh, ActiveRow
  <2>3. CASE v # w
    BY <1>p, <2>1, <2>3
  <2>4. QED BY <2>2, <2>3
<1>2. ASSUME NEW v \in Workers, RevokeOld(v)
      PROVE  /\ Rotating(w) /\ proc'[w].family = proc[w].family
             /\ Is(w, "rotate")' => Is(w, "rotate")
             /\ Is(w, "issue")' /\ Is(w, "rotate") => RevokeOld(w)
  <2>1. proc' = [proc EXCEPT ![v] = [proc[v] EXCEPT !.op = "issue"]]
    BY <1>2 DEF RevokeOld
  <2>2. /\ [proc[v] EXCEPT !.op = "issue"].op = "issue"
        /\ [proc[v] EXCEPT !.op = "issue"].family = proc[v].family
    BY <1>2, JobFields DEF RevokeOld
  <2>3. CASE v = w
    BY <1>2, <1>p, <2>1, <2>2, <2>3 DEF RevokeOld
  <2>4. CASE v # w
    BY <1>p, <2>1, <2>4
  <2>5. QED BY <2>3, <2>4
<1>3. ASSUME NEW v \in Workers, NEW job, proc' = [proc EXCEPT ![v] = job],
             job.op \notin {"rotate", "issue"}
      PROVE  Rotating(w) /\ proc'[w] = proc[w]
  BY <1>3, <1>p
<1>4. ASSUME NEW v \in Workers, NEW r \in Requests, NEW u \in Users,
             NEW op \in {"approve", "deny"}, ReadPending(v, r, u, op)
      PROVE  Rotating(w) /\ proc'[w] = proc[w]
  BY <1>3, <1>4 DEF ReadPending
<1>5. ASSUME NEW v \in Workers, NEW c \in Clients, NEW r \in Requests, NEW u \in Users,
             LoadCode(v, c, r, u)
      PROVE  Rotating(w) /\ proc'[w] = proc[w]
  BY <1>3, <1>5 DEF LoadCode
<1>6. ASSUME NEW v \in Workers, NEW write \in BOOLEAN,
             \/ Approve(v) \/ Deny(v) \/ ExchangeCode(v) \/ IssueNew(v) \/ EndTool(v)
             \/ Kill(v) \/ StartTool(v, write) \/ Verify(v)
      PROVE  Rotating(w) /\ proc'[w] = proc[w]
  BY <1>3, <1>6
     DEF Approve, Deny, ExchangeCode, IssueNew, EndTool, Kill, StartTool, Verify, Free
<1>7. CASE proc' = proc
  BY <1>7
<1>8. QED
  BY <1>1, <1>2, <1>4, <1>5, <1>6, <1>7
     DEF Next, vars, Authorize, ExpireGrant, Revoke, ExpireToken, Deactivate

-----------------------------------------------------------------------------
(* What is revoked stays revoked *)

\* When nothing of an exchanged authorization is in force and no worker rotates it, it
\* stays so: no old token, code or late rotation gives it another family.
THEOREM RevokedForGood == Spec => RevocationFinal
<1>1. Typed /\ Exchanged /\ [Next]_vars => [\A r \in Requests : Dead(r) => Dead(r)']_vars
  <2> SUFFICES ASSUME Typed, Exchanged, [Next]_vars, NEW r \in Requests, Dead(r)
               PROVE  Dead(r)'
    OBVIOUS
  <2>d. /\ \E i \in Families : family[i].request = r
        /\ \A i \in Families : family[i].request = r => family[i].revoked
        /\ \A w \in Workers : Rotating(w) => family[proc[w].family].request # r
    BY DEF Dead, FamiliesOf, LiveOf
  <2>1. \E i \in Families' : family'[i].request = r
    BY <2>d, FamiliesGrow DEF Continues
  <2>2. \A i \in Families' : family'[i].request = r => family'[i].revoked
    <3>1. CASE \E w \in Workers : Starts(w)
      BY <2>d, <3>1, StartStep
    <3>2. CASE \E w \in Workers : Succeeds(w)
      BY <2>d, <3>2, SuccessionStep DEF Rotating
    <3>3. CASE Len(family') = Len(family) /\ \A i \in Families : Continues(family[i], family'[i])
      BY <2>d, <3>3 DEF Continues, Families
    <3>4. QED BY <3>1, <3>2, <3>3, FamilySteps
  <2>3. \A w \in Workers : Rotating(w)' => family'[proc'[w].family].request # r
    <3> SUFFICES ASSUME NEW w \in Workers, Rotating(w)'
                 PROVE  family'[proc'[w].family].request # r
      OBVIOUS
    <3>1. proc'[w].family \in Families
      BY JobTypes
    <3>2. family[proc'[w].family].request # r
      <4>1. CASE Rotating(w) /\ proc'[w].family = proc[w].family
        BY <2>d, <4>1
      <4>2. CASE ~family[proc'[w].family].revoked
        BY <2>d, <3>1, <4>2
      <4>3. QED BY <4>1, <4>2, RotationSteps
    <3>3. QED BY <3>1, <3>2, FamiliesGrow DEF Continues
  <2>4. QED BY <2>1, <2>2, <2>3 DEF Dead, FamiliesOf, LiveOf
<1>2. QED BY <1>1, TypedInvariant, ExchangedInvariant, PTL DEF Spec, RevocationFinal

-----------------------------------------------------------------------------
(* One family in force *)

\* The authorization a worker is rotating a token of.
Turning(w) == family[proc[w].family].request

\* An authorization has one family in force at most ...
OneInForce ==
  \A i, k \in Families :
    family[i].request = family[k].request /\ ~family[i].revoked /\ ~family[k].revoked => i = k

\* ... and one worker rotating at most, ...
OneRotation ==
  \A w, v \in Workers : Rotating(w) /\ Rotating(v) /\ Turning(w) = Turning(v) => w = v

\* ... which before it revokes holds the family in force ...
InForceUntilRevoked == \A w \in Workers : Is(w, "rotate") => ~family[proc[w].family].revoked

\* ... and after it has left none.
NoneBeforeIssue ==
  \A w \in Workers : Is(w, "issue") =>
    \A i \in Families : family[i].request = Turning(w) => family[i].revoked

\* So it is while no rotation is overtaken.
OneLine == clean => OneInForce /\ OneRotation /\ InForceUntilRevoked /\ NoneBeforeIssue

\* A family is revoked by a revocation, or by the worker that rotates it.
LEMMA RevocationSteps ==
  ASSUME Typed, [Next]_vars, NEW i \in Families, ~family[i].revoked, family'[i].revoked
  PROVE  Revoke(i) \/ \E w \in Workers : RevokeOld(w) /\ proc[w].family = i
<1> USE Rows DEF Families
<1>1. ASSUME NEW k \in Families, Revoke(k) PROVE k = i
  BY <1>1 DEF Revoke
<1>2. ASSUME NEW w \in Workers, RevokeOld(w) PROVE proc[w].family = i
  BY <1>2 DEF RevokeOld
<1>3. ASSUME NEW k \in Families, ExpireToken(k) PROVE FALSE
  BY <1>3 DEF ExpireToken, FamilyRecord
<1>4. ASSUME NEW w \in Workers, ExchangeCode(w) \/ IssueNew(w) PROVE FALSE
  BY <1>4 DEF ExchangeCode, IssueNew, Issued
<1>5. family' # family
  OBVIOUS
<1>6. QED
  BY <1>1, <1>2, <1>3, <1>4, <1>5
     DEF Next, vars, Authorize, ReadPending, Approve, Deny, LoadCode, LoadRefresh, Verify,
         EndTool, Kill, StartTool, ExpireGrant, Deactivate

\* A rotation revokes the token it replaces.
LEMMA RevokeOldStep ==
  ASSUME Typed, NEW w \in Workers, RevokeOld(w)
  PROVE  /\ family'[proc[w].family].revoked
         /\ Is(w, "rotate") /\ ~Is(w, "rotate")'
<1>1. proc[w].family \in Families /\ Is(w, "rotate")
  BY JobFields DEF RevokeOld, Rotating
<1>2. family'[proc[w].family].revoked
  BY <1>1, Rows DEF RevokeOld, RevokedFamily, Families, FamilyRecord
<1>3. [proc[w] EXCEPT !.op = "issue"].op = "issue"
  BY JobFields DEF RevokeOld, Rotating
<1>4. proc'[w].op = "issue"
  BY <1>3 DEF RevokeOld, Become, Typed
<1>5. QED BY <1>1, <1>2, <1>4 DEF Is

\* The record of overtaken rotations is never cleaned, and a revocation of a token that
\* is being rotated is on it.
LEMMA CleanSteps ==
  ASSUME [Next]_vars, clean'
  PROVE  /\ clean
         /\ \A i \in Families : Revoke(i) =>
              \A w \in Workers : Rotating(w) => proc[w].family # i
<1>1. clean
  BY DEF Next, vars, Authorize, ReadPending, Approve, Deny, LoadCode, ExchangeCode,
         LoadRefresh, RevokeOld, IssueNew, Verify, EndTool, Kill, StartTool, Revoke,
         ExpireToken, ExpireGrant, Deactivate
<1>2. QED BY <1>1 DEF Revoke

\* Every step keeps one family in force for each authorization, as long as no rotation was overtaken.
LEMMA OneLineStep ==
  ASSUME Typed, Exchanged, OneLine, [Next]_vars
  PROVE  OneLine'
<1> SUFFICES ASSUME clean'
             PROVE  OneInForce' /\ OneRotation' /\ InForceUntilRevoked' /\ NoneBeforeIssue'
  BY DEF OneLine
<1>c. clean
  BY CleanSteps
<1>l. \A i, k \in Families :
        family[i].request = family[k].request /\ ~family[i].revoked /\ ~family[k].revoked => i = k
  BY <1>c DEF OneLine, OneInForce
<1>r. \A w, v \in Workers : Rotating(w) /\ Rotating(v) /\ Turning(w) = Turning(v) => w = v
  BY <1>c DEF OneLine, OneRotation
<1>b. \A w \in Workers : Is(w, "rotate") => ~family[proc[w].family].revoked
  BY <1>c DEF OneLine, InForceUntilRevoked
<1>a. \A w \in Workers : Is(w, "issue") =>
        \A i \in Families : family[i].request = Turning(w) => family[i].revoked
  BY <1>c DEF OneLine, NoneBeforeIssue
<1>f. \A w \in Workers : Rotating(w) => proc[w].family \in Families
  BY DEF Typed
<1>g. \A i \in Families : Continues(family[i], family'[i])
  BY FamiliesGrow
<1>t. ASSUME NEW w \in Workers, Rotating(w), proc'[w].family = proc[w].family
      PROVE  Turning(w)' = Turning(w)
  BY <1>f, <1>g, <1>t DEF Turning, Continues
<1>1. OneInForce'
  <2> USE DEF OneInForce
  <2>1. CASE \E w \in Workers : Starts(w)
    BY <1>l, <2>1, StartStep
  <2>2. CASE \E w \in Workers : Succeeds(w)
    BY <1>l, <1>a, <2>2, SuccessionStep DEF Turning
  <2>3. CASE Len(family') = Len(family) /\ \A i \in Families : Continues(family[i], family'[i])
    BY <1>l, <2>3 DEF Continues, Families
  <2>4. QED BY <2>1, <2>2, <2>3, FamilySteps
<1>2. ASSUME NEW w \in Workers, NEW v \in Workers, w # v, Rotating(w)', Rotating(v)',
             Turning(w)' = Turning(v)'
      PROVE  FALSE
  <2>1. ASSUME NEW x \in Workers, NEW y \in Workers, x # y, Turning(x)' = Turning(y)',
               ~family[proc'[x].family].revoked, family' = family, proc'[x].family \in Families,
               proc'[y] = proc[y], Rotating(y), proc[y].family # proc'[x].family
        PROVE  FALSE
    <3>1. family[proc'[x].family].request = Turning(y)
      BY <2>1 DEF Turning
    <3>2. CASE Is(y, "rotate")
      BY <1>l, <1>b, <1>f, <2>1, <3>1, <3>2 DEF Turning
    <3>3. CASE Is(y, "issue")
      BY <1>a, <2>1, <3>1, <3>3
    <3>4. QED BY <2>1, <3>2, <3>3 DEF Rotating
  <2>2. ASSUME NEW x \in Workers, NEW y \in Workers, x # y, Turning(x)' = Turning(y)',
               Rotating(y)', ~family[proc'[x].family].revoked, family' = family,
               proc'[x].family \in Families, \A u \in Workers \ {x} : proc'[u] = proc[u],
               \A u \in Workers : ~(Rotating(u) /\ proc[u].family = proc'[x].family)
        PROVE  FALSE
    <3>1. proc'[y] = proc[y] /\ Rotating(y)
      BY <2>2 DEF Rotating, Is
    <3>2. QED BY <2>1, <2>2, <3>1
  <2>3. proc'[w].family \in Families /\ proc'[v].family \in Families
    BY <1>2, JobTypes
  <2>4. CASE /\ Rotating(w) /\ proc'[w].family = proc[w].family
             /\ Rotating(v) /\ proc'[v].family = proc[v].family
    BY <1>2, <1>r, <1>t, <2>4
  <2>5. QED BY <1>2, <2>2, <2>3, <2>4, RotationSteps
<1>3. ASSUME NEW w \in Workers, Is(w, "rotate")', family'[proc'[w].family].revoked
      PROVE  FALSE
  <2>1. /\ Rotating(w)' /\ proc'[w].family \in Families
    BY <1>3, JobTypes DEF Rotating
  <2>2. CASE Is(w, "rotate") /\ proc'[w].family = proc[w].family
    <3>1. ~family[proc[w].family].revoked
      BY <1>b, <2>2
    <3>2. \/ Revoke(proc[w].family)
          \/ \E v \in Workers : RevokeOld(v) /\ proc[v].family = proc[w].family
      BY <1>3, <2>1, <2>2, <3>1, RevocationSteps
    <3>3. ~Revoke(proc[w].family)
      BY <2>1, <2>2, CleanSteps DEF Rotating
    <3>4. ASSUME NEW v \in Workers, RevokeOld(v), proc[v].family = proc[w].family PROVE FALSE
      <4>1. v = w
        BY <1>r, <2>2, <3>4, RevokeOldStep DEF Rotating, Turning
      <4>2. QED BY <1>3, <3>4, <4>1, RevokeOldStep
    <3>5. QED BY <3>2, <3>3, <3>4
  <2>3. QED BY <1>3, <2>1, <2>2, RotationSteps DEF Is
<1>4. ASSUME NEW w \in Workers, Is(w, "issue")', NEW i \in Families',
             family'[i].request = Turning(w)'
      PROVE  family'[i].revoked
  <2>1. Rotating(w)' /\ ~Is(w, "rotate")'
    BY <1>4 DEF Rotating, Is
  <2>2. /\ Rotating(w) /\ proc'[w].family = proc[w].family
        /\ Is(w, "rotate") => RevokeOld(w)
    BY <1>4, <2>1, RotationSteps
  <2>3. Turning(w)' = Turning(w) /\ proc[w].family \in Families
    BY <1>f, <1>t, <2>2
  <2>4. CASE Is(w, "rotate")
    <3>1. family' = [family EXCEPT ![proc[w].family] = RevokedFamily(@)] /\ Families' = Families
      BY <2>2, <2>3, <2>4, Rows DEF RevokeOld, Families
    <3>2. family[i].request = Turning(w)
      BY <1>4, <1>g, <2>3, <3>1 DEF Continues
    <3>3. i = proc[w].family \/ family[i].revoked
      BY <1>l, <1>b, <2>3, <2>4, <3>1, <3>2 DEF Turning
    <3>4. QED BY <1>g, <2>2, <2>4, <3>1, <3>3, RevokeOldStep DEF Continues
  <2>5. CASE Is(w, "issue")
    <3>1. CASE i \in Families
      <4>1. family[i].request = Turning(w)
        BY <1>4, <1>g, <2>3, <3>1 DEF Continues
      <4>2. QED BY <1>a, <1>g, <2>5, <3>1, <4>1 DEF Continues
    <3>2. CASE i \notin Families
      <4>1. CASE \E v \in Workers : Starts(v)
        BY <1>4, <2>3, <3>2, <4>1, StartStep DEF Turning
      <4>2. ASSUME NEW v \in Workers, Succeeds(v) PROVE FALSE
        <5>1. Turning(v) = Turning(w) /\ Rotating(v)
          BY <1>4, <2>3, <3>2, <4>2, SuccessionStep DEF Turning, Rotating
        <5>2. v = w
          BY <1>r, <2>2, <5>1
        <5>3. proc'[w].op = "none"
          BY <4>2, <5>2 DEF Succeeds, IssueNew, Become, Free, Typed
        <5>4. QED BY <1>4, <5>3 DEF Is
      <4>3. CASE Len(family') = Len(family)
        BY <3>2, <4>3 DEF Families
      <4>4. QED BY <4>1, <4>2, <4>3, FamilySteps
    <3>3. QED BY <3>1, <3>2
  <2>6. QED BY <2>2, <2>4, <2>5 DEF Rotating
<1>5. OneRotation'
  BY <1>2 DEF OneRotation
<1>6. InForceUntilRevoked'
  BY <1>3 DEF InForceUntilRevoked
<1>7. NoneBeforeIssue'
  BY <1>4 DEF NoneBeforeIssue
<1>8. QED BY <1>1, <1>5, <1>6, <1>7

\* As long as no rotation is overtaken by another of the same token or by its revocation,
\* one family at most is in force for an authorization.
THEOREM OneFamilyInForce == Spec => []OneLiveLine
<1>1. Init => OneLine
  BY DEF Init, OneLine, OneInForce, OneRotation, InForceUntilRevoked, NoneBeforeIssue,
         Families, Rotating, Is, Free
<1>2. OneLine => OneLiveLine
  <2> SUFFICES ASSUME OneLine, clean, NEW r \in Requests PROVE Cardinality(LiveOf(r)) <= 1
    BY DEF OneLiveLine
  <2>1. \A i, k \in LiveOf(r) : i = k
    BY DEF OneLine, OneInForce, LiveOf, FamiliesOf
  <2>2. QED BY <2>1, AtMostOne
<1>3. QED
  BY <1>1, <1>2, OneLineStep, TypedInvariant, ExchangedInvariant, PTL DEF Spec

=============================================================================
