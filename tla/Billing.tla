------------------------------ MODULE Billing ------------------------------
(***************************************************************************)
(* The prices a month of usage is billed at (api/routes/usage.py,          *)
(* api/services/usage_pricing.py) and the operator's policy every account  *)
(* carries a copy of (api/routes/admin.py, api/routes/settings.py,         *)
(* api/services/accounts.py).                                              *)
(*                                                                         *)
(* Each request reads, then writes in a later step: nothing in the code    *)
(* locks a row or holds a unique key over the price grid or the snapshots, *)
(* so two requests may both act on what they read before the other wrote.  *)
(* One month is billed; `day' counts from its end, and the policy is       *)
(* reduced to the billing day, which decides when the month freezes.       *)
(***************************************************************************)
EXTENDS Integers, Sequences, FiniteSets

CONSTANTS Accounts,     \* the accounts of the platform
          Oldest,       \* the account every other one is seeded from
          Common,       \* the scope of the platform-wide rows (account_id NULL)
          Servers,      \* requests served at the same time
          ThisModel, AnyModel, \* the model of an event; a row without a model
          Units,        \* unit prices; 0 stands for "no price"
          BillingDays,  \* values of the operator's policy
          Coefficients, \* values of an account's billing coefficient
          MaxDay,       \* bound: days after the end of the month
          MaxRequests,  \* bound: requests that write
          MaxId         \* bound: price rows ever created

ASSUME BillingAssumption ==
  /\ Oldest \in Accounts /\ Common \notin Accounts
  /\ Units \subseteq Nat \ {0} /\ BillingDays \subseteq 1..MaxDay
  /\ 1 \in BillingDays /\ 1 \in Coefficients /\ ThisModel # AnyModel

VARIABLES day,       \* days since the month ended
          account,   \* account row -> its settings, or Missing
          price,     \* the rows of usage_price
          snapshot,  \* the rows of usage_billing_snapshot, in id order
          request,   \* worker -> what it has read and is about to write
          form,      \* the operator's form of an account, as it was loaded
          count,     \* requests so far
          lastId,    \* highest price id
          edition,   \* history: how often the policy was written
          behind     \* history: accounts that may hold an older policy

policyVars == <<form, edition, behind>>
billingVars == <<day, account, price, snapshot, request, count, lastId, policyVars>>

Missing == [missing |-> TRUE]
Idle == [op |-> "idle"]
Blank == [op |-> "blank"]   \* no form
Models == {ThisModel, AnyModel}
Scopes == Accounts \cup {Common}
Exists(a) == account[a] # Missing

-----------------------------------------------------------------------------
(* Price resolution: usage_pricing.py *)

\* Should two rows share a key, the one with the highest id wins.
TableOf(rows, s) ==
  [m \in Models |->
     LET mine == {r \in rows : r.scope = s /\ r.model = m}
     IN  IF mine = {} THEN 0
         ELSE (CHOOSE r \in mine : \A q \in mine : q.id <= r.id).unit]

Grid(rows, a) == [own |-> TableOf(rows, a), common |-> TableOf(rows, Common)]

Pick(table, m) == IF table[m] # 0 THEN table[m] ELSE table[AnyModel]

Resolve(grid, m) ==
  IF Pick(grid.own, m) # 0 THEN Pick(grid.own, m) ELSE Pick(grid.common, m)

\* Fault: a snapshot row forgets the scope it came from.
SerializeUnscoped(grid) ==
  {[scope |-> "own", model |-> m, unit |-> Pick(grid.common, m)] : m \in Models} \cap
  [scope : {"own"}, model : Models, unit : Units]

\* The rows of a grid as a snapshot keeps them, each with its scope.
Serialize(grid) ==
  {[scope |-> s, model |-> m, unit |-> grid[s][m]] :
      s \in {"own", "common"}, m \in Models} \cap
  [scope : {"own", "common"}, model : Models, unit : Units]

Replay(rows) ==
  [s \in {"own", "common"} |->
     [m \in Models |->
        LET mine == {r \in rows : r.scope = s /\ r.model = m}
        IN  IF mine = {} THEN 0 ELSE (CHOOSE r \in mine : TRUE).unit]]

-----------------------------------------------------------------------------
(* What a month costs *)

BilledOn(a) == account[a].policy

Frozen(a) == Exists(a) /\ day >= BilledOn(a)

SnapshotsOf(a) == {i \in DOMAIN snapshot : snapshot[i].account = a}

Bill(grid, coefficient) ==
  [coefficient |-> coefficient, unit |-> [m \in Models |-> Resolve(grid, m)]]

\* Fault: a billed month is priced at today's grid.
PricingLive(a) == {Bill(Grid(price, a), account[a].coefficient)}

\* What a consultation of the month may serve. The query that reads the
\* snapshot has no order: with two rows, either may come first.
Pricing(a) ==
  IF Frozen(a) /\ SnapshotsOf(a) # {}
  THEN {Bill(Replay(snapshot[i].prices), snapshot[i].coefficient) :
          i \in SnapshotsOf(a)}
  ELSE {Bill(Grid(price, a), account[a].coefficient)}

-----------------------------------------------------------------------------
BillingInit ==
  /\ day = 0
  /\ account = [a \in Accounts |->
       IF a = Oldest THEN [policy |-> 1, coefficient |-> 1, own |-> FALSE]
       ELSE Missing]
  /\ price = {} /\ snapshot = <<>> /\ lastId = 0
  /\ request = [w \in Servers |-> Idle]
  /\ count = 0
  /\ form = Blank /\ edition = 0 /\ behind = {}

\* A request of worker w begins: what it read is `r'.
Begin(w, r) ==
  /\ request[w] = Idle /\ count < MaxRequests
  /\ request' = [request EXCEPT ![w] = r]
  /\ count' = count + 1

\* The worker answers: its writes are committed (or refused).
End(w) ==
  /\ request' = [request EXCEPT ![w] = Idle]
  /\ UNCHANGED count

Tick == day < MaxDay /\ day' = day + 1
        /\ UNCHANGED <<account, price, snapshot, request, count, lastId, policyVars>>

-----------------------------------------------------------------------------
(* The price grid *)

\* The row another request must not create twice, `except' left out.
KeyTaken(s, m, except) ==
  \E r \in price : r.scope = s /\ r.model = m /\ r.id # except

CheckNewPrice(w, s, m, u) ==
  /\ s \in Accounts => Exists(s)
  /\ ~KeyTaken(s, m, 0)
  /\ Begin(w, [op |-> "create", scope |-> s, model |-> m, unit |-> u])
  /\ UNCHANGED <<day, account, price, snapshot, lastId, policyVars>>

InsertPrice(w) ==
  LET q == request[w] IN
  /\ q.op = "create" /\ lastId < MaxId
  /\ lastId' = lastId + 1
  /\ price' = price \cup {[id |-> lastId', scope |-> q.scope,
                           model |-> q.model, unit |-> q.unit]}
  /\ End(w)
  /\ UNCHANGED <<day, account, snapshot, policyVars>>

\* The edit of a row found in its scope, its key checked against the others.
CheckEdit(w, r, m, u) ==
  /\ r \in price
  /\ ~KeyTaken(r.scope, m, r.id)
  /\ Begin(w, [op |-> "edit", row |-> r, model |-> m, unit |-> u])
  /\ UNCHANGED <<day, account, price, snapshot, lastId, policyVars>>

\* A row deleted meanwhile refuses the edit; another one's edit is overwritten
\* column by column (only the columns the request changes are sent).
WriteEdit(w) ==
  LET q == request[w] IN
  /\ q.op = "edit"
  /\ price' = {IF r.id = q.row.id
               THEN [r EXCEPT !.model = IF q.model = q.row.model THEN @ ELSE q.model,
                              !.unit  = IF q.unit = q.row.unit THEN @ ELSE q.unit]
               ELSE r : r \in price}
  /\ End(w)
  /\ UNCHANGED <<day, account, snapshot, lastId, policyVars>>

DeletePrice(r) ==
  /\ r \in price /\ count < MaxRequests
  /\ price' = price \ {r}
  /\ count' = count + 1
  /\ UNCHANGED <<day, account, snapshot, request, lastId, policyVars>>

-----------------------------------------------------------------------------
(* The snapshot of a billed month *)

\* The first consultation of a billed month: no snapshot yet, so the grid and
\* the coefficient of the moment are read to make one.
Consult(w, a) ==
  /\ Frozen(a) /\ SnapshotsOf(a) = {}
  /\ Begin(w, [op |-> "freeze", account |-> a, row |-> 0,
               coefficient |-> account[a].coefficient, grid |-> Grid(price, a)])
  /\ UNCHANGED <<day, account, price, snapshot, lastId, policyVars>>

\* The operator asks for the month to be frozen again at today's prices.
Refreeze(w, a) ==
  /\ Frozen(a)
  /\ \E i \in (IF SnapshotsOf(a) = {} THEN {0} ELSE SnapshotsOf(a)) :
       Begin(w, [op |-> "refreeze", account |-> a, row |-> i,
                 coefficient |-> account[a].coefficient, grid |-> Grid(price, a)])
  /\ UNCHANGED <<day, account, price, snapshot, lastId, policyVars>>

WriteSnapshot(w) ==
  LET q == request[w]
      new == [account |-> q.account, coefficient |-> q.coefficient,
              prices |-> Serialize(q.grid)]
  IN
  /\ q.op \in {"freeze", "refreeze"}
  /\ snapshot' = IF q.row = 0 THEN Append(snapshot, new)
                 ELSE [snapshot EXCEPT ![q.row] = new]
  /\ End(w)
  /\ UNCHANGED <<day, account, price, lastId, policyVars>>

-----------------------------------------------------------------------------
(* The settings of an account, one JSON column                             *)

\* The policy a request or a form holds was read before the policy was last
\* written, or from an account that is behind.
Outdated(q) == q.edition # edition \/ q.behind

\* What is read of an account's policy now is held under these marks.
ReadNow(a) == [edition |-> edition, behind |-> a \in behind]

\* The operator's policy, written to every account the request has read.
ReadPolicy(w, p) ==
  /\ Begin(w, [op |-> "policy", policy |-> p, seen |-> account])
  /\ UNCHANGED <<day, account, price, snapshot, lastId, policyVars>>

\* A row that has the policy already is not written.
LeftAlone(q, a) == q.seen[a] = Missing \/ q.seen[a].policy = q.policy

\* Behind are then the accounts the request did not write and whose policy is
\* not the one it saw: created or written over meanwhile.
WritePolicy(w) ==
  LET q == request[w] IN
  /\ q.op = "policy"
  /\ account' = [a \in Accounts |->
       IF LeftAlone(q, a) THEN account[a] ELSE [q.seen[a] EXCEPT !.policy = q.policy]]
  /\ edition' = edition + 1
  /\ behind' = {a \in Accounts : Exists(a) /\ LeftAlone(q, a) /\
                  (q.seen[a] = Missing \/ account[a].policy # q.policy)}
  /\ End(w)
  /\ UNCHANGED <<day, price, snapshot, lastId, form>>

\* read_account_settings_admin: the operator loads the form of one account.
LoadForm(a) ==
  /\ Exists(a) /\ count < MaxRequests
  /\ form' = [op |-> "form", account |-> a, settings |-> account[a], read |-> ReadNow(a)]
  /\ count' = count + 1
  /\ UNCHANGED <<day, account, price, snapshot, request, lastId, edition, behind>>

\* A save begins: the row it reads, and what it will write there.
Save(w, a, settings, read) ==
  /\ Begin(w, [op |-> "save", account |-> a, seen |-> account[a], write |-> settings,
               read |-> read])
  /\ UNCHANGED <<day, account, price, snapshot, lastId, policyVars>>

\* update_account_settings_admin, and update_account_settings for an operator: all
\* fields come from the form. He may have changed the coefficient there; the policy is
\* the one the form was loaded with.
OperatorSave(w, own, coefficient) ==
  /\ form # Blank
  /\ Save(w, form.account, [form.settings EXCEPT !.own = own, !.coefficient = coefficient],
          form.read)

\* update_account_settings for a client: the operator's fields are those of the row.
ClientSave(w, a, own) ==
  /\ Exists(a)
  /\ Save(w, a, [account[a] EXCEPT !.own = own], ReadNow(a))

\* The account whose settings a request has written is behind if what it wrote is.
Mark(a, q) == IF Outdated(q.read) THEN behind \cup {a} ELSE behind \ {a}

\* A row the request does not change is not written.
WriteSettings(w) ==
  LET q == request[w] IN
  /\ q.op = "save"
  /\ IF q.write = q.seen THEN UNCHANGED <<account, behind>>
     ELSE /\ account' = [account EXCEPT ![q.account] = q.write]
          /\ behind' = Mark(q.account, q)
  /\ End(w)
  /\ UNCHANGED <<day, price, snapshot, lastId, form, edition>>

\* Fault: a new account starts from the defaults of the code.
SeedDefaults(settings) == [policy |-> 1, coefficient |-> 1, own |-> FALSE]

\* What a new account takes from the oldest one.
Seed(settings) ==
  [policy |-> settings.policy, coefficient |-> settings.coefficient, own |-> FALSE]

\* The first login of a company: no account holds its id yet.
FirstLogin(w, a) ==
  /\ ~Exists(a)
  /\ Begin(w, [op |-> "login", account |-> a, write |-> Seed(account[Oldest]),
               read |-> ReadNow(Oldest)])
  /\ UNCHANGED <<day, account, price, snapshot, lastId, policyVars>>

\* The company id is unique: the second of two first logins is refused.
CreateAccount(w) ==
  LET q == request[w] IN
  /\ q.op = "login"
  /\ IF Exists(q.account) THEN UNCHANGED <<account, behind>>
     ELSE /\ account' = [account EXCEPT ![q.account] = q.write]
          /\ behind' = Mark(q.account, q)
  /\ End(w)
  /\ UNCHANGED <<day, price, snapshot, lastId, form, edition>>

-----------------------------------------------------------------------------
BillingNext ==
  \/ Tick
  \/ \E r \in price : DeletePrice(r)
  \/ \E a \in Accounts : LoadForm(a)
  \/ \E w \in Servers :
       \/ \E m \in Models, u \in Units :
            \/ \E s \in Scopes : CheckNewPrice(w, s, m, u)
            \/ \E r \in price : CheckEdit(w, r, m, u)
       \/ \E a \in Accounts :
            \/ Consult(w, a) \/ Refreeze(w, a) \/ FirstLogin(w, a)
            \/ \E own \in BOOLEAN : ClientSave(w, a, own)
       \/ \E own \in BOOLEAN, c \in Coefficients : OperatorSave(w, own, c)
       \/ \E p \in BillingDays : ReadPolicy(w, p)
       \/ InsertPrice(w) \/ WriteEdit(w) \/ WriteSnapshot(w)
       \/ WritePolicy(w) \/ WriteSettings(w) \/ CreateAccount(w)

BillingSpec == BillingInit /\ [][BillingNext]_billingVars

-----------------------------------------------------------------------------
(* Properties *)

\* All accounts carry one policy, the last one the operator wrote to them, whatever
\* the clients save and whoever logs in first; only an account whose settings come
\* from before it is behind: it was created while the policy was written, or saved
\* by a request or a form that had read it earlier. The next writing of the policy
\* brings it back (OPERATOR_SEEDED_KEYS, ADMIN_ONLY_SETTINGS, update_operator_settings).
PolicyUniform ==
  \A a, b \in Accounts \ behind :
    Exists(a) /\ Exists(b) => account[a].policy = account[b].policy

RefrozenNow(a) ==
  \E w \in Servers :
    /\ request[w].op = "refreeze" /\ request[w].account = a
    /\ request'[w] = Idle

\* While a month stays billed, what a consultation of it serves moves only when
\* the operator freezes it again, whatever becomes of the grid and of the
\* coefficient; this holds of a month two consultations did not snapshot twice
\* (_resolve_pricing).
FrozenBillStable ==
  [][\A a \in Accounts :
       /\ Frozen(a) /\ Frozen(a)'
       /\ Cardinality(SnapshotsOf(a)) = 1 /\ Cardinality(SnapshotsOf(a)') = 1
       /\ ~RefrozenNow(a)
       => Pricing(a)' = Pricing(a)]_billingVars

\* The snapshot of a month bills every model as the grid it was taken from
\* did: the two scopes and their order of precedence come back with it
\* (serialize_grid, grid_from_snapshot).
FreezeExact ==
  [][\A w \in Servers :
       /\ request[w].op \in {"freeze", "refreeze"} /\ request'[w] = Idle
       => \E i \in DOMAIN snapshot' : \A m \in Models :
            Resolve(Replay(snapshot'[i].prices), m) = Resolve(request[w].grid, m)]_billingVars
=============================================================================
