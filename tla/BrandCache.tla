----------------------------- MODULE BrandCache -----------------------------
(***************************************************************************)
(* The web sites of a brand, kept in Tillin and cached by every Xano       *)
(* client: the enrichment searches a product on the sites its client's map *)
(* gives for the brand.  A save writes Tillin and empties the maps of its  *)
(* own process; so does a drain when it starts.  The clock is what a map   *)
(* can tell: younger than BRAND_CACHE_RETRY_SECONDS, than                  *)
(* BRAND_CACHE_TTL_SECONDS, or past its expiry.                            *)
(***************************************************************************)
EXTENDS Naturals

CONSTANTS
  Clients,     \* Xano clients, one per token and process
  ProcessOf,   \* the process of each client
  Tasks,       \* requests and drains that use them
  MaxSaves,    \* bound: saves of the sites
  MaxFaults  \* bound: calls to Tillin that raise

VARIABLES
  site,        \* version of the sites in Tillin, 0 before the brand exists
  saved,       \* highest version a save has acknowledged
  map,         \* _brands of each client: the version it holds, and its age
  task,        \* what each task is doing
  faults

sitesVars == <<site, saved, map, task, faults>>

Processes == {ProcessOf[c] : c \in Clients}
ClientsIn(p) == {c \in Clients : ProcessOf[c] = p}

\* `known' is 0 in a map without the brand; an emptied map is expired.
NoMap == [known |-> 0, age |-> "expired", failed |-> FALSE]
NoTask == [pc |-> "idle", process |-> "none", client |-> "none", due |-> 0, got |-> 0, excused |-> FALSE]

SitesInit ==
  /\ site = 0 /\ saved = 0
  /\ map = [c \in Clients |-> NoMap]
  /\ task = [t \in Tasks |-> NoTask]
  /\ faults = 0

\* Fault: only the client that wrote forgets its map.
EmptiedOne(p) ==
  [c \in Clients |-> IF c = CHOOSE d \in ClientsIn(p) : TRUE THEN NoMap ELSE map[c]]

\* invalidate_brand_caches: the maps of one process.
Emptied(p) == [c \in Clients |-> IF ProcessOf[c] = p THEN NoMap ELSE map[c]]

--------------------------- (* saving the sites *) --------------------------
\* The POST: Tillin has the new sites.
Post(t, p) ==
  /\ task[t].pc = "idle" /\ site < MaxSaves
  /\ site' = site + 1
  /\ task' = [task EXCEPT ![t] = [NoTask EXCEPT !.pc = "posted", !.process = p, !.got = site + 1]]
  /\ UNCHANGED <<saved, map, faults>>

\* The answer came: the maps of the process are emptied, then the caller told.
Acknowledge(t) ==
  /\ task[t].pc = "posted"
  /\ map' = Emptied(task[t].process)
  /\ saved' = IF task[t].got > saved THEN task[t].got ELSE saved
  /\ task' = [task EXCEPT ![t] = NoTask]
  /\ UNCHANGED <<site, faults>>

\* The answer was lost (XanoError): nothing is emptied.
PostLost(t) ==
  /\ task[t].pc = "posted" /\ faults < MaxFaults
  /\ faults' = faults + 1
  /\ task' = [task EXCEPT ![t] = NoTask]
  /\ UNCHANGED <<site, saved, map>>

---------------------------- (* reading a map *) ----------------------------
\* process_pending empties the maps before its first item.  It is owed what was
\* acknowledged by then, unless a load under way is about to put an older map back.
StartDrain(t, p) ==
  /\ task[t].pc = "idle"
  /\ map' = Emptied(p)
  /\ task' = [task EXCEPT ![t] =
                [NoTask EXCEPT !.pc = "drain", !.process = p, !.due = saved,
                   !.excused = \E o \in Tasks : /\ task[o].pc = "loading" /\ task[o].process = p
                                                /\ task[o].got < saved]]
  /\ UNCHANGED <<site, saved, faults>>

\* Any other reader: a product page, or the worker that polls for ever and empties
\* nothing.  It is owed nothing but the expiry.
StartReader(t, p) ==
  /\ task[t].pc = "idle"
  /\ task' = [task EXCEPT ![t] = [NoTask EXCEPT !.pc = "drain", !.process = p]]
  /\ UNCHANGED <<site, saved, map, faults>>

\* _brand_map keeps the map: not expired, and holding the brand a product needs
\* unless it is too young to be loaded again.
Current(c, need) ==
  /\ map[c].age # "expired"
  /\ (need /\ map[c].known = 0) => map[c].age = "new"

Read(t, c, need) ==
  /\ task[t].pc = "drain" /\ ProcessOf[c] = task[t].process
  /\ task' = [task EXCEPT ![t] =
                IF Current(c, need)
                THEN [@ EXCEPT !.pc = "read", !.got = map[c].known]
                ELSE [@ EXCEPT !.pc = "loading", !.client = c, !.got = site]]
  /\ UNCHANGED <<site, saved, map, faults>>

\* GET /brand has answered with the sites of a moment ago.
Loaded(t) ==
  /\ task[t].pc = "loading"
  /\ map' = [map EXCEPT ![task[t].client] =
               [known |-> task[t].got, age |-> "new", failed |-> FALSE]]
  /\ task' = [task EXCEPT ![t].pc = "read", ![t].client = "none"]
  /\ UNCHANGED <<site, saved, faults>>

\* It has not: the map that was there serves, for BRAND_CACHE_RETRY_SECONDS.
LoadFails(t) ==
  LET c == task[t].client IN
  /\ task[t].pc = "loading" /\ faults < MaxFaults
  /\ faults' = faults + 1
  /\ map' = [map EXCEPT ![c] = [known |-> @.known, age |-> "new", failed |-> TRUE]]
  /\ task' = [o \in Tasks |->
       LET r == [task[o] EXCEPT !.excused = @ \/ (task[o].due > 0 /\ task[o].process = ProcessOf[c])]
       IN  IF o = t THEN [r EXCEPT !.pc = "read", !.client = "none", !.got = map[c].known] ELSE r]
  /\ UNCHANGED <<site, saved>>

\* The next item of the drain, or its end.
NextRead(t) ==
  /\ task[t].pc = "read"
  /\ task' \in {[task EXCEPT ![t].pc = "drain", ![t].got = 0], [task EXCEPT ![t] = NoTask]}
  /\ UNCHANGED <<site, saved, map, faults>>

\* Time passes for a map.
Age(c) ==
  /\ map[c].age # "expired"
  /\ map' = [map EXCEPT ![c].age = IF @ = "new" /\ ~map[c].failed THEN "old" ELSE "expired"]
  /\ UNCHANGED <<site, saved, task, faults>>

SitesNext ==
  \/ \E t \in Tasks, p \in Processes : Post(t, p) \/ StartDrain(t, p) \/ StartReader(t, p)
  \/ \E t \in Tasks : Acknowledge(t) \/ PostLost(t) \/ Loaded(t) \/ LoadFails(t) \/ NextRead(t)
  \/ \E t \in Tasks, c \in Clients, need \in BOOLEAN : Read(t, c, need)
  \/ \E c \in Clients : Age(c)

SitesSpec == SitesInit /\ [][SitesNext]_sitesVars

-----------------------------------------------------------------------------
\* A drain that starts after a save was acknowledged searches on the sites saved,
\* whichever process took the save and whichever client serves the item; except
\* behind a load that was under way in its process when it started, or that failed
\* there since.
SitesSeen == \A t \in Tasks : task[t].pc = "read" /\ ~task[t].excused => task[t].got >= task[t].due
=============================================================================
