------------------------------- MODULE Pricing -------------------------------
(***************************************************************************)
(* What the models of a run cost: domain/pricing.py, domain/cost.py and    *)
(* the parts of worker/run_one.py and domain/analytics.py that use them.   *)
(*                                                                         *)
(* Run processes and the prices page resolve a payload of live prices      *)
(* through a cache file they share.  A run stamps the rates of the models  *)
(* it is assigned when it starts, adds those of the others it used when it *)
(* ends, and is priced from that snapshot.                                 *)
(*                                                                         *)
(* The cache is written through one temporary name: writers may have the   *)
(* same file open.  A file is written in two halves, each holding the rows *)
(* of some models; the first one also holds the date.  A file of two        *)
(* writers is taken to parse.                                              *)
(***************************************************************************)
EXTENDS Integers, Sequences, FiniteSets, FiniteSetsExt, TLC

CONSTANTS Resolvers, None,
          Models,
          Book,       \* model -> where it is priced, and what its name tells
          Plans,      \* the models a run may be assigned, with their vendors
          Usages,     \* the models it may have used, and if it told of each
          Ttl, MaxTime,
          MaxVersions \* bound on the price lists the endpoint publishes

\* Book[m].tags and .table: the vendors of its live and of its bundled rows.
\* Book[m].half: where its live rows are in the file.  Book[m].claude: its name
\* begins with claude-.  Book[m].looks: the vendor its name suggests.
PricingAssumption ==
  /\ \A m \in Models : Book[m].half \in {1, 2}
  /\ \A p \in Plans : DOMAIN p.vendors \subseteq Models /\ p.primary \in DOMAIN p.vendors \cup {None}
  /\ \A u \in Usages : u.models \in SUBSET Models \ {{}} /\ (u.several \/ Cardinality(u.models) = 1)
  /\ {Ttl, MaxTime, MaxVersions} \subseteq Nat \ {0}

VARIABLES clock,
          since,     \* when each version of the prices was published
          files,     \* contents of the files: two halves
          path, tmp, \* the file behind the cache's name and the temporary one
          proc,      \* the processes
          cost       \* of the runs that ended

vars == <<clock, since, files, path, tmp, proc, cost>>

Inodes == 1..(Cardinality(Resolvers) + 1)
Blank == <<None, None>>
Fresh == [pc |-> "idle", now |-> 0, plan |-> None, payload |-> None, by |-> 0, down |-> FALSE,
          fd |-> None, snapshot |-> None, used |-> None]
Reading == {"check", "read", "fetch", "open", "rest", "replace", "fallback"}

TypeOK ==
  /\ clock \in 0..MaxTime /\ Len(since) \in 1..MaxVersions /\ \A i \in DOMAIN since : since[i] <= clock
  /\ DOMAIN files = Inodes /\ path \in Inodes \cup {None} /\ tmp \in Inodes \cup {None}
  /\ \A p \in Resolvers :
       /\ proc[p].pc \in Reading \cup {"idle", "resolved", "works", "done", "shown", "killed"}
       /\ proc[p].pc = "rest" => proc[p].fd \in Inodes
  /\ \A p \in DOMAIN cost : proc[p].pc = "done"

Init ==
  /\ clock = 0 /\ since = <<0>>
  /\ files = [i \in Inodes |-> Blank] /\ path = None /\ tmp = None
  /\ proc = [p \in Resolvers |-> Fresh]
  /\ cost = << >>

-----------------------------------------------------------------------------
(* The rates of a model.                                                   *)

NoRate == [tier |-> "none", version |-> None]
Bundled == [tier |-> "bundled", version |-> None]
Free == [tier |-> "free", version |-> None]
Live(m, payload) == [tier |-> "live", version |-> payload[Book[m].half]]

FirstOf(live, bundled, m, payload) ==
  IF payload # None /\ live THEN Live(m, payload) ELSE IF bundled THEN Bundled ELSE NoRate

ResolveVendorPrice(vendor, m, payload) ==
  CASE vendor = "ollama" -> Free
    [] vendor = "zai" -> IF "zai" \in Book[m].table THEN Bundled
                         ELSE FirstOf(Book[m].tags # {}, FALSE, m, payload)
    [] vendor \in {"anthropic", "openai"} ->
         FirstOf(vendor \in Book[m].tags, vendor \in Book[m].table, m, payload)
    [] vendor = "openrouter" -> FirstOf(vendor \in Book[m].tags, FALSE, m, payload)
    [] OTHER -> FirstOf(Book[m].tags # {}, Book[m].table # {}, m, payload)

BuildPricingSnapshot(vendors, payload) ==
  [m \in DOMAIN vendors |-> [vendor |-> vendors[m], rate |-> ResolveVendorPrice(vendors[m], m, payload)]]

HasRates(snapshot, m) == m \in DOMAIN snapshot /\ snapshot[m].rate # NoRate

-----------------------------------------------------------------------------
(* Resolving the payload: the cache while it is fresh, else the endpoint,   *)
(* else the cache however old, else nothing.                               *)

Content == IF path = None THEN Blank ELSE files[path]
Readable(c) == None \notin {c[1], c[2]}
CacheFresh(now) == Readable(Content) /\ now - Content[1].at < Ttl

Goes(p, pc) == proc' = [proc EXCEPT ![p].pc = pc]
Resolves(p, payload) ==
  proc' = [proc EXCEPT ![p] = [@ EXCEPT !.pc = "resolved", !.payload = payload, !.by = Len(since), !.fd = None]]
Payload(c) == <<c[1].version, c[2].version>>

Start(p) ==
  /\ proc[p].pc = "idle"
  /\ proc' = [proc EXCEPT ![p] = [@ EXCEPT !.pc = "check", !.now = clock]]
  /\ UNCHANGED <<clock, since, files, path, tmp, cost>>

CheckCache(p) ==
  /\ proc[p].pc = "check"
  /\ Goes(p, IF CacheFresh(proc[p].now) THEN "read" ELSE "fetch")
  /\ UNCHANGED <<clock, since, files, path, tmp, cost>>

\* The file is read again, and may have been replaced meanwhile.
ReadCacheAll == IF Readable(Content) THEN Payload(Content) ELSE None

ReadFresh(p) ==
  /\ proc[p].pc = "read"
  /\ IF ReadCacheAll = None THEN Goes(p, "fetch") ELSE Resolves(p, ReadCacheAll)
  /\ UNCHANGED <<clock, since, files, path, tmp, cost>>

FallBack(p) ==
  /\ proc[p].pc = "fallback" /\ Resolves(p, ReadCacheAll)
  /\ UNCHANGED <<clock, since, files, path, tmp, cost>>

Fetch(p) ==
  /\ proc[p].pc = "fetch"
  /\ proc' = [proc EXCEPT ![p] = [@ EXCEPT !.pc = "open", !.payload = <<Len(since), Len(since)>>]]
  /\ UNCHANGED <<clock, since, files, path, tmp, cost>>

FetchFails(p) ==
  /\ proc[p].pc = "fetch"
  /\ proc' = [proc EXCEPT ![p] = [@ EXCEPT !.pc = "fallback", !.down = TRUE]]
  /\ UNCHANGED <<clock, since, files, path, tmp, cost>>

-----------------------------------------------------------------------------
(* Writing the cache: the temporary file is emptied, filled and renamed.    *)

Opened(ps) == {ps[q].fd : q \in Resolvers} \ {None}

Half(p) == [version |-> proc[p].payload[1], at |-> proc[p].now]

OpenAndWrite(p) ==
  /\ proc[p].pc = "open"
  /\ LET file == IF tmp # None THEN tmp ELSE Min(Inodes \ ({path} \cup Opened(proc)))
     IN /\ tmp' = file /\ files' = [files EXCEPT ![file] = <<Half(p), None>>]
        /\ proc' = [proc EXCEPT ![p] = [@ EXCEPT !.pc = "rest", !.fd = file]]
  /\ UNCHANGED <<clock, since, path, cost>>

WriteRest(p) ==
  /\ proc[p].pc = "rest"
  /\ files' = [files EXCEPT ![proc[p].fd][2] = Half(p)]
  /\ proc' = [proc EXCEPT ![p] = [@ EXCEPT !.pc = "replace", !.fd = None]]
  /\ UNCHANGED <<clock, since, path, tmp, cost>>

\* The name is moved, whoever filled the file; if another writer has moved it,
\* the error is logged.
Replace(p) ==
  /\ proc[p].pc = "replace"
  /\ path' = (IF tmp # None THEN tmp ELSE path) /\ tmp' = None
  /\ files' = [i \in Inodes |-> IF i = path' \/ i \in Opened(proc) THEN files[i] ELSE Blank]
  /\ Resolves(p, proc[p].payload)
  /\ UNCHANGED <<clock, since, cost>>

WriteFails(p) ==
  /\ proc[p].pc \in {"open", "rest"}
  /\ Resolves(p, proc[p].payload)
  /\ UNCHANGED <<clock, since, files, path, tmp, cost>>

-----------------------------------------------------------------------------
(* A run: the snapshot at its start, and its cost at its end.               *)

\* The commit may fail, which leaves the run without a snapshot; a run without
\* endpoints gets none.
Stamp(p, plan) ==
  /\ proc[p].pc = "resolved"
  /\ \E snapshot \in {None, BuildPricingSnapshot(plan.vendors, proc[p].payload)} :
       /\ DOMAIN plan.vendors = {} => snapshot = None
       /\ proc' = [proc EXCEPT ![p] = [@ EXCEPT !.pc = "works", !.now = 0, !.down = FALSE, !.plan = plan,
                                                 !.snapshot = snapshot]]
  /\ UNCHANGED <<clock, since, files, path, tmp, cost>>

\* _resolve_extension_vendor: of the endpoint the model is assigned to, of the
\* primary one, or what its name suggests.
ExtensionVendor(plan, m) ==
  IF m \in DOMAIN plan.vendors THEN plan.vendors[m]
  ELSE IF plan.primary # None THEN plan.vendors[plan.primary]
  ELSE IF Book[m].claude THEN "anthropic" ELSE "unknown"

Stamped(r) == IF r.snapshot = None THEN << >> ELSE r.snapshot

ExtendedRefreshed(r, used) ==   \* wrong: every model is resolved again, at today's prices
  LET add == used
  IN  [m \in DOMAIN Stamped(r) \cup add |->
         IF m \in add THEN [vendor |-> ExtensionVendor(r.plan, m),
                            rate |-> ResolveVendorPrice(ExtensionVendor(r.plan, m), m, <<Len(since), Len(since)>>)]
         ELSE r.snapshot[m]]
Extended(r, used) ==
  LET add == used \ DOMAIN Stamped(r)
  IN  BuildPricingSnapshot([m \in add |-> ExtensionVendor(r.plan, m)], r.payload) @@ Stamped(r)

\* The strict price of one model, and that of several, where one without rates
\* is priced as the primary one.  None: the harness's figure stays.
StrictCost(snapshot, m) == IF HasRates(snapshot, m) THEN (m :> snapshot[m].rate) ELSE None

SoftenedCostDropping(snapshot, used, primary) ==   \* wrong: a model without rates is skipped
  LET priced == {m \in used : HasRates(snapshot, m)}
  IN  IF priced = {} THEN None ELSE [m \in priced |-> snapshot[m].rate]
SoftenedCost(snapshot, used, primary) ==
  LET priced == {m \in used : HasRates(snapshot, m) \/ (HasRates(snapshot, primary) /\ m # primary)}
  IN  IF priced = {} THEN None
      ELSE [m \in priced |-> snapshot[IF HasRates(snapshot, m) THEN m ELSE primary].rate]

\* The model the row of the run names.
Main(u) == CHOOSE m \in u.models : TRUE

\* A run that told of one model, or of each one it used.
End(p, u) ==
  /\ proc[p].pc = "works"
  /\ LET snapshot == Extended(proc[p], u.models)
         primary == IF proc[p].plan.primary # None THEN proc[p].plan.primary ELSE Main(u)
     IN /\ proc' = [proc EXCEPT ![p] = [@ EXCEPT !.pc = "done", !.snapshot = snapshot, !.used = u]]
        /\ cost' = cost @@ (p :> [primary |-> primary,
                                  rates |-> IF u.several THEN SoftenedCost(snapshot, u.models, primary)
                                            ELSE StrictCost(snapshot, Main(u))])
  /\ UNCHANGED <<clock, since, files, path, tmp>>

\* A killed process leaves its files as they are.
Kill(p) ==
  /\ proc[p].pc \in Reading
  /\ proc' = [proc EXCEPT ![p] = [Fresh EXCEPT !.pc = "killed"]]
  /\ UNCHANGED <<clock, since, files, path, tmp, cost>>

-----------------------------------------------------------------------------
(* The prices page: the rates today of the models runs used.                *)

\* effective_prices: with the vendor of a snapshot, else, or if that resolves
\* to nothing, with the one the name suggests.
Vendors(m) == {proc[p].snapshot[m].vendor : p \in {q \in DOMAIN cost : m \in DOMAIN Stamped(proc[q])}}
Used == {Main(proc[p].used) : p \in DOMAIN cost}

EffectivePriceByName(m, vendor, payload) ==   \* wrong: whoever sold it, it is priced by its name
  ResolveVendorPrice(Book[m].looks, m, payload)
EffectivePrice(m, vendor, payload) ==
  LET first == ResolveVendorPrice(vendor, m, payload)
  IN  IF first = NoRate THEN ResolveVendorPrice(Book[m].looks, m, payload) ELSE first

Show(p) ==
  /\ proc[p].pc = "resolved"
  /\ \E vendor \in [Used -> UNION {Vendors(m) : m \in Used}] :
       /\ \A m \in Used : vendor[m] \in Vendors(m)
       /\ LET rate == [m \in Used |-> EffectivePrice(m, vendor[m], proc[p].payload)]
          IN  proc' = [proc EXCEPT ![p] = [@ EXCEPT !.pc = "shown", !.now = 0, !.down = FALSE,
                        !.snapshot = [m \in Used |-> [vendor |-> vendor[m], rate |-> rate[m]]]]]
  /\ UNCHANGED <<clock, since, files, path, tmp, cost>>

-----------------------------------------------------------------------------
Publish ==
  /\ Len(since) < MaxVersions /\ since' = Append(since, clock)
  /\ UNCHANGED <<clock, files, path, tmp, proc, cost>>

Tick == clock < MaxTime /\ clock' = clock + 1 /\ UNCHANGED <<since, files, path, tmp, proc, cost>>

Next ==
  \/ Publish \/ Tick
  \/ \E p \in Resolvers :
       \/ Start(p) \/ CheckCache(p) \/ ReadFresh(p) \/ Fetch(p) \/ FetchFails(p) \/ FallBack(p)
       \/ OpenAndWrite(p) \/ WriteRest(p) \/ Replace(p) \/ WriteFails(p)
       \/ \E plan \in Plans : Stamp(p, plan)
       \/ Kill(p) \/ Show(p)
       \/ \E u \in Usages : End(p, u)

-----------------------------------------------------------------------------
(* What it promises.                                                       *)

Rates(p) == {proc[p].snapshot[m].rate : m \in DOMAIN Stamped(proc[p])}
Versions(p) == {r.version : r \in {x \in Rates(p) : x.tier = "live"}}
\* A payload is of prices current less than the lifetime of the cache before it
\* was asked for, unless the endpoint did not answer or two writers of the cache
\* mixed theirs; and a run is priced at none published after it resolved them,
\* whatever it used and however long it took.
RatesWereInEffect ==
  \A p \in Resolvers :
    /\ proc[p].pc = "resolved" /\ proc[p].payload # None =>
         LET v == proc[p].payload[1]
         IN  proc[p].down \/ proc[p].payload # <<v, v>> \/ v = Len(since) \/ since[v + 1] > proc[p].now - Ttl
    /\ proc[p].pc \in {"works", "done"} => \A v \in Versions(p) : v <= proc[p].by

\* A figure from the snapshot leaves out no model the run used if the primary one
\* has rates; it prices each one with rates at those; and a run of a single model
\* is never priced as another one.
CostIsWhole ==
  \A p \in DOMAIN cost :
    LET c == cost[p]  s == proc[p].snapshot  u == proc[p].used
    IN  /\ HasRates(s, c.primary) /\ (u.several \/ c.primary \in u.models)
             => c.rates # None /\ DOMAIN c.rates = u.models
        /\ c.rates # None =>
             /\ DOMAIN c.rates \subseteq u.models
             /\ \A m \in DOMAIN c.rates : IF HasRates(s, m) THEN c.rates[m] = s[m].rate
                                          ELSE u.several /\ c.rates[m] = s[c.primary].rate

\* The page and the runs agree: a run that stamped a rate for a model, from the
\* payload the page has and the vendor the page shows, stamped the one shown.
PageFollowsRuns ==
  \A p, q \in Resolvers :
    proc[p].pc = "shown" /\ q \in DOMAIN cost /\ proc[q].payload = proc[p].payload =>
      \A m \in DOMAIN proc[p].snapshot :
        HasRates(proc[q].snapshot, m) /\ proc[q].snapshot[m].vendor = proc[p].snapshot[m].vendor
          => proc[p].snapshot[m].rate = proc[q].snapshot[m].rate
=============================================================================
