--------------------------------- MODULE Health ---------------------------------
(***************************************************************************)
(* GET /health of one process (src/modules/health): checks of every        *)
(* dependency and of the workers' heartbeats in Redis, run in parallel,    *)
(* answered and kept for CacheTtl; alerts to the room of the admins; the   *)
(* consumer of system.health.ping, which writes to the same cache.         *)
(***************************************************************************)
EXTENDS Integers, FiniteSets

CONSTANTS Dependencies,        \* services with an indicator of their own
          DisabledDependencies,  \* those whose indicator is switched off
          Workers, EnabledWorkers,
          Gets,                \* GET /health requests
          CacheTtl,            \* CACHE_TTL_MS
          StaleAge, DownAge, KeyTtl,  \* 60, 120 and 180 seconds
          MaxProbe,            \* bound: how long the checks of one request take
          MaxHealthTime,       \* bound on the clock
          MaxChanges           \* bound: changes of dependencies, and heartbeats

ASSUME HealthAssumption ==
  /\ DisabledDependencies \subseteq Dependencies /\ EnabledWorkers \subseteq Workers
  /\ Dependencies # {} /\ Dependencies \cap Workers = {}
  /\ \A n \in {CacheTtl, StaleAge, DownAge, KeyTtl, MaxProbe, MaxHealthTime, MaxChanges} : n \in Nat
  /\ StaleAge <= DownAge /\ DownAge <= KeyTtl

VARIABLES
  htime,
  condition,  \* [Dependencies -> {"fast", "slow", "gone"}]
  lastFast,   \* history: [Dependencies -> when the service last was fast]
  beat,       \* [Workers -> {} or {the record under the worker's key}]
  cache,      \* {} or {[result, at]}
  get,        \* [Gets -> what the request is doing]
  changes,    \* how much of MaxChanges is used
  pinged,     \* history: a ping came while there was no cache
  told,       \* history: the bad statuses of the cache that admins were alerted of
  silent      \* history: the bad statuses of the first checks, which are not announced

healthVars == <<htime, condition, lastFast, beat, cache, get, changes, pinged, told, silent>>

Names == Dependencies \cup Workers
NoGet == [phase |-> "idle"]

HealthInit ==
  /\ htime = 0
  /\ condition = [s \in Dependencies |-> "fast"]
  /\ lastFast = [s \in Dependencies |-> 0]
  /\ beat = [w \in Workers |-> {[status |-> "healthy", sent |-> 0, expires |-> KeyTtl]}]
  /\ cache = {} /\ told = {} /\ silent = {} /\ pinged = FALSE /\ changes = 0
  /\ get = [g \in Gets |-> NoGet]

\* A dependency becomes fast, slow (more than 500 ms) or unreachable.
Becomes(s) ==
  /\ changes < MaxChanges /\ changes' = changes + 1
  /\ \E c \in {"fast", "slow", "gone"} \ {condition[s]} :
       /\ condition' = [condition EXCEPT ![s] = c]
       /\ lastFast' = [lastFast EXCEPT ![s] = IF c = "fast" THEN htime ELSE @]
  /\ UNCHANGED <<htime, beat, cache, get, pinged, told, silent>>

\* recordHeartbeat(); the time a heartbeat travels is neglected.
RecordHeartbeat(w) ==
  /\ changes < MaxChanges /\ changes' = changes + 1
  /\ \E status \in {"healthy", "degraded"} :
       beat' = [beat EXCEPT ![w] = {[status |-> status, sent |-> htime,
                                     expires |-> htime + KeyTtl]}]
  /\ UNCHANGED <<htime, condition, lastFast, cache, get, pinged, told, silent>>

-------------------------------------------------------------------------------
\* An indicator that asks its service: an error is down, more than 500 ms degraded.
Asked(c) == CASE c = "gone" -> "down" [] c = "slow" -> "degraded" [] OTHER -> "ok"

\* The indicators of FastAPI and Elsa may be switched off.
OptionalCheck(s) == IF s \in DisabledDependencies THEN "ok" ELSE Asked(condition[s])

\* The indicator of NATS asks nothing.
NatsCheck == "ok"

CheckDependency(s) ==
  CASE s = "nats" -> NatsCheck
    [] s \in {"fastapi", "elsa"} -> OptionalCheck(s)
    [] OTHER -> Asked(condition[s])

Kept(w) == {b \in beat[w] : htime < b.expires}

\* getWorkerHealth(): the age counts from the worker's own timestamp.
GetWorkerHealth(w) ==
  IF Kept(w) = {} THEN "down"
  ELSE LET b == CHOOSE b \in Kept(w) : TRUE
           age == htime - b.sent
       IN IF age > DownAge THEN "down" ELSE IF age > StaleAge THEN "stale" ELSE b.status

\* mapWorkerHealth(): workers that are not enabled count as ok.
MapWorkerHealth(w, status) ==
  CASE w \notin EnabledWorkers -> "ok"
    [] status = "healthy" -> "ok"
    [] status \in {"degraded", "stale"} -> "degraded"
    [] OTHER -> "down"

CalculateAggregateStatus(result) ==
  LET statuses == {r[2] : r \in result}
  IN IF "down" \in statuses THEN "down" ELSE IF "degraded" \in statuses THEN "degraded" ELSE "ok"

\* When the last good sign of a service was.
GoodSigns(s) == IF s \in Dependencies THEN {lastFast[s]} ELSE {b.sent : b \in beat[s]}

\* An and (history) which services gave a good sign within the delays.
Answer(result) ==
  [status |-> CalculateAggregateStatus(result), named |-> result # {},
   good |-> {s \in Names : \E t \in GoodSigns(s) :
               htime - t <= CacheTtl + MaxProbe + (IF s \in Workers THEN StaleAge ELSE 0)}]

Fresh(c) == htime - c.at < CacheTtl

\* checkHealth() answers from the cache and changes nothing...
CachedAnswers == {Answer(c.result) : c \in {x \in cache : Fresh(x)}}

\* ... or starts the checks.
CheckHealth(g) ==
  /\ get[g] = NoGet
  /\ CachedAnswers = {}
  /\ get' = [get EXCEPT ![g] = [phase |-> "checking", since |-> htime, result |-> {}]]
  /\ UNCHANGED <<htime, condition, lastFast, beat, cache, changes, pinged, told, silent>>

Checked(g) == {r[1] : r \in get[g].result}

\* runAllHealthChecks(): the checks of Promise.all end one by one.
RunCheck(g) ==
  /\ get[g].phase = "checking"
  /\ \E s \in Names \ Checked(g) :
       get' = [get EXCEPT ![g].result = @ \cup
         {<<s, IF s \in Dependencies THEN CheckDependency(s)
               ELSE MapWorkerHealth(s, GetWorkerHealth(s))>>}]
  /\ UNCHANGED <<htime, condition, lastFast, beat, cache, changes, pinged, told, silent>>

\* listWorkerHealth() has no catch: when Redis fails it, the request fails and nothing is cached.
FailCheck(g) ==
  /\ get[g].phase = "checking" /\ ~(Workers \subseteq Checked(g))
  /\ get' = [get EXCEPT ![g] = NoGet]
  /\ UNCHANGED <<htime, condition, lastFast, beat, cache, changes, pinged, told, silent>>

Bad(result) == {r \in result : r[2] # "ok"}

\* checkAndEmitAlerts(): the statuses that are bad and differ from the cache's.
NewAlerts(result) == {r \in Bad(result) : \A c \in cache : r \notin c.result}

\* The rest of checkHealth(), in which nothing waits for I/O; the answer is what it caches.
Conclude(g) ==
  /\ get[g].phase = "checking" /\ Checked(g) = Names
  /\ LET result == get[g].result
     IN /\ told' = IF cache = {} THEN {} ELSE (told \cap result) \cup NewAlerts(result)
        /\ silent' = IF cache = {} THEN Bad(result) ELSE silent \cap result
  /\ cache' = {[result |-> get[g].result, at |-> htime]}
  /\ get' = [get EXCEPT ![g] = NoGet]
  /\ UNCHANGED <<htime, condition, lastFast, beat, changes, pinged>>

\* A ping that restarts the life of the cached result.
RefreshCache == {[result |-> UNION {c.result : c \in cache}, at |-> htime]}

\* The cache a ping writes: as it was, or an empty result of this moment.
PingCache == IF cache = {} THEN {[result |-> {}, at |-> htime]} ELSE cache

HealthPing ==
  /\ cache' = PingCache
  /\ pinged' = (pinged \/ cache = {})
  /\ UNCHANGED <<htime, condition, lastFast, beat, get, changes, told, silent>>

\* Time passes while no request's checks are overdue.
HealthTick ==
  /\ htime < MaxHealthTime
  /\ \A g \in Gets : get[g].phase = "checking" => htime < get[g].since + MaxProbe
  /\ htime' = htime + 1
  /\ lastFast' = [s \in Dependencies |-> IF condition[s] = "fast" THEN htime + 1 ELSE lastFast[s]]
  /\ UNCHANGED <<condition, beat, cache, get, changes, pinged, told, silent>>

HealthNext ==
  \/ \E s \in Dependencies : Becomes(s)
  \/ \E w \in Workers : RecordHeartbeat(w)
  \/ \E g \in Gets : CheckHealth(g) \/ RunCheck(g) \/ FailCheck(g) \/ Conclude(g)
  \/ HealthPing \/ HealthTick

HealthSpec == HealthInit /\ [][HealthNext]_healthVars

-------------------------------------------------------------------------------
\* An answer "ok" that names services is not older than the three delays allow: every
\* dependency that is asked was fast at most CacheTtl + MaxProbe ago, and every enabled worker sent a
\* heartbeat at most StaleAge more ago than that, also when checks overlap and the
\* slower ones end last.  An answer names none only if a ping came before the first one.
\* Admins were alerted of every bad status in the cache, except those the first checks
\* of the process found, which are never announced.
HealthIsRecent ==
  /\ \A a \in CachedAnswers :
       /\ a.named \/ pinged
       /\ a.status = "ok" /\ a.named =>
            (Dependencies \ (DisabledDependencies \cup {"nats"})) \cup EnabledWorkers \subseteq a.good
  /\ \A c \in cache : Bad(c.result) \subseteq told \cup silent
=================================================================================
