---------------------------- MODULE CachedProxy ----------------------------
(***************************************************************************)
(* core/upstream/proxy.go: the TTL cache with single-flight coalescing     *)
(* through which the meri handlers ask Digitraffic on behalf of visitors.  *)
(*                                                                         *)
(* Requests run concurrently.  A request looks in the cache, and on a miss *)
(* enters the single flight of its key: the first one in leads it, looks   *)
(* again, and fetches; the others wait for its result.  A payload is       *)
(* represented by the time at which upstream gave it.                      *)
(***************************************************************************)
EXTENDS Integers

CONSTANTS
  Keys,
  Requests,       \* handler goroutines alive at one time
  TTL,            \* time to live of each key
  SweepInterval,
  MaxTime         \* bound of the clock

ASSUME ProxyAssumption ==
  /\ TTL \in [Keys -> Nat]
  /\ SweepInterval \in Nat
  /\ MaxTime \in Nat

VARIABLES
  now,
  items,      \* ResponseCache.items
  lastSweep,
  stage,      \* of the flight of each key
  result,     \* what the flight returns, once it is returning
  pc,         \* of each request
  key,        \* the key a request is about
  asked,      \* history: when it was asked
  answer      \* history: its answer

cacheVars == <<items, lastSweep>>
flightVars == <<stage, result>>
requestVars == <<pc, key, asked, answer>>
vars == <<now, cacheVars, flightVars, requestVars>>

Time == 0 .. MaxTime
Error == -1                              \* in the place of a payload
NoItem == [at |-> -1, exp |-> -1]        \* no entry
Items == [at : Nat, exp : Nat] \cup {NoItem}

TypeOK ==
  /\ now \in Time
  /\ items \in [Keys -> Items]
  /\ lastSweep \in 0 .. now
  /\ stage \in [Keys -> {"none", "checking", "fetching", "returning"}]
  /\ result \in [Keys -> Nat \cup {Error}]
  /\ pc \in [Requests -> {"idle", "missed", "waiting"}]
  /\ key \in [Requests -> Keys]
  /\ asked \in [Requests -> Time]
  /\ answer \in [Requests -> Nat \cup {Error}]
  /\ \A k \in Keys : items[k].at <= now
  /\ \A k \in Keys : items[k] # NoItem => items[k].exp <= items[k].at + TTL[k]

Init ==
  /\ now = 0
  /\ items = [k \in Keys |-> NoItem]
  /\ lastSweep = 0
  /\ stage = [k \in Keys |-> "none"]
  /\ result = [k \in Keys |-> Error]
  /\ pc = [r \in Requests |-> "idle"]
  /\ key \in [Requests -> Keys]
  /\ asked = [r \in Requests |-> 0]
  /\ answer = [r \in Requests |-> Error]

-----------------------------------------------------------------------------
(* The cache.                                                              *)

\* Faulty: an expired entry is served.
HitForever(k) == items[k] # NoItem

\* ResponseCache.Get finds an entry that has not expired.
Hit(k) == now <= items[k].exp

\* Faulty: the sweep remembers its time and keeps the entries.
SweptOnlyNoted ==
  IF now - lastSweep >= SweepInterval THEN [at |-> now, items |-> items]
  ELSE [at |-> lastSweep, items |-> items]

\* The sweep in ResponseCache.Set drops what has expired.
Swept ==
  IF now - lastSweep >= SweepInterval
  THEN [at |-> now, items |-> [k \in Keys |-> IF now > items[k].exp THEN NoItem ELSE items[k]]]
  ELSE [at |-> lastSweep, items |-> items]

\* Faulty: an entry lives one unit too long.
SetLonger(k) ==
  /\ items' = [Swept.items EXCEPT ![k] = [at |-> now, exp |-> now + TTL[k] + 1]]
  /\ lastSweep' = Swept.at

Set(k) ==
  /\ items' = [Swept.items EXCEPT ![k] = [at |-> now, exp |-> now + TTL[k]]]
  /\ lastSweep' = Swept.at

-----------------------------------------------------------------------------
(* A request, in GetCached.                                                *)

\* The first look in the cache answers at once, or misses.
Ask(r, k) ==
  /\ pc[r] = "idle"
  /\ key' = [key EXCEPT ![r] = k]
  /\ asked' = [asked EXCEPT ![r] = now]
  /\ IF Hit(k)
     THEN /\ answer' = [answer EXCEPT ![r] = items[k].at]
          /\ UNCHANGED pc
     ELSE /\ pc' = [pc EXCEPT ![r] = "missed"]
          /\ UNCHANGED answer
  /\ UNCHANGED <<now, cacheVars, flightVars>>

\* It waits for the flight that is under way ...
Join(r) ==
  /\ pc[r] = "missed"
  /\ stage[key[r]] # "none"
  /\ pc' = [pc EXCEPT ![r] = "waiting"]
  /\ UNCHANGED <<now, cacheVars, flightVars, key, asked, answer>>

\* Faulty: a request that missed fetches without a second look.
LeadUnchecked(r) ==
  /\ pc[r] = "missed"
  /\ stage[key[r]] = "none"
  /\ pc' = [pc EXCEPT ![r] = "waiting"]
  /\ stage' = [stage EXCEPT ![key[r]] = "fetching"]
  /\ UNCHANGED <<now, cacheVars, result, key, asked, answer>>

\* ... or starts one.
Lead(r) ==
  /\ pc[r] = "missed"
  /\ stage[key[r]] = "none"
  /\ pc' = [pc EXCEPT ![r] = "waiting"]
  /\ stage' = [stage EXCEPT ![key[r]] = "checking"]
  /\ UNCHANGED <<now, cacheVars, result, key, asked, answer>>

-----------------------------------------------------------------------------
(* A flight.                                                               *)

\* The second look: another flight may have landed since the first one.
Recheck(k) ==
  /\ stage[k] = "checking"
  /\ IF Hit(k)
     THEN /\ stage' = [stage EXCEPT ![k] = "returning"]
          /\ result' = [result EXCEPT ![k] = items[k].at]
     ELSE /\ stage' = [stage EXCEPT ![k] = "fetching"]
          /\ UNCHANGED result
  /\ UNCHANGED <<now, cacheVars, requestVars>>

Fetched(k) ==
  /\ stage[k] = "fetching"
  /\ Set(k)
  /\ stage' = [stage EXCEPT ![k] = "returning"]
  /\ result' = [result EXCEPT ![k] = now]
  /\ UNCHANGED <<now, requestVars>>

\* Upstream fails, times out, or its body cannot be transformed: nothing is cached.
FetchFails(k) ==
  /\ stage[k] = "fetching"
  /\ stage' = [stage EXCEPT ![k] = "returning"]
  /\ result' = [result EXCEPT ![k] = Error]
  /\ UNCHANGED <<now, cacheVars, requestVars>>

Waiters(k) == {r \in Requests : pc[r] = "waiting" /\ key[r] = k}

\* Faulty: only one request takes the result.
ReturnToOne(k) ==
  /\ stage[k] = "returning"
  /\ stage' = [stage EXCEPT ![k] = "none"]
  /\ \E one \in Waiters(k) :
       /\ pc' = [pc EXCEPT ![one] = "idle"]
       /\ answer' = [answer EXCEPT ![one] = result[k]]
  /\ UNCHANGED <<now, cacheVars, result, key, asked>>

\* The flight ends and everyone on board gets its result.
Return(k) ==
  /\ stage[k] = "returning"
  /\ stage' = [stage EXCEPT ![k] = "none"]
  /\ pc' = [r \in Requests |-> IF r \in Waiters(k) THEN "idle" ELSE pc[r]]
  /\ answer' = [r \in Requests |-> IF r \in Waiters(k) THEN result[k] ELSE answer[r]]
  /\ UNCHANGED <<now, cacheVars, result, key, asked>>

\* The clock's unit is longer than the last step of a flight, which only wakes
\* goroutines up; everything else may take any time.
Tick ==
  /\ now < MaxTime
  /\ \A k \in Keys : stage[k] # "returning"
  /\ now' = now + 1
  /\ UNCHANGED <<cacheVars, flightVars, requestVars>>

Next ==
  \/ Tick
  \/ \E r \in Requests : Join(r) \/ Lead(r) \/ \E k \in Keys : Ask(r, k)
  \/ \E k \in Keys : Recheck(k) \/ Fetched(k) \/ FetchFails(k) \/ Return(k)

Spec == Init /\ [][Next]_vars

\* Goroutines run, and a call upstream ends: its client gives up after 30 s.
Fairness ==
  /\ \A r \in Requests : WF_vars(Join(r) \/ Lead(r))
  /\ \A k \in Keys : WF_vars(Recheck(k) \/ Fetched(k) \/ FetchFails(k) \/ Return(k))

FairSpec == Spec /\ Fairness

-----------------------------------------------------------------------------
(* Properties.                                                             *)

\* No payload is handed out that was older than its time to live when the
\* request came in, whether it came from the cache, from the request's own
\* flight or from one it joined half way (proxy.go:86-115).
AnswersAreFresh ==
  \A r \in Requests :
    (pc[r] = "idle" /\ answer[r] # Error) => answer[r] + TTL[key[r]] >= asked[r]

\* "without a sweep every key ever requested would stay in memory for the life
\* of the process" (proxy.go:13-15): nothing that had expired at the last sweep
\* is still there.
SweptClean == \A k \in Keys : items[k] # NoItem => items[k].exp >= lastSweep

\* "a burst of visitors triggers at most one upstream call per key"
\* (proxy.go:66-68): the proxy implements UpstreamBudget.
Upstream == INSTANCE UpstreamBudget WITH
  calling <- {k \in Keys : stage[k] = "fetching"},
  fresh <- {k \in Keys : Hit(k)}

KeepsBudget == Upstream!Budget

\* Every request is answered, with a payload or with an error: nobody is left
\* on a flight that has landed.
EveryRequestReturns == \A r \in Requests : pc[r] # "idle" ~> pc[r] = "idle"

=============================================================================
