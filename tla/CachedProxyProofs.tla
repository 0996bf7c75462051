------------------------- MODULE CachedProxyProofs -------------------------
(***************************************************************************)
(* CachedProxy for any keys, requests, times to live and sweep interval:   *)
(* its types, the freshness of its answers, its sweep, and that it stays   *)
(* within the budget of UpstreamBudget.                                    *)
(***************************************************************************)
EXTENDS CachedProxy, TLAPS

\* A request was asked in the past, and a flight that is about to return holds
\* a payload that has not expired.
ReturnsAreFresh ==
  /\ \A r \in Requests : asked[r] <= now
  /\ \A k \in Keys :
       (stage[k] = "returning" /\ result[k] # Error) => result[k] + TTL[k] >= now

ProxyInv == TypeOK /\ ReturnsAreFresh /\ AnswersAreFresh /\ SweptClean

LEMMA ItemFacts ==
  ASSUME TypeOK, NEW k \in Keys
  PROVE  /\ now \in Nat /\ lastSweep \in Nat /\ TTL[k] \in Nat
         /\ items[k].at \in Int /\ items[k].exp \in Int
         /\ items[k] = NoItem <=> items[k].exp = -1
         /\ items[k] # NoItem => items[k].at \in Nat /\ items[k].exp \in Nat
         /\ Hit(k) => items[k] # NoItem /\ items[k].at + TTL[k] >= now
<1>1. /\ now \in Nat /\ lastSweep \in Nat /\ TTL[k] \in Nat
      /\ items[k] \in [at : Nat, exp : Nat] \/ items[k] = [at |-> -1, exp |-> -1]
      /\ items[k] # NoItem => items[k].exp <= items[k].at + TTL[k]
  BY ProxyAssumption DEF TypeOK, Time, Items, NoItem
<1> QED BY <1>1 DEF NoItem, Hit

LEMMA SweptFacts ==
  ASSUME TypeOK, SweptClean
  PROVE  /\ Swept.at \in 0 .. now
         /\ Swept.items \in [Keys -> Items]
         /\ \A k \in Keys : Swept.items[k] \in {items[k], NoItem}
         /\ \A k \in Keys : Swept.items[k] # NoItem => Swept.items[k].exp >= Swept.at
         /\ \A k \in Keys : Hit(k) => Swept.items[k] = items[k]
<1>1. \A k \in Keys : items[k] \in Items /\ NoItem \in Items
  BY DEF TypeOK, Items
<1>2. now \in Nat /\ lastSweep \in 0 .. now
  BY ProxyAssumption DEF TypeOK, Time
<1>3. CASE now - lastSweep >= SweepInterval
  <2>1. Swept = [at |-> now, items |-> [k \in Keys |-> IF now > items[k].exp THEN NoItem
                                                       ELSE items[k]]]
    BY <1>3 DEF Swept
  <2>2. \A k \in Keys : items[k].exp \in Int
    BY ItemFacts
  <2> QED BY <2>1, <2>2, <1>1, <1>2 DEF Hit
<1>4. CASE ~(now - lastSweep >= SweepInterval)
  <2>1. Swept = [at |-> lastSweep, items |-> items]
    BY <1>4 DEF Swept
  <2> QED BY <2>1, <1>1, <1>2 DEF SweptClean, TypeOK
<1> QED BY <1>3, <1>4

\* Storing a payload keeps the entries' types and the sweep clean, makes its key
\* fresh, and leaves the freshness of the others alone.
LEMMA SetFacts ==
  ASSUME TypeOK, SweptClean, NEW k \in Keys, Set(k)
  PROVE  /\ lastSweep' \in 0 .. now
         /\ items' \in [Keys -> Items]
         /\ \A j \in Keys : items'[j].at <= now
         /\ \A j \in Keys : items'[j] # NoItem => items'[j].exp <= items'[j].at + TTL[j]
         /\ \A j \in Keys : items'[j] # NoItem => items'[j].exp >= lastSweep'
         /\ \A j \in Keys : now <= items'[j].exp <=> Hit(j) \/ j = k
<1> DEFINE new == [at |-> now, exp |-> now + TTL[k]]
<1>1. /\ lastSweep' = Swept.at
      /\ items' = [Swept.items EXCEPT ![k] = new]
  BY DEF Set
<1>2. now \in Nat /\ TTL[k] \in Nat
  BY ItemFacts
<1>3. new \in Items /\ new # NoItem
  BY <1>2 DEF Items, NoItem
<1>4. /\ lastSweep' \in 0 .. now
      /\ items' \in [Keys -> Items]
  BY <1>1, <1>3, SweptFacts
<1>5. ASSUME NEW j \in Keys, j # k
      PROVE  /\ items'[j].at <= now
             /\ items'[j] # NoItem => items'[j].exp <= items'[j].at + TTL[j]
             /\ items'[j] # NoItem => items'[j].exp >= lastSweep'
             /\ now <= items'[j].exp <=> Hit(j)
  <2>1. items'[j] = Swept.items[j]
    BY <1>1, <1>5, SweptFacts
  <2>2. /\ items'[j] \in {items[j], NoItem}
        /\ items'[j] # NoItem => items'[j].exp >= lastSweep'
        /\ Hit(j) => items'[j] = items[j]
    BY <2>1, <1>1, SweptFacts
  <2>3. NoItem.at = -1 /\ NoItem.exp = -1
    BY DEF NoItem
  <2> QED BY <2>2, <2>3, <1>2 DEF TypeOK, Hit
<1>6. items'[k] = new
  BY <1>1, SweptFacts
<1>7. /\ items'[k].at <= now
      /\ items'[k].exp <= items'[k].at + TTL[k]
      /\ items'[k].exp >= lastSweep'
      /\ now <= items'[k].exp
  BY <1>2, <1>4, <1>6
<1> HIDE DEF new
<1> QED BY <1>4, <1>5, <1>7

LEMMA ProxyInit == Init => ProxyInv
<1> SUFFICES ASSUME Init PROVE ProxyInv
  OBVIOUS
<1>1. 0 \in Time /\ Error \in Nat \cup {Error} /\ NoItem \in Items /\ NoItem.at = -1
  BY ProxyAssumption DEF Time, Items, NoItem
<1>2. TypeOK
  BY <1>1 DEF Init, TypeOK
<1> QED BY <1>1, <1>2 DEF Init, ProxyInv, ReturnsAreFresh, AnswersAreFresh, SweptClean

LEMMA ProxyStep ==
  ASSUME ProxyInv, [Next]_vars
  PROVE  ProxyInv'
<1> USE DEF ProxyInv
<1>0. /\ now \in Nat /\ now \in Time /\ MaxTime \in Nat
      /\ \A r \in Requests : /\ asked[r] \in Nat /\ asked[r] <= now
                             /\ answer[r] \in Int /\ TTL[key[r]] \in Nat
      /\ \A k \in Keys : TTL[k] \in Nat /\ result[k] \in Int /\ items[k].at \in Int
  BY ProxyAssumption, ItemFacts DEF TypeOK, Time, Error, ReturnsAreFresh
<1>h. \A k \in Keys : Hit(k) => items[k].at \in Nat /\ items[k].at + TTL[k] >= now
  BY ItemFacts
<1>1. CASE Tick
  <2>1. /\ now' = now + 1 /\ now' \in Time
        /\ UNCHANGED <<items, lastSweep, stage, result, pc, key, asked, answer>>
        /\ \A k \in Keys : stage[k] # "returning"
    BY <1>1, <1>0 DEF Tick, cacheVars, flightVars, requestVars, Time
  <2>2. TypeOK'
    BY <2>1, <1>0 DEF TypeOK, Time
  <2>3. ReturnsAreFresh'
    BY <2>1, <1>0 DEF ReturnsAreFresh
  <2> QED BY <2>1, <2>2, <2>3 DEF AnswersAreFresh, SweptClean
<1>2. ASSUME NEW r \in Requests, NEW k \in Keys, Ask(r, k)
      PROVE  ProxyInv'
  <2>1. /\ key' = [key EXCEPT ![r] = k] /\ asked' = [asked EXCEPT ![r] = now]
        /\ UNCHANGED <<now, items, lastSweep, stage, result>>
    BY <1>2 DEF Ask, cacheVars, flightVars
  <2>2. TypeOK'
    BY <1>2, <2>1, <1>0, <1>h DEF Ask, TypeOK
  <2>3. ReturnsAreFresh'
    BY <2>1, <1>0 DEF ReturnsAreFresh, TypeOK
  <2>4. AnswersAreFresh'
    <3>1. CASE Hit(k)
      BY <1>2, <2>1, <3>1, <1>0, <1>h DEF Ask, AnswersAreFresh, TypeOK
    <3>2. CASE ~Hit(k)
      BY <1>2, <2>1, <3>2 DEF Ask, AnswersAreFresh, TypeOK
    <3> QED BY <3>1, <3>2
  <2> QED BY <2>1, <2>2, <2>3, <2>4 DEF SweptClean
<1>3. ASSUME NEW r \in Requests, Join(r) \/ Lead(r)
      PROVE  ProxyInv'
  <2>1. /\ pc' = [pc EXCEPT ![r] = "waiting"]
        /\ UNCHANGED <<now, items, lastSweep, result, key, asked, answer>>
        /\ stage' \in {stage, [stage EXCEPT ![key[r]] = "checking"]}
    BY <1>3 DEF Join, Lead, cacheVars, flightVars
  <2>2. TypeOK'
    BY <2>1 DEF TypeOK
  <2>3. ReturnsAreFresh'
    BY <2>1 DEF ReturnsAreFresh, TypeOK
  <2>4. AnswersAreFresh'
    BY <2>1 DEF AnswersAreFresh, TypeOK
  <2> QED BY <2>1, <2>2, <2>3, <2>4 DEF SweptClean
<1>4. ASSUME NEW k \in Keys, Recheck(k)
      PROVE  ProxyInv'
  <2>1. UNCHANGED <<now, items, lastSweep, pc, key, asked, answer>>
    BY <1>4 DEF Recheck, cacheVars, requestVars
  <2>2. TypeOK'
    BY <1>4, <2>1, <1>h DEF Recheck, TypeOK
  <2>3. ReturnsAreFresh'
    BY <1>4, <2>1, <1>h DEF Recheck, ReturnsAreFresh, TypeOK
  <2> QED BY <2>1, <2>2, <2>3 DEF AnswersAreFresh, SweptClean
<1>5. ASSUME NEW k \in Keys, Fetched(k)
      PROVE  ProxyInv'
  <2>1. /\ UNCHANGED <<now, pc, key, asked, answer>>
        /\ Set(k)
        /\ stage' = [stage EXCEPT ![k] = "returning"]
        /\ result' = [result EXCEPT ![k] = now]
    BY <1>5 DEF Fetched, requestVars
  <2>2. TypeOK'
    BY <2>1, <1>0, SetFacts DEF TypeOK
  <2>3. ReturnsAreFresh'
    BY <2>1, <1>0 DEF ReturnsAreFresh, TypeOK
  <2>4. AnswersAreFresh'
    BY <2>1 DEF AnswersAreFresh
  <2>5. SweptClean'
    BY <2>1, SetFacts DEF SweptClean
  <2> QED BY <2>2, <2>3, <2>4, <2>5
<1>6. ASSUME NEW k \in Keys, FetchFails(k)
      PROVE  ProxyInv'
  <2>1. UNCHANGED <<now, items, lastSweep, pc, key, asked, answer>>
    BY <1>6 DEF FetchFails, cacheVars, requestVars
  <2>2. TypeOK'
    BY <1>6, <2>1 DEF FetchFails, TypeOK
  <2>3. ReturnsAreFresh'
    BY <1>6, <2>1 DEF FetchFails, ReturnsAreFresh, TypeOK
  <2> QED BY <2>1, <2>2, <2>3 DEF AnswersAreFresh, SweptClean
<1>7. ASSUME NEW k \in Keys, Return(k)
      PROVE  ProxyInv'
  <2>1. /\ UNCHANGED <<now, items, lastSweep, result, key, asked>>
        /\ stage[k] = "returning"
        /\ stage' = [stage EXCEPT ![k] = "none"]
        /\ pc' = [r \in Requests |-> IF r \in Waiters(k) THEN "idle" ELSE pc[r]]
        /\ answer' = [r \in Requests |-> IF r \in Waiters(k) THEN result[k] ELSE answer[r]]
    BY <1>7 DEF Return, cacheVars
  <2>2. TypeOK'
    BY <2>1 DEF TypeOK
  <2>3. ReturnsAreFresh'
    BY <2>1 DEF ReturnsAreFresh, TypeOK
  <2>4. AnswersAreFresh'
    <3> SUFFICES ASSUME NEW r \in Requests, pc'[r] = "idle", answer'[r] # Error
                 PROVE  answer'[r] + TTL[key[r]] >= asked[r]
      BY <2>1 DEF AnswersAreFresh
    <3>1. CASE r \in Waiters(k)
      <4>1. key[r] = k /\ answer'[r] = result[k]
        BY <2>1, <3>1 DEF Waiters
      <4> QED BY <2>1, <4>1, <1>0 DEF ReturnsAreFresh
    <3>2. CASE r \notin Waiters(k)
      BY <2>1, <3>2 DEF AnswersAreFresh
    <3> QED BY <3>1, <3>2
  <2> QED BY <2>1, <2>2, <2>3, <2>4 DEF SweptClean
<1>8. CASE UNCHANGED vars
  BY <1>8 DEF vars, cacheVars, flightVars, requestVars, TypeOK, ReturnsAreFresh, AnswersAreFresh,
              SweptClean, Waiters
<1> QED BY <1>1, <1>2, <1>3, <1>4, <1>5, <1>6, <1>7, <1>8 DEF Next

LEMMA ProxyInvariant == Spec => []ProxyInv
BY ProxyInit, ProxyStep, PTL DEF Spec

\* In every reachable state the cache, the flights and the requests hold values
\* of their types, and no entry outlives its time to live.
THEOREM ProxyTypeCorrect == Spec => []TypeOK
<1>1. ProxyInv => TypeOK
  BY DEF ProxyInv
<1> QED BY <1>1, ProxyInvariant, PTL

\* Whatever way a request is answered, its payload had not outlived its time to
\* live when the request came in.
THEOREM AnswersAreFreshHolds == Spec => []AnswersAreFresh
<1>1. ProxyInv => AnswersAreFresh
  BY DEF ProxyInv
<1> QED BY <1>1, ProxyInvariant, PTL

\* No entry that had expired at the last sweep is still in memory.
THEOREM SweptCleanHolds == Spec => []SweptClean
<1>1. ProxyInv => SweptClean
  BY DEF ProxyInv
<1> QED BY <1>1, ProxyInvariant, PTL

-----------------------------------------------------------------------------
(* The refinement.                                                         *)

Calling == {k \in Keys : stage[k] = "fetching"}
Fresh == {k \in Keys : Hit(k)}

\* Every step of the proxy is a step of its budget, or leaves it alone.
LEMMA BudgetStep ==
  ASSUME ProxyInv, ProxyInv', [Next]_vars
  PROVE  [Upstream!BudgetNext]_(Upstream!budgetVars)
<1> USE DEF ProxyInv
<1> DEFINE Step == \/ UNCHANGED <<Calling, Fresh>>
                   \/ /\ Fresh' \subseteq Fresh
                      /\ UNCHANGED Calling
                   \/ \E k \in Keys : /\ k \notin Calling
                                      /\ k \notin Fresh
                                      /\ Calling' = Calling \cup {k}
                                      /\ UNCHANGED Fresh
                   \/ \E k \in Keys : /\ k \in Calling
                                      /\ Calling' = Calling \ {k}
                                      /\ Fresh' \in {Fresh, Fresh \cup {k}}
<1> SUFFICES Step
  BY DEF Upstream!BudgetNext, Upstream!budgetVars, Upstream!Expire, Upstream!Call,
         Upstream!Answer, Calling, Fresh
<1>1. CASE Tick
  <2>1. /\ now' = now + 1 /\ items' = items /\ stage' = stage
        /\ now \in Nat /\ \A k \in Keys : items[k].exp \in Int
    BY <1>1, ItemFacts, ProxyAssumption DEF Tick, cacheVars, flightVars, TypeOK, Time
  <2> QED BY <2>1 DEF Calling, Fresh, Hit
<1>2. ASSUME NEW r \in Requests, Join(r) \/ Lead(r) \/ \E k \in Keys : Ask(r, k)
      PROVE  Step
  <2>1. UNCHANGED <<now, items>>
    BY <1>2 DEF Join, Lead, Ask, cacheVars
  <2>2. Calling' = Calling
    BY <1>2 DEF Join, Lead, Ask, flightVars, Calling, TypeOK
  <2> QED BY <2>1, <2>2 DEF Fresh, Hit
<1>3. ASSUME NEW k \in Keys, Recheck(k)
      PROVE  Step
  <2>1. Fresh' = Fresh
    BY <1>3 DEF Recheck, cacheVars, Fresh, Hit
  <2>2. CASE Hit(k)
    <3>1. Calling' = Calling
      BY <1>3, <2>2 DEF Recheck, Calling, TypeOK
    <3> QED BY <2>1, <3>1
  <2>3. CASE ~Hit(k)
    <3>1. /\ k \notin Calling /\ k \notin Fresh
          /\ Calling' = Calling \cup {k}
      BY <1>3, <2>3 DEF Recheck, Calling, Fresh, TypeOK
    <3> QED BY <2>1, <3>1
  <2> QED BY <2>2, <2>3
<1>4. ASSUME NEW k \in Keys, Fetched(k)
      PROVE  Step
  <2>1. k \in Calling /\ Calling' = Calling \ {k}
    BY <1>4 DEF Fetched, Calling, TypeOK
  <2>2. Fresh' = Fresh \cup {k}
    BY <1>4, SetFacts DEF Fetched, Fresh, Hit
  <2> QED BY <2>1, <2>2
<1>5. ASSUME NEW k \in Keys, FetchFails(k)
      PROVE  Step
  <2>1. k \in Calling /\ Calling' = Calling \ {k}
    BY <1>5 DEF FetchFails, Calling, TypeOK
  <2>2. Fresh' = Fresh
    BY <1>5 DEF FetchFails, cacheVars, Fresh, Hit
  <2> QED BY <2>1, <2>2
<1>6. ASSUME NEW k \in Keys, Return(k)
      PROVE  Step
  BY <1>6 DEF Return, cacheVars, Calling, Fresh, Hit, TypeOK
<1>7. CASE UNCHANGED vars
  BY <1>7 DEF vars, cacheVars, flightVars, Calling, Fresh, Hit
<1> QED BY <1>1, <1>2, <1>3, <1>4, <1>5, <1>6, <1>7 DEF Next

\* "A burst of visitors triggers at most one upstream call per key"
\* (proxy.go:66-68): for a key there is one call at a time, and none while there
\* is a fresh copy, however many requests run.
THEOREM ProxyKeepsBudget == Spec => KeepsBudget
<1>1. Init => Upstream!BudgetInit
  BY DEF Init, Upstream!BudgetInit, Hit, NoItem
<1>2. ProxyInv /\ ProxyInv' /\ [Next]_vars => [Upstream!BudgetNext]_(Upstream!budgetVars)
  BY BudgetStep
<1> QED BY <1>1, <1>2, ProxyInvariant, PTL DEF Spec, KeepsBudget, Upstream!Budget
=============================================================================
