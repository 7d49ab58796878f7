---------------------------- MODULE JwksCacheProofs ---------------------------
(***************************************************************************)
(* Proofs about JwksCache for any number of verifying goroutines, any      *)
(* history of key sets and every ttl, refresh interval and fetch timeout.  *)
(***************************************************************************)
EXTENDS JwksCache, TLAPS

\* The issuer still serves, or will serve, the key sets that have not been retired.
Serving == \A v \in Versions : v >= issuer => retired[v] = 0

\* An answer was served while its request was out; the cache holds one that was served no
\* longer ago than its age and one fetch; and an answer older than the cache's was asked
\* for before the cache was filled.
Dating ==
    /\ \A a \in Actors : proc[a] = "answered" =>
         /\ answer[a] \in 1..issuer
         /\ retired[answer[a]] <= elapsed[a]
         /\ elapsed[a] < age => answer[a] >= cached
    /\ cached = Nil => age = MaxAge
    /\ cached # Nil => cached <= issuer /\ retired[cached] <= age + FetchBound

\* A token was called untrusted only because some key set lacks its key.
Blaming ==
    \A g \in Verifiers : result[g] = "UntrustedSource" =>
        \E v \in Versions : kid[g] \notin KeySets[v]

CacheInv == TypeOK /\ Serving /\ Dating /\ Blaming

\* The constants as numbers: the issuer serves at least one key set, and the counters
\* saturate above everything that is compared with them.
LEMMA Numbers ==
    /\ Len(KeySets) \in Nat /\ Len(KeySets) >= 1 /\ Versions = 1..Len(KeySets)
    /\ FetchBound \in Nat /\ Refresh \in Nat /\ TTL \in Nat
    /\ MaxAge \in Nat /\ MaxAge = TTL + 1
    /\ MaxRetired \in Nat /\ MaxRetired = MaxAge + FetchBound
<1>1. Len(KeySets) \in Nat /\ Len(KeySets) >= 1
  BY KeySetsAssumption
<1> QED
  BY <1>1, TTLAssumption, RefreshAssumption, FetchAssumption DEF Versions, MaxAge, MaxRetired

\* Leaving refreshCache keeps the types.
LEMMA LeaveType ==
    ASSUME TypeOK, NEW a \in Actors, Leave(a)
    PROVE  /\ proc' \in [Actors -> {"idle", "sent", "answered"}]
           /\ answer' \in [Actors -> Versions \cup {Nil}]
           /\ elapsed' \in [Actors -> 0..FetchBound]
           /\ sleep' \in 0..Refresh
           /\ started' \in BOOLEAN
  BY Numbers DEF TypeOK, Leave

\* The constructor has no keys yet, and its zero setTime counts as expired.
LEMMA InitCache == Init => CacheInv
<1> SUFFICES ASSUME Init PROVE CacheInv
  OBVIOUS
<1>1. TypeOK
  <2>1. issuer \in Versions /\ retired \in [Versions -> 0..MaxRetired]
    BY Numbers DEF Init
  <2>2. cached \in Versions \cup {Nil} /\ age \in 0..MaxAge /\ sleep \in 0..Refresh
    BY Numbers DEF Init
  <2>3. /\ proc \in [Actors -> {"idle", "sent", "answered"}]
        /\ answer \in [Actors -> Versions \cup {Nil}]
        /\ elapsed \in [Actors -> 0..FetchBound]
    BY Numbers DEF Init
  <2>4. started \in BOOLEAN /\ kid \in [Verifiers -> Kids] /\ result \in [Verifiers -> Codes]
    BY Zenon DEF Init, Codes
  <2> QED
    BY <2>1, <2>2, <2>3, <2>4 DEF TypeOK
<1>2. Serving /\ Dating /\ Blaming
  BY Numbers DEF Init, Serving, Dating, Blaming, Nil
<1> QED
  BY <1>1, <1>2 DEF CacheInv

\* Every step of a fetch, a Verify, the refresher, the issuer and the clock keeps the types.
LEMMA NextType == TypeOK /\ Dating /\ [Next]_vars => TypeOK'
<1> SUFFICES ASSUME TypeOK, Dating, [Next]_vars PROVE TypeOK'
  OBVIOUS
<1> USE DEF TypeOK, issuerVars, cacheVars, fetchVars
<1>1. ASSUME NEW a \in Actors, IssuerAnswers(a) PROVE TypeOK'
  BY <1>1 DEF IssuerAnswers
<1>2. ASSUME NEW a \in Actors, RefreshFails(a) PROVE TypeOK'
  BY <1>2, LeaveType DEF RefreshFails, Codes
<1>3. ASSUME NEW a \in Actors, Put(a) PROVE TypeOK'
  <2>1. cached' \in Versions \cup {Nil} /\ age' \in 0..MaxAge
    BY <1>3, Numbers DEF Put
  <2>2. result' \in [Verifiers -> Codes]
    BY <1>3 DEF Put, Verdicts, Codes
  <2> QED
    BY <1>3, <2>1, <2>2, LeaveType DEF Put
<1>4. ASSUME NEW g \in Verifiers, VerifyMalformed(g) PROVE TypeOK'
  BY <1>4 DEF VerifyMalformed, Codes
<1>5. ASSUME NEW g \in Verifiers, VerifyCached(g) PROVE TypeOK'
  <2>1. PICK k \in Kids : /\ kid' = [kid EXCEPT ![g] = k]
                         /\ \E r \in Verdicts(k, KeySets[cached]) : result' = [result EXCEPT ![g] = r]
    BY Zenon, <1>5 DEF VerifyCached
  <2>2. result' \in [Verifiers -> Codes]
    BY <2>1 DEF Verdicts, Codes
  <2> QED
    BY <1>5, <2>1, <2>2 DEF VerifyCached
<1>6. ASSUME NEW g \in Verifiers, VerifyRefreshes(g) PROVE TypeOK'
  BY <1>6, Numbers DEF VerifyRefreshes, Request, Actors, Codes
<1>7. CASE BackgroundRefresh
  BY <1>7, Numbers DEF BackgroundRefresh, Request, Actors
<1>8. CASE Rotate
  BY <1>8, Numbers DEF Rotate
<1>9. CASE Tick
  <2>1. retired' \in [Versions -> 0..MaxRetired]
    BY <1>9, Numbers DEF Tick, UpTo
  <2>2. age' \in 0..MaxAge /\ sleep' \in 0..Refresh
    BY <1>9, Numbers DEF Tick, UpTo
  <2>3. elapsed' \in [Actors -> 0..FetchBound]
    BY SMTT(30), <1>9, Numbers DEF Tick
  <2> QED
    BY <1>9, <2>1, <2>2, <2>3 DEF Tick
<1>10. CASE UNCHANGED vars
  BY <1>10 DEF vars
<1> QED
  BY <1>1, <1>2, <1>3, <1>4, <1>5, <1>6, <1>7, <1>8, <1>9, <1>10 DEF Next, Fetch

\* Only the issuer's clock retires a key set, and never one it still serves.
LEMMA NextServing == CacheInv /\ [Next]_vars => Serving'
<1> SUFFICES ASSUME CacheInv, [Next]_vars PROVE Serving'
  OBVIOUS
<1> USE DEF CacheInv, TypeOK, Serving
<1>1. CASE UNCHANGED issuerVars
  BY <1>1 DEF issuerVars
<1>2. CASE Rotate
  BY <1>2, Numbers DEF Rotate
<1>3. CASE Tick
  BY <1>3, Numbers DEF Tick
<1> QED
  BY <1>1, <1>2, <1>3 DEF Next, Fetch, IssuerAnswers, RefreshFails, Put, VerifyMalformed,
     VerifyCached, VerifyRefreshes, BackgroundRefresh, vars

\* Every step keeps the dates of the answers and of the cache.
LEMMA NextDating == CacheInv /\ [Next]_vars => Dating'
<1> SUFFICES ASSUME CacheInv, [Next]_vars PROVE Dating'
  OBVIOUS
<1> USE DEF CacheInv, TypeOK
<1>1. CASE UNCHANGED <<issuerVars, cacheVars, fetchVars>>
  BY <1>1 DEF issuerVars, cacheVars, fetchVars, Dating
<1>2. ASSUME NEW a \in Actors, IssuerAnswers(a) PROVE Dating'
  <2>1. UNCHANGED <<issuer, retired, cached, age, elapsed>>
    BY <1>2 DEF IssuerAnswers, issuerVars, cacheVars
  <2>2. proc'[a] = "answered" /\ answer'[a] = issuer /\ retired[issuer] = 0
    BY <1>2, Numbers DEF IssuerAnswers, Serving
  <2>3. \A b \in Actors : b # a => proc'[b] = proc[b] /\ answer'[b] = answer[b]
    BY <1>2 DEF IssuerAnswers
  <2>4. cached <= issuer
    BY Numbers DEF Dating, Nil
  <2> QED
    BY SMTT(60), <2>1, <2>2, <2>3, <2>4, Numbers DEF Dating
<1>3. ASSUME NEW a \in Actors, Leave(a), UNCHANGED issuerVars
      PROVE  \A b \in Actors : proc'[b] = "answered" =>
               b # a /\ proc[b] = "answered" /\ answer'[b] = answer[b] /\ elapsed'[b] = elapsed[b]
  BY <1>3 DEF Leave
<1>4. ASSUME NEW a \in Actors, RefreshFails(a) PROVE Dating'
  BY <1>3, <1>4 DEF RefreshFails, issuerVars, cacheVars, Dating
<1>5. ASSUME NEW a \in Actors, Put(a) PROVE Dating'
  <2>1. UNCHANGED <<issuer, retired>> /\ cached' = answer[a] /\ age' = 0
    BY <1>5 DEF Put, issuerVars
  <2>2. answer[a] \in 1..issuer /\ retired[answer[a]] <= FetchBound
    BY <1>5, Numbers DEF Put, Dating
  <2>3. \A b \in Actors : proc'[b] = "answered" =>
          proc[b] = "answered" /\ answer'[b] = answer[b] /\ elapsed'[b] = elapsed[b]
    BY <1>3, <1>5 DEF Put
  <2> QED
    BY <2>1, <2>2, <2>3, Numbers DEF Dating, Nil
<1>6. ASSUME NEW a \in Actors, Request(a), UNCHANGED <<issuerVars, cacheVars>> PROVE Dating'
  BY <1>6 DEF Request, issuerVars, cacheVars, Dating
<1>7. ASSUME NEW g \in Verifiers, VerifyRefreshes(g) PROVE Dating'
  BY <1>6, <1>7 DEF VerifyRefreshes, Actors
<1>8. CASE BackgroundRefresh
  BY <1>6, <1>8 DEF BackgroundRefresh, Actors
<1>9. CASE Rotate
  BY <1>9, Numbers DEF Rotate, cacheVars, fetchVars, Dating
<1>10. CASE Tick
  <2>0. retired' \in [Versions -> Nat]
    BY NextType, Numbers
  <2>1. UNCHANGED <<issuer, cached, proc, answer>> /\ age' = UpTo(age, MaxAge)
    BY <1>10 DEF Tick
  <2>2. \A a \in Actors : proc[a] = "answered" => elapsed'[a] = elapsed[a] + 1
    BY <1>10 DEF Tick
  <2>3. ASSUME NEW v \in Versions PROVE retired'[v] <= retired[v] + 1 /\ retired'[v] <= MaxRetired
    <3>1. retired[v] \in 0..MaxRetired
      OBVIOUS
    <3>2. retired'[v] = IF v < issuer THEN UpTo(retired[v], MaxRetired) ELSE 0
      BY <1>10 DEF Tick
    <3> QED
      BY <3>1, <3>2, Numbers DEF UpTo
  <2>4. age' <= MaxAge /\ (age < MaxAge => age' = age + 1) /\ (age = MaxAge => age' = MaxAge)
    BY <2>1, Numbers DEF UpTo
  <2>5. ASSUME NEW a \in Actors, proc'[a] = "answered"
        PROVE  /\ answer'[a] \in 1..issuer'
               /\ retired'[answer'[a]] <= elapsed'[a]
               /\ elapsed'[a] < age' => answer'[a] >= cached'
    <3>1. answer[a] \in 1..issuer /\ answer[a] \in Versions
      BY <2>1, <2>5, Numbers DEF Dating
    <3>2. retired[answer[a]] <= elapsed[a] /\ (elapsed[a] < age => answer[a] >= cached)
      BY <2>1, <2>5 DEF Dating
    <3>3. elapsed[a] \in Nat /\ age \in Nat /\ retired[answer[a]] \in Nat /\ retired'[answer[a]] \in Nat
      BY <2>0, <3>1, Numbers
    <3> QED
      BY SMTT(60), <2>1, <2>2, <2>3, <2>4, <2>5, <3>1, <3>2, <3>3, Numbers
  <2>6. cached' = Nil => age' = MaxAge
    BY <2>1, <2>4 DEF Dating
  <2>7. ASSUME cached' # Nil PROVE cached' <= issuer' /\ retired'[cached'] <= age' + FetchBound
    <3>1. cached \in Versions /\ cached <= issuer /\ retired[cached] <= age + FetchBound
      BY <2>1, <2>7 DEF Dating
    <3>2. age \in 0..MaxAge /\ retired[cached] \in 0..MaxRetired /\ retired'[cached] \in Nat
      BY Zenon, <2>0, <3>1
    <3> QED
      BY SMTT(30), <2>1, <2>3, <2>4, <3>1, <3>2, Numbers
  <2> QED
    BY <2>5, <2>6, <2>7 DEF Dating
<1>11. ASSUME NEW g \in Verifiers, VerifyMalformed(g) \/ VerifyCached(g) PROVE Dating'
  BY <1>1, <1>11 DEF VerifyMalformed, VerifyCached
<1>12. CASE UNCHANGED vars
  BY <1>1, <1>12 DEF vars
<1> QED
  BY <1>2, <1>4, <1>5, <1>7, <1>8, <1>9, <1>10, <1>11, <1>12 DEF Next, Fetch

\* A verdict on a key set calls a token untrusted only when the set lacks its key.
LEMMA VerdictBlames ==
    ASSUME NEW k, NEW keys, NEW r \in Verdicts(k, keys), r = "UntrustedSource"
    PROVE  k \notin keys
  BY DEF Verdicts

\* Every step keeps a reason for each token that was called untrusted.
LEMMA NextBlaming == CacheInv /\ [Next]_vars => Blaming'
<1> SUFFICES ASSUME CacheInv, [Next]_vars, NEW g \in Verifiers, result'[g] = "UntrustedSource"
             PROVE  \E v \in Versions : kid'[g] \notin KeySets[v]
  BY DEF Blaming
<1> USE DEF CacheInv, TypeOK
<1>1. CASE result'[g] = result[g] /\ kid'[g] = kid[g]
  BY <1>1 DEF Blaming
<1>2. ASSUME NEW a \in Actors, RefreshFails(a) PROVE result'[g] = result[g] /\ kid'[g] = kid[g]
  BY <1>2 DEF RefreshFails
<1>3. ASSUME NEW a \in Actors, Put(a) PROVE \E v \in Versions : kid'[g] \notin KeySets[v]
  <2>1. CASE a # g
    BY <1>1, <1>3, <2>1 DEF Put
  <2>2. CASE a = g
    <3>1. answer[g] \in Versions
      BY <1>3, <2>2, Numbers DEF Put, Dating
    <3>2. result'[g] \in Verdicts(kid[g], KeySets[answer[g]]) /\ kid' = kid
      BY <1>3, <2>2 DEF Put
    <3> QED
      BY <3>1, <3>2, VerdictBlames
  <2> QED
    BY <2>1, <2>2
<1>4. ASSUME NEW d \in Verifiers, VerifyMalformed(d) \/ VerifyRefreshes(d)
      PROVE  result'[g] = result[g] /\ kid'[g] = kid[g]
  BY <1>4 DEF VerifyMalformed, VerifyRefreshes
<1>5. ASSUME NEW d \in Verifiers, VerifyCached(d) PROVE \E v \in Versions : kid'[g] \notin KeySets[v]
  <2>1. PICK k \in Kids : /\ kid' = [kid EXCEPT ![d] = k]
                         /\ \E r \in Verdicts(k, KeySets[cached]) : result' = [result EXCEPT ![d] = r]
    BY ZenonT(40), <1>5 DEF VerifyCached
  <2>2. CASE d # g
    BY <1>1, <2>1, <2>2
  <2>3. CASE d = g
    <3>1. cached \in Versions
      BY <1>5, Numbers DEF VerifyCached, Expired, Dating
    <3>2. kid'[g] = k /\ result'[g] \in Verdicts(k, KeySets[cached])
      BY <2>1, <2>3
    <3> QED
      BY <3>1, <3>2, VerdictBlames
  <2> QED
    BY <2>2, <2>3
<1>6. CASE UNCHANGED <<kid, result>>
  BY <1>1, <1>6
<1> QED
  BY <1>1, <1>2, <1>3, <1>4, <1>5, <1>6 DEF Next, Fetch, IssuerAnswers, BackgroundRefresh, Rotate,
     Tick, vars

\* The invariant of the cache holds throughout.
LEMMA CacheInvariance == Spec => []CacheInv
<1>1. CacheInv /\ [Next]_vars => CacheInv'
  BY NextType, NextServing, NextDating, NextBlaming DEF CacheInv
<1> QED
  BY InitCache, <1>1, PTL DEF Spec

-----------------------------------------------------------------------------

\* Whatever refreshes fail, overlap or overtake each other, a cache that has not expired
\* holds a key set, and one the issuer served no longer ago than ttl and one fetch.
THEOREM RecentCache == Spec => []CacheIsRecent
<1>1. CacheInv => CacheIsRecent
  BY Numbers DEF CacheInv, TypeOK, Dating, CacheIsRecent, Expired
<1> QED
  BY CacheInvariance, <1>1, PTL

\* A key that is in every set the issuer serves is trusted at every moment.
THEOREM StableKey == Spec => []StableKeyIsTrusted
<1>1. CacheInv => StableKeyIsTrusted
  BY DEF CacheInv, Blaming, StableKeyIsTrusted
<1> QED
  BY CacheInvariance, <1>1, PTL

\* The cache goes back to an older key set only by a refresh that was out when the newer
\* one was stored.
THEOREM Regression == Spec => RegressionNeedsOverlap
<1>1. CacheInv /\ [Next]_vars =>
        [cached' < cached => \E a \in Actors : proc[a] = "answered" /\ elapsed[a] >= age]_vars
  <2> SUFFICES ASSUME CacheInv, Next, cached' < cached
               PROVE  \E a \in Actors : proc[a] = "answered" /\ elapsed[a] >= age
    OBVIOUS
  <2>1. ASSUME NEW a \in Actors, Put(a) PROVE proc[a] = "answered" /\ elapsed[a] >= age
    <3>1. proc[a] = "answered" /\ cached' = answer[a]
      BY <2>1 DEF Put
    <3>2. elapsed[a] \in Nat /\ age \in Nat /\ answer[a] \in Nat /\ cached \in Nat
      BY Numbers DEF CacheInv, TypeOK, Nil
    <3> QED
      BY <3>1, <3>2 DEF CacheInv, Dating
  <2>2. cached \in Nat
    BY Numbers DEF CacheInv, TypeOK, Nil
  <2>3. cached' # cached
    BY <2>2
  <2> QED
    BY <2>1, <2>3 DEF Next, Fetch, IssuerAnswers, RefreshFails, VerifyMalformed, VerifyCached,
       VerifyRefreshes, BackgroundRefresh, Rotate, Tick, cacheVars
<1> QED
  BY CacheInvariance, <1>1, PTL DEF Spec, RegressionNeedsOverlap
==============================================================================
