------------------------------ MODULE JwksCache -------------------------------
(***************************************************************************)
(* jwtauth/remote.go: RemoteJWKSIssuer verifies tokens with the keys of a  *)
(* remote issuer. Verify calls and the background refresh fetch the key    *)
(* set concurrently and share jwksCache. The issuer rotates its keys       *)
(* meanwhile: KeySets is the sequence of sets it serves. Time is counted   *)
(* in ticks since the event that matters, saturating where nothing         *)
(* compares any more.                                                      *)
(***************************************************************************)
EXTENDS Naturals, Sequences

CONSTANTS Verifiers,   \* goroutines that call Verify
          Main,        \* the goroutine inside NewRemoteJWKSIssuer
          Refresher,   \* the background refresh goroutine
          Kids,        \* key ids
          KeySets,     \* the key sets the issuer serves, in order
          TTL,         \* cacheTTL, in ticks
          Refresh,     \* cacheRefresh, in ticks; 0: no background refresh
          FetchBound   \* longest fetch, in ticks (the http.Client's timeout)

ASSUME TTLAssumption == TTL \in Nat \ {0}
ASSUME RefreshAssumption == Refresh \in Nat
ASSUME FetchAssumption == FetchBound \in Nat
ASSUME KeySetsAssumption == KeySets \in Seq(SUBSET Kids) /\ KeySets # << >>
ASSUME ActorsAssumption == Main # Refresher /\ {Main, Refresher} \cap Verifiers = {}

Actors   == Verifiers \cup {Main, Refresher}
Versions == 1..Len(KeySets)
Nil      == 0

VARIABLES
    issuer,   \* the key set the issuer serves now
    retired,  \* per key set: ticks since the issuer stopped serving it
    cached,   \* jwksCache.cache: a key set or Nil
    age,      \* ticks since jwksCache.setTime
    proc,     \* per actor, in refreshCache: "idle", "sent", "answered"
    answer,   \* per actor: the key set in the issuer's answer
    elapsed,  \* per actor: ticks since the request was sent
    sleep,    \* ticks the refresher has slept
    started,  \* NewRemoteJWKSIssuer has returned
    kid,      \* per verifier: the key id of its token
    result    \* per verifier: what its last Verify returned

issuerVars == <<issuer, retired>>
cacheVars  == <<cached, age>>
fetchVars  == <<proc, answer, elapsed>>
vars == <<issuerVars, cacheVars, fetchVars, sleep, started, kid, result>>

MaxAge     == TTL + 1
MaxRetired == TTL + FetchBound + 1

Codes == {"none", "ok", "InvalidJWT", "Unknown", "UntrustedSource", "BadSignature"}

TypeOK ==
    /\ issuer \in Versions
    /\ retired \in [Versions -> 0..MaxRetired]
    /\ cached \in Versions \cup {Nil}
    /\ age \in 0..MaxAge
    /\ proc \in [Actors -> {"idle", "sent", "answered"}]
    /\ answer \in [Actors -> Versions \cup {Nil}]
    /\ elapsed \in [Actors -> 0..FetchBound]
    /\ sleep \in 0..Refresh
    /\ started \in BOOLEAN
    /\ kid \in [Verifiers -> Kids]
    /\ result \in [Verifiers -> Codes]

\* The constructor is in its first refreshCache. The zero setTime is older than any
\* ttl.
Init ==
    /\ issuer = 1
    /\ retired = [v \in Versions |-> 0]
    /\ cached = Nil
    /\ age = MaxAge
    /\ proc = [a \in Actors |-> IF a = Main THEN "sent" ELSE "idle"]
    /\ answer = [a \in Actors |-> Nil]
    /\ elapsed = [a \in Actors |-> 0]
    /\ sleep = 0
    /\ started = FALSE
    /\ kid \in [Verifiers -> Kids]
    /\ result = [g \in Verifiers |-> "none"]

-----------------------------------------------------------------------------
(* refreshCache *)

\* r.client.Get goes out.
Request(a) ==
    /\ proc' = [proc EXCEPT ![a] = "sent"]
    /\ elapsed' = [elapsed EXCEPT ![a] = 0]
    /\ UNCHANGED answer

\* The issuer answers with what it serves at that moment.
IssuerAnswers(a) ==
    /\ proc[a] = "sent"
    /\ proc' = [proc EXCEPT ![a] = "answered"]
    /\ answer' = [answer EXCEPT ![a] = issuer]
    /\ UNCHANGED <<issuerVars, cacheVars, elapsed, sleep, started, kid, result>>

\* Leaving refreshCache: the constructor returns, the refresher goes to sleep.
Leave(a) ==
    /\ proc' = [proc EXCEPT ![a] = "idle"]
    /\ answer' = [answer EXCEPT ![a] = Nil]
    /\ elapsed' = [elapsed EXCEPT ![a] = 0]
    /\ sleep' = IF a = Refresher THEN 0 ELSE sleep
    /\ started' = (started \/ a = Main)

\* Slip: a failed refresh renews setTime.
RefreshFailsRenews(a) ==
    /\ proc[a] # "idle"
    /\ Leave(a)
    /\ age' = IF cached = Nil THEN age ELSE 0
    /\ result' = IF a \in Verifiers THEN [result EXCEPT ![a] = "Unknown"] ELSE result
    /\ UNCHANGED <<issuerVars, cached, kid>>

\* Slip: a failed refresh empties the cache.
RefreshFailsClears(a) ==
    /\ proc[a] # "idle"
    /\ Leave(a)
    /\ cached' = Nil
    /\ age' = MaxAge
    /\ result' = IF a \in Verifiers THEN [result EXCEPT ![a] = "Unknown"] ELSE result
    /\ UNCHANGED <<issuerVars, kid>>

\* Slip: a Verify whose refresh fails goes on with no keys.
RefreshFailsUntrusted(a) ==
    /\ proc[a] # "idle"
    /\ Leave(a)
    /\ result' = IF a \in Verifiers THEN [result EXCEPT ![a] = "UntrustedSource"] ELSE result
    /\ UNCHANGED <<issuerVars, cacheVars, kid>>

\* Get fails, the status is not 200, the body cannot be read or is not a key set.
RefreshFails(a) ==
    /\ proc[a] # "idle"
    /\ Leave(a)
    /\ result' = IF a \in Verifiers THEN [result EXCEPT ![a] = "Unknown"] ELSE result
    /\ UNCHANGED <<issuerVars, cacheVars, kid>>

\* What Verify returns for key id k and a key set; token.Claims checks the signature.
Verdicts(k, keys) == IF k \in keys THEN {"ok", "BadSignature"} ELSE {"UntrustedSource"}

\* Slip: an answer already in the cache's place is never replaced.
PutOnce(a) ==
    /\ proc[a] = "answered"
    /\ cached' = IF cached = Nil THEN answer[a] ELSE cached
    /\ age' = 0
    /\ Leave(a)
    /\ UNCHANGED <<issuerVars, kid, result>>

\* jwksCache.Put, and the rest of a Verify on the key set it fetched itself.
Put(a) ==
    /\ proc[a] = "answered"
    /\ cached' = answer[a]
    /\ age' = 0
    /\ Leave(a)
    /\ \/ /\ a \in Verifiers
          /\ \E r \in Verdicts(kid[a], KeySets[answer[a]]) : result' = [result EXCEPT ![a] = r]
       \/ /\ a \notin Verifiers
          /\ UNCHANGED result
    /\ UNCHANGED <<issuerVars, kid>>

-----------------------------------------------------------------------------
(* Verify *)

Expired == TTL < age

Ready(g) == started /\ proc[g] = "idle"

\* A token must have one header.
VerifyMalformed(g) ==
    /\ Ready(g)
    /\ result' = [result EXCEPT ![g] = "InvalidJWT"]
    /\ UNCHANGED <<issuerVars, cacheVars, fetchVars, sleep, started, kid>>

\* getKey finds a fresh cache.
VerifyCached(g) ==
    /\ Ready(g)
    /\ ~Expired
    /\ \E k \in Kids :
          /\ kid' = [kid EXCEPT ![g] = k]
          /\ \E r \in Verdicts(k, KeySets[cached]) : result' = [result EXCEPT ![g] = r]
    /\ UNCHANGED <<issuerVars, cacheVars, fetchVars, sleep, started>>

\* getKey reports "Cache expired".
VerifyRefreshes(g) ==
    /\ Ready(g)
    /\ Expired
    /\ \E k \in Kids : kid' = [kid EXCEPT ![g] = k]
    /\ result' = [result EXCEPT ![g] = "none"]
    /\ Request(g)
    /\ UNCHANGED <<issuerVars, cacheVars, sleep, started>>

\* The background loop wakes up.
BackgroundRefresh ==
    /\ Refresh > 0
    /\ Ready(Refresher)
    /\ sleep = Refresh
    /\ Request(Refresher)
    /\ UNCHANGED <<issuerVars, cacheVars, sleep, started, kid, result>>

-----------------------------------------------------------------------------
(* The issuer and time *)

Rotate ==
    /\ issuer < Len(KeySets)
    /\ issuer' = issuer + 1
    /\ UNCHANGED <<retired, cacheVars, fetchVars, sleep, started, kid, result>>

UpTo(n, max) == IF n < max THEN n + 1 ELSE max

Tick ==
    /\ \A a \in Actors : proc[a] # "idle" => elapsed[a] < FetchBound
    /\ retired' = [v \in Versions |-> IF v < issuer THEN UpTo(retired[v], MaxRetired) ELSE 0]
    /\ age' = UpTo(age, MaxAge)
    /\ elapsed' = [a \in Actors |-> IF proc[a] = "idle" THEN 0 ELSE elapsed[a] + 1]
    /\ sleep' = IF Ready(Refresher) THEN UpTo(sleep, Refresh) ELSE sleep
    /\ UNCHANGED <<issuer, cached, proc, answer, started, kid, result>>

Fetch(a) == IssuerAnswers(a) \/ RefreshFails(a) \/ Put(a)

Next ==
    \/ \E a \in Actors : Fetch(a)
    \/ \E g \in Verifiers : VerifyMalformed(g) \/ VerifyCached(g) \/ VerifyRefreshes(g)
    \/ BackgroundRefresh \/ Rotate \/ Tick

Spec == Init /\ [][Next]_vars

\* Goroutines run, time passes, the client's timeout ends every fetch, and the
\* background refresh does not fail for ever.
Fairness ==
    /\ WF_vars(Tick)
    /\ WF_vars(BackgroundRefresh)
    /\ \A a \in Actors : WF_vars(Fetch(a))
    /\ SF_vars(IssuerAnswers(Refresher))
    /\ SF_vars(Put(Refresher))

FairSpec == Spec /\ Fairness

-----------------------------------------------------------------------------
(* Properties *)

\* getKey calls c.cache.Key with no nil test: a cache that has not expired holds a key
\* set, also when the issuer could not be reached at start-up and every refresh fails.
\* setTime is taken when the answer is stored, not when the issuer gave it, and a slow
\* answer may overwrite a newer one. The key set in the cache is still one the issuer
\* served no longer ago than the cache's age plus one fetch, so a withdrawn key is
\* trusted for at most ttl plus the duration of a fetch.
CacheIsRecent ==
    /\ ~Expired => cached # Nil
    /\ cached # Nil => retired[cached] <= age + FetchBound

\* A key the issuer never withdraws is never reported as an untrusted source, whatever
\* refreshes fail, overlap or arrive late.
StableKeyIsTrusted ==
    \A g \in Verifiers :
        (\A v \in Versions : kid[g] \in KeySets[v]) => result[g] # "UntrustedSource"

\* A refresh replaces the cached set by an older one only when it overlapped with the
\* refresh that stored the newer: its own request was out before that Put.
RegressionNeedsOverlap ==
    [][cached' < cached =>
          \E a \in Actors : proc[a] = "answered" /\ elapsed[a] >= age]_vars

\* With cacheRefresh > 0 the cache settles on the issuer's last key set with no help
\* from Verify, overtaking answers included.
CacheCatchesUp ==
    \A v \in Versions : <>[](issuer = v) => <>[](cached = v)
==============================================================================
