-------------------------- MODULE MarketServiceProofs --------------------------
(***************************************************************************)
(* What the historical REST service promises of its answers and of klines: *)
(* proofs of TypeOK, AnswerInOrder, LastResort and ClosedStays for any     *)
(* requests, limits, settings, number of candles and faults.               *)
(*                                                                         *)
(* An answer passes through three sources and a cache that other requests  *)
(* seed.  So every list on the way, in the cache or in the hands of a      *)
(* request, is in order and no longer than the settings allow (Lists), and *)
(* what a request hands on is not empty (Progress).                        *)
(***************************************************************************)
EXTENDS MarketService, SequenceTheorems, FiniteSetTheorems, TLAPS

\* What is shared: the cache is a list in order, and the pool somebody's.
Shared ==
  /\ warm \in BOOLEAN
  /\ pool \subseteq opened /\ opened \subseteq Requests
  /\ cache \in Seq(Items) /\ Len(cache) <= MaxKlineLimit /\ Ascending(cache)
  /\ klines \in [Candles -> {"none", "open", "closed"}]
  /\ now \in Candles
  /\ faults \in 0..MaxFaults

PerRequest ==
  /\ stage \in [Requests -> Stages]
  /\ limit \in [Requests -> Limits \cup {0}]
  /\ rows \in [Requests -> Seq(Items)]
  /\ origin \in [Requests -> {"none", "cache", "db", "rest", "mock", "error"}]
  /\ failed \in [Requests -> SUBSET FaultKinds]

\* The list in the hands of a request.
Lists(r) ==
  /\ Len(rows[r]) <= limit[r] /\ Len(rows[r]) <= MaxKlineLimit
  /\ Ascending(rows[r])

\* Where a request is, and what it has by then.
Progress(r) ==
  /\ stage[r] = "idle" => rows[r] = <<>>
  /\ stage[r] /= "idle" => limit[r] \in Limits
  /\ stage[r] /= "done" => origin[r] = "none"
  /\ stage[r] \in {"cache db rows", "cache rest rows", "open to seed", "seed"} =>
       rows[r] /= <<>>
  /\ origin[r] \in {"cache", "db", "rest"} => rows[r] /= <<>>

\* Why an answer is invented or an error.
Excused(r) ==
  /\ origin[r] = "mock"  => "http" \in failed[r]
  /\ origin[r] = "error" => "body" \in failed[r]

ServiceInv ==
  Shared /\ PerRequest /\ \A r \in Requests : Lists(r) /\ Progress(r) /\ Excused(r)

-----------------------------------------------------------------------------
\* A finite set of items with a number each of its own, as its members are listed.
Distinct(S) == \A x, y \in S : x.n = y.n => x = y

Below(S, x) == {y \in S : y.n < x.n}
Rank(S) == [x \in S |-> Cardinality(Below(S, x)) + 1]

LEMMA RankType ==
  ASSUME NEW S \in SUBSET Items, IsFiniteSet(S), NEW x \in S
  PROVE  /\ Cardinality(S) \in Nat
         /\ Cardinality(Below(S, x)) \in 0..(Cardinality(S) - 1)
<1>1. Below(S, x) \in SUBSET (S \ {x})
  BY DEF Below, Items, Candles
<1>2. /\ IsFiniteSet(S \ {x}) /\ Cardinality(S \ {x}) = Cardinality(S) - 1
      /\ Cardinality(S) \in Nat
  BY FS_RemoveElement, FS_CardinalityType
<1>3. /\ IsFiniteSet(Below(S, x))
      /\ Cardinality(Below(S, x)) <= Cardinality(S) - 1
  BY <1>1, <1>2, FS_Subset
<1>4. Cardinality(Below(S, x)) \in Nat
  BY <1>3, FS_CardinalityType
<1> QED
  BY <1>2, <1>3, <1>4

LEMMA RankLess ==
  ASSUME NEW S \in SUBSET Items, IsFiniteSet(S), NEW x \in S, NEW y \in S, x.n < y.n
  PROVE  Cardinality(Below(S, x)) < Cardinality(Below(S, y))
<1>1. /\ IsFiniteSet(Below(S, y)) /\ IsFiniteSet(Below(S, x))
      /\ Cardinality(Below(S, y)) \in Nat /\ Cardinality(Below(S, x)) \in Nat
  <2>1. Below(S, x) \in SUBSET S /\ Below(S, y) \in SUBSET S
    BY DEF Below
  <2> QED
    BY <2>1, FS_Subset, FS_CardinalityType
<1>2. x \in Below(S, y) /\ x \notin Below(S, x) /\ Below(S, x) \in SUBSET Below(S, y)
  BY MarketServiceAssumption DEF Below, Items, Candles
<1>3. /\ Cardinality(Below(S, x)) <= Cardinality(Below(S, y))
      /\ Cardinality(Below(S, x)) /= Cardinality(Below(S, y))
  BY <1>1, <1>2, FS_Subset
<1> QED
  BY <1>1, <1>3

\* Each place of the list has exactly one item that belongs there.
LEMMA RankOnto ==
  ASSUME NEW S \in SUBSET Items, IsFiniteSet(S), Distinct(S)
  PROVE  \A i \in 1..Cardinality(S) : \E x \in S : Cardinality(Below(S, x)) = i - 1
<1>1. Cardinality(S) \in Nat
  BY FS_CardinalityType
<1>2. /\ IsFiniteSet(1..Cardinality(S))
      /\ Cardinality(1..Cardinality(S)) = Cardinality(S)
  BY <1>1, FS_Interval
<1>3. Rank(S) \in [S -> 1..Cardinality(S)]
  BY <1>1, RankType DEF Rank
<1>4. ASSUME NEW x \in S, NEW y \in S, Rank(S)[x] = Rank(S)[y]
      PROVE  x = y
  <2>1. /\ Cardinality(Below(S, x)) \in Nat /\ Cardinality(Below(S, y)) \in Nat
        /\ Cardinality(Below(S, x)) = Cardinality(Below(S, y))
    BY <1>1, <1>4, RankType DEF Rank
  <2>2. ~(x.n < y.n) /\ ~(y.n < x.n)
    BY <2>1, RankLess
  <2>3. x.n \in Int /\ y.n \in Int
    BY MarketServiceAssumption DEF Items, Candles
  <2> QED
    BY <2>2, <2>3 DEF Distinct
<1>5. Rank(S) \in Injection(S, 1..Cardinality(S))
  BY <1>3, <1>4 DEF Injection, IsInjective
<1>6. Rank(S) \in Surjection(S, 1..Cardinality(S))
  BY <1>2, <1>5, FS_Injection
<1>7. ASSUME NEW i \in 1..Cardinality(S)
      PROVE  \E x \in S : Cardinality(Below(S, x)) = i - 1
  <2>1. PICK x \in S : Rank(S)[x] = i
    BY <1>6 DEF Surjection
  <2>2. Cardinality(Below(S, x)) \in Nat /\ Cardinality(Below(S, x)) + 1 = i
    BY <1>1, <2>1, RankType DEF Rank
  <2> QED
    BY <2>2
<1> QED
  BY <1>7

\* ORDER BY: all of the items, each once, in ascending order.
LEMMA InOrderLists ==
  ASSUME NEW S \in SUBSET Items, IsFiniteSet(S), Distinct(S)
  PROVE  /\ InOrder(S) \in Seq(Items) /\ Len(InOrder(S)) = Cardinality(S)
         /\ Ascending(InOrder(S))
<1> DEFINE s == InOrder(S)
<1>1. Cardinality(S) \in Nat
  BY FS_CardinalityType
<1>2. s = [i \in 1..Cardinality(S) |-> CHOOSE x \in S : Cardinality(Below(S, x)) = i - 1]
  BY DEF InOrder, Below
<1>3. \A i \in 1..Cardinality(S) : s[i] \in S /\ Cardinality(Below(S, s[i])) = i - 1
  <2> HIDE DEF s
  <2> QED
    BY <1>2, RankOnto
<1>4. s \in Seq(Items) /\ Len(s) = Cardinality(S)
  <2> HIDE DEF s
  <2> QED
    BY <1>1, <1>2, <1>3
<1>5. ASSUME NEW i \in 1..(Len(s) - 1)
      PROVE  s[i].n < s[i + 1].n
  <2>1. i \in 1..Cardinality(S) /\ i + 1 \in 1..Cardinality(S)
    BY <1>1, <1>4
  <2>2. /\ s[i] \in S /\ Cardinality(Below(S, s[i])) = i - 1
        /\ s[i + 1] \in S /\ Cardinality(Below(S, s[i + 1])) = i
    BY <1>3, <2>1
  <2> HIDE DEF s
  <2>3. ~(s[i + 1].n < s[i].n)
    BY <2>1, <2>2, RankLess
  <2>4. s[i].n /= s[i + 1].n
    BY <2>1, <2>2 DEF Distinct
  <2>5. s[i].n \in Int /\ s[i + 1].n \in Int
    BY <2>2, MarketServiceAssumption DEF Items, Candles
  <2> QED
    BY <2>3, <2>4, <2>5
<1> QED
  BY <1>4, <1>5 DEF Ascending

\* rows[-k:]
LEMMA LastOfLists ==
  ASSUME NEW s \in Seq(Items), NEW k \in Nat \ {0}, Ascending(s)
  PROVE  /\ LastOf(s, k) \in Seq(Items) /\ Ascending(LastOf(s, k))
         /\ Len(LastOf(s, k)) <= k /\ Len(LastOf(s, k)) <= Len(s)
         /\ s /= <<>> => LastOf(s, k) /= <<>>
<1>1. Len(s) \in Nat
  OBVIOUS
<1>2. CASE Len(s) <= k
  BY <1>1, <1>2 DEF LastOf
<1>3. CASE Len(s) > k
  <2> DEFINE m == Len(s) - k + 1
             t == SubSeq(s, m, Len(s))
  <2>1. LastOf(s, k) = t
    BY <1>1, <1>3 DEF LastOf
  <2>2. m \in 1..Len(s) /\ Len(s) - m + 1 = k
    BY <1>1, <1>3
  <2>3. \A j \in m..Len(s) : s[j] \in Items
    BY <1>1, <2>2
  <2>4. t \in Seq(Items) /\ Len(t) = k /\ \A j \in 1..k : t[j] = s[m + j - 1]
    <3> HIDE DEF m
    <3> QED
      BY <1>1, <2>2, <2>3, SubSeqProperties
  <2>5. ASSUME NEW j \in 1..(k - 1)
        PROVE  t[j].n < t[j + 1].n
    <3>1. j \in 1..k /\ j + 1 \in 1..k
      OBVIOUS
    <3>2. t[j] = s[m + j - 1] /\ t[j + 1] = s[m + (j + 1) - 1]
      <4> HIDE DEF t
      <4> QED
        BY <2>4, <3>1
    <3>3. /\ m + j - 1 \in 1..(Len(s) - 1) /\ m + (j + 1) - 1 = (m + j - 1) + 1
      BY <1>1, <1>3
    <3> HIDE DEF t, m
    <3> QED
      BY <3>2, <3>3 DEF Ascending
  <2>6. t /= <<>>
    BY <2>4
  <2> HIDE DEF t, m
  <2> QED
    BY <1>1, <1>3, <2>1, <2>4, <2>5, <2>6 DEF Ascending
<1> QED
  BY <1>1, <1>2, <1>3

LEMMA LesserNat ==
  ASSUME NEW a \in Nat \ {0}, NEW b \in Nat \ {0}
  PROVE  /\ Lesser(a, b) \in Nat \ {0} /\ Lesser(a, b) <= a /\ Lesser(a, b) <= b
BY DEF Lesser

\* A set of items of different candles.
LEMMA CandlesFinite ==
  ASSUME NEW S \in SUBSET Items, Distinct(S)
  PROVE  IsFiniteSet(S)
<1> DEFINE f == [x \in S |-> x.n]
<1>1. f \in Injection(S, Candles)
  BY DEF Injection, IsInjective, Distinct, Items
<1>2. IsFiniteSet(Candles)
  BY MarketServiceAssumption, FS_Interval DEF Candles
<1> QED
  BY <1>1, <1>2, FS_Injection

\* The rows of klines, and what the API has, as a request gets them.
LEMMA StoredLists ==
  ASSUME klines \in [Candles -> {"none", "open", "closed"}]
  PROVE  Stored \in SUBSET Items /\ Distinct(Stored) /\ IsFiniteSet(Stored)
<1>1. Stored \in SUBSET Items /\ Distinct(Stored)
  BY DEF Stored, Item, Items, Distinct
<1> QED
  BY <1>1, CandlesFinite

LEMMA ExchangeLists ==
  ASSUME now \in Candles
  PROVE  /\ OnExchange \in SUBSET Items /\ Distinct(OnExchange)
         /\ IsFiniteSet(OnExchange) /\ OnExchange /= {}
<1>1. now \in Nat /\ 1 \in 1..now /\ 1..now \subseteq Candles
  BY MarketServiceAssumption DEF Candles
<1>2. OnExchange \in SUBSET Items /\ Distinct(OnExchange)
  BY <1>1 DEF OnExchange, Item, Items, Distinct
<1>3. OnExchange /= {}
  BY <1>1 DEF OnExchange
<1> QED
  BY <1>2, <1>3, CandlesFinite

LEMMA SourceLists ==
  ASSUME NEW S \in SUBSET Items, IsFiniteSet(S), Distinct(S), NEW k \in Nat \ {0}
  PROVE  /\ LastOf(InOrder(S), k) \in Seq(Items)
         /\ Ascending(LastOf(InOrder(S), k))
         /\ Len(LastOf(InOrder(S), k)) <= k
         /\ S /= {} => LastOf(InOrder(S), k) /= <<>>
<1>1. /\ InOrder(S) \in Seq(Items) /\ Len(InOrder(S)) = Cardinality(S)
      /\ Ascending(InOrder(S))
  BY InOrderLists
<1>2. S /= {} => InOrder(S) /= <<>>
  <2>1. S /= {} => Cardinality(S) /= 0
    BY FS_EmptySet
  <2> QED
    BY <1>1, <2>1
<1> QED
  BY <1>1, <1>2, LastOfLists

LEMMA InsertedKeeps ==
  ASSUME klines \in [Candles -> {"none", "open", "closed"}], NEW s \in Seq(Items)
  PROVE  /\ Inserted(s) \in [Candles -> {"none", "open", "closed"}]
         /\ \A n \in Candles : klines[n] /= "none" => Inserted(s)[n] = klines[n]
<1>1. \A i \in DOMAIN s : s[i].kind \in {"open", "closed"}
  <2>1. \A i \in DOMAIN s : s[i] \in Items
    OBVIOUS
  <2> QED
    BY <2>1 DEF Items
<1>2. \A n : (\E i \in DOMAIN s : s[i].n = n) =>
             s[CHOOSE i \in DOMAIN s : s[i].n = n].kind \in {"open", "closed"}
  BY <1>1
<1> QED
  BY <1>2 DEF Inserted

-----------------------------------------------------------------------------
\* The list of a request that has asked for nothing yet.
LEMMA NoRows == <<>> \in Seq(Items) /\ Len(<<>>) = 0 /\ Ascending(<<>>)
BY DEF Ascending

LEMMA NoRowsFit ==
  /\ \A l \in Limits : Len(<<>>) <= l
  /\ Len(<<>>) <= MaxKlineLimit
<1>1. Len(<<>>) = 0
  OBVIOUS
<1>2. \A n \in Nat : 0 <= n
  OBVIOUS
<1>3. MaxKlineLimit \in Nat /\ \A l \in Limits : l \in Nat
  BY MarketServiceAssumption
<1>4. \A l \in Limits : 0 <= l
  BY <1>2, <1>3
<1>5. 0 <= MaxKlineLimit
  BY <1>2, <1>3
<1> QED
  BY <1>1, <1>4, <1>5

LEMMA InitService == Init => ServiceInv
<1> SUFFICES ASSUME Init PROVE ServiceInv
  OBVIOUS
<1>1. <<>> \in Seq(Items) /\ Len(<<>>) = 0 /\ Ascending(<<>>)
  BY NoRows
<1>2. Shared
  <2>1. /\ cache = <<>> /\ now \in Candles /\ faults \in 0..MaxFaults
        /\ 0 <= MaxKlineLimit
    BY MarketServiceAssumption DEF Init, Candles
  <2>2. /\ warm \in BOOLEAN /\ pool = {} /\ opened = {}
        /\ klines \in [Candles -> {"none", "open", "closed"}]
    BY DEF Init
  <2> QED
    BY <1>1, <2>1, <2>2 DEF Shared
<1>3. PerRequest
  BY <1>1 DEF Init, PerRequest, Stages
<1>4. ASSUME NEW r \in Requests
      PROVE  Lists(r) /\ Progress(r) /\ Excused(r)
  BY <1>1, MarketServiceAssumption DEF Init, Lists, Progress, Excused
<1> QED
  BY <1>2, <1>3, <1>4 DEF ServiceInv

LEMMA ServiceTypes == ServiceInv => TypeOK /\ AnswerInOrder /\ LastResort
BY DEF ServiceInv, Shared, PerRequest, Lists, Progress, Excused, TypeOK, AnswerInOrder,
       LastResort

LEMMA FaultTyped ==
  ASSUME Shared, PerRequest, NEW r \in Requests, NEW kind
  PROVE  /\ Fault(kind) => faults' \in 0..MaxFaults
         /\ FaultOf(r, kind) =>
              /\ faults' \in 0..MaxFaults
              /\ failed' \in [Requests -> SUBSET FaultKinds]
              /\ kind \in failed'[r]
              /\ \A q \in Requests : failed[q] \subseteq failed'[q]
<1>1. Fault(kind) => faults' \in 0..MaxFaults /\ kind \in FaultKinds
  BY MarketServiceAssumption DEF Shared, Fault
<1> QED
  BY <1>1 DEF FaultOf, PerRequest

Origins == {"none", "cache", "db", "rest", "mock", "error"}
Handing == {"cache db rows", "cache rest rows", "open to seed", "seed"}

\* A step of one request leaves the others alone.
Others(r) ==
  \A q \in Requests \ {r} :
    /\ stage'[q] = stage[q] /\ limit'[q] = limit[q]
    /\ rows'[q] = rows[q] /\ origin'[q] = origin[q]

LEMMA RequestMoves ==
  ASSUME ServiceInv, Shared', NEW r \in Requests, PerRequest', Others(r),
         \A q \in Requests : failed[q] \subseteq failed'[q],
         stage'[r] /= "idle", limit'[r] \in Limits,
         Len(rows'[r]) <= limit'[r], Len(rows'[r]) <= MaxKlineLimit,
         Ascending(rows'[r]),
         stage'[r] /= "done" => origin'[r] = "none",
         stage'[r] \in Handing \/ origin'[r] \in {"cache", "db", "rest"} =>
           rows'[r] /= <<>>,
         origin'[r] = "mock" => "http" \in failed'[r],
         origin'[r] = "error" => "body" \in failed'[r]
  PROVE  ServiceInv'
<1>1. ASSUME NEW q \in Requests \ {r}
      PROVE  Lists(q)' /\ Progress(q)' /\ Excused(q)'
  <2>1. Lists(q) /\ Progress(q) /\ Excused(q)
    BY DEF ServiceInv
  <2> QED
    BY <2>1 DEF Others, Lists, Progress, Excused
<1>2. Lists(r)' /\ Progress(r)' /\ Excused(r)'
  BY DEF Lists, Progress, Excused, Handing
<1> QED
  BY <1>1, <1>2 DEF ServiceInv

\* The four parts of a request that a step may set.
LEMMA RequestTyped ==
  ASSUME PerRequest, NEW r \in Requests,
         \/ UNCHANGED stage
         \/ \E s \in Stages : stage' = [stage EXCEPT ![r] = s],
         \/ UNCHANGED limit
         \/ \E l \in Limits : limit' = [limit EXCEPT ![r] = l],
         \/ UNCHANGED rows
         \/ \E x \in Seq(Items) : rows' = [rows EXCEPT ![r] = x],
         \/ UNCHANGED origin
         \/ \E o \in Origins : origin' = [origin EXCEPT ![r] = o],
         \/ UNCHANGED failed
         \/ \E kind \in FaultKinds : failed' = [failed EXCEPT ![r] = @ \cup {kind}]
  PROVE  /\ PerRequest' /\ Others(r)
         /\ \A q \in Requests : failed[q] \subseteq failed'[q]
<1>1. /\ stage' \in [Requests -> Stages]
      /\ \A q \in Requests \ {r} : stage'[q] = stage[q]
  BY DEF PerRequest
<1>2. /\ limit' \in [Requests -> Limits \cup {0}]
      /\ \A q \in Requests \ {r} : limit'[q] = limit[q]
  BY DEF PerRequest
<1>3. /\ rows' \in [Requests -> Seq(Items)]
      /\ \A q \in Requests \ {r} : rows'[q] = rows[q]
  BY DEF PerRequest
<1>4. /\ origin' \in [Requests -> Origins]
      /\ \A q \in Requests \ {r} : origin'[q] = origin[q]
  BY DEF PerRequest, Origins
<1>5. /\ failed' \in [Requests -> SUBSET FaultKinds]
      /\ \A q \in Requests : failed[q] \subseteq failed'[q]
  <2>1. failed \in [Requests -> SUBSET FaultKinds]
    BY DEF PerRequest
  <2>2. CASE UNCHANGED failed
    BY <2>1, <2>2
  <2>3. CASE \E kind \in FaultKinds : failed' = [failed EXCEPT ![r] = @ \cup {kind}]
    <3>1. PICK kind \in FaultKinds : failed' = [failed EXCEPT ![r] = @ \cup {kind}]
      BY <2>3
    <3>2. failed[r] \cup {kind} \in SUBSET FaultKinds
      BY <2>1
    <3> QED
      BY <2>1, <3>1, <3>2
  <2> QED
    BY <2>2, <2>3
<1> QED
  BY <1>1, <1>2, <1>3, <1>4, <1>5 DEF PerRequest, Others, Origins

\* Of what the service shares, the exchange, the other writers and the expiry of
\* the cache change one thing each; the requests go on with their lists.
LEMMA SharedStep ==
  ASSUME ServiceInv, UNCHANGED <<request, failed>>, Shared'
  PROVE  ServiceInv'
<1>1. PerRequest'
  BY DEF ServiceInv, PerRequest, request
<1>2. ASSUME NEW r \in Requests
      PROVE  Lists(r)' /\ Progress(r)' /\ Excused(r)'
  <2>1. Lists(r) /\ Progress(r) /\ Excused(r)
    BY DEF ServiceInv
  <2> QED
    BY <2>1 DEF Lists, Progress, Excused, request
<1> QED
  BY <1>1, <1>2 DEF ServiceInv

LEMMA SurroundingsStep ==
  ASSUME ServiceInv,
         \/ Preload \/ PreloadFails \/ Expire \/ CloseCandle
         \/ \E n \in Candles : StoreLive(n) \/ Recover(n)
         \/ UNCHANGED vars
  PROVE  ServiceInv'
<1> USE DEF pools, ghosts
<1>0. Shared
  BY DEF ServiceInv
<1>1. CASE Preload
  <2>1. cache' \in Seq(Items) /\ Len(cache') <= MaxKlineLimit /\ Ascending(cache')
    <3>1. CASE CacheEnabled
      <4>1. cache' = LastOf(InOrder(OnExchange), Lesser(CacheLimit, MaxKlineLimit))
        BY <1>1, <3>1 DEF Preload
      <4>2. /\ Lesser(CacheLimit, MaxKlineLimit) \in Nat \ {0}
            /\ Lesser(CacheLimit, MaxKlineLimit) <= MaxKlineLimit
        BY LesserNat, MarketServiceAssumption
      <4>3. /\ cache' \in Seq(Items) /\ Ascending(cache')
            /\ Len(cache') <= Lesser(CacheLimit, MaxKlineLimit)
        BY <1>0, <4>1, <4>2, ExchangeLists, SourceLists DEF Shared
      <4>4. Len(cache') \in Nat
        BY <4>3
      <4> QED
        BY <4>2, <4>3, <4>4, MarketServiceAssumption
    <3>2. CASE ~CacheEnabled
      BY <1>0, <1>1, <3>2 DEF Preload, Shared
    <3> QED
      BY <3>1, <3>2
  <2> QED
    BY <1>0, <1>1, <2>1, SharedStep DEF Preload, Shared, Ascending
<1>2. CASE PreloadFails
  <2>1. faults' \in 0..MaxFaults
    BY <1>0, <1>2, MarketServiceAssumption DEF PreloadFails, Fault, Shared
  <2> QED
    BY <1>0, <1>2, <2>1, SharedStep DEF PreloadFails, Shared, Ascending
<1>3. CASE Expire
  <2>1. cache' \in Seq(Items) /\ Len(cache') = 0
    BY <1>3 DEF Expire
  <2>2. Ascending(cache')
    BY <2>1 DEF Ascending
  <2> QED
    BY <1>0, <1>3, <2>1, <2>2, SharedStep, MarketServiceAssumption
       DEF Expire, Shared, Ascending
<1>4. CASE CloseCandle
  <2>1. now' \in Candles
    BY <1>0, <1>4, MarketServiceAssumption DEF CloseCandle, Shared, Candles
  <2> QED
    BY <1>0, <1>4, <2>1, SharedStep DEF CloseCandle, Shared, Ascending
<1>5. CASE \E n \in Candles : StoreLive(n) \/ Recover(n)
  <2>1. PICK n \in Candles : StoreLive(n) \/ Recover(n)
    BY <1>5
  <2>2. <<Item(n, "closed")>> \in Seq(Items)
    BY DEF Item, Items
  <2>3. klines' \in [Candles -> {"none", "open", "closed"}]
    BY <1>0, <2>1, <2>2, InsertedKeeps DEF StoreLive, Recover, Shared
  <2>4. UNCHANGED <<warm, request, pool, opened, cache, now, failed, faults>>
    BY <2>1 DEF StoreLive, Recover
  <2> QED
    BY <1>0, <2>3, <2>4, SharedStep DEF Shared, Ascending
<1>6. CASE UNCHANGED vars
  BY <1>0, <1>6, SharedStep DEF vars, Shared, Ascending
<1> QED
  BY <1>1, <1>2, <1>3, <1>4, <1>5, <1>6

\* What the lemmas about single steps of a request start from.
LEMMA RequestFacts ==
  ASSUME ServiceInv, NEW r \in Requests
  PROVE  /\ Shared /\ PerRequest /\ Lists(r) /\ Progress(r) /\ Excused(r)
         /\ stage[r] \in Stages /\ rows[r] \in Seq(Items)
         /\ origin[r] \in Origins /\ failed[r] \in SUBSET FaultKinds
BY DEF ServiceInv, PerRequest, Origins

LEMMA AskStep ==
  ASSUME ServiceInv, NEW r \in Requests, NEW l \in Limits, Ask(r, l)
  PROVE  ServiceInv'
<1>1. Shared' /\ UNCHANGED <<rows, origin, failed>>
  BY RequestFacts DEF Ask, Shared, Ascending, pools, ghosts
<1>2. PICK s \in {"cache", "read", "open to read"} : stage' = [stage EXCEPT ![r] = s]
  BY DEF Ask, NeedPool, Goto, Opening
<1>3. /\ rows[r] = <<>> /\ origin[r] = "none"
  BY RequestFacts DEF Ask, Progress
<1>4. Len(rows[r]) <= l /\ Len(rows[r]) <= MaxKlineLimit /\ Ascending(rows[r])
  BY <1>3, NoRows, NoRowsFit
<1>5. s \in Stages /\ limit' = [limit EXCEPT ![r] = l]
  BY DEF Ask, Stages
<1>6. /\ PerRequest' /\ Others(r)
      /\ \A q \in Requests : failed[q] \subseteq failed'[q]
  BY <1>1, <1>2, <1>5, RequestFacts, RequestTyped
<1>7. stage'[r] = s /\ limit'[r] = l
  BY <1>2, <1>5, RequestFacts DEF PerRequest
<1>8. stage'[r] /= "idle" /\ stage'[r] \notin Handing
  BY <1>7 DEF Handing
<1>9. /\ limit'[r] \in Limits /\ rows'[r] = rows[r] /\ origin'[r] = "none"
      /\ Len(rows'[r]) <= limit'[r] /\ Len(rows'[r]) <= MaxKlineLimit
      /\ Ascending(rows'[r])
  BY <1>1, <1>3, <1>4, <1>7
<1> QED
  BY <1>1, <1>6, <1>8, <1>9, RequestMoves

\* The answers of the three sources.
LEMMA ReadCacheStep ==
  ASSUME ServiceInv, NEW r \in Requests, ReadCache(r)
  PROVE  ServiceInv'
<1>0. Shared
  BY DEF ServiceInv
<1>1. Shared' /\ UNCHANGED <<limit, failed>>
  BY <1>0 DEF ReadCache, Shared, Ascending, pools, ghosts
<1>2. limit[r] \in Limits /\ limit[r] \in Nat \ {0} /\ origin[r] = "none"
  BY RequestFacts, MarketServiceAssumption DEF ReadCache, Progress
<1> DEFINE x == LastOf(cache, limit[r])
<1>3. /\ x \in Seq(Items) /\ Ascending(x) /\ Len(x) <= limit[r]
      /\ Len(x) <= MaxKlineLimit
      /\ cache /= <<>> => x /= <<>>
  <2>1. /\ x \in Seq(Items) /\ Ascending(x) /\ Len(x) <= limit[r]
        /\ Len(x) <= Len(cache)
        /\ cache /= <<>> => x /= <<>>
    BY <1>0, <1>2, LastOfLists DEF Shared
  <2>2. Len(x) \in Nat /\ Len(cache) \in Nat /\ Len(cache) <= MaxKlineLimit
    BY <1>0, <2>1 DEF Shared
  <2> QED
    BY <2>1, <2>2, MarketServiceAssumption
<1>4. rows' = [rows EXCEPT ![r] = x]
  BY DEF ReadCache
<1> HIDE DEF x
<1>5. PICK s \in Stages, o \in Origins :
        /\ stage' = [stage EXCEPT ![r] = s] /\ origin' = [origin EXCEPT ![r] = o]
        /\ \/ s = "done" /\ o = "cache" /\ cache /= <<>>
           \/ s \in {"read", "open to read"} /\ o = "none"
  <2>1. CASE cache /= <<>>
    BY <2>1 DEF ReadCache, Answer, Goto, Stages, Origins
  <2>2. CASE cache = <<>>
    <3>1. UNCHANGED origin /\ NeedPool(r, "read")
      BY <2>2 DEF ReadCache
    <3>2. origin' = [origin EXCEPT ![r] = "none"]
      BY <1>2, <3>1, RequestFacts DEF PerRequest
    <3> QED
      BY <3>1, <3>2 DEF NeedPool, Goto, Opening, Stages, Origins
  <2> QED
    BY <2>1, <2>2
<1>6. /\ PerRequest' /\ Others(r)
      /\ \A q \in Requests : failed[q] \subseteq failed'[q]
  BY <1>1, <1>3, <1>4, <1>5, RequestFacts, RequestTyped
<1>7. stage'[r] = s /\ origin'[r] = o /\ rows'[r] = x /\ limit'[r] = limit[r]
  BY <1>1, <1>4, <1>5, RequestFacts DEF PerRequest
<1>8. /\ s /= "idle" /\ s \notin Handing
      /\ s /= "done" => o = "none"
      /\ o \notin {"mock", "error"} /\ (o \in {"cache", "db", "rest"} => x /= <<>>)
  BY <1>3, <1>5 DEF Handing
<1> QED
  BY <1>1, <1>2, <1>3, <1>6, <1>7, <1>8, RequestMoves

LEMMA ReadDbStep ==
  ASSUME ServiceInv, NEW r \in Requests, ReadDb(r)
  PROVE  ServiceInv'
<1>0. Shared
  BY DEF ServiceInv
<1>1. Shared' /\ UNCHANGED <<limit, origin, failed>>
  BY <1>0 DEF ReadDb, Shared, Ascending, pools, ghosts
<1>2. limit[r] \in Limits /\ limit[r] \in Nat \ {0} /\ origin[r] = "none"
  BY RequestFacts, MarketServiceAssumption DEF ReadDb, Progress
<1> DEFINE x == LastOf(InOrder(Stored), Lesser(limit[r], MaxKlineLimit))
<1>3. /\ x \in Seq(Items) /\ Ascending(x) /\ Len(x) <= limit[r]
      /\ Len(x) <= MaxKlineLimit
  <2>1. /\ Lesser(limit[r], MaxKlineLimit) \in Nat \ {0}
        /\ Lesser(limit[r], MaxKlineLimit) <= limit[r]
        /\ Lesser(limit[r], MaxKlineLimit) <= MaxKlineLimit
    BY <1>2, LesserNat, MarketServiceAssumption
  <2>2. /\ x \in Seq(Items) /\ Ascending(x)
        /\ Len(x) <= Lesser(limit[r], MaxKlineLimit)
    BY <1>0, <2>1, StoredLists, SourceLists DEF Shared
  <2>3. Len(x) \in Nat
    BY <2>2
  <2> QED
    BY <1>2, <2>1, <2>2, <2>3, MarketServiceAssumption
<1> DEFINE s == IF x = <<>> THEN "rest" ELSE "cache db rows"
<1>4. rows' = [rows EXCEPT ![r] = x] /\ stage' = [stage EXCEPT ![r] = s]
  BY DEF ReadDb, Goto
<1> HIDE DEF x
<1>5. s \in Stages
  BY DEF Stages
<1>6. /\ PerRequest' /\ Others(r)
      /\ \A q \in Requests : failed[q] \subseteq failed'[q]
  <2> HIDE DEF s
  <2> QED
    BY <1>1, <1>3, <1>4, <1>5, RequestFacts, RequestTyped
<1>7. stage'[r] = s /\ origin'[r] = "none" /\ rows'[r] = x /\ limit'[r] = limit[r]
  BY <1>1, <1>2, <1>4, RequestFacts DEF PerRequest
<1> QED
  BY <1>1, <1>2, <1>3, <1>6, <1>7, RequestMoves DEF Handing

LEMMA FetchRestStep ==
  ASSUME ServiceInv, NEW r \in Requests, FetchRest(r)
  PROVE  ServiceInv'
<1>0. Shared
  BY DEF ServiceInv
<1>1. Shared' /\ UNCHANGED <<limit, origin, failed>>
  BY <1>0 DEF FetchRest, Shared, Ascending, pools, ghosts
<1>2. limit[r] \in Limits /\ limit[r] \in Nat \ {0} /\ origin[r] = "none"
  BY RequestFacts, MarketServiceAssumption DEF FetchRest, Progress
<1> DEFINE x == LastOf(InOrder(OnExchange), Lesser(limit[r], MaxKlineLimit))
<1>3. /\ x \in Seq(Items) /\ Ascending(x) /\ Len(x) <= limit[r]
      /\ Len(x) <= MaxKlineLimit /\ x /= <<>>
  <2>1. /\ Lesser(limit[r], MaxKlineLimit) \in Nat \ {0}
        /\ Lesser(limit[r], MaxKlineLimit) <= limit[r]
        /\ Lesser(limit[r], MaxKlineLimit) <= MaxKlineLimit
    BY <1>2, LesserNat, MarketServiceAssumption
  <2>2. /\ x \in Seq(Items) /\ Ascending(x) /\ x /= <<>>
        /\ Len(x) <= Lesser(limit[r], MaxKlineLimit)
    BY <1>0, <2>1, ExchangeLists, SourceLists DEF Shared
  <2>3. Len(x) \in Nat
    BY <2>2
  <2> QED
    BY <1>2, <2>1, <2>2, <2>3, MarketServiceAssumption
<1>4. /\ rows' = [rows EXCEPT ![r] = x] /\ "cache rest rows" \in Stages
      /\ stage' = [stage EXCEPT ![r] = "cache rest rows"]
  BY DEF FetchRest, Goto, Stages
<1> HIDE DEF x
<1>5. /\ PerRequest' /\ Others(r)
      /\ \A q \in Requests : failed[q] \subseteq failed'[q]
  BY <1>1, <1>3, <1>4, RequestFacts, RequestTyped
<1>6. /\ stage'[r] = "cache rest rows" /\ origin'[r] = "none" /\ rows'[r] = x
      /\ limit'[r] = limit[r]
  BY <1>1, <1>2, <1>4, RequestFacts DEF PerRequest
<1> QED
  BY <1>1, <1>2, <1>3, <1>5, <1>6, RequestMoves DEF Handing

\* A step after which the request has the rows it had.
LEMMA SameRowsStep ==
  ASSUME ServiceInv, NEW r \in Requests, Shared', stage[r] \notin {"idle", "done"},
         UNCHANGED <<limit, rows>>,
         NEW s \in Stages \ {"idle"}, stage' = [stage EXCEPT ![r] = s],
         NEW o \in Origins, origin' = [origin EXCEPT ![r] = o],
         s /= "done" => o = "none",
         s \in Handing \/ o \in {"cache", "db", "rest"} => rows[r] /= <<>>,
         \/ UNCHANGED failed /\ o \notin {"mock", "error"}
         \/ \E kind \in FaultKinds :
              /\ failed' = [failed EXCEPT ![r] = @ \cup {kind}]
              /\ o = "mock" => kind = "http"
              /\ o = "error" => kind = "body"
  PROVE  ServiceInv'
<1>1. /\ limit[r] \in Limits
      /\ Len(rows[r]) <= limit[r] /\ Len(rows[r]) <= MaxKlineLimit
      /\ Ascending(rows[r])
  BY RequestFacts DEF Progress, Lists
<1>2. /\ PerRequest' /\ Others(r)
      /\ \A q \in Requests : failed[q] \subseteq failed'[q]
  BY RequestFacts, RequestTyped
<1>3. /\ stage'[r] = s /\ origin'[r] = o /\ rows'[r] = rows[r]
      /\ limit'[r] = limit[r]
  BY RequestFacts DEF PerRequest
<1>4. (o = "mock" => "http" \in failed'[r]) /\ (o = "error" => "body" \in failed'[r])
  BY RequestFacts DEF PerRequest
<1> QED
  BY <1>1, <1>2, <1>3, <1>4, RequestMoves DEF Handing

\* The origin of a request that is not over stays as it is.
LEMMA NoOriginYet ==
  ASSUME ServiceInv, NEW r \in Requests, stage[r] /= "done", UNCHANGED origin
  PROVE  origin' = [origin EXCEPT ![r] = "none"]
BY RequestFacts DEF Progress, PerRequest

LEMMA NeedPoolTo ==
  ASSUME NEW r, NEW use \in {"read", "seed"}, NeedPool(r, use)
  PROVE  \E s \in Stages \ {"idle", "done"} :
           /\ stage' = [stage EXCEPT ![r] = s]
           /\ s \in Handing => use = "seed"
<1>1. stage' = [stage EXCEPT ![r] = IF pool = {} THEN Opening(use) ELSE use]
  BY DEF NeedPool, Goto
<1>2. /\ Opening(use) \in Stages \ {"idle", "done"} /\ use \in Stages \ {"idle", "done"}
      /\ use = "read" => Opening(use) \notin Handing /\ use \notin Handing
  BY DEF Opening, Stages, Handing
<1> QED
  BY <1>1, <1>2

\* What a request does with the rows it has: open the pool, hand them to the
\* cache or to klines, or go without.
LEMMA OpenPoolStep ==
  ASSUME ServiceInv, NEW r \in Requests, NEW use \in {"read", "seed"}, OpenPool(r, use)
  PROVE  ServiceInv'
<1>1. Shared' /\ UNCHANGED <<limit, rows, origin, failed>>
  BY RequestFacts DEF OpenPool, Shared, Ascending, ghosts
<1>2. stage[r] \notin {"idle", "done"} /\ (use = "seed" => rows[r] /= <<>>)
  BY RequestFacts DEF OpenPool, Opening, Progress
<1>3. origin' = [origin EXCEPT ![r] = "none"]
  BY <1>1, <1>2, NoOriginYet
<1>4. stage' = [stage EXCEPT ![r] = use] /\ use \in Stages \ {"idle"}
  BY DEF OpenPool, Goto, Stages
<1> QED
  BY <1>1, <1>2, <1>3, <1>4, SameRowsStep DEF Origins, Handing

LEMMA FaultOrNot ==
  ASSUME Shared, PerRequest, NEW r \in Requests, NEW kind,
         UNCHANGED ghosts \/ FaultOf(r, kind)
  PROVE  /\ faults' \in 0..MaxFaults
         /\ \/ UNCHANGED failed
            \/ kind \in FaultKinds /\ failed' = [failed EXCEPT ![r] = @ \cup {kind}]
<1>1. faults' \in 0..MaxFaults
  BY FaultTyped DEF Shared, ghosts
<1> QED
  BY <1>1 DEF FaultOf, Fault, ghosts

LEMMA SeedCacheStep ==
  ASSUME ServiceInv, NEW r \in Requests, SeedCache(r) \/ SeedCacheFails(r)
  PROVE  ServiceInv'
<1>0. /\ stage[r] \in {"cache db rows", "cache rest rows"}
      /\ cache' \in {cache, rows[r]} /\ Seeded(r)
      /\ UNCHANGED <<warm, limit, rows, pools, klines, now>>
      /\ UNCHANGED ghosts \/ FaultOf(r, "cache")
  BY DEF SeedCache, SeedCacheFails
<1>1. /\ faults' \in 0..MaxFaults
      /\ \/ UNCHANGED failed
         \/ "cache" \in FaultKinds /\ failed' = [failed EXCEPT ![r] = @ \cup {"cache"}]
  BY <1>0, RequestFacts, FaultOrNot
<1>2. /\ rows[r] /= <<>> /\ Len(rows[r]) <= MaxKlineLimit /\ Ascending(rows[r])
  BY <1>0, RequestFacts DEF Progress, Lists
<1>3. Shared'
  BY <1>0, <1>1, <1>2, RequestFacts DEF Shared, Ascending, pools
<1>4. CASE stage[r] = "cache db rows"
  <2>1. /\ stage' = [stage EXCEPT ![r] = "done"] /\ "done" \in Stages
        /\ origin' = [origin EXCEPT ![r] = "db"] /\ "db" \in Origins
    BY <1>0, <1>4 DEF Seeded, Answer, Goto, Stages, Origins
  <2> QED
    BY <1>0, <1>1, <1>2, <1>3, <2>1, SameRowsStep
<1>5. CASE stage[r] /= "cache db rows"
  <2>1. UNCHANGED origin /\ NeedPool(r, "seed")
    BY <1>0, <1>5 DEF Seeded
  <2>2. PICK s \in Stages \ {"idle", "done"} : stage' = [stage EXCEPT ![r] = s]
    BY <2>1, NeedPoolTo
  <2>3. origin' = [origin EXCEPT ![r] = "none"] /\ "none" \in Origins
    BY <1>0, <2>1, NoOriginYet DEF Origins
  <2> QED
    BY <1>0, <1>1, <1>2, <1>3, <2>2, <2>3, SameRowsStep
<1> QED
  BY <1>4, <1>5

LEMMA SeedDbStep ==
  ASSUME ServiceInv, NEW r \in Requests, SeedDb(r) \/ SeedDbFails(r)
  PROVE  ServiceInv'
<1>0. /\ stage[r] \in {"open to seed", "seed"}
      /\ klines' \in {klines, Inserted(rows[r])}
      /\ UNCHANGED <<warm, limit, rows, pools, cache, now>>
      /\ UNCHANGED ghosts \/ FaultOf(r, "db")
  BY DEF SeedDb, SeedDbFails
<1>1. /\ faults' \in 0..MaxFaults
      /\ \/ UNCHANGED failed
         \/ "db" \in FaultKinds /\ failed' = [failed EXCEPT ![r] = @ \cup {"db"}]
  BY <1>0, RequestFacts, FaultOrNot
<1>2. rows[r] /= <<>>
  BY <1>0, RequestFacts DEF Progress
<1>3. klines' \in [Candles -> {"none", "open", "closed"}]
  BY <1>0, RequestFacts, InsertedKeeps DEF Shared
<1>4. Shared'
  BY <1>0, <1>1, <1>3, RequestFacts DEF Shared, Ascending, pools
<1>5. /\ stage' = [stage EXCEPT ![r] = "done"] /\ "done" \in Stages
      /\ origin' = [origin EXCEPT ![r] = "rest"] /\ "rest" \in Origins
  BY DEF SeedDb, SeedDbFails, Answer, Goto, Stages, Origins
<1> QED
  BY <1>0, <1>1, <1>2, <1>4, <1>5, SameRowsStep

\* One source fails and the request goes on to the next, or there is none left.
LEMMA SourceFailsStep ==
  ASSUME ServiceInv, NEW r \in Requests,
         ReadCacheFails(r) \/ ReadDbFails(r) \/ FetchRestFails(r) \/ RestGarbage(r)
  PROVE  ServiceInv'
<1>1. UNCHANGED <<warm, limit, rows, pools, cache, klines, now>>
  BY DEF ReadCacheFails, ReadDbFails, FetchRestFails, RestGarbage
<1>2. stage[r] \notin {"idle", "done"}
  BY DEF ReadCacheFails, ReadDbFails, FetchRestFails, RestGarbage
<1>3. ASSUME NEW kind, FaultOf(r, kind)
      PROVE  /\ Shared' /\ kind \in FaultKinds
             /\ failed' = [failed EXCEPT ![r] = @ \cup {kind}]
  BY <1>1, <1>3, RequestFacts, FaultTyped DEF FaultOf, Fault, Shared, Ascending, pools
<1>4. CASE ReadCacheFails(r)
  <2>1. UNCHANGED origin /\ NeedPool(r, "read") /\ FaultOf(r, "cache")
    BY <1>4 DEF ReadCacheFails
  <2>2. PICK s \in Stages \ {"idle", "done"} :
          stage' = [stage EXCEPT ![r] = s] /\ s \notin Handing
    BY <2>1, NeedPoolTo
  <2>3. origin' = [origin EXCEPT ![r] = "none"] /\ "none" \in Origins
    BY <1>2, <2>1, NoOriginYet DEF Origins
  <2> QED
    BY <1>1, <1>2, <1>3, <2>1, <2>2, <2>3, SameRowsStep
<1>5. CASE ReadDbFails(r)
  <2>1. /\ UNCHANGED origin /\ FaultOf(r, "db")
        /\ stage' = [stage EXCEPT ![r] = "rest"] /\ "rest" \in Stages
        /\ "rest" \notin Handing
    BY <1>5 DEF ReadDbFails, Goto, Stages, Handing
  <2>2. origin' = [origin EXCEPT ![r] = "none"] /\ "none" \in Origins
    BY <1>2, <2>1, NoOriginYet DEF Origins
  <2> QED
    BY <1>1, <1>2, <1>3, <2>1, <2>2, SameRowsStep
<1>6. CASE FetchRestFails(r)
  <2>1. /\ FaultOf(r, "http") /\ "done" \in Stages /\ "done" \notin Handing
        /\ stage' = [stage EXCEPT ![r] = "done"]
        /\ origin' = [origin EXCEPT ![r] = "mock"] /\ "mock" \in Origins
    BY <1>6 DEF FetchRestFails, Answer, Goto, Stages, Origins, Handing
  <2> QED
    BY <1>1, <1>2, <1>3, <2>1, SameRowsStep
<1>7. CASE RestGarbage(r)
  <2>1. /\ FaultOf(r, "body") /\ "done" \in Stages /\ "done" \notin Handing
        /\ stage' = [stage EXCEPT ![r] = "done"]
        /\ origin' = [origin EXCEPT ![r] = "error"] /\ "error" \in Origins
    BY <1>7 DEF RestGarbage, Answer, Goto, Stages, Origins, Handing
  <2> QED
    BY <1>1, <1>2, <1>3, <2>1, SameRowsStep
<1> QED
  BY <1>4, <1>5, <1>6, <1>7

LEMMA ServiceStep == ServiceInv /\ [Next]_vars => ServiceInv'
<1> SUFFICES ASSUME ServiceInv, [Next]_vars PROVE ServiceInv'
  OBVIOUS
<1>1. CASE \/ Preload \/ PreloadFails \/ Expire \/ CloseCandle
           \/ \E n \in Candles : StoreLive(n) \/ Recover(n)
           \/ UNCHANGED vars
  BY <1>1, SurroundingsStep
<1>2. CASE \E r \in Requests : Step(r)
  BY <1>2, ReadCacheStep, ReadDbStep, FetchRestStep, OpenPoolStep, SeedCacheStep,
     SeedDbStep, SourceFailsStep DEF Step
<1>3. CASE \E r \in Requests : \E l \in Limits : Ask(r, l)
  BY <1>3, AskStep
<1> QED
  BY <1>1, <1>2, <1>3 DEF Next

\* Every list a request holds is a list of candles no longer than it asked for.
THEOREM ServiceTypeOK == Spec => []TypeOK
<1> QED
  BY InitService, ServiceStep, ServiceTypes, PTL DEF Spec

\* An answer from the cache, klines or the exchange is a non-empty list in
\* ascending order of time, whoever seeded the cache and with what.
THEOREM ServiceInOrder == Spec => []AnswerInOrder
<1> QED
  BY InitService, ServiceStep, ServiceTypes, PTL DEF Spec

\* Invented candles answer only a request whose call of the exchange failed, an
\* error only one whose call returned what is not JSON.
THEOREM ServiceLastResort == Spec => []LastResort
<1> QED
  BY InitService, ServiceStep, ServiceTypes, PTL DEF Spec

\* No step of the service or of the other writers takes a closed row back: what
\* each of them may do to klines is to insert or to recover.
THEOREM ServiceClosedStays == Spec => ClosedStays
<1> DEFINE Kept == \A n \in Candles : klines[n] = "closed" => klines'[n] = "closed"
<1>1. ServiceInv /\ [Next]_vars => Kept
  <2> SUFFICES ASSUME ServiceInv, [Next]_vars, NEW n \in Candles, klines[n] = "closed"
               PROVE  klines'[n] = "closed"
    OBVIOUS
  <2>1. klines \in [Candles -> {"none", "open", "closed"}]
    BY DEF ServiceInv, Shared
  <2>2. \A s \in Seq(Items) : Inserted(s)[n] = "closed"
    BY <2>1, InsertedKeeps
  <2>3. CASE \E r \in Requests : SeedDb(r) \/ SeedDbFails(r)
    <3>1. PICK r \in Requests : klines' \in {klines, Inserted(rows[r])}
      BY <2>3 DEF SeedDb, SeedDbFails
    <3> QED
      BY <2>2, <3>1, RequestFacts
  <2>4. CASE \E m \in Candles : StoreLive(m) \/ Recover(m)
    <3>1. PICK m \in Candles : StoreLive(m) \/ Recover(m)
      BY <2>4
    <3>2. <<Item(m, "closed")>> \in Seq(Items)
      BY DEF Item, Items
    <3> QED
      BY <2>1, <2>2, <3>1, <3>2 DEF StoreLive, Recover
  <2>5. CASE UNCHANGED klines
    BY <2>5
  <2>6. ASSUME NEW r \in Requests, Step(r)
        PROVE  SeedDb(r) \/ SeedDbFails(r) \/ UNCHANGED klines
    BY <2>6 DEF Step, ReadCache, ReadCacheFails, OpenPool, ReadDb, ReadDbFails,
                FetchRest, FetchRestFails, RestGarbage, SeedCache, SeedCacheFails
  <2>7. ASSUME NEW r \in Requests, NEW l \in Limits, Ask(r, l)
        PROVE  UNCHANGED klines
    BY <2>7 DEF Ask
  <2>8. CASE Preload \/ PreloadFails \/ Expire \/ CloseCandle \/ UNCHANGED vars
    BY <2>5, <2>8 DEF Preload, PreloadFails, Expire, CloseCandle, vars
  <2> QED
    BY <2>3, <2>4, <2>5, <2>6, <2>7, <2>8 DEF Next
<1> HIDE DEF Kept
<1>2. Spec => []ServiceInv
  BY InitService, ServiceStep, PTL DEF Spec
<1>3. Spec => [][Kept]_vars
  BY <1>1, <1>2, PTL DEF Spec
<1> QED
  BY <1>3 DEF Kept, ClosedStays
=============================================================================
